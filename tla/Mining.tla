------------------------------- MODULE Mining -------------------------------
(***************************************************************************)
(* Workshares and mining: the live workshare pool and the orphan pool      *)
(* (src/src/node.rs: WorksharePool, submit_workshare, register_template,   *)
(* mining_candidate, the Template and Workshare arms of handle_wire,       *)
(* process_pending_workshares) and the mining threads (src/src/miner.rs).  *)
(*                                                                         *)
(* Three kinds of threads meet here. Locks decide what is one step:        *)
(*   - a worker builds a candidate under the chain read lock, but takes    *)
(*     and releases the configuration, pool and generation in turn, so the *)
(*     building is four steps during which no block is published;          *)
(*   - submit_workshare holds chain (read) and pool while it accepts, so   *)
(*     that is one step; the generation is counted in a second, without    *)
(*     the locks;                                                          *)
(*   - the handler of a peer's message releases the pool lock before it    *)
(*     takes the orphan lock, so an orphan is kept in a second step, and   *)
(*     every turn of process_pending_workshares and the request for what   *)
(*     is still missing (pending_request_for) are steps.                   *)
(* Publish stands for the end of submit_block (see ChainStore), under the  *)
(* chain write lock.                                                       *)
(*                                                                         *)
(* Every share of a pool has the same bits, so a path weighs its length.   *)
(* Timestamps grow along a chain, so the median time that bounds them from *)
(* below (median_time_past) is never above the parent's.                   *)
(***************************************************************************)
EXTENDS Integers, FiniteSets, Functions

CONSTANTS
  Worker, Peer,
  Template,         \* transaction lists that a candidate may be built from
  TemplateSize,     \* their encoded sizes
  Applies,          \* the transaction lists that validate_template_transactions
                    \* accepts on a block, as pairs of the block and the list
  ShareId,          \* ids of workshares: numbers, because ties go to the lower
  Addr,             \* payout addresses
  Remote,           \* parent, template, time and validity of the workshares
                    \* of other miners
  NoPeer,           \* an id that is not among the orphans
  MaxPath,          \* MAX_WORKSHARES_PER_BLOCK
  MaxShares,        \* 8_192 in WorksharePool::accept
  MaxTemplates,     \* MAX_TEMPLATES_PER_BLOCK
  MaxTemplateBytes, \* 64 MiB in WorksharePool::register_template
  MaxOrphans,       \* 2_048 in handle_wire
  MaxWitnessBytes,  \* MAX_WORKSHARE_WITNESS_BYTES
  Future,           \* MAX_FUTURE_BLOCK_TIME
  MaxTip,           \* bound: published blocks
  MaxNow,           \* bound: the clock
  MaxConfigs        \* bound: configuration changes

NoShare == 0        \* Hash32::ZERO

ASSUME MiningAssumption ==
  /\ ShareId \subseteq Nat \ {0} /\ IsFiniteSet(ShareId)
  /\ IsFiniteSet(Template) /\ TemplateSize \in [Template -> Nat]
  /\ Applies \subseteq (0..MaxTip) \X Template
  /\ Addr # {} /\ Template # {} /\ NoPeer \notin Peer
  /\ {MaxPath, MaxShares, MaxTemplates, MaxTemplateBytes, MaxOrphans,
      MaxWitnessBytes, Future, MaxTip, MaxNow, MaxConfigs} \subseteq Nat
  /\ MaxPath > 0
  /\ Remote \subseteq [anchor : 0..(MaxTip + 1), tmpl : Template, time : Nat,
                       valid : BOOLEAN]

VARIABLES
  tip,         \* the published tips, numbered, stand for their blocks
  tipTime,     \* the timestamp of the tip
  made,        \* every workshare that exists anywhere, by id
  \* WorksharePool.
  anchor, templates, shares, pathWork, best,
  pending,     \* pending_workshares: the peer each orphan came from
  generation,
  config,      \* runtime_mining: payout address and enabled workers
  changes,     \* configuration changes so far
  worker,      \* the mining threads
  handler,     \* the threads that serve the peers
  asked,       \* GetData for dependencies, not answered yet, by peer
  now          \* unix_time

pool == <<anchor, templates, shares, pathWork, best>>
chain == <<tip, tipTime>>
vars == <<chain, made, pool, pending, generation, config, changes, worker,
          handler, asked, now>>

\* The parent of shares made elsewhere: a tip of this node, sooner or later,
\* or the block on the other side of a tie, which it never follows.
OtherTip == MaxTip + 1
Anchor == 0..OtherTip

Time == 0..(MaxNow + MaxTip + Future)
Workshare ==
  [anchor : Anchor, prev : ShareId \cup {NoShare}, tmpl : Template,
   time : Nat, valid : BOOLEAN]
Made == DOMAIN made
Config == [addr : Addr, active : SUBSET Worker]

Candidate ==
  [pc : {"idle", "start", "witness", "register", "stamp", "hash", "submit",
         "changed"},
   addr : Addr, tip : 0..MaxTip, tmpl : Template,
   prev : ShareId \cup {NoShare}, time : Nat, gen : Nat,
   share : ShareId \cup {NoShare}]

NoCandidate ==
  [pc |-> "idle", addr |-> CHOOSE a \in Addr : TRUE, tip |-> 0,
   tmpl |-> CHOOSE t \in Template : TRUE, prev |-> NoShare, time |-> 0,
   gen |-> 0, share |-> NoShare]

Init ==
  /\ tip = 0 /\ tipTime = 0 /\ made = <<>>
  /\ anchor = 0 /\ templates = {} /\ shares = {} /\ best = NoShare
  /\ pathWork = [i \in ShareId |-> 0]
  /\ pending = [i \in ShareId |-> NoPeer]
  /\ generation = 0 /\ changes = 0
  /\ config \in [addr : {CHOOSE a \in Addr : TRUE}, active : {Worker}]
  /\ worker = [w \in Worker |-> NoCandidate]
  /\ handler = [p \in Peer |-> [pc |-> "idle", id |-> NoShare]]
  /\ asked = [p \in Peer |-> {}]
  /\ now = 0

-----------------------------------------------------------------------------
(* WorksharePool.                                                          *)

\* The workshares from the first one of its chain to i, as a set. A share's
\* id is a hash over its predecessor's id, so there are no cycles.
Path(i) ==
  LET path[n \in 0..Cardinality(ShareId)] ==
        IF n = 0 THEN {i} \ {NoShare}
        ELSE path[n - 1] \cup ({made[j].prev : j \in path[n - 1]} \ {NoShare})
  IN  path[Cardinality(ShareId)]

\* The size of the witness that ends in i, by its templates.
WitnessBytes(i) ==
  LET used == {made[j].tmpl : j \in Path(i)}
  IN  SumFunction([t \in used |-> TemplateSize[t]])

\* candidate_witness finds the templates and the predecessors.
CandidateWitness(i) ==
  /\ made[i].anchor = anchor
  /\ \A j \in Path(i) : made[j].tmpl \in templates /\ (j # i => j \in shares)
  /\ Cardinality(Path(i)) <= MaxPath

\* validate_workshares, for a block or a moment `settle`. valid stands for
\* roots, bits and proof of work.
ValidateWorkshares(i, parentTime, settle) ==
  \A j \in Path(i) :
    made[j].valid /\ made[j].time > parentTime /\ made[j].time <= settle

\* The share that accept leaves as the tip once i, with its work, is in.
BetterTip(i, work) ==
  LET old == IF best = NoShare THEN 0 ELSE pathWork[best]
  IN  IF work > old \/ (work = old /\ i < best) THEN i ELSE best

\* Mutation: a share is accepted without its predecessors.
SubmitWorkshareLoose(i) ==
  IF made[i].anchor = anchor /\ made[i].valid /\ i \notin shares
    THEN /\ shares' = shares \cup {i}
         /\ pathWork' = [pathWork EXCEPT ![i] = 1]
         /\ best' = BetterTip(i, 1)
         /\ UNCHANGED <<anchor, templates>>
    ELSE UNCHANGED pool

\* Node::submit_workshare up to the release of its locks: candidate_witness,
\* validate_workshares and accept. If that moved the tip of the pool, the
\* caller's next step is the new generation.
SubmitWorkshare(i) ==
  LET work == 1 + IF made[i].prev = NoShare THEN 0 ELSE pathWork[made[i].prev]
  IN  IF /\ CandidateWitness(i)
         /\ ValidateWorkshares(i, tipTime, now + Future)
         /\ i \notin shares /\ Cardinality(shares) < MaxShares
      THEN /\ shares' = shares \cup {i}
           /\ pathWork' = [pathWork EXCEPT ![i] = work]
           /\ best' = BetterTip(i, work)
           /\ UNCHANGED <<anchor, templates>>
      ELSE UNCHANGED pool

\* WorksharePool::register_template has room for t, or has it.
HasRoom(t) ==
  \/ t \in templates
  \/ /\ Cardinality(templates) < MaxTemplates
     /\ SumFunction([u \in templates |-> TemplateSize[u]]) + TemplateSize[t]
          <= MaxTemplateBytes

RegisterTemplate(t) ==
  /\ templates' = IF HasRoom(t) THEN templates \cup {t} ELSE templates
  /\ UNCHANGED <<anchor, shares, pathWork, best>>

\* Mutation: the workers are not told.
PublishSilently(time) ==
  /\ tip < MaxTip
  /\ tip' = tip + 1 /\ tipTime' = time
  /\ anchor' = tip + 1 /\ templates' = {} /\ shares' = {} /\ best' = NoShare
  /\ pathWork' = [i \in ShareId |-> 0]
  /\ pending' = [i \in ShareId |-> NoPeer]
  /\ UNCHANGED generation

\* The end of submit_block: a new tip, an empty pool for it, no orphans, a new
\* generation. The write lock waits for the workers that build a candidate.
Publish(time) ==
  /\ tip < MaxTip
  /\ tip' = tip + 1 /\ tipTime' = time
  /\ anchor' = tip + 1 /\ templates' = {} /\ shares' = {} /\ best' = NoShare
  /\ pathWork' = [i \in ShareId |-> 0]
  /\ pending' = [i \in ShareId |-> NoPeer]
  /\ generation' = generation + 1

ChainLockFree ==
  \A w \in Worker : worker[w].pc \notin {"witness", "register", "stamp"}

-----------------------------------------------------------------------------
(* mine_loop and mining_candidate.                                         *)

\* Worker w, at pc, moves to c.
Advance(w, pc, c) == worker[w].pc = pc /\ worker' = [worker EXCEPT ![w] = c]

\* The checks at the top of the loop.
CheckEnabled(w) ==
  /\ w \in config.active
  /\ Advance(w, "idle", [worker[w] EXCEPT !.pc = "start"])
  /\ UNCHANGED <<chain, made, pool, pending, generation, config, changes,
                 handler, asked, now>>

\* mining_candidate takes the chain lock, selects transactions that apply to the
\* tip (see Mempool) and reads the payout address.
ReadConfig(w, t) ==
  /\ <<tip, t>> \in Applies
  /\ Advance(w, "start", [worker[w] EXCEPT !.pc = "witness", !.tip = tip,
                            !.addr = config.addr, !.tmpl = t])
  /\ UNCHANGED <<chain, made, pool, pending, generation, config, changes,
                 handler, asked, now>>

\* The witness of the pool, then the timestamp.
ReadWitness(w) ==
  /\ Advance(w, "witness", [worker[w] EXCEPT !.pc = "register",
       !.prev = best, !.time = IF now > tipTime THEN now ELSE tipTime + 1])
  /\ UNCHANGED <<chain, made, pool, pending, generation, config, changes,
                 handler, asked, now>>

\* The candidate's own template; without room for it there is no candidate.
AddTemplate(w) ==
  /\ Advance(w, "register", IF HasRoom(worker[w].tmpl)
                             THEN [worker[w] EXCEPT !.pc = "stamp"]
                             ELSE NoCandidate)
  /\ RegisterTemplate(worker[w].tmpl)
  /\ UNCHANGED <<chain, made, pending, generation, config, changes, handler,
                 asked, now>>

\* The generation is read last, and the chain lock released.
Stamp(w) ==
  /\ Advance(w, "stamp", [worker[w] EXCEPT !.pc = "hash", !.gen = generation])
  /\ UNCHANGED <<chain, made, pool, pending, generation, config, changes,
                 handler, asked, now>>

\* The top of the hashing loop.
NoticeGeneration(w) ==
  /\ worker[w].gen # generation
  /\ Advance(w, "hash", NoCandidate)
  /\ UNCHANGED <<chain, made, pool, pending, generation, config, changes,
                 handler, asked, now>>

\* A timeout of the loop, an error of RandomX, a disabled node, or a block
\* that submit_block refuses or keeps on a side chain.
GiveUp(w) ==
  /\ Advance(w, "hash", NoCandidate)
  /\ UNCHANGED <<chain, made, pool, pending, generation, config, changes,
                 handler, asked, now>>

\* A hash between the two targets: a new share, submitted next.
FindShare(w, i) ==
  /\ i \in ShareId \ Made
  /\ Advance(w, "hash", [worker[w] EXCEPT !.pc = "submit", !.share = i])
  /\ made' = [j \in Made \cup {i} |-> IF j = i
       THEN [anchor |-> worker[w].tip, prev |-> worker[w].prev,
             tmpl |-> worker[w].tmpl, time |-> worker[w].time, valid |-> TRUE]
       ELSE made[j]]
  /\ UNCHANGED <<chain, pool, pending, generation, config, changes, handler,
                 asked, now>>

SubmitFound(w) ==
  /\ worker[w].pc = "submit" /\ SubmitWorkshare(worker[w].share)
  /\ Advance(w, "submit", IF best' = best THEN NoCandidate
                          ELSE [NoCandidate EXCEPT !.pc = "changed"])
  /\ UNCHANGED <<chain, made, pending, generation, config, changes, handler,
                 asked, now>>

\* The end of submit_workshare, without its locks.
CountFound(w) ==
  /\ Advance(w, "changed", NoCandidate)
  /\ generation' = generation + 1
  /\ UNCHANGED <<chain, made, pool, pending, config, changes, handler, asked, now>>

\* What validate_block asks of the candidate's witness: its size, and shares
\* that are no later than the block.
WitnessFits(c) == WitnessBytes(c.prev) <= MaxWitnessBytes
WitnessSettled(c) == \A j \in Path(c.prev) : made[j].time <= c.time

\* A hash below the block target: submit_block, unless the candidate's time,
\* one above its parent's, is too far ahead of the clock. On the tip the block is
\* published if it is valid; a sibling of the tip may win the tie.
FindBlock(w) ==
  LET c == worker[w] IN
  /\ ChainLockFree
  /\ Advance(w, "hash", NoCandidate)
  /\ WitnessFits(c) /\ WitnessSettled(c) /\ c.time <= now + Future
  /\ Publish(c.time)
  /\ UNCHANGED <<made, config, changes, handler, asked, now>>

\* A peer's block, or a reorganization.
PeerBlock(time) ==
  /\ ChainLockFree
  /\ time > tipTime /\ time <= now + Future
  /\ Publish(time)
  /\ UNCHANGED <<made, config, changes, worker, handler, asked, now>>

-----------------------------------------------------------------------------
(* The Template and Workshare arms of handle_wire.                         *)

HandlerAt(p, pc, new) == handler[p].pc = pc /\ handler' = [handler EXCEPT ![p] = new]
At(pc) == [pc |-> pc, id |-> NoShare]
Idle == At("idle")

\* The objects of GetData messages. A template's id is a hash over its parent.
TemplateOf(a, t) == [kind |-> "Template", anchor |-> a, tmpl |-> t]
ShareOf(i) == [kind |-> "Workshare", id |-> i]
Object ==
  [kind : {"Template"}, anchor : Anchor, tmpl : Template]
    \cup [kind : {"Workshare"}, id : ShareId]

\* A remote miner finds a workshare on its own tip.
RemoteShare(i, prev, r) ==
  /\ i \in ShareId \ Made
  /\ r.time <= now + Future
  /\ prev = NoShare \/ (prev \in Made /\ made[prev].anchor = r.anchor)
  /\ made' = [j \in Made \cup {i} |-> IF j = i
       THEN [anchor |-> r.anchor, prev |-> prev, tmpl |-> r.tmpl,
             time |-> r.time, valid |-> r.valid]
       ELSE made[j]]
  /\ UNCHANGED <<chain, pool, pending, generation, config, changes, worker,
                 handler, asked, now>>

\* What arrives from p is no longer outstanding, if it was asked for at all.
Arrived(p, object) == asked' = [asked EXCEPT ![p] = @ \ {object}]

\* Node::register_template refuses templates for another parent than the tip,
\* those that do not apply to it, and those it has no room for.
Registers(a, t) ==
  a = tip /\ (t \in templates \/ <<tip, t>> \in Applies) /\ HasRoom(t)

ReceiveTemplate(p, a, t) ==
  /\ HandlerAt(p, "idle", At(IF Registers(a, t) THEN "process" ELSE "reply"))
  /\ Arrived(p, TemplateOf(a, t))
  /\ IF Registers(a, t) THEN RegisterTemplate(t) ELSE UNCHANGED pool
  /\ UNCHANGED <<chain, made, pending, generation, config, changes, worker,
                 now>>

HasTemplate(i) == made[i].anchor = anchor /\ made[i].tmpl \in templates
HasPrevious(i) == made[i].prev = NoShare \/ made[i].prev \in shares
Ready(i) == HasTemplate(i) /\ HasPrevious(i)

\* The pool lock is held for this check only.
ReceiveShare(p, i) ==
  /\ i \in Made
  /\ HandlerAt(p, "idle", [pc |-> IF Ready(i) THEN "submit" ELSE "insert",
                           id |-> i])
  /\ Arrived(p, ShareOf(i))
  /\ UNCHANGED <<chain, made, pool, pending, generation, config, changes,
                 worker, now>>

Orphans == {i \in ShareId : pending[i] # NoPeer}

\* Mutation: the orphan pool has no limit.
InsertOrphanUnbounded(p) ==
  /\ HandlerAt(p, "insert", At("reply"))
  /\ pending' = [pending EXCEPT ![handler[p].id] = p]
  /\ UNCHANGED <<chain, made, pool, generation, config, changes, worker, asked,
                 now>>

\* Kept for its dependencies, if there is room and no other peer sent it.
InsertOrphan(p) ==
  /\ HandlerAt(p, "insert", At("reply"))
  /\ pending' = IF /\ Cardinality(Orphans) < MaxOrphans
                   /\ pending[handler[p].id] = NoPeer
                THEN [pending EXCEPT ![handler[p].id] = p] ELSE pending
  /\ UNCHANGED <<chain, made, pool, generation, config, changes, worker, asked,
                 now>>

SubmitReceived(p) ==
  /\ handler[p].pc = "submit" /\ SubmitWorkshare(handler[p].id)
  /\ HandlerAt(p, "submit", At(IF best' = best THEN "process" ELSE "changed"))
  /\ UNCHANGED <<chain, made, pending, generation, config, changes, worker,
                 asked, now>>

CountReceived(p) ==
  /\ HandlerAt(p, "changed", At("process"))
  /\ generation' = generation + 1
  /\ UNCHANGED <<chain, made, pool, pending, config, changes, worker, asked,
                 now>>

\* One turn of process_pending_workshares: an orphan that is ready leaves the
\* orphan pool and is submitted, or there is none and the handler replies.
TakeReady(p, i) ==
  /\ i \in Orphans /\ Ready(i)
  /\ HandlerAt(p, "process", [pc |-> "submit", id |-> i])
  /\ pending' = [pending EXCEPT ![i] = NoPeer]
  /\ UNCHANGED <<chain, made, pool, generation, config, changes, worker, asked,
                 now>>

\* Mutation: the handler is done once nothing is ready.
NoneReadySilent(p) ==
  /\ \A i \in Orphans : ~Ready(i)
  /\ HandlerAt(p, "process", Idle)
  /\ UNCHANGED <<chain, made, pool, pending, generation, config, changes,
                 worker, asked, now>>

NoneReady(p) ==
  /\ \A i \in Orphans : ~Ready(i)
  /\ HandlerAt(p, "process", At("reply"))
  /\ UNCHANGED <<chain, made, pool, pending, generation, config, changes,
                 worker, asked, now>>

\* Mutation: predecessors are not asked for.
MissingTemplates(p) ==
  {TemplateOf(made[i].anchor, made[i].tmpl)
     : i \in {j \in Orphans : pending[j] = p /\ ~Ready(j)}}

\* What an orphan misses: its template first, then its predecessor.
MissingOf(i) ==
  IF HasTemplate(i) THEN ShareOf(made[i].prev)
                    ELSE TemplateOf(made[i].anchor, made[i].tmpl)

\* What the orphans of p miss.
Missing(p) ==
  {MissingOf(i) : i \in {j \in Orphans : pending[j] = p /\ ~Ready(j)}}

\* The answer to p is pending_request_for: one of these, whichever the map
\* yields first.
Reply(p) ==
  /\ HandlerAt(p, "reply", Idle)
  /\ \/ Missing(p) = {} /\ UNCHANGED asked
     \/ \E object \in Missing(p) : asked' = [asked EXCEPT ![p] = @ \cup {object}]
  /\ UNCHANGED <<chain, made, pool, pending, generation, config, changes,
                 worker, now>>

\* peer_disconnected.
Disconnect(p) ==
  /\ handler[p].pc = "idle"
  /\ pending' = [i \in ShareId |-> IF pending[i] = p THEN NoPeer
                                                     ELSE pending[i]]
  /\ asked' = [asked EXCEPT ![p] = {}]
  /\ UNCHANGED <<chain, made, pool, generation, config, changes, worker,
                 handler, now>>

-----------------------------------------------------------------------------

\* apply_mining_config.
ApplyMiningConfig(c) ==
  /\ changes < MaxConfigs
  /\ config' = c /\ changes' = changes + 1
  /\ generation' = generation + 1
  /\ UNCHANGED <<chain, made, pool, pending, worker, handler, asked, now>>

Tick ==
  /\ now < MaxNow
  /\ now' = now + 1
  /\ UNCHANGED <<chain, made, pool, pending, generation, config, changes,
                 worker, handler, asked>>

WorkerStep(w) ==
  \/ CheckEnabled(w) \/ (\E t \in Template : ReadConfig(w, t))
  \/ ReadWitness(w) \/ AddTemplate(w) \/ Stamp(w)
  \/ NoticeGeneration(w) \/ GiveUp(w)
  \/ (\E i \in ShareId : FindShare(w, i)) \/ SubmitFound(w) \/ CountFound(w)
  \/ FindBlock(w)

\* What the handler does with a message it took.
HandlerWork(p) ==
  \/ InsertOrphan(p) \/ SubmitReceived(p) \/ CountReceived(p)
  \/ (\E i \in ShareId : TakeReady(p, i)) \/ NoneReady(p) \/ Reply(p)

HandlerStep(p) ==
  \/ \E a \in Anchor, t \in Template : ReceiveTemplate(p, a, t)
  \/ \E i \in ShareId : ReceiveShare(p, i)
  \/ HandlerWork(p) \/ Disconnect(p)

\* p answers what it was asked for.
Answered(p) ==
  \/ \E a \in Anchor, t \in Template :
       TemplateOf(a, t) \in asked[p] /\ ReceiveTemplate(p, a, t)
  \/ \E i \in ShareId : ShareOf(i) \in asked[p] /\ ReceiveShare(p, i)

Next ==
  \/ \E w \in Worker : WorkerStep(w)
  \/ \E p \in Peer : HandlerStep(p)
  \/ \E i \in ShareId, prev \in ShareId \cup {NoShare}, r \in Remote :
       RemoteShare(i, prev, r)
  \/ \E time \in Time : PeerBlock(time)
  \/ \E c \in Config : ApplyMiningConfig(c)
  \/ Tick

Spec == Init /\ [][Next]_vars

\* A hashing worker comes back to the top of its loop.
FairSpec == Spec /\ \A w \in Worker : WF_vars(NoticeGeneration(w))

\* Besides, the runtime polls the handlers, and the peers answer. The answer is
\* in the connection's stream: other messages arrive before it, not forever.
AnsweredSpec ==
  FairSpec /\ \A p \in Peer : WF_vars(HandlerWork(p)) /\ SF_vars(Answered(p))

-----------------------------------------------------------------------------
(* Properties.                                                             *)

\* Types: workshares that exist only, and no more orphans than handle_wire
\* allows, although every peer's handler inserts its own.
TypeOK ==
  /\ tip \in 0..MaxTip /\ {tipTime, now, generation, changes, anchor} \subseteq Nat
  /\ Made \subseteq ShareId /\ \A i \in Made : made[i] \in Workshare
  /\ templates \subseteq Template /\ shares \subseteq Made
  /\ best \in ShareId \cup {NoShare} /\ pathWork \in [ShareId -> Nat]
  /\ pending \in [ShareId -> Peer \cup {NoPeer}] /\ Orphans \subseteq Made
  /\ Cardinality(Orphans) <= MaxOrphans
  /\ config \in Config
  /\ worker \in [Worker -> Candidate]
  /\ \A w \in Worker : worker[w].pc = "submit" => worker[w].share \in Made
  /\ handler \in [Peer -> [pc : {"idle", "insert", "submit", "changed",
                                "process", "reply"},
                          id : ShareId \cup {NoShare}]]
  /\ \A p \in Peer : handler[p].pc \in {"insert", "submit"} =>
                         handler[p].id \in Made
  /\ asked \in [Peer -> SUBSET Object]

\* "accepted workshare path remains available" (node.rs:234): the witness of
\* the pool's tip can always be built, for the live tip, and path_work is the
\* work of the path. The pool's tip does not depend on the order in which the
\* shares arrived: it is the heaviest path, the lowest id among equals.
PathsComplete ==
  /\ anchor = tip
  /\ best # NoShare => best \in shares
  /\ \A i \in shares :
       /\ CandidateWitness(i) /\ pathWork[i] = Cardinality(Path(i))
       /\ \/ pathWork[i] < pathWork[best]
          \/ pathWork[i] = pathWork[best] /\ best <= i

\* What CurrentTip rests on: the chain lock held while a candidate is built, and
\* a generation that only grows.
BuiltOnTip ==
  \A w \in Worker :
    /\ worker[w].pc \in {"witness", "register", "stamp"} => worker[w].tip = tip
    /\ worker[w].pc = "hash" =>
         /\ worker[w].gen <= generation
         /\ worker[w].gen = generation => worker[w].tip = tip

\* A worker whose candidate carries the current generation works on the live
\* tip, although the generation is read after the rest of the candidate.
CurrentTip ==
  \A w \in Worker :
    worker[w].pc = "hash" /\ worker[w].gen = generation => worker[w].tip = tip

\* No worker hashes on an old tip for good.
LeavesOldTip ==
  \A w \in Worker :
    worker[w].pc = "hash" /\ worker[w].tip # tip ~> worker[w].pc # "hash"

\* "remaining bounded by the witness count/size limits" (params.rs:21-22):
\* the witness of the live pool fits into a block.
LiveWitnessFits == best # NoShare => WitnessBytes(best) <= MaxWitnessBytes

\* "locally mined block became stale" (miner.rs:163): a block found on the
\* live tip is not refused because of the witness the node itself chose.
OwnCandidateSettles ==
  \A w \in Worker :
    worker[w].pc = "hash" /\ worker[w].tip = tip => WitnessSettled(worker[w])

\* "Threads, Intensität, Mining-Adresse und Mining ein/aus werden live
\* übernommen" (RELEASE-4.0.1-rc.3.md:27): a worker whose candidate carries
\* the current generation works for the configured address.
ConfigApplied ==
  \A w \in Worker :
    worker[w].pc = "hash" /\ worker[w].gen = generation =>
      worker[w].addr = config.addr

\* "Workshares can arrive before their template or predecessor. Keep a
\* bounded, peer-attributed orphan pool" (node.rs:254-255): once the handlers
\* are idle, what is left in the orphan pool misses a dependency.
OrphansMissSomething ==
  (\A p \in Peer : handler[p].pc = "idle") => \A i \in Orphans : ~Ready(i)

\* "Missing Workshare templates and predecessors are requested"
\* (spec/PROTOCOL-9.md:197): while an idle peer's orphan misses something, the
\* peer has something to answer, although each answer asks for one object only
\* and the map decides which.
OrphansAsked ==
  \A p \in Peer :
    handler[p].pc = "idle" /\ Missing(p) # {} => asked[p] # {}

\* A share whose chain settles on the live tip, with room for its templates, its
\* shares and, in the orphan pool, its predecessors. A full pool drops what an
\* orphan waits for, and it is asked for again without end: a full orphan pool
\* (node.rs:1221) drops a predecessor that arrives before what it needs itself.
CanSettle(i) ==
  /\ ValidateWorkshares(i, tipTime, now + Future)
  /\ Cardinality(Path(i)) <= MaxPath
  /\ \A j \in Path(i) : Registers(made[j].anchor, made[j].tmpl)
  /\ Cardinality(shares) < MaxShares
  /\ \/ Cardinality(Orphans) < MaxOrphans
     \/ \A j \in Path(i) \ (shares \cup Orphans) : Ready(j)

\* Nor is there an orphan from the same peers that cannot settle, or that waits
\* for another orphan: the map may yield it first whenever something is asked
\* for, and what the other one misses never is (DependenciesRequested).
Settles(i) ==
  \A j \in Orphans :
    (\E k \in Path(i) : pending[k] = pending[j]) =>
      CanSettle(j) /\ made[j].prev \notin Orphans

\* Peers that answer get their orphans settled: such a share leaves the orphan
\* pool, or the tip or the clock changes, or something is in its way (Settles).
\* One that got ready between the check and the insertion
\* (OrphansMissSomething) is left alone.
OrphansSettle ==
  \A i \in ShareId :
    i \in Orphans ~> i \notin Orphans \/ Ready(i) \/ ~Settles(i)

\* "Missing Workshare templates and predecessors are requested"
\* (spec/PROTOCOL-9.md:197): what an orphan misses is asked for in the end,
\* unless the orphan leaves or gets ready first.
DependenciesRequested ==
  \A i \in ShareId :
    i \in Orphans ~>
      i \notin Orphans \/ Ready(i) \/ MissingOf(i) \in asked[pending[i]]
=============================================================================
