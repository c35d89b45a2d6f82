---------------------------- MODULE MiningProofs ----------------------------
(***************************************************************************)
(* Proofs about Mining: a missing dependency is asked for (OrphansAsked),  *)
(* a current generation means the current tip (CurrentTip) and the pool's  *)
(* tip is the heaviest path, with a witness that can be built              *)
(* (PathsComplete), for any workers, peers, shares and templates.          *)
(***************************************************************************)
EXTENDS Mining, FiniteSetTheorems, WellFoundedInduction, TLAPS

-----------------------------------------------------------------------------
(* The steps that several actions share.                                   *)

\* A submission changes the pool within its types, and removes nothing.
LEMMA SubmitSound ==
  ASSUME TypeOK, NEW i \in Made, SubmitWorkshare(i)
  PROVE  /\ anchor' = anchor /\ templates' = templates
         /\ shares \subseteq shares' /\ shares' \subseteq Made
         /\ best' \in ShareId \cup {NoShare}
         /\ pathWork' \in [ShareId -> Nat]
  <1>1. i \in ShareId /\ made[i].prev \in ShareId \cup {NoShare}
    BY DEF TypeOK, Workshare
  <1>2. 1 + (IF made[i].prev = NoShare THEN 0 ELSE pathWork[made[i].prev]) \in Nat
    BY <1>1 DEF TypeOK
  <1> QED BY <1>1, <1>2 DEF SubmitWorkshare, TypeOK, BetterTip, pool

\* A new share keeps the others.
LEMMA MadeSound ==
  ASSUME TypeOK, NEW i \in ShareId \ Made, NEW r \in Workshare,
         made' = [j \in Made \cup {i} |-> IF j = i THEN r ELSE made[j]]
  PROVE  /\ Made' = Made \cup {i} /\ Made' \subseteq ShareId
         /\ \A j \in Made' : made'[j] \in Workshare
         /\ \A j \in Made : made'[j] = made[j]
  BY DEF TypeOK, Made

-----------------------------------------------------------------------------
(* Types.                                                                  *)

\* The record of a worker without a candidate has the types of one with.
LEMMA NoCandidateType == NoCandidate \in Candidate
  <1>1. (CHOOSE a \in Addr : TRUE) \in Addr
    BY MiningAssumption
  <1>2. (CHOOSE t \in Template : TRUE) \in Template
    BY MiningAssumption
  <1> QED BY <1>1, <1>2, MiningAssumption DEF NoCandidate, Candidate

\* Types, to start with.
LEMMA InitType == Init => TypeOK
  <1> SUFFICES ASSUME Init PROVE TypeOK
    OBVIOUS
  <1> USE DEF Init
  <1>1. Made = {}
    BY DEF Made
  <1>2. Orphans = {} /\ pending \in [ShareId -> Peer \cup {NoPeer}]
    BY DEF Orphans
  <1>3. Cardinality(Orphans) <= MaxOrphans
    BY <1>2, FS_EmptySet, MiningAssumption
  <1>4. config \in Config
    <2>1. (CHOOSE a \in Addr : TRUE) \in Addr
      BY MiningAssumption
    <2> QED BY <2>1 DEF Config
  <1>5. worker \in [Worker -> Candidate]
    BY NoCandidateType
  <1>6. \A w \in Worker : worker[w].pc # "submit"
    BY DEF NoCandidate
  <1>7. asked \in [Peer -> SUBSET Object]
    OBVIOUS
  <1>8. tip \in 0..MaxTip /\ {tipTime, now, generation, changes, anchor} \subseteq Nat
    BY MiningAssumption
  <1>9. /\ handler \in [Peer -> [pc : {"idle", "insert", "submit", "changed",
                                "process", "reply"},
                          id : ShareId \cup {NoShare}]]
        /\ \A p \in Peer : handler[p].pc \notin {"insert", "submit"}
    OBVIOUS
  <1>10. pathWork \in [ShareId -> Nat] /\ best \in ShareId \cup {NoShare}
    OBVIOUS
  <1>11. \A i \in Made : made[i] \in Workshare
    BY <1>1
  <1> QED BY <1>1, <1>2, <1>3, <1>4, <1>5, <1>6, <1>7, <1>8, <1>9, <1>10, <1>11
          DEF TypeOK

\* What a worker's record holds.
LEMMA CandidateType ==
  ASSUME TypeOK, NEW w \in Worker
  PROVE  /\ worker[w] \in Candidate /\ worker[w].addr \in Addr
         /\ worker[w].tip \in 0..MaxTip /\ worker[w].tmpl \in Template
         /\ worker[w].prev \in ShareId \cup {NoShare} /\ worker[w].time \in Nat
         /\ worker[w].gen \in Nat /\ worker[w].share \in ShareId \cup {NoShare}
  BY DEF TypeOK, Candidate

\* A step of one worker; what else it changes keeps its types.
LEMMA WorkerType ==
  ASSUME TypeOK, NEW w \in Worker, NEW c \in Candidate,
         worker' = [worker EXCEPT ![w] = c],
         c.pc = "submit" => c.share \in Made',
         Made \subseteq Made'
  PROVE  /\ worker' \in [Worker -> Candidate]
         /\ \A v \in Worker : worker'[v].pc = "submit" => worker'[v].share \in Made'
  BY DEF TypeOK

\* The types after a step of a worker.
LEMMA WorkerStepType ==
  ASSUME TypeOK, NEW w \in Worker, WorkerStep(w)
  PROVE  TypeOK'
  <1>0. /\ worker[w] \in Candidate /\ worker[w].addr \in Addr
        /\ worker[w].tip \in 0..MaxTip /\ worker[w].tmpl \in Template
        /\ worker[w].prev \in ShareId \cup {NoShare} /\ worker[w].time \in Nat
        /\ worker[w].gen \in Nat /\ worker[w].share \in ShareId \cup {NoShare}
        /\ NoCandidate \in Candidate /\ NoCandidate.pc = "idle"
    BY CandidateType, NoCandidateType DEF NoCandidate
  <1>1. CASE CheckEnabled(w)
    <2>1. [worker[w] EXCEPT !.pc = "start"] \in Candidate
      BY <1>0 DEF Candidate
    <2> QED BY <1>0, <1>1, <2>1 DEF CheckEnabled, Advance, TypeOK, chain, pool,
               Made, Orphans
  <1>2. ASSUME NEW t \in Template, ReadConfig(w, t) PROVE TypeOK'
    <2>1. [worker[w] EXCEPT !.pc = "witness", !.tip = tip,
                            !.addr = config.addr, !.tmpl = t] \in Candidate
      BY <1>0 DEF Candidate, TypeOK, Config
    <2> QED BY <1>0, <1>2, <2>1 DEF ReadConfig, Advance, TypeOK, chain, pool,
               Made, Orphans
  <1>3. CASE ReadWitness(w)
    <2> DEFINE t == IF now > tipTime THEN now ELSE tipTime + 1
    <2>1. t \in Nat /\ best \in ShareId \cup {NoShare}
      BY DEF TypeOK
    <2> HIDE DEF t
    <2>2. [worker[w] EXCEPT !.pc = "register", !.prev = best, !.time = t]
            \in Candidate
      BY <1>0, <2>1 DEF Candidate
    <2> USE DEF t
    <2> QED BY <1>0, <1>3, <2>2 DEF ReadWitness, Advance, TypeOK, chain, pool,
               Made, Orphans
  <1>4. CASE AddTemplate(w)
    <2>1. [worker[w] EXCEPT !.pc = "stamp"] \in Candidate
      BY <1>0 DEF Candidate
    <2>2. templates' \subseteq Template
      BY <1>0, <1>4 DEF AddTemplate, RegisterTemplate, TypeOK
    <2> QED BY <1>0, <1>4, <2>1, <2>2 DEF AddTemplate, RegisterTemplate, Advance,
               TypeOK, chain, Made, Orphans
  <1>5. CASE Stamp(w)
    <2>1. [worker[w] EXCEPT !.pc = "hash", !.gen = generation] \in Candidate
      BY <1>0 DEF Candidate, TypeOK
    <2> QED BY <1>0, <1>5, <2>1 DEF Stamp, Advance, TypeOK, chain, pool,
               Made, Orphans
  <1>6. CASE NoticeGeneration(w) \/ GiveUp(w)
    BY <1>0, <1>6 DEF NoticeGeneration, GiveUp, Advance, TypeOK, chain, pool,
       Made, Orphans
  <1>7. ASSUME NEW i \in ShareId, FindShare(w, i) PROVE TypeOK'
    <2> DEFINE c == [worker[w] EXCEPT !.pc = "submit", !.share = i]
               r == [anchor |-> worker[w].tip, prev |-> worker[w].prev,
                     tmpl |-> worker[w].tmpl, time |-> worker[w].time,
                     valid |-> TRUE]
    <2>1. c \in Candidate /\ c.share = i
      BY <1>0 DEF Candidate
    <2>2. r \in Workshare
      BY <1>0, MiningAssumption DEF Workshare, Anchor, OtherTip
    <2>3. /\ Made' = Made \cup {i} /\ Made' \subseteq ShareId
          /\ \A j \in Made' : made'[j] \in Workshare
      BY <1>7, <2>2, MadeSound DEF FindShare
    <2>4. worker' = [worker EXCEPT ![w] = c]
      BY <1>7 DEF FindShare, Advance
    <2> HIDE DEF c
    <2>5. /\ worker' \in [Worker -> Candidate]
          /\ \A v \in Worker : worker'[v].pc = "submit" => worker'[v].share \in Made'
      BY <2>1, <2>3, <2>4, WorkerType
    <2> QED BY <1>7, <2>3, <2>5 DEF FindShare, TypeOK, chain, pool, Orphans
  <1>8. CASE SubmitFound(w)
    <2>1. worker[w].share \in Made /\ SubmitWorkshare(worker[w].share)
      BY <1>8 DEF SubmitFound, TypeOK
    <2>2. /\ anchor' = anchor /\ templates' = templates
          /\ shares \subseteq shares' /\ shares' \subseteq Made
          /\ best' \in ShareId \cup {NoShare}
          /\ pathWork' \in [ShareId -> Nat]
      BY <2>1, SubmitSound
    <2> DEFINE c == IF best' = best THEN NoCandidate
                    ELSE [NoCandidate EXCEPT !.pc = "changed"]
    <2>3. c \in Candidate /\ c.pc # "submit"
      BY <1>0 DEF Candidate
    <2>4. worker' = [worker EXCEPT ![w] = c]
      BY <1>8 DEF SubmitFound, Advance
    <2> HIDE DEF c
    <2>5. /\ worker' \in [Worker -> Candidate]
          /\ \A v \in Worker : worker'[v].pc = "submit" => worker'[v].share \in Made'
      BY <1>8, <2>3, <2>4, WorkerType DEF SubmitFound, Made
    <2> QED BY <1>8, <2>2, <2>5 DEF SubmitFound, TypeOK, chain, Made, Orphans
  <1>9. CASE CountFound(w)
    BY <1>0, <1>9 DEF CountFound, Advance, TypeOK, chain, pool, Made, Orphans
  <1>10. CASE FindBlock(w)
    <2>1. Orphans' = {}
      BY <1>10 DEF FindBlock, Publish, Orphans
    <2>4. Cardinality(Orphans') <= MaxOrphans
      BY <2>1, FS_EmptySet, MiningAssumption
    <2>2. pending' \in [ShareId -> Peer \cup {NoPeer}]
      BY <1>10 DEF FindBlock, Publish
    <2>3. tip' \in 0..MaxTip /\ tipTime' \in Nat /\ anchor' \in Nat
      BY <1>0, <1>10, MiningAssumption DEF FindBlock, Publish, TypeOK
    <2> QED BY <1>0, <1>10, <2>1, <2>2, <2>3, <2>4 DEF FindBlock, Publish, Advance, TypeOK, Made
  <1> QED BY <1>1, <1>2, <1>3, <1>4, <1>5, <1>6, <1>7, <1>8, <1>9, <1>10
          DEF WorkerStep

\* A step of one handler; what else it changes keeps its types.
LEMMA HandlerType ==
  ASSUME TypeOK, NEW p \in Peer, NEW pc, NEW new, HandlerAt(p, pc, new),
         new \in [pc : {"idle", "insert", "submit", "changed", "process",
                        "reply"}, id : ShareId \cup {NoShare}],
         new.pc \in {"insert", "submit"} => new.id \in Made',
         Made \subseteq Made'
  PROVE  /\ handler' \in [Peer -> [pc : {"idle", "insert", "submit", "changed",
                                        "process", "reply"},
                                  id : ShareId \cup {NoShare}]]
         /\ \A q \in Peer : handler'[q].pc \in {"insert", "submit"} =>
                                handler'[q].id \in Made'
  BY DEF TypeOK, HandlerAt

\* Fewer orphans are still few enough.
LEMMA FewerOrphans ==
  ASSUME TypeOK, Orphans' \subseteq Orphans
  PROVE  Orphans' \subseteq Made /\ Cardinality(Orphans') <= MaxOrphans
  <1>1. IsFiniteSet(Orphans)
    BY MiningAssumption, FS_Subset DEF Orphans
  <1>2. Cardinality(Orphans') <= Cardinality(Orphans)
    BY <1>1, FS_Subset
  <1>3. Cardinality(Orphans) \in Nat /\ Cardinality(Orphans') \in Nat
    BY <1>1, FS_Subset, FS_CardinalityType
  <1> QED BY <1>2, <1>3, MiningAssumption DEF TypeOK

\* An orphan is inserted only while there is room.
LEMMA InsertOrphanType ==
  ASSUME TypeOK, NEW p \in Peer, InsertOrphan(p)
  PROVE  TypeOK'
  <1> DEFINE i == handler[p].id
  <1>1. i \in Made /\ i \in ShareId
    BY DEF InsertOrphan, HandlerAt, TypeOK
  <1>2. UNCHANGED <<tip, tipTime, made, pool, generation, config, changes,
                    worker, asked, now>> /\ Made' = Made
    BY DEF InsertOrphan, chain, Made
  <1>3. pending' \in [ShareId -> Peer \cup {NoPeer}]
    BY <1>1 DEF InsertOrphan, TypeOK
  <1>4. /\ handler' \in [Peer -> [pc : {"idle", "insert", "submit", "changed",
                                        "process", "reply"},
                                  id : ShareId \cup {NoShare}]]
        /\ \A q \in Peer : handler'[q].pc \in {"insert", "submit"} =>
                               handler'[q].id \in Made'
    BY <1>2, HandlerType DEF InsertOrphan, At
  <1>5. Orphans' \subseteq Made /\ Cardinality(Orphans') <= MaxOrphans
    <2>1. CASE pending' = pending
      BY <2>1, FewerOrphans DEF Orphans
    <2>2. CASE pending' # pending
      <3>1. /\ Cardinality(Orphans) < MaxOrphans /\ pending[i] = NoPeer
            /\ pending' = [pending EXCEPT ![i] = p]
        BY <2>2 DEF InsertOrphan
      <3>2. Orphans' = Orphans \cup {i} /\ i \notin Orphans
        BY <1>1, <3>1, MiningAssumption DEF Orphans, TypeOK
      <3>3. IsFiniteSet(Orphans) /\ Cardinality(Orphans) \in Nat
        BY MiningAssumption, FS_Subset, FS_CardinalityType DEF Orphans
      <3>4. Cardinality(Orphans') = Cardinality(Orphans) + 1
        BY <3>2, <3>3, FS_AddElement
      <3>5. Cardinality(Orphans') <= MaxOrphans
        BY <3>1, <3>3, <3>4, MiningAssumption
      <3>6. Orphans \subseteq Made
        BY DEF TypeOK
      <3> QED BY <1>1, <3>2, <3>5, <3>6
    <2> QED BY <2>1, <2>2
  <1> QED BY <1>2, <1>3, <1>4, <1>5 DEF TypeOK, pool

\* The types after a step of a peer's handler.
LEMMA HandlerStepType ==
  ASSUME TypeOK, NEW p \in Peer, HandlerStep(p)
  PROVE  TypeOK'
  <1> DEFINE H == [pc : {"idle", "insert", "submit", "changed", "process",
                         "reply"}, id : ShareId \cup {NoShare}]
  <1>1. ASSUME NEW a \in Anchor, NEW t \in Template, ReceiveTemplate(p, a, t)
        PROVE  TypeOK'
    <2>1. /\ UNCHANGED <<tip, tipTime, made, pending, generation, config,
                         changes, worker, now>>
          /\ Made' = Made /\ Orphans' = Orphans
      BY <1>1 DEF ReceiveTemplate, chain, Made, Orphans
    <2>2. /\ handler' \in [Peer -> H]
          /\ \A q \in Peer : handler'[q].pc \in {"insert", "submit"} =>
                                 handler'[q].id \in Made'
      BY <1>1, <2>1, HandlerType DEF ReceiveTemplate, At
    <2>3. asked' \in [Peer -> SUBSET Object]
      BY <1>1 DEF ReceiveTemplate, Arrived, TypeOK
    <2>4. templates' \subseteq Template /\ UNCHANGED <<anchor, shares, pathWork, best>>
      BY <1>1 DEF ReceiveTemplate, RegisterTemplate, pool, TypeOK
    <2> QED BY <2>1, <2>2, <2>3, <2>4 DEF TypeOK
  <1>2. ASSUME NEW i \in ShareId, ReceiveShare(p, i) PROVE TypeOK'
    <2>1. /\ UNCHANGED <<tip, tipTime, made, pool, pending, generation, config,
                         changes, worker, now>>
          /\ Made' = Made /\ Orphans' = Orphans /\ i \in Made
      BY <1>2 DEF ReceiveShare, chain, Made, Orphans
    <2>2. /\ handler' \in [Peer -> H]
          /\ \A q \in Peer : handler'[q].pc \in {"insert", "submit"} =>
                                 handler'[q].id \in Made'
      BY <1>2, <2>1, HandlerType DEF ReceiveShare
    <2>3. asked' \in [Peer -> SUBSET Object]
      BY <1>2 DEF ReceiveShare, Arrived, TypeOK
    <2> QED BY <2>1, <2>2, <2>3 DEF TypeOK, pool
  <1>3. CASE InsertOrphan(p)
    BY <1>3, InsertOrphanType
  <1>4. CASE SubmitReceived(p)
    <2>1. handler[p].id \in Made /\ SubmitWorkshare(handler[p].id)
      BY <1>4 DEF SubmitReceived, TypeOK
    <2>2. /\ anchor' = anchor /\ templates' = templates
          /\ shares' \subseteq Made /\ best' \in ShareId \cup {NoShare}
          /\ pathWork' \in [ShareId -> Nat]
      BY <2>1, SubmitSound
    <2>3. /\ UNCHANGED <<tip, tipTime, made, pending, generation, config,
                         changes, worker, asked, now>>
          /\ Made' = Made /\ Orphans' = Orphans
      BY <1>4 DEF SubmitReceived, chain, Made, Orphans
    <2>4. /\ handler' \in [Peer -> H]
          /\ \A q \in Peer : handler'[q].pc \in {"insert", "submit"} =>
                                 handler'[q].id \in Made'
      BY <1>4, <2>3, HandlerType DEF SubmitReceived, At
    <2> QED BY <2>2, <2>3, <2>4 DEF TypeOK
  <1>5. CASE CountReceived(p) \/ NoneReady(p)
    <2>1. /\ UNCHANGED <<tip, tipTime, made, pool, pending, config, changes,
                         worker, asked, now>>
          /\ Made' = Made /\ Orphans' = Orphans
      BY <1>5 DEF CountReceived, NoneReady, chain, Made, Orphans
    <2>2. /\ handler' \in [Peer -> H]
          /\ \A q \in Peer : handler'[q].pc \in {"insert", "submit"} =>
                                 handler'[q].id \in Made'
      BY <1>5, <2>1, HandlerType DEF CountReceived, NoneReady, At, Idle
    <2>3. generation' \in Nat
      BY <1>5 DEF CountReceived, NoneReady, TypeOK
    <2> QED BY <2>1, <2>2, <2>3 DEF TypeOK, pool
  <1>6. ASSUME NEW i \in ShareId, TakeReady(p, i) PROVE TypeOK'
    <2>1. /\ UNCHANGED <<tip, tipTime, made, pool, generation, config, changes,
                         worker, asked, now>>
          /\ Made' = Made /\ Orphans' \subseteq Orphans /\ i \in Made
      BY <1>6 DEF TakeReady, chain, Made, Orphans, TypeOK
    <2>2. /\ handler' \in [Peer -> H]
          /\ \A q \in Peer : handler'[q].pc \in {"insert", "submit"} =>
                                 handler'[q].id \in Made'
      BY <1>6, <2>1, HandlerType DEF TakeReady
    <2>3. pending' \in [ShareId -> Peer \cup {NoPeer}]
      BY <1>6 DEF TakeReady, TypeOK
    <2> QED BY <2>1, <2>2, <2>3, FewerOrphans DEF TypeOK, pool
  <1>7. CASE Reply(p)
    <2>1. /\ UNCHANGED <<tip, tipTime, made, pool, pending, generation, config,
                         changes, worker, now>>
          /\ Made' = Made /\ Orphans' = Orphans
      BY <1>7 DEF Reply, chain, Made, Orphans
    <2>2. /\ handler' \in [Peer -> H]
          /\ \A q \in Peer : handler'[q].pc \in {"insert", "submit"} =>
                                 handler'[q].id \in Made'
      BY <1>7, <2>1, HandlerType DEF Reply, At, Idle
    <2>3. Missing(p) \subseteq Object
      <3> SUFFICES ASSUME NEW i \in Orphans, ~Ready(i)
          PROVE  (IF HasTemplate(i) THEN ShareOf(made[i].prev)
                  ELSE TemplateOf(made[i].anchor, made[i].tmpl)) \in Object
        BY DEF Missing, MissingOf
      <3>1. made[i] \in Workshare
        BY DEF TypeOK
      <3>2. CASE HasTemplate(i)
        BY <3>1, <3>2 DEF Ready, HasPrevious, Workshare, ShareOf, Object
      <3>3. CASE ~HasTemplate(i)
        BY <3>1, <3>3 DEF Workshare, TemplateOf, Object
      <3> QED BY <3>2, <3>3
    <2>4. asked' \in [Peer -> SUBSET Object]
      BY <1>7, <2>3 DEF Reply, TypeOK
    <2> QED BY <2>1, <2>2, <2>4 DEF TypeOK, pool
  <1>8. CASE Disconnect(p)
    <2>1. /\ UNCHANGED <<tip, tipTime, made, pool, generation, config, changes,
                         worker, handler, now>>
          /\ Made' = Made /\ Orphans' \subseteq Orphans
      BY <1>8 DEF Disconnect, chain, Made, Orphans
    <2>2. /\ pending' \in [ShareId -> Peer \cup {NoPeer}]
          /\ asked' \in [Peer -> SUBSET Object]
      BY <1>8 DEF Disconnect, TypeOK
    <2> QED BY <2>1, <2>2, FewerOrphans DEF TypeOK, pool
  <1> QED BY <1>1, <1>2, <1>3, <1>4, <1>5, <1>6, <1>7, <1>8
          DEF HandlerStep, HandlerWork

\* The types after any other step.
LEMMA OtherStepType ==
  ASSUME TypeOK
  PROVE  /\ \A i \in ShareId, prev \in ShareId \cup {NoShare}, r \in Remote :
              RemoteShare(i, prev, r) => TypeOK'
         /\ \A time \in Time : PeerBlock(time) => TypeOK'
         /\ \A c \in Config : ApplyMiningConfig(c) => TypeOK'
         /\ Tick => TypeOK'
         /\ UNCHANGED vars => TypeOK'
  <1>1. ASSUME NEW i \in ShareId, NEW prev \in ShareId \cup {NoShare},
               NEW r \in Remote, RemoteShare(i, prev, r)
        PROVE  TypeOK'
    <2> DEFINE s == [anchor |-> r.anchor, prev |-> prev, tmpl |-> r.tmpl,
                     time |-> r.time, valid |-> r.valid]
    <2>1. s \in Workshare
      BY MiningAssumption DEF Workshare, Anchor, OtherTip
    <2>2. /\ i \in ShareId \ Made
          /\ made' = [j \in Made \cup {i} |-> IF j = i THEN s ELSE made[j]]
      BY <1>1 DEF RemoteShare
    <2> HIDE DEF s
    <2>3. /\ Made' = Made \cup {i} /\ Made' \subseteq ShareId
          /\ \A j \in Made' : made'[j] \in Workshare
      BY <2>1, <2>2, MadeSound
    <2>4. UNCHANGED <<tip, tipTime, pool, pending, generation, config, changes,
                      worker, handler, asked, now>>
      BY <1>1 DEF RemoteShare, chain
    <2> QED BY <2>3, <2>4 DEF TypeOK, pool, Orphans
  <1>2. ASSUME NEW time \in Time, PeerBlock(time) PROVE TypeOK'
    <2>1. Orphans' = {}
      BY <1>2 DEF PeerBlock, Publish, Orphans
    <2>2. Cardinality(Orphans') <= MaxOrphans
      BY <2>1, FS_EmptySet, MiningAssumption
    <2>3. /\ pending' \in [ShareId -> Peer \cup {NoPeer}]
          /\ tip' \in 0..MaxTip /\ {tipTime', anchor', generation'} \subseteq Nat
      BY <1>2, MiningAssumption DEF PeerBlock, Publish, TypeOK, Time
    <2> QED BY <1>2, <2>1, <2>2, <2>3 DEF PeerBlock, Publish, TypeOK, Made
  <1>3. ASSUME NEW c \in Config, ApplyMiningConfig(c) PROVE TypeOK'
    BY <1>3 DEF ApplyMiningConfig, TypeOK, chain, pool, Made, Orphans
  <1>4. ASSUME Tick PROVE TypeOK'
    BY <1>4 DEF Tick, TypeOK, chain, pool, Made, Orphans
  <1>5. ASSUME UNCHANGED vars PROVE TypeOK'
    BY <1>5 DEF vars, TypeOK, chain, pool, Made, Orphans
  <1> QED BY <1>1, <1>2, <1>3, <1>4, <1>5

\* TypeOK: what the threads hold, ask for and keep is of its type; in particular
\* no more orphans than handle_wire allows, although the handler of every peer
\* inserts its own, and only workshares that exist.
THEOREM TypeCorrect == Spec => []TypeOK
  <1>1. Init => TypeOK
    BY InitType
  <1>2. TypeOK /\ [Next]_vars => TypeOK'
    BY WorkerStepType, HandlerStepType, OtherStepType DEF Next
  <1> QED BY <1>1, <1>2, PTL DEF Spec

-----------------------------------------------------------------------------
(* CurrentTip. The chain lock keeps the tip while a candidate is built, and   *)
(* Publish, the only step that moves it, counts a generation.                *)

\* A worker moves and the tip stays.
LEMMA AdvanceOnTip ==
  ASSUME TypeOK, BuiltOnTip, NEW w \in Worker, NEW c,
         worker' = [worker EXCEPT ![w] = c], tip' = tip,
         generation' \in {generation, generation + 1},
         c.pc \in {"witness", "register", "stamp"} => c.tip = tip,
         c.pc = "hash" => c.gen = generation' /\ c.tip = tip
  PROVE  BuiltOnTip'
  <1>1. \A v \in Worker : worker'[v] = IF v = w THEN c ELSE worker[v]
    BY DEF TypeOK
  <1>2. generation \in Nat /\ \A v \in Worker : worker[v].gen \in Nat
    BY DEF TypeOK, Candidate
  <1> QED BY <1>1, <1>2 DEF BuiltOnTip

\* Every step leaves a candidate of the current generation on the live tip.
LEMMA TipStep ==
  ASSUME TypeOK, BuiltOnTip, [Next]_vars
  PROVE  BuiltOnTip'
  <1>0. generation \in Nat
    BY DEF TypeOK
  <1>1. ASSUME NEW w \in Worker, WorkerStep(w) PROVE BuiltOnTip'
    <2>0. worker[w] \in Candidate /\ NoCandidate.pc = "idle"
      BY DEF TypeOK, NoCandidate
    <2>1. CASE \/ CheckEnabled(w) \/ NoticeGeneration(w) \/ GiveUp(w)
               \/ (\E i \in ShareId : FindShare(w, i)) \/ ReadWitness(w)
               \/ AddTemplate(w) \/ SubmitFound(w) \/ CountFound(w)
      <3>1. tip' = tip /\ generation' \in {generation, generation + 1}
        BY <2>1 DEF CheckEnabled, NoticeGeneration, GiveUp, FindShare,
           ReadWitness, AddTemplate, SubmitFound, CountFound, chain
      <3>2. PICK c : /\ worker' = [worker EXCEPT ![w] = c]
                     /\ c.pc # "hash"
                     /\ c.pc \in {"witness", "register", "stamp"} =>
                          /\ c.tip = worker[w].tip
                          /\ worker[w].pc \in {"witness", "register", "stamp"}
        <4>1. CASE NoticeGeneration(w) \/ GiveUp(w) \/ CountFound(w)
          BY <2>0, <4>1 DEF NoticeGeneration, GiveUp, CountFound, Advance
        <4>2. CASE CheckEnabled(w)
          <5> DEFINE c == [worker[w] EXCEPT !.pc = "start"]
          <5>1. worker' = [worker EXCEPT ![w] = c]
            BY <4>2 DEF CheckEnabled, Advance
          <5>2. c.pc = "start"
            BY <2>0 DEF Candidate
          <5> QED BY <5>1, <5>2
        <4>3. CASE \E i \in ShareId : FindShare(w, i)
          <5>1. PICK i \in ShareId : FindShare(w, i)
            BY <4>3
          <5> DEFINE c == [worker[w] EXCEPT !.pc = "submit", !.share = i]
          <5>2. worker' = [worker EXCEPT ![w] = c]
            BY <5>1 DEF FindShare, Advance
          <5>3. c.pc = "submit"
            BY <2>0 DEF Candidate
          <5> QED BY <5>2, <5>3
        <4>4. CASE ReadWitness(w)
          <5> DEFINE t == IF now > tipTime THEN now ELSE tipTime + 1
                     c == [worker[w] EXCEPT !.pc = "register", !.prev = best,
                                            !.time = t]
          <5>1. worker' = [worker EXCEPT ![w] = c] /\ worker[w].pc = "witness"
            BY <4>4 DEF ReadWitness, Advance
          <5> HIDE DEF t
          <5>2. c.pc = "register" /\ c.tip = worker[w].tip
            BY <2>0 DEF Candidate
          <5> QED BY <5>1, <5>2
        <4>5. CASE AddTemplate(w)
          <5> DEFINE c == [worker[w] EXCEPT !.pc = "stamp"]
          <5>1. /\ worker' = [worker EXCEPT ![w] = c]
                   \/ worker' = [worker EXCEPT ![w] = NoCandidate]
                /\ worker[w].pc = "register"
            BY <4>5 DEF AddTemplate, Advance
          <5>2. c.pc = "stamp" /\ c.tip = worker[w].tip
            BY <2>0 DEF Candidate
          <5> QED BY <2>0, <5>1, <5>2
        <4>6. CASE SubmitFound(w)
          <5>1. [NoCandidate EXCEPT !.pc = "changed"].pc = "changed"
            BY DEF NoCandidate
          <5> QED BY <2>0, <4>6, <5>1 DEF SubmitFound, Advance
        <4> QED BY <2>1, <4>1, <4>2, <4>3, <4>4, <4>5, <4>6
      <3>3. c.pc \in {"witness", "register", "stamp"} => c.tip = tip
        BY <3>2 DEF BuiltOnTip
      <3> QED BY <3>1, <3>2, <3>3, AdvanceOnTip
    <2>2. ASSUME NEW t \in Template, ReadConfig(w, t) PROVE BuiltOnTip'
      <3> DEFINE c == [worker[w] EXCEPT !.pc = "witness", !.tip = tip,
                                        !.addr = config.addr, !.tmpl = t]
      <3>1. /\ worker' = [worker EXCEPT ![w] = c]
            /\ tip' = tip /\ generation' = generation
        BY <2>2 DEF ReadConfig, Advance, chain
      <3>2. c.pc = "witness" /\ c.tip = tip
        BY <2>0 DEF Candidate
      <3> HIDE DEF c
      <3> QED BY <3>1, <3>2, AdvanceOnTip
    <2>3. CASE Stamp(w)
      <3> DEFINE c == [worker[w] EXCEPT !.pc = "hash", !.gen = generation]
      <3>1. /\ worker' = [worker EXCEPT ![w] = c] /\ worker[w].pc = "stamp"
            /\ tip' = tip /\ generation' = generation
        BY <2>3 DEF Stamp, Advance, chain
      <3>2. c.pc = "hash" /\ c.gen = generation /\ c.tip = worker[w].tip
        BY <2>0 DEF Candidate
      <3>3. worker[w].tip = tip
        BY <3>1 DEF BuiltOnTip
      <3> HIDE DEF c
      <3> QED BY <1>0, <3>1, <3>2, <3>3, AdvanceOnTip
    <2>4. CASE FindBlock(w)
      <3>1. /\ generation' = generation + 1 /\ worker' = [worker EXCEPT ![w] = NoCandidate]
            /\ \A v \in Worker : worker[v].pc \notin {"witness", "register", "stamp"}
        BY <2>4 DEF FindBlock, Publish, Advance, ChainLockFree
      <3>2. \A v \in Worker : worker[v].gen \in Nat
        BY DEF TypeOK, Candidate
      <3>3. \A v \in Worker : worker'[v] = IF v = w THEN NoCandidate ELSE worker[v]
        BY <3>1 DEF TypeOK
      <3> QED BY <1>0, <2>0, <3>1, <3>2, <3>3 DEF BuiltOnTip
    <2> QED BY <1>1, <2>1, <2>2, <2>3, <2>4 DEF WorkerStep
  <1>2. ASSUME NEW p \in Peer, HandlerStep(p) PROVE BuiltOnTip'
    <2>1. UNCHANGED <<tip, worker>> /\ generation' \in {generation, generation + 1}
      BY <1>2 DEF HandlerStep, HandlerWork, ReceiveTemplate, ReceiveShare,
         InsertOrphan, SubmitReceived, CountReceived, TakeReady, NoneReady,
         Reply, Disconnect, chain
    <2> QED BY <1>0, <2>1 DEF BuiltOnTip, TypeOK, Candidate
  <1>3. ASSUME NEW time \in Time, PeerBlock(time) PROVE BuiltOnTip'
    BY <1>0, <1>3 DEF PeerBlock, Publish, ChainLockFree, BuiltOnTip, TypeOK,
       Candidate
  <1>4. ASSUME \/ \E i \in ShareId, prev \in ShareId \cup {NoShare}, r \in Remote :
                    RemoteShare(i, prev, r)
               \/ \E c \in Config : ApplyMiningConfig(c)
               \/ Tick \/ UNCHANGED vars
        PROVE  BuiltOnTip'
    <2>1. UNCHANGED <<tip, worker>> /\ generation' \in {generation, generation + 1}
      BY <1>4 DEF RemoteShare, ApplyMiningConfig, Tick, vars, chain
    <2> QED BY <1>0, <2>1 DEF BuiltOnTip, TypeOK, Candidate
  <1> QED BY <1>1, <1>2, <1>3, <1>4 DEF Next

\* CurrentTip: a worker whose candidate carries the current generation works on
\* the live tip, although mining_candidate reads the generation after the rest
\* of the candidate and the threads that publish and configure run beside it.
THEOREM GenerationMeansTip == Spec => []CurrentTip
  <1>1. Init => BuiltOnTip
    BY DEF Init, BuiltOnTip, NoCandidate
  <1>2. TypeOK /\ BuiltOnTip /\ [Next]_vars => BuiltOnTip'
    BY TipStep
  <1>3. BuiltOnTip => CurrentTip
    BY DEF BuiltOnTip, CurrentTip
  <1> QED BY <1>1, <1>2, <1>3, TypeCorrect, PTL DEF Spec

-----------------------------------------------------------------------------
(* OrphansAsked. Orphans of a peer miss less as time passes; only its own     *)
(* handler adds one, and it does not rest before it has replied.              *)

\* A peer's request names something unless all its orphans are ready.
LEMMA MissesSomething ==
  ASSUME NEW p \in Peer
  PROVE  Missing(p) # {} <=> \E i \in ShareId : i \in Orphans /\ pending[i] = p /\ ~Ready(i)
  BY DEF Missing, Orphans

\* What a step adds to the pool leaves what was ready ready.
LEMMA StaysReady ==
  ASSUME TypeOK, anchor' = anchor, templates \subseteq templates',
         shares \subseteq shares', NEW i \in Made, made'[i] = made[i], Ready(i)
  PROVE  Ready(i)'
  BY DEF Ready, HasTemplate, HasPrevious

\* A step that keeps p's orphans among those it has, its handler and what it was
\* asked for.
LEMMA StaysAsked ==
  ASSUME TypeOK, OrphansAsked, NEW p \in Peer,
         \A i \in ShareId : pending'[i] = p => pending[i] = p,
         handler'[p].pc = "idle" => handler[p].pc = "idle" /\ asked[p] \subseteq asked'[p],
         \A i \in Made : made'[i] = made[i],
         anchor' = anchor, templates \subseteq templates', shares \subseteq shares'
  PROVE  handler'[p].pc = "idle" /\ Missing(p)' # {} => asked'[p] # {}
  <1> SUFFICES ASSUME handler'[p].pc = "idle", Missing(p)' # {}
      PROVE  asked'[p] # {}
    OBVIOUS
  <1>1. PICK i \in ShareId : i \in Orphans' /\ pending'[i] = p /\ ~Ready(i)'
    BY DEF Missing, Orphans
  <1>2. i \in Orphans /\ pending[i] = p /\ i \in Made
    BY <1>1, MiningAssumption DEF Orphans, TypeOK
  <1>3. ~Ready(i)
    BY <1>1, <1>2, StaysReady
  <1>4. Missing(p) # {}
    BY <1>2, <1>3, MissesSomething
  <1> QED BY <1>4 DEF OrphansAsked

\* A new tip leaves no orphans.
LEMMA PublishAsked ==
  ASSUME NEW time, Publish(time)
  PROVE  OrphansAsked'
  <1>1. \A p \in Peer, i \in ShareId : pending'[i] # p
    BY MiningAssumption DEF Publish
  <1> QED BY <1>1 DEF OrphansAsked, Missing, Orphans

\* Every step leaves a request outstanding where an orphan misses something.
LEMMA AskedStep ==
  ASSUME TypeOK, OrphansAsked, [Next]_vars
  PROVE  OrphansAsked'
  <1>1. ASSUME NEW w \in Worker, WorkerStep(w) PROVE OrphansAsked'
    <2>1. CASE FindBlock(w)
      BY <2>1, PublishAsked DEF FindBlock
    <2>2. CASE ~FindBlock(w)
      <3>1. /\ UNCHANGED <<pending, handler, asked, anchor>>
            /\ templates \subseteq templates' /\ shares \subseteq shares'
        <4>1. CASE SubmitFound(w)
          BY <4>1, SubmitSound DEF SubmitFound, TypeOK
        <4> QED BY <1>1, <2>2, <4>1 DEF WorkerStep, CheckEnabled, ReadConfig,
                ReadWitness, AddTemplate, RegisterTemplate, Stamp,
                NoticeGeneration, GiveUp, FindShare, CountFound, pool
      <3>2. \A i \in Made : made'[i] = made[i]
        <4>1. CASE \E i \in ShareId : FindShare(w, i)
          BY <4>1 DEF FindShare
        <4> QED BY <1>1, <2>2, <4>1 DEF WorkerStep, CheckEnabled, ReadConfig,
                ReadWitness, AddTemplate, Stamp, NoticeGeneration, GiveUp,
                SubmitFound, CountFound
      <3>3. \A p \in Peer : handler'[p].pc = "idle" /\ Missing(p)' # {} =>
                                asked'[p] # {}
        BY <3>1, <3>2, StaysAsked
      <3> QED BY <3>3 DEF OrphansAsked
    <2> QED BY <2>1, <2>2
  <1>2. ASSUME NEW p \in Peer, HandlerStep(p) PROVE OrphansAsked'
    <2>1. /\ UNCHANGED <<made, anchor>>
          /\ templates \subseteq templates' /\ shares \subseteq shares'
      <3>1. CASE SubmitReceived(p)
        BY <3>1, SubmitSound DEF SubmitReceived, TypeOK
      <3> QED BY <1>2, <3>1 DEF HandlerStep, HandlerWork, ReceiveTemplate,
              RegisterTemplate, ReceiveShare, InsertOrphan, CountReceived,
              TakeReady, NoneReady, Reply, Disconnect, pool
    <2>2. ASSUME NEW q \in Peer, q # p
          PROVE  handler'[q].pc = "idle" /\ Missing(q)' # {} => asked'[q] # {}
      <3>1. \A i \in ShareId : pending'[i] = q => pending[i] = q
        BY <1>2, <2>2, MiningAssumption DEF HandlerStep, HandlerWork,
           ReceiveTemplate, ReceiveShare, InsertOrphan, SubmitReceived,
           CountReceived, TakeReady, NoneReady, Reply, Disconnect, TypeOK
      <3>2. handler'[q] = handler[q]
        BY <1>2, <2>2 DEF HandlerStep, HandlerWork, HandlerAt,
           ReceiveTemplate, ReceiveShare, InsertOrphan, SubmitReceived,
           CountReceived, TakeReady, NoneReady, Reply, Disconnect, TypeOK
      <3>3. asked'[q] = asked[q]
        BY <1>2, <2>2 DEF HandlerStep, HandlerWork, Arrived,
           ReceiveTemplate, ReceiveShare, InsertOrphan, SubmitReceived,
           CountReceived, TakeReady, NoneReady, Reply, Disconnect, TypeOK
      <3> QED BY <2>1, <3>1, <3>2, <3>3, StaysAsked
    <2>3. handler'[p].pc = "idle" /\ Missing(p)' # {} => asked'[p] # {}
      <3>1. CASE Reply(p)
        <4>1. Missing(p)' = Missing(p)
          BY <3>1 DEF Reply, Missing, MissingOf, Orphans, Ready, HasTemplate,
                      HasPrevious, pool
        <4>2. Missing(p) = {} \/ asked'[p] # {}
          BY <3>1 DEF Reply, TypeOK
        <4> QED BY <4>1, <4>2
      <3>2. CASE Disconnect(p)
        <4>1. \A i \in ShareId : pending'[i] # p
          BY <3>2, MiningAssumption DEF Disconnect
        <4>2. Missing(p)' = {}
          BY <4>1 DEF Missing, Orphans
        <4> QED BY <4>2
      <3>3. CASE ~Reply(p) /\ ~Disconnect(p)
        <4>1. handler'[p].pc # "idle"
          <5>1. CASE \E a \in Anchor, t \in Template : ReceiveTemplate(p, a, t)
            BY <5>1 DEF ReceiveTemplate, HandlerAt, At, TypeOK
          <5>2. CASE \E i \in ShareId : ReceiveShare(p, i)
            BY <5>2 DEF ReceiveShare, HandlerAt, TypeOK
          <5>3. CASE \E i \in ShareId : TakeReady(p, i)
            BY <5>3 DEF TakeReady, HandlerAt, TypeOK
          <5>4. CASE InsertOrphan(p) \/ CountReceived(p) \/ NoneReady(p)
            BY <5>4 DEF InsertOrphan, CountReceived, NoneReady, HandlerAt, At, TypeOK
          <5>5. CASE SubmitReceived(p)
            BY <5>5 DEF SubmitReceived, HandlerAt, At, TypeOK
          <5> QED BY <1>2, <3>3, <5>1, <5>2, <5>3, <5>4, <5>5
                  DEF HandlerStep, HandlerWork
        <4> QED BY <4>1
      <3> QED BY <3>1, <3>2, <3>3
    <2> QED BY <2>2, <2>3 DEF OrphansAsked
  <1>3. ASSUME NEW time \in Time, PeerBlock(time) PROVE OrphansAsked'
    BY <1>3, PublishAsked DEF PeerBlock
  <1>4. ASSUME \/ \E i \in ShareId, prev \in ShareId \cup {NoShare}, r \in Remote :
                    RemoteShare(i, prev, r)
               \/ \E c \in Config : ApplyMiningConfig(c)
               \/ Tick \/ UNCHANGED vars
        PROVE  OrphansAsked'
    <2>1. UNCHANGED <<pending, handler, asked, anchor, templates, shares>>
      BY <1>4 DEF RemoteShare, ApplyMiningConfig, Tick, vars, pool
    <2>2. \A i \in Made : made'[i] = made[i]
      BY <1>4 DEF RemoteShare, ApplyMiningConfig, Tick, vars
    <2>3. \A p \in Peer : handler'[p].pc = "idle" /\ Missing(p)' # {} =>
                              asked'[p] # {}
      BY <2>1, <2>2, StaysAsked
    <2> QED BY <2>3 DEF OrphansAsked
  <1> QED BY <1>1, <1>2, <1>3, <1>4 DEF Next

\* OrphansAsked: while an idle peer's orphan misses a template or predecessor,
\* something is asked of that peer, whatever the other handlers, the workers and
\* the clock do between the check, the insertion and the request.
THEOREM DependenciesAsked == Spec => []OrphansAsked
  <1>1. Init => OrphansAsked
    BY MiningAssumption DEF Init, OrphansAsked, Missing, Orphans
  <1>2. TypeOK /\ OrphansAsked /\ [Next]_vars => OrphansAsked'
    BY AskedStep
  <1> QED BY <1>1, <1>2, TypeCorrect, PTL DEF Spec

-----------------------------------------------------------------------------
(* The path of a workshare.                                                *)

\* A set of numbers that is not empty has a least one.
LEMMA LeastNumber ==
  ASSUME NEW T \in SUBSET Nat, T # {}
  PROVE  \E k \in T : \A j \in T : k <= j
  <1>1. PICK k \in T : \A j \in T : ~(j < k)
    <2>1. IsWellFoundedOn(OpToRel(<, Nat), Nat)
      BY NatLessThanWellFounded, Zenon
    <2>2. \E k \in T : \A j \in T : ~(<<j, k>> \in OpToRel(<, Nat))
      BY <2>1, WFMin
    <2> QED BY <2>2 DEF OpToRel
  <1> QED BY <1>1

\* Induction up to a bound, with the set of the good numbers.
LEMMA Climb ==
  ASSUME NEW m \in Nat, NEW Good, 0 \in Good,
         \A n \in 0..m : n + 1 <= m /\ n \in Good => n + 1 \in Good
  PROVE  \A n \in 0..m : n \in Good
  <1> DEFINE Bad == {n \in Nat : n <= m /\ n \notin Good}
  <1> SUFFICES ASSUME Bad # {} PROVE FALSE
    OBVIOUS
  <1>1. PICK n \in Bad : \A j \in Bad : n <= j
    <2>1. Bad \in SUBSET Nat
      OBVIOUS
    <2> HIDE DEF Bad
    <2> QED BY <2>1, LeastNumber
  <1>2. n \in Nat /\ n <= m /\ n \notin Good /\ n # 0
    OBVIOUS
  <1>3. n - 1 \in Nat /\ n - 1 \in 0..m /\ ~(n <= n - 1) /\ (n - 1) + 1 = n
    BY <1>2
  <1>4. n - 1 \in Good
    BY <1>1, <1>2, <1>3
  <1> QED BY <1>2, <1>3, <1>4

\* The predecessors of the shares in S, by the workshares m.
Before(m, S) == {m[j].prev : j \in S} \ {NoShare}

\* Path as an equation: what has been reached from i after each step.
IsWalk(walk, m, i, last) ==
  walk = [n \in 0..last |-> IF n = 0 THEN {i} \ {NoShare}
                            ELSE walk[n - 1] \cup Before(m, walk[n - 1])]
Steps == Cardinality(ShareId)
Walk(m, i) == CHOOSE walk : IsWalk(walk, m, i, Steps)

\* Path is where the walk ends.
LEMMA PathIsWalk ==
  ASSUME NEW i
  PROVE  Path(i) = Walk(made, i)[Steps]
  BY DEF Path, Walk, IsWalk, Before, Steps

\* The equation has a solution: a walk can be continued by a step.
LEMMA WalkDef ==
  ASSUME NEW m, NEW i
  PROVE  IsWalk(Walk(m, i), m, i, Steps) /\ Steps \in Nat
  <1> DEFINE first == {i} \ {NoShare}
             More(w, k) == w[k - 1] \cup Before(m, w[k - 1])
             Bad == {n \in Nat : ~\E w : IsWalk(w, m, i, n)}
  <1>e. ASSUME NEW w, NEW v, NEW k, w[k - 1] = v[k - 1]
        PROVE  More(w, k) = More(v, k)
    BY <1>e
  <1>w. \A w, n : IsWalk(w, m, i, n)
                    <=> w = [k \in 0..n |-> IF k = 0 THEN first ELSE More(w, k)]
    BY DEF IsWalk
  <1> HIDE DEF first, More
  <1>1. Bad = {}
    <2> SUFFICES ASSUME Bad # {} PROVE FALSE
      OBVIOUS
    <2>1. PICK n \in Bad : \A j \in Bad : n <= j
      <3>1. Bad \in SUBSET Nat
        OBVIOUS
      <3> HIDE DEF Bad
      <3> QED BY <3>1, LeastNumber
    <2>2. n \in Nat /\ ~\E w : IsWalk(w, m, i, n)
      OBVIOUS
    <2>3. CASE n = 0
      <3> DEFINE w == [k \in 0..0 |-> first]
      <3>1. w = [k \in 0..0 |-> IF k = 0 THEN first ELSE More(w, k)]
        <4>1. \A k \in 0..0 : k = 0
          OBVIOUS
        <4> QED BY <4>1
      <3> HIDE DEF w
      <3>2. IsWalk(w, m, i, 0)
        BY <1>w, <3>1
      <3> QED BY <2>2, <2>3, <3>2
    <2>4. CASE n # 0
      <3>1. n - 1 \in Nat /\ n - 1 \notin Bad
        <4>1. n - 1 \in Nat /\ ~(n <= n - 1)
          BY <2>2, <2>4
        <4> HIDE DEF Bad
        <4> QED BY <2>1, <4>1
      <3>2. PICK w : IsWalk(w, m, i, n - 1)
        BY <3>1
      <3>3. w = [k \in 0..(n - 1) |-> IF k = 0 THEN first ELSE More(w, k)]
        BY <1>w, <3>2
      <3> DEFINE v == [k \in 0..n |-> IF k = n THEN More(w, n) ELSE w[k]]
      <3>4. ASSUME NEW k \in 0..n
            PROVE  v[k] = IF k = 0 THEN first ELSE More(v, k)
        <4>1. CASE k = n
          <5>1. n - 1 \in 0..n /\ n - 1 # n
            BY <2>2, <3>1
          <5>2. v[n - 1] = w[n - 1]
            BY <5>1
          <5>3. v[n] = More(w, n)
            BY <2>2
          <5> HIDE DEF v
          <5>4. More(w, n) = More(v, n)
            BY <1>e, <5>2
          <5> QED BY <2>4, <4>1, <5>3, <5>4
        <4>2. CASE k # n /\ k # 0
          <5>1. k \in 0..(n - 1) /\ k - 1 \in 0..n /\ k - 1 # n
            BY <2>2, <4>2
          <5>2. w[k] = More(w, k)
            BY <3>3, <4>2, <5>1
          <5>3. v[k] = w[k] /\ v[k - 1] = w[k - 1]
            BY <4>2, <5>1
          <5> HIDE DEF v
          <5>4. More(w, k) = More(v, k)
            BY <1>e, <5>3
          <5> QED BY <4>2, <5>2, <5>3, <5>4
        <4>3. CASE k # n /\ k = 0
          <5>1. k \in 0..(n - 1)
            BY <2>2, <4>3
          <5>2. w[k] = first
            BY <3>3, <4>3, <5>1
          <5> QED BY <4>3, <5>2
        <4> QED BY <4>1, <4>2, <4>3
      <3>5. v = [k \in 0..n |-> IF k = 0 THEN first ELSE More(v, k)]
        <4>1. v = [k \in 0..n |-> v[k]]
          OBVIOUS
        <4> HIDE DEF v
        <4> QED BY <3>4, <4>1
      <3> HIDE DEF v
      <3>6. IsWalk(v, m, i, n)
        BY <1>w, <3>5
      <3> QED BY <2>2, <3>6
    <2> QED BY <2>3, <2>4
  <1>2. Steps \in Nat
    BY MiningAssumption, FS_CardinalityType DEF Steps
  <1>3. \E w : IsWalk(w, m, i, Steps)
    <2> HIDE DEF Steps
    <2> QED BY <1>1, <1>2
  <1> QED BY <1>2, <1>3 DEF Walk

\* A walk step by step.
LEMMA WalkSteps ==
  ASSUME NEW m, NEW i
  PROVE  /\ Steps \in Nat
         /\ Walk(m, i)[0] = {i} \ {NoShare}
         /\ \A n \in 0..Steps : n + 1 <= Steps =>
              Walk(m, i)[n + 1] = Walk(m, i)[n] \cup Before(m, Walk(m, i)[n])
  <1> DEFINE w == Walk(m, i)
  <1>1. IsWalk(w, m, i, Steps) /\ Steps \in Nat
    BY WalkDef
  <1> HIDE DEF w, Steps
  <1>2. w = [n \in 0..Steps |-> IF n = 0 THEN {i} \ {NoShare}
                                ELSE w[n - 1] \cup Before(m, w[n - 1])]
    BY <1>1 DEF IsWalk
  <1>3. w[0] = {i} \ {NoShare}
    <2>1. 0 \in 0..Steps
      BY <1>1
    <2> QED BY <1>2, <2>1
  <1>4. ASSUME NEW n \in 0..Steps, n + 1 <= Steps
        PROVE  w[n + 1] = w[n] \cup Before(m, w[n])
    <2>1. n + 1 \in 0..Steps /\ n + 1 # 0 /\ (n + 1) - 1 = n
      BY <1>1, <1>4
    <2> QED BY <1>2, <2>1
  <1> QED BY <1>1, <1>3, <1>4 DEF w

\* A walk never loses a share.
LEMMA WalkGrows ==
  ASSUME NEW m, NEW i
  PROVE  \A n \in 0..Steps : Walk(m, i)[n] \subseteq Walk(m, i)[Steps]
  <1> DEFINE w == Walk(m, i)
             Good == {k \in Int : w[Steps - k] \subseteq w[Steps]}
  <1>1. Steps \in Nat /\ \A n \in 0..Steps : n + 1 <= Steps => w[n] \subseteq w[n + 1]
    BY WalkSteps
  <1> HIDE DEF w, Steps
  <1>2. \A k \in 0..Steps : k \in Good
    <2>1. 0 \in Good
      <3>1. Steps - 0 = Steps
        BY <1>1
      <3> QED BY <3>1
    <2>2. ASSUME NEW k \in 0..Steps, k + 1 <= Steps, k \in Good PROVE k + 1 \in Good
      <3>1. /\ Steps - (k + 1) \in 0..Steps /\ (Steps - (k + 1)) + 1 = Steps - k
            /\ Steps - k <= Steps /\ k + 1 \in Int
        BY <1>1, <2>2
      <3>2. w[Steps - (k + 1)] \subseteq w[Steps - k]
        BY <1>1, <3>1
      <3> QED BY <2>2, <3>1, <3>2
    <2> HIDE DEF Good
    <2> QED BY <1>1, <2>1, <2>2, Climb
  <1>3. ASSUME NEW n \in 0..Steps PROVE w[n] \subseteq w[Steps]
    <2>1. Steps - n \in 0..Steps /\ Steps - (Steps - n) = n
      BY <1>1
    <2>2. Steps - n \in Good
      BY <1>2, <2>1
    <2> QED BY <2>1, <2>2
  <1> QED BY <1>3 DEF w

\* A walk depends on the workshares it meets alone.
LEMMA WalkAgrees ==
  ASSUME NEW m, NEW l, NEW i, \A j \in Walk(m, i)[Steps] : l[j].prev = m[j].prev
  PROVE  Walk(l, i)[Steps] = Walk(m, i)[Steps]
  <1> DEFINE w == Walk(m, i)
             v == Walk(l, i)
             Good == {n \in Nat : v[n] = w[n]}
  <1>1. /\ Steps \in Nat /\ v[0] = w[0]
        /\ \A n \in 0..Steps : n + 1 <= Steps =>
             v[n + 1] = v[n] \cup Before(l, v[n]) /\ w[n + 1] = w[n] \cup Before(m, w[n])
    <2>1. /\ Steps \in Nat /\ w[0] = {i} \ {NoShare}
          /\ \A n \in 0..Steps : n + 1 <= Steps => w[n + 1] = w[n] \cup Before(m, w[n])
      BY WalkSteps
    <2>2. /\ v[0] = {i} \ {NoShare}
          /\ \A n \in 0..Steps : n + 1 <= Steps => v[n + 1] = v[n] \cup Before(l, v[n])
      BY WalkSteps
    <2> HIDE DEF w, v, Steps
    <2> QED BY <2>1, <2>2
  <1>2. \A n \in 0..Steps : w[n] \subseteq w[Steps]
    BY WalkGrows
  <1> HIDE DEF w, v, Steps
  <1>3. \A n \in 0..Steps : n \in Good
    <2>1. 0 \in Good
      BY <1>1
    <2>2. ASSUME NEW n \in 0..Steps, n + 1 <= Steps, n \in Good PROVE n + 1 \in Good
      <3>1. v[n] = w[n] /\ n + 1 \in Nat
        BY <2>2
      <3>2. \A j \in w[n] : l[j].prev = m[j].prev
        BY <1>2 DEF w
      <3>3. Before(l, w[n]) = Before(m, w[n])
        BY <3>2 DEF Before
      <3>4. v[n + 1] = w[n + 1]
        BY <1>1, <2>2, <3>1, <3>3
      <3> QED BY <3>1, <3>4
    <2> HIDE DEF Good
    <2> QED BY <1>1, <2>1, <2>2, Climb
  <1>4. Steps \in 0..Steps
    BY <1>1
  <1>5. v[Steps] = w[Steps]
    BY <1>3, <1>4
  <1> QED BY <1>5 DEF v, w

\* A walk meets the share it starts from, and goes on from its predecessor.
LEMMA WalkFrom ==
  ASSUME NEW m, NEW i \in ShareId, NEW p, p = m[i].prev, p # NoShare
  PROVE  \A n \in 0..Steps :
           n + 1 <= Steps => Walk(m, i)[n + 1] = {i} \cup Walk(m, p)[n]
  <1> DEFINE w == Walk(m, i)
             v == Walk(m, p)
             Good == {n \in Nat : n + 1 <= Steps => w[n + 1] = {i} \cup v[n]}
  <1>0. i # NoShare
    BY MiningAssumption DEF NoShare
  <1>1. /\ Steps \in Nat /\ v[0] = {p} /\ w[0] = {i}
        /\ \A n \in 0..Steps : n + 1 <= Steps =>
             v[n + 1] = v[n] \cup Before(m, v[n]) /\ w[n + 1] = w[n] \cup Before(m, w[n])
    <2>1. /\ Steps \in Nat /\ w[0] = {i} \ {NoShare}
          /\ \A n \in 0..Steps : n + 1 <= Steps => w[n + 1] = w[n] \cup Before(m, w[n])
      BY WalkSteps
    <2>2. /\ v[0] = {p} \ {NoShare}
          /\ \A n \in 0..Steps : n + 1 <= Steps => v[n + 1] = v[n] \cup Before(m, v[n])
      BY WalkSteps
    <2>3. {i} \ {NoShare} = {i} /\ {p} \ {NoShare} = {p}
      BY <1>0
    <2> HIDE DEF w, v, Steps
    <2> QED BY <2>1, <2>2, <2>3
  <1> HIDE DEF w, v, Steps
  <1>2. Before(m, {i}) = {p}
    BY DEF Before
  <1>3. \A n \in 0..Steps : n \in Good
    <2>1. 0 \in Good
      <3>1. ASSUME 0 + 1 <= Steps PROVE w[0 + 1] = {i} \cup v[0]
        <4>1. 0 \in 0..Steps
          BY <1>1
        <4>2. w[0 + 1] = w[0] \cup Before(m, w[0])
          BY <1>1, <3>1, <4>1
        <4> QED BY <1>1, <1>2, <4>2
      <3> QED BY <3>1
    <2>2. ASSUME NEW n \in 0..Steps, n + 1 <= Steps, n \in Good PROVE n + 1 \in Good
      <3>1. w[n + 1] = {i} \cup v[n] /\ n + 1 \in Nat /\ n + 1 \in 0..Steps
        BY <1>1, <2>2
      <3>2. v[n + 1] = v[n] \cup Before(m, v[n])
        BY <1>1, <2>2
      <3>3. Before(m, {i} \cup v[n]) = {p} \cup Before(m, v[n])
        BY <1>2 DEF Before
      <3>4. p \in v[n]
        <4>1. v[0] \subseteq v[n]
          <5> DEFINE Has == {k \in Nat : p \in v[k]}
          <5>1. 0 \in Has
            BY <1>1
          <5>2. \A k \in 0..Steps : k + 1 <= Steps /\ k \in Has => k + 1 \in Has
            BY <1>1
          <5> HIDE DEF Has
          <5>3. \A k \in 0..Steps : k \in Has
            BY <1>1, <5>1, <5>2, Climb
          <5>4. n \in Has
            BY <5>3
          <5> QED BY <1>1, <5>4 DEF Has
        <4> QED BY <1>1, <4>1
      <3>5. ASSUME (n + 1) + 1 <= Steps PROVE w[(n + 1) + 1] = {i} \cup v[n + 1]
        <4>1. w[(n + 1) + 1] = w[n + 1] \cup Before(m, w[n + 1])
          BY <1>1, <3>1, <3>5
        <4> QED BY <3>1, <3>2, <3>3, <3>4, <4>1
      <3> QED BY <3>1, <3>5
    <2> HIDE DEF Good
    <2> QED BY <1>1, <2>1, <2>2, Climb
  <1> QED BY <1>3 DEF w, v

\* A share that is the first of its chain is its path.
LEMMA WalkAlone ==
  ASSUME NEW m, NEW i \in ShareId, m[i].prev \in {NoShare, i}
  PROVE  Walk(m, i)[Steps] = {i}
  <1> DEFINE w == Walk(m, i)
             Good == {n \in Nat : w[n] = {i}}
  <1>0. i # NoShare
    BY MiningAssumption DEF NoShare
  <1>1. /\ Steps \in Nat /\ w[0] = {i}
        /\ \A n \in 0..Steps : n + 1 <= Steps => w[n + 1] = w[n] \cup Before(m, w[n])
    BY <1>0, WalkSteps
  <1>2. Before(m, {i}) \subseteq {i}
    BY DEF Before
  <1> HIDE DEF w, Steps
  <1>3. \A n \in 0..Steps : n \in Good
    <2>1. 0 \in Good
      BY <1>1
    <2>2. ASSUME NEW n \in 0..Steps, n + 1 <= Steps, n \in Good PROVE n + 1 \in Good
      <3>1. w[n] = {i} /\ n + 1 \in Nat
        BY <2>2
      <3>2. w[n + 1] = {i}
        BY <1>1, <1>2, <2>2, <3>1
      <3> QED BY <3>1, <3>2
    <2> HIDE DEF Good
    <2> QED BY <1>1, <2>1, <2>2, Climb
  <1>4. Steps \in 0..Steps
    BY <1>1
  <1>5. Steps \in Good
    BY <1>3, <1>4
  <1> QED BY <1>5 DEF w

\* A walk among fewer shares than steps comes to an end: each step that does
\* not end it meets another share.
LEMMA WalkEnds ==
  ASSUME NEW m, NEW i \in ShareId, NEW x \in ShareId,
         Walk(m, i)[Steps] \subseteq ShareId \ {x}
  PROVE  Steps > 0 /\ Walk(m, i)[Steps - 1] = Walk(m, i)[Steps]
  <1> DEFINE w == Walk(m, i)
             T == ShareId \ {x}
             Done(n) == Before(m, w[n]) \subseteq w[n]
             Good == {n \in Nat : Done(n) \/ Cardinality(w[n]) > n}
  <1>0. i # NoShare
    BY MiningAssumption DEF NoShare
  <1>1. /\ Steps \in Nat /\ w[0] = {i}
        /\ \A n \in 0..Steps : n + 1 <= Steps => w[n + 1] = w[n] \cup Before(m, w[n])
    BY <1>0, WalkSteps
  <1>2. Steps > 0 /\ IsFiniteSet(T) /\ Cardinality(T) = Steps - 1
    BY MiningAssumption, FS_RemoveElement, FS_EmptySet, FS_CardinalityType, SMTT(30)
       DEF Steps
  <1>3. \A n \in 0..Steps : w[n] \subseteq T
    BY WalkGrows
  <1>4. \A n \in 0..Steps : IsFiniteSet(w[n]) /\ Cardinality(w[n]) \in Nat
                            /\ Cardinality(w[n]) <= Steps - 1
    <2> SUFFICES ASSUME NEW n \in 0..Steps
                 PROVE  IsFiniteSet(w[n]) /\ Cardinality(w[n]) \in Nat
                        /\ Cardinality(w[n]) <= Steps - 1
      OBVIOUS
    <2>1. w[n] \subseteq T
      BY <1>3
    <2> HIDE DEF w, T
    <2> QED BY <1>2, <2>1, FS_Subset, FS_CardinalityType
  <1> HIDE DEF w, T, Steps
  <1>5. \A n \in 0..Steps : n \in Good
    <2>1. 0 \in Good
      <3>1. Cardinality(w[0]) = 1
        BY <1>1, FS_Singleton
      <3> QED BY <3>1
    <2>2. ASSUME NEW n \in 0..Steps, n + 1 <= Steps, n \in Good PROVE n + 1 \in Good
      <3>1. /\ w[n + 1] = w[n] \cup Before(m, w[n]) /\ n + 1 \in Nat
            /\ n + 1 \in 0..Steps
        BY <1>1, <2>2
      <3>2. CASE Done(n)
        <4>1. w[n + 1] = w[n]
          BY <3>1, <3>2
        <4>2. Done(n + 1)
          BY <3>2, <4>1
        <4> QED BY <3>1, <4>2
      <3>3. CASE ~Done(n)
        <4>1. w[n] \subseteq w[n + 1] /\ w[n] # w[n + 1]
          BY <3>1, <3>3
        <4>2. IsFiniteSet(w[n + 1]) /\ IsFiniteSet(w[n])
          BY <1>4, <3>1
        <4>3. /\ Cardinality(w[n]) <= Cardinality(w[n + 1])
              /\ Cardinality(w[n]) # Cardinality(w[n + 1])
          BY <4>1, <4>2, FS_Subset
        <4>4. /\ Cardinality(w[n]) > n /\ Cardinality(w[n]) \in Nat
              /\ Cardinality(w[n + 1]) \in Nat
          BY <1>4, <2>2, <3>1, <3>3
        <4>5. Cardinality(w[n + 1]) > n + 1
          BY <4>3, <4>4
        <4> QED BY <3>1, <4>5
      <3> QED BY <3>2, <3>3
    <2> HIDE DEF Good
    <2> QED BY <1>1, <2>1, <2>2, Climb
  <1>6. /\ Steps - 1 \in 0..Steps /\ (Steps - 1) + 1 = Steps
        /\ (Steps - 1) + 1 <= Steps
    BY <1>1, <1>2
  <1>7. Done(Steps - 1)
    <2>1. Steps - 1 \in Good /\ Cardinality(w[Steps - 1]) <= Steps - 1
          /\ Cardinality(w[Steps - 1]) \in Nat
      BY <1>4, <1>5, <1>6
    <2>2. ~(Cardinality(w[Steps - 1]) > Steps - 1)
      BY <1>1, <2>1
    <2> QED BY <2>1, <2>2
  <1>8. w[Steps] = w[Steps - 1] \cup Before(m, w[Steps - 1])
    BY <1>1, <1>6
  <1> QED BY <1>2, <1>7, <1>8 DEF w

\* Chains only hold workshares that are in the pool, and are as heavy as long.
LEMMA WalkContinues ==
  ASSUME NEW m, NEW i \in ShareId, NEW p \in ShareId, p = m[i].prev,
         Walk(m, p)[Steps] \subseteq ShareId \ {i}
  PROVE  /\ Walk(m, i)[Steps] = {i} \cup Walk(m, p)[Steps]
         /\ Cardinality(Walk(m, i)[Steps]) = 1 + Cardinality(Walk(m, p)[Steps])
  <1>1. Steps > 0 /\ Walk(m, p)[Steps - 1] = Walk(m, p)[Steps]
    BY WalkEnds
  <1>2. Steps \in Nat
    BY WalkSteps
  <1>3. p # NoShare
    BY MiningAssumption DEF NoShare
  <1>4. Walk(m, i)[Steps] = {i} \cup Walk(m, p)[Steps - 1]
    <2>1. Steps - 1 \in 0..Steps /\ (Steps - 1) + 1 = Steps
          /\ (Steps - 1) + 1 <= Steps
      <3> HIDE DEF Steps
      <3> QED BY <1>1, <1>2
    <2>2. \A n \in 0..Steps :
            n + 1 <= Steps => Walk(m, i)[n + 1] = {i} \cup Walk(m, p)[n]
      BY <1>3, WalkFrom
    <2> HIDE DEF Steps
    <2>3. Walk(m, i)[(Steps - 1) + 1] = {i} \cup Walk(m, p)[Steps - 1]
      BY <2>1, <2>2
    <2> QED BY <2>1, <2>3
  <1> DEFINE v == Walk(m, p)[Steps]
  <1>5. IsFiniteSet(v) /\ i \notin v
    BY MiningAssumption, FS_Subset
  <1> HIDE DEF v
  <1>6. Cardinality(v \cup {i}) = Cardinality(v) + 1 /\ Cardinality(v) \in Nat
    BY <1>5, FS_AddElement, FS_CardinalityType
  <1>7. Walk(m, i)[Steps] = v \cup {i}
    BY <1>1, <1>4 DEF v
  <1>8. Cardinality(Walk(m, i)[Steps]) = 1 + Cardinality(v)
    BY <1>6, <1>7
  <1> QED BY <1>7, <1>8 DEF v

-----------------------------------------------------------------------------
(* PathsComplete.                                                            *)

\* PathsComplete, strengthened: a pool without a tip is empty, and
\* submit_workshare finds no work where there is no share.
PathInv ==
  /\ PathsComplete
  /\ best = NoShare => shares = {}
  /\ \A i \in ShareId \ shares : pathWork[i] = 0

\* The path of a share of the pool stays, whatever workshares come into being.
LEMMA PathStays ==
  ASSUME TypeOK, PathInv, \A j \in Made : made'[j] = made[j],
         NEW i \in shares
  PROVE  Path(i) \subseteq shares /\ Path(i)' = Path(i)
  <1>1. CandidateWitness(i) /\ i \in ShareId /\ shares \subseteq Made
    BY DEF TypeOK, PathInv, PathsComplete
  <1>2. Path(i) \subseteq shares
    <2> SUFFICES ASSUME NEW j \in Path(i) PROVE j \in shares
      OBVIOUS
    <2> QED BY <1>1 DEF CandidateWitness
  <1>3. Path(i) = Walk(made, i)[Steps]
    BY PathIsWalk
  <1>4. Path(i)' = Walk(made', i)[Steps]
    BY DEF Path, Walk, IsWalk, Before, Steps
  <1>5. \A j \in Walk(made, i)[Steps] : made'[j].prev = made[j].prev
    BY <1>1, <1>2, <1>3
  <1>6. Walk(made', i)[Steps] = Walk(made, i)[Steps]
    BY <1>5, WalkAgrees
  <1> QED BY <1>2, <1>3, <1>4, <1>6

\* A step that leaves the shares alone.
LEMMA PathsKept ==
  ASSUME TypeOK, PathInv, UNCHANGED <<tip, anchor, shares, pathWork, best>>,
         templates \subseteq templates', \A j \in Made : made'[j] = made[j]
  PROVE  PathInv'
  <1>1. ASSUME NEW i \in shares
        PROVE  CandidateWitness(i)' /\ pathWork'[i] = Cardinality(Path(i)')
    <2>1. Path(i)' = Path(i) /\ made'[i] = made[i]
      BY PathStays DEF TypeOK
    <2>2. CandidateWitness(i) /\ pathWork[i] = Cardinality(Path(i))
      BY DEF PathInv, PathsComplete
    <2>3. \A j \in Path(i) : made'[j] = made[j]
      BY PathStays DEF TypeOK
    <2>4. CandidateWitness(i)'
      BY <2>1, <2>2, <2>3 DEF CandidateWitness
    <2> QED BY <2>1, <2>2, <2>4
  <1>2. PathsComplete'
    BY <1>1 DEF PathInv, PathsComplete
  <1> QED BY <1>2 DEF PathInv

\* A new tip.
LEMMA PublishPaths ==
  ASSUME TypeOK, NEW time, Publish(time)
  PROVE  PathInv'
  <1>1. /\ anchor' = tip + 1 /\ tip' = tip + 1 /\ shares' = {}
        /\ best' = NoShare /\ pathWork' = [i \in ShareId |-> 0]
    BY DEF Publish
  <1> QED BY <1>1 DEF PathInv, PathsComplete

\* submit_workshare's work is the length of the path.
LEMMA SubmitWeighs ==
  ASSUME TypeOK, PathInv, NEW i \in Made, CandidateWitness(i), i \notin shares
  PROVE  /\ made[i].prev # NoShare => made[i].prev \in ShareId
         /\ 1 + (IF made[i].prev = NoShare THEN 0 ELSE pathWork[made[i].prev])
              = Cardinality(Path(i))
  <1> DEFINE p == made[i].prev
  <1>1. i \in ShareId /\ p \in ShareId \cup {NoShare} /\ i # NoShare
    BY MiningAssumption DEF TypeOK, Workshare, NoShare
  <1>2. Path(i) = Walk(made, i)[Steps]
    BY PathIsWalk
  <1>3. CASE p \in {NoShare, i}
    <2>1. Path(i) = {i}
      BY <1>1, <1>2, <1>3, WalkAlone
    <2>2. Cardinality(Path(i)) = 1
      BY <2>1, FS_Singleton
    <2>3. pathWork[i] = 0
      BY <1>1 DEF PathInv
    <2> HIDE DEF p
    <2>4. 1 + (IF p = NoShare THEN 0 ELSE pathWork[p]) = 1
      BY <1>1, <1>3, <2>3
    <2> QED BY <1>1, <2>2, <2>4 DEF p
  <1>4. CASE p \notin {NoShare, i}
    <2>1. p \in ShareId /\ p # NoShare
      BY <1>1, <1>4
    <2>2. Steps > 0 /\ Steps \in Nat
      BY <1>1, MiningAssumption, FS_EmptySet, FS_CardinalityType DEF Steps
    <2>3. p \in Path(i)
      <3>1. Walk(made, i)[1] = {i} \cup Walk(made, p)[0]
        <4>1. 0 \in 0..Steps /\ 0 + 1 <= Steps /\ 0 + 1 = 1
          BY <2>2
        <4>2. \A n \in 0..Steps :
                n + 1 <= Steps => Walk(made, i)[n + 1] = {i} \cup Walk(made, p)[n]
          BY <1>1, <2>1, WalkFrom
        <4> HIDE DEF p
        <4> QED BY <4>1, <4>2
      <3>2. Walk(made, p)[0] = {p}
        BY <2>1, WalkSteps
      <3>3. 1 \in 0..Steps
        BY <2>2
      <3>4. Walk(made, i)[1] \subseteq Walk(made, i)[Steps]
        BY <3>3, WalkGrows
      <3> QED BY <1>2, <3>1, <3>2, <3>4
    <2>4. p \in shares
      BY <1>4, <2>3 DEF CandidateWitness
    <2>5. /\ Path(p) \subseteq shares /\ pathWork[p] = Cardinality(Path(p))
          /\ shares \subseteq ShareId
      <3>1. CandidateWitness(p) /\ pathWork[p] = Cardinality(Path(p))
        BY <2>4 DEF PathInv, PathsComplete
      <3>2. Path(p) \subseteq shares
        BY <2>4, <3>1 DEF CandidateWitness
      <3> QED BY <3>1, <3>2 DEF TypeOK
    <2>6. Path(p) = Walk(made, p)[Steps]
      BY PathIsWalk
    <2>7. Walk(made, p)[Steps] \subseteq ShareId \ {i}
      BY <2>5, <2>6
    <2>8. Cardinality(Path(i)) = 1 + Cardinality(Path(p))
      <3>1. Cardinality(Walk(made, i)[Steps]) = 1 + Cardinality(Walk(made, p)[Steps])
        BY <1>1, <2>1, <2>7, WalkContinues
      <3> QED BY <1>2, <2>6, <3>1
    <2> HIDE DEF p
    <2>9. 1 + (IF p = NoShare THEN 0 ELSE pathWork[p]) = Cardinality(Path(i))
      BY <2>1, <2>5, <2>8
    <2> QED BY <2>1, <2>9 DEF p
  <1> QED BY <1>3, <1>4

\* A submission, accepted or not.
LEMMA SubmitPaths ==
  ASSUME TypeOK, PathInv, NEW i \in Made, SubmitWorkshare(i),
         UNCHANGED <<tip, made>>
  PROVE  PathInv'
  <1> DEFINE work == 1 + IF made[i].prev = NoShare THEN 0
                                                   ELSE pathWork[made[i].prev]
             accepted == /\ CandidateWitness(i)
                         /\ ValidateWorkshares(i, tipTime, now + Future)
                         /\ i \notin shares /\ Cardinality(shares) < MaxShares
  <1>1. CASE ~accepted
    <2>1. UNCHANGED pool
      BY <1>1 DEF SubmitWorkshare
    <2> QED BY <2>1, PathsKept DEF pool
  <1>2. CASE accepted
    <2>1. /\ shares' = shares \cup {i} /\ pathWork' = [pathWork EXCEPT ![i] = work]
          /\ best' = BetterTip(i, work) /\ anchor' = anchor
          /\ templates' = templates
      BY <1>2 DEF SubmitWorkshare
    <2>2. /\ i \in ShareId /\ shares \subseteq ShareId /\ i \notin shares
          /\ best \in ShareId \cup {NoShare} /\ pathWork \in [ShareId -> Nat]
          /\ ShareId \subseteq Nat /\ NoShare \notin ShareId
      BY <1>2, MiningAssumption DEF TypeOK, NoShare
    <2>3. work = Cardinality(Path(i))
      BY <1>2, SubmitWeighs
    <2>4. work \in Nat /\ work >= 1
      <3>1. made[i].prev = NoShare \/ pathWork[made[i].prev] \in Nat
        BY <1>2, <2>2, SubmitWeighs
      <3> QED BY <3>1
    <2> HIDE DEF work, accepted
    <2>5. /\ pathWork'[i] = work
          /\ \A j \in ShareId : j # i => pathWork'[j] = pathWork[j]
      BY <2>1, <2>2
    <2>6. ASSUME NEW j \in shares'
          PROVE  CandidateWitness(j)' /\ pathWork'[j] = Cardinality(Path(j)')
      <3>1. Path(j)' = Path(j)
        BY DEF Path
      <3>2. CandidateWitness(j) /\ pathWork'[j] = Cardinality(Path(j))
        <4>1. CASE j = i
          BY <1>2, <2>3, <2>5, <4>1 DEF accepted
        <4>2. CASE j # i
          BY <2>1, <2>2, <2>5, <4>2 DEF PathInv, PathsComplete
        <4> QED BY <4>1, <4>2
      <3>3. CandidateWitness(j)'
        BY <2>1, <3>1, <3>2 DEF CandidateWitness
      <3> QED BY <3>1, <3>2, <3>3
    <2>7. /\ best' \in shares'
          /\ \A j \in shares' : \/ pathWork'[j] < pathWork'[best']
                                \/ pathWork'[j] = pathWork'[best'] /\ best' <= j
      <3>1. CASE best = NoShare
        <4>1. best' = i
          BY <2>1, <2>4, <3>1 DEF BetterTip
        <4>2. shares' = {i} /\ i \in Nat
          BY <2>1, <2>2, <3>1 DEF PathInv
        <4> QED BY <4>1, <4>2
      <3>2. CASE best # NoShare
        <4> DEFINE old == pathWork[best]
        <4>1. /\ best \in shares /\ best \in Nat /\ i \in Nat /\ best # i
              /\ old \in Nat
              /\ \A j \in shares : \/ pathWork[j] < old
                                   \/ pathWork[j] = old /\ best <= j
          BY <2>2, <3>2 DEF PathInv, PathsComplete
        <4>2. best' = IF work > old \/ (work = old /\ i < best) THEN i ELSE best
          BY <2>1, <3>2 DEF BetterTip
        <4>3. \A j \in shares : /\ pathWork'[j] = pathWork[j] /\ pathWork[j] \in Nat
                                /\ j \in Nat
          BY <2>2, <2>5
        <4>4. pathWork'[best] = old
          BY <4>1, <4>3
        <4> HIDE DEF old
        <4>5. CASE work > old \/ (work = old /\ i < best)
          <5>1. best' = i /\ pathWork'[best'] = work
            BY <2>5, <4>2, <4>5
          <5>2. \A j \in shares : \/ pathWork'[j] < work
                                  \/ pathWork'[j] = work /\ i <= j
            BY <2>4, <4>1, <4>3, <4>5
          <5> QED BY <2>1, <2>5, <4>1, <5>1, <5>2
        <4>6. CASE ~(work > old \/ (work = old /\ i < best))
          <5>1. best' = best /\ pathWork'[best'] = old
            BY <4>2, <4>4, <4>6
          <5>2. work < old \/ (work = old /\ best <= i)
            BY <2>4, <4>1, <4>6
          <5>3. \A j \in shares : \/ pathWork'[j] < old
                                  \/ pathWork'[j] = old /\ best <= j
            BY <4>1, <4>3
          <5> QED BY <2>1, <2>5, <4>1, <5>1, <5>2, <5>3
        <4> QED BY <4>5, <4>6
      <3> QED BY <3>1, <3>2
    <2>8. \A j \in ShareId \ shares' : pathWork'[j] = 0
      BY <2>1, <2>5 DEF PathInv
    <2>9. anchor' = tip'
      BY <2>1 DEF PathInv, PathsComplete
    <2>10. best' # NoShare
      BY <2>1, <2>2, <2>7
    <2>11. PathsComplete'
      BY <2>6, <2>7, <2>9 DEF PathsComplete
    <2> QED BY <2>8, <2>10, <2>11 DEF PathInv
  <1> QED BY <1>1, <1>2

\* Every step of the threads keeps the paths.
LEMMA NextPaths == TypeOK /\ PathInv /\ [Next]_vars => PathInv'
  <1> SUFFICES ASSUME TypeOK, PathInv, [Next]_vars PROVE PathInv'
    OBVIOUS
  <1>a. ASSUME UNCHANGED <<tip, made, pool>> PROVE PathInv'
    BY <1>a, PathsKept DEF pool
  <1>b. ASSUME NEW t, RegisterTemplate(t), UNCHANGED <<tip, made>> PROVE PathInv'
    <2>1. /\ templates \subseteq templates'
          /\ UNCHANGED <<anchor, shares, pathWork, best>>
      BY <1>b DEF RegisterTemplate
    <2> QED BY <1>b, <2>1, PathsKept
  <1>c. ASSUME NEW i \in ShareId \ Made, NEW r,
               made' = [j \in Made \cup {i} |-> IF j = i THEN r ELSE made[j]],
               UNCHANGED <<tip, pool>>
        PROVE  PathInv'
    <2>1. \A j \in Made : made'[j] = made[j]
      BY <1>c
    <2> QED BY <1>c, <2>1, PathsKept DEF pool
  <1>1. ASSUME NEW w \in Worker, WorkerStep(w) PROVE PathInv'
    <2>1. CASE \/ CheckEnabled(w) \/ (\E t \in Template : ReadConfig(w, t))
               \/ ReadWitness(w) \/ Stamp(w) \/ NoticeGeneration(w) \/ GiveUp(w)
               \/ CountFound(w)
      BY <1>a, <2>1 DEF CheckEnabled, ReadConfig, ReadWitness, Stamp,
         NoticeGeneration, GiveUp, CountFound, chain
    <2>2. CASE AddTemplate(w)
      BY <1>b, <2>2 DEF AddTemplate, chain
    <2>3. ASSUME NEW i \in ShareId, FindShare(w, i) PROVE PathInv'
      <3>1. i \in ShareId \ Made /\ UNCHANGED <<tip, pool>>
        BY <2>3 DEF FindShare, chain
      <3> QED BY <1>c, <2>3, <3>1 DEF FindShare
    <2>4. CASE SubmitFound(w)
      <3>1. worker[w].share \in Made
        BY <2>4 DEF SubmitFound, TypeOK
      <3> QED BY <2>4, <3>1, SubmitPaths DEF SubmitFound, chain
    <2>5. CASE FindBlock(w)
      BY <2>5, PublishPaths DEF FindBlock
    <2> QED BY <1>1, <2>1, <2>2, <2>3, <2>4, <2>5 DEF WorkerStep
  <1>2. ASSUME NEW p \in Peer, HandlerStep(p) PROVE PathInv'
    <2>1. ASSUME NEW a \in Anchor, NEW t \in Template, ReceiveTemplate(p, a, t)
          PROVE  PathInv'
      BY <1>a, <1>b, <2>1 DEF ReceiveTemplate, chain
    <2>2. CASE \/ (\E i \in ShareId : ReceiveShare(p, i)) \/ InsertOrphan(p)
               \/ CountReceived(p) \/ (\E i \in ShareId : TakeReady(p, i))
               \/ NoneReady(p) \/ Reply(p) \/ Disconnect(p)
      BY <1>a, <2>2 DEF ReceiveShare, InsertOrphan, CountReceived, TakeReady,
         NoneReady, Reply, Disconnect, chain
    <2>3. CASE SubmitReceived(p)
      <3>1. handler[p].id \in Made
        BY <2>3 DEF SubmitReceived, TypeOK
      <3> QED BY <2>3, <3>1, SubmitPaths DEF SubmitReceived, chain
    <2> QED BY <1>2, <2>1, <2>2, <2>3 DEF HandlerStep, HandlerWork
  <1>3. ASSUME NEW i \in ShareId, NEW prev \in ShareId \cup {NoShare},
               NEW r \in Remote, RemoteShare(i, prev, r)
        PROVE  PathInv'
    <2>1. i \in ShareId \ Made /\ UNCHANGED <<tip, pool>>
      BY <1>3 DEF RemoteShare, chain
    <2> QED BY <1>3, <1>c, <2>1 DEF RemoteShare
  <1>4. ASSUME NEW time \in Time, PeerBlock(time) PROVE PathInv'
    BY <1>4, PublishPaths DEF PeerBlock
  <1>5. CASE (\E c \in Config : ApplyMiningConfig(c)) \/ Tick \/ UNCHANGED vars
    BY <1>a, <1>5 DEF ApplyMiningConfig, Tick, vars, chain
  <1> QED BY <1>1, <1>2, <1>3, <1>4, <1>5 DEF Next

\* "accepted workshare path remains available" (node.rs:234): the witness of
\* every accepted share can be built, for the live tip, its work is the length
\* of its path, and the pool's tip is the heaviest path, the lowest id among
\* equals: it does not depend on the order in which workers and peers submit,
\* on templates that come in later, or on shares made in the meantime.
THEOREM PathsAvailable == Spec => []PathsComplete
  <1>1. Init => PathInv
    <2> SUFFICES ASSUME Init PROVE PathInv
      OBVIOUS
    <2>1. /\ anchor = 0 /\ tip = 0 /\ shares = {} /\ best = NoShare
          /\ pathWork = [i \in ShareId |-> 0]
      BY DEF Init
    <2> QED BY <2>1 DEF PathInv, PathsComplete
  <1>2. PathInv => PathsComplete
    BY DEF PathInv
  <1> QED BY <1>1, <1>2, NextPaths, TypeCorrect, PTL DEF Spec
=============================================================================
