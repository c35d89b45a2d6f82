----------------------------- MODULE ChainStore -----------------------------
(***************************************************************************)
(* The chain a node keeps in memory, the SQLite database it keeps it in,   *)
(* and Node::submit_block, which moves both (src/src/node.rs,              *)
(* src/src/storage.rs, src/src/consensus/chain.rs).                        *)
(*                                                                         *)
(* submit_block holds the chain write lock from its first line to its last *)
(* one, so submissions do not interleave with each other or with readers.  *)
(* It writes to disk twice, though, in two transactions (store_side_block  *)
(* and save_chain), and each write can fail and the process can die around *)
(* it, so the submission is split at those points:                         *)
(*                                                                         *)
(*    idle --Extend / Consider--> store --StoreSideBlock--> save           *)
(*    save --SaveChain--> publish --Publish--> idle                        *)
(*                                                                         *)
(* What Publish does to the mempool, to the workshare pool and to the      *)
(* peers is modelled in Mempool, Mining and Sync.                          *)
(***************************************************************************)
EXTENDS BlockTree

CONSTANTS
  NoBlock,        \* no chain: an empty active_chain table, a stopped process
  MaxBranch,      \* 100_000 in assemble_candidate
  SnapshotLimit,  \* LIMIT 3 in save_chain
  MaxClock,       \* bound: the last clock value
  MaxStepBacks,   \* bound: how often the system clock is set back
  MaxFailures     \* bound: crashes and failed writes together

ASSUME StoreAssumption ==
  /\ NoBlock \notin Block
  /\ MaxBranch \in Nat /\ SnapshotLimit \in Nat \ {0}
  /\ MaxClock \in Nat /\ MaxStepBacks \in Nat /\ MaxFailures \in Nat

VARIABLES
  \* The process.
  up,          \* the node is open
  live,        \* Node.chain: the tip of the chain in memory
  stage,       \* where submit_block stands
  cand,        \* its candidate chain
  event,       \* the ChainEvent of append or consider_chain
  \* The database.
  stored,      \* blocks table
  active,      \* active_chain table and 'tip' metadata, by the last block
  snapshots,   \* state_snapshots table, by the block each one belongs to
  \* The environment.
  clock,       \* SystemTimeSource
  stepBacks,   \* times the clock was set back
  failures,    \* crashes and failed writes so far
  \* History.
  interrupted  \* blocks stored by a submission that never saved its chain

process == <<up, live, stage, cand, event>>
database == <<stored, active, snapshots>>
environment == <<clock, stepBacks, failures>>
vars == <<process, database, environment, interrupted>>

Init ==
  /\ up = FALSE /\ live = NoBlock
  /\ stage = "idle" /\ cand = NoBlock /\ event = "Known"
  /\ stored = {} /\ active = NoBlock /\ snapshots = {}
  /\ clock = 0 /\ stepBacks = 0 /\ failures = 0
  /\ interrupted = {}

-----------------------------------------------------------------------------
(* Validation and assembly.                                                *)

\* validate_block of one block: everything it checks of the block itself,
\* and the clock (FutureTimestamp).
ValidateBlock(b) == b \in Valid /\ Time[b] <= clock

\* Chain::from_blocks validates every block after the genesis block.
FromBlocks(b) == \A p \in Anc[b] \ {Genesis} : ValidateBlock(p)

\* Mutation: the walk accepts a hole in the branch.
AssembleAnything(b) == Cardinality(Anc[b] \ Anc[live]) <= MaxBranch + 1

\* assemble_candidate walks back from b through the blocks table until it
\* meets the active chain; a hole, or a walk past MaxBranch blocks, is
\* WrongParent.
AssembleCandidate(b) ==
  /\ \A p \in Anc[b] \ {b} : p \in Anc[live] \cup stored
  /\ Cardinality(Anc[b] \ Anc[live]) <= MaxBranch + 1

\* The first branch of submit_block: the block builds on the tip.
Extends(b) ==
  /\ b \notin Anc[live]
  /\ Parent[b] = live
  /\ ValidateBlock(b)

\* Mutation: a complete branch is taken without being validated.
CompetesUnchecked(b) ==
  b \notin Anc[live] /\ Parent[b] # live /\ AssembleCandidate(b)

\* The second branch: a competing chain, complete and valid.
Competes(b) ==
  /\ b \notin Anc[live]
  /\ Parent[b] # live
  /\ AssembleCandidate(b)
  /\ FromBlocks(b)

\* Mutation: the longest chain wins.
ConsiderByHeight(b) ==
  IF Height[b] > Height[live] THEN "Reorganized" ELSE "SideChain"

\* Mutation: on equal work the newcomer wins.
ConsiderLatest(b) ==
  IF CumWork[b] >= CumWork[live] THEN "Reorganized" ELSE "SideChain"

\* consider_chain's verdict.
ConsiderChain(b) ==
  IF Preferred(b, live) THEN "Reorganized" ELSE "SideChain"

\* The snapshot table after save_chain: one row per height, then only the
\* SnapshotLimit greatest heights.
SavedSnapshots(b) ==
  LET rows == {s \in snapshots : Height[s] # Height[b]} \cup {b}
  IN  {s \in rows :
         Cardinality({t \in rows : Height[t] > Height[s]}) < SnapshotLimit}

\* storage.save_chain: one transaction.
Commit(b) ==
  /\ stored' = stored \cup Anc[b]
  /\ active' = b
  /\ snapshots' = SavedSnapshots(b)

-----------------------------------------------------------------------------
(* Node::open.                                                             *)

\* Mutation: the genesis chain is not saved.
OpenFreshUnsaved ==
  /\ ~up /\ active = NoBlock
  /\ up' = TRUE /\ live' = Genesis
  /\ UNCHANGED <<stage, cand, event, database, environment, interrupted>>

\* An empty database receives the genesis chain.
OpenFresh ==
  /\ ~up /\ active = NoBlock
  /\ Commit(Genesis)
  /\ up' = TRUE /\ live' = Genesis
  /\ UNCHANGED <<stage, cand, event, environment, interrupted>>

\* The stored active chain is validated again in full, against the clock of
\* the restart. Blocks that are stored but not active are not looked at.
OpenStored ==
  /\ ~up /\ active # NoBlock
  /\ FromBlocks(active)
  /\ up' = TRUE /\ live' = active
  /\ UNCHANGED <<stage, cand, event, database, environment, interrupted>>

\* If that fails the node does not open.
OpenRefused ==
  /\ ~up /\ active # NoBlock
  /\ ~FromBlocks(active)
  /\ UNCHANGED vars

-----------------------------------------------------------------------------
(* Node::submit_block.                                                     *)

\* A block of the active chain (Known) and a rejected block change nothing.
Refuse(b) ==
  /\ up /\ stage = "idle"
  /\ ~Extends(b) /\ ~Competes(b)
  /\ UNCHANGED vars

Extend(b) ==
  /\ up /\ stage = "idle"
  /\ Extends(b)
  /\ stage' = "store" /\ cand' = b /\ event' = "Extended"
  /\ UNCHANGED <<up, live, database, environment, interrupted>>

Consider(b) ==
  /\ up /\ stage = "idle"
  /\ Competes(b)
  /\ stage' = "store" /\ cand' = b /\ event' = ConsiderChain(b)
  /\ UNCHANGED <<up, live, database, environment, interrupted>>

\* store_side_block: its own transaction. A side chain is done here.
StoreSideBlock ==
  /\ stage = "store"
  /\ stored' = stored \cup {cand}
  /\ stage' = IF event = "SideChain" THEN "idle" ELSE "save"
  /\ UNCHANGED <<up, live, cand, event, active, snapshots, environment,
                 interrupted>>

SaveChain ==
  /\ stage = "save"
  /\ Commit(cand)
  /\ stage' = "publish"
  /\ UNCHANGED <<up, live, cand, event, environment, interrupted>>

\* *live = candidate, after the mempool was updated.
Publish ==
  /\ stage = "publish"
  /\ live' = cand
  /\ stage' = "idle"
  /\ UNCHANGED <<up, cand, event, database, environment, interrupted>>

\* Mutation: the error of save_chain is ignored.
WriteFailsIgnored ==
  /\ stage \in {"store", "save"} /\ failures < MaxFailures
  /\ failures' = failures + 1
  /\ stage' = IF stage = "save" THEN "publish" ELSE "idle"
  /\ UNCHANGED <<up, live, cand, event, database, clock, stepBacks,
                 interrupted>>

\* Either write returns an error (disk full, busy database): submit_block
\* returns StorageInvariant and the chain in memory stays as it was.
WriteFails ==
  /\ stage \in {"store", "save"} /\ failures < MaxFailures
  /\ failures' = failures + 1
  /\ interrupted' = IF stage = "save" THEN interrupted \cup {cand}
                                      ELSE interrupted
  /\ stage' = "idle"
  /\ UNCHANGED <<up, live, cand, event, database, clock, stepBacks>>

-----------------------------------------------------------------------------
(* The environment.                                                        *)

\* The process dies: memory is lost, the database keeps what was committed.
Crash ==
  /\ up /\ failures < MaxFailures
  /\ failures' = failures + 1
  /\ interrupted' = IF stage = "save" THEN interrupted \cup {cand}
                                      ELSE interrupted
  /\ up' = FALSE /\ live' = NoBlock
  /\ stage' = "idle" /\ cand' = NoBlock /\ event' = "Known"
  /\ UNCHANGED <<database, clock, stepBacks>>

Tick ==
  /\ clock < MaxClock
  /\ clock' = clock + 1
  /\ UNCHANGED <<process, database, stepBacks, failures, interrupted>>

StepBack ==
  /\ clock > 0 /\ stepBacks < MaxStepBacks
  /\ clock' = clock - 1
  /\ stepBacks' = stepBacks + 1
  /\ UNCHANGED <<process, database, failures, interrupted>>

Submit(b) == Refuse(b) \/ Extend(b) \/ Consider(b)

Next ==
  \/ OpenFresh \/ OpenStored \/ OpenRefused
  \/ \E b \in Block \ {Genesis} : Submit(b)
  \/ StoreSideBlock \/ SaveChain \/ Publish
  \/ WriteFails \/ Crash
  \/ Tick \/ StepBack

Spec == Init /\ [][Next]_vars

\* The service manager restarts a stopped node and time passes.
Fairness == WF_vars(OpenFresh \/ OpenStored) /\ WF_vars(Tick)

FairSpec == Spec /\ Fairness

-----------------------------------------------------------------------------
(* Properties.                                                             *)

\* Types, and what an idle, a stopped and a submitting process look like.
TypeOK ==
  /\ up \in BOOLEAN
  /\ live \in Block \cup {NoBlock} /\ (up <=> live # NoBlock)
  /\ stage \in {"idle", "store", "save", "publish"}
  /\ cand \in Block \cup {NoBlock}
  /\ stage # "idle" => up /\ cand \in Block
  /\ event \in {"Known", "Extended", "Reorganized", "SideChain"}
  /\ stored \in SUBSET Block
  /\ active \in Block \cup {NoBlock} /\ (up => active # NoBlock)
  /\ snapshots \in SUBSET Block
  /\ clock \in 0..MaxClock
  /\ stepBacks \in 0..MaxStepBacks /\ failures \in 0..MaxFailures
  /\ interrupted \in SUBSET Block

\* "This prevents poisoned branch objects from entering persistent storage
\* and makes later branch extension independent of arrival order"
\* (chain.rs:140-142): a stored block is valid and its whole ancestry is
\* stored, so assemble_candidate finds every parent of its children.
StoredChainsComplete ==
  \A b \in stored : Anc[b] \subseteq stored /\ ValidChain(b)

\* The chain the node answers from is the chain the database would restart
\* it with, but for the window between save_chain and the assignment to
\* live, which readers cannot enter.
LiveIsDurable ==
  up => active = IF stage = "publish" THEN cand ELSE live

\* Fork choice: no stored chain is preferred to the live one, however the
\* blocks arrived, unless its tip belongs to a submission that was cut off
\* between its two transactions.
BestUnlessInterrupted ==
  up /\ stage = "idle" =>
    \A b \in stored \ interrupted : ~Preferred(b, live)

\* The active rows refer to stored blocks (the foreign key of active_chain).
\* The submission in progress: its candidate is a valid chain whose parents
\* are stored, it is preferred to the live chain unless it is a side chain,
\* and it is stored itself once store_side_block is done.
SubmissionSound ==
  /\ IF active = NoBlock THEN stored = {} ELSE active \in stored
  /\ stage # "idle" =>
       /\ event # "Known"
       /\ ValidChain(cand) /\ Anc[cand] \ {cand} \subseteq stored
       /\ Preferred(cand, live) <=> event # "SideChain"
  /\ stage \in {"save", "publish"} => event # "SideChain" /\ cand \in stored

\* The chain the database holds is the best of the stored ones, but for the
\* interrupted submissions and the one in progress.
BestCommitted ==
  active # NoBlock =>
    \A b \in stored \ interrupted :
       Preferred(b, active) => stage = "save" /\ b = cand

\* The inductive invariant behind the properties above.
ForkChoiceInv ==
  /\ TypeOK /\ StoredChainsComplete /\ LiveIsDurable
  /\ SubmissionSound /\ BestCommitted

\* consider_chain: "the valid chain with the greatest real L1 work wins"
\* (chain.rs:128-129). A node that opens, after a crash too, opens on the best
\* of the chains it has stored.
OpensOnBest ==
  [][~up /\ up' => \A b \in stored' : ~Preferred(b, live')]_vars

\* consider_chain: "There is no consensus reorg-depth cap" (chain.rs:127): a
\* valid block whose ancestors the node has is taken, as an extension or as
\* a competing chain.
NoReorgDepthCap ==
  up /\ stage = "idle" =>
    \A b \in Block \ Anc[live] :
       Anc[b] \ {b} \subseteq stored /\ FromBlocks(b)
         => Extends(b) \/ Competes(b)

\* save_chain commits "tip metadata, and the verified chainstate snapshot in
\* one SQLite transaction" (storage.rs:149-150): the snapshot of the active
\* tip is there.
TipHasSnapshot == active # NoBlock => active \in snapshots

\* A stopped node comes back whatever the clock did: the full validation of
\* open never refuses for good a chain the node itself committed.
Recovers == ~up ~> up

\* The chain a client of the node can rely on: the live one, and the
\* committed one while the process is down.
FollowedTip ==
  IF up THEN live ELSE IF active = NoBlock THEN Genesis ELSE active

FC == INSTANCE ForkChoice WITH tip <- FollowedTip

\* Through crashes, failed writes and restarts the followed chain only moves
\* to valid chains that the fork choice prefers.
ImplementsForkChoice == FC!Spec
=============================================================================
