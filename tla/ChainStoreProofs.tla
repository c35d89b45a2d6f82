-------------------------- MODULE ChainStoreProofs --------------------------
(***************************************************************************)
(* Proofs about ChainStore for every block tree and every bound: its       *)
(* safety invariants, from the inductive invariant ForkChoiceInv, and the  *)
(* refinement of ForkChoice.                                               *)
(***************************************************************************)
EXTENDS ChainStore, TLAPS

-----------------------------------------------------------------------------
(* The order of the fork choice.                                           *)

\* No chain is preferred to itself (the comparisons of consider_chain are
\* strict).
LEMMA PreferredIrreflexive ==
  ASSUME NEW b \in Block
  PROVE  ~Preferred(b, b)
  BY WorkAssumption, RankAssumption DEF Preferred

\* Work first and the hash second is a transitive order.
LEMMA PreferredTransitive ==
  ASSUME NEW a \in Block, NEW b \in Block, NEW c \in Block,
         Preferred(a, b), Preferred(b, c)
  PROVE  Preferred(a, c)
  BY WorkAssumption, RankAssumption DEF Preferred

\* append never compares: a block on the tip has more work than the tip,
\* because target_work is at least 1.
LEMMA ChildPreferred ==
  ASSUME NEW b \in Block \ {Genesis}
  PROVE  Preferred(b, Parent[b])
  <1>1. CumWork[b] = CumWork[Parent[b]] + Work[b]
    BY WorkAssumption
  <1>2. Parent[b] \in Block /\ CumWork[Parent[b]] \in Nat
        /\ Work[b] \in Nat /\ Work[b] > 0
    BY TreeAssumption, WorkAssumption
  <1> QED BY <1>1, <1>2 DEF Preferred

\* A chain contains its tip and the chain of the tip's parent.
LEMMA ChainShape ==
  ASSUME NEW b \in Block
  PROVE  /\ b \in Anc[b] /\ Anc[b] \subseteq Block
         /\ b # Genesis => /\ Parent[b] \in Block
                           /\ Anc[b] = Anc[Parent[b]] \cup {b}
  BY TreeAssumption

-----------------------------------------------------------------------------
(* The inductive invariant.                                                *)

\* A database that is empty holds nothing that could break the mapping.
LEMMA InitInv == Init => ForkChoiceInv
  <1> SUFFICES ASSUME Init PROVE ForkChoiceInv
    OBVIOUS
  <1>1. TypeOK
    <2>1. up \in BOOLEAN /\ ~up
      BY DEF Init
    <2>2. /\ clock \in 0..MaxClock /\ stepBacks \in 0..MaxStepBacks
          /\ failures \in 0..MaxFailures
      BY StoreAssumption DEF Init
    <2> QED BY <2>1, <2>2, StoreAssumption DEF Init, TypeOK
  <1>2. StoredChainsComplete /\ LiveIsDurable /\ SubmissionSound
        /\ BestCommitted
    BY DEF Init, StoredChainsComplete, LiveIsDurable, SubmissionSound,
           BestCommitted
  <1> QED BY <1>1, <1>2 DEF ForkChoiceInv

\* Node::open on an empty database.
LEMMA OpenFreshInv == ForkChoiceInv /\ OpenFresh => ForkChoiceInv'
  <1> SUFFICES ASSUME ForkChoiceInv, OpenFresh PROVE ForkChoiceInv'
    OBVIOUS
  <1> USE DEF ForkChoiceInv, OpenFresh, Commit, environment
  <1>g. Genesis \in Block /\ Anc[Genesis] = {Genesis} /\ Genesis \in Valid
        /\ Genesis # NoBlock
    BY TreeAssumption, ValidAssumption, StoreAssumption
  <1>i. stage = "idle"
    BY DEF TypeOK
  <1>1. TypeOK'
    <2>1. SavedSnapshots(Genesis) \in SUBSET Block
      BY <1>g DEF SavedSnapshots, TypeOK
    <2> QED BY <1>g, <1>i, <2>1 DEF TypeOK
  <1>2. StoredChainsComplete'
    BY <1>g DEF StoredChainsComplete, ValidChain
  <1>3. LiveIsDurable'
    BY <1>i DEF LiveIsDurable
  <1>4. SubmissionSound'
    BY <1>g, <1>i DEF SubmissionSound
  <1>5. BestCommitted'
    BY <1>g, PreferredIrreflexive DEF BestCommitted, SubmissionSound
  <1> QED BY <1>1, <1>2, <1>3, <1>4, <1>5

\* Node::open on a database that holds a chain.
LEMMA OpenStoredInv == ForkChoiceInv /\ OpenStored => ForkChoiceInv'
  <1> SUFFICES ASSUME ForkChoiceInv, OpenStored PROVE ForkChoiceInv'
    OBVIOUS
  <1> USE DEF ForkChoiceInv, OpenStored, database, environment
  <1>i. stage = "idle" /\ stage' = "idle"
    BY DEF TypeOK
  <1>1. TypeOK'
    BY <1>i DEF TypeOK
  <1>2. StoredChainsComplete'
    BY DEF StoredChainsComplete, ValidChain
  <1>3. LiveIsDurable'
    BY <1>i DEF LiveIsDurable
  <1>4. SubmissionSound'
    BY <1>i DEF SubmissionSound
  <1>5. BestCommitted'
    BY <1>i DEF BestCommitted
  <1> QED BY <1>1, <1>2, <1>3, <1>4, <1>5

\* What both branches of submit_block leave behind for the later stages.
LEMMA BeginInv ==
  ASSUME ForkChoiceInv, NEW b \in Block \ {Genesis},
         up, stage = "idle",
         ValidChain(b), Anc[b] \ {b} \subseteq stored,
         stage' = "store", cand' = b,
         event' \in {"Extended", "Reorganized", "SideChain"},
         Preferred(b, live) <=> event' # "SideChain",
         UNCHANGED <<up, live, database, environment, interrupted>>
  PROVE  ForkChoiceInv'
  <1> USE DEF ForkChoiceInv, database, environment
  <1>1. TypeOK'
    BY DEF TypeOK
  <1>2. StoredChainsComplete'
    BY DEF StoredChainsComplete, ValidChain
  <1>3. LiveIsDurable'
    BY DEF LiveIsDurable
  <1>4. SubmissionSound'
    BY DEF SubmissionSound, ValidChain, Preferred
  <1>5. BestCommitted'
    BY DEF BestCommitted, Preferred
  <1> QED BY <1>1, <1>2, <1>3, <1>4, <1>5

\* An idle, open node: its live chain is stored, complete and valid.
LEMMA LiveStored ==
  ASSUME ForkChoiceInv, up, stage = "idle"
  PROVE  /\ live \in Block /\ live = active /\ live \in stored
         /\ Anc[live] \subseteq stored /\ ValidChain(live)
  BY DEF ForkChoiceInv, TypeOK, LiveIsDurable, SubmissionSound,
         StoredChainsComplete

\* A submission follows what it stored, up to the step it has reached.
LEMMA SubmitInv ==
  ASSUME NEW b \in Block \ {Genesis}
  PROVE  ForkChoiceInv /\ Submit(b) => ForkChoiceInv'
  <1> SUFFICES ASSUME ForkChoiceInv, Submit(b) PROVE ForkChoiceInv'
    OBVIOUS
  <1>0. Anc[b] \subseteq Block /\ b \in Anc[b]
    BY ChainShape
  <1>1. CASE Refuse(b)
    BY <1>1 DEF Refuse, vars, process, database, environment, ForkChoiceInv,
         TypeOK, StoredChainsComplete, LiveIsDurable, SubmissionSound,
         BestCommitted, ValidChain, Preferred
  <1>2. CASE Extend(b)
    <2>1. up /\ stage = "idle" /\ Parent[b] = live /\ b \in Valid
      BY <1>2 DEF Extend, Extends, ValidateBlock
    <2>2. Anc[live] \subseteq stored /\ ValidChain(live)
      BY <2>1, LiveStored
    <2>3. Anc[b] = Anc[live] \cup {b}
      BY <2>1, ChainShape
    <2>4. ValidChain(b) /\ Anc[b] \ {b} \subseteq stored
      BY <2>1, <2>2, <2>3 DEF ValidChain
    <2>5. Preferred(b, live)
      BY <2>1, ChildPreferred
    <2> QED BY <1>2, <2>1, <2>4, <2>5, BeginInv DEF Extend
  <1>3. CASE Consider(b)
    <2>1. up /\ stage = "idle" /\ AssembleCandidate(b) /\ FromBlocks(b)
      BY <1>3 DEF Consider, Competes
    <2>2. Anc[live] \subseteq stored
      BY <2>1, LiveStored
    <2>3. Anc[b] \ {b} \subseteq stored
      BY <2>1, <2>2 DEF AssembleCandidate
    <2>4. ValidChain(b)
      BY <2>1, <1>0, ValidAssumption
      DEF FromBlocks, ValidateBlock, ValidChain
    <2>5. /\ event' \in {"Extended", "Reorganized", "SideChain"}
          /\ Preferred(b, live) <=> event' # "SideChain"
      BY <1>3 DEF Consider, ConsiderChain
    <2> QED BY <1>3, <2>1, <2>3, <2>4, <2>5, BeginInv DEF Consider
  <1> QED BY <1>1, <1>2, <1>3 DEF Submit

\* store_side_block.
LEMMA StoreSideBlockInv == ForkChoiceInv /\ StoreSideBlock => ForkChoiceInv'
  <1> SUFFICES ASSUME ForkChoiceInv, StoreSideBlock PROVE ForkChoiceInv'
    OBVIOUS
  <1> USE DEF ForkChoiceInv, StoreSideBlock, environment
  <1>0. /\ cand \in Block /\ up /\ live \in Block /\ active = live
        /\ active # NoBlock
    BY StoreAssumption DEF TypeOK, LiveIsDurable
  <1>1. TypeOK'
    BY <1>0 DEF TypeOK
  <1>2. StoredChainsComplete'
    <2>1. Anc[cand] \subseteq stored' /\ ValidChain(cand)
      BY <1>0 DEF SubmissionSound
    <2> QED BY <2>1 DEF StoredChainsComplete, ValidChain
  <1>3. LiveIsDurable'
    BY <1>0 DEF LiveIsDurable
  <1>4. SubmissionSound'
    BY <1>0 DEF SubmissionSound, ValidChain, Preferred
  <1>5. BestCommitted'
    <2> SUFFICES ASSUME NEW b \in stored \cup {cand}, b \notin interrupted,
                        Preferred(b, active)
                 PROVE  stage' = "save" /\ b = cand
      BY DEF BestCommitted, Preferred
    <2>1. b = cand
      BY <1>0 DEF BestCommitted
    <2>2. event # "SideChain"
      BY <2>1, <1>0 DEF SubmissionSound
    <2> QED BY <2>1, <2>2
  <1> QED BY <1>1, <1>2, <1>3, <1>4, <1>5

\* save_chain: the committed chain becomes the candidate, which no stored
\* chain beats.
LEMMA SaveChainInv == ForkChoiceInv /\ SaveChain => ForkChoiceInv'
  <1> SUFFICES ASSUME ForkChoiceInv, SaveChain PROVE ForkChoiceInv'
    OBVIOUS
  <1> USE DEF ForkChoiceInv, SaveChain, Commit, environment
  <1>0. /\ cand \in Block /\ cand # NoBlock /\ up
        /\ active = live /\ live \in Block
    BY StoreAssumption DEF TypeOK, LiveIsDurable
  <1>s. stored' = stored /\ cand \in stored
    BY <1>0 DEF SubmissionSound, StoredChainsComplete
  <1>p. Preferred(cand, active)
    BY <1>0 DEF SubmissionSound
  <1>1. TypeOK'
    <2>1. SavedSnapshots(cand) \in SUBSET Block
      BY <1>0 DEF SavedSnapshots, TypeOK
    <2> QED BY <1>0, <1>s, <2>1 DEF TypeOK
  <1>2. StoredChainsComplete'
    BY <1>s DEF StoredChainsComplete, ValidChain
  <1>3. LiveIsDurable'
    BY DEF LiveIsDurable
  <1>4. SubmissionSound'
    BY <1>0, <1>s DEF SubmissionSound, ValidChain, Preferred
  <1>5. BestCommitted'
    <2> SUFFICES ASSUME NEW b \in stored \ interrupted, Preferred(b, cand)
                 PROVE  FALSE
      BY <1>s DEF BestCommitted, Preferred
    <2>1. b \in Block /\ active \in Block /\ active # NoBlock
      BY <1>0, StoreAssumption DEF TypeOK
    <2>2. Preferred(b, active)
      BY <1>0, <1>p, <2>1, PreferredTransitive
    <2>3. b = cand
      BY <2>1, <2>2 DEF BestCommitted
    <2> QED BY <2>3, <1>0, PreferredIrreflexive
  <1> QED BY <1>1, <1>2, <1>3, <1>4, <1>5

\* The end of submit_block, its error paths and the death of the process.
LEMMA EndInv ==
  ForkChoiceInv /\ (Publish \/ WriteFails \/ Crash) => ForkChoiceInv'
  <1> SUFFICES ASSUME ForkChoiceInv, Publish \/ WriteFails \/ Crash
               PROVE  ForkChoiceInv'
    OBVIOUS
  <1> USE DEF ForkChoiceInv, Publish, WriteFails, Crash, database,
              environment
  <1>0. stage' = "idle" /\ UNCHANGED <<stored, active, snapshots>>
    OBVIOUS
  <1>1. TypeOK'
    <2>1. CASE Publish
      BY <2>1, StoreAssumption DEF TypeOK
    <2>2. CASE WriteFails
      BY <2>2, StoreAssumption DEF TypeOK
    <2>3. CASE Crash
      <3>1. up' \in BOOLEAN /\ ~up'
        BY <2>3
      <3>2. failures' \in 0..MaxFailures
        BY <2>3, StoreAssumption DEF TypeOK
      <3>3. interrupted' \in SUBSET Block
        BY <2>3 DEF TypeOK
      <3> QED BY <2>3, <3>1, <3>2, <3>3 DEF TypeOK
    <2> QED BY <2>1, <2>2, <2>3
  <1>2. StoredChainsComplete'
    BY <1>0 DEF StoredChainsComplete, ValidChain
  <1>3. LiveIsDurable'
    BY <1>0 DEF LiveIsDurable
  <1>4. SubmissionSound'
    BY <1>0 DEF SubmissionSound
  <1>5. BestCommitted'
    BY <1>0 DEF BestCommitted, Preferred
  <1> QED BY <1>1, <1>2, <1>3, <1>4, <1>5

\* The clock appears in no part of the invariant but TypeOK.
LEMMA ClockInv == ForkChoiceInv /\ (Tick \/ StepBack) => ForkChoiceInv'
  <1> SUFFICES ASSUME ForkChoiceInv, Tick \/ StepBack PROVE ForkChoiceInv'
    OBVIOUS
  <1>1. UNCHANGED <<process, database, failures, interrupted>>
    BY DEF Tick, StepBack
  <1>2. TypeOK'
    BY <1>1, StoreAssumption
    DEF ForkChoiceInv, TypeOK, Tick, StepBack, process, database
  <1> QED
    BY <1>1, <1>2
    DEF ForkChoiceInv, process, database, StoredChainsComplete,
        LiveIsDurable, SubmissionSound, BestCommitted, ValidChain, Preferred

\* Every step of the node, a crash and a failed write too.
LEMMA NextInv == ForkChoiceInv /\ [Next]_vars => ForkChoiceInv'
  <1> SUFFICES ASSUME ForkChoiceInv, [Next]_vars PROVE ForkChoiceInv'
    OBVIOUS
  <1>1. CASE UNCHANGED vars \/ OpenRefused
    BY <1>1 DEF OpenRefused, vars, process, database, environment, ForkChoiceInv, TypeOK,
         StoredChainsComplete, LiveIsDurable, SubmissionSound,
         BestCommitted, ValidChain, Preferred
  <1>2. CASE OpenFresh
    BY <1>2, OpenFreshInv
  <1>3. CASE OpenStored
    BY <1>3, OpenStoredInv
  <1>4. CASE \E b \in Block \ {Genesis} : Submit(b)
    BY <1>4, SubmitInv
  <1>5. CASE StoreSideBlock
    BY <1>5, StoreSideBlockInv
  <1>6. CASE SaveChain
    BY <1>6, SaveChainInv
  <1>7. CASE Publish \/ WriteFails \/ Crash
    BY <1>7, EndInv
  <1>8. CASE Tick \/ StepBack
    BY <1>8, ClockInv
  <1> QED
    BY <1>1, <1>2, <1>3, <1>4, <1>5, <1>6, <1>7, <1>8 DEF Next

\* ForkChoiceInv holds throughout every behaviour of the node, for every
\* block tree and any number of crashes and failed writes.
THEOREM ForkChoiceInvariant == Spec => []ForkChoiceInv
  <1>1. Init => ForkChoiceInv
    BY InitInv
  <1>2. ForkChoiceInv /\ [Next]_vars => ForkChoiceInv'
    BY NextInv
  <1> QED BY <1>1, <1>2, PTL DEF Spec

-----------------------------------------------------------------------------
(* The properties the runs check.                                          *)

\* Type correctness of the node's process, database and environment.
THEOREM TypeCorrect == Spec => []TypeOK
  <1>1. ForkChoiceInv => TypeOK
    BY DEF ForkChoiceInv
  <1> QED BY <1>1, ForkChoiceInvariant, PTL

\* Everything in the blocks table is valid and has its whole ancestry there.
THEOREM StoreIsComplete == Spec => []StoredChainsComplete
  <1>1. ForkChoiceInv => StoredChainsComplete
    BY DEF ForkChoiceInv
  <1> QED BY <1>1, ForkChoiceInvariant, PTL

\* The live chain is the committed chain whenever submit_block is not about
\* to publish.
THEOREM LiveChainDurable == Spec => []LiveIsDurable
  <1>1. ForkChoiceInv => LiveIsDurable
    BY DEF ForkChoiceInv
  <1> QED BY <1>1, ForkChoiceInvariant, PTL

\* The live chain is the best stored one, interrupted submissions aside.
THEOREM LiveChainBest == Spec => []BestUnlessInterrupted
  <1>1. ForkChoiceInv => BestUnlessInterrupted
    <2> SUFFICES ASSUME ForkChoiceInv, up, stage = "idle",
                        NEW b \in stored \ interrupted
                 PROVE  ~Preferred(b, live)
      BY DEF BestUnlessInterrupted
    <2>1. live = active /\ active # NoBlock
      BY LiveStored, StoreAssumption DEF ForkChoiceInv, TypeOK
    <2> QED BY <2>1 DEF ForkChoiceInv, BestCommitted
  <1> QED BY <1>1, ForkChoiceInvariant, PTL

-----------------------------------------------------------------------------
(* Refinement of ForkChoice.                                               *)

\* Every step of the node is a move to a preferred valid chain or leaves the
\* followed chain as it is.
LEMMA StepRefines ==
  ForkChoiceInv /\ ForkChoiceInv' /\ [Next]_vars => [FC!Next]_FollowedTip
  <1> SUFFICES ASSUME ForkChoiceInv, ForkChoiceInv', [Next]_vars,
                      FollowedTip' # FollowedTip
               PROVE  FC!Next
    BY DEF FC!Next
  <1> USE DEF FC!Next, FC!Adopt, FC!Preferred, FC!ValidChain
  <1>1. /\ stage = "publish" /\ FollowedTip = live /\ FollowedTip' = cand
    <2>1. CASE UNCHANGED vars \/ OpenRefused
      BY <2>1 DEF OpenRefused, vars, process, database, FollowedTip
    <2>2. CASE OpenFresh
      BY <2>2, StoreAssumption, TreeAssumption
      DEF OpenFresh, Commit, FollowedTip
    <2>3. CASE OpenStored
      BY <2>3 DEF OpenStored, database, FollowedTip
    <2>4. CASE \E b \in Block \ {Genesis} : Submit(b)
      BY <2>4 DEF Submit, Refuse, Extend, Consider, vars, process, database,
           FollowedTip
    <2>5. CASE StoreSideBlock
      BY <2>5 DEF StoreSideBlock, FollowedTip
    <2>6. CASE SaveChain
      BY <2>6 DEF SaveChain, FollowedTip, ForkChoiceInv, TypeOK
    <2>7. CASE Publish
      BY <2>7 DEF Publish, FollowedTip, ForkChoiceInv, TypeOK
    <2>8. CASE WriteFails
      BY <2>8 DEF WriteFails, database, FollowedTip
    <2>9. CASE Crash
      BY <2>9 DEF Crash, database, FollowedTip, ForkChoiceInv, TypeOK,
           LiveIsDurable
    <2>10. CASE Tick \/ StepBack
      BY <2>10 DEF Tick, StepBack, process, database, FollowedTip
    <2> QED BY <2>1, <2>2, <2>3, <2>4, <2>5, <2>6, <2>7, <2>8, <2>9, <2>10
            DEF Next
  <1>2. cand \in Block /\ ValidChain(cand) /\ Preferred(cand, live)
    BY <1>1 DEF ForkChoiceInv, TypeOK, SubmissionSound
  <1> QED BY <1>1, <1>2 DEF ValidChain, Preferred

\* The node implements ForkChoice: through crashes, failed writes and
\* restarts the chain it follows is valid and is only replaced by one the
\* fork choice prefers.
THEOREM Refinement == Spec => ImplementsForkChoice
  <1>1. Init => FC!Init
    BY DEF Init, FC!Init, FollowedTip
  <1>2. ForkChoiceInv /\ ForkChoiceInv' /\ [Next]_vars
          => [FC!Next]_FollowedTip
    BY StepRefines
  <1> QED BY <1>1, <1>2, ForkChoiceInvariant, PTL
          DEF Spec, ImplementsForkChoice, FC!Spec
=============================================================================
