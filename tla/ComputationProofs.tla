-------------------------- MODULE ComputationProofs -------------------------
(***************************************************************************)
(* Proofs about proof of work, difficulty and the byte format. RandomX: no *)
(* thread hashes in a released context, with the wrong seed or with a      *)
(* machine that another one uses, and no seed is initialized while it is   *)
(* current, for any number of threads and seeds. Difficulty: the compact   *)
(* form of every target and the schedule for every parent, at any width    *)
(* and for any polynomial that the assumptions allow. Format: for          *)
(* any limits that leave room for what they allow, decode_frame is the     *)
(* inverse of encode_frame on every frame.                                 *)
(***************************************************************************)
EXTENDS RandomX, Arithmetic, FiniteSetTheorems, SequenceTheorems, WellFoundedInduction,
        TLAPS

-----------------------------------------------------------------------------
(* Reference counts.                                                       *)

\* The holders of a context can be counted.
LEMMA HoldersFinite ==
  ASSUME NEW c
  PROVE  IsFiniteSet(Holders(c)) /\ Cardinality(Holders(c)) \in Nat
  BY RandomXAssumption, FS_Subset, FS_CardinalityType DEF Holders

\* So can its holders after a step.
LEMMA HoldersFinitePrime ==
  ASSUME NEW c
  PROVE  IsFiniteSet(Holders(c)') /\ Cardinality(Holders(c)') \in Nat
  BY RandomXAssumption, FS_Subset, FS_CardinalityType DEF Holders

\* A thread with nothing takes hold of c: one more holder, of c only.
LEMMA Holding ==
  ASSUME TypeOK, NEW t \in Thread, NEW c \in Context, held[t] = NoContext,
         held' = [held EXCEPT ![t] = c]
  PROVE  /\ Cardinality(Holders(c)') = Cardinality(Holders(c)) + 1
         /\ \A d \in Context \ {c} : Holders(d)' = Holders(d)
  <1>1. Holders(c)' = Holders(c) \cup {t} /\ t \notin Holders(c)
    BY RandomXAssumption DEF Holders, TypeOK
  <1>2. \A d \in Context \ {c} : Holders(d)' = Holders(d)
    BY RandomXAssumption DEF Holders, TypeOK
  <1> QED BY <1>1, <1>2, HoldersFinite, FS_AddElement

\* A thread lets go of what it held.
LEMMA LettingGo ==
  ASSUME TypeOK, NEW t \in Thread, NEW c \in Context, held[t] = c,
         held' = [held EXCEPT ![t] = NoContext]
  PROVE  /\ Cardinality(Holders(c)) = Cardinality(Holders(c)') + 1
         /\ \A d \in Context \ {c} : Holders(d)' = Holders(d)
  <1>1. Holders(c)' = Holders(c) \ {t} /\ t \in Holders(c)
    BY RandomXAssumption DEF Holders, TypeOK
  <1>2. \A d \in Context \ {c} : Holders(d)' = Holders(d)
    BY RandomXAssumption DEF Holders, TypeOK
  <1>3. Cardinality(Holders(c)') = Cardinality(Holders(c)) - 1
    BY <1>1, HoldersFinite, FS_RemoveElement
  <1> QED BY <1>2, <1>3, HoldersFinite

\* A live context that a thread other than t holds, or that is current, is not
\* lost when t lets go of it.
LEMMA Kept ==
  ASSUME TypeOK, Referenced, NEW t \in Thread, NEW c \in Live, held[t] = c,
         built[c].refs = 1
  PROVE  c # current /\ \A u \in Thread \ {t} : held[u] # c
  <1>1. built[c].refs = References(c) /\ t \in Holders(c)
    BY DEF Referenced, Holders
  <1>2. Cardinality(Holders(c)) # 0
    BY <1>1, HoldersFinite, FS_EmptySet
  <1>3. Cardinality(Holders(c)) = 1 /\ c # current
    BY <1>1, <1>2, HoldersFinite DEF References
  <1>4. \E u : Holders(c) = {u}
    BY <1>3, HoldersFinite, FS_Singleton
  <1> QED BY <1>1, <1>3, <1>4 DEF Holders

\* What a live context consists of.
LEMMA LiveBuilt ==
  ASSUME TypeOK, NEW c \in Live
  PROVE  /\ c \in Context /\ built[c] \in Built /\ built[c] # NoContext
         /\ built[c].refs \in Nat /\ built[c].idle \subseteq Vm
         /\ built[c].seed \in Seed \cup {TestSeed}
  BY DEF TypeOK, Live, Built

\* Arc::clone of a live context.
LEMMA CloneSound ==
  ASSUME TypeOK, NEW c \in Live, NEW table, table = Cloned(built, c)
  PROVE  /\ table \in [Context -> Built \cup {NoContext}]
         /\ table[c] # NoContext /\ table[c].refs = built[c].refs + 1
         /\ table[c].seed = built[c].seed /\ table[c].idle = built[c].idle
         /\ \A d \in Context \ {c} : table[d] = built[d]
  <1> DEFINE rec == [built[c] EXCEPT !.refs = @ + 1]
  <1>1. /\ rec \in Built /\ rec.refs = built[c].refs + 1
        /\ rec.seed = built[c].seed /\ rec.idle = built[c].idle
    BY LiveBuilt DEF Built
  <1>2. table = [built EXCEPT ![c] = rec]
    BY DEF Cloned
  <1> HIDE DEF rec
  <1> QED BY <1>1, <1>2, LiveBuilt, RandomXAssumption DEF TypeOK

\* The drop of a reference to a context of table.
LEMMA DropSound ==
  ASSUME NEW table \in [Context -> Built \cup {NoContext}], NEW c \in Context,
         table[c] # NoContext, table[c].refs # 0, NEW new, new = Dropped(table, c)
  PROVE  /\ new \in [Context -> Built \cup {NoContext}]
         /\ new[c] = NoContext <=> table[c].refs = 1
         /\ new[c] # NoContext => /\ new[c].refs = table[c].refs - 1
                                  /\ new[c].seed = table[c].seed
                                  /\ new[c].idle = table[c].idle
         /\ \A d \in Context \ {c} : new[d] = table[d]
  <1> DEFINE rec == [table[c] EXCEPT !.refs = @ - 1]
  <1>1. table[c] \in Built /\ table[c].refs \in Nat
    BY DEF Built
  <1>2. /\ rec \in Built /\ rec.refs = table[c].refs - 1
        /\ rec.seed = table[c].seed /\ rec.idle = table[c].idle
    BY <1>1 DEF Built
  <1>3. new = IF table[c].refs = 1 THEN [table EXCEPT ![c] = NoContext]
                                  ELSE [table EXCEPT ![c] = rec]
    BY DEF Dropped
  <1>4. rec # NoContext
    BY <1>2, RandomXAssumption
  <1> HIDE DEF rec
  <1> QED BY <1>2, <1>3, <1>4

-----------------------------------------------------------------------------
(* The inductive invariant and its steps.                                  *)

Sound == TypeOK /\ Referenced /\ LockHeld /\ HoldsWanted /\ MachinesApart

\* The context that load tested is held by the process only.
LEMMA InitSound == Init => Sound
  <1> SUFFICES ASSUME Init PROVE Sound
    OBVIOUS
  <1> DEFINE v == CHOOSE v \in Vm : TRUE
             rec == [seed |-> TestSeed, refs |-> 1, idle |-> {v}]
  <1>1. current \in Context /\ v \in Vm
    BY RandomXAssumption DEF Init
  <1>2. rec \in Built /\ rec # NoContext /\ rec.refs = 1
    BY <1>1, RandomXAssumption DEF Built
  <1> HIDE DEF v
  <1>3. built = [c \in Context |-> IF c = current THEN rec ELSE NoContext]
    BY DEF Init, v
  <1> HIDE DEF rec
  <1>4. TypeOK
    <2>1. 0 \in 0..MaxCalls /\ 0 \in 0..MaxFailures
      BY RandomXAssumption
    <2> QED BY <1>1, <1>2, <1>3, <2>1 DEF Init, TypeOK
  <1>5. Live = {current} /\ built[current].refs = 1
    BY <1>1, <1>2, <1>3 DEF Live
  <1>6. References(current) = 1
    <2>1. Holders(current) = {}
      BY <1>1, RandomXAssumption DEF Init, Holders
    <2> QED BY <2>1, FS_EmptySet DEF References
  <1>7. Referenced
    BY <1>5, <1>6 DEF Init, Referenced
  <1>8. LockHeld /\ HoldsWanted /\ MachinesApart
    BY DEF Init, LockHeld, HoldsWanted, MachinesApart
  <1> QED BY <1>4, <1>7, <1>8 DEF Sound

\* The thread that leaves the contexts alone.
LEMMA QuietSound ==
  ASSUME Sound, NEW t \in Thread, UNCHANGED <<current, built, held, vm>>,
         NEW place \in {"idle", "asked", "waiting", "locked", "allocating"},
         Goto(t, place), held[t] = NoContext,
         \A u \in Thread \ {t} : want'[u] = want[u],
         want' \in [Thread -> Seed \cup {TestSeed}],
         init' \in Thread \cup {NoThread},
         \A u \in Thread \ {t} : init = u => init' = u,
         place \in {"locked", "allocating"} => init' = t,
         place = "allocating" => built[current].seed # want'[t],
         calls' \in 0..MaxCalls, failures' \in 0..MaxFailures
  PROVE  Sound'
  <1>1. TypeOK'
    BY DEF Sound, TypeOK, Goto
  <1>2. pc' = [pc EXCEPT ![t] = place] /\ pc \in [Thread -> {"idle", "asked",
          "waiting", "locked", "allocating", "holding", "hashing"}]
    BY DEF Goto, Sound, TypeOK
  <1>3. Referenced'
    BY DEF Sound, Referenced, References, Holders, Live
  <1>4. LockHeld'
    BY <1>2 DEF Sound, LockHeld
  <1>5. pc[t] # "hashing"
    BY DEF Sound, HoldsWanted
  <1>6. HoldsWanted'
    BY <1>2 DEF Sound, HoldsWanted
  <1>7. MachinesApart'
    BY <1>2, <1>5 DEF Sound, MachinesApart
  <1> QED BY <1>1, <1>3, <1>4, <1>6, <1>7 DEF Sound

\* TakeCurrent.
LEMMA TakeSound ==
  ASSUME Sound, NEW t \in Thread, TakeCurrent(t), pc[t] \in {"asked", "locked"},
         built[current].seed = want[t],
         UNCHANGED <<current, want, vm, calls, failures>>,
         init' \in Thread \cup {NoThread},
         \A u \in Thread \ {t} : init = u => init' = u
  PROVE  Sound'
  <1>0. TypeOK /\ current \in Live /\ current \in Context /\ held[t] = NoContext
        /\ built[current] # NoContext
    <2>1. held[t] = NoContext
      BY DEF Sound, HoldsWanted
    <2> QED BY <2>1, LiveBuilt DEF Sound, Referenced
  <1>1. /\ held' = [held EXCEPT ![t] = current]
        /\ pc' = [pc EXCEPT ![t] = "holding"]
    BY DEF TakeCurrent, Goto
  <1>2. /\ built' \in [Context -> Built \cup {NoContext}]
        /\ built'[current] # NoContext
        /\ built'[current].refs = built[current].refs + 1
        /\ built'[current].seed = built[current].seed
        /\ built'[current].idle = built[current].idle
        /\ \A d \in Context \ {current} : built'[d] = built[d]
    BY <1>0, CloneSound DEF TakeCurrent
  <1>3. TypeOK'
    BY <1>0, <1>1, <1>2 DEF TypeOK
  <1>4. Live' = Live
    BY <1>0, <1>2 DEF Live
  <1>5. Referenced'
    <2>1. \A u \in Thread : held'[u] \in Live' \cup {NoContext}
      BY <1>0, <1>1, <1>4 DEF Sound, Referenced, TypeOK
    <2>2. ASSUME NEW c \in Live' PROVE built'[c].refs = References(c)'
      <3>1. built[c].refs = References(c) /\ c \in Context
        BY <1>4, LiveBuilt DEF Sound, Referenced
      <3>2. CASE c = current
        BY <1>0, <1>1, <1>2, <3>1, <3>2, Holding, HoldersFinite, HoldersFinitePrime
           DEF References
      <3>3. CASE c # current
        <4>1. Holders(c)' = Holders(c)
          BY <1>0, <1>1, <3>1, <3>3, Holding
        <4> QED BY <1>2, <3>1, <3>3, <4>1 DEF References
      <3> QED BY <3>2, <3>3
    <2> QED BY <1>0, <1>4, <2>1, <2>2 DEF Referenced
  <1>6. pc \in [Thread -> {"idle", "asked", "waiting", "locked", "allocating",
                           "holding", "hashing"}]
        /\ held \in [Thread -> Context \cup {NoContext}]
    BY <1>0 DEF TypeOK
  <1>7. LockHeld'
    BY <1>1, <1>2, <1>6 DEF Sound, LockHeld
  <1>8. HoldsWanted'
    <2>1. \A c \in Context : built'[c].seed = built[c].seed
      BY <1>2
    <2>2. \A u \in Thread \ {t} : held'[u] = held[u] /\ pc'[u] = pc[u]
      BY <1>1, <1>6
    <2>3. held'[t] = current /\ pc'[t] = "holding" /\ current # NoContext
      BY <1>0, <1>1, <1>6, RandomXAssumption
    <2>4. ASSUME NEW u \in Thread \ {t}
          PROVE  /\ held'[u] # NoContext =>
                      /\ pc'[u] \in {"allocating", "holding", "hashing"}
                      /\ built'[held'[u]].seed = want'[u]
                 /\ pc'[u] \in {"holding", "hashing"} => held'[u] # NoContext
      <3>1. held[u] # NoContext => built'[held[u]].seed = built[held[u]].seed
        BY <1>6, <2>1
      <3> QED BY <2>2, <3>1 DEF Sound, HoldsWanted
    <2>5. built'[current].seed = want'[t]
      BY <1>2
    <2> QED BY <2>3, <2>4, <2>5 DEF HoldsWanted
  <1>9. MachinesApart'
    <2>1. \A u \in Thread : pc'[u] = "hashing" =>
            u # t /\ pc[u] = "hashing" /\ held'[u] = held[u] /\ held[u] \in Context
      BY <1>1, <1>6 DEF Sound, HoldsWanted
    <2>2. \A c \in Context : built'[c].idle = built[c].idle
      BY <1>2
    <2>3. \A u \in Thread : pc'[u] # "hashing" <=> vm'[u] = NoVm
      BY <1>1, <1>6 DEF Sound, MachinesApart
    <2> QED BY <2>1, <2>2, <2>3 DEF Sound, MachinesApart
  <1> QED BY <1>3, <1>5, <1>7, <1>8, <1>9 DEF Sound

\* A new context is built while the current one stays.
LEMMA AllocateSound ==
  ASSUME Sound, NEW t \in Thread, Allocate(t)
  PROVE  Sound'
  <1> DEFINE rec == [seed |-> want[t], refs |-> 1, idle |-> {}]
  <1>0. TypeOK /\ held[t] = NoContext /\ pc[t] = "allocating"
    BY DEF Sound, Allocate
  <1>1. PICK c \in Context : /\ c \notin Live /\ c # NoContext
                            /\ built' = [built EXCEPT ![c] = rec]
                            /\ held' = [held EXCEPT ![t] = c]
    <2>1. \E d \in Context : d \notin Live
      BY DEF Allocate, Live
    <2>2. \A d \in Context : d # NoContext
      BY RandomXAssumption
    <2> QED BY <2>1, <2>2 DEF Allocate
  <1>3. /\ rec \in Built /\ rec # NoContext /\ rec.refs = 1
        /\ rec.seed = want[t]
    BY <1>0, RandomXAssumption DEF Built, TypeOK
  <1> HIDE DEF rec
  <1>4. UNCHANGED <<current, init, pc, want, vm, calls, failures>>
    BY DEF Allocate
  <1>5. TypeOK'
    BY <1>0, <1>1, <1>3, <1>4 DEF TypeOK
  <1>6. /\ \A d \in Live : d # c /\ built'[d] = built[d]
        /\ Live' = Live \cup {c} /\ built'[c] = rec
    BY <1>0, <1>1, <1>3 DEF TypeOK, Live
  <1>7. /\ \A u \in Thread \ {t} : held'[u] = held[u] /\ held[u] # c
        /\ held'[t] = c
    BY <1>0, <1>1 DEF Sound, Referenced, TypeOK
  <1>8. Referenced'
    <2>1. current' \in Live' /\ current' # c
          /\ \A u \in Thread : held'[u] \in Live' \cup {NoContext}
      BY <1>1, <1>4, <1>6, <1>7 DEF Sound, Referenced
    <2>2. Holders(c) = {}
      BY <1>0, <1>1, <1>7 DEF Holders
    <2>3. built'[c].refs = References(c)'
      <3>1. Cardinality(Holders(c)) = 0
        BY <2>2, FS_EmptySet
      <3>2. Cardinality(Holders(c)') = Cardinality(Holders(c)) + 1
        BY <1>0, <1>1, Holding
      <3> QED BY <1>3, <1>6, <2>1, <3>1, <3>2 DEF References
    <2>4. ASSUME NEW d \in Live PROVE built'[d].refs = References(d)'
      <3>1. Holders(d)' = Holders(d)
        BY <1>0, <1>1, <1>6, Holding DEF Live
      <3> QED BY <1>4, <1>6, <3>1 DEF Sound, Referenced, References
    <2>5. \A d \in Live' : built'[d].refs = References(d)'
      BY <1>6, <2>3, <2>4
    <2> QED BY <2>1, <2>5 DEF Referenced
  <1>9. current \in Live /\ built'[current] = built[current]
    BY <1>6 DEF Sound, Referenced
  <1>10. LockHeld'
    BY <1>4, <1>9 DEF Sound, LockHeld
  <1>11. \A u \in Thread \ {t} : held[u] # NoContext => built'[held'[u]] = built[held[u]]
    BY <1>6, <1>7 DEF Sound, Referenced
  <1>12. HoldsWanted'
    BY <1>0, <1>1, <1>3, <1>4, <1>6, <1>7, <1>11 DEF Sound, HoldsWanted
  <1>13. MachinesApart'
    <2>1. \A u \in Thread : pc'[u] = "hashing" =>
            u # t /\ pc[u] = "hashing" /\ held'[u] = held[u] /\ held[u] # NoContext
      BY <1>0, <1>4, <1>7 DEF Sound, HoldsWanted
    <2> QED BY <1>4, <1>11, <2>1 DEF Sound, MachinesApart
  <1> QED BY <1>5, <1>8, <1>10, <1>12, <1>13 DEF Sound

\* The new context becomes the current one; the old one loses a reference.
LEMMA ReplaceSound ==
  ASSUME Sound, NEW t \in Thread, Replace(t)
  PROVE  Sound'
  <1> DEFINE c == held[t]
             old == current
  <1>0. /\ TypeOK /\ pc[t] = "allocating" /\ c # NoContext /\ init = t
        /\ c \in Live /\ old \in Live /\ c \in Context /\ old \in Context
        /\ built[c].seed = want[t] /\ built[old].seed # want[t]
    BY LiveBuilt DEF Sound, Replace, Referenced, LockHeld, HoldsWanted
  <1>1. c # old
    BY <1>0
  <1>2. /\ current' = c /\ built' = Dropped(Cloned(built, c), old)
        /\ init' = NoThread /\ pc' = [pc EXCEPT ![t] = "holding"]
        /\ UNCHANGED <<want, held, vm, calls, failures>>
    BY DEF Replace, Goto
  <1> DEFINE table == Cloned(built, c)
  <1>3. /\ table \in [Context -> Built \cup {NoContext}]
        /\ table[c] # NoContext /\ table[c].refs = built[c].refs + 1
        /\ table[c].seed = built[c].seed /\ table[c].idle = built[c].idle
        /\ \A d \in Context \ {c} : table[d] = built[d]
    BY <1>0, CloneSound
  <1> HIDE DEF table, c, old
  <1>4. /\ built[old] # NoContext /\ built[old].refs \in Nat
        /\ built[old].refs = Cardinality(Holders(old)) + 1
        /\ built[c].refs = Cardinality(Holders(c)) /\ built[c].refs \in Nat
    BY <1>0, <1>1, LiveBuilt, HoldersFinite DEF Sound, Referenced, References, old
  <1>5. table[old] # NoContext /\ table[old].refs # 0 /\ table[old] = built[old]
    BY <1>0, <1>1, <1>3, <1>4, HoldersFinite
  <1>6. /\ built' \in [Context -> Built \cup {NoContext}]
        /\ built'[old] = NoContext <=> built[old].refs = 1
        /\ built'[old] # NoContext => /\ built'[old].refs = built[old].refs - 1
                                      /\ built'[old].seed = built[old].seed
                                      /\ built'[old].idle = built[old].idle
        /\ \A d \in Context \ {old} : built'[d] = table[d]
    BY <1>0, <1>2, <1>3, <1>5, DropSound DEF table
  <1>7. TypeOK'
    BY <1>0, <1>2, <1>6 DEF TypeOK
  <1>8. \A d : Holders(d)' = Holders(d)
    BY <1>2 DEF Holders
  <1>9. \A d \in Context : built'[d] # NoContext => d \in Live
    BY <1>0, <1>3, <1>6 DEF Live
  <1>10. \A u \in Thread : held[u] # NoContext =>
           /\ held[u] \in Context /\ built'[held[u]] # NoContext
           /\ built'[held[u]].seed = built[held[u]].seed
           /\ built'[held[u]].idle = built[held[u]].idle
    <2> SUFFICES ASSUME NEW u \in Thread, held[u] # NoContext
        PROVE /\ held[u] \in Context /\ built'[held[u]] # NoContext
              /\ built'[held[u]].seed = built[held[u]].seed
              /\ built'[held[u]].idle = built[held[u]].idle
      OBVIOUS
    <2>1. held[u] \in Live /\ held[u] \in Context /\ built[held[u]] # NoContext
      BY LiveBuilt DEF Sound, Referenced
    <2>2. CASE held[u] = old
      <3>1. u \in Holders(old)
        BY <2>2 DEF Holders
      <3>2. Cardinality(Holders(old)) # 0
        BY <3>1, HoldersFinite, FS_EmptySet
      <3>3. built[old].refs # 1
        BY <1>4, <3>2, HoldersFinite
      <3> QED BY <1>6, <2>1, <2>2, <3>3
    <2>3. CASE held[u] = c
      BY <1>0, <1>1, <1>3, <1>6, <2>1, <2>3
    <2>4. CASE held[u] # c /\ held[u] # old
      BY <1>3, <1>6, <2>1, <2>4
    <2> QED BY <2>2, <2>3, <2>4
  <1>11. Referenced'
    <2>1. current' \in Live'
      BY <1>0, <1>1, <1>2, <1>3, <1>6 DEF Live
    <2>2. \A u \in Thread : held'[u] \in Live' \cup {NoContext}
      BY <1>2, <1>10 DEF Live
    <2>3. ASSUME NEW d \in Live' PROVE built'[d].refs = References(d)'
      <3>1. d \in Context /\ built'[d] # NoContext /\ d \in Live
        BY <1>9 DEF Live
      <3>2. CASE d = c
        BY <1>0, <1>1, <1>2, <1>3, <1>4, <1>6, <1>8, <3>2 DEF References
      <3>3. CASE d = old
        <4>1. built'[old].refs = Cardinality(Holders(old))
          BY <1>4, <1>6, <3>1, <3>3, HoldersFinite
        <4> QED BY <1>1, <1>2, <1>8, <3>3, <4>1, HoldersFinite DEF References
      <3>4. CASE d # c /\ d # old
        <4>1. built'[d] = built[d] /\ built[d].refs = References(d)
          BY <1>3, <1>6, <3>1, <3>4 DEF Sound, Referenced
        <4> QED BY <1>2, <1>8, <3>4, <4>1 DEF References, old
      <3> QED BY <3>2, <3>3, <3>4
    <2> QED BY <2>1, <2>2, <2>3 DEF Referenced
  <1>12. \A u \in Thread \ {t} : pc'[u] = pc[u] /\ pc[u] \notin {"locked", "allocating"}
    BY <1>0, <1>2 DEF Sound, LockHeld, TypeOK
  <1>13. pc'[t] = "holding"
    BY <1>0, <1>2 DEF TypeOK
  <1>14. LockHeld'
    BY <1>12, <1>13 DEF LockHeld
  <1>15. HoldsWanted'
    BY <1>0, <1>2, <1>10, <1>12, <1>13 DEF Sound, HoldsWanted, c
  <1>16. MachinesApart'
    BY <1>0, <1>2, <1>10, <1>12, <1>13 DEF Sound, HoldsWanted, MachinesApart
  <1> QED BY <1>7, <1>11, <1>14, <1>15, <1>16 DEF Sound

\* With a machine for every thread there is one that no other thread hashes with.
LEMMA MachineLeft ==
  ASSUME TypeOK, NEW t \in Thread, NEW used,
         used \subseteq {vm[u] : u \in Thread \ {t}} \cup {NoVm}
  PROVE  \E v \in Vm : v \notin used
  <1> SUFFICES ASSUME \A v \in Vm : v \in used PROVE FALSE
    OBVIOUS
  <1> DEFINE f == [v \in Vm |-> CHOOSE u \in Thread \ {t} : vm[u] = v]
  <1>1. \A v \in Vm : f[v] \in Thread \ {t} /\ vm[f[v]] = v
    BY RandomXAssumption
  <1>2. IsFiniteSet(Thread \ {t}) /\ Cardinality(Thread \ {t}) = Cardinality(Thread) - 1
    BY RandomXAssumption, FS_RemoveElement
  <1>3. Cardinality(Thread) \in Nat /\ Cardinality(Vm) \in Nat
    BY RandomXAssumption, FS_CardinalityType
  <1>4. Cardinality(Thread \ {t}) < Cardinality(Vm)
    BY <1>2, <1>3, RandomXAssumption
  <1>5. f \in [Vm -> Thread \ {t}]
    BY <1>1
  <1> HIDE DEF f
  <1>6. \E v, x \in Vm : v # x /\ f[v] = f[x]
    BY <1>2, <1>4, <1>5, RandomXAssumption, FS_PigeonHole
  <1> QED BY <1>1, <1>6

\* A thread takes an idle machine, or makes one.
LEMMA TakeVmSound ==
  ASSUME Sound, NEW t \in Thread, TakeVm(t)
  PROVE  Sound'
  <1>0. /\ TypeOK /\ pc[t] = "holding" /\ held[t] \in Live
        /\ UNCHANGED <<current, init, want, held, calls, failures>>
        /\ pc' = [pc EXCEPT ![t] = "hashing"]
    BY DEF Sound, TakeVm, Goto, HoldsWanted, Referenced
  <1>1. PICK c \in Context : c = held[t]
    BY <1>0, LiveBuilt
  <1>2. PICK v \in Vm :
          /\ \A u \in Thread \ {t} : pc[u] = "hashing" /\ held[u] = c => vm[u] # v
          /\ vm' = [vm EXCEPT ![t] = v]
          /\ built' = [built EXCEPT ![c].idle = @ \ {v}]
    <2> DEFINE used == {vm[u] : u \in {u \in Thread : held[u] = c}}
    <2>1. PICK v \in IF built[c].idle # {} THEN built[c].idle
                     ELSE {CHOOSE v \in Vm : v \notin used} :
            /\ vm' = [vm EXCEPT ![t] = v]
            /\ built' = [built EXCEPT ![c].idle = @ \ {v}]
      BY <1>1 DEF TakeVm
    <2>2. CASE built[c].idle # {}
      <3>1. v \in built[c].idle /\ v \in Vm
        BY <1>0, <1>1, <2>1, <2>2, LiveBuilt
      <3>2. \A u \in Thread \ {t} : pc[u] = "hashing" /\ held[u] = c => vm[u] # v
        BY <3>1 DEF Sound, MachinesApart
      <3> QED BY <2>1, <3>1, <3>2
    <2>3. CASE built[c].idle = {}
      <3>1. vm[t] = NoVm
        BY <1>0 DEF Sound, MachinesApart
      <3>2. used \subseteq {vm[u] : u \in Thread \ {t}} \cup {NoVm}
        BY <3>1
      <3>3. \E x \in Vm : x \notin used
        BY <1>0, <3>2, MachineLeft
      <3>4. v \in Vm /\ v \notin used
        BY <2>1, <2>3, <3>3
      <3> QED BY <2>1, <3>4
    <2> QED BY <2>2, <2>3
  <1> DEFINE rec == [built[c] EXCEPT !.idle = @ \ {v}]
  <1>3. /\ built[c] \in Built /\ built[c] # NoContext /\ c # NoContext
        /\ rec \in Built /\ rec # NoContext
        /\ rec.refs = built[c].refs /\ rec.seed = built[c].seed
        /\ rec.idle = built[c].idle \ {v}
    <2>1. built[c] \in Built /\ built[c] # NoContext
      BY <1>0, <1>1, LiveBuilt
    <2>2. /\ rec \in Built /\ rec.refs = built[c].refs /\ rec.seed = built[c].seed
          /\ rec.idle = built[c].idle \ {v}
      BY <2>1 DEF Built
    <2> QED BY <2>1, <2>2, RandomXAssumption
  <1>4. built' = [built EXCEPT ![c] = rec]
    BY <1>2
  <1> HIDE DEF rec
  <1>5. /\ built' \in [Context -> Built \cup {NoContext}]
        /\ built'[c] = rec /\ \A d \in Context \ {c} : built'[d] = built[d]
    BY <1>0, <1>3, <1>4 DEF TypeOK
  <1>6. TypeOK'
    BY <1>0, <1>2, <1>5 DEF TypeOK
  <1>7. /\ Live' = Live
        /\ \A d \in Context : /\ built'[d].refs = built[d].refs
                              /\ built'[d].seed = built[d].seed
    BY <1>3, <1>5 DEF Live
  <1>8. Referenced'
    <2>1. \A d : References(d)' = References(d)
      BY <1>0 DEF References, Holders
    <2>2. \A d \in Live : d \in Context
      BY DEF Live
    <2> QED BY <1>0, <1>7, <2>1, <2>2 DEF Sound, Referenced
  <1>9. pc \in [Thread -> {"idle", "asked", "waiting", "locked", "allocating",
                           "holding", "hashing"}]
        /\ held \in [Thread -> Context \cup {NoContext}] /\ vm \in [Thread -> Vm \cup {NoVm}]
        /\ current \in Context
    BY <1>0 DEF TypeOK
  <1>10. LockHeld'
    BY <1>0, <1>7, <1>9 DEF Sound, LockHeld
  <1>11. HoldsWanted'
    <2>1. \A u \in Thread : held[u] # NoContext => built'[held[u]].seed = built[held[u]].seed
      BY <1>7, <1>9
    <2> QED BY <1>0, <1>9, <2>1 DEF Sound, HoldsWanted
  <1>12. MachinesApart'
    <2>1. vm'[t] = v /\ held'[t] = c /\ pc'[t] = "hashing"
      BY <1>0, <1>1, <1>2, <1>9
    <2>2. \A u \in Thread \ {t} : pc'[u] = pc[u] /\ vm'[u] = vm[u] /\ held'[u] = held[u]
      BY <1>0, <1>2, <1>9
    <2>3. \A d \in Context : built'[d].idle \subseteq built[d].idle
      BY <1>3, <1>5
    <2>4. \A u \in Thread : pc[u] = "hashing" => held[u] \in Context
      BY <1>9 DEF Sound, HoldsWanted
    <2>5. v \notin built'[c].idle
      BY <1>3, <1>5
    <2>6. ASSUME NEW u \in Thread \ {t}, pc[u] = "hashing"
          PROVE  /\ vm'[u] \notin built'[held'[u]].idle
                 /\ \A x \in Thread \ {u} :
                      ~(pc'[x] = "hashing" /\ held'[x] = held'[u] /\ vm'[x] = vm'[u])
      <3>1. vm'[u] \notin built'[held'[u]].idle
        BY <2>2, <2>3, <2>4, <2>6 DEF Sound, MachinesApart
      <3>2. ~(held'[t] = held'[u] /\ vm'[t] = vm'[u])
        BY <1>2, <2>1, <2>2, <2>6
      <3>3. \A x \in Thread \ {t, u} :
              ~(pc'[x] = "hashing" /\ held'[x] = held'[u] /\ vm'[x] = vm'[u])
        BY <2>2, <2>6 DEF Sound, MachinesApart
      <3> QED BY <3>1, <3>2, <3>3
    <2>7. \A u \in Thread : pc'[u] # "hashing" <=> vm'[u] = NoVm
      <3>1. v # NoVm
        BY RandomXAssumption
      <3> QED BY <2>1, <2>2, <3>1 DEF Sound, MachinesApart
    <2> QED BY <1>2, <2>1, <2>2, <2>5, <2>6, <2>7 DEF MachinesApart
  <1> QED BY <1>6, <1>8, <1>10, <1>11, <1>12 DEF Sound

\* A thread lets go of its context, whose idle machines are now those in idle.
LEMMA LetGoSound ==
  ASSUME Sound, NEW t \in Thread, NEW c \in Context, c = held[t],
         pc[t] \in {"holding", "hashing"},
         NEW table \in [Context -> Built \cup {NoContext}],
         table[c] # NoContext, table[c].refs = built[c].refs,
         table[c].seed = built[c].seed,
         table[c].idle \subseteq built[c].idle \cup {vm[t]},
         \A d \in Context \ {c} : table[d] = built[d],
         built' = Dropped(table, c), held' = [held EXCEPT ![t] = NoContext],
         pc' = [pc EXCEPT ![t] = "idle"], vm' = [vm EXCEPT ![t] = NoVm],
         UNCHANGED <<current, init, want, calls>>, failures' \in 0..MaxFailures
  PROVE  Sound'
  <1>0. /\ TypeOK /\ c \in Live /\ c # NoContext /\ built[c].refs \in Nat
        /\ built[c].refs = References(c) /\ current \in Live
    BY RandomXAssumption, LiveBuilt DEF Sound, Referenced
  <1>1. built[c].refs # 0
    <2>1. t \in Holders(c)
      BY DEF Holders
    <2>2. Cardinality(Holders(c)) # 0
      BY <2>1, HoldersFinite, FS_EmptySet
    <2> QED BY <1>0, <2>2, HoldersFinite DEF References
  <1>2. /\ built' \in [Context -> Built \cup {NoContext}]
        /\ built'[c] = NoContext <=> built[c].refs = 1
        /\ built'[c] # NoContext => /\ built'[c].refs = built[c].refs - 1
                                    /\ built'[c].seed = built[c].seed
                                    /\ built'[c].idle \subseteq built[c].idle \cup {vm[t]}
        /\ \A d \in Context \ {c} : built'[d] = built[d]
    BY <1>1, DropSound
  <1>3. TypeOK'
    <2>1. /\ pc' \in [Thread -> {"idle", "asked", "waiting", "locked", "allocating",
                                "holding", "hashing"}]
          /\ held' \in [Thread -> Context \cup {NoContext}]
          /\ vm' \in [Thread -> Vm \cup {NoVm}]
      BY <1>0 DEF TypeOK
    <2>2. built' \in [Context -> Built \cup {NoContext}]
      BY <1>2
    <2> QED BY <1>0, <2>1, <2>2 DEF TypeOK
  <1>4. built'[c] = NoContext => c # current /\ \A u \in Thread \ {t} : held[u] # c
    BY <1>0, <1>2, Kept DEF Sound
  <1>5. /\ \A u \in Thread \ {t} : held'[u] = held[u] /\ pc'[u] = pc[u] /\ vm'[u] = vm[u]
        /\ held'[t] = NoContext /\ pc'[t] = "idle" /\ vm'[t] = NoVm
    BY <1>0 DEF TypeOK
  <1>6. \A d \in Context : built'[d] # NoContext =>
          built[d] # NoContext /\ built'[d].seed = built[d].seed
    BY <1>0, <1>2 DEF Live
  <1>7. \A u \in Thread \ {t} : held[u] # NoContext =>
          /\ held[u] \in Context /\ built'[held[u]] # NoContext
          /\ built'[held[u]].seed = built[held[u]].seed
    <2> SUFFICES ASSUME NEW u \in Thread \ {t}, held[u] # NoContext
        PROVE  held[u] \in Context /\ built'[held[u]] # NoContext
      BY <1>6
    <2>1. held[u] \in Live /\ held[u] \in Context /\ built[held[u]] # NoContext
      BY LiveBuilt DEF Sound, Referenced
    <2> QED BY <1>2, <1>4, <2>1
  <1>8. built'[current] # NoContext /\ built'[current].seed = built[current].seed
        /\ current \in Context
    <2>1. current \in Context /\ built[current] # NoContext
      BY <1>0, LiveBuilt
    <2>2. built'[current] # NoContext
      BY <1>2, <1>4, <2>1
    <2> QED BY <1>6, <2>1, <2>2
  <1>9. Referenced'
    <2>1. current' \in Live' /\ \A u \in Thread : held'[u] \in Live' \cup {NoContext}
      BY <1>5, <1>7, <1>8 DEF Live
    <2>2. ASSUME NEW d \in Live' PROVE built'[d].refs = References(d)'
      <3>1. d \in Context /\ built'[d] # NoContext /\ d \in Live
        BY <1>6 DEF Live
      <3>2. CASE d = c
        <4>1. Cardinality(Holders(c)) = Cardinality(Holders(c)') + 1
          BY <1>0, LettingGo
        <4> QED BY <1>0, <1>2, <3>1, <3>2, <4>1, HoldersFinite, HoldersFinitePrime
                DEF References
      <3>3. CASE d # c
        <4>1. Holders(d)' = Holders(d)
          BY <1>0, <3>1, <3>3, LettingGo
        <4> QED BY <1>2, <3>1, <3>3, <4>1 DEF Sound, Referenced, References
      <3> QED BY <3>2, <3>3
    <2> QED BY <2>1, <2>2 DEF Referenced
  <1>10. LockHeld'
    BY <1>5, <1>8 DEF Sound, LockHeld
  <1>11. HoldsWanted'
    BY <1>5, <1>7 DEF Sound, HoldsWanted
  <1>12. MachinesApart'
    <2>1. \A u \in Thread : pc'[u] # "hashing" <=> vm'[u] = NoVm
      BY <1>5 DEF Sound, MachinesApart
    <2>2. ASSUME NEW u \in Thread, pc'[u] = "hashing"
          PROVE  vm'[u] \notin built'[held'[u]].idle
      <3>1. u # t /\ pc[u] = "hashing" /\ held[u] # NoContext
        BY <1>5, <2>2 DEF Sound, HoldsWanted
      <3>2. vm[u] \notin built[held[u]].idle
        BY <3>1 DEF Sound, MachinesApart
      <3>3. CASE held[u] = c
        <4>1. pc[t] = "hashing" => vm[u] # vm[t]
          BY <3>1, <3>3 DEF Sound, MachinesApart
        <4>2. pc[t] = "holding" => vm[t] = NoVm
          BY DEF Sound, MachinesApart
        <4>3. built'[c].idle \subseteq Vm
          BY <1>2, <1>7, <3>1, <3>3 DEF Built
        <4> QED BY <1>2, <1>5, <1>7, <3>1, <3>2, <3>3, <4>1, <4>2, <4>3,
                RandomXAssumption
      <3>4. CASE held[u] # c
        BY <1>2, <1>5, <1>7, <3>1, <3>2, <3>4
      <3> QED BY <3>3, <3>4
    <2>3. \A u \in Thread, x \in Thread : pc'[u] = "hashing" /\ x # u =>
            ~(pc'[x] = "hashing" /\ held'[x] = held'[u] /\ vm'[x] = vm'[u])
      BY <1>5 DEF Sound, MachinesApart
    <2> QED BY <2>1, <2>2, <2>3 DEF MachinesApart
  <1> QED BY <1>3, <1>9, <1>10, <1>11, <1>12 DEF Sound

\* No machine can be made: the thread lets go of the context.
LEMMA TakeVmFailsSound ==
  ASSUME Sound, NEW t \in Thread, TakeVmFails(t)
  PROVE  Sound'
  <1>1. PICK c \in Context : c = held[t] /\ c \in Live
    BY LiveBuilt DEF Sound, TakeVmFails, HoldsWanted, Referenced
  <1>2. built \in [Context -> Built \cup {NoContext}] /\ built[c] # NoContext
    BY <1>1, LiveBuilt DEF Sound, TypeOK
  <1>3. failures' \in 0..MaxFailures
    BY RandomXAssumption DEF TakeVmFails, Sound, TypeOK
  <1>4. vm' = [vm EXCEPT ![t] = NoVm]
    BY DEF TakeVmFails, Sound, TypeOK, MachinesApart
  <1> QED BY <1>1, <1>2, <1>3, <1>4, LetGoSound DEF TakeVmFails, Goto

\* The machine goes back, and the thread lets go of the context.
LEMMA ReturnVmSound ==
  ASSUME Sound, NEW t \in Thread, ReturnVm(t)
  PROVE  Sound'
  <1>1. PICK c \in Context : c = held[t] /\ c \in Live
    BY LiveBuilt DEF Sound, ReturnVm, HoldsWanted, Referenced
  <1> DEFINE rec   == [built[c] EXCEPT !.idle = @ \cup {vm[t]}]
             table == [built EXCEPT ![c].idle = @ \cup {vm[t]}]
  <1>2. built[c] \in Built /\ built[c] # NoContext /\ vm[t] \in Vm \cup {NoVm}
    BY <1>1, LiveBuilt DEF Sound, TypeOK
  <1>3. vm[t] \in Vm
    BY <1>2 DEF Sound, MachinesApart, ReturnVm
  <1>4. /\ rec \in Built /\ rec.refs = built[c].refs /\ rec.seed = built[c].seed
        /\ rec.idle = built[c].idle \cup {vm[t]}
    BY <1>2, <1>3 DEF Built
  <1>5. rec # NoContext
    BY <1>4, RandomXAssumption
  <1>6. table = [built EXCEPT ![c] = rec]
    OBVIOUS
  <1>7. built' = Dropped(table, c)
    BY <1>1 DEF ReturnVm
  <1> HIDE DEF rec, table
  <1>8. /\ table \in [Context -> Built \cup {NoContext}] /\ table[c] = rec
        /\ \A d \in Context \ {c} : table[d] = built[d]
    BY <1>4, <1>6 DEF Sound, TypeOK
  <1>9. failures' \in 0..MaxFailures
    BY DEF ReturnVm, Sound, TypeOK
  <1> QED BY <1>1, <1>4, <1>5, <1>7, <1>8, <1>9, LetGoSound, ZenonT(40) DEF ReturnVm, Goto

\* Every step of every thread.
LEMMA NextSound == Sound /\ [Next]_vars => Sound'
  <1> SUFFICES ASSUME Sound, [Next]_vars PROVE Sound'
    OBVIOUS
  <1>1. CASE UNCHANGED vars
    BY <1>1 DEF vars, Sound, TypeOK, Referenced, References, Holders, Live,
       LockHeld, HoldsWanted, MachinesApart
  <1>2. ASSUME NEW t \in Thread, NEW s \in Seed, Ask(t, s) PROVE Sound'
    <2>1. held[t] = NoContext /\ calls' \in 0..MaxCalls /\ failures' \in 0..MaxFailures
      BY <1>2, RandomXAssumption DEF Ask, Sound, TypeOK, HoldsWanted
    <2>2. want' \in [Thread -> Seed \cup {TestSeed}] /\ init' \in Thread \cup {NoThread}
          /\ \A u \in Thread \ {t} : want'[u] = want[u]
      BY <1>2 DEF Ask, Sound, TypeOK
    <2> QED BY <1>2, <2>1, <2>2, QuietSound DEF Ask
  <1>3. ASSUME NEW t \in Thread, Lock(t) \/ AllocateFails(t) PROVE Sound'
    <2>1. /\ held[t] = NoContext /\ want' = want /\ calls' \in 0..MaxCalls
          /\ failures' \in 0..MaxFailures /\ init' \in Thread \cup {NoThread}
      BY <1>3, RandomXAssumption DEF Lock, AllocateFails, Sound, TypeOK, HoldsWanted
    <2>2. \A u \in Thread \ {t} : init = u => init' = u
      BY <1>3, RandomXAssumption DEF Lock, AllocateFails, Sound, LockHeld
    <2>3. want' \in [Thread -> Seed \cup {TestSeed}]
      BY <2>1 DEF Sound, TypeOK
    <2>4. CASE Lock(t)
      BY <2>1, <2>2, <2>3, <2>4, QuietSound DEF Lock
    <2>5. CASE AllocateFails(t)
      BY <2>1, <2>2, <2>3, <2>5, QuietSound DEF AllocateFails
    <2> QED BY <1>3, <2>4, <2>5
  <1>4. ASSUME NEW t \in Thread, Look(t) \/ Recheck(t) PROVE Sound'
    <2>1. /\ init' \in Thread \cup {NoThread} /\ calls \in 0..MaxCalls
          /\ failures \in 0..MaxFailures /\ held[t] = NoContext
          /\ want \in [Thread -> Seed \cup {TestSeed}]
      BY <1>4 DEF Look, Recheck, Sound, TypeOK, HoldsWanted
    <2>2. \A u \in Thread \ {t} : init = u => init' = u
      BY <1>4 DEF Look, Recheck, Sound, LockHeld
    <2>3. CASE built[current].seed = want[t]
      BY <1>4, <2>1, <2>2, <2>3, TakeSound DEF Look, Recheck
    <2>4. CASE built[current].seed # want[t]
      <3>1. CASE Look(t)
        BY <2>1, <2>2, <2>4, <3>1, QuietSound DEF Look
      <3>2. CASE Recheck(t)
        <4>1. init = t
          BY <3>2 DEF Recheck, Sound, LockHeld
        <4> QED BY <2>1, <2>2, <2>4, <3>2, <4>1, QuietSound DEF Recheck
      <3> QED BY <1>4, <3>1, <3>2
    <2> QED BY <2>3, <2>4
  <1> QED BY <1>1, <1>2, <1>3, <1>4, AllocateSound, ReplaceSound, TakeVmSound,
          TakeVmFailsSound, ReturnVmSound DEF Next, Step

\* The invariant of contexts and threads.
LEMMA AlwaysSound == Spec => []Sound
  BY InitSound, NextSound, PTL DEF Spec

\* TypeOK and the exact reference counts: what a thread holds is not released.
THEOREM CountsExact == Spec => [](TypeOK /\ Referenced)
  <1>1. Sound => TypeOK /\ Referenced
    BY DEF Sound
  <1> QED BY <1>1, AlwaysSound, PTL

\* HashesSound: what unsafe code has to ensure, for any number of threads and
\* seeds and any interleaving of allocation, replacement, failure and release.
THEOREM HashingSound == Spec => []HashesSound
  <1>1. Sound => HashesSound
    BY RandomXAssumption DEF Sound, Referenced, HoldsWanted, MachinesApart, HashesSound
  <1> QED BY <1>1, AlwaysSound, PTL

\* InitializedOnce: threads that wait for the same seed do not each allocate its
\* dataset, because the second look is made with the initialization lock and
\* nobody else replaces the current context before it is released.
THEOREM SeedInitializedOnce == Spec => InitializedOnce
  <1> DEFINE New == \A c \in Context :
                built[c] = NoContext /\ built'[c] # NoContext =>
                  built'[c].seed # built[current].seed
  <1>1. Sound /\ [Next]_vars => [New]_vars
    <2> SUFFICES ASSUME Sound, Next, NEW c \in Context,
                        built[c] = NoContext, built'[c] # NoContext
        PROVE  built'[c].seed # built[current].seed
      OBVIOUS
    <2>1. PICK t \in Thread : \/ \E s \in Seed : Ask(t, s)
                              \/ Lock(t) \/ Step(t) \/ AllocateFails(t) \/ TakeVmFails(t)
      BY DEF Next
    <2>2. \A d \in Live, e \in Context : e # d => Cloned(built, d)[e] = built[e]
      BY DEF Cloned, Sound, TypeOK
    <2>3. current \in Live /\ held[t] \in Live \cup {NoContext} /\ c \notin Live
      BY DEF Sound, Referenced, Live
    <2>4. CASE (\E s \in Seed : Ask(t, s)) \/ Lock(t) \/ AllocateFails(t)
      BY <2>4 DEF Ask, Lock, AllocateFails
    <2>5. CASE Look(t) \/ Recheck(t)
      BY <2>2, <2>3, <2>5 DEF Look, Recheck, TakeCurrent
    <2>6. CASE Replace(t)
      <3>1. Cloned(built, held[t])[c] = NoContext
        BY <2>2, <2>3, <2>6 DEF Replace
      <3>2. /\ built' = Dropped(Cloned(built, held[t]), current) /\ c # current
            /\ Cloned(built, held[t]) \in [Context -> Built \cup {NoContext}]
        BY <2>3, <2>6, CloneSound DEF Replace, Sound
      <3>3. built'[c] = NoContext
        BY <3>1, <3>2 DEF Dropped
      <3> QED BY <3>3
    <2>7. CASE TakeVm(t) \/ TakeVmFails(t) \/ ReturnVm(t)
      <3>1. held[t] \in Live /\ held[t] # c
        BY <2>3, <2>7 DEF TakeVm, TakeVmFails, ReturnVm, Sound, HoldsWanted
      <3> QED BY <2>7, <3>1 DEF TakeVm, TakeVmFails, ReturnVm, Dropped, Sound, TypeOK
    <2>8. CASE Allocate(t)
      <3>1. built[current].seed # want[t]
        BY <2>8 DEF Allocate, Sound, LockHeld
      <3>2. PICK d \in Context :
              built' = [built EXCEPT ![d] = [seed |-> want[t], refs |-> 1, idle |-> {}]]
        BY <2>8 DEF Allocate, Live
      <3>3. built'[c].seed = want[t]
        BY <3>2 DEF Sound, TypeOK
      <3> QED BY <3>1, <3>3
    <2> QED BY <2>1, <2>4, <2>5, <2>6, <2>7, <2>8 DEF Step
  <1> QED BY <1>1, AlwaysSound, PTL DEF Spec, InitializedOnce

-----------------------------------------------------------------------------
(* Induction over numbers.                                                 *)

\* Every set of numbers that is not empty has a least one.
LEMMA LeastNumber ==
  ASSUME NEW T \in SUBSET Nat, T # {}
  PROVE  \E k \in T : \A j \in T : k <= j
  <1>1. IsWellFoundedOn(OpToRel(<, Nat), Nat)
    BY NatLessThanWellFounded, Zenon
  <1>2. PICK k \in T : \A j \in T : ~(<<j, k>> \in OpToRel(<, Nat))
    BY <1>1, WFMin, Zenon
  <1>3. \A j \in T : ~(j < k)
    BY <1>2 DEF OpToRel
  <1> QED BY <1>3

-----------------------------------------------------------------------------
(* Powers and quotients.                                                   *)

\* Multiplying up to a number of times, as an equation.
Multiplies(base, g, P) == g = [k \in P |-> IF k = 0 THEN 1 ELSE base * g[k - 1]]
Powers(base) == CHOOSE g : Multiplies(base, g, Nat)

\* The recursion of Power has a solution.
LEMMA PowersDef == ASSUME NEW base PROVE Multiplies(base, Powers(base), Nat)
  <1> DEFINE Next1(g, k) == IF k = 0 THEN 1 ELSE base * g[k - 1]
  <1>e. ASSUME NEW g, NEW P
        PROVE  Multiplies(base, g, P) <=> g = [k \in P |-> Next1(g, k)]
    BY DEF Multiplies
  <1>1. \A n \in Nat : \E g : Multiplies(base, g, 0..n)
    <2> DEFINE Bad == {n \in Nat : ~\E g : Multiplies(base, g, 0..n)}
    <2>1. SUFFICES ASSUME Bad # {} PROVE FALSE
      OBVIOUS
    <2>2. PICK n \in Bad : \A j \in Bad : n <= j
      <3>1. Bad \in SUBSET Nat
        OBVIOUS
      <3> HIDE DEF Bad
      <3> QED BY <2>1, <3>1, LeastNumber
    <2>3. CASE n = 0
      <3> DEFINE g == [k \in 0..0 |-> 1]
      <3>1. \A k \in 0..0 : k = 0
        OBVIOUS
      <3>2. g = [k \in 0..0 |-> IF k = 0 THEN 1 ELSE base * g[k - 1]]
        BY <3>1
      <3>3. Multiplies(base, g, 0..0)
        BY <3>2 DEF Multiplies
      <3> QED BY <2>2, <2>3, <3>3
    <2>4. CASE n # 0
      <3>1. n \in Nat /\ n - 1 \in Nat /\ ~(n <= n - 1)
        BY <2>2, <2>4
      <3>2. PICK g : Multiplies(base, g, 0..(n - 1))
        BY <2>2, <3>1
      <3> DEFINE h == [k \in 0..n |-> IF k \in 0..(n - 1) THEN g[k]
                                      ELSE Next1(g, k)]
      <3>3. \A k \in 0..(n - 1) : g[k] = Next1(g, k)
        BY <3>2 DEF Multiplies
      <3>4. \A k \in 0..n : k # 0 => k - 1 \in 0..(n - 1) /\ k - 1 \in 0..n
        BY <3>1
      <3>5. \A k \in 0..n : h[k] = Next1(g, k)
        BY <3>3
      <3>6. \A k \in 0..n : k # 0 => h[k - 1] = g[k - 1]
        BY <3>4
      <3>7. \A k \in 0..n : h[k] = Next1(h, k)
        <4> HIDE DEF h
        <4> QED BY <3>5, <3>6
      <3>8. h = [k \in 0..n |-> h[k]]
        OBVIOUS
      <3> HIDE DEF h
      <3>9. Multiplies(base, h, 0..n)
        BY <3>7, <3>8 DEF Multiplies
      <3> QED BY <2>2, <3>9
    <2> QED BY <2>3, <2>4
  <1> DEFINE G(n) == CHOOSE g : Multiplies(base, g, 0..n)
             d == [n \in Nat |-> G(n)[n]]
  <1>2. \A n \in Nat : Multiplies(base, G(n), 0..n)
    BY <1>1
  <1> HIDE DEF G
  <1>3. \A n \in Nat : \A k \in 0..n : G(n)[k] = Next1(G(n), k)
    <2> SUFFICES ASSUME NEW n \in Nat, NEW k \in 0..n
                 PROVE  G(n)[k] = Next1(G(n), k)
      OBVIOUS
    <2>1. Multiplies(base, G(n), 0..n)
      BY <1>2
    <2> QED BY <2>1 DEF Multiplies
  <1>4. \A n \in Nat : \A k \in 0..n : G(n)[k] = G(k)[k]
    <2> DEFINE Fine(k) == \A n \in Nat : k <= n => G(n)[k] = G(k)[k]
               Bad == {k \in Nat : ~Fine(k)}
    <2>0. Bad = {}
      <3> SUFFICES ASSUME Bad # {} PROVE FALSE
        OBVIOUS
      <3>1. PICK k \in Bad : \A j \in Bad : k <= j
        <4>1. Bad \in SUBSET Nat
          OBVIOUS
        <4> HIDE DEF Bad
        <4> QED BY <4>1, LeastNumber
      <3>2. k \in Nat /\ ~Fine(k) /\ \A j \in Nat : j < k => Fine(j)
        BY <3>1
      <3>3. PICK n \in Nat : k <= n /\ G(n)[k] # G(k)[k]
        BY <3>2
      <3>4. k \in 0..n /\ k \in 0..k
        BY <3>2, <3>3
      <3>5. G(n)[k] = Next1(G(n), k) /\ G(k)[k] = Next1(G(k), k)
        BY <1>3, <3>2, <3>4
      <3>6. k # 0
        BY <3>3, <3>5
      <3>7. k - 1 \in Nat /\ k - 1 < k /\ k - 1 <= n /\ k - 1 <= k
        BY <3>2, <3>3, <3>6
      <3>8. G(n)[k - 1] = G(k - 1)[k - 1] /\ G(k)[k - 1] = G(k - 1)[k - 1]
        BY <3>2, <3>7
      <3> QED BY <3>3, <3>5, <3>6, <3>8
    <2> SUFFICES ASSUME NEW n \in Nat, NEW k \in 0..n PROVE G(n)[k] = G(k)[k]
      OBVIOUS
    <2>1. k \in Nat /\ k <= n
      OBVIOUS
    <2>2. Fine(k)
      BY <2>0, <2>1
    <2> QED BY <2>1, <2>2
  <1>5. \A n \in Nat : d[n] = Next1(d, n)
    <2> SUFFICES ASSUME NEW n \in Nat PROVE d[n] = Next1(d, n)
      OBVIOUS
    <2>1. n \in 0..n /\ d[n] = G(n)[n]
      OBVIOUS
    <2>2. d[n] = Next1(G(n), n)
      BY <1>3, <2>1
    <2>3. n # 0 => n - 1 \in Nat /\ n - 1 \in 0..n
      OBVIOUS
    <2>4. n # 0 => d[n - 1] = G(n)[n - 1]
      BY <1>4, <2>3
    <2> HIDE DEF d
    <2> QED BY <2>2, <2>4
  <1>6. d = [n \in Nat |-> d[n]]
    OBVIOUS
  <1> HIDE DEF d
  <1>7. Multiplies(base, d, Nat)
    BY <1>5, <1>6 DEF Multiplies
  <1>8. Powers(base) = CHOOSE g : Multiplies(base, g, Nat)
    BY DEF Powers, Multiplies
  <1> QED BY <1>7, <1>8

\* Powers are positive, and each is the base times the one before it.
LEMMA PowerSteps ==
  ASSUME NEW base \in Nat \ {0}
  PROVE  /\ Power(base, 0) = 1
         /\ \A n \in Nat : /\ Power(base, n) \in Nat \ {0}
                           /\ Power(base, n + 1) = base * Power(base, n)
  <1> DEFINE p(n) == Power(base, n)
  <1>1. \A n \in Nat : p(n) = Powers(base)[n]
    BY DEF Power, Powers, Multiplies
  <1>2. \A n \in Nat : Powers(base)[n] = IF n = 0 THEN 1
                                         ELSE base * Powers(base)[n - 1]
    <2>1. Multiplies(base, Powers(base), Nat)
      BY PowersDef
    <2> HIDE DEF Powers
    <2> QED BY <2>1 DEF Multiplies
  <1> HIDE DEF p
  <1>3. p(0) = 1 /\ \A n \in Nat : p(n + 1) = base * p(n)
    <2>1. p(0) = 1
      BY <1>1, <1>2
    <2>2. ASSUME NEW n \in Nat PROVE p(n + 1) = base * p(n)
      <3>1. n + 1 \in Nat /\ n + 1 # 0 /\ (n + 1) - 1 = n
        OBVIOUS
      <3>2. Powers(base)[n + 1] = base * Powers(base)[(n + 1) - 1]
        BY <1>2, <3>1
      <3> QED BY <1>1, <3>1, <3>2
    <2> QED BY <2>1, <2>2
  <1>4. \A n \in Nat : p(n) \in Nat \ {0}
    <2> DEFINE Bad == {n \in Nat : p(n) \notin Nat \ {0}}
    <2>1. SUFFICES ASSUME Bad # {} PROVE FALSE
      OBVIOUS
    <2>2. PICK n \in Bad : \A j \in Bad : n <= j
      <3>1. Bad \in SUBSET Nat
        OBVIOUS
      <3> HIDE DEF Bad
      <3> QED BY <2>1, <3>1, LeastNumber
    <2>3. n \in Nat /\ p(n) \notin Nat \ {0} /\ n # 0
      BY <1>3, <2>2
    <2>4. n - 1 \in Nat /\ ~(n <= n - 1) /\ (n - 1) + 1 = n
      BY <2>3
    <2>5. p(n - 1) \in Nat \ {0}
      BY <2>2, <2>4
    <2>6. p((n - 1) + 1) = base * p(n - 1)
      BY <1>3, <2>4
    <2> QED BY <2>3, <2>4, <2>5, <2>6
  <1> QED BY <1>3, <1>4 DEF p

\* Euclidean division by a positive number.
LEMMA Euclidean ==
  ASSUME NEW a \in Int, NEW b \in Nat \ {0}
  PROVE  /\ a \div b \in Int /\ b * (a \div b) <= a
         /\ a < b * (a \div b) + b
         /\ a % b = a - b * (a \div b) /\ a % b \in 0..(b - 1)
         /\ a >= 0 => a \div b >= 0
  OBVIOUS

\* Multiplying both sides of an inequality.
LEMMA TimesMono ==
  ASSUME NEW a \in Int, NEW c \in Int, a <= c, NEW b \in Nat
  PROVE  b * a <= b * c
  <1>1. b * (c - a) >= 0 /\ b * (c - a) = b * c - b * a
    OBVIOUS
  <1> QED BY <1>1

\* The quotient is the only number with that property.
LEMMA QuotientIs ==
  ASSUME NEW a \in Int, NEW b \in Nat \ {0}, NEW q \in Int,
         b * q <= a, a < b * q + b
  PROVE  a \div b = q
  <1> DEFINE d == a \div b
  <1>1. d \in Int /\ b * d <= a /\ a < b * d + b
    BY Euclidean
  <1> HIDE DEF d
  <1>2. ~(d < q)
    <2> SUFFICES ASSUME d < q PROVE FALSE
      OBVIOUS
    <2>1. b * (d + 1) <= b * q
      BY <1>1, TimesMono
    <2> QED BY <1>1, <2>1
  <1>3. ~(q < d)
    <2> SUFFICES ASSUME q < d PROVE FALSE
      OBVIOUS
    <2>1. b * (q + 1) <= b * d
      BY <1>1, TimesMono
    <2> QED BY <1>1, <2>1
  <1> QED BY <1>1, <1>2, <1>3 DEF d

\* Quotients of a greater number are not smaller.
LEMMA QuotientMono ==
  ASSUME NEW a \in Int, NEW c \in Int, a <= c, NEW b \in Nat \ {0}
  PROVE  a \div b <= c \div b
  <1> DEFINE d == a \div b  e == c \div b
  <1>1. d \in Int /\ b * d <= a /\ e \in Int /\ c < b * e + b
    BY Euclidean
  <1> HIDE DEF d, e
  <1>2. ~(e < d)
    <2> SUFFICES ASSUME e < d PROVE FALSE
      OBVIOUS
    <2>1. b * (e + 1) <= b * d
      BY <1>1, TimesMono
    <2> QED BY <1>1, <2>1
  <1> QED BY <1>1, <1>2 DEF d, e

-----------------------------------------------------------------------------
(* The schedule of targets.                                                *)

\* What the assumptions say of the constants' types.
LEMMA TargetTypes ==
  /\ MaxTarget \in Nat /\ PowLimit \in 1..MaxTarget /\ PowLimit \in Nat
  /\ InitialTarget \in 1..PowLimit /\ InitialTarget \in Nat \ {0}
  /\ Frac \in Nat \ {0} /\ HalfLife \in Nat \ {0} /\ BlockTime \in Nat \ {0}
  <1>1. Radix \in Nat \ {0} /\ Digits \in Nat
    BY DifficultyAssumption
  <1>2. Power(Radix, Digits) \in Nat \ {0}
    BY <1>1, PowerSteps
  <1>3. MaxTarget \in Nat
    BY <1>2 DEF MaxTarget
  <1> QED BY <1>3, DifficultyAssumption

\* A shift in either direction, without the limit.
Unlimited(base, shifts) ==
  IF shifts < 0 THEN base \div Power(2, -shifts) ELSE base * Power(2, shifts)

Limited(target) == HigherOf(LowerOf(target, PowLimit), 1)

\* What is shifted stays a number, and greater numbers stay greater.
LEMMA ShiftMono ==
  ASSUME NEW b \in Nat, NEW c \in Nat, b <= c, NEW s \in Int
  PROVE  /\ Unlimited(b, s) \in Nat /\ Unlimited(c, s) \in Nat
         /\ Unlimited(b, s) <= Unlimited(c, s)
  <1>1. CASE s < 0
    <2> DEFINE p == Power(2, -s)
    <2>1. p \in Nat \ {0}
      BY <1>1, PowerSteps
    <2> HIDE DEF p
    <2>2. /\ b \div p \in Int /\ b \div p >= 0
          /\ c \div p \in Int /\ c \div p >= 0
      BY <2>1, Euclidean
    <2>3. b \div p <= c \div p
      BY <2>1, QuotientMono
    <2> QED BY <1>1, <2>2, <2>3 DEF Unlimited, p
  <1>2. CASE s >= 0
    <2> DEFINE p == Power(2, s)
    <2>1. p \in Nat \ {0}
      BY <1>2, PowerSteps
    <2> HIDE DEF p
    <2>2. p * b <= p * c
      BY <2>1, TimesMono
    <2>3. /\ b * p = p * b /\ c * p = p * c /\ b * p \in Nat /\ c * p \in Nat
      BY <2>1
    <2> QED BY <1>2, <2>2, <2>3 DEF Unlimited, p
  <1> QED BY <1>1, <1>2

\* One shift more doubles.
LEMMA ShiftNext ==
  ASSUME NEW b \in Nat, NEW s \in Int
  PROVE  Unlimited(2 * b, s) = Unlimited(b, s + 1)
  <1>1. CASE s >= 0
    <2> DEFINE p == Power(2, s)
    <2>1. p \in Nat \ {0} /\ Power(2, s + 1) = 2 * p
      BY <1>1, PowerSteps
    <2> HIDE DEF p
    <2>2. (2 * b) * p = b * (2 * p)
      BY <2>1
    <2>3. ~(s < 0) /\ ~(s + 1 < 0)
      BY <1>1
    <2> QED BY <2>1, <2>2, <2>3 DEF Unlimited, p
  <1>2. CASE s + 1 = 0
    <2>1. Power(2, 0) = 1 /\ Power(2, 0 + 1) = 2 * Power(2, 0)
      BY PowerSteps
    <2>2. Power(2, 1) = 2
      BY <2>1
    <2>3. s < 0 /\ -s = 1 /\ s + 1 = 0
      BY <1>2
    <2>4. b * 1 = b
      OBVIOUS
    <2>5. (2 * b) \div 2 = b
      OBVIOUS
    <2> QED BY <2>1, <2>2, <2>3, <2>4, <2>5 DEF Unlimited
  <1>3. CASE s + 1 < 0
    <2> DEFINE k == -(s + 1)  p == Power(2, k)  q == b \div p
    <2>1. k \in Nat /\ -s = k + 1 /\ s < 0 /\ s + 1 < 0
      BY <1>3
    <2>2. p \in Nat \ {0} /\ Power(2, k + 1) = 2 * p
      BY <2>1, PowerSteps
    <2> HIDE DEF p
    <2>3. q \in Int /\ p * q <= b /\ b < p * q + p
      BY <2>2, Euclidean
    <2> HIDE DEF q
    <2>4. (2 * p) * q = 2 * (p * q) /\ p * q \in Int
      BY <2>2, <2>3
    <2>5. 2 * p \in Nat \ {0} /\ 2 * b \in Int
      BY <2>2
    <2>6. (2 * p) * q <= 2 * b /\ 2 * b < (2 * p) * q + 2 * p
      BY <2>2, <2>3, <2>4
    <2>7. (2 * b) \div (2 * p) = q
      BY <2>3, <2>5, <2>6, QuotientIs
    <2> QED BY <2>1, <2>2, <2>7 DEF Unlimited, p, q
  <1> QED BY <1>1, <1>2, <1>3

\* Doubling before and after a shift, which may lose a last bit.
LEMMA ShiftDouble ==
  ASSUME NEW b \in Nat, NEW s \in Int
  PROVE  /\ 2 * Unlimited(b, s) <= Unlimited(2 * b, s)
         /\ Unlimited(2 * b, s) <= 2 * Unlimited(b, s) + 1
  <1>1. CASE s >= 0
    <2> DEFINE p == Power(2, s)
    <2>1. p \in Nat \ {0}
      BY <1>1, PowerSteps
    <2> HIDE DEF p
    <2>2. (2 * b) * p = 2 * (b * p) /\ b * p \in Nat
      BY <2>1
    <2> QED BY <1>1, <2>2 DEF Unlimited, p
  <1>2. CASE s < 0
    <2> DEFINE p == Power(2, -s)  q == b \div p  d == (2 * b) \div p
    <2>1. p \in Nat \ {0}
      BY <1>2, PowerSteps
    <2> HIDE DEF p
    <2>2. /\ q \in Int /\ p * q <= b /\ b < p * q + p
          /\ d \in Int /\ p * d <= 2 * b /\ 2 * b < p * d + p
      BY <2>1, Euclidean
    <2> HIDE DEF q, d
    <2>3. /\ p * q \in Int /\ p * d \in Int
          /\ p * (2 * q) = 2 * (p * q) /\ p * (2 * q + 2) = 2 * (p * q) + 2 * p
          /\ p * (d + 1) = p * d + p
      BY <2>1, <2>2
    <2>4. ~(d + 1 <= 2 * q)
      <3> SUFFICES ASSUME d + 1 <= 2 * q PROVE FALSE
        OBVIOUS
      <3>1. p * (d + 1) <= p * (2 * q)
        BY <2>1, <2>2, TimesMono
      <3> QED BY <2>1, <2>2, <2>3, <3>1
    <2>5. ~(2 * q + 2 <= d)
      <3> SUFFICES ASSUME 2 * q + 2 <= d PROVE FALSE
        OBVIOUS
      <3>1. p * (2 * q + 2) <= p * d
        BY <2>1, <2>2, TimesMono
      <3> QED BY <2>1, <2>2, <2>3, <3>1
    <2>6. 2 * q <= d /\ d <= 2 * q + 1
      BY <2>2, <2>4, <2>5
    <2> QED BY <1>2, <2>6 DEF Unlimited, p, q, d
  <1> QED BY <1>1, <1>2

\* More shifts give no less.
LEMMA ShiftGrows ==
  ASSUME NEW b \in Nat, NEW s \in Int, NEW u \in Int, s <= u
  PROVE  Unlimited(b, s) <= Unlimited(b, u)
  <1> DEFINE f(x) == Unlimited(b, x)
             Bad == {k \in Nat : ~(f(s) <= f(s + k))}
  <1>1. \A x \in Int : f(x) \in Nat /\ f(x) <= f(x + 1)
    <2> SUFFICES ASSUME NEW x \in Int PROVE f(x) \in Nat /\ f(x) <= f(x + 1)
      OBVIOUS
    <2>1. b <= 2 * b /\ 2 * b \in Nat
      OBVIOUS
    <2>2. /\ Unlimited(b, x) \in Nat /\ Unlimited(b, x) <= Unlimited(2 * b, x)
      BY <2>1, ShiftMono
    <2> QED BY <2>2, ShiftNext
  <1> HIDE DEF f
  <1>2. Bad = {}
    <2> SUFFICES ASSUME Bad # {} PROVE FALSE
      OBVIOUS
    <2>1. PICK k \in Bad : \A j \in Bad : k <= j
      <3>1. Bad \in SUBSET Nat
        OBVIOUS
      <3> HIDE DEF Bad
      <3> QED BY <3>1, LeastNumber
    <2>2. k \in Nat /\ ~(f(s) <= f(s + k))
      BY <2>1
    <2>3. k # 0
      <3>1. s + 0 = s /\ f(s) \in Nat
        BY <1>1
      <3> QED BY <2>2, <3>1
    <2>4. k - 1 \in Nat /\ ~(k <= k - 1) /\ s + (k - 1) \in Int
          /\ (s + (k - 1)) + 1 = s + k /\ s + k \in Int
      BY <2>2, <2>3
    <2>5. f(s) <= f(s + (k - 1))
      BY <2>1, <2>4
    <2>6. f(s + (k - 1)) <= f(s + k)
      BY <1>1, <2>4
    <2>7. f(s) \in Nat /\ f(s + (k - 1)) \in Nat /\ f(s + k) \in Nat
      BY <1>1, <2>4
    <2> QED BY <2>2, <2>5, <2>6, <2>7
  <1>3. u - s \in Nat /\ s + (u - s) = u
    OBVIOUS
  <1>4. f(s) <= f(s + (u - s))
    BY <1>2, <1>3
  <1> QED BY <1>3, <1>4 DEF f

\* The shift that stops at the limit gives the same target.
LEMMA ShiftLimited ==
  ASSUME NEW b \in Nat, NEW s \in Int
  PROVE  /\ Limited(ShiftedBy(b, s)) = Limited(Unlimited(b, s))
         /\ Limited(ShiftedBy(b, s)) \in 1..PowLimit
  <1>0. PowLimit \in Nat /\ PowLimit >= 1
    BY TargetTypes
  <1>1. CASE s < 0
    <2>1. ShiftedBy(b, s) = Unlimited(b, s)
      BY <1>1 DEF ShiftedBy, Unlimited
    <2>2. Unlimited(b, s) \in Nat
      <3>1. b <= b
        OBVIOUS
      <3> QED BY <3>1, ShiftMono
    <2> HIDE DEF Unlimited
    <2> QED BY <1>0, <2>1, <2>2 DEF Limited, LowerOf, HigherOf
  <1>2. CASE s >= 0
    <2> DEFINE p == Power(2, s)  d == PowLimit \div p
    <2>1. p \in Nat \ {0}
      BY <1>2, PowerSteps
    <2> HIDE DEF p
    <2>2. d \in Int /\ p * d <= PowLimit /\ PowLimit < p * d + p
      BY <1>0, <2>1, Euclidean
    <2> HIDE DEF d
    <2>3. p * (d + 1) = p * d + p /\ p * b \in Nat /\ b * p = p * b /\ p * d \in Int
      BY <2>1, <2>2
    <2>4. ASSUME b > d PROVE p * b > PowLimit
      <3>1. p * (d + 1) <= p * b
        BY <2>1, <2>2, <2>4, TimesMono
      <3> QED BY <1>0, <2>1, <2>2, <2>3, <3>1
    <2>5. ASSUME ~(b > d) PROVE p * b <= PowLimit
      <3>1. p * b <= p * d
        BY <2>1, <2>2, <2>5, TimesMono
      <3> QED BY <1>0, <2>2, <2>3, <3>1
    <2>6. /\ ShiftedBy(b, s) = IF b > d THEN PowLimit ELSE b * p
          /\ Unlimited(b, s) = b * p
      BY <1>2 DEF ShiftedBy, Unlimited, p, d
    <2>7. PICK x : x = p * b
      OBVIOUS
    <2>8. /\ x \in Nat /\ ShiftedBy(b, s) = IF b > d THEN PowLimit ELSE x
          /\ Unlimited(b, s) = x /\ (b > d => x > PowLimit)
          /\ (~(b > d) => x <= PowLimit)
      BY <2>3, <2>4, <2>5, <2>6, <2>7
    <2> QED BY <1>0, <2>8 DEF Limited, LowerOf, HigherOf
  <1> QED BY <1>1, <1>2

\* The limits keep the order and, as far as they allow, the doubling.
LEMMA LimitedMono ==
  ASSUME NEW x \in Nat, NEW y \in Nat
  PROVE  /\ x <= y => Limited(x) <= Limited(y)
         /\ 2 * x <= y /\ y <= 2 * x + 1 =>
              /\ Limited(y) <= 2 * Limited(x) + 1
              /\ Limited(x) > 1 => Limited(y) >= LowerOf(2 * Limited(x), PowLimit)
  <1>1. PowLimit \in Nat /\ PowLimit >= 1
    BY TargetTypes
  <1> QED BY <1>1 DEF Limited, LowerOf, HigherOf

\* The part of a target that an exponent's fraction gives.
BaseOf(exponent) == (InitialTarget * Factor[exponent % Frac]) \div Frac

\* It lies between the initial target and its double, and grows with the
\* fraction.
LEMMA BaseSound ==
  ASSUME NEW e \in Int
  PROVE  /\ BaseOf(e) \in Nat
         /\ InitialTarget <= BaseOf(e) /\ BaseOf(e) <= 2 * InitialTarget
         /\ \A g \in Int : e % Frac <= g % Frac => BaseOf(e) <= BaseOf(g)
  <1> DEFINE I == InitialTarget
  <1>1. /\ I \in Nat /\ Frac \in Nat \ {0} /\ Frac * I \in Nat
        /\ Frac * (2 * I) \in Nat
    BY TargetTypes
  <1>2. ASSUME NEW g \in Int
        PROVE  /\ g % Frac \in 0..(Frac - 1)
               /\ Factor[g % Frac] \in Frac..(2 * Frac - 1)
    <2>1. g % Frac \in 0..(Frac - 1)
      BY <1>1, Euclidean
    <2> QED BY <1>1, <2>1, DifficultyAssumption
  <1>3. PICK f : f = Factor[e % Frac]
    OBVIOUS
  <1>4. f \in Nat /\ Frac <= f /\ f <= 2 * Frac
    <2>1. f \in Frac..(2 * Frac - 1)
      BY <1>2, <1>3
    <2> QED BY <1>1, <2>1
  <1>5. /\ I * Frac <= I * f /\ I * f <= I * (2 * Frac) /\ I * f \in Nat
        /\ I * Frac = Frac * I /\ I * (2 * Frac) = Frac * (2 * I)
    BY <1>1, <1>4, TimesMono
  <1>6. (Frac * I) \div Frac = I /\ (Frac * (2 * I)) \div Frac = 2 * I
    <2>1. ASSUME NEW q \in Nat PROVE (Frac * q) \div Frac = q
      <3>1. Frac * q \in Nat /\ Frac * q <= Frac * q /\ Frac * q < Frac * q + Frac
        BY <1>1
      <3> QED BY <1>1, <3>1, QuotientIs
    <2> QED BY <1>1, <2>1
  <1>7. /\ (I * f) \div Frac \in Int
        /\ I <= (I * f) \div Frac /\ (I * f) \div Frac <= 2 * I
    <2> DEFINE a == I * f
    <2>1. a \in Nat /\ Frac * I <= a /\ a <= Frac * (2 * I)
      BY <1>5
    <2> HIDE DEF a
    <2>2. a \div Frac \in Int
      BY <1>1, <2>1, Euclidean
    <2>3. (Frac * I) \div Frac <= a \div Frac
      BY <1>1, <2>1, QuotientMono
    <2>4. a \div Frac <= (Frac * (2 * I)) \div Frac
      BY <1>1, <2>1, QuotientMono
    <2> QED BY <1>6, <2>2, <2>3, <2>4 DEF a
  <1>8. ASSUME NEW g \in Int, e % Frac <= g % Frac
        PROVE  BaseOf(e) <= BaseOf(g)
    <2>1. PICK h : h = Factor[g % Frac]
      OBVIOUS
    <2>2. f <= h
      <3>1. \A x, y \in 0..(Frac - 1) : x <= y => Factor[x] <= Factor[y]
        BY DifficultyAssumption
      <3>2. e % Frac \in 0..(Frac - 1) /\ g % Frac \in 0..(Frac - 1)
        BY <1>2
      <3> QED BY <1>3, <1>8, <2>1, <3>1, <3>2
    <2>3. h \in Nat
      <3>1. h \in Frac..(2 * Frac - 1)
        BY <1>2, <2>1
      <3> QED BY <1>1, <3>1
    <2>4. I * f <= I * h /\ I * f \in Int /\ I * h \in Int
      BY <1>1, <1>4, <2>2, <2>3, TimesMono
    <2>5. (I * f) \div Frac <= (I * h) \div Frac
      BY <1>1, <2>4, QuotientMono
    <2> QED BY <1>3, <2>1, <2>5 DEF BaseOf
  <1>9. BaseOf(e) = (I * f) \div Frac
    BY <1>3 DEF BaseOf
  <1>10. BaseOf(e) \in Nat /\ I <= BaseOf(e) /\ BaseOf(e) <= 2 * I
    BY <1>1, <1>7, <1>9
  <1> QED BY <1>8, <1>10

\* TargetAfter without the limit on the way.
LEMMA AfterIs ==
  ASSUME NEW e \in Int
  PROVE  /\ e \div Frac \in Int
         /\ TargetAfter(e) = Limited(Unlimited(BaseOf(e), e \div Frac))
         /\ TargetAfter(e) \in 1..PowLimit
         /\ Unlimited(BaseOf(e), e \div Frac) \in Nat
  <1>1. BaseOf(e) \in Nat /\ e \div Frac \in Int
    BY BaseSound, TargetTypes, Euclidean
  <1>2. TargetAfter(e) = Limited(ShiftedBy(BaseOf(e), e \div Frac))
    BY DEF TargetAfter, BaseOf, Limited
  <1>3. BaseOf(e) <= BaseOf(e)
    BY <1>1
  <1> QED BY <1>1, <1>2, <1>3, ShiftLimited, ShiftMono

\* A greater exponent never gives a smaller target.
LEMMA AfterMono ==
  ASSUME NEW e \in Int, NEW g \in Int, e <= g
  PROVE  TargetAfter(e) <= TargetAfter(g)
  <1> DEFINE s == e \div Frac  u == g \div Frac  b == BaseOf(e)  c == BaseOf(g)
  <1>1. /\ s \in Int /\ u \in Int /\ s <= u
        /\ e % Frac = e - Frac * s /\ g % Frac = g - Frac * u
    BY TargetTypes, Euclidean, QuotientMono
  <1>2. b \in Nat /\ c \in Nat /\ b <= 2 * c
    <2>1. /\ b \in Nat /\ c \in Nat /\ InitialTarget \in Nat
          /\ b <= 2 * InitialTarget /\ InitialTarget <= c
      BY BaseSound, TargetTypes
    <2> HIDE DEF b, c
    <2> QED BY <2>1
  <1>3. s = u => b <= c
    <2> SUFFICES ASSUME s = u PROVE b <= c
      OBVIOUS
    <2>1. e % Frac <= g % Frac
      <3>1. Frac * s \in Int
        BY <1>1, TargetTypes
      <3> HIDE DEF s, u
      <3> QED BY <1>1, <3>1
    <2> QED BY <2>1, BaseSound
  <1> HIDE DEF s, u, b, c
  <1>4. Unlimited(b, s) <= Unlimited(c, u)
    <2>1. CASE s = u
      BY <1>1, <1>2, <1>3, <2>1, ShiftMono
    <2>2. CASE s # u
      <3>1. s + 1 \in Int /\ s + 1 <= u /\ 2 * c \in Nat
        BY <1>1, <1>2, <2>2
      <3>2. /\ Unlimited(b, s) \in Nat /\ Unlimited(2 * c, s) \in Nat
            /\ Unlimited(b, s) <= Unlimited(2 * c, s)
        BY <1>1, <1>2, <3>1, ShiftMono
      <3>3. Unlimited(2 * c, s) = Unlimited(c, s + 1)
        BY <1>1, <1>2, ShiftNext
      <3>4. Unlimited(c, s + 1) <= Unlimited(c, u)
        BY <1>1, <1>2, <3>1, ShiftGrows
      <3>5. Unlimited(c, u) \in Nat
        <4>1. c <= c
          BY <1>2
        <4> QED BY <1>1, <1>2, <4>1, ShiftMono
      <3>6. PICK x, y, z : /\ x = Unlimited(b, s) /\ y = Unlimited(2 * c, s)
                           /\ z = Unlimited(c, u)
        OBVIOUS
      <3>7. x \in Nat /\ y \in Nat /\ z \in Nat /\ x <= y /\ y <= z
        BY <3>2, <3>3, <3>4, <3>5, <3>6
      <3>8. x <= z
        BY <3>7
      <3> QED BY <3>6, <3>8
    <2> QED BY <2>1, <2>2
  <1>5. Unlimited(b, s) \in Nat /\ Unlimited(c, u) \in Nat
    BY AfterIs DEF b, s, c, u
  <1>6. /\ TargetAfter(e) = Limited(Unlimited(b, s))
        /\ TargetAfter(g) = Limited(Unlimited(c, u))
    BY AfterIs DEF b, s, c, u
  <1> QED BY <1>4, <1>5, <1>6, LimitedMono

\* The steps of one doubling double the target.
LEMMA AfterDouble ==
  ASSUME NEW e \in Int
  PROVE  LET t == TargetAfter(e)  twice == TargetAfter(e + Frac)
         IN  /\ twice <= 2 * t + 1
             /\ t > 1 => twice >= LowerOf(2 * t, PowLimit)
  <1> DEFINE s == e \div Frac  b == BaseOf(e)  n == e + Frac
             x == Unlimited(b, s)  y == Unlimited(2 * b, s)
  <1>1. /\ Frac \in Nat \ {0} /\ n \in Int /\ s \in Int
        /\ Frac * s <= e /\ e < Frac * s + Frac /\ e % Frac = e - Frac * s
    BY TargetTypes, Euclidean
  <1>2. n \div Frac = s + 1 /\ n % Frac = e % Frac
    <2> HIDE DEF s
    <2>1. Frac * (s + 1) = Frac * s + Frac /\ Frac * s \in Int
      BY <1>1
    <2>2. Frac * (s + 1) <= n /\ n < Frac * (s + 1) + Frac
      BY <1>1, <2>1
    <2> HIDE DEF n
    <2>3. n \div Frac = s + 1
      BY <1>1, <2>2, QuotientIs
    <2>4. n % Frac = n - Frac * (n \div Frac)
      BY <1>1, Euclidean
    <2>5. n % Frac = (e + Frac) - (Frac * s + Frac)
      BY <2>1, <2>3, <2>4 DEF n
    <2> QED BY <1>1, <2>1, <2>3, <2>5
  <1>3. BaseOf(n) = b
    BY <1>2 DEF BaseOf
  <1>4. b \in Nat /\ x \in Nat
    BY BaseSound, AfterIs
  <1>5. y = Unlimited(b, s + 1)
    BY <1>1, <1>4, ShiftNext
  <1>6. /\ TargetAfter(e) = Limited(x)
        /\ TargetAfter(n) = Limited(y) /\ y \in Nat
    BY <1>1, <1>2, <1>3, <1>5, AfterIs
  <1>7. 2 * x <= y /\ y <= 2 * x + 1
    BY <1>1, <1>4, ShiftDouble
  <1> HIDE DEF x, y
  <1>8. /\ Limited(y) <= 2 * Limited(x) + 1
        /\ Limited(x) > 1 => Limited(y) >= LowerOf(2 * Limited(x), PowLimit)
    BY <1>4, <1>6, <1>7, LimitedMono
  <1> QED BY <1>6, <1>8 DEF n

\* Exponents follow the drift, one doubling for each half-life.
LEMMA ExponentSound ==
  ASSUME NEW d \in Int
  PROVE  /\ Exponent(d) \in Int
         /\ \A g \in Int : d <= g => Exponent(d) <= Exponent(g)
         /\ Exponent(d + HalfLife) = Exponent(d) + Frac
  <1>1. Frac \in Nat \ {0} /\ HalfLife \in Nat \ {0} /\ d * Frac \in Int
    BY TargetTypes
  <1>2. Exponent(d) \in Int
    BY <1>1, Euclidean DEF Exponent
  <1>3. ASSUME NEW g \in Int, d <= g PROVE Exponent(d) <= Exponent(g)
    <2>1. Frac * d <= Frac * g
      BY <1>1, <1>3, TimesMono
    <2>2. d * Frac <= g * Frac /\ g * Frac \in Int
      BY <1>1, <2>1
    <2> QED BY <1>1, <2>2, QuotientMono DEF Exponent
  <1>4. Exponent(d + HalfLife) = Exponent(d) + Frac
    <2> DEFINE a == d * Frac  q == a \div HalfLife  H == HalfLife * Frac
    <2>1. q \in Int /\ HalfLife * q <= a /\ a < HalfLife * q + HalfLife
      BY <1>1, Euclidean
    <2>2. (d + HalfLife) * Frac = a + H /\ H \in Int
      BY <1>1
    <2> HIDE DEF q, a
    <2>3. HalfLife * (q + Frac) = HalfLife * q + H /\ HalfLife * q \in Int
      BY <1>1, <2>1
    <2> HIDE DEF H
    <2>4. /\ a + H \in Int /\ q + Frac \in Int
          /\ HalfLife * (q + Frac) <= a + H
          /\ a + H < HalfLife * (q + Frac) + HalfLife
      BY <1>1, <2>1, <2>2, <2>3 DEF a
    <2>5. (a + H) \div HalfLife = q + Frac
      BY <1>1, <2>4, QuotientIs
    <2> QED BY <2>2, <2>5 DEF Exponent, q, a
  <1> QED BY <1>2, <1>3, <1>4
-----------------------------------------------------------------------------
(* The compact form.                                                       *)

\* The digits that n takes beyond the leading one count.
LEMMA DigitsGrow ==
  ASSUME NEW n \in Nat, NEW k \in Nat, n <= k
  PROVE  Power(Radix, n) <= Power(Radix, k)
  <1> DEFINE p(i) == Power(Radix, i)
             Bad == {i \in Nat : ~(p(n) <= p(n + i))}
  <1>1. Radix \in Nat \ {0} /\ Radix >= 2
    BY DifficultyAssumption
  <1>2. \A i \in Nat : p(i) \in Nat \ {0} /\ p(i) <= p(i + 1)
    <2> SUFFICES ASSUME NEW i \in Nat
                 PROVE  p(i) \in Nat \ {0} /\ p(i) <= p(i + 1)
      OBVIOUS
    <2>1. p(i) \in Nat \ {0} /\ p(i + 1) = Radix * p(i)
      BY <1>1, PowerSteps
    <2> HIDE DEF p
    <2>2. p(i) * 1 <= p(i) * Radix
      BY <1>1, <2>1, TimesMono
    <2> QED BY <1>1, <2>1, <2>2
  <1> HIDE DEF p
  <1>3. Bad = {}
    <2> SUFFICES ASSUME Bad # {} PROVE FALSE
      OBVIOUS
    <2>1. PICK i \in Bad : \A j \in Bad : i <= j
      <3>1. Bad \in SUBSET Nat
        OBVIOUS
      <3> HIDE DEF Bad
      <3> QED BY <3>1, LeastNumber
    <2>2. i \in Nat /\ ~(p(n) <= p(n + i))
      BY <2>1
    <2>3. i # 0
      <3>1. n + 0 = n /\ p(n) \in Nat
        BY <1>2
      <3> QED BY <2>2, <3>1
    <2>4. /\ i - 1 \in Nat /\ ~(i <= i - 1) /\ n + (i - 1) \in Nat
          /\ (n + (i - 1)) + 1 = n + i
      BY <2>2, <2>3
    <2>5. p(n) <= p(n + (i - 1)) /\ p(n + (i - 1)) <= p(n + i)
      BY <1>2, <2>1, <2>4
    <2>6. p(n) \in Nat /\ p(n + (i - 1)) \in Nat /\ p(n + i) \in Nat
      BY <1>2, <2>2, <2>4
    <2> QED BY <2>2, <2>5, <2>6
  <1>4. k - n \in Nat /\ n + (k - n) = k
    OBVIOUS
  <1>5. p(n) <= p(n + (k - n))
    BY <1>3, <1>4
  <1> QED BY <1>4, <1>5 DEF p

\* Every positive number below the greatest target has a digit count.
LEMMA SizeFound ==
  ASSUME NEW t \in 1..MaxTarget
  PROVE  /\ SizeOf(t) \in 1..Digits
         /\ Power(Radix, SizeOf(t) - 1) <= t /\ t < Power(Radix, SizeOf(t))
  <1> DEFINE p(i) == Power(Radix, i)
             Above == {n \in Nat : t < p(n)}
  <1>1. Radix \in Nat \ {0} /\ Digits \in Nat
    BY DifficultyAssumption
  <1>2. p(0) = 1 /\ \A i \in Nat : p(i) \in Nat \ {0}
    BY <1>1, PowerSteps
  <1>3. MaxTarget = p(Digits) - 1
    BY DEF MaxTarget
  <1>4. MaxTarget \in Nat
    BY TargetTypes
  <1> HIDE DEF p
  <1>5. t \in Nat \ {0} /\ t < p(Digits)
    BY <1>1, <1>2, <1>3, <1>4
  <1>6. PICK n \in Above : \A j \in Above : n <= j
    <2>1. Above \in SUBSET Nat /\ Above # {}
      BY <1>1, <1>5
    <2> HIDE DEF Above
    <2> QED BY <2>1, LeastNumber
  <1>7. n \in Nat /\ t < p(n) /\ n <= Digits /\ n # 0
    BY <1>1, <1>2, <1>5, <1>6
  <1>8. n \in 1..Digits /\ n - 1 \in Nat /\ ~(n <= n - 1)
    BY <1>1, <1>7
  <1>9. p(n - 1) <= t
    BY <1>2, <1>5, <1>6, <1>8
  <1>10. \E k \in 1..Digits : p(k - 1) <= t /\ t < p(k)
    BY <1>7, <1>8, <1>9
  <1> QED BY <1>10 DEF SizeOf, p

\* The size of the compact form of t is the digit count of its double.
SizeFits(t, s) ==
  /\ s \in 1..(Digits + 1)
  /\ Power(Radix, s - 1) <= 2 * t /\ 2 * t < Power(Radix, s)

\* Both branches of target_to_bits: whatever has that size is the size.
LEMMA CompactIs ==
  ASSUME NEW t \in 1..MaxTarget
  PROVE  /\ \E s : SizeFits(t, s)
         /\ \A s : SizeFits(t, s) =>
              TargetToBits(t) = [size |-> s, word |-> Leading(t, s)]
  <1> DEFINE p(i) == Power(Radix, i)
             n == SizeOf(t)
             size == IF 2 * t >= p(n) THEN n + 1 ELSE n
  <1>1. Radix \in Nat \ {0} /\ Radix >= 2 /\ Digits \in Nat
    BY DifficultyAssumption
  <1>2. \A i \in Nat : p(i) \in Nat \ {0} /\ p(i + 1) = Radix * p(i)
    BY <1>1, PowerSteps
  <1>3. \A i, j \in Nat : i <= j => p(i) <= p(j)
    BY DigitsGrow
  <1>4. n \in 1..Digits /\ p(n - 1) <= t /\ t < p(n)
    BY SizeFound
  <1>5. t \in Nat \ {0}
    BY TargetTypes
  <1>6. TargetToBits(t) = [size |-> size, word |-> Leading(t, size)]
    BY <1>5 DEF TargetToBits
  <1> HIDE DEF p, n
  <1>7. n \in Nat /\ n - 1 \in Nat /\ (n + 1) - 1 = n
    BY <1>1, <1>4
  <1>8. size \in 1..(Digits + 1) /\ p(size - 1) <= 2 * t /\ 2 * t < p(size)
    <2>1. CASE 2 * t >= p(n)
      <3>2. p(n) \in Nat /\ p(n + 1) = Radix * p(n)
        BY <1>2, <1>7
      <3>1. p(n) * 2 <= p(n) * Radix
        BY <1>1, <3>2, TimesMono
      <3>3. 2 * t < p(n + 1)
        BY <1>1, <1>4, <1>5, <3>1, <3>2
      <3>4. size = n + 1 /\ n + 1 \in 1..(Digits + 1)
        BY <1>1, <1>4, <2>1
      <3> QED BY <1>7, <2>1, <3>3, <3>4
    <2>2. CASE ~(2 * t >= p(n))
      <3>1. p(n) \in Nat /\ p(n - 1) \in Nat
        BY <1>2, <1>7
      <3>2. size = n /\ n \in 1..(Digits + 1)
        BY <1>1, <1>4, <2>2
      <3>3. p(n - 1) <= 2 * t /\ 2 * t < p(n)
        BY <1>4, <1>5, <2>2, <3>1
      <3> QED BY <3>2, <3>3
    <2> QED BY <2>1, <2>2
  <1> HIDE DEF size
  <1>9. SizeFits(t, size)
    BY <1>8 DEF SizeFits, p
  <1>10. ASSUME NEW s, SizeFits(t, s) PROVE s = size
    <2>1. s \in 1..(Digits + 1) /\ p(s - 1) <= 2 * t /\ 2 * t < p(s)
      BY <1>10 DEF SizeFits, p
    <2>2. s \in Nat /\ s - 1 \in Nat /\ size \in Nat /\ size - 1 \in Nat
      BY <1>1, <1>8, <2>1
    <2>3. /\ p(s) \in Nat /\ p(size) \in Nat
          /\ p(s - 1) \in Nat /\ p(size - 1) \in Nat
      BY <1>2, <2>2
    <2>4. ~(s < size)
      <3> SUFFICES ASSUME s < size PROVE FALSE
        OBVIOUS
      <3>1. s <= size - 1
        BY <2>2
      <3>2. p(s) <= p(size - 1)
        BY <1>3, <2>2, <3>1
      <3> QED BY <1>5, <1>8, <2>1, <2>3, <3>2
    <2>5. ~(size < s)
      <3> SUFFICES ASSUME size < s PROVE FALSE
        OBVIOUS
      <3>1. size <= s - 1
        BY <2>2
      <3>2. p(size) <= p(s - 1)
        BY <1>3, <2>2, <3>1
      <3> QED BY <1>5, <1>8, <2>1, <2>3, <3>2
    <2> QED BY <2>2, <2>4, <2>5
  <1> QED BY <1>6, <1>9, <1>10
\* What the last digit of a compact form of size s counts.
UnitOf(s) == IF s <= 3 THEN 1 ELSE Power(Radix, s - 3)

\* Small powers, and how a unit divides the powers around its size.
LEMMA UnitSplits ==
  ASSUME NEW s \in Nat \ {0}
  PROVE  /\ UnitOf(s) \in Nat \ {0}
         /\ Power(Radix, 3) \in Nat \ {0} /\ Power(Radix, 2) \in Nat \ {0}
         /\ s >= 3 => /\ UnitOf(s) = Power(Radix, s - 3)
                      /\ Power(Radix, s) = UnitOf(s) * Power(Radix, 3)
                      /\ Power(Radix, s - 1) = UnitOf(s) * Power(Radix, 2)
         /\ s < 3 => /\ Power(Radix, 3 - s) \in Nat \ {0}
                     /\ Power(Radix, 3) = Power(Radix, s) * Power(Radix, 3 - s)
         /\ Power(Radix, 2) = 2 * (Radix * (Radix \div 2))
  <1> DEFINE p(i) == Power(Radix, i)
  <1>1. Radix \in Nat \ {0} /\ Radix % 2 = 0
    BY DifficultyAssumption
  <1>2. p(0) = 1 /\ \A i \in Nat : p(i) \in Nat \ {0} /\ p(i + 1) = Radix * p(i)
    BY <1>1, PowerSteps
  <1> HIDE DEF p
  <1>3. p(1) = Radix /\ p(2) = Radix * Radix /\ p(3) = Radix * (Radix * Radix)
    <2>1. p(0 + 1) = Radix * p(0) /\ p(1 + 1) = Radix * p(1)
          /\ p(2 + 1) = Radix * p(2)
      BY <1>2
    <2>2. Radix * 1 = Radix
      BY <1>1
    <2> QED BY <1>2, <2>1, <2>2
  <1>4. UnitOf(s) \in Nat \ {0}
    <2>1. CASE s <= 3
      BY <2>1 DEF UnitOf
    <2>2. CASE ~(s <= 3)
      <3>1. s - 3 \in Nat
        BY <2>2
      <3>2. p(s - 3) \in Nat \ {0}
        BY <1>2, <3>1
      <3> QED BY <2>2, <3>2 DEF UnitOf, p
    <2> QED BY <2>1, <2>2
  <1>5. ASSUME s >= 3
        PROVE  /\ UnitOf(s) = p(s - 3) /\ p(s) = UnitOf(s) * p(3)
               /\ p(s - 1) = UnitOf(s) * p(2)
    <2> DEFINE k == s - 3  u == p(k)
    <2>1. k \in Nat /\ k + 1 \in Nat /\ k + 2 \in Nat
          /\ (k + 1) + 1 = k + 2 /\ (k + 2) + 1 = s /\ k + 2 = s - 1
      BY <1>5
    <2>2. UnitOf(s) = u
      <3>1. CASE s = 3
        BY <1>2, <3>1 DEF UnitOf
      <3>2. CASE s # 3
        <4>1. ~(s <= 3)
          BY <1>5, <3>2
        <4> QED BY <4>1 DEF UnitOf, p
      <3> QED BY <3>1, <3>2
    <2> HIDE DEF k
    <2>3. /\ u \in Nat /\ p(k + 1) = Radix * u
          /\ p(k + 2) = Radix * p(k + 1) /\ p(s) = Radix * p(k + 2)
      BY <1>2, <2>1
    <2> HIDE DEF u
    <2>4. /\ Radix * (Radix * u) = u * (Radix * Radix)
          /\ Radix * (Radix * (Radix * u)) = u * (Radix * (Radix * Radix))
      BY <1>1, <2>3
    <2>5. p(s - 1) = u * p(2) /\ p(s) = u * p(3)
      BY <1>3, <2>1, <2>3, <2>4
    <2> QED BY <2>2, <2>5 DEF u, k
  <1>6. ASSUME s < 3 PROVE p(3 - s) \in Nat \ {0} /\ p(3) = p(s) * p(3 - s)
    <2>1. s = 1 \/ s = 2
      BY <1>6
    <2>2. p(3 - s) \in Nat \ {0}
      <3>1. 3 - s \in Nat
        BY <1>6
      <3> QED BY <1>2, <3>1
    <2>3. CASE s = 1
      <3>1. p(3) = p(1) * p(2) /\ 3 - s = 2
        BY <1>3, <2>3
      <3> QED BY <2>2, <2>3, <3>1
    <2>4. CASE s = 2
      <3>1. Radix * (Radix * Radix) = (Radix * Radix) * Radix /\ 3 - s = 1
        BY <1>1, <2>4
      <3>2. p(3) = p(2) * p(1)
        BY <1>3, <3>1
      <3> QED BY <2>2, <2>4, <3>1, <3>2
    <2> QED BY <2>1, <2>3, <2>4
  <1>7. p(2) = 2 * (Radix * (Radix \div 2))
    <2> DEFINE h == Radix \div 2
    <2>1. h \in Int /\ Radix = 2 * h
      <3>1. 2 \in Nat \ {0} /\ Radix \in Int
        BY <1>1
      <3>2. h \in Int /\ Radix % 2 = Radix - 2 * h
        BY <3>1, Euclidean
      <3> HIDE DEF h
      <3> QED BY <1>1, <3>2
    <2> HIDE DEF h
    <2>2. Radix * (2 * h) = 2 * (Radix * h)
      BY <1>1, <2>1
    <2>3. Radix * Radix = 2 * (Radix * h)
      BY <2>1, <2>2
    <2> QED BY <1>3, <2>3 DEF h
  <1> QED BY <1>2, <1>4, <1>5, <1>6, <1>7 DEF p

\* The digits of a target that its compact form of size s keeps.
Rounded(t, s) == UnitOf(s) * (t \div UnitOf(s))

\* The leading digits in terms of the unit.
LEMMA LeadingIs ==
  ASSUME NEW t \in Nat, NEW s \in Nat \ {0}
  PROVE  /\ Leading(t, s) = IF s >= 3 THEN t \div UnitOf(s)
                                      ELSE t * Power(Radix, 3 - s)
         /\ Leading(t, s) \in Nat
         /\ Padded([size |-> s, word |-> Leading(t, s)]) = Rounded(t, s)
         /\ Rounded(t, s) \in Nat /\ Rounded(t, s) <= t /\ t < Rounded(t, s) + UnitOf(s)
         /\ s <= 3 => Rounded(t, s) = t
  <1> DEFINE u == UnitOf(s)  q == t \div u  b == Power(Radix, 3 - s)
             w == Leading(t, s)
  <1>1. u \in Nat \ {0} /\ (s >= 3 => u = Power(Radix, s - 3))
        /\ (s < 3 => b \in Nat \ {0}) /\ (s <= 3 => u = 1)
    BY UnitSplits DEF UnitOf
  <1> HIDE DEF u
  <1>2. q \in Nat /\ u * q <= t /\ t < u * q + u /\ u * q \in Nat
    <2>1. q \in Int /\ u * q <= t /\ t < u * q + u /\ (t >= 0 => q >= 0)
      <3>1. t \in Int
        OBVIOUS
      <3> QED BY <1>1, <3>1, Euclidean
    <2> HIDE DEF q
    <2>2. q \in Nat
      BY <2>1
    <2>3. u * q \in Nat
      BY <1>1, <2>2
    <2> QED BY <2>1, <2>2, <2>3
  <1>3. u = 1 => q = t /\ u * q = t
    <2> SUFFICES ASSUME u = 1 PROVE q = t /\ u * q = t
      OBVIOUS
    <2> HIDE DEF q
    <2>1. 1 * q = q
      BY <1>2
    <2> QED BY <1>2, <2>1
  <1>4. w = IF s >= 3 THEN q ELSE t * b
    BY <1>1 DEF Leading
  <1> HIDE DEF q, b, w
  <1>5. s < 3 => t * b \in Nat /\ (t * b) \div b = t
    <2> SUFFICES ASSUME s < 3 PROVE t * b \in Nat /\ (t * b) \div b = t
      OBVIOUS
    <2>1. t * b \in Nat /\ b * t = t * b
      BY <1>1
    <2>2. b * t <= t * b /\ t * b < b * t + b
      BY <1>1, <2>1
    <2> QED BY <1>1, <2>1, <2>2, QuotientIs
  <1>6. w \in Nat
    BY <1>2, <1>4, <1>5
  <1>7. Padded([size |-> s, word |-> w]) = u * q
    <2> DEFINE bits == [size |-> s, word |-> w]
    <2>1. bits.size = s /\ bits.word = w
      OBVIOUS
    <2> HIDE DEF bits
    <2>2. CASE s < 3
      <3>1. s <= 3 /\ ~(s >= 3)
        BY <2>2
      <3>2. Padded(bits) = w \div b
        BY <2>1, <3>1 DEF Padded, b
      <3> QED BY <1>1, <1>3, <1>4, <1>5, <2>2, <3>1, <3>2 DEF bits
    <2>3. CASE s = 3
      <3>1. 3 - s = 0 /\ Power(Radix, 0) = 1
        <4>1. Radix \in Nat \ {0}
          BY DifficultyAssumption
        <4> QED BY <2>3, <4>1, PowerSteps
      <3>2. Padded(bits) = w \div 1
        BY <2>1, <2>3, <3>1 DEF Padded
      <3>3. w = t /\ w \div 1 = w
        BY <1>1, <1>3, <1>4, <1>6, <2>3
      <3> QED BY <1>1, <1>3, <2>3, <3>2, <3>3 DEF bits
    <2>4. CASE s > 3
      <3>1. ~(s <= 3) /\ s >= 3
        BY <2>4
      <3>2. Padded(bits) = w * u
        BY <1>1, <2>1, <3>1 DEF Padded
      <3>3. q * u = u * q
        BY <1>1, <1>2
      <3> QED BY <1>4, <3>1, <3>2, <3>3 DEF bits
    <2> QED BY <2>2, <2>3, <2>4
  <1>8. Rounded(t, s) = u * q
    BY DEF Rounded, u, q
  <1> QED BY <1>1, <1>2, <1>3, <1>4, <1>6, <1>7, <1>8 DEF w, u, q, b
\* What the compact form keeps of a target has the same compact form, and so
\* has every target between the two; it is one that bits_to_target accepts.
LEMMA CompactKept ==
  ASSUME NEW t \in 1..MaxTarget, NEW s, SizeFits(t, s)
  PROVE  /\ Rounded(t, s) \in 1..t
         /\ \A r \in Rounded(t, s)..t : TargetToBits(r) = TargetToBits(t)
         /\ LET w == Leading(t, s)
            IN  /\ w \in Nat \ {0} /\ 2 * w < Power(Radix, 3)
                /\ s = Digits + 1 => w < Power(Radix, 2)
  <1> DEFINE u == UnitOf(s)  q == t \div u  w == Leading(t, s)
             p2 == Power(Radix, 2)  p3 == Power(Radix, 3)
             ps == Power(Radix, s)  pl == Power(Radix, s - 1)
             b == Power(Radix, 3 - s)  back == Rounded(t, s)
  <1>1. Digits \in Nat /\ Digits > 2 /\ t \in Nat \ {0} /\ Radix \in Nat \ {0}
    BY TargetTypes, DifficultyAssumption
  <1>2. /\ s \in 1..(Digits + 1) /\ s \in Nat \ {0} /\ s - 1 \in Nat
        /\ pl <= 2 * t /\ 2 * t < ps
    BY <1>1 DEF SizeFits
  <1>3. pl \in Nat \ {0} /\ ps \in Nat \ {0}
    BY <1>1, <1>2, PowerSteps
  <1>4. /\ u \in Nat \ {0} /\ p3 \in Nat \ {0} /\ p2 \in Nat \ {0}
        /\ s >= 3 => ps = u * p3 /\ pl = u * p2
        /\ s < 3 => b \in Nat \ {0} /\ p3 = ps * b
        /\ p2 = 2 * (Radix * (Radix \div 2))
    BY <1>2, UnitSplits
  <1>5. /\ w = IF s >= 3 THEN q ELSE t * b
        /\ w \in Nat /\ back \in Nat /\ back <= t /\ t < back + u
        /\ s <= 3 => back = t
    BY <1>1, <1>2, LeadingIs
  <1>6. back = u * q
    BY DEF Rounded
  <1>7. q \in Nat
    <2>1. t \in Int /\ t >= 0
      BY <1>1
    <2>2. q \in Int /\ q >= 0
      BY <1>4, <2>1, Euclidean
    <2> HIDE DEF q
    <2> QED BY <2>2
  <1> HIDE DEF u, q, w, p2, p3, ps, pl, b, back
  <1>8. pl <= 2 * back
    <2>1. CASE s <= 3
      BY <1>2, <1>5, <2>1
    <2>2. CASE ~(s <= 3)
      <3> DEFINE h == Radix \div 2  e == Radix * h
      <3>1. h \in Int
        <4>1. 2 \in Nat \ {0} /\ Radix \in Int
          BY <1>1
        <4> QED BY <4>1, Euclidean
      <3> HIDE DEF h
      <3>2. e \in Int /\ p2 = 2 * e
        BY <1>1, <1>4, <3>1 DEF h
      <3> HIDE DEF e
      <3>3. u * (2 * e) = 2 * (u * e) /\ u * e \in Int
        BY <1>4, <3>2
      <3>4. pl = 2 * (u * e)
        BY <1>2, <1>4, <2>2, <3>2, <3>3
      <3>5. u * e <= t
        BY <1>1, <1>2, <3>3, <3>4
      <3>6. ~(q < e)
        <4> SUFFICES ASSUME q < e PROVE FALSE
          OBVIOUS
        <4>1. u * (q + 1) <= u * e
          BY <1>4, <1>7, <3>2, TimesMono
        <4>2. u * (q + 1) = u * q + u /\ u * q \in Nat
          BY <1>4, <1>7
        <4> QED BY <1>1, <1>4, <1>5, <1>6, <3>3, <3>5, <4>1, <4>2
      <3>7. u * e <= u * q
        BY <1>4, <1>7, <3>2, <3>6, TimesMono
      <3>8. u * q \in Nat
        BY <1>4, <1>7
      <3> QED BY <1>6, <3>3, <3>4, <3>7, <3>8
    <2> QED BY <2>1, <2>2
  <1>9. back \in 1..t
    BY <1>1, <1>3, <1>5, <1>8
  <1>10. ASSUME NEW r \in back..t PROVE TargetToBits(r) = TargetToBits(t)
    <2>1. r \in Nat \ {0} /\ back <= r /\ r <= t
      BY <1>1, <1>5, <1>9
    <2>2. r \in 1..MaxTarget
      BY <1>1, <2>1, TargetTypes
    <2>3. pl <= 2 * r /\ 2 * r < ps
      BY <1>1, <1>2, <1>3, <1>5, <1>8, <2>1
    <2>4. SizeFits(r, s)
      BY <1>2, <2>3 DEF SizeFits, pl, ps
    <2>5. Leading(r, s) = Leading(t, s)
      <3>1. Leading(r, s) = IF s >= 3 THEN r \div u ELSE r * b
        BY <1>2, <2>1, LeadingIs DEF u, b
      <3>2. CASE s >= 3
        <4>1. u * q <= r /\ r < u * q + u
          <5>1. u * q \in Nat
            BY <1>4, <1>7
          <5> QED BY <1>1, <1>4, <1>5, <1>6, <2>1, <5>1
        <4>2. r \div u = q
          BY <1>4, <1>7, <2>1, <4>1, QuotientIs
        <4> QED BY <1>5, <3>1, <3>2, <4>2 DEF w
      <3>3. CASE ~(s >= 3)
        <4>1. r = t
          BY <1>1, <1>2, <1>5, <2>1, <3>3
        <4> QED BY <4>1
      <3> QED BY <3>2, <3>3
    <2>6. /\ TargetToBits(r) = [size |-> s, word |-> Leading(r, s)]
          /\ TargetToBits(t) = [size |-> s, word |-> Leading(t, s)]
      BY <2>2, <2>4, CompactIs
    <2> QED BY <2>5, <2>6
  <1>11. w \in Nat \ {0} /\ 2 * w < p3
    <2>1. CASE s >= 3
      <3>1. w = q
        BY <1>5, <2>1
      <3>2. q # 0
        <4>1. u * 0 = 0
          BY <1>4
        <4> QED BY <1>6, <1>9, <1>1, <4>1
      <3>3. ~(p3 <= 2 * q)
        <4> SUFFICES ASSUME p3 <= 2 * q PROVE FALSE
          OBVIOUS
        <4>1. u * p3 <= u * (2 * q)
          BY <1>4, <1>7, TimesMono
        <4>2. u * (2 * q) = 2 * (u * q) /\ u * q \in Nat /\ u * p3 \in Nat
          BY <1>4, <1>7
        <4>3. u * p3 = ps
          BY <1>4, <2>1
        <4> QED BY <1>1, <1>2, <1>5, <1>6, <4>1, <4>2, <4>3
      <3> QED BY <1>4, <1>7, <3>1, <3>2, <3>3
    <2>2. CASE ~(s >= 3)
      <3>1. w = t * b /\ b \in Nat \ {0} /\ p3 = ps * b /\ s < 3
        BY <1>2, <1>4, <1>5, <2>2
      <3>2. b * 1 <= b * t /\ b * (2 * t + 1) <= b * ps
        BY <1>1, <1>2, <1>3, <3>1, TimesMono
      <3>3. /\ b * 1 = b /\ b * t = t * b /\ b * ps = ps * b
            /\ b * (2 * t + 1) = 2 * (t * b) + b /\ t * b \in Nat
            /\ ps * b \in Nat
        BY <1>1, <1>3, <3>1
      <3> QED BY <3>1, <3>2, <3>3
    <2> QED BY <2>1, <2>2
  <1>12. s = Digits + 1 => w < p2
    <2> SUFFICES ASSUME s = Digits + 1 PROVE w < p2
      OBVIOUS
    <2>1. s >= 3 /\ s - 1 = Digits
      BY <1>1
    <2>2. w = q /\ pl = u * p2
      BY <1>4, <1>5, <2>1
    <2>3. t < pl
      <3>1. MaxTarget = pl - 1
        BY <2>1 DEF MaxTarget, pl
      <3> QED BY <1>1, <1>3, <3>1
    <2>4. ~(p2 <= q)
      <3> SUFFICES ASSUME p2 <= q PROVE FALSE
        OBVIOUS
      <3>1. u * p2 <= u * q
        BY <1>4, <1>7, TimesMono
      <3>2. u * p2 \in Nat /\ u * q \in Nat
        BY <1>4, <1>7
      <3> QED BY <1>1, <1>5, <1>6, <2>2, <2>3, <3>1, <3>2
    <2> QED BY <1>4, <1>7, <2>2, <2>4
  <1> QED BY <1>9, <1>10, <1>11, <1>12 DEF w, p2, p3, back

\* bits_to_target after target_to_bits.
LEMMA CompactBack ==
  ASSUME NEW t \in 1..MaxTarget
  PROVE  LET bits == TargetToBits(t)  back == BitsToTarget(bits)
         IN  /\ bits \in [size : 0..(Digits + 2), word : 0..Power(Radix, 3)]
             /\ back \in 1..t /\ back \in Representable
             /\ \A r \in back..t : TargetToBits(r) = bits
  <1> DEFINE bits == TargetToBits(t)
  <1>1. PICK s : SizeFits(t, s)
    BY CompactIs
  <1> DEFINE w == Leading(t, s)  kept == Rounded(t, s)
  <1>2. bits = [size |-> s, word |-> w]
    BY <1>1, CompactIs
  <1>3. /\ kept \in 1..t
        /\ \A r \in kept..t : TargetToBits(r) = bits
        /\ w \in Nat \ {0} /\ 2 * w < Power(Radix, 3)
        /\ s = Digits + 1 => w < Power(Radix, 2)
    BY <1>1, CompactKept
  <1>4. Digits \in Nat /\ t \in Nat \ {0} /\ s \in 1..(Digits + 1) /\ s \in Nat \ {0}
    BY <1>1, TargetTypes, DifficultyAssumption DEF SizeFits
  <1>5. Power(Radix, 3) \in Nat /\ Power(Radix, 2) \in Nat
    BY <1>4, UnitSplits
  <1>6. Padded(bits) = kept
    BY <1>2, <1>4, LeadingIs
  <1> HIDE DEF bits, w, kept
  <1>7. bits.size = s /\ bits.word = w
    BY <1>2
  <1>8. TargetToBits(kept) = bits
    <2>1. kept \in kept..t
      BY <1>3, <1>4
    <2> QED BY <1>3, <2>1
  <1>9. BitsToTarget(bits) = kept
    <2>1. /\ ~(w = 0) /\ ~(2 * w >= Power(Radix, 3)) /\ ~(s = 0)
          /\ ~(s > Digits + 1) /\ ~(s = Digits + 1 /\ w >= Power(Radix, 2))
      BY <1>3, <1>4, <1>5
    <2> QED BY <1>6, <1>7, <1>8, <2>1 DEF BitsToTarget
  <1>10. bits \in [size : 0..(Digits + 2), word : 0..Power(Radix, 3)]
    <2>1. s \in 0..(Digits + 2) /\ w \in 0..Power(Radix, 3)
      BY <1>3, <1>4, <1>5
    <2> QED BY <1>2, <2>1
  <1>11. kept # Invalid
    BY <1>3, <1>4, DifficultyAssumption
  <1>12. kept \in Representable
    BY <1>9, <1>10, <1>11 DEF Representable
  <1> QED BY <1>3, <1>9, <1>10, <1>12 DEF bits

\* What is decoded is a number, and encodes again to the same bits.
LEMMA RepresentableBack ==
  ASSUME NEW r \in Representable
  PROVE  r \in Nat /\ BitsToTarget(TargetToBits(r)) = r
  <1>1. PICK bits \in [size : 0..(Digits + 2), word : 0..Power(Radix, 3)] :
          r = BitsToTarget(bits) /\ r # Invalid
    BY DEF Representable
  <1>2. r = Padded(bits) /\ TargetToBits(r) = bits /\ bits.size # 0
    BY <1>1 DEF BitsToTarget
  <1>3. /\ Digits \in Nat /\ Radix \in Nat \ {0} /\ Power(Radix, 3) \in Nat
        /\ bits.size \in Nat /\ bits.word \in Nat
    <2>1. Digits \in Nat /\ Radix \in Nat \ {0}
      BY DifficultyAssumption
    <2>2. Power(Radix, 3) \in Nat
      BY <2>1, PowerSteps
    <2>3. bits.size \in 0..(Digits + 2) /\ bits.word \in 0..Power(Radix, 3)
      BY <1>1
    <2> QED BY <2>1, <2>2, <2>3
  <1>4. Padded(bits) \in Nat
    <2>1. CASE bits.size <= 3
      <3> DEFINE p == Power(Radix, 3 - bits.size)  q == bits.word \div p
      <3>1. p \in Nat \ {0}
        <4>1. 3 - bits.size \in Nat
          BY <1>3, <2>1
        <4> QED BY <1>3, <4>1, PowerSteps
      <3> HIDE DEF p
      <3>2. bits.word \in Int /\ bits.word >= 0
        BY <1>3
      <3>3. q \in Int /\ q >= 0
        BY <3>1, <3>2, Euclidean
      <3> HIDE DEF q
      <3>4. q \in Nat
        BY <3>3
      <3> QED BY <2>1, <3>4 DEF Padded, p, q
    <2>2. CASE ~(bits.size <= 3)
      <3> DEFINE p == Power(Radix, bits.size - 3)
      <3>1. p \in Nat \ {0}
        <4>1. bits.size - 3 \in Nat
          BY <1>3, <2>2
        <4> QED BY <1>3, <4>1, PowerSteps
      <3> HIDE DEF p
      <3>2. bits.word * p \in Nat
        BY <1>3, <3>1
      <3> QED BY <2>2, <3>2 DEF Padded, p
    <2> QED BY <2>1, <2>2
  <1> QED BY <1>1, <1>2, <1>4
-----------------------------------------------------------------------------
(* What the arithmetic run checks, for every target and every parent.      *)

\* target_work: the division that stays inside the width of the target.
LEMMA WorkIs ==
  ASSUME NEW t \in 1..MaxTarget
  PROVE  TargetWork(t) = (MaxTarget + 1) \div (t + 1)
  <1> DEFINE m == MaxTarget  b == t + 1
  <1>1. m \in Nat /\ t \in Nat \ {0} /\ t <= m
    BY TargetTypes
  <1>2. b \in Nat \ {0} /\ m + 1 \in Int /\ m - t \in Int
    BY <1>1
  <1>3. CASE t = m
    <2>1. b * 1 = b /\ b * 1 <= m + 1 /\ m + 1 < b * 1 + b
      BY <1>1, <1>3
    <2>2. (m + 1) \div b = 1
      <3> HIDE DEF m, b
      <3> QED BY <1>2, <2>1, QuotientIs
    <2> QED BY <1>3, <2>2 DEF TargetWork
  <1>4. CASE t # m
    <2> DEFINE d == (m - t) \div b
    <2>1. d \in Int /\ b * d <= m - t /\ m - t < b * d + b
      <3> HIDE DEF m, b
      <3> QED BY <1>2, Euclidean
    <2> HIDE DEF d
    <2>2. b * (d + 1) = b * d + b /\ b * d \in Int /\ d + 1 \in Int
      BY <1>2, <2>1
    <2>3. b * (d + 1) <= m + 1 /\ m + 1 < b * (d + 1) + b
      <3>1. m + 1 = (m - t) + b
        BY <1>1
      <3> HIDE DEF m, b
      <3> QED BY <1>2, <2>1, <2>2, <3>1
    <2>4. (m + 1) \div b = d + 1
      <3> HIDE DEF m, b
      <3> QED BY <1>2, <2>2, <2>3, QuotientIs
    <2> QED BY <1>4, <2>4 DEF TargetWork, d
  <1> QED BY <1>3, <1>4

\* CompactRoundsDown for every target: target_to_bits rounds to the greatest
\* representable target below, workshare_bits never makes a share harder to
\* find than its block, and target_work is the division it stands for.
THEOREM CompactSound ==
  ASSUME NEW t \in 1..MaxTarget
  PROVE  LET bits == TargetToBits(t)
         IN  RoundedDown(t, BitsToTarget(bits), WorkshareBits(bits), TargetWork(t))
  <1> DEFINE bits == TargetToBits(t)  back == BitsToTarget(bits)
             u == HigherOf(LowerOf(back * Multiplier, MaxTarget), 1)
             share == WorkshareBits(bits)
  <1>1. /\ t \in Nat \ {0} /\ t <= MaxTarget /\ MaxTarget \in Nat
        /\ Multiplier \in Nat \ {0}
    BY TargetTypes, DifficultyAssumption
  <1>2. back \in 1..t /\ back \in Representable
        /\ \A r \in back..t : TargetToBits(r) = bits
    BY CompactBack
  <1>3. ASSUME NEW other \in Representable, other <= t PROVE other <= back
    <2>1. other \in Nat /\ BitsToTarget(TargetToBits(other)) = other
      BY RepresentableBack
    <2>2. ASSUME back < other PROVE FALSE
      <3>1. other \in back..t
        BY <1>1, <1>2, <1>3, <2>1, <2>2
      <3>2. other = back
        BY <1>2, <2>1, <3>1
      <3> QED BY <1>1, <1>2, <2>2, <3>2
    <2> HIDE DEF back
    <2> QED BY <1>1, <1>2, <2>1, <2>2
  <1>4. back # Invalid /\ share = TargetToBits(u)
    <2>1. back # Invalid
      BY <1>1, <1>2, DifficultyAssumption
    <2> QED BY <2>1 DEF WorkshareBits
  <1> HIDE DEF bits, back, share
  <1>5. u \in 1..MaxTarget /\ back <= u
    <2>1. back \in Nat \ {0} /\ back <= MaxTarget
      BY <1>1, <1>2
    <2>2. back * 1 <= back * Multiplier
      BY <1>1, <2>1, TimesMono
    <2>3. PICK x : x = back * Multiplier
      OBVIOUS
    <2>4. x \in Nat /\ back <= x
      BY <1>1, <2>1, <2>2, <2>3
    <2>5. u = HigherOf(LowerOf(x, MaxTarget), 1)
      BY <2>3
    <2> HIDE DEF u
    <2> QED BY <1>1, <2>1, <2>4, <2>5 DEF HigherOf, LowerOf
  <1> HIDE DEF u
  <1>6. BitsToTarget(share) \in Representable /\ BitsToTarget(share) \in Nat
        /\ back <= BitsToTarget(share)
    <2> DEFINE v == BitsToTarget(TargetToBits(u))
    <2>1. /\ v \in 1..u /\ v \in Representable
          /\ \A r \in v..u : TargetToBits(r) = TargetToBits(u)
      BY <1>5, CompactBack
    <2>2. BitsToTarget(TargetToBits(back)) = back /\ back \in Nat
      BY <1>2, RepresentableBack
    <2>3. u \in Nat
      BY <1>1, <1>5
    <2>4. ASSUME v < back PROVE FALSE
      <3>1. back \in v..u
        BY <1>5, <2>1, <2>2, <2>3, <2>4
      <3>2. back = v
        BY <2>1, <2>2, <3>1
      <3> QED BY <2>2, <2>4, <3>2
    <2> HIDE DEF v
    <2>5. v \in Nat /\ back <= v
      BY <2>1, <2>2, <2>3, <2>4
    <2> QED BY <1>4, <2>1, <2>5 DEF v
  <1>7. RoundedDown(t, back, share, TargetWork(t))
    <2>1. back <= t /\ BitsToTarget(share) >= back
      BY <1>1, <1>2, <1>6
    <2> QED BY <1>2, <1>3, <1>6, <2>1, WorkIs DEF RoundedDown
  <1> QED BY <1>7 DEF bits, back, share

\* FollowsSchedule for every parent and launch: required_target is always a
\* usable target whose compact form is one too, later or lower parents never
\* make the next block harder, and one half-life of delay doubles the target.
THEOREM RetargetSound ==
  ASSUME NEW height \in Nat, NEW time \in Nat, NEW launch \in Nat
  PROVE  Scheduled(height, time, launch, RequiredTarget(height, time, launch),
                   RequiredBits(height, time, launch))
  <1> DEFINE target == RequiredTarget(height, time, launch)
             drift == (time - launch) - (height - 1) * BlockTime
             e == Exponent(drift)
  <1>1. BlockTime \in Nat \ {0} /\ HalfLife \in Nat \ {0} /\ Frac \in Nat \ {0}
    BY TargetTypes
  <1>2. drift \in Int
    <2>1. (height - 1) * BlockTime \in Int
      BY <1>1
    <2> QED BY <2>1
  <1>3. e \in Int
    BY <1>2, ExponentSound
  <1>4. height > 1 => target = TargetAfter(e)
    BY DEF RequiredTarget
  <1>5. target \in 1..PowLimit
    <2>1. CASE height > 1
      <3> HIDE DEF e, target
      <3> QED BY <1>3, <1>4, <2>1, AfterIs
    <2>2. CASE ~(height > 1)
      <3>1. target = InitialTarget
        BY <2>2 DEF RequiredTarget
      <3> QED BY <3>1, TargetTypes
    <2> QED BY <2>1, <2>2
  <1>6. BitsToTarget(RequiredBits(height, time, launch)) \in 1..target
    <2>1. target \in 1..MaxTarget
      <3> HIDE DEF target
      <3> QED BY <1>5, TargetTypes
    <2>2. BitsToTarget(TargetToBits(target)) \in 1..target
      <3> HIDE DEF target
      <3> QED BY <2>1, CompactBack
    <2> QED BY <2>2 DEF RequiredBits
  <1>7. ASSUME height > 1
        PROVE  LET later == RequiredTarget(height, time + 1, launch)
                   twice == RequiredTarget(height, time + HalfLife, launch)
                   above == RequiredTarget(height + 1, time, launch)
               IN  /\ target <= later /\ above <= target
                   /\ twice <= 2 * target + 1
                   /\ target > 1 => twice >= LowerOf(2 * target, PowLimit)
    <2> DEFINE x == (height - 1) * BlockTime
    <2>1. x \in Int /\ ((height + 1) - 1) * BlockTime = x + BlockTime
      BY <1>1
    <2> HIDE DEF x
    <2>2. /\ ((time + 1) - launch) - x = drift + 1
          /\ ((time + HalfLife) - launch) - x = drift + HalfLife
          /\ (time - launch) - (x + BlockTime) = drift - BlockTime
      BY <1>1, <2>1 DEF x
    <2>3. /\ RequiredTarget(height, time + 1, launch)
               = TargetAfter(Exponent(drift + 1))
          /\ RequiredTarget(height, time + HalfLife, launch)
               = TargetAfter(Exponent(drift + HalfLife))
          /\ RequiredTarget(height + 1, time, launch)
               = TargetAfter(Exponent(drift - BlockTime))
      <3>1. ~(height <= 1) /\ ~(height + 1 <= 1)
        BY <1>7
      <3> HIDE DEF drift
      <3> QED BY <2>1, <2>2, <3>1 DEF RequiredTarget, x
    <2> HIDE DEF drift
    <2>4. /\ drift + 1 \in Int /\ drift - BlockTime \in Int
          /\ drift <= drift + 1 /\ drift - BlockTime <= drift
      BY <1>1, <1>2
    <2>5. /\ Exponent(drift + 1) \in Int /\ e <= Exponent(drift + 1)
          /\ Exponent(drift - BlockTime) \in Int
          /\ Exponent(drift - BlockTime) <= e
          /\ Exponent(drift + HalfLife) = e + Frac
      BY <1>2, <2>4, ExponentSound
    <2> HIDE DEF e
    <2>6. /\ TargetAfter(e) <= TargetAfter(Exponent(drift + 1))
          /\ TargetAfter(Exponent(drift - BlockTime)) <= TargetAfter(e)
      BY <1>3, <2>5, AfterMono
    <2>7. /\ TargetAfter(e + Frac) <= 2 * TargetAfter(e) + 1
          /\ TargetAfter(e) > 1 =>
               TargetAfter(e + Frac) >= LowerOf(2 * TargetAfter(e), PowLimit)
      BY <1>3, AfterDouble
    <2>8. target = TargetAfter(e)
      BY <1>4, <1>7
    <2> HIDE DEF target
    <2> QED BY <2>3, <2>5, <2>6, <2>7, <2>8
  <1> HIDE DEF target
  <1>8. Scheduled(height, time, launch, target, RequiredBits(height, time, launch))
    BY <1>5, <1>6, <1>7 DEF Scheduled
  <1> QED BY <1>8 DEF target

-----------------------------------------------------------------------------
(* The byte format: where an encoding stands in a frame.                   *)

Bytes == Seq(Nat)

\* b has s at place p.
Has(b, p, s) ==
  /\ p + Len(s) - 1 <= Len(b)
  /\ \A i \in 1..Len(s) : b[p + i - 1] = s[i]

\* The result r of reading b at place p, where a value of W is encoded by E:
\* what was read is a value whose encoding stands there, and a value whose
\* encoding stands there is read.
Reads(r, b, p, W, E) ==
  /\ \/ r = Fail
     \/ \E v \in W : r = Got(v, p + Len(E[v])) /\ Has(b, p, E[v])
  /\ \A v \in W : Has(b, p, E[v]) => r = Got(v, p + Len(E[v]))

\* The same in parts, and the result is of one of both kinds.
LEMMA GotIs ==
  /\ ~Fail.ok
  /\ \A v, e : Got(v, e).ok /\ Got(v, e).value = v /\ Got(v, e).at = e
  /\ \A v, e : Got(v, e) # Fail
  BY DEF Fail, Got

\* One symbol.
LEMMA HasOne ==
  ASSUME NEW b \in Bytes, NEW p \in Nat \ {0}, NEW x \in Nat
  PROVE  /\ <<x>> \in Bytes /\ Len(<<x>>) = 1
         /\ Has(b, p, <<x>>) <=> p <= Len(b) /\ b[p] = x
  <1>1. Len(<<x>>) = 1 /\ <<x>>[1] = x /\ <<x>> \in Bytes
    BY DEF Bytes
  <1>2. \A i \in 1..1 : i = 1
    OBVIOUS
  <1>3. Len(b) \in Nat
    BY DEF Bytes
  <1> HIDE DEF Bytes
  <1>4. Has(b, p, <<x>>) <=> p + 1 - 1 <= Len(b) /\ b[p + 1 - 1] = x
    BY <1>1, <1>2 DEF Has
  <1>5. p + 1 - 1 = p
    OBVIOUS
  <1> QED BY <1>1, <1>4, <1>5

\* One part after the other.
LEMMA HasBoth ==
  ASSUME NEW b \in Bytes, NEW p \in Nat \ {0}, NEW s \in Bytes, NEW t \in Bytes
  PROVE  /\ s \o t \in Bytes /\ Len(s \o t) = Len(s) + Len(t)
         /\ p + Len(s) \in Nat \ {0}
         /\ Has(b, p, s \o t) <=> Has(b, p, s) /\ Has(b, p + Len(s), t)
  <1> DEFINE m == Len(s)  n == Len(t)  c == s \o t
  <1>1. /\ m \in Nat /\ n \in Nat /\ c \in Bytes /\ Len(c) = m + n /\ Len(b) \in Nat
        /\ \A i \in 1..m : c[i] = s[i]
        /\ \A i \in 1..n : c[m + i] = t[i]
    BY DEF Bytes
  <1> HIDE DEF m, n, c
  <1>2. ASSUME Has(b, p, c) PROVE Has(b, p, s) /\ Has(b, p + m, t)
    <2>1. /\ p + (m + n) - 1 <= Len(b)
          /\ \A i \in 1..(m + n) : b[p + i - 1] = c[i]
      BY <1>1, <1>2 DEF Has
    <2>2. \A i \in 1..m : i \in 1..(m + n) /\ b[p + i - 1] = s[i]
      BY <1>1, <2>1
    <2>3. \A i \in 1..n : b[(p + m) + i - 1] = t[i]
      <3> TAKE i \in 1..n
      <3>1. m + i \in 1..(m + n) /\ p + (m + i) - 1 = (p + m) + i - 1
        BY <1>1
      <3> QED BY <1>1, <2>1, <3>1
    <2> QED BY <1>1, <2>1, <2>2, <2>3 DEF Has, m, n
  <1>3. ASSUME Has(b, p, s), Has(b, p + m, t) PROVE Has(b, p, c)
    <2>1. /\ (p + m) + n - 1 <= Len(b)
          /\ \A i \in 1..m : b[p + i - 1] = s[i]
          /\ \A i \in 1..n : b[(p + m) + i - 1] = t[i]
      BY <1>3 DEF Has, m, n
    <2>2. \A i \in 1..(m + n) : b[p + i - 1] = c[i]
      <3> TAKE i \in 1..(m + n)
      <3>1. CASE i \in 1..m
        BY <1>1, <2>1, <3>1
      <3>2. CASE i \notin 1..m
        <4>1. PICK j \in 1..n : i = m + j
          <5>1. i - m \in 1..n /\ i = m + (i - m)
            BY <1>1, <3>2
          <5> QED BY <5>1
        <4>2. (p + m) + j - 1 = p + i - 1
          BY <1>1, <4>1
        <4>3. b[(p + m) + j - 1] = t[j] /\ c[m + j] = t[j]
          BY <1>1, <2>1
        <4> QED BY <4>1, <4>2, <4>3
      <3> QED BY <3>1, <3>2
    <2> QED BY <1>1, <2>1, <2>2 DEF Has
  <1> QED BY <1>1, <1>2, <1>3 DEF m, n, c

\* What stands at a place is the part of that length.
LEMMA HasPart ==
  ASSUME NEW b \in Bytes, NEW p \in Nat \ {0}, NEW n \in Nat, p + n - 1 <= Len(b)
  PROVE  /\ SubSeq(b, p, p + n - 1) \in Bytes
         /\ Len(SubSeq(b, p, p + n - 1)) = n
         /\ Has(b, p, SubSeq(b, p, p + n - 1))
         /\ \A s \in Bytes : Len(s) = n /\ Has(b, p, s)
                               => s = SubSeq(b, p, p + n - 1)
  <1> DEFINE c == SubSeq(b, p, p + n - 1)
  <1>1. /\ c \in Bytes /\ Len(c) = n
        /\ \A i \in 1..n : c[i] = b[p + i - 1]
    <2> DEFINE q == p + n - 1
    <2>1. /\ q \in Int /\ p \in Int
          /\ q - p + 1 = n /\ \A i \in p..q : b[i] \in Nat
      BY DEF Bytes
    <2> HIDE DEF q
    <2>2. /\ SubSeq(b, p, q) \in Seq(Nat)
          /\ Len(SubSeq(b, p, q)) = IF p <= q THEN q - p + 1 ELSE 0
          /\ \A i \in 1..q - p + 1 : SubSeq(b, p, q)[i] = b[p + i - 1]
      BY <2>1, SubSeqProperties
    <2>3. (IF p <= q THEN q - p + 1 ELSE 0) = n
      BY <2>1
    <2> QED BY <2>1, <2>2, <2>3 DEF Bytes, q
  <1> HIDE DEF c
  <1>2. Has(b, p, c)
    BY <1>1 DEF Has
  <1>3. ASSUME NEW s \in Bytes, Len(s) = n, Has(b, p, s) PROVE s = c
    <2>1. \A i \in 1..n : s[i] = c[i]
      BY <1>1, <1>3 DEF Has
    <2>2. s \in Seq(Nat) /\ c \in Seq(Nat) /\ Len(s) = Len(c)
      BY <1>1, <1>3 DEF Bytes
    <2> QED BY <1>1, <2>1, <2>2
  <1> QED BY <1>1, <1>2, <1>3 DEF c

\* A frame that is one encoding.
LEMMA HasAll ==
  ASSUME NEW b \in Bytes, NEW s \in Bytes
  PROVE  Has(b, 1, s) /\ Len(s) = Len(b) <=> s = b
  <1>1. Len(b) \in Nat /\ Len(s) \in Nat /\ \A i \in Nat : 1 + i - 1 = i
    BY DEF Bytes
  <1>2. ASSUME Has(b, 1, s), Len(s) = Len(b) PROVE s = b
    <2>1. \A i \in 1..Len(b) : s[i] = b[i]
      BY <1>1, <1>2 DEF Has
    <2> QED BY <1>2, <2>1, SMTT(30) DEF Bytes
  <1>3. ASSUME s = b PROVE Has(b, 1, s) /\ Len(s) = Len(b)
    BY <1>1, <1>3 DEF Has
  <1> QED BY <1>2, <1>3

-----------------------------------------------------------------------------
(* Readers of the Reader in codec.rs.                                      *)

\* The encodings of a symbol and of a byte string.
SymbolCode == [v \in Nat |-> <<v>>]
BytesCode == [v \in Bytes |-> Prefixed(v)]

\* Reading one field of fixed width.
LEMMA FixedReads ==
  ASSUME NEW b \in Bytes, NEW p \in Nat \ {0}
  PROVE  Reads(Fixed(b, p), b, p, Nat, SymbolCode)
  <1>1. \A v \in Nat : /\ SymbolCode[v] = <<v>> /\ Len(SymbolCode[v]) = 1
                       /\ Has(b, p, SymbolCode[v]) <=> p <= Len(b) /\ b[p] = v
    BY HasOne DEF SymbolCode
  <1>2. p <= Len(b) => b[p] \in Nat
    BY DEF Bytes
  <1> QED BY <1>1, <1>2 DEF Reads, Fixed

\* A length and as many symbols.
LEMMA PrefixedIs ==
  ASSUME NEW s \in Bytes
  PROVE  Prefixed(s) \in Bytes /\ Len(Prefixed(s)) = 1 + Len(s)
  <1>1. <<Len(s)>> \in Bytes /\ Len(<<Len(s)>>) = 1
    BY DEF Bytes
  <1>2. 1 \in Nat \ {0}
    OBVIOUS
  <1> QED BY <1>1, <1>2, HasBoth DEF Prefixed

LEMMA HasPrefixed ==
  ASSUME NEW b \in Bytes, NEW p \in Nat \ {0}, NEW s \in Bytes
  PROVE  Has(b, p, Prefixed(s)) <=>
           p <= Len(b) /\ b[p] = Len(s) /\ Has(b, p + 1, s)
  <1>1. Len(s) \in Nat
    BY DEF Bytes
  <1>2. /\ <<Len(s)>> \in Bytes /\ Len(<<Len(s)>>) = 1
        /\ Has(b, p, <<Len(s)>>) <=> p <= Len(b) /\ b[p] = Len(s)
    BY <1>1, HasOne
  <1>3. /\ p + 1 = p + Len(<<Len(s)>>)
        /\ Has(b, p, <<Len(s)>> \o s)
             <=> Has(b, p, <<Len(s)>>) /\ Has(b, p + Len(<<Len(s)>>), s)
    BY <1>2, HasBoth
  <1> QED BY <1>2, <1>3 DEF Prefixed

\* Reader::bytes, for a limit within the allocation limit.
LEMMA BytesRead ==
  ASSUME NEW b \in Bytes, NEW p \in Nat \ {0}, NEW max \in 0..Limit.allocation
  PROVE  Reads(ReadBytes(b, p, max), b, p, {v \in Bytes : Len(v) <= max}, BytesCode)
  <1> DEFINE W == {v \in Bytes : Len(v) <= max}
             n == b[p]
             c == SubSeq(b, p + 1, (p + 1) + n - 1)
             r == ReadBytes(b, p, max)
  <1>1. Limit.allocation \in Nat
    BY CodecAssumption
  <1>e. ASSUME NEW f, f = Fixed(b, p)
        PROVE  r = IF f.ok
                   THEN IF /\ f.value <= max /\ f.value <= Limit.allocation
                           /\ f.at + f.value - 1 <= Len(b)
                        THEN Got(SubSeq(b, f.at, f.at + f.value - 1), f.at + f.value)
                        ELSE Fail
                   ELSE Fail
    BY <1>e DEF ReadBytes, Then
  <1>f. Fixed(b, p) = IF p <= Len(b) THEN Got(n, p + 1) ELSE Fail
    BY DEF Fixed
  <1>n. p <= Len(b) => n \in Nat
    BY DEF Bytes
  <1>2. ASSUME p <= Len(b), n <= max, (p + 1) + n - 1 <= Len(b)
        PROVE  r = Got(c, (p + 1) + n)
    <2>1. n <= Limit.allocation
      BY <1>1, <1>2, <1>n
    <2> HIDE DEF r, n
    <2> QED BY <1>2, <1>e, <1>f, <2>1, GotIs
  <1>3. ASSUME ~(p <= Len(b) /\ n <= max /\ (p + 1) + n - 1 <= Len(b))
        PROVE  r = Fail
    <2> HIDE DEF r, n
    <2> QED BY <1>3, <1>e, <1>f, GotIs
  <1>4. \A v \in W : v \in Bytes /\ BytesCode[v] = Prefixed(v) /\ Len(v) <= max
                     /\ Len(v) \in Nat /\ p + Len(BytesCode[v]) = (p + 1) + Len(v)
    <2> TAKE v \in W
    <2>1. Len(v) \in Nat
      BY DEF Bytes
    <2>2. Len(Prefixed(v)) = 1 + Len(v)
      BY PrefixedIs
    <2> QED BY <2>1, <2>2 DEF BytesCode
  <1>5. p <= Len(b) => n \in Nat
    BY DEF Bytes
  <1>6. ASSUME p <= Len(b), n <= max, (p + 1) + n - 1 <= Len(b)
        PROVE  /\ c \in W /\ Has(b, p, BytesCode[c]) /\ Len(c) = n
    <2>1. c \in Bytes /\ Len(c) = n /\ Has(b, p + 1, c)
      BY <1>5, <1>6, HasPart
    <2>2. c \in W
      BY <1>6, <2>1
    <2> HIDE DEF c, W
    <2>3. Has(b, p, Prefixed(c))
      BY <1>6, <2>1, HasPrefixed
    <2> QED BY <1>4, <2>1, <2>2, <2>3
  <1>7. ASSUME NEW v \in W, Has(b, p, BytesCode[v])
        PROVE  r = Got(v, p + Len(BytesCode[v]))
    <2>a. v \in Bytes /\ Has(b, p, Prefixed(v))
      <3> HIDE DEF W
      <3> QED BY <1>4, <1>7
    <2>b. p <= Len(b) /\ b[p] = Len(v) /\ Has(b, p + 1, v)
      <3> HIDE DEF W, n, c, r
      <3> QED BY <2>a, HasPrefixed
    <2>1. p <= Len(b) /\ n = Len(v) /\ Has(b, p + 1, v)
      BY ONLY <2>b
    <2>2. (p + 1) + n - 1 <= Len(b) /\ n <= max
      BY <1>4, <2>1 DEF Has
    <2>3. v = c
      BY <1>4, <1>5, <2>1, <2>2, HasPart
    <2> QED BY <1>2, <1>4, <2>1, <2>2, <2>3
  <1>8. r = Fail \/ \E v \in W : r = Got(v, p + Len(BytesCode[v]))
                                  /\ Has(b, p, BytesCode[v])
    BY <1>2, <1>3, <1>6, <1>7
  <1> QED BY <1>7, <1>8 DEF Reads
-----------------------------------------------------------------------------
(* Lists.                                                                  *)

\* What stands at a place ends at one.
LEMMA HasEnd ==
  ASSUME NEW b \in Bytes, NEW p \in Nat \ {0}, NEW s \in Bytes, Has(b, p, s)
  PROVE  p + Len(s) \in Places(b)
  BY DEF Has, Places, Bytes

\* The recursion of FlattenSeq.
Joins(s, g, n) ==
  g = [i \in 1..n |-> IF i = 1 THEN s[i] ELSE g[i - 1] \o s[i]]

\* It has a solution.
LEMMA JoinsExist == ASSUME NEW s, NEW n \in Nat PROVE \E g : Joins(s, g, n)
  <1> DEFINE Next1(g, i) == IF i = 1 THEN s[i] ELSE g[i - 1] \o s[i]
             Bad == {m \in Nat : ~\E g : Joins(s, g, m)}
  <1>e. ASSUME NEW g, NEW m
        PROVE  Joins(s, g, m) <=> g = [i \in 1..m |-> Next1(g, i)]
    BY DEF Joins
  <1> SUFFICES ASSUME Bad # {} PROVE FALSE
    OBVIOUS
  <1>1. PICK m \in Bad : \A j \in Bad : m <= j
    <2>1. Bad \in SUBSET Nat
      OBVIOUS
    <2> HIDE DEF Bad
    <2> QED BY <2>1, LeastNumber
  <1>2. m \in Nat /\ ~\E g : Joins(s, g, m)
    BY <1>1
  <1>3. CASE m = 0
    <2> DEFINE g == [i \in 1..0 |-> i]
    <2>1. \A i \in 1..0 : FALSE
      OBVIOUS
    <2>2. g = [i \in 1..0 |-> Next1(g, i)]
      BY <2>1
    <2> QED BY <1>2, <1>3, <1>e, <2>2
  <1>4. CASE m # 0
    <2>1. m - 1 \in Nat /\ ~(m <= m - 1)
      BY <1>2, <1>4
    <2>2. PICK g : Joins(s, g, m - 1)
      BY <1>1, <2>1
    <2> DEFINE h == [i \in 1..m |-> IF i \in 1..(m - 1) THEN g[i] ELSE Next1(g, i)]
    <2>3. \A i \in 1..(m - 1) : g[i] = Next1(g, i)
      BY <2>2 DEF Joins
    <2>4. \A i \in 1..m : i # 1 => i - 1 \in 1..(m - 1) /\ i - 1 \in 1..m
      BY <1>2
    <2>5. \A i \in 1..m : h[i] = Next1(g, i)
      BY <2>3
    <2>6. \A i \in 1..m : i # 1 => h[i - 1] = g[i - 1]
      BY <2>4
    <2>7. h = [i \in 1..m |-> h[i]]
      OBVIOUS
    <2> HIDE DEF h
    <2>8. \A i \in 1..m : h[i] = Next1(h, i)
      BY <2>5, <2>6
    <2>9. h = [i \in 1..m |-> Next1(h, i)]
      BY <2>7, <2>8
    <2> QED BY <1>2, <1>e, <2>9
  <1> QED BY <1>3, <1>4

\* Solutions agree as long as the lists do, and are byte strings.
LEMMA JoinsSame ==
  ASSUME NEW s \in Seq(Bytes), NEW t \in Seq(Bytes), NEW g, NEW h,
         NEW n \in 0..Len(s), n <= Len(t), \A i \in 1..n : s[i] = t[i],
         Joins(s, g, Len(s)), Joins(t, h, Len(t))
  PROVE  \A i \in 1..n : g[i] = h[i] /\ g[i] \in Bytes
  <1> DEFINE Bad == {i \in 1..n : ~(g[i] = h[i] /\ g[i] \in Bytes)}
  <1>1. SUFFICES ASSUME Bad # {} PROVE FALSE
    OBVIOUS
  <1>2. PICK m \in Bad : \A j \in Bad : m <= j
    <2>1. Bad \in SUBSET Nat
      OBVIOUS
    <2> HIDE DEF Bad
    <2> QED BY <1>1, <2>1, LeastNumber
  <1>3. /\ m \in 1..n /\ m \in 1..Len(s) /\ m \in 1..Len(t) /\ m \in Nat
        /\ s[m] = t[m] /\ s[m] \in Bytes
    BY <1>2
  <1>4. /\ g[m] = IF m = 1 THEN s[m] ELSE g[m - 1] \o s[m]
        /\ h[m] = IF m = 1 THEN t[m] ELSE h[m - 1] \o t[m]
    BY <1>3 DEF Joins
  <1>5. m # 1 => g[m - 1] = h[m - 1] /\ g[m - 1] \in Bytes
    <2>1. m # 1 => m - 1 \in 1..n /\ ~(m <= m - 1)
      BY <1>3
    <2> QED BY <1>2, <2>1
  <1>6. m # 1 => g[m - 1] \o s[m] \in Bytes
    BY <1>3, <1>5 DEF Bytes
  <1>7. g[m] = h[m] /\ g[m] \in Bytes
    BY <1>3, <1>4, <1>5, <1>6
  <1> QED BY <1>2, <1>7

\* FlattenSeq puts one string after the other.
LEMMA FlattenAppend ==
  ASSUME NEW s \in Seq(Bytes), NEW x \in Bytes
  PROVE  /\ FlattenSeq(s) \in Bytes
         /\ Append(s, x) \in Seq(Bytes)
         /\ FlattenSeq(Append(s, x)) = FlattenSeq(s) \o x
  <1> DEFINE t == Append(s, x)  n == Len(s)
             g == CHOOSE g : Joins(s, g, Len(s))
             h == CHOOSE h : Joins(t, h, Len(t))
  <1>1. /\ t \in Seq(Bytes) /\ Len(t) = n + 1 /\ n \in Nat /\ t[n + 1] = x
        /\ \A i \in 1..n : s[i] = t[i]
    OBVIOUS
  <1>2. /\ Len(s) = 0 => FlattenSeq(s) = s
        /\ Len(s) # 0 => FlattenSeq(s) = g[Len(s)]
        /\ Len(t) = 0 => FlattenSeq(t) = t
        /\ Len(t) # 0 => FlattenSeq(t) = h[Len(t)]
    BY DEF FlattenSeq, Joins
  <1> HIDE DEF t
  <1>3. Joins(s, g, Len(s)) /\ Joins(t, h, Len(t))
    <2>1. Len(s) \in Nat /\ Len(t) \in Nat
      BY <1>1
    <2> QED BY <2>1, JoinsExist
  <1> HIDE DEF g, h
  <1>4. \A i \in 1..Len(t) : h[i] = IF i = 1 THEN t[i] ELSE h[i - 1] \o t[i]
    BY <1>3 DEF Joins
  <1> HIDE DEF n
  <1>5. FlattenSeq(t) = IF n = 0 THEN x ELSE h[n] \o x
    <2>1. PICK k : k = n + 1
      OBVIOUS
    <2>2. k \in 1..Len(t) /\ k - 1 = n /\ Len(t) = k /\ k # 0 /\ (k = 1 <=> n = 0)
      BY <1>1, <2>1 DEF n
    <2>3. FlattenSeq(t) = h[k]
      BY <1>2, <2>2
    <2>4. h[k] = IF k = 1 THEN t[k] ELSE h[k - 1] \o t[k]
      BY <1>4, <2>2
    <2> QED BY <1>1, <2>1, <2>2, <2>3, <2>4
  <1>6. CASE n = 0
    <2>1. s = <<>> /\ <<>> \in Bytes /\ <<>> \o x = x
      BY <1>6 DEF Bytes, n
    <2>2. FlattenSeq(s) = <<>> /\ FlattenSeq(t) = x
      BY <1>2, <1>5, <1>6, <2>1 DEF n
    <2> QED BY <1>1, <2>1, <2>2 DEF t
  <1>7. CASE n # 0
    <2>1. n \in 0..Len(s) /\ n <= Len(t) /\ n \in 1..n
      BY <1>1, <1>7 DEF n
    <2>2. g[n] = h[n] /\ g[n] \in Bytes
      BY <1>1, <1>3, <2>1, JoinsSame
    <2>3. FlattenSeq(s) = g[n] /\ FlattenSeq(t) = h[n] \o x
      BY <1>2, <1>5, <1>7 DEF n
    <2> QED BY <1>1, <2>2, <2>3 DEF t
  <1> QED BY <1>6, <1>7

\* The encodings of the elements of a list, one after the other.
Coded(s, E) == FlattenSeq([i \in DOMAIN s |-> E[s[i]]])
Lists(W, n) == {s \in Seq(W) : Len(s) = n}

LEMMA CodedAppend ==
  ASSUME NEW W, NEW E \in [W -> Bytes], NEW s \in Seq(W), NEW v \in W
  PROVE  /\ Coded(<<>>, E) = <<>>
         /\ Coded(s, E) \in Bytes
         /\ Append(s, v) \in Seq(W)
         /\ Coded(Append(s, v), E) = Coded(s, E) \o E[v]
  <1> DEFINE e(t) == [i \in DOMAIN t |-> E[t[i]]]
  <1>1. e(s) \in Seq(Bytes) /\ E[v] \in Bytes /\ Append(s, v) \in Seq(W)
    OBVIOUS
  <1>2. e(Append(s, v)) = Append(e(s), E[v])
    <2> DEFINE n == Len(s)  a == Append(s, v)  c == Append(e(s), E[v])
    <2>1. /\ a \in Seq(W) /\ Len(a) = n + 1 /\ n \in Nat /\ a[n + 1] = v
          /\ \A i \in 1..n : a[i] = s[i]
      OBVIOUS
    <2>2. Len(e(s)) = n /\ \A i \in 1..n : e(s)[i] = E[s[i]]
      OBVIOUS
    <2>3. /\ c \in Seq(Bytes) /\ Len(c) = n + 1 /\ c[n + 1] = E[v]
          /\ \A i \in 1..n : c[i] = e(s)[i]
      <3> HIDE DEF e
      <3> QED BY <1>1, <2>2
    <2> HIDE DEF a, c
    <2>4. DOMAIN a = 1..(n + 1)
      BY <2>1
    <2>5. /\ e(a) \in Seq(Bytes) /\ Len(e(a)) = n + 1
          /\ \A i \in 1..(n + 1) : e(a)[i] = E[a[i]]
      BY <2>1, <2>4
    <2> HIDE DEF e
    <2>6. \A i \in 1..(n + 1) : e(a)[i] = c[i]
      BY <2>1, <2>2, <2>3, <2>5, SMTT(30)
    <2>7. e(a) = c
      BY <2>1, <2>3, <2>5, <2>6
    <2> QED BY <2>7 DEF a, c
  <1>3. e(<<>>) = <<>>
    OBVIOUS
  <1>4. FlattenSeq(<<>>) = <<>>
    BY DEF FlattenSeq
  <1>5. Coded(<<>>, E) = FlattenSeq(e(<<>>)) /\ Coded(s, E) = FlattenSeq(e(s))
        /\ Coded(Append(s, v), E) = FlattenSeq(e(Append(s, v)))
    BY DEF Coded
  <1> HIDE DEF e
  <1> QED BY <1>1, <1>2, <1>3, <1>4, <1>5, FlattenAppend
\* One round of Vector: the list so far, and the next item.
Extended(r, item) ==
  IF r.ok THEN IF item.ok THEN Got(Append(r.value, item.value), item.at) ELSE Fail
          ELSE Fail

ListCode(W, E) == [s \in Seq(W) |-> Coded(s, E)]

\* A list of one more element, read after the others.
LEMMA ExtendReads ==
  ASSUME NEW b \in Bytes, NEW p \in Places(b), NEW n \in Nat,
         NEW W, NEW E \in [W -> Bytes], NEW r, NEW item,
         Reads(r, b, p, Lists(W, n), ListCode(W, E)),
         r.ok /\ r.at \in Places(b) => Reads(item, b, r.at, W, E)
  PROVE  Reads(Extended(r, item), b, p, Lists(W, n + 1), ListCode(W, E))
  <1> DEFINE C == ListCode(W, E)  x == Extended(r, item)
  <1>1. p \in Nat \ {0}
    BY DEF Places, Bytes
  <1>2. ASSUME NEW s \in Lists(W, n), NEW v \in W
        PROVE  /\ Append(s, v) \in Lists(W, n + 1)
               /\ C[s] \in Bytes /\ E[v] \in Bytes /\ C[Append(s, v)] = C[s] \o E[v]
               /\ p + Len(C[Append(s, v)]) = (p + Len(C[s])) + Len(E[v])
               /\ Has(b, p, C[Append(s, v)])
                    <=> Has(b, p, C[s]) /\ Has(b, p + Len(C[s]), E[v])
               /\ Has(b, p, C[s]) => p + Len(C[s]) \in Places(b)
    <2>1. s \in Seq(W) /\ Len(s) = n
      BY DEF Lists
    <2>2. Append(s, v) \in Seq(W) /\ Len(Append(s, v)) = n + 1
      BY <2>1
    <2>3. /\ C[s] = Coded(s, E) /\ C[Append(s, v)] = Coded(Append(s, v), E)
      BY <2>1, <2>2 DEF ListCode
    <2>4. C[s] \in Bytes /\ E[v] \in Bytes /\ C[Append(s, v)] = C[s] \o E[v]
      BY <2>1, <2>3, CodedAppend
    <2> HIDE DEF C
    <2>5. /\ Len(C[s] \o E[v]) = Len(C[s]) + Len(E[v])
          /\ Has(b, p, C[s] \o E[v])
               <=> Has(b, p, C[s]) /\ Has(b, p + Len(C[s]), E[v])
      BY <1>1, <2>4, HasBoth
    <2>6. Len(C[s]) \in Nat /\ Len(E[v]) \in Nat
      BY <2>4 DEF Bytes
    <2>7. Has(b, p, C[s]) => p + Len(C[s]) \in Places(b)
      BY <1>1, <2>4, HasEnd
    <2> QED BY <1>1, <2>2, <2>4, <2>5, <2>6, <2>7 DEF Lists
  <1> HIDE DEF C
  <1>3. /\ r = Fail \/ \E s \in Lists(W, n) : r = Got(s, p + Len(C[s])) /\ Has(b, p, C[s])
        /\ \A s \in Lists(W, n) : Has(b, p, C[s]) => r = Got(s, p + Len(C[s]))
    BY DEF Reads, C
  <1>4. ASSUME NEW s \in Lists(W, n), r = Got(s, p + Len(C[s])), Has(b, p, C[s])
        PROVE  /\ \/ x = Fail
                  \/ \E v \in W : /\ Has(b, p + Len(C[s]), E[v])
                                  /\ x = Got(Append(s, v), (p + Len(C[s])) + Len(E[v]))
               /\ \A v \in W : Has(b, p + Len(C[s]), E[v]) =>
                    x = Got(Append(s, v), (p + Len(C[s])) + Len(E[v]))
    <2>1. r.ok /\ r.value = s /\ r.at = p + Len(C[s])
      BY <1>4, GotIs
    <2>2. W = {} \/ r.at \in Places(b)
      BY <1>2, <1>4, <2>1
    <2>3. r.at \in Places(b)
      <3>1. s \in Seq(W) /\ C[s] = Coded(s, E)
        BY DEF Lists, ListCode, C
      <3>2. CASE W = {}
        <4>1. s = <<>>
          BY <3>1, <3>2
        <4>2. C[s] = <<>>
          BY <3>1, <4>1 DEF Coded, FlattenSeq
        <4>3. C[s] \in Bytes
          BY <4>2 DEF Bytes
        <4> QED BY <1>1, <1>4, <2>1, <4>3, HasEnd
      <3> QED BY <2>2, <3>2
    <2>4. Reads(item, b, r.at, W, E)
      BY <2>1, <2>3
    <2>5. x = IF item.ok THEN Got(Append(s, item.value), item.at) ELSE Fail
      BY <2>1 DEF Extended
    <2> HIDE DEF x
    <2> QED BY <2>1, <2>4, <2>5, GotIs DEF Reads
  <1>5. r = Fail => x = Fail
    BY GotIs DEF Extended
  <1> HIDE DEF x
  <1>6. x = Fail \/ \E t \in Lists(W, n + 1) : x = Got(t, p + Len(C[t])) /\ Has(b, p, C[t])
    <2>1. CASE r = Fail
      BY <1>5, <2>1
    <2>2. CASE r # Fail
      <3>1. PICK s \in Lists(W, n) : r = Got(s, p + Len(C[s])) /\ Has(b, p, C[s])
        BY <1>3, <2>2
      <3>2. CASE x # Fail
        <4>1. PICK v \in W : /\ Has(b, p + Len(C[s]), E[v])
                             /\ x = Got(Append(s, v), (p + Len(C[s])) + Len(E[v]))
          BY <1>4, <3>1, <3>2
        <4> QED BY <1>2, <3>1, <4>1
      <3> QED BY <3>2
    <2> QED BY <2>1, <2>2
  <1>7. ASSUME NEW t \in Lists(W, n + 1), Has(b, p, C[t])
        PROVE  x = Got(t, p + Len(C[t]))
    <2> DEFINE s == SubSeq(t, 1, n)  v == t[n + 1]
    <2>1. s \in Seq(W) /\ Len(s) = n /\ v \in W /\ t = Append(s, v)
      BY DEF Lists
    <2>2. s \in Lists(W, n)
      BY <2>1 DEF Lists
    <2> HIDE DEF s, v
    <2>3. Has(b, p, C[s]) /\ Has(b, p + Len(C[s]), E[v])
      BY <1>2, <1>7, <2>1, <2>2
    <2>4. r = Got(s, p + Len(C[s]))
      BY <1>3, <2>2, <2>3
    <2>5. x = Got(Append(s, v), (p + Len(C[s])) + Len(E[v]))
      BY <1>4, <2>1, <2>2, <2>3, <2>4
    <2> QED BY <1>2, <2>1, <2>2, <2>5
  <1> QED BY <1>6, <1>7 DEF Reads, C, x

\* The rounds of Vector over what stands at each place, G.
Rounds(p, n, G, g) ==
  g = [k \in 0..n |-> IF k = 0 THEN Got(<<>>, p)
                      ELSE Extended(g[k - 1], G[g[k - 1].at])]

LEMMA RoundsExist ==
  ASSUME NEW p, NEW n \in Nat, NEW G PROVE \E g : Rounds(p, n, G, g)
  <1> DEFINE Next1(g, k) == IF k = 0 THEN Got(<<>>, p)
                            ELSE Extended(g[k - 1], G[g[k - 1].at])
             Bad == {m \in Nat : ~\E g : Rounds(p, m, G, g)}
  <1>e. ASSUME NEW g, NEW m
        PROVE  Rounds(p, m, G, g) <=> g = [k \in 0..m |-> Next1(g, k)]
    BY DEF Rounds
  <1> SUFFICES ASSUME Bad # {} PROVE FALSE
    OBVIOUS
  <1>1. PICK m \in Bad : \A j \in Bad : m <= j
    <2>1. Bad \in SUBSET Nat
      OBVIOUS
    <2> HIDE DEF Bad
    <2> QED BY <2>1, LeastNumber
  <1>2. m \in Nat /\ ~\E g : Rounds(p, m, G, g)
    BY <1>1
  <1>3. CASE m = 0
    <2> DEFINE g == [k \in 0..0 |-> Got(<<>>, p)]
    <2>1. \A k \in 0..0 : k = 0
      OBVIOUS
    <2>2. g = [k \in 0..0 |-> Next1(g, k)]
      BY <2>1
    <2> HIDE DEF g
    <2> QED BY <1>2, <1>3, <1>e, <2>2
  <1>4. CASE m # 0
    <2>1. m - 1 \in Nat /\ ~(m <= m - 1)
      BY <1>2, <1>4
    <2>2. PICK g : Rounds(p, m - 1, G, g)
      BY <1>1, <2>1
    <2> DEFINE h == [k \in 0..m |-> IF k \in 0..(m - 1) THEN g[k] ELSE Next1(g, k)]
    <2>3. \A k \in 0..(m - 1) : g[k] = Next1(g, k)
      BY <2>2 DEF Rounds
    <2>4. \A k \in 0..m : k # 0 => k - 1 \in 0..(m - 1) /\ k - 1 \in 0..m
      BY <1>2
    <2>5. \A k \in 0..m : h[k] = Next1(g, k)
      BY <2>3
    <2>6. \A k \in 0..m : k # 0 => h[k - 1] = g[k - 1]
      BY <2>4
    <2>7. h = [k \in 0..m |-> h[k]]
      OBVIOUS
    <2> HIDE DEF h
    <2>8. \A k \in 0..m : h[k] = Next1(h, k)
      BY <2>5, <2>6
    <2>9. h = [k \in 0..m |-> Next1(h, k)]
      BY <2>7, <2>8
    <2> QED BY <1>2, <1>e, <2>9
  <1> QED BY <1>3, <1>4

\* What the rounds read, if each reads an item wherever the last one ended.
LEMMA RoundsRead ==
  ASSUME NEW b \in Bytes, NEW p \in Places(b), NEW n \in Nat,
         NEW W, NEW E \in [W -> Bytes], NEW g, NEW H,
         g[0] = Got(<<>>, p),
         \A k \in 1..n : g[k] = Extended(g[k - 1], H[k]),
         \A k \in 1..n : g[k - 1].ok /\ g[k - 1].at \in Places(b)
                           => Reads(H[k], b, g[k - 1].at, W, E)
  PROVE  \A k \in 0..n : Reads(g[k], b, p, Lists(W, k), ListCode(W, E))
  <1> DEFINE Good(k) == Reads(g[k], b, p, Lists(W, k), ListCode(W, E))
             Bad == {k \in 0..n : ~Good(k)}
  <1>0. Good(0)
    <2>1. \A s \in Lists(W, 0) : s = <<>>
      BY DEF Lists
    <2>2. <<>> \in Lists(W, 0) /\ <<>> \in Seq(W)
      BY DEF Lists
    <2>3. ListCode(W, E)[<<>>] = <<>>
      <3>1. Coded(<<>>, E) = <<>>
        BY DEF Coded, FlattenSeq
      <3> QED BY <2>2, <3>1 DEF ListCode
    <2>4. Len(<<>>) = 0 /\ p + 0 = p /\ Has(b, p, <<>>)
      BY DEF Has, Places, Bytes
    <2> QED BY <2>1, <2>2, <2>3, <2>4 DEF Reads
  <1>1. ASSUME NEW k \in 1..n, Good(k - 1) PROVE Good(k)
    <2>1. k - 1 \in Nat /\ (k - 1) + 1 = k
      OBVIOUS
    <2>2. g[k] = Extended(g[k - 1], H[k])
      OBVIOUS
    <2>3. Reads(Extended(g[k - 1], H[k]), b, p, Lists(W, (k - 1) + 1), ListCode(W, E))
      BY <1>1, <2>1, ExtendReads
    <2> QED BY <2>1, <2>2, <2>3
  <1> HIDE DEF Good
  <1>2. SUFFICES ASSUME Bad # {} PROVE FALSE
    BY DEF Good
  <1>3. PICK m \in Bad : \A j \in Bad : m <= j
    <2>1. Bad \in SUBSET Nat
      OBVIOUS
    <2> HIDE DEF Bad
    <2> QED BY <1>2, <2>1, LeastNumber
  <1>4. m \in 0..n /\ ~Good(m)
    BY <1>3
  <1>5. m # 0
    BY <1>0, <1>4
  <1>6. m \in 1..n /\ m - 1 \in 0..n /\ ~(m <= m - 1)
    BY <1>4, <1>5
  <1>7. Good(m - 1)
    BY <1>3, <1>6
  <1> QED BY <1>1, <1>4, <1>6, <1>7
\* A list is encoded as its length and its elements.
AllCode(W, E) == [s \in Seq(W) |-> EncodeAll([i \in DOMAIN s |-> E[s[i]]])]

LEMMA AllCodeIs ==
  ASSUME NEW W, NEW E \in [W -> Bytes], NEW s \in Seq(W)
  PROVE  /\ AllCode(W, E)[s] = <<Len(s)>> \o ListCode(W, E)[s]
         /\ ListCode(W, E)[s] \in Bytes /\ <<Len(s)>> \in Bytes
         /\ AllCode(W, E)[s] \in Bytes
         /\ Len(AllCode(W, E)[s]) = 1 + Len(ListCode(W, E)[s])
  <1>1. ListCode(W, E)[s] = Coded(s, E)
    BY DEF ListCode
  <1>2. Coded(s, E) \in Bytes
    <2>1. [i \in DOMAIN s |-> E[s[i]]] \in Seq(Bytes)
      OBVIOUS
    <2>2. <<>> \in Bytes
      BY DEF Bytes
    <2> QED BY <2>1, <2>2, FlattenAppend DEF Coded
  <1>3. <<Len(s)>> \in Bytes /\ Len(<<Len(s)>>) = 1
    BY DEF Bytes
  <1>4. Len([i \in DOMAIN s |-> E[s[i]]]) = Len(s)
    OBVIOUS
  <1>5. AllCode(W, E)[s] = <<Len(s)>> \o Coded(s, E)
    BY <1>4 DEF AllCode, EncodeAll, Coded
  <1>6. /\ <<Len(s)>> \o Coded(s, E) \in Bytes
        /\ Len(<<Len(s)>> \o Coded(s, E)) = 1 + Len(Coded(s, E))
    <2>1. 1 \in Nat \ {0}
      OBVIOUS
    <2> QED BY <1>2, <1>3, <2>1, HasBoth
  <1> QED BY <1>1, <1>2, <1>3, <1>5, <1>6

\* Counted, if an item is read at every place.
LEMMA CountedReads ==
  ASSUME NEW b \in Bytes, NEW p \in Nat \ {0}, NEW max \in Nat,
         NEW W, NEW E \in [W -> Bytes], NEW item,
         \A j \in Places(b) : Reads(item[j], b, j, W, E)
  PROVE  Reads(Counted(b, p, max, item), b, p,
               {s \in Seq(W) : Len(s) <= max}, AllCode(W, E))
  <1> DEFINE C == ListCode(W, E)  A == AllCode(W, E)
             V == {s \in Seq(W) : Len(s) <= max}
             n == b[p]
             read(q, m) == CHOOSE g : Rounds(q, m, item, g)
             f == read(p + 1, n)
             r == Counted(b, p, max, item)
  <1>1. r = IF p <= Len(b) /\ n <= max THEN f[n] ELSE Fail
    <2>1. ASSUME NEW h, h = Fixed(b, p)
          PROVE  r = IF h.ok
                     THEN IF h.value <= max
                          THEN read(h.at, h.value)[h.value]
                          ELSE Fail
                     ELSE Fail
      BY <2>1 DEF Counted, Then, Rounds, Extended
    <2>2. Fixed(b, p) = IF p <= Len(b) THEN Got(n, p + 1) ELSE Fail
      BY DEF Fixed
    <2> HIDE DEF r, n, read
    <2> QED BY <2>1, <2>2, GotIs
  <1> HIDE DEF r
  <1>2. p <= Len(b) => n \in Nat /\ p + 1 \in Places(b)
    BY DEF Bytes, Places
  <1>3. ASSUME p <= Len(b) PROVE Reads(f[n], b, p + 1, Lists(W, n), C)
    <2>1. n \in Nat /\ p + 1 \in Places(b)
      BY <1>2, <1>3
    <2> HIDE DEF n
    <2>2. Rounds(p + 1, n, item, f)
      BY <2>1, RoundsExist
    <2> HIDE DEF f, read
    <2>3. \A k \in 0..n : f[k] = IF k = 0 THEN Got(<<>>, p + 1)
                                 ELSE Extended(f[k - 1], item[f[k - 1].at])
      BY <2>2 DEF Rounds
    <2> DEFINE H == [k \in 1..n |-> item[f[k - 1].at]]
    <2>4. f[0] = Got(<<>>, p + 1)
      BY <2>1, <2>3
    <2>5. \A k \in 1..n : H[k] = item[f[k - 1].at]
      OBVIOUS
    <2> HIDE DEF H
    <2>6. \A k \in 1..n : f[k] = Extended(f[k - 1], H[k])
      BY <2>1, <2>3, <2>5
    <2>7. \A k \in 1..n : f[k - 1].ok /\ f[k - 1].at \in Places(b)
                            => Reads(H[k], b, f[k - 1].at, W, E)
      BY <2>5
    <2>8. \A k \in 0..n : Reads(f[k], b, p + 1, Lists(W, k), C)
      BY <2>1, <2>4, <2>6, <2>7, RoundsRead
    <2> QED BY <2>1, <2>8
  <1>4. ASSUME NEW s \in V
        PROVE  /\ Len(s) \in Nat /\ Len(s) <= max /\ s \in Lists(W, Len(s))
               /\ C[s] \in Bytes /\ p + Len(A[s]) = (p + 1) + Len(C[s])
               /\ Has(b, p, A[s]) <=>
                    p <= Len(b) /\ n = Len(s) /\ Has(b, p + 1, C[s])
    <2>1. s \in Seq(W) /\ Len(s) \in Nat
      OBVIOUS
    <2>2. /\ A[s] = <<Len(s)>> \o C[s] /\ C[s] \in Bytes /\ <<Len(s)>> \in Bytes
          /\ Len(A[s]) = 1 + Len(C[s])
      BY <2>1, AllCodeIs
    <2>3. Len(C[s]) \in Nat
      BY <2>2 DEF Bytes
    <2> HIDE DEF A, C
    <2>4. Len(<<Len(s)>>) = 1 /\ (Has(b, p, <<Len(s)>>) <=> p <= Len(b) /\ n = Len(s))
      BY <2>1, HasOne
    <2>5. Has(b, p, <<Len(s)>> \o C[s])
            <=> Has(b, p, <<Len(s)>>) /\ Has(b, p + Len(<<Len(s)>>), C[s])
      BY <2>2, HasBoth
    <2>6. s \in Lists(W, Len(s)) /\ Len(s) <= max
      BY <2>1 DEF Lists
    <2>7. /\ p + Len(<<Len(s)>>) = p + 1
          /\ p + Len(A[s]) = (p + 1) + Len(C[s])
      <3>1. p + Len(<<Len(s)>>) = p + 1
        BY <2>4
      <3>2. PICK m \in Nat : m = Len(C[s])
        BY <2>3
      <3>3. Len(A[s]) = 1 + m
        BY <2>2, <3>2
      <3>4. p + (1 + m) = (p + 1) + m
        OBVIOUS
      <3> QED BY <3>1, <3>2, <3>3, <3>4
    <2>8. Has(b, p, A[s]) <=> p <= Len(b) /\ n = Len(s) /\ Has(b, p + 1, C[s])
      BY <2>2, <2>4, <2>5, <2>7
    <2> HIDE DEF V, n
    <2> QED BY <2>1, <2>2, <2>6, <2>7, <2>8
  <1> HIDE DEF A, C, f, read
  <1>5. r = Fail \/ \E s \in V : r = Got(s, p + Len(A[s])) /\ Has(b, p, A[s])
    <2>1. CASE r # Fail
      <3>1. p <= Len(b) /\ n <= max /\ r = f[n]
        BY <1>1, <2>1
      <3>2. PICK s \in Lists(W, n) : f[n] = Got(s, p + 1 + Len(C[s]))
                                     /\ Has(b, p + 1, C[s])
        BY <1>3, <2>1, <3>1 DEF Reads
      <3>3. s \in V /\ n = Len(s)
        BY <3>1, <3>2 DEF Lists
      <3> HIDE DEF V, n
      <3> QED BY <1>4, <3>1, <3>2, <3>3
    <2> QED BY <2>1
  <1>6. ASSUME NEW s \in V, Has(b, p, A[s]) PROVE r = Got(s, p + Len(A[s]))
    <2>1. p <= Len(b) /\ n = Len(s) /\ Has(b, p + 1, C[s]) /\ n <= max
          /\ s \in Lists(W, n) /\ p + Len(A[s]) = (p + 1) + Len(C[s])
      BY <1>4, <1>6
    <2>2. f[n] = Got(s, (p + 1) + Len(C[s]))
      BY <1>3, <2>1 DEF Reads
    <2> QED BY <1>1, <2>1, <2>2
  <1> QED BY <1>5, <1>6 DEF Reads, A, r

\* consensus_decode of a whole byte string, of which r was read.
Decoded(bytes, r) ==
  IF Len(bytes) > Limit.allocation THEN Fail
  ELSE IF r.ok THEN IF r.at = Len(bytes) + 1 THEN Got(r.value, r.at) ELSE Fail
               ELSE Fail

LEMMA DecodedIs ==
  ASSUME NEW bytes \in Bytes, NEW W, NEW E \in [W -> Bytes], NEW r,
         Reads(r, bytes, 1, W, E), Len(bytes) <= Limit.allocation
  PROVE  /\ \/ Decoded(bytes, r) = Fail
            \/ \E v \in W : /\ Decoded(bytes, r) = Got(v, Len(bytes) + 1)
                            /\ E[v] = bytes
         /\ \A v \in W : E[v] = bytes => Decoded(bytes, r) = Got(v, Len(bytes) + 1)
  <1>1. Len(bytes) \in Nat /\ Limit.allocation \in Nat
    BY CodecAssumption DEF Bytes
  <1>2. Decoded(bytes, r) = IF r.ok /\ r.at = Len(bytes) + 1 THEN Got(r.value, r.at)
                                                           ELSE Fail
    BY <1>1 DEF Decoded
  <1>3. \A v \in W : /\ E[v] \in Bytes /\ Len(E[v]) \in Nat
                     /\ Has(bytes, 1, E[v]) /\ Len(E[v]) = Len(bytes) <=> E[v] = bytes
    BY HasAll DEF Bytes
  <1>4. ASSUME NEW v \in W, r = Got(v, 1 + Len(E[v])), Has(bytes, 1, E[v]),
               r.at = Len(bytes) + 1
        PROVE  E[v] = bytes /\ r.value = v
    <2>1. 1 + Len(E[v]) = Len(bytes) + 1 /\ r.value = v
      BY <1>4, GotIs
    <2> QED BY <1>1, <1>3, <1>4, <2>1
  <1>5. ASSUME NEW v \in W, E[v] = bytes
        PROVE  Decoded(bytes, r) = Got(v, Len(bytes) + 1)
    <2>1. r = Got(v, 1 + Len(bytes))
      BY <1>3, <1>5 DEF Reads
    <2>2. 1 + Len(bytes) = Len(bytes) + 1
      BY <1>1
    <2> QED BY <1>2, <2>1, <2>2, GotIs
  <1> QED BY <1>2, <1>4, <1>5, GotIs DEF Reads

\* A value in a byte string of its own: whatever byte string stands there, R
\* is what consensus_decode reads of it.
LEMMA NestedReads ==
  ASSUME NEW b \in Bytes, NEW p \in Nat \ {0}, NEW max \in 0..Limit.allocation,
         NEW W, NEW E \in [W -> Bytes], NEW R,
         \A bytes \in Bytes : Reads(R[bytes], bytes, 1, W, E),
         NEW x, \A r : r = ReadBytes(b, p, max) /\ (r.ok => r.value \in Bytes) =>
                  x = IF r.ok
                      THEN IF Decoded(r.value, R[r.value]).ok
                           THEN Got(Decoded(r.value, R[r.value]).value, r.at)
                           ELSE Fail
                      ELSE Fail
  PROVE  Reads(x, b, p, {v \in W : Len(E[v]) <= max}, [v \in W |-> Prefixed(E[v])])
  <1> DEFINE P == [v \in W |-> Prefixed(E[v])]
             V == {v \in W : Len(E[v]) <= max}
             r == ReadBytes(b, p, max)
             d == Decoded(r.value, R[r.value])
             S == {s \in Bytes : Len(s) <= max}
  <1>1. Limit.allocation \in Nat
    BY CodecAssumption
  <1>2. /\ r = Fail \/ \E s \in S : r = Got(s, p + Len(BytesCode[s]))
                                    /\ Has(b, p, BytesCode[s])
        /\ \A s \in S : Has(b, p, BytesCode[s]) => r = Got(s, p + Len(BytesCode[s]))
    BY BytesRead DEF Reads
  <1>3. x = IF r.ok THEN IF d.ok THEN Got(d.value, r.at) ELSE Fail ELSE Fail
    <2>1. r.ok => r.value \in Bytes
      BY <1>2, GotIs
    <2> QED BY <2>1
  <1>4. \A s \in Bytes : BytesCode[s] = Prefixed(s)
    BY DEF BytesCode
  <1>5. ASSUME NEW s \in S, r = Got(s, p + Len(Prefixed(s)))
        PROVE  /\ r.ok /\ r.value = s /\ r.at = p + Len(Prefixed(s))
               /\ \/ d = Fail
                  \/ \E v \in W : d = Got(v, Len(s) + 1) /\ E[v] = s
               /\ \A v \in W : E[v] = s => d = Got(v, Len(s) + 1)
    <2>1. r.ok /\ r.value = s /\ r.at = p + Len(Prefixed(s))
      BY <1>5, GotIs
    <2>2. s \in Bytes /\ Len(s) <= Limit.allocation
      BY <1>1 DEF Bytes
    <2>3. Reads(R[s], s, 1, W, E) /\ d = Decoded(s, R[s])
      BY <2>1, <2>2
    <2> HIDE DEF d, r, S
    <2> QED BY <2>1, <2>2, <2>3, DecodedIs
  <1>6. \A v \in W : P[v] = Prefixed(E[v]) /\ E[v] \in Bytes
    OBVIOUS
  <1>7. \A v \in V : v \in W /\ E[v] \in S
    OBVIOUS
  <1>8. \A v \in W : E[v] \in S => v \in V
    OBVIOUS
  <1>s. \A s \in S : s \in Bytes
    OBVIOUS
  <1> HIDE DEF P, V, S, r, d
  <1>9. x = Fail \/ \E v \in V : x = Got(v, p + Len(P[v])) /\ Has(b, p, P[v])
    <2>1. CASE x # Fail
      <3>1. PICK s \in S : r = Got(s, p + Len(Prefixed(s))) /\ Has(b, p, Prefixed(s))
        BY <1>2, <1>3, <1>4, <1>s, <2>1, GotIs
      <3>2. d # Fail
        BY <1>3, <1>5, <2>1, <3>1, GotIs
      <3>3. PICK v \in W : d = Got(v, Len(s) + 1) /\ E[v] = s
        BY <1>5, <3>1, <3>2
      <3>4. x = Got(v, p + Len(P[v]))
        BY <1>3, <1>5, <1>6, <3>1, <3>3, GotIs
      <3> QED BY <1>6, <1>8, <3>1, <3>3, <3>4
    <2> QED BY <2>1
  <1>10. ASSUME NEW v \in V, Has(b, p, P[v]) PROVE x = Got(v, p + Len(P[v]))
    <2>1. E[v] \in S /\ v \in W /\ P[v] = Prefixed(E[v]) /\ E[v] \in Bytes
      BY <1>6, <1>7
    <2>2. r = Got(E[v], p + Len(Prefixed(E[v])))
      BY <1>2, <1>4, <1>10, <2>1
    <2>3. d = Got(v, Len(E[v]) + 1)
      BY <1>5, <2>1, <2>2
    <2> QED BY <1>3, <1>5, <2>1, <2>2, <2>3, GotIs
  <1> QED BY <1>9, <1>10 DEF Reads, P, V
-----------------------------------------------------------------------------
(* Readers of several fields.                                              *)

\* One result after the other.
Pair(r, s) ==
  IF r.ok THEN IF s.ok THEN Got(<<r.value, s.value>>, s.at) ELSE Fail ELSE Fail

PairCode(W, E, V, D) == [w \in W \X V |-> E[w[1]] \o D[w[2]]]

LEMMA PairIs ==
  ASSUME NEW r, NEW s
  PROVE  /\ Pair(r, s).ok <=> r.ok /\ s.ok
         /\ r.ok /\ s.ok => Pair(r, s) = Got(<<r.value, s.value>>, s.at)
         /\ Pair(r, s).ok => Pair(r, s).at = s.at
                             /\ Pair(r, s).value = <<r.value, s.value>>
         /\ ~(r.ok /\ s.ok) => Pair(r, s) = Fail
  BY GotIs DEF Pair

LEMMA PairReads ==
  ASSUME NEW b \in Bytes, NEW p \in Nat \ {0},
         NEW W, NEW E \in [W -> Bytes], NEW V, NEW D \in [V -> Bytes],
         NEW r, NEW s, Reads(r, b, p, W, E),
         \A q \in Places(b) : r.ok /\ r.at = q => Reads(s, b, q, V, D)
  PROVE  /\ PairCode(W, E, V, D) \in [W \X V -> Bytes]
         /\ Reads(Pair(r, s), b, p, W \X V, PairCode(W, E, V, D))
  <1> DEFINE C == PairCode(W, E, V, D)  x == Pair(r, s)
  <1>1. ASSUME NEW w \in W, NEW v \in V
        PROVE  /\ E[w] \in Bytes /\ D[v] \in Bytes
               /\ <<w, v>> \in W \X V /\ C[<<w, v>>] = E[w] \o D[v]
               /\ C[<<w, v>>] \in Bytes
               /\ p + Len(C[<<w, v>>]) = (p + Len(E[w])) + Len(D[v])
               /\ Has(b, p, C[<<w, v>>])
                    <=> Has(b, p, E[w]) /\ Has(b, p + Len(E[w]), D[v])
    <2>1. C[<<w, v>>] = E[w] \o D[v]
      BY DEF PairCode
    <2>2. E[w] \in Bytes /\ D[v] \in Bytes /\ <<w, v>> \in W \X V
      OBVIOUS
    <2> HIDE DEF C
    <2>3. /\ E[w] \o D[v] \in Bytes
          /\ Len(E[w] \o D[v]) = Len(E[w]) + Len(D[v])
          /\ Has(b, p, E[w] \o D[v])
               <=> Has(b, p, E[w]) /\ Has(b, p + Len(E[w]), D[v])
      BY <2>2, HasBoth
    <2>4. Len(E[w]) \in Nat /\ Len(D[v]) \in Nat
      BY <2>2 DEF Bytes
    <2> QED BY <2>1, <2>2, <2>3, <2>4
  <1>2. C \in [W \X V -> Bytes]
    BY <1>1 DEF PairCode
  <1> HIDE DEF C
  <1>3. ASSUME NEW w \in W, r = Got(w, p + Len(E[w])), Has(b, p, E[w])
        PROVE  /\ r.ok /\ r.value = w
               /\ \/ s = Fail
                  \/ \E v \in V : /\ s = Got(v, (p + Len(E[w])) + Len(D[v]))
                                  /\ Has(b, p + Len(E[w]), D[v])
               /\ \A v \in V : Has(b, p + Len(E[w]), D[v])
                                 => s = Got(v, (p + Len(E[w])) + Len(D[v]))
    <2>1. r.ok /\ r.value = w /\ r.at = p + Len(E[w])
      BY <1>3, GotIs
    <2>2. p + Len(E[w]) \in Places(b)
      BY <1>3, HasEnd
    <2>3. Reads(s, b, p + Len(E[w]), V, D)
      BY <2>1, <2>2
    <2> QED BY <2>1, <2>3 DEF Reads
  <1>4. ASSUME x # Fail
        PROVE  \E u \in W \X V : x = Got(u, p + Len(C[u])) /\ Has(b, p, C[u])
    <2>1. r.ok /\ s.ok /\ x = Got(<<r.value, s.value>>, s.at)
      BY <1>4, PairIs
    <2>2. PICK w \in W : r = Got(w, p + Len(E[w])) /\ Has(b, p, E[w])
      BY <2>1, GotIs DEF Reads
    <2>3. PICK v \in V : s = Got(v, (p + Len(E[w])) + Len(D[v]))
                         /\ Has(b, p + Len(E[w]), D[v])
      BY <1>3, <2>1, <2>2, GotIs
    <2>4. x = Got(<<w, v>>, (p + Len(E[w])) + Len(D[v]))
      BY <2>1, <2>2, <2>3, GotIs
    <2> HIDE DEF x
    <2> QED BY <1>1, <2>2, <2>3, <2>4
  <1>5. ASSUME NEW u \in W \X V, Has(b, p, C[u]) PROVE x = Got(u, p + Len(C[u]))
    <2>1. PICK w \in W, v \in V : u = <<w, v>>
      OBVIOUS
    <2>2. r = Got(w, p + Len(E[w])) /\ Has(b, p, E[w])
      BY <1>1, <1>5, <2>1 DEF Reads
    <2>3. s = Got(v, (p + Len(E[w])) + Len(D[v]))
      BY <1>1, <1>3, <1>5, <2>1, <2>2
    <2>4. x = Got(<<w, v>>, (p + Len(E[w])) + Len(D[v]))
      BY <2>2, <2>3, PairIs, GotIs
    <2> HIDE DEF x
    <2> QED BY <1>1, <2>1, <2>4
  <1> HIDE DEF x
  <1>6. Reads(x, b, p, W \X V, C)
    BY <1>4, <1>5 DEF Reads
  <1> QED BY <1>2, <1>6 DEF C, x

LEMMA CodeTypes ==
  /\ SymbolCode \in [Nat -> Bytes] /\ BytesCode \in [Bytes -> Bytes]
  /\ \A max : [v \in {s \in Bytes : Len(s) <= max} |-> Prefixed(v)]
                \in [{s \in Bytes : Len(s) <= max} -> Bytes]
  <1>1. \A v \in Nat : <<v>> \in Bytes
    BY DEF Bytes
  <1> QED BY <1>1, PrefixedIs DEF SymbolCode, BytesCode

\* Byte strings of a length, and how they are encoded.
Upto(max) == {s \in Bytes : Len(s) <= max}
UptoCode(max) == [s \in Upto(max) |-> Prefixed(s)]

LEMMA UptoReads ==
  ASSUME NEW b \in Bytes, NEW p \in Nat \ {0}, NEW max \in 0..Limit.allocation
  PROVE  /\ UptoCode(max) \in [Upto(max) -> Bytes]
         /\ Reads(ReadBytes(b, p, max), b, p, Upto(max), UptoCode(max))
  <1>1. \A s \in Upto(max) : s \in Bytes /\ UptoCode(max)[s] = BytesCode[s]
    BY DEF Upto, UptoCode, BytesCode
  <1>2. UptoCode(max) \in [Upto(max) -> Bytes]
    BY CodeTypes DEF Upto, UptoCode
  <1>3. Reads(ReadBytes(b, p, max), b, p, Upto(max), BytesCode)
    BY BytesRead DEF Upto
  <1> QED BY <1>1, <1>2, <1>3 DEF Reads

LEMMA LimitsAre ==
  /\ Limit.allocation \in Nat \ {0}
  /\ \A kind \in {"block", "tx", "template", "witness", "key", "signature",
                  "url", "hello", "chain", "node_key"} :
       Limit[kind] \in 0..Limit.allocation
  /\ \A kind \in {"txs", "templates", "shares", "locator", "headers", "urls",
                  "frame"} :
       Limit[kind] \in Nat
  BY CodecAssumption

\* How single codes and pairs of them look.
LEMMA CodesAt ==
  /\ \A x \in Nat : SymbolCode[x] = <<x>>
  /\ \A max : \A s \in Upto(max) : UptoCode(max)[s] = Prefixed(s)
  /\ \A W, E, V, D : \A w \in W, v \in V :
       PairCode(W, E, V, D)[<<w, v>>] = E[w] \o D[v]
  BY DEF SymbolCode, UptoCode, PairCode

LEMMA PlacesAre == ASSUME NEW b \in Bytes PROVE Places(b) \subseteq Nat \ {0}
  BY DEF Places, Bytes

\* Code c stands at p and ends before q.
Stands(b, p, c, q) == Has(b, p, c) /\ q = p + Len(c)

\* s is what is read where r ended.
Follows(r, s, b, W, E) ==
  \A q \in Places(b) : r.ok /\ r.at = q => Reads(s, b, q, W, E)

\* Two fields in a row: what was read of each has its encoding there, and what
\* has its encoding there is read.
Two(b, p, r1, W1, E1, r2, W2, E2) ==
  /\ r1.ok /\ r2.ok =>
       /\ r1.value \in W1 /\ r2.value \in W2
       /\ Stands(b, p, E1[r1.value] \o E2[r2.value], r2.at)
  /\ \A v1 \in W1, v2 \in W2 : Has(b, p, E1[v1] \o E2[v2]) =>
       /\ r1.ok /\ r1.value = v1 /\ r2.ok /\ r2.value = v2
       /\ r2.at = p + Len(E1[v1] \o E2[v2])

\* Three fields.
Three(b, p, r1, W1, E1, r2, W2, E2, r3, W3, E3) ==
  /\ r1.ok /\ r2.ok /\ r3.ok =>
       /\ r1.value \in W1 /\ r2.value \in W2 /\ r3.value \in W3
       /\ Stands(b, p, E1[r1.value] \o E2[r2.value] \o E3[r3.value], r3.at)
  /\ \A v1 \in W1, v2 \in W2, v3 \in W3 : Has(b, p, E1[v1] \o E2[v2] \o E3[v3]) =>
       /\ r1.ok /\ r1.value = v1 /\ r2.ok /\ r2.value = v2 /\ r3.ok /\ r3.value = v3
       /\ r3.at = p + Len(E1[v1] \o E2[v2] \o E3[v3])

LEMMA TwoRead ==
  ASSUME NEW b \in Bytes, NEW p \in Nat \ {0},
         NEW W1, NEW E1 \in [W1 -> Bytes], NEW W2, NEW E2 \in [W2 -> Bytes],
         NEW r1, NEW r2, Reads(r1, b, p, W1, E1),
         Follows(r1, r2, b, W2, E2)
  PROVE  Two(b, p, r1, W1, E1, r2, W2, E2)
  <1> DEFINE C == PairCode(W1, E1, W2, E2)  x == Pair(r1, r2)
  <1>1. Reads(x, b, p, W1 \X W2, C)
    BY PairReads DEF Follows
  <1>2. \A v1 \in W1, v2 \in W2 :
          <<v1, v2>> \in W1 \X W2 /\ C[<<v1, v2>>] = E1[v1] \o E2[v2]
    BY DEF PairCode
  <1>3. r1.ok /\ r2.ok => x = Got(<<r1.value, r2.value>>, r2.at)
    BY PairIs
  <1>4. x.ok => r1.ok /\ r2.ok
    BY PairIs
  <1> HIDE DEF C, x
  <1>r. /\ x = Fail \/ \E u \in W1 \X W2 : x = Got(u, p + Len(C[u])) /\ Has(b, p, C[u])
        /\ \A u \in W1 \X W2 : Has(b, p, C[u]) => x = Got(u, p + Len(C[u]))
    BY <1>1 DEF Reads
  <1>5. ASSUME r1.ok, r2.ok
        PROVE  /\ r1.value \in W1 /\ r2.value \in W2
               /\ Stands(b, p, E1[r1.value] \o E2[r2.value], r2.at)
    <2>1. PICK u \in W1 \X W2 : x = Got(u, p + Len(C[u])) /\ Has(b, p, C[u])
      BY <1>r, <1>3, <1>5, GotIs
    <2>2. u = <<r1.value, r2.value>> /\ r2.at = p + Len(C[u])
      BY <1>3, <1>5, <2>1, GotIs
    <2>3. r1.value \in W1 /\ r2.value \in W2
      BY <2>2
    <2> QED BY <1>2, <2>1, <2>2, <2>3 DEF Stands
  <1>6. ASSUME NEW v1 \in W1, NEW v2 \in W2, Has(b, p, E1[v1] \o E2[v2])
        PROVE  /\ r1.ok /\ r1.value = v1 /\ r2.ok /\ r2.value = v2
               /\ r2.at = p + Len(E1[v1] \o E2[v2])
    <2> DEFINE u == <<v1, v2>>  c == E1[v1] \o E2[v2]
    <2>0. u \in W1 \X W2 /\ C[u] = c
      BY <1>2
    <2>a. Has(b, p, c)
      BY <1>6
    <2> HIDE DEF u, c
    <2>1. x = Got(u, p + Len(c))
      BY <1>r, <2>0, <2>a
    <2>2. r1.ok /\ r2.ok
      BY <1>4, <2>1, GotIs
    <2>3. u = <<r1.value, r2.value>> /\ r2.at = p + Len(c)
      BY <1>3, <2>1, <2>2, GotIs
    <2>4. v1 = r1.value /\ v2 = r2.value
      BY <2>3 DEF u
    <2> QED BY <2>2, <2>3, <2>4 DEF c
  <1> QED BY <1>5, <1>6 DEF Two

LEMMA ThreeRead ==
  ASSUME NEW b \in Bytes, NEW p \in Nat \ {0},
         NEW W1, NEW E1 \in [W1 -> Bytes], NEW W2, NEW E2 \in [W2 -> Bytes],
         NEW W3, NEW E3 \in [W3 -> Bytes],
         NEW r1, NEW r2, NEW r3, Reads(r1, b, p, W1, E1),
         Follows(r1, r2, b, W2, E2),
         Follows(r2, r3, b, W3, E3)
  PROVE  Three(b, p, r1, W1, E1, r2, W2, E2, r3, W3, E3)
  <1> DEFINE C == PairCode(W1, E1, W2, E2)  x == Pair(r1, r2)  W == W1 \X W2
  <1>1. Reads(x, b, p, W, C) /\ C \in [W -> Bytes]
    <2>1. /\ PairCode(W1, E1, W2, E2) \in [W1 \X W2 -> Bytes]
          /\ Reads(Pair(r1, r2), b, p, W1 \X W2, PairCode(W1, E1, W2, E2))
      BY PairReads DEF Follows
    <2> QED BY <2>1
  <1>2. \A v1 \in W1, v2 \in W2 :
          <<v1, v2>> \in W /\ C[<<v1, v2>>] = E1[v1] \o E2[v2]
    BY DEF PairCode
  <1>3. /\ r1.ok /\ r2.ok => x.ok
        /\ x.ok => /\ r1.ok /\ r2.ok /\ x.value = <<r1.value, r2.value>>
                   /\ x.at = r2.at
    <2>1. r1.ok /\ r2.ok => x = Got(<<r1.value, r2.value>>, r2.at)
      BY PairIs
    <2>2. x.ok => r1.ok /\ r2.ok
      BY PairIs
    <2> HIDE DEF x
    <2> QED BY <2>1, <2>2, GotIs
  <1> HIDE DEF C, x
  <1>4. Follows(x, r3, b, W3, E3)
    BY <1>3 DEF Follows
  <1> HIDE DEF W
  <1>5. Two(b, p, x, W, C, r3, W3, E3)
    BY <1>1, <1>4, TwoRead
  <1>6. ASSUME r1.ok, r2.ok, r3.ok
        PROVE  /\ r1.value \in W1 /\ r2.value \in W2 /\ r3.value \in W3
               /\ Stands(b, p, E1[r1.value] \o E2[r2.value] \o E3[r3.value], r3.at)
    <2>1. x.ok /\ x.value = <<r1.value, r2.value>>
      BY <1>3, <1>6
    <2>2. /\ x.value \in W /\ r3.value \in W3
          /\ Stands(b, p, C[x.value] \o E3[r3.value], r3.at)
      BY <1>5, <1>6, <2>1 DEF Two
    <2>3. r1.value \in W1 /\ r2.value \in W2
      BY <2>1, <2>2 DEF W
    <2>4. C[x.value] = E1[r1.value] \o E2[r2.value]
      BY <1>2, <2>1, <2>3, ZenonT(40)
    <2> QED BY <2>2, <2>3, <2>4
  <1>7. ASSUME NEW v1 \in W1, NEW v2 \in W2, NEW v3 \in W3,
               Has(b, p, E1[v1] \o E2[v2] \o E3[v3])
        PROVE  /\ r1.ok /\ r1.value = v1 /\ r2.ok /\ r2.value = v2
               /\ r3.ok /\ r3.value = v3
               /\ r3.at = p + Len(E1[v1] \o E2[v2] \o E3[v3])
    <2>1. PICK u : u = <<v1, v2>>
      OBVIOUS
    <2>2. u \in W /\ C[u] = E1[v1] \o E2[v2]
      BY <1>2, <2>1
    <2>3. Has(b, p, C[u] \o E3[v3])
      BY <1>7, <2>2
    <2>4. /\ x.ok /\ x.value = u /\ r3.ok /\ r3.value = v3
          /\ r3.at = p + Len(C[u] \o E3[v3])
      BY <1>5, <2>2, <2>3 DEF Two
    <2>5. r1.ok /\ r2.ok /\ u = <<r1.value, r2.value>>
      BY <1>3, <2>4
    <2>6. r1.value = v1 /\ r2.value = v2
      BY <2>1, <2>5
    <2> QED BY <2>2, <2>4, <2>5, <2>6
  <1> QED BY <1>6, <1>7 DEF Three

\* Four fields.
Four(b, p, r1, W1, E1, r2, W2, E2, r3, W3, E3, r4, W4, E4) ==
  /\ r1.ok /\ r2.ok /\ r3.ok /\ r4.ok =>
       /\ r1.value \in W1 /\ r2.value \in W2
       /\ r3.value \in W3 /\ r4.value \in W4
       /\ Stands(b, p, E1[r1.value] \o E2[r2.value] \o E3[r3.value]
                         \o E4[r4.value], r4.at)
  /\ \A v1 \in W1, v2 \in W2, v3 \in W3, v4 \in W4 :
       Has(b, p, E1[v1] \o E2[v2] \o E3[v3] \o E4[v4]) =>
         /\ r1.ok /\ r1.value = v1 /\ r2.ok /\ r2.value = v2
         /\ r3.ok /\ r3.value = v3 /\ r4.ok /\ r4.value = v4
         /\ r4.at = p + Len(E1[v1] \o E2[v2] \o E3[v3] \o E4[v4])

LEMMA FourRead ==
  ASSUME NEW b \in Bytes, NEW p \in Nat \ {0},
         NEW W1, NEW E1 \in [W1 -> Bytes], NEW W2, NEW E2 \in [W2 -> Bytes],
         NEW W3, NEW E3 \in [W3 -> Bytes], NEW W4, NEW E4 \in [W4 -> Bytes],
         NEW r1, NEW r2, NEW r3, NEW r4, Reads(r1, b, p, W1, E1),
         Follows(r1, r2, b, W2, E2),
         Follows(r2, r3, b, W3, E3), Follows(r3, r4, b, W4, E4)
  PROVE  Four(b, p, r1, W1, E1, r2, W2, E2, r3, W3, E3, r4, W4, E4)
  <1> DEFINE C == PairCode(W1, E1, W2, E2)  x == Pair(r1, r2)  W == W1 \X W2
  <1>1. Reads(x, b, p, W, C) /\ C \in [W -> Bytes]
    <2>1. /\ PairCode(W1, E1, W2, E2) \in [W1 \X W2 -> Bytes]
          /\ Reads(Pair(r1, r2), b, p, W1 \X W2, PairCode(W1, E1, W2, E2))
      BY PairReads DEF Follows
    <2> QED BY <2>1
  <1>2. \A v1 \in W1, v2 \in W2 :
          <<v1, v2>> \in W /\ C[<<v1, v2>>] = E1[v1] \o E2[v2]
    BY DEF PairCode
  <1>3. /\ r1.ok /\ r2.ok => x.ok
        /\ x.ok => /\ r1.ok /\ r2.ok /\ x.value = <<r1.value, r2.value>>
                   /\ x.at = r2.at
    <2>1. r1.ok /\ r2.ok => x = Got(<<r1.value, r2.value>>, r2.at)
      BY PairIs
    <2>2. x.ok => r1.ok /\ r2.ok
      BY PairIs
    <2> HIDE DEF x
    <2> QED BY <2>1, <2>2, GotIs
  <1> HIDE DEF C, x
  <1>4. Follows(x, r3, b, W3, E3)
    BY <1>3 DEF Follows
  <1> HIDE DEF W
  <1>5. Three(b, p, x, W, C, r3, W3, E3, r4, W4, E4)
    BY <1>1, <1>4, ThreeRead
  <1>6. ASSUME r1.ok, r2.ok, r3.ok, r4.ok
        PROVE  /\ r1.value \in W1 /\ r2.value \in W2
               /\ r3.value \in W3 /\ r4.value \in W4
               /\ Stands(b, p, E1[r1.value] \o E2[r2.value] \o E3[r3.value]
                              \o E4[r4.value], r4.at)
    <2>1. x.ok /\ x.value = <<r1.value, r2.value>>
      BY <1>3, <1>6
    <2>2. /\ x.value \in W /\ r3.value \in W3 /\ r4.value \in W4
          /\ Stands(b, p, C[x.value] \o E3[r3.value] \o E4[r4.value], r4.at)
      BY <1>5, <1>6, <2>1 DEF Three
    <2>3. r1.value \in W1 /\ r2.value \in W2
      BY <2>1, <2>2 DEF W
    <2>4. C[x.value] = E1[r1.value] \o E2[r2.value]
      BY <1>2, <2>1, <2>3, ZenonT(40)
    <2> QED BY <2>2, <2>3, <2>4
  <1>7. ASSUME NEW v1 \in W1, NEW v2 \in W2, NEW v3 \in W3, NEW v4 \in W4,
               Has(b, p, E1[v1] \o E2[v2] \o E3[v3] \o E4[v4])
        PROVE  /\ r1.ok /\ r1.value = v1 /\ r2.ok /\ r2.value = v2
               /\ r3.ok /\ r3.value = v3
               /\ r4.ok /\ r4.value = v4
               /\ r4.at = p + Len(E1[v1] \o E2[v2] \o E3[v3] \o E4[v4])
    <2>1. PICK u : u = <<v1, v2>>
      OBVIOUS
    <2>2. u \in W /\ C[u] = E1[v1] \o E2[v2]
      BY <1>2, <2>1
    <2>3. Has(b, p, C[u] \o E3[v3] \o E4[v4])
      BY <1>7, <2>2
    <2>4. /\ x.ok /\ x.value = u /\ r3.ok /\ r3.value = v3
          /\ r4.ok /\ r4.value = v4
          /\ r4.at = p + Len(C[u] \o E3[v3] \o E4[v4])
      BY <1>5, <2>2, <2>3 DEF Three
    <2>5. r1.ok /\ r2.ok /\ u = <<r1.value, r2.value>>
      BY <1>3, <2>4
    <2>6. r1.value = v1 /\ r2.value = v2
      BY <2>1, <2>5
    <2> QED BY <2>2, <2>4, <2>5, <2>6
  <1> QED BY <1>6, <1>7 DEF Four

-----------------------------------------------------------------------------
(* The records of consensus/types.rs.                                      *)

Transactions ==
  {t \in [head : Nat, key : Bytes, signature : Bytes] : TransactionFits(t)}
TransactionCode == [t \in Transactions |-> EncodeTransaction(t)]

\* Transaction::consensus_decode.
LEMMA TransactionReads ==
  ASSUME NEW b \in Bytes, NEW p \in Nat \ {0}
  PROVE  /\ TransactionCode \in [Transactions -> Bytes]
         /\ Reads(ReadTransaction(b, p), b, p, Transactions, TransactionCode)
  <1> DEFINE K == Upto(Limit.key)  S == Upto(Limit.signature)
             EK == UptoCode(Limit.key)  ES == UptoCode(Limit.signature)
             T(h, k, s) == [head |-> h, key |-> k, signature |-> s]
             C(h, k, s) == SymbolCode[h] \o EK[k] \o ES[s]
  <1>1. Limit.key \in 0..Limit.allocation /\ Limit.signature \in 0..Limit.allocation
    BY LimitsAre
  <1>2. EK \in [K -> Bytes] /\ ES \in [S -> Bytes] /\ SymbolCode \in [Nat -> Bytes]
    BY <1>1, UptoReads, CodeTypes
  <1>3. ASSUME NEW h \in Nat, NEW k \in K, NEW s \in S
        PROVE  /\ C(h, k, s) = EncodeTransaction(T(h, k, s))
               /\ EncodeTransaction(T(h, k, s)) \in Bytes
               /\ T(h, k, s) \in Transactions
                    <=> Len(EncodeTransaction(T(h, k, s))) <= Limit.tx
    <2>1. SymbolCode[h] = <<h>> /\ EK[k] = Prefixed(k) /\ ES[s] = Prefixed(s)
      BY CodesAt
    <2>2. EncodeTransaction(T(h, k, s)) = <<h>> \o Prefixed(k) \o Prefixed(s)
      BY DEF EncodeTransaction
    <2>3. C(h, k, s) \in Bytes
      <3>1. SymbolCode[h] \in Bytes /\ EK[k] \in Bytes /\ ES[s] \in Bytes
        BY <1>2
      <3> QED BY <3>1, HasBoth
    <2>4. k \in Bytes /\ s \in Bytes /\ Len(k) <= Limit.key /\ Len(s) <= Limit.signature
      BY DEF Upto
    <2>5. T(h, k, s) \in Transactions
            <=> Len(EncodeTransaction(T(h, k, s))) <= Limit.tx
      BY <2>4 DEF Transactions, TransactionFits
    <2> QED BY <2>1, <2>2, <2>3, <2>5
  <1>4. ASSUME NEW t \in Transactions
        PROVE  \E h \in Nat, k \in K, s \in S : t = T(h, k, s)
    BY DEF Transactions, TransactionFits, Upto
  <1>a. PICK r1 : r1 = Fixed(b, p)
    OBVIOUS
  <1>b. PICK r2 : r2 = ReadBytes(b, r1.at, Limit.key)
    OBVIOUS
  <1>c. PICK r3 : r3 = ReadBytes(b, r2.at, Limit.signature)
    OBVIOUS
  <1>5. Reads(ReadTransaction(b, p), b, p, Transactions, TransactionCode)
    <2> DEFINE t == T(r1.value, r2.value, r3.value)
    <2>1. Three(b, p, r1, Nat, SymbolCode, r2, K, EK, r3, S, ES)
      <3>1. Reads(r1, b, p, Nat, SymbolCode)
        BY <1>a, FixedReads
      <3>2. Follows(r1, r2, b, K, EK) /\ Follows(r2, r3, b, S, ES)
        BY <1>1, <1>b, <1>c, UptoReads, PlacesAre DEF Follows
      <3> HIDE DEF K, S, EK, ES
      <3> QED BY <1>2, <3>1, <3>2, ThreeRead
    <2>2. ReadTransaction(b, p) =
            IF r1.ok /\ r2.ok /\ r3.ok
            THEN IF Len(EncodeTransaction(t)) <= Limit.tx THEN Got(t, r3.at) ELSE Fail
            ELSE Fail
      BY <1>a, <1>b, <1>c DEF ReadTransaction, Then
    <2> DEFINE x == ReadTransaction(b, p)
    <2> HIDE DEF x, K, S, EK, ES
    <2>3. ASSUME x # Fail
          PROVE  \E v \in Transactions :
                   /\ x = Got(v, p + Len(TransactionCode[v]))
                   /\ Has(b, p, TransactionCode[v])
      <3>1. /\ r1.ok /\ r2.ok /\ r3.ok /\ x = Got(t, r3.at)
            /\ Len(EncodeTransaction(t)) <= Limit.tx
        BY <2>2, <2>3 DEF x
      <3>2. /\ r1.value \in Nat /\ r2.value \in K /\ r3.value \in S
            /\ Stands(b, p, C(r1.value, r2.value, r3.value), r3.at)
        BY <2>1, <3>1 DEF Three
      <3>3. t \in Transactions /\ EncodeTransaction(t) = C(r1.value, r2.value, r3.value)
        BY <1>3, <3>1, <3>2
      <3>4. TransactionCode[t] = EncodeTransaction(t)
        BY <3>3 DEF TransactionCode
      <3> QED BY <3>1, <3>2, <3>3, <3>4 DEF Stands
    <2>4. ASSUME NEW v \in Transactions, Has(b, p, TransactionCode[v])
          PROVE  x = Got(v, p + Len(TransactionCode[v]))
      <3>1. PICK h \in Nat, k \in K, s \in S : v = T(h, k, s)
        BY <1>4
      <3>2. TransactionCode[v] = C(h, k, s) /\ Len(EncodeTransaction(v)) <= Limit.tx
        BY <1>3, <3>1 DEF TransactionCode
      <3>3. Has(b, p, C(h, k, s))
        BY <2>4, <3>2
      <3>4. /\ r1.ok /\ r1.value = h /\ r2.ok /\ r2.value = k /\ r3.ok /\ r3.value = s
            /\ r3.at = p + Len(C(h, k, s))
        BY <2>1, <3>3 DEF Three
      <3> QED BY <2>2, <3>1, <3>2, <3>4 DEF x
    <2> QED BY <2>3, <2>4 DEF Reads, x
  <1>6. TransactionCode \in [Transactions -> Bytes]
    <2> HIDE DEF K, S
    <2>1. \A t \in Transactions : EncodeTransaction(t) \in Bytes
      <3> TAKE t \in Transactions
      <3>1. PICK h \in Nat, k \in K, s \in S : t = T(h, k, s)
        BY <1>4
      <3>2. EncodeTransaction(T(h, k, s)) \in Bytes
        BY <1>3
      <3> HIDE DEF T
      <3> QED BY <3>1, <3>2
    <2> QED BY <2>1 DEF TransactionCode
  <1> QED BY <1>5, <1>6

\* A value in a byte string of its own, of at most max.
Within(W, E, max) == {v \in W : Len(E[v]) <= max}
WithinCode(W, E, max) == [v \in Within(W, E, max) |-> Prefixed(E[v])]

LEMMA WithinType ==
  ASSUME NEW W, NEW E \in [W -> Bytes], NEW max
  PROVE  WithinCode(W, E, max) \in [Within(W, E, max) -> Bytes]
  BY PrefixedIs DEF Within, WithinCode

\* Only what fits is written, whatever is read.
LEMMA WithinReads ==
  ASSUME NEW b \in Bytes, NEW p \in Nat \ {0}, NEW max \in 0..Limit.allocation,
         NEW W, NEW E \in [W -> Bytes], NEW R,
         \A bytes \in Bytes : Reads(R[bytes], bytes, 1, W, E),
         NEW x, \A r : r = ReadBytes(b, p, max) /\ (r.ok => r.value \in Bytes) =>
                  x = IF r.ok
                      THEN IF Decoded(r.value, R[r.value]).ok
                           THEN Got(Decoded(r.value, R[r.value]).value, r.at)
                           ELSE Fail
                      ELSE Fail
  PROVE  Reads(x, b, p, Within(W, E, max), WithinCode(W, E, max))
  <1>1. Reads(x, b, p, {v \in W : Len(E[v]) <= max}, [v \in W |-> Prefixed(E[v])])
    BY NestedReads
  <1>2. \A v \in Within(W, E, max) :
          v \in W /\ WithinCode(W, E, max)[v] = Prefixed(E[v])
    BY DEF Within, WithinCode
  <1>3. Within(W, E, max) = {v \in W : Len(E[v]) <= max}
    BY DEF Within
  <1> HIDE DEF Within, WithinCode
  <1> QED BY <1>1, <1>2, <1>3 DEF Reads

\* A transaction in a list (decode_list): all of them fit.
ItemCode == WithinCode(Transactions, TransactionCode, Limit.tx)

LEMMA ItemReads ==
  ASSUME NEW b \in Bytes, NEW p \in Nat \ {0}
  PROVE  /\ ItemCode \in [Transactions -> Bytes]
         /\ \A t \in Transactions : ItemCode[t] = Prefixed(EncodeTransaction(t))
         /\ Reads(TransactionItem(b, p), b, p, Transactions, ItemCode)
  <1>1. Limit.tx \in 0..Limit.allocation
    BY LimitsAre
  <1>2. PICK R : R = [bytes \in Bytes |-> ReadTransaction(bytes, 1)]
    OBVIOUS
  <1>3. \A bytes \in Bytes : /\ R[bytes] = ReadTransaction(bytes, 1)
                             /\ Reads(R[bytes], bytes, 1, Transactions, TransactionCode)
    BY <1>2, TransactionReads
  <1>4. TransactionCode \in [Transactions -> Bytes]
    BY TransactionReads
  <1>5. ASSUME NEW r, r = ReadBytes(b, p, Limit.tx), r.ok => r.value \in Bytes
        PROVE  TransactionItem(b, p) =
                 IF r.ok
                 THEN IF Decoded(r.value, R[r.value]).ok
                      THEN Got(Decoded(r.value, R[r.value]).value, r.at)
                      ELSE Fail
                 ELSE Fail
    <2>1. ASSUME NEW y, y = ReadTransaction(r.value, 1),
                 NEW d, d = Decoded(r.value, y)
          PROVE  TransactionItem(b, p) =
                   IF r.ok THEN IF d.ok THEN Got(d.value, r.at) ELSE Fail ELSE Fail
      BY <1>5, <2>1 DEF TransactionItem, Nested, ConsensusDecode, Then, Decoded
    <2>2. r.ok => R[r.value] = ReadTransaction(r.value, 1)
      BY <1>3, <1>5
    <2> QED BY <2>1, <2>2
  <1>6. Within(Transactions, TransactionCode, Limit.tx) = Transactions
    BY DEF Within, Transactions, TransactionFits, TransactionCode
  <1>7. Reads(TransactionItem(b, p), b, p, Transactions, ItemCode)
    BY <1>1, <1>3, <1>4, <1>5, <1>6, WithinReads DEF ItemCode
  <1>8. ItemCode \in [Transactions -> Bytes]
    BY <1>4, <1>6, WithinType DEF ItemCode
  <1>9. \A t \in Transactions : ItemCode[t] = Prefixed(EncodeTransaction(t))
    BY <1>6 DEF ItemCode, WithinCode, TransactionCode
  <1> QED BY <1>7, <1>8, <1>9

\* Lists of at most max values.
Most(W, max) == {s \in Seq(W) : Len(s) <= max}
MostCode(W, E, max) == [s \in Most(W, max) |-> AllCode(W, E)[s]]

LEMMA MostReads ==
  ASSUME NEW b \in Bytes, NEW p \in Nat \ {0}, NEW max \in Nat,
         NEW W, NEW E \in [W -> Bytes]
  PROVE  /\ MostCode(W, E, max) \in [Most(W, max) -> Bytes]
         /\ \A s \in Most(W, max) :
              MostCode(W, E, max)[s] = EncodeAll([i \in DOMAIN s |-> E[s[i]]])
         /\ \A item : (\A j \in Places(b) : Reads(item[j], b, j, W, E))
              => Reads(Counted(b, p, max, item), b, p, Most(W, max),
                       MostCode(W, E, max))
  <1>1. \A s \in Most(W, max) : /\ s \in Seq(W)
                                /\ MostCode(W, E, max)[s] = AllCode(W, E)[s]
    BY DEF Most, MostCode
  <1>2. \A s \in Seq(W) :
          AllCode(W, E)[s] = EncodeAll([i \in DOMAIN s |-> E[s[i]]])
    BY DEF AllCode
  <1>3. MostCode(W, E, max) \in [Most(W, max) -> Bytes]
    BY <1>1, AllCodeIs DEF MostCode
  <1>4. ASSUME NEW item, \A j \in Places(b) : Reads(item[j], b, j, W, E)
        PROVE  Reads(Counted(b, p, max, item), b, p, Most(W, max),
                     MostCode(W, E, max))
    <2>1. Reads(Counted(b, p, max, item), b, p, Most(W, max), AllCode(W, E))
      BY <1>4, CountedReads DEF Most
    <2> QED BY <1>1, <2>1 DEF Reads
  <1> QED BY <1>1, <1>2, <1>3, <1>4

TxsOf == Most(Transactions, Limit.txs)
TxsCode == MostCode(Transactions, ItemCode, Limit.txs)

\* A list of transactions.
LEMMA TxsReads ==
  ASSUME NEW b \in Bytes, NEW p \in Nat \ {0}
  PROVE  /\ TxsCode \in [TxsOf -> Bytes]
         /\ \A s \in TxsOf : TxsCode[s] = PrefixedAll(s, EncodeTransaction)
         /\ Reads(Vector(b, p, Limit.txs, TransactionItem), b, p, TxsOf, TxsCode)
  <1>1. Limit.txs \in Nat
    BY LimitsAre
  <1>2. /\ ItemCode \in [Transactions -> Bytes]
        /\ \A t \in Transactions : ItemCode[t] = Prefixed(EncodeTransaction(t))
    BY ItemReads
  <1>3. PICK item : item = [j \in Places(b) |-> TransactionItem(b, j)]
    OBVIOUS
  <1>4. \A j \in Places(b) : Reads(item[j], b, j, Transactions, ItemCode)
    BY <1>3, ItemReads, PlacesAre
  <1>5. /\ TxsCode \in [TxsOf -> Bytes]
        /\ \A s \in TxsOf : TxsCode[s] = EncodeAll([i \in DOMAIN s |-> ItemCode[s[i]]])
        /\ Reads(Counted(b, p, Limit.txs, item), b, p, TxsOf, TxsCode)
    BY <1>1, <1>2, <1>4, MostReads DEF TxsOf, TxsCode
  <1>6. Vector(b, p, Limit.txs, TransactionItem) = Counted(b, p, Limit.txs, item)
    BY <1>3 DEF Vector
  <1>7. ASSUME NEW s \in TxsOf PROVE TxsCode[s] = PrefixedAll(s, EncodeTransaction)
    <2>1. \A i \in DOMAIN s : ItemCode[s[i]] = Prefixed(EncodeTransaction(s[i]))
      BY <1>2 DEF TxsOf, Most
    <2>2. [i \in DOMAIN s |-> ItemCode[s[i]]]
            = [i \in DOMAIN s |-> Prefixed(EncodeTransaction(s[i]))]
      BY <2>1
    <2> QED BY <1>5, <2>2 DEF PrefixedAll
  <1> QED BY <1>5, <1>6, <1>7

TemplatesOf == [head : Nat, txs : TxsOf]
TemplateCode == [t \in TemplatesOf |-> EncodeTemplate(t)]

\* BlockTemplate::consensus_decode.
LEMMA TemplateReads ==
  ASSUME NEW b \in Bytes, NEW p \in Nat \ {0}
  PROVE  /\ TemplateCode \in [TemplatesOf -> Bytes]
         /\ Reads(ReadTemplate(b, p), b, p, TemplatesOf, TemplateCode)
  <1> DEFINE T(h, s) == [head |-> h, txs |-> s]
             C(h, s) == SymbolCode[h] \o TxsCode[s]
  <1>2. TxsCode \in [TxsOf -> Bytes] /\ SymbolCode \in [Nat -> Bytes]
    BY TxsReads, CodeTypes
  <1>3. ASSUME NEW h \in Nat, NEW s \in TxsOf
        PROVE  /\ T(h, s) \in TemplatesOf
               /\ TemplateCode[T(h, s)] = C(h, s) /\ C(h, s) \in Bytes
    <2>1. SymbolCode[h] = <<h>> /\ TxsCode[s] = PrefixedAll(s, EncodeTransaction)
      BY CodesAt, TxsReads
    <2>2. EncodeTemplate(T(h, s)) = <<h>> \o PrefixedAll(s, EncodeTransaction)
      BY DEF EncodeTemplate
    <2>3. C(h, s) \in Bytes
      <3>1. SymbolCode[h] \in Bytes /\ TxsCode[s] \in Bytes
        BY <1>2
      <3> QED BY <3>1, HasBoth
    <2>4. T(h, s) \in TemplatesOf
      BY DEF TemplatesOf
    <2>5. TemplateCode[T(h, s)] = EncodeTemplate(T(h, s))
      BY <2>4 DEF TemplateCode
    <2> QED BY <2>1, <2>2, <2>3, <2>4, <2>5
  <1>4. ASSUME NEW t \in TemplatesOf PROVE \E h \in Nat, s \in TxsOf : t = T(h, s)
    BY DEF TemplatesOf
  <1>a. PICK r1 : r1 = Fixed(b, p)
    OBVIOUS
  <1>b. PICK r2 : r2 = Vector(b, r1.at, Limit.txs, TransactionItem)
    OBVIOUS
  <1> DEFINE x == ReadTemplate(b, p)
  <1>5. Two(b, p, r1, Nat, SymbolCode, r2, TxsOf, TxsCode)
    <2>1. Reads(r1, b, p, Nat, SymbolCode)
      BY <1>a, FixedReads
    <2>2. Follows(r1, r2, b, TxsOf, TxsCode)
      BY <1>b, TxsReads, PlacesAre DEF Follows
    <2> QED BY <1>2, <2>1, <2>2, TwoRead
  <1>6. x = IF r1.ok /\ r2.ok THEN Got(T(r1.value, r2.value), r2.at) ELSE Fail
    BY <1>a, <1>b DEF ReadTemplate, Then
  <1> HIDE DEF x, T
  <1>7. ASSUME x # Fail
        PROVE  \E v \in TemplatesOf : /\ x = Got(v, p + Len(TemplateCode[v]))
                                      /\ Has(b, p, TemplateCode[v])
    <2>1. r1.ok /\ r2.ok /\ x = Got(T(r1.value, r2.value), r2.at)
      BY <1>6, <1>7
    <2>2. /\ r1.value \in Nat /\ r2.value \in TxsOf
          /\ Stands(b, p, C(r1.value, r2.value), r2.at)
      BY <1>5, <2>1 DEF Two
    <2>3. /\ T(r1.value, r2.value) \in TemplatesOf
          /\ TemplateCode[T(r1.value, r2.value)] = C(r1.value, r2.value)
      BY <1>3, <2>2
    <2> QED BY <2>1, <2>2, <2>3 DEF Stands
  <1>8. ASSUME NEW v \in TemplatesOf, Has(b, p, TemplateCode[v])
        PROVE  x = Got(v, p + Len(TemplateCode[v]))
    <2>1. PICK h \in Nat, s \in TxsOf : v = T(h, s)
      BY <1>4
    <2>2. TemplateCode[v] = C(h, s)
      BY <1>3, <2>1
    <2>3. Has(b, p, C(h, s))
      BY <1>8, <2>2
    <2>4. /\ r1.ok /\ r1.value = h /\ r2.ok /\ r2.value = s
          /\ r2.at = p + Len(C(h, s))
      BY <1>5, <2>3 DEF Two
    <2> QED BY <1>6, <2>1, <2>2, <2>4
  <1>9. TemplateCode \in [TemplatesOf -> Bytes]
    <2>1. ASSUME NEW t \in TemplatesOf PROVE TemplateCode[t] \in Bytes
      <3>1. PICK h \in Nat, s \in TxsOf : t = T(h, s)
        BY <1>4
      <3> QED BY <1>3, <3>1
    <2>2. TemplateCode = [t \in TemplatesOf |-> TemplateCode[t]]
      BY DEF TemplateCode
    <2> QED BY <2>1, <2>2
  <1>10. Reads(x, b, p, TemplatesOf, TemplateCode)
    BY <1>7, <1>8 DEF Reads
  <1> QED BY <1>9, <1>10 DEF x

FitTemplates == Within(TemplatesOf, TemplateCode, Limit.template)
FitTemplateCode == WithinCode(TemplatesOf, TemplateCode, Limit.template)

\* A template in a witness or in a message.
LEMMA TemplateItemReads ==
  ASSUME NEW b \in Bytes, NEW p \in Nat \ {0}
  PROVE  /\ FitTemplateCode \in [FitTemplates -> Bytes]
         /\ \A v \in FitTemplates : FitTemplateCode[v] = Prefixed(TemplateCode[v])
         /\ Reads(TemplateItem(b, p), b, p, FitTemplates, FitTemplateCode)
  <1>1. Limit.template \in 0..Limit.allocation
    BY LimitsAre
  <1>2. PICK R : R = [bytes \in Bytes |-> ReadTemplate(bytes, 1)]
    OBVIOUS
  <1>3. 1 \in Nat \ {0}
    OBVIOUS
  <1>4. \A bytes \in Bytes : /\ R[bytes] = ReadTemplate(bytes, 1)
                             /\ Reads(R[bytes], bytes, 1, TemplatesOf, TemplateCode)
    BY <1>2, <1>3, TemplateReads
  <1>5. TemplateCode \in [TemplatesOf -> Bytes]
    BY TemplateReads
  <1>6. ASSUME NEW r, r = ReadBytes(b, p, Limit.template), r.ok => r.value \in Bytes
        PROVE  TemplateItem(b, p) =
                 IF r.ok
                 THEN IF Decoded(r.value, R[r.value]).ok
                      THEN Got(Decoded(r.value, R[r.value]).value, r.at)
                      ELSE Fail
                 ELSE Fail
    <2>1. ASSUME NEW y, y = ReadTemplate(r.value, 1),
                 NEW d, d = Decoded(r.value, y)
          PROVE  TemplateItem(b, p) =
                   IF r.ok THEN IF d.ok THEN Got(d.value, r.at) ELSE Fail ELSE Fail
      BY <1>6, <2>1 DEF TemplateItem, Nested, ConsensusDecode, Then, Decoded
    <2>2. r.ok => R[r.value] = ReadTemplate(r.value, 1)
      BY <1>4, <1>6
    <2> QED BY <2>1, <2>2
  <1>7. Reads(TemplateItem(b, p), b, p, FitTemplates, FitTemplateCode)
    BY <1>1, <1>4, <1>5, <1>6, WithinReads DEF FitTemplates, FitTemplateCode
  <1>8. FitTemplateCode \in [FitTemplates -> Bytes]
    BY <1>5, WithinType DEF FitTemplates, FitTemplateCode
  <1>9. \A v \in FitTemplates : FitTemplateCode[v] = Prefixed(TemplateCode[v])
    BY DEF FitTemplates, FitTemplateCode, WithinCode
  <1> QED BY <1>7, <1>8, <1>9

ShareCode == WithinCode(Nat, SymbolCode, 1)

\* A workshare has a fixed length.
LEMMA ShareItemReads ==
  ASSUME NEW b \in Bytes, NEW p \in Nat \ {0}
  PROVE  /\ ShareCode \in [Nat -> Bytes]
         /\ \A v \in Nat : ShareCode[v] = Prefixed(SymbolCode[v])
         /\ Reads(ShareItem(b, p), b, p, Nat, ShareCode)
  <1>1. 1 \in 0..Limit.allocation
    BY LimitsAre
  <1>2. PICK R : R = [bytes \in Bytes |-> Fixed(bytes, 1)]
    OBVIOUS
  <1>3. 1 \in Nat \ {0}
    OBVIOUS
  <1>4. \A bytes \in Bytes : /\ R[bytes] = Fixed(bytes, 1)
                             /\ Reads(R[bytes], bytes, 1, Nat, SymbolCode)
    BY <1>2, <1>3, FixedReads
  <1>5. SymbolCode \in [Nat -> Bytes]
    BY CodeTypes
  <1>6. ASSUME NEW r, r = ReadBytes(b, p, 1), r.ok => r.value \in Bytes
        PROVE  ShareItem(b, p) =
                 IF r.ok
                 THEN IF Decoded(r.value, R[r.value]).ok
                      THEN Got(Decoded(r.value, R[r.value]).value, r.at)
                      ELSE Fail
                 ELSE Fail
    <2>1. ASSUME NEW y, y = Fixed(r.value, 1),
                 NEW d, d = Decoded(r.value, y)
          PROVE  ShareItem(b, p) =
                   IF r.ok THEN IF d.ok THEN Got(d.value, r.at) ELSE Fail ELSE Fail
      BY <1>6, <2>1 DEF ShareItem, Nested, ConsensusDecode, Then, Decoded
    <2>2. r.ok => R[r.value] = Fixed(r.value, 1)
      BY <1>4, <1>6
    <2> QED BY <2>1, <2>2
  <1>w. Within(Nat, SymbolCode, 1) = Nat
    <2>2. ASSUME NEW v \in Nat PROVE Len(SymbolCode[v]) <= 1
      <3>1. SymbolCode[v] = <<v>>
        BY CodesAt
      <3>2. Len(<<v>>) = 1
        OBVIOUS
      <3>3. Len(SymbolCode[v]) = 1
        BY <3>1, <3>2, Zenon
      <3> QED BY <3>3
    <2>3. Within(Nat, SymbolCode, 1) = {v \in Nat : Len(SymbolCode[v]) <= 1}
      BY DEF Within
    <2> QED BY <2>2, <2>3, Zenon
  <1>7. Reads(ShareItem(b, p), b, p, Nat, ShareCode)
    <2>1. Reads(ShareItem(b, p), b, p, Within(Nat, SymbolCode, 1), ShareCode)
      BY <1>1, <1>4, <1>5, <1>6, WithinReads DEF ShareCode
    <2> QED BY <1>w, <2>1
  <1>8. ShareCode \in [Nat -> Bytes]
    BY <1>5, <1>w, WithinType DEF ShareCode
  <1>9. \A v \in Nat : ShareCode[v] = Prefixed(SymbolCode[v])
    BY <1>w DEF ShareCode, WithinCode
  <1> QED BY <1>7, <1>8, <1>9

TemplateLists == Most(FitTemplates, Limit.templates)
TemplateListCode == MostCode(FitTemplates, FitTemplateCode, Limit.templates)
ShareLists == Most(Nat, Limit.shares)
ShareListCode == MostCode(Nat, ShareCode, Limit.shares)

\* The templates of a witness.
LEMMA TemplateListReads ==
  ASSUME NEW b \in Bytes, NEW p \in Nat \ {0}
  PROVE  /\ TemplateListCode \in [TemplateLists -> Bytes]
         /\ \A s \in TemplateLists : TemplateListCode[s] = PrefixedAll(s, EncodeTemplate)
         /\ Reads(Vector(b, p, Limit.templates, TemplateItem), b, p, TemplateLists, TemplateListCode)
  <1>1. Limit.templates \in Nat
    BY LimitsAre
  <1>2. FitTemplateCode \in [FitTemplates -> Bytes]
    BY TemplateItemReads
  <1>3. PICK item : item = [j \in Places(b) |-> TemplateItem(b, j)]
    OBVIOUS
  <1>4. \A j \in Places(b) : Reads(item[j], b, j, FitTemplates, FitTemplateCode)
    BY <1>3, TemplateItemReads, PlacesAre
  <1>5. /\ TemplateListCode \in [TemplateLists -> Bytes]
        /\ \A s \in TemplateLists : TemplateListCode[s] = EncodeAll([i \in DOMAIN s |-> FitTemplateCode[s[i]]])
        /\ Reads(Counted(b, p, Limit.templates, item), b, p, TemplateLists, TemplateListCode)
    BY <1>1, <1>2, <1>4, MostReads DEF TemplateLists, TemplateListCode
  <1>6. Vector(b, p, Limit.templates, TemplateItem) = Counted(b, p, Limit.templates, item)
    BY <1>3 DEF Vector
  <1>7. ASSUME NEW s \in TemplateLists PROVE TemplateListCode[s] = PrefixedAll(s, EncodeTemplate)
    <2>1. ASSUME NEW i \in DOMAIN s
          PROVE  FitTemplateCode[s[i]] = Prefixed(EncodeTemplate(s[i]))
      <3>1. s[i] \in FitTemplates
        BY DEF TemplateLists, Most
      <3>2. FitTemplateCode[s[i]] = Prefixed(TemplateCode[s[i]])
        BY <3>1, TemplateItemReads
      <3>3. TemplateCode[s[i]] = EncodeTemplate(s[i])
        BY <3>1 DEF FitTemplates, Within, TemplateCode
      <3> QED BY <3>2, <3>3
    <2>2. [i \in DOMAIN s |-> FitTemplateCode[s[i]]]
            = [i \in DOMAIN s |-> Prefixed(EncodeTemplate(s[i]))]
      BY <2>1
    <2> QED BY <1>5, <2>2 DEF PrefixedAll
  <1> QED BY <1>5, <1>6, <1>7

\* The workshares of a witness.
LEMMA ShareListReads ==
  ASSUME NEW b \in Bytes, NEW p \in Nat \ {0}
  PROVE  /\ ShareListCode \in [ShareLists -> Bytes]
         /\ \A s \in ShareLists : ShareListCode[s] = PrefixedAll(s, EncodeShare)
         /\ Reads(Vector(b, p, Limit.shares, ShareItem), b, p, ShareLists, ShareListCode)
  <1>1. Limit.shares \in Nat
    BY LimitsAre
  <1>2. ShareCode \in [Nat -> Bytes]
    BY ShareItemReads
  <1>3. PICK item : item = [j \in Places(b) |-> ShareItem(b, j)]
    OBVIOUS
  <1>4. \A j \in Places(b) : Reads(item[j], b, j, Nat, ShareCode)
    BY <1>3, ShareItemReads, PlacesAre
  <1>5. /\ ShareListCode \in [ShareLists -> Bytes]
        /\ \A s \in ShareLists : ShareListCode[s] = EncodeAll([i \in DOMAIN s |-> ShareCode[s[i]]])
        /\ Reads(Counted(b, p, Limit.shares, item), b, p, ShareLists, ShareListCode)
    BY <1>1, <1>2, <1>4, MostReads DEF ShareLists, ShareListCode
  <1>6. Vector(b, p, Limit.shares, ShareItem) = Counted(b, p, Limit.shares, item)
    BY <1>3 DEF Vector
  <1>7. ASSUME NEW s \in ShareLists PROVE ShareListCode[s] = PrefixedAll(s, EncodeShare)
    <2>1. ASSUME NEW i \in DOMAIN s
          PROVE  ShareCode[s[i]] = Prefixed(EncodeShare(s[i]))
      <3>1. s[i] \in Nat
        BY DEF ShareLists, Most
      <3>2. ShareCode[s[i]] = Prefixed(SymbolCode[s[i]])
        BY <3>1, ShareItemReads
      <3>3. SymbolCode[s[i]] = EncodeShare(s[i])
        BY <3>1, CodesAt DEF EncodeShare
      <3> QED BY <3>2, <3>3
    <2>2. [i \in DOMAIN s |-> ShareCode[s[i]]]
            = [i \in DOMAIN s |-> Prefixed(EncodeShare(s[i]))]
      BY <2>1
    <2> QED BY <1>5, <2>2 DEF PrefixedAll
  <1> QED BY <1>5, <1>6, <1>7

WitnessesOf == [head : Nat, templates : TemplateLists, shares : ShareLists]
WitnessCode == [w \in WitnessesOf |-> EncodeWitness(w)]

\* Witness::consensus_decode.
LEMMA WitnessReads ==
  ASSUME NEW b \in Bytes, NEW p \in Nat \ {0}
  PROVE  /\ WitnessCode \in [WitnessesOf -> Bytes]
         /\ Reads(ReadWitness(b, p), b, p, WitnessesOf, WitnessCode)
  <1> DEFINE T(h, t, s) == [head |-> h, templates |-> t, shares |-> s]
             C(h, t, s) == SymbolCode[h] \o TemplateListCode[t] \o ShareListCode[s]
             x == ReadWitness(b, p)
  <1>1. /\ SymbolCode \in [Nat -> Bytes]
        /\ TemplateListCode \in [TemplateLists -> Bytes]
        /\ ShareListCode \in [ShareLists -> Bytes]
    BY CodeTypes, TemplateListReads, ShareListReads
  <1>2. ASSUME NEW h \in Nat, NEW t \in TemplateLists, NEW s \in ShareLists
        PROVE  /\ T(h, t, s) \in WitnessesOf
               /\ WitnessCode[T(h, t, s)] = C(h, t, s) /\ C(h, t, s) \in Bytes
    <2>1. /\ SymbolCode[h] = <<h>>
          /\ TemplateListCode[t] = PrefixedAll(t, EncodeTemplate)
          /\ ShareListCode[s] = PrefixedAll(s, EncodeShare)
      BY CodesAt, TemplateListReads, ShareListReads
    <2>2. EncodeWitness(T(h, t, s)) = C(h, t, s)
      BY <2>1 DEF EncodeWitness
    <2>3. C(h, t, s) \in Bytes
      <3>1. /\ SymbolCode[h] \in Bytes
            /\ TemplateListCode[t] \in Bytes
            /\ ShareListCode[s] \in Bytes
        BY <1>1
      <3> QED BY <3>1, HasBoth
    <2>4. T(h, t, s) \in WitnessesOf
      BY DEF WitnessesOf
    <2>5. WitnessCode[T(h, t, s)] = EncodeWitness(T(h, t, s))
      BY <2>4 DEF WitnessCode
    <2> QED BY <2>2, <2>3, <2>4, <2>5
  <1>3. ASSUME NEW v \in WitnessesOf PROVE \E h \in Nat, t \in TemplateLists, s \in ShareLists : v = T(h, t, s)
    BY DEF WitnessesOf
  <1>a. PICK r1 : r1 = Fixed(b, p)
    OBVIOUS
  <1>b. PICK r2 : r2 = Vector(b, r1.at, Limit.templates, TemplateItem)
    OBVIOUS
  <1>c. PICK r3 : r3 = Vector(b, r2.at, Limit.shares, ShareItem)
    OBVIOUS
  <1>4. Three(b, p, r1, Nat, SymbolCode, r2, TemplateLists, TemplateListCode, r3, ShareLists, ShareListCode)
    <2>1. Reads(r1, b, p, Nat, SymbolCode)
      BY <1>a, FixedReads
    <2>2. Follows(r1, r2, b, TemplateLists, TemplateListCode)
      BY <1>b, PlacesAre, TemplateListReads DEF Follows
    <2>3. Follows(r2, r3, b, ShareLists, ShareListCode)
      BY <1>c, PlacesAre, ShareListReads DEF Follows
    <2> QED BY <1>1, <2>1, <2>2, <2>3, ThreeRead
  <1>5. x = IF r1.ok /\ r2.ok /\ r3.ok
            THEN Got(T(r1.value, r2.value, r3.value), r3.at)
            ELSE Fail
    BY <1>a, <1>b, <1>c DEF ReadWitness, Then
  <1> HIDE DEF x, T
  <1>6. ASSUME x # Fail
        PROVE  \E v \in WitnessesOf : /\ x = Got(v, p + Len(WitnessCode[v]))
                        /\ Has(b, p, WitnessCode[v])
    <2>1. /\ r1.ok /\ r2.ok /\ r3.ok
          /\ x = Got(T(r1.value, r2.value, r3.value), r3.at)
      BY <1>5, <1>6
    <2>2. /\ r1.value \in Nat
          /\ r2.value \in TemplateLists
          /\ r3.value \in ShareLists
          /\ Stands(b, p, C(r1.value, r2.value, r3.value), r3.at)
      BY <1>4, <2>1 DEF Three
    <2>3. /\ T(r1.value, r2.value, r3.value) \in WitnessesOf
          /\ WitnessCode[T(r1.value, r2.value, r3.value)] = C(r1.value, r2.value, r3.value)
      BY <1>2, <2>1, <2>2, ZenonT(40)
    <2> QED BY <2>1, <2>2, <2>3 DEF Stands
  <1>7. ASSUME NEW v \in WitnessesOf, Has(b, p, WitnessCode[v])
        PROVE  x = Got(v, p + Len(WitnessCode[v]))
    <2>1. PICK h \in Nat, t \in TemplateLists, s \in ShareLists : v = T(h, t, s)
      BY <1>3
    <2>2. WitnessCode[v] = C(h, t, s)
      BY <1>2, <2>1
    <2>3. Has(b, p, C(h, t, s))
      BY <1>7, <2>2
    <2>4. /\ r1.ok /\ r1.value = h
          /\ r2.ok /\ r2.value = t
          /\ r3.ok /\ r3.value = s
          /\ r3.at = p + Len(C(h, t, s))
      BY <1>4, <2>3 DEF Three
    <2> QED BY <1>5, <2>1, <2>2, <2>4
  <1>8. WitnessCode \in [WitnessesOf -> Bytes]
    <2>1. ASSUME NEW v \in WitnessesOf PROVE WitnessCode[v] \in Bytes
      <3>1. PICK h \in Nat, t \in TemplateLists, s \in ShareLists : v = T(h, t, s)
        BY <1>3
      <3> QED BY <1>2, <3>1
    <2>2. WitnessCode = [v \in WitnessesOf |-> WitnessCode[v]]
      BY DEF WitnessCode
    <2> QED BY <2>1, <2>2
  <1>9. Reads(x, b, p, WitnessesOf, WitnessCode)
    BY <1>6, <1>7 DEF Reads
  <1> QED BY <1>8, <1>9 DEF x

FitWitnesses == Within(WitnessesOf, WitnessCode, Limit.witness)
FitWitnessCode == WithinCode(WitnessesOf, WitnessCode, Limit.witness)
ClaimLists == Most(Nat, 1)
ClaimCode == MostCode(Nat, SymbolCode, 1)

\* The witness of a block.
LEMMA FitWitnessReads ==
  ASSUME NEW b \in Bytes, NEW p \in Nat \ {0}
  PROVE  /\ FitWitnessCode \in [FitWitnesses -> Bytes]
         /\ \A v \in FitWitnesses : FitWitnessCode[v] = Prefixed(WitnessCode[v])
         /\ Reads(Nested(b, p, Limit.witness, ReadWitness), b, p, FitWitnesses, FitWitnessCode)
  <1>1. Limit.witness \in 0..Limit.allocation
    BY LimitsAre
  <1>2. PICK R : R = [bytes \in Bytes |-> ReadWitness(bytes, 1)]
    OBVIOUS
  <1>3. 1 \in Nat \ {0}
    OBVIOUS
  <1>4. \A bytes \in Bytes : /\ R[bytes] = ReadWitness(bytes, 1)
                             /\ Reads(R[bytes], bytes, 1, WitnessesOf, WitnessCode)
    BY <1>2, <1>3, WitnessReads
  <1>5. WitnessCode \in [WitnessesOf -> Bytes]
    BY WitnessReads
  <1>6. ASSUME NEW r, r = ReadBytes(b, p, Limit.witness), r.ok => r.value \in Bytes
        PROVE  Nested(b, p, Limit.witness, ReadWitness) =
                 IF r.ok
                 THEN IF Decoded(r.value, R[r.value]).ok
                      THEN Got(Decoded(r.value, R[r.value]).value, r.at)
                      ELSE Fail
                 ELSE Fail
    <2>1. ASSUME NEW y, y = ReadWitness(r.value, 1),
                 NEW d, d = Decoded(r.value, y)
          PROVE  Nested(b, p, Limit.witness, ReadWitness) =
                   IF r.ok THEN IF d.ok THEN Got(d.value, r.at) ELSE Fail ELSE Fail
      BY <1>6, <2>1 DEF Nested, ConsensusDecode, Then, Decoded
    <2>2. r.ok => R[r.value] = ReadWitness(r.value, 1)
      BY <1>4, <1>6
    <2> QED BY <2>1, <2>2
  <1>7. Reads(Nested(b, p, Limit.witness, ReadWitness), b, p, FitWitnesses, FitWitnessCode)
    BY <1>1, <1>4, <1>5, <1>6, WithinReads DEF FitWitnesses, FitWitnessCode
  <1>8. FitWitnessCode \in [FitWitnesses -> Bytes]
    BY <1>5, WithinType DEF FitWitnesses, FitWitnessCode
  <1>9. \A v \in FitWitnesses : FitWitnessCode[v] = Prefixed(WitnessCode[v])
    BY DEF FitWitnesses, FitWitnessCode, WithinCode
  <1> QED BY <1>7, <1>8, <1>9

LEMMA FitWitnessValue ==
  \A w \in FitWitnesses : FitWitnessCode[w] = Prefixed(EncodeWitness(w))
  <1>1. \A w \in FitWitnesses : /\ FitWitnessCode[w] = Prefixed(WitnessCode[w])
                                /\ w \in WitnessesOf
    BY DEF FitWitnesses, FitWitnessCode, Within, WithinCode
  <1> QED BY <1>1 DEF WitnessCode

\* Lists of one and of two.
LEMMA JoinOne ==
  ASSUME NEW h \in Nat, NEW n \in Nat
  PROVE  <<h>> \o <<n>> = <<h, n>>
  <1>1. <<h, n>> = Append(<<h>>, n)
    OBVIOUS
  <1>2. <<h>> \in Seq(Nat)
    OBVIOUS
  <1>3. Append(<<h>>, n) = <<h>> \o <<n>>
    BY <1>2, AppendIsConcat
  <1> QED BY <1>1, <1>3

LEMMA OneOf ==
  ASSUME NEW s \in Seq(Nat), Len(s) <= 1, s # <<>>
  PROVE  \E n \in Nat : s = <<n>>
  <1>1. PICK k \in Nat : k = Len(s)
    OBVIOUS
  <1>2. k # 0
    BY <1>1, EmptySeq
  <1>3. k = 1
    BY <1>1, <1>2
  <1>4. s[1] \in Nat /\ Len(s) = 1
    BY <1>1, <1>3
  <1>5. s = <<s[1]>>
    BY <1>4
  <1> QED BY <1>4, <1>5

\* A list of one is its element.
LEMMA CodedOne ==
  /\ FlattenSeq(<<>>) = <<>>
  /\ \A x \in Nat : FlattenSeq(<<<<x>>>>) = <<x>>
  <1>1. FlattenSeq(<<>>) = <<>>
    BY DEF FlattenSeq
  <1>2. ASSUME NEW x \in Nat PROVE FlattenSeq(<<<<x>>>>) = <<x>>
    <2>1. <<x>> \in Bytes /\ <<>> \in Seq(Bytes)
      BY DEF Bytes
    <2>2. FlattenSeq(Append(<<>>, <<x>>)) = FlattenSeq(<<>>) \o <<x>>
      BY <2>1, FlattenAppend
    <2>3. Append(<<>>, <<x>>) = <<<<x>>>> /\ <<>> \o <<x>> = <<x>>
      OBVIOUS
    <2> QED BY <1>1, <2>2, <2>3
  <1> QED BY <1>1, <1>2

\* The claim of a block, an Option.
LEMMA ClaimReads ==
  ASSUME NEW b \in Bytes, NEW p \in Nat \ {0}
  PROVE  /\ ClaimCode \in [ClaimLists -> Bytes]
         /\ \A s \in ClaimLists : ClaimCode[s] = <<Len(s)>> \o s
         /\ Reads(ReadClaim(b, p), b, p, ClaimLists, ClaimCode)
  <1>1. 1 \in Nat
    OBVIOUS
  <1>2. SymbolCode \in [Nat -> Bytes]
    BY CodeTypes
  <1>3. PICK item : item = [j \in Places(b) |-> Fixed(b, j)]
    OBVIOUS
  <1>4. \A j \in Places(b) : Reads(item[j], b, j, Nat, SymbolCode)
    BY <1>3, FixedReads, PlacesAre
  <1>5. /\ ClaimCode \in [ClaimLists -> Bytes]
        /\ \A s \in ClaimLists : ClaimCode[s] = EncodeAll([i \in DOMAIN s |-> SymbolCode[s[i]]])
        /\ Reads(Counted(b, p, 1, item), b, p, ClaimLists, ClaimCode)
    BY <1>1, <1>2, <1>4, MostReads DEF ClaimLists, ClaimCode
  <1>6. ReadClaim(b, p) = Counted(b, p, 1, item)
    BY <1>3 DEF Vector, ReadClaim
  <1>7. ASSUME NEW s \in ClaimLists PROVE ClaimCode[s] = <<Len(s)>> \o s
    <2>1. ClaimCode[s] = <<Len([i \in DOMAIN s |-> SymbolCode[s[i]]])>>
                           \o FlattenSeq([i \in DOMAIN s |-> SymbolCode[s[i]]])
      BY <1>5 DEF EncodeAll
    <2>2. s \in Seq(Nat) /\ Len(s) <= 1 /\ Len([i \in DOMAIN s |-> SymbolCode[s[i]]]) = Len(s)
      BY DEF ClaimLists, Most
    <2>3. FlattenSeq([i \in DOMAIN s |-> SymbolCode[s[i]]]) = s
      <3>1. CASE s = <<>>
        <4>1. [i \in DOMAIN s |-> SymbolCode[s[i]]] = <<>>
          BY <3>1
        <4> QED BY <3>1, <4>1, CodedOne
      <3>2. CASE s # <<>>
        <4>1. PICK n \in Nat : s = <<n>>
          BY <2>2, <3>2, OneOf
        <4>2. [i \in DOMAIN s |-> SymbolCode[s[i]]] = <<SymbolCode[n]>>
          BY <4>1
        <4>3. SymbolCode[n] = <<n>>
          BY CodesAt
        <4> QED BY <4>1, <4>2, <4>3, CodedOne
      <3> QED BY <3>1, <3>2
    <2> QED BY <2>1, <2>2, <2>3
  <1> QED BY <1>5, <1>6, <1>7

BlocksOf ==
  [head : Nat, claim : ClaimLists, txs : TxsOf, witness : FitWitnesses]
BlockCode == [v \in BlocksOf |-> EncodeBlock(v)]

\* Block::consensus_decode.
LEMMA BlockReads ==
  ASSUME NEW b \in Bytes, NEW p \in Nat \ {0}
  PROVE  /\ BlockCode \in [BlocksOf -> Bytes]
         /\ Reads(ReadBlock(b, p), b, p, BlocksOf, BlockCode)
  <1> DEFINE T(h, c, s, w) == [head |-> h, claim |-> c, txs |-> s, witness |-> w]
             C(h, c, s, w) == SymbolCode[h] \o ClaimCode[c] \o TxsCode[s] \o FitWitnessCode[w]
             x == ReadBlock(b, p)
  <1>1. /\ SymbolCode \in [Nat -> Bytes]
        /\ ClaimCode \in [ClaimLists -> Bytes]
        /\ TxsCode \in [TxsOf -> Bytes]
        /\ FitWitnessCode \in [FitWitnesses -> Bytes]
    BY CodeTypes, ClaimReads, TxsReads, FitWitnessReads
  <1>2. ASSUME NEW h \in Nat, NEW c \in ClaimLists, NEW s \in TxsOf, NEW w \in FitWitnesses
        PROVE  /\ T(h, c, s, w) \in BlocksOf
               /\ BlockCode[T(h, c, s, w)] = C(h, c, s, w) /\ C(h, c, s, w) \in Bytes
    <2>1. /\ SymbolCode[h] = <<h>>
          /\ ClaimCode[c] = <<Len(c)>> \o c
          /\ TxsCode[s] = PrefixedAll(s, EncodeTransaction)
          /\ FitWitnessCode[w] = Prefixed(EncodeWitness(w))
      BY CodesAt, ClaimReads, TxsReads, FitWitnessValue
    <2>2. EncodeBlock(T(h, c, s, w)) = C(h, c, s, w)
      <3>1. c \in Seq(Nat) /\ Len(c) \in Nat
        BY DEF ClaimLists, Most
      <3>0. PICK n \in Nat : n = Len(c)
        BY <3>1
      <3>2. /\ <<h>> \in Seq(Nat) /\ <<Len(c)>> \in Seq(Nat)
            /\ <<h>> \o <<Len(c)>> = <<h, Len(c)>>
        <4>1. <<h>> \in Seq(Nat) /\ <<n>> \in Seq(Nat)
          OBVIOUS
        <4>2. <<h>> \o <<n>> = <<h, n>>
          BY JoinOne
        <4> QED BY <3>0, <4>1, <4>2
      <3>3. (<<h>> \o <<Len(c)>>) \o c = <<h>> \o (<<Len(c)>> \o c)
        BY <3>1, <3>2, ConcatAssociative
      <3>4. <<h, Len(c)>> \o c = <<h>> \o (<<Len(c)>> \o c)
        BY <3>2, <3>3
      <3>5. EncodeBlock(T(h, c, s, w)) =
              <<h, Len(c)>> \o c \o PrefixedAll(s, EncodeTransaction)
                \o Prefixed(EncodeWitness(w))
        BY DEF EncodeBlock
      <3> QED BY <2>1, <3>4, <3>5
    <2>3. C(h, c, s, w) \in Bytes
      <3>1. /\ SymbolCode[h] \in Bytes
            /\ ClaimCode[c] \in Bytes
            /\ TxsCode[s] \in Bytes
            /\ FitWitnessCode[w] \in Bytes
        BY <1>1
      <3>2. 1 \in Nat \ {0}
        OBVIOUS
      <3>3. SymbolCode[h] \o ClaimCode[c] \in Bytes
        BY <3>1, <3>2, HasBoth
      <3>4. (SymbolCode[h] \o ClaimCode[c]) \o TxsCode[s] \in Bytes
        BY <3>1, <3>2, <3>3, HasBoth
      <3> QED BY <3>1, <3>2, <3>4, HasBoth
    <2>4. T(h, c, s, w) \in BlocksOf
      BY DEF BlocksOf
    <2>5. BlockCode[T(h, c, s, w)] = EncodeBlock(T(h, c, s, w))
      BY <2>4 DEF BlockCode
    <2> QED BY <2>2, <2>3, <2>4, <2>5
  <1>3. ASSUME NEW v \in BlocksOf PROVE \E h \in Nat, c \in ClaimLists, s \in TxsOf, w \in FitWitnesses : v = T(h, c, s, w)
    BY DEF BlocksOf
  <1>a. PICK r1 : r1 = Fixed(b, p)
    OBVIOUS
  <1>b. PICK r2 : r2 = ReadClaim(b, r1.at)
    OBVIOUS
  <1>c. PICK r3 : r3 = Vector(b, r2.at, Limit.txs, TransactionItem)
    OBVIOUS
  <1>d. PICK r4 : r4 = Nested(b, r3.at, Limit.witness, ReadWitness)
    OBVIOUS
  <1>4. Four(b, p, r1, Nat, SymbolCode, r2, ClaimLists, ClaimCode, r3, TxsOf, TxsCode, r4, FitWitnesses, FitWitnessCode)
    <2>1. Reads(r1, b, p, Nat, SymbolCode)
      BY <1>a, FixedReads
    <2>2. Follows(r1, r2, b, ClaimLists, ClaimCode)
      BY <1>b, PlacesAre, ClaimReads DEF Follows
    <2>3. Follows(r2, r3, b, TxsOf, TxsCode)
      BY <1>c, PlacesAre, TxsReads DEF Follows
    <2>4. Follows(r3, r4, b, FitWitnesses, FitWitnessCode)
      BY <1>d, PlacesAre, FitWitnessReads DEF Follows
    <2> QED BY <1>1, <2>1, <2>2, <2>3, <2>4, FourRead
  <1>5. x = IF r1.ok /\ r2.ok /\ r3.ok /\ r4.ok
            THEN Got(T(r1.value, r2.value, r3.value, r4.value), r4.at)
            ELSE Fail
    BY <1>a, <1>b, <1>c, <1>d DEF ReadBlock, Then
  <1> HIDE DEF x, T
  <1>6. ASSUME x # Fail
        PROVE  \E v \in BlocksOf : /\ x = Got(v, p + Len(BlockCode[v]))
                        /\ Has(b, p, BlockCode[v])
    <2>1. /\ r1.ok /\ r2.ok /\ r3.ok /\ r4.ok
          /\ x = Got(T(r1.value, r2.value, r3.value, r4.value), r4.at)
      BY <1>5, <1>6
    <2>2. /\ r1.value \in Nat
          /\ r2.value \in ClaimLists
          /\ r3.value \in TxsOf
          /\ r4.value \in FitWitnesses
          /\ Stands(b, p, C(r1.value, r2.value, r3.value, r4.value), r4.at)
      BY <1>4, <2>1 DEF Four
    <2>3. /\ T(r1.value, r2.value, r3.value, r4.value) \in BlocksOf
          /\ BlockCode[T(r1.value, r2.value, r3.value, r4.value)] = C(r1.value, r2.value, r3.value, r4.value)
      <3> HIDE DEF T, C
      <3> QED BY <1>2, <2>2
    <2> QED BY <2>1, <2>2, <2>3 DEF Stands
  <1>7. ASSUME NEW v \in BlocksOf, Has(b, p, BlockCode[v])
        PROVE  x = Got(v, p + Len(BlockCode[v]))
    <2>1. PICK h \in Nat, c \in ClaimLists, s \in TxsOf, w \in FitWitnesses : v = T(h, c, s, w)
      BY <1>3
    <2>2. BlockCode[v] = C(h, c, s, w)
      BY <1>2, <2>1
    <2>3. Has(b, p, C(h, c, s, w))
      BY <1>7, <2>2
    <2>4. /\ r1.ok /\ r1.value = h
          /\ r2.ok /\ r2.value = c
          /\ r3.ok /\ r3.value = s
          /\ r4.ok /\ r4.value = w
          /\ r4.at = p + Len(C(h, c, s, w))
      BY <1>4, <2>3 DEF Four
    <2> QED BY <1>5, <2>1, <2>2, <2>4
  <1>8. BlockCode \in [BlocksOf -> Bytes]
    <2>1. ASSUME NEW v \in BlocksOf PROVE BlockCode[v] \in Bytes
      <3>1. PICK h \in Nat, c \in ClaimLists, s \in TxsOf, w \in FitWitnesses : v = T(h, c, s, w)
        BY <1>3
      <3> QED BY <1>2, <3>1, ZenonT(40)
    <2>2. BlockCode = [v \in BlocksOf |-> BlockCode[v]]
      BY DEF BlockCode
    <2> QED BY <2>1, <2>2
  <1>9. Reads(x, b, p, BlocksOf, BlockCode)
    BY <1>6, <1>7 DEF Reads
  <1> QED BY <1>8, <1>9 DEF x

FitBlocks == Within(BlocksOf, BlockCode, Limit.block)
FitBlockCode == WithinCode(BlocksOf, BlockCode, Limit.block)

\* A block in a message.
LEMMA FitBlockReads ==
  ASSUME NEW b \in Bytes, NEW p \in Nat \ {0}
  PROVE  /\ FitBlockCode \in [FitBlocks -> Bytes]
         /\ \A v \in FitBlocks : FitBlockCode[v] = Prefixed(BlockCode[v])
         /\ Reads(Nested(b, p, Limit.block, ReadBlock), b, p, FitBlocks, FitBlockCode)
  <1>1. Limit.block \in 0..Limit.allocation
    BY LimitsAre
  <1>2. PICK R : R = [bytes \in Bytes |-> ReadBlock(bytes, 1)]
    OBVIOUS
  <1>3. 1 \in Nat \ {0}
    OBVIOUS
  <1>4. \A bytes \in Bytes : /\ R[bytes] = ReadBlock(bytes, 1)
                             /\ Reads(R[bytes], bytes, 1, BlocksOf, BlockCode)
    BY <1>2, <1>3, BlockReads
  <1>5. BlockCode \in [BlocksOf -> Bytes]
    BY BlockReads
  <1>6. ASSUME NEW r, r = ReadBytes(b, p, Limit.block), r.ok => r.value \in Bytes
        PROVE  Nested(b, p, Limit.block, ReadBlock) =
                 IF r.ok
                 THEN IF Decoded(r.value, R[r.value]).ok
                      THEN Got(Decoded(r.value, R[r.value]).value, r.at)
                      ELSE Fail
                 ELSE Fail
    <2>1. ASSUME NEW y, y = ReadBlock(r.value, 1),
                 NEW d, d = Decoded(r.value, y)
          PROVE  Nested(b, p, Limit.block, ReadBlock) =
                   IF r.ok THEN IF d.ok THEN Got(d.value, r.at) ELSE Fail ELSE Fail
      BY <1>6, <2>1 DEF Nested, ConsensusDecode, Then, Decoded
    <2>2. r.ok => R[r.value] = ReadBlock(r.value, 1)
      BY <1>4, <1>6
    <2> QED BY <2>1, <2>2
  <1>7. Reads(Nested(b, p, Limit.block, ReadBlock), b, p, FitBlocks, FitBlockCode)
    BY <1>1, <1>4, <1>5, <1>6, WithinReads DEF FitBlocks, FitBlockCode
  <1>8. FitBlockCode \in [FitBlocks -> Bytes]
    BY <1>5, WithinType DEF FitBlocks, FitBlockCode
  <1>9. \A v \in FitBlocks : FitBlockCode[v] = Prefixed(BlockCode[v])
    BY DEF FitBlocks, FitBlockCode, WithinCode
  <1> QED BY <1>7, <1>8, <1>9

-----------------------------------------------------------------------------
(* The messages of p2p.rs.                                                 *)

Chains == Upto(Limit.chain)
Keys == Upto(Limit.node_key)
Urls == Upto(Limit.url)
Signatures == Upto(Limit.signature)

\* The first four fields of a hello, as a reader of their own.
Starts == [protocol : Nat, chain : Chains, genesis : Nat, key : Keys]
StartCode ==
  [v \in Starts |-> <<v.protocol>> \o Prefixed(v.chain) \o <<v.genesis>>
                      \o Prefixed(v.key)]
Started(r1, r2, r3, r4) ==
  IF r1.ok /\ r2.ok /\ r3.ok /\ r4.ok
  THEN Got([protocol |-> r1.value, chain |-> r2.value, genesis |-> r3.value,
            key |-> r4.value], r4.at)
  ELSE Fail
ReadStart(b, p) ==
  LET r1 == Fixed(b, p)                       r2 == ReadBytes(b, r1.at, Limit.chain)
      r3 == Fixed(b, r2.at)                   r4 == ReadBytes(b, r3.at, Limit.node_key)
  IN  Started(r1, r2, r3, r4)

LEMMA FourBytes ==
  ASSUME NEW s1 \in Bytes, NEW s2 \in Bytes, NEW s3 \in Bytes, NEW s4 \in Bytes
  PROVE  s1 \o s2 \o s3 \o s4 \in Bytes
  BY DEF Bytes

LEMMA HelloLimits ==
  /\ Limit.chain \in 0..Limit.allocation /\ Limit.node_key \in 0..Limit.allocation
  /\ Limit.url \in 0..Limit.allocation /\ Limit.signature \in 0..Limit.allocation
  BY LimitsAre

LEMMA HelloTypes ==
  /\ UptoCode(Limit.chain) \in [Chains -> Bytes]
  /\ UptoCode(Limit.node_key) \in [Keys -> Bytes]
  /\ UptoCode(Limit.url) \in [Urls -> Bytes]
  /\ UptoCode(Limit.signature) \in [Signatures -> Bytes]
  <1>1. ASSUME NEW max PROVE UptoCode(max) \in [Upto(max) -> Bytes]
    BY PrefixedIs DEF UptoCode, Upto
  <1> QED BY <1>1 DEF Chains, Keys, Urls, Signatures

\* They are read one after the other.
LEMMA StartReads ==
  ASSUME NEW b \in Bytes, NEW p \in Nat \ {0}
  PROVE  /\ StartCode \in [Starts -> Bytes]
         /\ Reads(ReadStart(b, p), b, p, Starts, StartCode)
  <1> DEFINE T(o, c, g, k) == [protocol |-> o, chain |-> c, genesis |-> g, key |-> k]
             C(o, c, g, k) == SymbolCode[o] \o UptoCode(Limit.chain)[c] \o SymbolCode[g] \o UptoCode(Limit.node_key)[k]
             x == ReadStart(b, p)
  <1>1. /\ SymbolCode \in [Nat -> Bytes]
        /\ UptoCode(Limit.chain) \in [Chains -> Bytes]
        /\ UptoCode(Limit.node_key) \in [Keys -> Bytes]
    BY CodeTypes, HelloTypes
  <1>2. ASSUME NEW o \in Nat, NEW c \in Chains, NEW g \in Nat, NEW k \in Keys
        PROVE  /\ T(o, c, g, k) \in Starts
               /\ StartCode[T(o, c, g, k)] = C(o, c, g, k) /\ C(o, c, g, k) \in Bytes
    <2>1. /\ SymbolCode[o] = <<o>>
          /\ UptoCode(Limit.chain)[c] = Prefixed(c)
          /\ SymbolCode[g] = <<g>>
          /\ UptoCode(Limit.node_key)[k] = Prefixed(k)
      BY CodesAt DEF Chains, Keys
    <2>2. StartCode[T(o, c, g, k)] = C(o, c, g, k)
      BY <2>1 DEF StartCode, Starts
    <2>3. C(o, c, g, k) \in Bytes
      <3>1. /\ SymbolCode[o] \in Bytes
            /\ UptoCode(Limit.chain)[c] \in Bytes
            /\ SymbolCode[g] \in Bytes
            /\ UptoCode(Limit.node_key)[k] \in Bytes
        BY <1>1
      <3> QED BY <3>1, FourBytes
    <2>4. T(o, c, g, k) \in Starts
      BY DEF Starts
    <2> QED BY <2>2, <2>3, <2>4
  <1>3. ASSUME NEW v \in Starts PROVE \E o \in Nat, c \in Chains, g \in Nat, k \in Keys : v = T(o, c, g, k)
    BY DEF Starts
  <1>a. PICK r1 : r1 = Fixed(b, p)
    OBVIOUS
  <1>b. PICK r2 : r2 = ReadBytes(b, r1.at, Limit.chain)
    OBVIOUS
  <1>c. PICK r3 : r3 = Fixed(b, r2.at)
    OBVIOUS
  <1>d. PICK r4 : r4 = ReadBytes(b, r3.at, Limit.node_key)
    OBVIOUS
  <1>4. Four(b, p, r1, Nat, SymbolCode, r2, Chains, UptoCode(Limit.chain), r3, Nat, SymbolCode, r4, Keys, UptoCode(Limit.node_key))
    <2>1. Reads(r1, b, p, Nat, SymbolCode)
      BY <1>a, FixedReads
    <2>2. Follows(r1, r2, b, Chains, UptoCode(Limit.chain))
      BY <1>b, PlacesAre, UptoReads, HelloLimits DEF Follows, Chains
    <2>3. Follows(r2, r3, b, Nat, SymbolCode)
      BY <1>c, PlacesAre, FixedReads DEF Follows
    <2>4. Follows(r3, r4, b, Keys, UptoCode(Limit.node_key))
      BY <1>d, PlacesAre, UptoReads, HelloLimits DEF Follows, Keys
    <2> QED BY <1>1, <2>1, <2>2, <2>3, <2>4, FourRead
  <1>5. x = IF r1.ok /\ r2.ok /\ r3.ok /\ r4.ok
            THEN Got(T(r1.value, r2.value, r3.value, r4.value), r4.at)
            ELSE Fail
    BY <1>a, <1>b, <1>c, <1>d DEF ReadStart, Started
  <1> HIDE DEF x, T, C
  <1>6. ASSUME x # Fail
        PROVE  \E v \in Starts : /\ x = Got(v, p + Len(StartCode[v]))
                        /\ Has(b, p, StartCode[v])
    <2>1. /\ r1.ok /\ r2.ok /\ r3.ok /\ r4.ok
          /\ x = Got(T(r1.value, r2.value, r3.value, r4.value), r4.at)
      BY <1>5, <1>6
    <2>2. /\ r1.value \in Nat
          /\ r2.value \in Chains
          /\ r3.value \in Nat
          /\ r4.value \in Keys
          /\ Stands(b, p, C(r1.value, r2.value, r3.value, r4.value), r4.at)
      BY <1>4, <2>1 DEF Four, C
    <2>3. /\ T(r1.value, r2.value, r3.value, r4.value) \in Starts
          /\ StartCode[T(r1.value, r2.value, r3.value, r4.value)] = C(r1.value, r2.value, r3.value, r4.value)
      BY <1>2, <2>1, <2>2
    <2> QED BY <2>1, <2>2, <2>3 DEF Stands
  <1>7. ASSUME NEW v \in Starts, Has(b, p, StartCode[v])
        PROVE  x = Got(v, p + Len(StartCode[v]))
    <2>1. PICK o \in Nat, c \in Chains, g \in Nat, k \in Keys : v = T(o, c, g, k)
      BY <1>3
    <2>2. StartCode[v] = C(o, c, g, k)
      BY <1>2, <2>1
    <2>3. Has(b, p, C(o, c, g, k))
      BY <1>7, <2>2
    <2>4. /\ r1.ok /\ r1.value = o
          /\ r2.ok /\ r2.value = c
          /\ r3.ok /\ r3.value = g
          /\ r4.ok /\ r4.value = k
          /\ r4.at = p + Len(C(o, c, g, k))
      BY <1>4, <2>3, ZenonT(40) DEF Four, C
    <2> QED BY <1>5, <2>1, <2>2, <2>4
  <1>8. StartCode \in [Starts -> Bytes]
    <2>1. ASSUME NEW v \in Starts PROVE StartCode[v] \in Bytes
      <3>1. PICK o \in Nat, c \in Chains, g \in Nat, k \in Keys : v = T(o, c, g, k)
        BY <1>3
      <3> QED BY <1>2, <3>1
    <2>2. StartCode = [v \in Starts |-> StartCode[v]]
      BY DEF StartCode
    <2> QED BY <2>1, <2>2
  <1>9. Reads(x, b, p, Starts, StartCode)
    BY <1>6, <1>7 DEF Reads
  <1> QED BY <1>8, <1>9 DEF x

HellosOf ==
  [protocol : Nat, chain : Chains, genesis : Nat, key : Keys, state : Nat,
   url : Urls, signature : Signatures]
HelloCode == [v \in HellosOf |-> EncodeHello(v)]

\* Hello::consensus_decode.
LEMMA HelloReads ==
  ASSUME NEW b \in Bytes, NEW p \in Nat \ {0}
  PROVE  /\ HelloCode \in [HellosOf -> Bytes]
         /\ Reads(ReadHello(b, p), b, p, HellosOf, HelloCode)
  <1> DEFINE T(a, t, u, s) == [protocol |-> a.protocol, chain |-> a.chain, genesis |-> a.genesis,
                             key |-> a.key, state |-> t, url |-> u, signature |-> s]
             C(a, t, u, s) == StartCode[a] \o SymbolCode[t] \o UptoCode(Limit.url)[u] \o UptoCode(Limit.signature)[s]
             x == ReadHello(b, p)
  <1>1. /\ StartCode \in [Starts -> Bytes]
        /\ SymbolCode \in [Nat -> Bytes]
        /\ UptoCode(Limit.url) \in [Urls -> Bytes]
        /\ UptoCode(Limit.signature) \in [Signatures -> Bytes]
    BY CodeTypes, HelloTypes, StartReads
  <1>2. ASSUME NEW a \in Starts, NEW t \in Nat, NEW u \in Urls, NEW s \in Signatures
        PROVE  /\ T(a, t, u, s) \in HellosOf
               /\ HelloCode[T(a, t, u, s)] = C(a, t, u, s) /\ C(a, t, u, s) \in Bytes
    <2>1. /\ StartCode[a] = <<a.protocol>> \o Prefixed(a.chain) \o <<a.genesis>> \o Prefixed(a.key)
          /\ SymbolCode[t] = <<t>>
          /\ UptoCode(Limit.url)[u] = Prefixed(u)
          /\ UptoCode(Limit.signature)[s] = Prefixed(s)
      BY CodesAt DEF Urls, Signatures, StartCode
    <2>2. EncodeHello(T(a, t, u, s)) = C(a, t, u, s)
      BY <2>1 DEF EncodeHello
    <2>3. C(a, t, u, s) \in Bytes
      <3>1. /\ StartCode[a] \in Bytes
            /\ SymbolCode[t] \in Bytes
            /\ UptoCode(Limit.url)[u] \in Bytes
            /\ UptoCode(Limit.signature)[s] \in Bytes
        BY <1>1
      <3> QED BY <3>1, FourBytes
    <2>4. T(a, t, u, s) \in HellosOf
      BY DEF HellosOf, Starts
    <2>5. HelloCode[T(a, t, u, s)] = EncodeHello(T(a, t, u, s))
      BY <2>4 DEF HelloCode
    <2> QED BY <2>2, <2>3, <2>4, <2>5
  <1>3. ASSUME NEW v \in HellosOf PROVE \E a \in Starts, t \in Nat, u \in Urls, s \in Signatures : v = T(a, t, u, s)
    <2>1. PICK a : a = [protocol |-> v.protocol, chain |-> v.chain,
                        genesis |-> v.genesis, key |-> v.key]
      OBVIOUS
    <2>2. a \in Starts /\ v = T(a, v.state, v.url, v.signature)
      BY <2>1 DEF HellosOf, Starts
    <2>3. v.state \in Nat /\ v.url \in Urls /\ v.signature \in Signatures
      BY DEF HellosOf
    <2> HIDE DEF T
    <2> QED BY <2>2, <2>3
  <1>a. PICK r1 : r1 = ReadStart(b, p)
    OBVIOUS
  <1>b. PICK r2 : r2 = Fixed(b, r1.at)
    OBVIOUS
  <1>c. PICK r3 : r3 = ReadBytes(b, r2.at, Limit.url)
    OBVIOUS
  <1>d. PICK r4 : r4 = ReadBytes(b, r3.at, Limit.signature)
    OBVIOUS
  <1>4. Four(b, p, r1, Starts, StartCode, r2, Nat, SymbolCode, r3, Urls, UptoCode(Limit.url), r4, Signatures, UptoCode(Limit.signature))
    <2>1. Reads(r1, b, p, Starts, StartCode)
      BY <1>a, StartReads
    <2>2. Follows(r1, r2, b, Nat, SymbolCode)
      BY <1>b, PlacesAre, FixedReads DEF Follows
    <2>3. Follows(r2, r3, b, Urls, UptoCode(Limit.url))
      BY <1>c, PlacesAre, UptoReads, HelloLimits DEF Follows, Urls
    <2>4. Follows(r3, r4, b, Signatures, UptoCode(Limit.signature))
      BY <1>d, PlacesAre, UptoReads, HelloLimits DEF Follows, Signatures
    <2> QED BY <1>1, <2>1, <2>2, <2>3, <2>4, FourRead
  <1>5. x = IF r1.ok /\ r2.ok /\ r3.ok /\ r4.ok
            THEN Got(T(r1.value, r2.value, r3.value, r4.value), r4.at)
            ELSE Fail
    <2>1. ASSUME NEW f1, f1 = Fixed(b, p), NEW f2, f2 = ReadBytes(b, f1.at, Limit.chain),
                 NEW f3, f3 = Fixed(b, f2.at),
                 NEW f4, f4 = ReadBytes(b, f3.at, Limit.node_key)
          PROVE  x = IF r1.ok /\ r2.ok /\ r3.ok /\ r4.ok
                     THEN Got(T(r1.value, r2.value, r3.value, r4.value), r4.at)
                     ELSE Fail
      <3>1. r1 = Started(f1, f2, f3, f4)
        BY <1>a, <2>1, SMTT(30) DEF ReadStart
      <3>2. ASSUME NEW g2, g2 = Fixed(b, f4.at),
                   NEW g3, g3 = ReadBytes(b, g2.at, Limit.url),
                   NEW g4, g4 = ReadBytes(b, g3.at, Limit.signature)
            PROVE  x = IF /\ f1.ok /\ f2.ok /\ f3.ok /\ f4.ok
                          /\ g2.ok /\ g3.ok /\ g4.ok
                       THEN Got([protocol |-> f1.value, chain |-> f2.value,
                                 genesis |-> f3.value, key |-> f4.value,
                                 state |-> g2.value, url |-> g3.value,
                                 signature |-> g4.value], g4.at)
                       ELSE Fail
        BY <2>1, <3>2 DEF ReadHello, Then
      <3> HIDE DEF x
      <3>3. CASE f1.ok /\ f2.ok /\ f3.ok /\ f4.ok
        <4>1. r1 = Got([protocol |-> f1.value, chain |-> f2.value,
                        genesis |-> f3.value, key |-> f4.value], f4.at)
          BY <3>1, <3>3 DEF Started
        <4>2. /\ r1.ok /\ r1.at = f4.at
              /\ r1.value = [protocol |-> f1.value, chain |-> f2.value,
                             genesis |-> f3.value, key |-> f4.value]
          BY <4>1, GotIs
        <4>3. r2 = Fixed(b, f4.at)
          BY <1>b, <4>2
        <4>4. x = IF r2.ok /\ r3.ok /\ r4.ok
                  THEN Got([protocol |-> f1.value, chain |-> f2.value,
                            genesis |-> f3.value, key |-> f4.value,
                            state |-> r2.value, url |-> r3.value,
                            signature |-> r4.value], r4.at)
                  ELSE Fail
          BY <1>c, <1>d, <3>2, <3>3, <4>3
        <4>5. T(r1.value, r2.value, r3.value, r4.value)
                = [protocol |-> f1.value, chain |-> f2.value,
                   genesis |-> f3.value, key |-> f4.value,
                   state |-> r2.value, url |-> r3.value, signature |-> r4.value]
          BY <4>2
        <4> QED BY <4>2, <4>4, <4>5
      <3>4. CASE ~(f1.ok /\ f2.ok /\ f3.ok /\ f4.ok)
        <4>1. ~r1.ok
          BY <3>1, <3>4, GotIs DEF Started
        <4> QED BY <3>2, <3>4, <4>1
      <3> QED BY <3>3, <3>4
    <2> QED BY <2>1
  <1> HIDE DEF x, T, C
  <1>6. ASSUME x # Fail
        PROVE  \E v \in HellosOf : /\ x = Got(v, p + Len(HelloCode[v]))
                        /\ Has(b, p, HelloCode[v])
    <2>1. /\ r1.ok /\ r2.ok /\ r3.ok /\ r4.ok
          /\ x = Got(T(r1.value, r2.value, r3.value, r4.value), r4.at)
      BY <1>5, <1>6
    <2>2. /\ r1.value \in Starts
          /\ r2.value \in Nat
          /\ r3.value \in Urls
          /\ r4.value \in Signatures
          /\ Stands(b, p, C(r1.value, r2.value, r3.value, r4.value), r4.at)
      BY <1>4, <2>1 DEF Four, C
    <2>3. /\ T(r1.value, r2.value, r3.value, r4.value) \in HellosOf
          /\ HelloCode[T(r1.value, r2.value, r3.value, r4.value)] = C(r1.value, r2.value, r3.value, r4.value)
      BY <1>2, <2>1, <2>2
    <2> QED BY <2>1, <2>2, <2>3 DEF Stands
  <1>7. ASSUME NEW v \in HellosOf, Has(b, p, HelloCode[v])
        PROVE  x = Got(v, p + Len(HelloCode[v]))
    <2>1. PICK a \in Starts, t \in Nat, u \in Urls, s \in Signatures : v = T(a, t, u, s)
      BY <1>3
    <2>2. HelloCode[v] = C(a, t, u, s)
      BY <1>2, <2>1
    <2>3. Has(b, p, C(a, t, u, s))
      BY <1>7, <2>2
    <2>4. /\ r1.ok /\ r1.value = a
          /\ r2.ok /\ r2.value = t
          /\ r3.ok /\ r3.value = u
          /\ r4.ok /\ r4.value = s
          /\ r4.at = p + Len(C(a, t, u, s))
      BY <1>4, <2>3, ZenonT(40) DEF Four, C
    <2> QED BY <1>5, <2>1, <2>2, <2>4
  <1>8. HelloCode \in [HellosOf -> Bytes]
    <2>1. ASSUME NEW v \in HellosOf PROVE HelloCode[v] \in Bytes
      <3>1. PICK a \in Starts, t \in Nat, u \in Urls, s \in Signatures : v = T(a, t, u, s)
        BY <1>3
      <3> QED BY <1>2, <3>1
    <2>2. HelloCode = [v \in HellosOf |-> HelloCode[v]]
      BY DEF HelloCode
    <2> QED BY <2>1, <2>2
  <1>9. Reads(x, b, p, HellosOf, HelloCode)
    BY <1>6, <1>7 DEF Reads
  <1> QED BY <1>8, <1>9 DEF x

FitHellos == Within(HellosOf, HelloCode, Limit.hello)
FitHelloCode == WithinCode(HellosOf, HelloCode, Limit.hello)

\* A hello in a message.
LEMMA FitHelloReads ==
  ASSUME NEW b \in Bytes, NEW p \in Nat \ {0}
  PROVE  /\ FitHelloCode \in [FitHellos -> Bytes]
         /\ \A v \in FitHellos : FitHelloCode[v] = Prefixed(HelloCode[v])
         /\ Reads(Nested(b, p, Limit.hello, ReadHello), b, p, FitHellos, FitHelloCode)
  <1>1. Limit.hello \in 0..Limit.allocation
    BY LimitsAre
  <1>2. PICK R : R = [bytes \in Bytes |-> ReadHello(bytes, 1)]
    OBVIOUS
  <1>3. 1 \in Nat \ {0}
    OBVIOUS
  <1>4. \A bytes \in Bytes : /\ R[bytes] = ReadHello(bytes, 1)
                             /\ Reads(R[bytes], bytes, 1, HellosOf, HelloCode)
    BY <1>2, <1>3, HelloReads
  <1>5. HelloCode \in [HellosOf -> Bytes]
    BY HelloReads
  <1>6. ASSUME NEW r, r = ReadBytes(b, p, Limit.hello), r.ok => r.value \in Bytes
        PROVE  Nested(b, p, Limit.hello, ReadHello) =
                 IF r.ok
                 THEN IF Decoded(r.value, R[r.value]).ok
                      THEN Got(Decoded(r.value, R[r.value]).value, r.at)
                      ELSE Fail
                 ELSE Fail
    <2>1. ASSUME NEW y, y = ReadHello(r.value, 1),
                 NEW d, d = Decoded(r.value, y)
          PROVE  Nested(b, p, Limit.hello, ReadHello) =
                   IF r.ok THEN IF d.ok THEN Got(d.value, r.at) ELSE Fail ELSE Fail
      BY <1>6, <2>1 DEF Nested, ConsensusDecode, Then, Decoded
    <2>2. r.ok => R[r.value] = ReadHello(r.value, 1)
      BY <1>4, <1>6
    <2> QED BY <2>1, <2>2
  <1>7. Reads(Nested(b, p, Limit.hello, ReadHello), b, p, FitHellos, FitHelloCode)
    BY <1>1, <1>4, <1>5, <1>6, WithinReads DEF FitHellos, FitHelloCode
  <1>8. FitHelloCode \in [FitHellos -> Bytes]
    BY <1>5, WithinType DEF FitHellos, FitHelloCode
  <1>9. \A v \in FitHellos : FitHelloCode[v] = Prefixed(HelloCode[v])
    BY DEF FitHellos, FitHelloCode, WithinCode
  <1> QED BY <1>7, <1>8, <1>9

Objects == [kind : 1..4, id : Nat]
ObjectCode == [v \in Objects |-> <<v.kind, v.id>>]

\* An announcement or a request of one object.
LEMMA ObjectReads ==
  ASSUME NEW b \in Bytes, NEW p \in Nat \ {0}
  PROVE  /\ ObjectCode \in [Objects -> Bytes]
         /\ Reads(ReadObject(b, p), b, p, Objects, ObjectCode)
  <1> DEFINE T(k, i) == [kind |-> k, id |-> i]
             C(k, i) == SymbolCode[k] \o SymbolCode[i]
             x == ReadObject(b, p)
  <1>1. /\ SymbolCode \in [Nat -> Bytes]
    BY CodeTypes
  <1>2. ASSUME NEW k \in Nat, NEW i \in Nat
        PROVE  /\ T(k, i) \in Objects <=> k \in 1..4
               /\ T(k, i) \in Objects => ObjectCode[T(k, i)] = C(k, i)
               /\ C(k, i) \in Bytes
    <2>1. /\ SymbolCode[k] = <<k>>
          /\ SymbolCode[i] = <<i>>
      BY CodesAt
    <2>2. <<k, i>> = C(k, i)
      BY <2>1, JoinOne
    <2>3. C(k, i) \in Bytes
      <3>1. /\ SymbolCode[k] \in Bytes
            /\ SymbolCode[i] \in Bytes
        BY <1>1
      <3> QED BY <3>1, HasBoth
    <2>4. T(k, i) \in Objects <=> k \in 1..4
      BY DEF Objects
    <2>5. T(k, i) \in Objects => ObjectCode[T(k, i)] = <<k, i>>
      BY DEF ObjectCode
    <2> QED BY <2>2, <2>3, <2>4, <2>5
  <1>3. ASSUME NEW v \in Objects PROVE \E k \in Nat, i \in Nat : v = T(k, i)
    BY DEF Objects
  <1>a. PICK r1 : r1 = Fixed(b, p)
    OBVIOUS
  <1>b. PICK r2 : r2 = Fixed(b, r1.at)
    OBVIOUS
  <1>4. Two(b, p, r1, Nat, SymbolCode, r2, Nat, SymbolCode)
    <2>1. Reads(r1, b, p, Nat, SymbolCode)
      BY <1>a, FixedReads
    <2>2. Follows(r1, r2, b, Nat, SymbolCode)
      BY <1>b, PlacesAre, FixedReads DEF Follows
    <2> QED BY <1>1, <2>1, <2>2, TwoRead
  <1>5. x = IF r1.ok /\ r2.ok
            THEN IF r1.value \in 1..4
             THEN Got(T(r1.value, r2.value), r2.at) ELSE Fail
            ELSE Fail
    BY <1>a, <1>b DEF ReadObject, Then
  <1> HIDE DEF x, T, C
  <1>6. ASSUME x # Fail
        PROVE  \E v \in Objects : /\ x = Got(v, p + Len(ObjectCode[v]))
                        /\ Has(b, p, ObjectCode[v])
    <2>1. /\ r1.ok /\ r2.ok
          /\ x = Got(T(r1.value, r2.value), r2.at)
          /\ r1.value \in 1..4
      BY <1>5, <1>6
    <2>2. /\ r1.value \in Nat
          /\ r2.value \in Nat
          /\ Stands(b, p, C(r1.value, r2.value), r2.at)
      BY <1>4, <2>1 DEF Two, C
    <2>3. /\ T(r1.value, r2.value) \in Objects
          /\ ObjectCode[T(r1.value, r2.value)] = C(r1.value, r2.value)
      BY <1>2, <2>1, <2>2
    <2> QED BY <2>1, <2>2, <2>3 DEF Stands
  <1>7. ASSUME NEW v \in Objects, Has(b, p, ObjectCode[v])
        PROVE  x = Got(v, p + Len(ObjectCode[v]))
    <2>1. PICK k \in Nat, i \in Nat : v = T(k, i)
      BY <1>3
    <2>2. ObjectCode[v] = C(k, i) /\ k \in 1..4
      BY <1>2, <2>1
    <2>3. Has(b, p, C(k, i))
      BY <1>7, <2>2
    <2>4. /\ r1.ok /\ r1.value = k
          /\ r2.ok /\ r2.value = i
          /\ r2.at = p + Len(C(k, i))
      BY <1>4, <2>3 DEF Two, C
    <2> QED BY <1>5, <2>1, <2>2, <2>4
  <1>8. ObjectCode \in [Objects -> Bytes]
    <2>1. ASSUME NEW v \in Objects PROVE ObjectCode[v] \in Bytes
      <3>1. PICK k \in Nat, i \in Nat : v = T(k, i)
        BY <1>3
      <3> QED BY <1>2, <3>1
    <2>2. ObjectCode = [v \in Objects |-> ObjectCode[v]]
      BY DEF ObjectCode
    <2> QED BY <2>1, <2>2
  <1>9. Reads(x, b, p, Objects, ObjectCode)
    BY <1>6, <1>7 DEF Reads
  <1> QED BY <1>8, <1>9 DEF x

LocatorLists == Most(Nat, Limit.locator)
LocatorListCode == MostCode(Nat, SymbolCode, Limit.locator)
HeaderLists == Most(Nat, Limit.headers)
HeaderCode == MostCode(Nat, SymbolCode, Limit.headers)
UrlLists == Most(Urls, Limit.urls)
UrlListCode == MostCode(Urls, UptoCode(Limit.url), Limit.urls)

\* The hashes of a locator.
LEMMA LocatorListReads ==
  ASSUME NEW b \in Bytes, NEW p \in Nat \ {0}
  PROVE  /\ LocatorListCode \in [LocatorLists -> Bytes]
         /\ \A s \in LocatorLists : LocatorListCode[s] = EncodeAll([i \in DOMAIN s |-> <<s[i]>>])
         /\ Reads(Vector(b, p, Limit.locator, Fixed), b, p, LocatorLists, LocatorListCode)
  <1>1. Limit.locator \in Nat
    BY LimitsAre
  <1>2. SymbolCode \in [Nat -> Bytes]
    BY CodeTypes
  <1>3. PICK item : item = [j \in Places(b) |-> Fixed(b, j)]
    OBVIOUS
  <1>4. \A j \in Places(b) : Reads(item[j], b, j, Nat, SymbolCode)
    BY <1>3, FixedReads, PlacesAre
  <1>5. /\ LocatorListCode \in [LocatorLists -> Bytes]
        /\ \A s \in LocatorLists : LocatorListCode[s] = EncodeAll([i \in DOMAIN s |-> SymbolCode[s[i]]])
        /\ Reads(Counted(b, p, Limit.locator, item), b, p, LocatorLists, LocatorListCode)
    BY <1>1, <1>2, <1>4, MostReads DEF LocatorLists, LocatorListCode
  <1>6. Vector(b, p, Limit.locator, Fixed) = Counted(b, p, Limit.locator, item)
    BY <1>3 DEF Vector
  <1>7. ASSUME NEW s \in LocatorLists PROVE LocatorListCode[s] = EncodeAll([i \in DOMAIN s |-> <<s[i]>>])
    <2>1. ASSUME NEW i \in DOMAIN s PROVE SymbolCode[s[i]] = <<s[i]>>
      <3>1. s[i] \in Nat
        BY DEF LocatorLists, Most
      <3> QED BY <3>1, CodesAt
    <2>2. [i \in DOMAIN s |-> SymbolCode[s[i]]] = [i \in DOMAIN s |-> <<s[i]>>]
      BY <2>1
    <2> QED BY <1>5, <2>2
  <1> QED BY <1>5, <1>6, <1>7

\* The headers of an answer.
LEMMA HeaderReads ==
  ASSUME NEW b \in Bytes, NEW p \in Nat \ {0}
  PROVE  /\ HeaderCode \in [HeaderLists -> Bytes]
         /\ \A s \in HeaderLists : HeaderCode[s] = EncodeAll([i \in DOMAIN s |-> <<s[i]>>])
         /\ Reads(Vector(b, p, Limit.headers, Fixed), b, p, HeaderLists, HeaderCode)
  <1>1. Limit.headers \in Nat
    BY LimitsAre
  <1>2. SymbolCode \in [Nat -> Bytes]
    BY CodeTypes
  <1>3. PICK item : item = [j \in Places(b) |-> Fixed(b, j)]
    OBVIOUS
  <1>4. \A j \in Places(b) : Reads(item[j], b, j, Nat, SymbolCode)
    BY <1>3, FixedReads, PlacesAre
  <1>5. /\ HeaderCode \in [HeaderLists -> Bytes]
        /\ \A s \in HeaderLists : HeaderCode[s] = EncodeAll([i \in DOMAIN s |-> SymbolCode[s[i]]])
        /\ Reads(Counted(b, p, Limit.headers, item), b, p, HeaderLists, HeaderCode)
    BY <1>1, <1>2, <1>4, MostReads DEF HeaderLists, HeaderCode
  <1>6. Vector(b, p, Limit.headers, Fixed) = Counted(b, p, Limit.headers, item)
    BY <1>3 DEF Vector
  <1>7. ASSUME NEW s \in HeaderLists PROVE HeaderCode[s] = EncodeAll([i \in DOMAIN s |-> <<s[i]>>])
    <2>1. ASSUME NEW i \in DOMAIN s PROVE SymbolCode[s[i]] = <<s[i]>>
      <3>1. s[i] \in Nat
        BY DEF HeaderLists, Most
      <3> QED BY <3>1, CodesAt
    <2>2. [i \in DOMAIN s |-> SymbolCode[s[i]]] = [i \in DOMAIN s |-> <<s[i]>>]
      BY <2>1
    <2> QED BY <1>5, <2>2
  <1> QED BY <1>5, <1>6, <1>7

\* The addresses of peers.
LEMMA UrlListReads ==
  ASSUME NEW b \in Bytes, NEW p \in Nat \ {0}
  PROVE  /\ UrlListCode \in [UrlLists -> Bytes]
         /\ \A s \in UrlLists : UrlListCode[s] = EncodeAll([i \in DOMAIN s |-> Prefixed(s[i])])
         /\ Reads(Vector(b, p, Limit.urls, ReadUrl), b, p, UrlLists, UrlListCode)
  <1>1. Limit.urls \in Nat
    BY LimitsAre
  <1>2. UptoCode(Limit.url) \in [Urls -> Bytes]
    BY HelloTypes
  <1>3. PICK item : item = [j \in Places(b) |-> ReadUrl(b, j)]
    OBVIOUS
  <1>4. \A j \in Places(b) : Reads(item[j], b, j, Urls, UptoCode(Limit.url))
    BY <1>3, UptoReads, HelloLimits, PlacesAre DEF ReadUrl, Urls
  <1>5. /\ UrlListCode \in [UrlLists -> Bytes]
        /\ \A s \in UrlLists : UrlListCode[s] = EncodeAll([i \in DOMAIN s |-> UptoCode(Limit.url)[s[i]]])
        /\ Reads(Counted(b, p, Limit.urls, item), b, p, UrlLists, UrlListCode)
    BY <1>1, <1>2, <1>4, MostReads DEF UrlLists, UrlListCode
  <1>6. Vector(b, p, Limit.urls, ReadUrl) = Counted(b, p, Limit.urls, item)
    BY <1>3 DEF Vector
  <1>7. ASSUME NEW s \in UrlLists PROVE UrlListCode[s] = EncodeAll([i \in DOMAIN s |-> Prefixed(s[i])])
    <2>1. ASSUME NEW i \in DOMAIN s
          PROVE  UptoCode(Limit.url)[s[i]] = Prefixed(s[i])
      <3>1. s[i] \in Upto(Limit.url)
        BY DEF UrlLists, Urls, Most
      <3> QED BY <3>1, CodesAt
    <2>2. [i \in DOMAIN s |-> UptoCode(Limit.url)[s[i]]]
            = [i \in DOMAIN s |-> Prefixed(s[i])]
      BY <2>1
    <2> QED BY <1>5, <2>2
  <1> QED BY <1>5, <1>6, <1>7

Locators == [locator : LocatorLists, stop : Nat]
LocatorCode ==
  [v \in Locators |-> EncodeAll([i \in DOMAIN v.locator |-> <<v.locator[i]>>])
                        \o <<v.stop>>]

\* A request of headers.
LEMMA LocatorReads ==
  ASSUME NEW b \in Bytes, NEW p \in Nat \ {0}
  PROVE  /\ LocatorCode \in [Locators -> Bytes]
         /\ Reads(ReadLocator(b, p), b, p, Locators, LocatorCode)
  <1> DEFINE T(l, t) == [locator |-> l, stop |-> t]
             C(l, t) == LocatorListCode[l] \o SymbolCode[t]
             x == ReadLocator(b, p)
  <1>1. /\ LocatorListCode \in [LocatorLists -> Bytes]
        /\ SymbolCode \in [Nat -> Bytes]
    BY CodeTypes, LocatorListReads
  <1>2. ASSUME NEW l \in LocatorLists, NEW t \in Nat
        PROVE  /\ T(l, t) \in Locators
               /\ LocatorCode[T(l, t)] = C(l, t) /\ C(l, t) \in Bytes
    <2>1. /\ LocatorListCode[l] = EncodeAll([i \in DOMAIN l |-> <<l[i]>>])
          /\ SymbolCode[t] = <<t>>
      BY CodesAt, LocatorListReads
    <2>2. LocatorCode[T(l, t)] = C(l, t)
      BY <2>1 DEF LocatorCode, Locators
    <2>3. C(l, t) \in Bytes
      <3>1. /\ LocatorListCode[l] \in Bytes
            /\ SymbolCode[t] \in Bytes
        BY <1>1
      <3> QED BY <3>1, HasBoth
    <2>4. T(l, t) \in Locators
      BY DEF Locators
    <2> QED BY <2>2, <2>3, <2>4
  <1>3. ASSUME NEW v \in Locators PROVE \E l \in LocatorLists, t \in Nat : v = T(l, t)
    BY DEF Locators
  <1>a. PICK r1 : r1 = Vector(b, p, Limit.locator, Fixed)
    OBVIOUS
  <1>b. PICK r2 : r2 = Fixed(b, r1.at)
    OBVIOUS
  <1>4. Two(b, p, r1, LocatorLists, LocatorListCode, r2, Nat, SymbolCode)
    <2>1. Reads(r1, b, p, LocatorLists, LocatorListCode)
      BY <1>a, LocatorListReads
    <2>2. Follows(r1, r2, b, Nat, SymbolCode)
      BY <1>b, PlacesAre, FixedReads DEF Follows
    <2> QED BY <1>1, <2>1, <2>2, TwoRead
  <1>5. x = IF r1.ok /\ r2.ok
            THEN Got(T(r1.value, r2.value), r2.at)
            ELSE Fail
    BY <1>a, <1>b DEF ReadLocator, Then
  <1> HIDE DEF x, T, C
  <1>6. ASSUME x # Fail
        PROVE  \E v \in Locators : /\ x = Got(v, p + Len(LocatorCode[v]))
                        /\ Has(b, p, LocatorCode[v])
    <2>1. /\ r1.ok /\ r2.ok
          /\ x = Got(T(r1.value, r2.value), r2.at)
      BY <1>5, <1>6
    <2>2. /\ r1.value \in LocatorLists
          /\ r2.value \in Nat
          /\ Stands(b, p, C(r1.value, r2.value), r2.at)
      BY <1>4, <2>1 DEF Two, C
    <2>3. /\ T(r1.value, r2.value) \in Locators
          /\ LocatorCode[T(r1.value, r2.value)] = C(r1.value, r2.value)
      BY <1>2, <2>1, <2>2
    <2> QED BY <2>1, <2>2, <2>3 DEF Stands
  <1>7. ASSUME NEW v \in Locators, Has(b, p, LocatorCode[v])
        PROVE  x = Got(v, p + Len(LocatorCode[v]))
    <2>1. PICK l \in LocatorLists, t \in Nat : v = T(l, t)
      BY <1>3
    <2>2. LocatorCode[v] = C(l, t)
      BY <1>2, <2>1
    <2>3. Has(b, p, C(l, t))
      BY <1>7, <2>2
    <2>4. /\ r1.ok /\ r1.value = l
          /\ r2.ok /\ r2.value = t
          /\ r2.at = p + Len(C(l, t))
      BY <1>4, <2>3 DEF Two, C
    <2> QED BY <1>5, <2>1, <2>2, <2>4
  <1>8. LocatorCode \in [Locators -> Bytes]
    <2>1. ASSUME NEW v \in Locators PROVE LocatorCode[v] \in Bytes
      <3>1. PICK l \in LocatorLists, t \in Nat : v = T(l, t)
        BY <1>3
      <3> QED BY <1>2, <3>1
    <2>2. LocatorCode = [v \in Locators |-> LocatorCode[v]]
      BY DEF LocatorCode
    <2> QED BY <2>1, <2>2
  <1>9. Reads(x, b, p, Locators, LocatorCode)
    BY <1>6, <1>7 DEF Reads
  <1> QED BY <1>8, <1>9 DEF x

PeerLists == {s \in UrlLists : IsInjective(s)}
PeerCode == [s \in PeerLists |-> EncodeAll([i \in DOMAIN s |-> Prefixed(s[i])])]

\* An address is not sent twice.
LEMMA PeersRead ==
  ASSUME NEW b \in Bytes, NEW p \in Nat \ {0}
  PROVE  /\ PeerCode \in [PeerLists -> Bytes]
         /\ Reads(ReadPeers(b, p), b, p, PeerLists, PeerCode)
  <1>1. PICK r : r = Vector(b, p, Limit.urls, ReadUrl)
    OBVIOUS
  <1> DEFINE x == ReadPeers(b, p)
  <1>2. x = IF r.ok THEN IF IsInjective(r.value) THEN Got(r.value, r.at) ELSE Fail
                    ELSE Fail
    BY <1>1 DEF ReadPeers, Then
  <1>3. \A s \in PeerLists : /\ s \in UrlLists /\ IsInjective(s)
                             /\ PeerCode[s] = UrlListCode[s] /\ UrlListCode[s] \in Bytes
    BY UrlListReads DEF PeerLists, PeerCode
  <1>4. Reads(r, b, p, UrlLists, UrlListCode)
    BY <1>1, UrlListReads
  <1>5. \A s \in UrlLists : IsInjective(s) => s \in PeerLists
    BY DEF PeerLists
  <1>6. PeerCode \in [PeerLists -> Bytes]
    <2>1. PeerCode = [s \in PeerLists |-> PeerCode[s]]
      BY DEF PeerCode
    <2> QED BY <1>3, <2>1
  <1> HIDE DEF x
  <1>7. Reads(x, b, p, PeerLists, PeerCode)
    BY <1>2, <1>3, <1>4, <1>5, GotIs DEF Reads
  <1> QED BY <1>6, <1>7 DEF x

ContentOf(tag) ==
  CASE tag = 1          -> FitHellos
    [] tag \in {2, 3}   -> Objects
    [] tag = 4          -> FitBlocks
    [] tag = 5          -> Transactions
    [] tag \in {6, 10, 11} -> Nat
    [] tag = 7          -> FitTemplates
    [] tag = 8          -> Locators
    [] tag = 9          -> HeaderLists
    [] tag = 12         -> PeerLists

Message(tag, v) == [tag |-> tag, value |-> v]
ContentCode(tag) == [v \in ContentOf(tag) |-> Content(Message(tag, v))]

\* What a tag says about the content.
LEMMA ContentReads ==
  ASSUME NEW b \in Bytes, NEW p \in Nat \ {0}, NEW tag \in 1..12
  PROVE  /\ ContentCode(tag) \in [ContentOf(tag) -> Bytes]
         /\ Reads(ReadContent(tag, b, p), b, p, ContentOf(tag), ContentCode(tag))
  <1> DEFINE x == ReadContent(tag, b, p)
             Goal == /\ ContentCode(tag) \in [ContentOf(tag) -> Bytes]
                     /\ Reads(x, b, p, ContentOf(tag), ContentCode(tag))
  <1> HIDE DEF x
  <1>0. ASSUME NEW W, NEW E \in [W -> Bytes], Reads(x, b, p, W, E),
               ContentOf(tag) = W, \A v \in W : Content(Message(tag, v)) = E[v]
        PROVE  Goal
    <2>1. ContentCode(tag) = E
      BY <1>0 DEF ContentCode
    <2> QED BY <1>0, <2>1
  <1> SUFFICES Goal
    BY DEF x
  <1> HIDE DEF Goal
  <1>m. \A v : Message(tag, v).tag = tag /\ Message(tag, v).value = v
    BY DEF Message
  <1>1. CASE tag = 1
    <2>1. x = Nested(b, p, Limit.hello, ReadHello) /\ ContentOf(tag) = FitHellos
      BY <1>1 DEF x, ReadContent, ContentOf
    <2>2. ASSUME NEW v \in FitHellos PROVE Content(Message(tag, v)) = FitHelloCode[v]
      <3>1. FitHelloCode[v] = Prefixed(HelloCode[v])
        BY FitHelloReads
      <3>2. HelloCode[v] = EncodeHello(v)
        BY DEF FitHellos, Within, HelloCode
      <3> QED BY <1>1, <1>m, <3>1, <3>2 DEF Content
    <2>3. FitHelloCode \in [FitHellos -> Bytes] /\ Reads(x, b, p, FitHellos, FitHelloCode)
      BY <2>1, FitHelloReads
    <2> QED BY <1>0, <2>1, <2>2, <2>3
  <1>2. CASE tag \in {2, 3}
    <2>0. tag # 1 /\ (tag = 2 \/ tag = 3) /\ tag \in {2, 3}
      BY <1>2
    <2>1. x = ReadObject(b, p) /\ ContentOf(tag) = Objects
      <3>1. x = ReadObject(b, p)
        <4>1. CASE tag = 2
          BY <4>1 DEF x, ReadContent
        <4>2. CASE tag = 3
          BY <4>2 DEF x, ReadContent
        <4> QED BY <2>0, <4>1, <4>2
      <3>2. ContentOf(tag) = Objects
        BY <2>0 DEF ContentOf
      <3> QED BY <3>1, <3>2
    <2>2. ASSUME NEW v \in Objects PROVE Content(Message(tag, v)) = ObjectCode[v]
      <3>1. ObjectCode[v] = <<v.kind, v.id>>
        BY DEF ObjectCode
      <3>2. PICK m : m = Message(tag, v) /\ m.tag = tag /\ m.value = v
        BY <1>m
      <3>3. Content(m) = <<v.kind, v.id>>
        BY <2>0, <3>2 DEF Content
      <3> QED BY <3>1, <3>2, <3>3
    <2>3. ObjectCode \in [Objects -> Bytes] /\ Reads(x, b, p, Objects, ObjectCode)
      BY <2>1, ObjectReads
    <2> QED BY <1>0, <2>1, <2>2, <2>3
  <1>4. CASE tag = 4
    <2>1. x = Nested(b, p, Limit.block, ReadBlock) /\ ContentOf(tag) = FitBlocks
      BY <1>4 DEF x, ReadContent, ContentOf
    <2>2. ASSUME NEW v \in FitBlocks PROVE Content(Message(tag, v)) = FitBlockCode[v]
      <3>1. FitBlockCode[v] = Prefixed(BlockCode[v])
        BY FitBlockReads
      <3>2. BlockCode[v] = EncodeBlock(v)
        BY DEF FitBlocks, Within, BlockCode
      <3> QED BY <1>4, <1>m, <3>1, <3>2 DEF Content
    <2>3. FitBlockCode \in [FitBlocks -> Bytes] /\ Reads(x, b, p, FitBlocks, FitBlockCode)
      BY <2>1, FitBlockReads
    <2> QED BY <1>0, <2>1, <2>2, <2>3
  <1>5. CASE tag = 5
    <2>1. x = TransactionItem(b, p) /\ ContentOf(tag) = Transactions
      BY <1>5 DEF x, ReadContent, ContentOf
    <2>2. \A v \in Transactions : Content(Message(tag, v)) = ItemCode[v]
      BY <1>5, <1>m, ItemReads DEF Content
    <2>3. ItemCode \in [Transactions -> Bytes] /\ Reads(x, b, p, Transactions, ItemCode)
      BY <2>1, ItemReads
    <2> QED BY <1>0, <2>1, <2>2, <2>3
  <1>6. CASE tag = 6
    <2>1. x = ShareItem(b, p) /\ ContentOf(tag) = Nat
      BY <1>6 DEF x, ReadContent, ContentOf
    <2>2. ASSUME NEW v \in Nat PROVE Content(Message(tag, v)) = ShareCode[v]
      <3>1. ShareCode[v] = Prefixed(SymbolCode[v]) /\ SymbolCode[v] = EncodeShare(v)
        BY ShareItemReads, CodesAt DEF EncodeShare
      <3> QED BY <1>6, <1>m, <3>1 DEF Content
    <2>3. ShareCode \in [Nat -> Bytes] /\ Reads(x, b, p, Nat, ShareCode)
      BY <2>1, ShareItemReads
    <2> QED BY <1>0, <2>1, <2>2, <2>3
  <1>7. CASE tag = 7
    <2>1. x = TemplateItem(b, p) /\ ContentOf(tag) = FitTemplates
      BY <1>7 DEF x, ReadContent, ContentOf
    <2>2. ASSUME NEW v \in FitTemplates
          PROVE  Content(Message(tag, v)) = FitTemplateCode[v]
      <3>1. FitTemplateCode[v] = Prefixed(TemplateCode[v])
        BY TemplateItemReads
      <3>2. TemplateCode[v] = EncodeTemplate(v)
        BY DEF FitTemplates, Within, TemplateCode
      <3> QED BY <1>7, <1>m, <3>1, <3>2 DEF Content
    <2>3. FitTemplateCode \in [FitTemplates -> Bytes] /\ Reads(x, b, p, FitTemplates, FitTemplateCode)
      BY <2>1, TemplateItemReads
    <2> QED BY <1>0, <2>1, <2>2, <2>3
  <1>8. CASE tag = 8
    <2>1. x = ReadLocator(b, p) /\ ContentOf(tag) = Locators
      BY <1>8 DEF x, ReadContent, ContentOf
    <2>2. ASSUME NEW v \in Locators PROVE Content(Message(tag, v)) = LocatorCode[v]
      <3>1. LocatorCode[v] = EncodeAll([i \in DOMAIN v.locator |-> <<v.locator[i]>>])
                              \o <<v.stop>>
        BY DEF LocatorCode
      <3>2. PICK m : m = Message(tag, v) /\ m.tag = tag /\ m.value = v
        BY <1>m
      <3>3. Content(m) = EncodeAll([i \in DOMAIN m.value.locator |->
                                      <<m.value.locator[i]>>])
                           \o <<m.value.stop>>
        <4>1. m.tag = 8
          BY <1>8, <3>2
        <4> QED BY <4>1 DEF Content
      <3> QED BY <3>1, <3>2, <3>3
    <2>3. LocatorCode \in [Locators -> Bytes] /\ Reads(x, b, p, Locators, LocatorCode)
      BY <2>1, LocatorReads
    <2> QED BY <1>0, <2>1, <2>2, <2>3
  <1>9. CASE tag = 9
    <2>1. x = Vector(b, p, Limit.headers, Fixed) /\ ContentOf(tag) = HeaderLists
      BY <1>9 DEF x, ReadContent, ContentOf
    <2>2. \A v \in HeaderLists : Content(Message(tag, v)) = HeaderCode[v]
      BY <1>9, <1>m, HeaderReads DEF Content
    <2>3. HeaderCode \in [HeaderLists -> Bytes] /\ Reads(x, b, p, HeaderLists, HeaderCode)
      BY <2>1, HeaderReads
    <2> QED BY <1>0, <2>1, <2>2, <2>3
  <1>10. CASE tag \in {10, 11}
    <2>0. (tag = 10 \/ tag = 11) /\ tag \in {10, 11} /\ tag \in {6, 10, 11}
          /\ tag \notin {2, 3}
      BY <1>10
    <2>1. x = Fixed(b, p) /\ ContentOf(tag) = Nat
      BY <2>0 DEF x, ReadContent, ContentOf
    <2>2. ASSUME NEW v \in Nat PROVE Content(Message(tag, v)) = SymbolCode[v]
      <3>1. PICK m : m = Message(tag, v) /\ m.tag = tag /\ m.value = v
        BY <1>m
      <3>2. Content(m) = <<v>>
        BY <2>0, <3>1 DEF Content
      <3> QED BY <3>1, <3>2, CodesAt
    <2>3. SymbolCode \in [Nat -> Bytes] /\ Reads(x, b, p, Nat, SymbolCode)
      BY <2>1, FixedReads, CodeTypes
    <2> QED BY <1>0, <2>1, <2>2, <2>3
  <1>12. CASE tag = 12
    <2>1. x = ReadPeers(b, p) /\ ContentOf(tag) = PeerLists
      BY <1>12 DEF x, ReadContent, ContentOf
    <2>2. \A v \in PeerLists : Content(Message(tag, v)) = PeerCode[v]
      BY <1>12, <1>m DEF Content, PeerCode
    <2>3. PeerCode \in [PeerLists -> Bytes] /\ Reads(x, b, p, PeerLists, PeerCode)
      BY <2>1, PeersRead
    <2> QED BY <1>0, <2>1, <2>2, <2>3
  <1>13. Goal
    <2>1. \/ tag = 1 \/ tag \in {2, 3} \/ tag = 4 \/ tag = 5 \/ tag = 6 \/ tag = 7
          \/ tag = 8 \/ tag = 9 \/ tag \in {10, 11} \/ tag = 12
      OBVIOUS
    <2> QED BY <1>1, <1>2, <1>4, <1>5, <1>6, <1>7, <1>8, <1>9, <1>10, <1>12, <2>1
  <1> QED BY <1>13

\* What a frame may carry.
Accepted == UNION {[tag : {t}, value : ContentOf(t)] : t \in 1..12}
FrameCode == [m \in Accepted |-> EncodeFrame(m)]

\* A frame is the magic number, a tag and a content.
LEMMA FrameIs ==
  ASSUME NEW t \in 1..12, NEW v \in ContentOf(t)
  PROVE  /\ Message(t, v) \in Accepted
         /\ EncodeFrame(Message(t, v))
              = SymbolCode[Magic] \o SymbolCode[t] \o ContentCode(t)[v]
         /\ EncodeFrame(Message(t, v)) \in Bytes
         /\ Len(EncodeFrame(Message(t, v))) = 2 + Len(ContentCode(t)[v])
  <1>1. Message(t, v) \in [tag : {t}, value : ContentOf(t)]
    BY DEF Message
  <1>2. Message(t, v) \in Accepted
    BY <1>1 DEF Accepted
  <1>3. ContentCode(t)[v] = Content(Message(t, v))
    BY DEF ContentCode
  <1>4. /\ SymbolCode[Magic] = <<Magic>> /\ SymbolCode[t] = <<t>>
        /\ <<Magic>> \o <<t>> = <<Magic, t>>
    BY CodesAt, JoinOne DEF Magic
  <1>5. EncodeFrame(Message(t, v)) = <<Magic, t>> \o Content(Message(t, v))
    BY DEF EncodeFrame, Message
  <1>6. PICK c : c = ContentCode(t)[v]
    OBVIOUS
  <1>7. c \in Bytes
    <2>1. <<>> \in Bytes /\ 1 \in Nat \ {0}
      BY DEF Bytes
    <2>2. ContentCode(t) \in [ContentOf(t) -> Bytes]
      BY <2>1, ContentReads
    <2> QED BY <1>6, <2>2
  <1>8. <<Magic, t>> \o c \in Bytes /\ Len(<<Magic, t>> \o c) = 2 + Len(c)
    <2>1. <<Magic, t>> \in Bytes /\ Len(<<Magic, t>>) = 2
      BY DEF Bytes, Magic
    <2> QED BY <1>7, <2>1, HasBoth DEF Bytes
  <1> QED BY <1>2, <1>3, <1>4, <1>5, <1>6, <1>8

LEMMA AcceptedIs ==
  ASSUME NEW m \in Accepted
  PROVE  \E t \in 1..12 : \E v \in ContentOf(t) : m = Message(t, v)
  <1>1. PICK t \in 1..12 : m \in [tag : {t}, value : ContentOf(t)]
    BY DEF Accepted
  <1>2. m.value \in ContentOf(t) /\ m = Message(t, m.value)
    BY <1>1 DEF Message
  <1> QED BY <1>2

LEMMA FrameReads ==
  ASSUME NEW b \in Bytes, NEW p \in Nat \ {0}
  PROVE  /\ FrameCode \in [Accepted -> Bytes]
         /\ Reads(ReadFrame(b, p), b, p, Accepted, FrameCode)
  <1>1. FrameCode \in [Accepted -> Bytes]
    BY AcceptedIs, FrameIs DEF FrameCode
  <1>a. PICK r1 : r1 = Fixed(b, p)
    OBVIOUS
  <1>b. PICK r2 : r2 = Fixed(b, r1.at)
    OBVIOUS
  <1>c. PICK r3 : r3 = ReadContent(r2.value, b, r2.at)
    OBVIOUS
  <1> DEFINE x == ReadFrame(b, p)
             C(t, v) == SymbolCode[Magic] \o SymbolCode[t] \o ContentCode(t)[v]
  <1>2. x = IF r1.ok /\ r1.value = Magic /\ r2.ok /\ r3.ok
            THEN Got(Message(r2.value, r3.value), r3.at) ELSE Fail
    BY <1>a, <1>b, <1>c DEF ReadFrame, Then, Message
  <1>3. Reads(r1, b, p, Nat, SymbolCode) /\ Follows(r1, r2, b, Nat, SymbolCode)
    BY <1>a, <1>b, FixedReads, PlacesAre DEF Follows
  <1>4. Two(b, p, r1, Nat, SymbolCode, r2, Nat, SymbolCode)
    BY <1>3, CodeTypes, TwoRead
  <1>5. ASSUME NEW t \in 1..12, r2.value = t
        PROVE  Three(b, p, r1, Nat, SymbolCode, r2, Nat, SymbolCode,
                     r3, ContentOf(t), ContentCode(t))
    <2>1. Follows(r2, r3, b, ContentOf(t), ContentCode(t))
      BY <1>5, <1>c, ContentReads, PlacesAre DEF Follows
    <2>2. ContentCode(t) \in [ContentOf(t) -> Bytes]
      BY ContentReads
    <2> QED BY <1>3, <2>1, <2>2, CodeTypes, ThreeRead
  <1>6. r3.ok => r2.value \in 1..12
    <2> SUFFICES ASSUME r2.value \notin 1..12 PROVE r3 = Fail
      BY GotIs
    <2> PICK t : t = r2.value
      OBVIOUS
    <2>1. t # 1 /\ t # 2 /\ t # 3 /\ t # 4 /\ t # 5 /\ t # 6 /\ t # 7 /\ t # 8
          /\ t # 9 /\ t # 10 /\ t # 11 /\ t # 12
      OBVIOUS
    <2>2. ReadContent(t, b, r2.at) = Fail
      BY <2>1 DEF ReadContent
    <2> QED BY <1>c, <2>2
  <1> HIDE DEF x
  <1>7. ASSUME x # Fail
        PROVE  \E m \in Accepted : /\ x = Got(m, p + Len(FrameCode[m]))
                                   /\ Has(b, p, FrameCode[m])
    <2>1. /\ r1.ok /\ r1.value = Magic /\ r2.ok /\ r3.ok
          /\ x = Got(Message(r2.value, r3.value), r3.at)
      BY <1>2, <1>7
    <2>2. PICK t \in 1..12 : r2.value = t
      BY <1>6, <2>1
    <2>3. /\ r3.value \in ContentOf(t)
          /\ Stands(b, p, C(t, r3.value), r3.at)
      BY <1>5, <2>1, <2>2 DEF Three
    <2>4. /\ Message(t, r3.value) \in Accepted
          /\ FrameCode[Message(t, r3.value)] = C(t, r3.value)
      BY <2>2, <2>3, FrameIs DEF FrameCode
    <2> QED BY <2>1, <2>2, <2>3, <2>4 DEF Stands
  <1>8. ASSUME NEW m \in Accepted, Has(b, p, FrameCode[m])
        PROVE  x = Got(m, p + Len(FrameCode[m]))
    <2>a. PICK t \in 1..12 : \E v \in ContentOf(t) : m = Message(t, v)
      BY AcceptedIs
    <2>1. PICK v \in ContentOf(t) : m = Message(t, v)
      BY <2>a
    <2>2. FrameCode[m] = C(t, v)
      BY <2>1, FrameIs DEF FrameCode
    <2>3. Has(b, p, C(t, v))
      BY <1>8, <2>2
    <2>4. Magic \in Nat /\ t \in Nat
      BY DEF Magic
    <2>5. r1.ok /\ r1.value = Magic /\ r2.ok /\ r2.value = t
      <3>1. SymbolCode[Magic] \o SymbolCode[t] \in Bytes /\ ContentCode(t)[v] \in Bytes
        <4>1. SymbolCode[Magic] \in Bytes /\ SymbolCode[t] \in Bytes
          BY <2>4, CodeTypes
        <4>2. ContentCode(t) \in [ContentOf(t) -> Bytes]
          BY ContentReads
        <4> QED BY <4>1, <4>2, HasBoth
      <3>2. Has(b, p, SymbolCode[Magic] \o SymbolCode[t])
        BY <2>3, <3>1, HasBoth
      <3> QED BY <1>4, <2>4, <3>2 DEF Two
    <2>6. r3.ok /\ r3.value = v /\ r3.at = p + Len(C(t, v))
      <3>1. Has(b, p, SymbolCode[Magic] \o SymbolCode[t] \o ContentCode(t)[v])
        BY <2>3
      <3>2. Three(b, p, r1, Nat, SymbolCode, r2, Nat, SymbolCode,
                  r3, ContentOf(t), ContentCode(t))
        BY <1>5, <2>5
      <3> HIDE DEF C
      <3>3. /\ r3.ok /\ r3.value = v
            /\ r3.at = p + Len(SymbolCode[Magic] \o SymbolCode[t] \o ContentCode(t)[v])
        BY <3>1, <3>2, <2>4 DEF Three
      <3> QED BY <3>3 DEF C
    <2> QED BY <1>2, <2>1, <2>2, <2>5, <2>6
  <1>9. Reads(x, b, p, Accepted, FrameCode)
    BY <1>7, <1>8 DEF Reads
  <1> QED BY <1>1, <1>9 DEF x

\* decode_frame accepts nothing but what encode_frame writes, and all of it
\* that fits in a frame.
LEMMA FrameDecodes ==
  ASSUME NEW b \in Bytes
  PROVE  /\ DecodeFrame(b).ok => /\ DecodeFrame(b).value \in Accepted
                                 /\ EncodeFrame(DecodeFrame(b).value) = b
         /\ \A m \in Accepted : EncodeFrame(m) = b /\ Len(b) <= Limit.frame
                => DecodeFrame(b).ok /\ DecodeFrame(b).value = m
  <1> DEFINE d == DecodeFrame(b)
  <1>1. PICK r : r = ReadFrame(b, 1)
    OBVIOUS
  <1>2. d = IF Len(b) > Limit.frame THEN Fail
            ELSE IF r.ok THEN IF r.at = Len(b) + 1 THEN Got(r.value, r.at) ELSE Fail
                 ELSE Fail
    BY <1>1 DEF DecodeFrame, Then
  <1> HIDE DEF d
  <1>3. 1 \in Nat \ {0} /\ Len(b) \in Nat /\ Limit.frame \in Nat
    BY LimitsAre DEF Bytes
  <1>4. /\ FrameCode \in [Accepted -> Bytes]
        /\ Reads(r, b, 1, Accepted, FrameCode)
    BY <1>1, <1>3, FrameReads
  <1>5. \A m \in Accepted : FrameCode[m] = EncodeFrame(m)
    BY DEF FrameCode
  <1>6. \A m \in Accepted : /\ FrameCode[m] \in Bytes /\ Len(FrameCode[m]) \in Nat
                            /\ (Has(b, 1, FrameCode[m]) /\ Len(FrameCode[m]) = Len(b))
                                 <=> FrameCode[m] = b
    BY <1>4, HasAll DEF Bytes
  <1>7. ASSUME d.ok PROVE d.value \in Accepted /\ EncodeFrame(d.value) = b
    <2>1. r.ok /\ r.at = Len(b) + 1 /\ d.value = r.value
      BY <1>2, <1>7, GotIs
    <2>2. PICK m \in Accepted : r = Got(m, 1 + Len(FrameCode[m])) /\ Has(b, 1, FrameCode[m])
      BY <1>4, <2>1, GotIs DEF Reads
    <2>3. r.value = m /\ 1 + Len(FrameCode[m]) = Len(b) + 1
      BY <2>1, <2>2, GotIs
    <2>4. Len(FrameCode[m]) = Len(b)
      BY <1>3, <1>6, <2>3
    <2> QED BY <1>5, <1>6, <2>1, <2>2, <2>3, <2>4
  <1>8. ASSUME NEW m \in Accepted, EncodeFrame(m) = b, Len(b) <= Limit.frame
        PROVE  d.ok /\ d.value = m
    <2>1. FrameCode[m] = b /\ Has(b, 1, FrameCode[m])
      BY <1>5, <1>6, <1>8
    <2>2. r = Got(m, 1 + Len(b))
      BY <1>4, <2>1 DEF Reads
    <2>3. r.ok /\ r.at = Len(b) + 1 /\ r.value = m
      BY <1>3, <2>2, GotIs
    <2> QED BY <1>2, <1>3, <1>8, <2>3, GotIs
  <1> QED BY <1>7, <1>8 DEF d

-----------------------------------------------------------------------------
(* What a node writes.                                                     *)

LEMMA AllBytes ==
  ASSUME NEW s \in Seq(Bytes)
  PROVE  EncodeAll(s) \in Bytes /\ Len(EncodeAll(s)) = 1 + Len(FlattenSeq(s))
  <1>1. <<>> \in Bytes
    BY DEF Bytes
  <1>2. FlattenSeq(s) \in Bytes
    BY <1>1, FlattenAppend
  <1>3. <<Len(s)>> \in Bytes /\ Len(<<Len(s)>>) = 1
    BY DEF Bytes
  <1>4. 1 \in Nat \ {0}
    OBVIOUS
  <1> QED BY <1>2, <1>3, <1>4, HasBoth DEF EncodeAll

LEMMA SymbolBytes ==
  /\ \A x \in Nat : <<x>> \in Bytes
  /\ \A x \in Nat, y \in Nat : <<x, y>> \in Bytes /\ Len(<<x, y>>) = 2
  BY DEF Bytes

LEMMA JoinedBytes ==
  /\ \A s \in Bytes, t \in Bytes : s \o t \in Bytes /\ Len(s \o t) = Len(s) + Len(t)
  /\ \A s \in Bytes : Prefixed(s) \in Bytes /\ Len(Prefixed(s)) = 1 + Len(s)
                      /\ Len(s) \in Nat
  <1>1. ASSUME NEW s \in Bytes, NEW t \in Bytes
        PROVE  s \o t \in Bytes /\ Len(s \o t) = Len(s) + Len(t)
    <2>1. 1 \in Nat \ {0}
      OBVIOUS
    <2> QED BY <2>1, <1>1, HasBoth
  <1>2. \A s \in Bytes : Len(s) \in Nat
    BY DEF Bytes
  <1> QED BY <1>1, <1>2, PrefixedIs

LEMMA TransactionBytes ==
  ASSUME NEW t \in TransactionData
  PROVE  EncodeTransaction(t) \in Bytes
  <1>1. t.head \in Nat /\ t.key \in Bytes /\ t.signature \in Bytes
    BY DEF TransactionData, Bytes
  <1>2. PICK u : u = <<t.head>> \o Prefixed(t.key)
    OBVIOUS
  <1>3. u \in Bytes
    BY <1>1, <1>2, SymbolBytes, JoinedBytes
  <1>4. EncodeTransaction(t) = u \o Prefixed(t.signature)
    BY <1>2 DEF EncodeTransaction
  <1> QED BY <1>1, <1>3, <1>4, JoinedBytes

LEMMA TransactionsBytes ==
  ASSUME NEW s \in Seq(TransactionData)
  PROVE  PrefixedAll(s, EncodeTransaction) \in Bytes
  <1>1. \A i \in DOMAIN s : Prefixed(EncodeTransaction(s[i])) \in Bytes
    BY TransactionBytes, JoinedBytes
  <1>2. [i \in DOMAIN s |-> Prefixed(EncodeTransaction(s[i]))] \in Seq(Bytes)
    BY <1>1
  <1> QED BY <1>2, AllBytes DEF PrefixedAll

LEMMA TemplateBytes ==
  ASSUME NEW t \in TemplateData
  PROVE  EncodeTemplate(t) \in Bytes
  <1>1. t.head \in Nat /\ t.txs \in Seq(TransactionData)
    BY DEF TemplateData
  <1>2. PrefixedAll(t.txs, EncodeTransaction) \in Bytes
    BY <1>1, TransactionsBytes
  <1> QED BY <1>1, <1>2, SymbolBytes, JoinedBytes DEF EncodeTemplate

LEMMA WitnessBytes ==
  ASSUME NEW w \in WitnessData
  PROVE  EncodeWitness(w) \in Bytes
  <1>1. w.head \in Nat /\ w.templates \in Seq(TemplateData) /\ w.shares \in Seq(Nat)
    BY DEF WitnessData
  <1>2. PrefixedAll(w.templates, EncodeTemplate) \in Bytes
    <2>1. \A i \in DOMAIN w.templates : Prefixed(EncodeTemplate(w.templates[i])) \in Bytes
      BY <1>1, TemplateBytes, JoinedBytes
    <2>2. [i \in DOMAIN w.templates |-> Prefixed(EncodeTemplate(w.templates[i]))]
            \in Seq(Bytes)
      BY <1>1, <2>1
    <2> QED BY <2>2, AllBytes DEF PrefixedAll
  <1>3. PrefixedAll(w.shares, EncodeShare) \in Bytes
    <2>1. \A i \in DOMAIN w.shares : Prefixed(EncodeShare(w.shares[i])) \in Bytes
      BY <1>1, SymbolBytes, JoinedBytes DEF EncodeShare
    <2>2. [i \in DOMAIN w.shares |-> Prefixed(EncodeShare(w.shares[i]))] \in Seq(Bytes)
      BY <1>1, <2>1
    <2> QED BY <2>2, AllBytes DEF PrefixedAll
  <1>4. PICK u : u = <<w.head>> \o PrefixedAll(w.templates, EncodeTemplate)
    OBVIOUS
  <1>5. u \in Bytes
    BY <1>1, <1>2, <1>4, SymbolBytes, JoinedBytes
  <1>6. EncodeWitness(w) = u \o PrefixedAll(w.shares, EncodeShare)
    BY <1>4 DEF EncodeWitness
  <1> QED BY <1>3, <1>5, <1>6, JoinedBytes

LEMMA BlockBytes ==
  ASSUME NEW v \in BlockData
  PROVE  EncodeBlock(v) \in Bytes
  <1>1. /\ v.head \in Nat /\ v.claim \in Bytes /\ v.txs \in Seq(TransactionData)
        /\ v.witness \in WitnessData
    BY DEF BlockData, Bytes
  <1>2. Len(v.claim) \in Nat
    BY <1>1, JoinedBytes
  <1>3. PICK u : u = <<v.head, Len(v.claim)>> \o v.claim
    OBVIOUS
  <1>4. u \in Bytes
    BY <1>1, <1>2, <1>3, SymbolBytes, JoinedBytes
  <1>5. PICK y : y = PrefixedAll(v.txs, EncodeTransaction)
    OBVIOUS
  <1>6. y \in Bytes
    BY <1>1, <1>5, TransactionsBytes
  <1>7. u \o y \in Bytes
    BY <1>4, <1>6, JoinedBytes
  <1>8. Prefixed(EncodeWitness(v.witness)) \in Bytes
    BY <1>1, WitnessBytes, JoinedBytes
  <1>9. EncodeBlock(v) = (u \o y) \o Prefixed(EncodeWitness(v.witness))
    BY <1>3, <1>5 DEF EncodeBlock
  <1> QED BY <1>7, <1>8, <1>9, JoinedBytes

\* Seven fields of a hello, four of them with a length.
LEMMA HelloBytes ==
  ASSUME NEW h \in HelloData
  PROVE  /\ EncodeHello(h) \in Bytes
         /\ Len(EncodeHello(h)) = Len(h.chain) + Len(h.key) + Len(h.url)
                                    + Len(h.signature) + 7
  <1>1. /\ h.protocol \in Nat /\ h.genesis \in Nat /\ h.state \in Nat
        /\ h.chain \in Bytes /\ h.key \in Bytes /\ h.url \in Bytes
        /\ h.signature \in Bytes
    BY DEF HelloData, Bytes
  <1>2. \A x \in Nat : <<x>> \in Bytes /\ Len(<<x>>) = 1
    BY DEF Bytes
  <1>3. PICK c : c = Len(h.chain)
    OBVIOUS
  <1>4. PICK k : k = Len(h.key)
    OBVIOUS
  <1>5. PICK l : l = Len(h.url)
    OBVIOUS
  <1>6. PICK n : n = Len(h.signature)
    OBVIOUS
  <1>7. c \in Nat /\ k \in Nat /\ l \in Nat /\ n \in Nat
    BY <1>1, <1>3, <1>4, <1>5, <1>6, JoinedBytes
  <1>8. /\ Prefixed(h.chain) \in Bytes /\ Len(Prefixed(h.chain)) = 1 + c
        /\ Prefixed(h.key) \in Bytes /\ Len(Prefixed(h.key)) = 1 + k
        /\ Prefixed(h.url) \in Bytes /\ Len(Prefixed(h.url)) = 1 + l
        /\ Prefixed(h.signature) \in Bytes /\ Len(Prefixed(h.signature)) = 1 + n
    BY <1>1, <1>3, <1>4, <1>5, <1>6, JoinedBytes
  <1> HIDE DEF Bytes
  <1>a1. PICK a1 : a1 = <<h.protocol>>
    OBVIOUS
  <1>b1. a1 \in Bytes /\ Len(a1) = 1
    BY <1>1, <1>2, <1>8, <1>a1
  <1>a2. PICK a2 : a2 = Prefixed(h.chain)
    OBVIOUS
  <1>b2. a2 \in Bytes /\ Len(a2) = 1 + c
    BY <1>1, <1>2, <1>8, <1>a2
  <1>a3. PICK a3 : a3 = <<h.genesis>>
    OBVIOUS
  <1>b3. a3 \in Bytes /\ Len(a3) = 1
    BY <1>1, <1>2, <1>8, <1>a3
  <1>a4. PICK a4 : a4 = Prefixed(h.key)
    OBVIOUS
  <1>b4. a4 \in Bytes /\ Len(a4) = 1 + k
    BY <1>1, <1>2, <1>8, <1>a4
  <1>a5. PICK a5 : a5 = <<h.state>>
    OBVIOUS
  <1>b5. a5 \in Bytes /\ Len(a5) = 1
    BY <1>1, <1>2, <1>8, <1>a5
  <1>a6. PICK a6 : a6 = Prefixed(h.url)
    OBVIOUS
  <1>b6. a6 \in Bytes /\ Len(a6) = 1 + l
    BY <1>1, <1>2, <1>8, <1>a6
  <1>a7. PICK a7 : a7 = Prefixed(h.signature)
    OBVIOUS
  <1>b7. a7 \in Bytes /\ Len(a7) = 1 + n
    BY <1>1, <1>2, <1>8, <1>a7
  <1>9. EncodeHello(h) = a1 \o a2 \o a3 \o a4 \o a5 \o a6 \o a7
    BY <1>a1, <1>a2, <1>a3, <1>a4, <1>a5, <1>a6, <1>a7 DEF EncodeHello
  <1>10. /\ EncodeHello(h) \in Bytes
         /\ Len(EncodeHello(h)) = 1 + (1 + c) + 1 + (1 + k) + 1 + (1 + l) + (1 + n)
    <2>1. /\ a1 \in Bytes /\ a2 \in Bytes /\ a3 \in Bytes /\ a4 \in Bytes
          /\ a5 \in Bytes /\ a6 \in Bytes /\ a7 \in Bytes
      BY <1>b1, <1>b2, <1>b3, <1>b4, <1>b5, <1>b6, <1>b7
    <2>a2. PICK u2 : u2 = a1 \o a2
      OBVIOUS
    <2>b2. u2 \in Bytes /\ Len(u2) = Len(a1) + Len(a2)
      BY <2>1, <2>a2, JoinedBytes
    <2>a3. PICK u3 : u3 = u2 \o a3
      OBVIOUS
    <2>b3. u3 \in Bytes /\ Len(u3) = Len(u2) + Len(a3)
      BY <2>1, <2>a3, JoinedBytes, <2>b2
    <2>a4. PICK u4 : u4 = u3 \o a4
      OBVIOUS
    <2>b4. u4 \in Bytes /\ Len(u4) = Len(u3) + Len(a4)
      BY <2>1, <2>a4, JoinedBytes, <2>b3
    <2>a5. PICK u5 : u5 = u4 \o a5
      OBVIOUS
    <2>b5. u5 \in Bytes /\ Len(u5) = Len(u4) + Len(a5)
      BY <2>1, <2>a5, JoinedBytes, <2>b4
    <2>a6. PICK u6 : u6 = u5 \o a6
      OBVIOUS
    <2>b6. u6 \in Bytes /\ Len(u6) = Len(u5) + Len(a6)
      BY <2>1, <2>a6, JoinedBytes, <2>b5
    <2>a7. PICK u7 : u7 = u6 \o a7
      OBVIOUS
    <2>b7. u7 \in Bytes /\ Len(u7) = Len(u6) + Len(a7)
      BY <2>1, <2>a7, JoinedBytes, <2>b6
    <2>2. EncodeHello(h) = u7
      BY <1>9, <2>a2, <2>a3, <2>a4, <2>a5, <2>a6, <2>a7
    <2>3. /\ Len(a1) = 1 /\ Len(a2) = 1 + c /\ Len(a3) = 1 /\ Len(a4) = 1 + k
          /\ Len(a5) = 1 /\ Len(a6) = 1 + l /\ Len(a7) = 1 + n
      BY <1>b1, <1>b2, <1>b3, <1>b4, <1>b5, <1>b6, <1>b7
    <2> QED BY <1>7, <2>2, <2>3, <2>b2, <2>b3, <2>b4, <2>b5, <2>b6, <2>b7
  <1>11. 1 + (1 + c) + 1 + (1 + k) + 1 + (1 + l) + (1 + n) = c + k + l + n + 7
    BY <1>7
  <1> QED BY <1>3, <1>4, <1>5, <1>6, <1>10, <1>11

\* Whatever a message says, its frame is a list of symbols.
LEMMA MessageBytes ==
  ASSUME NEW t \in 1..12, NEW v \in MessageData(t)
  PROVE  EncodeFrame(Message(t, v)) \in Bytes
  <1> DEFINE m == Message(t, v)
  <1>1. m.tag = t /\ m.value = v
    BY DEF Message
  <1>2. Content(m) \in Bytes
    <2> SUFFICES Content(m) \in Bytes
      OBVIOUS
    <2> HIDE DEF m
    <2>1. CASE t = 1
      <3>1. v \in HelloData /\ Content(m) = Prefixed(EncodeHello(v))
        BY <1>1, <2>1 DEF MessageData, Content
      <3> QED BY <3>1, HelloBytes, JoinedBytes
    <2>2. CASE t \in {2, 3}
      <3>1. v \in [kind : Nat, id : Nat] /\ Content(m) = <<v.kind, v.id>>
        BY <1>1, <2>2 DEF MessageData, Content
      <3> QED BY <3>1, SymbolBytes
    <2>3. CASE t = 4
      <3>1. v \in BlockData /\ Content(m) = Prefixed(EncodeBlock(v))
        BY <1>1, <2>3 DEF MessageData, Content
      <3> QED BY <3>1, BlockBytes, JoinedBytes
    <2>4. CASE t = 5
      <3>1. v \in TransactionData /\ Content(m) = Prefixed(EncodeTransaction(v))
        BY <1>1, <2>4 DEF MessageData, Content
      <3> QED BY <3>1, TransactionBytes, JoinedBytes
    <2>5. CASE t = 6
      <3>1. v \in Nat /\ Content(m) = Prefixed(EncodeShare(v))
        BY <1>1, <2>5 DEF MessageData, Content
      <3> QED BY <3>1, SymbolBytes, JoinedBytes DEF EncodeShare
    <2>6. CASE t = 7
      <3>1. v \in TemplateData /\ Content(m) = Prefixed(EncodeTemplate(v))
        BY <1>1, <2>6 DEF MessageData, Content
      <3> QED BY <3>1, TemplateBytes, JoinedBytes
    <2>7. CASE t = 8
      <3>1. /\ v \in [locator : Seq(Nat), stop : Nat]
            /\ Content(m) = EncodeAll([i \in DOMAIN v.locator |-> <<v.locator[i]>>])
                              \o <<v.stop>>
        BY <1>1, <2>7 DEF MessageData, Content
      <3>2. v.locator \in Seq(Nat) /\ v.stop \in Nat
        BY <3>1
      <3>3. [i \in DOMAIN v.locator |-> <<v.locator[i]>>] \in Seq(Bytes)
        BY <3>2, SymbolBytes, SMTT(30)
      <3> QED BY <3>1, <3>2, <3>3, AllBytes, SymbolBytes, JoinedBytes
    <2>8. CASE t = 9
      <3>1. /\ v \in Seq(Nat)
            /\ Content(m) = EncodeAll([i \in DOMAIN v |-> <<v[i]>>])
        BY <1>1, <2>8 DEF MessageData, Content
      <3>2. [i \in DOMAIN v |-> <<v[i]>>] \in Seq(Bytes)
        BY <3>1, SymbolBytes
      <3> QED BY <3>1, <3>2, AllBytes
    <2>9. CASE t \in {10, 11}
      <3>1. v \in Nat /\ Content(m) = <<v>>
        BY <1>1, <2>9 DEF MessageData, Content
      <3> QED BY <3>1, SymbolBytes
    <2>10. CASE t = 12
      <3>1. /\ v \in Seq(Seq(Nat))
            /\ Content(m) = EncodeAll([i \in DOMAIN v |-> Prefixed(v[i])])
        BY <1>1, <2>10 DEF MessageData, Content
      <3>a. v \in Seq(Bytes)
        BY <3>1 DEF Bytes
      <3>2. \A i \in DOMAIN v : Prefixed(v[i]) \in Bytes
        BY <3>a, JoinedBytes
      <3>3. [i \in DOMAIN v |-> Prefixed(v[i])] \in Seq(Bytes)
        BY <3>a, <3>2
      <3> QED BY <3>1, <3>3, AllBytes
    <2> QED BY <2>1, <2>2, <2>3, <2>4, <2>5, <2>6, <2>7, <2>8, <2>9, <2>10
  <1>3. <<Magic, t>> \in Bytes
    BY SymbolBytes DEF Magic
  <1>4. EncodeFrame(m) = <<Magic, t>> \o Content(m)
    BY <1>1 DEF EncodeFrame
  <1> QED BY <1>2, <1>3, <1>4, JoinedBytes

\* A list of bounded items is no longer than all of them can be.
LEMMA CodedLength ==
  ASSUME NEW W, NEW E \in [W -> Bytes], NEW k \in Nat,
         \A v \in W : Len(E[v]) <= k
  PROVE  \A s \in Seq(W) : Len(Coded(s, E)) <= k * Len(s)
  <1> DEFINE T == {n \in Nat : \E s \in Seq(W) :
                     Len(s) = n /\ ~(Len(Coded(s, E)) <= k * n)}
  <1> SUFFICES ASSUME NEW z \in Seq(W), ~(Len(Coded(z, E)) <= k * Len(z))
               PROVE  FALSE
    OBVIOUS
  <1>1. T \in SUBSET Nat /\ T # {}
    <2>1. Len(z) \in T
      OBVIOUS
    <2> QED BY <2>1
  <1>2. PICK n \in T : \A j \in T : n <= j
    BY <1>1, LeastNumber
  <1>3. PICK s \in Seq(W) : Len(s) = n /\ ~(Len(Coded(s, E)) <= k * n)
    BY <1>2
  <1>4. n \in Nat
    BY <1>2
  <1>5. n # 0
    <2> SUFFICES ASSUME n = 0 PROVE FALSE
      OBVIOUS
    <2>1. s = <<>>
      BY <1>3, EmptySeq
    <2>2. Coded(s, E) = <<>>
      BY <2>1, CodedOne DEF Coded
    <2>3. Len(Coded(s, E)) = 0 /\ k * n = 0
      BY <2>2
    <2> QED BY <1>3, <2>3
  <1>6. PICK j \in Nat : n = j + 1
    <2>1. n - 1 \in Nat /\ n = (n - 1) + 1
      BY <1>4, <1>5
    <2> QED BY <2>1
  <1>7. PICK f \in Seq(W) : \E x \in W : s = Append(f, x) /\ Len(f) = j
    <2>1. SubSeq(s, 1, j) \in Seq(W) /\ s[j + 1] \in W /\ Len(SubSeq(s, 1, j)) = j
      BY <1>3, <1>6
    <2>2. s = Append(SubSeq(s, 1, j), s[j + 1])
      BY <1>3, <1>6, SMTT(30)
    <2> QED BY <2>1, <2>2
  <1>8. PICK x \in W : s = Append(f, x) /\ Len(f) = j
    BY <1>7
  <1>9. Len(Coded(f, E)) <= k * j
    <2>1. j \notin T
      BY <1>2, <1>6
    <2> QED BY <1>8, <2>1
  <1> HIDE DEF T
  <1>10. /\ Coded(s, E) = Coded(f, E) \o E[x]
         /\ Coded(f, E) \in Bytes /\ E[x] \in Bytes
    BY <1>8, CodedAppend, ZenonT(40)
  <1>11. /\ Len(Coded(s, E)) = Len(Coded(f, E)) + Len(E[x])
         /\ Len(Coded(f, E)) \in Nat /\ Len(E[x]) \in Nat /\ Len(E[x]) <= k
    BY <1>10, JoinedBytes
  <1>12. k * n = k * j + k /\ k * j \in Nat
    BY <1>6
  <1>13. Len(Coded(s, E)) <= k * j + k
    BY <1>9, <1>11, <1>12
  <1> QED BY <1>3, <1>12, <1>13

\* So is a vector.
LEMMA AllLength ==
  ASSUME NEW W, NEW E \in [W -> Bytes], NEW k \in Nat, \A v \in W : Len(E[v]) <= k,
         NEW s \in Seq(W), NEW max \in Nat, Len(s) <= max
  PROVE  /\ EncodeAll([i \in DOMAIN s |-> E[s[i]]]) \in Bytes
         /\ Len(EncodeAll([i \in DOMAIN s |-> E[s[i]]])) <= 1 + k * max
  <1>1. [i \in DOMAIN s |-> E[s[i]]] \in Seq(Bytes)
    BY SMTT(30)
  <1>2. /\ EncodeAll([i \in DOMAIN s |-> E[s[i]]]) \in Bytes
        /\ Len(EncodeAll([i \in DOMAIN s |-> E[s[i]]])) = 1 + Len(Coded(s, E))
    BY <1>1, AllBytes DEF Coded
  <1>3. Len(Coded(s, E)) <= k * Len(s) /\ Coded(s, E) \in Bytes
    <2>1. <<>> \in Bytes
      BY DEF Bytes
    <2> QED BY <1>1, <2>1, CodedLength, FlattenAppend DEF Coded
  <1>4. PICK n \in Nat : n = Len(s)
    OBVIOUS
  <1>5. PICK d \in Nat : max = n + d
    <2>1. max - n \in Nat /\ max = n + (max - n)
      BY <1>4
    <2> QED BY <2>1
  <1>6. k * max = k * n + k * d /\ k * n \in Nat /\ k * d \in Nat
    BY <1>5
  <1>7. Len(Coded(s, E)) \in Nat
    BY <1>3, JoinedBytes
  <1>8. Len(Coded(s, E)) <= k * max
    BY <1>3, <1>4, <1>6, <1>7, SMTT(30)
  <1> QED BY <1>2, <1>6, <1>7, <1>8

\* The elements of a list are those of a smaller set.
LEMMA SeqWithin ==
  ASSUME NEW S, NEW V, NEW s \in Seq(S), \A i \in DOMAIN s : s[i] \in V
  PROVE  s \in Seq(V)
  OBVIOUS

LEMMA TransactionAccepted ==
  ASSUME NEW t \in TransactionData, TransactionFits(t)
  PROVE  t \in Transactions
  BY DEF TransactionData, Transactions, Bytes

LEMMA TransactionsAccepted ==
  ASSUME NEW s \in Seq(TransactionData), Len(s) <= Limit.txs,
         \A i \in DOMAIN s : TransactionFits(s[i])
  PROVE  s \in TxsOf
  <1>1. \A i \in DOMAIN s : s[i] \in Transactions
    BY TransactionAccepted
  <1> QED BY <1>1, SeqWithin DEF TxsOf, Most

LEMMA TemplateAccepted ==
  ASSUME NEW t \in TemplateData, TemplateFits(t)
  PROVE  t \in FitTemplates
  <1>1. t.head \in Nat /\ t.txs \in Seq(TransactionData) /\ t = [head |-> t.head, txs |-> t.txs]
    BY DEF TemplateData
  <1>2. t.txs \in TxsOf
    BY <1>1, TransactionsAccepted DEF TemplateFits
  <1>3. t \in TemplatesOf
    BY <1>1, <1>2 DEF TemplatesOf
  <1>4. TemplateCode[t] = EncodeTemplate(t)
    BY <1>3 DEF TemplateCode
  <1> QED BY <1>3, <1>4 DEF FitTemplates, Within, TemplateFits

LEMMA WitnessAccepted ==
  ASSUME NEW w \in WitnessData, WitnessFits(w)
  PROVE  w \in FitWitnesses
  <1>1. /\ w.head \in Nat /\ w.templates \in Seq(TemplateData) /\ w.shares \in Seq(Nat)
        /\ w = [head |-> w.head, templates |-> w.templates, shares |-> w.shares]
    BY DEF WitnessData
  <1>2. w.templates \in TemplateLists
    <2>1. \A i \in DOMAIN w.templates : w.templates[i] \in FitTemplates
      BY <1>1, TemplateAccepted DEF WitnessFits
    <2>2. w.templates \in Seq(FitTemplates)
      BY <1>1, <2>1, SeqWithin
    <2> QED BY <2>2 DEF TemplateLists, Most, WitnessFits
  <1>3. w.shares \in ShareLists
    BY <1>1 DEF ShareLists, Most, WitnessFits
  <1>4. w \in WitnessesOf
    BY <1>1, <1>2, <1>3 DEF WitnessesOf
  <1>5. WitnessCode[w] = EncodeWitness(w)
    BY <1>4 DEF WitnessCode
  <1> QED BY <1>4, <1>5 DEF FitWitnesses, Within, WitnessFits

LEMMA BlockAccepted ==
  ASSUME NEW v \in BlockData, BlockFits(v)
  PROVE  v \in FitBlocks
  <1>1. /\ v.head \in Nat /\ v.txs \in Seq(TransactionData) /\ v.witness \in WitnessData
        /\ v.claim \in {c \in Seq(Nat) : Len(c) <= 1}
        /\ v = [head |-> v.head, claim |-> v.claim, txs |-> v.txs, witness |-> v.witness]
    BY DEF BlockData
  <1>2. v.claim \in ClaimLists
    BY <1>1 DEF ClaimLists, Most
  <1>3. v.txs \in TxsOf
    BY <1>1, TransactionsAccepted DEF BlockFits
  <1>4. v.witness \in FitWitnesses
    BY <1>1, WitnessAccepted DEF BlockFits
  <1>5. v \in BlocksOf
    BY <1>1, <1>2, <1>3, <1>4 DEF BlocksOf
  <1>6. BlockCode[v] = EncodeBlock(v)
    BY <1>5 DEF BlockCode
  <1> QED BY <1>5, <1>6 DEF FitBlocks, Within, BlockFits

\* The limits on the way leave room for what the limits of the parts allow.
LEMMA Room ==
  /\ Limit.hello \in Nat /\ Limit.hello + 3 <= Limit.frame
  /\ Limit.block \in Nat /\ Limit.block + 3 <= Limit.frame
  /\ Limit.tx \in Nat /\ Limit.tx + 3 <= Limit.frame
  /\ Limit.template \in Nat /\ Limit.template + 3 <= Limit.frame
  /\ Limit.headers \in Nat /\ Limit.headers + 3 <= Limit.frame
  /\ Limit.locator \in Nat /\ Limit.locator + 4 <= Limit.frame
  /\ Limit.frame \in Nat /\ Limit.frame >= 4
  BY CodecAssumption

LEMMA RoomForHello ==
  /\ Limit.chain \in Nat /\ Limit.node_key \in Nat /\ Limit.url \in Nat
  /\ Limit.signature \in Nat /\ Limit.hello \in Nat
  /\ Limit.chain + Limit.node_key + Limit.url + Limit.signature + 7 <= Limit.hello
  BY CodecAssumption

LEMMA RoomForPeers ==
  /\ Limit.urls \in Nat /\ Limit.url \in Nat /\ Limit.frame \in Nat
  /\ Limit.urls * (Limit.url + 1) + 3 <= Limit.frame
  BY CodecAssumption

LEMMA PrefixedFits ==
  ASSUME NEW s \in Bytes, NEW n \in Nat, Len(s) <= n, NEW f \in Nat, n + 3 <= f
  PROVE  Prefixed(s) \in Bytes /\ Len(Prefixed(s)) + 2 <= f
  <1>1. PICK k : k = Len(s)
    OBVIOUS
  <1>2. k \in Nat /\ Prefixed(s) \in Bytes /\ Len(Prefixed(s)) = 1 + k
    BY <1>1, JoinedBytes
  <1> QED BY <1>1, <1>2

LEMMA SymbolLength == \A x \in Nat : Len(SymbolCode[x]) <= 1
  BY DEF SymbolCode

\* What a node may send fits in a frame, and decode_frame accepts it.
LEMMA SendableAccepted ==
  ASSUME NEW t \in 1..12, NEW v \in MessageData(t), Sendable(Message(t, v))
  PROVE  /\ Message(t, v) \in Accepted
         /\ Len(EncodeFrame(Message(t, v))) <= Limit.frame
  <1> DEFINE m == Message(t, v)
             Goal == v \in ContentOf(t) /\ Content(m) \in Bytes
                       /\ Len(Content(m)) + 2 <= Limit.frame
  <1>1. m.tag = t /\ m.value = v
    BY DEF Message
  <1>2. Goal
    <2> SUFFICES Goal
      OBVIOUS
    <2>0. Sendable(m)
      OBVIOUS
    <2> HIDE DEF m
    <2>1. CASE t = 1
      <3>1. /\ v \in HelloData /\ Content(m) = Prefixed(EncodeHello(v))
            /\ ContentOf(t) = FitHellos
        BY <1>1, <2>1 DEF MessageData, Content, ContentOf
      <3>2. /\ Len(v.chain) <= Limit.chain /\ Len(v.key) <= Limit.node_key
            /\ Len(v.url) <= Limit.url /\ Len(v.signature) <= Limit.signature
        BY <1>1, <2>0, <2>1 DEF Sendable
      <3>3. /\ v.protocol \in Nat /\ v.genesis \in Nat /\ v.state \in Nat
            /\ v.chain \in Bytes /\ v.key \in Bytes /\ v.url \in Bytes
            /\ v.signature \in Bytes
            /\ v = [protocol |-> v.protocol, chain |-> v.chain,
                    genesis |-> v.genesis, key |-> v.key, state |-> v.state,
                    url |-> v.url, signature |-> v.signature]
        BY <3>1 DEF HelloData, Bytes
      <3>4. v \in HellosOf
        <4>1. /\ v.chain \in Chains /\ v.key \in Keys /\ v.url \in Urls
              /\ v.signature \in Signatures
          BY <3>2, <3>3 DEF Chains, Keys, Urls, Signatures, Upto
        <4> QED BY <3>3, <4>1 DEF HellosOf
      <3>5. EncodeHello(v) \in Bytes /\ Len(EncodeHello(v)) <= Limit.hello
        <4>1. /\ Len(v.chain) \in Nat /\ Len(v.key) \in Nat /\ Len(v.url) \in Nat
              /\ Len(v.signature) \in Nat
          BY <3>3, JoinedBytes
        <4>2. PICK c \in Nat : c = Len(v.chain)
          BY <4>1
        <4>3. PICK k \in Nat : k = Len(v.key)
          BY <4>1
        <4>4. PICK l \in Nat : l = Len(v.url)
          BY <4>1
        <4>5. PICK n \in Nat : n = Len(v.signature)
          BY <4>1
        <4>6. EncodeHello(v) \in Bytes /\ Len(EncodeHello(v)) = c + k + l + n + 7
          BY <3>1, <4>2, <4>3, <4>4, <4>5, HelloBytes
        <4>7. c + k + l + n + 7 <= Limit.hello
          <5>1. /\ c \in Nat /\ k \in Nat /\ l \in Nat /\ n \in Nat
                /\ c <= Limit.chain /\ k <= Limit.node_key /\ l <= Limit.url
                /\ n <= Limit.signature
            BY <3>2, <4>2, <4>3, <4>4, <4>5
          <5> HIDE DEF Goal
          <5> QED BY <5>1, RoomForHello
        <4> QED BY <4>6, <4>7
      <3>6. v \in FitHellos
        BY <3>4, <3>5 DEF FitHellos, Within, HelloCode
      <3>7. Content(m) \in Bytes /\ Len(Content(m)) + 2 <= Limit.frame
        BY <3>1, <3>5, PrefixedFits, Room
      <3> QED BY <3>1, <3>6, <3>7
    <2>2. CASE t \in {2, 3}
      <3>1. /\ v \in [kind : Nat, id : Nat] /\ Content(m) = <<v.kind, v.id>>
            /\ ContentOf(t) = Objects /\ v.kind \in 1..4
        BY <1>1, <2>0, <2>2 DEF MessageData, Content, ContentOf, Sendable
      <3>2. v \in Objects
        BY <3>1 DEF Objects
      <3>3. <<v.kind, v.id>> \in Bytes /\ Len(<<v.kind, v.id>>) = 2
        BY <3>1, SymbolBytes
      <3>4. Len(Content(m)) = 2 /\ Content(m) \in Bytes
        BY <3>1, <3>3
      <3>5. Len(Content(m)) + 2 <= Limit.frame
        BY <3>4, Room
      <3> QED BY <3>1, <3>2, <3>4, <3>5
    <2>3. CASE t = 4
      <3>1. /\ v \in BlockData /\ Content(m) = Prefixed(EncodeBlock(v))
            /\ ContentOf(t) = FitBlocks /\ BlockFits(v)
        BY <1>1, <2>0, <2>3 DEF MessageData, Content, ContentOf, Sendable
      <3>2. v \in FitBlocks /\ Len(EncodeBlock(v)) <= Limit.block
        BY <3>1, BlockAccepted DEF BlockFits
      <3>3. EncodeBlock(v) \in Bytes
        BY <3>1, BlockBytes
      <3>4. Content(m) \in Bytes /\ Len(Content(m)) + 2 <= Limit.frame
        BY <3>1, <3>2, <3>3, PrefixedFits, Room
      <3> QED BY <3>1, <3>2, <3>4
    <2>4. CASE t = 5
      <3>1. /\ v \in TransactionData /\ Content(m) = Prefixed(EncodeTransaction(v))
            /\ ContentOf(t) = Transactions /\ TransactionFits(v)
        BY <1>1, <2>0, <2>4 DEF MessageData, Content, ContentOf, Sendable
      <3>2. v \in Transactions /\ Len(EncodeTransaction(v)) <= Limit.tx
        BY <3>1, TransactionAccepted DEF TransactionFits
      <3>3. EncodeTransaction(v) \in Bytes
        BY <3>1, TransactionBytes
      <3>4. Content(m) \in Bytes /\ Len(Content(m)) + 2 <= Limit.frame
        BY <3>1, <3>2, <3>3, PrefixedFits, Room
      <3> QED BY <3>1, <3>2, <3>4
    <2>5. CASE t = 6
      <3>1. v \in Nat /\ Content(m) = Prefixed(<<v>>) /\ ContentOf(t) = Nat
        BY <1>1, <2>5 DEF MessageData, Content, ContentOf, EncodeShare
      <3>2. <<v>> \in Bytes /\ Len(<<v>>) = 1
        BY <3>1, SymbolBytes
      <3>3. Prefixed(<<v>>) \in Bytes /\ Len(Prefixed(<<v>>)) = 1 + 1
        BY <3>2, JoinedBytes
      <3>4. Content(m) \in Bytes /\ Len(Content(m)) = 2
        BY <3>1, <3>3
      <3>5. Len(Content(m)) + 2 <= Limit.frame
        BY <3>4, Room
      <3> QED BY <3>1, <3>4, <3>5
    <2>6. CASE t = 7
      <3>1. /\ v \in TemplateData /\ Content(m) = Prefixed(EncodeTemplate(v))
            /\ ContentOf(t) = FitTemplates /\ TemplateFits(v)
        BY <1>1, <2>0, <2>6 DEF MessageData, Content, ContentOf, Sendable
      <3>2. v \in FitTemplates /\ Len(EncodeTemplate(v)) <= Limit.template
        BY <3>1, TemplateAccepted DEF TemplateFits
      <3>3. EncodeTemplate(v) \in Bytes
        BY <3>1, TemplateBytes
      <3>4. Content(m) \in Bytes /\ Len(Content(m)) + 2 <= Limit.frame
        BY <3>1, <3>2, <3>3, PrefixedFits, Room
      <3> QED BY <3>1, <3>2, <3>4
    <2>a. \A x \in Nat : /\ SymbolCode[x] = <<x>> /\ <<x>> \in Bytes
                         /\ Len(<<x>>) = 1
      BY SymbolBytes DEF SymbolCode
    <2>b. SymbolCode \in [Nat -> Bytes] /\ \A x \in Nat : Len(SymbolCode[x]) <= 1
      BY SymbolLength, CodeTypes, Zenon
    <2>c. ASSUME NEW s \in Seq(Nat), NEW max \in Nat, Len(s) <= max
          PROVE  /\ EncodeAll([i \in DOMAIN s |-> <<s[i]>>]) \in Bytes
                 /\ Len(EncodeAll([i \in DOMAIN s |-> <<s[i]>>])) <= 1 + max
      <3>1. [i \in DOMAIN s |-> <<s[i]>>] = [i \in DOMAIN s |-> SymbolCode[s[i]]]
        <4>1. \A i \in DOMAIN s : s[i] \in Nat
          BY <2>c
        <4>2. \A i \in DOMAIN s : <<s[i]>> = SymbolCode[s[i]]
          BY <2>a, <4>1
        <4> QED BY <4>2
      <3>2. 1 \in Nat /\ 1 + 1 * max = 1 + max
        OBVIOUS
      <3> HIDE DEF Bytes
      <3>3. /\ EncodeAll([i \in DOMAIN s |-> SymbolCode[s[i]]]) \in Bytes
            /\ Len(EncodeAll([i \in DOMAIN s |-> SymbolCode[s[i]]])) <= 1 + 1 * max
        BY <2>b, <2>c, <3>2, AllLength
      <3> QED BY <3>1, <3>2, <3>3
    <2>7. CASE t = 8
      <3>1. /\ v \in [locator : Seq(Nat), stop : Nat]
            /\ Content(m) = EncodeAll([i \in DOMAIN v.locator |-> <<v.locator[i]>>])
                              \o <<v.stop>>
            /\ ContentOf(t) = Locators /\ Len(v.locator) <= Limit.locator
        BY <1>1, <2>0, <2>7 DEF MessageData, Content, ContentOf, Sendable
      <3>2. v.locator \in Seq(Nat) /\ v.stop \in Nat
            /\ v = [locator |-> v.locator, stop |-> v.stop]
        BY <3>1
      <3>3. v \in Locators
        BY <3>1, <3>2 DEF Locators, LocatorLists, Most
      <3>4. PICK e : e = EncodeAll([i \in DOMAIN v.locator |-> <<v.locator[i]>>])
        OBVIOUS
      <3>5. e \in Bytes /\ Len(e) <= 1 + Limit.locator
        BY <2>c, <3>1, <3>2, <3>4, Room
      <3>6. /\ e \o <<v.stop>> \in Bytes /\ Len(e \o <<v.stop>>) = Len(e) + 1
            /\ Len(e) \in Nat
        BY <2>a, <3>2, <3>5, JoinedBytes
      <3>7. PICK n \in Nat : n = Len(e)
        BY <3>6
      <3>8. n <= 1 + Limit.locator /\ Len(e \o <<v.stop>>) = n + 1
        BY <3>5, <3>6, <3>7
      <3>9. (n + 1) + 2 <= Limit.frame
        BY <3>8, Room
      <3>10. Content(m) = e \o <<v.stop>>
        BY <3>1, <3>4
      <3> QED BY <3>1, <3>3, <3>6, <3>8, <3>9, <3>10
    <2>8. CASE t = 9
      <3>1. /\ v \in Seq(Nat) /\ Content(m) = EncodeAll([i \in DOMAIN v |-> <<v[i]>>])
            /\ ContentOf(t) = HeaderLists /\ Len(v) <= Limit.headers
        BY <1>1, <2>0, <2>8 DEF MessageData, Content, ContentOf, Sendable
      <3>2. v \in HeaderLists
        BY <3>1 DEF HeaderLists, Most
      <3>3. Content(m) \in Bytes /\ Len(Content(m)) <= 1 + Limit.headers
        BY <2>c, <3>1, Room
      <3>4. Len(Content(m)) \in Nat
        BY <3>3, JoinedBytes
      <3>5. Len(Content(m)) + 2 <= Limit.frame
        BY <3>3, <3>4, Room, SMTT(30)
      <3> QED BY <3>1, <3>2, <3>3, <3>5
    <2>9. CASE t \in {10, 11}
      <3>1. v \in Nat /\ Content(m) = <<v>> /\ ContentOf(t) = Nat
        BY <1>1, <2>9 DEF MessageData, Content, ContentOf
      <3> QED BY <2>a, <3>1, Room
    <2>10. CASE t = 12
      <3>1. /\ v \in Seq(Seq(Nat))
            /\ Content(m) = EncodeAll([i \in DOMAIN v |-> Prefixed(v[i])])
            /\ ContentOf(t) = PeerLists
            /\ Len(v) <= Limit.urls /\ IsInjective(v)
            /\ \A i \in DOMAIN v : Len(v[i]) <= Limit.url
        BY <1>1, <2>0, <2>10 DEF MessageData, Content, ContentOf, Sendable
      <3>2. v \in Seq(Urls)
        <4>1. v \in Seq(Bytes)
          BY <3>1 DEF Bytes
        <4>2. \A i \in DOMAIN v : v[i] \in Urls
          BY <3>1, <4>1 DEF Urls, Upto
        <4> QED BY <4>1, <4>2, SeqWithin
      <3>3. v \in PeerLists
        BY <3>1, <3>2 DEF PeerLists, UrlLists, Most
      <3>4. \A u \in Urls : /\ UptoCode(Limit.url)[u] = Prefixed(u)
                            /\ u \in Bytes /\ Len(u) <= Limit.url
        BY DEF Urls, Upto, UptoCode
      <3>5. \A u \in Urls : Len(UptoCode(Limit.url)[u]) <= Limit.url + 1
        <4> SUFFICES ASSUME NEW u \in Urls
                     PROVE  Len(UptoCode(Limit.url)[u]) <= Limit.url + 1
          OBVIOUS
        <4>1. PICK k : k = Len(u)
          OBVIOUS
        <4>2. u \in Bytes /\ k <= Limit.url /\ UptoCode(Limit.url)[u] = Prefixed(u)
          BY <3>4, <4>1
        <4>3. k \in Nat /\ Len(Prefixed(u)) = 1 + k
          BY <4>1, <4>2, JoinedBytes
        <4> QED BY <4>2, <4>3, RoomForPeers
      <3>6. [i \in DOMAIN v |-> Prefixed(v[i])]
              = [i \in DOMAIN v |-> UptoCode(Limit.url)[v[i]]]
        <4>1. \A i \in DOMAIN v : v[i] \in Urls
          BY <3>2
        <4>2. \A i \in DOMAIN v : Prefixed(v[i]) = UptoCode(Limit.url)[v[i]]
          BY <3>4, <4>1
        <4> QED BY <4>2
      <3>7. UptoCode(Limit.url) \in [Urls -> Bytes]
        BY HelloTypes
      <3>8. Limit.urls \in Nat /\ Limit.url + 1 \in Nat
        BY RoomForPeers
      <3>9. /\ EncodeAll([i \in DOMAIN v |-> UptoCode(Limit.url)[v[i]]]) \in Bytes
            /\ Len(EncodeAll([i \in DOMAIN v |-> UptoCode(Limit.url)[v[i]]]))
                 <= 1 + (Limit.url + 1) * Limit.urls
        BY <3>1, <3>2, <3>5, <3>7, <3>8, AllLength
      <3>10. Content(m) \in Bytes /\ Len(Content(m)) <= 1 + (Limit.url + 1) * Limit.urls
        BY <3>1, <3>6, <3>9
      <3>11. (Limit.url + 1) * Limit.urls = Limit.urls * (Limit.url + 1)
             /\ (Limit.url + 1) * Limit.urls \in Nat
        BY <3>8
      <3>12. Len(Content(m)) \in Nat
        BY <3>10, JoinedBytes
      <3>13. Limit.urls * (Limit.url + 1) + 3 <= Limit.frame /\ Limit.frame \in Nat
        BY RoomForPeers
      <3>14. Len(Content(m)) + 2 <= Limit.frame
        BY <3>10, <3>11, <3>12, <3>13
      <3> QED BY <3>1, <3>3, <3>10, <3>14
    <2> QED BY <2>1, <2>2, <2>3, <2>4, <2>5, <2>6, <2>7, <2>8, <2>9, <2>10
  <1>3. /\ <<Magic, t>> \in Bytes /\ Len(<<Magic, t>>) = 2
    BY SymbolBytes DEF Magic
  <1>4. EncodeFrame(m) = <<Magic, t>> \o Content(m)
    BY <1>1 DEF EncodeFrame
  <1>5. Len(EncodeFrame(m)) = 2 + Len(Content(m)) /\ Len(Content(m)) \in Nat
    BY <1>2, <1>3, <1>4, JoinedBytes
  <1>6. m \in Accepted
    BY <1>2, FrameIs
  <1> QED BY <1>2, <1>5, <1>6

-----------------------------------------------------------------------------
(* The calls of Arithmetic.                                                *)

\* Which call an input belongs to.
LEMMA CallIs ==
  ASSUME NEW i \in Inputs
  PROVE  /\ "target" \in DOMAIN i =>
              /\ i.target \in 1..MaxTarget
              /\ DOMAIN i = {"target"}
         /\ "height" \in DOMAIN i =>
              /\ i.height \in 0..MaxParent /\ i.time \in 0..MaxDelay
              /\ i.launch \in 0..1
              /\ DOMAIN i = {"height", "time", "launch"}
         /\ "message" \in DOMAIN i =>
              /\ i.message \in Messages
              /\ DOMAIN i = {"message"}
  BY DEF Inputs

\* What can arrive of a frame.
LEMMA DamagedBytes ==
  ASSUME NEW b \in Bytes
  PROVE  b \in Damaged(b) /\ Damaged(b) \subseteq Bytes
  <1>1. \A x \in Symbol : x \in Nat
    BY ArithmeticAssumption
  <1>2. ASSUME NEW i \in DOMAIN b, NEW x \in Symbol
        PROVE  [b EXCEPT ![i] = x] \in Bytes
    BY <1>1 DEF Bytes
  <1>4. ASSUME NEW i \in DOMAIN b
        PROVE  SubSeq(b, 1, i - 1) \in Bytes /\ SubSeq(b, i + 1, Len(b)) \in Bytes
    <2>1. i \in 1..Len(b) /\ Len(b) \in Nat
      BY DEF Bytes
    <2> QED BY <2>1, SMTT(30) DEF Bytes
  <1>5. ASSUME NEW i \in 0..Len(b)
        PROVE  SubSeq(b, 1, i) \in Bytes /\ SubSeq(b, i + 1, Len(b)) \in Bytes
    <2>1. Len(b) \in Nat
      BY DEF Bytes
    <2> QED BY <2>1 DEF Bytes
  <1>6. \A x \in Symbol : <<x>> \in Bytes
    BY <1>1, SymbolBytes
  <1>7. ASSUME NEW d \in Damaged(b) PROVE d \in Bytes
    <2>1. CASE d = b
      BY <2>1
    <2>2. CASE \E i \in DOMAIN b, x \in Symbol : d = [b EXCEPT ![i] = x]
      BY <1>2, <2>2
    <2>3. CASE \E i \in DOMAIN b : d = SubSeq(b, 1, i - 1) \o SubSeq(b, i + 1, Len(b))
      <3>1. PICK i \in DOMAIN b : d = SubSeq(b, 1, i - 1) \o SubSeq(b, i + 1, Len(b))
        BY <2>3
      <3> QED BY <1>4, <3>1, JoinedBytes
    <2>4. CASE \E i \in 0..Len(b), x \in Symbol :
                 d = SubSeq(b, 1, i) \o <<x>> \o SubSeq(b, i + 1, Len(b))
      <3>1. PICK i \in 0..Len(b), x \in Symbol :
                 d = SubSeq(b, 1, i) \o <<x>> \o SubSeq(b, i + 1, Len(b))
        BY <2>4
      <3>2. SubSeq(b, 1, i) \o <<x>> \in Bytes
        BY <1>5, <1>6, JoinedBytes
      <3> QED BY <1>5, <3>1, <3>2, JoinedBytes
    <2>5. \/ d = b
          \/ \E i \in DOMAIN b, x \in Symbol : d = [b EXCEPT ![i] = x]
          \/ \E i \in DOMAIN b : d = SubSeq(b, 1, i - 1) \o SubSeq(b, i + 1, Len(b))
          \/ \E i \in 0..Len(b), x \in Symbol :
               d = SubSeq(b, 1, i) \o <<x>> \o SubSeq(b, i + 1, Len(b))
      <3> DEFINE C == {[b EXCEPT ![i] = x] : i \in DOMAIN b, x \in Symbol}
                 L == {SubSeq(b, 1, i - 1) \o SubSeq(b, i + 1, Len(b)) : i \in DOMAIN b}
                 A == {SubSeq(b, 1, i) \o <<x>> \o SubSeq(b, i + 1, Len(b))
                         : i \in 0..Len(b), x \in Symbol}
      <3>1. Damaged(b) = {b} \cup C \cup L \cup A
        BY DEF Damaged
      <3>2. d \in C => \E i \in DOMAIN b, x \in Symbol : d = [b EXCEPT ![i] = x]
        OBVIOUS
      <3>3. d \in L =>
              \E i \in DOMAIN b : d = SubSeq(b, 1, i - 1) \o SubSeq(b, i + 1, Len(b))
        OBVIOUS
      <3>4. d \in A =>
              \E i \in 0..Len(b), x \in Symbol :
                d = SubSeq(b, 1, i) \o <<x>> \o SubSeq(b, i + 1, Len(b))
        <4> DEFINE F(i, x) == SubSeq(b, 1, i) \o <<x>> \o SubSeq(b, i + 1, Len(b))
        <4>1. A = {F(i, x) : i \in 0..Len(b), x \in Symbol}
          OBVIOUS
        <4> HIDE DEF A, F
        <4>2. d \in A => \E i \in 0..Len(b), x \in Symbol : d = F(i, x)
          BY <4>1
        <4> QED BY <4>2 DEF F
      <3> HIDE DEF C, L, A
      <3> QED BY <1>7, <3>1, <3>2, <3>3, <3>4, Zenon
    <2> QED BY <2>1, <2>2, <2>3, <2>4, <2>5, Zenon
  <1>8. b \in Damaged(b)
    <2> DEFINE C == {[b EXCEPT ![i] = x] : i \in DOMAIN b, x \in Symbol}
               L == {SubSeq(b, 1, i - 1) \o SubSeq(b, i + 1, Len(b)) : i \in DOMAIN b}
               A == {SubSeq(b, 1, i) \o <<x>> \o SubSeq(b, i + 1, Len(b))
                       : i \in 0..Len(b), x \in Symbol}
    <2>1. Damaged(b) = {b} \cup C \cup L \cup A
      BY DEF Damaged
    <2> HIDE DEF C, L, A
    <2> QED BY <2>1
  <1> QED BY <1>7, <1>8

\* What a message of the calls is.
LEMMA MessageIs ==
  ASSUME NEW m \in Messages
  PROVE  \E t \in 1..12 : \E v \in MessageData(t) : m = Message(t, v)
  <1>1. m.tag \in 1..12 /\ m \in [tag : {m.tag}, value : MessageData(m.tag)]
    BY ArithmeticAssumption
  <1>2. m = [tag |-> m.tag, value |-> m.value] /\ m.value \in MessageData(m.tag)
    BY <1>1
  <1> QED BY <1>1, <1>2 DEF Message

\* One transfer.
LEMMA TransferCanonical ==
  ASSUME NEW m \in Messages, NEW b \in Damaged(EncodeFrame(m))
  PROVE  /\ DecodeFrame(b).ok => EncodeFrame(DecodeFrame(b).value) = b
         /\ Sendable(m) /\ b = EncodeFrame(m) =>
              DecodeFrame(b).ok /\ DecodeFrame(b).value = m
  <1>1. PICK t \in 1..12 : \E v \in MessageData(t) : m = Message(t, v)
    BY MessageIs
  <1>2. PICK v \in MessageData(t) : m = Message(t, v)
    BY <1>1
  <1>3. EncodeFrame(m) \in Bytes
    BY <1>2, MessageBytes
  <1>4. b \in Bytes
    BY <1>3, DamagedBytes
  <1>5. DecodeFrame(b).ok => EncodeFrame(DecodeFrame(b).value) = b
    BY <1>4, FrameDecodes
  <1>6. ASSUME Sendable(m), b = EncodeFrame(m)
        PROVE  DecodeFrame(b).ok /\ DecodeFrame(b).value = m
    <2>1. m \in Accepted /\ Len(b) <= Limit.frame
      BY <1>2, <1>6, SendableAccepted
    <2> QED BY <1>4, <1>6, <2>1, FrameDecodes
  <1> QED BY <1>5, <1>6

\* A finished call of decode_frame has the bytes it was given and its result;
\* of target_to_bits and required_target, theirs.
AnswersTrue ==
  /\ asked \in Inputs
  /\ Encoded => answer = Encoding(asked)
  /\ Retargeted => answer = Retargeting(asked)
  /\ Delivered => \E b \in Damaged(EncodeFrame(asked.message)) :
                      answer = [bytes |-> b, got |-> DecodeFrame(b)]

LEMMA AnswersInvariant == ArithmeticSpec => []AnswersTrue
  <1>1. Unanswered => AnswersTrue
    BY DEF Unanswered, AnswersTrue, Encoded, Retargeted, Delivered
  <1>2. AnswersTrue /\ [Answer]_<<asked, answer>> => AnswersTrue'
    <2> SUFFICES ASSUME AnswersTrue, [Answer]_<<asked, answer>>
                 PROVE  AnswersTrue'
      OBVIOUS
    <2>1. asked \in Inputs /\ asked' = asked
      BY DEF AnswersTrue, Answer, Divide, Encode, Retarget, Deliver, Commit
    <2>2. CASE UNCHANGED <<asked, answer>>
      BY <2>2 DEF AnswersTrue, Encoded, Retargeted, Delivered
    <2>3. CASE Divide \/ Commit
      <3>1. /\ "target" \notin DOMAIN asked /\ "height" \notin DOMAIN asked
            /\ "message" \notin DOMAIN asked
        BY <2>1, <2>3, CallIs DEF Divide, Commit
      <3> QED BY <2>1, <3>1 DEF AnswersTrue, Encoded, Retargeted, Delivered
    <2>4. CASE Encode
      <3>1. "height" \notin DOMAIN asked /\ "message" \notin DOMAIN asked
        BY <2>1, <2>4, CallIs DEF Encode
      <3>2. answer' = Encoding(asked)
        BY <2>4 DEF Encode
      <3> QED BY <2>1, <3>1, <3>2 DEF AnswersTrue, Encoded, Retargeted, Delivered
    <2>5. CASE Retarget
      <3>1. "target" \notin DOMAIN asked /\ "message" \notin DOMAIN asked
        BY <2>1, <2>5, CallIs DEF Retarget
      <3>2. answer' = Retargeting(asked)
        BY <2>5 DEF Retarget
      <3> QED BY <2>1, <3>1, <3>2 DEF AnswersTrue, Encoded, Retargeted, Delivered
    <2>6. CASE Deliver
      <3>1. "target" \notin DOMAIN asked /\ "height" \notin DOMAIN asked
        BY <2>1, <2>6, CallIs DEF Deliver
      <3>2. \E b \in Damaged(EncodeFrame(asked.message)) :
              answer' = [bytes |-> b, got |-> DecodeFrame(b)]
        BY <2>6 DEF Deliver
      <3> QED BY <2>1, <3>1, <3>2 DEF AnswersTrue, Encoded, Retargeted, Delivered
    <2> QED BY <2>2, <2>3, <2>4, <2>5, <2>6 DEF Answer
  <1> QED BY <1>1, <1>2, PTL DEF ArithmeticSpec

\* Canonical (codec.rs, p2p.rs): decode_frame accepts only the bytes that
\* encode_frame writes for what it returns, and every message that keeps the
\* node's limits arrives as it was sent.
THEOREM FormatCanonical == ArithmeticSpec => []Canonical
  <1>1. AnswersTrue => Canonical
    <2> SUFFICES ASSUME AnswersTrue, Delivered
                 PROVE  /\ answer.got.ok => EncodeFrame(answer.got.value) = answer.bytes
                        /\ Sendable(asked.message) /\ answer.bytes = EncodeFrame(asked.message) =>
                             answer.got.ok /\ answer.got.value = asked.message
      BY DEF Canonical
    <2>1. PICK m : m = asked.message
      OBVIOUS
    <2>2. m \in Messages
      BY <2>1, CallIs DEF AnswersTrue, Delivered
    <2>3. PICK b \in Damaged(EncodeFrame(m)) : answer = [bytes |-> b, got |-> DecodeFrame(b)]
      BY <2>1 DEF AnswersTrue
    <2>4. answer.bytes = b /\ answer.got = DecodeFrame(b)
      BY <2>3
    <2> QED BY <2>1, <2>2, <2>4, TransferCanonical
  <1> QED BY <1>1, AnswersInvariant, PTL

\* CompactRoundsDown (difficulty.rs): a target's compact form is the greatest
\* representable target below it, a workshare is never harder to find than its
\* block, and the work is that of the wider division.
THEOREM CompactRounding == ArithmeticSpec => []CompactRoundsDown
  <1>1. AnswersTrue => CompactRoundsDown
    <2> SUFFICES ASSUME AnswersTrue, Encoded
                 PROVE  RoundedDown(asked.target, answer.back, answer.share, answer.work)
      BY DEF CompactRoundsDown
    <2>1. PICK t \in 1..MaxTarget : t = asked.target
      BY CallIs DEF AnswersTrue, Encoded
    <2>2. PICK bits : bits = TargetToBits(t)
      OBVIOUS
    <2>3. answer = Encoding(asked)
      BY DEF AnswersTrue
    <2>4. /\ answer.back = BitsToTarget(bits) /\ answer.share = WorkshareBits(bits)
          /\ answer.work = TargetWork(t)
      BY <2>1, <2>2, <2>3 DEF Encoding
    <2>5. RoundedDown(t, BitsToTarget(bits), WorkshareBits(bits), TargetWork(t))
      BY <2>2, CompactSound
    <2> QED BY <2>1, <2>4, <2>5
  <1> QED BY <1>1, AnswersInvariant, PTL

\* FollowsSchedule (difficulty.rs): required_target never leaves its range,
\* follows the clock and the height, and doubles with a half-life of delay.
THEOREM ScheduleFollowed == ArithmeticSpec => []FollowsSchedule
  <1>1. AnswersTrue => FollowsSchedule
    <2> SUFFICES ASSUME AnswersTrue, Retargeted
                 PROVE  Scheduled(asked.height, asked.time, asked.launch, answer.target, answer.bits)
      BY DEF FollowsSchedule
    <2>1. /\ MaxParent \in Nat /\ MaxDelay \in Nat
          /\ asked.height \in 0..MaxParent /\ asked.time \in 0..MaxDelay /\ asked.launch \in 0..1
      BY CallIs, ArithmeticAssumption DEF AnswersTrue, Retargeted
    <2>2. asked.height \in Nat /\ asked.time \in Nat /\ asked.launch \in Nat
      BY <2>1
    <2>3. answer = Retargeting(asked)
      BY DEF AnswersTrue
    <2>4. /\ answer.target = RequiredTarget(asked.height, asked.time, asked.launch)
          /\ answer.bits = RequiredBits(asked.height, asked.time, asked.launch)
      BY <2>3 DEF Retargeting
    <2> QED BY <2>2, <2>4, RetargetSound
  <1> QED BY <1>1, AnswersInvariant, PTL
=============================================================================
