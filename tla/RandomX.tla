------------------------------- MODULE RandomX -------------------------------
(***************************************************************************)
(* The proof-of-work hash as the node's threads share it                   *)
(* (src/src/pow.rs). A context is the cache, and in fast mode the 2 GiB    *)
(* dataset, of one seed, with the virtual machines made for it. One        *)
(* context is current; threads that hash with another one keep it alive    *)
(* (Arc<Context>) until they return their machine. Miners and the          *)
(* validation of old and new blocks ask for different seeds at once.       *)
(***************************************************************************)
EXTENDS Naturals, FiniteSets

CONSTANTS
  Thread,       \* the callers of calculate: workers, connections, requests
  Seed,         \* the seeds they ask for
  TestSeed,     \* the seed of the self-test in load
  NoContext, NoVm, NoThread,
  Context,      \* bound: places for contexts that exist at once
  Vm,           \* bound: machines of a context, one per thread
  MaxCalls,     \* bound: calls of calculate
  MaxFailures   \* bound: allocations that fail

\* What a place holds; refs counts Arc<Context>, idle is idle_vms.
Built == [seed : Seed \cup {TestSeed}, refs : Nat, idle : SUBSET Vm]

ASSUME RandomXAssumption ==
  /\ IsFiniteSet(Thread) /\ IsFiniteSet(Context) /\ Context # {}
  /\ IsFiniteSet(Vm) /\ Cardinality(Vm) >= Cardinality(Thread) /\ Vm # {}
  /\ NoContext \notin Context \cup Built /\ NoVm \notin Vm /\ NoThread \notin Thread
  /\ MaxCalls \in Nat /\ MaxFailures \in Nat

VARIABLES
  current,   \* RandomX.context
  built,     \* a place: [seed, refs, idle], or NoContext when it is free
  init,      \* who holds RandomX.initialization
  pc,        \* "idle", "asked", "waiting", "locked", "allocating", "holding", "hashing"
  want,      \* the seed asked for
  held,      \* the context a thread has built or cloned
  vm,        \* the machine a thread hashes with
  calls, failures

vars == <<current, built, init, pc, want, held, vm, calls, failures>>

Live == {c \in Context : built[c] # NoContext}

\* load keeps the context of the self-test, made in light mode, and its machine.
Init ==
  /\ current = CHOOSE c \in Context : TRUE
  /\ built = [c \in Context |-> IF c = current
       THEN [seed |-> TestSeed, refs |-> 1, idle |-> {CHOOSE v \in Vm : TRUE}]
       ELSE NoContext]
  /\ init = NoThread
  /\ pc = [t \in Thread |-> "idle"] /\ want = [t \in Thread |-> TestSeed]
  /\ held = [t \in Thread |-> NoContext] /\ vm = [t \in Thread |-> NoVm]
  /\ calls = 0 /\ failures = 0

\* Arc::clone, and the drop of a reference: with the last one the context is
\* released with its idle machines.
Cloned(table, c) == [table EXCEPT ![c].refs = @ + 1]
Dropped(table, c) ==
  IF table[c].refs = 1 THEN [table EXCEPT ![c] = NoContext]
                       ELSE [table EXCEPT ![c].refs = @ - 1]

Goto(t, place) == pc' = [pc EXCEPT ![t] = place]

\* calculate(seed, input).
Ask(t, s) ==
  /\ pc[t] = "idle" /\ calls < MaxCalls
  /\ calls' = calls + 1
  /\ want' = [want EXCEPT ![t] = s]
  /\ Goto(t, "asked")
  /\ UNCHANGED <<current, built, init, held, vm, failures>>

\* The thread takes the current context, under the read lock.
TakeCurrent(t) ==
  /\ held' = [held EXCEPT ![t] = current]
  /\ built' = Cloned(built, current)
  /\ Goto(t, "holding")

\* The first look, without the initialization lock.
Look(t) ==
  /\ pc[t] = "asked"
  /\ IF built[current].seed = want[t] THEN TakeCurrent(t)
     ELSE Goto(t, "waiting") /\ UNCHANGED <<held, built>>
  /\ UNCHANGED <<current, init, want, vm, calls, failures>>

Lock(t) ==
  /\ pc[t] = "waiting" /\ init = NoThread
  /\ init' = t
  /\ Goto(t, "locked")
  /\ UNCHANGED <<current, built, want, held, vm, calls, failures>>

\* Mutation: the second look is left out.
RecheckNot(t) ==
  /\ pc[t] = "locked"
  /\ Goto(t, "allocating")
  /\ UNCHANGED <<current, built, init, want, held, vm, calls, failures>>

\* The second look, with the lock: another thread may have been here first.
Recheck(t) ==
  /\ pc[t] = "locked"
  /\ IF built[current].seed = want[t]
     THEN TakeCurrent(t) /\ init' = NoThread
     ELSE Goto(t, "allocating") /\ UNCHANGED <<held, built, init>>
  /\ UNCHANGED <<current, want, vm, calls, failures>>

\* Context::new: the cache, the dataset and the threads that fill it.
Allocate(t) ==
  /\ pc[t] = "allocating" /\ held[t] = NoContext
  /\ Live # Context
  /\ LET c == CHOOSE c \in Context : c \notin Live
     IN  /\ built' = [built EXCEPT ![c] =
                       [seed |-> want[t], refs |-> 1, idle |-> {}]]
         /\ held' = [held EXCEPT ![t] = c]
  /\ UNCHANGED <<current, init, pc, want, vm, calls, failures>>

\* Mutation: the lock is not released by the error.
AllocateFailsLocked(t) ==
  /\ pc[t] = "allocating" /\ held[t] = NoContext /\ failures < MaxFailures
  /\ failures' = failures + 1
  /\ Goto(t, "idle")
  /\ UNCHANGED <<current, built, init, want, held, vm, calls>>

\* The cache or the dataset cannot be allocated: what was is given back.
AllocateFails(t) ==
  /\ pc[t] = "allocating" /\ held[t] = NoContext /\ failures < MaxFailures
  /\ failures' = failures + 1
  /\ init' = NoThread
  /\ Goto(t, "idle")
  /\ UNCHANGED <<current, built, want, held, vm, calls>>

\* Under the write lock the new context becomes the current one, which loses
\* the reference it had there, and is cloned for the caller.
Replace(t) ==
  /\ pc[t] = "allocating" /\ held[t] # NoContext
  /\ current' = held[t]
  /\ built' = Dropped(Cloned(built, held[t]), current)
  /\ init' = NoThread
  /\ Goto(t, "holding")
  /\ UNCHANGED <<want, held, vm, calls, failures>>

\* Mutation: the machine is looked at but not removed from the idle ones.
TakeVmShared(t) ==
  /\ pc[t] = "holding"
  /\ LET c == held[t] IN
     \E v \in IF built[c].idle # {} THEN built[c].idle ELSE Vm :
       vm' = [vm EXCEPT ![t] = v] /\ UNCHANGED built
  /\ Goto(t, "hashing")
  /\ UNCHANGED <<current, init, want, held, calls, failures>>

\* hash: an idle machine, or a new one.
TakeVm(t) ==
  /\ pc[t] = "holding"
  /\ LET c   == held[t]
         out == {vm[u] : u \in {u \in Thread : held[u] = c}}
     IN \E v \in IF built[c].idle # {} THEN built[c].idle
                ELSE {CHOOSE v \in Vm : v \notin out} :
       /\ vm' = [vm EXCEPT ![t] = v]
       /\ built' = [built EXCEPT ![c].idle = @ \ {v}]
  /\ Goto(t, "hashing")
  /\ UNCHANGED <<current, init, want, held, calls, failures>>

\* No machine can be made: calculate returns an error.
TakeVmFails(t) ==
  /\ pc[t] = "holding" /\ built[held[t]].idle = {} /\ failures < MaxFailures
  /\ failures' = failures + 1
  /\ built' = Dropped(built, held[t])
  /\ held' = [held EXCEPT ![t] = NoContext]
  /\ Goto(t, "idle")
  /\ UNCHANGED <<current, init, want, vm, calls>>

\* The hash is computed, the machine is idle again and the context, which the
\* caller held for as long, loses a reference; between the two nothing depends
\* on this reference.
ReturnVm(t) ==
  /\ pc[t] = "hashing"
  /\ built' = Dropped([built EXCEPT ![held[t]].idle = @ \cup {vm[t]}], held[t])
  /\ held' = [held EXCEPT ![t] = NoContext]
  /\ vm' = [vm EXCEPT ![t] = NoVm]
  /\ Goto(t, "idle")
  /\ UNCHANGED <<current, init, want, calls, failures>>

Step(t) ==
  Look(t) \/ Recheck(t) \/ Allocate(t) \/ Replace(t) \/ TakeVm(t) \/ ReturnVm(t)

Next ==
  \E t \in Thread :
    \/ \E s \in Seed : Ask(t, s)
    \/ Lock(t) \/ Step(t)
    \/ AllocateFails(t) \/ TakeVmFails(t)

Spec == Init /\ [][Next]_vars

\* Threads run, and parking_lot hands its mutexes on: one that keeps waiting
\* while the lock is released again and again gets it.
FairSpec ==
  Spec /\ \A t \in Thread : WF_vars(Step(t)) /\ SF_vars(Lock(t))

-----------------------------------------------------------------------------
(* Properties.                                                             *)

\* Types of the contexts and of what the threads hold.
TypeOK ==
  /\ current \in Context /\ init \in Thread \cup {NoThread}
  /\ built \in [Context -> Built \cup {NoContext}]
  /\ pc \in [Thread -> {"idle", "asked", "waiting", "locked", "allocating",
                        "holding", "hashing"}]
  /\ want \in [Thread -> Seed \cup {TestSeed}]
  /\ held \in [Thread -> Context \cup {NoContext}]
  /\ vm \in [Thread -> Vm \cup {NoVm}]
  /\ calls \in 0..MaxCalls /\ failures \in 0..MaxFailures

\* The reference counts are exact: a context counts the threads that hold it,
\* and its place as the current one; so what is held or current is alive.
Holders(c) == {t \in Thread : held[t] = c}
References(c) == Cardinality(Holders(c)) + IF c = current THEN 1 ELSE 0
Referenced ==
  /\ current \in Live /\ \A t \in Thread : held[t] \in Live \cup {NoContext}
  /\ \A c \in Live : built[c].refs = References(c)

\* Only the thread with the initialization lock is between the second look and
\* the new context, and the current one is not what it looks for.
LockHeld ==
  \A t \in Thread :
    /\ pc[t] \in {"locked", "allocating"} => init = t
    /\ pc[t] = "allocating" => built[current].seed # want[t]

\* What a thread holds, of which seed, and the machines.
HoldsWanted ==
  \A t \in Thread :
    /\ held[t] # NoContext => /\ pc[t] \in {"allocating", "holding", "hashing"}
                              /\ built[held[t]].seed = want[t]
    /\ pc[t] \in {"holding", "hashing"} => held[t] # NoContext
MachinesApart ==
  \A t \in Thread :
    /\ pc[t] # "hashing" <=> vm[t] = NoVm
    /\ pc[t] = "hashing" =>
         /\ vm[t] \notin built[held[t]].idle
         /\ \A u \in Thread \ {t} :
              ~(pc[u] = "hashing" /\ held[u] = held[t] /\ vm[u] = vm[t])

\* What unsafe code has to ensure (pow.rs:169-170, the unsafe impls): a thread
\* that hashes does so in a context that has not been released, of the seed it
\* asked for although the current one may have changed twice since, with a
\* machine that no other thread uses and that is not handed out.
HashesSound ==
  \A t \in Thread : pc[t] = "hashing" =>
    /\ held[t] \in Live /\ built[held[t]].seed = want[t]
    /\ vm[t] \notin built[held[t]].idle
    /\ \A u \in Thread \ {t} :
         ~(pc[u] = "hashing" /\ held[u] = held[t] /\ vm[u] = vm[t])

\* "Concurrent workers must not each allocate a separate 2 GiB dataset for the
\* same seed" (pow.rs:308-309): a context is only ever allocated for a seed
\* other than the current one, so a seed is initialized once however many
\* threads wait for it.
InitializedOnce ==
  [][\A c \in Context : built[c] = NoContext /\ built'[c] # NoContext =>
       built'[c].seed # built[current].seed]_vars

\* Nobody waits for ever: not for the lock, which is held for seconds while a
\* dataset is filled, nor after a thread that failed inside it.
CallsReturn == \A t \in Thread : pc[t] # "idle" ~> pc[t] = "idle"

\* Taken literally, the same comment excludes two datasets of one seed. A
\* thread that still hashes with a seed that was current before has one, and
\* the next thread that asks for this seed makes another.
OneContextPerSeed ==
  \A c, d \in Live : built[c].seed = built[d].seed => c = d
=============================================================================
