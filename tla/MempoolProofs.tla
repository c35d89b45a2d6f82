--------------------------- MODULE MempoolProofs ----------------------------
(***************************************************************************)
(* The two indexes of the mempool describe the same pool, a transaction    *)
(* gives up its slot only to one that pays for it, a confirmed one is in   *)
(* the pool only by a race, what is selected for a block can be applied,   *)
(* and the running size is the size of the entries and within its limit,   *)
(* for any transactions, clients, limits and chains.                       *)
(***************************************************************************)
EXTENDS Mempool, FiniteSetTheorems, SequenceTheorems, WellFoundedInduction,
        TLAPS

Entry == [tx : Tx \cup {NoTx}, acct : Accounts]

\* The types the arguments below need: every transaction that reaches accept
\* is one of Tx, whether a client, a block or a reorganization brings it.
PoolTypes ==
  /\ pool \subseteq Tx
  /\ index \in [Slot -> Tx \cup {NoTx}]
  /\ chain \in Seq(Entry) /\ Len(chain) >= 1
  /\ detached \in Seq(Tx \cup {NoTx})
  /\ DOMAIN call = Client
  /\ \A c \in Client : call[c] = NoCall \/ call[c].tx \in Tx

IndexInv == PoolTypes /\ IndexConsistent

\* Arithmetic the nonces need.
LEMMA Transitive ==
  \A x, y, z \in Nat : x < y /\ y <= z => x < z /\ ~(x >= y)
OBVIOUS

\* A branch of two blocks, appended at once or one after the other.
LEMMA TwoBlocks ==
  ASSUME NEW S, NEW s \in Seq(S), NEW x \in S, NEW y \in S,
         NEW r, r = <<x, y>>
  PROVE  r \in Seq(S) /\ s \o r = Append(Append(s, x), y)
<1> DEFINE one == Append(s, x)
           two == Append(one, y)
           all == s \o <<x, y>>
<1>1. /\ <<x, y>> \in Seq(S) /\ Len(<<x, y>>) = 2 /\ Len(s) \in Nat
      /\ <<x, y>>[1] = x /\ <<x, y>>[2] = y
  OBVIOUS
<1>2. /\ one \in Seq(S) /\ Len(one) = Len(s) + 1 /\ one[Len(s) + 1] = x
      /\ \A i \in 1..Len(s) : one[i] = s[i]
  BY AppendProperties
<1> HIDE DEF one
<1>3. /\ two \in Seq(S) /\ Len(two) = Len(s) + 2 /\ two[Len(s) + 2] = y
      /\ \A i \in 1..(Len(s) + 1) : two[i] = one[i]
  BY <1>1, <1>2
<1>4. /\ all \in Seq(S) /\ Len(all) = Len(s) + 2
      /\ all[Len(s) + 1] = x /\ all[Len(s) + 2] = y
      /\ \A i \in 1..Len(s) : all[i] = s[i]
  BY <1>1
<1> HIDE DEF two, all
<1>5. ASSUME NEW i \in 1..(Len(s) + 2) PROVE all[i] = two[i]
  <2>1. i \in 1..Len(s) \/ i = Len(s) + 1 \/ i = Len(s) + 2
    BY <1>1
  <2>3. CASE i \in 1..Len(s)
    <3>1. i \in 1..(Len(s) + 1)
      BY <1>1, <2>3
    <3> QED
      BY <1>2, <1>3, <1>4, <2>3, <3>1
  <2>4. CASE i = Len(s) + 1
    <3>1. Len(s) + 1 \in 1..(Len(s) + 1)
      BY <1>1
    <3> QED
      BY <1>2, <1>3, <1>4, <2>4, <3>1
  <2>5. CASE i = Len(s) + 2
    BY <1>3, <1>4, <2>5
  <2> QED
    BY <2>1, <2>3, <2>4, <2>5
<1>6. all = two
  BY <1>3, <1>4, <1>5
<1> QED
  BY <1>1, <1>6 DEF one, two, all

USE MempoolAssumption

-----------------------------------------------------------------------------
(* The operations of the pool.                                             *)

\* The fields of a transaction, and that its slot exists.
LEMMA TxTypes ==
  ASSUME NEW t \in Tx
  PROVE  /\ t.sender \in Addr /\ t.recipient \in Addr
         /\ t.amount \in Nat /\ t.fee \in Nat
         /\ t.nonce \in Nat /\ t.nonce + 1 <= MaxNonce
         /\ SlotOf(t) \in Slot /\ t # NoTx
<1>1. t \in [id : Nat, sender : Addr, recipient : Addr, amount : Nat,
             fee : Nat, nonce : 0..(MaxNonce - 1), size : Nat \ {0},
             signed : BOOLEAN]
  OBVIOUS
<1>2. t.nonce \in 0..(MaxNonce - 1) /\ MaxNonce \in Nat
  BY <1>1
<1>3. t.nonce \in 0..MaxNonce
  BY <1>2
<1> QED
  BY <1>1, <1>2, <1>3 DEF SlotOf, Slot

\* Taking t in, whatever expires or is trimmed afterwards.
LEMMA TakeInSound ==
  ASSUME IndexInv, NEW t \in Tx, TakeIn(t)
  PROVE  /\ pool' \subseteq Tx /\ index' \in [Slot -> Tx \cup {NoTx}]
         /\ IndexConsistent'
         /\ \A s \in Slot : index'[s] \in {NoTx, index[s], t}
         /\ \A s \in Slot : index'[s] = t /\ index[s] # t => s = SlotOf(t)
<1> DEFINE old == {index[SlotOf(t)]} \cap pool
<1>1. PICK P : /\ P \subseteq (pool \ old) \cup {t}
               /\ pool' = P
               /\ index' = [s \in Slot |->
                    IF s = SlotOf(t) /\ t \in P THEN t
                    ELSE IF index[s] \in P THEN index[s] ELSE NoTx]
  BY DEF TakeIn
<1>2. P \subseteq Tx /\ SlotOf(t) \in Slot /\ NoTx \notin P
  BY <1>1, TxTypes DEF IndexInv, PoolTypes
<1>3. \A u \in P : index'[SlotOf(u)] = u
  <2>1. ASSUME NEW u \in P PROVE index'[SlotOf(u)] = u
    <3>1. SlotOf(u) \in Slot
      BY <1>2, TxTypes
    <3>2. CASE u = t
      BY <1>1, <3>1, <3>2
    <3>3. CASE u # t
      <4>1. u \in pool /\ u \notin old
        BY <1>1, <3>3
      <4>2. index[SlotOf(u)] = u
        BY <4>1 DEF IndexInv, IndexConsistent
      <4>3. SlotOf(u) # SlotOf(t)
        BY <4>1, <4>2
      <4> QED
        BY <1>1, <3>1, <4>2, <4>3
    <3> QED
      BY <3>2, <3>3
  <2> QED
    BY <2>1
<1>4. \A s \in Slot : index'[s] # NoTx => index'[s] \in P /\ SlotOf(index'[s]) = s
  BY <1>1, <1>2 DEF IndexInv, IndexConsistent
<1>5. IndexConsistent'
  BY <1>1, <1>3, <1>4 DEF IndexConsistent
<1>6. index' \in [Slot -> Tx \cup {NoTx}]
  BY <1>1, <1>2
<1>7. ASSUME NEW s \in Slot
      PROVE  /\ index'[s] \in {NoTx, index[s], t}
             /\ index'[s] = t /\ index[s] # t => s = SlotOf(t)
  BY <1>1, <1>2
<1> QED
  BY <1>1, <1>2, <1>5, <1>6, <1>7

\* Removing one entry keeps the indexes in step.
LEMMA DropSound ==
  ASSUME IndexInv, NEW t, Drop(t)
  PROVE  /\ pool' \subseteq Tx /\ index' \in [Slot -> Tx \cup {NoTx}]
         /\ IndexConsistent'
         /\ \A s \in Slot : index'[s] \in {NoTx, index[s]}
<1>1. /\ pool' = pool \ {t}
      /\ index' = [s \in Slot |-> IF index[s] = t /\ t \in pool THEN NoTx
                                                                ELSE index[s]]
  BY DEF Drop
<1>2. pool' \subseteq Tx /\ index' \in [Slot -> Tx \cup {NoTx}]
  BY <1>1 DEF IndexInv, PoolTypes
<1>3. ASSUME NEW u \in pool' PROVE index'[SlotOf(u)] = u
  <2>1. u \in pool /\ u # t /\ SlotOf(u) \in Slot
    BY <1>1, <1>2, TxTypes
  <2>2. index[SlotOf(u)] = u
    BY <2>1 DEF IndexInv, IndexConsistent
  <2> QED
    BY <1>1, <2>1, <2>2
<1>4. ASSUME NEW s \in Slot, index'[s] # NoTx
      PROVE  index'[s] \in pool' /\ SlotOf(index'[s]) = s
  <2>1. index'[s] = index[s] /\ ~(index[s] = t /\ t \in pool)
    BY <1>1, <1>4
  <2>2. index[s] \in pool /\ SlotOf(index[s]) = s
    BY <1>4, <2>1 DEF IndexInv, IndexConsistent
  <2> QED
    BY <1>1, <2>1, <2>2
<1>5. IndexConsistent'
  BY <1>3, <1>4 DEF IndexConsistent
<1> QED
  BY <1>1, <1>2, <1>5

\* So does remove_confirmed.
LEMMA RemoveConfirmedSound ==
  ASSUME IndexInv, NEW S, RemoveConfirmed(S)
  PROVE  /\ pool' \subseteq Tx /\ index' \in [Slot -> Tx \cup {NoTx}]
         /\ IndexConsistent'
         /\ \A s \in Slot : index'[s] \in {NoTx, index[s]}
<1>1. /\ pool' = pool \ S
      /\ index' = [s \in Slot |-> IF index[s] \in S \cap pool THEN NoTx
                                                              ELSE index[s]]
  BY DEF RemoveConfirmed
<1>2. pool' \subseteq Tx /\ index' \in [Slot -> Tx \cup {NoTx}]
  BY <1>1 DEF IndexInv, PoolTypes
<1>3. ASSUME NEW u \in pool' PROVE index'[SlotOf(u)] = u
  <2>1. u \in pool /\ u \notin S /\ SlotOf(u) \in Slot
    BY <1>1, <1>2, TxTypes
  <2>2. index[SlotOf(u)] = u
    BY <2>1 DEF IndexInv, IndexConsistent
  <2> QED
    BY <1>1, <2>1, <2>2
<1>4. ASSUME NEW s \in Slot, index'[s] # NoTx
      PROVE  index'[s] \in pool' /\ SlotOf(index'[s]) = s
  <2>1. index'[s] = index[s] /\ index[s] \notin S \cap pool
    BY <1>1, <1>4
  <2>2. index[s] \in pool /\ SlotOf(index[s]) = s
    BY <1>4, <2>1 DEF IndexInv, IndexConsistent
  <2> QED
    BY <1>1, <2>1, <2>2
<1>5. IndexConsistent'
  BY <1>3, <1>4 DEF IndexConsistent
<1> QED
  BY <1>1, <1>2, <1>5

\* What a step does to the slots: it empties some, and fills one only with a
\* transaction that pays for the one it replaces.
SlotsFair ==
  \A s \in Slot :
    index[s] # NoTx /\ index'[s] \notin {NoTx, index[s]} =>
      index'[s].fee >= RequiredFee(index[s])

\* One call of accept, whether it takes the transaction in or refuses it.
LEMMA AcceptSound ==
  ASSUME IndexInv, NEW t \in Tx, NEW acct, AcceptInto(t, acct)
  PROVE  /\ pool' \subseteq Tx /\ index' \in [Slot -> Tx \cup {NoTx}]
         /\ IndexConsistent' /\ SlotsFair
<1>1. CASE Outcome(t, acct) = "ok"
  <2>1. TakeIn(t)
    BY <1>1 DEF AcceptInto
  <2>2. /\ pool' \subseteq Tx /\ index' \in [Slot -> Tx \cup {NoTx}]
        /\ IndexConsistent'
        /\ \A s \in Slot : index'[s] \in {NoTx, index[s], t}
        /\ \A s \in Slot : index'[s] = t /\ index[s] # t => s = SlotOf(t)
    BY <2>1, TakeInSound
  <2>3. index[SlotOf(t)] = NoTx \/ ~(t.fee < RequiredFee(index[SlotOf(t)]))
    BY <1>1 DEF Outcome
  <2>4. ASSUME NEW s \in Slot, index[s] # NoTx, index'[s] \notin {NoTx, index[s]}
        PROVE  index'[s].fee >= RequiredFee(index[s])
    <3>1. index'[s] = t /\ s = SlotOf(t)
      BY <2>2, <2>4
    <3>2. index[s] \in Tx
      BY <2>4 DEF IndexInv, PoolTypes
    <3>3. index[s].fee \in Nat /\ t.fee \in Nat
      BY <3>2, TxTypes
    <3>4. RequiredFee(index[s]) \in Int
      BY <3>3 DEF RequiredFee
    <3>5. ~(t.fee < RequiredFee(index[s]))
      BY <2>3, <2>4, <3>1
    <3> QED
      BY <3>1, <3>3, <3>4, <3>5
  <2> QED
    BY <2>2, <2>4 DEF SlotsFair
<1>2. CASE Outcome(t, acct) = "balance" /\ index[SlotOf(t)] # NoTx
  <2>1. Drop(index[SlotOf(t)])
    BY <1>2 DEF AcceptInto
  <2> QED
    BY <2>1, DropSound DEF SlotsFair
<1>3. CASE /\ Outcome(t, acct) # "ok"
           /\ ~(Outcome(t, acct) = "balance" /\ index[SlotOf(t)] # NoTx)
  <2>1. UNCHANGED mempool
    BY <1>3 DEF AcceptInto
  <2> QED
    BY <2>1 DEF mempool, SlotsFair, IndexInv, PoolTypes, IndexConsistent
<1> QED
  BY <1>1, <1>2, <1>3

-----------------------------------------------------------------------------
(* The chain.                                                              *)

\* A block's transaction leaves accounts behind.
LEMMA AfterTypes ==
  ASSUME NEW t \in Tx \cup {NoTx}, NEW acct \in Accounts, Minable(t, acct)
  PROVE  After(t, acct) \in Accounts
<1>1. CASE t = NoTx
  BY <1>1 DEF After
<1>2. CASE t # NoTx
  <2>1. /\ t.sender \in Addr /\ t.recipient \in Addr /\ t.sender # t.recipient
        /\ t.amount \in Nat /\ t.fee \in Nat /\ t.nonce \in Nat /\ t.nonce + 1 <= MaxNonce
    BY <1>2, TxTypes DEF Minable
  <2> DEFINE from == acct[t.sender]
             to   == acct[t.recipient]
             paid == [balance |-> from.balance - t.amount - t.fee, nonce |-> t.nonce + 1]
             got  == [balance |-> to.balance + t.amount, nonce |-> to.nonce]
  <2>2. from \in [balance : Nat, nonce : 0..MaxNonce] /\ to \in [balance : Nat, nonce : 0..MaxNonce]
    BY <2>1 DEF Accounts
  <2>3. t.amount + t.fee <= from.balance
    BY <1>2 DEF Minable
  <2>4. MaxNonce \in Nat
    OBVIOUS
  <2>5. t.nonce + 1 \in 0..MaxNonce
    BY <2>1, <2>4
  <2>6. from.balance - t.amount - t.fee \in Nat
    BY <2>1, <2>2, <2>3
  <2>7. paid \in [balance : Nat, nonce : 0..MaxNonce]
    BY <2>5, <2>6
  <2>8. got \in [balance : Nat, nonce : 0..MaxNonce]
    BY <2>1, <2>2
  <2>9. After(t, acct) = [a \in Addr |-> IF a = t.sender THEN paid
                                         ELSE IF a = t.recipient THEN got ELSE acct[a]]
    BY <1>2, <2>1 DEF After, Accounts
  <2> HIDE DEF paid, got
  <2> QED
    BY <2>7, <2>8, <2>9 DEF Accounts
<1> QED
  BY <1>1, <1>2

\* The pool after the chain from some height on was replaced.
LEMMA ConnectTypes ==
  ASSUME IndexInv, NEW k \in 1..Len(chain), NEW new \in Seq(Entry), Connect(k, new)
  PROVE  IndexInv' /\ SlotsFair
<1>1. chain \in Seq(Entry) /\ Len(chain) \in Nat /\ k \in Nat /\ k >= 1 /\ k <= Len(chain)
  BY DEF IndexInv, PoolTypes
<1>2. chain' \in Seq(Entry) /\ Len(chain') >= 1
  <2>1. SubSeq(chain, 1, k) \in Seq(Entry) /\ Len(SubSeq(chain, 1, k)) = k
    BY <1>1, SubSeqProperties
  <2>2. /\ SubSeq(chain, 1, k) \o new \in Seq(Entry)
        /\ Len(SubSeq(chain, 1, k) \o new) = k + Len(new)
    BY <2>1, ConcatProperties
  <2>3. Len(new) \in Nat
    OBVIOUS
  <2> QED
    BY <1>1, <2>2, <2>3 DEF Connect
<1>3. detached' \in Seq(Tx \cup {NoTx})
  <2>1. \A i \in 1..(Len(chain) - k) : chain[k + i].tx \in Tx \cup {NoTx}
    <3>1. ASSUME NEW i \in 1..(Len(chain) - k) PROVE chain[k + i] \in Entry
      <4>1. k + i \in 1..Len(chain)
        BY <1>1
      <4> QED
        BY <1>1, <4>1
    <3> QED
      BY <3>1 DEF Entry
  <2>2. Len(chain) - k \in Nat
    BY <1>1
  <2> DEFINE item(i) == IF chain[k + i].tx \in Confirmed(new) THEN NoTx ELSE chain[k + i].tx
  <2>3. \A i \in 1..(Len(chain) - k) : item(i) \in Tx \cup {NoTx}
    BY <2>1
  <2>4. detached' = [i \in 1..(Len(chain) - k) |-> item(i)]
    BY DEF Connect
  <2> HIDE DEF item
  <2> QED
    BY <2>2, <2>3, <2>4
<1>4. /\ pool' \subseteq Tx /\ index' \in [Slot -> Tx \cup {NoTx}]
      /\ IndexConsistent' /\ SlotsFair
  BY RemoveConfirmedSound DEF Connect, SlotsFair
<1>5. UNCHANGED call
  BY DEF Connect
<1> QED
  BY <1>2, <1>3, <1>4, <1>5 DEF IndexInv, PoolTypes

-----------------------------------------------------------------------------
(* Every step preserves the invariant and treats slots fairly.             *)

\* A step that leaves the pool alone.
LEMMA IdlePool ==
  ASSUME IndexInv, UNCHANGED <<pool, index, chain>>,
         detached' \in Seq(Tx \cup {NoTx}), DOMAIN call' = Client,
         \A c \in Client : call'[c] = NoCall \/ call'[c].tx \in Tx
  PROVE  IndexInv' /\ SlotsFair
BY DEF IndexInv, PoolTypes, IndexConsistent, SlotsFair, NoCall

\* A client that clones the accounts leaves the pool alone.
LEMMA CloneStateSound ==
  ASSUME IndexInv, NEW c \in Client, NEW t \in Tx, CloneState(c, t)
  PROVE  IndexInv' /\ SlotsFair
<1>1. DOMAIN call' = Client /\ \A d \in Client : call'[d] = NoCall \/ call'[d].tx \in Tx
  BY DEF CloneState, IndexInv, PoolTypes
<1>2. detached' \in Seq(Tx \cup {NoTx})
  BY DEF CloneState, IndexInv, PoolTypes
<1> QED
  BY <1>1, <1>2, IdlePool DEF CloneState, mempool

\* A client's call of accept, on the accounts it cloned earlier.
LEMMA AcceptStepSound ==
  ASSUME IndexInv, NEW c \in Client, Accept(c)
  PROVE  IndexInv' /\ SlotsFair
<1>1. call[c].tx \in Tx
  BY DEF Accept, IndexInv, PoolTypes
<1>2. AcceptInto(call[c].tx, call[c].acct)
  BY DEF Accept
<1>3. /\ pool' \subseteq Tx /\ index' \in [Slot -> Tx \cup {NoTx}]
      /\ IndexConsistent' /\ SlotsFair
  BY <1>1, <1>2, AcceptSound
<1>4. DOMAIN call' = Client /\ \A d \in Client : call'[d] = NoCall \/ call'[d].tx \in Tx
  BY DEF Accept, IndexInv, PoolTypes
<1> QED
  BY <1>3, <1>4 DEF Accept, IndexInv, PoolTypes, NoCall

\* A block at the end of the chain.
LEMMA ExtendSound ==
  ASSUME IndexInv, NEW t \in Tx \cup {NoTx}, Extend(t)
  PROVE  IndexInv' /\ SlotsFair
<1>1. Len(chain) \in 1..Len(chain) /\ chain[Len(chain)] \in Entry
  BY DEF IndexInv, PoolTypes
<1>2. AcctOf(chain) \in Accounts /\ Minable(t, AcctOf(chain))
  BY <1>1 DEF AcctOf, Entry, Extend
<1> DEFINE block == [tx |-> t, acct |-> After(t, AcctOf(chain))]
<1>3. block \in Entry
  BY <1>2, AfterTypes DEF Entry
<1>4. Connect(Len(chain), <<block>>)
  BY DEF Extend
<1> HIDE DEF block
<1>5. <<block>> \in Seq(Entry)
  BY <1>3
<1> QED
  BY <1>1, <1>4, <1>5, ConnectTypes

\* Blocks are replaced by a longer branch.
LEMMA ReorganizeSound ==
  ASSUME IndexInv, NEW k \in DOMAIN chain, NEW t \in Tx \cup {NoTx},
         NEW u \in Tx \cup {NoTx}, Reorganize(k, t, u)
  PROVE  IndexInv' /\ SlotsFair
<1>0. chain \in Seq(Entry)
  BY DEF IndexInv, PoolTypes
<1>1. k \in 1..Len(chain) /\ chain[k] \in Entry
  <2>1. DOMAIN chain = 1..Len(chain)
    BY <1>0, LenProperties
  <2>2. k \in 1..Len(chain)
    BY <2>1
  <2> QED
    BY <1>0, <2>2, ElementOfSeq
<1>2. chain[k].acct \in Accounts /\ Minable(t, chain[k].acct)
  BY <1>1 DEF Entry, Reorganize
<1> DEFINE first  == [tx |-> t, acct |-> After(t, chain[k].acct)]
           second == [tx |-> u, acct |-> After(u, first.acct)]
<1>3. first \in Entry /\ first.acct \in Accounts /\ Minable(u, first.acct)
  BY <1>2, AfterTypes DEF Entry, Reorganize
<1>4. second \in Entry
  BY <1>3, AfterTypes DEF Entry
<1>5. Connect(k, <<first, second>>)
  BY DEF Reorganize
<1> HIDE DEF first, second
<1>6. <<first, second>> \in Seq(Entry)
  BY <1>3, <1>4
<1> QED
  BY <1>1, <1>5, <1>6, ConnectTypes

\* A detached transaction is offered to the pool again.
LEMMA ResurrectSound ==
  ASSUME IndexInv, Resurrect
  PROVE  IndexInv' /\ SlotsFair
<1>1. /\ Head(detached) \in Tx \cup {NoTx}
      /\ detached' \in Seq(Tx \cup {NoTx})
  BY DEF Resurrect, IndexInv, PoolTypes
<1>2. CASE Head(detached) # NoTx
  <2>1. Head(detached) \in Tx /\ AcceptInto(Head(detached), AcctOf(chain))
    BY <1>1, <1>2 DEF Resurrect
  <2>2. /\ pool' \subseteq Tx /\ index' \in [Slot -> Tx \cup {NoTx}]
        /\ IndexConsistent' /\ SlotsFair
    BY <2>1, AcceptSound
  <2> QED
    BY <1>1, <2>2 DEF Resurrect, IndexInv, PoolTypes, NoCall
<1>3. CASE Head(detached) = NoTx
  <2>1. UNCHANGED <<pool, index, chain, call>>
    BY <1>3 DEF Resurrect, mempool
  <2> QED
    BY <1>1, <2>1, IdlePool DEF IndexInv, PoolTypes
<1> QED
  BY <1>2, <1>3

\* What leaves pool and chain alone.
LEMMA RestSound ==
  ASSUME IndexInv, Tick \/ UNCHANGED vars
  PROVE  IndexInv' /\ SlotsFair
<1>1. UNCHANGED <<pool, index, chain, detached, call>>
  BY DEF Tick, vars, mempool
<1> QED
  BY <1>1, IdlePool DEF IndexInv, PoolTypes

-----------------------------------------------------------------------------
(* The theorems.                                                           *)

\* An empty pool on the genesis block.
LEMMA InitSound == Init => IndexInv
<1> SUFFICES ASSUME Init PROVE IndexInv
  OBVIOUS
<1>1. [tx |-> NoTx, acct |-> Genesis] \in Entry
  BY DEF Entry
<1>2. chain \in Seq(Entry) /\ Len(chain) >= 1
  BY <1>1 DEF Init
<1>3. index = [s \in Slot |-> NoTx] /\ pool = {} /\ detached = <<>>
  BY DEF Init
<1>4. DOMAIN call = Client /\ \A c \in Client : call[c] = NoCall
  BY DEF Init
<1> QED
  BY <1>2, <1>3, <1>4 DEF IndexInv, PoolTypes, IndexConsistent

\* Every step keeps the indexes in step and pays for what it replaces.
LEMMA NextSound == IndexInv /\ [Next]_vars => IndexInv' /\ SlotsFair
<1> SUFFICES ASSUME IndexInv, [Next]_vars PROVE IndexInv' /\ SlotsFair
  OBVIOUS
<1>1. CASE \E c \in Client : (\E t \in Tx : CloneState(c, t)) \/ Accept(c)
  BY <1>1, CloneStateSound, AcceptStepSound
<1>2. CASE \E t \in Tx \cup {NoTx} : Extend(t)
  BY <1>2, ExtendSound
<1>3. CASE \E k \in 1..MaxBlocks, t \in Tx \cup {NoTx}, u \in Tx \cup {NoTx} :
             k \in DOMAIN chain /\ Reorganize(k, t, u)
  BY <1>3, ReorganizeSound
<1>4. CASE Resurrect
  BY <1>4, ResurrectSound
<1>5. CASE Tick \/ UNCHANGED vars
  BY <1>5, RestSound
<1> QED
  BY <1>1, <1>2, <1>3, <1>4, <1>5 DEF Next

\* The invariant of the indexes.
LEMMA IndexInvAlways == Spec => []IndexInv
BY InitSound, NextSound, PTL DEF Spec

\* Mempool::accept, remove_confirmed and expire_and_trim keep entries and
\* by_sender_nonce in step, also when a replaced transaction, an unfunded one or
\* the new one itself is removed on the way.
THEOREM IndexesAgree == Spec => []IndexConsistent
BY IndexInvAlways, PTL DEF IndexInv

\* A slot passes to another transaction only for RequiredFee, whether a client
\* or a reorganization brings it.
THEOREM ReplacementsPay == Spec => ReplacementPaysMore
<1>1. IndexInv /\ [Next]_vars => [\A s \in Slot :
        index[s] # NoTx /\ index'[s] \notin {NoTx, index[s]} =>
          index'[s].fee >= RequiredFee(index[s])]_vars
  BY NextSound DEF SlotsFair
<1> QED
  BY <1>1, IndexInvAlways, PTL DEF Spec, ReplacementPaysMore

-----------------------------------------------------------------------------
(* Confirmed transactions in the pool.                                     *)

\* A transaction of the chain has a nonce below its sender's, in the accounts
\* after its block and after every later one.
SpentIn(c) ==
  \A i \in DOMAIN c, j \in DOMAIN c :
    j <= i /\ c[j].tx # NoTx =>
      c[j].tx.nonce < c[i].acct[c[j].tx.sender].nonce

RaceInv == SpentIn(chain) /\ pool \cap Confirmed(chain) \subseteq raced

\* Nonces are numbers.
LEMMA NonceType ==
  ASSUME NEW acct \in Accounts, NEW a \in Addr
  PROVE  acct[a].nonce \in Nat
BY DEF Accounts

\* apply_transactions raises the sender's nonce above the transaction's and
\* lowers none.
LEMMA AfterNonces ==
  ASSUME NEW t \in Tx \cup {NoTx}, NEW acct \in Accounts, Minable(t, acct)
  PROVE  /\ \A a \in Addr : acct[a].nonce <= After(t, acct)[a].nonce
         /\ t # NoTx => t.nonce < After(t, acct)[t.sender].nonce
<1>1. \A a \in Addr : acct[a].nonce \in Nat
  BY DEF Accounts
<1>2. CASE t = NoTx
  BY <1>1, <1>2 DEF After
<1>3. CASE t # NoTx
  <2>1. /\ t.sender \in Addr /\ t.recipient \in Addr /\ t.sender # t.recipient
        /\ t.nonce \in Nat /\ t.nonce = acct[t.sender].nonce
    BY <1>3, TxTypes DEF Minable
  <2>2. /\ After(t, acct)[t.sender].nonce = t.nonce + 1
        /\ After(t, acct)[t.recipient].nonce = acct[t.recipient].nonce
        /\ \A a \in Addr : a # t.sender /\ a # t.recipient =>
             After(t, acct)[a] = acct[a]
    BY <1>3, <2>1, SMTT(30) DEF After, Accounts
  <2> QED
    BY <1>1, <2>1, <2>2
<1> QED
  BY <1>2, <1>3

\* A block on a chain leaves its transactions spent.
LEMMA BlockSpends ==
  ASSUME NEW c \in Seq(Entry), Len(c) >= 1, SpentIn(c),
         NEW t \in Tx \cup {NoTx}, Minable(t, AcctOf(c)),
         NEW b, b = [tx |-> t, acct |-> After(t, AcctOf(c))]
  PROVE  /\ Append(c, b) \in Seq(Entry) /\ Len(Append(c, b)) = Len(c) + 1
         /\ SpentIn(Append(c, b)) /\ AcctOf(Append(c, b)) = b.acct
<1>1. /\ Len(c) \in Nat /\ Len(c) \in DOMAIN c /\ DOMAIN c = 1..Len(c)
      /\ \A i \in DOMAIN c : c[i] \in Entry
  BY SMTT(30)
<1>2. AcctOf(c) \in Accounts
  BY <1>1 DEF AcctOf, Entry
<1>3. b \in Entry /\ b.tx = t /\ b.acct = After(t, AcctOf(c))
  BY <1>2, AfterTypes DEF Entry
<1> DEFINE d == Append(c, b)
<1>4. /\ d \in Seq(Entry) /\ Len(d) = Len(c) + 1 /\ d[Len(c) + 1] = b
      /\ DOMAIN d = 1..(Len(c) + 1) /\ \A i \in 1..Len(c) : d[i] = c[i]
  BY <1>1, <1>3
<1> HIDE DEF d
<1>5. ASSUME NEW i \in DOMAIN d, NEW j \in DOMAIN d, j <= i, d[j].tx # NoTx
      PROVE  d[j].tx.nonce < d[i].acct[d[j].tx.sender].nonce
  <2>1. CASE i \in 1..Len(c)
    <3>1. j \in 1..Len(c)
      BY <1>1, <1>4, <1>5, <2>1
    <3> QED
      BY <1>1, <1>4, <1>5, <2>1, <3>1 DEF SpentIn
  <2>2. CASE i = Len(c) + 1 /\ j = Len(c) + 1
    BY <1>2, <1>3, <1>4, <1>5, <2>2, AfterNonces, SMTT(30)
  <2>3. CASE i = Len(c) + 1 /\ j \in 1..Len(c)
    <3> DEFINE u == c[j].tx
    <3>1. u \in Tx /\ d[j].tx = u
      BY <1>1, <1>4, <1>5, <2>3 DEF Entry
    <3>2. u.nonce < AcctOf(c)[u.sender].nonce
      <4>1. Len(c) \in DOMAIN c /\ j \in DOMAIN c /\ j <= Len(c) /\ u # NoTx
        BY <1>1, <1>5, <2>3, <3>1
      <4>2. u.nonce < c[Len(c)].acct[u.sender].nonce
        BY <4>1 DEF SpentIn
      <4> QED
        BY <4>2 DEF AcctOf
    <3> HIDE DEF u
    <3>3. u.sender \in Addr /\ u.nonce \in Nat
      BY <3>1, TxTypes
    <3>4. AcctOf(c)[u.sender].nonce <= b.acct[u.sender].nonce
      BY <1>2, <1>3, <3>3, AfterNonces
    <3>5. /\ AcctOf(c)[u.sender].nonce \in Nat
          /\ b.acct[u.sender].nonce \in Nat
      <4>1. b.acct \in Accounts
        BY <1>3 DEF Entry
      <4> QED
        BY <1>2, <3>3, <4>1, NonceType
    <3>6. u.nonce < b.acct[u.sender].nonce
      BY <3>2, <3>3, <3>4, <3>5, Transitive
    <3> QED
      BY <1>4, <2>3, <3>1, <3>6
  <2> QED
    BY <1>1, <1>4, <2>1, <2>2, <2>3
<1>6. AcctOf(d) = b.acct
  BY <1>1, <1>4 DEF AcctOf
<1> QED
  BY <1>4, <1>5, <1>6 DEF SpentIn, d

\* A chain cut after a block is spent, and goes on from that block's accounts.
LEMMA PrefixSpends ==
  ASSUME NEW c \in Seq(Entry), SpentIn(c), NEW k \in 1..Len(c)
  PROVE  LET p == SubSeq(c, 1, k)
         IN  /\ p \in Seq(Entry) /\ Len(p) = k /\ SpentIn(p)
             /\ AcctOf(p) = c[k].acct
             /\ \A i \in 1..k : p[i] = c[i]
<1> DEFINE p == SubSeq(c, 1, k)
<1>1. /\ p \in Seq(Entry) /\ Len(p) = k /\ k \in Nat /\ k >= 1
      /\ \A i \in 1..k : p[i] = c[i] /\ i \in DOMAIN c
  BY SubSeqProperties
<1>2. DOMAIN p = 1..k
  BY <1>1
<1> HIDE DEF p
<1>3. SpentIn(p)
  BY <1>1, <1>2 DEF SpentIn
<1>4. AcctOf(p) = c[k].acct
  BY <1>1 DEF AcctOf
<1> QED
  BY <1>1, <1>3, <1>4 DEF p

\* remove_confirmed takes what the new blocks confirm out of the pool; the rest
\* of the chain was there before.
LEMMA ConnectRace ==
  ASSUME IndexInv, RaceInv, NEW k \in 1..Len(chain), NEW new \in Seq(Entry),
         Connect(k, new), SpentIn(chain')
  PROVE  RaceInv'
<1>1. chain \in Seq(Entry)
  BY DEF IndexInv, PoolTypes
<1>2. /\ chain' = SubSeq(chain, 1, k) \o new
      /\ pool' = pool \ Confirmed(new) /\ raced' = raced \cap pool'
  BY DEF Connect, RemoveConfirmed
<1> DEFINE p == SubSeq(chain, 1, k)
<1>3. /\ p \in Seq(Entry) /\ Len(p) = k
      /\ \A i \in 1..k : p[i] = chain[i] /\ i \in DOMAIN chain
  <2>1. SpentIn(chain)
    BY DEF RaceInv
  <2> QED
    BY <1>1, <2>1, PrefixSpends, SMTT(30)
<1> HIDE DEF p
<1>4. ASSUME NEW i \in DOMAIN (p \o new)
      PROVE  \/ \E j \in DOMAIN chain : (p \o new)[i] = chain[j]
             \/ \E j \in DOMAIN new : (p \o new)[i] = new[j]
  <2> DEFINE q == p \o new
  <2>1. /\ q \in Seq(Entry) /\ Len(q) = Len(p) + Len(new)
        /\ \A h \in 1..Len(p) + Len(new) :
             q[h] = IF h <= Len(p) THEN p[h] ELSE new[h - Len(p)]
    BY <1>3, ConcatProperties, Zenon
  <2>2. Len(new) \in Nat /\ DOMAIN new = 1..Len(new) /\ k \in Nat
    <3>1. Len(chain) \in Nat
      BY <1>1, LenProperties
    <3> QED
      BY <3>1, LenProperties
  <2>3. i \in 1..Len(q)
    BY <2>1, LenProperties, Zenon
  <2> HIDE DEF q
  <2>4. i \in 1..(k + Len(new)) /\ q[i] = IF i <= k THEN p[i] ELSE new[i - k]
    BY <1>3, <2>1, <2>3, Zenon
  <2>5. CASE i <= k
    <3>1. i \in 1..k /\ q[i] = p[i]
      BY <2>2, <2>4, <2>5
    <3>2. i \in DOMAIN chain /\ q[i] = chain[i]
      BY <1>3, <3>1, Zenon
    <3> QED
      BY <3>2, Zenon DEF q
  <2>6. CASE ~(i <= k)
    <3> DEFINE j == i - k
    <3>1. j \in 1..Len(new) /\ q[i] = new[j]
      BY <2>2, <2>4, <2>6, SMTT(30)
    <3> HIDE DEF j
    <3> QED
      BY <2>2, <3>1, Zenon DEF q
  <2> QED
    BY <2>5, <2>6
<1>5. Confirmed(chain') \subseteq Confirmed(chain) \cup Confirmed(new)
  BY <1>2, <1>4, SMTT(30) DEF Confirmed, p
<1>6. pool \cap Confirmed(chain) \subseteq raced
  BY DEF RaceInv
<1>7. pool' \cap Confirmed(chain)' \subseteq raced'
  <2> SUFFICES ASSUME NEW t \in pool', t \in Confirmed(chain)'
               PROVE  t \in raced'
    OBVIOUS
  <2>1. t \in Confirmed(chain') /\ t \in pool /\ t \notin Confirmed(new)
    BY <1>2, Zenon DEF Confirmed
  <2> QED
    BY <1>2, <1>5, <1>6, <2>1, Zenon
<1> QED
  BY <1>7, Zenon DEF RaceInv

\* A block on the tip.
LEMMA ExtendRace ==
  ASSUME IndexInv, RaceInv, NEW t \in Tx \cup {NoTx}, Extend(t)
  PROVE  RaceInv'
<1> DEFINE k == Len(chain)
           p == SubSeq(chain, 1, k)
           b == [tx |-> t, acct |-> After(t, AcctOf(chain))]
<1>1. chain \in Seq(Entry) /\ k \in 1..k /\ SpentIn(chain)
  BY DEF IndexInv, PoolTypes, RaceInv
<1>2. Connect(k, <<b>>) /\ Minable(t, AcctOf(chain))
  BY DEF Extend
<1>3. AcctOf(chain) = chain[k].acct
  BY DEF AcctOf
<1>4. p \in Seq(Entry) /\ Len(p) = k /\ SpentIn(p) /\ AcctOf(p) = AcctOf(chain)
  BY <1>1, <1>3, PrefixSpends
<1>7. AcctOf(chain) \in Accounts
  <2>1. chain[k] \in Entry
    BY <1>1
  <2> QED
    BY <1>3, <2>1 DEF Entry
<1> HIDE DEF p, k
<1>5. k \in Nat /\ k >= 1
  BY <1>1 DEF k
<1>6. Append(p, b) \in Seq(Entry) /\ SpentIn(Append(p, b))
  BY <1>2, <1>4, <1>5, BlockSpends
<1>8. b \in Entry
  BY <1>2, <1>7, AfterTypes DEF Entry
<1> HIDE DEF b
<1>9. p \o <<b>> = Append(p, b) /\ <<b>> \in Seq(Entry)
  BY <1>4, <1>8
<1>10. chain' = Append(p, b)
  BY <1>2, <1>9 DEF Connect, p
<1> QED
  BY <1>1, <1>2, <1>6, <1>9, <1>10, ConnectRace DEF k

\* A preferred branch.
LEMMA ReorganizeRace ==
  ASSUME IndexInv, RaceInv, NEW k \in DOMAIN chain, NEW t \in Tx \cup {NoTx},
         NEW u \in Tx \cup {NoTx}, Reorganize(k, t, u)
  PROVE  RaceInv'
<1> DEFINE p == SubSeq(chain, 1, k)
           first == [tx |-> t, acct |-> After(t, chain[k].acct)]
           second == [tx |-> u, acct |-> After(u, first.acct)]
<1>1. chain \in Seq(Entry) /\ k \in 1..Len(chain) /\ SpentIn(chain)
  <2>1. chain \in Seq(Entry) /\ SpentIn(chain)
    BY DEF IndexInv, PoolTypes, RaceInv
  <2>2. DOMAIN chain = 1..Len(chain)
    BY <2>1, LenProperties
  <2> HIDE DEF IndexInv
  <2> QED
    BY <2>1, <2>2
<1>2. /\ Connect(k, <<first, second>>)
      /\ Minable(t, chain[k].acct) /\ Minable(u, first.acct)
  BY DEF Reorganize
<1>3. /\ p \in Seq(Entry) /\ Len(p) = k /\ SpentIn(p)
      /\ AcctOf(p) = chain[k].acct /\ k \in Nat /\ k >= 1
  <2>1. k \in Nat /\ k >= 1
    BY <1>1
  <2> QED
    BY <1>1, <2>1, PrefixSpends
<1>4. chain[k].acct \in Accounts
  <2>1. chain[k] \in Entry
    BY <1>1, ElementOfSeq
  <2> QED
    BY <2>1 DEF Entry
<1>5. first \in Entry /\ first.acct \in Accounts
  BY <1>2, <1>4, AfterTypes DEF Entry
<1>6. second \in Entry
  BY <1>2, <1>5, AfterTypes DEF Entry
<1> HIDE DEF p
<1>7. /\ Append(p, first) \in Seq(Entry) /\ Len(Append(p, first)) = k + 1
      /\ SpentIn(Append(p, first)) /\ AcctOf(Append(p, first)) = first.acct
  BY <1>2, <1>3, BlockSpends
<1>8. SpentIn(Append(Append(p, first), second))
  <2> HIDE DEF first
  <2>1. second = [tx |-> u, acct |-> After(u, AcctOf(Append(p, first)))]
    BY <1>7
  <2>2. Minable(u, AcctOf(Append(p, first)))
    BY <1>2, <1>7
  <2>3. Len(Append(p, first)) >= 1
    BY <1>3, <1>7
  <2> HIDE DEF second
  <2> QED
    BY <1>7, <2>1, <2>2, <2>3, BlockSpends
<1> HIDE DEF first, second
<1>9. /\ p \o <<first, second>> = Append(Append(p, first), second)
      /\ <<first, second>> \in Seq(Entry)
  <2>1. p \in Seq(Entry) /\ first \in Entry /\ second \in Entry
    BY <1>3, <1>5, <1>6
  <2> DEFINE new == <<first, second>>
  <2>2. new = <<first, second>>
    OBVIOUS
  <2> HIDE MempoolAssumption DEF new
  <2>3. new \in Seq(Entry) /\ p \o new = Append(Append(p, first), second)
    BY <2>1, <2>2, TwoBlocks
  <2> QED
    BY <2>2, <2>3
<1>10. chain' = Append(Append(p, first), second)
  BY <1>2, <1>9 DEF Connect, p
<1> QED
  BY <1>1, <1>2, <1>8, <1>9, <1>10, ConnectRace

\* accept brings in no other transaction than its own, and that one only if it
\* is valid for relay on the accounts it is given.
LEMMA AcceptPool ==
  ASSUME IndexInv, NEW t \in Tx, NEW acct, AcceptInto(t, acct)
  PROVE  /\ pool' \subseteq pool \cup {t}
         /\ ValidForRelay(t, acct) \/ pool' \subseteq pool
<1>1. CASE Outcome(t, acct) = "ok"
  <2>1. TakeIn(t) /\ ValidForRelay(t, acct)
    BY <1>1 DEF AcceptInto, Outcome
  <2>2. pool' \subseteq pool \cup {t}
    BY <2>1 DEF TakeIn
  <2> QED
    BY <2>1, <2>2
<1>2. CASE Outcome(t, acct) = "balance" /\ index[SlotOf(t)] # NoTx
  BY <1>2 DEF AcceptInto, Drop
<1>3. CASE /\ Outcome(t, acct) # "ok"
           /\ ~(Outcome(t, acct) = "balance" /\ index[SlotOf(t)] # NoTx)
  <2>1. UNCHANGED mempool
    BY <1>3 DEF AcceptInto
  <2> QED
    BY <2>1 DEF mempool
<1> QED
  BY <1>1, <1>2, <1>3

\* A confirmed transaction is not valid for relay on the chain's own accounts.
LEMMA ConfirmedInvalid ==
  ASSUME IndexInv, RaceInv, NEW t \in Tx, t \in Confirmed(chain)
  PROVE  ~ValidForRelay(t, AcctOf(chain))
<1>1. chain \in Seq(Entry) /\ Len(chain) >= 1 /\ SpentIn(chain)
  BY DEF IndexInv, PoolTypes, RaceInv
<1>2. PICK j \in DOMAIN chain : chain[j].tx = t
  BY DEF Confirmed
<1>3. Len(chain) \in DOMAIN chain /\ j <= Len(chain)
  <2>1. Len(chain) \in Nat /\ DOMAIN chain = 1..Len(chain)
    BY <1>1, LenProperties
  <2> QED
    BY <1>1, <1>2, <2>1
<1>4. chain[j].tx # NoTx
  BY <1>2, TxTypes
<1>5. t.nonce < AcctOf(chain)[t.sender].nonce
  BY <1>1, <1>2, <1>3, <1>4 DEF SpentIn, AcctOf
<1>6. chain[Len(chain)] \in Entry /\ t.sender \in Addr /\ t.nonce \in Nat
  <2>1. Len(chain) \in 1..Len(chain)
    BY <1>1, <1>3, LenProperties
  <2> QED
    BY <1>1, <2>1, ElementOfSeq, TxTypes
<1>7. AcctOf(chain)[t.sender].nonce \in Nat
  BY <1>6, NonceType DEF AcctOf, Entry
<1>8. ~(t.nonce >= AcctOf(chain)[t.sender].nonce)
  <2> DEFINE x == t.nonce
             y == AcctOf(chain)[t.sender].nonce
  <2>1. x \in Nat /\ y \in Nat /\ x < y
    BY <1>5, <1>6, <1>7
  <2> HIDE MempoolAssumption DEF x, y
  <2>2. y <= y
    BY <2>1
  <2>3. ~(x >= y)
    BY <2>1, <2>2, Transitive
  <2> QED
    BY <2>3 DEF x, y
<1> QED
  BY <1>8 DEF ValidForRelay

\* submit_transaction: a transaction confirmed meanwhile gets in only with
\* accounts that are not the chain's any more.
LEMMA AcceptRace ==
  ASSUME IndexInv, RaceInv, NEW c \in Client, Accept(c)
  PROVE  RaceInv'
<1> DEFINE t == call[c].tx
           acct == call[c].acct
<1>1. t \in Tx /\ AcceptInto(t, acct) /\ UNCHANGED chain
  BY DEF Accept, IndexInv, PoolTypes
<1>2. raced' = pool' \cap (raced \cup IF acct # AcctOf(chain) THEN {t} ELSE {})
  BY DEF Accept
<1> HIDE DEF t, acct
<1>3. /\ pool' \subseteq pool \cup {t}
      /\ ValidForRelay(t, acct) \/ pool' \subseteq pool
  BY <1>1, AcceptPool
<1>4. acct = AcctOf(chain) /\ t \in Confirmed(chain) => pool' \subseteq pool
  BY <1>1, <1>3, ConfirmedInvalid
<1> QED
  BY <1>1, <1>2, <1>3, <1>4 DEF RaceInv

\* submit_block offers a detached transaction back against the new accounts.
LEMMA ResurrectRace ==
  ASSUME IndexInv, RaceInv, Resurrect
  PROVE  RaceInv'
<1> DEFINE t == Head(detached)
<1>1. /\ t \in Tx \cup {NoTx}
      /\ IF t # NoTx THEN AcceptInto(t, AcctOf(chain)) ELSE UNCHANGED mempool
      /\ raced' = raced \cap pool' /\ UNCHANGED chain
  BY DEF Resurrect, IndexInv, PoolTypes
<1> HIDE DEF t
<1>2. CASE t # NoTx
  <2>1. /\ t \in Tx /\ pool' \subseteq pool \cup {t}
        /\ ValidForRelay(t, AcctOf(chain)) \/ pool' \subseteq pool
    BY <1>1, <1>2, AcceptPool
  <2>2. t \in Confirmed(chain) => pool' \subseteq pool
    BY <2>1, ConfirmedInvalid
  <2> QED
    BY <1>1, <2>1, <2>2 DEF RaceInv
<1>3. CASE t = NoTx
  BY <1>1, <1>3 DEF RaceInv, mempool
<1> QED
  BY <1>2, <1>3

\* The genesis chain confirms nothing.
LEMMA InitRace == Init => RaceInv
<1> SUFFICES ASSUME Init PROVE RaceInv
  OBVIOUS
<1>1. /\ pool = {} /\ chain = <<[tx |-> NoTx, acct |-> Genesis]>>
  BY DEF Init
<1>2. \A j \in DOMAIN chain : chain[j].tx = NoTx
  BY <1>1
<1> QED
  BY <1>1, <1>2 DEF RaceInv, SpentIn

\* Every step leaves the race the only way for a confirmed transaction.
LEMMA NextRace == IndexInv /\ RaceInv /\ [Next]_vars => RaceInv'
<1> SUFFICES ASSUME IndexInv, RaceInv, [Next]_vars PROVE RaceInv'
  OBVIOUS
<1>1. CASE \/ \E c \in Client, t \in Tx : CloneState(c, t)
           \/ Tick \/ UNCHANGED vars
  <2>1. UNCHANGED <<pool, chain, raced>>
    BY <1>1 DEF CloneState, Tick, vars, mempool
  <2> QED
    BY <2>1 DEF RaceInv
<1>2. CASE \E c \in Client : Accept(c)
  BY <1>2, AcceptRace
<1>3. CASE \E t \in Tx \cup {NoTx} : Extend(t)
  BY <1>3, ExtendRace
<1>4. CASE \E k \in 1..MaxBlocks, t \in Tx \cup {NoTx}, u \in Tx \cup {NoTx} :
             k \in DOMAIN chain /\ Reorganize(k, t, u)
  BY <1>4, ReorganizeRace
<1>5. CASE Resurrect
  BY <1>5, ResurrectRace
<1> QED
  BY <1>1, <1>2, <1>3, <1>4, <1>5 DEF Next

\* submit_transaction and submit_block: the pool holds a confirmed transaction
\* only if a client validated it on accounts older than the chain's, for any
\* clients, blocks and reorganizations.
THEOREM OnlyRacesPool == Spec => []ConfirmedPooledOnlyByRace
<1>1. RaceInv => ConfirmedPooledOnlyByRace
  BY DEF RaceInv, ConfirmedPooledOnlyByRace
<1> QED
  BY <1>1, IndexInvAlways, InitRace, NextRace, PTL DEF Spec

-----------------------------------------------------------------------------
(* The orders of the entries.                                              *)

\* A set of numbers that is not empty has a least one.
LEMMA LeastNumber ==
  ASSUME NEW T \in SUBSET Nat, T # {}
  PROVE  \E k \in T : \A j \in T : k <= j
<1>1. PICK k \in T : \A j \in T : ~(j < k)
  <2>1. IsWellFoundedOn(OpToRel(<, Nat), Nat)
    BY NatLessThanWellFounded, Zenon
  <2>2. \E k \in T : \A j \in T : ~(<<j, k>> \in OpToRel(<, Nat))
    BY <2>1, WFMin
  <2> QED
    BY <2>2 DEF OpToRel
<1> QED
  BY <1>1

\* A strict order on a finite set has an element that nothing beats.
LEMMA Unbeaten ==
  ASSUME NEW S, S # {}, IsFiniteSet(S), NEW Beaters \in [S -> SUBSET S],
         \A t \in S : t \notin Beaters[t],
         \A t, u \in S : u \in Beaters[t] => Beaters[u] \subseteq Beaters[t]
  PROVE  \E t \in S : Beaters[t] = {}
<1> DEFINE many == [t \in S |-> Cardinality(Beaters[t])]
           counts == {many[t] : t \in S}
<1>1. \A t \in S : IsFiniteSet(Beaters[t]) /\ many[t] \in Nat
  BY FS_Subset, FS_CardinalityType
<1>2. counts \in SUBSET Nat /\ counts # {}
  BY <1>1
<1>3. PICK k \in counts : \A j \in counts : k <= j
  <2> HIDE DEF counts
  <2> QED
    BY <1>2, LeastNumber
<1>4. PICK t \in S : k = many[t]
  OBVIOUS
<1>5. Beaters[t] = {}
  <2> SUFFICES ASSUME NEW u \in Beaters[t] PROVE FALSE
    OBVIOUS
  <2>1. u \in S /\ Beaters[u] \subseteq Beaters[t] /\ Beaters[u] # Beaters[t]
    OBVIOUS
  <2>2. many[u] < many[t]
    <3>1. Cardinality(Beaters[u]) < Cardinality(Beaters[t])
      <4>1. /\ Cardinality(Beaters[u]) <= Cardinality(Beaters[t])
            /\ Cardinality(Beaters[u]) # Cardinality(Beaters[t])
        BY <1>1, <2>1, FS_Subset
      <4>2. Cardinality(Beaters[u]) \in Nat /\ Cardinality(Beaters[t]) \in Nat
        BY <1>1, <2>1, FS_CardinalityType
      <4> QED
        BY <4>1, <4>2
    <3> QED
      BY <2>1, <3>1
  <2>3. many[u] \in counts /\ many[u] \in Nat /\ many[t] \in Nat
    BY <1>1, <2>1
  <2> QED
    BY <1>3, <1>4, <2>2, <2>3, SMTT(30)
<1> QED
  BY <1>5

\* Fee rates compare transitively.
LEMMA RatesCompare ==
  ASSUME NEW f \in Nat, NEW g \in Nat, NEW h \in Nat,
         NEW x \in Nat \ {0}, NEW y \in Nat \ {0}, NEW z \in Nat \ {0},
         f * y >= g * x, g * z >= h * y
  PROVE  /\ f * z >= h * x
         /\ f * z = h * x => f * y = g * x /\ g * z = h * y
<1>1. /\ (f * y) * z >= (g * x) * z /\ (g * z) * x >= (h * y) * x
      /\ (f * y) * z \in Nat /\ (g * x) * z \in Nat
      /\ (g * z) * x \in Nat /\ (h * y) * x \in Nat
  <2> DEFINE a == f * y
             b == g * x
             c == g * z
             d == h * y
  <2>1. a \in Nat /\ b \in Nat /\ c \in Nat /\ d \in Nat /\ a >= b /\ c >= d
    OBVIOUS
  <2> HIDE DEF a, b, c, d
  <2>2. a * z >= b * z /\ c * x >= d * x
    BY <2>1
  <2>3. a * z \in Nat /\ b * z \in Nat /\ c * x \in Nat /\ d * x \in Nat
    BY <2>1
  <2> QED
    BY <2>2, <2>3 DEF a, b, c, d
<1>2. /\ (f * y) * z = y * (f * z) /\ (h * y) * x = y * (h * x)
      /\ (g * x) * z = (g * z) * x
  OBVIOUS
<1> DEFINE p == f * z
           q == h * x
<1>3. p \in Nat /\ q \in Nat /\ y * p >= y * q
  BY <1>1, <1>2
<1>4. p >= q
  <2> HIDE DEF p, q
  <2> SUFFICES ASSUME p + 1 <= q PROVE FALSE
    BY <1>3
  <2>1. y * (p + 1) <= y * q
    BY <1>3
  <2>2. y * (p + 1) = y * p + y /\ y * p \in Nat /\ y * q \in Nat
    BY <1>3
  <2> QED
    BY <1>3, <2>1, <2>2
<1>5. ASSUME p = q PROVE f * y = g * x /\ g * z = h * y
  <2>1. y * p = y * q
    BY <1>5
  <2>2. (f * y) * z = (g * x) * z /\ (g * z) * x = (h * y) * x
    BY <1>1, <1>2, <2>1
  <2> DEFINE a == f * y
             b == g * x
             c == g * z
             d == h * y
  <2>3. /\ a \in Nat /\ b \in Nat /\ c \in Nat /\ d \in Nat /\ a >= b /\ c >= d
        /\ z * a = z * b /\ x * c = x * d
    BY <2>2
  <2> HIDE DEF a, b, c, d
  <2>4. a = b
    <3> SUFFICES ASSUME b + 1 <= a PROVE FALSE
      BY <2>3
    <3>1. z * (b + 1) <= z * a
      BY <2>3
    <3>2. z * (b + 1) = z * b + z /\ z * b \in Nat /\ z * a \in Nat
      BY <2>3
    <3> QED
      BY <2>3, <3>1, <3>2
  <2>5. c = d
    <3> SUFFICES ASSUME d + 1 <= c PROVE FALSE
      BY <2>3
    <3>1. x * (d + 1) <= x * c
      BY <2>3
    <3>2. x * (d + 1) = x * d + x /\ x * d \in Nat /\ x * c \in Nat
      BY <2>3
    <3> QED
      BY <2>3, <3>1, <3>2
  <2> QED
    BY <2>4, <2>5 DEF a, b, c, d
<1> QED
  BY <1>4, <1>5

\* expire_and_trim's order of the entries.
LEMMA RatesOrder ==
  ASSUME NEW t \in Tx, NEW u \in Tx, NEW v \in Tx
  PROVE  /\ LowerRate(t, u) /\ LowerRate(u, v) => LowerRate(t, v)
         /\ ~LowerRate(t, t)
         /\ t # u => LowerRate(t, u) \/ LowerRate(u, t)
<1>1. \A a \in {t, u, v} : a.fee \in Nat /\ a.size \in Nat \ {0} /\ a.id \in Nat
  BY MempoolAssumption
<1>2. t.id = u.id => t = u
  BY MempoolAssumption
<1> DEFINE f == t.fee
           g == u.fee
           h == v.fee
           x == t.size
           y == u.size
           z == v.size
<1>3. /\ f \in Nat /\ g \in Nat /\ h \in Nat
      /\ x \in Nat \ {0} /\ y \in Nat \ {0} /\ z \in Nat \ {0}
  BY <1>1
<1>4. ASSUME LowerRate(t, u), LowerRate(u, v) PROVE LowerRate(t, v)
  <2>1. /\ f * y <= g * x /\ (f * y = g * x => t.id < u.id)
        /\ g * z <= h * y /\ (g * z = h * y => u.id < v.id)
    <3>1. f * y \in Nat /\ g * x \in Nat /\ g * z \in Nat /\ h * y \in Nat
      BY <1>3
    <3> QED
      BY <1>4, <3>1 DEF LowerRate
  <2> HIDE DEF f, g, h, x, y, z
  <2>2. h * y >= g * z /\ g * x >= f * y
    <3>1. f * y \in Nat /\ g * x \in Nat /\ g * z \in Nat /\ h * y \in Nat
      BY <1>3
    <3> QED
      BY <2>1, <3>1
  <2>3. /\ h * x >= f * z
        /\ h * x = f * z => h * y = g * z /\ g * x = f * y
    BY <1>3, <2>2, RatesCompare
  <2>4. f * z \in Nat /\ h * x \in Nat
    BY <1>3
  <2>5. f * z < h * x \/ (f * z = h * x /\ t.id < v.id)
    <3>1. t.id \in Nat /\ u.id \in Nat /\ v.id \in Nat
      BY <1>1
    <3> QED
      BY <2>1, <2>3, <2>4, <3>1
  <2> QED
    BY <2>5 DEF LowerRate, f, h, x, z
<1>5. ~LowerRate(t, t)
  <2>1. f * x \in Nat /\ t.id \in Nat
    BY <1>1, <1>3
  <2> QED
    BY <2>1 DEF LowerRate
<1>6. t # u => LowerRate(t, u) \/ LowerRate(u, t)
  <2>1. f * y \in Nat /\ g * x \in Nat /\ t.id \in Nat /\ u.id \in Nat
    BY <1>1, <1>3
  <2> QED
    BY <1>2, <2>1 DEF LowerRate
<1> QED
  BY <1>4, <1>5, <1>6

\* select's order of the entries: the better rate, then the lower id.
Better(t, u) ==
  \/ t.fee * u.size > u.fee * t.size
  \/ t.fee * u.size = u.fee * t.size /\ t.id < u.id

\* It is a strict order that compares any two entries.
LEMMA BetterOrder ==
  ASSUME NEW t \in Tx, NEW u \in Tx, NEW v \in Tx
  PROVE  /\ Better(t, u) /\ Better(u, v) => Better(t, v)
         /\ ~Better(t, t)
         /\ t # u => Better(t, u) \/ Better(u, t)
<1>1. \A a \in {t, u, v} : a.fee \in Nat /\ a.size \in Nat \ {0} /\ a.id \in Nat
  BY MempoolAssumption
<1>2. t.id = u.id => t = u
  BY MempoolAssumption
<1> DEFINE f == t.fee
           g == u.fee
           h == v.fee
           x == t.size
           y == u.size
           z == v.size
<1>3. /\ f \in Nat /\ g \in Nat /\ h \in Nat
      /\ x \in Nat \ {0} /\ y \in Nat \ {0} /\ z \in Nat \ {0}
  BY <1>1
<1>4. ASSUME Better(t, u), Better(u, v) PROVE Better(t, v)
  <2>1. /\ f * y >= g * x /\ (f * y = g * x => t.id < u.id)
        /\ g * z >= h * y /\ (g * z = h * y => u.id < v.id)
    <3>1. f * y \in Nat /\ g * x \in Nat /\ g * z \in Nat /\ h * y \in Nat
      BY <1>3
    <3> QED
      BY <1>4, <3>1 DEF Better
  <2> HIDE DEF f, g, h, x, y, z
  <2>2. /\ f * z >= h * x
        /\ f * z = h * x => f * y = g * x /\ g * z = h * y
    BY <1>3, <2>1, RatesCompare
  <2>3. f * z \in Nat /\ h * x \in Nat
    BY <1>3
  <2>4. f * z > h * x \/ (f * z = h * x /\ t.id < v.id)
    <3>1. t.id \in Nat /\ u.id \in Nat /\ v.id \in Nat
      BY <1>1
    <3> QED
      BY <2>1, <2>2, <2>3, <3>1
  <2> QED
    BY <2>4 DEF Better, f, h, x, z
<1>5. ~Better(t, t)
  <2>1. f * x \in Nat /\ t.id \in Nat
    BY <1>1, <1>3
  <2> QED
    BY <2>1 DEF Better
<1>6. t # u => Better(t, u) \/ Better(u, t)
  <2>1. f * y \in Nat /\ g * x \in Nat /\ t.id \in Nat /\ u.id \in Nat
    BY <1>1, <1>3
  <2> QED
    BY <1>2, <2>1 DEF Better
<1> QED
  BY <1>4, <1>5, <1>6

\* select always finds its best candidate.
LEMMA BestFound ==
  ASSUME NEW S \in SUBSET Tx, S # {}
  PROVE  Best(S) \in S
<1> DEFINE beaters == [t \in S |-> {u \in S : Better(u, t)}]
<1>1. IsFiniteSet(S)
  BY MempoolAssumption, FS_Subset
<1>2. beaters \in [S -> SUBSET S]
  OBVIOUS
<1>3. \A t \in S : t \notin beaters[t]
  BY BetterOrder
<1>4. \A t, u \in S : u \in beaters[t] => beaters[u] \subseteq beaters[t]
  <2> SUFFICES ASSUME NEW t \in S, NEW u \in S, Better(u, t),
                      NEW v \in S, Better(v, u)
               PROVE  Better(v, t)
    OBVIOUS
  <2> QED
    BY BetterOrder
<1>5. PICK t \in S : beaters[t] = {}
  <2> HIDE DEF beaters
  <2> QED
    BY <1>1, <1>2, <1>3, <1>4, Unbeaten
<1>6. \A u \in S \ {t} : Better(t, u)
  BY <1>5, BetterOrder
<1>7. \E b \in S : \A u \in S \ {b} :
        \/ b.fee * u.size > u.fee * b.size
        \/ b.fee * u.size = u.fee * b.size /\ b.id < u.id
  BY <1>6 DEF Better
<1> QED
  BY <1>7 DEF Best

-----------------------------------------------------------------------------
(* The selection for a block.                                              *)

\* One round of select's loop.
Round(s) ==
  LET e == Eligible(s.acct, Range(s.txs))
  IN  IF e = {} THEN s
      ELSE [txs |-> Append(s.txs, Best(e)), acct |-> After(Best(e), s.acct)]

\* What select starts with.
Start(acct) == [txs |-> <<>>, acct |-> acct]

\* g is the loop of select, and r the application of txs, as equations.
IsLoop(g, acct, m) ==
  g = [n \in 0..m |-> IF n = 0 THEN Start(acct) ELSE Round(g[n - 1])]
IsRun(r, txs, acct) ==
  r = [i \in 0..Len(txs) |->
        IF i = 0 THEN [ok |-> TRUE, acct |-> acct]
        ELSE [ok |-> r[i - 1].ok /\ Minable(txs[i], r[i - 1].acct),
              acct |-> IF r[i - 1].ok THEN After(txs[i], r[i - 1].acct)
                                      ELSE acct]]

\* Their solutions.
Loop(acct, m) == CHOOSE g : IsLoop(g, acct, m)
Run(txs, acct) == CHOOSE r : IsRun(r, txs, acct)

\* select returns what the last round left.
LEMMA SelectIsLoop ==
  ASSUME NEW acct, NEW m
  PROVE  Select(acct, m) = Loop(acct, m)[m].txs
BY DEF Select, Loop, IsLoop, Start, Round

\* A body can be applied when the last of its transactions can.
LEMMA ApplicableIsRun ==
  ASSUME NEW acct, NEW txs
  PROVE  Applicable(txs, acct) = Run(txs, acct)[Len(txs)].ok
BY DEF Applicable, Run, IsRun

\* The equations of the loop have a solution: one can be extended by a round.
LEMMA LoopDef ==
  ASSUME NEW acct, NEW m \in Nat
  PROVE  IsLoop(Loop(acct, m), acct, m)
<1> DEFINE Bad == {n \in Nat : ~\E g : IsLoop(g, acct, n)}
<1>1. Bad = {}
  <2> SUFFICES ASSUME Bad # {} PROVE FALSE
    OBVIOUS
  <2>1. PICK n \in Bad : \A j \in Bad : n <= j
    <3>1. Bad \in SUBSET Nat
      OBVIOUS
    <3> HIDE DEF Bad
    <3> QED
      BY <3>1, LeastNumber
  <2>2. n \in Nat /\ ~\E g : IsLoop(g, acct, n)
    OBVIOUS
  <2>3. CASE n = 0
    <3> DEFINE g == [k \in 0..0 |-> Start(acct)]
    <3>1. IsLoop(g, acct, 0)
      <4>1. \A k \in 0..0 : k = 0
        OBVIOUS
      <4>2. g = [k \in 0..0 |-> IF k = 0 THEN Start(acct) ELSE Round(g[k - 1])]
        BY <4>1
      <4> QED
        BY <4>2 DEF IsLoop
    <3> QED
      BY <2>2, <2>3, <3>1
  <2>4. CASE n # 0
    <3>1. n - 1 \in Nat /\ n - 1 \notin Bad
      <4>1. n - 1 \in Nat /\ ~(n <= n - 1)
        BY <2>2, <2>4
      <4> HIDE DEF Bad
      <4> QED
        BY <2>1, <4>1
    <3>2. PICK g : IsLoop(g, acct, n - 1)
      BY <3>1
    <3> DEFINE h == [k \in 0..n |-> IF k = n THEN Round(g[n - 1]) ELSE g[k]]
    <3>3. ASSUME NEW k \in 0..n
          PROVE  h[k] = IF k = 0 THEN Start(acct) ELSE Round(h[k - 1])
      <4>1. CASE k = n
        <5>1. n - 1 \in 0..n /\ n - 1 # n
          BY <2>2, <3>1
        <5>2. h[n - 1] = g[n - 1]
          BY <5>1
        <5>3. h[n] = Round(g[n - 1])
          BY <2>2
        <5> HIDE DEF h
        <5> QED
          BY <2>4, <4>1, <5>2, <5>3
      <4>2. CASE k # n /\ k # 0
        <5>1. k \in 0..(n - 1) /\ k - 1 \in 0..n /\ k - 1 # n
          BY <2>2, <4>2
        <5>2. g[k] = Round(g[k - 1])
          BY <3>2, <4>2, <5>1 DEF IsLoop
        <5>3. h[k] = g[k] /\ h[k - 1] = g[k - 1]
          BY <4>2, <5>1
        <5> HIDE DEF h
        <5> QED
          BY <4>2, <5>2, <5>3
      <4>3. CASE k # n /\ k = 0
        <5>1. k \in 0..(n - 1)
          BY <2>2, <4>3
        <5>2. g[k] = Start(acct)
          BY <3>2, <4>3, <5>1 DEF IsLoop
        <5> QED
          BY <4>3, <5>2
      <4> QED
        BY <4>1, <4>2, <4>3
    <3>4. h = [k \in 0..n |-> IF k = 0 THEN Start(acct) ELSE Round(h[k - 1])]
      <4>1. h = [k \in 0..n |-> h[k]]
        OBVIOUS
      <4> HIDE DEF h
      <4> QED
        BY <3>3, <4>1
    <3>5. IsLoop(h, acct, n)
      BY <3>4 DEF IsLoop
    <3> QED
      BY <2>2, <3>5
  <2> QED
    BY <2>3, <2>4
<1>2. \E g : IsLoop(g, acct, m)
  BY <1>1
<1> QED
  BY <1>2 DEF Loop

\* So can those of the application of a body.
LEMMA RunDef ==
  ASSUME NEW acct, NEW S, NEW txs \in Seq(S)
  PROVE  IsRun(Run(txs, acct), txs, acct)
<1> DEFINE Next1(r, i) ==
             [ok |-> r[i - 1].ok /\ Minable(txs[i], r[i - 1].acct),
              acct |-> IF r[i - 1].ok THEN After(txs[i], r[i - 1].acct)
                                      ELSE acct]
           first == [ok |-> TRUE, acct |-> acct]
           Fits(r, n) == r = [i \in 0..n |-> IF i = 0 THEN first ELSE Next1(r, i)]
           Bad == {n \in Nat : ~\E g : Fits(g, n)}
<1>e. ASSUME NEW g, NEW h, NEW k, g[k - 1] = h[k - 1]
      PROVE  Next1(g, k) = Next1(h, k)
  BY <1>e
<1> HIDE DEF Next1, first
<1>1. Bad = {}
  <2> SUFFICES ASSUME Bad # {} PROVE FALSE
    OBVIOUS
  <2>1. PICK n \in Bad : \A j \in Bad : n <= j
    <3>1. Bad \in SUBSET Nat
      OBVIOUS
    <3> HIDE DEF Bad
    <3> QED
      BY <3>1, LeastNumber
  <2>2. n \in Nat /\ ~\E g : Fits(g, n)
    OBVIOUS
  <2>3. CASE n = 0
    <3> DEFINE g == [k \in 0..0 |-> first]
    <3>1. Fits(g, 0)
      <4>1. \A k \in 0..0 : k = 0
        OBVIOUS
      <4> QED
        BY <4>1
    <3> QED
      BY <2>2, <2>3, <3>1
  <2>4. CASE n # 0
    <3>1. n - 1 \in Nat /\ n - 1 \notin Bad
      <4>1. n - 1 \in Nat /\ ~(n <= n - 1)
        BY <2>2, <2>4
      <4> HIDE DEF Bad
      <4> QED
        BY <2>1, <4>1
    <3>2. PICK g : Fits(g, n - 1)
      BY <3>1
    <3> DEFINE h == [k \in 0..n |-> IF k = n THEN Next1(g, n) ELSE g[k]]
    <3>3. ASSUME NEW k \in 0..n
          PROVE  h[k] = IF k = 0 THEN first ELSE Next1(h, k)
      <4>1. CASE k = n
        <5>1. n - 1 \in 0..n /\ n - 1 # n
          BY <2>2, <3>1
        <5>2. h[n - 1] = g[n - 1]
          BY <5>1
        <5>3. h[n] = Next1(g, n)
          BY <2>2
        <5> HIDE DEF h
        <5>4. Next1(g, n) = Next1(h, n)
          BY <1>e, <5>2
        <5> QED
          BY <2>4, <4>1, <5>3, <5>4
      <4>2. CASE k # n /\ k # 0
        <5>1. k \in 0..(n - 1) /\ k - 1 \in 0..n /\ k - 1 # n
          BY <2>2, <4>2
        <5>2. g[k] = Next1(g, k)
          BY <3>2, <4>2, <5>1
        <5>3. h[k] = g[k] /\ h[k - 1] = g[k - 1]
          BY <4>2, <5>1
        <5> HIDE DEF h
        <5>4. Next1(g, k) = Next1(h, k)
          BY <1>e, <5>3
        <5> QED
          BY <4>2, <5>2, <5>3, <5>4
      <4>3. CASE k # n /\ k = 0
        <5>1. k \in 0..(n - 1)
          BY <2>2, <4>3
        <5>2. g[k] = first
          BY <3>2, <4>3, <5>1
        <5> QED
          BY <4>3, <5>2
      <4> QED
        BY <4>1, <4>2, <4>3
    <3>4. Fits(h, n)
      <4>1. h = [k \in 0..n |-> h[k]]
        OBVIOUS
      <4> HIDE DEF h
      <4> QED
        BY <3>3, <4>1
    <3> QED
      BY <2>2, <3>4
  <2> QED
    BY <2>3, <2>4
<1>2. \E r : Fits(r, Len(txs))
  <2>1. Len(txs) \in Nat
    OBVIOUS
  <2> HIDE DEF Fits
  <2> QED
    BY <1>1, <2>1
<1>3. \E r : IsRun(r, txs, acct)
  BY <1>2 DEF IsRun, Next1, first
<1> QED
  BY <1>3 DEF Run

\* Induction up to a bound, with the set of the good numbers.
LEMMA Climb ==
  ASSUME NEW m \in Nat, NEW Good, 0 \in Good,
         \A n \in 0..m : n + 1 <= m /\ n \in Good => n + 1 \in Good
  PROVE  \A n \in 0..m : n \in Good
<1> DEFINE Bad == {n \in Nat : n <= m /\ n \notin Good}
<1> SUFFICES ASSUME Bad # {} PROVE FALSE
  OBVIOUS
<1>1. PICK n \in Bad : \A j \in Bad : n <= j
  <2>1. Bad \in SUBSET Nat
    OBVIOUS
  <2> HIDE DEF Bad
  <2> QED
    BY <2>1, LeastNumber
<1>2. n \in Nat /\ n <= m /\ n \notin Good /\ n # 0
  OBVIOUS
<1>3. n - 1 \in Nat /\ n - 1 \in 0..m /\ ~(n <= n - 1) /\ (n - 1) + 1 = n
  BY <1>2
<1>4. n - 1 \in Good
  BY <1>1, <1>2, <1>3
<1> QED
  BY <1>2, <1>3, <1>4

\* Everything in the pool passed the checks that do not depend on the accounts.
PoolValid == \A t \in pool : t.signed /\ t.amount >= 1 /\ t.sender # t.recipient

\* A choice, and the accounts it leads to.
Chosen == [txs : Seq(Tx), acct : Accounts]

\* A round leaves the choice alone or extends it by a transaction that the
\* accounts it leads to admit.
LEMMA RoundSound ==
  ASSUME pool \subseteq Tx, PoolValid, NEW s \in Chosen
  PROVE  /\ Round(s) \in Chosen
         /\ \/ Round(s) = s
            \/ \E t \in Tx : /\ Minable(t, s.acct)
                             /\ Round(s) = [txs |-> Append(s.txs, t),
                                            acct |-> After(t, s.acct)]
<1> DEFINE e == Eligible(s.acct, Range(s.txs))
<1>1. CASE e = {}
  BY <1>1 DEF Round
<1>2. CASE e # {}
  <2>1. e \subseteq pool /\ e \in SUBSET Tx
    BY DEF Eligible
  <2>2. Best(e) \in e
    <3> HIDE DEF e
    <3> QED
      BY <1>2, <2>1, BestFound
  <2> DEFINE t == Best(e)
  <2>3. /\ t.nonce = s.acct[t.sender].nonce
        /\ t.amount + t.fee <= s.acct[t.sender].balance
    BY <2>2, Zenon DEF Eligible
  <2>4. Round(s) = [txs |-> Append(s.txs, t), acct |-> After(t, s.acct)]
    BY <1>2 DEF Round
  <2>5. t \in Tx /\ t \in pool
    BY <2>1, <2>2
  <2> HIDE DEF t, e
  <2>6. Minable(t, s.acct)
    BY <2>3, <2>5, TxTypes, Zenon DEF Minable, PoolValid
  <2>7. After(t, s.acct) \in Accounts
    <3>1. s.acct \in Accounts
      BY DEF Chosen
    <3> QED
      BY <2>5, <2>6, <3>1, AfterTypes
  <2>8. Append(s.txs, t) \in Seq(Tx)
    BY <2>5, AppendProperties DEF Chosen
  <2>9. Round(s) \in Chosen
    BY <2>4, <2>7, <2>8 DEF Chosen
  <2> QED
    BY <2>4, <2>5, <2>6, <2>9, Zenon
<1> QED
  BY <1>1, <1>2

\* The loop goes round by round.
LEMMA LoopSteps ==
  ASSUME pool \subseteq Tx, PoolValid, NEW acct \in Accounts, NEW m \in Nat
  PROVE  /\ Loop(acct, m)[0] = Start(acct)
         /\ \A n \in 0..m : Loop(acct, m)[n] \in Chosen
         /\ \A n \in 0..m : n + 1 <= m =>
              Loop(acct, m)[n + 1] = Round(Loop(acct, m)[n])
<1> DEFINE g == Loop(acct, m)
           Good == {n \in Nat : g[n] \in Chosen}
<1>1. g = [n \in 0..m |-> IF n = 0 THEN Start(acct) ELSE Round(g[n - 1])]
  BY LoopDef DEF IsLoop
<1> HIDE DEF g
<1>2. g[0] = Start(acct)
  <2>1. 0 \in 0..m
    OBVIOUS
  <2> QED
    BY <1>1, <2>1
<1>3. ASSUME NEW n \in 0..m, n + 1 <= m PROVE g[n + 1] = Round(g[n])
  <2>1. n + 1 \in 0..m /\ n + 1 # 0 /\ (n + 1) - 1 = n
    BY <1>3
  <2> QED
    BY <1>1, <2>1
<1>4. \A n \in 0..m : n \in Good
  <2>1. 0 \in Good
    <3>1. <<>> \in Seq(Tx)
      OBVIOUS
    <3>2. Start(acct) \in Chosen
      BY <3>1 DEF Start, Chosen
    <3> QED
      BY <1>2, <3>2
  <2>2. \A n \in 0..m : n + 1 <= m /\ n \in Good => n + 1 \in Good
    BY <1>3, RoundSound
  <2> HIDE DEF Good
  <2> QED
    BY <2>1, <2>2, Climb
<1> QED
  BY <1>2, <1>3, <1>4 DEF g

\* t begins with s.
IsPrefixOf(s, t) ==
  Len(s) <= Len(t) /\ \A i \in 1..Len(s) : t[i] = s[i]

\* What extends a prefix by one entry has that entry next.
LEMMA PrefixAppend ==
  ASSUME NEW s \in Seq(Tx), NEW t \in Seq(Tx), NEW x \in Tx,
         IsPrefixOf(Append(s, x), t)
  PROVE  IsPrefixOf(s, t) /\ Len(s) + 1 \in 1..Len(t) /\ t[Len(s) + 1] = x
<1> DEFINE r == Append(s, x)
<1>1. /\ Len(r) = Len(s) + 1 /\ r[Len(s) + 1] = x /\ Len(s) \in Nat /\ Len(t) \in Nat
      /\ \A i \in 1..Len(s) : r[i] = s[i]
  BY AppendProperties, SMTT(20)
<1> HIDE DEF r
<1>2. Len(r) <= Len(t) /\ \A i \in 1..Len(r) : t[i] = r[i]
  BY DEF IsPrefixOf, r
<1>3. Len(s) + 1 \in 1..Len(r) /\ \A i \in 1..Len(s) : i \in 1..Len(r)
  <2> DEFINE a == Len(s)
             b == Len(r)
  <2>1. a \in Nat /\ b = a + 1
    BY <1>1
  <2> HIDE DEF a, b
  <2>2. a + 1 \in 1..b /\ \A i \in 1..a : i \in 1..b
    BY <2>1
  <2> QED
    BY <2>2 DEF a, b
<1>4. Len(s) <= Len(t) /\ Len(s) + 1 \in 1..Len(t)
  <2> DEFINE a == Len(s)
             b == Len(t)
  <2>1. a \in Nat /\ b \in Nat /\ a + 1 <= b
    BY <1>1, <1>2
  <2> HIDE DEF a, b
  <2>2. a <= b /\ a + 1 \in 1..b
    BY <2>1
  <2> QED
    BY <2>2 DEF a, b
<1>5. t[Len(s) + 1] = x
  <2>1. t[Len(s) + 1] = r[Len(s) + 1]
    BY <1>2, <1>3
  <2> QED
    BY <1>1, <2>1
<1>6. ASSUME NEW i \in 1..Len(s) PROVE t[i] = s[i]
  <2>1. t[i] = r[i] /\ r[i] = s[i]
    BY <1>1, <1>2, <1>3
  <2> QED
    BY <2>1
<1>7. IsPrefixOf(s, t)
  BY <1>4, <1>6 DEF IsPrefixOf
<1> QED
  BY <1>4, <1>5, <1>7

\* Each round keeps what the rounds before it chose.
LEMMA LoopPrefix ==
  ASSUME pool \subseteq Tx, PoolValid, NEW acct \in Accounts, NEW m \in Nat,
         NEW n \in 0..m
  PROVE  IsPrefixOf(Loop(acct, m)[n].txs, Loop(acct, m)[m].txs)
<1> DEFINE g == Loop(acct, m)
           Good == {k \in Int : IsPrefixOf(g[m - k].txs, g[m].txs)}
<1>1. /\ \A k \in 0..m : g[k] \in Chosen
      /\ \A k \in 0..m : k + 1 <= m => g[k + 1] = Round(g[k])
  BY LoopSteps
<1> HIDE DEF g
<1>2. \A k \in 0..m : k \in Good
  <2>1. 0 \in Good
    <3>1. m - 0 = m /\ m \in 0..m
      OBVIOUS
    <3>2. g[m].txs \in Seq(Tx)
      BY <1>1, <3>1 DEF Chosen
    <3>3. Len(g[m].txs) <= Len(g[m].txs)
      BY <3>2
    <3> QED
      BY <3>1, <3>3 DEF IsPrefixOf
  <2>2. ASSUME NEW k \in 0..m, k + 1 <= m, k \in Good PROVE k + 1 \in Good
    <3> DEFINE j == m - (k + 1)
    <3>1. j \in 0..m /\ j + 1 <= m /\ j + 1 = m - k /\ k + 1 \in Int /\ m \in 0..m
      BY <2>2
    <3>2. IsPrefixOf(g[j + 1].txs, g[m].txs) /\ g[j + 1] = Round(g[j])
      BY <1>1, <2>2, <3>1
    <3> HIDE DEF j
    <3>3. g[j] \in Chosen /\ g[m] \in Chosen
      BY <1>1, <3>1
    <3>4. IsPrefixOf(g[j].txs, g[m].txs)
      <4>1. CASE Round(g[j]) = g[j]
        BY <3>2, <4>1
      <4>2. CASE Round(g[j]) # g[j]
        <5>1. PICK t \in Tx : Round(g[j]) = [txs |-> Append(g[j].txs, t),
                                             acct |-> After(t, g[j].acct)]
          BY <3>3, <4>2, RoundSound
        <5>2. IsPrefixOf(Append(g[j].txs, t), g[m].txs)
          BY <3>2, <5>1
        <5>3. g[j].txs \in Seq(Tx) /\ g[m].txs \in Seq(Tx)
          BY <3>3 DEF Chosen
        <5> QED
          BY <5>2, <5>3, PrefixAppend
      <4> QED
        BY <4>1, <4>2
    <3> QED
      BY <3>1, <3>4 DEF j
  <2> HIDE DEF Good
  <2> QED
    BY <2>1, <2>2, Climb
<1>3. m - n \in 0..m /\ m - (m - n) = n
  OBVIOUS
<1>4. m - n \in Good
  BY <1>2, <1>3
<1> QED
  BY <1>3, <1>4 DEF g

\* Choice s stands for the first transactions of txs, and run r applies them.
Follows(r, s, txs) ==
  /\ IsPrefixOf(s.txs, txs)
  /\ r[Len(s.txs)] = [ok |-> TRUE, acct |-> s.acct]

\* A round goes with one more application.
LEMMA RoundFollows ==
  ASSUME NEW r, NEW acct, NEW txs \in Seq(Tx), IsRun(r, txs, acct),
         NEW s \in Chosen, Follows(r, s, txs),
         NEW t \in Tx, Minable(t, s.acct),
         NEW u, u = [txs |-> Append(s.txs, t), acct |-> After(t, s.acct)],
         IsPrefixOf(u.txs, txs)
  PROVE  Follows(r, u, txs)
<1> DEFINE body == s.txs
           k    == Len(body)
           all  == Len(txs)
           now1 == s.acct
           next == After(t, s.acct)
<1>1. body \in Seq(Tx) /\ u.txs = Append(body, t) /\ u.acct = next
  BY DEF Chosen
<1>2. r[k] = [ok |-> TRUE, acct |-> now1]
  BY DEF Follows
<1> HIDE DEF body
<1>3. k \in Nat /\ all \in Nat /\ Len(u.txs) = k + 1
  <2>1. Len(Append(body, t)) = Len(body) + 1 /\ Len(body) \in Nat
    BY <1>1, AppendProperties
  <2>2. Len(txs) \in Nat
    OBVIOUS
  <2> QED
    BY <1>1, <2>1, <2>2, Zenon
<1>4. k + 1 \in 1..all /\ txs[k + 1] = t
  <2>1. IsPrefixOf(Append(body, t), txs)
    BY <1>1
  <2> QED
    BY <1>1, <2>1, PrefixAppend
<1>5. Minable(t, now1) /\ next = After(t, now1)
  OBVIOUS
<1>6. r = [i \in 0..all |->
            IF i = 0 THEN [ok |-> TRUE, acct |-> acct]
            ELSE [ok |-> r[i - 1].ok /\ Minable(txs[i], r[i - 1].acct),
                  acct |-> IF r[i - 1].ok THEN After(txs[i], r[i - 1].acct)
                                          ELSE acct]]
  BY DEF IsRun
<1> HIDE DEF k, all, now1, next
<1>7. k + 1 \in 0..all /\ k + 1 # 0 /\ (k + 1) - 1 = k
  BY <1>3, <1>4
<1>8. r[k + 1] = [ok |-> r[k].ok /\ Minable(txs[k + 1], r[k].acct),
                  acct |-> IF r[k].ok THEN After(txs[k + 1], r[k].acct)
                                      ELSE acct]
  BY <1>6, <1>7
<1>9. r[k + 1] = [ok |-> TRUE, acct |-> next]
  <2> DEFINE done == r[k]
  <2>1. done.ok = TRUE /\ done.acct = now1
    BY <1>2
  <2>2. r[k + 1] = [ok |-> done.ok /\ Minable(t, done.acct),
                    acct |-> IF done.ok THEN After(t, done.acct) ELSE acct]
    BY <1>4, <1>8
  <2> HIDE DEF done
  <2> QED
    BY <1>5, <2>1, <2>2
<1> QED
  BY <1>1, <1>3, <1>9 DEF Follows

\* What select chooses can be applied, one transaction after the other.
LEMMA SelectionApplies ==
  ASSUME pool \subseteq Tx, PoolValid, NEW acct \in Accounts, NEW m \in Nat
  PROVE  Applicable(Select(acct, m), acct)
<1> DEFINE g == Loop(acct, m)
           txs == g[m].txs
           r == Run(txs, acct)
           Good == {n \in Nat : Follows(r, g[n], txs)}
<1>1. /\ g[0] = Start(acct)
      /\ \A n \in 0..m : g[n] \in Chosen
      /\ \A n \in 0..m : n + 1 <= m => g[n + 1] = Round(g[n])
      /\ \A n \in 0..m : IsPrefixOf(g[n].txs, txs)
  BY LoopSteps, LoopPrefix
<1> HIDE DEF g
<1>2. txs \in Seq(Tx) /\ m \in 0..m
  BY <1>1 DEF Chosen
<1> HIDE DEF txs
<1>3. IsRun(r, txs, acct)
  BY <1>2, RunDef
<1> HIDE DEF r
<1>4. \A n \in 0..m : n \in Good
  <2>1. 0 \in Good
    <3>1. 0 \in 0..Len(txs) /\ Len(txs) \in Nat
      BY <1>2
    <3>2. r[0] = [ok |-> TRUE, acct |-> acct]
      BY <1>3, <3>1 DEF IsRun
    <3> DEFINE s == g[0]
    <3>3. s.txs = <<>> /\ s.acct = acct
      BY <1>1 DEF Start
    <3> HIDE DEF s
    <3>4. Len(s.txs) = 0
      BY <3>3
    <3>5. IsPrefixOf(s.txs, txs)
      BY <3>1, <3>4 DEF IsPrefixOf
    <3>6. Follows(r, s, txs)
      BY <3>2, <3>3, <3>4, <3>5 DEF Follows
    <3> QED
      BY <3>6 DEF s
  <2>2. ASSUME NEW n \in 0..m, n + 1 <= m, n \in Good PROVE n + 1 \in Good
    <3> DEFINE s == g[n]
               u == g[n + 1]
    <3>1. /\ s \in Chosen /\ u = Round(s) /\ IsPrefixOf(u.txs, txs)
          /\ Follows(r, s, txs) /\ n + 1 \in Nat
      <4>1. n + 1 \in 0..m
        BY <2>2
      <4> QED
        BY <1>1, <2>2, <4>1
    <3> HIDE DEF s, u
    <3>2. Follows(r, u, txs)
      <4>1. CASE Round(s) = s
        BY <3>1, <4>1
      <4>2. CASE Round(s) # s
        <5>1. PICK t \in Tx : /\ Minable(t, s.acct)
                              /\ Round(s) = [txs |-> Append(s.txs, t),
                                             acct |-> After(t, s.acct)]
          BY <3>1, <4>2, RoundSound
        <5>2. u = [txs |-> Append(s.txs, t), acct |-> After(t, s.acct)]
          BY <3>1, <5>1
        <5> QED
          BY <1>2, <1>3, <3>1, <5>1, <5>2, RoundFollows
      <4> QED
        BY <4>1, <4>2
    <3> QED
      BY <3>1, <3>2 DEF u
  <2> HIDE DEF Good
  <2> QED
    BY <2>1, <2>2, Climb
<1>5. r[Len(txs)] = [ok |-> TRUE, acct |-> g[m].acct]
  <2>1. Follows(r, g[m], txs)
    BY <1>2, <1>4
  <2> QED
    BY <2>1 DEF Follows, txs
<1>6. r[Len(txs)].ok
  BY <1>5
<1>7. Select(acct, m) = txs
  BY SelectIsLoop DEF txs, g
<1> QED
  BY <1>6, <1>7, ApplicableIsRun DEF r

\* Entries pass validate_for_relay when they come in, and only accept adds any.
LEMMA NextValid == IndexInv /\ PoolValid /\ [Next]_vars => PoolValid'
<1> SUFFICES ASSUME IndexInv, PoolValid, [Next]_vars PROVE PoolValid'
  OBVIOUS
<1>1. CASE \/ \E c \in Client, t \in Tx : CloneState(c, t)
           \/ Tick \/ UNCHANGED vars
  <2>1. UNCHANGED pool
    BY <1>1 DEF CloneState, Tick, vars, mempool
  <2> QED
    BY <2>1 DEF PoolValid
<1>2. ASSUME NEW t \in Tx, NEW acct, AcceptInto(t, acct) PROVE PoolValid'
  <2>1. /\ pool' \subseteq pool \cup {t}
        /\ ValidForRelay(t, acct) \/ pool' \subseteq pool
    BY <1>2, AcceptPool
  <2> QED
    BY <2>1 DEF PoolValid, ValidForRelay
<1>3. CASE \E c \in Client : Accept(c)
  BY <1>2, <1>3 DEF Accept, IndexInv, PoolTypes
<1>4. ASSUME NEW k, NEW new, Connect(k, new) PROVE PoolValid'
  BY <1>4 DEF Connect, RemoveConfirmed, PoolValid
<1>5. CASE \E t \in Tx \cup {NoTx} : Extend(t)
  BY <1>4, <1>5 DEF Extend
<1>6. CASE \E k \in 1..MaxBlocks, t \in Tx \cup {NoTx}, u \in Tx \cup {NoTx} :
             k \in DOMAIN chain /\ Reorganize(k, t, u)
  BY <1>4, <1>6 DEF Reorganize
<1>7. CASE Resurrect
  <2>1. CASE Head(detached) # NoTx
    <3>1. Head(detached) \in Tx
      BY <1>7, <2>1 DEF Resurrect, IndexInv, PoolTypes
    <3> QED
      BY <1>2, <1>7, <2>1, <3>1 DEF Resurrect
  <2>2. CASE Head(detached) = NoTx
    BY <1>7, <2>2 DEF Resurrect, mempool, PoolValid
  <2> QED
    BY <2>1, <2>2
<1> QED
  BY <1>1, <1>2, <1>3, <1>5, <1>6, <1>7 DEF Next

\* Mempool::select: the body it chooses is valid on the accounts of the chain,
\* whatever stale, unfunded or conflicting entries the pool holds.
THEOREM SelectionsValid == Spec => []SelectionValid
<1>1. Init => PoolValid
  BY DEF Init, PoolValid
<1>2. IndexInv /\ PoolValid => SelectionValid
  <2> SUFFICES ASSUME IndexInv, PoolValid PROVE SelectionValid
    OBVIOUS
  <2>1. pool \subseteq Tx /\ chain \in Seq(Entry) /\ Len(chain) >= 1
    BY DEF IndexInv, PoolTypes
  <2>2. AcctOf(chain) \in Accounts
    <3>1. Len(chain) \in 1..Len(chain)
      BY <2>1
    <3>2. chain[Len(chain)] \in Entry
      BY <2>1, <3>1, ElementOfSeq
    <3> QED
      BY <3>2 DEF Entry, AcctOf
  <2>3. MaxBlocks \in Nat
    BY MempoolAssumption
  <2> QED
    BY <2>1, <2>2, <2>3, SelectionApplies DEF SelectionValid
<1> QED
  BY <1>1, <1>2, IndexInvAlways, NextValid, PTL DEF Spec

-----------------------------------------------------------------------------
(* Sums over finite sets.                                                  *)

\* The element of a set that SumFunction adds first.
First(s) == CHOOSE x \in s : TRUE

\* The sums over all parts of S.
Partial(f, S) ==
  CHOOSE sum : sum = [s \in SUBSET S |->
    IF s = {} THEN 0 ELSE f[First(s)] + sum[s \ {First(s)}]]

\* SumFunctionOnSet's recursion, as an equation.
Recursion(f, S) ==
  \A s \in SUBSET S : Partial(f, S)[s] =
    IF s = {} THEN 0 ELSE f[First(s)] + Partial(f, S)[s \ {First(s)}]

\* A sum is the last of the sums over the parts of its domain.
LEMMA SumIsPartial ==
  ASSUME NEW f
  PROVE  SumFunction(f) = Partial(f, DOMAIN f)[DOMAIN f]
BY DEF SumFunction, SumFunctionOnSet, FoldFunctionOnSet, MapThenFoldSet,
       Partial, First

\* A family of parts of a finite set that is not empty has a smallest one.
LEMMA SmallestPart ==
  ASSUME NEW S, IsFiniteSet(S), NEW Family \in SUBSET (SUBSET S), Family # {}
  PROVE  \E T \in Family : \A x \in T : T \ {x} \notin Family
<1>1. FiniteSubsetsOf(S) = SUBSET S
  BY FS_FiniteSubsetsOfFinite, Zenon
<1>2. IsWellFoundedOn(StrictSubsetOrdering(S), SUBSET S)
  BY <1>1, FS_StrictSubsetOrderingWellFounded, Zenon
<1>3. PICK T \in Family :
        \A U \in Family : ~(<<U, T>> \in StrictSubsetOrdering(S))
  BY <1>2, WFMin, Zenon
<1>4. ASSUME NEW x \in T, T \ {x} \in Family
      PROVE  FALSE
  <2>1. <<T \ {x}, T>> \in StrictSubsetOrdering(S)
    BY <1>4 DEF StrictSubsetOrdering
  <2> QED
    BY <1>3, <1>4, <2>1
<1> QED
  BY <1>3, <1>4

\* SumFunction's recursion is a definition: its equation has a solution.
LEMMA PartialDef ==
  ASSUME NEW f, NEW S, IsFiniteSet(S)
  PROVE  Recursion(f, S)
<1> DEFINE Small(n) == {s \in SUBSET S : Cardinality(s) <= n}
           Next1(g, s) ==
             IF s = {} THEN 0 ELSE f[First(s)] + g[s \ {First(s)}]
           Fits(g, P) == g = [s \in P |-> Next1(g, s)]
<1>c. \A s \in SUBSET S : /\ IsFiniteSet(s) /\ Cardinality(s) \in Nat
                          /\ s = {} <=> Cardinality(s) = 0
  BY FS_Subset, FS_CardinalityType, FS_EmptySet
<1>d. \A s \in SUBSET S : s # {} =>
        /\ First(s) \in s
        /\ Cardinality(s \ {First(s)}) = Cardinality(s) - 1
  <2> SUFFICES ASSUME NEW s \in SUBSET S, s # {}
               PROVE  /\ First(s) \in s
                      /\ Cardinality(s \ {First(s)}) = Cardinality(s) - 1
    OBVIOUS
  <2>1. First(s) \in s
    BY DEF First
  <2> QED
    BY <1>c, <2>1, FS_RemoveElement
<1>1. \A n \in Nat : \E g : Fits(g, Small(n))
  <2> DEFINE Bad == {n \in Nat : ~\E g : Fits(g, Small(n))}
  <2>1. SUFFICES ASSUME Bad # {} PROVE FALSE
    OBVIOUS
  <2>2. PICK n \in Bad : \A j \in Bad : n <= j
    <3>1. Bad \in SUBSET Nat
      OBVIOUS
    <3> HIDE DEF Bad
    <3> QED
      BY <2>1, <3>1, LeastNumber
  <2>3. CASE n = 0
    <3> DEFINE g == [s \in Small(0) |-> 0]
    <3>1. \A s \in Small(0) : s = {}
      BY <1>c
    <3>2. Fits(g, Small(0))
      <4> HIDE DEF Small
      <4>1. \A s \in Small(0) : g[s] = Next1(g, s)
        BY <3>1
      <4>2. g = [s \in Small(0) |-> g[s]]
        OBVIOUS
      <4> HIDE DEF g
      <4> QED
        BY <4>1, <4>2
    <3> QED
      BY <2>2, <2>3, <3>2
  <2>4. CASE n # 0
    <3>1. n \in Nat /\ n - 1 \in Nat /\ ~(n <= n - 1)
      BY <2>2, <2>4
    <3>2. PICK g : Fits(g, Small(n - 1))
      BY <2>2, <3>1
    <3>3. \A s \in Small(n) : s # {} => s \ {First(s)} \in Small(n - 1)
      BY <1>c, <1>d, <3>1
    <3>5. \A s \in Small(n - 1) : g[s] = Next1(g, s)
      <4> HIDE DEF Small
      <4> QED
        BY <3>2
    <3> DEFINE h == [s \in Small(n) |-> IF s \in Small(n - 1) THEN g[s]
                                        ELSE Next1(g, s)]
    <3>4. Small(n - 1) \subseteq Small(n)
      BY <1>c, <3>1
    <3> HIDE DEF Small
    <3>6. \A s \in Small(n) : h[s] = Next1(g, s)
      BY <3>5
    <3>7. \A s \in Small(n) : s # {} => h[s \ {First(s)}] = g[s \ {First(s)}]
      BY <3>3, <3>4
    <3>8. Fits(h, Small(n))
      <4>1. \A s \in Small(n) : h[s] = Next1(h, s)
        BY <3>6, <3>7
      <4>2. h = [s \in Small(n) |-> h[s]]
        OBVIOUS
      <4> HIDE DEF h
      <4> QED
        BY <4>1, <4>2
    <3> QED
      BY <2>2, <3>8
  <2> QED
    BY <2>3, <2>4
<1>2. Small(Cardinality(S)) = SUBSET S
  BY <1>c, FS_Subset
<1>3. \E g : Fits(g, SUBSET S)
  <2>1. Cardinality(S) \in Nat
    BY FS_CardinalityType
  <2>2. \E g : Fits(g, Small(Cardinality(S)))
    <3> HIDE DEF Fits, Small
    <3> QED
      BY <1>1, <2>1
  <2> QED
    BY <1>2, <2>2
<1>4. Partial(f, S) = CHOOSE g : Fits(g, SUBSET S)
  BY DEF Partial
<1>5. Fits(Partial(f, S), SUBSET S)
  <2> HIDE DEF Fits
  <2> QED
    BY <1>3, <1>4
<1> DEFINE p == Partial(f, S)
<1>6. Fits(p, SUBSET S)
  BY <1>5
<1> HIDE DEF p
<1>7. \A s \in SUBSET S : p[s] = Next1(p, s)
  BY <1>6
<1> QED
  BY <1>7 DEF p, Recursion

\* A part's sum depends on the values of its elements alone.
LEMMA PartialAgree ==
  ASSUME NEW f, NEW g, NEW S, NEW T, IsFiniteSet(S), IsFiniteSet(T),
         NEW U, U \subseteq S, U \subseteq T, \A x \in U : f[x] = g[x]
  PROVE  Partial(f, S)[U] = Partial(g, T)[U]
<1>d. Recursion(f, S) /\ Recursion(g, T)
  BY PartialDef, Zenon
<1> DEFINE p == Partial(f, S)
           q == Partial(g, T)
           Bad == {s \in SUBSET U : p[s] # q[s]}
<1>0. IsFiniteSet(U)
  BY FS_Subset
<1>1. SUFFICES ASSUME Bad # {} PROVE FALSE
  OBVIOUS
<1>2. PICK s \in Bad : \A x \in s : s \ {x} \notin Bad
  <2>1. Bad \in SUBSET (SUBSET U)
    OBVIOUS
  <2> HIDE DEF Bad
  <2> QED
    BY <1>0, <1>1, <2>1, SmallestPart
<1>3. s \in SUBSET U /\ s \in SUBSET S /\ s \in SUBSET T
  BY <1>2
<1>4. /\ p[s] = IF s = {} THEN 0 ELSE f[First(s)] + p[s \ {First(s)}]
      /\ q[s] = IF s = {} THEN 0 ELSE g[First(s)] + q[s \ {First(s)}]
  BY <1>d, <1>3 DEF Recursion
<1>5. s # {}
  BY <1>2, <1>4
<1>6. First(s) \in s
  BY <1>5 DEF First
<1>7. p[s \ {First(s)}] = q[s \ {First(s)}]
  BY <1>2, <1>3, <1>6
<1>8. f[First(s)] = g[First(s)]
  BY <1>3, <1>6
<1> QED
  BY <1>2, <1>4, <1>5, <1>7, <1>8

\* A sum may start with any element.
LEMMA SumRemove ==
  ASSUME NEW D, IsFiniteSet(D), NEW f \in [D -> Int]
  PROVE  /\ SumFunction(f) \in Int
         /\ D = {} => SumFunction(f) = 0
         /\ \A x \in D :
              SumFunction(f) = f[x] + SumFunction([y \in D \ {x} |-> f[y]])
<1>d. Recursion(f, D)
  BY PartialDef, Zenon
<1> DEFINE p == Partial(f, D)
<1>0. \A s \in SUBSET D : p[s] = IF s = {} THEN 0
                                 ELSE f[First(s)] + p[s \ {First(s)}]
  BY <1>d DEF Recursion
<1>2. SumFunction(f) = p[D]
  BY SumIsPartial
<1>3. ASSUME NEW x \in D
      PROVE  SumFunction([y \in D \ {x} |-> f[y]]) = p[D \ {x}]
  <2> DEFINE g == [y \in D \ {x} |-> f[y]]
  <2>1. SumFunction(g) = Partial(g, D \ {x})[D \ {x}]
    <3>1. DOMAIN g = D \ {x}
      OBVIOUS
    <3> HIDE DEF g
    <3> QED
      BY <3>1, SumIsPartial
  <2>2. IsFiniteSet(D \ {x}) /\ \A y \in D \ {x} : g[y] = f[y]
    BY FS_RemoveElement
  <2> HIDE DEF g
  <2>3. Partial(g, D \ {x})[D \ {x}] = p[D \ {x}]
    BY <2>2, PartialAgree
  <2> QED
    BY <2>1, <2>3 DEF g
<1> HIDE DEF p
<1>f. \A s \in SUBSET D : s # {} => First(s) \in s /\ f[First(s)] \in Int
  <2>1. \A s \in SUBSET D : s # {} => First(s) \in s
    BY DEF First
  <2> QED
    BY <2>1
<1>4. \A s \in SUBSET D : p[s] \in Int
  <2> DEFINE Bad == {s \in SUBSET D : p[s] \notin Int}
  <2>1. SUFFICES ASSUME Bad # {} PROVE FALSE
    OBVIOUS
  <2>2. PICK s \in Bad : \A x \in s : s \ {x} \notin Bad
    <3>1. Bad \in SUBSET (SUBSET D)
      OBVIOUS
    <3> HIDE DEF Bad
    <3> QED
      BY <2>1, <3>1, SmallestPart
  <2>3. /\ s \in SUBSET D /\ p[s] \notin Int
        /\ \A x \in s : p[s \ {x}] \in Int
    BY <2>2
  <2>4. p[s] = IF s = {} THEN 0 ELSE f[First(s)] + p[s \ {First(s)}]
    BY <1>0, <2>3
  <2>5. CASE s = {}
    BY <2>3, <2>4, <2>5
  <2>6. CASE s # {}
    <3>1. p[s \ {First(s)}] \in Int /\ f[First(s)] \in Int
      BY <1>f, <2>3, <2>6
    <3> QED
      BY <2>3, <2>4, <2>6, <3>1
  <2> QED
    BY <2>5, <2>6
<1>5. \A s \in SUBSET D : \A x \in s : p[s] = f[x] + p[s \ {x}]
  <2> DEFINE Fine(s) == \A x \in s : p[s] = f[x] + p[s \ {x}]
             Bad == {s \in SUBSET D : ~Fine(s)}
  <2>1. SUFFICES ASSUME Bad # {} PROVE FALSE
    OBVIOUS
  <2>2. PICK s \in Bad : \A x \in s : s \ {x} \notin Bad
    <3>1. Bad \in SUBSET (SUBSET D)
      OBVIOUS
    <3> HIDE DEF Bad
    <3> QED
      BY <2>1, <3>1, SmallestPart
  <2>3. /\ s \in SUBSET D /\ ~Fine(s)
        /\ \A x \in s : Fine(s \ {x})
    BY <2>2
  <2>4. PICK x \in s : p[s] # f[x] + p[s \ {x}]
    BY <2>3
  <2> DEFINE c == First(s)
  <2>5. c \in s /\ p[s] = f[c] + p[s \ {c}] /\ c \in D /\ x \in D
    BY <1>0, <1>f, <2>3
  <2> HIDE DEF c
  <2>6. x # c
    BY <2>4, <2>5
  <2>7. p[s \ {c}] = f[x] + p[(s \ {c}) \ {x}]
    BY <2>3, <2>5, <2>6
  <2>8. p[s \ {x}] = f[c] + p[(s \ {x}) \ {c}]
    BY <2>3, <2>5, <2>6
  <2> DEFINE r == (s \ {c}) \ {x}
  <2>9. r = (s \ {x}) \ {c} /\ r \in SUBSET D
    BY <2>3
  <2>10. p[r] \in Int /\ f[c] \in Int /\ f[x] \in Int
    <3> HIDE DEF r
    <3> QED
      BY <1>4, <2>5, <2>9
  <2>11. p[s] = f[c] + (f[x] + p[r])
    BY <2>5, <2>7
  <2>12. p[s \ {x}] = f[c] + p[r]
    BY <2>8, <2>9
  <2> HIDE DEF r
  <2> QED
    BY <2>4, <2>10, <2>11, <2>12
<1>6. p[D] \in Int /\ (D = {} => p[D] = 0)
      /\ \A x \in D : p[D] = f[x] + p[D \ {x}]
  BY <1>0, <1>4, <1>5
<1> QED
  BY <1>2, <1>3, <1>6

\* The sum over a part of the domain.
SumOn(f, s) == SumFunction([y \in s |-> f[y]])

\* Sums over parts are integers, taken apart one element at a time.
PartsOf(f, D) ==
  /\ SumFunction(f) = SumOn(f, D)
  /\ \A s \in SUBSET D :
       /\ SumOn(f, s) \in Int /\ (s = {} => SumOn(f, s) = 0)
       /\ \A x \in s : SumOn(f, s) = f[x] + SumOn(f, s \ {x})

\* The sums over parts of a domain: the empty part, one more element, and the
\* whole domain.
LEMMA SumParts ==
  ASSUME NEW D, IsFiniteSet(D), NEW f \in [D -> Int]
  PROVE  PartsOf(f, D)
<1>1. ASSUME NEW s \in SUBSET D
      PROVE  /\ SumOn(f, s) \in Int /\ (s = {} => SumOn(f, s) = 0)
             /\ \A x \in s : SumOn(f, s) = f[x] + SumOn(f, s \ {x})
  <2> DEFINE g == [y \in s |-> f[y]]
  <2>1. g \in [s -> Int] /\ IsFiniteSet(s)
    BY FS_Subset
  <2>2. ASSUME NEW x \in s
        PROVE  [y \in s \ {x} |-> g[y]] = [y \in s \ {x} |-> f[y]]
               /\ g[x] = f[x]
    OBVIOUS
  <2>3. SumOn(f, s) = SumFunction(g)
    BY DEF SumOn
  <2> HIDE DEF g
  <2>4. /\ SumFunction(g) \in Int /\ (s = {} => SumFunction(g) = 0)
        /\ \A x \in s : SumFunction(g)
             = g[x] + SumFunction([y \in s \ {x} |-> g[y]])
    BY <2>1, SumRemove
  <2> QED
    BY <2>2, <2>3, <2>4 DEF SumOn
<1>2. f = [y \in D |-> f[y]]
  OBVIOUS
<1>3. SumFunction(f) = SumOn(f, D)
  BY <1>2 DEF SumOn
<1> QED
  BY <1>1, <1>3 DEF PartsOf

\* A sum of natural numbers is one.
LEMMA SumNat ==
  ASSUME NEW D, IsFiniteSet(D), NEW f \in [D -> Nat]
  PROVE  SumFunction(f) \in Nat
<1> DEFINE Bad == {s \in SUBSET D : SumOn(f, s) \notin Nat}
<1>0. PartsOf(f, D)
  <2>1. f \in [D -> Int]
    OBVIOUS
  <2> QED
    BY <2>1, SumParts, Zenon
<1>1. Bad = {}
  <2> SUFFICES ASSUME Bad # {} PROVE FALSE
    OBVIOUS
  <2>1. PICK s \in Bad : \A x \in s : s \ {x} \notin Bad
    <3>1. Bad \in SUBSET (SUBSET D)
      OBVIOUS
    <3> HIDE DEF Bad
    <3> QED
      BY <3>1, SmallestPart
  <2>2. /\ s \in SUBSET D /\ SumOn(f, s) \notin Nat
        /\ \A x \in s : SumOn(f, s \ {x}) \in Nat
    BY <2>1
  <2>3. PICK x \in s : TRUE
    BY <1>0, <2>2 DEF PartsOf
  <2>4. SumOn(f, s) = f[x] + SumOn(f, s \ {x}) /\ f[x] \in Nat
    BY <1>0, <2>2 DEF PartsOf
  <2> QED
    BY <2>2, <2>4
<1>2. SumOn(f, D) \in Nat
  BY <1>1
<1> QED
  BY <1>0, <1>2 DEF PartsOf

-----------------------------------------------------------------------------
(* The running size.                                                       *)

\* The size of a set of transactions is additive.
LEMMA Sizes ==
  ASSUME NEW S \in SUBSET Tx
  PROVE  /\ SizeOf(S) \in Nat /\ (S = {} => SizeOf(S) = 0)
         /\ \A t \in S : SizeOf(S) = t.size + SizeOf(S \ {t})
<1> DEFINE f == [t \in Tx |-> t.size]
<1>1. f \in [Tx -> Nat] /\ f \in [Tx -> Int] /\ IsFiniteSet(Tx)
  <2>1. \A t \in Tx : t.size \in Nat
    BY MempoolAssumption
  <2> QED
    BY <2>1, MempoolAssumption
<1>2. \A U \in SUBSET Tx : [t \in U |-> f[t]] = [t \in U |-> t.size]
  OBVIOUS
<1>3. \A t \in Tx : f[t] = t.size
  OBVIOUS
<1>4. \A U \in SUBSET Tx : [t \in U |-> t.size] \in [U -> Nat] /\ IsFiniteSet(U)
  BY <1>1, <1>3, FS_Subset
<1>5. SizeOf(S) \in Nat
  <2>1. [t \in S |-> t.size] \in [S -> Nat] /\ IsFiniteSet(S)
    BY <1>4
  <2> QED
    BY <2>1, SumNat DEF SizeOf
<1> HIDE DEF f
<1>6. PartsOf(f, Tx)
  BY <1>1, SumParts
<1>7. \A U \in SUBSET Tx : SizeOf(U) = SumOn(f, U)
  BY <1>2 DEF SizeOf, SumOn
<1>8. /\ S = {} => SumOn(f, S) = 0
      /\ \A t \in S : SumOn(f, S) = f[t] + SumOn(f, S \ {t})
  BY <1>6 DEF PartsOf
<1>9. \A t \in S : S \ {t} \in SUBSET Tx /\ t \in Tx
  OBVIOUS
<1> QED
  BY <1>3, <1>5, <1>7, <1>8, <1>9

\* A set and its complement share the size of the whole.
LEMMA SizeParts ==
  ASSUME NEW T \in SUBSET Tx, NEW S \in SUBSET T
  PROVE  SizeOf(T) = SizeOf(S) + SizeOf(T \ S)
<1> DEFINE Bad == {U \in SUBSET T : SizeOf(T) # SizeOf(U) + SizeOf(T \ U)}
<1> SUFFICES ASSUME Bad # {} PROVE FALSE
  OBVIOUS
<1>1. IsFiniteSet(T)
  BY MempoolAssumption, FS_Subset
<1>2. PICK U \in Bad : \A x \in U : U \ {x} \notin Bad
  <2>1. Bad \in SUBSET (SUBSET T)
    OBVIOUS
  <2> HIDE DEF Bad
  <2> QED
    BY <1>1, <2>1, SmallestPart
<1>3. U \in SUBSET T /\ SizeOf(T) # SizeOf(U) + SizeOf(T \ U)
  OBVIOUS
<1>4. SizeOf(T) \in Nat
  BY Sizes
<1>5. CASE U = {}
  <2>1. T \ U = T /\ SizeOf(U) = 0
    BY <1>5, Sizes
  <2>2. SizeOf(T) # 0 + SizeOf(T)
    BY <1>3, <2>1
  <2> QED
    BY <1>4, <2>2
<1>6. CASE U # {}
  <2>1. PICK x \in U : TRUE
    BY <1>6
  <2> DEFINE V == T \ (U \ {x})
  <2>2. SizeOf(T) = SizeOf(U \ {x}) + SizeOf(V)
    BY <1>2, <1>3
  <2>3. V \ {x} = T \ U /\ x \in V /\ V \in SUBSET Tx /\ U \in SUBSET Tx
    BY <1>3
  <2> HIDE DEF V
  <2>4. SizeOf(V) = x.size + SizeOf(T \ U) /\ SizeOf(U) = x.size + SizeOf(U \ {x})
    BY <2>3, Sizes
  <2>5. /\ SizeOf(T \ U) \in Nat /\ SizeOf(U \ {x}) \in Nat
        /\ x.size \in Nat
    <3>1. T \ U \in SUBSET Tx /\ U \ {x} \in SUBSET Tx /\ x \in Tx
      BY <1>3
    <3> QED
      BY <3>1, Sizes, MempoolAssumption
  <2> QED
    BY <1>3, <2>2, <2>4, <2>5
<1> QED
  BY <1>5, <1>6

\* What expire_and_trim leaves fits: an entry stays only if the entries of lower
\* rates were enough to remove.
LEMMA TrimFits ==
  ASSUME NEW S \in SUBSET Tx
  PROVE  /\ Trimmed(S, SizeOf(S)) \subseteq S
         /\ SizeOf(S) - SizeOf(Trimmed(S, SizeOf(S))) <= MaxMempoolBytes
<1> DEFINE gone == Trimmed(S, SizeOf(S))
           kept == S \ gone
           lower == [t \in kept |-> {u \in kept : LowerRate(u, t)}]
<1>1. gone \subseteq S /\ gone \in SUBSET Tx /\ kept \in SUBSET Tx
  BY DEF Trimmed
<1>2. MaxMempoolBytes \in Nat /\ SizeOf(S) \in Nat /\ SizeOf(gone) \in Nat
  <2> HIDE DEF gone
  <2> QED
    BY <1>1, Sizes, MempoolAssumption
<1>3. ASSUME kept = {} PROVE SizeOf(S) - SizeOf(gone) <= MaxMempoolBytes
  <2>1. gone = S
    BY <1>1, <1>3
  <2>2. SizeOf(S) - SizeOf(S) = 0 /\ 0 <= MaxMempoolBytes
    BY <1>2
  <2> HIDE DEF gone
  <2> QED
    BY <2>1, <2>2
<1>4. ASSUME kept # {} PROVE SizeOf(S) - SizeOf(gone) <= MaxMempoolBytes
  <2>1. IsFiniteSet(kept)
    <3> HIDE DEF kept
    <3> QED
      BY <1>1, MempoolAssumption, FS_Subset
  <2>2. \A t \in kept : t \in Tx
    BY <1>1
  <2> HIDE DEF kept
  <2>3. lower \in [kept -> SUBSET kept]
    OBVIOUS
  <2>4. \A t \in kept : t \notin lower[t]
    BY <2>2, RatesOrder
  <2>5. \A t, u \in kept : u \in lower[t] => lower[u] \subseteq lower[t]
    <3> SUFFICES ASSUME NEW t \in kept, NEW u \in kept, LowerRate(u, t),
                        NEW v \in kept, LowerRate(v, u)
                 PROVE  LowerRate(v, t)
      OBVIOUS
    <3> QED
      BY <2>2, RatesOrder
  <2>6. PICK t \in kept : lower[t] = {}
    <3> HIDE DEF lower
    <3> QED
      BY <1>4, <2>1, <2>3, <2>4, <2>5, Unbeaten
  <2> DEFINE rest == {u \in S : LowerRate(u, t)}
  <2>7. rest \subseteq gone
    <3> HIDE DEF gone
    <3> QED
      BY <2>6 DEF kept
  <2>8. ~(SizeOf(S) - SizeOf(rest) > MaxMempoolBytes)
    BY DEF kept, Trimmed
  <2> HIDE DEF gone, rest
  <2>9. SizeOf(gone) = SizeOf(rest) + SizeOf(gone \ rest)
    BY <1>1, <2>7, SizeParts
  <2>10. SizeOf(rest) \in Nat /\ SizeOf(gone \ rest) \in Nat
    <3>1. rest \in SUBSET Tx /\ gone \ rest \in SUBSET Tx
      BY <1>1, <2>7
    <3> QED
      BY <3>1, Sizes
  <2> QED
    BY <1>2, <2>8, <2>9, <2>10
<1>5. SizeOf(S) - SizeOf(gone) <= MaxMempoolBytes
  <2> HIDE DEF kept, gone
  <2> QED
    BY <1>3, <1>4
<1> QED
  BY <1>1, <1>5

\* bytes follows what comes in and what goes.
LEMMA TakeInFits ==
  ASSUME IndexInv, SizeBounded, NEW t \in Tx, t \notin pool, TakeIn(t)
  PROVE  SizeBounded'
<1> DEFINE old   == {index[SlotOf(t)]} \cap pool
           kept  == (pool \ old) \cup {t}
           aged  == [at EXCEPT ![t] = now]
           fresh == kept \ Expired(kept, aged)
           size  == bytes - SizeOf(old) + t.size - SizeOf(kept \ fresh)
           gone  == Trimmed(fresh, size)
<1>1. pool' = fresh \ gone /\ bytes' = size - SizeOf(gone)
  BY DEF TakeIn
<1>2. /\ pool \in SUBSET Tx /\ old \in SUBSET pool /\ t \in kept /\ kept \in SUBSET Tx
      /\ kept \ {t} = pool \ old
  BY DEF IndexInv, PoolTypes
<1>3. fresh \in SUBSET kept
  OBVIOUS
<1>4. bytes = SizeOf(pool)
  BY DEF SizeBounded
<1> HIDE DEF old, kept, fresh, gone
<1>5. /\ SizeOf(pool) = SizeOf(old) + SizeOf(pool \ old)
      /\ SizeOf(kept) = t.size + SizeOf(kept \ {t})
      /\ SizeOf(kept) = SizeOf(fresh) + SizeOf(kept \ fresh)
  BY <1>2, <1>3, Sizes, SizeParts
<1>6. /\ pool \ old \in SUBSET Tx /\ kept \ fresh \in SUBSET Tx
      /\ old \in SUBSET Tx /\ fresh \in SUBSET Tx
  BY <1>2, <1>3
<1>7. /\ SizeOf(old) \in Nat /\ SizeOf(pool \ old) \in Nat /\ SizeOf(fresh) \in Nat
      /\ SizeOf(kept \ fresh) \in Nat /\ t.size \in Nat
  BY <1>6, Sizes, MempoolAssumption
<1>8. size = SizeOf(fresh)
  <2>1. SizeOf(kept \ {t}) = SizeOf(pool \ old)
    BY <1>2
  <2> DEFINE a == SizeOf(pool)
             b == SizeOf(old)
             c == SizeOf(pool \ old)
             d == SizeOf(kept)
             e == SizeOf(kept \ {t})
             f == SizeOf(fresh)
             g == SizeOf(kept \ fresh)
             n == t.size
  <2>2. a = b + c /\ d = n + e /\ d = f + g /\ e = c
    BY <1>5, <2>1
  <2>3. b \in Nat /\ c \in Nat /\ f \in Nat /\ g \in Nat /\ n \in Nat
    BY <1>7
  <2>4. size = a - b + n - g
    BY <1>4
  <2> HIDE DEF a, b, c, d, e, f, g, n, size
  <2>5. size = f
    BY <2>2, <2>3, <2>4
  <2> QED
    BY <2>5 DEF f
<1> HIDE DEF size
<1>9. gone = Trimmed(fresh, SizeOf(fresh))
  BY <1>8 DEF gone
<1>10. gone \subseteq fresh /\ SizeOf(fresh) - SizeOf(gone) <= MaxMempoolBytes
  BY <1>6, <1>9, TrimFits
<1>11. /\ SizeOf(fresh) = SizeOf(gone) + SizeOf(fresh \ gone)
       /\ SizeOf(gone) \in Nat /\ SizeOf(fresh \ gone) \in Nat
  <2>1. gone \in SUBSET Tx /\ fresh \ gone \in SUBSET Tx
    BY <1>6, <1>10
  <2> QED
    BY <1>6, <1>10, <2>1, Sizes, SizeParts
<1>12. bytes' = SizeOf(fresh \ gone) /\ bytes' <= MaxMempoolBytes
  BY <1>1, <1>8, <1>10, <1>11
<1>13. SizeOf(pool)' = SizeOf(fresh \ gone)
  BY <1>1 DEF SizeOf
<1> QED
  BY <1>12, <1>13 DEF SizeBounded

\* Removing a part of the pool.
LEMMA RemovalFits ==
  ASSUME IndexInv, SizeBounded, NEW S \in SUBSET pool,
         pool' = pool \ S, bytes' = bytes - SizeOf(S)
  PROVE  SizeBounded'
<1>1. pool \in SUBSET Tx /\ S \in SUBSET Tx /\ pool \ S \in SUBSET Tx
  BY DEF IndexInv, PoolTypes
<1>2. SizeOf(pool) = SizeOf(S) + SizeOf(pool \ S)
  BY <1>1, SizeParts
<1>3. SizeOf(S) \in Nat /\ SizeOf(pool \ S) \in Nat
  BY <1>1, Sizes
<1>4. bytes = SizeOf(pool) /\ bytes <= MaxMempoolBytes /\ MaxMempoolBytes \in Nat
  BY MempoolAssumption DEF SizeBounded
<1>5. bytes' = SizeOf(pool \ S) /\ bytes' <= MaxMempoolBytes
  BY <1>2, <1>3, <1>4
<1>6. SizeOf(pool)' = SizeOf(pool \ S)
  BY DEF SizeOf
<1> QED
  BY <1>5, <1>6 DEF SizeBounded

\* Mempool::remove takes the size of the entry it removes.
LEMMA DropFits ==
  ASSUME IndexInv, SizeBounded, NEW t, Drop(t)
  PROVE  SizeBounded'
<1> DEFINE S == {t} \cap pool
<1>1. pool \in SUBSET Tx /\ pool' = pool \ S /\ S \in SUBSET pool
  BY DEF Drop, IndexInv, PoolTypes
<1>2. bytes' = bytes - SizeOf(S)
  <2>1. CASE t \in pool
    <3>1. S = {t} /\ S \in SUBSET Tx /\ S \ {t} = {} /\ t \in Tx /\ t \in S
      BY <1>1, <2>1
    <3> HIDE DEF S
    <3>2. SizeOf(S) = t.size + SizeOf(S \ {t}) /\ SizeOf(S \ {t}) = 0
      BY <3>1, Sizes
    <3>3. t.size \in Nat
      BY <3>1, MempoolAssumption
    <3> QED
      BY <2>1, <3>2, <3>3 DEF Drop
  <2>2. CASE t \notin pool
    <3>1. S = {} /\ S \in SUBSET Tx
      BY <2>2
    <3> HIDE DEF S
    <3>2. SizeOf(S) = 0
      BY <3>1, Sizes
    <3> QED
      BY <2>2, <3>2 DEF Drop
  <2> QED
    BY <2>1, <2>2
<1> HIDE DEF S
<1> QED
  BY <1>1, <1>2, RemovalFits

\* accept, whether it takes the transaction in, refuses it or drops the one
\* whose slot it wanted.
LEMMA AcceptFits ==
  ASSUME IndexInv, SizeBounded, NEW t \in Tx, NEW acct, AcceptInto(t, acct)
  PROVE  SizeBounded'
<1>1. CASE Outcome(t, acct) = "ok"
  <2>1. TakeIn(t) /\ t \notin pool
    BY <1>1 DEF AcceptInto, Outcome
  <2> QED
    BY <2>1, TakeInFits
<1>2. CASE Outcome(t, acct) = "balance" /\ index[SlotOf(t)] # NoTx
  <2>1. Drop(index[SlotOf(t)])
    BY <1>2 DEF AcceptInto
  <2> QED
    BY <2>1, DropFits
<1>3. CASE /\ Outcome(t, acct) # "ok"
           /\ ~(Outcome(t, acct) = "balance" /\ index[SlotOf(t)] # NoTx)
  <2>1. UNCHANGED mempool
    BY <1>3 DEF AcceptInto
  <2> QED
    BY <2>1 DEF mempool, SizeBounded, SizeOf
<1> QED
  BY <1>1, <1>2, <1>3

\* Every step keeps the running size.
LEMMA NextFits == IndexInv /\ SizeBounded /\ [Next]_vars => SizeBounded'
<1> SUFFICES ASSUME IndexInv, SizeBounded, [Next]_vars PROVE SizeBounded'
  OBVIOUS
<1>1. CASE \/ \E c \in Client, t \in Tx : CloneState(c, t)
           \/ Tick \/ UNCHANGED vars
  <2>1. UNCHANGED <<pool, bytes>>
    BY <1>1 DEF CloneState, Tick, vars, mempool
  <2> QED
    BY <2>1 DEF SizeBounded, SizeOf
<1>2. CASE \E c \in Client : Accept(c)
  <2>1. PICK c \in Client : Accept(c)
    BY <1>2
  <2>2. call[c].tx \in Tx /\ AcceptInto(call[c].tx, call[c].acct)
    BY <2>1 DEF Accept, IndexInv, PoolTypes
  <2> QED
    BY <2>2, AcceptFits
<1>3. ASSUME NEW k, NEW new, Connect(k, new) PROVE SizeBounded'
  <2> DEFINE S == Confirmed(new) \cap pool
  <2>1. S \in SUBSET pool /\ pool' = pool \ S /\ bytes' = bytes - SizeOf(S)
    BY <1>3 DEF Connect, RemoveConfirmed
  <2> HIDE DEF S
  <2> QED
    BY <2>1, RemovalFits
<1>4. CASE \E t \in Tx \cup {NoTx} : Extend(t)
  BY <1>3, <1>4 DEF Extend
<1>5. CASE \E k \in 1..MaxBlocks, t \in Tx \cup {NoTx}, u \in Tx \cup {NoTx} :
             k \in DOMAIN chain /\ Reorganize(k, t, u)
  BY <1>3, <1>5 DEF Reorganize
<1>6. CASE Resurrect
  <2>1. CASE Head(detached) # NoTx
    <3>1. Head(detached) \in Tx
      BY <1>6, <2>1 DEF Resurrect, IndexInv, PoolTypes
    <3>2. AcceptInto(Head(detached), AcctOf(chain))
      BY <1>6, <2>1 DEF Resurrect
    <3> QED
      BY <3>1, <3>2, AcceptFits
  <2>2. CASE Head(detached) = NoTx
    <3>1. UNCHANGED <<pool, bytes>>
      BY <1>6, <2>2 DEF Resurrect, mempool
    <3> QED
      BY <3>1 DEF SizeBounded, SizeOf
  <2> QED
    BY <2>1, <2>2
<1> QED
  BY <1>1, <1>2, <1>4, <1>5, <1>6 DEF Next

\* "mempool 64 MiB" (spec/PROTOCOL-9.md:199): the running size is the size of
\* the entries, through every path that removes some, and within the limit.
THEOREM PoolFits == Spec => []SizeBounded
<1>1. Init => SizeBounded
  <2> SUFFICES ASSUME Init PROVE SizeBounded
    OBVIOUS
  <2>1. pool = {} /\ bytes = 0 /\ MaxMempoolBytes \in Nat
    BY MempoolAssumption DEF Init
  <2>2. SizeOf({}) = 0
    BY Sizes
  <2> QED
    BY <2>1, <2>2 DEF SizeBounded
<1> QED
  BY <1>1, IndexInvAlways, NextFits, PTL DEF Spec
=============================================================================
