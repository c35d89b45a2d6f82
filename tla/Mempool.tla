------------------------------ MODULE Mempool -------------------------------
(***************************************************************************)
(* The mempool (src/src/mempool.rs, policy.rs) between the clients that    *)
(* submit transactions and the chain that confirms them.                   *)
(*                                                                         *)
(* Node::submit_transaction clones the ledger state under the chain lock,  *)
(* releases it, and only then takes the mempool lock: CloneState and       *)
(* Accept are two steps, and a block may come between them. submit_block   *)
(* holds the chain lock and the mempool lock while it removes what the new *)
(* chain confirms and offers the detached transactions back one by one     *)
(* (Resurrect); nothing else runs until that queue is empty.               *)
(*                                                                         *)
(* Rewards do not matter here: an account is its balance and its nonce, and*)
(* a block carries at most one transaction.                                *)
(***************************************************************************)
EXTENDS Integers, Sequences, FiniteSets, Functions

CONSTANTS
  Addr, Tx,      \* addresses; transactions that may be submitted or mined
  NoTx,          \* no transaction
  Client,        \* threads that call submit_transaction
  Genesis,       \* the accounts before the first block, a function on Addr
  MinRelayFee, DustLimit, MaxMempoolBytes, MaxNonceGap, TtlSeconds,
  RbfPercent,    \* RBF_PERCENT
  MaxNonce,      \* bound on nonces
  MaxBlocks,     \* bound: length of the chain
  MaxNow         \* bound: the clock

Slot == Addr \X (0..MaxNonce)
Accounts == [Addr -> [balance : Nat, nonce : 0..MaxNonce]]

\* A transaction's id orders equal fee rates; signed stands for everything
\* validate_for_relay checks of the transaction alone but policy.
ASSUME MempoolAssumption ==
  /\ Tx \subseteq [id : Nat, sender : Addr, recipient : Addr, amount : Nat,
                   fee : Nat, nonce : 0..(MaxNonce - 1), size : Nat \ {0},
                   signed : BOOLEAN]
  /\ IsFiniteSet(Tx) /\ \A t, u \in Tx : t.id = u.id => t = u
  /\ NoTx \notin Tx
  /\ Genesis \in Accounts
  /\ {MinRelayFee, DustLimit, MaxMempoolBytes, MaxNonceGap, TtlSeconds,
      RbfPercent, MaxNonce, MaxBlocks, MaxNow} \subseteq Nat

VARIABLES
  \* Mempool.
  pool,       \* keys of entries
  at,         \* received_at of every entry
  index,      \* by_sender_nonce
  bytes,      \* the running size
  \* The chain: the transaction of every block and the accounts after it.
  chain,
  detached,   \* transactions submit_block has still to offer back
  \* Clients.
  call,       \* the transaction each client submits and its cloned accounts
  last,       \* history: the outcome of the step, if it offered a transaction
  raced,      \* history: entries accepted against accounts of an older chain
  now         \* unix_time

mempool == <<pool, at, index, bytes>>
vars == <<mempool, chain, detached, call, last, raced, now>>

NoOutcome == [tx |-> NoTx, result |-> "none"]
NoCall == [tx |-> NoTx, acct |-> Genesis]
SlotOf(t) == <<t.sender, t.nonce>>
AcctOf(c) == c[Len(c)].acct
Confirmed(c) == {c[i].tx : i \in DOMAIN c} \ {NoTx}

Init ==
  /\ pool = {} /\ at = [t \in Tx |-> 0] /\ bytes = 0
  /\ index = [s \in Slot |-> NoTx]
  /\ chain = <<[tx |-> NoTx, acct |-> Genesis]>> /\ detached = <<>>
  /\ call = [c \in Client |-> NoCall]
  /\ last = NoOutcome
  /\ raced = {} /\ now = 0

-----------------------------------------------------------------------------
(* Mempool::accept.                                                        *)

\* validate_for_relay.
ValidForRelay(t, acct) ==
  /\ t.amount >= 1 /\ t.amount >= DustLimit /\ t.fee >= MinRelayFee
  /\ t.sender # t.recipient /\ t.signed
  /\ t.nonce >= acct[t.sender].nonce
  /\ t.nonce <= acct[t.sender].nonce + MaxNonceGap

\* The fee a replacement has to pay.
RequiredFee(old) ==
  LET step == (old.fee * RbfPercent + 99) \div 100
  IN  old.fee + IF step > MinRelayFee THEN step ELSE MinRelayFee

\* sender_is_funded, with the slots in ix: the transactions that follow the
\* account's nonce without a gap are affordable one after the other.
SenderIsFunded(ix, sender, acct) ==
  LET first == acct[sender].nonce
      cost(n) == ix[<<sender, n>>].amount + ix[<<sender, n>>].fee
  IN  \A n \in first..MaxNonce :
        (\A k \in first..n : ix[<<sender, k>>] # NoTx) =>
          SumFunction([k \in first..n |-> cost(k)]) <= acct[sender].balance

\* t has a lower fee rate than u, the ids breaking ties.
LowerRate(t, u) ==
  \/ t.fee * u.size < u.fee * t.size
  \/ t.fee * u.size = u.fee * t.size /\ t.id < u.id

\* The receive times of the entries in S.
TimesOf(S, received) == [t \in Tx |-> IF t \in S THEN received[t] ELSE 0]

SizeOf(S) == SumFunction([t \in S |-> t.size])

Expired(S, received) == {t \in S : now - received[t] > TtlSeconds}

\* expire_and_trim removes the lowest rates while the pool is too large.
Trimmed(S, b) ==
  {t \in S : b - SizeOf({u \in S : LowerRate(u, t)}) > MaxMempoolBytes}

\* The pool after accept has taken t: the old entry of the slot removed, t
\* inserted, the pool expired and trimmed.
TakeIn(t) ==
  LET old   == {index[SlotOf(t)]} \cap pool
      kept  == (pool \ old) \cup {t}
      aged  == [at EXCEPT ![t] = now]
      fresh == kept \ Expired(kept, aged)
      size  == bytes - SizeOf(old) + t.size - SizeOf(kept \ fresh)
      gone  == Trimmed(fresh, size)
  IN  /\ pool' = fresh \ gone
      /\ at' = TimesOf(fresh \ gone, aged)
      /\ index' = [s \in Slot |->
           IF s = SlotOf(t) /\ t \in fresh \ gone THEN t
           ELSE IF index[s] \in fresh \ gone THEN index[s] ELSE NoTx]
      /\ bytes' = size - SizeOf(gone)

\* Mutation: the slot keeps pointing at the removed transaction.
DropKeepSlot(t) ==
  /\ pool' = pool \ {t}
  /\ at' = TimesOf(pool', at)
  /\ bytes' = bytes - IF t \in pool THEN t.size ELSE 0
  /\ UNCHANGED index

\* remove of one transaction, if it is there.
Drop(t) ==
  /\ pool' = pool \ {t}
  /\ bytes' = bytes - IF t \in pool THEN t.size ELSE 0
  /\ index' = [s \in Slot |-> IF index[s] = t /\ t \in pool THEN NoTx
                                                           ELSE index[s]]
  /\ at' = TimesOf(pool', at)

\* The funding check looks at the index with t in its slot.
Funded(t, acct) ==
  SenderIsFunded([index EXCEPT ![SlotOf(t)] = t], t.sender, acct)

\* Mutation: a replacement may pay any fee.
OutcomeCheap(t, acct) ==
  CASE ~ValidForRelay(t, acct) -> "refused"
    [] ValidForRelay(t, acct) /\ t \in pool -> "known"
    [] OTHER -> IF Funded(t, acct) THEN "ok" ELSE "balance"

\* The outcome of accept(t) against the accounts it is given.
Outcome(t, acct) ==
  LET old == index[SlotOf(t)]
  IN  CASE ~ValidForRelay(t, acct) -> "refused"
        [] ValidForRelay(t, acct) /\ t \in pool -> "known"
        [] OTHER ->
             IF old # NoTx /\ t.fee < RequiredFee(old) THEN "fee"
             ELSE IF Funded(t, acct) THEN "ok" ELSE "balance"

\* accept: a transaction that cannot be funded is taken out again, after the
\* one it was to replace was removed.
AcceptInto(t, acct) ==
  LET result == Outcome(t, acct)
  IN  /\ last' = [tx |-> t, result |-> result]
      /\ CASE result = "ok" -> TakeIn(t)
           [] result = "balance" /\ index[SlotOf(t)] # NoTx ->
                Drop(index[SlotOf(t)])
           [] OTHER -> UNCHANGED mempool

-----------------------------------------------------------------------------
(* Node::submit_transaction.                                               *)

CloneState(c, t) ==
  /\ detached = <<>> /\ call[c] = NoCall
  /\ call' = [call EXCEPT ![c] = [tx |-> t, acct |-> AcctOf(chain)]]
  /\ last' = NoOutcome
  /\ UNCHANGED <<mempool, chain, detached, raced, now>>

Accept(c) ==
  /\ detached = <<>> /\ call[c] # NoCall
  /\ AcceptInto(call[c].tx, call[c].acct)
  /\ raced' = pool' \cap (raced \cup IF call[c].acct # AcctOf(chain)
                                     THEN {call[c].tx} ELSE {})
  /\ call' = [call EXCEPT ![c] = NoCall]
  /\ UNCHANGED <<chain, detached, now>>

-----------------------------------------------------------------------------
(* Node::submit_block.                                                     *)

\* A block with t, or without a transaction, on accounts acct: what
\* apply_transactions checks and does.
Minable(t, acct) ==
  \/ t = NoTx
  \/ /\ t # NoTx /\ t.signed /\ t.amount >= 1 /\ t.sender # t.recipient
     /\ t.nonce = acct[t.sender].nonce
     /\ t.amount + t.fee <= acct[t.sender].balance

After(t, acct) ==
  LET from == acct[t.sender]
      to   == acct[t.recipient]
  IN  IF t = NoTx THEN acct
      ELSE [acct EXCEPT
              ![t.sender] = [balance |-> from.balance - t.amount - t.fee,
                             nonce   |-> t.nonce + 1],
              ![t.recipient] = [balance |-> to.balance + t.amount,
                                nonce   |-> to.nonce]]

\* Mutation: nothing is removed.
RemoveConfirmedNot(S) == UNCHANGED mempool

\* Mutation: the size is not adjusted.
RemoveConfirmedSize(S) ==
  /\ pool' = pool \ S
  /\ index' = [s \in Slot |-> IF index[s] \in S \cap pool THEN NoTx
                                                          ELSE index[s]]
  /\ at' = TimesOf(pool', at)
  /\ UNCHANGED bytes

\* remove_confirmed: by transaction id; another transaction of the same slot
\* stays.
RemoveConfirmed(S) ==
  /\ pool' = pool \ S
  /\ bytes' = bytes - SizeOf(S \cap pool)
  /\ index' = [s \in Slot |-> IF index[s] \in S \cap pool THEN NoTx
                                                          ELSE index[s]]
  /\ at' = TimesOf(pool', at)

\* The chain is replaced from block k + 1 on by the blocks in new; detached
\* transactions that the new blocks do not confirm are offered back in order
\* (NoTx stands for those that are not).
Connect(k, new) ==
  /\ detached = <<>>
  /\ chain' = SubSeq(chain, 1, k) \o new
  /\ RemoveConfirmed(Confirmed(new))
  /\ detached' = [i \in 1..(Len(chain) - k) |->
       IF chain[k + i].tx \in Confirmed(new) THEN NoTx ELSE chain[k + i].tx]
  /\ raced' = raced \cap pool' /\ last' = NoOutcome
  /\ UNCHANGED <<call, now>>

\* A block on the tip.
Extend(t) ==
  /\ Len(chain) < MaxBlocks
  /\ Minable(t, AcctOf(chain))
  /\ Connect(Len(chain), <<[tx |-> t, acct |-> After(t, AcctOf(chain))]>>)

\* A preferred branch of two blocks that forks after block k.
Reorganize(k, t, u) ==
  LET base  == chain[k].acct
      first == [tx |-> t, acct |-> After(t, base)]
  IN  /\ k < Len(chain) /\ k + 2 <= MaxBlocks
      /\ Minable(t, base) /\ Minable(u, first.acct)
      /\ Connect(k, <<first, [tx |-> u, acct |-> After(u, first.acct)]>>)

\* The next detached transaction is offered to the pool, against the new
\* chain's accounts, unless it is confirmed; the outcome is ignored.
Resurrect ==
  /\ detached # <<>>
  /\ IF Head(detached) # NoTx THEN AcceptInto(Head(detached), AcctOf(chain))
     ELSE last' = NoOutcome /\ UNCHANGED mempool
  /\ detached' = Tail(detached)
  /\ raced' = raced \cap pool'
  /\ UNCHANGED <<chain, call, now>>

Tick ==
  /\ now < MaxNow
  /\ now' = now + 1
  /\ last' = NoOutcome
  /\ UNCHANGED <<mempool, chain, detached, call, raced>>

Next ==
  \/ \E c \in Client : (\E t \in Tx : CloneState(c, t)) \/ Accept(c)
  \/ \E t \in Tx \cup {NoTx} : Extend(t)
  \/ \E k \in 1..MaxBlocks, t \in Tx \cup {NoTx}, u \in Tx \cup {NoTx} :
       k \in DOMAIN chain /\ Reorganize(k, t, u)
  \/ Resurrect
  \/ Tick

Spec == Init /\ [][Next]_vars

-----------------------------------------------------------------------------
(* Mempool::select, called by the miner under the chain and mempool locks. *)

\* Mutation: the fee is left out of the eligibility check.
EligibleAmount(acct, S) ==
  {t \in pool \ S : /\ t.nonce = acct[t.sender].nonce
                    /\ t.amount <= acct[t.sender].balance}

\* The transactions that fit the accounts acct and are not in S.
Eligible(acct, S) ==
  {t \in pool \ S : /\ t.nonce = acct[t.sender].nonce
                    /\ t.amount + t.fee <= acct[t.sender].balance}

\* The greedy loop: the best rate first (the lower id on a tie), on accounts
\* that follow the choice.
Best(S) ==
  CHOOSE t \in S : \A u \in S \ {t} :
    \/ t.fee * u.size > u.fee * t.size
    \/ t.fee * u.size = u.fee * t.size /\ t.id < u.id

Select(acct, maximum) ==
  LET sel[n \in 0..maximum] ==
        IF n = 0 THEN [txs |-> <<>>, acct |-> acct]
        ELSE LET s == sel[n - 1]
                 e == Eligible(s.acct, Range(s.txs))
             IN  IF e = {} THEN s
                 ELSE [txs |-> Append(s.txs, Best(e)),
                       acct |-> After(Best(e), s.acct)]
  IN  sel[maximum].txs

-----------------------------------------------------------------------------
(* Properties.                                                             *)

\* Types of the pool, its indexes and the calls under way.
TypeOK ==
  /\ pool \in SUBSET Tx /\ at \in [Tx -> 0..MaxNow]
  /\ index \in [Slot -> Tx \cup {NoTx}]
  /\ bytes \in Nat
  /\ now \in 0..MaxNow /\ raced \in SUBSET Tx
  /\ detached \in Seq(Tx \cup {NoTx})
  /\ \A c \in Client : call[c].tx \in Tx \cup {NoTx}

\* entries and by_sender_nonce describe the same pool: every indexed id has
\* its entry (accept, sender_is_funded and select index into entries without
\* a check), and a slot holds one transaction.
IndexConsistent ==
  /\ \A t \in pool : index[SlotOf(t)] = t
  /\ \A s \in Slot : index[s] # NoTx => index[s] \in pool
                                        /\ SlotOf(index[s]) = s

\* bytes is the size of the entries, and within max_mempool_bytes whenever
\* the mempool lock is free ("mempool 64 MiB", spec/PROTOCOL-9.md:199).
SizeBounded == bytes = SizeOf(pool) /\ bytes <= MaxMempoolBytes

\* A block body chosen by select is valid on the chain it was chosen for,
\* whatever stale or conflicting entries the pool holds ("These operations
\* cannot fail after the eligibility checks", mempool.rs:152).
Applicable(txs, acct) ==
  LET run[i \in 0..Len(txs)] ==
        IF i = 0 THEN [ok |-> TRUE, acct |-> acct]
        ELSE [ok |-> run[i - 1].ok /\ Minable(txs[i], run[i - 1].acct),
              acct |-> IF run[i - 1].ok THEN After(txs[i], run[i - 1].acct)
                                        ELSE acct]
  IN  run[Len(txs)].ok

SelectionValid ==
  detached = <<>> =>
    Applicable(Select(AcctOf(chain), MaxBlocks), AcctOf(chain))

\* A confirmed transaction is in the pool only if a client's cloned accounts
\* predate the block that confirmed it (node.rs:790-794).
ConfirmedPooledOnlyByRace ==
  detached = <<>> => pool \cap Confirmed(chain) \subseteq raced

\* "same-nonce replacement requiring the greater of 100,000 or a 10% fee
\* increment" (spec/PROTOCOL-9.md:199), by submission or by a reorg.
ReplacementPaysMore ==
  [][\A s \in Slot :
       index[s] # NoTx /\ index'[s] \notin {NoTx, index[s]} =>
         index'[s].fee >= RequiredFee(index[s])]_vars

\* "TTL 24 hours" (spec/PROTOCOL-9.md:199): no entry is older than the TTL.
NothingOutlivesTtl == \A t \in pool : now - at[t] <= TtlSeconds

\* "same-nonce replacement requiring the greater of 100,000 or a 10% fee
\* increment" (spec/PROTOCOL-9.md:199): a submission that is refused replaces
\* nothing.
RefusedReplacesNothing ==
  [][last' # last /\ last'.result \notin {"ok"} => pool' = pool]_vars
=============================================================================
