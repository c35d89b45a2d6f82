------------------------------- MODULE Ledger -------------------------------
(***************************************************************************)
(* The ledger along one chain: LedgerState with its sparse Merkle tree     *)
(* (src/src/consensus/state.rs) and the state transition of a block        *)
(* (src/src/consensus/validation.rs: validate_block,                       *)
(* transition_for_candidate, apply_transactions). Blocks of other branches *)
(* are replayed from the genesis block on a state of their own             *)
(* (Chain::from_blocks), so one branch is the general case.                *)
(*                                                                         *)
(* A block is applied to a clone of its parent's state:                    *)
(*   idle --BeginBlock (mature)--> body --ApplyTransaction*--> body        *)
(*   body --FinishBlock (rewards scheduled, block appended)--> idle        *)
(* and any failed check drops the clone.                                   *)
(***************************************************************************)
EXTENDS Rewards, Sequences

CONSTANTS
  Tx,           \* transactions that may be put into blocks
  Witness,      \* what a block's workshares add to their miners' weights
  Maturity,     \* REWARD_MATURITY
  Window,       \* REWARD_WINDOW
  MaxBlockTxs,  \* MAX_BLOCK_TRANSACTIONS
  NoLeaf,       \* an absent leaf of the Merkle tree
  MaxHeight     \* bound: the length of the chain

ASSUME LedgerAssumption ==
  /\ Tx \subseteq [sender : Addr, recipient : Addr, amount : Nat, fee : Nat,
                   nonce : Nat, signed : BOOLEAN]
  /\ Witness \subseteq [Addr -> Nat]
  /\ Maturity \in Nat \ {0} /\ Window \in Nat \ {0}
  /\ MaxBlockTxs \in Nat /\ MaxHeight \in Nat
  /\ NoLeaf \notin Nat /\ NoLeaf \notin [balance : Nat, nonce : Nat]

VARIABLES
  height,   \* of the chain's tip
  state,    \* LedgerState after the tip
  shares,   \* the workshare weights of every block, genesis first
  claims,   \* the reward claim of every block after the genesis block
  log,      \* history: the transactions of the chain, in order
  phase,    \* "idle", or "body" while a block is being applied
  work,     \* the cloned LedgerState
  block,    \* finder and workshare weights of the block being applied
  body,     \* its transactions so far
  fees      \* their fees

chain == <<height, state, shares, claims, log>>
applying == <<phase, work, block, body, fees>>
vars == <<chain, applying>>

Account == [balance : Nat, nonce : Nat]
Heights == 1..(MaxHeight + Maturity)

DefaultAccount == [balance |-> 0, nonce |-> 0]
NoPending == [m \in Heights |-> [a \in Addr |-> 0]]

\* LedgerState::default. The maps' absent entries are the default account and
\* the amount 0; the tree keeps its own copy of what is present.
EmptyState ==
  [acct     |-> [a \in Addr |-> DefaultAccount],
   pending  |-> NoPending,
   acctLeaf |-> [a \in Addr |-> NoLeaf],
   pendLeaf |-> [m \in Heights |-> [a \in Addr |-> NoLeaf]]]

NoWork == [a \in Addr |-> 0]

Init ==
  /\ height = 0 /\ state = EmptyState
  /\ shares = <<NoWork>> /\ claims = <<>> /\ log = <<>>
  /\ phase = "idle" /\ work = EmptyState
  /\ block = [finder |-> CHOOSE a \in Addr : TRUE, weights |-> NoWork]
  /\ body = <<>> /\ fees = 0

-----------------------------------------------------------------------------
(* LedgerState.                                                            *)

\* Mutation: an account without money is dropped, its nonce included.
SetAccountsForgetful(s, acct) ==
  LET kept == [a \in Addr |-> IF acct[a].balance = 0 THEN DefaultAccount
                                                    ELSE acct[a]]
  IN  [acct |-> kept, pending |-> s.pending, pendLeaf |-> s.pendLeaf,
       acctLeaf |-> [a \in Addr |->
          IF kept[a] = DefaultAccount THEN NoLeaf ELSE kept[a]]]

\* set_account, for the accounts that change: a default account has no leaf.
SetAccounts(s, acct) ==
  [acct |-> acct, pending |-> s.pending, pendLeaf |-> s.pendLeaf,
   acctLeaf |-> [a \in Addr |->
      IF acct[a] = s.acct[a] THEN s.acctLeaf[a]
      ELSE IF acct[a] = DefaultAccount THEN NoLeaf ELSE acct[a]]]

\* The accounts with the rewards of height h credited.
Credited(s, h) ==
  [a \in Addr |-> [balance |-> s.acct[a].balance + s.pending[h][a],
                   nonce |-> s.acct[a].nonce]]

\* The state with the rows of height h of the pending map and of its leaves
\* replaced.
SetPending(s, h, row, leaves) ==
  [acct |-> s.acct, acctLeaf |-> s.acctLeaf,
   pending |-> [s.pending EXCEPT ![h] = row],
   pendLeaf |-> [s.pendLeaf EXCEPT ![h] = leaves]]

\* Mutation: the leaves of matured rewards stay in the tree.
MatureKeepLeaves(s, h) ==
  SetPending(SetAccounts(s, Credited(s, h)), h, NoWork, s.pendLeaf[h])

\* Mutation: the reward is credited one block late.
MatureLate(s, h) ==
  LET due == IF h > 1 THEN h - 1 ELSE h
  IN  SetPending(SetAccounts(s, Credited(s, due)), due, NoWork,
                 [a \in Addr |-> NoLeaf])

\* mature: the rewards of height h leave the pending map and are credited.
Mature(s, h) ==
  SetPending(SetAccounts(s, Credited(s, h)), h, NoWork,
             [a \in Addr |-> NoLeaf])

MatureInRange(s, h) ==
  \A a \in Addr : s.acct[a].balance + s.pending[h][a] <= MaxMoney

\* Mutation: the maturity is counted from the parent.
ScheduleRewardsEarly(s, m, reward) ==
  SetPending(s, m - 1, [a \in Addr |-> s.pending[m - 1][a] + reward[a]],
             [a \in Addr |-> IF reward[a] = 0 THEN s.pendLeaf[m - 1][a]
                             ELSE s.pending[m - 1][a] + reward[a]])

\* schedule_reward for the finder and every workshare recipient; a reward of
\* 0 leaves no entry.
ScheduleRewards(s, m, reward) ==
  SetPending(s, m, [a \in Addr |-> s.pending[m][a] + reward[a]],
             [a \in Addr |-> IF reward[a] = 0 THEN s.pendLeaf[m][a]
                             ELSE s.pending[m][a] + reward[a]])

\* debit, credit and set_nonce of one transaction.
Transfer(s, t) ==
  SetAccounts(s, [s.acct EXCEPT
    ![t.sender] = [balance |-> @.balance - (t.amount + t.fee),
                   nonce |-> t.nonce + 1],
    ![t.recipient].balance = @ + t.amount])

-----------------------------------------------------------------------------
(* Blocks.                                                                 *)

\* A block by some finder, with some workshares, starts from the matured
\* state of its parent.
BeginBlock(finder, weights) ==
  /\ phase = "idle" /\ height < MaxHeight
  /\ MatureInRange(state, height + 1)
  /\ work' = Mature(state, height + 1)
  /\ phase' = "body" /\ body' = <<>> /\ fees' = 0
  /\ block' = [finder |-> finder, weights |-> weights]
  /\ UNCHANGED chain

\* validate_transaction_structure and the signature.
WellFormed(t) ==
  /\ t.amount > 0 /\ t.amount <= MaxMoney /\ t.fee <= MaxMoney
  /\ t.sender # t.recipient
  /\ t.signed

\* Mutation: the balance need not cover the fee.
AcceptableWithoutFee(t) ==
  /\ WellFormed(t)
  /\ \A i \in DOMAIN body : body[i] # t
  /\ t.nonce = work.acct[t.sender].nonce
  /\ t.amount <= work.acct[t.sender].balance
  /\ work.acct[t.recipient].balance + t.amount <= MaxMoney
  /\ fees + t.fee <= MaxMoney

\* The checks of apply_transactions' loop.
Acceptable(t) ==
  /\ WellFormed(t)
  /\ \A i \in DOMAIN body : body[i] # t
  /\ t.nonce = work.acct[t.sender].nonce
  /\ t.amount + t.fee <= work.acct[t.sender].balance
  /\ work.acct[t.recipient].balance + t.amount <= MaxMoney
  /\ fees + t.fee <= MaxMoney

ApplyTransaction(t) ==
  /\ phase = "body" /\ Len(body) < MaxBlockTxs
  /\ Acceptable(t)
  /\ work' = Transfer(work, t)
  /\ body' = Append(body, t) /\ fees' = fees + t.fee
  /\ UNCHANGED <<chain, phase, block>>

\* The weights of the reward window: the last Window blocks of a history of n
\* blocks, the genesis block among them.
WindowWeights(n) ==
  LET first == IF n > Window THEN n - Window + 1 ELSE 1
  IN  [a \in Addr |-> SumFunction([i \in first..n |-> shares[i][a]])]

\* What reward_allocation gives to every address, the finder's part included.
Allocation ==
  LET subsidy == BlockSubsidy(height + 1)
      weights == WindowWeights(Len(shares))
      share   == WorkshareRewards(Pool(subsidy), weights)
  IN  [share EXCEPT ![block.finder] =
                      @ + FinderAmount(subsidy, weights, fees)]

\* The rest of transition_for_candidate, with a claim that matches, and the
\* append to the chain. Amounts are u64 and at most MAX_MONEY.
FinishBlock ==
  /\ phase = "body"
  /\ LET reward == Allocation IN
       /\ reward \in [Addr -> 0..MaxMoney]
       /\ \A a \in Addr :
            work.pending[height + 1 + Maturity][a] + reward[a] <= MaxMoney
       /\ state' = ScheduleRewards(work, height + 1 + Maturity, reward)
  /\ height' = height + 1
  /\ shares' = Append(shares, block.weights)
  /\ claims' = Append(claims, [finder |-> block.finder,
       amount |-> FinderAmount(BlockSubsidy(height + 1),
                               WindowWeights(Len(shares)), fees)])
  /\ log' = log \o body
  /\ phase' = "idle"
  /\ UNCHANGED <<work, block, body, fees>>

\* A transaction that is not Acceptable, a claim, root, proof of work or
\* workshare that does not check out: the clone is dropped.
RejectBlock ==
  /\ phase = "body"
  /\ phase' = "idle"
  /\ UNCHANGED <<chain, work, block, body, fees>>

Next ==
  \/ \E finder \in Addr, weights \in Witness : BeginBlock(finder, weights)
  \/ \E t \in Tx : ApplyTransaction(t)
  \/ FinishBlock
  \/ RejectBlock

Spec == Init /\ [][Next]_vars

-----------------------------------------------------------------------------
(* Properties.                                                             *)

LedgerState ==
  [acct : [Addr -> Account], pending : [Heights -> [Addr -> Nat]],
   acctLeaf : [Addr -> Account \cup {NoLeaf}],
   pendLeaf : [Heights -> [Addr -> Nat \cup {NoLeaf}]]]

\* Types: balances are never negative, the workshare window has an entry for
\* every block of the chain, and a block is applied only below the bound.
TypeOK ==
  /\ height \in 0..MaxHeight
  /\ state \in LedgerState /\ work \in LedgerState
  /\ shares \in Seq([Addr -> Nat]) /\ Len(shares) = height + 1
  /\ log \in Seq(Tx) /\ body \in Seq(Tx)
  /\ phase \in {"idle", "body"} /\ (phase = "body" => height < MaxHeight)
  /\ block \in [finder : Addr, weights : [Addr -> Nat]]
  /\ fees \in Nat

\* The Merkle root commits to the maps: the tree, which set_account,
\* schedule_reward and mature update apart from the maps, has a leaf for
\* exactly the accounts and pending rewards that are there, with their
\* current values. Two nodes with the same ledger have the same root.
Committed(s) ==
  /\ \A a \in Addr : s.acctLeaf[a] =
       IF s.acct[a] = DefaultAccount THEN NoLeaf ELSE s.acct[a]
  /\ \A m \in Heights, a \in Addr : s.pendLeaf[m][a] =
       IF s.pending[m][a] = 0 THEN NoLeaf ELSE s.pending[m][a]

RootCommitsToState ==
  Committed(state) /\ (phase = "body" => Committed(work))

\* A pending reward is due within the next Maturity blocks. mature only looks
\* at the height of its block, so one that was ever left behind would be lost.
PendingWithin(s, h) ==
  \A m \in Heights, a \in Addr :
    s.pending[m][a] > 0 => h < m /\ m <= h + Maturity

NoRewardLeftBehind ==
  /\ PendingWithin(state, height)
  /\ phase = "body" => \A m \in Heights, a \in Addr :
       work.pending[m][a] > 0 => height + 1 < m /\ m <= height + Maturity

\* A signed transaction takes effect once: along the chain no sender's nonce
\* is used twice, even by an account that was emptied and funded again.
NoReplay ==
  \A i, j \in DOMAIN log :
    i # j => log[i].sender # log[j].sender \/ log[i].nonce # log[j].nonce

\* A transaction that took effect has a nonce below its sender's.
Spent(txs, s) == \A i \in DOMAIN txs : txs[i].nonce < s.acct[txs[i].sender].nonce

Disjoint(t, u) == t.sender # u.sender \/ t.nonce # u.nonce

\* The strengthening of NoReplay: the same for the block being applied.
NoncesUsedOnce ==
  /\ NoReplay /\ Spent(log, state)
  /\ phase = "body" =>
       /\ Spent(log, work) /\ Spent(body, work)
       /\ \A i, j \in DOMAIN body : i # j => Disjoint(body[i], body[j])
       /\ \A i \in DOMAIN log, j \in DOMAIN body : Disjoint(log[i], body[j])

\* The inductive invariant behind the properties above.
LedgerInv ==
  TypeOK /\ RootCommitsToState /\ NoRewardLeftBehind /\ NoncesUsedOnce

Balances(s) == SumFunction([a \in Addr |-> s.acct[a].balance])
Pending(s) ==
  SumFunction([m \in Heights |-> SumFunction(s.pending[m])])
Minted(h) == SumFunction([i \in 1..h |-> BlockSubsidy(i)])

\* The subsidy of each of the first h blocks whose rewards mature after
\* height `due` is still pending; the fees are in the same row.
SubsidyPending(s, h, due) ==
  \A i \in 1..h :
    i + Maturity > due => SumFunction(s.pending[i + Maturity]) >= BlockSubsidy(i)

\* The strengthening of Conservation and MaturityLock.
MoneyInv ==
  /\ LedgerInv
  /\ Balances(state) + Pending(state) = Minted(height)
  /\ SubsidyPending(state, height, height)
  /\ phase = "body" =>
       /\ Balances(work) + Pending(work) + fees = Minted(height)
       /\ SubsidyPending(work, height, height + 1)

\* Money is conserved: balances and pending rewards (and the fees collected
\* so far inside a block) are what the subsidies issued, and that is what the
\* node reports as its scheduled supply.
Conservation ==
  /\ Balances(state) + Pending(state) = ScheduledSupply(height)
  /\ phase = "body" => Balances(work) + Pending(work) + fees = Minted(height)

\* No unit is spendable earlier than Maturity blocks after its issue.
MaturityLock ==
  Balances(state) <= Minted(IF height > Maturity THEN height - Maturity ELSE 0)
=============================================================================
