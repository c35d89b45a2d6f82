------------------------------ MODULE Queries -------------------------------
(***************************************************************************)
(* What the node tells wallets about the rewards of an address             *)
(* (src/src/node.rs). Nothing of it is stored: mining_rewards derives the  *)
(* sum from the ledger and the transfers, historical_reward repeats the    *)
(* allocation of a past block from the blocks before it, and the           *)
(* confirmed transfers are read from the blocks.                           *)
(***************************************************************************)
EXTENDS Ledger

\* LedgerState::pending_for.
PendingFor(a) == SumFunction([m \in Heights |-> state.pending[m][a]])

SumOver(txs, amount(_)) == SumFunction([i \in DOMAIN txs |-> amount(txs[i])])

\* Node::mining_rewards: what the address has and ever sent, less what it
\* received from others. At least 0, which the code takes care of.
MiningRewards(a) ==
  LET sent(t)     == IF t.sender = a THEN t.amount + t.fee ELSE 0
      received(t) == IF t.recipient = a THEN t.amount ELSE 0
  IN  state.acct[a].balance + PendingFor(a)
        + SumOver(log, sent) - SumOver(log, received)

\* The positions of address_history's share_blocks.
ShareBlocks(a) == {i \in 0..height : shares[i + 1][a] > 0}

\* Mutation: the window is one block short.
EligibleShort(a, i) == \E p \in ShareBlocks(a) : p < i /\ p > i - Window

\* A's last share before block i is inside the window of its reward.
Eligible(a, i) == \E p \in ShareBlocks(a) : p < i /\ p >= i - Window

\* historical_reward: block i's reward for a, as finder and as miner.
HistoricalReward(a, i) ==
  LET found == IF claims[i].finder = a THEN claims[i].amount ELSE 0
      mined == IF Eligible(a, i)
               THEN WorkshareRewards(Pool(BlockSubsidy(i)), WindowWeights(i))[a]
               ELSE 0
  IN  found + mined

\* Its "matured" field.
Matured(i) == height >= i + Maturity

\* The rewards listed in an address's history are those the ledger paid: they
\* add up to mining_rewards, and those not "matured" to what is pending. The
\* history shortcuts the allocation and the sum never looks at it.
HistoryAddsUp ==
  \A a \in Addr :
    LET reward(i) == HistoricalReward(a, i)
    IN  /\ SumFunction([i \in 1..height |-> reward(i)]) = MiningRewards(a)
        /\ SumFunction([i \in {k \in 1..height : ~Matured(k)} |-> reward(i)])
             = PendingFor(a)

\* The sum of the first k terms.
UpTo(r, k) == SumFunction([i \in 1..k |-> r[i]])

\* What a transaction takes from an account.
Flow(a, t) == (IF t.sender = a THEN t.amount + t.fee ELSE 0)
                - (IF t.recipient = a THEN t.amount ELSE 0)

\* What a list of transactions takes from an account.
NetSent(txs, a) == SumFunction([i \in DOMAIN txs |-> Flow(a, txs[i])])

\* The weights of the window of block n.
Weights(sh, n) ==
  LET first == IF n > Window THEN n - Window + 1 ELSE 1
  IN  [a \in Addr |-> SumFunction([i \in first..n |-> sh[i][a]])]

\* The reward of block i.
Reward(sh, cl, a, i) ==
  (IF cl[i].finder = a THEN cl[i].amount ELSE 0)
    + WorkshareRewards(Pool(BlockSubsidy(i)), Weights(sh, i))[a]

\* The rewards of a, block by block.
Rewarded(a) == [i \in 1..height |-> Reward(shares, claims, a, i)]

\* What is pending after height `due` are the rewards of the blocks.
PendingIsReward(s, due) ==
  \A m \in Heights, a \in Addr : m > due =>
    s.pending[m][a] = IF m - Maturity \in 1..height
                      THEN Reward(shares, claims, a, m - Maturity) ELSE 0

\* The strengthening of HistoryAddsUp: every pending entry is the reward of one
\* block, and a balance is what matured less what was sent.
HistoryInv ==
  /\ MoneyInv
  /\ claims \in Seq([finder : Addr, amount : Nat]) /\ Len(claims) = height
  /\ PendingIsReward(state, height)
  /\ \A a \in Addr : state.acct[a].balance + NetSent(log, a)
                       = UpTo(Rewarded(a), height - Maturity)
  /\ phase = "body" =>
       /\ PendingIsReward(work, height + 1)
       /\ \A a \in Addr :
            work.acct[a].balance + NetSent(log, a) + NetSent(body, a)
              = UpTo(Rewarded(a), height + 1 - Maturity)
=============================================================================
