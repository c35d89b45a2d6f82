------------------------------ MODULE Rewards -------------------------------
(***************************************************************************)
(* How a block's subsidy and fees are divided                              *)
(* (src/src/consensus/rewards.rs, params.rs): the finder receives a fixed  *)
(* percentage and the fees, the rest goes to the miners of the workshares  *)
(* in the reward window, in proportion to their work, with the indivisible *)
(* rest handed out by largest remainder.                                   *)
(***************************************************************************)
EXTENDS Integers, FiniteSets, Functions

CONSTANTS
  Addr,             \* addresses; numbers, because ties go to the lower one
  InitialSubsidy,   \* INITIAL_SUBSIDY
  MinSubsidy,       \* MIN_SUBSIDY
  HalvingInterval,  \* HALVING_INTERVAL
  FinderPercent,    \* FINDER_SHARE_PERCENT
  MaxMoney          \* MAX_MONEY

ASSUME RewardAssumption ==
  /\ Addr \subseteq Nat /\ Addr # {} /\ IsFiniteSet(Addr)
  /\ MaxMoney \in Nat
  /\ InitialSubsidy \in 0..MaxMoney /\ MinSubsidy \in 0..InitialSubsidy
  /\ HalvingInterval \in Nat \ {0}
  /\ FinderPercent \in 0..100

\* INITIAL_SUBSIDY is a u64.
ASSUME WidthAssumption == (InitialSubsidy \div 1073741824) \div 1073741824 < 16

\* INITIAL_SUBSIDY >> k.
Shifted[k \in Nat] == IF k = 0 THEN InitialSubsidy ELSE Shifted[k - 1] \div 2

\* params.rs, block_subsidy.
BlockSubsidy(h) ==
  LET halvings == (h - 1) \div HalvingInterval
      halved   == Shifted[halvings]
  IN  CASE h = 0 -> 0
        [] h > 0 /\ halvings >= 64 -> MinSubsidy
        [] OTHER -> IF halved > MinSubsidy THEN halved ELSE MinSubsidy

\* node.rs, scheduled_supply: what should be issued at height h, an epoch of
\* equal subsidies at a time.
ScheduledSupply(h) ==
  LET epoch == (h - 1) \div HalvingInterval
      subsidy[e \in 0..epoch] ==
        IF e = 0 THEN InitialSubsidy
        ELSE IF subsidy[e - 1] \div 2 > MinSubsidy THEN subsidy[e - 1] \div 2
        ELSE MinSubsidy
      span(e) == IF e < epoch THEN HalvingInterval
                              ELSE h - epoch * HalvingInterval
  IN  SumFunction([e \in 0..epoch |-> span(e) * subsidy[e]])

\* The finder's fixed part of a subsidy, and the part for the workshares.
FinderBase(subsidy) == (subsidy * FinderPercent) \div 100
Pool(subsidy) == subsidy - FinderBase(subsidy)

\* An exact share of the pool is pool * w[a] / total, rounded down ...
Quotient(pool, w, total, a) == (pool * w[a]) \div total
Remainder(pool, w, total, a) == (pool * w[a]) % total

\* Mutation: the remainders are ignored and the rest goes to the lowest
\* addresses one by one.
HandOutByAddress(pool, w, total, leftover, a) ==
  Cardinality({b \in Addr : w[b] > 0 /\ b < a}) < leftover

\* ... and the first `leftover` miners in the order of their remainders, then
\* of their addresses, receive one unit more.
HandOut(pool, w, total, leftover, a) ==
  LET rem(b) == Remainder(pool, w, total, b)
      before == {b \in Addr : /\ w[b] > 0
                              /\ \/ rem(b) > rem(a)
                                 \/ rem(b) = rem(a) /\ b < a}
  IN  Cardinality(before) < leftover

\* Mutation: the rest of the division is not handed out.
WorkshareRewardsFloor(pool, w) ==
  LET total == SumFunction(w)
  IN  [a \in Addr |-> IF pool = 0 \/ total = 0 THEN 0
                      ELSE Quotient(pool, w, total, a)]

\* The workshare part of reward_allocation: what every address receives of
\* the pool, for the summed work w of its workshares in the window.
WorkshareRewards(pool, w) ==
  LET total    == SumFunction(w)
      floor    == [a \in Addr |-> Quotient(pool, w, total, a)]
      leftover == pool - SumFunction(floor)
  IN  IF pool = 0 \/ total = 0
      THEN [a \in Addr |-> 0]
      ELSE [a \in Addr |->
              floor[a] + IF w[a] > 0 /\ HandOut(pool, w, total, leftover, a)
                         THEN 1 ELSE 0]

\* RewardAllocation.finder_amount: without workshares the finder takes the
\* pool as well.
FinderAmount(subsidy, w, fees) ==
  FinderBase(subsidy) + fees
    + IF SumFunction(w) = 0 THEN Pool(subsidy) ELSE 0

\* Every miner receives its exact share rounded down or up, one with more work
\* never receives less than one with less work, and finder and workshares
\* together receive the subsidy and the fees.
FairlyAllocated(subsidy, w, fees, finder, got) ==
  LET total == SumFunction(w)
      pool  == Pool(subsidy)
  IN  /\ finder + SumFunction(got) = subsidy + fees
      /\ total > 0 =>
           \A a \in Addr :
             /\ got[a] * total - pool * w[a] < total
             /\ pool * w[a] - got[a] * total < total
             /\ \A b \in Addr : w[b] > w[a] => got[b] >= got[a]
=============================================================================
