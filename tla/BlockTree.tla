----------------------------- MODULE BlockTree -----------------------------
(***************************************************************************)
(* The tree of blocks a node may ever be handed and the order in which the *)
(* fork choice prefers their chains (src/src/consensus/chain.rs).          *)
(*                                                                         *)
(* A Chain value (chain.rs, struct Chain) is a vector of blocks linked by  *)
(* their previous_block hashes, so it is determined by its last block: the *)
(* models write the tip for the whole chain and Anc[tip] for its blocks.   *)
(* A hash is only compared (for equality and, on a work tie, by <), so the *)
(* identity of a block is the block and Rank is the order of the hashes.   *)
(***************************************************************************)
EXTENDS Integers, FiniteSets

CONSTANTS
  Block,      \* every block that may be submitted, Genesis included
  Genesis,    \* Block::genesis()
  Parent,     \* header.previous_block, a function on Block \ {Genesis}
  Anc,        \* Anc[b]: the blocks of the chain that ends in b, b included
  Height,     \* header.height
  Work,       \* target_work(bits_to_target(header.bits)), at least 1
  CumWork,    \* cumulative work of the chain that ends in b
  Rank,       \* the position of a block's hash in the order of hashes
  Valid,      \* blocks that pass every check of validate_block but the clock
  Time        \* the least clock at which a block is not a FutureTimestamp

ASSUME TreeAssumption ==
  /\ Genesis \in Block
  /\ Parent \in [Block \ {Genesis} -> Block]
  /\ Anc \in [Block -> SUBSET Block]
  /\ Anc[Genesis] = {Genesis}
  /\ \A b \in Block \ {Genesis} : Anc[b] = Anc[Parent[b]] \cup {b}

ASSUME WorkAssumption ==
  /\ Work \in [Block -> Nat \ {0}]
  /\ CumWork \in [Block -> Nat]
  /\ \A b \in Block \ {Genesis} : CumWork[b] = CumWork[Parent[b]] + Work[b]

\* Distinct blocks have distinct hashes.
ASSUME RankAssumption ==
  /\ Rank \in [Block -> Nat]
  /\ \A b, c \in Block : Rank[b] = Rank[c] => b = c

ASSUME HeightAssumption ==
  /\ Height \in [Block -> Nat]
  /\ Height[Genesis] = 0
  /\ \A b \in Block \ {Genesis} : Height[b] = Height[Parent[b]] + 1

\* Timestamps strictly increase along a chain (validate_header_context), for
\* valid blocks; Genesis is never validated against the clock.
ASSUME ValidAssumption ==
  /\ Valid \subseteq Block
  /\ Genesis \in Valid
  /\ Time \in [Block -> Nat]
  /\ Time[Genesis] = 0
  /\ \A b \in Valid \ {Genesis} : Time[b] >= Time[Parent[b]]

\* The comparison of consider_chain: more work wins, a tie goes to the lower
\* tip hash.
Preferred(b, c) ==
  \/ CumWork[b] > CumWork[c]
  \/ CumWork[b] = CumWork[c] /\ Rank[b] < Rank[c]

\* Every block of b's chain passes validation: what from_blocks demands of a
\* chain, the clock aside.
ValidChain(b) == Anc[b] \subseteq Valid
=============================================================================
