---------------------------- MODULE MCChainStore ----------------------------
(***************************************************************************)
(* Block trees for TLC. The main one holds                                 *)
(*   a1 - a2 - a3    three blocks of work 1,                               *)
(*   b1 - b2         two blocks, of work 2 and 1: b1 ties with a2 and wins *)
(*                   by its hash, b2 ties with a3 and loses by it,         *)
(*   x1 - x2         an invalid child of a1 with a block on top of it,     *)
(*   f1              a child of b1; b2 and f1 are in the future at first.  *)
(***************************************************************************)
EXTENDS ChainStore

MCBlock == {"g", "a1", "a2", "a3", "b1", "b2", "x1", "x2", "f1"}
MCParent == [b \in MCBlock \ {"g"} |->
  CASE b \in {"a1", "b1"} -> "g"
    [] b \in {"a2", "x1"} -> "a1"
    [] b = "a3" -> "a2"
    [] b \in {"b2", "f1"} -> "b1"
    [] b = "x2" -> "x1"]
MCWork == [b \in MCBlock |->
  CASE b = "b1" -> 2 [] b = "x1" -> 9 [] OTHER -> 1]
MCRank == [b \in MCBlock |->
  CASE b = "g" -> 0 [] b = "b1" -> 1 [] b = "a1" -> 2 [] b = "a2" -> 3
    [] b = "a3" -> 4 [] b = "b2" -> 5 [] b = "x1" -> 6 [] b = "x2" -> 7
    [] b = "f1" -> 8]
MCValid == MCBlock \ {"x1"}
MCTime == [b \in MCBlock |-> CASE b = "f1" -> 2 [] b = "b2" -> 1 [] OTHER -> 0]

\* A tree for the snapshot table: b1 alone outweighs a1 - a2 - a3 - a4.
SnapBlock == {"g", "a1", "a2", "a3", "a4", "b1"}
SnapParent == [b \in SnapBlock \ {"g"} |->
  CASE b \in {"a1", "b1"} -> "g" [] b = "a2" -> "a1"
    [] b = "a3" -> "a2" [] b = "a4" -> "a3"]
SnapWork == [b \in SnapBlock |-> IF b = "b1" THEN 5 ELSE 1]
SnapRank == [b \in SnapBlock |->
  CASE b = "g" -> 0 [] b = "a1" -> 1 [] b = "a2" -> 2 [] b = "a3" -> 3
    [] b = "a4" -> 4 [] b = "b1" -> 5]
SnapTime == [b \in SnapBlock |-> 0]

\* Heights, ancestors and cumulative work of a tree, from its parents.
HeightOf(blocks, parent) ==
  LET h[b \in blocks] == IF b = "g" THEN 0 ELSE h[parent[b]] + 1 IN h
AncOf(blocks, parent) ==
  LET a[b \in blocks] ==
        IF b = "g" THEN {"g"} ELSE a[parent[b]] \cup {b} IN a
CumWorkOf(blocks, parent, work) ==
  LET c[b \in blocks] ==
        IF b = "g" THEN work[b] ELSE c[parent[b]] + work[b] IN c

MCHeight == HeightOf(MCBlock, MCParent)
MCAnc == AncOf(MCBlock, MCParent)
MCCumWork == CumWorkOf(MCBlock, MCParent, MCWork)
SnapHeight == HeightOf(SnapBlock, SnapParent)
SnapAnc == AncOf(SnapBlock, SnapParent)
SnapCumWork == CumWorkOf(SnapBlock, SnapParent, SnapWork)
=============================================================================
