------------------------------- MODULE MCSync -------------------------------
(***************************************************************************)
(* Two branches, a1 .. a3 and b1 .. b4, on the block c after the genesis   *)
(* block, all of equal work. Ties go to a1, b2 and b3. With the dense part *)
(* of the locator cut to one entry, the locators of a2 and b3 skip the     *)
(* fork.                                                                   *)
(***************************************************************************)
EXTENDS Sync

MCBlock == {"g", "c", "a1", "a2", "a3", "b1", "b2", "b3", "b4"}
MCParent == [b \in MCBlock \ {"g"} |->
  CASE b = "c" -> "g" [] b \in {"a1", "b1"} -> "c"
    [] b = "a2" -> "a1" [] b = "a3" -> "a2"
    [] b = "b2" -> "b1" [] b = "b3" -> "b2" [] b = "b4" -> "b3"]
MCRank == [b \in MCBlock |->
  CASE b = "g" -> 0 [] b = "c" -> 1 [] b = "a1" -> 2 [] b = "b1" -> 3
    [] b = "b2" -> 4 [] b = "a2" -> 5 [] b = "b3" -> 6 [] b = "a3" -> 7
    [] b = "b4" -> 8]
MCAnc ==
  LET anc[b \in MCBlock] ==
        IF b = "g" THEN {"g"} ELSE anc[MCParent[b]] \cup {b} IN anc
MCHeight == [b \in MCBlock |-> Cardinality(MCAnc[b]) - 1]
MCWork == [b \in MCBlock |-> 1]
MCCumWork == [b \in MCBlock |-> Cardinality(MCAnc[b])]
MCTime == [b \in MCBlock |-> 0]

\* Two nodes, one dials the other.
Pair2 == {<<"n1", "n2">>}
None == {}
StartForked == [n \in Node |-> IF n = "n1" THEN "a2" ELSE "b3"]
StartFresh == [n \in Node |-> IF n = "n1" THEN "g" ELSE "b3"]
StartSame == [n \in Node |-> "c"]
MinedNone == [n \in Node |-> {}]
MinedNext == [n \in Node |-> IF n = "n2" THEN {"b4"} ELSE {}]
MinedBoth ==
  [n \in Node |-> IF n = "n1" THEN {"a1", "a2", "a3"} ELSE {"b1", "b2", "b3"}]

\* Three nodes in a row; n3 has the heavier branch.
Row3 == {<<"n1", "n2">>, <<"n2", "n3">>}
First2 == {<<"n1", "n2">>}
StartRow == [n \in Node |-> IF n = "n3" THEN "b2" ELSE "a1"]
=============================================================================
