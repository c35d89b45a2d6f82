---------------------------- MODULE MCArithmetic ----------------------------
(***************************************************************************)
(* Instances of Arithmetic: limits so small that messages at and above all *)
(* of them can be enumerated, and those messages.                          *)
(***************************************************************************)
EXTENDS Arithmetic

MCLimit ==
  [allocation |-> 24, frame |-> 26, block |-> 22, tx |-> 4, txs |-> 2,
   template |-> 8, templates |-> 1, witness |-> 9, shares |-> 2, key |-> 1,
   signature |-> 1, locator |-> 2, headers |-> 2, urls |-> 2, url |-> 1,
   hello |-> 11, chain |-> 1, node_key |-> 1]

Texts == {<<>>, <<1>>}
Txs == [head : {0}, key : Texts, signature : Texts]
SmallTx == [head |-> 0, key |-> <<>>, signature |-> <<2>>]
TxLists == {<<>>, <<SmallTx, SmallTx>>} \cup {<<t>> : t \in Txs}
Templates == [head : {1}, txs : TxLists \cup {<<SmallTx, SmallTx, SmallTx>>}]
Witnesses ==
  [head : {0}, templates : {<<>>} \cup {<<t>> : t \in Templates},
   shares : {<<>>, <<3>>, <<3, 4>>, <<3, 4, 3>>}]
Blocks ==
  [head : {2}, claim : {<<>>, <<1>>}, txs : TxLists, witness : Witnesses]
Hellos ==
  [protocol : {9}, chain : Texts, genesis : {0}, key : {<<>>, <<1>>, <<1, 2>>},
   state : {3}, url : Texts, signature : Texts]
Lists == {<<>>, <<1>>, <<1, 2>>, <<1, 2, 1>>}
MCMessages ==
  [tag : {1}, value : Hellos]
    \cup [tag : {2, 3}, value : [kind : 0..5, id : {1}]]
    \cup [tag : {4}, value : Blocks] \cup [tag : {5}, value : Txs]
    \cup [tag : {6}, value : {1}] \cup [tag : {7}, value : Templates]
    \cup [tag : {8}, value : [locator : Lists, stop : {0}]]
    \cup [tag : {9}, value : Lists] \cup [tag : {10, 11}, value : {0, 5}]
    \cup [tag : {12}, value : {<<>>, <<<<1>>>>, <<<<1>>, <<>>>>,
                              <<<<1>>, <<1>>>>, <<<<1>>, <<>>, <<2>>>>}]

MCFactor == [x \in 0..3 |-> 4 + x]
=============================================================================
