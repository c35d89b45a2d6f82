----------------------------- MODULE ForkChoice -----------------------------
(***************************************************************************)
(* What the chain component promises, whatever happens to the process: the *)
(* node follows one chain, that chain is valid, and it is only ever        *)
(* replaced by one the fork choice prefers ("the valid chain with the      *)
(* greatest real L1 work wins", src/src/consensus/chain.rs:127-130).       *)
(* Crashes, failed writes and restarts are invisible here.                 *)
(***************************************************************************)
EXTENDS BlockTree

VARIABLE tip   \* the last block of the chain the node follows

\* A new database starts with the genesis chain.
Init == tip = Genesis

\* The node moves to the chain that ends in b.
Adopt(b) ==
  /\ ValidChain(b)
  /\ Preferred(b, tip)
  /\ tip' = b

Next == \E b \in Block : Adopt(b)

Spec == Init /\ [][Next]_tip
=============================================================================
