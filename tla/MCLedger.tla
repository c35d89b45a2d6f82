------------------------------ MODULE MCLedger ------------------------------
(***************************************************************************)
(* Two miners, three addresses and four transactions: t1 spends the whole  *)
(* first reward of address 1, fee included; t2 is the next one of 1; t3    *)
(* returns what 2 got from t1, with a fee that t1 alone does not cover;    *)
(* t4 carries no valid signature.                                          *)
(***************************************************************************)
EXTENDS Queries

T(s, r, amt, f, n, ok) ==
  [sender |-> s, recipient |-> r, amount |-> amt, fee |-> f, nonce |-> n,
   signed |-> ok]

MCTx == {T(1, 2, 19, 1, 0, TRUE), T(1, 3, 4, 0, 1, TRUE),
         T(2, 1, 18, 2, 0, TRUE), T(1, 2, 1, 0, 0, FALSE)}
MCWitness == {[a \in Addr |-> 0], [a \in Addr |-> IF a < 3 THEN a ELSE 0]}
=============================================================================
