----------------------------- MODULE MCMempool ------------------------------
(***************************************************************************)
(* a0 and its replacements r0 (pays enough more), c0 (does not) and u0     *)
(* (pays enough but cannot be funded) share the first slot of address 1;   *)
(* a1 is the next one of that sender; b0 belongs to address 2.             *)
(***************************************************************************)
EXTENDS Mempool

T(id, s, r, amt, f, n) ==
  [id |-> id, sender |-> s, recipient |-> r, amount |-> amt, fee |-> f,
   nonce |-> n, size |-> 1, signed |-> TRUE]

A0 == T(1, 1, 2, 3, 1, 0)
R0 == T(2, 1, 2, 2, 3, 0)
C0 == T(3, 1, 2, 2, 1, 0)
U0 == T(4, 1, 2, 9, 4, 0)
A1 == T(5, 1, 2, 3, 2, 1)
B0 == [T(6, 2, 1, 1, 4, 0) EXCEPT !.size = 2]

MCGenesis == [a \in Addr |-> [balance |-> IF a = 1 THEN 8 ELSE 4, nonce |-> 0]]
TxAll == {A0, R0, U0, A1, B0}
TxSmall == {A0, R0, C0, U0}
=============================================================================
