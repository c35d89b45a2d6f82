------------------------------ MODULE MCPeers -------------------------------
(***************************************************************************)
(* Two nodes dial a third one, which also has its own address among its    *)
(* peers; and a single connection.                                         *)
(***************************************************************************)
EXTENDS Peers

Star == {<<"a", "s">>, <<"b", "s">>, <<"s", "s">>}
OneDial == {<<"a", "s">>}
=============================================================================
