----------------------------- MODULE MCSettings -----------------------------
(***************************************************************************)
(* One or two values for a field of every handler.                         *)
(***************************************************************************)
EXTENDS Settings

StartUnpaired ==
  [f \in Field |-> IF f = "enabled" THEN 1 ELSE 0]
StartPaired == [StartUnpaired EXCEPT !["agent"] = 1]

Q(h, f, v) == [handler |-> h, field |-> f, value |-> v]

MCRequest ==
  {Q("config", "name", 1), Q("mining", "mining", 1),
   Q("mining", "mode", 1), Q("pair", "agent", 1), Q("pair", "agent", 2),
   Q("unpair", "agent", 0), Q("peer", "peers", 1), Q("switch", "enabled", 0),
   Q("switch", "enabled", 1)}

\* An unpairing and a change of the performance settings.
UnpairRequest == {Q("unpair", "agent", 0), Q("mining", "mining", 1)}
=============================================================================
