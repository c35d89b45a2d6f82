------------------------------ MODULE MCMining ------------------------------
(***************************************************************************)
(* Small pools of workshares for TLC.                                      *)
(***************************************************************************)
EXTENDS Mining

\* Workshares of other miners: on the first block only, on every tip, also invalid
\* or on a block that this node never follows, or from a miner whose clock is
\* ahead.
RemoteFirst == [anchor : {0}, tmpl : Template, time : {1}, valid : {TRUE}]
RemoteInTime == [anchor : 0..MaxTip, tmpl : Template, time : {1}, valid : {TRUE}]
RemoteMixed ==
  LET t == CHOOSE u \in Template : TRUE
  IN  RemoteFirst
        \cup [anchor : {1}, tmpl : {t}, time : {1}, valid : BOOLEAN]
        \cup [anchor : {OtherTip}, tmpl : {t}, time : {1}, valid : {TRUE}]
RemoteAhead == [anchor : 0..MaxTip, tmpl : Template, time : {1, 2}, valid : {TRUE}]

OneSize == [t \in Template |-> 1]

\* What applies to the tips: every transaction list, or, of two, only one to the
\* block after the first.
AllApply == (0..MaxTip) \X Template
OneSpent == AllApply \ {<<1, CHOOSE t \in Template : TRUE>>}
=============================================================================
