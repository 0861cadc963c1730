--------------------------- MODULE MCDripSequences ---------------------------
(* Step lists for TLC: what a user may save, as sequences of delay_days.   *)
EXTENDS DripSequencesProps

ThreeLists == {<<>>, <<0>>, <<0, 1, 0>>}
=============================================================================
