---------------------------- MODULE MCTransient ----------------------------
(* A short analysis: breakpoints at least three ticks apart, some closer   *)
(* together than MinBreak.                                                 *)
EXTENDS TransientAnalysis

MCPoints == {0, 5, 8, 14}
=============================================================================
