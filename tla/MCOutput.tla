------------------------------ MODULE MCOutput ------------------------------
(* A run saves the time and a voltage, or the time and a current that may  *)
(* not be found; the caller's vector replaces that of the one and is new   *)
(* in the other.  The constant plot has as many vectors as a run.          *)
EXTENDS OutputVectors

MCQuantities == {"time", "v1", "@d1[id]"}
MCSpecials   == {"@d1[id]"}
MCSaves      == {<<"time", "v1">>, <<"time", "@d1[id]">>}
MCUserNames  == {"v1"}
MCConstNames == <<"pi", "yes">>
=============================================================================
