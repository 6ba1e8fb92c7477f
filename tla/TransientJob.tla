---------------------------- MODULE TransientJob ----------------------------
(***************************************************************************)
(* What the user of a simulator may expect of a transient analysis: the    *)
(* simulated time only moves forward and never past its end, an analysis   *)
(* that was stopped goes on where it stopped, and one that is done has     *)
(* come to its end.                                                        *)
(***************************************************************************)
EXTENDS Integers

CONSTANTS
    Final,      \* the end of the simulated time
    Tolerance   \* an analysis this close to its end is done

VARIABLES
    job,        \* "none", "running" or "stopped"
    now         \* the simulated time of the last point

vars == <<job, now>>

Init == job = "none" /\ now = 0

Begin   == job # "running" /\ job' = "running" /\ now' = 0
Advance == job = "running" /\ now' > now /\ now' <= Final /\ UNCHANGED job
Pause   == job = "running" /\ job' = "stopped" /\ UNCHANGED now
Goon    == job = "stopped" /\ job' = "running" /\ UNCHANGED now
Finish  == job = "running" /\ Final - now < Tolerance /\ job' = "none" /\ UNCHANGED now
Fail    == job = "running" /\ job' = "failed" /\ UNCHANGED now
(* The circuit is thrown away, with whatever was going on.                 *)
Forget  == job # "running" /\ job' = "none" /\ now' = 0

Next == Begin \/ Advance \/ Pause \/ Goon \/ Finish \/ Fail \/ Forget

Spec == Init /\ [][Next]_vars
=============================================================================
