--------------------------- MODULE BackgroundRun ---------------------------
(***************************************************************************)
(* What a caller may expect of "bg_run" and of the commands beside it: one *)
(* simulation at a time, either in the background or on behalf of a        *)
(* foreground request, and a finished run is cleaned up before anything    *)
(* else begins.                                                            *)
(***************************************************************************)
VARIABLES
    run,        \* the background run: "none", "active" or "finished"
    foreground  \* the caller's thread is executing a request

vars == <<run, foreground>>

Init == run = "none" /\ foreground = FALSE

Start      == run = "none" /\ ~foreground /\ run' = "active" /\ UNCHANGED foreground
Finish     == run = "active" /\ run' = "finished" /\ UNCHANGED foreground
(* Cleaning up serves the request at hand, which may begin at once.        *)
CleanUp    == run = "finished" /\ ~foreground /\ run' = "none" /\ foreground' \in BOOLEAN
(* A netlist may be read before the finished run is cleaned up.            *)
Begin      == run # "active" /\ ~foreground /\ foreground' = TRUE /\ UNCHANGED run
Return     == foreground /\ foreground' = FALSE /\ UNCHANGED run

Next == Start \/ Finish \/ CleanUp \/ Begin \/ Return

Spec == Init /\ [][Next]_vars
=============================================================================
