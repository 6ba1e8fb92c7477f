------------------------- MODULE SharedSpiceClients -------------------------
(***************************************************************************)
(* What the threads of the shared library promise to callers of different  *)
(* discipline.  SharedSpice!Spec is the caller that sends any command at   *)
(* any time; the specifications below restrict when it sends one.          *)
(***************************************************************************)
EXTENDS SharedSpice

(* The caller has seen the start of every background thread it created,    *)
(* and starts a run, or loads a netlist, only after the last run's end.    *)
Announced == \A b \in BgThreads : pc[b] \notin {"born", "live"}

Patient(c) ==
    /\ Announced
    /\ c \in {"bg_run", "bg_ctrl", "circ"} => noted # "running"

(* A caller that, once it started a run with controls waiting for it, sends *)
(* nothing until the controls have run; that prepares controls only when no *)
(* others wait and no background thread is on its way out; and that starts *)
(* the run of prepared controls only when none is.                         *)
NoControls   == \A t \in CtThreads : pc[t] \in {"off", "ended"}
NoBackground == \A b \in BgThreads : pc[b] = "off"

Quiet(c) ==
    /\ NoControls \/ NoBackground
    /\ c \in {"circ", "bg_ctrl"} => NoControls /\ NoBackground
    /\ c = "bg_run" /\ tid2 # NoThread => NoBackground

(* A patient caller of netlists without controlswait.                      *)
Serial ==
    \/ AppReturns
    \/ \E b \in BgThreads : BgStep(b)
    \/ \E t \in {App} \cup BgThreads : SharedExit(t) \/ SharedExitEnd(t)
PatientNext == (\E c \in Commands : Issue(c) /\ Patient(c)) \/ Serial
PatientSpec == Init /\ [][PatientNext]_vars

(* A patient caller that uses controlswait.                                *)
WaitingNext == (\E c \in Commands : Issue(c) /\ Patient(c)) \/ Library
WaitingSpec == Init /\ [][WaitingNext]_vars

(* One that waits for its controls, too.                                   *)
QuietNext == (\E c \in Commands : Issue(c) /\ Patient(c) /\ Quiet(c)) \/ Library
QuietSpec == Init /\ [][QuietNext]_vars

-----------------------------------------------------------------------------
(* Safety.                                                                 *)

(* At most one thread executes commands on the simulator's global state    *)
(* (circuits, plots, the interpreter's stacks), as runc's guard intends:   *)
(* "cannot do anything if ngspice is running in the bg".                   *)
Exclusive == \A t, u \in Busy : t = u

(* ngSpice_running "returns TRUE if ngspice is running in a second         *)
(* (background) thread": no background thread simulates behind its back.   *)
RunningIsReported ==
    \A b \in BgThreads : pc[b] \in {"evloop", "sim"} => ngSpice_running

(* After bg_halt reported the thread as stopped, or a new command cleaned  *)
(* up after it, no background thread executes or is still to execute.      *)
StoppedMeansStopped ==
    ~fl_running => \A b \in BgThreads : pc[b] \notin {"born", "live", "evloop", "sim"}

(* shared_exit ends worker threads only, and jumps only in the caller's:   *)
(* "if we are in a worker thread, we exit it here".                        *)
OnlyWorkersExit ==
    /\ pc[App] \notin {"dying", "killed"}
    /\ \A t \in BgThreads \cup CtThreads : pc[t] # "wild"

-----------------------------------------------------------------------------
(* The inductive invariant of a patient caller without controlswait.       *)
Active(b) == pc[b] \in {"born", "live", "evloop", "sim", "done"}
NoneActive == \A b \in BgThreads : ~Active(b)

OneActive == \A b, d \in BgThreads : Active(b) /\ Active(d) => b = d

NoControlsThreads ==
    /\ ~shcontrols /\ tid2 = NoThread
    /\ \A c \in CtThreads : pc[c] = "off"

(* The flags tell what the background threads do.                          *)
FlagsAreRight ==
    /\ \A b \in BgThreads : Active(b) => fl_running
    /\ \A b \in BgThreads : pc[b] \in {"live", "evloop", "sim", "done"} => ~fl_exited
    /\ ~fl_exited => \E b \in BgThreads : pc[b] \in {"live", "evloop", "sim", "done"}
    /\ \A b \in BgThreads : pc[b] \in {"evloop", "sim", "done"} => noted = "running"

(* Where the caller may be while a background thread is active.            *)
CallerIsRight ==
    /\ pc[App] \notin {"clear", "spawn", "dying", "killed"}
    /\ pc[App] # "idle" => Announced
    /\ pc[App] \in {"create", "exec", "circ"} => NoneActive
    /\ pc[App] \in {"create", "exec"} => ~fl_running
    /\ pc[App] \in {"stop", "stopping", "stopped"} /\ command # "bg_halt" => NoneActive

WorkersAreRight == \A b \in BgThreads : pc[b] \notin {"signalled", "join", "wild"}

(* Together they make one background run exclude the caller's requests;    *)
(* each part is needed to keep the others.                                 *)
PatientInv ==
    /\ OneActive
    /\ NoControlsThreads
    /\ FlagsAreRight
    /\ CallerIsRight
    /\ WorkersAreRight

-----------------------------------------------------------------------------
(* Fairness.  Every thread that can take a step takes one, but nothing     *)
(* makes a simulation complete, fail, or find no circuit.                  *)
BgProgress(b) ==
    \/ BgStart(b) \/ BgNotifyStart(b) \/ BgDosim(b) \/ BgPause(b)
    \/ BgExit(b) \/ BgNotifyEnd(b) \/ BgNoControls(b)
    \/ BgSignal(b) \/ BgJoin(b) \/ BgJoined(b) \/ SharedExitEnd(b)

CtProgress(c) ==
    \/ CtWait(c) \/ CtWake(c) \/ CtBegin(c) \/ CtExit(c) \/ CtEnd(c)
    \/ SharedExitEnd(c)

Scheduling ==
    /\ WF_vars(AppReturns)
    /\ \A b \in BgThreads : WF_vars(BgProgress(b))
    /\ \A c \in CtThreads : WF_vars(CtProgress(c))

(* A caller that asks for bg_halt again and again.                         *)
Halting == SF_vars(Issue("bg_halt") /\ Patient("bg_halt"))

PatientFair == PatientSpec /\ Scheduling /\ Halting
QuietFair   == QuietSpec /\ Scheduling

(* Every call returns to the caller, however long the simulation runs: the *)
(* wait for a thread that does not stop is bounded.                        *)
CallsReturn == pc[App] # "idle" ~> pc[App] = "idle"

(* A caller that keeps asking stops every run, although dosim may erase a  *)
(* request that came too early and a bg_halt may give up.                  *)
HaltEndsRun == \A b \in BgThreads : pc[b] \in {"evloop", "sim"} ~> pc[b] = "off"

(* The header promises that the tid2 thread is released when the           *)
(* background thread is ready: the thread that the ending run is to        *)
(* release does run its commands.                                          *)
ControlsReleased ==
    \A c \in CtThreads :
        (tid2 = c /\ \E b \in BgThreads : pc[b] = "release") ~> pc[c] = "controls"

-----------------------------------------------------------------------------
(* The abstraction: the background run and the caller's request.           *)
runOf ==
    IF \E b \in BgThreads : pc[b] \in {"born", "live", "evloop", "sim", "done"}
    THEN "active"
    ELSE IF fl_running THEN "finished" ELSE "none"

Abstract == INSTANCE BackgroundRun WITH
    run <- runOf, foreground <- (pc[App] \in {"exec", "circ"})

(* The threads and flags together behave as one run that excludes the      *)
(* caller's own requests (runc, _thread_run and _thread_stop).             *)
RefinesRun == Abstract!Spec
=============================================================================
