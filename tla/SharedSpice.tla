---------------------------- MODULE SharedSpice ----------------------------
(***************************************************************************)
(* Threads of the ngspice shared library (sharedspice.c, built with        *)
(* HAVE_LIBPTHREAD).  The caller's thread issues commands with             *)
(* ngSpice_Command and circuits with ngSpice_Circ; a command with the      *)
(* prefix bg_ runs in a new background thread; a netlist whose .control    *)
(* section sets "controlswait" hands its commands to a controls thread     *)
(* that waits on a condition variable for the background thread to finish. *)
(*                                                                         *)
(* The threads share plain (unsynchronised) flags.  An action reads and    *)
(* writes what the code touches between two points where another thread    *)
(* may be seen to interfere.  triggerMutex is not a variable: each of its  *)
(* critical sections is one action, and the writes to cont_condition made  *)
(* without it are actions of their own.                                    *)
(***************************************************************************)
EXTENDS Naturals, FiniteSets

CONSTANTS
    App,            \* the thread that calls the library
    BgThreads,      \* the background threads that can exist at one time
    CtThreads,      \* the controls threads that can exist at one time
    NoThread,       \* tid2 = 0
    MaxTimeout      \* iterations of the wait in _thread_stop (100 in the code)

ASSUME ThreadsAssumption ==
    /\ App \notin BgThreads \cup CtThreads
    /\ NoThread \notin BgThreads \cup CtThreads \cup {App}
    /\ BgThreads \cap CtThreads = {}

ASSUME TimeoutAssumption == MaxTimeout \in Nat \ {0}

VARIABLES
    fl_running,     \* a background run was started and not yet cleaned up
    fl_exited,      \* no worker thread is executing commands
    ft_intrpt,      \* asks the running simulation to stop
    cont_condition, \* predicate of the condition variable
    tid2,           \* the controls thread to release, or NoThread
    shcontrols,     \* the controls of the last netlist are stored
    noted,          \* argument of the last BGThreadRunning callback, or "none"
    pc,             \* where each thread is
    command,        \* the caller's current request
    timeout,        \* iterations of _thread_stop so far
    waiting,        \* controls threads inside pthread_cond_wait
    joinee          \* the thread each background thread joins, or NoThread

flags    == <<fl_running, fl_exited, ft_intrpt>>
controls == <<cont_condition, tid2, shcontrols, waiting, joinee>>
caller   == <<command, timeout>>
vars     == <<flags, controls, caller, noted, pc>>

Threads  == {App} \cup BgThreads \cup CtThreads

(* bg_run stands for every command with the prefix bg_ that runs in the    *)
(* background, cmd for every command without it, circ for ngSpice_Circ.    *)
Commands == {"bg_run", "bg_halt", "bg_ctrl", "cmd", "circ"}

AppLabels == {"idle", "runc", "guard", "stop", "stopping", "stopped",
              "create", "exec", "circ", "clear", "spawn", "dying", "killed"}
BgLabels  == {"off", "born", "live", "evloop", "sim", "done", "told",
              "release", "signalled", "join", "dying", "wild"}
CtLabels  == {"off", "start", "waiting", "woken", "go", "controls",
              "finish", "ended", "dying", "wild"}

TypeOK ==
    /\ fl_running \in BOOLEAN
    /\ fl_exited \in BOOLEAN
    /\ ft_intrpt \in BOOLEAN
    /\ cont_condition \in BOOLEAN
    /\ shcontrols \in BOOLEAN
    /\ tid2 \in CtThreads \cup {NoThread}
    /\ noted \in {"none", "exited", "running"}
    /\ pc \in [Threads -> AppLabels \cup BgLabels \cup CtLabels]
    /\ pc[App] \in AppLabels
    /\ \A b \in BgThreads : pc[b] \in BgLabels
    /\ \A c \in CtThreads : pc[c] \in CtLabels
    /\ command \in Commands
    /\ timeout \in 0..MaxTimeout
    /\ waiting \subseteq CtThreads
    /\ joinee \in [BgThreads -> CtThreads \cup {NoThread}]

(* Threads that are executing simulator code on the one set of circuits.   *)
BusyLabels == {"exec", "circ", "evloop", "sim", "controls"}
Busy == {t \in Threads : pc[t] \in BusyLabels}

ngSpice_running == fl_running /\ ~fl_exited

Init ==
    /\ fl_running = FALSE /\ fl_exited = TRUE /\ ft_intrpt = FALSE
    /\ cont_condition = FALSE /\ tid2 = NoThread /\ shcontrols = FALSE
    /\ noted = "none"
    /\ pc = [t \in Threads |-> IF t = App THEN "idle" ELSE "off"]
    /\ command = "cmd" /\ timeout = 0
    /\ waiting = {}
    /\ joinee = [b \in BgThreads |-> NoThread]

Moves(t, from, to) == pc[t] = from /\ pc' = [pc EXCEPT ![t] = to]

-----------------------------------------------------------------------------
(* The caller: ngSpice_Command (runc) and ngSpice_Circ.                    *)

Issue(c) ==
    /\ Moves(App, "idle", IF c = "circ" THEN "circ" ELSE "runc")
    /\ command' = c
    /\ UNCHANGED <<flags, controls, timeout, noted>>

(* runc, the first test: a bg_ command is started only if no worker thread *)
(* is active; otherwise it goes the way of any other command, and is one   *)
(* from here on.                                                           *)
Runc ==
    /\ Moves(App, "runc",
             CASE command = "bg_run" /\ fl_exited /\ fl_running  -> "stop"
               [] command = "bg_run" /\ fl_exited /\ ~fl_running -> "create"
               [] command = "bg_halt"                            -> "stop"
               [] command = "bg_ctrl" /\ shcontrols              -> "clear"
               [] command = "bg_ctrl" /\ ~shcontrols             -> "idle"
               [] OTHER                                          -> "guard")
    /\ timeout' = 0
    /\ command' = IF command = "bg_run" /\ ~fl_exited THEN "cmd" ELSE command
    /\ UNCHANGED <<flags, controls, noted>>

(* Slip: the guard does not look whether the thread has exited.            *)
GuardBlind ==
    /\ Moves(App, "guard", IF ~fl_running THEN "exec" ELSE "stop")
    /\ UNCHANGED <<flags, controls, caller, noted>>

(* runc, "cannot do anything if ngspice is running in the bg".             *)
Guard ==
    /\ Moves(App, "guard", IF ~fl_running THEN "exec"
                           ELSE IF fl_exited THEN "stop" ELSE "idle")
    /\ UNCHANGED <<flags, controls, caller, noted>>

(* Where runc goes on after _thread_stop, whose result only bg_halt uses.  *)
AfterStop == CASE command = "bg_run"  -> "create"
               [] command = "bg_halt" -> "idle"
               [] OTHER               -> "exec"

StopEnter ==
    /\ Moves(App, "stop", IF fl_running THEN "stopping" ELSE AfterStop)
    /\ UNCHANGED <<flags, controls, caller, noted>>

(* Slip: the wait does not look at its counter.                            *)
StopWaitUnbounded ==
    /\ pc[App] = "stopping" /\ ~fl_exited
    /\ ft_intrpt' = TRUE
    /\ timeout' = timeout + 1
    /\ UNCHANGED <<fl_running, fl_exited, controls, command, noted, pc>>

(* Slip: the request is not raised again while waiting.                    *)
StopWaitOnce ==
    /\ pc[App] = "stopping" /\ ~fl_exited /\ timeout < MaxTimeout
    /\ timeout' = timeout + 1
    /\ UNCHANGED <<flags, controls, command, noted, pc>>

StopWait ==
    /\ pc[App] = "stopping" /\ ~fl_exited /\ timeout < MaxTimeout
    /\ ft_intrpt' = TRUE
    /\ timeout' = timeout + 1
    /\ UNCHANGED <<fl_running, fl_exited, controls, command, noted, pc>>

(* Slip: the wait has no end but the thread's.                             *)
StopLeavePatient ==
    /\ Moves(App, "stopping", "stopped")
    /\ fl_exited
    /\ UNCHANGED <<flags, controls, caller, noted>>

StopLeave ==
    /\ Moves(App, "stopping", "stopped")
    /\ fl_exited \/ timeout = MaxTimeout
    /\ UNCHANGED <<flags, controls, caller, noted>>

(* Slip: the flags are reset although the thread did not stop.             *)
StopReturnAlways ==
    /\ Moves(App, "stopped", AfterStop)
    /\ fl_running' = FALSE
    /\ ft_intrpt' = FALSE
    /\ UNCHANGED <<fl_exited, controls, caller, noted>>

(* The flags stay as they are when the thread could not be stopped.        *)
StopReturn ==
    /\ Moves(App, "stopped", AfterStop)
    /\ \/ ~fl_exited /\ UNCHANGED flags
       \/ /\ fl_exited
          /\ fl_running' = FALSE
          /\ ft_intrpt' = FALSE
          /\ UNCHANGED fl_exited
    /\ UNCHANGED <<controls, caller, noted>>

(* Slip: the run is not registered.                                        *)
CreateBgUnmarked(b) ==
    /\ pc[App] = "create" /\ pc[b] = "off"
    /\ pc' = [pc EXCEPT ![App] = "idle", ![b] = "born"]
    /\ UNCHANGED <<flags, controls, caller, noted>>

CreateBg(b) ==
    /\ pc[App] = "create" /\ pc[b] = "off"
    /\ fl_running' = TRUE
    /\ pc' = [pc EXCEPT ![App] = "idle", ![b] = "born"]
    /\ UNCHANGED <<fl_exited, ft_intrpt, controls, caller, noted>>

(* cp_evloop in the caller's thread.  docommand, in any thread, ends with  *)
(* cp_periodic, which clears the interrupt flag.                           *)
ExecReturn ==
    /\ Moves(App, "exec", "idle")
    /\ ft_intrpt' = FALSE
    /\ UNCHANGED <<fl_running, fl_exited, controls, caller, noted>>

(* A netlist is read in the caller's thread, whatever the flags say; with  *)
(* controlswait the rest of its controls go to exec_controls.  Those that  *)
(* are executed at once end as commands do.                                *)
CircReturn ==
    /\ Moves(App, "circ", "idle")
    /\ ft_intrpt' \in {ft_intrpt, FALSE}
    /\ UNCHANGED <<fl_running, fl_exited, controls, caller, noted>>

CircControls ==
    /\ Moves(App, "circ", "clear")
    /\ shcontrols' = TRUE
    /\ ft_intrpt' \in {ft_intrpt, FALSE}
    /\ UNCHANGED <<fl_running, fl_exited, cont_condition, tid2, waiting, joinee, caller, noted>>

(* exec_controls: cont_condition = FALSE, a short sleep, pthread_create.   *)
ExecControlsClear ==
    /\ Moves(App, "clear", "spawn")
    /\ cont_condition' = FALSE
    /\ UNCHANGED <<flags, tid2, shcontrols, waiting, joinee, caller, noted>>

(* A slot of a controls thread is free when its thread ended and nobody    *)
(* will join it.                                                           *)
CtFree(c) ==
    \/ pc[c] = "off"
    \/ pc[c] = "ended" /\ tid2 # c /\ \A b \in BgThreads : joinee[b] # c

ExecControlsSpawn(c) ==
    /\ pc[App] = "spawn" /\ CtFree(c)
    /\ tid2' = c
    /\ pc' = [pc EXCEPT ![App] = "idle", ![c] = "start"]
    /\ UNCHANGED <<flags, cont_condition, shcontrols, waiting, joinee, caller, noted>>

-----------------------------------------------------------------------------
(* A background thread: _thread_run.                                       *)

(* Slip: the thread does not say that it is active.                        *)
BgStartUnmarked(b) ==
    /\ Moves(b, "born", "live")
    /\ UNCHANGED <<flags, controls, caller, noted>>

BgStart(b) ==
    /\ Moves(b, "born", "live")
    /\ fl_exited' = FALSE
    /\ UNCHANGED <<fl_running, ft_intrpt, controls, caller, noted>>

(* The callback is given fl_exited as it is now.                           *)
Notification == IF fl_exited THEN "exited" ELSE "running"

BgNotifyStart(b) ==
    /\ Moves(b, "live", "evloop")
    /\ noted' = Notification
    /\ UNCHANGED <<flags, controls, caller>>

(* dosim clears the interrupt flag before the analysis begins; without a   *)
(* circuit it returns before that.                                         *)
BgDosim(b) ==
    /\ Moves(b, "evloop", "sim")
    /\ ft_intrpt' = FALSE
    /\ UNCHANGED <<fl_running, fl_exited, controls, caller, noted>>

BgNoCircuit(b) ==
    /\ Moves(b, "evloop", "done")
    /\ ft_intrpt' = FALSE
    /\ UNCHANGED <<fl_running, fl_exited, controls, caller, noted>>

(* OUTstopnow, asked after each time step: the run pauses.                 *)
BgPause(b) ==
    /\ Moves(b, "sim", "done")
    /\ ft_intrpt
    /\ ft_intrpt' = FALSE
    /\ UNCHANGED <<fl_running, fl_exited, controls, caller, noted>>

BgComplete(b) ==
    /\ Moves(b, "sim", "done")
    /\ ft_intrpt' = FALSE
    /\ UNCHANGED <<fl_running, fl_exited, controls, caller, noted>>

BgExit(b) ==
    /\ Moves(b, "done", "told")
    /\ fl_exited' = TRUE
    /\ UNCHANGED <<fl_running, ft_intrpt, controls, caller, noted>>

BgNotifyEnd(b) ==
    /\ Moves(b, "told", "release")
    /\ noted' = Notification
    /\ UNCHANGED <<flags, controls, caller>>

BgNoControls(b) ==
    /\ Moves(b, "release", "off")
    /\ tid2 = NoThread
    /\ UNCHANGED <<flags, controls, caller, noted>>

(* The critical section: set the predicate and wake one waiter, if any.    *)
BgSignal(b) ==
    /\ pc[b] = "release" /\ tid2 # NoThread
    /\ cont_condition' = TRUE
    /\ \/ /\ waiting = {}
          /\ pc' = [pc EXCEPT ![b] = "signalled"]
          /\ UNCHANGED waiting
       \/ \E c \in waiting :
          /\ pc' = [pc EXCEPT ![b] = "signalled", ![c] = "woken"]
          /\ waiting' = waiting \ {c}
    /\ UNCHANGED <<flags, tid2, shcontrols, joinee, caller, noted>>

(* pthread_join takes whatever tid2 is by now; joining 0 is undefined.     *)
BgJoin(b) ==
    /\ Moves(b, "signalled", IF tid2 = NoThread THEN "wild" ELSE "join")
    /\ joinee' = [joinee EXCEPT ![b] = tid2]
    /\ UNCHANGED <<flags, cont_condition, tid2, shcontrols, waiting, caller, noted>>

BgJoined(b) ==
    /\ pc[b] = "join" /\ pc[joinee[b]] \in {"ended", "off"}
    /\ pc' = [pc EXCEPT ![b] = "off", ![joinee[b]] = "off"]
    /\ joinee' = [joinee EXCEPT ![b] = NoThread]
    /\ tid2' = NoThread
    /\ UNCHANGED <<flags, cont_condition, shcontrols, waiting, caller, noted>>

-----------------------------------------------------------------------------
(* A controls thread: _cthread_run.                                        *)

CtWait(c) ==
    /\ Moves(c, "start", "waiting")
    /\ cont_condition' = FALSE
    /\ waiting' = waiting \cup {c}
    /\ UNCHANGED <<flags, tid2, shcontrols, joinee, caller, noted>>

(* POSIX lets pthread_cond_wait return without a signal.                   *)
SpuriousWakeup(c) ==
    /\ Moves(c, "waiting", "woken")
    /\ waiting' = waiting \ {c}
    /\ UNCHANGED <<flags, cont_condition, tid2, shcontrols, joinee, caller, noted>>

CtWake(c) ==
    /\ Moves(c, "woken", IF cont_condition THEN "go" ELSE "waiting")
    /\ waiting' = IF cont_condition THEN waiting ELSE waiting \cup {c}
    /\ UNCHANGED <<flags, cont_condition, tid2, shcontrols, joinee, caller, noted>>

CtBegin(c) ==
    /\ Moves(c, "go", "controls")
    /\ fl_exited' = FALSE
    /\ UNCHANGED <<fl_running, ft_intrpt, controls, caller, noted>>

(* Every command of the section clears the flag when it ends, an analysis  *)
(* also when it starts; the next command follows either way.               *)
CtAnalysis(c) ==
    /\ pc[c] = "controls" /\ ft_intrpt
    /\ ft_intrpt' = FALSE
    /\ UNCHANGED <<fl_running, fl_exited, controls, caller, noted, pc>>

CtExit(c) ==
    /\ Moves(c, "controls", "finish")
    /\ fl_exited' = TRUE
    /\ UNCHANGED <<fl_running, ft_intrpt, controls, caller, noted>>

CtEnd(c) ==
    /\ Moves(c, "finish", "ended")
    /\ cont_condition' = FALSE
    /\ UNCHANGED <<flags, tid2, shcontrols, waiting, joinee, caller, noted>>

-----------------------------------------------------------------------------
(* shared_exit, called by the thread t that is executing a command when    *)
(* the simulator gives up or reads "quit".  The flags, not the identity of *)
(* the thread, tell it whether it is a worker: if they say so the thread   *)
(* ends here, skipping the rest of its function; otherwise it jumps to the *)
(* entry point the caller used, which is undefined in any other thread.    *)
SharedExit(t) ==
    /\ t \in Busy
    /\ IF ngSpice_running
       THEN /\ fl_exited' = TRUE
            /\ pc' = [pc EXCEPT ![t] = "dying"]
       ELSE /\ pc' = [pc EXCEPT ![t] = IF t = App THEN "idle" ELSE "wild"]
            /\ UNCHANGED fl_exited
    /\ UNCHANGED <<fl_running, ft_intrpt, controls, caller, noted>>

(* The notification, then pthread_exit.                                    *)
Gone(t) == IF t = App THEN "killed" ELSE IF t \in BgThreads THEN "off" ELSE "ended"

SharedExitEnd(t) ==
    /\ Moves(t, "dying", Gone(t))
    /\ noted' = Notification
    /\ UNCHANGED <<flags, controls, caller>>

-----------------------------------------------------------------------------
AppReturns ==
    \/ Runc \/ Guard \/ StopEnter \/ StopWait \/ StopLeave \/ StopReturn
    \/ \E b \in BgThreads : CreateBg(b)
    \/ ExecReturn \/ CircReturn \/ ExecControlsClear
    \/ \E c \in CtThreads : ExecControlsSpawn(c)

BgStep(b) ==
    \/ BgStart(b) \/ BgNotifyStart(b) \/ BgDosim(b) \/ BgNoCircuit(b)
    \/ BgPause(b) \/ BgComplete(b) \/ BgExit(b) \/ BgNotifyEnd(b)
    \/ BgNoControls(b) \/ BgSignal(b) \/ BgJoin(b) \/ BgJoined(b)

CtStep(c) ==
    \/ CtWait(c) \/ SpuriousWakeup(c) \/ CtWake(c) \/ CtBegin(c)
    \/ CtAnalysis(c) \/ CtExit(c) \/ CtEnd(c)

Library ==
    \/ AppReturns \/ CircControls
    \/ \E b \in BgThreads : BgStep(b)
    \/ \E c \in CtThreads : CtStep(c)
    \/ \E t \in Threads : SharedExit(t) \/ SharedExitEnd(t)

Next == (\E c \in Commands : Issue(c)) \/ Library

Spec == Init /\ [][Next]_vars
=============================================================================
