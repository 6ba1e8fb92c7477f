------------------------- MODULE SharedSpiceProofs -------------------------
(***************************************************************************)
(* Proofs about the threads of the shared library, for any number of       *)
(* threads and any length of the wait in _thread_stop: the types, and for  *)
(* a patient caller the exclusion of the simulator's users.                *)
(***************************************************************************)
EXTENDS SharedSpiceClients, TLAPS

AllLabels == AppLabels \cup BgLabels \cup CtLabels

(* What TypeOK says of pc.                                                 *)
PcOK(p) ==
    /\ p \in [Threads -> AllLabels]
    /\ p[App] \in AppLabels
    /\ \A b \in BgThreads : p[b] \in BgLabels
    /\ \A c \in CtThreads : p[c] \in CtLabels

-----------------------------------------------------------------------------
(* The initial state of the library (sharedspice.c, its statics) has the    *)
(* types.                                                                  *)
LEMMA TypeInit == Init => TypeOK
<1> SUFFICES ASSUME Init
             PROVE  TypeOK
  OBVIOUS
<1>1. PcOK(pc)
  BY ThreadsAssumption DEF Init, PcOK, Threads, AllLabels, AppLabels, BgLabels, CtLabels
<1>2. /\ joinee \in [BgThreads -> CtThreads \cup {NoThread}]
      /\ tid2 \in CtThreads \cup {NoThread} /\ waiting \subseteq CtThreads
      /\ noted \in {"none", "exited", "running"}
  BY DEF Init
<1>3. command \in Commands /\ timeout \in 0..MaxTimeout
  BY TimeoutAssumption DEF Init, Commands
<1>4. /\ fl_running \in BOOLEAN /\ fl_exited \in BOOLEAN /\ ft_intrpt \in BOOLEAN
      /\ cont_condition \in BOOLEAN /\ shcontrols \in BOOLEAN
  BY DEF Init
<1> QED
  BY <1>1, <1>2, <1>3, <1>4 DEF TypeOK, PcOK, AllLabels

(* Every step of a thread, and every request of the caller, keeps them.    *)
LEMMA TypeStep == TypeOK /\ [Next]_vars => TypeOK'
<1> SUFFICES ASSUME TypeOK, [Next]_vars
             PROVE  TypeOK'
  OBVIOUS
<1> USE DEF TypeOK, Threads, AppLabels, BgLabels, CtLabels, Commands,
            Moves, flags, controls, caller
<1>1. CASE UNCHANGED vars
  BY <1>1 DEF vars
<1>2. ASSUME NEW c \in Commands, Issue(c)
      PROVE  TypeOK'
  BY <1>2, ThreadsAssumption DEF Issue
<1>3. CASE Runc
  BY <1>3, ThreadsAssumption, TimeoutAssumption DEF Runc
<1>4. CASE Guard
  BY <1>4, ThreadsAssumption, TimeoutAssumption DEF Guard
<1>5. CASE StopEnter
  BY <1>5, ThreadsAssumption, TimeoutAssumption DEF StopEnter, AfterStop
<1>6. CASE StopWait
  BY <1>6, ThreadsAssumption, TimeoutAssumption DEF StopWait
<1>7. CASE StopLeave
  BY <1>7, ThreadsAssumption, TimeoutAssumption DEF StopLeave
<1>8. CASE StopReturn
  BY <1>8, ThreadsAssumption, TimeoutAssumption DEF StopReturn, AfterStop
<1>9. CASE ExecReturn
  BY <1>9, ThreadsAssumption, TimeoutAssumption DEF ExecReturn
<1>10. CASE CircReturn
  BY <1>10, ThreadsAssumption, TimeoutAssumption DEF CircReturn
<1>11. CASE ExecControlsClear
  BY <1>11, ThreadsAssumption, TimeoutAssumption DEF ExecControlsClear
<1>12. CASE CircControls
  BY <1>12, ThreadsAssumption, TimeoutAssumption DEF CircControls
<1>13. ASSUME NEW b \in BgThreads, CreateBg(b) PROVE TypeOK'
  BY <1>13, ThreadsAssumption, TimeoutAssumption DEF CreateBg
<1>14. ASSUME NEW b \in BgThreads, BgStart(b) PROVE TypeOK'
  BY <1>14, ThreadsAssumption, TimeoutAssumption DEF BgStart
<1>15. ASSUME NEW b \in BgThreads, BgNotifyStart(b) PROVE TypeOK'
  BY <1>15, ThreadsAssumption, TimeoutAssumption DEF BgNotifyStart, Notification
<1>16. ASSUME NEW b \in BgThreads, BgDosim(b) PROVE TypeOK'
  BY <1>16, ThreadsAssumption, TimeoutAssumption DEF BgDosim
<1>17. ASSUME NEW b \in BgThreads, BgNoCircuit(b) PROVE TypeOK'
  BY <1>17, ThreadsAssumption, TimeoutAssumption DEF BgNoCircuit
<1>18. ASSUME NEW b \in BgThreads, BgPause(b) PROVE TypeOK'
  BY <1>18, ThreadsAssumption, TimeoutAssumption DEF BgPause
<1>19. ASSUME NEW b \in BgThreads, BgComplete(b) PROVE TypeOK'
  BY <1>19, ThreadsAssumption, TimeoutAssumption DEF BgComplete
<1>20. ASSUME NEW b \in BgThreads, BgExit(b) PROVE TypeOK'
  BY <1>20, ThreadsAssumption, TimeoutAssumption DEF BgExit
<1>21. ASSUME NEW b \in BgThreads, BgNotifyEnd(b) PROVE TypeOK'
  BY <1>21, ThreadsAssumption, TimeoutAssumption DEF BgNotifyEnd, Notification
<1>22. ASSUME NEW b \in BgThreads, BgNoControls(b) PROVE TypeOK'
  BY <1>22, ThreadsAssumption, TimeoutAssumption DEF BgNoControls
<1>23. ASSUME NEW b \in BgThreads, BgSignal(b) PROVE TypeOK'
  BY <1>23, ThreadsAssumption, TimeoutAssumption DEF BgSignal
<1>24. ASSUME NEW b \in BgThreads, BgJoin(b) PROVE TypeOK'
  BY <1>24, ThreadsAssumption, TimeoutAssumption DEF BgJoin
<1>25. ASSUME NEW b \in BgThreads, BgJoined(b) PROVE TypeOK'
  <2>1. pc' \in [Threads -> AllLabels] /\ pc'[App] = pc[App]
    BY <1>25, ThreadsAssumption DEF BgJoined, AllLabels
  <2>2. \A t \in BgThreads \cup CtThreads : pc'[t] = pc[t] \/ pc'[t] = "off"
    BY <1>25, ThreadsAssumption DEF BgJoined
  <2> QED
    BY <1>25, <2>1, <2>2, ThreadsAssumption DEF BgJoined, AllLabels
<1>26. ASSUME NEW c \in CtThreads, ExecControlsSpawn(c) PROVE TypeOK'
  BY <1>26, ThreadsAssumption, TimeoutAssumption DEF ExecControlsSpawn
<1>27. ASSUME NEW c \in CtThreads, CtWait(c) PROVE TypeOK'
  BY <1>27, ThreadsAssumption, TimeoutAssumption DEF CtWait
<1>28. ASSUME NEW c \in CtThreads, SpuriousWakeup(c) PROVE TypeOK'
  BY <1>28, ThreadsAssumption, TimeoutAssumption DEF SpuriousWakeup
<1>29. ASSUME NEW c \in CtThreads, CtWake(c) PROVE TypeOK'
  BY <1>29, ThreadsAssumption, TimeoutAssumption DEF CtWake
<1>30. ASSUME NEW c \in CtThreads, CtBegin(c) PROVE TypeOK'
  BY <1>30, ThreadsAssumption, TimeoutAssumption DEF CtBegin
<1>31. ASSUME NEW c \in CtThreads, CtAnalysis(c) PROVE TypeOK'
  <2>1. ft_intrpt' \in BOOLEAN /\ UNCHANGED <<fl_running, fl_exited, controls, caller, noted, pc>>
    BY <1>31 DEF CtAnalysis
  <2> QED
    BY <2>1
<1>32. ASSUME NEW c \in CtThreads, CtExit(c) PROVE TypeOK'
  BY <1>32, ThreadsAssumption, TimeoutAssumption DEF CtExit
<1>33. ASSUME NEW c \in CtThreads, CtEnd(c) PROVE TypeOK'
  BY <1>33, ThreadsAssumption, TimeoutAssumption DEF CtEnd
<1>34. ASSUME NEW t \in Threads, SharedExit(t) PROVE TypeOK'
  <2>1. PICK l \in {"dying", "idle", "wild"} :
          /\ pc' = [pc EXCEPT ![t] = l]
          /\ l = "idle" => t = App
          /\ l = "wild" => t # App
    BY <1>34 DEF SharedExit
  <2>2. pc' \in [Threads -> AllLabels] /\ \A u \in Threads : pc'[u] = IF u = t THEN l ELSE pc[u]
    BY <2>1 DEF AllLabels
  <2>3. fl_exited' \in BOOLEAN
    BY <1>34 DEF SharedExit
  <2> QED
    BY <1>34, <2>1, <2>2, <2>3, ThreadsAssumption DEF SharedExit, AllLabels
<1>35. ASSUME NEW t \in Threads, SharedExitEnd(t) PROVE TypeOK'
  BY <1>35, ThreadsAssumption, TimeoutAssumption DEF SharedExitEnd, Gone, Notification
<1> QED
  BY <1>1, <1>2, <1>3, <1>4, <1>5, <1>6, <1>7, <1>8, <1>9, <1>10, <1>11, <1>12,
     <1>13, <1>14, <1>15, <1>16, <1>17, <1>18, <1>19, <1>20, <1>21, <1>22, <1>23,
     <1>24, <1>25, <1>26, <1>27, <1>28, <1>29, <1>30, <1>31, <1>32, <1>33, <1>34, <1>35
  DEF Next, Library, AppReturns, BgStep, CtStep

(* The types hold for a caller that sends anything at any time, through    *)
(* every interleaving of the threads (sharedspice.c, runc to exec_controls *)
(* and shared_exit).                                                       *)
THEOREM TypeCorrect == Spec => []TypeOK
BY TypeInit, TypeStep, PTL DEF Spec

-----------------------------------------------------------------------------
(* A patient caller is one of the callers the library serves.              *)
LEMMA PatientIsNext == [PatientNext]_vars => [Next]_vars
BY DEF PatientNext, Serial, Next, Library, Threads

(* Before the first command no thread is active and nobody waits.          *)
LEMMA PatientInit == Init => PatientInv
BY ThreadsAssumption
DEF Init, PatientInv, OneActive, NoControlsThreads, FlagsAreRight, CallerIsRight,
    WorkersAreRight, Active, NoneActive, Announced, Threads

(* Every step of a patient caller and of its background threads keeps the  *)
(* flags truthful, one run active, and the caller out of its way.          *)
LEMMA PatientStep == TypeOK /\ PatientInv /\ [PatientNext]_vars => PatientInv'
<1> SUFFICES ASSUME TypeOK, PatientInv, [PatientNext]_vars
             PROVE  PatientInv'
  OBVIOUS
<1> USE DEF TypeOK, Threads, Moves, flags, controls, caller,
            PatientInv, OneActive, NoControlsThreads, FlagsAreRight, CallerIsRight,
            WorkersAreRight, Active, NoneActive, Announced
<1>1. CASE UNCHANGED vars
  BY <1>1 DEF vars
<1>2. ASSUME NEW c \in Commands, Issue(c), Patient(c) PROVE PatientInv'
  BY <1>2, ThreadsAssumption DEF Issue, Patient
<1>3. CASE Runc
  BY <1>3, ThreadsAssumption DEF Runc
<1>4. CASE Guard
  BY <1>4, ThreadsAssumption DEF Guard
<1>5. CASE StopEnter
  BY <1>5, ThreadsAssumption DEF StopEnter, AfterStop
<1>6. CASE StopWait
  BY <1>6, ThreadsAssumption DEF StopWait
<1>7. CASE StopLeave
  BY <1>7, ThreadsAssumption DEF StopLeave
<1>8. CASE StopReturn
  BY <1>8, ThreadsAssumption DEF StopReturn, AfterStop
<1>9. CASE ExecReturn
  BY <1>9, ThreadsAssumption DEF ExecReturn
<1>10. CASE CircReturn
  BY <1>10, ThreadsAssumption DEF CircReturn
<1>11. CASE ExecControlsClear
  BY <1>11, ThreadsAssumption DEF ExecControlsClear
<1>12. ASSUME NEW b \in BgThreads, CreateBg(b) PROVE PatientInv'
  BY <1>12, ThreadsAssumption DEF CreateBg
<1>13. ASSUME NEW b \in BgThreads, BgStart(b) PROVE PatientInv'
  BY <1>13, ThreadsAssumption DEF BgStart
<1>14. ASSUME NEW b \in BgThreads, BgNotifyStart(b) PROVE PatientInv'
  BY <1>14, ThreadsAssumption DEF BgNotifyStart, Notification
<1>15. ASSUME NEW b \in BgThreads, BgDosim(b) PROVE PatientInv'
  BY <1>15, ThreadsAssumption DEF BgDosim
<1>16. ASSUME NEW b \in BgThreads, BgNoCircuit(b) PROVE PatientInv'
  BY <1>16, ThreadsAssumption DEF BgNoCircuit
<1>17. ASSUME NEW b \in BgThreads, BgPause(b) PROVE PatientInv'
  BY <1>17, ThreadsAssumption DEF BgPause
<1>18. ASSUME NEW b \in BgThreads, BgComplete(b) PROVE PatientInv'
  BY <1>18, ThreadsAssumption DEF BgComplete
<1>19. ASSUME NEW b \in BgThreads, BgExit(b) PROVE PatientInv'
  BY <1>19, ThreadsAssumption DEF BgExit
<1>20. ASSUME NEW b \in BgThreads, BgNotifyEnd(b) PROVE PatientInv'
  BY <1>20, ThreadsAssumption DEF BgNotifyEnd, Notification
<1>21. ASSUME NEW b \in BgThreads, BgNoControls(b) PROVE PatientInv'
  BY <1>21, ThreadsAssumption DEF BgNoControls
<1>22. ASSUME NEW b \in BgThreads, BgSignal(b) PROVE PatientInv'
  BY <1>22, ThreadsAssumption DEF BgSignal
<1>23. ASSUME NEW b \in BgThreads, BgJoin(b) PROVE PatientInv'
  BY <1>23, ThreadsAssumption DEF BgJoin
<1>24. ASSUME NEW b \in BgThreads, BgJoined(b) PROVE PatientInv'
  BY <1>24, ThreadsAssumption DEF BgJoined
<1>25. ASSUME NEW c \in CtThreads, ExecControlsSpawn(c) PROVE PatientInv'
  BY <1>25 DEF ExecControlsSpawn
<1>26. ASSUME NEW t \in {App} \cup BgThreads, SharedExit(t) PROVE PatientInv'
  <2>1. CASE t = App
    <3>0. pc[App] \in {"exec", "circ"}
      BY <1>26, <2>1 DEF SharedExit, Busy, BusyLabels, AppLabels
    <3>1. ~ngSpice_running
      BY <3>0 DEF ngSpice_running
    <3> QED
      BY <1>26, <2>1, <3>1, ThreadsAssumption DEF SharedExit
  <2>2. CASE t \in BgThreads
    <3>1. ngSpice_running /\ pc[t] \in {"evloop", "sim"}
      BY <1>26, <2>2, ThreadsAssumption
      DEF SharedExit, ngSpice_running, Busy, BusyLabels, BgLabels
    <3> QED
      BY <1>26, <2>2, <3>1, ThreadsAssumption DEF SharedExit
  <2> QED
    BY <2>1, <2>2
<1>27. ASSUME NEW t \in {App} \cup BgThreads, SharedExitEnd(t) PROVE PatientInv'
  BY <1>27, ThreadsAssumption DEF SharedExitEnd, Gone, Notification
<1> QED
  BY <1>1, <1>2, <1>3, <1>4, <1>5, <1>6, <1>7, <1>8, <1>9, <1>10, <1>11,
     <1>12, <1>13, <1>14, <1>15, <1>16, <1>17, <1>18, <1>19, <1>20, <1>21,
     <1>22, <1>23, <1>24, <1>25, <1>26, <1>27
  DEF PatientNext, Serial, AppReturns, BgStep

(* For a caller that waits for the notifications, one background run       *)
(* excludes every other request, whatever the number of threads and the    *)
(* length of the wait in _thread_stop.                                     *)
THEOREM PatientCorrect == PatientSpec => [](TypeOK /\ PatientInv)
<1>1. Init => TypeOK /\ PatientInv
  BY TypeInit, PatientInit
<1>2. TypeOK /\ PatientInv /\ [PatientNext]_vars => TypeOK' /\ PatientInv'
  BY TypeStep, PatientStep, PatientIsNext
<1> QED
  BY <1>1, <1>2, PTL DEF PatientSpec

-----------------------------------------------------------------------------
(* What the invariant says of the states of a patient caller's run.        *)
LEMMA PatientSafety ==
    TypeOK /\ PatientInv =>
        Exclusive /\ RunningIsReported /\ StoppedMeansStopped /\ OnlyWorkersExit
<1> SUFFICES ASSUME TypeOK, PatientInv
             PROVE  Exclusive /\ RunningIsReported /\ StoppedMeansStopped /\ OnlyWorkersExit
  OBVIOUS
<1> USE DEF PatientInv, TypeOK, Threads
<1>1. Exclusive
  <2> SUFFICES ASSUME NEW t \in Busy, NEW u \in Busy
               PROVE  t = u
    BY DEF Exclusive
  <2>1. \A v \in Busy : v = App \/ (v \in BgThreads /\ Active(v))
    BY DEF Busy, BusyLabels, NoControlsThreads, BgLabels, CtLabels, Active
  <2>2. App \in Busy => NoneActive
    BY DEF Busy, BusyLabels, CallerIsRight, AppLabels
  <2>3. CASE t = App \/ u = App
    BY <2>1, <2>2, <2>3 DEF NoneActive
  <2>4. CASE t # App /\ u # App
    BY <2>1, <2>4 DEF OneActive
  <2> QED
    BY <2>3, <2>4
<1>2. RunningIsReported
  BY DEF RunningIsReported, ngSpice_running, FlagsAreRight, Active
<1>3. StoppedMeansStopped
  BY DEF StoppedMeansStopped, FlagsAreRight, Active
<1>4. OnlyWorkersExit
  BY DEF OnlyWorkersExit, CallerIsRight, WorkersAreRight, NoControlsThreads
<1> QED
  BY <1>1, <1>2, <1>3, <1>4

(* A patient caller and its background run never execute commands on the   *)
(* simulator's state at once (runc and its guard).                         *)
THEOREM PatientExclusive == PatientSpec => []Exclusive
BY PatientCorrect, PatientSafety, PTL

(* ngSpice_running is TRUE whenever a patient caller's run simulates.      *)
THEOREM PatientRunningIsReported == PatientSpec => []RunningIsReported
BY PatientCorrect, PatientSafety, PTL

(* Once _thread_stop has told a patient caller that the thread stopped, no *)
(* background thread executes or is still to execute.                      *)
THEOREM PatientStoppedMeansStopped == PatientSpec => []StoppedMeansStopped
BY PatientCorrect, PatientSafety, PTL

(* shared_exit never ends a patient caller's own thread, nor jumps out of  *)
(* a worker.                                                               *)
THEOREM PatientOnlyWorkersExit == PatientSpec => []OnlyWorkersExit
BY PatientCorrect, PatientSafety, PTL

-----------------------------------------------------------------------------
(* The refinement.  The steps of the abstract run, by what they do to the   *)
(* threads' activity, the flag and the caller's presence in the simulator. *)
InSimulator == pc[App] \in {"exec", "circ"}

(* A step that changes none of the three is no step of the abstract run.   *)
LEMMA Stutters ==
    ASSUME \A b \in BgThreads : Active(b)' <=> Active(b),
           fl_running' = fl_running, InSimulator' <=> InSimulator
    PROVE  [Abstract!Next]_(Abstract!vars)
<1>1. runOf' = runOf
  BY DEF runOf, Active
<1>2. (pc[App] \in {"exec", "circ"})' = (pc[App] \in {"exec", "circ"})
  BY DEF InSimulator
<1> QED
  BY <1>1, <1>2 DEF Abstract!vars

(* runc creates a thread when none is active and no run is registered.     *)
LEMMA Starts ==
    ASSUME NoneActive, ~fl_running, ~NoneActive', ~InSimulator, ~InSimulator'
    PROVE  [Abstract!Next]_(Abstract!vars)
<1>1. runOf = "none"
  BY DEF runOf, NoneActive, Active
<1>2. runOf' = "active"
  BY DEF runOf, NoneActive, Active
<1> QED
  BY <1>1, <1>2 DEF Abstract!Next, Abstract!Start, InSimulator

(* The last active thread sets fl_exited.                                  *)
LEMMA Finishes ==
    ASSUME ~NoneActive, NoneActive', fl_running', InSimulator' <=> InSimulator
    PROVE  [Abstract!Next]_(Abstract!vars)
<1>1. runOf = "active"
  BY DEF runOf, NoneActive, Active
<1>2. runOf' = "finished"
  BY DEF runOf, NoneActive, Active
<1> QED
  BY <1>1, <1>2 DEF Abstract!Next, Abstract!Finish, InSimulator

(* _thread_stop unregisters a run that is over, or finds none.             *)
LEMMA CleansUp ==
    ASSUME NoneActive, NoneActive', ~fl_running', ~InSimulator
    PROVE  [Abstract!Next]_(Abstract!vars)
<1>1. runOf \in {"none", "finished"}
  BY DEF runOf, NoneActive, Active
<1>2. runOf' = "none"
  BY DEF runOf, NoneActive, Active
<1> QED
  BY <1>1, <1>2 DEF Abstract!Next, Abstract!CleanUp, Abstract!Begin, Abstract!vars, InSimulator

(* The caller enters the simulator, or leaves it.                          *)
LEMMA Begins ==
    ASSUME NoneActive, pc' = [pc EXCEPT ![App] = pc'[App]], TypeOK,
           fl_running' = fl_running, ~InSimulator, InSimulator'
    PROVE  [Abstract!Next]_(Abstract!vars)
<1>1. \A b \in BgThreads : pc'[b] = pc[b]
  BY ThreadsAssumption DEF TypeOK, Threads
<1>2. runOf' = runOf /\ runOf # "active"
  BY <1>1 DEF runOf, NoneActive, Active
<1> QED
  BY <1>2 DEF Abstract!Next, Abstract!Begin, InSimulator

LEMMA Returns ==
    ASSUME pc' = [pc EXCEPT ![App] = pc'[App]], TypeOK,
           fl_running' = fl_running, InSimulator, ~InSimulator'
    PROVE  [Abstract!Next]_(Abstract!vars)
<1>1. \A b \in BgThreads : pc'[b] = pc[b]
  BY ThreadsAssumption DEF TypeOK, Threads
<1>2. runOf' = runOf
  BY <1>1 DEF runOf
<1> QED
  BY <1>2 DEF Abstract!Next, Abstract!Return, InSimulator

(* The library starts without a run (sharedspice.c, its statics).          *)
LEMMA AbstractInit == Init => Abstract!Init
<1> SUFFICES ASSUME Init
             PROVE  Abstract!Init
  OBVIOUS
<1>1. runOf = "none"
  BY ThreadsAssumption DEF Init, runOf, Threads
<1>2. (pc[App] \in {"exec", "circ"}) = FALSE
  BY ThreadsAssumption DEF Init, Threads
<1> QED
  BY <1>1, <1>2 DEF Abstract!Init

(* Each step of the caller and of its background threads is one step of    *)
(* the abstract run, or none.                                              *)
LEMMA AbstractStep ==
    TypeOK /\ PatientInv /\ [PatientNext]_vars => [Abstract!Next]_(Abstract!vars)
<1> SUFFICES ASSUME TypeOK, PatientInv, [PatientNext]_vars
             PROVE  [Abstract!Next]_(Abstract!vars)
  OBVIOUS
<1> USE DEF PatientInv, CallerIsRight, InSimulator, Moves, flags, controls, caller
<1>18. /\ App \in Threads /\ BgThreads \subseteq Threads /\ App \notin BgThreads
      /\ pc \in [Threads -> AppLabels \cup BgLabels \cup CtLabels]
  BY ThreadsAssumption DEF TypeOK, Threads
<1>1. CASE UNCHANGED vars
  BY <1>1, Stutters DEF vars, Active
<1>2. ASSUME NEW c \in Commands, Issue(c), Patient(c)
      PROVE  [Abstract!Next]_(Abstract!vars)
  <2>1. CASE c = "circ"
    <3>1. NoneActive
      BY <1>2, <2>1 DEF Patient, FlagsAreRight, NoneActive, Active, Announced
    <3>2. pc' = [pc EXCEPT ![App] = pc'[App]] /\ ~InSimulator /\ InSimulator'
      BY <1>2, <2>1, <1>18 DEF Issue
    <3> QED
      BY <1>2, <3>1, <3>2, Begins DEF Issue
  <2>2. CASE c # "circ"
    BY <1>2, <2>2, <1>18, Stutters DEF Issue, Active
  <2> QED
    BY <2>1, <2>2
<1>3. CASE Runc
  BY <1>3, <1>18, Stutters DEF Runc, Active
<1>4. CASE Guard
  <2>1. CASE fl_running
    BY <1>4, <2>1, <1>18, Stutters DEF Guard, Active
  <2>2. CASE ~fl_running
    <3>1. pc' = [pc EXCEPT ![App] = pc'[App]] /\ ~InSimulator /\ InSimulator'
      BY <1>4, <2>2, <1>18 DEF Guard
    <3>2. NoneActive
      BY <2>2 DEF FlagsAreRight, NoneActive
    <3> QED
      BY <1>4, <3>1, <3>2, Begins DEF Guard
  <2> QED
    BY <2>1, <2>2
<1>5. CASE StopEnter
  <2>1. CASE pc'[App] # "exec"
    BY <1>5, <2>1, <1>18, Stutters DEF StopEnter, AfterStop, Active
  <2>2. CASE pc'[App] = "exec"
    <3>1. /\ pc' = [pc EXCEPT ![App] = pc'[App]] /\ ~InSimulator /\ InSimulator'
          /\ ~fl_running
      BY <1>5, <2>2, <1>18 DEF StopEnter
    <3>2. NoneActive
      BY <3>1 DEF FlagsAreRight, NoneActive
    <3> QED
      BY <1>5, <3>1, <3>2, Begins DEF StopEnter
  <2> QED
    BY <2>1, <2>2
<1>6. CASE StopWait
  BY <1>6, Stutters DEF StopWait, Active
<1>7. CASE StopLeave
  BY <1>7, <1>18, Stutters DEF StopLeave, Active
<1>8. CASE StopReturn
  <2>1. CASE ~fl_exited
    <3>1. command = "bg_halt"
      BY <1>8, <2>1 DEF StopReturn, FlagsAreRight, NoneActive, Active
    <3> QED
      BY <1>8, <2>1, <3>1, <1>18, Stutters DEF StopReturn, AfterStop, Active
  <2>2. CASE fl_exited
    <3>1. NoneActive
      BY <1>8, <2>2 DEF StopReturn, FlagsAreRight, NoneActive, Active, Announced
    <3>2. NoneActive'
      BY <1>8, <3>1, <1>18 DEF StopReturn, NoneActive, Active
    <3>3. ~fl_running' /\ ~InSimulator
      BY <1>8, <2>2 DEF StopReturn
    <3> QED
      BY <3>1, <3>2, <3>3, CleansUp
  <2> QED
    BY <2>1, <2>2
<1>9. CASE ExecReturn
  <2>1. pc' = [pc EXCEPT ![App] = pc'[App]] /\ InSimulator /\ ~InSimulator'
    BY <1>9, <1>18 DEF ExecReturn
  <2> QED
    BY <1>9, <2>1, Returns DEF ExecReturn
<1>10. CASE CircReturn
  <2>1. pc' = [pc EXCEPT ![App] = pc'[App]] /\ InSimulator /\ ~InSimulator'
    BY <1>10, <1>18 DEF CircReturn
  <2> QED
    BY <1>10, <2>1, Returns DEF CircReturn
<1>11. ASSUME NEW b \in BgThreads, CreateBg(b)
       PROVE  [Abstract!Next]_(Abstract!vars)
  <2>1. NoneActive /\ ~fl_running /\ ~InSimulator
    BY <1>11 DEF CreateBg
  <2>2. ~InSimulator' /\ ~NoneActive'
    BY <1>11, <1>18 DEF CreateBg, NoneActive, Active
  <2> QED
    BY <2>1, <2>2, Starts
<1>12. ASSUME NEW b \in BgThreads,
              \/ BgStart(b) \/ BgNotifyStart(b) \/ BgDosim(b) \/ BgNoCircuit(b)
              \/ BgPause(b) \/ BgComplete(b) \/ BgNotifyEnd(b) \/ BgNoControls(b)
       PROVE  [Abstract!Next]_(Abstract!vars)
  <2>1. fl_running' = fl_running /\ pc'[App] = pc[App]
    BY <1>12, <1>18
    DEF BgStart, BgNotifyStart, BgDosim, BgNoCircuit, BgPause, BgComplete,
        BgNotifyEnd, BgNoControls
  <2>2. \A d \in BgThreads : Active(d)' <=> Active(d)
    BY <1>12, <1>18
    DEF BgStart, BgNotifyStart, BgDosim, BgNoCircuit, BgPause, BgComplete,
        BgNotifyEnd, BgNoControls, Active
  <2> QED
    BY <2>1, <2>2, Stutters
<1>13. ASSUME NEW b \in BgThreads, BgExit(b)
       PROVE  [Abstract!Next]_(Abstract!vars)
  <2>1. Active(b) /\ \A d \in BgThreads : Active(d) => d = b
    BY <1>13 DEF BgExit, OneActive, Active
  <2>2. fl_running' /\ ~NoneActive /\ (InSimulator' <=> InSimulator)
    BY <1>13, <2>1, <1>18 DEF BgExit, FlagsAreRight, NoneActive
  <2>3. NoneActive'
    BY <1>13, <2>1, <1>18 DEF BgExit, NoneActive, Active
  <2> QED
    BY <2>2, <2>3, Finishes
<1>14. ASSUME NEW b \in BgThreads, BgSignal(b) \/ BgJoin(b) \/ BgJoined(b)
       PROVE  [Abstract!Next]_(Abstract!vars)
  BY <1>14 DEF BgSignal, BgJoin, BgJoined, NoControlsThreads, WorkersAreRight
<1>15. ASSUME NEW t \in {App} \cup BgThreads, SharedExit(t)
       PROVE  [Abstract!Next]_(Abstract!vars)
  <2>1. CASE t = App
    <3>1. InSimulator
      BY <1>15, <2>1 DEF SharedExit, Busy, BusyLabels, TypeOK, AppLabels
    <3>2. ~ngSpice_running
      BY <3>1 DEF ngSpice_running, FlagsAreRight, NoneActive, Active
    <3>3. pc' = [pc EXCEPT ![App] = pc'[App]] /\ ~InSimulator'
      BY <1>15, <2>1, <3>2, <1>18 DEF SharedExit
    <3> QED
      BY <1>15, <3>1, <3>3, Returns DEF SharedExit
  <2>2. CASE t \in BgThreads
    <3>1. ngSpice_running /\ Active(t)
      BY <1>15, <2>2
      DEF SharedExit, ngSpice_running, FlagsAreRight, Active, Busy, BusyLabels, TypeOK, BgLabels
    <3>2. \A d \in BgThreads : Active(d) => d = t
      BY <2>2, <3>1 DEF OneActive
    <3>3. fl_running' /\ ~NoneActive /\ (InSimulator' <=> InSimulator)
      BY <1>15, <2>2, <3>1, <1>18 DEF SharedExit, ngSpice_running, NoneActive
    <3>4. NoneActive'
      BY <1>15, <2>2, <3>1, <3>2, <1>18 DEF SharedExit, NoneActive, Active
    <3> QED
      BY <3>3, <3>4, Finishes
  <2> QED
    BY <2>1, <2>2
<1>16. ASSUME NEW t \in {App} \cup BgThreads, SharedExitEnd(t)
       PROVE  [Abstract!Next]_(Abstract!vars)
  BY <1>16, <1>18, Stutters DEF SharedExitEnd, Gone, Active
<1>17. ~ExecControlsClear /\ \A c \in CtThreads : ~ExecControlsSpawn(c)
  BY DEF ExecControlsClear, ExecControlsSpawn
<1> QED
  BY <1>1, <1>2, <1>3, <1>4, <1>5, <1>6, <1>7, <1>8, <1>9, <1>10, <1>11,
     <1>12, <1>13, <1>14, <1>15, <1>16, <1>17
  DEF PatientNext, Serial, AppReturns, BgStep

(* For a patient caller the threads and flags of the library implement one *)
(* background run that excludes the caller's own requests: the unguarded   *)
(* flags are enough for a caller that waits for the notifications.         *)
THEOREM PatientRefines == PatientSpec => RefinesRun
<1>1. TypeOK /\ PatientInv /\ [PatientNext]_vars => [Abstract!Next]_(Abstract!vars)
  BY AbstractStep
<1> QED
  BY <1>1, AbstractInit, PatientCorrect, PTL DEF PatientSpec, RefinesRun, Abstract!Spec
=============================================================================
