------------------------- MODULE TransientAnalysis -------------------------
(***************************************************************************)
(* A transient analysis of ngspice (DCtran, dctran.c) with the commands    *)
(* that start, stop and resume it (runcoms.c, runcoms2.c, spiceif.c,       *)
(* cktdojob.c) and the calls of the shared library that reach into it      *)
(* (ngSpice_SetBkpt, sharedsync).  The simulated time and its steps are    *)
(* integers (ticks); what the numerics decide (whether an iteration        *)
(* converges, the step that the truncation error allows) is a choice.      *)
(***************************************************************************)
EXTENDS Breakpoints

CONSTANTS
    Final, MaxStep, TStep,   \* tstop, tmax and tstep of the analysis
    DelMin, MinBreak,       \* 1e-11 and 5e-5 of tmax
    Margin,                 \* 1.1 DelMin
    Cut, Shrink,            \* 10 and 8: what a step is divided by
    InitDelta, InitSave,    \* the first step and the step remembered at first
    Points,                 \* the times for which breakpoints are wanted
    MaxPrelim,              \* bound on the breakpoints stored before a run
    MaxSteps,               \* bound on the number given to step
    MaxTable,               \* bound on the table that a caller or a device extends
    UIC,                    \* the analysis starts from given values
    wantsync,               \* the caller has a callback for synchronisation
    RedoPastEnd             \* it asks for a step again at the end of the run, too

ASSUME StepAssumption ==
    /\ {Final, MaxStep, TStep, InitDelta, InitSave, DelMin, MinBreak, Margin} \subseteq Nat \ {0}
    /\ Cut \in Nat /\ Shrink \in Nat /\ Cut > 1 /\ Shrink > 1
    /\ 2 * DelMin < MinBreak /\ Margin < MinBreak /\ MinBreak < Final
    /\ InitDelta <= TStep
    /\ {MaxPrelim, MaxSteps, MaxTable} \subseteq Nat
    /\ {UIC, wantsync, RedoPastEnd} \subseteq BOOLEAN

(* Times closer than two minimal steps are one time.                       *)
ASSUME PointsAssumption ==
    /\ Points \subseteq 0..Final /\ {0, Final, TStep} \subseteq Points
    /\ \A p, q \in Points : p # q => p - q > 2 * DelMin \/ q - p > 2 * DelMin

VARIABLES
    pc,             \* where DCtran is; "idle" when no analysis runs
    time, delta,    \* CKTtime and CKTdelta
    saveDelta,      \* CKTsaveDelta, the step before it was cut
    firsttime,      \* the first step is not yet made
    atBreak,        \* CKTbreak: the last step led to a breakpoint
    breaks,         \* CKTbreaks; empty before the first analysis
    bkpttmp,        \* breakpoints set before the table exists
    dbs,            \* the times of "stop when time = t"
    todo,           \* those of them not yet in the table
    ft_intrpt,      \* a halt was requested
    shouldstop,     \* a stop condition was met
    howmanysteps,   \* points to come until a stop, 0 for no such stop
    inprogress,     \* ci_inprogress: an analysis can be resumed
    (* History.                                                            *)
    last,           \* the last accepted time
    asked,          \* breakpoints asked for since the table was made
    unmet,          \* those of them that no accepted time has reached
    promised,       \* those that the caller set and ngSpice_SetBkpt agreed to
    outcome         \* how the last analysis ended

table   == <<breaks, bkpttmp, dbs, todo>>
flags   == <<ft_intrpt, shouldstop, inprogress>>
control == <<flags, howmanysteps>>
steps   == <<time, delta, saveDelta, firsttime, atBreak>>
history == <<last, asked, unmet, promised, outcome>>
vars    == <<pc, table, control, steps, history>>

Running == {"add_bkpt", "stops", "op", "accept", "dump", "limit", "solve"}

TypeOK ==
    /\ pc \in Running \cup {"idle"}
    /\ {time, delta, saveDelta, last} \subseteq Int
    /\ {firsttime, atBreak, ft_intrpt, shouldstop, inprogress} \subseteq BOOLEAN
    /\ howmanysteps \in Nat
    /\ breaks \in Seq(Points) /\ bkpttmp \in Seq(Points)
    /\ {dbs, todo, asked, unmet, promised} \subseteq SUBSET Points
    /\ outcome \in {"none", "done", "failed"}

Min2(a, b) == IF a < b THEN a ELSE b
Max2(a, b) == IF a > b THEN a ELSE b

Init ==
    /\ pc = "idle"
    /\ time = 0 /\ delta = 0 /\ saveDelta = 0 /\ firsttime = FALSE /\ atBreak = FALSE
    /\ breaks = <<>> /\ bkpttmp = <<>> /\ dbs = {} /\ todo = {}
    /\ ft_intrpt = FALSE /\ shouldstop = FALSE /\ inprogress = FALSE
    /\ howmanysteps = 0
    /\ last = 0 /\ asked = {} /\ unmet = {} /\ promised = {} /\ outcome = "none"

(* A breakpoint at time t enters the table, the history notes it.          *)
Insert(t, minBreak) ==
    /\ breaks' = SetBreak(breaks, t, minBreak)
    /\ asked' = asked \cup {t}
    /\ unmet' = IF t - DelMin > time THEN unmet \cup {t} ELSE unmet

-----------------------------------------------------------------------------
(* The caller.                                                             *)

(* ngSpice_SetBkpt, between analyses or from the callback that receives    *)
(* the data of a time point.  Without a table the time is kept for later;  *)
(* a time that is past is refused.                                         *)
SetBkpt(t) ==
    /\ pc \in {"idle", "dump"}
    /\ \/ /\ breaks = <<>> /\ Len(bkpttmp) < MaxPrelim
          /\ bkpttmp' = Append(bkpttmp, t)
          /\ UNCHANGED <<breaks, asked, unmet>>
       \/ /\ breaks # <<>> /\ time <= t /\ Len(breaks) < MaxTable
          /\ Insert(t, MinBreak)
          /\ UNCHANGED bkpttmp
    /\ promised' = IF t - DelMin > time THEN promised \cup {t} ELSE promised
    /\ UNCHANGED <<pc, dbs, todo, control, steps, last, outcome>>

(* com_stop.                                                               *)
StopWhen(t) ==
    /\ pc = "idle" /\ t > 0
    /\ dbs' = dbs \cup {t}
    /\ UNCHANGED <<pc, breaks, bkpttmp, todo, control, steps, history>>

(* com_delete.                                                             *)
Delete(t) ==
    /\ pc = "idle" /\ t \in dbs
    /\ dbs' = dbs \ {t}
    /\ UNCHANGED <<pc, breaks, bkpttmp, todo, control, steps, history>>

(* The first part of DCtran: a new table, with the final time only.        *)
NewTable ==
    /\ pc' = "add_bkpt"
    /\ breaks' = <<0, Final>>
    /\ todo' = dbs
    /\ time' = 0 /\ delta' = 0
    /\ atBreak' = TRUE /\ firsttime' = TRUE
    /\ last' = 0 /\ asked' = {0, Final} /\ unmet' = {Final} /\ outcome' = "none"
    /\ UNCHANGED <<bkpttmp, dbs, saveDelta>>

(* dosim, if_run and CKTdoJob with a reset.                                *)
Run ==
    /\ pc = "idle"
    /\ NewTable
    /\ ft_intrpt' = FALSE /\ inprogress' = TRUE
    /\ promised' = {t \in ToSet(bkpttmp) : t > DelMin}
    /\ UNCHANGED shouldstop

Begin == Run /\ UNCHANGED howmanysteps

(* An analysis in progress goes on behind DCtran's test for a pause.  When *)
(* nothing but the time zero is accepted yet it begins anew.               *)
Resume ==
    /\ pc = "idle" /\ inprogress
    /\ \/ time = 0 /\ NewTable /\ UNCHANGED promised
       \/ /\ time # 0
          /\ pc' = "limit" /\ firsttime' = FALSE
          /\ UNCHANGED <<table, time, delta, saveDelta, atBreak, history>>
    /\ UNCHANGED flags

(* com_resume and com_step, which resumes for n points; without an         *)
(* analysis in progress both run.                                          *)
ResumeOrRun == Resume \/ (~inprogress /\ Run)
GoOn    == ResumeOrRun /\ UNCHANGED howmanysteps
Step(n) == ResumeOrRun /\ howmanysteps' = n

(* bg_halt, in the caller's thread; the request is erased at the end of    *)
(* the command that runs the analysis (cp_periodic), and by _thread_stop.  *)
Halt ==
    /\ pc \in Running /\ ft_intrpt' = TRUE
    /\ UNCHANGED <<pc, table, shouldstop, howmanysteps, inprogress, steps, history>>

(* com_rset: another circuit from the same netlist.  bkpttmp is not the    *)
(* circuit's.                                                              *)
Reset ==
    /\ pc = "idle"
    /\ breaks' = <<>> /\ dbs' = {} /\ todo' = {} /\ inprogress' = FALSE
    /\ time' = 0 /\ delta' = 0 /\ saveDelta' = 0 /\ firsttime' = FALSE /\ atBreak' = FALSE
    /\ last' = 0 /\ asked' = {} /\ unmet' = {} /\ promised' = {} /\ outcome' = "none"
    /\ UNCHANGED <<pc, bkpttmp, ft_intrpt, shouldstop, howmanysteps>>

Caller ==
    \/ \E t \in Points : SetBkpt(t) \/ StopWhen(t) \/ Delete(t)
    \/ Begin \/ GoOn \/ \E n \in 1..MaxSteps : Step(n)
    \/ Halt \/ Reset

-----------------------------------------------------------------------------
(* DCtran.                                                                 *)

(* Any error: the analysis is aborted.                                     *)
Fail ==
    /\ pc' = "idle" /\ inprogress' = FALSE /\ outcome' = "failed" /\ ft_intrpt' = FALSE
    /\ UNCHANGED <<table, shouldstop, howmanysteps, saveDelta, atBreak, last, asked, unmet, promised>>

(* add_bkpt: the preliminary breakpoints, while CKTminBreak is still 0.    *)
AddBkpt ==
    /\ pc = "add_bkpt"
    /\ \/ /\ bkpttmp # <<>>
          /\ Insert(Head(bkpttmp), 0)
          /\ bkpttmp' = Tail(bkpttmp)
          /\ UNCHANGED pc
       \/ /\ bkpttmp = <<>> /\ pc' = "stops"
          /\ UNCHANGED <<breaks, bkpttmp, asked, unmet>>
    /\ UNCHANGED <<dbs, todo, control, steps, last, promised, outcome>>

(* The times of stop commands.                                             *)
AddStops ==
    /\ pc = "stops"
    /\ \/ \E t \in todo :
          /\ Insert(t, MinBreak)
          /\ todo' = todo \ {t}
          /\ UNCHANGED pc
       \/ /\ todo = {} /\ pc' = "op"
          /\ UNCHANGED <<breaks, todo, asked, unmet>>
    /\ UNCHANGED <<bkpttmp, dbs, control, steps, last, promised, outcome>>

(* The operating point.                                                    *)
Op ==
    /\ pc = "op"
    /\ \/ /\ pc' = "accept"
          /\ delta' = InitDelta /\ saveDelta' = InitSave
          /\ UNCHANGED <<table, control, time, firsttime, atBreak, history>>
       \/ Fail /\ UNCHANGED <<time, delta, firsttime>>

(* ft_bpcheck is asked when the data are written: not at time zero of an   *)
(* analysis from given values.                                             *)
Dumped == UIC => time > 0

(* Slip: the steps are counted down whether step gave a number or not.     *)
AcceptedUncounted(b) ==
    /\ pc' = "dump"
    /\ breaks' = IF time > b[1] THEN ClrBreak(b, Final) ELSE b
    /\ atBreak' = FALSE
    /\ howmanysteps' = IF Dumped THEN howmanysteps - 1 ELSE howmanysteps
    /\ shouldstop' = (shouldstop \/ (Dumped /\ (howmanysteps = 1 \/ time \in dbs)))
    /\ last' = time

(* What follows the devices in accept: the table is cleared of a           *)
(* breakpoint that is past and the data are written; ft_bpcheck notes a    *)
(* stop after these steps or at this very time.                            *)
Accepted(b) ==
    /\ pc' = "dump"
    /\ breaks' = IF time > b[1] THEN ClrBreak(b, Final) ELSE b
    /\ atBreak' = FALSE
    /\ howmanysteps' = IF Dumped /\ howmanysteps > 0 THEN howmanysteps - 1 ELSE howmanysteps
    /\ shouldstop' = (shouldstop \/ (Dumped /\ (howmanysteps = 1 \/ time \in dbs)))
    /\ last' = time

Reached(r) == r - DelMin <= time /\ time <= r

(* CKTaccept: at a breakpoint a device may ask for its next one.           *)
Accept ==
    /\ pc = "accept"
    /\ \/ /\ Accepted(breaks)
          /\ unmet' = {r \in unmet : ~Reached(r)}
          /\ UNCHANGED asked
       \/ \E t \in Points :
          /\ atBreak /\ t > time /\ Len(breaks) < MaxTable
          /\ Accepted(SetBreak(breaks, t, MinBreak))
          /\ asked' = asked \cup {t}
          /\ unmet' = {r \in unmet \cup {t} : ~Reached(r)}
    /\ promised' = {r \in promised : ~Reached(r)}
    /\ UNCHANGED <<bkpttmp, dbs, todo, ft_intrpt, inprogress, time, delta, saveDelta,
                   firsttime, outcome>>

AtEnd == Final - time < MinBreak /\ time - Final < MinBreak

(* Slip: the analysis is done one step before its end, too.                *)
FinishEarly ==
    /\ pc = "dump" /\ (AtEnd \/ time + delta >= Final)
    /\ pc' = "idle" /\ inprogress' = FALSE /\ outcome' = "done" /\ ft_intrpt' = FALSE
    /\ UNCHANGED <<table, shouldstop, howmanysteps, steps, last, asked, unmet, promised>>

Finish ==
    /\ pc = "dump" /\ AtEnd
    /\ pc' = "idle" /\ inprogress' = FALSE /\ outcome' = "done" /\ ft_intrpt' = FALSE
    /\ UNCHANGED <<table, shouldstop, howmanysteps, steps, last, asked, unmet, promised>>

(* IFpauseTest (OUTstopnow): E_PAUSE; what was done is kept.               *)
Pause ==
    /\ pc = "dump" /\ ~AtEnd
    /\ ft_intrpt \/ shouldstop
    /\ pc' = "idle"
    /\ ft_intrpt' = FALSE /\ shouldstop' = FALSE
    /\ UNCHANGED <<table, howmanysteps, inprogress, steps, history>>

Continue ==
    /\ pc = "dump" /\ ~AtEnd /\ ~ft_intrpt /\ ~shouldstop
    /\ pc' = "limit"
    /\ UNCHANGED <<table, control, steps, history>>

(* sharedsync: a synchronising caller may replace the step d that follows  *)
(* the time t by a smaller one; a step past the final time is shortened.   *)
Clamped(t, d) == IF wantsync /\ t + d > Final THEN Final - t - Margin ELSE d
Synchronised(t, d) ==
    {Clamped(t, e) : e \in IF wantsync /\ d > 0 THEN 1..d ELSE {d}}

(* Slip: a breakpoint is only seen when it is past.                        *)
PastBreak == breaks[1] < time

NearBreak == breaks[1] - time <= DelMin

(* At a breakpoint the step is cut, but not below twice the minimum.       *)
CutStep ==
    LET step == Min2(Min2(delta, MaxStep), Min2(saveDelta, breaks[2] - breaks[1]) \div Cut)
    IN  Max2(IF firsttime THEN step \div Cut ELSE step, 2 * DelMin)

LimitAtBreak ==
    /\ NearBreak
    /\ delta' \in Synchronised(time, CutStep)
    /\ \/ firsttime /\ UIC /\ Insert(TStep, MinBreak)
       \/ ~(firsttime /\ UIC) /\ UNCHANGED <<breaks, asked, unmet>>
    /\ UNCHANGED <<saveDelta, atBreak>>

(* A step that would reach the next breakpoint ends there.                 *)
LimitToBreak ==
    /\ ~NearBreak /\ time + Min2(delta, MaxStep) >= breaks[1]
    /\ delta' \in Synchronised(time, breaks[1] - time)
    /\ saveDelta' = Min2(delta, MaxStep)
    /\ atBreak' = TRUE
    /\ UNCHANGED <<breaks, asked, unmet>>

LimitFree ==
    /\ ~NearBreak /\ time + Min2(delta, MaxStep) < breaks[1]
    /\ delta' \in Synchronised(time, Min2(delta, MaxStep))
    /\ UNCHANGED <<saveDelta, atBreak, breaks, asked, unmet>>

(* Slip: a step that just reaches the breakpoint is not seen to.           *)
LimitOverBreak ==
    /\ pc = "limit" /\ pc' = "solve"
    /\ \/ LimitAtBreak
       \/ /\ ~NearBreak
          /\ delta' \in Synchronised(time, Min2(delta, MaxStep))
          /\ UNCHANGED <<saveDelta, atBreak, breaks, asked, unmet>>
    /\ UNCHANGED <<bkpttmp, dbs, todo, control, time, firsttime, last, promised, outcome>>

Limit ==
    /\ pc = "limit" /\ pc' = "solve"
    /\ LimitAtBreak \/ LimitToBreak \/ LimitFree
    /\ UNCHANGED <<bkpttmp, dbs, todo, control, time, firsttime, last, promised, outcome>>

(* Slip: a rejected step is taken back twice.                              *)
RedoTwiceBack(d) ==
    /\ d > DelMin \/ delta > DelMin
    /\ time' = time - delta
    /\ delta' \in Synchronised(time, Max2(d, DelMin))
    /\ UNCHANGED <<pc, table, control, saveDelta, firsttime, atBreak, history>>

(* A step that is rejected in favour of the step d, not below the minimum  *)
(* unless it was tried: time goes back, which it does not on an error.     *)
Redo(d) ==
    \/ /\ d > DelMin \/ delta > DelMin
       /\ delta' \in Synchronised(time, Max2(d, DelMin))
       /\ UNCHANGED <<pc, table, control, time, saveDelta, firsttime, atBreak, history>>
    \/ /\ d <= DelMin /\ delta <= DelMin
       /\ Fail /\ time' = time + delta /\ delta' = d
       /\ UNCHANGED firsttime

(* A step that is good, the next to be d; the synchronising caller may ask *)
(* for it again, with a smaller one.                                       *)
Converged(d) ==
    /\ firsttime' = FALSE
    /\ \/ /\ pc' = "accept"
          /\ time' = time + delta
          /\ delta' \in Synchronised(time + delta, d)
       \/ \E e \in 1..(delta - 1) :
          /\ wantsync /\ (RedoPastEnd \/ time + delta + e <= Final)
          /\ delta' = Clamped(time + delta, e)
          /\ UNCHANGED <<pc, time>>
    /\ UNCHANGED <<table, control, saveDelta, atBreak, history>>

(* Slip: too small a step is followed by the first one again.              *)
NotConvergedAnew ==
    /\ pc = "solve"
    /\ delta' \in Synchronised(time, IF delta > DelMin THEN delta \div Shrink ELSE InitDelta)
    /\ UNCHANGED <<pc, table, control, time, saveDelta, firsttime, atBreak, history>>

(* One iteration of DCtran's loop.                                         *)
NotConverged == pc = "solve" /\ Redo(delta \div Shrink)

FirstConverged == pc = "solve" /\ firsttime /\ Converged(delta)

(* CKTtrunc proposes a step of at most twice this one; one of at most nine *)
(* tenths rejects it.                                                      *)
Truncated ==
    /\ pc = "solve" /\ ~firsttime
    /\ \E d \in 1..(2 * delta) :
       \/ 10 * d > 9 * delta /\ Converged(d)
       \/ 10 * d <= 9 * delta /\ Redo(d)

(* An error of CKTaccept, of CKTtrunc, or of a transmission line.          *)
Abort ==
    /\ pc \in {"accept", "solve"}
    /\ Fail /\ delta' = delta /\ UNCHANGED firsttime
    /\ time' = IF pc = "solve" THEN time + delta ELSE time

DCtran ==
    \/ AddBkpt \/ AddStops \/ Op \/ Accept \/ Finish \/ Pause \/ Continue
    \/ Limit \/ NotConverged \/ FirstConverged \/ Truncated \/ Abort

Next == Caller \/ DCtran

Spec == Init /\ [][Next]_vars

(* The analysis computes on.                                               *)
FairSpec == Spec /\ WF_vars(DCtran)

-----------------------------------------------------------------------------
(* A step starts from the last accepted time, whatever was rejected,       *)
(* paused or made anew since (sharedsync: "we subtract olddelta").         *)
StepsFromLast == pc = "solve" => time = last

(* A step goes forward, one that sharedsync has shortened included ("we    *)
(* subtract olddelta and then choose our own ckt->CKTdelta, being smaller  *)
(* than olddelta", "never move beyond final time").                        *)
StepsForward == pc = "solve" => delta > 0

(* No step crosses a breakpoint: the next one is never passed, and only    *)
(* the one the analysis is at, within DelMin, may lie inside the step      *)
(* (DCtran: "limit the timestep so that the next breakpoint is not         *)
(* crossed").                                                              *)
NoCrossing ==
    pc = "solve" => \A i \in DOMAIN breaks :
                        breaks[i] > time + DelMin => time + delta <= breaks[i]

(* A time for which a breakpoint is asked for, and none close before it,   *)
(* is reached by an accepted time, within DelMin, before any later one:    *)
(* no insertion, clearing, rejection or pause loses it.                    *)
First(r) == \A s \in asked : s < r => r - s > MinBreak
BreakpointsAreHit == \A r \in unmet : First(r) => last <= r

(* The table is in order and does not end before the final time is near.   *)
TableInOrder == breaks # <<>> => Len(breaks) >= 2 /\ Ordered(breaks)

(* Every analysis comes to an end or to a pause: rejected steps cannot go  *)
(* on for ever, as too small a step is an error.                           *)
RunEnds == pc \in Running ~> pc = "idle"

(* com_resume: "Continue a simulation": the breakpoints that               *)
(* ngSpice_SetBkpt agreed to and no accepted time has reached are still to *)
(* come, now or when the table is made.                                    *)
PromisesStand ==
    pc \in Running \/ inprogress => promised \subseteq unmet \cup ToSet(bkpttmp)

(* Together: an analysis is one that moves forward, pauses and ends.       *)
Job == INSTANCE TransientJob WITH
    Tolerance <- MinBreak,
    now <- last,
    job <- CASE pc \in Running -> "running"
             [] pc = "idle" /\ inprogress -> "stopped"
             [] pc = "idle" /\ ~inprogress /\ outcome = "failed" -> "failed"
             [] OTHER -> "none"

RefinesJob == Job!Spec
=============================================================================
