---------------------------- MODULE Breakpoints ----------------------------
(***************************************************************************)
(* The table of breakpoints of a transient analysis: an array of times, in *)
(* order, that CKTsetBreak (cktsetbk.c) extends and CKTclrBreak            *)
(* (cktclrbk.c) shortens from the front.  Times are integers: ticks of the *)
(* simulated time.  Memory is never short.                                 *)
(***************************************************************************)
EXTENDS Integers, SequencesExt

(* A table in order.                                                       *)
Ordered(b) == \A i, j \in DOMAIN b : i < j => b[i] <= b[j]

(* The entry at which the search of CKTsetBreak stops.                     *)
FirstAfter(breaks, time) ==
    CHOOSE i \in DOMAIN breaks : /\ breaks[i] > time
                                 /\ \A j \in 1..(i - 1) : breaks[j] <= time

(* Slip: of two points close together the later one is taken.              *)
SetBreakLater(breaks, time, minBreak) ==
    IF \E i \in DOMAIN breaks : breaks[i] > time
    THEN LET i == FirstAfter(breaks, time) IN
         IF breaks[i] - time <= minBreak THEN breaks
         ELSE IF i > 1 /\ time - breaks[i - 1] <= minBreak THEN breaks
         ELSE InsertAt(breaks, i, time)
    ELSE IF breaks # <<>> /\ time - Last(breaks) <= minBreak THEN breaks
    ELSE Append(breaks, time)

(* Slip: an insertion takes the place behind the entry found.              *)
SetBreakBehind(breaks, time, minBreak) ==
    IF \E i \in DOMAIN breaks : breaks[i] > time
    THEN LET i == FirstAfter(breaks, time) IN
         IF breaks[i] - time <= minBreak THEN [breaks EXCEPT ![i] = time]
         ELSE IF i > 1 /\ time - breaks[i - 1] <= minBreak THEN breaks
         ELSE InsertAt(breaks, i + 1, time)
    ELSE IF breaks # <<>> /\ time - Last(breaks) <= minBreak THEN breaks
    ELSE Append(breaks, time)

(* CKTsetBreak for a time that is not in the past.  A point close before   *)
(* an entry takes its place, whatever the distance to the entry before; a  *)
(* point close after an entry is left out.                                 *)
SetBreak(breaks, time, minBreak) ==
    IF \E i \in DOMAIN breaks : breaks[i] > time
    THEN LET i == FirstAfter(breaks, time) IN
         IF breaks[i] - time <= minBreak THEN [breaks EXCEPT ![i] = time]
         ELSE IF i > 1 /\ time - breaks[i - 1] <= minBreak THEN breaks
         ELSE InsertAt(breaks, i, time)
    ELSE IF breaks # <<>> /\ time - Last(breaks) <= minBreak THEN breaks
    ELSE Append(breaks, time)

(* The first entry goes; the table keeps two, the last one the final time. *)
ClrBreak(breaks, finalTime) ==
    IF Len(breaks) > 2 THEN Tail(breaks) ELSE <<breaks[2], finalTime>>
=============================================================================
