--------------------------- MODULE TransientRuns ---------------------------
(***************************************************************************)
(* What the library promises of a circuit that is simulated piece by       *)
(* piece (saharaspice.js): each capacitor and inductor has a value, every  *)
(* run starts from these values and leaves the simulated ones, and answers *)
(* the queries of its caller from the same simulation.                     *)
(***************************************************************************)
EXTENDS Integers, Sequences

CONSTANTS Inductors, Ground

VARIABLES
    elements,       \* name -> its line, of the capacitors and inductors
    charge,         \* name -> voltage of the capacitor, current of the inductor
    from,           \* the values that the last run started from
    answers         \* what the last run returned to its caller

vars == <<elements, charge, from, answers>>

Nothing == [n \in {} |-> 0]
NoAnswers == [voltages |-> <<>>, currents |-> <<>>]

Init == elements = Nothing /\ charge = Nothing /\ from = Nothing /\ answers = NoAnswers

(* Another circuit: an element gets the value given for it, or keeps the   *)
(* value an element of that name had, or starts from 0.                    *)
Load(new, given) ==
    /\ elements' = new
    /\ charge' = [n \in DOMAIN new |-> IF n \in DOMAIN given THEN given[n]
                                       ELSE IF n \in DOMAIN charge THEN charge[n] ELSE 0]
    /\ UNCHANGED <<from, answers>>

Stop == elements' = Nothing /\ charge' = Nothing /\ UNCHANGED <<from, answers>>

Update(given) ==
    /\ charge' = [n \in DOMAIN charge |-> IF n \in DOMAIN given THEN given[n] ELSE charge[n]]
    /\ UNCHANGED <<elements, from, answers>>

Across(volt, nodes) == IF Len(nodes) = 1 THEN volt[nodes[1]] ELSE volt[nodes[1]] - volt[nodes[2]]

(* One simulation: voltages of the nodes and currents of the elements.     *)
Run(volt, current, query) ==
    /\ volt[Ground] = 0
    /\ from' = charge
    /\ charge' = [n \in DOMAIN elements |->
                    IF n \in Inductors THEN current[n]
                    ELSE volt[elements[n].words[2]] - volt[elements[n].words[3]]]
    /\ answers' = [voltages |-> [k \in DOMAIN query.volts |-> Across(volt, query.volts[k])],
                   currents |-> [k \in DOMAIN query.currents |-> current[query.currents[k]]]]
    /\ UNCHANGED elements
=============================================================================
