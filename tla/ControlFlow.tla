---------------------------- MODULE ControlFlow ----------------------------
(***************************************************************************)
(* What the control structures of ngspice mean, as its help text (section  *)
(* "Control structures" of src/ngspice.txt) tells it of the lines of a     *)
(* script: a position that moves from line to line.  Whether a condition   *)
(* holds, or a loop has another round, is left open.                       *)
(***************************************************************************)
EXTENDS ControlLines

VARIABLE
    at          \* the line to be executed, read + 1 if there is none

vars == <<script, base, read, at>>

-----------------------------------------------------------------------------
(* The script is read line by line; a block is executed when it is whole.  *)
Idle == at = read + 1 \/ Open

Read ==
    /\ Idle /\ read < Len(script)
    /\ read' = read + 1
    /\ at' = IF Open THEN at ELSE Follow'[at]
    /\ UNCHANGED <<script, base>>

Forget == Idle /\ base' = read /\ at' = read + 1 /\ UNCHANGED <<script, read>>

Go(p) == at' = Follow[p] /\ UNCHANGED <<script, base, read>>

(* The line that is executed is of this kind.                              *)
Executes(kinds) == ~Idle /\ Kind(at) \in kinds

Statement == Executes({"statement"}) /\ Go(at + 1)

While == Executes({"while", "repeat", "foreach"}) /\ (Go(at + 1) \/ Go(EndOf(at) + 1))

(* "The same as while, except that the condition is tested after the       *)
(* statements are executed."                                               *)
DoWhile ==
    \/ Executes({"dowhile"}) /\ Go(at + 1)
    \/ Executes({"end"}) /\ (Go(MaxOf(Closes(at)) + 1) \/ Go(at + 1))

If ==
    /\ Executes({"if"})
    /\ \/ Go(at + 1)
       \/ ElsesOf(at) = {} /\ Go(EndOf(at) + 1)
       \/ \E e \in ElsesOf(at) : Go(e + 1)

(* The n-th loop around the line, counted outwards; behind the whole block *)
(* at the top level when there is none.                                    *)
LoopsAround == {o \in Around(at) : Kind(o) \in Loops}
Nth(n) == CHOOSE o \in LoopsAround : Cardinality({l \in LoopsAround : l >= o}) = n
Behind == IF Around(at) = {} THEN at + 1 ELSE EndOf(MinOf(Around(at))) + 1

Leave(onLoop(_)) ==
    \/ Arg(at) = 0 /\ Go(at + 1)
    \/ Arg(at) \in 1..Cardinality(LoopsAround) /\ Go(onLoop(Nth(Arg(at))))
    \/ Arg(at) > Cardinality(LoopsAround) /\ Go(Behind)

Break    == Executes({"break"}) /\ Leave(LAMBDA l : EndOf(l) + 1)
Continue == Executes({"continue"}) /\ Leave(LAMBDA l : EndOf(l))

(* "If a statement of the form label word is present in the block or an    *)
(* enclosing block, control is transferred there."                         *)
Labels(s, word) == {j \in Members(s) : Kind(j) = "label" /\ Arg(j) = word}
Goto ==
    /\ Executes({"goto"})
    /\ LET sets  == {SetOf(i) : i \in Around(at) \cup {at}}
           found == {s \in sets : Labels(s, Arg(at)) # {}}
       IN  IF found = {} THEN Go(read + 1)
           ELSE Go(MinOf(Labels(MaxOf(found), Arg(at))))

Next ==
    \/ Read \/ Forget
    \/ Statement \/ While \/ DoWhile \/ If \/ Break \/ Continue \/ Goto

Init == base = 0 /\ read = 0 /\ at = 1

Spec == Init /\ [][Next]_vars
=============================================================================
