----------------------------- MODULE MCControl -----------------------------
(* Scripts with a block in a block, every jump inside, and labels at every *)
(* level; with two blocks in a loop; and some whose lines do not belong    *)
(* together.                                                               *)
EXTENDS ControlBlocks

L(k, a)   == <<[kind |-> k, arg |-> a]>>
End       == L("end", 0)
If        == L("if", 0)
Else      == L("else", 0)
Command   == L("statement", 0)
Opening   == {L("while", 0), L("dowhile", 0), L("repeat", 2), L("foreach", 1), If}
Jump      == UNION {{L("break", n), L("continue", n)} : n \in {1, 2}} \cup {L("goto", 1)}
Label     == {<<>>, L("label", 1)}

InIf == {Command, L("break", 1), L("continue", 2), L("goto", 1)}
Inner ==
    {o \o j \o End : o \in Opening, j \in Jump \cup {<<>>, Command}}
    \cup {If \o i \o Else \o j \o End : i \in InIf \cup {<<>>}, j \in InIf}
Nested == {L("label", 1) \o o \o l \o i \o j \o End \o Command :
               o \in Opening, l \in Label, i \in Inner, j \in {<<>>, L("label", 1)}}

Deep == {L("while", 0) \o o \o p \o j \o End \o Command \o End \o Command \o End :
             o \in Opening, p \in Opening, j \in {L("break", 2), L("continue", 2)}}

Odd == {Else \o Command \o End \o L("goto", 1) \o L("label", 1),
        L("while", 0) \o Else \o L("break", 0) \o Else \o End \o L("continue", 1),
        L("repeat", -1) \o L("repeat", 0) \o Command \o End \o L("break", 1) \o End \o End,
        If \o L("repeat", 2) \o L("foreach", 2) \o L("break", 3) \o End \o End \o Else \o Command \o End}

(* An else without a second set.                                           *)
EmptyElse == {If \o Command \o Else \o End}

MCScripts == Nested \cup Deep \cup Odd
=============================================================================
