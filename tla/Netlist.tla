------------------------------ MODULE Netlist ------------------------------
(***************************************************************************)
(* Netlists as class Circuit (circuit.cc) sees them: a line is known by    *)
(* what the prefix tests of Circuit::load tell apart and by its words      *)
(* (Utils::split at blanks).  A continuation line "+ ..." has the words    *)
(* after the "+".  Below, what a netlist means: the reference against      *)
(* which the loader is checked.                                            *)
(***************************************************************************)
EXTENDS Naturals, SequencesExt, Lists

CONSTANT Words

Sections == {"option", "model", "tran", "dc", "ac"}
Kinds == {"blank", "comment", "plus", "plain", "control", "endc", "dot"} \cup Sections
Line == [kind : Kinds, words : Seq(Words)]

-----------------------------------------------------------------------------
(* A continuation extends the line above it, and so on upwards.  A line    *)
(* put after an empty one begins with a blank, which no prefix test knows. *)
Continued(above, plus) ==
    [kind  |-> IF above.kind = "blank" THEN "plain" ELSE above.kind,
     words |-> above.words \o plus.words]

(* The logical lines of a netlist: each line that is no continuation, with *)
(* the words of all the continuations that follow it.                      *)
Heads(n) == {k \in DOMAIN n : k = 1 \/ n[k].kind # "plus"}
LastOf(n, h) ==
    CHOOSE e \in h..Len(n) :
        /\ \A k \in (h + 1)..e : n[k].kind = "plus"
        /\ e = Len(n) \/ n[e + 1].kind # "plus"
Logical(n, h) ==
    [kind  |-> IF n[h].kind = "blank" /\ LastOf(n, h) > h THEN "plain" ELSE n[h].kind,
     words |-> FlattenSeq([k \in 1..(LastOf(n, h) - h + 1) |-> n[h + k - 1].words])]
Joined(n) == [j \in 1..Cardinality(Heads(n)) |-> Logical(n, Nth(Heads(n), j))]

-----------------------------------------------------------------------------
(* Of logical lines.  The first is the title, whatever it looks like.      *)
Skipped == {"blank", "comment"}

InControl(n, k) ==
    \E c \in 2..(k - 1) : /\ n[c].kind = "control"
                          /\ \A e \in (c + 1)..(k - 1) : n[e].kind # "endc"

IsElement(n, k) ==
    /\ k \in 2..Len(n)
    /\ n[k].kind \notin Skipped \cup Sections \cup {"control"}
    /\ ~InControl(n, k)

IsShort(n, k) == IsElement(n, k) /\ Len(n[k].words) < 4

(* A netlist that may be simulated: every element line is whole and names  *)
(* another element.                                                        *)
Acceptable(n) ==
    /\ \A k \in 1..Len(n) : ~IsShort(n, k)
    /\ \A j, k \in 1..Len(n) :
         IsElement(n, j) /\ IsElement(n, k) /\ n[j].words[1] = n[k].words[1] => j = k

ElementNames(n) == {n[k].words[1] : k \in {j \in 1..Len(n) : IsElement(n, j)}}
NodesOf(n) == UNION {{n[k].words[2], n[k].words[3]} : k \in {j \in 1..Len(n) : IsElement(n, j)}}
=============================================================================
