---------------------------- MODULE ControlLines ----------------------------
(***************************************************************************)
(* The lines of a script of control structures and the blocks that they    *)
(* form, told from the lines alone.                                        *)
(***************************************************************************)
EXTENDS Integers, Sequences, FiniteSets

VARIABLES
    script,     \* the lines: records with a kind and an argument
    base,       \* the lines up to this one are forgotten
    read        \* the lines up to this one are read

Loops   == {"while", "dowhile", "repeat", "foreach"}
Openers == Loops \cup {"if"}

Kind(i) == script[i].kind
Arg(i)  == script[i].arg

MinOf(S) == CHOOSE x \in S : \A y \in S : x <= y
MaxOf(S) == CHOOSE x \in S : \A y \in S : y <= x

-----------------------------------------------------------------------------
(* Blocks.                                                                 *)

(* The number of blocks open behind line i; an end too many is ignored.    *)
Depth ==
    LET d[i \in base..read] ==
            IF i = base THEN 0
            ELSE CASE Kind(i) \in Openers -> d[i - 1] + 1
                   [] Kind(i) = "end" /\ d[i - 1] > 0 -> d[i - 1] - 1
                   [] OTHER -> d[i - 1]
    IN  d

Open == Depth[read] > 0

(* The end of the block that line i opens, behind all lines if not read.   *)
EndOf(i) ==
    LET d == Depth
        ends == {j \in (i + 1)..read : d[j] < d[i]}
    IN  IF ends = {} THEN read + 1 ELSE MinOf(ends)

(* The openers of the blocks that line i is inside of.                     *)
Around(i) ==
    LET d == Depth
    IN  {o \in (base + 1)..(i - 1) : /\ Kind(o) \in Openers
                                     /\ \A j \in (o + 1)..i : d[j] >= d[o]}
Opener(i) == MaxOf(Around(i))

IsElse(i) == Kind(i) = "else" /\ Around(i) # {} /\ Kind(Opener(i)) = "if"
ElsesOf(o) == {e \in (o + 1)..(EndOf(o) - 1) : IsElse(e) /\ Opener(e) = o}

(* The end that closes something, and what it closes.                      *)
Closes(i) == {o \in (base + 1)..(i - 1) : Kind(o) \in Openers /\ EndOf(o) = i}

(* The set of statements that line i belongs to, named by the line before  *)
(* it: the opener, the else, or base for the top level.                    *)
SetOf(i) ==
    IF Around(i) = {} THEN base
    ELSE LET before == {e \in ElsesOf(Opener(i)) : e < i}
         IN  IF before = {} THEN Opener(i) ELSE MaxOf(before)

(* The statements of a set.                                                *)
Members(s) ==
    {i \in (base + 1)..read : SetOf(i) = s /\ Kind(i) \notin {"end", "else"}}

(* Labels, and an end or else that belongs to nothing.                     *)
Idles(p) ==
    \/ Kind(p) = "label"
    \/ Kind(p) = "end" /\ Closes(p) = {}
    \/ Kind(p) = "else" /\ ~IsElse(p)

(* Where control is when it comes to line p, past what does nothing.       *)
Follow ==
    LET f[p \in (base + 1)..(read + 1)] ==
            CASE p = read + 1 -> p
              [] p <= read /\ Kind(p) = "end" /\ Closes(p) # {} ->
                    LET o == MaxOf(Closes(p)) IN
                    CASE Kind(o) = "dowhile" -> p
                      [] Kind(o) = "if" -> f[p + 1]
                      [] OTHER -> o
              [] p <= read /\ IsElse(p) -> f[EndOf(Opener(p)) + 1]
              [] p <= read /\ Idles(p) -> f[p + 1]
              [] OTHER -> p
    IN  f
=============================================================================
