------------------------------ MODULE Circuit ------------------------------
(***************************************************************************)
(* Class Circuit (circuit.cc): load reads a netlist line by line into a    *)
(* fresh object, listing writes the object with further control commands   *)
(* as the netlist that the simulator is given.                             *)
(***************************************************************************)
EXTENDS Netlist

CONSTANTS
    Netlists,       \* what load may be given
    Extras,         \* the further commands listing may be given
    Params          \* the element values setParams may be given

ASSUME NetlistsAssumption == Netlists \subseteq Seq(Line)
ASSUME ExtrasAssumption   == Extras \subseteq Seq(Line)
ASSUME ParamsAssumption   == Params \subseteq Seq(Seq(Words))
ASSUME WordsAssumption    == {"tran", "step", "stop", "uic"} \subseteq Words

VARIABLES
    pc,             \* "join", "analyze", or "done" when load has returned
    given,          \* the netlist load was called with
    lines,          \* the local copy that load joins and reads
    index,          \* the line load is at
    inControl,      \* bStartedStatement
    title, sections, elements, controls, edges,     \* the object
    status,         \* what load returned
    paramlist,      \* history: the values setParams was given last, <<>> before
    sent            \* the listing handed to INgSpice::loadCircuit since then

object == <<title, sections, elements, controls, edges>>
later  == <<paramlist, sent>>
vars   == <<pc, given, lines, index, inControl, object, status, later>>

NoTitle    == [kind |-> "blank", words |-> <<>>]
NoSections == [s \in Sections |-> <<>>]
Element    == [name : Words, edge0 : Words, edge1 : Words, value : Seq(Words)]

TypeOK ==
    /\ pc \in {"join", "analyze", "done"}
    /\ given \in Netlists
    /\ lines \in Seq(Line)
    /\ index \in 0..(Len(lines) + 1)
    /\ inControl \in BOOLEAN
    /\ title \in Line
    /\ sections \in [Sections -> Seq(Line)]
    /\ elements \in Seq(Element)
    /\ controls \in Seq(Line)
    /\ edges \subseteq Words
    /\ status \in BOOLEAN
    /\ paramlist \in Seq(Seq(Words))
    /\ sent \in Seq(Line)

Empty ==
    /\ title = NoTitle /\ sections = NoSections
    /\ elements = <<>> /\ controls = <<>> /\ edges = {}

(* load is called on a fresh object; an empty netlist is refused at once.  *)
Init ==
    /\ given \in Netlists
    /\ lines = given
    /\ index = Len(given)
    /\ pc = IF given = <<>> THEN "done" ELSE "join"
    /\ inControl = FALSE
    /\ Empty
    /\ status = FALSE
    /\ paramlist = <<>> /\ sent = <<>>

-----------------------------------------------------------------------------
(* load, the first loop: continuations are joined from the last line up.   *)

(* Slip: the loop goes down the lines.                                     *)
JoinLineAbove ==
    /\ pc = "join" /\ index > 1
    /\ lines' = IF lines[index].kind = "plus" /\ lines[index - 1].kind # "plus"
                THEN RemoveAt([lines EXCEPT ![index - 1] = Continued(@, lines[index])], index)
                ELSE lines
    /\ index' = index - 1
    /\ UNCHANGED <<pc, given, inControl, object, status, later>>

JoinLine ==
    /\ pc = "join" /\ index > 1
    /\ lines' = IF lines[index].kind = "plus"
                THEN RemoveAt([lines EXCEPT ![index - 1] = Continued(@, lines[index])], index)
                ELSE lines
    /\ index' = index - 1
    /\ UNCHANGED <<pc, given, inControl, object, status, later>>

(* Slip: the line after the title is taken for part of it.                 *)
SetTitleSkips ==
    /\ pc = "join" /\ index = 1
    /\ title' = lines[1]
    /\ index' = 3
    /\ pc' = "analyze"
    /\ UNCHANGED <<given, lines, inControl, sections, elements, controls, edges, status, later>>

SetTitle ==
    /\ pc = "join" /\ index = 1
    /\ title' = lines[1]
    /\ index' = 2
    /\ pc' = "analyze"
    /\ UNCHANGED <<given, lines, inControl, sections, elements, controls, edges, status, later>>

-----------------------------------------------------------------------------
(* load, the second loop: one line after the other.                        *)
At(kinds) == pc = "analyze" /\ index <= Len(lines) /\ lines[index].kind \in kinds
Line_     == lines[index]
Advance   == index' = index + 1 /\ UNCHANGED <<pc, given, lines, title, status, later>>

Skip ==
    /\ At(Skipped)
    /\ Advance
    /\ UNCHANGED <<inControl, sections, elements, controls, edges>>

KeepSection ==
    /\ ~inControl /\ At(Sections)
    /\ sections' = [sections EXCEPT ![Line_.kind] = Append(@, Line_)]
    /\ Advance
    /\ UNCHANGED <<inControl, elements, controls, edges>>

EnterControl ==
    /\ ~inControl /\ At({"control"})
    /\ inControl' = TRUE
    /\ Advance
    /\ UNCHANGED <<sections, elements, controls, edges>>

AtElement == ~inControl /\ At(Kinds \ (Skipped \cup Sections \cup {"control"}))

(* Slip: only the last element is compared.                                *)
is_exist_last(name) == elements # <<>> /\ Last(elements).name = name

is_exist_element(name) == \E k \in DOMAIN elements : elements[k].name = name
is_exist_edge(edge)    == edge \in edges

(* An element line of less than four words: the object is emptied.         *)
ShortLine ==
    /\ AtElement /\ Len(Line_.words) < 4
    /\ title' = NoTitle /\ sections' = NoSections
    /\ elements' = <<>> /\ controls' = <<>> /\ edges' = {}
    /\ pc' = "done" /\ status' = FALSE
    /\ UNCHANGED <<given, lines, index, inControl, later>>

NotesEdges == edges' = edges \cup {Line_.words[2], Line_.words[3]}

(* A name used before: load gives up and leaves the object as it is.       *)
Duplicate ==
    /\ AtElement /\ Len(Line_.words) >= 4
    /\ is_exist_element(Line_.words[1])
    /\ NotesEdges
    /\ pc' = "done" /\ status' = FALSE
    /\ UNCHANGED <<given, lines, index, inControl, title, sections, elements, controls, later>>

(* Slip: the second node is not noted.                                     *)
AddElementOneEdge ==
    /\ AtElement /\ Len(Line_.words) >= 4
    /\ ~is_exist_element(Line_.words[1])
    /\ edges' = edges \cup {Line_.words[2]}
    /\ elements' = Append(elements,
           [name |-> Line_.words[1], edge0 |-> Line_.words[2], edge1 |-> Line_.words[3],
            value |-> SubSeq(Line_.words, 4, Len(Line_.words))])
    /\ Advance
    /\ UNCHANGED <<inControl, sections, controls>>

AddElement ==
    /\ AtElement /\ Len(Line_.words) >= 4
    /\ ~is_exist_element(Line_.words[1])
    /\ NotesEdges
    /\ elements' = Append(elements,
           [name |-> Line_.words[1], edge0 |-> Line_.words[2], edge1 |-> Line_.words[3],
            value |-> SubSeq(Line_.words, 4, Len(Line_.words))])
    /\ Advance
    /\ UNCHANGED <<inControl, sections, controls>>

LeaveControl ==
    /\ inControl /\ At({"endc"})
    /\ inControl' = FALSE
    /\ Advance
    /\ UNCHANGED <<sections, elements, controls, edges>>

AddControl ==
    /\ inControl /\ At({"plain", "plus"})
    /\ controls' = Append(controls, Line_)
    /\ Advance
    /\ UNCHANGED <<inControl, sections, elements, edges>>

(* Any other line with a "." in front.                                     *)
IgnoreInControl ==
    /\ inControl /\ At(Sections \cup {"control", "dot"})
    /\ Advance
    /\ UNCHANGED <<inControl, sections, elements, controls, edges>>

Return ==
    /\ pc = "analyze" /\ index > Len(lines)
    /\ pc' = "done" /\ status' = TRUE
    /\ UNCHANGED <<given, lines, index, inControl, object, later>>

-----------------------------------------------------------------------------
(* setParams, for which the addon wants as many values as elements.        *)
GivesParams(params) ==
    /\ pc = "done" /\ status
    /\ Len(params) = Len(elements)
    /\ paramlist' = params /\ sent' = <<>>
    /\ UNCHANGED <<pc, given, lines, index, inControl, title, sections, controls, edges, status>>

(* Slip: the values end up one element further on.                         *)
SetParamsSkips(params) ==
    /\ GivesParams(params)
    /\ elements' = [k \in DOMAIN elements |->
                      IF k = 1 THEN elements[k] ELSE [elements[k] EXCEPT !.value = params[k - 1]]]

SetParams(params) ==
    /\ GivesParams(params)
    /\ elements' = [k \in DOMAIN elements |-> [elements[k] EXCEPT !.value = params[k]]]

-----------------------------------------------------------------------------
(* listing.                                                                *)
Plain(words)    == [kind |-> "plain", words |-> words]
Marker(kind)    == [kind |-> kind, words |-> <<>>]
IsTran(l)       == l.words # <<>> /\ l.words[1] = "tran"
IsPrint(l)      == Len(l.words) > 1 /\ l.words[1] = "print"
IsAlter(l)      == l.words # <<>> /\ l.words[1] = "alter"

(* A transient command gets the circuit's own step and stop times.  One of *)
(* less than four words makes the code read beyond its vector.             *)
makeTransCommand(l) == Plain(<<l.words[1], "step", "stop", l.words[4]>>)
DefaultTran == Plain(<<"tran", "step", "stop", "uic">>)
Listable(ls) == \A k \in DOMAIN ls : IsTran(ls[k]) => Len(ls[k].words) >= 4

(* Slip: the missing transient command comes last.                         *)
CommandsTranLast(own, extra) ==
    LET all == [k \in 1..(Len(own) + Len(extra)) |->
                  IF IsTran((own \o extra)[k])
                  THEN makeTransCommand((own \o extra)[k]) ELSE (own \o extra)[k]]
    IN  IF \E k \in DOMAIN all : IsTran(all[k]) THEN all ELSE Append(all, DefaultTran)

(* Slip: the missing transient command comes first.                        *)
CommandsTranFirst(own, extra) ==
    LET all == [k \in 1..(Len(own) + Len(extra)) |->
                  IF IsTran((own \o extra)[k])
                  THEN makeTransCommand((own \o extra)[k]) ELSE (own \o extra)[k]]
    IN  IF \E k \in DOMAIN all : IsTran(all[k]) THEN all ELSE <<DefaultTran>> \o all

(* The netlist's own commands, then the further ones; if none of them is a *)
(* transient analysis, one is put before the first print command.          *)
Commands(own, extra) ==
    LET all == [k \in 1..(Len(own) + Len(extra)) |->
                  IF IsTran((own \o extra)[k])
                  THEN makeTransCommand((own \o extra)[k]) ELSE (own \o extra)[k]]
        print == SelectInSeq(all, IsPrint)
    IN  IF \E k \in DOMAIN all : IsTran(all[k]) THEN all
        ELSE InsertAt(all, IF print = 0 THEN Len(all) + 1 ELSE print, DefaultTran)

toString(e) == Plain(<<e.name, e.edge0, e.edge1>> \o e.value)

(* The transient lines (.tran) of the netlist are left out.                *)
listing(extra) ==
    <<title>> \o sections["option"] \o [k \in DOMAIN elements |-> toString(elements[k])]
    \o sections["model"] \o sections["dc"] \o sections["ac"]
    \o <<Marker("blank"), Marker("control")>> \o Commands(controls, extra)
    \o <<Marker("endc"), Marker("dot")>>

Send(extra) ==
    /\ pc = "done" /\ status
    /\ Listable(controls \o extra)
    /\ sent' = listing(extra)
    /\ UNCHANGED <<pc, given, lines, index, inControl, object, status, paramlist>>

Next ==
    \/ JoinLine \/ SetTitle
    \/ Skip \/ KeepSection \/ EnterControl \/ ShortLine \/ Duplicate \/ AddElement
    \/ LeaveControl \/ AddControl \/ IgnoreInControl \/ Return
    \/ \E extra \in Extras : Send(extra)
    \/ \E params \in Params : SetParams(params)

Spec == Init /\ [][Next]_vars

-----------------------------------------------------------------------------
(* The joining loop, which removes lines while it walks over them, gives   *)
(* each line all its continuations, in order and no others.                *)
JoinsContinuations == pc = "analyze" /\ index = 2 => lines = Joined(given)

(* load accepts a netlist exactly when every element line is whole and     *)
(* names another element, whatever control sections lie between.           *)
AcceptsAcceptable == pc = "done" /\ given # <<>> => (status <=> Acceptable(lines))

(* The queries that a run validates, is_exist_edge and is_exist_element,   *)
(* know the nodes and names of the element lines, and nothing else.        *)
KnowsItsNames ==
    pc = "done" /\ status =>
        /\ edges = NodesOf(lines)
        /\ {elements[k].name : k \in DOMAIN elements} = ElementNames(lines)

(* Why that is so: what load knows after reading the lines before index is *)
(* what those lines say.                                                   *)
ReadElements == {k \in 2..(index - 1) : IsElement(lines, k)}

Reading ==
    /\ index \in 2..(Len(lines) + 1)
    /\ inControl <=> InControl(lines, index)
    /\ edges = UNION {{lines[k].words[2], lines[k].words[3]} : k \in ReadElements}
    /\ \A e \in DOMAIN elements : \E k \in ReadElements : lines[k].words[1] = elements[e].name
    /\ \A k \in ReadElements : /\ Len(lines[k].words) >= 4
                                /\ is_exist_element(lines[k].words[1])
    /\ \A j, k \in ReadElements : lines[j].words[1] = lines[k].words[1] => j = k

LoadInv ==
    /\ pc = "join" => /\ index \in 1..Len(lines) /\ ~inControl
                      /\ edges = {} /\ elements = <<>>
    /\ pc = "analyze" => Reading
    /\ pc = "done" /\ status => Reading /\ index = Len(lines) + 1
    /\ pc = "done" /\ ~status => given = <<>> \/ ~Acceptable(lines)

(* INgSpice::loadCircuit splits the listing again, without its empty lines. *)
NotBlank(l) == l.kind # "blank"
Received    == Only(sent, {k \in DOMAIN sent : NotBlank(sent[k])})

HasTitle == sent # <<>> /\ title.kind # "blank"

(* Read again as a netlist, without its last line (.end), what the         *)
(* simulator receives has the elements of the netlist that was loaded, in  *)
(* their order and between the same nodes, each with the value that        *)
(* setParams was given for its position, or else with its own; unless the  *)
(* title was empty.                                                        *)
ElementLines(n) == Only(n, {k \in DOMAIN n : IsElement(n, k)})

ValueAt(k) ==
    LET words == ElementLines(lines)[k].words
    IN  IF paramlist = <<>> THEN SubSeq(words, 4, Len(words)) ELSE paramlist[k]

ListingKeepsCircuit ==
    HasTitle =>
        LET loaded   == ElementLines(lines)
            received == ElementLines(Front(Received))
        IN  /\ Acceptable(Front(Received))
            /\ Len(received) = Len(loaded)
            /\ \A k \in DOMAIN loaded :
                  received[k].words = SubSeq(loaded[k].words, 1, 3) \o ValueAt(k)

(* "find index of first print": results are printed after the transient    *)
(* analysis that listing adds to the commands.  The first line that is     *)
(* received is the title, so an empty title takes away the next line.      *)
InCommands(s, k) == \E c \in 2..k : s[c].kind = "control"
TransOf(s)  == {k \in DOMAIN s : InCommands(s, k) /\ IsTran(s[k])}
PrintsOf(s) == {k \in DOMAIN s : InCommands(s, k) /\ IsPrint(s[k])}
AltersOf(s) == {k \in DOMAIN s : InCommands(s, k) /\ IsAlter(s[k])}
Asks(l)     == IsTran(l) \/ IsPrint(l)

PrintsAfterTran ==
    HasTitle /\ (\A k \in DOMAIN controls : ~IsTran(controls[k])) =>
        \E t \in TransOf(Received) : \A p \in PrintsOf(Received) : t < p

(* Initial values given to a run come before its transient analysis, if    *)
(* the netlist itself asks for none and prints nothing.                    *)
AltersTakeEffect ==
    HasTitle /\ (\A k \in DOMAIN controls : ~Asks(controls[k])) =>
        \E t \in TransOf(Received) : \A a \in AltersOf(Received) : a < t

(* "set initial values": they come before the analysis in every netlist.   *)
InitialValuesReachRun ==
    HasTitle => \E t \in TransOf(Received) : \A a \in AltersOf(Received) : a < t

-----------------------------------------------------------------------------
(* What the library passes as further commands: plain lines, none of them  *)
(* a transient analysis, and values are set before anything is printed.    *)
OrderlyExtras ==
    \A extra \in Extras : \A k \in DOMAIN extra :
        /\ extra[k].kind = "plain" /\ ~IsTran(extra[k])
        /\ IsPrint(extra[k]) => \A j \in DOMAIN extra : IsAlter(extra[j]) => j < k

(* No value given to setParams is empty.                                   *)
FilledParams == \A params \in Params : \A k \in DOMAIN params : params[k] # <<>>
=============================================================================
