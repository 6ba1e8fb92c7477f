--------------------------- MODULE CircuitProofs ---------------------------
(***************************************************************************)
(* Proofs about Circuit::load, for netlists of any length: the types, what *)
(* the loop that joins the continuations makes of the lines, the invariant *)
(* of the loop that reads them, from it what load accepts and which names  *)
(* it knows, and what the simulator reads of the listing.                  *)
(***************************************************************************)
EXTENDS Circuit, ListProofs

-----------------------------------------------------------------------------
(* Lines: a line extended by a continuation is a line.                     *)
LEMMA ContinuedType ==
    ASSUME NEW above \in Line, NEW plus \in Line
    PROVE  Continued(above, plus) \in Line
<1>1. above.words \o plus.words \in Seq(Words)
  BY DEF Line
<1> QED
  BY <1>1 DEF Continued, Line, Kinds

(* A step of the joining loop.                                             *)
LEMMA JoinType ==
    ASSUME NEW s \in Seq(Line), NEW i \in 2..Len(s)
    PROVE  LET t == RemoveAt([s EXCEPT ![i - 1] = Continued(@, s[i])], i)
           IN  t \in Seq(Line) /\ Len(t) = Len(s) - 1
<1> DEFINE u == [s EXCEPT ![i - 1] = Continued(s[i - 1], s[i])]
<1>1. s[i - 1] \in Line /\ s[i] \in Line
  OBVIOUS
<1>2. Continued(s[i - 1], s[i]) \in Line
  BY <1>1, ContinuedType
<1>3. u \in Seq(Line) /\ Len(u) = Len(s)
  BY <1>2, ExceptSeq
<1>4. i \in 1..Len(u)
  BY <1>3
<1>5. RemoveAt(u, i) \in Seq(Line) /\ Len(RemoveAt(u, i)) = Len(u) - 1
  <2> HIDE DEF u
  <2> QED
    BY <1>3, <1>4, RemoveAtProperties
<1> QED
  BY <1>3, <1>5

-----------------------------------------------------------------------------
(* What load meets when it reads one more line.                            *)
LEMMA InControlNext ==
    ASSUME NEW n \in Seq(Line), NEW k \in 2..Len(n)
    PROVE  InControl(n, k + 1) <=>
             n[k].kind = "control" \/ (InControl(n, k) /\ n[k].kind # "endc")
<1>1. CASE n[k].kind = "control"
  <2>1. k \in 2..((k + 1) - 1) /\ \A e \in (k + 1)..((k + 1) - 1) : n[e].kind # "endc"
    OBVIOUS
  <2> QED
    BY <1>1, <2>1 DEF InControl
<1>2. CASE n[k].kind # "control"
  <2>1. ASSUME InControl(n, k + 1)
        PROVE  InControl(n, k) /\ n[k].kind # "endc"
    <3>1. PICK c \in 2..((k + 1) - 1) : /\ n[c].kind = "control"
                                        /\ \A e \in (c + 1)..((k + 1) - 1) : n[e].kind # "endc"
      BY <2>1 DEF InControl
    <3>2. c \in 2..(k - 1) /\ k \in (c + 1)..((k + 1) - 1)
      BY <1>2, <3>1
    <3>3. \A e \in (c + 1)..(k - 1) : e \in (c + 1)..((k + 1) - 1)
      BY <3>2
    <3> QED
      BY <3>1, <3>2, <3>3 DEF InControl
  <2>2. ASSUME InControl(n, k), n[k].kind # "endc"
        PROVE  InControl(n, k + 1)
    <3>1. PICK c \in 2..(k - 1) : /\ n[c].kind = "control"
                                  /\ \A e \in (c + 1)..(k - 1) : n[e].kind # "endc"
      BY <2>2 DEF InControl
    <3>2. c \in 2..((k + 1) - 1)
      BY <3>1
    <3>3. \A e \in (c + 1)..((k + 1) - 1) : e = k \/ e \in (c + 1)..(k - 1)
      BY <3>1
    <3> QED
      BY <2>2, <3>1, <3>2, <3>3 DEF InControl
  <2> QED
    BY <1>2, <2>1, <2>2
<1> QED
  BY <1>1, <1>2

(* Before the first line no control section is open.                       *)
LEMMA InControlFirst == ASSUME NEW n PROVE ~InControl(n, 2)
BY DEF InControl

(* The elements read so far, one line later.                               *)
ReadAt(i) == {k \in 2..(i - 1) : IsElement(lines, k)}

LEMMA ReadNext ==
    ASSUME lines \in Seq(Line), NEW i \in 2..Len(lines)
    PROVE  ReadAt(i + 1) = IF IsElement(lines, i) THEN ReadAt(i) \cup {i} ELSE ReadAt(i)
<1>1. \A k : k \in 2..((i + 1) - 1) <=> k = i \/ k \in 2..(i - 1)
  OBVIOUS
<1> QED
  BY <1>1 DEF ReadAt

-----------------------------------------------------------------------------
(* listing: every part of it is a line.                                    *)
LEMMA PlainType == ASSUME NEW words \in Seq(Words) PROVE Plain(words) \in Line
BY DEF Plain, Line, Kinds

LEMMA TransType ==
    ASSUME NEW l \in Line, Len(l.words) >= 4
    PROVE  makeTransCommand(l) \in Line
<1>1. l.words \in Seq(Words) /\ Len(l.words) \in Nat
  BY DEF Line
<1>2. l.words[1] \in Words /\ l.words[4] \in Words
  BY <1>1
<1>3. <<l.words[1], "step", "stop", l.words[4]>> \in Seq(Words)
  BY <1>2, WordsAssumption
<1> QED
  BY <1>3, PlainType DEF makeTransCommand

LEMMA DefaultType == DefaultTran \in Line
<1>1. <<"tran", "step", "stop", "uic">> \in Seq(Words)
  BY WordsAssumption
<1> QED
  BY <1>1, PlainType DEF DefaultTran

LEMMA ToStringType == ASSUME NEW e \in Element PROVE toString(e) \in Line
<1>1. e.name \in Words /\ e.edge0 \in Words /\ e.edge1 \in Words /\ e.value \in Seq(Words)
  BY DEF Element
<1>2. <<e.name, e.edge0, e.edge1>> \in Seq(Words)
  BY <1>1
<1>3. <<e.name, e.edge0, e.edge1>> \o e.value \in Seq(Words)
  BY <1>1, <1>2, ConcatProperties
<1> QED
  BY <1>3, PlainType DEF toString

(* The first line that passes a test, or 0.                                *)
LEMMA FirstPrint ==
    ASSUME NEW s \in Seq(Line)
    PROVE  LET p == SelectInSeq(s, IsPrint)
           IN  /\ p \in 0..Len(s)
               /\ p = 0 => \A k \in 1..Len(s) : ~IsPrint(s[k])
               /\ p # 0 => IsPrint(s[p]) /\ \A k \in 1..Len(s) : IsPrint(s[k]) => p =< k
<1> DEFINE I == {k \in 1..Len(s) : IsPrint(s[k])}
<1>1. SelectInSeq(s, IsPrint) = IF I # {} THEN Min(I) ELSE 0
  BY DEF SelectInSeq
<1>2. CASE I = {}
  BY <1>1, <1>2
<1>3. CASE I # {}
  <2>1. I \subseteq Nat \ {0}
    OBVIOUS
  <2>2. Min(I) \in I /\ \A y \in I : Min(I) =< y
    <3> HIDE DEF I
    <3> QED
      BY <1>3, <2>1, Least
  <2> QED
    BY <1>1, <1>3, <2>2
<1> QED
  BY <1>2, <1>3

(* Commands writes lines, and a transient analysis in front of every print *)
(* command if there is none among the commands it is given.                *)
Translated(cs) == [k \in 1..Len(cs) |-> IF IsTran(cs[k]) THEN makeTransCommand(cs[k]) ELSE cs[k]]

LEMMA TranslatedType ==
    ASSUME NEW cs \in Seq(Line), Listable(cs)
    PROVE  Translated(cs) \in Seq(Line) /\ Len(Translated(cs)) = Len(cs)
<1>1. \A k \in 1..Len(cs) : cs[k] \in Line /\ (IsTran(cs[k]) => Len(cs[k].words) >= 4)
  BY DEF Listable
<1>2. ASSUME NEW k \in 1..Len(cs)
      PROVE  (IF IsTran(cs[k]) THEN makeTransCommand(cs[k]) ELSE cs[k]) \in Line
  BY <1>1, TransType
<1> QED
  BY <1>2 DEF Translated

LEMMA CommandsAre ==
    ASSUME NEW own \in Seq(Line), NEW extra \in Seq(Line)
    PROVE  LET all == Translated(own \o extra)
               print == SelectInSeq(all, IsPrint)
           IN  Commands(own, extra) =
                 IF \E k \in DOMAIN all : IsTran(all[k]) THEN all
                 ELSE InsertAt(all, IF print = 0 THEN Len(all) + 1 ELSE print, DefaultTran)
<1>1. Len(own \o extra) = Len(own) + Len(extra)
  OBVIOUS
<1> QED
  BY <1>1 DEF Commands, Translated

LEMMA CommandsType ==
    ASSUME NEW own \in Seq(Line), NEW extra \in Seq(Line), Listable(own \o extra)
    PROVE  Commands(own, extra) \in Seq(Line)
<1> DEFINE all   == Translated(own \o extra)
           print == SelectInSeq(all, IsPrint)
           place == IF print = 0 THEN Len(all) + 1 ELSE print
<1>1. own \o extra \in Seq(Line)
  OBVIOUS
<1>2. all \in Seq(Line)
  BY <1>1, TranslatedType
<1>3. print \in 0..Len(all)
  <2> HIDE DEF all
  <2> QED
    BY <1>2, FirstPrint
<1>4. place \in 1..(Len(all) + 1) /\ DefaultTran \in Line
  <2>1. Len(all) \in Nat
    BY <1>2
  <2> QED
    BY <1>3, <2>1, DefaultType
<1>5. InsertAt(all, place, DefaultTran) \in Seq(Line)
  <2> HIDE DEF all, place
  <2> QED
    BY <1>2, <1>4, InsertAtProperties
<1> QED
  BY <1>2, <1>5, CommandsAre

LEMMA ListingType ==
    ASSUME TypeOK, NEW extra \in Seq(Line), Listable(controls \o extra)
    PROVE  listing(extra) \in Seq(Line)
<1>1. /\ <<title>> \in Seq(Line)
      /\ sections["option"] \in Seq(Line) /\ sections["model"] \in Seq(Line)
      /\ sections["dc"] \in Seq(Line) /\ sections["ac"] \in Seq(Line)
  BY DEF TypeOK, Sections
<1>2. [k \in DOMAIN elements |-> toString(elements[k])] \in Seq(Line)
  <2>1. DOMAIN elements = 1..Len(elements) /\ Len(elements) \in Nat
        /\ \A k \in 1..Len(elements) : elements[k] \in Element
    BY DEF TypeOK
  <2>2. \A k \in 1..Len(elements) : toString(elements[k]) \in Line
    BY <2>1, ToStringType
  <2> QED
    BY <2>1, <2>2
<1>3. /\ Marker("blank") \in Line /\ Marker("control") \in Line
      /\ Marker("endc") \in Line /\ Marker("dot") \in Line
  BY DEF Marker, Line, Kinds
<1>4. <<Marker("blank"), Marker("control")>> \in Seq(Line) /\ <<Marker("endc"), Marker("dot")>> \in Seq(Line)
  BY <1>3
<1>5. Commands(controls, extra) \in Seq(Line)
  BY CommandsType DEF TypeOK
<1>6. \A s, t \in Seq(Line) : s \o t \in Seq(Line)
  OBVIOUS
<1> DEFINE es == [k \in DOMAIN elements |-> toString(elements[k])]
           cs == Commands(controls, extra)
           m1 == <<Marker("blank"), Marker("control")>>
           m2 == <<Marker("endc"), Marker("dot")>>
           t1 == <<title>>
<1>7. t1 \in Seq(Line) /\ es \in Seq(Line) /\ cs \in Seq(Line) /\ m1 \in Seq(Line) /\ m2 \in Seq(Line)
  BY <1>1, <1>2, <1>4, <1>5
<1>8. listing(extra) = t1 \o sections["option"] \o es \o sections["model"] \o sections["dc"]
                       \o sections["ac"] \o m1 \o cs \o m2
  BY DEF listing
<1> HIDE DEF es, cs, m1, m2, t1
<1>9. t1 \o sections["option"] \o es \in Seq(Line)
  BY <1>1, <1>6, <1>7, Zenon
<1>10. t1 \o sections["option"] \o es \o sections["model"] \in Seq(Line)
  BY <1>1, <1>6, <1>9, Zenon
<1>11. t1 \o sections["option"] \o es \o sections["model"] \o sections["dc"] \in Seq(Line)
  BY <1>1, <1>6, <1>10, Zenon
<1>12. t1 \o sections["option"] \o es \o sections["model"] \o sections["dc"]
       \o sections["ac"] \in Seq(Line)
  BY <1>1, <1>6, <1>11, Zenon
<1>13. t1 \o sections["option"] \o es \o sections["model"] \o sections["dc"]
       \o sections["ac"] \o m1 \in Seq(Line)
  BY <1>6, <1>7, <1>12, Zenon
<1>14. t1 \o sections["option"] \o es \o sections["model"] \o sections["dc"]
       \o sections["ac"] \o m1 \o cs \in Seq(Line)
  BY <1>6, <1>7, <1>13, Zenon
<1> QED
  BY <1>6, <1>7, <1>8, <1>14, Zenon

-----------------------------------------------------------------------------
(* A new object and the netlist given to load (Circuit::load) have the     *)
(* types.                                                                  *)
LEMMA TypeInit == Init => TypeOK
<1> SUFFICES ASSUME Init PROVE TypeOK
  OBVIOUS
<1>1. given \in Seq(Line) /\ Len(given) \in Nat
  BY NetlistsAssumption DEF Init
<1>2. title \in Line /\ sections \in [Sections -> Seq(Line)] /\ elements \in Seq(Element)
      /\ controls \in Seq(Line) /\ edges \subseteq Words /\ sent \in Seq(Line)
      /\ paramlist \in Seq(Seq(Words))
  BY DEF Init, Empty, NoTitle, NoSections, Line, Kinds
<1>3. given \in Netlists /\ lines \in Seq(Line) /\ index \in 0..(Len(lines) + 1)
  BY <1>1 DEF Init
<1>4. pc \in {"join", "analyze", "done"} /\ inControl \in BOOLEAN /\ status \in BOOLEAN
  BY DEF Init
<1> QED
  BY <1>2, <1>3, <1>4 DEF TypeOK

(* The line that load is at.                                               *)
LEMMA LineType ==
    ASSUME TypeOK, NEW kinds, At(kinds), index >= 1
    PROVE  /\ Line_ \in Line /\ Line_.words \in Seq(Words)
           /\ index \in 1..Len(lines) /\ Len(lines) \in Nat
           /\ index + 1 \in 0..(Len(lines) + 1)
<1>1. index \in 1..Len(lines) /\ Len(lines) \in Nat
  BY DEF TypeOK, At
<1>2. Line_ \in Line
  BY <1>1 DEF TypeOK, Line_
<1> QED
  BY <1>1, <1>2 DEF Line

IInv == TypeOK /\ LoadInv

(* A step of load, or of listing, keeps the types; where the loops are at  *)
(* (LoadInv) says that there is a line to read.                            *)
LEMMA TypeStep == IInv /\ [Next]_vars => TypeOK'
<1> SUFFICES ASSUME TypeOK, LoadInv, [Next]_vars PROVE TypeOK'
  BY DEF IInv
<1>0. ASSUME NEW kinds, At(kinds) PROVE index >= 1
  <2>1. Reading
    BY <1>0 DEF At, LoadInv
  <2> QED
    BY <2>1 DEF Reading
<1> USE DEF TypeOK
<1>1. CASE UNCHANGED vars
  BY <1>1 DEF vars, object, later
<1>2. CASE JoinLine
  <2>1. index \in 2..Len(lines) /\ Len(lines) \in Nat
    BY <1>2 DEF JoinLine, LoadInv, later
  <2>2. lines' \in Seq(Line) /\ Len(lines') \in {Len(lines), Len(lines) - 1}
    <3>1. CASE lines[index].kind = "plus"
      BY <1>2, <2>1, <3>1, JoinType DEF JoinLine, later
    <3>2. CASE lines[index].kind # "plus"
      BY <1>2, <3>2 DEF JoinLine, later
    <3> QED
      BY <3>1, <3>2
  <2>3. index' \in 0..(Len(lines') + 1)
    BY <1>2, <2>1, <2>2 DEF JoinLine, later
  <2> QED
    BY <1>2, <2>2, <2>3 DEF JoinLine, object, later
<1>3. CASE SetTitle
  <2>1. index = 1 /\ 1 \in 1..Len(lines) /\ Len(lines) \in Nat
    BY <1>3 DEF SetTitle, LoadInv, later
  <2>2. lines[1] \in Line /\ 2 \in 0..(Len(lines) + 1)
    BY <2>1
  <2> QED
    BY <1>3, <2>2 DEF SetTitle, later
<1>4. CASE Skip
  BY <1>0, <1>4, LineType DEF Skip, Advance, later
<1>5. CASE KeepSection
  <2>1. Line_ \in Line /\ Line_.kind \in Sections /\ index + 1 \in 0..(Len(lines) + 1)
    BY <1>0, <1>5, LineType DEF KeepSection, At, Line_
  <2>2. Append(sections[Line_.kind], Line_) \in Seq(Line)
    BY <2>1
  <2>3. sections' \in [Sections -> Seq(Line)]
    BY <1>5, <2>1, <2>2 DEF KeepSection
  <2> QED
    BY <1>5, <2>1, <2>3 DEF KeepSection, Advance, later
<1>6. CASE EnterControl
  BY <1>0, <1>6, LineType DEF EnterControl, Advance, later
<1>7. CASE ShortLine
  <2>1. NoTitle \in Line /\ NoSections \in [Sections -> Seq(Line)]
    BY DEF NoTitle, NoSections, Line, Kinds
  <2>2. <<>> \in Seq(Element) /\ <<>> \in Seq(Line)
    OBVIOUS
  <2> QED
    BY <1>7, <2>1, <2>2 DEF ShortLine, later
<1>8. ASSUME AtElement, Len(Line_.words) >= 4
      PROVE  /\ Line_.words \in Seq(Words) /\ Len(Line_.words) \in Nat
             /\ Line_.words[1] \in Words /\ Line_.words[2] \in Words /\ Line_.words[3] \in Words
             /\ SubSeq(Line_.words, 4, Len(Line_.words)) \in Seq(Words)
             /\ index + 1 \in 0..(Len(lines) + 1)
  <2>1. Line_.words \in Seq(Words) /\ index + 1 \in 0..(Len(lines) + 1)
    BY <1>0, <1>8, LineType DEF AtElement
  <2>2. \A k \in 4..Len(Line_.words) : Line_.words[k] \in Words
    BY <2>1
  <2> QED
    BY <1>8, <2>1, <2>2, SubSeqProperties
<1>9. CASE Duplicate
  BY <1>8, <1>9 DEF Duplicate, NotesEdges, later
<1>10. CASE AddElement
  <2>1. [name |-> Line_.words[1], edge0 |-> Line_.words[2], edge1 |-> Line_.words[3],
         value |-> SubSeq(Line_.words, 4, Len(Line_.words))] \in Element
    BY <1>8, <1>10 DEF AddElement, Element
  <2>2. elements' \in Seq(Element)
    BY <1>10, <2>1 DEF AddElement
  <2> QED
    BY <1>8, <1>10, <2>2 DEF AddElement, NotesEdges, Advance, later
<1>11. CASE LeaveControl
  BY <1>0, <1>11, LineType DEF LeaveControl, Advance, later
<1>12. CASE AddControl
  <2>1. Line_ \in Line /\ index + 1 \in 0..(Len(lines) + 1)
    BY <1>0, <1>12, LineType DEF AddControl
  <2>2. controls' \in Seq(Line)
    BY <1>12, <2>1 DEF AddControl
  <2> QED
    BY <1>12, <2>1, <2>2 DEF AddControl, Advance, later
<1>13. CASE IgnoreInControl
  BY <1>0, <1>13, LineType DEF IgnoreInControl, Advance, later
<1>14. CASE Return
  BY <1>14 DEF Return, object, later
<1>15. ASSUME NEW extra \in Extras, Send(extra) PROVE TypeOK'
  <2>1. listing(extra) \in Seq(Line)
    BY <1>15, ExtrasAssumption, ListingType DEF Send
  <2> QED
    BY <1>15, <2>1 DEF Send, object
<1>16. ASSUME NEW params \in Params, SetParams(params) PROVE TypeOK'
  <2>1. params \in Seq(Seq(Words)) /\ Len(elements) \in Nat /\ DOMAIN elements = 1..Len(elements)
    BY ParamsAssumption
  <2>2. DOMAIN params = DOMAIN elements /\ \A k \in DOMAIN elements : params[k] \in Seq(Words)
    BY <1>16, <2>1 DEF SetParams, GivesParams
  <2>3. ASSUME NEW k \in DOMAIN elements
        PROVE  [elements[k] EXCEPT !.value = params[k]] \in Element
    <3>1. elements[k] \in Element
      BY <2>1
    <3> HIDE DEF TypeOK
    <3> QED
      BY <2>2, <3>1 DEF Element
  <2>4. elements' \in Seq(Element)
    BY <1>16, <2>1, <2>3 DEF SetParams, GivesParams
  <2>5. paramlist' \in Seq(Seq(Words)) /\ sent' \in Seq(Line)
    BY <1>16, <2>1 DEF SetParams, GivesParams
  <2> QED
    BY <1>16, <2>4, <2>5 DEF SetParams, GivesParams
<1> QED
  BY <1>1, <1>2, <1>3, <1>4, <1>5, <1>6, <1>7, <1>9, <1>10, <1>11, <1>12, <1>13, <1>14, <1>15,
     <1>16
     DEF Next

-----------------------------------------------------------------------------
(* Reading a line that is no element.                                      *)
LEMMA ReadOther ==
    ASSUME lines \in Seq(Line), Reading, index \in 1..Len(lines), ~IsElement(lines, index),
           lines' = lines, index' = index + 1, edges' = edges, elements' = elements,
           inControl' <=> InControl(lines, index + 1)
    PROVE  Reading'
<1>1. index \in 2..Len(lines) /\ Len(lines) \in Nat
  BY DEF Reading
<1>2. ReadElements = ReadAt(index) /\ ReadElements' = ReadAt(index + 1)
  BY DEF ReadElements, ReadAt
<1>3. ReadElements' = ReadElements
  BY <1>1, <1>2, ReadNext
<1>4. index' \in 2..(Len(lines') + 1)
  BY <1>1
<1> HIDE DEF ReadElements
<1> QED
  BY <1>3, <1>4 DEF Reading, is_exist_element

(* Reading an element line.                                                *)
LEMMA ReadElement ==
    ASSUME TypeOK, Reading, index \in 1..Len(lines), IsElement(lines, index),
           Len(Line_.words) >= 4, ~is_exist_element(Line_.words[1]),
           lines' = lines, index' = index + 1, NotesEdges,
           NEW e \in Element, e.name = Line_.words[1], elements' = Append(elements, e),
           inControl' <=> InControl(lines, index + 1)
    PROVE  Reading'
<1>1. index \in 2..Len(lines) /\ Len(lines) \in Nat /\ lines \in Seq(Line)
  BY DEF Reading, TypeOK
<1>2. ReadElements = ReadAt(index) /\ ReadElements' = ReadAt(index + 1)
  BY DEF ReadElements, ReadAt
<1>3. ReadElements' = ReadElements \cup {index}
  BY <1>1, <1>2, ReadNext
<1>4. index' \in 2..(Len(lines') + 1)
  BY <1>1
<1>5. Len(elements) \in Nat /\ DOMAIN elements = 1..Len(elements)
  BY DEF TypeOK
<1>6. /\ DOMAIN elements' = DOMAIN elements \cup {Len(elements) + 1}
      /\ \A k \in DOMAIN elements : elements'[k] = elements[k]
      /\ elements'[Len(elements) + 1].name = lines[index].words[1]
  <2>1. elements \in Seq(Element)
    BY DEF TypeOK
  <2>2. /\ Append(elements, e) \in Seq(Element) /\ Len(Append(elements, e)) = Len(elements) + 1
        /\ \A k \in 1..Len(elements) : Append(elements, e)[k] = elements[k]
        /\ Append(elements, e)[Len(elements) + 1] = e
    BY <2>1, AppendProperties
  <2>3. DOMAIN Append(elements, e) = 1..(Len(elements) + 1)
    BY <2>2
  <2> QED
    BY <1>5, <2>2, <2>3 DEF Line_
<1>7. \A k \in ReadElements : lines[k].words[1] # lines[index].words[1]
  BY DEF Reading, Line_, is_exist_element
<1> HIDE DEF ReadElements
<1>8. edges' = UNION {{lines[k].words[2], lines[k].words[3]} : k \in ReadElements'}
  BY <1>3 DEF Reading, NotesEdges, Line_
<1>9. \A f \in DOMAIN elements' : \E k \in ReadElements' : lines[k].words[1] = elements'[f].name
  BY <1>3, <1>6 DEF Reading
<1>10. \A k \in ReadElements' : Len(lines[k].words) >= 4 /\ is_exist_element(lines[k].words[1])'
  BY <1>3, <1>6 DEF Reading, Line_, is_exist_element
<1>11. \A j, k \in ReadElements' : lines[j].words[1] = lines[k].words[1] => j = k
  BY <1>3, <1>7 DEF Reading
<1> QED
  BY <1>4, <1>8, <1>9, <1>10, <1>11 DEF Reading

-----------------------------------------------------------------------------
(* Where the loops begin.                                                  *)
LEMMA LoadInit == Init => LoadInv
<1> SUFFICES ASSUME Init PROVE LoadInv
  OBVIOUS
<1>1. given \in Seq(Line) /\ Len(given) \in Nat
  BY NetlistsAssumption DEF Init
<1>2. given # <<>> => Len(given) >= 1
  BY <1>1
<1> QED
  BY <1>1, <1>2 DEF Init, Empty, LoadInv

(* Every step of load (Circuit::load) keeps LoadInv: the lines before      *)
(* index have been read as they mean, and load gives up only on a netlist  *)
(* that may not be simulated.                                              *)
LEMMA LoadStep == IInv /\ [Next]_vars => LoadInv'
<1> SUFFICES ASSUME TypeOK, LoadInv, [Next]_vars PROVE LoadInv'
  BY DEF IInv
<1>0. lines \in Seq(Line) /\ Len(lines) \in Nat
  BY DEF TypeOK
<1>1. ASSUME UNCHANGED <<pc, given, lines, index, inControl, elements, edges, status>>
      PROVE  LoadInv'
  <2>1. Reading' <=> Reading
    BY <1>1 DEF Reading, ReadElements, is_exist_element
  <2> QED
    BY <1>1, <2>1 DEF LoadInv
<1>2. ASSUME NEW kinds, At(kinds)
      PROVE  /\ Reading /\ pc = "analyze"
             /\ index \in 2..Len(lines) /\ index \in 1..Len(lines)
             /\ lines[index].kind \in kinds
             /\ inControl <=> InControl(lines, index)
             /\ InControl(lines, index + 1) <=>
                  lines[index].kind = "control" \/ (inControl /\ lines[index].kind # "endc")
  <2>1. Reading /\ pc = "analyze" /\ lines[index].kind \in kinds /\ index <= Len(lines)
    BY <1>2 DEF At, LoadInv
  <2>2. index \in 2..Len(lines) /\ (inControl <=> InControl(lines, index))
    BY <1>0, <2>1 DEF Reading
  <2> QED
    BY <1>0, <2>1, <2>2, InControlNext
<1>3. ASSUME Advance, Reading', pc = "analyze" PROVE LoadInv'
  BY <1>3 DEF LoadInv, Advance
<1>4. CASE UNCHANGED vars
  BY <1>1, <1>4 DEF vars, object, later
<1>5. CASE JoinLine
  <2>1. index \in 2..Len(lines) /\ pc' = "join" /\ index' = index - 1
    BY <1>0, <1>5 DEF JoinLine, LoadInv
  <2>2. Len(lines') \in {Len(lines), Len(lines) - 1}
    <3>1. CASE lines[index].kind = "plus"
      BY <1>0, <1>5, <2>1, <3>1, JoinType DEF JoinLine
    <3>2. CASE lines[index].kind # "plus"
      BY <1>5, <3>2 DEF JoinLine
    <3> QED
      BY <3>1, <3>2
  <2>3. index' \in 1..Len(lines')
    BY <1>0, <2>1, <2>2
  <2> QED
    BY <1>5, <2>1, <2>3 DEF JoinLine, LoadInv, object
<1>6. CASE SetTitle
  <2>1. /\ pc' = "analyze" /\ index' = 2 /\ lines' = lines /\ Len(lines) >= 1
        /\ ~inControl' /\ edges' = {} /\ elements' = <<>>
    BY <1>0, <1>6 DEF SetTitle, LoadInv
  <2>2. ReadElements' = {}
    BY <2>1 DEF ReadElements
  <2>3. 2 \in 2..(Len(lines) + 1) /\ ~InControl(lines, 2)
    BY <1>0, <2>1, InControlFirst
  <2>4. Reading'
    BY <2>1, <2>2, <2>3 DEF Reading
  <2> QED
    BY <2>1, <2>4 DEF LoadInv
<1>7. CASE Skip
  <2>1. lines[index].kind \in Skipped
    BY <1>2, <1>7 DEF Skip
  <2>2. ~IsElement(lines, index) /\ (inControl' <=> InControl(lines, index + 1))
    BY <1>2, <1>7, <2>1 DEF Skip, IsElement, Skipped
  <2>3. Reading'
    BY <1>0, <1>2, <1>7, <2>2, ReadOther DEF Skip, Advance
  <2> QED
    BY <1>2, <1>3, <1>7, <2>3 DEF Skip
<1>8. CASE KeepSection
  <2>1. lines[index].kind \in Sections /\ ~inControl
    BY <1>2, <1>8 DEF KeepSection
  <2>2. ~IsElement(lines, index) /\ (inControl' <=> InControl(lines, index + 1))
    BY <1>2, <1>8, <2>1 DEF KeepSection, IsElement, Sections
  <2>3. Reading'
    BY <1>0, <1>2, <1>8, <2>2, ReadOther DEF KeepSection, Advance
  <2> QED
    BY <1>2, <1>3, <1>8, <2>3 DEF KeepSection
<1>9. CASE EnterControl
  <2>1. lines[index].kind = "control"
    BY <1>2, <1>9 DEF EnterControl
  <2>2. ~IsElement(lines, index) /\ (inControl' <=> InControl(lines, index + 1))
    BY <1>2, <1>9, <2>1 DEF EnterControl, IsElement
  <2>3. Reading'
    BY <1>0, <1>2, <1>9, <2>2, ReadOther DEF EnterControl, Advance
  <2> QED
    BY <1>2, <1>3, <1>9, <2>3 DEF EnterControl
<1>10. ASSUME AtElement
       PROVE  /\ IsElement(lines, index) /\ index \in 2..Len(lines) /\ index \in 1..Len(lines)
              /\ Reading /\ pc = "analyze" /\ ~inControl
              /\ lines[index].kind \notin Skipped \cup Sections \cup {"control"}
  <2>1. /\ Reading /\ pc = "analyze" /\ index \in 2..Len(lines) /\ index \in 1..Len(lines)
        /\ lines[index].kind \in Kinds \ (Skipped \cup Sections \cup {"control"})
        /\ ~inControl /\ ~InControl(lines, index)
    BY <1>2, <1>10 DEF AtElement
  <2> QED
    BY <2>1 DEF IsElement
<1>11. CASE ShortLine
  <2>1. IsShort(lines, index) /\ index \in 1..Len(lines)
    BY <1>10, <1>11 DEF ShortLine, IsShort, Line_
  <2>2. ~Acceptable(lines)
    BY <2>1 DEF Acceptable
  <2> QED
    BY <1>11, <2>2 DEF ShortLine, LoadInv
<1>12. CASE Duplicate
  <2>1. PICK e \in DOMAIN elements : elements[e].name = lines[index].words[1]
    BY <1>12 DEF Duplicate, is_exist_element, Line_
  <2>2. PICK k \in ReadElements : lines[k].words[1] = lines[index].words[1]
    BY <1>10, <1>12, <2>1 DEF Duplicate, Reading
  <2>3. k \in 1..Len(lines) /\ k # index /\ IsElement(lines, k)
    BY <1>0, <1>10, <1>12, <2>2 DEF Duplicate, ReadElements
  <2>4. ~Acceptable(lines)
    BY <1>10, <1>12, <2>2, <2>3 DEF Duplicate, Acceptable
  <2> QED
    BY <1>12, <2>4 DEF Duplicate, LoadInv
<1>13. CASE AddElement
  <2> DEFINE e == [name |-> Line_.words[1], edge0 |-> Line_.words[2], edge1 |-> Line_.words[3],
                   value |-> SubSeq(Line_.words, 4, Len(Line_.words))]
  <2>0. lines[index] \in Line
    BY <1>0, <1>10, <1>13 DEF AddElement
  <2>1. Line_.words \in Seq(Words)
    BY <2>0 DEF Line_, Line
  <2>2. e \in Element /\ e.name = Line_.words[1]
    <3>1. /\ Len(Line_.words) \in Nat /\ Len(Line_.words) >= 4
          /\ \A k \in 4..Len(Line_.words) : Line_.words[k] \in Words
          /\ Line_.words[1] \in Words /\ Line_.words[2] \in Words /\ Line_.words[3] \in Words
      BY <1>13, <2>1 DEF AddElement
    <3>2. SubSeq(Line_.words, 4, Len(Line_.words)) \in Seq(Words)
      BY <3>1, SubSeqProperties
    <3> QED
      BY <3>1, <3>2 DEF Element
  <2>3. inControl' <=> InControl(lines, index + 1)
    <3>1. InControl(lines, index + 1) <=> lines[index].kind = "control"
      BY <1>2, <1>10, <1>13 DEF AddElement, AtElement
    <3> QED
      BY <1>10, <1>13, <3>1 DEF AddElement
  <2>4. elements' = Append(elements, e)
    BY <1>13 DEF AddElement
  <2>5. Reading'
    <3> HIDE DEF e
    <3> QED
      BY <1>10, <1>13, <2>2, <2>3, <2>4, ReadElement DEF AddElement, Advance
  <2> QED
    BY <1>3, <1>10, <1>13, <2>5 DEF AddElement
<1>14. ASSUME inControl, Reading PROVE ~IsElement(lines, index)
  BY <1>14 DEF IsElement, Reading
<1>15. CASE LeaveControl
  <2>1. lines[index].kind = "endc" /\ inControl
    BY <1>2, <1>15 DEF LeaveControl
  <2>2. ~IsElement(lines, index) /\ (inControl' <=> InControl(lines, index + 1))
    BY <1>2, <1>14, <1>15, <2>1 DEF LeaveControl
  <2>3. Reading'
    BY <1>0, <1>2, <1>15, <2>2, ReadOther DEF LeaveControl, Advance
  <2> QED
    BY <1>2, <1>3, <1>15, <2>3 DEF LeaveControl
<1>16. CASE AddControl
  <2>1. lines[index].kind \in {"plain", "plus"} /\ inControl
    BY <1>2, <1>16 DEF AddControl
  <2>2. ~IsElement(lines, index) /\ (inControl' <=> InControl(lines, index + 1))
    BY <1>2, <1>14, <1>16, <2>1 DEF AddControl
  <2>3. Reading'
    BY <1>0, <1>2, <1>16, <2>2, ReadOther DEF AddControl, Advance
  <2> QED
    BY <1>2, <1>3, <1>16, <2>3 DEF AddControl
<1>17. CASE IgnoreInControl
  <2>1. lines[index].kind \in Sections \cup {"control", "dot"} /\ inControl
    BY <1>2, <1>17 DEF IgnoreInControl
  <2>2. ~IsElement(lines, index) /\ (inControl' <=> InControl(lines, index + 1))
    BY <1>2, <1>14, <1>17, <2>1 DEF IgnoreInControl, Sections
  <2>3. Reading'
    BY <1>0, <1>2, <1>17, <2>2, ReadOther DEF IgnoreInControl, Advance
  <2> QED
    BY <1>2, <1>3, <1>17, <2>3 DEF IgnoreInControl
<1>18. CASE Return
  <2>1. Reading /\ index = Len(lines) + 1
    BY <1>0, <1>18 DEF Return, LoadInv, Reading
  <2>2. Reading' /\ index' = Len(lines') + 1
    BY <1>18, <2>1 DEF Return, object, Reading, ReadElements, is_exist_element
  <2> QED
    BY <1>18, <2>2 DEF Return, LoadInv
<1>19. ASSUME NEW extra \in Extras, Send(extra) PROVE LoadInv'
  BY <1>1, <1>19 DEF Send, object
<1>20. ASSUME NEW params \in Params, SetParams(params) PROVE LoadInv'
  <2>1. /\ DOMAIN elements' = DOMAIN elements
        /\ \A k \in DOMAIN elements : elements'[k].name = elements[k].name
    <3>1. DOMAIN elements' = DOMAIN elements
      BY <1>20 DEF SetParams, GivesParams
    <3>2. ASSUME NEW k \in DOMAIN elements PROVE elements'[k].name = elements[k].name
      <4>1. elements[k] \in Element
        BY DEF TypeOK
      <4>2. elements'[k] = [elements[k] EXCEPT !.value = params[k]]
        BY <1>20 DEF SetParams, GivesParams
      <4> QED
        BY <4>1, <4>2 DEF Element
    <3> QED
      BY <3>1, <3>2
  <2>2. Reading' <=> Reading
    <3>1. ReadElements' = ReadElements /\ lines' = lines /\ index' = index /\ edges' = edges
          /\ inControl' = inControl
      BY <1>20 DEF SetParams, GivesParams, ReadElements
    <3>2. ASSUME NEW name PROVE is_exist_element(name)' <=> is_exist_element(name)
      BY <2>1 DEF is_exist_element
    <3>3. ASSUME NEW S
          PROVE  (\A e \in DOMAIN elements' : \E k \in S : lines[k].words[1] = elements'[e].name)
             <=> (\A e \in DOMAIN elements : \E k \in S : lines[k].words[1] = elements[e].name)
      BY <2>1
    <3> HIDE DEF ReadElements, is_exist_element
    <3> QED
      BY <3>1, <3>2, <3>3 DEF Reading
  <2> QED
    BY <1>20, <2>2 DEF SetParams, GivesParams, LoadInv
<1> QED
  BY <1>4, <1>5, <1>6, <1>7, <1>8, <1>9, <1>11, <1>12, <1>13, <1>15, <1>16, <1>17, <1>18, <1>19,
     <1>20
     DEF Next

-----------------------------------------------------------------------------
(* Circuit::load and Circuit::listing keep the types and the loop          *)
(* invariant, for every set of netlists and of further commands.           *)
THEOREM LoadCorrect == Spec => []IInv
<1>1. Init => IInv
  BY TypeInit, LoadInit DEF IInv
<1>2. IInv /\ [Next]_vars => IInv'
  BY TypeStep, LoadStep DEF IInv
<1> QED
  BY <1>1, <1>2, PTL DEF Spec

THEOREM TypeCorrect == Spec => []TypeOK
<1>1. IInv => TypeOK
  BY DEF IInv
<1> QED
  BY <1>1, LoadCorrect, PTL

THEOREM LoadInvCorrect == Spec => []LoadInv
<1>1. IInv => LoadInv
  BY DEF IInv
<1> QED
  BY <1>1, LoadCorrect, PTL

-----------------------------------------------------------------------------
(* The joining loop.  Where the continuations of a line end is the one     *)
(* place with none below it and nothing else above it.                     *)
Ends(n, h, e) ==
    /\ e \in h..Len(n)
    /\ \A k \in (h + 1)..e : n[k].kind = "plus"
    /\ e = Len(n) \/ n[e + 1].kind # "plus"

LEMMA LastOfEnds ==
    ASSUME NEW n \in Seq(Line), NEW h \in 1..Len(n)
    PROVE  Ends(n, h, LastOf(n, h))
<1> DEFINE T == {e \in h..Len(n) : e = Len(n) \/ n[e + 1].kind # "plus"}
<1>1. Len(n) \in Nat /\ Len(n) \in T /\ T \subseteq Nat \ {0}
  OBVIOUS
<1>2. PICK e \in T : \A y \in T : e <= y
  <2> HIDE DEF T
  <2> QED
    BY <1>1, LeastIndex
<1>3. ASSUME NEW k \in (h + 1)..e PROVE n[k].kind = "plus"
  <2>1. k - 1 \in h..Len(n) /\ ~(e <= k - 1) /\ (k - 1) + 1 = k
    BY <1>1
  <2>2. k - 1 \notin T
    BY <1>2, <2>1
  <2> QED
    BY <2>1, <2>2
<1>4. \E x \in h..Len(n) : /\ \A k \in (h + 1)..x : n[k].kind = "plus"
                           /\ x = Len(n) \/ n[x + 1].kind # "plus"
  BY <1>3
<1> QED
  BY <1>4 DEF Ends, LastOf

LEMMA LastOfOnly ==
    ASSUME NEW n \in Seq(Line), NEW h \in 1..Len(n), NEW e, Ends(n, h, e)
    PROVE  LastOf(n, h) = e
<1> DEFINE l == LastOf(n, h)
<1>1. Ends(n, h, l)
  BY LastOfEnds
<1> HIDE DEF l
<1>2. ASSUME NEW x, NEW y, Ends(n, h, x), Ends(n, h, y), x < y PROVE FALSE
  <2>1. x \in h..Len(n) /\ y \in h..Len(n) /\ Len(n) \in Nat
    BY <1>2 DEF Ends
  <2>2. x + 1 \in (h + 1)..y /\ x # Len(n)
    BY <1>2, <2>1
  <2> QED
    BY <1>2, <2>2 DEF Ends
<1>3. l \in Int /\ e \in Int
  BY <1>1 DEF Ends
<1>4. ~(l < e) /\ ~(e < l)
  BY <1>1, <1>2
<1>5. l = e
  BY <1>3, <1>4
<1> QED
  BY <1>5 DEF l

(* The words of a logical line.                                            *)
WordsOf(n, h, e) == [k \in 1..(e - h + 1) |-> n[h + k - 1].words]

LEMMA WordsOfType ==
    ASSUME NEW n \in Seq(Line), NEW h \in 1..Len(n), NEW e \in h..Len(n)
    PROVE  /\ WordsOf(n, h, e) \in Seq(Seq(Words)) /\ Len(WordsOf(n, h, e)) = e - h + 1
           /\ \A k \in 1..(e - h + 1) : WordsOf(n, h, e)[k] = n[h + k - 1].words
<1>1. ASSUME NEW k \in 1..(e - h + 1) PROVE n[h + k - 1].words \in Seq(Words)
  <2>1. h + k - 1 \in 1..Len(n)
    OBVIOUS
  <2>2. n[h + k - 1] \in Line
    BY <2>1
  <2> QED
    BY <2>2 DEF Line
<1>2. e - h + 1 \in Nat
  OBVIOUS
<1> DEFINE m == e - h + 1
           w(k) == n[h + k - 1].words
<1>3. \A k \in 1..m : w(k) \in Seq(Words)
  BY <1>1
<1>4. WordsOf(n, h, e) = [k \in 1..m |-> w(k)]
  BY DEF WordsOf
<1>5. m \in Nat
  BY <1>2
<1> HIDE DEF m, w
<1>6. /\ WordsOf(n, h, e) \in Seq(Seq(Words)) /\ Len(WordsOf(n, h, e)) = m
      /\ \A k \in 1..m : WordsOf(n, h, e)[k] = w(k)
  BY <1>3, <1>4, <1>5
<1> QED
  BY <1>6 DEF m, w

(* A line with no continuation below it is a logical line by itself.       *)
LEMMA Alone ==
    ASSUME NEW n \in Seq(Line), NEW h \in 1..Len(n),
           h = Len(n) \/ n[h + 1].kind # "plus"
    PROVE  Logical(n, h) = n[h]
<1>1. Ends(n, h, h)
  BY DEF Ends
<1>2. LastOf(n, h) = h
  BY <1>1, LastOfOnly
<1>3. PICK e \in h..Len(n) : e = h /\ e - h + 1 = 1 /\ h + 1 - 1 = h
  OBVIOUS
<1>4. Len(WordsOf(n, h, h)) = 1 /\ WordsOf(n, h, h)[1] = n[h].words
  <2>1. /\ Len(WordsOf(n, h, e)) = e - h + 1
        /\ \A k \in 1..(e - h + 1) : WordsOf(n, h, e)[k] = n[h + k - 1].words
    BY WordsOfType
  <2>2. 1 \in 1..(e - h + 1)
    BY <1>3
  <2>3. WordsOf(n, h, e)[1] = n[h + 1 - 1].words
    BY <2>1, <2>2
  <2> QED
    BY <1>3, <2>1, <2>3
<1>5. FlattenSeq(WordsOf(n, h, h)) = n[h].words
  BY <1>4, FlattenOne
<1>6. Logical(n, h) = [kind |-> n[h].kind, words |-> FlattenSeq(WordsOf(n, h, h))]
  <2>1. ~(LastOf(n, h) > h)
    BY <1>2
  <2> QED
    BY <1>2, <2>1 DEF Logical, WordsOf
<1>7. n[h] \in Line
  OBVIOUS
<1> QED
  BY <1>5, <1>6, <1>7 DEF Line

(* A continuation belongs to the logical line of the line above it.        *)
LEMMA Belongs ==
    ASSUME NEW n \in Seq(Line), NEW h \in 2..Len(n), n[h].kind = "plus"
    PROVE  Logical(n, h - 1) = Continued(n[h - 1], Logical(n, h))
<1> DEFINE e == LastOf(n, h)
           g == h - 1
<1>1. /\ Ends(n, h, e) /\ h \in 1..Len(n) /\ g \in 1..Len(n) /\ h = g + 1 /\ Len(n) \in Nat
  BY LastOfEnds
<1> HIDE DEF e, g
<1>2. e \in h..Len(n)
  BY <1>1 DEF Ends
<1>3. Ends(n, g, e)
  <2>1. \A k \in (g + 1)..e : k = h \/ k \in (h + 1)..e
    BY <1>1, <1>2
  <2>2. e \in g..Len(n)
    BY <1>1, <1>2
  <2> QED
    BY <1>1, <2>1, <2>2 DEF Ends
<1>4. LastOf(n, g) = e
  BY <1>1, <1>3, LastOfOnly
<1> DEFINE s == WordsOf(n, h, e)
           t == WordsOf(n, g, e)
<1>5. /\ s \in Seq(Seq(Words)) /\ Len(s) = e - h + 1
      /\ \A k \in 1..(e - h + 1) : s[k] = n[h + k - 1].words
  BY <1>1, <1>2, WordsOfType
<1>6. /\ t \in Seq(Seq(Words)) /\ Len(t) = e - g + 1
      /\ \A k \in 1..(e - g + 1) : t[k] = n[g + k - 1].words
  <2>1. e \in g..Len(n)
    BY <1>1, <1>2
  <2> QED
    BY <1>1, <2>1, WordsOfType
<1> HIDE DEF s, t
<1>7. Len(s) \in Nat \ {0} /\ Len(t) = Len(s) + 1 /\ t[1] = n[g].words
  <2>1. 1 \in 1..(e - g + 1) /\ g + 1 - 1 = g
    BY <1>1, <1>2
  <2>2. t[1] = n[g].words
    BY <1>6, <2>1
  <2> QED
    BY <1>1, <1>2, <1>5, <1>6, <2>2
<1>8. ASSUME NEW k \in 1..Len(s) PROVE t[k + 1] = s[k]
  <2>1. k \in 1..(e - h + 1) /\ k + 1 \in 1..(e - g + 1) /\ g + (k + 1) - 1 = h + k - 1
    BY <1>1, <1>2, <1>5
  <2> QED
    BY <1>5, <1>6, <2>1
<1>9. FlattenSeq(t) = t[1] \o FlattenSeq(s)
  BY <1>5, <1>6, <1>7, <1>8, FlattenCons
<1>10. Logical(n, h) = [kind |-> "plus", words |-> FlattenSeq(s)]
  BY DEF Logical, WordsOf, s, e
<1>11. Logical(n, g) = [kind  |-> IF n[g].kind = "blank" THEN "plain" ELSE n[g].kind,
                        words |-> FlattenSeq(t)]
  <2>1. e > g
    BY <1>1, <1>2
  <2> QED
    BY <1>4, <2>1 DEF Logical, WordsOf, t
<1>12. Logical(n, g) = Continued(n[g], Logical(n, h))
  BY <1>7, <1>9, <1>10, <1>11 DEF Continued
<1> QED
  BY <1>12 DEF g

(* Before the loop looks at line i the lines above are as given, and from  *)
(* line i on they are joined.                                              *)
HeadsBelow(i) == {h \in Heads(given) : h > i}

JoinedFrom(i) ==
    /\ i \in 1..Len(given)
    /\ Len(lines) = i + Cardinality(HeadsBelow(i))
    /\ \A k \in 1..(i - 1) : lines[k] = given[k]
    /\ lines[i] = Logical(given, i)
    /\ \A j \in 1..Cardinality(HeadsBelow(i)) :
          lines[i + j] = Logical(given, Nth(HeadsBelow(i), j))

JoinInv ==
    IF given = <<>> THEN pc = "done"
    ELSE IF pc = "join" THEN JoinedFrom(index)
    ELSE lines = Joined(given)

LEMMA GivenType == ASSUME TypeOK PROVE given \in Seq(Line) /\ lines \in Seq(Line)
BY NetlistsAssumption DEF TypeOK

LEMMA JoinInit == Init => JoinInv
<1> SUFFICES ASSUME Init, given # <<>> PROVE JoinedFrom(Len(given))
  BY DEF Init, JoinInv
<1> DEFINE n == Len(given)
<1>1. given \in Seq(Line) /\ n \in Nat \ {0} /\ lines = given
  BY NetlistsAssumption DEF Init
<1>2. HeadsBelow(n) = {}
  <2>1. \A k \in 1..n : ~(k > n)
    BY <1>1
  <2>2. \A k \in Heads(given) : k \in 1..n
    BY <1>1 DEF Heads
  <2> QED
    BY <2>1, <2>2 DEF HeadsBelow
<1>3. Cardinality(HeadsBelow(n)) = 0
  BY <1>2, FS_EmptySet
<1>4. Logical(given, n) = given[n]
  <2>1. n \in 1..Len(given)
    BY <1>1
  <2> QED
    BY <1>1, <2>1, Alone
<1>5. n \in 1..Len(given) /\ \A k \in 1..(n - 1) : k \in 1..n
  BY <1>1
<1> QED
  BY <1>1, <1>3, <1>4, <1>5 DEF JoinedFrom

(* The heads from one line above on.                                       *)
LEMMA HeadsNext ==
    ASSUME given \in Seq(Line), NEW i \in 1..Len(given)
    PROVE  /\ HeadsBelow(i) \subseteq 1..Len(given) /\ \A h \in HeadsBelow(i) : i < h
           /\ i # 1 => HeadsBelow(i - 1) = IF given[i].kind = "plus" THEN HeadsBelow(i)
                                           ELSE HeadsBelow(i) \cup {i}
           /\ i = 1 => Heads(given) = HeadsBelow(i) \cup {i}
<1>1. Heads(given) = {k \in 1..Len(given) : k = 1 \/ given[k].kind # "plus"}
  BY DEF Heads
<1>2. \A k \in 1..Len(given) : k > i - 1 <=> k > i \/ k = i
  OBVIOUS
<1>3. \A k \in 1..Len(given) : k > i => i < k
  OBVIOUS
<1>4. i = 1 => \A k \in 1..Len(given) : k > i \/ k = i
  OBVIOUS
<1> QED
  BY <1>1, <1>2, <1>3, <1>4 DEF HeadsBelow

LEMMA KindOf ==
    ASSUME NEW n, NEW h
    PROVE  Logical(n, h).kind = "plus" <=> n[h].kind = "plus"
BY DEF Logical

LEMMA JoinOnce ==
    ASSUME TypeOK, JoinedFrom(index), JoinLine
    PROVE  JoinedFrom(index)'
<1> DEFINE i == index
           g == index - 1
           H == HeadsBelow(i)
           c == Cardinality(H)
<1>0. given \in Seq(Line) /\ lines \in Seq(Line) /\ Len(given) \in Nat
  BY GivenType
<1>1. /\ i \in 2..Len(given) /\ i \in 1..Len(given) /\ g \in 1..Len(given)
      /\ i = g + 1 /\ i # 1
  BY <1>0 DEF JoinedFrom, JoinLine
<1>2. /\ H \subseteq 1..Len(given) /\ \A h \in H : i < h
      /\ HeadsBelow(g) = IF given[i].kind = "plus" THEN H ELSE H \cup {i}
  BY <1>0, <1>1, HeadsNext
<1>3. /\ c \in Nat /\ Cardinality(H \cup {i}) = c + 1
      /\ Nth(H \cup {i}, 1) = i
      /\ \A k \in 1..c : Nth(H \cup {i}, k + 1) = Nth(H, k)
  <2>1. H \subseteq 1..Len(given) /\ (\A h \in H : i < h) /\ i \in 1..Len(given) /\ Len(given) \in Nat
    BY <1>0, <1>1, <1>2
  <2> HIDE DEF i, H
  <2>2. Leads(i, H, H \cup {i})
    BY ONLY <2>1, NthBelow
  <2> QED
    BY <2>2 DEF Leads
<1>4. /\ Len(lines) = i + c
      /\ \A k \in 1..(i - 1) : lines[k] = given[k]
      /\ lines[i] = Logical(given, i)
      /\ \A j \in 1..c : lines[i + j] = Logical(given, Nth(H, j))
  BY DEF JoinedFrom
<1>5. lines[g] = given[g] /\ i \in 2..Len(lines)
  BY <1>1, <1>3, <1>4
<1>6. /\ given' = given /\ index' = g
      /\ lines' = IF lines[i].kind = "plus"
                  THEN RemoveAt([lines EXCEPT ![i - 1] = Continued(@, lines[i])], i)
                  ELSE lines
  BY DEF JoinLine
<1>7. lines[i].kind = "plus" <=> given[i].kind = "plus"
  BY <1>4, KindOf
<1> DEFINE G == HeadsBelow(g)
           Joins(ls) == /\ Len(ls) = g + Cardinality(G)
                        /\ \A k \in 1..(g - 1) : ls[k] = given[k]
                        /\ ls[g] = Logical(given, g)
                        /\ \A j \in 1..Cardinality(G) : ls[g + j] = Logical(given, Nth(G, j))
<1>8. ASSUME Joins(lines') PROVE JoinedFrom(index)'
  <2>1. HeadsBelow(index)' = G
    BY <1>6 DEF HeadsBelow
  <2> HIDE DEF G
  <2> QED
    BY <1>1, <1>6, <1>8, <2>1 DEF JoinedFrom
<1>9. CASE given[i].kind = "plus"
  <2> DEFINE u == [lines EXCEPT ![g] = Continued(lines[g], lines[i])]
             v == RemoveAt(u, i)
  <2>1. lines' = v
    BY <1>6, <1>7, <1>9
  <2>2. lines[g] \in Line /\ lines[i] \in Line /\ g \in 1..Len(lines)
    BY <1>0, <1>1, <1>5
  <2>3. Continued(lines[g], lines[i]) \in Line
    BY <2>2, ContinuedType
  <2>4. /\ u \in Seq(Line) /\ Len(u) = Len(lines)
        /\ \A k \in 1..Len(lines) : u[k] = IF k = g THEN Continued(lines[g], lines[i]) ELSE lines[k]
    BY <1>0, <2>2, <2>3, ExceptSeq
  <2>5. Continued(lines[g], lines[i]) = Logical(given, g)
    BY <1>0, <1>1, <1>4, <1>5, <1>9, Belongs
  <2> HIDE DEF u
  <2>6. i \in 1..Len(u)
    BY <1>5, <2>4
  <2>7. /\ Len(v) = Len(u) - 1
        /\ \A k \in 1..(Len(u) - 1) : v[k] = u[IF k < i THEN k ELSE k + 1]
    <3> HIDE DEF i
    <3> QED
      BY <2>4, <2>6, RemoveAtProperties
  <2> HIDE DEF v
  <2>8. G = H /\ Cardinality(G) = c
    BY <1>2, <1>9
  <2> HIDE DEF G, H, c, i, g
  <2>9. Len(v) = g + c
    BY <1>1, <1>3, <1>4, <2>4, <2>7
  <2>10. ASSUME NEW k \in 1..(g - 1) PROVE v[k] = given[k]
    <3>1. k \in 1..(Len(u) - 1) /\ k < i /\ k # g /\ k \in 1..Len(lines) /\ k \in 1..(i - 1)
      BY <1>1, <1>3, <1>4, <2>4
    <3> QED
      BY <1>4, <2>4, <2>7, <3>1
  <2>11. v[g] = Logical(given, g)
    <3>1. g \in 1..(Len(u) - 1) /\ g < i /\ g \in 1..Len(lines)
      BY <1>1, <1>3, <1>4, <2>4
    <3> QED
      BY <2>4, <2>5, <2>7, <3>1
  <2>12. ASSUME NEW j \in 1..c PROVE v[g + j] = Logical(given, Nth(H, j))
    <3>1. /\ g + j \in 1..(Len(u) - 1) /\ ~(g + j < i) /\ (g + j) + 1 = i + j
          /\ i + j # g /\ i + j \in 1..Len(lines)
      BY <1>1, <1>3, <1>4, <2>4
    <3> QED
      BY <1>4, <2>4, <2>7, <3>1
  <2>13. Joins(v)
    BY <2>8, <2>9, <2>10, <2>11, <2>12
  <2> QED
    BY <1>8, <2>1, <2>13
<1>10. CASE given[i].kind # "plus"
  <2>1. lines' = lines
    BY <1>6, <1>7, <1>10
  <2>2. Logical(given, g) = given[g]
    <3> HIDE DEF g
    <3> QED
      BY <1>0, <1>1, <1>10, Alone
  <2>3. G = H \cup {i} /\ Cardinality(G) = c + 1
    BY <1>2, <1>3, <1>10
  <2>4. /\ Nth(G, 1) = i /\ \A k \in 1..c : Nth(G, k + 1) = Nth(H, k)
    BY <1>3, <2>3
  <2> HIDE DEF G, H, c, i, g
  <2>5. Len(lines) = g + (c + 1)
    BY <1>1, <1>3, <1>4
  <2>6. \A k \in 1..(g - 1) : lines[k] = given[k]
    BY <1>1, <1>4
  <2>7. ASSUME NEW j \in 1..(c + 1) PROVE lines[g + j] = Logical(given, Nth(G, j))
    <3>1. CASE j = 1
      BY <1>1, <1>4, <2>4, <3>1
    <3>2. CASE j # 1
      <4>1. j - 1 \in 1..c /\ (j - 1) + 1 = j /\ g + j = i + (j - 1)
        BY <1>1, <1>3, <3>2
      <4>2. lines[i + (j - 1)] = Logical(given, Nth(H, j - 1))
        BY <1>4, <4>1
      <4>3. Nth(G, (j - 1) + 1) = Nth(H, j - 1)
        BY <2>4, <4>1
      <4> QED
        BY <4>1, <4>2, <4>3
    <3> QED
      BY <3>1, <3>2
  <2>8. Joins(lines)
    BY <1>5, <2>2, <2>3, <2>5, <2>6, <2>7
  <2> QED
    BY <1>8, <2>1, <2>8
<1> QED
  BY <1>9, <1>10

(* When the loop has come to the first line the netlist is joined.         *)
LEMMA JoinEnds ==
    ASSUME TypeOK, given # <<>>, JoinedFrom(1)
    PROVE  lines = Joined(given)
<1> DEFINE H == HeadsBelow(1)
           c == Cardinality(H)
           G == Heads(given)
<1>0. given \in Seq(Line) /\ lines \in Seq(Line) /\ Len(given) \in Nat /\ 1 \in 1..Len(given)
  BY GivenType
<1>1. H \subseteq 1..Len(given) /\ (\A h \in H : 1 < h) /\ G = H \cup {1}
  BY <1>0, HeadsNext
<1> HIDE DEF H, G
<1>2. /\ c \in Nat /\ Cardinality(G) = c + 1 /\ Nth(G, 1) = 1
      /\ \A k \in 1..c : Nth(G, k + 1) = Nth(H, k)
  <2>1. PICK i \in 1..Len(given) : i = 1
    BY <1>0
  <2>2. H \subseteq 1..Len(given) /\ (\A h \in H : i < h) /\ Len(given) \in Nat
    BY <1>0, <1>1, <2>1
  <2>3. Leads(i, H, H \cup {i})
    BY ONLY <2>2, NthBelow
  <2> QED
    BY <1>1, <2>1, <2>3 DEF Leads
<1>3. /\ Len(lines) = 1 + c /\ lines[1] = Logical(given, 1)
      /\ \A j \in 1..c : lines[1 + j] = Logical(given, Nth(H, j))
  BY DEF JoinedFrom, H
<1> HIDE DEF c
<1>4. ASSUME NEW j \in 1..(c + 1) PROVE lines[j] = Logical(given, Nth(G, j))
  <2>1. CASE j = 1
    BY <1>2, <1>3, <2>1
  <2>2. CASE j # 1
    <3>1. j - 1 \in 1..c /\ (j - 1) + 1 = j /\ 1 + (j - 1) = j
      BY <1>2, <2>2
    <3>2. lines[1 + (j - 1)] = Logical(given, Nth(H, j - 1))
      BY <1>3, <3>1
    <3>3. Nth(G, (j - 1) + 1) = Nth(H, j - 1)
      BY <1>2, <3>1
    <3> QED
      BY <3>1, <3>2, <3>3
  <2> QED
    BY <2>1, <2>2
<1>5. Joined(given) = [j \in 1..(c + 1) |-> Logical(given, Nth(G, j))]
  BY <1>2 DEF Joined, G
<1>6. lines = [j \in 1..(c + 1) |-> lines[j]]
  <2>1. lines = [j \in 1..Len(lines) |-> lines[j]]
    BY <1>0
  <2>2. Len(lines) = c + 1
    BY <1>2, <1>3
  <2> QED
    BY <2>1, <2>2
<1> QED
  BY <1>4, <1>5, <1>6

LEMMA JoinStep == TypeOK /\ JoinInv /\ [Next]_vars => JoinInv'
<1> SUFFICES ASSUME TypeOK, JoinInv, [Next]_vars PROVE JoinInv'
  OBVIOUS
<1>1. CASE JoinLine
  <2>1. JoinedFrom(index)' /\ pc' = "join" /\ given # <<>> /\ given' = given
    BY <1>1, JoinOnce DEF JoinInv, JoinLine
  <2> QED
    BY <2>1 DEF JoinInv
<1>2. CASE SetTitle
  <2>1. lines = Joined(given) /\ given # <<>>
    BY <1>2, JoinEnds DEF JoinInv, SetTitle
  <2> QED
    BY <1>2, <2>1 DEF JoinInv, SetTitle
<1>3. ASSUME pc # "join", pc' # "join", pc = "done" => pc' = "done", UNCHANGED <<given, lines>>
      PROVE  JoinInv'
  BY <1>3 DEF JoinInv
<1>4. CASE \/ Skip \/ KeepSection \/ EnterControl \/ ShortLine \/ Duplicate \/ AddElement
           \/ LeaveControl \/ AddControl \/ IgnoreInControl \/ Return
           \/ \E extra \in Extras : Send(extra)
           \/ \E params \in Params : SetParams(params)
  BY <1>3, <1>4 DEF Skip, KeepSection, EnterControl, ShortLine, Duplicate, AddElement,
                    LeaveControl, AddControl, IgnoreInControl, Return, Send, SetParams, GivesParams,
                    Advance, At, AtElement
<1>5. CASE UNCHANGED vars
  BY <1>5 DEF vars, JoinInv, JoinedFrom, HeadsBelow, later
<1> QED
  BY <1>1, <1>2, <1>4, <1>5 DEF Next

(* The joining loop (Circuit::load) removes lines while it walks over      *)
(* them; in the end every line has all its continuations, in order and no  *)
(* others, for netlists of any length.                                     *)
THEOREM JoinsCorrect == Spec => []JoinsContinuations
<1>1. JoinInv => JoinsContinuations
  BY DEF JoinInv, JoinsContinuations
<1>2. Init => JoinInv
  BY JoinInit
<1> QED
  BY <1>1, <1>2, JoinStep, TypeCorrect, PTL DEF Spec

-----------------------------------------------------------------------------
(* When load has read all lines, the elements that it read are those of    *)
(* the netlist.                                                            *)
LEMMA AllRead ==
    ASSUME IInv, pc = "done", status
    PROVE  /\ Reading
           /\ \A k \in 1..Len(lines) : IsElement(lines, k) <=> k \in ReadElements
           /\ ReadElements = {j \in 1..Len(lines) : IsElement(lines, j)}
<1>1. Reading /\ index = Len(lines) + 1 /\ Len(lines) \in Nat
  BY DEF IInv, TypeOK, LoadInv
<1>2. ReadElements = {k \in 2..Len(lines) : IsElement(lines, k)}
  BY <1>1 DEF ReadElements
<1>3. \A k : IsElement(lines, k) => k \in 2..Len(lines)
  BY DEF IsElement
<1> QED
  BY <1>1, <1>2, <1>3

(* load accepts a netlist, of whatever length and with whatever control    *)
(* sections, exactly when its element lines are whole and name different   *)
(* elements (Circuit::load and is_exist_element).                          *)
THEOREM AcceptsCorrect == Spec => []AcceptsAcceptable
<1>1. IInv => AcceptsAcceptable
  <2> SUFFICES ASSUME IInv, pc = "done", given # <<>> PROVE status <=> Acceptable(lines)
    BY DEF AcceptsAcceptable
  <2>1. ASSUME status PROVE Acceptable(lines)
    <3>1. /\ Reading
          /\ \A k \in 1..Len(lines) : IsElement(lines, k) <=> k \in ReadElements
      BY <2>1, AllRead
    <3>2. \A k \in 1..Len(lines) : ~IsShort(lines, k)
      <4> SUFFICES ASSUME NEW k \in 1..Len(lines), IsElement(lines, k), Len(lines[k].words) < 4
                   PROVE  FALSE
        BY DEF IsShort
      <4>1. k \in ReadElements /\ Len(lines[k].words) >= 4
        BY <3>1 DEF Reading
      <4>2. lines[k] \in Line
        BY DEF IInv, TypeOK
      <4>3. Len(lines[k].words) \in Nat
        BY <4>2 DEF Line
      <4> QED
        BY <4>1, <4>3
    <3> QED
      BY <3>1, <3>2 DEF Acceptable, Reading
  <2>2. ASSUME ~status PROVE ~Acceptable(lines)
    BY <2>2 DEF IInv, LoadInv
  <2> QED
    BY <2>1, <2>2 DEF IInv, TypeOK
<1> QED
  BY <1>1, LoadCorrect, PTL

(* The nodes and names that queries are validated against (is_exist_edge,  *)
(* is_exist_element) are those of the element lines.                       *)
THEOREM NamesCorrect == Spec => []KnowsItsNames
<1>1. IInv => KnowsItsNames
  <2> SUFFICES ASSUME IInv, pc = "done", status
               PROVE  /\ edges = NodesOf(lines)
                      /\ {elements[k].name : k \in DOMAIN elements} = ElementNames(lines)
    BY DEF KnowsItsNames
  <2>1. Reading /\ ReadElements = {j \in 1..Len(lines) : IsElement(lines, j)}
    BY AllRead
  <2>2. edges = NodesOf(lines)
    BY <2>1 DEF Reading, NodesOf
  <2>3. ElementNames(lines) = {lines[k].words[1] : k \in ReadElements}
    BY <2>1 DEF ElementNames
  <2>4. /\ \A e \in DOMAIN elements : \E k \in ReadElements : lines[k].words[1] = elements[e].name
        /\ \A k \in ReadElements : \E e \in DOMAIN elements : elements[e].name = lines[k].words[1]
    BY <2>1 DEF Reading, is_exist_element
  <2>5. {elements[k].name : k \in DOMAIN elements} = {lines[k].words[1] : k \in ReadElements}
    <3> HIDE DEF ReadElements
    <3> QED
      BY <2>4
  <2> QED
    BY <2>2, <2>3, <2>5
<1> QED
  BY <1>1, LoadCorrect, PTL

-----------------------------------------------------------------------------
(* The transient analysis that listing adds to the commands is put before  *)
(* the first print, the others keep their order.                           *)
TranAt(both, cs, t) ==
    /\ t \in 1..(Len(both) + 1) /\ Len(cs) = Len(both) + 1 /\ cs[t] = DefaultTran
    /\ \A k \in 1..Len(both) : k < t => cs[k] = both[k] /\ ~IsPrint(both[k])
    /\ \A k \in 1..Len(both) : k >= t => cs[k + 1] = both[k]
    /\ t <= Len(both) => IsPrint(both[t])

LEMMA TranInserted ==
    ASSUME NEW own \in Seq(Line), NEW extra \in Seq(Line),
           \A k \in 1..Len(own \o extra) : ~IsTran((own \o extra)[k])
    PROVE  /\ \E t \in Nat : TranAt(own \o extra, Commands(own, extra), t)
           /\ Len(own \o extra) \in Nat
<1> DEFINE both  == own \o extra
           all   == Translated(both)
           print == SelectInSeq(all, IsPrint)
           place == IF print = 0 THEN Len(all) + 1 ELSE print
           cs    == InsertAt(all, place, DefaultTran)
<1>1. both \in Seq(Line) /\ Listable(both) /\ \A k \in 1..Len(both) : ~IsTran(both[k])
  <2>1. both \in Seq(Line) /\ DOMAIN both = 1..Len(both)
    OBVIOUS
  <2> QED
    BY <2>1 DEF Listable
<1> HIDE DEF both
<1>2. all \in Seq(Line) /\ Len(all) = Len(both) /\ Len(all) \in Nat /\ DOMAIN all = 1..Len(all)
  BY <1>1, TranslatedType
<1>3. \A k \in 1..Len(all) : all[k] = both[k]
  BY <1>1, <1>2 DEF Translated
<1>4. ~\E k \in DOMAIN all : IsTran(all[k])
  BY <1>1, <1>2, <1>3
<1>5. Commands(own, extra) = cs
  BY <1>4, CommandsAre DEF both
<1>6. /\ print \in 0..Len(all)
      /\ print = 0 => \A k \in 1..Len(all) : ~IsPrint(all[k])
      /\ print # 0 => IsPrint(all[print]) /\ \A k \in 1..Len(all) : IsPrint(all[k]) => print =< k
  <2> HIDE DEF all
  <2> QED
    BY <1>2, FirstPrint
<1>7. /\ place \in 1..(Len(all) + 1) /\ DefaultTran \in Line
      /\ \A k \in 1..Len(all) : k < place => ~IsPrint(all[k])
      /\ place <= Len(all) => IsPrint(all[place])
  <2> HIDE DEF all, print
  <2> QED
    BY <1>2, <1>6, DefaultType
<1>8. /\ Len(cs) = Len(all) + 1 /\ cs[place] = DefaultTran
      /\ \A k \in 1..(Len(all) + 1) : k # place => cs[k] = IF k < place THEN all[k] ELSE all[k - 1]
  <2> HIDE DEF all, place
  <2>1. /\ Len(cs) = Len(all) + 1
        /\ \A k \in 1..(Len(all) + 1) :
             cs[k] = IF k < place THEN all[k] ELSE IF k = place THEN DefaultTran ELSE all[k - 1]
    <3>1. all \in Seq(Line) /\ place \in 1..(Len(all) + 1) /\ DefaultTran \in Line
      BY <1>2, <1>7
    <3> QED
      BY ONLY <3>1, InsertAtProperties
  <2> QED
    BY <1>7, <2>1
<1> HIDE DEF all, place, cs
<1>9. \A k \in 1..Len(all) : k < place => cs[k] = all[k]
  BY <1>2, <1>7, <1>8
<1>10. ASSUME NEW k \in 1..Len(all), k >= place PROVE cs[k + 1] = all[k]
  <2>1. k + 1 \in 1..(Len(all) + 1) /\ k + 1 # place /\ ~(k + 1 < place) /\ (k + 1) - 1 = k
    BY <1>2, <1>7, <1>10
  <2> QED
    BY <1>8, <2>1
<1>11. TranAt(both, cs, place) /\ place \in Nat
  <2>1. place <= Len(all) => place \in 1..Len(all)
    BY <1>2, <1>7
  <2> QED
    BY <1>2, <1>3, <1>7, <1>8, <1>9, <1>10, <2>1 DEF TranAt
<1> QED
  BY <1>2, <1>5, <1>11 DEF both

(* "find index of first print": if no command asks for a transient         *)
(* analysis, the one that listing adds comes before all that is printed    *)
(* (Circuit::listing), for any number of commands.                         *)
THEOREM PrintsFollowTran ==
    ASSUME NEW own \in Seq(Line), NEW extra \in Seq(Line),
           \A k \in 1..Len(own \o extra) : ~IsTran((own \o extra)[k])
    PROVE  LET cs == Commands(own, extra)
           IN  \E t \in 1..Len(cs) :
                 /\ IsTran(cs[t])
                 /\ \A p \in 1..Len(cs) : IsPrint(cs[p]) => t < p
<1> DEFINE both == own \o extra
           cs   == Commands(own, extra)
<1>1. PICK t \in Nat : TranAt(both, cs, t)
  BY TranInserted
<1>2. Len(both) \in Nat
  BY TranInserted
<1>3. IsTran(DefaultTran) /\ ~IsPrint(DefaultTran)
  BY DEF DefaultTran, Plain, IsTran, IsPrint
<1> HIDE DEF both, cs
<1>4. t \in 1..Len(cs) /\ IsTran(cs[t])
  BY <1>1, <1>2, <1>3 DEF TranAt
<1>5. ASSUME NEW p \in 1..Len(cs), IsPrint(cs[p]) PROVE t < p
  <2>1. p # t
    BY <1>1, <1>3, <1>5 DEF TranAt
  <2>2. p < t => p \in 1..Len(both)
    BY <1>1, <1>2 DEF TranAt
  <2> QED
    BY <1>1, <1>2, <1>5, <2>1, <2>2 DEF TranAt
<1>6. \E k \in 1..Len(cs) : IsTran(cs[k]) /\ \A p \in 1..Len(cs) : IsPrint(cs[p]) => k < p
  BY <1>4, <1>5
<1> QED
  BY <1>6 DEF cs

-----------------------------------------------------------------------------
(* The listing as the simulator reads it, part by part.                    *)

(* Lines kept apart by load: commands are plain, sections are their kind.  *)
PartsInv ==
    /\ \A k \in DOMAIN controls : controls[k].kind \in {"plain", "plus"}
    /\ \A s \in Sections : \A k \in DOMAIN sections[s] : sections[s][k].kind = s

(* A beginning of the listing, with the elements es behind place a.        *)
Quiet == Sections \cup {"blank"}
Begins(h, es, a) ==
    /\ h \in Seq(Line) /\ Len(h) >= a + Len(es) /\ h[1] = title
    /\ \A k \in 1..Len(es) : h[a + k] = es[k]
    /\ \A k \in 2..Len(h) : k - a \in 1..Len(es) \/ h[k].kind \in Quiet

LEMMA BeginsMore ==
    ASSUME NEW es \in Seq(Line), NEW a \in Nat \ {0}, NEW h, Begins(h, es, a),
           NEW t \in Seq(Line), \A k \in DOMAIN t : t[k].kind \in Quiet
    PROVE  Begins(h \o t, es, a)
<1>1. /\ h \in Seq(Line) /\ Len(h) \in Nat /\ Len(t) \in Nat /\ Len(es) \in Nat
      /\ Len(h) >= a + Len(es) /\ DOMAIN t = 1..Len(t)
  BY DEF Begins
<1> DEFINE u == h \o t
<1>2. /\ u \in Seq(Line) /\ Len(u) = Len(h) + Len(t)
      /\ \A k \in 1..Len(h) : u[k] = h[k]
      /\ \A k \in 1..Len(t) : u[Len(h) + k] = t[k]
      /\ \A k \in 1..(Len(h) + Len(t)) : k \in 1..Len(h) \/ k - Len(h) \in 1..Len(t)
  BY <1>1, Joining
<1> HIDE DEF u
<1>3. Len(u) >= a + Len(es) /\ u[1] = title /\ \A k \in 1..Len(es) : u[a + k] = es[k]
  <2>1. 1 \in 1..Len(h) /\ \A k \in 1..Len(es) : a + k \in 1..Len(h)
    BY <1>1
  <2>2. Len(u) >= a + Len(es)
    BY <1>1, <1>2
  <2> QED
    BY <1>2, <2>1, <2>2 DEF Begins
<1>4. ASSUME NEW k \in 2..Len(u) PROVE k - a \in 1..Len(es) \/ u[k].kind \in Quiet
  <2>1. CASE k \in 1..Len(h)
    <3>1. k \in 2..Len(h) /\ u[k] = h[k]
      BY <1>1, <1>2, <2>1
    <3> QED
      BY <3>1 DEF Begins
  <2>2. CASE k - Len(h) \in 1..Len(t)
    <3>1. Len(h) + (k - Len(h)) = k
      BY <1>1, <1>2
    <3>2. u[k] = t[k - Len(h)]
      BY <1>2, <2>2, <3>1
    <3> QED
      BY <1>1, <2>2, <3>2
  <2> QED
    BY <1>1, <1>2, <2>1, <2>2
<1> QED
  BY <1>2, <1>3, <1>4 DEF Begins, u

(* The places in a listing s: elements behind a, commands behind c.        *)
Laid(s, es, cs, a, c) ==
    /\ s \in Seq(Line) /\ s[1] = title
    /\ a + Len(es) < c /\ Len(s) = c + Len(cs) + 2
    /\ \A k \in 1..Len(es) : s[a + k] = es[k]
    /\ \A k \in 2..(c - 1) : k - a \in 1..Len(es) \/ s[k].kind \in Quiet
    /\ s[c] = Marker("control")
    /\ \A k \in 1..Len(cs) : s[c + k] = cs[k]
    /\ s[c + Len(cs) + 1] = Marker("endc") /\ s[c + Len(cs) + 2] = Marker("dot")

(* What listing writes for the elements es (Circuit::listing).             *)
Text(es, extra) ==
    <<title>> \o sections["option"] \o es
    \o sections["model"] \o sections["dc"] \o sections["ac"]
    \o <<Marker("blank"), Marker("control")>> \o Commands(controls, extra)
    \o <<Marker("endc"), Marker("dot")>>

LEMMA TextLaid ==
    ASSUME TypeOK, PartsInv, NEW es \in Seq(Line), NEW extra \in Seq(Line),
           Listable(controls \o extra)
    PROVE  \E a, c \in Nat \ {0} : Laid(Text(es, extra), es, Commands(controls, extra), a, c)
<1> DEFINE cs == Commands(controls, extra)
           t1 == <<title>>
           op == sections["option"]
           mo == sections["model"]
           dc == sections["dc"]
           ac == sections["ac"]
           bl == <<Marker("blank")>>
           co == <<Marker("control")>>
           m1 == <<Marker("blank"), Marker("control")>>
           m2 == <<Marker("endc"), Marker("dot")>>
           a  == 1 + Len(op)
<1>1. /\ title \in Line /\ t1 \in Seq(Line) /\ Len(t1) = 1 /\ t1[1] = title /\ DOMAIN t1 = {1}
      /\ op \in Seq(Line) /\ mo \in Seq(Line) /\ dc \in Seq(Line) /\ ac \in Seq(Line)
  BY DEF TypeOK, Sections
<1>2. /\ \A k \in DOMAIN op : op[k].kind \in Quiet
      /\ \A k \in DOMAIN mo : mo[k].kind \in Quiet
      /\ \A k \in DOMAIN dc : dc[k].kind \in Quiet
      /\ \A k \in DOMAIN ac : ac[k].kind \in Quiet
  BY DEF PartsInv, Sections, Quiet
<1>3. /\ Marker("blank") \in Line /\ Marker("control") \in Line
      /\ Marker("endc") \in Line /\ Marker("dot") \in Line
      /\ Marker("blank").kind = "blank" /\ Marker("control").kind = "control"
  BY DEF Marker, Line, Kinds
<1>4. /\ bl \in Seq(Line) /\ m1 \in Seq(Line) /\ m2 \in Seq(Line)
      /\ Len(m1) = 2 /\ m1[1] = Marker("blank") /\ m1[2] = Marker("control")
      /\ Len(m2) = 2 /\ m2[1] = Marker("endc") /\ m2[2] = Marker("dot")
  BY <1>3
<1>5. cs \in Seq(Line) /\ Len(cs) \in Nat
  <2>1. cs \in Seq(Line)
    BY CommandsType DEF TypeOK
  <2> QED
    BY <2>1
<1>6. Text(es, extra) = t1 \o op \o es \o mo \o dc \o ac \o m1 \o cs \o m2
  BY DEF Text
<1> HIDE DEF cs, t1, op, mo, dc, ac, bl, co, m1, m2
<1>7. a \in Nat \ {0} /\ Len(op) \in Nat /\ Len(es) \in Nat
  BY <1>1
<1>8. Begins(t1 \o op \o es, es, a)
  <2> DEFINE h == t1 \o op
  <2>1. /\ h \in Seq(Line) /\ Len(h) = a /\ h[1] = title
        /\ \A k \in 1..Len(op) : h[1 + k] = op[k]
    <3>1. t1 \in Seq(Line) /\ op \in Seq(Line)
      BY <1>1
    <3>2. /\ h \in Seq(Line) /\ Len(h) = Len(t1) + Len(op)
          /\ \A k \in 1..Len(t1) : h[k] = t1[k]
          /\ \A k \in 1..Len(op) : h[Len(t1) + k] = op[k]
      BY <3>1, Joining
    <3> HIDE DEF h
    <3>3. 1 \in 1..Len(t1)
      BY <1>1
    <3> QED
      BY <1>1, <3>2, <3>3
  <2> HIDE DEF h, a
  <2>2. ASSUME NEW k \in 2..a PROVE h[k].kind \in Quiet
    <3>1. k - 1 \in 1..Len(op) /\ 1 + (k - 1) = k
      <4>1. k \in 2..(1 + Len(op))
        BY DEF a
      <4> QED
        BY <1>7, <4>1
    <3>2. h[1 + (k - 1)] = op[k - 1]
      BY <2>1, <3>1
    <3>3. DOMAIN op = 1..Len(op)
      BY <1>1
    <3> QED
      BY <1>2, <3>1, <3>2, <3>3
  <2> DEFINE u == h \o es
  <2>3. /\ u \in Seq(Line) /\ Len(u) = a + Len(es)
        /\ \A k \in 1..a : u[k] = h[k]
        /\ \A k \in 1..Len(es) : u[a + k] = es[k]
        /\ \A k \in 1..(a + Len(es)) : k \in 1..a \/ k - a \in 1..Len(es)
    <3>1. h \in Seq(Line)
      BY <2>1
    <3>2. /\ u \in Seq(Line) /\ Len(u) = Len(h) + Len(es)
          /\ \A k \in 1..Len(h) : u[k] = h[k]
          /\ \A k \in 1..Len(es) : u[Len(h) + k] = es[k]
          /\ \A k \in 1..(Len(h) + Len(es)) : k \in 1..Len(h) \/ k - Len(h) \in 1..Len(es)
      BY <3>1, Joining
    <3> HIDE DEF u
    <3> QED
      BY <2>1, <3>2
  <2> HIDE DEF u
  <2>4. u[1] = title
    BY <1>7, <2>1, <2>3
  <2>5. ASSUME NEW k \in 2..Len(u) PROVE k - a \in 1..Len(es) \/ u[k].kind \in Quiet
    BY <1>7, <2>2, <2>3
  <2>6. Begins(u, es, a)
    BY <1>7, <2>3, <2>4, <2>5 DEF Begins
  <2> QED
    BY <2>6 DEF u, h
<1> HIDE DEF a
<1>9. Begins(t1 \o op \o es \o mo, es, a)
  BY <1>1, <1>2, <1>7, <1>8, BeginsMore
<1>10. Begins(t1 \o op \o es \o mo \o dc, es, a)
  BY <1>1, <1>2, <1>7, <1>9, BeginsMore
<1>11. Begins(t1 \o op \o es \o mo \o dc \o ac, es, a)
  BY <1>1, <1>2, <1>7, <1>10, BeginsMore
<1> DEFINE h == t1 \o op \o es \o mo \o dc \o ac
           n == Len(h)
           u == h \o m1
           v == u \o cs
           w == v \o m2
           c == n + 2
<1>12. Begins(h, es, a) /\ Text(es, extra) = w
  BY <1>6, <1>11
<1> HIDE DEF h
<1>13. h \in Seq(Line) /\ n \in Nat /\ n >= a + Len(es)
  BY <1>12 DEF Begins
<1> HIDE DEF n
<1>14. /\ u \in Seq(Line) /\ Len(u) = c /\ \A k \in 1..n : u[k] = h[k]
       /\ u[n + 1] = Marker("blank") /\ u[c] = Marker("control")
  <2>1. /\ u \in Seq(Line) /\ Len(u) = Len(h) + Len(m1)
        /\ \A k \in 1..Len(h) : u[k] = h[k]
        /\ \A k \in 1..Len(m1) : u[Len(h) + k] = m1[k]
    <3>1. h \in Seq(Line) /\ m1 \in Seq(Line)
      BY <1>4, <1>13
    <3> QED
      BY <3>1, Joining
  <2>2. 1 \in 1..Len(m1) /\ 2 \in 1..Len(m1)
    BY <1>4
  <2> HIDE DEF u
  <2> QED
    BY <1>4, <2>1, <2>2 DEF n
<1> HIDE DEF u
<1>15. /\ v \in Seq(Line) /\ Len(v) = c + Len(cs) /\ \A k \in 1..c : v[k] = u[k]
       /\ \A k \in 1..Len(cs) : v[c + k] = cs[k]
  BY <1>5, <1>14, Joining
<1> HIDE DEF v
<1>16. /\ w \in Seq(Line) /\ Len(w) = c + Len(cs) + 2 /\ \A k \in 1..(c + Len(cs)) : w[k] = v[k]
       /\ w[c + Len(cs) + 1] = Marker("endc") /\ w[c + Len(cs) + 2] = Marker("dot")
  <2>1. /\ w \in Seq(Line) /\ Len(w) = Len(v) + Len(m2)
        /\ \A k \in 1..Len(v) : w[k] = v[k]
        /\ \A k \in 1..Len(m2) : w[Len(v) + k] = m2[k]
    <3>1. v \in Seq(Line) /\ m2 \in Seq(Line)
      BY <1>4, <1>15
    <3> QED
      BY <3>1, Joining
  <2>2. 1 \in 1..Len(m2) /\ 2 \in 1..Len(m2)
    BY <1>4
  <2> HIDE DEF w
  <2> QED
    BY <1>4, <1>15, <2>1, <2>2
<1> HIDE DEF w
<1>17. /\ w[1] = title /\ w[c] = Marker("control")
       /\ \A k \in 1..Len(es) : w[a + k] = es[k]
       /\ \A k \in 1..n : w[k] = h[k]
       /\ w[n + 1].kind = "blank"
       /\ \A k \in 1..Len(cs) : w[c + k] = cs[k]
  <2>0. \A k \in 1..c : w[k] = u[k]
    BY <1>5, <1>13, <1>15, <1>16
  <2>1. \A k \in 1..n : w[k] = h[k]
    BY <1>13, <1>14, <2>0
  <2>2. w[c] = Marker("control") /\ w[n + 1] = Marker("blank")
    <3>1. c \in 1..c /\ n + 1 \in 1..c
      BY <1>13
    <3> QED
      BY <1>14, <2>0, <3>1
  <2>3. \A k \in 1..Len(es) : a + k \in 1..n
    BY <1>7, <1>13
  <2>4. \A k \in 1..Len(cs) : c + k \in 1..(c + Len(cs))
    BY <1>5, <1>13
  <2>5. 1 \in 1..n
    BY <1>7, <1>13
  <2> QED
    BY <1>3, <1>12, <1>15, <1>16, <2>1, <2>2, <2>3, <2>4, <2>5 DEF Begins
<1>18. ASSUME NEW k \in 2..(c - 1) PROVE k - a \in 1..Len(es) \/ w[k].kind \in Quiet
  <2>1. CASE k = n + 1
    BY <1>17, <2>1 DEF Quiet
  <2>2. CASE k # n + 1
    <3>1. k \in 2..n
      BY <1>13, <2>2
    <3> QED
      BY <1>12, <1>13, <1>17, <3>1 DEF Begins, n
  <2> QED
    BY <2>1, <2>2
<1>19. c \in Nat \ {0} /\ a + Len(es) < c
  BY <1>7, <1>13
<1>20. Laid(w, es, cs, a, c)
  BY <1>16, <1>17, <1>18, <1>19 DEF Laid
<1> QED
  BY <1>7, <1>12, <1>19, <1>20 DEF cs

-----------------------------------------------------------------------------
(* The commands of the listing: plain lines, the netlist's own first.      *)
LEMMA CommandsPlain ==
    ASSUME NEW own \in Seq(Line), NEW extra \in Seq(Line), Listable(own \o extra),
           \A k \in DOMAIN own : own[k].kind \in {"plain", "plus"},
           \A k \in DOMAIN extra : extra[k].kind \in {"plain", "plus"}
    PROVE  \A k \in DOMAIN Commands(own, extra) :
              Commands(own, extra)[k].kind \in {"plain", "plus"}
<1> DEFINE both  == own \o extra
           all   == Translated(both)
           print == SelectInSeq(all, IsPrint)
           place == IF print = 0 THEN Len(all) + 1 ELSE print
           with  == InsertAt(all, place, DefaultTran)
<1>1. both \in Seq(Line) /\ all \in Seq(Line) /\ Len(all) = Len(both) /\ Len(all) \in Nat
  <2>1. both \in Seq(Line)
    OBVIOUS
  <2>2. all \in Seq(Line) /\ Len(all) = Len(both)
    BY <2>1, TranslatedType
  <2> HIDE DEF both, all
  <2> QED
    BY <2>1, <2>2
<1>2. \A k \in 1..Len(both) : both[k].kind \in {"plain", "plus"}
  <2>1. /\ Len(both) = Len(own) + Len(extra)
        /\ \A k \in 1..Len(own) : both[k] = own[k]
        /\ \A k \in 1..Len(extra) : both[Len(own) + k] = extra[k]
        /\ \A k \in 1..(Len(own) + Len(extra)) : k \in 1..Len(own) \/ k - Len(own) \in 1..Len(extra)
    BY Joining
  <2> HIDE DEF both
  <2> SUFFICES ASSUME NEW k \in 1..Len(both) PROVE both[k].kind \in {"plain", "plus"}
    OBVIOUS
  <2>2. CASE k \in 1..Len(own)
    BY <2>1, <2>2
  <2>3. CASE k - Len(own) \in 1..Len(extra)
    <3>1. Len(own) + (k - Len(own)) = k
      BY <2>1
    <3>2. both[k] = extra[k - Len(own)]
      BY <2>1, <2>3, <3>1
    <3> QED
      BY <2>3, <3>2
  <2> QED
    BY <2>1, <2>2, <2>3
<1>3. \A k \in 1..Len(all) : all[k].kind \in {"plain", "plus"}
  BY <1>1, <1>2 DEF Translated, makeTransCommand, Plain
<1>4. place \in 1..(Len(all) + 1) /\ DefaultTran \in Line /\ DefaultTran.kind = "plain"
  <2> HIDE DEF all
  <2>1. print \in 0..Len(all)
    BY <1>1, FirstPrint
  <2> QED
    BY <1>1, <2>1, DefaultType DEF DefaultTran, Plain
<1>5. \A k \in DOMAIN with : with[k].kind \in {"plain", "plus"}
  <2> HIDE DEF all, place
  <2>1. /\ with \in Seq(Line) /\ Len(with) = Len(all) + 1
        /\ \A k \in 1..(Len(all) + 1) :
             with[k] = IF k < place THEN all[k] ELSE IF k = place THEN DefaultTran ELSE all[k - 1]
    <3>1. all \in Seq(Line) /\ place \in 1..(Len(all) + 1) /\ DefaultTran \in Line
      BY <1>1, <1>4
    <3> QED
      BY ONLY <3>1, InsertAtProperties
  <2> HIDE DEF with
  <2>2. DOMAIN with = 1..(Len(all) + 1)
    BY <2>1
  <2> SUFFICES ASSUME NEW k \in 1..(Len(all) + 1) PROVE with[k].kind \in {"plain", "plus"}
    BY <2>2
  <2>3. CASE k < place
    BY <1>1, <1>3, <1>4, <2>1, <2>3
  <2>4. CASE k = place
    BY <1>4, <2>1, <2>4
  <2>5. CASE k > place
    <3>1. k - 1 \in 1..Len(all) /\ ~(k < place) /\ k # place
      BY <1>1, <1>4, <2>5
    <3> QED
      BY <1>3, <2>1, <3>1
  <2> QED
    BY <1>1, <1>4, <2>3, <2>4, <2>5
<1>6. Commands(own, extra) \in {all, with}
  BY CommandsAre
<1>7. DOMAIN all = 1..Len(all)
  <2> HIDE DEF all
  <2> QED
    BY <1>1
<1> QED
  BY <1>3, <1>5, <1>6, <1>7

-----------------------------------------------------------------------------
(* What is received of a listing: its lines but for the empty ones, in     *)
(* their order; From(s, k) is where the k-th of them was.                  *)
Kept(s) == {k \in DOMAIN s : NotBlank(s[k])}
Arrived(s) == Only(s, Kept(s))
From(s, k) == Nth(Kept(s), k)

Arrives(s) ==
    /\ Arrived(s) \in Seq(Line) /\ Len(Arrived(s)) \in Nat
    /\ \A k \in 1..Len(Arrived(s)) : /\ From(s, k) \in 1..Len(s) /\ NotBlank(s[From(s, k)])
                                     /\ Arrived(s)[k] = s[From(s, k)]
    /\ \A k, l \in 1..Len(Arrived(s)) : k < l <=> From(s, k) < From(s, l)
    /\ \A i \in 1..Len(s) : NotBlank(s[i]) => \E k \in 1..Len(Arrived(s)) : From(s, k) = i

LEMMA AllArrive == ASSUME NEW s \in Seq(Line) PROVE Arrives(s)
<1> DEFINE keep == Kept(s)
           n == Cardinality(keep)
<1>1. keep \subseteq DOMAIN s /\ DOMAIN s = 1..Len(s) /\ Len(s) \in Nat
  BY DEF Kept
<1>2. \A i \in 1..Len(s) : NotBlank(s[i]) <=> i \in keep
  BY <1>1 DEF Kept
<1> HIDE DEF keep
<1>3. /\ Only(s, keep) \in Seq(Line) /\ Len(Only(s, keep)) = n /\ n \in Nat
      /\ \A k \in 1..n : Nth(keep, k) \in keep /\ Only(s, keep)[k] = s[Nth(keep, k)]
      /\ \A k, l \in 1..n : k < l => Nth(keep, k) < Nth(keep, l)
      /\ \A i \in keep : \E k \in 1..n : Nth(keep, k) = i
  BY <1>1, OnlyProperties
<1>4. \A k \in 1..n : Nth(keep, k) \in 1..Len(s) /\ NotBlank(s[Nth(keep, k)])
  BY <1>1, <1>2, <1>3
<1>5. ASSUME NEW k \in 1..n, NEW l \in 1..n PROVE k < l <=> Nth(keep, k) < Nth(keep, l)
  <2>1. Nth(keep, k) \in Nat /\ Nth(keep, l) \in Nat
    BY <1>4
  <2>2. CASE k < l
    BY <1>3, <2>2
  <2>3. CASE l < k
    BY <1>3, <2>1, <2>3
  <2>4. CASE k = l
    BY <2>1, <2>4
  <2> QED
    BY <2>2, <2>3, <2>4
<1>6. Arrived(s) = Only(s, keep) /\ \A k : From(s, k) = Nth(keep, k)
  BY DEF Arrived, From, keep
<1> HIDE DEF n
<1> QED
  BY <1>1, <1>2, <1>3, <1>4, <1>5, <1>6 DEF Arrives

(* A listing with a title arrives from its title to its end, and its       *)
(* commands are those that come from behind the control line.              *)
LEMMA Arrival ==
    ASSUME NEW es \in Seq(Line), NEW cs \in Seq(Line), NEW a \in Nat \ {0}, NEW c \in Nat \ {0},
           NEW s, Laid(s, es, cs, a, c), title.kind # "blank",
           \A k \in DOMAIN es : es[k].kind = "plain"
    PROVE  /\ Arrives(s) /\ c \in 2..Len(s)
           /\ Len(Arrived(s)) >= 2 /\ From(s, 1) = 1 /\ From(s, Len(Arrived(s))) = Len(s)
           /\ \A k \in 1..Len(Arrived(s)) : InCommands(Arrived(s), k) <=> From(s, k) >= c
<1>1. /\ s \in Seq(Line) /\ Len(s) \in Nat /\ Len(es) \in Nat /\ Len(cs) \in Nat
      /\ DOMAIN s = 1..Len(s) /\ DOMAIN es = 1..Len(es)
  BY DEF Laid
<1>2. Arrives(s)
  BY <1>1, AllArrive
<1>3. c \in 2..Len(s) /\ 1 \in 1..Len(s) /\ c < Len(s)
  BY <1>1 DEF Laid
<1> DEFINE r == Arrived(s)
           n == Len(r)
<1>4. /\ r \in Seq(Line) /\ n \in Nat
      /\ \A k \in 1..n : From(s, k) \in 1..Len(s) /\ r[k] = s[From(s, k)]
      /\ \A k, l \in 1..n : k < l <=> From(s, k) < From(s, l)
      /\ \A i \in 1..Len(s) : NotBlank(s[i]) => \E k \in 1..n : From(s, k) = i
  BY <1>2 DEF Arrives
<1> HIDE DEF r, n
<1>5. PICK first \in 1..n : From(s, first) = 1
  BY <1>3, <1>4 DEF Laid, NotBlank
<1>6. PICK mark \in 1..n : From(s, mark) = c
  <2>1. NotBlank(s[c]) /\ c \in 1..Len(s)
    BY <1>3 DEF Laid, NotBlank, Marker
  <2> QED
    BY <1>4, <2>1
<1>7. PICK last \in 1..n : From(s, last) = Len(s)
  <2>1. NotBlank(s[Len(s)]) /\ Len(s) \in 1..Len(s)
    BY <1>1, <1>3 DEF Laid, NotBlank, Marker
  <2> QED
    BY <1>4, <2>1
<1>8. first = 1
  <2>1. 1 \in 1..n /\ ~(From(s, 1) < 1)
    BY <1>4, <1>5
  <2>2. ~(1 < first)
    BY <1>4, <1>5, <2>1
  <2> QED
    BY <1>4, <2>2
<1>9. last = n
  <2>1. n \in 1..n /\ ~(Len(s) < From(s, n))
    BY <1>1, <1>4, <1>7
  <2>2. ~(last < n)
    BY <1>4, <1>7, <2>1
  <2> QED
    BY <1>4, <2>2
<1>10. 2 <= mark /\ mark < last
  <2>1. first < mark /\ mark < last
    BY <1>3, <1>4, <1>5, <1>6, <1>7
  <2> QED
    BY <1>4, <1>8, <2>1
<1>11. ASSUME NEW k \in 1..n PROVE InCommands(r, k) <=> From(s, k) >= c
  <2>1. ASSUME InCommands(r, k) PROVE From(s, k) >= c
    <3>1. PICK m \in 2..k : r[m].kind = "control"
      BY <2>1 DEF InCommands
    <3>2. m \in 1..n /\ 1 \in 1..n /\ 1 < m
      BY <1>4
    <3>3. From(s, m) \in 1..Len(s) /\ 1 < From(s, m) /\ s[From(s, m)].kind = "control"
      BY <1>4, <1>5, <1>8, <3>1, <3>2
    <3>4. From(s, m) >= c
      <4> SUFFICES ASSUME From(s, m) < c PROVE FALSE
        BY <1>1, <1>3, <3>3
      <4>1. From(s, m) \in 2..(c - 1)
        BY <1>1, <1>3, <3>3
      <4> DEFINE i == From(s, m)
      <4>2. i - a \in 1..Len(es) \/ s[i].kind \in Quiet
        BY <4>1 DEF Laid
      <4> HIDE DEF i
      <4>3. CASE i - a \in 1..Len(es)
        <5>1. a + (i - a) = i
          BY <4>1 DEF i
        <5>2. s[i] = es[i - a]
          BY <4>3, <5>1 DEF Laid
        <5>3. s[i].kind = "plain"
          BY <1>1, <4>3, <5>2
        <5> QED
          BY <3>3, <5>3 DEF i
      <4>4. CASE s[i].kind \in Quiet
        BY <3>3, <4>4 DEF i, Quiet, Sections
      <4> QED
        BY <4>2, <4>3, <4>4
    <3>5. From(s, m) <= From(s, k)
      <4>1. ~(k < m) /\ From(s, k) \in Nat /\ From(s, m) \in Nat
        BY <1>4, <3>2
      <4>2. ~(From(s, k) < From(s, m))
        BY <1>4, <3>2, <4>1
      <4> QED
        BY <4>1, <4>2
    <3> QED
      BY <1>3, <1>4, <3>2, <3>4, <3>5
  <2>2. ASSUME From(s, k) >= c PROVE InCommands(r, k)
    <3>1. ~(k < mark)
      <4>1. ~(From(s, k) < From(s, mark))
        BY <1>3, <1>4, <1>6, <2>2
      <4> QED
        BY <1>4, <4>1
    <3>2. mark \in 2..k /\ r[mark].kind = "control"
      <4>1. r[mark] = s[c]
        BY <1>4, <1>6
      <4> QED
        BY <1>4, <1>10, <3>1, <4>1 DEF Laid, Marker
    <3> QED
      BY <3>2 DEF InCommands
  <2> QED
    BY <2>1, <2>2
<1>12. n >= 2 /\ From(s, 1) = 1 /\ From(s, n) = Len(s)
  BY <1>4, <1>5, <1>7, <1>8, <1>9, <1>10
<1> QED
  BY <1>2, <1>3, <1>11, <1>12 DEF r, n

-----------------------------------------------------------------------------
(* The elements of the object, and what a listing wrote of them.           *)
PairOf(e) == {e.edge0, e.edge1}

ElementsInv ==
    /\ \A j, k \in DOMAIN elements : elements[j].name = elements[k].name => j = k
    /\ FilledParams => \A k \in DOMAIN elements : elements[k].value # <<>>
    /\ pc # "done" \/ status => edges = UNION {PairOf(elements[k]) : k \in DOMAIN elements}

Writes(e, l) ==
    /\ l.kind = "plain" /\ Len(l.words) >= 3
    /\ l.words[1] = e.name /\ l.words[2] = e.edge0 /\ l.words[3] = e.edge1
    /\ FilledParams => Len(l.words) >= 4
    /\ l.words = <<e.name, e.edge0, e.edge1>> \o e.value

ListingOf(es, extra) ==
    /\ extra \in Extras /\ es \in Seq(Line) /\ Listable(controls \o extra)
    /\ sent = Text(es, extra)
    /\ Len(es) = Len(elements)
    /\ \A k \in DOMAIN elements : Writes(elements[k], es[k])

SentInv ==
    sent # <<>> =>
        /\ pc = "done" /\ status
        /\ \E extra \in Extras, es \in Seq(Line) : ListingOf(es, extra)

(* The elements are the element lines in their order, with the values that *)
(* setParams was given or their own.                                       *)
HoldsLine(e, words, k) ==
    /\ e.name = words[1] /\ e.edge0 = words[2] /\ e.edge1 = words[3]
    /\ e.value = IF paramlist = <<>> THEN SubSeq(words, 4, Len(words)) ELSE paramlist[k]

InOrder ==
    /\ Len(elements) = Cardinality(ReadElements)
    /\ \A k \in DOMAIN elements : HoldsLine(elements[k], lines[Nth(ReadElements, k)].words, k)

OrderInv ==
    /\ pc # "done" => paramlist = <<>>
    /\ pc = "join" => elements = <<>>
    /\ pc = "analyze" \/ (pc = "done" /\ status) => InOrder

PInv == IInv /\ PartsInv /\ ElementsInv /\ OrderInv /\ SentInv

LEMMA ObjectInit == Init => PartsInv /\ ElementsInv /\ OrderInv /\ SentInv
  BY DEF Init, Empty, NoSections, PartsInv, ElementsInv, OrderInv, SentInv

(* Before load has returned nothing has been sent.                         *)
LEMMA NothingSent ==
    ASSUME PInv, [Next]_vars, ~(pc = "done" /\ status)
    PROVE  sent' = <<>> /\ SentInv'
<1>1. sent = <<>>
  BY DEF PInv, SentInv
<1>2. sent' = sent
  BY DEF Next, JoinLine, SetTitle, Skip, KeepSection, EnterControl, ShortLine, Duplicate,
         AddElement, LeaveControl, AddControl, IgnoreInControl, Return, Send, SetParams, GivesParams,
         Advance, vars, later
<1> QED
  BY <1>1, <1>2 DEF SentInv

(* Lines go to the part of the object that is for them.                    *)
LEMMA PartsStep == PInv /\ [Next]_vars => PartsInv'
<1> SUFFICES ASSUME PInv, [Next]_vars PROVE PartsInv'
  OBVIOUS
<1>0. TypeOK /\ LoadInv /\ PartsInv
  BY DEF PInv, IInv
<1>1. CASE UNCHANGED <<sections, controls>>
  BY <1>0, <1>1 DEF PartsInv
<1>2. CASE KeepSection
  <2>1. Line_.kind \in Sections /\ sections \in [Sections -> Seq(Line)]
    BY <1>0, <1>2 DEF KeepSection, At, Line_, TypeOK
  <2> DEFINE s == Line_.kind
             l == Line_
  <2>2. /\ sections' = [sections EXCEPT ![s] = Append(sections[s], l)]
        /\ controls' = controls
    BY <1>2 DEF KeepSection
  <2>3. index >= 1
    BY <1>0, <1>2 DEF KeepSection, At, LoadInv, Reading, TypeOK
  <2>4. l \in Line
    BY <1>0, <1>2, <2>3, LineType DEF KeepSection
  <2>5. l.kind = s /\ sections[s] \in Seq(Line) /\ s \in Sections
    BY <2>1
  <2> HIDE DEF l, s
  <2>6. /\ Len(Append(sections[s], l)) = Len(sections[s]) + 1
        /\ \A k \in 1..Len(sections[s]) : Append(sections[s], l)[k] = sections[s][k]
        /\ Append(sections[s], l)[Len(sections[s]) + 1] = l
        /\ DOMAIN Append(sections[s], l) = 1..(Len(sections[s]) + 1)
    BY <2>4, <2>5
  <2>7. \A k \in DOMAIN Append(sections[s], l) : Append(sections[s], l)[k].kind = s
    <3>1. Len(sections[s]) \in Nat /\ DOMAIN sections[s] = 1..Len(sections[s])
      BY <2>5
    <3> QED
      BY <1>0, <2>5, <2>6, <3>1 DEF PartsInv
  <2>8. \A t \in Sections : t # s => sections'[t] = sections[t]
    BY <2>1, <2>2, <2>5
  <2>9. sections'[s] = Append(sections[s], l)
    BY <2>1, <2>2, <2>5
  <2> QED
    BY <1>0, <2>2, <2>7, <2>8, <2>9 DEF PartsInv
<1>3. CASE AddControl
  <2> DEFINE l == Line_
  <2>1. l.kind \in {"plain", "plus"} /\ controls' = Append(controls, l) /\ sections' = sections
    BY <1>3 DEF AddControl, At, Line_
  <2>2. index >= 1
    BY <1>0, <1>3 DEF AddControl, At, LoadInv, Reading, TypeOK
  <2>3. l \in Line /\ controls \in Seq(Line)
    BY <1>0, <1>3, <2>2, LineType DEF AddControl, TypeOK
  <2> HIDE DEF l
  <2>4. /\ \A k \in 1..Len(controls) : controls'[k] = controls[k]
        /\ controls'[Len(controls) + 1] = l
        /\ DOMAIN controls' = 1..(Len(controls) + 1)
    BY <2>1, <2>3
  <2>5. Len(controls) \in Nat /\ DOMAIN controls = 1..Len(controls)
    BY <2>3
  <2>6. \A k \in DOMAIN controls' : controls'[k].kind \in {"plain", "plus"}
    BY <1>0, <2>1, <2>4, <2>5 DEF PartsInv
  <2> QED
    BY <1>0, <2>1, <2>6 DEF PartsInv
<1>4. CASE ShortLine
  BY <1>4 DEF ShortLine, PartsInv, NoSections
<1> QED
  BY <1>1, <1>2, <1>3, <1>4
     DEF Next, JoinLine, SetTitle, Skip, EnterControl, Duplicate, AddElement, LeaveControl,
         IgnoreInControl, Return, Send, SetParams, GivesParams, Advance, vars, object, later

(* Elements keep their different names and fill the set of nodes.          *)
LEMMA ElementsStep == PInv /\ [Next]_vars => ElementsInv'
<1> SUFFICES ASSUME PInv, [Next]_vars PROVE ElementsInv'
  OBVIOUS
<1>0. TypeOK /\ LoadInv /\ ElementsInv
  BY DEF PInv, IInv
<1>1. CASE UNCHANGED <<elements, edges>> /\ (pc' # "done" \/ status' => pc # "done" \/ status)
  BY <1>0, <1>1 DEF ElementsInv
<1>2. CASE ShortLine
  BY <1>2 DEF ShortLine, ElementsInv
<1>3. CASE Duplicate
  BY <1>0, <1>3 DEF Duplicate, ElementsInv
<1>4. CASE AddElement
  <2> DEFINE w == Line_.words
             e == [name |-> w[1], edge0 |-> w[2], edge1 |-> w[3],
                   value |-> SubSeq(w, 4, Len(w))]
             n == Len(elements)
  <2>1. /\ elements' = Append(elements, e) /\ edges' = edges \cup {w[2], w[3]}
        /\ pc = "analyze" /\ pc' = "analyze" /\ Len(w) >= 4
        /\ \A k \in DOMAIN elements : elements[k].name # w[1]
    BY <1>4 DEF AddElement, AtElement, At, NotesEdges, Advance, is_exist_element
  <2>2. index >= 1
    BY <1>0, <1>4 DEF AddElement, AtElement, At, LoadInv, Reading, TypeOK
  <2>3. w \in Seq(Words) /\ Len(w) \in Nat
    <3>1. w \in Seq(Words)
      BY <1>0, <1>4, <2>2, LineType DEF AddElement, AtElement
    <3> QED
      BY <3>1
  <2> HIDE DEF w
  <2>4. e \in Element /\ e.value # <<>>
    <3>1. \A k \in 1..Len(w) : w[k] \in Words
      BY <2>3
    <3>2. SubSeq(w, 4, Len(w)) \in Seq(Words) /\ Len(SubSeq(w, 4, Len(w))) = Len(w) - 4 + 1
      BY <2>1, <2>3, <3>1, SubSeqProperties
    <3>3. SubSeq(w, 4, Len(w)) # <<>>
      BY <2>1, <2>3, <3>2
    <3> QED
      BY <2>1, <2>3, <3>1, <3>2, <3>3 DEF Element
  <2>5. e.name = w[1] /\ PairOf(e) = {w[2], w[3]}
    BY DEF PairOf
  <2> HIDE DEF e
  <2>6. /\ DOMAIN elements = 1..n /\ n \in Nat
        /\ DOMAIN elements' = DOMAIN elements \cup {n + 1}
        /\ \A k \in DOMAIN elements : elements'[k] = elements[k]
        /\ elements'[n + 1] = e
    <3>1. elements \in Seq(Element)
      BY <1>0 DEF TypeOK
    <3>2. /\ Append(elements, e) \in Seq(Element) /\ Len(Append(elements, e)) = n + 1
          /\ \A k \in 1..n : Append(elements, e)[k] = elements[k]
          /\ Append(elements, e)[n + 1] = e
      BY <2>4, <3>1, AppendProperties
    <3>3. DOMAIN elements = 1..n /\ n \in Nat /\ DOMAIN Append(elements, e) = 1..(n + 1)
      BY <3>1, <3>2
    <3> QED
      BY <2>1, <3>2, <3>3
  <2> HIDE DEF n
  <2>7. \A j, k \in DOMAIN elements' : elements'[j].name = elements'[k].name => j = k
    BY <1>0, <2>1, <2>5, <2>6 DEF ElementsInv
  <2>8. FilledParams => \A k \in DOMAIN elements' : elements'[k].value # <<>>
    BY <1>0, <2>4, <2>6 DEF ElementsInv
  <2>9. edges' = UNION {PairOf(elements'[k]) : k \in DOMAIN elements'}
    <3>1. edges = UNION {PairOf(elements[k]) : k \in DOMAIN elements}
      BY <1>0, <2>1 DEF ElementsInv
    <3> HIDE DEF PairOf
    <3> QED
      BY <2>1, <2>5, <2>6, <3>1
  <2> QED
    BY <2>7, <2>8, <2>9 DEF ElementsInv
<1>5. ASSUME NEW params \in Params, SetParams(params) PROVE ElementsInv'
  <2>1. /\ elements' = [k \in DOMAIN elements |-> [elements[k] EXCEPT !.value = params[k]]]
        /\ edges' = edges /\ status /\ Len(params) = Len(elements)
    BY <1>5 DEF SetParams, GivesParams
  <2>2. /\ elements \in Seq(Element) /\ params \in Seq(Seq(Words))
        /\ DOMAIN params = DOMAIN elements
    <3>1. elements \in Seq(Element) /\ params \in Seq(Seq(Words))
      BY <1>0, ParamsAssumption DEF TypeOK
    <3> QED
      BY <2>1, <3>1
  <2>3. /\ DOMAIN elements' = DOMAIN elements
        /\ \A k \in DOMAIN elements : /\ elements'[k].name = elements[k].name
                                      /\ PairOf(elements'[k]) = PairOf(elements[k])
                                      /\ elements'[k].value = params[k]
    <3>1. \A k \in DOMAIN elements : elements[k] \in Element
      BY <2>2
    <3> QED
      BY <2>1, <3>1 DEF Element, PairOf
  <2>4. FilledParams => \A k \in DOMAIN elements : params[k] # <<>>
    BY <1>5, <2>2 DEF FilledParams
  <2>5. edges' = UNION {PairOf(elements'[k]) : k \in DOMAIN elements'}
    <3> HIDE DEF PairOf
    <3>1. edges = UNION {PairOf(elements[k]) : k \in DOMAIN elements}
      BY <1>0, <2>1 DEF ElementsInv
    <3> QED
      BY <2>1, <2>3, <3>1
  <2> QED
    BY <1>0, <2>3, <2>4, <2>5 DEF ElementsInv
<1> QED
  BY <1>1, <1>2, <1>3, <1>4, <1>5
     DEF Next, JoinLine, SetTitle, Skip, KeepSection, EnterControl, LeaveControl, AddControl,
         IgnoreInControl, Return, Send, Advance, vars, object, later

(* Each element line that is read is the next element; setParams gives     *)
(* each element the value for its position.                                *)
LEMMA OrderStep == PInv /\ [Next]_vars => OrderInv'
<1> SUFFICES ASSUME PInv, [Next]_vars PROVE OrderInv'
  OBVIOUS
<1>0. /\ TypeOK /\ LoadInv /\ OrderInv
      /\ elements \in Seq(Element) /\ DOMAIN elements = 1..Len(elements) /\ Len(elements) \in Nat
  BY DEF PInv, IInv, TypeOK
<1>1. CASE UNCHANGED <<pc, status, elements, lines, index, paramlist>>
  BY <1>0, <1>1 DEF OrderInv, InOrder, HoldsLine, ReadElements
<1>2. ASSUME UNCHANGED <<pc, status, elements, lines, paramlist>>, index' = index + 1,
             pc = "analyze", index \in 1..Len(lines), ~IsElement(lines, index)
      PROVE  OrderInv'
  <2>1. index \in 2..Len(lines) /\ lines \in Seq(Line)
    BY <1>0, <1>2 DEF LoadInv, Reading, TypeOK
  <2>2. ReadElements = ReadAt(index) /\ ReadElements' = ReadAt(index + 1)
    BY <1>2 DEF ReadElements, ReadAt
  <2>3. ReadElements' = ReadElements
    BY <1>2, <2>1, <2>2, ReadNext
  <2> HIDE DEF ReadElements
  <2> QED
    BY <1>0, <1>2, <2>3 DEF OrderInv, InOrder, HoldsLine
<1>3. ASSUME NEW kinds, At(kinds)
      PROVE  /\ Reading /\ pc = "analyze" /\ index \in 2..Len(lines) /\ index \in 1..Len(lines)
             /\ lines[index].kind \in kinds /\ (inControl => ~IsElement(lines, index))
  <2>1. Reading /\ pc = "analyze" /\ lines[index].kind \in kinds /\ index <= Len(lines)
    BY <1>0, <1>3 DEF At, LoadInv
  <2>2. index \in 2..Len(lines) /\ index \in 1..Len(lines)
    BY <1>0, <2>1 DEF Reading, TypeOK
  <2>3. inControl => ~IsElement(lines, index)
    BY <2>1 DEF Reading, IsElement
  <2> QED
    BY <2>1, <2>2, <2>3
<1>4. CASE JoinLine
  BY <1>0, <1>4 DEF JoinLine, OrderInv, object, later
<1>5. CASE SetTitle
  <2>1. ReadElements' = {}
    BY <1>5 DEF SetTitle, ReadElements
  <2>2. elements' = <<>> /\ paramlist' = <<>> /\ pc' = "analyze"
    BY <1>0, <1>5 DEF SetTitle, OrderInv, later
  <2>3. Cardinality({}) = 0
    BY FS_EmptySet
  <2> QED
    BY <2>1, <2>2, <2>3 DEF OrderInv, InOrder
<1>6. CASE Skip
  <2>1. ~IsElement(lines, index) /\ pc = "analyze" /\ index \in 1..Len(lines)
    BY <1>3, <1>6 DEF Skip, IsElement
  <2> QED
    BY <1>2, <1>6, <2>1 DEF Skip, Advance, later
<1>7. CASE KeepSection
  <2>1. ~IsElement(lines, index) /\ pc = "analyze" /\ index \in 1..Len(lines)
    BY <1>3, <1>7 DEF KeepSection, IsElement
  <2> QED
    BY <1>2, <1>7, <2>1 DEF KeepSection, Advance, later
<1>8. CASE EnterControl
  <2>1. ~IsElement(lines, index) /\ pc = "analyze" /\ index \in 1..Len(lines)
    BY <1>3, <1>8 DEF EnterControl, IsElement
  <2> QED
    BY <1>2, <1>8, <2>1 DEF EnterControl, Advance, later
<1>9. CASE LeaveControl \/ AddControl \/ IgnoreInControl
  <2>1. ~IsElement(lines, index) /\ pc = "analyze" /\ index \in 1..Len(lines)
    BY <1>3, <1>9 DEF LeaveControl, AddControl, IgnoreInControl
  <2> QED
    BY <1>2, <1>9, <2>1 DEF LeaveControl, AddControl, IgnoreInControl, Advance, later
<1>10. CASE ShortLine
  BY <1>10 DEF ShortLine, OrderInv
<1>11. CASE Duplicate
  BY <1>11 DEF Duplicate, OrderInv
<1>12. CASE AddElement
  <2> DEFINE w == Line_.words
             e == [name |-> w[1], edge0 |-> w[2], edge1 |-> w[3], value |-> SubSeq(w, 4, Len(w))]
             R == ReadElements
  <2>1. /\ elements' = Append(elements, e) /\ lines' = lines /\ index' = index + 1
        /\ pc' = "analyze" /\ paramlist' = paramlist /\ ~inControl
        /\ At(Kinds \ (Skipped \cup Sections \cup {"control"}))
    BY <1>3, <1>12 DEF AddElement, AtElement, Advance, later
  <2>2. /\ Reading /\ pc = "analyze" /\ index \in 2..Len(lines) /\ lines \in Seq(Line)
        /\ IsElement(lines, index)
    BY <1>0, <1>3, <2>1 DEF Reading, IsElement, TypeOK
  <2>3. R = ReadAt(index) /\ R' = ReadAt(index + 1)
    BY <2>1 DEF ReadElements, ReadAt
  <2>4. R' = R \cup {index}
    BY <2>2, <2>3, ReadNext
  <2>5. R \subseteq 1..Len(lines) /\ (\A k \in R : k < index)
        /\ index \in 1..Len(lines) /\ Len(lines) \in Nat
    BY <2>2 DEF ReadElements
  <2> HIDE DEF R
  <2>6. Trails(index, R, R')
    BY <2>4, <2>5, NthAbove
  <2>7. /\ paramlist = <<>> /\ Len(elements) = Cardinality(R)
        /\ \A k \in 1..Len(elements) : HoldsLine(elements[k], lines[Nth(R, k)].words, k)
    BY <1>0, <2>2 DEF OrderInv, InOrder, R
  <2>8. /\ DOMAIN elements' = 1..(Len(elements) + 1) /\ Len(elements') = Len(elements) + 1
        /\ \A k \in 1..Len(elements) : elements'[k] = elements[k]
        /\ elements'[Len(elements) + 1] = e
    <3>1. elements' \in Seq(Element)
      BY TypeStep DEF PInv, IInv, TypeOK
    <3> QED
      BY <1>0, <2>1, <3>1, AppendProperties
  <2>9. HoldsLine(e, w, Len(elements) + 1)
    BY <2>7 DEF HoldsLine
  <2>10. Nth(R', Len(elements) + 1) = index /\ Len(elements') = Cardinality(R')
         /\ \A k \in 1..Len(elements) : Nth(R', k) = Nth(R, k)
    BY <2>6, <2>7, <2>8 DEF Trails
  <2>11. ASSUME NEW k \in DOMAIN elements'
         PROVE  HoldsLine(elements'[k], lines[Nth(R', k)].words, k)
    <3>1. CASE k \in 1..Len(elements)
      BY <2>7, <2>8, <2>10, <3>1
    <3>2. CASE k = Len(elements) + 1
      BY <2>8, <2>9, <2>10, <3>2 DEF Line_, w
    <3> QED
      BY <1>0, <2>8, <3>1, <3>2
  <2>12. InOrder'
    BY <2>1, <2>10, <2>11 DEF InOrder, HoldsLine, R
  <2> QED
    BY <2>1, <2>7, <2>12 DEF OrderInv
<1>13. CASE Return
  BY <1>0, <1>13 DEF Return, OrderInv, InOrder, HoldsLine, ReadElements, object, later
<1>14. ASSUME NEW extra \in Extras, Send(extra) PROVE OrderInv'
  BY <1>1, <1>14 DEF Send, object
<1>15. ASSUME NEW params \in Params, SetParams(params) PROVE OrderInv'
  <2>1. /\ elements' = [k \in DOMAIN elements |-> [elements[k] EXCEPT !.value = params[k]]]
        /\ pc = "done" /\ status /\ Len(params) = Len(elements) /\ paramlist' = params
        /\ UNCHANGED <<pc, status, lines, index>>
    BY <1>15 DEF SetParams, GivesParams
  <2>2. InOrder /\ params \in Seq(Seq(Words))
    BY <1>0, <2>1, ParamsAssumption DEF OrderInv
  <2>3. ASSUME NEW k \in DOMAIN elements
        PROVE  /\ elements'[k].name = elements[k].name /\ elements'[k].edge0 = elements[k].edge0
               /\ elements'[k].edge1 = elements[k].edge1 /\ elements'[k].value = params[k]
    <3>1. elements[k] \in Element
      BY <1>0
    <3> QED
      BY <2>1, <3>1 DEF Element
  <2>4. DOMAIN elements' = DOMAIN elements /\ Len(elements') = Len(elements)
    BY <1>0, <2>1
  <2>5. params = <<>> => elements = <<>>
    BY <1>0, <2>1
  <2>6. ReadElements' = ReadElements
    BY <2>1 DEF ReadElements
  <2> HIDE DEF ReadElements
  <2>7. \A k \in DOMAIN elements' :
          HoldsLine(elements[k], lines[Nth(ReadElements, k)].words, k)
    BY <2>2, <2>4 DEF InOrder
  <2>8. ASSUME NEW k \in DOMAIN elements'
        PROVE  HoldsLine(elements[k], lines[Nth(ReadElements, k)].words, k)'
    <3>1. k \in DOMAIN elements /\ params # <<>>
      BY <1>0, <2>4, <2>5
    <3> QED
      BY <2>1, <2>3, <2>6, <2>7, <3>1 DEF HoldsLine
  <2>9. InOrder'
    BY <2>2, <2>4, <2>6, <2>8 DEF InOrder
  <2> QED
    BY <2>1, <2>9 DEF OrderInv
<1>16. CASE UNCHANGED vars
  BY <1>1, <1>16 DEF vars, object, later
<1> QED
  BY <1>4, <1>5, <1>6, <1>7, <1>8, <1>9, <1>10, <1>11, <1>12, <1>13, <1>14, <1>15, <1>16 DEF Next

(* What is sent are the elements' names and nodes, whatever values they    *)
(* have been given since.                                                  *)
LEMMA SentStep == PInv /\ [Next]_vars => SentInv'
<1> SUFFICES ASSUME PInv, [Next]_vars, pc = "done", status PROVE SentInv'
  BY NothingSent
<1>0. TypeOK /\ ElementsInv /\ SentInv /\ elements \in Seq(Element) /\ DOMAIN elements = 1..Len(elements)
  BY DEF PInv, IInv, TypeOK
<1>1. CASE UNCHANGED vars
  <2>1. ASSUME NEW es, NEW extra, ListingOf(es, extra) PROVE ListingOf(es, extra)'
    BY <1>1, <2>1 DEF ListingOf, Text, vars, object, later
  <2> QED
    BY <1>0, <1>1, <2>1 DEF SentInv, vars, later
<1>2. ASSUME NEW extra \in Extras, Send(extra) PROVE SentInv'
  <2>1. /\ sent' = listing(extra) /\ Listable(controls \o extra) /\ pc' = "done" /\ status'
        /\ UNCHANGED <<title, sections, elements, controls>>
    BY <1>2 DEF Send, object
  <2>2. ASSUME NEW k \in DOMAIN elements
        PROVE  toString(elements[k]) \in Line /\ Writes(elements[k], toString(elements[k]))
    <3> DEFINE e == elements[k]
               w == <<e.name, e.edge0, e.edge1>>
    <3>1. e \in Element /\ (FilledParams => e.value # <<>>)
      BY <1>0 DEF ElementsInv
    <3>2. toString(e) \in Line /\ toString(e).kind = "plain" /\ toString(e).words = w \o e.value
      BY <3>1, ToStringType DEF toString, Plain
    <3>3. /\ w \in Seq(Words) /\ Len(w) = 3 /\ e.value \in Seq(Words)
          /\ w[1] = e.name /\ w[2] = e.edge0 /\ w[3] = e.edge1
      BY <3>1 DEF Element
    <3> HIDE DEF e, w
    <3>4. /\ Len(w \o e.value) = 3 + Len(e.value) /\ Len(e.value) \in Nat
          /\ \A i \in 1..3 : (w \o e.value)[i] = w[i]
      <4>1. w \in Seq(Words) /\ e.value \in Seq(Words)
        BY <3>3
      <4>2. /\ Len(w \o e.value) = Len(w) + Len(e.value)
            /\ \A i \in 1..Len(w) : (w \o e.value)[i] = w[i]
        BY ONLY <4>1, Joining
      <4> QED
        BY <3>3, <4>2
    <3>5. FilledParams => Len(e.value) >= 1
      BY <3>1, <3>3
    <3>6. Writes(e, toString(e))
      BY <3>2, <3>3, <3>4, <3>5 DEF Writes, e, w
    <3> QED
      BY <3>2, <3>6 DEF e
  <2>3. PICK es \in Seq(Line) : es = [k \in DOMAIN elements |-> toString(elements[k])]
    <3>1. [k \in 1..Len(elements) |-> toString(elements[k])] \in Seq(Line)
      <4> DEFINE out(k) == toString(elements[k])
      <4>1. \A k \in 1..Len(elements) : out(k) \in Line
        BY <1>0, <2>2
      <4>2. Len(elements) \in Nat
        BY <1>0
      <4> HIDE DEF out
      <4>3. [k \in 1..Len(elements) |-> out(k)] \in Seq(Line)
        BY <4>1, <4>2
      <4> QED
        BY <4>3 DEF out
    <3> QED
      BY <1>0, <3>1
  <2>4. Len(es) = Len(elements) /\ \A k \in DOMAIN elements : es[k] = toString(elements[k])
    BY <1>0, <2>3
  <2>5. \A k \in DOMAIN elements' : Writes(elements'[k], es[k])
    BY <2>1, <2>2, <2>4
  <2>6. sent' = Text(es, extra)'
    BY <2>1, <2>3 DEF listing, Text
  <2>7. ListingOf(es, extra)'
    BY <2>1, <2>4, <2>5, <2>6 DEF ListingOf, Writes
  <2> QED
    BY <2>1, <2>7 DEF SentInv
<1>3. ASSUME NEW params \in Params, SetParams(params) PROVE SentInv'
  BY <1>3 DEF SetParams, GivesParams, SentInv
<1> QED
  BY <1>1, <1>2, <1>3
     DEF Next, JoinLine, SetTitle, Skip, KeepSection, EnterControl, ShortLine, Duplicate,
         AddElement, LeaveControl, AddControl, IgnoreInControl, Return, Advance, At, AtElement

(* Circuit::load fills the object so that listing can write it again, for  *)
(* every netlist: the parts hold lines of their kind, the elements have    *)
(* different names and their nodes are the noted ones, and what was sent   *)
(* is the listing of the elements with the values they had then.           *)
THEOREM ObjectCorrect == Spec => []PInv
<1>1. Init => PInv
  BY TypeInit, LoadInit, ObjectInit DEF IInv, PInv
<1>2. PInv /\ [Next]_vars => PInv'
  BY TypeStep, LoadStep, PartsStep, ElementsStep, OrderStep, SentStep DEF IInv, PInv
<1> QED
  BY <1>1, <1>2, PTL DEF Spec

-----------------------------------------------------------------------------
(* A listing that was sent, and where its parts are.                       *)
SentOf(es, extra, a, c) ==
    /\ a \in Nat \ {0} /\ c \in Nat \ {0} /\ es \in Seq(Line) /\ extra \in Seq(Line)
    /\ ListingOf(es, extra)
    /\ Laid(sent, es, Commands(controls, extra), a, c)
    /\ \A k \in DOMAIN es : es[k].kind = "plain"

LEMMA SentLaid ==
    ASSUME PInv, HasTitle
    PROVE  \E es, extra, a, c : SentOf(es, extra, a, c)
<1>1. PICK extra \in Extras, es \in Seq(Line) : ListingOf(es, extra)
  BY DEF PInv, SentInv, HasTitle
<1>2. extra \in Seq(Line) /\ TypeOK /\ PartsInv /\ Listable(controls \o extra) /\ sent = Text(es, extra)
  BY <1>1, ExtrasAssumption DEF PInv, IInv, ListingOf
<1>3. PICK a, c \in Nat \ {0} : Laid(Text(es, extra), es, Commands(controls, extra), a, c)
  BY <1>2, TextLaid
<1>4. \A k \in DOMAIN es : es[k].kind = "plain"
  <2>1. DOMAIN es = DOMAIN elements
    BY <1>1, <1>2 DEF ListingOf, TypeOK
  <2> QED
    BY <1>1, <2>1 DEF ListingOf, Writes
<1> QED
  BY <1>1, <1>2, <1>3, <1>4 DEF SentOf

(* The commands of a listing are received where they were put, and what    *)
(* else is received among them has no words.                               *)
Commanded(s, cs, c) ==
    /\ \A k \in 1..Len(Arrived(s)) : InCommands(Arrived(s), k) =>
          \/ Arrived(s)[k].words = <<>>
          \/ \E i \in 1..Len(cs) : From(s, k) = c + i /\ Arrived(s)[k] = cs[i]
    /\ \A i \in 1..Len(cs) : NotBlank(cs[i]) =>
          \E k \in 1..Len(Arrived(s)) : /\ InCommands(Arrived(s), k)
                                        /\ From(s, k) = c + i /\ Arrived(s)[k] = cs[i]
    /\ \A k, l \in 1..Len(Arrived(s)) : From(s, k) < From(s, l) => k < l

LEMMA CommandsArrive ==
    ASSUME NEW es \in Seq(Line), NEW cs \in Seq(Line), NEW a \in Nat \ {0}, NEW c \in Nat \ {0},
           NEW s, Laid(s, es, cs, a, c), title.kind # "blank",
           \A k \in DOMAIN es : es[k].kind = "plain"
    PROVE  Commanded(s, cs, c)
<1> DEFINE r == Arrived(s)
           n == Len(r)
<1>1. /\ Arrives(s)
      /\ \A k \in 1..n : InCommands(r, k) <=> From(s, k) >= c
  BY Arrival
<1>2. /\ n \in Nat
      /\ \A k \in 1..n : From(s, k) \in 1..Len(s) /\ r[k] = s[From(s, k)]
      /\ \A k, l \in 1..n : k < l <=> From(s, k) < From(s, l)
      /\ \A i \in 1..Len(s) : NotBlank(s[i]) => \E k \in 1..n : From(s, k) = i
  BY <1>1 DEF Arrives
<1>3. Len(s) = c + Len(cs) + 2 /\ Len(cs) \in Nat
  BY DEF Laid
<1> HIDE DEF r, n
<1>4. ASSUME NEW k \in 1..n, InCommands(r, k)
      PROVE  r[k].words = <<>> \/ \E i \in 1..Len(cs) : From(s, k) = c + i /\ r[k] = cs[i]
  <2> DEFINE f == From(s, k)
  <2>1. f \in c..(c + Len(cs) + 2) /\ r[k] = s[f]
    BY <1>1, <1>2, <1>3, <1>4
  <2> HIDE DEF f
  <2>2. CASE f - c \in 1..Len(cs)
    <3>1. c + (f - c) = f
      BY <2>1
    <3>2. s[f] = cs[f - c]
      BY <2>2, <3>1 DEF Laid
    <3> QED
      BY <2>1, <2>2, <3>1, <3>2 DEF f
  <2>3. CASE f \in {c, c + Len(cs) + 1, c + Len(cs) + 2}
    BY <2>1, <2>3 DEF Laid, Marker
  <2>4. f - c \in 1..Len(cs) \/ f \in {c, c + Len(cs) + 1, c + Len(cs) + 2}
    <3>1. PICK l \in Nat : l = Len(cs)
      BY <1>3
    <3>2. f \in c..(c + l + 2)
      BY <2>1, <3>1
    <3>3. f - c \in 1..l \/ f = c \/ f = c + l + 1 \/ f = c + l + 2
      BY <3>2
    <3> QED
      BY <3>1, <3>3
  <2> QED
    BY <2>2, <2>3, <2>4
<1>5. ASSUME NEW i \in 1..Len(cs), NotBlank(cs[i])
      PROVE  \E k \in 1..n : InCommands(r, k) /\ From(s, k) = c + i /\ r[k] = cs[i]
  <2>1. s[c + i] = cs[i] /\ c + i \in 1..Len(s) /\ c + i >= c
    BY <1>3 DEF Laid
  <2>2. PICK k \in 1..n : From(s, k) = c + i
    BY <1>2, <1>5, <2>1
  <2> QED
    BY <1>1, <1>2, <2>1, <2>2
<1> QED
  BY <1>2, <1>4, <1>5 DEF Commanded, r, n

(* Around the added analysis: prints come behind it, and values are set    *)
(* before it if the netlist's own commands ask for nothing.                *)
LEMMA PrintsBehind ==
    ASSUME NEW both \in Seq(Line), NEW cs, NEW t, TranAt(both, cs, t),
           NEW p \in 1..Len(cs), IsPrint(cs[p])
    PROVE  t < p
<1>1. Len(both) \in Nat /\ t \in 1..(Len(both) + 1) /\ p \in 1..(Len(both) + 1)
  BY DEF TranAt
<1>2. ~IsPrint(DefaultTran)
  BY DEF DefaultTran, Plain, IsPrint
<1>3. p # t
  BY <1>2 DEF TranAt
<1>4. ASSUME p < t PROVE FALSE
  <2>1. p \in 1..Len(both)
    BY <1>1, <1>4
  <2> QED
    BY <1>4, <2>1 DEF TranAt
<1> QED
  BY <1>1, <1>3, <1>4

LEMMA AltersBefore ==
    ASSUME OrderlyExtras, NEW own \in Seq(Line), NEW extra \in Extras, extra \in Seq(Line),
           \A k \in DOMAIN own : ~Asks(own[k]),
           NEW cs, NEW t, TranAt(own \o extra, cs, t), NEW i \in 1..Len(cs), IsAlter(cs[i])
    PROVE  i < t
<1> DEFINE both == own \o extra
           m == Len(own)
<1>1. /\ both \in Seq(Line) /\ Len(both) = m + Len(extra) /\ m \in Nat /\ Len(extra) \in Nat
      /\ DOMAIN own = 1..m /\ DOMAIN extra = 1..Len(extra)
      /\ \A k \in 1..m : both[k] = own[k]
      /\ \A k \in 1..Len(extra) : both[m + k] = extra[k]
  BY Joining
<1>2. TranAt(both, cs, t)
  OBVIOUS
<1> HIDE DEF both, m
<1>3. t \in 1..(Len(both) + 1) /\ i \in 1..(Len(both) + 1) /\ Len(both) \in Nat
  BY <1>1, <1>2 DEF TranAt
<1>4. i # t
  BY <1>2 DEF TranAt, DefaultTran, Plain, IsAlter
<1>5. ASSUME i > t PROVE FALSE
  <2>1. i - 1 \in 1..Len(both) /\ i - 1 >= t /\ (i - 1) + 1 = i /\ t \in 1..Len(both)
    BY <1>3, <1>5
  <2>2. IsAlter(both[i - 1]) /\ IsPrint(both[t])
    <3>1. cs[(i - 1) + 1] = both[i - 1]
      BY <1>2, <2>1 DEF TranAt
    <3> QED
      BY <1>2, <2>1, <3>1 DEF TranAt
  <2>3. ~(t <= m)
    <3>1. t <= m => both[t] = own[t] /\ t \in 1..m
      BY <1>1, <2>1
    <3> QED
      BY <1>1, <2>2, <3>1 DEF Asks
  <2> DEFINE j == i - 1 - m
             p == t - m
  <2>4. j \in 1..Len(extra) /\ p \in 1..Len(extra) /\ m + j = i - 1 /\ m + p = t /\ ~(j < p)
    BY <1>1, <2>1, <2>3
  <2> HIDE DEF j, p
  <2>5. both[i - 1] = extra[j] /\ both[t] = extra[p]
    BY <1>1, <2>4
  <2> QED
    BY <1>1, <2>2, <2>4, <2>5 DEF OrderlyExtras
<1> QED
  BY <1>3, <1>4, <1>5

(* Without a transient command of its own, the netlist gets one.           *)
LEMMA TranAdded ==
    ASSUME OrderlyExtras, NEW own \in Seq(Line), NEW extra \in Extras, extra \in Seq(Line),
           \A k \in DOMAIN own : ~IsTran(own[k])
    PROVE  /\ own \o extra \in Seq(Line)
           /\ \E t \in Nat : TranAt(own \o extra, Commands(own, extra), t)
<1> DEFINE both == own \o extra
           m == Len(own)
<1>1. /\ both \in Seq(Line) /\ Len(both) = m + Len(extra) /\ m \in Nat /\ Len(extra) \in Nat
      /\ DOMAIN own = 1..m /\ DOMAIN extra = 1..Len(extra)
      /\ \A k \in 1..m : both[k] = own[k]
      /\ \A k \in 1..Len(extra) : both[m + k] = extra[k]
      /\ \A k \in 1..(m + Len(extra)) : k \in 1..m \/ k - m \in 1..Len(extra)
  BY Joining
<1>2. \A k \in 1..Len(both) : ~IsTran(both[k])
  <2> HIDE DEF both, m
  <2> SUFFICES ASSUME NEW k \in 1..Len(both) PROVE ~IsTran(both[k])
    OBVIOUS
  <2>1. CASE k \in 1..m
    BY <1>1, <2>1
  <2>2. CASE k - m \in 1..Len(extra)
    <3>1. m + (k - m) = k
      BY <1>1
    <3>2. both[k] = extra[k - m]
      BY <1>1, <2>2, <3>1
    <3> QED
      BY <1>1, <2>2, <3>2 DEF OrderlyExtras
  <2> QED
    BY <1>1, <2>1, <2>2
<1> QED
  BY <1>1, <1>2, TranInserted

(* In the listing that was sent.                                           *)
LEMMA ReceivedIs == Received = Arrived(sent)
  BY DEF Received, Arrived, Kept

LEMMA TranReceived ==
    ASSUME PInv, OrderlyExtras, HasTitle, \A k \in DOMAIN controls : ~IsTran(controls[k])
    PROVE  \E es, extra, a, c, t :
              /\ SentOf(es, extra, a, c)
              /\ t \in Nat /\ TranAt(controls \o extra, Commands(controls, extra), t)
              /\ controls \o extra \in Seq(Line)
              /\ Commanded(sent, Commands(controls, extra), c)
<1>1. PICK es, extra, a, c : SentOf(es, extra, a, c)
  BY SentLaid
<1>2. /\ controls \in Seq(Line) /\ extra \in Seq(Line) /\ extra \in Extras
      /\ Listable(controls \o extra)
  BY <1>1 DEF PInv, IInv, TypeOK, SentOf, ListingOf
<1>3. Commands(controls, extra) \in Seq(Line)
  BY <1>2, CommandsType
<1>4. Commanded(sent, Commands(controls, extra), c)
  BY <1>1, <1>3, CommandsArrive DEF SentOf, HasTitle
<1>5. /\ controls \o extra \in Seq(Line)
      /\ \E t \in Nat : TranAt(controls \o extra, Commands(controls, extra), t)
  BY <1>2, TranAdded
<1> QED
  BY <1>1, <1>4, <1>5

(* "find index of first print": in every listing that Circuit::listing     *)
(* writes for a netlist without a transient command, the simulator reads   *)
(* an analysis in front of all that is printed.  OrderlyExtras is met by   *)
(* the library, whose further commands set initial values only.            *)
THEOREM PrintsCorrect == ASSUME OrderlyExtras PROVE Spec => []PrintsAfterTran
<1>1. ASSUME PInv PROVE PrintsAfterTran
  <2> SUFFICES ASSUME HasTitle, \A k \in DOMAIN controls : ~IsTran(controls[k])
               PROVE  \E t \in TransOf(Received) : \A p \in PrintsOf(Received) : t < p
    BY DEF PrintsAfterTran
  <2>1. PICK es, extra, a, c, t :
              /\ SentOf(es, extra, a, c)
              /\ t \in Nat /\ TranAt(controls \o extra, Commands(controls, extra), t)
              /\ controls \o extra \in Seq(Line)
              /\ Commanded(sent, Commands(controls, extra), c)
    BY <1>1, TranReceived
  <2> DEFINE cs == Commands(controls, extra)
             r  == Arrived(sent)
  <2>2. t \in 1..Len(cs) /\ cs[t] = DefaultTran /\ Len(cs) \in Nat
    BY <2>1 DEF TranAt
  <2>3. /\ r \in Seq(Line) /\ DOMAIN r = 1..Len(r) /\ c \in Nat
        /\ Commanded(sent, cs, c)
    BY <2>1, AllArrive DEF SentOf, Laid, Arrives
  <2>4. IsTran(DefaultTran) /\ NotBlank(DefaultTran)
    BY DEF DefaultTran, Plain, IsTran, NotBlank
  <2>5. \A p \in 1..Len(cs) : IsPrint(cs[p]) => t < p
    BY <2>1, PrintsBehind
  <2> HIDE DEF cs, r
  <2>6. PICK k \in 1..Len(r) : InCommands(r, k) /\ From(sent, k) = c + t /\ r[k] = cs[t]
    BY <2>2, <2>3, <2>4 DEF Commanded, r
  <2>7. k \in TransOf(r)
    BY <2>2, <2>3, <2>4, <2>6 DEF TransOf
  <2>8. ASSUME NEW p \in PrintsOf(r) PROVE k < p
    <3>1. p \in 1..Len(r) /\ InCommands(r, p) /\ IsPrint(r[p])
      BY <2>3 DEF PrintsOf
    <3>2. r[p].words # <<>>
      BY <3>1 DEF IsPrint
    <3>3. PICK i \in 1..Len(cs) : From(sent, p) = c + i /\ r[p] = cs[i]
      BY <2>3, <3>1, <3>2 DEF Commanded, r
    <3>4. From(sent, k) < From(sent, p)
      BY <2>2, <2>3, <2>5, <2>6, <3>1, <3>3
    <3> QED
      BY <2>3, <3>1, <3>4 DEF Commanded, r
  <2> QED
    BY <2>7, <2>8, ReceivedIs DEF r
<1> QED
  BY <1>1, ObjectCorrect, PTL

(* Initial values given to a run take effect (Circuit::listing): if the    *)
(* netlist's own commands ask for no analysis and print nothing, all       *)
(* values are set before the analysis.                                     *)
THEOREM AltersCorrect == ASSUME OrderlyExtras PROVE Spec => []AltersTakeEffect
<1>1. ASSUME PInv PROVE AltersTakeEffect
  <2> SUFFICES ASSUME HasTitle, \A k \in DOMAIN controls : ~Asks(controls[k])
               PROVE  \E t \in TransOf(Received) : \A p \in AltersOf(Received) : p < t
    BY DEF AltersTakeEffect
  <2>1. PICK es, extra, a, c, t :
              /\ SentOf(es, extra, a, c)
              /\ t \in Nat /\ TranAt(controls \o extra, Commands(controls, extra), t)
              /\ controls \o extra \in Seq(Line)
              /\ Commanded(sent, Commands(controls, extra), c)
    BY <1>1, TranReceived DEF Asks
  <2> DEFINE cs == Commands(controls, extra)
             r  == Arrived(sent)
  <2>2. t \in 1..Len(cs) /\ cs[t] = DefaultTran /\ Len(cs) \in Nat
    BY <2>1 DEF TranAt
  <2>3. /\ r \in Seq(Line) /\ DOMAIN r = 1..Len(r) /\ c \in Nat
        /\ Commanded(sent, cs, c)
    BY <2>1, AllArrive DEF SentOf, Laid, Arrives
  <2>4. IsTran(DefaultTran) /\ NotBlank(DefaultTran)
    BY DEF DefaultTran, Plain, IsTran, NotBlank
  <2>5. \A i \in 1..Len(cs) : IsAlter(cs[i]) => i < t
    <3>1. controls \in Seq(Line) /\ extra \in Seq(Line) /\ extra \in Extras
      BY <1>1, <2>1 DEF PInv, IInv, TypeOK, SentOf, ListingOf
    <3> QED
      BY <1>1, <2>1, <3>1, AltersBefore
  <2> HIDE DEF cs, r
  <2>6. PICK k \in 1..Len(r) : InCommands(r, k) /\ From(sent, k) = c + t /\ r[k] = cs[t]
    BY <2>2, <2>3, <2>4 DEF Commanded, r
  <2>7. k \in TransOf(r)
    BY <2>2, <2>3, <2>4, <2>6 DEF TransOf
  <2>8. ASSUME NEW p \in AltersOf(r) PROVE p < k
    <3>1. p \in 1..Len(r) /\ InCommands(r, p) /\ IsAlter(r[p])
      BY <2>3 DEF AltersOf
    <3>2. r[p].words # <<>>
      BY <3>1 DEF IsAlter
    <3>3. PICK i \in 1..Len(cs) : From(sent, p) = c + i /\ r[p] = cs[i]
      BY <2>3, <3>1, <3>2 DEF Commanded, r
    <3>4. From(sent, p) < From(sent, k)
      BY <2>2, <2>3, <2>5, <2>6, <3>1, <3>3
    <3> QED
      BY <2>3, <3>1, <3>4 DEF Commanded, r
  <2> QED
    BY <2>7, <2>8, ReceivedIs DEF r
<1> QED
  BY <1>1, ObjectCorrect, PTL

-----------------------------------------------------------------------------
(* The element lines of what is received, but for its last line, are those *)
(* that were written for the elements.                                     *)
LEMMA FrontOf ==
    ASSUME NEW r \in Seq(Line), Len(r) >= 2
    PROVE  /\ Front(r) \in Seq(Line) /\ Len(Front(r)) = Len(r) - 1
           /\ \A k \in 1..(Len(r) - 1) : Front(r)[k] = r[k]
<1>1. Len(r) \in Nat /\ \A k \in 1..(Len(r) - 1) : r[k] \in Line
  OBVIOUS
<1>2. /\ SubSeq(r, 1, Len(r) - 1) \in Seq(Line)
      /\ Len(SubSeq(r, 1, Len(r) - 1)) = Len(r) - 1
      /\ \A k \in 1..(Len(r) - 1) : SubSeq(r, 1, Len(r) - 1)[k] = r[k]
  BY <1>1, SubSeqProperties
<1> QED
  BY <1>2 DEF Front

(* Where element lines are in a listing s as it arrives.                   *)
Rewritten(s, es, f, a) ==
    /\ f \in Seq(Line) /\ Len(f) \in Nat
    /\ \A k \in 1..Len(f) : IsElement(f, k) =>
          \E j \in 1..Len(es) : From(s, k) = a + j /\ f[k] = es[j]
    /\ \A j \in 1..Len(es) : \E k \in 1..Len(f) :
          IsElement(f, k) /\ From(s, k) = a + j /\ f[k] = es[j]
    /\ \A k, l \in 1..Len(f) : (From(s, k) = From(s, l) => k = l) /\ (k < l => From(s, k) < From(s, l))

LEMMA ElementsArrive ==
    ASSUME NEW es \in Seq(Line), NEW cs \in Seq(Line), NEW a \in Nat \ {0}, NEW c \in Nat \ {0},
           NEW s, Laid(s, es, cs, a, c), title.kind # "blank",
           \A k \in DOMAIN es : es[k].kind = "plain",
           \A k \in DOMAIN cs : cs[k].kind \in {"plain", "plus"}
    PROVE  Rewritten(s, es, Front(Arrived(s)), a)
<1> DEFINE r == Arrived(s)
           n == Len(r)
           f == Front(r)
<1>1. /\ Arrives(s) /\ n >= 2 /\ From(s, 1) = 1 /\ From(s, n) = Len(s)
      /\ \A k \in 1..n : InCommands(r, k) <=> From(s, k) >= c
  BY Arrival
<1>2. /\ r \in Seq(Line) /\ n \in Nat
      /\ \A k \in 1..n : From(s, k) \in 1..Len(s) /\ r[k] = s[From(s, k)]
      /\ \A k, l \in 1..n : k < l <=> From(s, k) < From(s, l)
      /\ \A i \in 1..Len(s) : NotBlank(s[i]) => \E k \in 1..n : From(s, k) = i
  BY <1>1 DEF Arrives
<1>3. /\ f \in Seq(Line) /\ Len(f) = n - 1
      /\ \A k \in 1..(n - 1) : f[k] = r[k]
  BY <1>1, <1>2, FrontOf
<1>4. /\ Len(s) = c + Len(cs) + 2 /\ Len(cs) \in Nat /\ Len(es) \in Nat
      /\ DOMAIN es = 1..Len(es) /\ DOMAIN cs = 1..Len(cs) /\ a + Len(es) < c
  BY DEF Laid
<1> HIDE DEF r, n, f
<1>5. ASSUME NEW k \in 1..(n - 1) PROVE k \in 1..n /\ From(s, k) \in 1..(Len(s) - 1)
  <2>1. k \in 1..n /\ n \in 1..n /\ k < n
    BY <1>1, <1>2
  <2>2. From(s, k) < From(s, n) /\ From(s, k) \in 1..Len(s)
    BY <1>2, <2>1
  <2> QED
    BY <1>1, <1>4, <2>1, <2>2
<1>6. PICK mark \in 1..n : From(s, mark) = c
  <2>1. NotBlank(s[c]) /\ c \in 1..Len(s)
    BY <1>4 DEF Laid, NotBlank, Marker
  <2> QED
    BY <1>2, <2>1
<1>7. ASSUME NEW k \in 1..(n - 1), From(s, k) > c PROVE InControl(f, k)
  <2>1. mark < k /\ 1 < mark
    <3>1. k \in 1..n /\ 1 \in 1..n /\ From(s, 1) < From(s, mark) /\ From(s, mark) < From(s, k)
      BY <1>1, <1>2, <1>4, <1>5, <1>6, <1>7
    <3> QED
      BY <1>2, <1>6, <3>1
  <2>2. mark \in 2..(k - 1) /\ mark \in 1..(n - 1)
    BY <1>2, <1>6, <2>1
  <2>3. f[mark].kind = "control"
    BY <1>2, <1>3, <1>6, <2>2 DEF Laid, Marker
  <2>4. ASSUME NEW e \in (mark + 1)..(k - 1) PROVE f[e].kind # "endc"
    <3>1. e \in 1..(n - 1) /\ e \in 1..n /\ k \in 1..n /\ mark < e /\ e < k
      BY <1>2, <1>6, <2>1
    <3> DEFINE i == From(s, e)
    <3>2. i > c /\ i < From(s, k) /\ i \in 1..Len(s) /\ From(s, k) \in 1..(Len(s) - 1)
      BY <1>2, <1>5, <1>6, <3>1
    <3> HIDE DEF i
    <3>3. i - c \in 1..Len(cs) /\ c + (i - c) = i
      BY <1>4, <3>2
    <3>4. s[i] = cs[i - c] /\ f[e] = s[i]
      <4>1. s[c + (i - c)] = cs[i - c]
        BY <3>3 DEF Laid
      <4> QED
        BY <1>2, <1>3, <3>1, <3>3, <4>1 DEF i
    <3> QED
      BY <1>4, <3>3, <3>4
  <2> QED
    BY <2>2, <2>3, <2>4 DEF InControl
<1>8. ASSUME NEW k \in 1..Len(f), IsElement(f, k)
      PROVE  \E j \in 1..Len(es) : From(s, k) = a + j /\ f[k] = es[j]
  <2> DEFINE i == From(s, k)
  <2>1. /\ k \in 1..(n - 1) /\ k \in 1..n /\ i \in 1..Len(s) /\ f[k] = s[i] /\ k # 1
        /\ f[k].kind \notin Skipped \cup Sections \cup {"control"} /\ ~InControl(f, k)
    BY <1>2, <1>3, <1>5, <1>8 DEF IsElement
  <2>2. ~(i > c)
    BY <1>7, <2>1
  <2>3. i # c
    BY <2>1 DEF Laid, Marker
  <2>4. i # 1
    <3>1. 1 \in 1..n /\ 1 < k
      BY <1>1, <1>2, <2>1
    <3>2. From(s, 1) < From(s, k)
      BY <1>2, <2>1, <3>1
    <3> QED
      BY <1>1, <3>2
  <2> HIDE DEF i
  <2>5. i \in 2..(c - 1)
    BY <2>1, <2>2, <2>3, <2>4
  <2>6. i - a \in 1..Len(es)
    <3>1. s[i].kind \notin Quiet
      BY <2>1 DEF Quiet, Skipped
    <3> QED
      BY <2>5, <3>1 DEF Laid
  <2>7. a + (i - a) = i
    BY <2>5
  <2>8. s[i] = es[i - a]
    BY <2>6, <2>7 DEF Laid
  <2> QED
    BY <2>1, <2>6, <2>7, <2>8 DEF i
<1>9. ASSUME NEW j \in 1..Len(es)
      PROVE  \E k \in 1..Len(f) : IsElement(f, k) /\ From(s, k) = a + j /\ f[k] = es[j]
  <2>1. /\ a + j \in 1..Len(s) /\ a + j # 1 /\ a + j < c /\ s[a + j] = es[j]
        /\ es[j].kind = "plain" /\ NotBlank(s[a + j])
    BY <1>4 DEF Laid, NotBlank
  <2>2. PICK k \in 1..n : From(s, k) = a + j
    BY <1>2, <2>1
  <2>3. k # n /\ k # 1
    BY <1>1, <1>4, <2>1, <2>2
  <2>4. k \in 2..(n - 1) /\ k \in 1..(n - 1) /\ k \in 1..Len(f)
    BY <1>2, <1>3, <2>2, <2>3
  <2>5. f[k] = es[j]
    BY <1>2, <1>3, <2>1, <2>2, <2>4
  <2>6. ~InControl(f, k)
    <3> SUFFICES ASSUME NEW m \in 2..(k - 1), f[m].kind = "control" PROVE FALSE
      BY DEF InControl
    <3>1. m \in 2..k /\ m \in 1..(n - 1)
      BY <1>2, <2>4
    <3>2. InCommands(r, k)
      BY <1>3, <3>1 DEF InCommands
    <3> QED
      BY <1>1, <2>1, <2>2, <3>2
  <2>7. IsElement(f, k)
    BY <1>3, <2>1, <2>4, <2>5, <2>6 DEF IsElement, Skipped, Sections
  <2> QED
    BY <2>2, <2>4, <2>5, <2>7
<1>10. ASSUME NEW k \in 1..Len(f), NEW l \in 1..Len(f)
       PROVE  (From(s, k) = From(s, l) => k = l) /\ (k < l => From(s, k) < From(s, l))
  <2>1. k \in 1..n /\ l \in 1..n /\ From(s, k) \in Nat
    BY <1>2, <1>3
  <2>2. (k < l => From(s, k) < From(s, l)) /\ (l < k => From(s, l) < From(s, k))
    BY <1>2, <2>1
  <2> QED
    BY <2>1, <2>2
<1>11. Len(f) \in Nat
  BY <1>1, <1>2, <1>3
<1> QED
  BY <1>3, <1>8, <1>9, <1>10, <1>11 DEF Rewritten, f, r

(* So they are those lines in their order.                                 *)
Gathered(f, es) ==
    /\ Len(ElementLines(f)) = Len(es)
    /\ \A j \in 1..Len(es) : ElementLines(f)[j] = es[j]

LEMMA ElementsGathered ==
    ASSUME NEW es \in Seq(Line), NEW a \in Nat, NEW s, NEW f, Rewritten(s, es, f, a)
    PROVE  Gathered(f, es)
<1> DEFINE K == {k \in DOMAIN f : IsElement(f, k)}
           m == Len(es)
           g == [k \in K |-> From(s, k) - a]
<1>1. f \in Seq(Line) /\ Len(f) \in Nat /\ DOMAIN f = 1..Len(f) /\ m \in Nat
  BY DEF Rewritten
<1>2. ASSUME NEW k \in K
      PROVE  g[k] \in 1..m /\ From(s, k) = a + g[k] /\ f[k] = es[g[k]]
  <2>1. PICK j \in 1..m : From(s, k) = a + j /\ f[k] = es[j]
    BY <1>1 DEF Rewritten
  <2>2. g[k] = j
    BY <2>1
  <2> HIDE DEF g
  <2> QED
    BY <2>1, <2>2
<1>3. K \subseteq 1..Len(f) /\ K \subseteq DOMAIN f
  BY <1>1
<1>4. g \in [K -> 1..m]
  BY <1>2
<1>5. ASSUME NEW j \in 1..m PROVE \E k \in K : g[k] = j
  <2>1. PICK k \in 1..Len(f) : IsElement(f, k) /\ From(s, k) = a + j
    BY DEF Rewritten
  <2>2. k \in K /\ From(s, k) - a = j
    BY <1>1, <2>1
  <2> QED
    BY <2>2
<1>6. ASSUME NEW k \in K, NEW l \in K, k < l PROVE g[k] < g[l]
  <2>1. From(s, k) < From(s, l)
    BY <1>3, <1>6 DEF Rewritten
  <2>2. From(s, k) = a + g[k] /\ From(s, l) = a + g[l] /\ g[k] \in 1..m /\ g[l] \in 1..m
    BY <1>2
  <2> HIDE DEF g, K
  <2> QED
    BY <2>1, <2>2
<1>7. ElementLines(f) = Only(f, K)
  BY DEF ElementLines
<1> HIDE DEF g, K, m
<1>8. Ranks(g, K, m)
  BY <1>1, <1>3, <1>4, <1>5, <1>6, Ranked
<1>9. /\ Len(Only(f, K)) = Cardinality(K)
      /\ \A j \in 1..Cardinality(K) : Only(f, K)[j] = f[Nth(K, j)]
  BY <1>1, <1>3, OnlyProperties
<1>10. ASSUME NEW j \in 1..m PROVE Only(f, K)[j] = es[j]
  <2>1. Nth(K, j) \in K /\ g[Nth(K, j)] = j /\ Cardinality(K) = m
    BY <1>8 DEF Ranks
  <2>2. f[Nth(K, j)] = es[j]
    BY <1>2, <2>1
  <2> QED
    BY <1>9, <2>1, <2>2
<1> QED
  BY <1>7, <1>8, <1>9, <1>10 DEF Gathered, Ranks, m

(* A line's first three words.                                             *)
LEMMA FirstThree ==
    ASSUME NEW w \in Seq(Words), Len(w) >= 3
    PROVE  SubSeq(w, 1, 3) = <<w[1], w[2], w[3]>>
<1>1. Len(w) \in Nat /\ \A k \in 1..3 : w[k] \in Words
  OBVIOUS
<1> DEFINE first == SubSeq(w, 1, 3)
           three == <<w[1], w[2], w[3]>>
<1>2. first \in Seq(Words) /\ Len(first) = 3 /\ \A k \in 1..3 : first[k] = w[k]
  BY <1>1, SubSeqProperties
<1>3. three \in Seq(Words) /\ Len(three) = 3
  BY <1>1
<1>4. three[1] = w[1] /\ three[2] = w[2] /\ three[3] = w[3]
  OBVIOUS
<1> HIDE DEF first, three
<1>5. ASSUME NEW k \in 1..3 PROVE first[k] = three[k]
  <2>1. k = 1 \/ k = 2 \/ k = 3
    OBVIOUS
  <2> QED
    BY <1>2, <1>4, <2>1
<1>6. first = three
  BY <1>2, <1>3, <1>5
<1> QED
  BY <1>6 DEF first, three

(* Read again as a netlist, what the simulator receives has the elements   *)
(* that were loaded, each once, whole and in their order, and the value    *)
(* that setParams was given for its position, or else its own              *)
(* (Circuit::load, setParams and listing), for every netlist with a title. *)
(* The commands given to listing are plain lines (OrderlyExtras) and no    *)
(* value is empty (FilledParams): the library takes both from numbers and  *)
(* names.                                                                  *)
THEOREM ListingCorrect ==
    ASSUME OrderlyExtras, FilledParams PROVE Spec => []ListingKeepsCircuit
<1>1. ASSUME PInv PROVE ListingKeepsCircuit
  <2> DEFINE F == Front(Received)
  <2> SUFFICES ASSUME HasTitle
               PROVE  /\ Acceptable(F)
                      /\ Len(ElementLines(F)) = Len(ElementLines(lines))
                      /\ \A k \in DOMAIN ElementLines(lines) :
                           ElementLines(F)[k].words
                             = SubSeq(ElementLines(lines)[k].words, 1, 3) \o ValueAt(k)
    BY DEF ListingKeepsCircuit
  <2>1. PICK es, extra, a, c : SentOf(es, extra, a, c)
    BY <1>1, SentLaid
  <2> DEFINE cs == Commands(controls, extra)
             in(k) == IsElement(F, k)
  <2>2. /\ controls \in Seq(Line) /\ extra \in Seq(Line) /\ extra \in Extras
        /\ Listable(controls \o extra) /\ elements \in Seq(Element)
        /\ \A k \in DOMAIN controls : controls[k].kind \in {"plain", "plus"}
        /\ \A k \in DOMAIN extra : extra[k].kind \in {"plain", "plus"}
    BY <1>1, <2>1 DEF PInv, IInv, TypeOK, PartsInv, SentOf, ListingOf, OrderlyExtras
  <2>3. cs \in Seq(Line) /\ \A k \in DOMAIN cs : cs[k].kind \in {"plain", "plus"}
    BY <2>2, CommandsType, CommandsPlain
  <2> HIDE DEF cs
  <2>4. Rewritten(sent, es, F, a)
    BY <2>1, <2>3, ElementsArrive, ReceivedIs DEF SentOf, HasTitle, cs
  <2> HIDE DEF F
  <2>5. /\ pc = "done" /\ status
        /\ DOMAIN elements = 1..Len(es)
        /\ \A j \in 1..Len(es) : /\ Len(es[j].words) >= 4
                                 /\ es[j].words[1] = elements[j].name
    <3>1. DOMAIN elements = 1..Len(es)
      BY <2>1, <2>2 DEF SentOf, ListingOf
    <3> QED
      BY <1>1, <2>1, <3>1 DEF SentOf, ListingOf, Writes, PInv, SentInv, HasTitle
  <2>6. \A i, j \in 1..Len(es) : elements[i].name = elements[j].name => i = j
    BY <1>1, <2>5 DEF PInv, ElementsInv
  <2>7. /\ \A k \in 1..Len(F) : in(k) => \E j \in 1..Len(es) : From(sent, k) = a + j /\ F[k] = es[j]
        /\ \A j \in 1..Len(es) : \E k \in 1..Len(F) : in(k) /\ F[k] = es[j]
        /\ \A k, l \in 1..Len(F) : From(sent, k) = From(sent, l) => k = l
        /\ F \in Seq(Line)
    BY <2>4 DEF Rewritten
  <2>8. Acceptable(F)
    <3>1. ASSUME NEW k \in 1..Len(F) PROVE ~IsShort(F, k)
      <4> SUFFICES ASSUME in(k), Len(F[k].words) < 4 PROVE FALSE
        BY DEF IsShort
      <4>1. PICK j \in 1..Len(es) : F[k] = es[j]
        BY <2>7
      <4>2. F[k] \in Line
        BY <2>7
      <4>3. Len(F[k].words) \in Nat
        BY <4>2 DEF Line
      <4> QED
        BY <2>5, <4>1, <4>3
    <3>2. ASSUME NEW k \in 1..Len(F), NEW l \in 1..Len(F), in(k), in(l),
                 F[k].words[1] = F[l].words[1]
          PROVE  k = l
      <4>1. PICK i \in 1..Len(es) : From(sent, k) = a + i /\ F[k] = es[i]
        BY <2>7, <3>2
      <4>2. PICK j \in 1..Len(es) : From(sent, l) = a + j /\ F[l] = es[j]
        BY <2>7, <3>2
      <4>3. i = j
        BY <2>5, <2>6, <3>2, <4>1, <4>2
      <4> QED
        BY <2>7, <4>1, <4>2, <4>3
    <3> QED
      BY <3>1, <3>2 DEF Acceptable
  <2>9. \A j \in 1..Len(es) :
           es[j].words = <<elements[j].name, elements[j].edge0, elements[j].edge1>> \o elements[j].value
    BY <2>1, <2>5 DEF SentOf, ListingOf, Writes
  <2>10. Gathered(F, es)
    BY <2>1, <2>4, ElementsGathered DEF SentOf
  <2> DEFINE K == {k \in DOMAIN lines : IsElement(lines, k)}
  <2>11. /\ lines \in Seq(Line) /\ K = ReadElements /\ K \subseteq DOMAIN lines
         /\ \A k \in K : Len(lines[k].words) >= 4
         /\ InOrder
    <3>1. TypeOK /\ IInv /\ OrderInv
      BY <1>1 DEF PInv, IInv
    <3>2. lines \in Seq(Line)
      BY <3>1, GivenType
    <3>3. Reading /\ ReadElements = K
      BY <2>5, <3>1, <3>2, AllRead
    <3>4. \A k \in K : Len(lines[k].words) >= 4
      BY <3>3 DEF Reading
    <3> QED
      BY <2>5, <3>1, <3>2, <3>3, <3>4 DEF OrderInv
  <2>12. ElementLines(lines) = Only(lines, K)
    BY DEF ElementLines
  <2> HIDE DEF K, in
  <2>13. /\ Len(Only(lines, K)) = Cardinality(K) /\ Cardinality(K) \in Nat
         /\ DOMAIN Only(lines, K) = 1..Cardinality(K)
         /\ \A k \in 1..Cardinality(K) : Nth(K, k) \in K /\ Only(lines, K)[k] = lines[Nth(K, k)]
    BY <2>11, OnlyProperties
  <2>14. Len(es) = Cardinality(K)
    BY <2>1, <2>2, <2>11 DEF SentOf, ListingOf, InOrder
  <2>15. ASSUME NEW k \in 1..Cardinality(K)
         PROVE  ElementLines(F)[k].words = SubSeq(ElementLines(lines)[k].words, 1, 3) \o ValueAt(k)
    <3> DEFINE w == lines[Nth(K, k)].words
               e == elements[k]
    <3>1. ElementLines(lines)[k].words = w
      BY <2>12, <2>13
    <3>2. w \in Seq(Words) /\ Len(w) >= 4
      <4>1. Nth(K, k) \in K /\ Nth(K, k) \in DOMAIN lines
        BY <2>11, <2>13
      <4>2. lines[Nth(K, k)] \in Line
        BY <2>11, <4>1
      <4> QED
        BY <2>11, <4>1, <4>2 DEF Line
    <3>3. HoldsLine(e, w, k)
      BY <2>5, <2>11, <2>14 DEF InOrder
    <3>4. ElementLines(F)[k].words = <<e.name, e.edge0, e.edge1>> \o e.value
      BY <2>10, <2>14, <2>9 DEF Gathered
    <3> HIDE DEF w, e
    <3>5. e.value = ValueAt(k)
      BY <3>1, <3>3 DEF HoldsLine, ValueAt
    <3>6. SubSeq(w, 1, 3) = <<e.name, e.edge0, e.edge1>>
      BY <3>2, <3>3, FirstThree DEF HoldsLine
    <3> QED
      BY <3>1, <3>4, <3>5, <3>6
  <2>16. Len(ElementLines(F)) = Len(ElementLines(lines))
    BY <2>10, <2>12, <2>13, <2>14 DEF Gathered
  <2> QED
    BY <2>8, <2>12, <2>13, <2>15, <2>16 DEF F
<1> QED
  BY <1>1, ObjectCorrect, PTL
=============================================================================
