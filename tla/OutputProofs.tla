---------------------------- MODULE OutputProofs ----------------------------
(***************************************************************************)
(* Proofs about the plots, for any number of plots, points and names.      *)
(* Whatever runs and commands do, the list of plots stays linked; what a   *)
(* run saves is kept and told, as long as the caller does not change the   *)
(* run's plot.  Everything stays in its type, and every plot with vectors  *)
(* has its scale among them.                                               *)
(***************************************************************************)
EXTENDS OutputVectors, ListProofs

Fields == {"number", "scale", "vectors"}

(* The list is one, and its entries have a number.                         *)
Shaped(list) ==
    /\ \E S : list \in Seq(S)
    /\ list # <<>>
    /\ \A i \in DOMAIN list : DOMAIN list[i] = Fields

Linked(list, cur) ==
    /\ \E i \in DOMAIN list : list[i].number = cur
    /\ list[Len(list)].number = Const
    /\ \A i, j \in DOMAIN list : list[i].number = list[j].number => i = j

IInv == Shaped(plots) /\ Linked(plots, plot_cur)

LEMMA LinkedIsLinked == IInv <=> Shaped(plots) /\ PlotsLinked
  BY DEF IInv, Linked, PlotsLinked, Range, Last

LEMMA InitLinked == Init => IInv
<1> SUFFICES ASSUME Init PROVE IInv
  OBVIOUS
<1>1. plots = <<ConstPlot>> /\ plot_cur = Const
  BY DEF Init
<1>2. ConstPlot.number = Const /\ DOMAIN ConstPlot = Fields
  BY DEF ConstPlot, Fields
<1>3. plots \in Seq({ConstPlot}) /\ Len(plots) = 1 /\ plots[1] = ConstPlot /\ plots # <<>>
  BY <1>1
<1>4. DOMAIN plots = {1}
  BY <1>3
<1>5. Shaped(plots)
  BY <1>2, <1>3, <1>4 DEF Shaped
<1>6. Linked(plots, plot_cur)
  BY <1>1, <1>2, <1>3, <1>4 DEF Linked
<1> QED
  BY <1>5, <1>6 DEF IInv

(* A list whose entries keep their numbers and places.                     *)
LEMMA SameNumbers ==
  ASSUME IInv, NEW list, Shaped(list), Len(list) = Len(plots),
         \A i \in DOMAIN plots : list[i].number = plots[i].number,
         NEW cur, \E i \in DOMAIN plots : plots[i].number = cur
  PROVE  Linked(list, cur)
<1>1. PICK S : plots \in Seq(S)
  BY DEF IInv, Shaped
<1>2. PICK T : list \in Seq(T)
  BY DEF Shaped
<1>3. DOMAIN list = DOMAIN plots /\ Len(plots) \in DOMAIN plots
  BY <1>1, <1>2 DEF IInv, Shaped
<1> QED
  BY <1>3 DEF IInv, Linked

(* One entry of the list is changed but for its number.                    *)
LEMMA ChangeOne ==
  ASSUME IInv, NEW k \in DOMAIN plots, NEW p, DOMAIN p = Fields,
         p.number = plots[k].number,
         NEW cur, \E i \in DOMAIN plots : plots[i].number = cur
  PROVE  Shaped([plots EXCEPT ![k] = p]) /\ Linked([plots EXCEPT ![k] = p], cur)
<1> DEFINE list == [plots EXCEPT ![k] = p]
<1>1. PICK S : plots \in Seq(S)
  BY DEF IInv, Shaped
<1>2. list \in Seq(S \cup {p}) /\ Len(list) = Len(plots) /\ list # <<>>
  BY <1>1 DEF IInv, Shaped
<1>3. \A i \in DOMAIN plots : list[i] = IF i = k THEN p ELSE plots[i]
  BY <1>1
<1>4. DOMAIN list = DOMAIN plots
  OBVIOUS
<1> HIDE DEF list
<1>5. Shaped(list)
  BY <1>2, <1>3, <1>4 DEF IInv, Shaped
<1>6. Linked(list, cur)
  BY <1>2, <1>3, <1>5, SameNumbers
<1> QED
  BY <1>5, <1>6 DEF list

(* A new plot in front.                                                    *)
LEMMA AddFront ==
  ASSUME IInv, NEW p, DOMAIN p = Fields, p.number \in Unused
  PROVE  Shaped(<<p>> \o plots) /\ Linked(<<p>> \o plots, p.number)
<1> DEFINE list == <<p>> \o plots
<1>1. PICK S : plots \in Seq(S)
  BY DEF IInv, Shaped
<1>2. /\ list \in Seq(S \cup {p}) /\ Len(list) = Len(plots) + 1
      /\ Len(plots) \in Nat \ {0} /\ DOMAIN plots = 1..Len(plots) /\ DOMAIN list = 1..(Len(plots) + 1)
      /\ \A i \in DOMAIN list : list[i] = IF i = 1 THEN p ELSE plots[i - 1]
  BY <1>1 DEF IInv, Shaped
<1> HIDE DEF list
<1>3. \A i \in DOMAIN plots : plots[i].number # p.number
  BY DEF Unused, Range
<1>4. Shaped(list)
  BY <1>2 DEF IInv, Shaped
<1>5. list[Len(list)].number = Const
  BY <1>2 DEF IInv, Linked
<1>6. list[1].number = p.number /\ 1 \in DOMAIN list
  BY <1>2
<1>7. \A i, j \in DOMAIN list : list[i].number = list[j].number => i = j
  <2> SUFFICES ASSUME NEW i \in DOMAIN list, NEW j \in DOMAIN list, list[i].number = list[j].number
               PROVE  i = j
    OBVIOUS
  <2>1. CASE i = 1 /\ j # 1
    <3>1. j - 1 \in DOMAIN plots
      BY <1>2, <2>1
    <3> QED
      BY <1>2, <1>3, <2>1, <3>1
  <2>2. CASE i # 1 /\ j = 1
    <3>1. i - 1 \in DOMAIN plots
      BY <1>2, <2>2
    <3> QED
      BY <1>2, <1>3, <2>2, <3>1
  <2>3. CASE i # 1 /\ j # 1
    <3>1. i - 1 \in DOMAIN plots /\ j - 1 \in DOMAIN plots
      BY <1>2, <2>3
    <3>2. i - 1 = j - 1
      BY <1>2, <2>3, <3>1 DEF IInv, Linked
    <3> QED
      BY <1>2, <3>2
  <2> QED
    BY <2>1, <2>2, <2>3
<1>8. Linked(list, p.number)
  BY <1>5, <1>6, <1>7 DEF Linked
<1> QED
  BY <1>4, <1>8 DEF list

(* Every number in the list has its place.                                 *)
LEMMA IndexOfFound ==
  ASSUME NEW n, \E i \in DOMAIN plots : plots[i].number = n
  PROVE  IndexOf(n) \in DOMAIN plots /\ plots[IndexOf(n)].number = n
  BY DEF IndexOf

(* What is left of the list without its entry at k.                        *)
LEMMA Removal ==
  ASSUME NEW S, plots \in Seq(S), NEW k \in DOMAIN plots
  PROVE  /\ RemoveAt(plots, k) \in Seq(S) /\ Len(RemoveAt(plots, k)) = Len(plots) - 1
         /\ DOMAIN RemoveAt(plots, k) = 1..(Len(plots) - 1)
         /\ \A i \in 1..(Len(plots) - 1) :
               RemoveAt(plots, k)[i] = plots[IF i < k THEN i ELSE i + 1]
         /\ \A x \in DOMAIN plots :
               x # k => \E i \in DOMAIN RemoveAt(plots, k) : RemoveAt(plots, k)[i] = plots[x]
<1> DEFINE list == RemoveAt(plots, k)
           N == Len(plots)
<1>1. N \in Nat /\ DOMAIN plots = 1..N /\ k \in 1..N
  OBVIOUS
<1>2. list \in Seq(S) /\ Len(list) = N - 1 /\ DOMAIN list = 1..(N - 1)
  <2>1. list \in Seq(S) /\ Len(list) = N - 1
    BY RemoveAtProperties
  <2> HIDE DEF list
  <2> QED
    BY <2>1
<1>3. \A i \in 1..(N - 1) : list[i] = plots[IF i < k THEN i ELSE i + 1]
  <2>1. k \in 1..Len(plots)
    OBVIOUS
  <2> QED
    BY <2>1, RemoveAtProperties
<1>4. ASSUME NEW x \in 1..N, x # k
      PROVE  \E i \in 1..(N - 1) : list[i] = plots[x]
  <2>1. CASE x < k
    BY <1>1, <1>3, <1>4, <2>1
  <2>2. CASE x > k
    <3>1. x - 1 \in 1..(N - 1) /\ ~(x - 1 < k) /\ (x - 1) + 1 = x
      BY <1>1, <2>2
    <3> QED
      BY <1>3, <3>1
  <2> QED
    BY <1>1, <1>4, <2>1, <2>2
<1> QED
  BY <1>1, <1>2, <1>3, <1>4 DEF list

(* A plot other than the constant one is taken out; when it was the        *)
(* current one its neighbour is.                                           *)
LEMMA TakeOut ==
  ASSUME IInv, NEW k \in DOMAIN plots, plots[k].number # Const,
         NEW cur, cur = IF plot_cur = plots[k].number THEN Neighbour(k) ELSE plot_cur
  PROVE  Shaped(RemoveAt(plots, k)) /\ Linked(RemoveAt(plots, k), cur)
<1> DEFINE list == RemoveAt(plots, k)
           N == Len(plots)
<1>1. PICK S : plots \in Seq(S)
  BY DEF IInv, Shaped
<1>2. N \in Nat \ {0} /\ DOMAIN plots = 1..N /\ k \in 1..N /\ k # N
  BY <1>1 DEF IInv, Shaped, Linked
<1>3. /\ list \in Seq(S) /\ Len(list) = N - 1 /\ DOMAIN list = 1..(N - 1)
      /\ \A i \in 1..(N - 1) : list[i] = plots[IF i < k THEN i ELSE i + 1]
      /\ \A x \in DOMAIN plots : x # k => \E i \in DOMAIN list : list[i] = plots[x]
  BY <1>1, Removal
<1> HIDE DEF list
<1>4. Shaped(list)
  <2>1. list # <<>> /\ list \in Seq(S)
    BY <1>2, <1>3
  <2>2. ASSUME NEW i \in DOMAIN list PROVE DOMAIN list[i] = Fields
    <3>1. \E x \in DOMAIN plots : list[i] = plots[x]
      BY <1>2, <1>3
    <3> QED
      BY <3>1 DEF IInv, Shaped
  <2> QED
    BY <2>1, <2>2 DEF Shaped
<1>5. list[Len(list)].number = Const
  BY <1>2, <1>3 DEF IInv, Linked
<1>6. \A i, j \in DOMAIN list : list[i].number = list[j].number => i = j
  <2> SUFFICES ASSUME NEW i \in 1..(N - 1), NEW j \in 1..(N - 1), list[i].number = list[j].number
               PROVE  i = j
    BY <1>3
  <2> DEFINE At(x) == IF x < k THEN x ELSE x + 1
  <2>1. At(i) \in DOMAIN plots /\ At(j) \in DOMAIN plots /\ list[i] = plots[At(i)] /\ list[j] = plots[At(j)]
    BY <1>2, <1>3
  <2>2. At(i) = At(j)
    BY <2>1 DEF IInv, Linked
  <2> QED
    BY <1>2, <2>2
<1>7. \E x \in DOMAIN plots : x # k /\ plots[x].number = cur
  <2>1. CASE plot_cur = plots[k].number
    <3>1. cur = plots[IF k = 1 THEN 2 ELSE k - 1].number
      BY <2>1 DEF Neighbour
    <3> QED
      BY <1>2, <3>1
  <2>2. CASE plot_cur # plots[k].number
    BY <2>2 DEF IInv, Linked
  <2> QED
    BY <2>1, <2>2
<1>8. Linked(list, cur)
  BY <1>3, <1>5, <1>6, <1>7 DEF Linked
<1> QED
  BY <1>4, <1>8 DEF list

(* The current plot and the constant one have their place.                 *)
LEMMA Placed ==
  ASSUME IInv
  PROVE  /\ IndexOf(plot_cur) \in DOMAIN plots /\ plots[IndexOf(plot_cur)].number = plot_cur
         /\ IndexOf(Const) \in DOMAIN plots
<1>1. PICK S : plots \in Seq(S)
  BY DEF IInv, Shaped
<1>2. Len(plots) \in DOMAIN plots
  BY <1>1 DEF IInv, Shaped
<1> QED
  BY <1>2, IndexOfFound DEF IInv, Linked

LEMMA BeginPlotStep ==
  ASSUME IInv, NEW n \in Numbers, NEW s \in Saves, NEW none \in BOOLEAN, BeginPlot(n, s, none)
  PROVE  IInv'
<1> DEFINE p == [number |-> n, scale |-> s[1], vectors |-> VectorsFor(s)]
<1>1. plots' = <<p>> \o plots /\ plot_cur' = n /\ n \in Unused
  BY DEF BeginPlot
<1>2. p.number = n /\ DOMAIN p = Fields
  BY DEF Fields
<1> HIDE DEF p
<1> QED
  BY <1>1, <1>2, AddFront DEF IInv

LEMMA DataStep ==
  ASSUME IInv, NEW found, Data(found)
  PROVE  IInv'
<1> DEFINE list == AddPoint(found)
<1>1. plots' = list /\ plot_cur' = plot_cur
  BY DEF Data
<1>2. PICK S : plots \in Seq(S)
  BY DEF IInv, Shaped
<1>3. /\ DOMAIN list = DOMAIN plots /\ DOMAIN plots = 1..Len(plots) /\ Len(plots) \in Nat \ {0}
  BY <1>2 DEF IInv, Shaped, AddPoint
<1>4. ASSUME NEW i \in DOMAIN plots
      PROVE  DOMAIN list[i] = Fields /\ list[i].number = plots[i].number
  <2>1. list[i] = IF plots[i].number # run.plot THEN plots[i]
                  ELSE [plots[i] EXCEPT !.vectors = [j \in DOMAIN @ |-> Written(@[j], found)]]
    BY DEF AddPoint
  <2>2. DOMAIN plots[i] = Fields
    BY DEF IInv, Shaped
  <2> QED
    BY <2>1, <2>2 DEF Fields
<1>5. list = [i \in 1..Len(plots) |-> list[i]]
  BY <1>3 DEF AddPoint
<1> HIDE DEF list
<1>6. list \in Seq({list[i] : i \in 1..Len(plots)}) /\ Len(list) = Len(plots) /\ list # <<>>
  <2>1. list \in [1..Len(plots) -> {list[i] : i \in 1..Len(plots)}]
    BY <1>5
  <2> QED
    BY <1>3, <2>1
<1>7. Shaped(list)
  BY <1>3, <1>4, <1>6 DEF Shaped
<1>8. Linked(list, plot_cur)
  BY <1>4, <1>6, <1>7, SameNumbers DEF IInv, Linked
<1> QED
  BY <1>1, <1>7, <1>8 DEF IInv

LEMMA LetStep ==
  ASSUME IInv, NEW name, NEW data, Let(name, data)
  PROVE  IInv'
<1> DEFINE k == IndexOf(Target(name))
           p == Assigned(plots[k], name, data)
<1>1. k \in DOMAIN plots
  BY Placed DEF Target
<1>2. plots' = [plots EXCEPT ![k] = p] /\ plot_cur' = plot_cur
  BY <1>1 DEF Let
<1>3. DOMAIN p = Fields /\ p.number = plots[k].number
  <2>1. DOMAIN plots[k] = Fields
    BY <1>1 DEF IInv, Shaped
  <2> QED
    BY <2>1 DEF Assigned, Fields
<1> HIDE DEF k, p
<1> QED
  BY <1>1, <1>2, <1>3, Placed, ChangeOne DEF IInv

LEMMA SweepStep ==
  ASSUME IInv, NEW left, Sweep(left)
  PROVE  IInv'
<1> DEFINE k == IndexOf(plot_cur)
           scale == IF \E v \in Range(left) : v.name = plots[k].scale THEN plots[k].scale
                    ELSE IF left = <<>> THEN NoScale ELSE left[1].name
           p == [plots[k] EXCEPT !.vectors = left, !.scale = scale]
<1>1. k \in DOMAIN plots /\ DOMAIN plots[k] = Fields
  BY Placed DEF IInv, Shaped
<1>2. plots' = [plots EXCEPT ![k] = p] /\ plot_cur' = plot_cur
  BY <1>1 DEF Sweep
<1>3. DOMAIN p = Fields /\ p.number = plots[k].number
  BY <1>1 DEF Fields
<1> HIDE DEF k, p
<1> QED
  BY <1>1, <1>2, <1>3, Placed, ChangeOne DEF IInv

LEMMA SetPlotStep ==
  ASSUME IInv, NEW n, SetPlot(n)
  PROVE  IInv'
<1>1. plots' = plots /\ plot_cur' = n /\ \E i \in DOMAIN plots : plots[i].number = n
  BY DEF SetPlot, Range
<1> QED
  BY <1>1, SameNumbers DEF IInv

LEMMA SetPlotNewStep ==
  ASSUME IInv, NEW n, SetPlotNew(n)
  PROVE  IInv'
<1> DEFINE p == [number |-> n, scale |-> NoScale, vectors |-> <<>>]
<1>1. plots' = <<p>> \o plots /\ plot_cur' = n /\ n \in Unused
  BY DEF SetPlotNew
<1>2. p.number = n /\ DOMAIN p = Fields
  BY DEF Fields
<1> HIDE DEF p
<1> QED
  BY <1>1, <1>2, AddFront DEF IInv

LEMMA DestroyStep ==
  ASSUME IInv, NEW n, Destroy(n)
  PROVE  IInv'
<1> DEFINE k == IndexOf(n)
<1>1. \E i \in DOMAIN plots : plots[i].number = n
  BY DEF Destroy, Range
<1>2. k \in DOMAIN plots /\ plots[k].number = n
  BY <1>1, IndexOfFound
<1>3. /\ plots' = RemoveAt(plots, k) /\ n # Const
      /\ plot_cur' = IF plot_cur = n THEN Neighbour(k) ELSE plot_cur
  BY DEF Destroy
<1> HIDE DEF k
<1> QED
  BY <1>2, <1>3, TakeOut DEF IInv

LEMMA Step == IInv /\ [Next]_vars => IInv'
<1> SUFFICES ASSUME IInv, [Next]_vars PROVE IInv'
  OBVIOUS
<1>1. ASSUME NEW n \in Numbers, NEW s \in Saves, NEW none \in BOOLEAN, BeginPlot(n, s, none)
      PROVE  IInv'
  BY <1>1, BeginPlotStep
<1>2. ASSUME NEW found, Data(found) PROVE IInv'
  BY <1>2, DataStep
<1>3. CASE Pause \/ Resume \/ End
  BY <1>3 DEF Pause, Resume, End, IInv
<1>4. ASSUME NEW name, NEW data, Let(name, data) PROVE IInv'
  BY <1>4, LetStep
<1>5. ASSUME NEW name, Unlet(name) PROVE IInv'
  BY <1>5, SweepStep DEF Unlet
<1>6. CASE RemZeroVec
  BY <1>6, SweepStep DEF RemZeroVec
<1>7. ASSUME NEW n, SetPlot(n) \/ SetPlotNew(n) \/ Destroy(n) PROVE IInv'
  BY <1>7, SetPlotStep, SetPlotNewStep, DestroyStep
<1>8. CASE UNCHANGED vars
  BY <1>8 DEF vars, IInv
<1> QED
  BY <1>1, <1>2, <1>3, <1>4, <1>5, <1>6, <1>7, <1>8 DEF Next, Simulator, Caller

(* Whatever runs and commands do, the current plot is one of the list, no  *)
(* two plots have the same number, and the constant plot is the last.      *)
THEOREM PlotsCorrect == Spec => []PlotsLinked
<1>1. IInv => PlotsLinked
  BY LinkedIsLinked
<1> QED
  BY InitLinked, Step, <1>1, PTL DEF Spec

-----------------------------------------------------------------------------
(* What a run keeps and tells.                                             *)
RunFields    == {"plot", "state", "saves", "gone", "points"}
VectorFields == {"name", "data", "slot"}

(* Values of one quantity, in the order of the points up to this one.      *)
Series(q, data, points) ==
    /\ \E S : data \in Seq(S)
    /\ \A i \in DOMAIN data : data[i][1] = q /\ data[i][2] \in 1..points
    /\ \A i, j \in DOMAIN data : i < j => data[i][2] < data[j][2]

(* The vectors of a run, the last that it saves in front.                  *)
HoldsVector(v, slot) ==
    /\ DOMAIN v = VectorFields
    /\ v.slot = slot /\ v.name = run.saves[slot]
    /\ Series(v.name, v.data, run.points)
    /\ v.name \notin missed => v.data = Row(v.name, run.points)
Holds(vectors) ==
    /\ \E S : vectors \in Seq(S)
    /\ Len(vectors) = Len(run.saves)
    /\ \A j \in 1..Len(run.saves) : HoldsVector(vectors[j], Len(run.saves) + 1 - j)

RunShaped ==
    /\ DOMAIN run = RunFields
    /\ run.state \in {"running", "paused"} /\ run.saves \in Saves /\ run.points \in Nat

(* The plot of a run that nobody has touched.                              *)
Untouched ==
    /\ run.gone = {}
    /\ \E i \in DOMAIN plots : plots[i].number = run.plot /\ Holds(plots[i].vectors)
    /\ run.state = "running" =>
          /\ \E S : names \in Seq(S)
          /\ Len(names) = Len(run.saves)
          /\ \A j \in 1..Len(run.saves) : names[j] = run.saves[Len(run.saves) + 1 - j]

KInv ==
    /\ IInv
    /\ {savenone, wild, touched} \subseteq BOOLEAN
    /\ \A i \in DOMAIN plots : plots[i].number \in Numbers
    /\ run # NoRun => RunShaped
    /\ run # NoRun /\ ~touched => Untouched
    /\ OnlyTouchingBreaks

LEMMA SavesFacts ==
  ASSUME NEW s \in Saves
  PROVE  s \in Seq(Quantities) /\ Len(s) \in Nat \ {0} /\ DOMAIN s = 1..Len(s)
<1>1. s \in Seq(Quantities) /\ s # <<>>
  BY SavesAssumption
<1> QED
  BY <1>1

(* The values up to a point, and one more.                                 *)
LEMMA RowNext ==
  ASSUME savenone \in BOOLEAN, NEW q, NEW p \in Nat
  PROVE  Row(q, p + 1) = IF savenone THEN <<<<q, p + 1>>>> ELSE Append(Row(q, p), <<q, p + 1>>)
<1> DEFINE all(n) == [x \in 1..n |-> <<q, x>>]
<1>1. CASE savenone
  <2>1. all(p + 1) \in Seq({<<q, x>> : x \in 1..(p + 1)}) /\ Len(all(p + 1)) = p + 1
    OBVIOUS
  <2>2. Last(all(p + 1)) = <<q, p + 1>>
    BY <2>1 DEF Last
  <2>3. p + 1 > 0
    OBVIOUS
  <2>4. Row(q, p + 1) = <<Last(all(p + 1))>>
    BY <1>1, <2>3 DEF Row
  <2> QED
    BY <1>1, <2>2, <2>4
<1>2. CASE ~savenone
  <2>1. Row(q, p) = all(p) /\ Row(q, p + 1) = all(p + 1)
    BY <1>2 DEF Row
  <2>2. /\ all(p) \in Seq({<<q, x>> : x \in 1..(p + 1)}) /\ Len(all(p)) = p
        /\ all(p + 1) \in Seq({<<q, x>> : x \in 1..(p + 1)}) /\ Len(all(p + 1)) = p + 1
    OBVIOUS
  <2>3. all(p + 1) = Append(all(p), <<q, p + 1>>)
    <3>1. /\ Append(all(p), <<q, p + 1>>) \in Seq({<<q, x>> : x \in 1..(p + 1)})
          /\ Len(Append(all(p), <<q, p + 1>>)) = p + 1
      BY <2>2
    <3>2. \A i \in 1..(p + 1) : Append(all(p), <<q, p + 1>>)[i] = all(p + 1)[i]
      BY <2>2
    <3> HIDE DEF all
    <3> QED
      BY <2>2, <3>1, <3>2
  <2> QED
    BY <1>2, <2>1, <2>3
<1> QED
  BY <1>1, <1>2

LEMMA RowLength ==
  ASSUME savenone \in BOOLEAN, NEW q, NEW p \in Nat \ {0}
  PROVE  LET n == IF savenone THEN 1 ELSE p IN
         /\ Len(Row(q, p)) = n /\ DOMAIN Row(q, p) = 1..n /\ Row(q, p)[n] = <<q, p>>
<1> DEFINE all == [x \in 1..p |-> <<q, x>>]
<1>1. all \in Seq({<<q, x>> : x \in 1..p}) /\ Len(all) = p
  OBVIOUS
<1>2. Last(all) = <<q, p>>
  BY <1>1 DEF Last
<1> HIDE DEF all
<1>3. Row(q, p) = IF savenone THEN <<<<q, p>>>> ELSE all
  <2>1. p > 0
    OBVIOUS
  <2>2. Row(q, p) = IF savenone THEN <<Last(all)>> ELSE all
    BY <2>1 DEF Row, all
  <2> QED
    BY <1>2, <2>2
<1>4. DOMAIN all = 1..p /\ all[p] = <<q, p>>
  BY DEF all
<1>5. CASE savenone
  BY <1>3, <1>5
<1>6. CASE ~savenone
  BY <1>1, <1>3, <1>4, <1>6
<1> QED
  BY <1>5, <1>6

(* A series of earlier points, and the next point or none.                 *)
LEMMA SeriesNext ==
  ASSUME NEW q, NEW data, NEW p \in Nat, Series(q, data, p)
  PROVE  /\ Series(q, data, p + 1)
         /\ Series(q, <<<<q, p + 1>>>>, p + 1)
         /\ Series(q, Append(data, <<q, p + 1>>), p + 1)
<1> DEFINE e == <<q, p + 1>>
           d == Append(data, e)
<1>1. PICK S : data \in Seq(S)
  BY DEF Series
<1>2. Series(q, data, p + 1)
  BY DEF Series
<1>3. Series(q, <<e>>, p + 1)
  <2>1. <<e>> \in Seq({e}) /\ DOMAIN <<e>> = {1} /\ <<e>>[1] = e
    OBVIOUS
  <2>2. e[1] = q /\ e[2] \in 1..(p + 1)
    OBVIOUS
  <2> DEFINE t == <<e>>
  <2>3. t \in Seq({e}) /\ DOMAIN t = {1} /\ t[1] = e
    BY <2>1
  <2> HIDE DEF e, t
  <2>4. Series(q, t, p + 1)
    BY <2>2, <2>3 DEF Series
  <2> QED
    BY <2>4 DEF t
<1>4. Series(q, d, p + 1)
  <2> DEFINE n == Len(data)
  <2>1. /\ d \in Seq(S \cup {e}) /\ n \in Nat /\ DOMAIN d = 1..(n + 1) /\ DOMAIN data = 1..n
        /\ d[n + 1] = e /\ \A i \in 1..n : d[i] = data[i]
    BY <1>1
  <2>2. e[1] = q /\ e[2] = p + 1
    OBVIOUS
  <2> HIDE DEF d, n, e
  <2>3. \A i \in 1..(n + 1) : d[i][1] = q /\ d[i][2] \in 1..(p + 1)
    BY <2>1, <2>2 DEF Series
  <2>4. ASSUME NEW i \in 1..(n + 1), NEW j \in 1..(n + 1), i < j
        PROVE  d[i][2] < d[j][2]
    <3>1. i \in 1..n /\ d[i] = data[i] /\ data[i][2] \in 1..p
      BY <2>1, <2>4 DEF Series
    <3>2. CASE j = n + 1
      BY <2>1, <2>2, <3>1, <3>2
    <3>3. CASE j \in 1..n
      BY <2>1, <2>4, <3>1, <3>3 DEF Series
    <3> QED
      BY <2>1, <3>2, <3>3
  <2> QED
    BY <2>1, <2>3, <2>4 DEF Series
<1> QED
  BY <1>2, <1>3, <1>4

(* A vector of the run at the next point.                                  *)
HoldsNext(w, slot, found) ==
    /\ DOMAIN w = VectorFields
    /\ w.slot = slot /\ w.name = run.saves[slot]
    /\ Series(w.name, w.data, run.points + 1)
    /\ slot \in found /\ w.name \notin missed => w.data = Row(w.name, run.points + 1)

LEMMA WrittenKeeps ==
  ASSUME RunShaped, savenone \in BOOLEAN, NEW found, NEW slot \in 1..Len(run.saves),
         NEW v, HoldsVector(v, slot)
  PROVE  HoldsNext(Written(v, found), slot, found)
<1> DEFINE w == Written(v, found)
           value == <<run.saves[slot], run.points + 1>>
<1>1. run.points \in Nat /\ v.slot = slot /\ v.name = run.saves[slot] /\ DOMAIN v = VectorFields
  BY DEF RunShaped, HoldsVector
<1>2. Series(v.name, v.data, run.points)
  BY DEF HoldsVector
<1>3. CASE slot \notin found
  <2>1. w = v
    BY <1>1, <1>3 DEF Written
  <2> HIDE DEF w
  <2>2. Series(v.name, v.data, run.points + 1)
    BY <1>1, <1>2, SeriesNext
  <2> QED
    BY <1>1, <1>3, <2>1, <2>2 DEF w, HoldsNext
<1>4. CASE slot \in found
  <2> DEFINE data == IF savenone THEN <<value>> ELSE Append(v.data, value)
  <2>1. w = [v EXCEPT !.data = data]
    BY <1>1, <1>4 DEF Written
  <2> HIDE DEF w
  <2>2. DOMAIN w = VectorFields /\ w.slot = slot /\ w.name = v.name /\ w.data = data
    BY <1>1, <2>1 DEF VectorFields
  <2>3. Series(v.name, data, run.points + 1)
    BY <1>1, <1>2, SeriesNext
  <2>4. v.name \notin missed => data = Row(v.name, run.points + 1)
    BY <1>1, RowNext DEF HoldsVector
  <2> HIDE DEF data
  <2> QED
    BY <1>1, <2>2, <2>3, <2>4 DEF w, HoldsNext
<1> QED
  BY <1>3, <1>4

(* The places and the vectors of a run's plot.                             *)
LEMMA Whole ==
  ASSUME RunShaped, NEW vectors, Holds(vectors)
  PROVE  LET L == Len(run.saves) IN
         /\ L \in Nat \ {0} /\ DOMAIN run.saves = 1..L /\ Slots = 1..L
         /\ DOMAIN vectors = 1..L
         /\ \A j \in 1..L : L + 1 - j \in 1..L /\ HoldsVector(vectors[j], L + 1 - j)
<1>1. Len(run.saves) \in Nat \ {0} /\ DOMAIN run.saves = 1..Len(run.saves)
  BY SavesFacts DEF RunShaped
<1>2. PICK S : vectors \in Seq(S)
  BY DEF Holds
<1>3. DOMAIN vectors = 1..Len(run.saves)
  BY <1>1, <1>2 DEF Holds
<1> QED
  BY <1>1, <1>3 DEF Holds, Slots

LEMMA RunKept == KInv => RunKeepsPoints
<1> SUFFICES ASSUME KInv, run # NoRun, ~touched, NEW k \in Slots
             PROVE  \E v \in Range(PlotOf(run.plot).vectors) :
                      /\ v.slot = k /\ v.name = run.saves[k]
                      /\ IF v.name \in missed THEN InOrder(v.name, v.data)
                         ELSE v.data = Row(v.name, run.points)
  BY DEF RunKeepsPoints
<1> DEFINE L == Len(run.saves)
           i == IndexOf(run.plot)
           vectors == plots[i].vectors
           v == vectors[L + 1 - k]
<1>1. RunShaped /\ Untouched
  BY DEF KInv
<1>2. i \in DOMAIN plots /\ plots[i].number = run.plot
  BY <1>1, IndexOfFound DEF Untouched
<1>3. Holds(vectors)
  BY <1>1, <1>2 DEF Untouched, KInv, IInv, Linked
<1> HIDE DEF i
<1>4. L \in Nat /\ k \in 1..L /\ DOMAIN vectors = 1..L
      /\ \A j \in 1..L : L + 1 - j \in 1..L /\ HoldsVector(vectors[j], L + 1 - j)
  BY <1>1, <1>3, Whole
<1>5. L + 1 - k \in 1..L /\ L + 1 - (L + 1 - k) = k
  BY <1>4
<1>6. HoldsVector(v, k) /\ v \in Range(vectors)
  BY <1>4, <1>5 DEF Range
<1>7. v.slot = k /\ v.name = run.saves[k] /\ InOrder(v.name, v.data)
  BY <1>6 DEF HoldsVector, Series, InOrder
<1>8. v.name \notin missed => v.data = Row(v.name, run.points)
  BY <1>6 DEF HoldsVector
<1> QED
  BY <1>6, <1>7, <1>8 DEF PlotOf, i

LEMMA SequenceOf ==
  ASSUME NEW n \in Nat, NEW S, NEW f \in [1..n -> S]
  PROVE  f \in Seq(S) /\ Len(f) = n
  OBVIOUS

(* What a point adds to the plot of the run.                               *)
Added(new, found) ==
    /\ \E S : new \in Seq(S)
    /\ Len(new) = Len(run.saves)
    /\ \A j \in 1..Len(run.saves) : HoldsNext(new[j], Len(run.saves) + 1 - j, found)

LEMMA PointAdded ==
  ASSUME KInv, run # NoRun, ~touched, NEW found
  PROVE  /\ IndexOf(run.plot) \in DOMAIN plots
         /\ plots[IndexOf(run.plot)].number = run.plot
         /\ AddPoint(found)[IndexOf(run.plot)].number = run.plot
         /\ Added(AddPoint(found)[IndexOf(run.plot)].vectors, found)
<1> DEFINE L == Len(run.saves)
           i == IndexOf(run.plot)
           old == plots[i].vectors
           new == AddPoint(found)[i].vectors
<1>1. RunShaped /\ Untouched /\ savenone \in BOOLEAN
  BY DEF KInv
<1>2. i \in DOMAIN plots /\ plots[i].number = run.plot
  BY <1>1, IndexOfFound DEF Untouched
<1>3. Holds(old)
  BY <1>1, <1>2 DEF Untouched, KInv, IInv, Linked
<1>4. DOMAIN plots[i] = Fields
  BY <1>2 DEF KInv, IInv, Shaped
<1>5. AddPoint(found)[i] = [plots[i] EXCEPT !.vectors = [j \in DOMAIN @ |-> Written(@[j], found)]]
  BY <1>2 DEF AddPoint
<1>6. /\ AddPoint(found)[i].number = run.plot
      /\ new = [j \in DOMAIN old |-> Written(old[j], found)]
  BY <1>2, <1>4, <1>5 DEF Fields
<1>7. L \in Nat \ {0} /\ DOMAIN old = 1..L
      /\ \A j \in 1..L : L + 1 - j \in 1..L /\ HoldsVector(old[j], L + 1 - j)
  BY <1>1, <1>3, Whole
<1> HIDE DEF new, old
<1>8. new \in [1..L -> {new[j] : j \in 1..L}] /\ \A j \in 1..L : new[j] = Written(old[j], found)
  BY <1>6, <1>7
<1>9. new \in Seq({new[j] : j \in 1..L}) /\ Len(new) = L
  BY <1>7, <1>8, SequenceOf
<1>10. ASSUME NEW j \in 1..L
       PROVE  HoldsNext(new[j], L + 1 - j, found)
  <2>1. L + 1 - j \in 1..L /\ HoldsVector(old[j], L + 1 - j) /\ new[j] = Written(old[j], found)
    BY <1>7, <1>8
  <2> QED
    BY <1>1, <2>1, WrittenKeeps
<1>11. Added(new, found)
  BY <1>9, <1>10 DEF Added
<1> QED
  BY <1>2, <1>6, <1>11 DEF i, new

LEMMA DataUntouched ==
  ASSUME KInv, ~touched, NEW found, Data(found)
  PROVE  Untouched'
<1> DEFINE L == Len(run.saves)
           i == IndexOf(run.plot)
           new == AddPoint(found)[i].vectors
<1>1. /\ run # NoRun /\ plots' = AddPoint(found) /\ run' = [run EXCEPT !.points = @ + 1]
      /\ missed' = missed \cup {run.saves[k] : k \in Slots \ found}
      /\ savenone' = savenone /\ names' = names
  BY DEF Data, Busy
<1>2. RunShaped /\ Untouched
  BY <1>1 DEF KInv
<1>3. /\ run'.plot = run.plot /\ run'.state = run.state /\ run'.saves = run.saves
      /\ run'.gone = run.gone /\ run'.points = run.points + 1
  BY <1>1, <1>2 DEF RunShaped, RunFields
<1>4. i \in DOMAIN plots' /\ plots'[i].number = run.plot /\ plots'[i].vectors = new
  BY <1>1, PointAdded DEF AddPoint
<1>5. Added(new, found)
  BY <1>1, PointAdded
<1>6. L \in Nat \ {0} /\ Slots = 1..L
  BY <1>2, SavesFacts DEF RunShaped, Slots
<1> HIDE DEF i, new
<1>7. PICK p : p = run.points + 1
  OBVIOUS
<1>8. ASSUME NEW q PROVE Row(q, p)' = Row(q, p)
  BY <1>1 DEF Row
<1>9. ASSUME NEW j \in 1..L, NEW w, w = new[j]
      PROVE  HoldsVector(w, L + 1 - j)'
  <2>1. HoldsNext(w, L + 1 - j, found) /\ L + 1 - j \in 1..L
    BY <1>5, <1>6, <1>9 DEF Added
  <2>2. w.name \notin missed' => L + 1 - j \in found /\ w.name \notin missed
    BY <1>1, <1>6, <2>1 DEF HoldsNext
  <2>3. /\ Series(w.name, w.data, p)
        /\ w.name \notin missed' => w.data = Row(w.name, p)
    BY <1>7, <2>1, <2>2 DEF HoldsNext
  <2>4. DOMAIN w = VectorFields /\ w.slot = L + 1 - j /\ w.name = run'.saves[L + 1 - j]
    BY <1>3, <2>1 DEF HoldsNext
  <2> QED
    BY <1>3, <1>7, <1>8, <2>3, <2>4 DEF HoldsVector
<1>10. ASSUME NEW ns, ns = new PROVE Holds(ns)'
  <2>1. (\E S : ns \in Seq(S)) /\ Len(ns) = L
    BY <1>5, <1>10 DEF Added
  <2>2. \A j \in 1..L : HoldsVector(ns[j], L + 1 - j)'
    BY <1>9, <1>10
  <2> QED
    BY <1>3, <2>1, <2>2 DEF Holds
<1>11. PICK k : k = i
  OBVIOUS
<1>12. Holds(plots[k].vectors)'
  BY <1>4, <1>10, <1>11
<1>13. k \in DOMAIN plots' /\ plots'[k].number = run'.plot
  BY <1>3, <1>4, <1>11
<1> QED
  BY <1>1, <1>2, <1>3, <1>12, <1>13 DEF Untouched

(* A point is told when nothing was touched or missed.                     *)
LEMMA DataTold ==
  ASSUME KInv, ~touched, NEW found, Data(found), missed' = {}, plot_cur = run.plot
  PROVE  /\ wild' = wild
         /\ told' = {<<q, <<q, run'.points>>>> : q \in Range(run.saves)}
<1> DEFINE L == Len(run.saves)
           new == AddPoint(found)[IndexOf(run.plot)].vectors
           last == IF savenone THEN 1 ELSE run.points + 1
<1>1. /\ run # NoRun /\ run' = [run EXCEPT !.points = @ + 1]
      /\ missed' = missed \cup {run.saves[k] : k \in Slots \ found}
      /\ run.state = "running"
  BY DEF Data, Busy
<1>2. RunShaped /\ Untouched /\ savenone \in BOOLEAN
  BY <1>1 DEF KInv
<1>3. run'.points = run.points + 1 /\ run.points + 1 \in Nat \ {0}
  BY <1>1, <1>2 DEF RunShaped, RunFields
<1>4. Slots \subseteq found /\ missed = {}
  BY <1>1
<1>5. Added(new, found)
  BY <1>1, PointAdded
<1>6. L \in Nat \ {0} /\ Slots = 1..L /\ DOMAIN run.saves = 1..L
  BY <1>2, SavesFacts DEF RunShaped, Slots
<1>7. DOMAIN new = 1..L /\ Len(new) = L
  BY <1>5, <1>6 DEF Added
<1>8. ASSUME NEW j \in 1..L
      PROVE  /\ new[j].name = run.saves[L + 1 - j] /\ L + 1 - j \in 1..L
             /\ new[j].data = Row(run.saves[L + 1 - j], run.points + 1)
  <2>1. L + 1 - j \in 1..L /\ HoldsNext(new[j], L + 1 - j, found)
    BY <1>5, <1>6 DEF Added
  <2>2. L + 1 - j \in found /\ new[j].name \notin missed
    BY <1>4, <1>6, <2>1
  <2> QED
    BY <2>1, <2>2 DEF HoldsNext
<1> HIDE DEF new
<1>9. ASSUME NEW j \in 1..L
      PROVE  /\ Len(new[j].data) = last /\ DOMAIN new[j].data = 1..last
             /\ new[j].data[last] = <<run.saves[L + 1 - j], run.points + 1>>
  BY <1>2, <1>3, <1>8, RowLength
<1>10. LastIndex(new) = last /\ last \in Nat \ {0}
  BY <1>3, <1>6, <1>9 DEF LastIndex
<1>11. Len(names) = L /\ \A j \in 1..L : names[j] = run.saves[L + 1 - j]
  BY <1>1, <1>2 DEF Untouched
<1> HIDE DEF last
<1>12. Sendable(new)
  BY <1>6, <1>7, <1>9, <1>10, <1>11 DEF Sendable
<1>13. Sent(new) = {<<q, <<q, run'.points>>>> : q \in Range(run.saves)}
  <2>1. Sent(new) = {<<run.saves[L + 1 - j], <<run.saves[L + 1 - j], run.points + 1>>>> : j \in 1..L}
    <3>1. Sent(new) = {<<names[j], new[j].data[last]>> : j \in 1..L}
      BY <1>7, <1>10 DEF Sent
    <3>2. \A j \in 1..L : <<names[j], new[j].data[last]>>
                           = <<run.saves[L + 1 - j], <<run.saves[L + 1 - j], run.points + 1>>>>
      BY <1>9, <1>11
    <3> QED
      BY <3>1, <3>2
  <2>2. Range(run.saves) = {run.saves[L + 1 - j] : j \in 1..L}
    <3>1. \A k \in 1..L : L + 1 - k \in 1..L /\ L + 1 - (L + 1 - k) = k
      BY <1>6
    <3> QED
      BY <1>6, <3>1 DEF Range
  <2> QED
    BY <1>3, <2>1, <2>2
<1>14. found \cap run.gone = {} /\ new # <<>> /\ LastIndex(new) # 0
  BY <1>2, <1>6, <1>7, <1>10 DEF Untouched
<1>15. wild' = wild /\ told' = Sent(new)
  BY <1>12, <1>14 DEF Data, new
<1> QED
  BY <1>13, <1>15

LEMMA DataKeeps ==
  ASSUME KInv, NEW found, Data(found)
  PROVE  KInv'
<1>1. /\ run # NoRun /\ plots' = AddPoint(found) /\ run' = [run EXCEPT !.points = @ + 1]
      /\ missed' = missed \cup {run.saves[k] : k \in Slots \ found}
      /\ savenone' = savenone /\ touched' = touched /\ plot_cur' = plot_cur
      /\ wild = FALSE /\ wild' \in BOOLEAN
  BY DEF Data, Busy, KInv
<1>2. RunShaped
  BY <1>1 DEF KInv
<1>3. DOMAIN run' = RunFields /\ run'.plot = run.plot /\ run'.state = run.state
      /\ run'.saves = run.saves /\ run'.points = run.points + 1
  BY <1>1, <1>2 DEF RunShaped, RunFields
<1>4. RunShaped'
  BY <1>2, <1>3 DEF RunShaped
<1>5. IInv'
  BY DataStep DEF KInv
<1>6. \A i \in DOMAIN plots' : plots'[i].number \in Numbers
  <2> SUFFICES ASSUME NEW i \in DOMAIN plots PROVE AddPoint(found)[i].number \in Numbers
    BY <1>1 DEF AddPoint
  <2>1. DOMAIN plots[i] = Fields /\ plots[i].number \in Numbers
    BY DEF KInv, IInv, Shaped
  <2> QED
    BY <2>1 DEF AddPoint, Fields
<1>7. run' # NoRun /\ ~touched' => Untouched'
  BY <1>1, DataUntouched
<1>8. OnlyTouchingBreaks'
  BY <1>1, <1>3, DataTold DEF OnlyTouchingBreaks
<1> QED
  BY <1>1, <1>4, <1>5, <1>6, <1>7, <1>8 DEF KInv

(* The run's plot where it was, with the vectors that it had.              *)
LEMMA PlotKept ==
  ASSUME Untouched, run'.plot = run.plot, run'.state = "paused",
         run'.saves = run.saves, run'.gone = {}, run'.points = run.points,
         savenone' = savenone, missed' = missed,
         \A i \in DOMAIN plots : plots[i].number = run.plot =>
            \E j \in DOMAIN plots' : /\ plots'[j].number = run.plot
                                     /\ plots'[j].vectors = plots[i].vectors
  PROVE  Untouched'
<1>1. PICK i \in DOMAIN plots : plots[i].number = run.plot /\ Holds(plots[i].vectors)
  BY DEF Untouched
<1>2. PICK j \in DOMAIN plots' : plots'[j].number = run.plot /\ plots'[j].vectors = plots[i].vectors
  BY <1>1
<1>3. PICK vectors : vectors = plots[i].vectors
  OBVIOUS
<1>4. PICK points : points = run.points
  OBVIOUS
<1>5. ASSUME NEW q PROVE Row(q, points)' = Row(q, points)
  BY DEF Row
<1>6. Holds(vectors)'
  BY <1>1, <1>3, <1>4, <1>5 DEF Holds, HoldsVector
<1>7. Holds(plots[j].vectors)'
  BY <1>2, <1>3, <1>6
<1> QED
  BY <1>2, <1>7 DEF Untouched

(* A command either touches the run's plot or leaves it as it is.          *)
LEMMA CommandKeeps ==
  ASSUME KInv, Command, IInv', touched' \in BOOLEAN,
         \A i \in DOMAIN plots' : plots'[i].number \in Numbers,
         run' # NoRun => RunShaped',
         run' # NoRun /\ ~touched' =>
            /\ run # NoRun /\ ~touched
            /\ run'.plot = run.plot /\ run'.state = run.state /\ run'.saves = run.saves
            /\ run'.gone = {} /\ run'.points = run.points
            /\ \A i \in DOMAIN plots : plots[i].number = run.plot =>
                  \E j \in DOMAIN plots' : /\ plots'[j].number = run.plot
                                           /\ plots'[j].vectors = plots[i].vectors
  PROVE  KInv'
<1>1. wild' = wild /\ wild = FALSE /\ savenone' = savenone /\ missed' = missed /\ ~Busy
  BY DEF Command, KInv
<1>2. run # NoRun => run.state = "paused"
  BY <1>1 DEF Busy, KInv, RunShaped
<1>3. run' # NoRun /\ ~touched' => Untouched'
  BY <1>1, <1>2, PlotKept DEF KInv
<1>4. OnlyTouchingBreaks'
  BY <1>1 DEF OnlyTouchingBreaks
<1> QED
  BY <1>1, <1>3, <1>4 DEF KInv

LEMMA LetKeeps ==
  ASSUME KInv, NEW name, NEW data, Let(name, data)
  PROVE  KInv'
<1> DEFINE k == IndexOf(Target(name))
           p == Assigned(plots[k], name, data)
<1>1. /\ Command /\ plots' = [plots EXCEPT ![k] = p] /\ run' = run
      /\ touched' = (touched \/ (Paused /\ run.plot = Target(name)))
  BY DEF Let
<1>2. k \in DOMAIN plots /\ plots[k].number = Target(name)
  <2>1. \E i \in DOMAIN plots : plots[i].number = Target(name)
    BY Placed DEF Target, KInv, IInv, Linked
  <2> QED
    BY <2>1, IndexOfFound
<1>3. p.number = plots[k].number
  <2>1. DOMAIN plots[k] = Fields
    BY <1>2 DEF KInv, IInv, Shaped
  <2> QED
    BY <2>1 DEF Assigned, Fields
<1>4. IInv'
  BY LetStep DEF KInv
<1> HIDE DEF k, p
<1>5. \A i \in DOMAIN plots' : plots'[i].number \in Numbers
  BY <1>1, <1>2, <1>3 DEF KInv
<1>6. run' # NoRun => RunShaped'
  BY <1>1 DEF KInv, RunShaped
<1>7. ASSUME run' # NoRun, ~touched'
      PROVE  \A i \in DOMAIN plots : plots[i].number = run.plot =>
                \E j \in DOMAIN plots' : /\ plots'[j].number = run.plot
                                         /\ plots'[j].vectors = plots[i].vectors
  <2>1. Paused
    BY <1>1, <1>7 DEF Command, Busy, Paused, KInv, RunShaped
  <2>2. run.plot # Target(name)
    BY <1>1, <1>7, <2>1
  <2>3. \A i \in DOMAIN plots : plots[i].number = run.plot => i \in DOMAIN plots' /\ plots'[i] = plots[i]
    BY <1>1, <1>2, <2>2
  <2> QED
    BY <2>3
<1>8. touched' \in BOOLEAN /\ (~touched' => ~touched)
  BY <1>1 DEF KInv
<1>9. run' # NoRun /\ ~touched' => run.gone = {}
  BY <1>1, <1>8 DEF KInv, Untouched
<1> QED
  BY <1>1, <1>4, <1>5, <1>6, <1>7, <1>8, <1>9, CommandKeeps

LEMMA SweepKeeps ==
  ASSUME KInv, NEW left, Command, Sweep(left)
  PROVE  KInv'
<1> DEFINE k == IndexOf(plot_cur)
           old == plots[k].vectors
           scale == IF \E v \in Range(left) : v.name = plots[k].scale THEN plots[k].scale
                    ELSE IF left = <<>> THEN NoScale ELSE left[1].name
           p == [plots[k] EXCEPT !.vectors = left, !.scale = scale]
           lost == {v.slot : v \in Range(old) \ Range(left)}
<1>1. k \in DOMAIN plots /\ plots[k].number = plot_cur /\ DOMAIN plots[k] = Fields
  BY Placed DEF KInv, IInv, Shaped
<1>2. /\ plots' = [plots EXCEPT ![k] = p]
      /\ IF Paused /\ run.plot = plot_cur
         THEN run' = [run EXCEPT !.gone = @ \cup lost] /\ touched' = (touched \/ left # old)
         ELSE run' = run /\ touched' = touched
  BY <1>1 DEF Sweep
<1>3. p.number = plot_cur /\ p.vectors = left
  BY <1>1 DEF Fields
<1>4. IInv'
  BY SweepStep DEF KInv
<1>5. left = old => lost = {}
  OBVIOUS
<1> HIDE DEF k, p, lost
<1>6. \A i \in DOMAIN plots' : plots'[i].number \in Numbers
  BY <1>1, <1>2, <1>3 DEF KInv
<1>7. CASE Paused /\ run.plot = plot_cur
  <2>1. RunShaped /\ run # NoRun
    BY <1>7 DEF Paused, KInv
  <2>2. /\ DOMAIN run' = RunFields /\ run'.plot = run.plot /\ run'.state = run.state
        /\ run'.saves = run.saves /\ run'.points = run.points /\ run'.gone = run.gone \cup lost
    BY <1>2, <1>7, <2>1 DEF RunShaped, RunFields
  <2>3. RunShaped'
    BY <2>1, <2>2 DEF RunShaped
  <2>4. touched' \in BOOLEAN /\ (~touched' => ~touched /\ left = old)
    BY <1>2, <1>7 DEF KInv
  <2>5. ~touched' => run'.gone = {}
    BY <1>5, <2>1, <2>2, <2>4 DEF KInv, Untouched
  <2>6. ASSUME ~touched', NEW i \in DOMAIN plots, plots[i].number = run.plot
        PROVE  i \in DOMAIN plots' /\ plots'[i].number = run.plot /\ plots'[i].vectors = plots[i].vectors
    <3>1. i = k
      BY <1>1, <1>7, <2>6 DEF KInv, IInv, Linked
    <3> QED
      BY <1>1, <1>2, <1>3, <2>4, <2>6, <3>1
  <2> QED
    BY <1>4, <1>6, <2>1, <2>2, <2>3, <2>4, <2>5, <2>6, CommandKeeps
<1>8. CASE ~(Paused /\ run.plot = plot_cur)
  <2>1. run' = run /\ touched' = touched
    BY <1>2, <1>8
  <2>2. run' # NoRun => RunShaped'
    BY <2>1 DEF KInv, RunShaped
  <2>3. run # NoRun => Paused
    BY DEF Command, Busy, Paused, KInv, RunShaped
  <2>4. ASSUME run # NoRun, NEW i \in DOMAIN plots, plots[i].number = run.plot
        PROVE  i \in DOMAIN plots' /\ plots'[i] = plots[i]
    BY <1>1, <1>2, <1>8, <2>3, <2>4
  <2>5. run # NoRun /\ ~touched => run.gone = {}
    BY DEF KInv, Untouched
  <2>6. touched' \in BOOLEAN
    BY <2>1 DEF KInv
  <2> QED
    BY <1>4, <1>6, <2>1, <2>2, <2>4, <2>5, <2>6, CommandKeeps
<1> QED
  BY <1>7, <1>8

LEMMA SetPlotKeeps ==
  ASSUME KInv, NEW n, SetPlot(n)
  PROVE  KInv'
<1>1. Command /\ plots' = plots /\ run' = run /\ touched' = touched
  BY DEF SetPlot
<1>2. IInv'
  BY SetPlotStep DEF KInv
<1>3. run' # NoRun => RunShaped'
  BY <1>1 DEF KInv, RunShaped
<1>4. run # NoRun /\ ~touched => run.gone = {}
  BY DEF KInv, Untouched
<1>5. touched' \in BOOLEAN /\ \A i \in DOMAIN plots' : plots'[i].number \in Numbers
  BY <1>1 DEF KInv
<1> QED
  BY <1>1, <1>2, <1>3, <1>4, <1>5, CommandKeeps

(* A plot in front moves the others by one.                                *)
LEMMA InFront ==
  ASSUME KInv, NEW p, NEW n \in Unused, p.number = n, plots' = <<p>> \o plots
  PROVE  /\ 1 \in DOMAIN plots' /\ plots'[1] = p
         /\ \A i \in DOMAIN plots' : plots'[i].number \in Numbers
         /\ \A i \in DOMAIN plots : i + 1 \in DOMAIN plots' /\ plots'[i + 1] = plots[i]
<1>1. PICK S : plots \in Seq(S)
  BY DEF KInv, IInv, Shaped
<1>2. /\ Len(plots) \in Nat /\ DOMAIN plots = 1..Len(plots) /\ DOMAIN plots' = 1..(Len(plots) + 1)
      /\ \A i \in DOMAIN plots' : plots'[i] = IF i = 1 THEN p ELSE plots[i - 1]
  BY <1>1
<1>3. n \in Numbers
  BY DEF Unused
<1>4. ASSUME NEW i \in DOMAIN plots' PROVE plots'[i].number \in Numbers
  <2>1. CASE i = 1
    BY <1>2, <1>3, <2>1
  <2>2. CASE i # 1
    <3>1. i - 1 \in DOMAIN plots /\ plots'[i] = plots[i - 1]
      BY <1>2, <2>2
    <3> QED
      BY <3>1 DEF KInv
  <2> QED
    BY <2>1, <2>2
<1>5. ASSUME NEW i \in DOMAIN plots PROVE i + 1 \in DOMAIN plots' /\ plots'[i + 1] = plots[i]
  BY <1>2
<1> QED
  BY <1>2, <1>4, <1>5

LEMMA SetPlotNewKeeps ==
  ASSUME KInv, NEW n, SetPlotNew(n)
  PROVE  KInv'
<1> DEFINE p == [number |-> n, scale |-> NoScale, vectors |-> <<>>]
<1>1. Command /\ plots' = <<p>> \o plots /\ run' = run /\ touched' = touched /\ n \in Unused
  BY DEF SetPlotNew
<1>2. p.number = n
  OBVIOUS
<1> HIDE DEF p
<1>3. IInv'
  BY SetPlotNewStep DEF KInv
<1>4. run' # NoRun => RunShaped'
  BY <1>1 DEF KInv, RunShaped
<1>5. run # NoRun /\ ~touched => run.gone = {}
  BY DEF KInv, Untouched
<1>6. touched' \in BOOLEAN
  BY <1>1 DEF KInv
<1>7. /\ \A i \in DOMAIN plots' : plots'[i].number \in Numbers
      /\ \A i \in DOMAIN plots : i + 1 \in DOMAIN plots' /\ plots'[i + 1] = plots[i]
  BY <1>1, <1>2, InFront
<1>8. \A i \in DOMAIN plots : plots[i].number = run.plot =>
         \E j \in DOMAIN plots' : plots'[j].number = run.plot /\ plots'[j].vectors = plots[i].vectors
  BY <1>7
<1> QED
  BY <1>1, <1>3, <1>4, <1>5, <1>6, <1>7, <1>8, CommandKeeps

LEMMA DestroyKeeps ==
  ASSUME KInv, NEW n, Destroy(n)
  PROVE  KInv'
<1> DEFINE k == IndexOf(n)
<1>1. /\ Command /\ plots' = RemoveAt(plots, k) /\ touched' = (touched \/ Lost(n))
      /\ run' = IF Lost(n) THEN [run EXCEPT !.plot = Freed, !.gone = Slots] ELSE run
      /\ \E i \in DOMAIN plots : plots[i].number = n
  BY DEF Destroy, Range
<1>2. k \in DOMAIN plots /\ plots[k].number = n
  BY <1>1, IndexOfFound
<1> HIDE DEF k
<1>3. PICK S : plots \in Seq(S)
  BY DEF KInv, IInv, Shaped
<1>4. /\ Len(plots) \in Nat /\ DOMAIN plots = 1..Len(plots) /\ DOMAIN plots' = 1..(Len(plots) - 1)
      /\ \A i \in 1..(Len(plots) - 1) : plots'[i] = plots[IF i < k THEN i ELSE i + 1]
      /\ \A x \in DOMAIN plots : x # k => \E i \in DOMAIN plots' : plots'[i] = plots[x]
  BY <1>1, <1>2, <1>3, Removal
<1>5. \A i \in DOMAIN plots' : plots'[i].number \in Numbers
  <2> SUFFICES ASSUME NEW i \in 1..(Len(plots) - 1) PROVE plots'[i].number \in Numbers
    BY <1>4
  <2>1. \E x \in DOMAIN plots : plots'[i] = plots[x]
    BY <1>2, <1>4
  <2> QED
    BY <2>1 DEF KInv
<1>6. IInv'
  BY DestroyStep DEF KInv
<1>7. run' # NoRun => RunShaped'
  <2>1. CASE Lost(n)
    <3>1. run # NoRun /\ RunShaped
      BY <2>1 DEF Lost, Paused, KInv
    <3>2. /\ DOMAIN run' = RunFields /\ run'.state = run.state
          /\ run'.saves = run.saves /\ run'.points = run.points
      BY <1>1, <2>1, <3>1 DEF RunShaped, RunFields
    <3> QED
      BY <3>1, <3>2 DEF RunShaped
  <2>2. CASE ~Lost(n)
    BY <1>1, <2>2 DEF KInv, RunShaped
  <2> QED
    BY <2>1, <2>2
<1>8. touched' \in BOOLEAN /\ (~touched' => ~touched /\ ~Lost(n) /\ run' = run)
  BY <1>1 DEF KInv
<1>9. run # NoRun => Paused
  BY <1>1 DEF Command, Busy, Paused, KInv, RunShaped
<1>10. run # NoRun /\ ~touched => run.gone = {}
  BY DEF KInv, Untouched
<1>11. ASSUME run # NoRun, ~touched', NEW i \in DOMAIN plots, plots[i].number = run.plot
       PROVE  \E j \in DOMAIN plots' : plots'[j] = plots[i]
  <2>1. i # k
    BY <1>2, <1>8, <1>9, <1>11 DEF Lost
  <2> QED
    BY <1>4, <2>1
<1> QED
  BY <1>1, <1>5, <1>6, <1>7, <1>8, <1>10, <1>11, CommandKeeps

(* The names for the data that are sent.                                   *)
LEMMA NamesPrepared ==
  ASSUME NEW L \in Nat, NEW vectors
  PROVE  /\ \E S : Prepared(vectors, L) \in Seq(S)
         /\ Len(Prepared(vectors, L)) = L
         /\ \A j \in 1..L : Prepared(vectors, L)[j] = vectors[j].name
<1> DEFINE ns == Prepared(vectors, L)
<1>1. ns = [j \in 1..L |-> vectors[j].name]
  BY DEF Prepared
<1> HIDE DEF ns
<1>2. ns \in [1..L -> {ns[j] : j \in 1..L}] /\ \A j \in 1..L : ns[j] = vectors[j].name
  BY <1>1
<1>3. ns \in Seq({ns[j] : j \in 1..L}) /\ Len(ns) = L
  BY <1>2, SequenceOf
<1> QED
  BY <1>2, <1>3 DEF ns

(* The vectors of a run that begins.                                       *)
LEMMA NewVectors ==
  ASSUME NEW s \in Saves
  PROVE  /\ VectorsFor(s) \in Seq({VectorsFor(s)[j] : j \in 1..Len(s)})
         /\ Len(VectorsFor(s)) = Len(s)
         /\ \A j \in 1..Len(s) :
              /\ Len(s) + 1 - j \in 1..Len(s)
              /\ VectorsFor(s)[j] = [name |-> s[Len(s) + 1 - j], data |-> <<>>, slot |-> Len(s) + 1 - j]
<1> DEFINE L == Len(s)
           f == [i \in DOMAIN s |-> [name |-> s[i], data |-> <<>>, slot |-> i]]
           r == VectorsFor(s)
<1>1. L \in Nat \ {0} /\ DOMAIN s = 1..L
  BY SavesFacts
<1>2. f \in [1..L -> {f[i] : i \in 1..L}] /\ \A i \in 1..L : f[i] = [name |-> s[i], data |-> <<>>, slot |-> i]
  BY <1>1
<1> HIDE DEF f
<1>3. Len(f) = L
  BY <1>1, <1>2, SequenceOf
<1>4. r = [j \in 1..L |-> f[(L - j) + 1]]
  BY <1>3 DEF VectorsFor, Reverse, f
<1>5. \A j \in 1..L : L + 1 - j \in 1..L /\ (L - j) + 1 = L + 1 - j
  BY <1>1
<1> HIDE DEF r, L
<1>6. \A j \in 1..L : r[j] = f[L + 1 - j]
  BY <1>4, <1>5
<1>7. r \in [1..L -> {r[j] : j \in 1..L}]
  BY <1>4
<1>8. r \in Seq({r[j] : j \in 1..L}) /\ Len(r) = L
  BY <1>1, <1>7, SequenceOf
<1> QED
  BY <1>2, <1>5, <1>6, <1>8 DEF r, L

LEMMA BeginPlotKeeps ==
  ASSUME KInv, NEW n \in Numbers, NEW s \in Saves, NEW none \in BOOLEAN, BeginPlot(n, s, none)
  PROVE  KInv'
<1> DEFINE L == Len(s)
           vectors == VectorsFor(s)
           p == [number |-> n, scale |-> s[1], vectors |-> vectors]
<1>1. /\ plots' = <<p>> \o plots /\ savenone' = (savenone \/ none) /\ n \in Unused
      /\ run' = [plot |-> n, state |-> "running", saves |-> s, gone |-> {}, points |-> 0]
      /\ names' = Prepared(vectors, L) /\ touched' = FALSE /\ wild' = wild /\ wild = FALSE
  BY DEF BeginPlot, KInv
<1>2. p.number = n /\ p.vectors = vectors
  OBVIOUS
<1> HIDE DEF p
<1>3. IInv'
  BY BeginPlotStep DEF KInv
<1>4. /\ 1 \in DOMAIN plots' /\ plots'[1] = p
      /\ \A i \in DOMAIN plots' : plots'[i].number \in Numbers
  BY <1>1, <1>2, InFront
<1>5. /\ DOMAIN run' = RunFields /\ run'.plot = n /\ run'.state = "running" /\ run'.saves = s
      /\ run'.gone = {} /\ run'.points = 0
  BY <1>1 DEF RunFields
<1>6. RunShaped'
  BY <1>5 DEF RunShaped
<1>7. L \in Nat \ {0} /\ DOMAIN s = 1..L
  BY SavesFacts
<1>8. /\ vectors \in Seq({vectors[j] : j \in 1..L}) /\ Len(vectors) = L
      /\ \A j \in 1..L : /\ L + 1 - j \in 1..L
                        /\ vectors[j] = [name |-> s[L + 1 - j], data |-> <<>>, slot |-> L + 1 - j]
  BY NewVectors
<1> HIDE DEF vectors
<1>9. ASSUME NEW q PROVE Row(q, 0)' = <<>>
  BY DEF Row
<1>10. ASSUME NEW q PROVE Series(q, <<>>, 0)
  BY DEF Series
<1>11. ASSUME NEW j \in 1..L, NEW v, v = vectors[j]
       PROVE  HoldsVector(v, L + 1 - j)'
  <2>1. /\ DOMAIN v = VectorFields /\ v.name = s[L + 1 - j] /\ v.slot = L + 1 - j /\ v.data = <<>>
    <3>1. v = [name |-> s[L + 1 - j], data |-> <<>>, slot |-> L + 1 - j]
      BY <1>8, <1>11
    <3> QED
      BY <3>1 DEF VectorFields
  <2> QED
    BY <1>5, <1>9, <1>10, <2>1 DEF HoldsVector
<1>12. ASSUME NEW vs, vs = vectors PROVE Holds(vs)'
  BY <1>5, <1>8, <1>11, <1>12 DEF Holds
<1>13. Holds(plots[1].vectors)'
  BY <1>2, <1>4, <1>12
<1>14. (\E S : names' \in Seq(S)) /\ Len(names') = L /\ \A j \in 1..L : names'[j] = s[L + 1 - j]
  <2>1. ASSUME NEW j \in 1..L PROVE vectors[j].name = s[L + 1 - j]
    <3>1. vectors[j] = [name |-> s[L + 1 - j], data |-> <<>>, slot |-> L + 1 - j]
      BY <1>8
    <3> QED
      BY <3>1
  <2> QED
    BY <1>1, <1>7, <2>1, NamesPrepared
<1>15. Untouched'
  BY <1>2, <1>4, <1>5, <1>13, <1>14 DEF Untouched
<1>16. savenone' \in BOOLEAN
  BY <1>1 DEF KInv
<1> QED
  BY <1>1, <1>3, <1>4, <1>6, <1>15, <1>16 DEF KInv, OnlyTouchingBreaks

LEMMA ResumeKeeps ==
  ASSUME KInv, Resume
  PROVE  KInv'
<1>1. /\ run # NoRun /\ run.state = "paused" /\ run' = [run EXCEPT !.state = "running"]
      /\ plots' = plots /\ plot_cur' = plot_cur /\ touched' = touched /\ missed' = missed
      /\ savenone' = savenone /\ wild = FALSE /\ wild' \in BOOLEAN
  BY DEF Resume, Paused, KInv
<1>2. RunShaped
  BY <1>1 DEF KInv
<1>3. /\ DOMAIN run' = RunFields /\ run'.plot = run.plot /\ run'.state = "running"
      /\ run'.saves = run.saves /\ run'.points = run.points /\ run'.gone = run.gone
  BY <1>1, <1>2 DEF RunShaped, RunFields
<1>4. RunShaped' /\ IInv'
  BY <1>1, <1>2, <1>3 DEF RunShaped, KInv, IInv
<1>5. ASSUME ~touched PROVE Untouched' /\ wild' = wild
  <2> DEFINE L == Len(run.saves)
             i == IndexOf(run.plot)
             vectors == plots[i].vectors
  <2>1. Untouched
    BY <1>1, <1>5 DEF KInv
  <2>2. i \in DOMAIN plots /\ plots[i].number = run.plot
    BY <2>1, IndexOfFound DEF Untouched
  <2>3. Holds(vectors)
    BY <2>1, <2>2 DEF Untouched, KInv, IInv, Linked
  <2>4. PlotOf(run.plot).vectors = vectors
    BY DEF PlotOf
  <2>5. run.plot # Freed
    BY <2>2, FreedAssumption DEF KInv, Numbers, Const
  <2>6. L \in Nat \ {0} /\ Len(vectors) = L
        /\ \A j \in 1..L : HoldsVector(vectors[j], L + 1 - j)
    BY <1>2, <2>3, Whole DEF Holds
  <2>7. wild' = wild /\ names' = Prepared(vectors, L)
    BY <2>4, <2>5, <2>6 DEF Resume
  <2>8. PICK k : k = i
    OBVIOUS
  <2>9. PICK vs : vs = vectors
    OBVIOUS
  <2> HIDE DEF vectors, i
  <2>10. PICK points : points = run.points
    OBVIOUS
  <2>11. ASSUME NEW q PROVE Row(q, points)' = Row(q, points)
    BY <1>1 DEF Row
  <2>12. Holds(vs)'
    BY <1>1, <1>3, <2>3, <2>9, <2>10, <2>11 DEF Holds, HoldsVector
  <2>13. Holds(plots[k].vectors)' /\ k \in DOMAIN plots' /\ plots'[k].number = run'.plot
    BY <1>1, <1>3, <2>2, <2>8, <2>9, <2>12 DEF vectors
  <2>14. (\E S : names' \in Seq(S)) /\ Len(names') = L
         /\ \A j \in 1..L : names'[j] = run.saves[L + 1 - j]
    <3>1. \A j \in 1..L : vectors[j].name = run.saves[L + 1 - j]
      BY <2>6 DEF HoldsVector
    <3> QED
      BY <2>6, <2>7, <3>1, NamesPrepared
  <2>15. run'.gone = {}
    BY <1>3, <2>1 DEF Untouched
  <2>16. Untouched'
    BY <1>3, <2>13, <2>14, <2>15 DEF Untouched
  <2> QED
    BY <2>7, <2>16
<1>6. OnlyTouchingBreaks'
  BY <1>1, <1>5 DEF OnlyTouchingBreaks
<1> QED
  BY <1>1, <1>4, <1>5, <1>6 DEF KInv

LEMMA PauseKeeps ==
  ASSUME KInv, Pause
  PROVE  KInv'
<1>1. /\ run # NoRun /\ run' = [run EXCEPT !.state = "paused"]
      /\ plots' = plots /\ plot_cur' = plot_cur /\ touched' = touched /\ missed' = missed
      /\ savenone' = savenone /\ wild' = wild /\ wild = FALSE
  BY DEF Pause, Busy, KInv
<1>2. RunShaped
  BY <1>1 DEF KInv
<1>3. /\ DOMAIN run' = RunFields /\ run'.plot = run.plot /\ run'.state = "paused"
      /\ run'.saves = run.saves /\ run'.points = run.points /\ run'.gone = run.gone
  BY <1>1, <1>2 DEF RunShaped, RunFields
<1>4. RunShaped' /\ IInv'
  BY <1>1, <1>2, <1>3 DEF RunShaped, KInv, IInv
<1>5. ~touched => Untouched'
  <2> SUFFICES ASSUME ~touched PROVE Untouched'
    OBVIOUS
  <2>1. Untouched /\ run.gone = {}
    BY <1>1 DEF KInv, Untouched
  <2> QED
    BY <1>1, <1>3, <2>1, PlotKept
<1> QED
  BY <1>1, <1>4, <1>5 DEF KInv, OnlyTouchingBreaks

LEMMA EndKeeps ==
  ASSUME KInv, End
  PROVE  KInv'
<1>1. /\ run' = NoRun /\ plots' = plots /\ plot_cur' = plot_cur /\ touched' = FALSE
      /\ savenone' = savenone /\ wild' = wild /\ wild = FALSE
  BY DEF End, KInv
<1> QED
  BY <1>1 DEF KInv, IInv, OnlyTouchingBreaks

LEMMA InitKept == Init => KInv
<1> SUFFICES ASSUME Init PROVE KInv
  OBVIOUS
<1>1. run = NoRun /\ savenone = FALSE /\ wild = FALSE /\ touched = FALSE /\ plots = <<ConstPlot>>
  BY DEF Init
<1>2. \A i \in DOMAIN plots : plots[i].number \in Numbers
  <2>1. DOMAIN plots = {1} /\ plots[1].number = Const
    BY <1>1 DEF ConstPlot
  <2>2. Const \in Numbers
    BY FreedAssumption DEF Const, Numbers
  <2> QED
    BY <2>1, <2>2
<1> QED
  BY <1>1, <1>2, InitLinked DEF KInv, OnlyTouchingBreaks

LEMMA KeptStep == KInv /\ [Next]_vars => KInv'
<1> SUFFICES ASSUME KInv, [Next]_vars PROVE KInv'
  OBVIOUS
<1>1. ASSUME NEW n \in Numbers, NEW s \in Saves, NEW none \in BOOLEAN, BeginPlot(n, s, none)
      PROVE  KInv'
  BY <1>1, BeginPlotKeeps
<1>2. ASSUME NEW found, Data(found) PROVE KInv'
  BY <1>2, DataKeeps
<1>3. CASE Pause \/ Resume \/ End
  BY <1>3, PauseKeeps, ResumeKeeps, EndKeeps
<1>4. ASSUME NEW name, NEW data, Let(name, data) PROVE KInv'
  BY <1>4, LetKeeps
<1>5. ASSUME NEW name, Unlet(name) PROVE KInv'
  BY <1>5, SweepKeeps DEF Unlet
<1>6. CASE RemZeroVec
  BY <1>6, SweepKeeps DEF RemZeroVec
<1>7. ASSUME NEW n, SetPlot(n) \/ SetPlotNew(n) \/ Destroy(n) PROVE KInv'
  BY <1>7, SetPlotKeeps, SetPlotNewKeeps, DestroyKeeps
<1>8. CASE UNCHANGED vars
  <2>1. (run # NoRun => RunShaped') /\ (Untouched => Untouched')
    BY <1>8 DEF vars, KInv, RunShaped, Untouched, Holds, HoldsVector, Row
  <2> QED
    BY <1>8, <2>1 DEF vars, KInv, IInv, OnlyTouchingBreaks
<1> QED
  BY <1>1, <1>2, <1>3, <1>4, <1>5, <1>6, <1>7, <1>8 DEF Next, Simulator, Caller

LEMMA ToldStep ==
  ASSUME KInv, [Next]_vars, Busy, run' # NoRun, run'.points = run.points + 1,
         ~touched, missed' = {}, plot_cur = run.plot
  PROVE  told' = {<<q, <<q, run'.points>>>> : q \in Range(run.saves)}
<1>1. run # NoRun /\ RunShaped /\ run.state = "running" /\ run.points # run.points + 1
  BY DEF Busy, KInv, RunShaped
<1>2. ASSUME NEW found, Data(found)
      PROVE  told' = {<<q, <<q, run'.points>>>> : q \in Range(run.saves)}
  BY <1>2, DataTold
<1>3. ~Pause
  <2> SUFFICES ASSUME Pause PROVE FALSE
    OBVIOUS
  <2>1. run' = [run EXCEPT !.state = "paused"]
    BY DEF Pause
  <2>2. run'.points = run.points
    BY <1>1, <2>1 DEF RunShaped, RunFields
  <2> QED
    BY <1>1, <2>2
<1>4. ~Resume /\ ~End /\ ~Command /\ \A n, s, none : ~BeginPlot(n, s, none)
  BY <1>1 DEF Resume, End, Command, BeginPlot, Paused
<1>5. ~Caller
  BY <1>4 DEF Caller, Let, Unlet, RemZeroVec, SetPlot, SetPlotNew, Destroy
<1>6. ~UNCHANGED vars
  BY <1>1 DEF vars
<1> QED
  BY <1>2, <1>3, <1>4, <1>5, <1>6 DEF Next, Simulator

(* As long as the caller leaves its plot alone, the plot of a run has a    *)
(* vector for each quantity that it saves, with a value for each point, or *)
(* the last: for any number of points, plots and names.                    *)
THEOREM PointsKept == Spec => []RunKeepsPoints
<1>1. KInv => RunKeepsPoints
  BY RunKept
<1> QED
  BY InitKept, KeptStep, <1>1, PTL DEF Spec

(* Memory beside the data is used only when the plot of a paused run was   *)
(* changed, another plot is current, or a special was not found.           *)
THEOREM BreaksOnlyTouched == Spec => []OnlyTouchingBreaks
<1>1. KInv => OnlyTouchingBreaks
  BY DEF KInv
<1> QED
  BY InitKept, KeptStep, <1>1, PTL DEF Spec

(* Every point of an untouched run is told to the caller, each quantity    *)
(* with its own value of this point.                                       *)
THEOREM PointsTold == Spec => PointsAreTold
<1>1. KInv /\ [Next]_vars =>
         [Busy /\ run' # NoRun /\ run'.points = run.points + 1
             /\ ~touched /\ missed' = {} /\ plot_cur = run.plot
          => told' = {<<q, <<q, run'.points>>>> : q \in Range(run.saves)}]_vars
  BY ToldStep
<1> QED
  BY InitKept, KeptStep, <1>1, PTL DEF Spec, PointsAreTold

-----------------------------------------------------------------------------
(* The types, and the scales: a plot as it should be.                      *)
Scaled(p) ==
    /\ \A i, j \in DOMAIN p.vectors : p.vectors[i].name = p.vectors[j].name => i = j
    /\ IF p.vectors = <<>> THEN p.scale = NoScale
       ELSE \E v \in Range(p.vectors) : v.name = p.scale

Sound(list) == list \in Seq(Plot) /\ \A i \in DOMAIN list : Scaled(list[i])

OInv == IInv /\ TypeOK /\ ScalesSound

LEMMA ScalesAreScaled == TypeOK => (ScalesSound <=> \A i \in DOMAIN plots : Scaled(plots[i]))
  BY DEF ScalesSound, Scaled, Range

LEMMA SoundPlots == OInv => Sound(plots)
  BY ScalesAreScaled DEF OInv, Sound, TypeOK

LEMMA ConstantTypes ==
    /\ MaxPlots \in Nat /\ MaxPoints \in Nat /\ Const \in Nat /\ Const \in Numbers
    /\ Quantities \subseteq Names /\ UserNames \subseteq Names /\ Specials \subseteq Quantities
    /\ \A i \in DOMAIN ConstNames : ConstNames[i] \in Names
    /\ Number \in Value
  BY FreedAssumption, SavesAssumption DEF Const, Numbers, Names, Value, Range

(* A list of plots stays sound when one of them is changed to a sound one, *)
(* or a sound one is put in front.                                         *)
LEMMA SoundChange ==
  ASSUME NEW list, Sound(list), NEW k \in DOMAIN list, NEW p \in Plot, Scaled(p)
  PROVE  Sound([list EXCEPT ![k] = p])
<1> DEFINE new == [list EXCEPT ![k] = p]
<1>1. list \in Seq(Plot)
  BY DEF Sound
<1>2. new \in Seq(Plot) /\ DOMAIN new = DOMAIN list
  BY <1>1
<1>3. \A i \in DOMAIN list : new[i] = IF i = k THEN p ELSE list[i]
  BY <1>1
<1> HIDE DEF new
<1>4. \A i \in DOMAIN new : Scaled(new[i])
  BY <1>2, <1>3 DEF Sound
<1> QED
  BY <1>2, <1>4 DEF Sound, new

LEMMA SoundFront ==
  ASSUME NEW list, Sound(list), NEW p \in Plot, Scaled(p)
  PROVE  Sound(<<p>> \o list)
<1> DEFINE new == <<p>> \o list
<1>1. list \in Seq(Plot)
  BY DEF Sound
<1>2. new \in Seq(Plot) /\ Len(list) \in Nat /\ Len(new) = Len(list) + 1
  BY <1>1
<1>3. \A i \in 1..(Len(list) + 1) : new[i] = IF i = 1 THEN p ELSE list[i - 1]
  BY <1>1
<1>4. DOMAIN list = 1..Len(list) /\ DOMAIN new = 1..(Len(list) + 1)
  BY <1>1, <1>2
<1> HIDE DEF new
<1>5. ASSUME NEW i \in DOMAIN new PROVE Scaled(new[i])
  <2>1. CASE i = 1
    BY <1>2, <1>3, <1>4, <2>1
  <2>2. CASE i # 1
    <3>1. i - 1 \in DOMAIN list /\ new[i] = list[i - 1]
      BY <1>2, <1>3, <1>4, <2>2
    <3> QED
      BY <3>1 DEF Sound
  <2> QED
    BY <2>1, <2>2
<1> QED
  BY <1>2, <1>5 DEF Sound, new

(* The invariant in parts that the steps keep.                             *)
RunTyped ==
    /\ run \in Run \cup {NoRun}
    /\ run # NoRun => run.plot \in {Freed} \cup {p.number : p \in Range(plots)}
RestTyped ==
    /\ {savenone, wild, touched} \subseteq BOOLEAN
    /\ names \in Seq(Names) /\ missed \subseteq Specials
ToldTyped == told = NotTold \/ told \subseteq Names \X Value

LEMMA Parts == OInv <=> IInv /\ Sound(plots) /\ RunTyped /\ RestTyped /\ ToldTyped
<1>1. OInv => IInv /\ Sound(plots) /\ RunTyped /\ RestTyped /\ ToldTyped
  BY SoundPlots DEF OInv, TypeOK, RunTyped, RestTyped, ToldTyped
<1>2. ASSUME IInv, Sound(plots), RunTyped, RestTyped, ToldTyped PROVE OInv
  <2>1. plots \in Seq(Plot)
    BY <1>2 DEF Sound
  <2>2. plot_cur \in Numbers
    <3>1. PICK i \in DOMAIN plots : plots[i].number = plot_cur
      BY <1>2 DEF IInv, Linked
    <3>2. plots[i] \in Plot
      BY <2>1
    <3> QED
      BY <3>1, <3>2 DEF Plot
  <2>3. TypeOK
    BY <1>2, <2>1, <2>2 DEF TypeOK, RunTyped, RestTyped, ToldTyped
  <2>4. ScalesSound
    BY <1>2, <2>3, ScalesAreScaled DEF Sound
  <2> QED
    BY <1>2, <2>3, <2>4 DEF OInv
<1> QED
  BY <1>1, <1>2

LEMMA PartsNext == IInv' /\ Sound(plots') /\ RunTyped' /\ RestTyped' /\ ToldTyped' => OInv'
<1>1. (IInv /\ Sound(plots) /\ RunTyped /\ RestTyped /\ ToldTyped => OInv)'
  BY Parts, PTL
<1> QED
  BY <1>1 DEF Sound

(* A list with the numbers of another one has its places for a run.        *)
LEMMA SameRun ==
  ASSUME RunTyped, UNCHANGED run,
         \A i \in DOMAIN plots : \E j \in DOMAIN plots' : plots'[j].number = plots[i].number
  PROVE  RunTyped'
  BY DEF RunTyped, Range

(* A vector as it is made.                                                 *)
NewVector(name, data, slot) == [name |-> name, data |-> data, slot |-> slot]

LEMMA NewVectorType ==
  ASSUME NEW name \in Names, NEW data \in Seq(Value), NEW slot \in Nat
  PROVE  /\ NewVector(name, data, slot) \in Vector
         /\ NewVector(name, data, slot).name = name
         /\ NewVector(name, data, slot).data = data
  BY DEF NewVector, Vector

(* A new entry in front has the first place, the others move by one.       *)
LEMMA FrontPlaces ==
  ASSUME NEW list, list \in Seq(Plot), NEW p
  PROVE  /\ 1 \in DOMAIN (<<p>> \o list) /\ (<<p>> \o list)[1] = p
         /\ \A i \in DOMAIN list : /\ i + 1 \in DOMAIN (<<p>> \o list)
                                   /\ (<<p>> \o list)[i + 1] = list[i]
<1> DEFINE new == <<p>> \o list
<1>1. new \in Seq(Plot \cup {p}) /\ Len(list) \in Nat /\ Len(new) = Len(list) + 1
  OBVIOUS
<1>2. DOMAIN list = 1..Len(list) /\ DOMAIN new = 1..(Len(list) + 1)
  BY <1>1
<1>3. \A i \in 1..(Len(list) + 1) : new[i] = IF i = 1 THEN p ELSE list[i - 1]
  OBVIOUS
<1> HIDE DEF new
<1>4. 1 \in DOMAIN new /\ new[1] = p
  BY <1>1, <1>2, <1>3
<1>5. ASSUME NEW i \in 1..Len(list) PROVE i + 1 \in DOMAIN new /\ new[i + 1] = list[i]
  <2>1. i + 1 \in 1..(Len(list) + 1) /\ i + 1 # 1 /\ (i + 1) - 1 = i
    BY <1>1
  <2> QED
    BY <1>2, <1>3, <2>1
<1> QED
  BY <1>2, <1>4, <1>5 DEF new

LEMMA InitTyped == Init => OInv
<1> SUFFICES ASSUME Init PROVE OInv
  OBVIOUS
<1>1. IInv
  BY InitLinked
<1> DEFINE vectors == [i \in DOMAIN ConstNames |->
                          NewVector(ConstNames[i], <<Number>>, 0)]
           n == Len(ConstNames)
<1>2. /\ ConstNames \in Seq(Names) /\ n \in Nat \ {0} /\ DOMAIN ConstNames = 1..n
      /\ Last(ConstNames) = ConstNames[n] /\ \A i \in 1..n : ConstNames[i] \in Names
  <2>1. ConstNames \in Seq(Range(ConstNames)) /\ ConstNames # <<>>
    BY SavesAssumption
  <2>2. Range(ConstNames) \subseteq Names
    BY DEF Names
  <2> QED
    BY <2>1, <2>2 DEF Last
<1>3. \A i \in 1..n : vectors[i] = NewVector(ConstNames[i], <<Number>>, 0)
  BY <1>2
<1>4. ASSUME NEW i \in 1..n PROVE vectors[i] \in Vector /\ vectors[i].name = ConstNames[i]
  <2> DEFINE w == NewVector(ConstNames[i], <<Number>>, 0)
  <2>1. <<Number>> \in Seq(Value) /\ ConstNames[i] \in Names /\ 0 \in Nat
    BY <1>2, ConstantTypes
  <2>2. w \in Vector /\ w.name = ConstNames[i]
    BY <2>1, NewVectorType
  <2>3. vectors[i] = w
    BY <1>3
  <2> HIDE DEF w, vectors
  <2> QED
    BY <2>2, <2>3
<1>5. vectors \in [1..n -> Vector]
  <2>1. vectors = [i \in 1..n |-> vectors[i]]
    BY <1>2
  <2> HIDE DEF vectors
  <2> QED
    BY <1>4, <2>1
<1>6. vectors \in Seq(Vector) /\ Len(vectors) = n /\ DOMAIN vectors = 1..n
  <2> HIDE DEF vectors
  <2> QED
    BY <1>2, <1>5
<1> DEFINE p == [number |-> Const, scale |-> Last(ConstNames), vectors |-> vectors]
<1>7. ConstPlot = p /\ p.vectors = vectors /\ p.scale = ConstNames[n]
  BY <1>2 DEF ConstPlot, NewVector
<1> HIDE DEF vectors
<1>8. p \in Plot
  BY <1>2, <1>6, ConstantTypes DEF Plot
<1> HIDE DEF p
<1>9. Scaled(p)
  <2>1. \A i, j \in 1..n : vectors[i].name = vectors[j].name => i = j
    <3>1. \A i, j \in 1..n : ConstNames[i] = ConstNames[j] => i = j
      BY <1>2, SavesAssumption DEF IsInjective
    <3> QED
      BY <1>4, <3>1
  <2>2. vectors # <<>> /\ vectors[n].name = ConstNames[n] /\ n \in 1..n
    BY <1>2, <1>4, <1>6
  <2> QED
    BY <1>6, <1>7, <2>1, <2>2 DEF Scaled, Range
<1>10. Sound(plots)
  <2>1. plots = <<p>>
    BY <1>7 DEF Init
  <2>2. plots \in Seq(Plot) /\ DOMAIN plots = {1} /\ plots[1] = p
    BY <1>8, <2>1
  <2> QED
    BY <1>9, <2>2 DEF Sound
<1>11. RunTyped /\ RestTyped /\ ToldTyped
  <2>1. names \in Seq(Names)
    BY DEF Init
  <2> QED
    BY <2>1 DEF Init, RunTyped, RestTyped, ToldTyped
<1> QED
  BY <1>1, <1>10, <1>11, Parts

LEMMA NewPlotSound ==
  ASSUME NEW n \in Numbers, NEW s \in Saves
  PROVE  LET p == [number |-> n, scale |-> s[1], vectors |-> VectorsFor(s)]
         IN  /\ p \in Plot /\ Scaled(p)
             /\ Prepared(VectorsFor(s), Len(s)) \in Seq(Names)
<1> DEFINE L == Len(s)
           v == VectorsFor(s)
           p == [number |-> n, scale |-> s[1], vectors |-> v]
<1>1. L \in Nat \ {0} /\ DOMAIN s = 1..L /\ \A i \in 1..L : s[i] \in Names
  BY SavesFacts, ConstantTypes
<1>2. /\ v \in Seq({v[j] : j \in 1..L}) /\ Len(v) = L
      /\ \A j \in 1..L : L + 1 - j \in 1..L
                         /\ v[j] = NewVector(s[L + 1 - j], <<>>, L + 1 - j)
  BY NewVectors DEF NewVector
<1> HIDE DEF v
<1>3. ASSUME NEW j \in 1..L PROVE v[j] \in Vector /\ v[j].name = s[L + 1 - j] /\ v[j].name \in Names
  <2>1. s[L + 1 - j] \in Names /\ L + 1 - j \in Nat /\ <<>> \in Seq(Value)
    BY <1>1, <1>2
  <2>2. v[j] = NewVector(s[L + 1 - j], <<>>, L + 1 - j)
    BY <1>2
  <2> DEFINE w == NewVector(s[L + 1 - j], <<>>, L + 1 - j)
  <2>3. w \in Vector /\ w.name = s[L + 1 - j]
    BY <2>1, NewVectorType
  <2> HIDE DEF w
  <2> QED
    BY <2>1, <2>2, <2>3 DEF w
<1>4. DOMAIN v = 1..L
  BY <1>1, <1>2
<1>5. v \in Seq(Vector)
  <2>1. {v[j] : j \in 1..L} \subseteq Vector
    BY <1>3
  <2> QED
    BY <1>2, <2>1
<1>6. p \in Plot /\ p.vectors = v /\ p.scale = s[1]
  BY <1>1, <1>5 DEF Plot
<1> HIDE DEF p
<1>7. \A i, j \in 1..L : v[i].name = v[j].name => i = j
  <2> SUFFICES ASSUME NEW i \in 1..L, NEW j \in 1..L, v[i].name = v[j].name PROVE i = j
    OBVIOUS
  <2>1. s[L + 1 - i] = s[L + 1 - j] /\ L + 1 - i \in 1..L /\ L + 1 - j \in 1..L
    BY <1>2, <1>3
  <2>2. L + 1 - i = L + 1 - j
    BY <1>1, <2>1, SavesAssumption DEF IsInjective
  <2> QED
    BY <1>1, <2>2
<1>8. L \in 1..L /\ v[L].name = s[1] /\ v # <<>>
  <2>1. L + 1 - L = 1 /\ L \in 1..L
    BY <1>1
  <2> QED
    BY <1>1, <1>2, <1>3, <2>1
<1>9. Scaled(p)
  BY <1>4, <1>6, <1>7, <1>8 DEF Scaled, Range
<1>10. Prepared(v, L) \in Seq(Names)
  <2>1. Prepared(v, L) \in [1..L -> Names]
    BY <1>3 DEF Prepared
  <2> QED
    BY <1>1, <2>1, SequenceOf
<1> QED
  BY <1>6, <1>9, <1>10 DEF p, v

LEMMA BeginPlotTyped ==
  ASSUME OInv, NEW n \in Numbers, NEW s \in Saves, NEW none \in BOOLEAN, BeginPlot(n, s, none)
  PROVE  OInv'
<1> DEFINE p == [number |-> n, scale |-> s[1], vectors |-> VectorsFor(s)]
<1>1. /\ plots' = <<p>> \o plots
      /\ run' = [plot |-> n, state |-> "running", saves |-> s, gone |-> {}, points |-> 0]
      /\ savenone' = (savenone \/ none) /\ names' = Prepared(VectorsFor(s), Len(s))
      /\ touched' = FALSE /\ missed' = {} /\ told' = NotTold /\ wild' = wild
  BY DEF BeginPlot
<1>2. p \in Plot /\ Scaled(p) /\ Prepared(VectorsFor(s), Len(s)) \in Seq(Names) /\ p.number = n
  BY NewPlotSound
<1> HIDE DEF p
<1>3. IInv'
  BY BeginPlotStep DEF OInv
<1>4. Sound(plots')
  BY <1>1, <1>2, SoundPlots, SoundFront
<1>5. RunTyped'
  <2>1. run' \in Run
    <3>1. n \in Numbers \cup {Freed} /\ {} \in SUBSET Nat /\ 0 \in 0..MaxPoints
      BY ConstantTypes
    <3> QED
      BY <1>1, <3>1 DEF Run
  <2>2. 1 \in DOMAIN plots' /\ plots'[1] = p
    BY <1>1, FrontPlaces DEF OInv, TypeOK
  <2>3. run'.plot = n
    BY <1>1
  <2>4. run'.plot \in {q.number : q \in Range(plots')}
    BY <1>2, <2>2, <2>3 DEF Range
  <2> QED
    BY <2>1, <2>4 DEF RunTyped
<1>6. RestTyped' /\ ToldTyped'
  BY <1>1, <1>2 DEF OInv, TypeOK, RestTyped, ToldTyped
<1> QED
  BY <1>3, <1>4, <1>5, <1>6, PartsNext

(* A plot whose vectors keep their names and places.                       *)
LEMMA SameNames ==
  ASSUME NEW p \in Plot, Scaled(p), NEW vs \in Seq(Vector), Len(vs) = Len(p.vectors),
         \A i \in DOMAIN p.vectors : vs[i].name = p.vectors[i].name
  PROVE  /\ [p EXCEPT !.vectors = vs] \in Plot /\ Scaled([p EXCEPT !.vectors = vs])
         /\ [p EXCEPT !.vectors = vs].number = p.number
<1> DEFINE q == [p EXCEPT !.vectors = vs]
<1>1. q \in Plot /\ q.vectors = vs /\ q.scale = p.scale /\ q.number = p.number
  BY DEF Plot
<1>2. p.vectors \in Seq(Vector)
  BY DEF Plot
<1>3. DOMAIN vs = DOMAIN p.vectors
  BY <1>2
<1> HIDE DEF q
<1>4. \A i, j \in DOMAIN vs : vs[i].name = vs[j].name => i = j
  BY <1>3 DEF Scaled
<1>5. ASSUME vs = <<>> PROVE Scaled(q)
  <2>1. p.vectors = <<>>
    BY <1>2, <1>5
  <2>2. q.scale = NoScale
    BY <1>1, <2>1 DEF Scaled
  <2> QED
    BY <1>1, <1>4, <1>5, <2>2 DEF Scaled
<1>6. ASSUME vs # <<>> PROVE Scaled(q)
  <2>1. p.vectors # <<>>
    BY <1>2, <1>6
  <2>2. PICK i \in DOMAIN p.vectors : p.vectors[i].name = p.scale
    BY <2>1 DEF Scaled, Range
  <2>3. i \in DOMAIN vs /\ vs[i].name = q.scale
    BY <1>1, <1>3, <2>2
  <2>4. \E v \in Range(vs) : v.name = q.scale
    BY <2>3 DEF Range
  <2> QED
    BY <1>1, <1>4, <1>6, <2>4 DEF Scaled
<1>7. Scaled(q)
  BY <1>5, <1>6
<1> QED
  BY <1>1, <1>7 DEF q

LEMMA WrittenType ==
  ASSUME run \in Run, run.points < MaxPoints, NEW found, found \subseteq Slots, NEW v \in Vector
  PROVE  Written(v, found) \in Vector /\ Written(v, found).name = v.name
<1>1. CASE v.slot \notin found
  BY <1>1 DEF Written
<1>2. CASE v.slot \in found
  <2> DEFINE value == <<run.saves[v.slot], run.points + 1>>
             data == IF savenone THEN <<value>> ELSE Append(v.data, value)
  <2>1. run.saves[v.slot] \in Names /\ run.points + 1 \in 1..MaxPoints
    <3>1. run.saves \in Saves /\ run.points \in 0..MaxPoints /\ v.slot \in DOMAIN run.saves
      BY <1>2 DEF Run, Slots
    <3>2. run.saves[v.slot] \in Quantities
      BY <3>1, SavesFacts
    <3> QED
      BY <3>1, <3>2, ConstantTypes
  <2>2. value \in Value
    BY <2>1 DEF Value
  <2> HIDE DEF value
  <2>3. v.data \in Seq(Value)
    BY DEF Vector
  <2>4. data \in Seq(Value)
    BY <2>2, <2>3
  <2>5. Written(v, found) = [v EXCEPT !.data = data]
    BY <1>2 DEF Written, value
  <2> HIDE DEF data
  <2> QED
    BY <2>4, <2>5 DEF Vector
<1> QED
  BY <1>1, <1>2

LEMMA AddPointSound ==
  ASSUME OInv, run \in Run, run.points < MaxPoints, NEW found, found \subseteq Slots
  PROVE  /\ Sound(AddPoint(found)) /\ DOMAIN AddPoint(found) = DOMAIN plots
         /\ \A i \in DOMAIN plots : AddPoint(found)[i].number = plots[i].number
<1> DEFINE list == AddPoint(found)
<1>1. plots \in Seq(Plot) /\ Sound(plots)
  BY SoundPlots DEF Sound
<1>2. DOMAIN list = DOMAIN plots /\ list = [i \in DOMAIN plots |-> list[i]]
  BY DEF AddPoint
<1>3. ASSUME NEW i \in DOMAIN plots
      PROVE  list[i] \in Plot /\ Scaled(list[i]) /\ list[i].number = plots[i].number
  <2> DEFINE p == plots[i]
             vs == [j \in DOMAIN p.vectors |-> Written(p.vectors[j], found)]
  <2>1. p \in Plot /\ Scaled(p)
    BY <1>1 DEF Sound
  <2>2. list[i] = IF p.number # run.plot THEN p ELSE [p EXCEPT !.vectors = vs]
    BY <2>1 DEF AddPoint, Plot
  <2>3. p.vectors \in Seq(Vector)
    BY <2>1 DEF Plot
  <2>4. ASSUME NEW j \in DOMAIN p.vectors PROVE vs[j] \in Vector /\ vs[j].name = p.vectors[j].name
    <3>1. p.vectors[j] \in Vector /\ vs[j] = Written(p.vectors[j], found)
      BY <2>3
    <3> QED
      BY <3>1, WrittenType
  <2>5. vs \in Seq(Vector) /\ Len(vs) = Len(p.vectors)
    <3>1. DOMAIN p.vectors = 1..Len(p.vectors) /\ Len(p.vectors) \in Nat
      BY <2>3
    <3>2. vs \in [1..Len(p.vectors) -> Vector]
      BY <2>4, <3>1
    <3> HIDE DEF vs, p
    <3> QED
      BY <3>1, <3>2, SequenceOf
  <2> HIDE DEF vs, p, list
  <2>6. [p EXCEPT !.vectors = vs] \in Plot /\ Scaled([p EXCEPT !.vectors = vs])
        /\ [p EXCEPT !.vectors = vs].number = p.number
    BY <2>1, <2>4, <2>5, SameNames
  <2>7. list[i] \in Plot /\ Scaled(list[i]) /\ list[i].number = p.number
    BY <2>1, <2>2, <2>6
  <2> QED
    BY <2>7 DEF p
<1> HIDE DEF list
<1>4. list \in Seq(Plot)
  <2>1. DOMAIN plots = 1..Len(plots) /\ Len(plots) \in Nat
    BY <1>1
  <2>2. list \in [1..Len(plots) -> Plot]
    BY <1>2, <1>3, <2>1
  <2> QED
    BY <2>1, <2>2, SequenceOf
<1> QED
  BY <1>2, <1>3, <1>4 DEF Sound, list

LEMMA SentType ==
  ASSUME names \in Seq(Names), NEW vs \in Seq(Vector), Sendable(vs)
  PROVE  Sent(vs) \subseteq Names \X Value
<1> SUFFICES ASSUME NEW i \in DOMAIN vs
             PROVE  <<names[i], vs[i].data[LastIndex(vs)]>> \in Names \X Value
  BY DEF Sent
<1>1. Len(vs) <= Len(names) /\ LastIndex(vs) \in DOMAIN vs[i].data
  BY DEF Sendable
<1>2. i \in DOMAIN names
  BY <1>1
<1>3. vs[i] \in Vector
  OBVIOUS
<1>4. vs[i].data \in Seq(Value)
  BY <1>3 DEF Vector
<1>5. names[i] \in Names /\ vs[i].data[LastIndex(vs)] \in Value
  BY <1>1, <1>2, <1>4
<1> QED
  BY <1>5

LEMMA DataTyped ==
  ASSUME OInv, NEW found, run # NoRun => found \subseteq Slots, Data(found)
  PROVE  OInv'
<1>1. /\ run # NoRun /\ run \in Run /\ run.points < MaxPoints
      /\ plots' = AddPoint(found) /\ run' = [run EXCEPT !.points = @ + 1]
      /\ missed' = missed \cup {run.saves[i] : i \in Slots \ found}
      /\ UNCHANGED <<savenone, names, touched>>
      /\ Slots \ found \subseteq {i \in Slots : run.saves[i] \in Specials}
  BY DEF Data, Busy, OInv, TypeOK
<1>2. /\ Sound(plots') /\ DOMAIN plots' = DOMAIN plots
      /\ \A i \in DOMAIN plots : plots'[i].number = plots[i].number
  BY <1>1, AddPointSound
<1>3. IInv'
  BY DataStep DEF OInv
<1>4. RunTyped'
  <2>1. run.points \in 0..MaxPoints /\ MaxPoints \in Nat
    BY <1>1, ConstantTypes DEF Run
  <2>2. run' \in Run /\ run'.plot = run.plot
    <3>1. run.points + 1 \in 0..MaxPoints
      BY <1>1, <2>1
    <3> QED
      BY <1>1, <3>1 DEF Run
  <2>3. run.plot \in {Freed} \cup {p.number : p \in Range(plots)}
    BY <1>1 DEF OInv, TypeOK
  <2>4. {p.number : p \in Range(plots)} \subseteq {p.number : p \in Range(plots')}
    BY <1>2 DEF Range
  <2> QED
    BY <2>2, <2>3, <2>4 DEF RunTyped
<1> DEFINE vs == AddPoint(found)[IndexOf(plot_cur)].vectors
<1>5. /\ wild' \in BOOLEAN
      /\ told' = NotTold \/ (Sendable(vs) /\ told' = Sent(vs))
  BY DEF Data, OInv, TypeOK
<1>6. vs \in Seq(Vector)
  <2>1. IndexOf(plot_cur) \in DOMAIN plots'
    BY <1>2, Placed DEF OInv
  <2>2. plots'[IndexOf(plot_cur)] \in Plot
    BY <1>2, <2>1 DEF Sound
  <2> QED
    BY <1>1, <2>2 DEF Plot
<1>7. RestTyped'
  BY <1>1, <1>5 DEF RestTyped, OInv, TypeOK
<1>8. ToldTyped'
  <2> HIDE DEF vs
  <2>1. Sendable(vs) => Sent(vs) \subseteq Names \X Value
    BY <1>6, SentType DEF OInv, TypeOK
  <2> QED
    BY <1>5, <2>1 DEF ToldTyped
<1> QED
  BY <1>2, <1>3, <1>4, <1>7, <1>8, PartsNext

(* What every step of the caller leaves to show.                           *)
LEMMA CommandTyped ==
  ASSUME OInv, IInv', Sound(plots'), RunTyped', touched' \in BOOLEAN,
         told' = NotTold, UNCHANGED <<savenone, names, wild, missed>>
  PROVE  OInv'
<1>1. RestTyped' /\ ToldTyped'
  BY DEF RestTyped, ToldTyped, OInv, TypeOK
<1> QED
  BY <1>1, PartsNext

LEMMA PauseTyped ==
  ASSUME OInv, Pause
  PROVE  OInv'
<1>1. /\ run # NoRun /\ run \in Run /\ run' = [run EXCEPT !.state = "paused"]
      /\ run.plot \in {Freed} \cup {p.number : p \in Range(plots)}
      /\ plots' = plots /\ plot_cur' = plot_cur
  BY DEF Pause, Busy, OInv, TypeOK
<1>2. IInv' /\ Sound(plots')
  BY <1>1, SoundPlots DEF OInv, IInv
<1>3. run' \in Run /\ run'.plot = run.plot
  BY <1>1 DEF Run
<1>4. RunTyped'
  BY <1>1, <1>3 DEF RunTyped
<1> QED
  BY <1>2, <1>4, CommandTyped DEF Pause, OInv, TypeOK

LEMMA ResumeTyped ==
  ASSUME OInv, Resume
  PROVE  OInv'
<1>1. /\ run # NoRun /\ run \in Run /\ run' = [run EXCEPT !.state = "running"]
      /\ run.plot \in {Freed} \cup {p.number : p \in Range(plots)}
      /\ plots' = plots /\ plot_cur' = plot_cur
      /\ told' = NotTold /\ UNCHANGED <<savenone, touched, missed>>
  BY DEF Resume, Paused, OInv, TypeOK
<1>2. IInv' /\ Sound(plots')
  BY <1>1, SoundPlots DEF OInv, IInv
<1>3. run' \in Run /\ run'.plot = run.plot
  BY <1>1 DEF Run
<1>4. RunTyped'
  BY <1>1, <1>3 DEF RunTyped
<1>5. wild' \in BOOLEAN /\ names' \in Seq(Names)
  <2> DEFINE vs == PlotOf(run.plot).vectors
             n  == Len(run.saves)
  <2>1. CASE run.plot # Freed /\ Len(vs) >= n
    <3>1. \E i \in DOMAIN plots : plots[i].number = run.plot
      BY <1>1, <2>1 DEF Range
    <3>2. PlotOf(run.plot) \in Plot
      BY <3>1, IndexOfFound DEF PlotOf, OInv, TypeOK
    <3>3. vs \in Seq(Vector)
      BY <3>2 DEF Plot
    <3>4. n \in Nat
      BY <1>1, SavesFacts DEF Run
    <3>5. names' = Prepared(vs, n) /\ wild' = wild
      BY <2>1 DEF Resume
    <3> HIDE DEF vs, n
    <3>6. ASSUME NEW i \in 1..n PROVE vs[i].name \in Names
      <4>1. i \in 1..Len(vs)
        BY <1>1, <2>1, <3>3, <3>4
      <4>2. vs[i] \in Vector
        BY <3>3, <4>1
      <4> QED
        BY <4>2 DEF Vector
    <3>7. Prepared(vs, n) \in [1..n -> Names]
      BY <3>6 DEF Prepared
    <3> QED
      BY <3>4, <3>5, <3>7, SequenceOf DEF OInv, TypeOK
  <2>2. CASE ~(run.plot # Freed /\ Len(vs) >= n)
    BY <2>2 DEF Resume, OInv, TypeOK
  <2> QED
    BY <2>1, <2>2
<1>6. RestTyped' /\ ToldTyped'
  BY <1>1, <1>5 DEF RestTyped, ToldTyped, OInv, TypeOK
<1> QED
  BY <1>2, <1>4, <1>6, PartsNext

LEMMA EndTyped ==
  ASSUME OInv, End
  PROVE  OInv'
<1>1. /\ run' = NoRun /\ plots' = plots /\ plot_cur' = plot_cur
      /\ told' = NotTold /\ touched' = FALSE /\ missed' = {}
      /\ UNCHANGED <<savenone, names, wild>>
  BY DEF End
<1>2. IInv' /\ Sound(plots')
  BY <1>1, SoundPlots DEF OInv, IInv
<1>3. RunTyped'
  BY <1>1 DEF RunTyped
<1>4. RestTyped' /\ ToldTyped'
  BY <1>1 DEF RestTyped, ToldTyped, OInv, TypeOK
<1> QED
  BY <1>2, <1>3, <1>4, PartsNext

(* let keeps a plot as it should be: a vector of a new name is linked in   *)
(* front, and is the scale where there was none.                           *)
LEMMA AssignedSound ==
  ASSUME NEW p \in Plot, Scaled(p), NEW name \in Names, NEW data \in Seq(Value)
  PROVE  /\ Assigned(p, name, data) \in Plot /\ Scaled(Assigned(p, name, data))
         /\ Assigned(p, name, data).number = p.number
<1> DEFINE old == p.vectors
<1>1. old \in Seq(Vector) /\ Len(old) \in Nat /\ DOMAIN old = 1..Len(old)
      /\ \A i \in DOMAIN old : old[i] \in Vector
  BY DEF Plot
<1>2. CASE \E v \in Range(old) : v.name = name
  <2> DEFINE vs == [i \in DOMAIN old |->
                       IF old[i].name = name THEN [old[i] EXCEPT !.data = data] ELSE old[i]]
  <2>1. Assigned(p, name, data) = [p EXCEPT !.vectors = vs]
    BY <1>2 DEF Assigned, Plot
  <2>2. ASSUME NEW i \in DOMAIN old PROVE vs[i] \in Vector /\ vs[i].name = old[i].name
    <3>1. vs[i] = IF old[i].name = name THEN [old[i] EXCEPT !.data = data] ELSE old[i]
      OBVIOUS
    <3>2. old[i] \in Vector
      BY <1>1
    <3> HIDE DEF vs, old
    <3> QED
      BY <3>1, <3>2 DEF Vector
  <2>3. vs \in [1..Len(old) -> Vector]
    BY <1>1, <2>2
  <2> HIDE DEF vs
  <2>4. vs \in Seq(Vector) /\ Len(vs) = Len(old)
    BY <1>1, <2>3, SequenceOf
  <2> QED
    BY <2>1, <2>2, <2>4, SameNames
<1>3. CASE ~ \E v \in Range(old) : v.name = name
  <2> DEFINE w  == NewVector(name, data, 0)
             vs == <<w>> \o old
             scale == IF p.scale = NoScale THEN name ELSE p.scale
             q == [p EXCEPT !.vectors = vs, !.scale = scale]
  <2>1. Assigned(p, name, data) = q
    BY <1>3 DEF Assigned, Plot, NewVector
  <2>2. w \in Vector /\ w.name = name
    BY NewVectorType
  <2> HIDE DEF w
  <2>3. /\ vs \in Seq(Vector) /\ Len(vs) = Len(old) + 1 /\ vs # <<>>
        /\ \A i \in 1..(Len(old) + 1) : vs[i] = IF i = 1 THEN w ELSE old[i - 1]
    BY <1>1, <2>2
  <2>4. DOMAIN vs = 1..(Len(old) + 1)
    BY <1>1, <2>3
  <2> HIDE DEF vs
  <2>5. scale \in Names \cup {NoScale}
    BY DEF Plot
  <2>6. q \in Plot /\ q.vectors = vs /\ q.scale = scale /\ q.number = p.number
    <3> HIDE DEF scale
    <3> QED
      BY <2>3, <2>5 DEF Plot
  <2>7. \A i \in 1..Len(old) : old[i].name # name
    BY <1>1, <1>3 DEF Range
  <2>8. ASSUME NEW i \in 1..(Len(old) + 1), NEW j \in 1..(Len(old) + 1), vs[i].name = vs[j].name
        PROVE  i = j
    <3>1. CASE i = 1 /\ j # 1
      <4>1. j - 1 \in 1..Len(old)
        BY <1>1, <3>1
      <4> QED
        BY <2>2, <2>3, <2>7, <2>8, <3>1, <4>1
    <3>2. CASE i # 1 /\ j = 1
      <4>1. i - 1 \in 1..Len(old)
        BY <1>1, <3>2
      <4> QED
        BY <2>2, <2>3, <2>7, <2>8, <3>2, <4>1
    <3>3. CASE i # 1 /\ j # 1
      <4>1. i - 1 \in 1..Len(old) /\ j - 1 \in 1..Len(old)
        BY <1>1, <3>3
      <4>2. old[i - 1].name = old[j - 1].name
        BY <2>3, <2>8, <3>3
      <4>3. i - 1 = j - 1
        BY <1>1, <4>1, <4>2 DEF Scaled
      <4> QED
        BY <4>3
    <3> QED
      BY <3>1, <3>2, <3>3
  <2>9. \E i \in DOMAIN vs : vs[i].name = scale
    <3>1. CASE p.scale = NoScale
      <4>1. 1 \in DOMAIN vs /\ vs[1] = w
        BY <1>1, <2>3, <2>4
      <4> QED
        BY <2>2, <3>1, <4>1
    <3>2. CASE p.scale # NoScale
      <4>1. PICK i \in 1..Len(old) : old[i].name = p.scale
        BY <1>1, <3>2 DEF Scaled, Range
      <4>2. i + 1 \in 1..(Len(old) + 1) /\ i + 1 # 1 /\ (i + 1) - 1 = i
        BY <1>1
      <4>3. vs[i + 1] = old[i]
        BY <2>3, <4>2
      <4> QED
        BY <2>4, <3>2, <4>1, <4>2, <4>3
    <3> QED
      BY <3>1, <3>2
  <2> HIDE DEF q, scale
  <2>10. Scaled(q)
    <3>1. \E v \in Range(vs) : v.name = scale
      BY <2>9 DEF Range
    <3> QED
      BY <2>3, <2>4, <2>6, <2>8, <3>1 DEF Scaled
  <2> QED
    BY <2>1, <2>6, <2>10
<1> QED
  BY <1>2, <1>3

LEMMA LetTyped ==
  ASSUME OInv, NEW name \in UserNames, NEW data \in Sources, Let(name, data)
  PROVE  OInv'
<1> DEFINE k == IndexOf(Target(name))
           p == plots[k]
           q == Assigned(p, name, data)
<1>1. Sound(plots) /\ plots \in Seq(Plot)
  BY SoundPlots DEF Sound
<1>2. k \in DOMAIN plots
  BY Placed DEF Target, OInv
<1>3. /\ plots' = [plots EXCEPT ![k] = q] /\ plot_cur' = plot_cur /\ run' = run
      /\ touched' = (touched \/ (Paused /\ run.plot = Target(name)))
      /\ told' = NotTold /\ UNCHANGED <<savenone, names, wild, missed>>
  BY <1>2 DEF Let, Command
<1>4. data \in Seq(Value)
  <2>1. <<Number>> \in Seq(Value)
    BY ConstantTypes
  <2>2. PlotOf(plot_cur) \in Plot
    BY <1>1, Placed DEF PlotOf, OInv
  <2>3. PlotOf(plot_cur).vectors \in Seq(Vector)
    BY <2>2 DEF Plot
  <2>4. ASSUME NEW v \in Range(PlotOf(plot_cur).vectors) PROVE v.data \in Seq(Value)
    <3>1. v \in Vector
      BY <2>3 DEF Range
    <3> QED
      BY <3>1 DEF Vector
  <2> QED
    BY <2>1, <2>4 DEF Sources
<1> HIDE DEF k
<1>5. p \in Plot /\ Scaled(p) /\ name \in Names
  BY <1>1, <1>2, ConstantTypes DEF Sound
<1>6. q \in Plot /\ Scaled(q) /\ q.number = p.number
  <2> HIDE DEF p
  <2> QED
    BY <1>4, <1>5, AssignedSound
<1> HIDE DEF q
<1>7. Sound(plots')
  BY <1>1, <1>2, <1>3, <1>6, SoundChange
<1>8. RunTyped'
  <2>1. DOMAIN plots' = DOMAIN plots
        /\ \A i \in DOMAIN plots : plots'[i].number = plots[i].number
    BY <1>1, <1>2, <1>3, <1>6
  <2> QED
    BY <1>3, <2>1, SameRun DEF RunTyped, OInv, TypeOK
<1>9. IInv'
  BY LetStep DEF OInv
<1> QED
  BY <1>3, <1>7, <1>8, <1>9, CommandTyped DEF OInv, TypeOK

(* A sweep keeps a plot as it should be: what is left has distinct names,  *)
(* and another scale where the scale is gone.                              *)
SweptScale(p, left) ==
    IF \E v \in Range(left) : v.name = p.scale THEN p.scale
    ELSE IF left = <<>> THEN NoScale ELSE left[1].name
Swept(p, left) == [p EXCEPT !.vectors = left, !.scale = SweptScale(p, left)]

LEMMA SweptSound ==
  ASSUME NEW p \in Plot, Scaled(p), NEW keep, keep \subseteq DOMAIN p.vectors,
         NEW left, left = Only(p.vectors, keep)
  PROVE  /\ Swept(p, left) \in Plot /\ Scaled(Swept(p, left))
         /\ Swept(p, left).number = p.number
<1> DEFINE old == p.vectors
           n == Cardinality(keep)
           scale == SweptScale(p, left)
           q == [p EXCEPT !.vectors = left, !.scale = scale]
<1>1. old \in Seq(Vector)
  BY DEF Plot
<1>2. /\ left \in Seq(Vector) /\ Len(left) = n /\ n \in Nat
      /\ \A k \in 1..n : Nth(keep, k) \in keep /\ left[k] = old[Nth(keep, k)]
      /\ \A k, l \in 1..n : k < l => Nth(keep, k) < Nth(keep, l)
  BY <1>1, OnlyProperties
<1> HIDE DEF n
<1>3. DOMAIN left = 1..n /\ \A k \in 1..n : left[k].name \in Names
  <2>1. DOMAIN left = 1..n
    BY <1>2
  <2>2. ASSUME NEW k \in 1..n PROVE left[k].name \in Names
    <3>1. left[k] \in Vector
      BY <1>2, <2>1
    <3> QED
      BY <3>1 DEF Vector
  <2> QED
    BY <2>1, <2>2
<1>4. \A k \in 1..n : Nth(keep, k) \in Nat
  BY <1>1, <1>2
<1>5. ASSUME NEW i \in 1..n, NEW j \in 1..n, left[i].name = left[j].name PROVE i = j
  <2>1. Nth(keep, i) = Nth(keep, j)
    <3>1. Nth(keep, i) \in DOMAIN old /\ Nth(keep, j) \in DOMAIN old
          /\ old[Nth(keep, i)].name = old[Nth(keep, j)].name
      BY <1>2, <1>5
    <3> QED
      BY <3>1 DEF Scaled
  <2>2. ~(i < j) /\ ~(j < i)
    BY <1>2, <1>4, <2>1
  <2> QED
    BY <2>2
<1>6. scale \in Names \cup {NoScale} /\ IF left = <<>> THEN scale = NoScale
                                         ELSE \E v \in Range(left) : v.name = scale
  <2>1. CASE \E v \in Range(left) : v.name = p.scale
    <3>1. scale = p.scale /\ left # <<>>
      BY <1>2, <2>1 DEF SweptScale, Range
    <3>2. p.scale \in Names \cup {NoScale}
      BY DEF Plot
    <3> QED
      BY <2>1, <3>1, <3>2
  <2>2. CASE left = <<>>
    <3>1. Range(left) = {}
      BY <2>2 DEF Range
    <3> QED
      BY <2>2, <3>1 DEF SweptScale
  <2>3. CASE (~ \E v \in Range(left) : v.name = p.scale) /\ left # <<>>
    <3>1. scale = left[1].name /\ 1 \in 1..n
      BY <1>2, <2>3 DEF SweptScale
    <3>2. left[1] \in Range(left)
      BY <1>3, <3>1 DEF Range
    <3> QED
      BY <1>3, <2>3, <3>1, <3>2
  <2> QED
    BY <2>1, <2>2, <2>3
<1> HIDE DEF scale
<1>7. q \in Plot /\ q.vectors = left /\ q.scale = scale /\ q.number = p.number
  BY <1>2, <1>6 DEF Plot
<1> HIDE DEF q
<1>8. Scaled(q)
  BY <1>3, <1>5, <1>6, <1>7 DEF Scaled
<1> QED
  BY <1>7, <1>8 DEF q, scale, Swept

LEMMA SweepTyped ==
  ASSUME OInv, NEW keep, keep \subseteq DOMAIN CurVectors, Sweep(Only(CurVectors, keep)), Command
  PROVE  OInv'
<1> DEFINE k == IndexOf(plot_cur)
           p == plots[k]
           left == Only(CurVectors, keep)
           scale == SweptScale(p, left)
           q == [p EXCEPT !.vectors = left, !.scale = scale]
<1>1. Sound(plots) /\ plots \in Seq(Plot)
  BY SoundPlots DEF Sound
<1>2. k \in DOMAIN plots
  BY Placed DEF OInv
<1>3. p \in Plot /\ Scaled(p) /\ CurVectors = p.vectors /\ p.vectors \in Seq(Vector)
  <2>1. p \in Plot /\ Scaled(p) /\ CurVectors = p.vectors
    BY <1>1, <1>2 DEF Sound, CurVectors, PlotOf
  <2> HIDE DEF p
  <2> QED
    BY <2>1 DEF Plot
<1>4. plots' = [plots EXCEPT ![k] = q] /\ plot_cur' = plot_cur
  BY <1>2, <1>3 DEF Sweep, SweptScale
<1>5. q \in Plot /\ Scaled(q) /\ q.number = p.number
  <2>1. left = Only(p.vectors, keep) /\ keep \subseteq DOMAIN p.vectors
    BY <1>3
  <2>2. p \in Plot /\ Scaled(p)
    BY <1>3
  <2> HIDE DEF left, p
  <2>3. Swept(p, left) \in Plot /\ Scaled(Swept(p, left)) /\ Swept(p, left).number = p.number
    BY <2>1, <2>2, SweptSound
  <2> QED
    BY <2>3 DEF Swept
<1>6. IInv'
  BY SweepStep DEF OInv
<1>7. /\ run # NoRun => \/ run' = run
                        \/ run' = [run EXCEPT !.gone =
                                      @ \cup {v.slot : v \in Range(p.vectors) \ Range(left)}]
      /\ run = NoRun => run' = run
      /\ touched' \in BOOLEAN
  BY DEF Sweep, Paused, OInv, TypeOK
<1> HIDE DEF k, q, left
<1>8. Sound(plots')
  BY <1>1, <1>2, <1>4, <1>5, SoundChange
<1>9. {p2.number : p2 \in Range(plots)} \subseteq {p2.number : p2 \in Range(plots')}
  <2>1. DOMAIN plots' = DOMAIN plots
        /\ \A i \in DOMAIN plots : plots'[i].number = plots[i].number
    BY <1>1, <1>2, <1>4, <1>5
  <2> QED
    BY <2>1 DEF Range
<1>10. RunTyped'
  <2>1. CASE run' = run
    BY <1>9, <2>1 DEF RunTyped, OInv, TypeOK
  <2>2. CASE run # NoRun /\ run' # run
    <3> DEFINE gone == {v.slot : v \in Range(p.vectors) \ Range(left)}
    <3>1. \A v \in Range(p.vectors) : v.slot \in Nat
      <4>1. \A v \in Range(p.vectors) : v \in Vector
        BY <1>3 DEF Range
      <4> QED
        BY <4>1 DEF Vector
    <3>2. gone \subseteq Nat
      BY <3>1
    <3>3. run' = [run EXCEPT !.gone = @ \cup gone]
      BY <1>7, <2>2
    <3> HIDE DEF gone
    <3>4. run \in Run /\ run.plot \in {Freed} \cup {p2.number : p2 \in Range(plots)}
      BY <2>2 DEF OInv, TypeOK
    <3>5. run' \in Run /\ run'.plot = run.plot
      BY <3>2, <3>3, <3>4 DEF Run
    <3> QED
      BY <1>9, <3>4, <3>5 DEF RunTyped
  <2> QED
    BY <1>7, <2>1, <2>2
<1> QED
  BY <1>6, <1>7, <1>8, <1>10, CommandTyped DEF Command

LEMMA SetPlotTyped ==
  ASSUME OInv, NEW n \in Numbers, SetPlot(n)
  PROVE  OInv'
<1>1. IInv' /\ Sound(plots')
  BY SetPlotStep, SoundPlots DEF OInv, SetPlot
<1>2. RunTyped'
  BY DEF SetPlot, RunTyped, OInv, TypeOK
<1> QED
  BY <1>1, <1>2, CommandTyped DEF SetPlot, Command, OInv, TypeOK

LEMMA SetPlotNewTyped ==
  ASSUME OInv, NEW n \in Numbers, SetPlotNew(n)
  PROVE  OInv'
<1> DEFINE p == [number |-> n, scale |-> NoScale, vectors |-> <<>>]
<1>1. plots' = <<p>> \o plots
  BY DEF SetPlotNew
<1>2. p \in Plot /\ Scaled(p)
  <2>1. <<>> \in Seq(Vector)
    OBVIOUS
  <2>2. p \in Plot
    BY <2>1 DEF Plot
  <2> QED
    BY <2>2 DEF Scaled
<1>3. Sound(plots) /\ plots \in Seq(Plot)
  BY SoundPlots DEF Sound
<1> HIDE DEF p
<1>4. Sound(plots')
  BY <1>1, <1>2, <1>3, SoundFront
<1>5. RunTyped'
  <2>1. \A i \in DOMAIN plots : \E j \in DOMAIN plots' : plots'[j].number = plots[i].number
    <3>1. \A i \in DOMAIN plots : /\ i + 1 \in DOMAIN (<<p>> \o plots)
                                 /\ (<<p>> \o plots)[i + 1] = plots[i]
      BY <1>3, FrontPlaces
    <3> QED
      BY <1>1, <3>1
  <2> QED
    BY <2>1, SameRun DEF SetPlotNew, RunTyped, OInv, TypeOK
<1>6. IInv'
  BY SetPlotNewStep DEF OInv
<1> QED
  BY <1>4, <1>5, <1>6, CommandTyped DEF SetPlotNew, Command, OInv, TypeOK

LEMMA DestroyTyped ==
  ASSUME OInv, NEW n \in Numbers, Destroy(n)
  PROVE  OInv'
<1> DEFINE k == IndexOf(n)
           list == RemoveAt(plots, k)
<1>1. Sound(plots) /\ plots \in Seq(Plot)
  BY SoundPlots DEF Sound
<1>2. k \in DOMAIN plots /\ plots[k].number = n
  <2>1. \E i \in DOMAIN plots : plots[i].number = n
    BY DEF Destroy, Range
  <2> QED
    BY <2>1, IndexOfFound
<1>3. /\ plots' = list
      /\ run' = IF Lost(n) THEN [run EXCEPT !.plot = Freed, !.gone = Slots] ELSE run
      /\ touched' = (touched \/ Lost(n)) /\ ~Busy
  BY DEF Destroy, Command
<1> HIDE DEF k
<1>4. /\ list \in Seq(Plot) /\ DOMAIN list = 1..(Len(plots) - 1)
      /\ \A i \in 1..(Len(plots) - 1) : list[i] = plots[IF i < k THEN i ELSE i + 1]
      /\ \A x \in DOMAIN plots : x # k => \E i \in DOMAIN list : list[i] = plots[x]
  BY <1>1, <1>2, Removal
<1> HIDE DEF list
<1>5. Sound(plots')
  <2>1. ASSUME NEW i \in DOMAIN list PROVE Scaled(list[i])
    <3>1. \E x \in DOMAIN plots : list[i] = plots[x]
      <4>1. DOMAIN plots = 1..Len(plots) /\ Len(plots) \in Nat
        BY <1>1
      <4>2. (IF i < k THEN i ELSE i + 1) \in DOMAIN plots
        BY <1>2, <1>4, <4>1
      <4> QED
        BY <1>4, <4>2
    <3> QED
      BY <1>1, <3>1 DEF Sound
  <2> QED
    BY <1>3, <1>4, <2>1 DEF Sound
<1>6. RunTyped'
  <2>1. CASE run = NoRun
    BY <1>3, <2>1 DEF RunTyped, Lost, Paused
  <2>2. CASE run # NoRun
    <3>1. run \in Run /\ run.plot \in {Freed} \cup {p.number : p \in Range(plots)} /\ Paused
      <4>1. run \in Run /\ run.plot \in {Freed} \cup {p.number : p \in Range(plots)}
        BY <2>2 DEF OInv, TypeOK
      <4>2. run.state \in {"running", "paused"}
        BY <4>1 DEF Run
      <4> QED
        BY <1>3, <2>2, <4>1, <4>2 DEF Busy, Paused
    <3>2. CASE Lost(n)
      <4>1. Slots \subseteq Nat
        <5>1. run.saves \in Saves
          BY <3>1 DEF Run
        <5> QED
          BY <5>1, SavesFacts DEF Slots
      <4>2. run' \in Run /\ run'.plot = Freed
        BY <1>3, <3>1, <3>2, <4>1 DEF Run
      <4> QED
        BY <4>2 DEF RunTyped
    <3>3. CASE ~Lost(n)
      <4>1. run' = run /\ run.plot # n
        BY <1>3, <3>1, <3>3 DEF Lost
      <4>2. CASE run.plot = Freed
        BY <3>1, <4>1, <4>2 DEF RunTyped
      <4>3. CASE run.plot # Freed
        <5>1. PICK x \in DOMAIN plots : plots[x].number = run.plot
          BY <3>1, <4>3 DEF Range
        <5>2. x # k
          BY <1>2, <4>1, <5>1
        <5>3. \E i \in DOMAIN list : list[i].number = run.plot
          BY <1>4, <5>1, <5>2
        <5>4. run'.plot \in {p.number : p \in Range(plots')}
          BY <1>3, <4>1, <5>3 DEF Range
        <5> QED
          BY <3>1, <4>1, <5>4 DEF RunTyped
      <4> QED
        BY <4>2, <4>3
    <3> QED
      BY <3>2, <3>3
  <2> QED
    BY <2>1, <2>2
<1>7. IInv'
  BY DestroyStep DEF OInv
<1>8. touched' \in BOOLEAN
  BY <1>3 DEF OInv, TypeOK, Lost, Paused
<1> QED
  BY <1>5, <1>6, <1>7, <1>8, CommandTyped DEF Destroy, Command

LEMMA OStep == OInv /\ [Next]_vars => OInv'
<1> SUFFICES ASSUME OInv, [Next]_vars PROVE OInv'
  OBVIOUS
<1>1. ASSUME NEW n \in Numbers, NEW s \in Saves, NEW none \in BOOLEAN, BeginPlot(n, s, none)
      PROVE  OInv'
  BY <1>1, BeginPlotTyped
<1>2. ASSUME NEW found \in SUBSET (IF run = NoRun THEN {} ELSE Slots), Data(found) PROVE OInv'
  <2>1. run # NoRun => found \subseteq Slots
    OBVIOUS
  <2> QED
    BY <1>2, <2>1, DataTyped
<1>3. CASE Pause
  BY <1>3, PauseTyped
<1>4. CASE Resume
  BY <1>4, ResumeTyped
<1>5. CASE End
  BY <1>5, EndTyped
<1>6. ASSUME NEW name \in UserNames, NEW data \in Sources, Let(name, data) PROVE OInv'
  BY <1>6, LetTyped
<1>7. ASSUME NEW name \in Names, Unlet(name) PROVE OInv'
  <2> DEFINE keep == {i \in DOMAIN CurVectors : CurVectors[i].name # name}
  <2>1. keep \subseteq DOMAIN CurVectors /\ Sweep(Only(CurVectors, keep)) /\ Command
    BY <1>7 DEF Unlet
  <2> HIDE DEF keep
  <2> QED
    BY <2>1, SweepTyped
<1>8. CASE RemZeroVec
  <2> DEFINE keep == {i \in DOMAIN CurVectors : CurVectors[i].data # <<>>}
  <2>1. keep \subseteq DOMAIN CurVectors /\ Sweep(Only(CurVectors, keep)) /\ Command
    BY <1>8 DEF RemZeroVec
  <2> HIDE DEF keep
  <2> QED
    BY <2>1, SweepTyped
<1>9. ASSUME NEW n \in Numbers, SetPlot(n) \/ SetPlotNew(n) \/ Destroy(n) PROVE OInv'
  BY <1>9, SetPlotTyped, SetPlotNewTyped, DestroyTyped
<1>10. CASE UNCHANGED vars
  BY <1>10, Parts DEF vars, OInv, IInv, TypeOK, ScalesSound
<1> QED
  BY <1>1, <1>2, <1>3, <1>4, <1>5, <1>6, <1>7, <1>8, <1>9, <1>10 DEF Next, Simulator, Caller

(* Runs and commands keep the plots, the run and what is sent in their     *)
(* types: a run points to a plot of the list until that is destroyed, the  *)
(* names that are prepared are those of vectors (beginPlot, sh_vecinit),   *)
(* and each value that is sent was written to a vector (OUTpD_memory).     *)
THEOREM OutputTypes == Spec => []TypeOK
<1>1. OInv => TypeOK
  BY DEF OInv
<1> QED
  BY InitTyped, OStep, <1>1, PTL DEF Spec

(* A plot with vectors has its scale among them and their names are        *)
(* distinct, whichever of them are let, released or swept (com_let,        *)
(* com_unlet, com_remzerovec, vec_gc).                                     *)
THEOREM ScalesCorrect == Spec => []ScalesSound
<1>1. OInv => ScalesSound
  BY DEF OInv
<1> QED
  BY InitTyped, OStep, <1>1, PTL DEF Spec
=============================================================================
