--------------------------- MODULE OutputVectors ---------------------------
(***************************************************************************)
(* The output vectors of ngspice: a run begins a plot with a vector for    *)
(* everything it saves (outitf.c), adds a value to each at every time      *)
(* point, and the shared library hands the values of the point to the      *)
(* caller (sh_vecinit, sh_ExecutePerLoop in sharedspice.c).  Between runs, *)
(* and while a run is paused, the commands let, unlet, remzerovec, setplot *)
(* and destroy change the plots (vectors.c, postcoms.c, com_let.c).  Each  *)
(* command ends with a sweep of the vectors that it released (vec_gc).     *)
(*                                                                         *)
(* A value is the pair of the quantity and the number of the point.  What  *)
(* reads or writes outside of the data has no defined effect: wild is TRUE *)
(* and nothing more is said.                                               *)
(***************************************************************************)
EXTENDS Naturals, SequencesExt, Lists

CONSTANTS
    Quantities,     \* what a run can save, time included
    Specials,       \* those of them that are looked up at every point
    Saves,          \* the lists of quantities that the runs save
    UserNames,      \* names for the vectors of the caller
    ConstNames,     \* the vectors of the constant plot, oldest last
    Number,         \* the value of an expression of the caller
    NoRun, Freed,   \* no analysis in progress; a plot that is gone
    NoScale,        \* a plot without vectors has no scale
    NotTold,        \* no data were sent
    MaxPlots,       \* bound on the plots beside the constant one
    MaxPoints       \* bound on the points of a run

ASSUME SavesAssumption ==
    /\ Specials \subseteq Quantities
    /\ \A s \in Saves : s \in Seq(Quantities) /\ s # <<>> /\ IsInjective(s)
    /\ ConstNames \in Seq(Range(ConstNames)) /\ IsInjective(ConstNames) /\ ConstNames # <<>>

ASSUME FreedAssumption == Freed \notin Nat /\ {MaxPlots, MaxPoints} \subseteq Nat

VARIABLES
    plots,          \* plot_list: the newest first, the constant plot last
    plot_cur,       \* the number of the current plot
    run,            \* the runDesc of the analysis in progress, or NoRun
    savenone,       \* outitf.c: keep the last value only
    names,          \* curvecvalsall: the names for the values that are sent
    told,           \* the data that this step sent to the caller, or NotTold
    wild,           \* memory outside of the data was used
    (* History of the run.                                                 *)
    touched,        \* the caller changed the plot while the run was paused
    missed          \* specials that were not found at some point

vars == <<plots, plot_cur, run, savenone, names, told, wild, touched, missed>>

Const   == 0
Numbers == Const..MaxPlots
Names   == Quantities \cup UserNames \cup Range(ConstNames)
Value   == (Names \X (1..MaxPoints)) \cup {Number}
Vector  == [name : Names, data : Seq(Value), slot : Nat]
Plot    == [number : Numbers, scale : Names \cup {NoScale}, vectors : Seq(Vector)]
Run     == [plot : Numbers \cup {Freed}, state : {"running", "paused"},
            saves : Saves, gone : SUBSET Nat, points : 0..MaxPoints]

(* A run's plot exists as long as the run does not say that it is gone.    *)
TypeOK ==
    /\ plots \in Seq(Plot)
    /\ plot_cur \in Numbers
    /\ run \in Run \cup {NoRun}
    /\ run # NoRun => run.plot \in {Freed} \cup {p.number : p \in Range(plots)}
    /\ {savenone, wild, touched} \subseteq BOOLEAN
    /\ names \in Seq(Names)
    /\ told = NotTold \/ told \subseteq Names \X Value
    /\ missed \subseteq Specials

ConstPlot ==
    [number |-> Const, scale |-> Last(ConstNames),
     vectors |-> [i \in DOMAIN ConstNames |->
                     [name |-> ConstNames[i], data |-> <<Number>>, slot |-> 0]]]

Init ==
    /\ plots = <<ConstPlot>> /\ plot_cur = Const
    /\ run = NoRun /\ savenone = FALSE
    /\ names = <<>> /\ told = NotTold /\ wild = FALSE
    /\ touched = FALSE /\ missed = {}

IndexOf(n)  == CHOOSE i \in DOMAIN plots : plots[i].number = n
PlotOf(n)   == plots[IndexOf(n)]
Unused      == Numbers \ {p.number : p \in Range(plots)}
Busy        == run # NoRun /\ run.state = "running"
Paused      == run # NoRun /\ run.state = "paused"

-----------------------------------------------------------------------------
(* The run.                                                                *)

(* plotInit: every vector is linked in front of those before it, so the    *)
(* first that is saved is the scale and the last of the list.              *)
VectorsFor(saves) ==
    Reverse([i \in DOMAIN saves |-> [name |-> saves[i], data |-> <<>>, slot |-> i]])

(* Slip: the names are in the order in which the vectors were made.        *)
PreparedForward(vectors, n) == [i \in 1..n |-> vectors[n + 1 - i].name]

(* Slip: the scale is not counted.                                         *)
PreparedShort(vectors, n) == [i \in 1..(n - 1) |-> vectors[i].name]

(* sh_vecinit: the first vectors of the plot, as many as the run saves.    *)
Prepared(vectors, n) == [i \in 1..n |-> vectors[i].name]

(* beginPlot; save none is never taken back.  An analysis that was paused  *)
(* is forgotten.                                                           *)
BeginPlot(n, saves, none) ==
    /\ ~wild /\ ~Busy /\ n \in Unused
    /\ plots' = <<[number |-> n, scale |-> saves[1], vectors |-> VectorsFor(saves)]>> \o plots
    /\ plot_cur' = n
    /\ savenone' = (savenone \/ none)
    /\ run' = [plot |-> n, state |-> "running", saves |-> saves, gone |-> {}, points |-> 0]
    /\ names' = Prepared(VectorsFor(saves), Len(saves))
    /\ touched' = FALSE /\ missed' = {}
    /\ told' = NotTold /\ UNCHANGED wild

Slots == DOMAIN run.saves
Written(v, found) ==
    IF v.slot \notin found THEN v
    ELSE LET value == <<run.saves[v.slot], run.points + 1>>
         IN  [v EXCEPT !.data = IF savenone THEN <<value>> ELSE Append(@, value)]

(* Slip: the values go to the current plot.                                *)
AddPointCurrent(found) ==
    [i \in DOMAIN plots |->
        IF plots[i].number # plot_cur THEN plots[i]
        ELSE [plots[i] EXCEPT !.vectors = [j \in DOMAIN @ |-> Written(@[j], found)]]]

(* OUTpD_memory: each vector that the run has gets its value, a special    *)
(* one that is not found is left out.                                      *)
AddPoint(found) ==
    [i \in DOMAIN plots |->
        IF plots[i].number # run.plot THEN plots[i]
        ELSE [plots[i] EXCEPT !.vectors = [j \in DOMAIN @ |-> Written(@[j], found)]]]

(* sh_ExecutePerLoop: the last index of the first vector is the index for  *)
(* all of the current plot.  If they are fewer than was prepared for, the  *)
(* rest of what is sent stays as it was; told has what is new.             *)
LastIndex(vectors) == Len(vectors[1].data)

Sent(vectors) ==
    {<<names[i], vectors[i].data[LastIndex(vectors)]>> : i \in DOMAIN vectors}
Sendable(vectors) ==
    /\ Len(vectors) <= Len(names)
    /\ \A i \in DOMAIN vectors : LastIndex(vectors) \in DOMAIN vectors[i].data

(* OUTpData.                                                               *)
Data(found) ==
    /\ ~wild /\ Busy /\ run.points < MaxPoints
    /\ Slots \ found \subseteq {i \in Slots : run.saves[i] \in Specials}
    /\ plots' = AddPoint(found)
    /\ run' = [run EXCEPT !.points = @ + 1]
    /\ missed' = missed \cup {run.saves[i] : i \in Slots \ found}
    /\ LET vectors == AddPoint(found)[IndexOf(plot_cur)].vectors IN
       IF found \cap run.gone # {} \/ vectors = <<>>
       THEN wild' = TRUE /\ told' = NotTold
       ELSE IF LastIndex(vectors) = 0
       THEN told' = NotTold /\ UNCHANGED wild
       ELSE IF Sendable(vectors)
       THEN told' = Sent(vectors) /\ UNCHANGED wild
       ELSE wild' = TRUE /\ told' = NotTold
    /\ UNCHANGED <<plot_cur, savenone, names, touched>>

(* E_PAUSE: the plot stays open.                                           *)
Pause ==
    /\ ~wild /\ Busy
    /\ run' = [run EXCEPT !.state = "paused"] /\ told' = NotTold
    /\ UNCHANGED <<plots, plot_cur, savenone, names, wild, touched, missed>>

(* The relinking call of beginPlot, and sh_vecinit as for a new plot.      *)
Resume ==
    /\ ~wild /\ Paused
    /\ run' = [run EXCEPT !.state = "running"]
    /\ IF run.plot # Freed /\ Len(PlotOf(run.plot).vectors) >= Len(run.saves)
       THEN /\ names' = Prepared(PlotOf(run.plot).vectors, Len(run.saves))
            /\ UNCHANGED wild
       ELSE wild' = TRUE /\ UNCHANGED names
    /\ told' = NotTold
    /\ UNCHANGED <<plots, plot_cur, savenone, touched, missed>>

(* OUTendPlot, an error of the analysis, or reset and remcirc in a pause.  *)
End ==
    /\ ~wild /\ run # NoRun
    /\ run' = NoRun /\ told' = NotTold
    /\ touched' = FALSE /\ missed' = {}
    /\ UNCHANGED <<plots, plot_cur, savenone, names, wild>>

-----------------------------------------------------------------------------
(* The caller's commands.                                                  *)

Command == ~wild /\ ~Busy /\ told' = NotTold /\ UNCHANGED <<savenone, names, wild, missed>>

CurVectors         == PlotOf(plot_cur).vectors
HasVector(n, name) == \E v \in Range(PlotOf(n).vectors) : v.name = name

(* Where let finds a vector of this name, or makes it (vec_get).           *)
Target(name) ==
    IF ~HasVector(plot_cur, name) /\ HasVector(Const, name) THEN Const ELSE plot_cur

(* Slip: the first vector of a plot does not become its scale.             *)
AssignedUnscaled(plot, name, data) ==
    IF \E v \in Range(plot.vectors) : v.name = name
    THEN [plot EXCEPT !.vectors =
             [i \in DOMAIN @ |-> IF @[i].name = name THEN [@[i] EXCEPT !.data = data] ELSE @[i]]]
    ELSE [plot EXCEPT !.vectors = <<[name |-> name, data |-> data, slot |-> 0]>> \o @]

(* com_let: a vector of this name gets the data, or a new one is linked in *)
(* front (vec_new) and is the scale of a plot without.                     *)
Assigned(plot, name, data) ==
    IF \E v \in Range(plot.vectors) : v.name = name
    THEN [plot EXCEPT !.vectors =
             [i \in DOMAIN @ |-> IF @[i].name = name THEN [@[i] EXCEPT !.data = data] ELSE @[i]]]
    ELSE [plot EXCEPT !.vectors = <<[name |-> name, data |-> data, slot |-> 0]>> \o @,
                      !.scale = IF @ = NoScale THEN name ELSE @]

(* The source is a number, or another vector with data.                    *)
Sources == {<<Number>>} \cup {v.data : v \in Range(PlotOf(plot_cur).vectors)}

(* com_let.                                                                *)
Let(name, data) ==
    /\ Command /\ data # <<>>
    /\ plots' = [plots EXCEPT ![IndexOf(Target(name))] = Assigned(@, name, data)]
    /\ touched' = (touched \/ (Paused /\ run.plot = Target(name)))
    /\ UNCHANGED <<plot_cur, run>>

(* vec_gc: of the current plot's vectors those that were released are      *)
(* freed.  A run that is paused is not told; a scale that is freed is      *)
(* followed by any other.                                                  *)
Sweep(left) ==
    LET i     == IndexOf(plot_cur)
        old   == plots[i].vectors
        scale == IF \E v \in Range(left) : v.name = plots[i].scale THEN plots[i].scale
                 ELSE IF left = <<>> THEN NoScale ELSE left[1].name
    IN  /\ plots' = [plots EXCEPT ![i].vectors = left, ![i].scale = scale]
        /\ IF Paused /\ run.plot = plot_cur
           THEN /\ run' = [run EXCEPT !.gone = @ \cup {v.slot : v \in Range(old) \ Range(left)}]
                /\ touched' = (touched \/ left # old)
           ELSE UNCHANGED <<run, touched>>
        /\ UNCHANGED plot_cur

(* com_unlet, vec_remove: the current plot keeps its scale.                *)
Unlet(name) ==
    /\ Command
    /\ name # PlotOf(plot_cur).scale /\ HasVector(plot_cur, name)
    /\ Sweep(Only(CurVectors, {i \in DOMAIN CurVectors : CurVectors[i].name # name}))

(* com_remzerovec.                                                         *)
RemZeroVec ==
    /\ Command
    /\ Sweep(Only(CurVectors, {i \in DOMAIN CurVectors : CurVectors[i].data # <<>>}))

(* plot_setcur, and with the name "new" a plot without vectors.            *)
SetPlot(n) ==
    /\ Command /\ n \in {p.number : p \in Range(plots)}
    /\ plot_cur' = n
    /\ UNCHANGED <<plots, run, touched>>

SetPlotNew(n) ==
    /\ Command /\ n \in Unused
    /\ plots' = <<[number |-> n, scale |-> NoScale, vectors |-> <<>>]>> \o plots
    /\ plot_cur' = n
    /\ UNCHANGED <<run, touched>>

(* Where the current plot is after the plot at index i is unlinked: the    *)
(* next one at the head of the list, else the newer neighbour.             *)
Neighbour(i) == plots[IF i = 1 THEN 2 ELSE i - 1].number

Lost(n) == Paused /\ run.plot = n

(* Slip: the current plot stays what it is.                                *)
DestroyCurrent(n) ==
    /\ Command /\ n # Const /\ n \in {p.number : p \in Range(plots)}
    /\ plots' = RemoveAt(plots, IndexOf(n))
    /\ run' = IF Lost(n) THEN [run EXCEPT !.plot = Freed, !.gone = Slots] ELSE run
    /\ touched' = (touched \/ Lost(n))
    /\ UNCHANGED plot_cur

(* Slip: the plot of a run that is paused is not looked for.               *)
DestroyUntold(n) ==
    /\ Command /\ n # Const /\ n \in {p.number : p \in Range(plots)}
    /\ plots' = RemoveAt(plots, IndexOf(n))
    /\ plot_cur' = IF plot_cur = n THEN Neighbour(IndexOf(n)) ELSE plot_cur
    /\ UNCHANGED <<run, touched>>

(* com_destroy, killplot.  The constant plot cannot be destroyed; a run    *)
(* that is paused is not told.                                             *)
Destroy(n) ==
    /\ Command /\ n # Const /\ n \in {p.number : p \in Range(plots)}
    /\ plots' = RemoveAt(plots, IndexOf(n))
    /\ plot_cur' = IF plot_cur = n THEN Neighbour(IndexOf(n)) ELSE plot_cur
    /\ run' = IF Lost(n) THEN [run EXCEPT !.plot = Freed, !.gone = Slots] ELSE run
    /\ touched' = (touched \/ Lost(n))

-----------------------------------------------------------------------------
Simulator ==
    \/ \E n \in Numbers, s \in Saves, none \in BOOLEAN : BeginPlot(n, s, none)
    \/ \E found \in SUBSET (IF run = NoRun THEN {} ELSE Slots) : Data(found)
    \/ Pause \/ Resume \/ End

Caller ==
    \/ \E name \in UserNames, data \in Sources : Let(name, data)
    \/ \E name \in Names : Unlet(name)
    \/ RemZeroVec
    \/ \E n \in Numbers : SetPlot(n) \/ SetPlotNew(n) \/ Destroy(n)

Next == Simulator \/ Caller

Spec == Init /\ [][Next]_vars

-----------------------------------------------------------------------------
(* Whatever is made, selected and destroyed, the current plot is one that  *)
(* exists, no two have the same number and the constant plot stays the     *)
(* last (plot_new, plot_setcur, killplot).                                 *)
PlotsLinked ==
    /\ plot_cur \in {p.number : p \in Range(plots)}
    /\ Last(plots).number = Const
    /\ \A i, j \in DOMAIN plots : plots[i].number = plots[j].number => i = j

(* A plot with vectors has its scale among them, whose names are distinct, *)
(* whichever of them are let, released or swept (com_unlet: "Don't delete  *)
(* the scale vector of the current plot", vec_free).                       *)
ScalesSound ==
    \A p \in Range(plots) :
        /\ \A i, j \in DOMAIN p.vectors : p.vectors[i].name = p.vectors[j].name => i = j
        /\ IF p.vectors = <<>> THEN p.scale = NoScale
           ELSE \E v \in Range(p.vectors) : v.name = p.scale

(* While a run is in progress its plot has a vector for each quantity that *)
(* it saves, with a value for each of its points, in order, unless only    *)
(* the last are kept: pauses, other plots and the caller's vectors in them *)
(* take none away.  A special has the points at which it was found.        *)
Row(q, points) ==
    LET all == [p \in 1..points |-> <<q, p>>]
    IN  IF savenone /\ points > 0 THEN <<Last(all)>> ELSE all
InOrder(q, data) ==
    /\ \A i \in DOMAIN data : data[i][1] = q
    /\ \A i, j \in DOMAIN data : i < j => data[i][2] < data[j][2]
RunKeepsPoints ==
    run # NoRun /\ ~touched => \A k \in Slots : \E v \in Range(PlotOf(run.plot).vectors) :
        /\ v.slot = k /\ v.name = run.saves[k]
        /\ IF v.name \in missed THEN InOrder(v.name, v.data)
           ELSE v.data = Row(v.name, run.points)

(* Every point is told to the caller, with each quantity's own value of    *)
(* this very point (sharedspice.c: "called each time a new data set is     *)
(* written to the output vectors", "get the data of the last entry"), as   *)
(* long as the caller has left the plot alone, or come back to it, and     *)
(* everything was found.                                                   *)
PointsAreTold ==
    [][Busy /\ run' # NoRun /\ run'.points = run.points + 1
          /\ ~touched /\ missed' = {} /\ plot_cur = run.plot
       => told' = {<<q, <<q, run'.points>>>> : q \in Range(run.saves)}]_vars

(* Memory beside the data is used only after the caller has changed the    *)
(* plot of a paused run or resumed it with another plot as the current     *)
(* one, or when a special was not found.                                   *)
OnlyTouchingBreaks ==
    wild => touched \/ missed # {} \/ plot_cur # run.plot
=============================================================================
