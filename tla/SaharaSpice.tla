---------------------------- MODULE SaharaSpice ----------------------------
(***************************************************************************)
(* The library as its callers see it: saharaspice.js on top of the addon   *)
(* (node.cc, global.cc) and of class INgSpice (i_ngspice.cc).  Every call  *)
(* is synchronous in the one thread of JavaScript, so a call is a step;    *)
(* calls of several clients come in any order.                             *)
(***************************************************************************)
EXTENDS Netlist, Integers

CONSTANTS
    Netlists,       \* what loadCircuit may be given
    Queries,        \* the voltages and currents a caller may ask for
    Values,         \* voltages and currents of a simulation
    Initials,       \* initial values given by a caller
    Capacitors, Inductors,  \* words that begin with "c", with "l"
    Branches,       \* names of elements whose current ngspice computes
    parseInt,       \* of JavaScript: word -> word, "NaN" if there is no number
    Ground,         \* node 0
    MayFail,        \* whether a simulation may end without data
    Null, Undefined \* of JavaScript

ASSUME NetlistsAssumption == Netlists \subseteq Seq(Line)
ASSUME QueriesAssumption  == Queries \subseteq [volts : Seq(Seq(Words)), currents : Seq(Words)]
ASSUME ValuesAssumption   == Values \cup Initials \subseteq Int /\ Undefined \notin Int /\ Null \notin Seq(Line)
ASSUME WordsAssumption    == /\ Capacitors \cup Inductors \cup Branches \subseteq Words
                             /\ Capacitors \cap Inductors = {}
                             /\ {Ground, "NaN"} \subseteq Words /\ Ground # "NaN"
                             /\ parseInt \in [Words -> Words]
ASSUME MayFailAssumption  == MayFail \in BOOLEAN

VARIABLES
    (* ds_status[0] of saharaspice.js *)
    state, circuit,
    memory,         \* in insertion order: name, element (its line) and value
    (* Global and INgSpice *)
    started,
    ready,          \* whether ngSpice_Init has been called, which only start does
    native,         \* _circuit: the netlist it was loaded from, Null if none
    volts, currs,   \* _lastVectors; a vector that never came counts as 0
    (* The last call of runTransient *)
    asked, reply,
    ics,            \* name -> the initial value that its analysis started from
    sim             \* the vectors of its simulation, Null if it gave no data

js     == <<state, circuit, memory>>
addon  == <<started, ready, native>>
lastRun == <<asked, reply, ics, sim>>
vars   == <<js, addon, volts, currs, lastRun>>

States  == {"reset", "error", "running", "stopped"}
Stored  == [name : Words, element : Line, value : Int \cup {Undefined}]
Names   == {memory[k].name : k \in DOMAIN memory}
NoReply == [message |-> "none", status |-> FALSE, voltages |-> <<>>, currents |-> <<>>]
NoQuery == [volts |-> <<>>, currents |-> <<>>]

TypeOK ==
    /\ state \in States
    /\ circuit \in Netlists \cup {Null}
    /\ memory \in Seq(Stored)
    /\ started \in BOOLEAN /\ ready \in BOOLEAN
    /\ native \in Netlists \cup {Null}
    /\ volts \in [Words -> Int] /\ currs \in [Words -> Int]
    /\ asked \in Queries \cup {NoQuery}
    /\ reply \in [message : {"none", "ok", "wrong edge", "wrong element"}, status : BOOLEAN,
                  voltages : Seq(Int), currents : Seq(Int)]

Init ==
    /\ state = "reset" /\ circuit = Null /\ memory = <<>>
    /\ started = FALSE /\ ready = FALSE /\ native = Null
    /\ volts = [w \in Words |-> 0] /\ currs = [w \in Words |-> 0]
    /\ asked = NoQuery /\ reply = NoReply
    /\ ics = [n \in {} |-> 0] /\ sim = Null

Unasked == UNCHANGED <<volts, currs, lastRun>>

-----------------------------------------------------------------------------
(* Commands.  started is the addon's flag: start on a started server fails *)
(* and leaves it started.                                                  *)

Start(initialised) ==
    /\ started' = TRUE /\ ready' = TRUE
    /\ state' = IF ~started /\ initialised THEN "running" ELSE "error"
    /\ UNCHANGED <<circuit, memory, native>> /\ Unasked

(* Slip: the circuit is left undefined.                                    *)
StopUnset ==
    /\ started' = FALSE
    /\ state' = IF started THEN "stopped" ELSE "error"
    /\ circuit' = Undefined /\ memory' = <<>>
    /\ UNCHANGED <<ready, native>> /\ Unasked

Stop ==
    /\ started' = FALSE
    /\ state' = IF started THEN "stopped" ELSE "error"
    /\ circuit' = Null /\ memory' = <<>>
    /\ UNCHANGED <<ready, native>> /\ Unasked

(* Slip: reset does not look whether the server could be stopped.          *)
ResetBlind ==
    /\ state' = "reset"
    /\ UNCHANGED <<addon, circuit, memory>> /\ Unasked

Reset ==
    /\ started' = FALSE
    /\ state' = IF started THEN "reset" ELSE "error"
    /\ UNCHANGED <<circuit, memory, ready, native>> /\ Unasked

(* stop, then start; the result, false to begin with, is only ever and-ed. *)
Restart ==
    /\ started' = TRUE /\ ready' = TRUE
    /\ state' = "error"
    /\ circuit' = Null /\ memory' = <<>>
    /\ UNCHANGED native /\ Unasked

-----------------------------------------------------------------------------
(* loadCircuit.                                                            *)
IsStored(l) == l.kind = "plain" /\ l.words # <<>> /\ l.words[1] \in Capacitors \cup Inductors
IndexOf(mem, name) == SelectInSeq(mem, LAMBDA m : m.name = name)
ValueOf(mem, name) == mem[IndexOf(mem, name)].value

(* Slip: an element that is neither given nor remembered is left out.      *)
InitialValueUnset(name, given) ==
    IF name \in DOMAIN given THEN given[name]
    ELSE IF name \in Names THEN ValueOf(memory, name) ELSE Undefined

InitialValue(name, given) ==
    IF name \in DOMAIN given THEN given[name]
    ELSE IF name \in Names THEN ValueOf(memory, name) ELSE 0

(* memory[name] = ...: a name met again keeps its place, with the new line.*)
StoredAt(netlist) == {k \in DOMAIN netlist : IsStored(netlist[k])}
LinesOf(netlist, name) == {k \in StoredAt(netlist) : netlist[k].words[1] = name}
Firsts(netlist) ==
    {k \in StoredAt(netlist) : \A j \in LinesOf(netlist, netlist[k].words[1]) : k <= j}
LineOf(netlist, name) ==
    netlist[CHOOSE k \in LinesOf(netlist, name) : \A j \in LinesOf(netlist, name) : j <= k]

MemoryOf(netlist, given) ==
    LET names == Only(netlist, Firsts(netlist))
        entry(name) == [name |-> name, element |-> LineOf(netlist, name),
                        value |-> InitialValue(name, given)]
    IN  [k \in DOMAIN names |-> entry(names[k].words[1])]

Accepted(netlist) == netlist # <<>> /\ Acceptable(Joined(netlist))

(* Slip: values are not carried over to the next circuit.                  *)
LoadForgets(netlist, given) ==
    /\ native' = IF Accepted(netlist) THEN netlist ELSE native
    /\ circuit' = netlist
    /\ memory' = [k \in DOMAIN MemoryOf(netlist, given) |->
                    [MemoryOf(netlist, given)[k] EXCEPT !.value =
                        IF MemoryOf(netlist, given)[k].name \in DOMAIN given THEN @ ELSE 0]]
    /\ UNCHANGED <<state, started, ready>> /\ Unasked

(* Slip: the addon keeps a circuit it has.                                 *)
LoadOnce(netlist, given) ==
    /\ native' = IF native = Null /\ Accepted(netlist) THEN netlist ELSE native
    /\ circuit' = netlist
    /\ memory' = MemoryOf(netlist, given)
    /\ UNCHANGED <<state, started, ready>> /\ Unasked

(* The addon keeps its circuit when it refuses the netlist, the caller's   *)
(* side takes the new one all the same.                                    *)
Load(netlist, given) ==
    /\ native' = IF Accepted(netlist) THEN netlist ELSE native
    /\ circuit' = netlist
    /\ memory' = MemoryOf(netlist, given)
    /\ UNCHANGED <<state, started, ready>> /\ Unasked

UpdateMemory(given) ==
    /\ memory' = [k \in DOMAIN memory |->
                    IF memory[k].name \in DOMAIN given
                    THEN [memory[k] EXCEPT !.value = given[memory[k].name]] ELSE memory[k]]
    /\ UNCHANGED <<state, circuit, addon>> /\ Unasked

-----------------------------------------------------------------------------
(* runTransient: what it probes for the memory and for its caller.         *)
Word(l, k) == IF k \in DOMAIN l.words THEN parseInt[l.words[k]] ELSE "NaN"
Nodes(m)   == IF Word(m.element, 3) # Ground THEN <<Word(m.element, 2), Word(m.element, 3)>>
              ELSE <<Word(m.element, 2)>>
IsCapacitor(m) == m.name \in Capacitors
IsInductor(m)  == m.name \in Inductors
StoredCapacitors == Only(memory, {k \in DOMAIN memory : IsCapacitor(memory[k])})
StoredInductors  == Only(memory, {k \in DOMAIN memory : IsInductor(memory[k])})

WithoutGround(v) == IF Len(v) = 2 /\ v[2] = Ground THEN <<v[1]>> ELSE v

probe_vol(query) == [k \in DOMAIN StoredCapacitors |-> Nodes(StoredCapacitors[k])]
                    \o [k \in DOMAIN query.volts |-> WithoutGround(query.volts[k])]
probe_cur(query) == [k \in DOMAIN StoredInductors |-> StoredInductors[k].name]
                    \o query.currents

(* The addon refuses unknown nodes, then unknown elements.                 *)
Edges == NodesOf(Joined(native))
KnownEdges(query) == UNION {Range(nodes) : nodes \in Range(probe_vol(query))} \subseteq Edges
KnownElements(query) == Range(probe_cur(query)) \subseteq ElementNames(Joined(native))

(* A refused run has no voltages and currents, and memory gets none.       *)
WrongName(query) ==
    /\ native # Null
    /\ ~KnownEdges(query) \/ ~KnownElements(query)
    /\ memory' = [k \in DOMAIN memory |-> [memory[k] EXCEPT !.value = Undefined]]
    /\ asked' = query
    /\ reply' = [message |-> IF KnownEdges(query) THEN "wrong element" ELSE "wrong edge",
                 status |-> FALSE, voltages |-> <<>>, currents |-> <<>>]
    /\ ics' = [n \in {} |-> 0] /\ sim' = Null
    /\ UNCHANGED <<state, circuit, addon, volts, currs>>

(* A simulation of the native circuit, which delivers a vector for each    *)
(* node and for each branch (external: ngspice and _SendData).             *)
Simulations ==
    [volt : [Edges \ {Ground} -> Values], current : [ElementNames(Joined(native)) \cap Branches -> Values]]

Latest(old, new) == [w \in Words |-> IF w \in DOMAIN new THEN new[w] ELSE old[w]]
Voltage(v, nodes) ==
    IF Len(nodes) = 1 THEN v[nodes[1]]
    ELSE IF Len(nodes) = 2 THEN v[nodes[1]] - v[nodes[2]] ELSE 0

(* An undefined value makes an alter command that ngspice refuses.         *)
Alters == [n \in {m \in Names : ValueOf(memory, m) # Undefined} |-> ValueOf(memory, n)]

(* What getResult and the code after it make of the vectors.               *)
Answer(query) ==
    LET voltages == [k \in DOMAIN probe_vol(query) |-> Voltage(volts', probe_vol(query)[k])]
        currents == [k \in DOMAIN probe_cur(query) |-> currs'[probe_cur(query)[k]]]
    IN  /\ memory' = [k \in DOMAIN memory |-> [memory[k] EXCEPT !.value =
                         IF IsCapacitor(memory[k])
                         THEN voltages[IndexOf(StoredCapacitors, memory[k].name)]
                         ELSE currents[IndexOf(StoredInductors, memory[k].name)]]]
        /\ reply' = [message |-> "ok", status |-> FALSE,
                     voltages |-> SubSeq(voltages, Len(voltages) - Len(query.volts) + 1, Len(voltages)),
                     currents |-> SubSeq(currents, Len(currents) - Len(query.currents) + 1, Len(currents))]

(* Before ngSpice_Init the simulator's tables are not there: ngSpice_Circ  *)
(* does not return.  stop and reset leave it initialised.                  *)
Runnable(query) == native # Null /\ KnownEdges(query) /\ KnownElements(query) /\ ready

Simulate(query) ==
    /\ Runnable(query)
    /\ \E s \in Simulations :
         /\ volts' = Latest(volts, s.volt) /\ currs' = Latest(currs, s.current)
         /\ sim' = s
    /\ Answer(query)
    /\ asked' = query /\ ics' = Alters
    /\ UNCHANGED <<state, circuit, addon>>

(* The result of INgSpice::loadCircuit is not looked at: after a failed    *)
(* simulation the vectors are those of an earlier one.                     *)
SimulationFails(query) ==
    /\ MayFail /\ Runnable(query)
    /\ UNCHANGED <<volts, currs>> /\ sim' = Null
    /\ Answer(query)
    /\ asked' = query /\ ics' = Alters
    /\ UNCHANGED <<state, circuit, addon>>

-----------------------------------------------------------------------------
Given(names) == UNION {[S -> Initials] : S \in SUBSET names}
StoredIn(netlist) == {netlist[k].words[1] : k \in StoredAt(netlist)}

Next ==
    \/ \E initialised \in BOOLEAN : Start(initialised)
    \/ Stop \/ Reset \/ Restart
    \/ \E netlist \in Netlists : \E given \in Given(StoredIn(netlist)) : Load(netlist, given)
    \/ \E given \in Given(Names) : UpdateMemory(given)
    \/ \E query \in Queries : WrongName(query) \/ Simulate(query) \/ SimulationFails(query)

Spec == Init /\ [][Next]_vars

-----------------------------------------------------------------------------
(* The state a client reads in getStatus agrees with the addon: "running"  *)
(* only if started, "stopped" and "reset" only if not.                     *)
StatusAgrees ==
    /\ state = "running" => started
    /\ state \in {"stopped", "reset"} => ~started

(* The circuit on the JavaScript side is the one the addon simulates, and  *)
(* the memory is about its capacitors and inductors, each of them once.    *)
SameCircuit ==
    circuit # Null =>
        /\ circuit = native
        /\ \A j, k \in DOMAIN memory : memory[j].name = memory[k].name => j = k
        /\ Names = ElementNames(Joined(native)) \cap (Capacitors \cup Inductors)

(* Memory, probes and answers implement runs that continue where the last  *)
(* one ended and answer what they are asked.                               *)
Runs == INSTANCE TransientRuns WITH
    elements <- [n \in Names |-> memory[IndexOf(memory, n)].element],
    charge   <- [n \in Names |-> ValueOf(memory, n)],
    from     <- ics,
    answers  <- [voltages |-> reply.voltages, currents |-> reply.currents]

StoredLines(netlist) == [n \in StoredIn(netlist) |-> LineOf(netlist, n)]

RunsStep ==
    \/ Runs!Stop
    \/ /\ circuit' # Null
       /\ \E given \in Given(StoredIn(circuit')) : Runs!Load(StoredLines(circuit'), given)
    \/ \E given \in Given(Names) : Runs!Update(given)
    \/ /\ native # Null /\ sim' \in Simulations
       /\ Runs!Run(Latest([w \in Words |-> 0], sim'.volt),
                   Latest([w \in Words |-> 0], sim'.current), asked')

RefinesRuns == Runs!Init /\ [][RunsStep]_(Runs!vars)

(* "in all other cases, set to 0": an element in memory has a value.       *)
MemoryHasValues == \A k \in DOMAIN memory : memory[k].value \in Int

(* "store resulting voltages and currents": on a running server, the       *)
(* voltages and currents that a run answers result from its simulation.    *)
(* (A vector that never came counts as 0, so that one of 0 shows nothing.) *)
Shows(values) == \E k \in DOMAIN values : values[k] # 0
AnswersAreFresh ==
    state = "running" /\ reply.message = "ok" /\ (Shows(reply.voltages) \/ Shows(reply.currents))
        => sim # Null

(* Netlists in which both sides see the same capacitors and inductors: the *)
(* addon accepts them, every line that begins with "c" or "l" is an        *)
(* element line and the other way round, and its nodes are numbers.        *)
Reactive == Capacitors \cup Inductors
TidyNetlist(netlist) ==
    /\ Accepted(netlist)
    /\ StoredIn(netlist) = ElementNames(Joined(netlist)) \cap Reactive
    /\ \A name \in StoredIn(netlist) : \A k \in {2, 3} :
         LET words == LineOf(netlist, name).words
         IN  /\ k \in DOMAIN words /\ parseInt[words[k]] = words[k]
             /\ words[k] \in NodesOf(Joined(netlist))

(* Queries of nodes and elements that the netlist has.                     *)
TidyQuery(query, netlist) ==
    /\ \A k \in DOMAIN query.volts :
         /\ Len(query.volts[k]) \in {1, 2}
         /\ \A i \in DOMAIN query.volts[k] : query.volts[k][i] \in NodesOf(Joined(netlist))
    /\ \A k \in DOMAIN query.currents : query.currents[k] \in ElementNames(Joined(netlist))
=============================================================================
