---------------------------- MODULE SaharaProofs ----------------------------
(***************************************************************************)
(* Proofs about the library, for any netlists, queries and values: its     *)
(* types, the server state that clients read, and, for netlists whose      *)
(* capacitors and inductors both sides see alike, that memory is about the *)
(* simulated circuit, always has values, and that the calls implement runs *)
(* which continue where the last one ended.                                *)
(***************************************************************************)
EXTENDS SaharaSpice, ListProofs

-----------------------------------------------------------------------------
(* Looking up a name, and the last line of a name in a netlist.            *)
LEMMA Found ==
    ASSUME NEW mem, Len(mem) \in Nat, NEW name
    PROVE  /\ IndexOf(mem, name) \in 0..Len(mem)
           /\ IndexOf(mem, name) = 0 => \A k \in 1..Len(mem) : mem[k].name # name
           /\ IndexOf(mem, name) # 0 => mem[IndexOf(mem, name)].name = name
<1> DEFINE I == {k \in 1..Len(mem) : mem[k].name = name}
<1>1. IndexOf(mem, name) = IF I # {} THEN Min(I) ELSE 0
  BY DEF IndexOf, SelectInSeq
<1>2. CASE I = {}
  BY <1>1, <1>2
<1>3. CASE I # {}
  <2>1. I \subseteq Nat \ {0}
    OBVIOUS
  <2>2. Min(I) \in I
    <3> HIDE DEF I
    <3> QED
      BY <1>3, <2>1, Least
  <2> QED
    BY <1>1, <1>3, <2>2
<1> QED
  BY <1>2, <1>3

Distinct(mem) == \A j, k \in DOMAIN mem : mem[j].name = mem[k].name => j = k

LEMMA FoundThere ==
    ASSUME NEW mem, Len(mem) \in Nat, DOMAIN mem = 1..Len(mem), NEW k \in 1..Len(mem)
    PROVE  /\ IndexOf(mem, mem[k].name) \in 1..Len(mem)
           /\ mem[IndexOf(mem, mem[k].name)].name = mem[k].name
           /\ Distinct(mem) => IndexOf(mem, mem[k].name) = k
<1> DEFINE i == IndexOf(mem, mem[k].name)
<1>1. /\ i \in 0..Len(mem)
      /\ i = 0 => \A j \in 1..Len(mem) : mem[j].name # mem[k].name
      /\ i # 0 => mem[i].name = mem[k].name
  BY Found
<1> HIDE DEF i
<1>2. i \in 1..Len(mem) /\ mem[i].name = mem[k].name
  BY <1>1
<1> QED
  BY <1>2 DEF Distinct, i

LEMMA Most ==
    ASSUME NEW n \in Nat, NEW T, T \subseteq 1..n, T # {}
    PROVE  \E m \in T : \A y \in T : y <= m
<1> DEFINE U == {n + 1 - k : k \in T}
<1>1. U \subseteq Nat \ {0} /\ U # {}
  <2>1. ASSUME NEW k \in T PROVE n + 1 - k \in Nat \ {0}
    <3>1. k \in 1..n
      OBVIOUS
    <3> QED
      BY <3>1
  <2> QED
    BY <2>1
<1>2. PICK u \in U : \A y \in U : u <= y
  <2> HIDE DEF U
  <2> QED
    BY <1>1, LeastIndex
<1>3. PICK m \in T : u = n + 1 - m
  OBVIOUS
<1>4. ASSUME NEW y \in T PROVE y <= m
  <2>1. n + 1 - y \in U
    OBVIOUS
  <2>2. u <= n + 1 - y /\ y \in 1..n /\ m \in 1..n
    BY <1>2, <2>1
  <2> QED
    BY <1>3, <2>2
<1> QED
  BY <1>4

LEMMA LineThere ==
    ASSUME NEW netlist \in Seq(Line), NEW name \in StoredIn(netlist)
    PROVE  \E k \in LinesOf(netlist, name) : LineOf(netlist, name) = netlist[k]
<1> DEFINE T == LinesOf(netlist, name)
<1>1. T \subseteq 1..Len(netlist) /\ T # {} /\ Len(netlist) \in Nat
  BY DEF LinesOf, StoredIn, StoredAt
<1>2. LineOf(netlist, name) = netlist[CHOOSE k \in T : \A j \in T : j <= k]
  BY DEF LineOf
<1> HIDE DEF T
<1>3. \E m \in T : \A y \in T : y <= m
  BY <1>1, Most
<1> QED
  BY <1>2, <1>3 DEF T

-----------------------------------------------------------------------------
(* What loadCircuit puts into memory: each stored name once, with its last *)
(* line and its initial value.                                             *)
Filled(mem, netlist, given) ==
    /\ Len(mem) \in Nat /\ DOMAIN mem = 1..Len(mem)
    /\ mem = [k \in 1..Len(mem) |-> mem[k]]
    /\ \A k \in 1..Len(mem) :
         /\ mem[k].name \in StoredIn(netlist)
         /\ mem[k] = [name |-> mem[k].name, element |-> LineOf(netlist, mem[k].name),
                      value |-> InitialValue(mem[k].name, given)]
    /\ Distinct(mem)
    /\ \A n \in StoredIn(netlist) : \E k \in 1..Len(mem) : mem[k].name = n

LEMMA MemoryFilled ==
    ASSUME NEW netlist \in Seq(Line), NEW given
    PROVE  Filled(MemoryOf(netlist, given), netlist, given)
<1> DEFINE keep   == Firsts(netlist)
           n      == Cardinality(keep)
           names  == Only(netlist, keep)
           at(k)  == netlist[Nth(keep, k)].words[1]
           entry(name) == [name |-> name, element |-> LineOf(netlist, name),
                           value |-> InitialValue(name, given)]
           mem    == [k \in 1..n |-> entry(at(k))]
<1>1. keep \subseteq DOMAIN netlist /\ keep \subseteq StoredAt(netlist)
  BY DEF Firsts, StoredAt
<1>2. \A j, k \in keep : netlist[j].words[1] = netlist[k].words[1] => j = k
  <2> SUFFICES ASSUME NEW j \in keep, NEW k \in keep, netlist[j].words[1] = netlist[k].words[1]
               PROVE  j = k
    OBVIOUS
  <2>1. j \in Nat /\ k \in Nat
    BY <1>1
  <2>2. j <= k /\ k <= j
    BY DEF Firsts, LinesOf
  <2> QED
    BY <2>1, <2>2
<1>3. ASSUME NEW w \in StoredIn(netlist) PROVE \E k \in keep : netlist[k].words[1] = w
  <2> DEFINE T == LinesOf(netlist, w)
  <2>1. T \subseteq Nat \ {0} /\ T # {}
    BY DEF LinesOf, StoredIn, StoredAt
  <2> HIDE DEF T
  <2>2. PICK m \in T : \A y \in T : m <= y
    BY <2>1, LeastIndex
  <2>3. m \in keep /\ netlist[m].words[1] = w
    BY <2>2 DEF T, LinesOf, Firsts
  <2> QED
    BY <2>3
<1> HIDE DEF keep
<1>4. /\ names = [k \in 1..n |-> netlist[Nth(keep, k)]]
      /\ n \in Nat
      /\ \A k \in 1..n : Nth(keep, k) \in keep
      /\ \A k, l \in 1..n : k < l => Nth(keep, k) < Nth(keep, l)
      /\ \A i \in keep : \E k \in 1..n : Nth(keep, k) = i
  <2>1. netlist \in Seq(Line) /\ keep \subseteq DOMAIN netlist
    BY <1>1
  <2>2. /\ Only(netlist, keep) \in Seq(Line) /\ Len(Only(netlist, keep)) = n /\ n \in Nat
        /\ \A k \in 1..n : Nth(keep, k) \in keep /\ Only(netlist, keep)[k] = netlist[Nth(keep, k)]
        /\ \A k, l \in 1..n : k < l => Nth(keep, k) < Nth(keep, l)
        /\ \A i \in keep : \E k \in 1..n : Nth(keep, k) = i
    BY <2>1, OnlyProperties
  <2>3. names = [k \in 1..n |-> netlist[Nth(keep, k)]]
    BY DEF Only
  <2> HIDE DEF n, names
  <2> QED
    BY <2>2, <2>3
<1>5. MemoryOf(netlist, given) = mem
  BY <1>4 DEF MemoryOf, keep
<1> HIDE DEF n
<1>6. Len(mem) = n /\ DOMAIN mem = 1..n
  BY <1>4
<1>7. ASSUME NEW k \in 1..n
      PROVE  /\ mem[k] = entry(at(k)) /\ mem[k].name = at(k) /\ at(k) \in StoredIn(netlist)
  BY <1>1, <1>4 DEF StoredIn
<1>8. ASSUME NEW j \in 1..n, NEW k \in 1..n, mem[j].name = mem[k].name PROVE j = k
  <2>1. Nth(keep, j) = Nth(keep, k)
    BY <1>2, <1>4, <1>7, <1>8
  <2>2. Nth(keep, j) \in Nat
    BY <1>1, <1>4
  <2>3. ~(j < k) /\ ~(k < j)
    BY <1>4, <2>1, <2>2
  <2> QED
    BY <1>4, <2>3
<1>9. ASSUME NEW w \in StoredIn(netlist) PROVE \E k \in 1..n : mem[k].name = w
  <2>1. PICK i \in keep : netlist[i].words[1] = w
    BY <1>3
  <2>2. PICK k \in 1..n : Nth(keep, k) = i
    BY <1>4
  <2> QED
    BY <1>7, <2>1, <2>2
<1> HIDE DEF at
<1>10. \A k \in 1..n : mem[k] = entry(mem[k].name) /\ mem[k].name \in StoredIn(netlist)
  BY <1>7
<1> HIDE DEF mem
<1>11. mem = [k \in 1..n |-> mem[k]]
  BY DEF mem
<1> QED
  BY <1>4, <1>5, <1>6, <1>8, <1>9, <1>10, <1>11 DEF Filled, Distinct

-----------------------------------------------------------------------------
(* A client that reads "running" has a started server, one that reads      *)
(* "stopped" or "reset" has none, whatever calls failed before (start,     *)
(* stop, reset and restart of saharaspice.js against Global::start and     *)
(* Global::stop of the addon).                                             *)
THEOREM StatusCorrect == Spec => []StatusAgrees
<1>1. Init => StatusAgrees
  BY DEF Init, StatusAgrees
<1>2. StatusAgrees /\ [Next]_vars => StatusAgrees'
  <2> SUFFICES ASSUME StatusAgrees, [Next]_vars PROVE StatusAgrees'
    OBVIOUS
  <2>1. CASE \E initialised \in BOOLEAN : Start(initialised)
    BY <2>1 DEF Start, StatusAgrees
  <2>2. CASE Stop
    BY <2>2 DEF Stop, StatusAgrees
  <2>3. CASE Reset
    BY <2>3 DEF Reset, StatusAgrees
  <2>4. CASE Restart
    BY <2>4 DEF Restart, StatusAgrees
  <2>5. CASE \E netlist \in Netlists : \E given \in Given(StoredIn(netlist)) : Load(netlist, given)
    BY <2>5 DEF Load, StatusAgrees
  <2>6. CASE \E given \in Given(Names) : UpdateMemory(given)
    BY <2>6 DEF UpdateMemory, addon, StatusAgrees
  <2>7. CASE \E query \in Queries : WrongName(query)
    <3>1. UNCHANGED <<state, addon>>
      BY <2>7 DEF WrongName
    <3> QED
      BY <3>1 DEF addon, StatusAgrees
  <2>8. CASE \E query \in Queries : Simulate(query) \/ SimulationFails(query)
    BY <2>8 DEF Simulate, SimulationFails, addon, StatusAgrees
  <2>9. CASE UNCHANGED vars
    BY <2>9 DEF vars, js, addon, StatusAgrees
  <2> QED
    BY <2>1, <2>2, <2>3, <2>4, <2>5, <2>6, <2>7, <2>8, <2>9 DEF Next
<1> QED
  BY <1>1, <1>2, PTL DEF Spec

-----------------------------------------------------------------------------
(* Types.  Memory is about words that begin with "c" or "l".               *)
AllReactive(mem) == \A k \in DOMAIN mem : mem[k].name \in Reactive
TypeInv == TypeOK /\ AllReactive(memory)

LEMMA StoredWords ==
    ASSUME NEW netlist \in Seq(Line), NEW n \in StoredIn(netlist)
    PROVE  n \in Reactive /\ n \in Words
<1>1. PICK k \in StoredAt(netlist) : n = netlist[k].words[1]
  BY DEF StoredIn
<1>2. n \in Reactive
  BY <1>1 DEF StoredAt, IsStored, Reactive
<1> QED
  BY <1>2, WordsAssumption DEF Reactive

LEMMA ValueType ==
    ASSUME memory \in Seq(Stored), NEW names, NEW given \in Given(names), NEW n
    PROVE  InitialValue(n, given) \in Int \cup {Undefined}
<1>1. ASSUME n \in DOMAIN given PROVE given[n] \in Int
  <2>1. PICK S : given \in [S -> Initials]
    BY DEF Given
  <2> QED
    BY <1>1, <2>1, ValuesAssumption
<1>2. ASSUME n \in Names PROVE ValueOf(memory, n) \in Int \cup {Undefined}
  <2>1. Len(memory) \in Nat /\ DOMAIN memory = 1..Len(memory)
    OBVIOUS
  <2>2. PICK k \in 1..Len(memory) : n = memory[k].name
    BY <1>2, <2>1 DEF Names
  <2>3. IndexOf(memory, n) \in 1..Len(memory)
    BY <2>1, <2>2, FoundThere
  <2>4. memory[IndexOf(memory, n)] \in Stored
    BY <2>3
  <2> QED
    BY <2>4 DEF ValueOf, Stored
<1> QED
  BY <1>1, <1>2 DEF InitialValue

LEMMA MemoryType ==
    ASSUME memory \in Seq(Stored), NEW netlist \in Netlists, NEW names, NEW given \in Given(names)
    PROVE  MemoryOf(netlist, given) \in Seq(Stored) /\ AllReactive(MemoryOf(netlist, given))
<1> DEFINE mem == MemoryOf(netlist, given)
<1>1. netlist \in Seq(Line)
  BY NetlistsAssumption
<1>2. Filled(mem, netlist, given)
  BY <1>1, MemoryFilled
<1> HIDE DEF mem
<1>3. ASSUME NEW k \in 1..Len(mem) PROVE mem[k] \in Stored /\ mem[k].name \in Reactive
  <2>1. /\ mem[k].name \in StoredIn(netlist)
        /\ mem[k] = [name |-> mem[k].name, element |-> LineOf(netlist, mem[k].name),
                     value |-> InitialValue(mem[k].name, given)]
    BY <1>2 DEF Filled
  <2>2. mem[k].name \in Reactive /\ mem[k].name \in Words
    BY <1>1, <2>1, StoredWords
  <2>3. LineOf(netlist, mem[k].name) \in Line
    <3>1. PICK j \in LinesOf(netlist, mem[k].name) : LineOf(netlist, mem[k].name) = netlist[j]
      BY <1>1, <2>1, LineThere
    <3> QED
      BY <1>1, <3>1 DEF LinesOf, StoredAt
  <2>4. InitialValue(mem[k].name, given) \in Int \cup {Undefined}
    BY ValueType
  <2> DEFINE w == mem[k].name
             l == LineOf(netlist, w)
             v == InitialValue(w, given)
  <2>5. mem[k] = [name |-> w, element |-> l, value |-> v]
    BY <2>1
  <2>6. w \in Words /\ l \in Line /\ v \in Int \cup {Undefined}
    BY <2>2, <2>3, <2>4
  <2> HIDE DEF w, l, v
  <2>7. mem[k] \in Stored
    BY <2>5, <2>6 DEF Stored
  <2> QED
    BY <2>2, <2>7
<1>4. mem = [k \in 1..Len(mem) |-> mem[k]] /\ Len(mem) \in Nat /\ DOMAIN mem = 1..Len(mem)
  BY <1>2 DEF Filled
<1>5. [k \in 1..Len(mem) |-> mem[k]] \in Seq(Stored)
  BY <1>3, <1>4
<1> QED
  BY <1>3, <1>4, <1>5 DEF AllReactive, mem

(* The stored capacitors, or inductors: those of memory, in its order.     *)
Parted(part, mem, keep) ==
    /\ part \in Seq(Stored) /\ Len(part) \in Nat /\ DOMAIN part = 1..Len(part)
    /\ \A k \in 1..Len(part) : \E i \in keep : part[k] = mem[i]
    /\ \A i \in keep : \E k \in 1..Len(part) : part[k] = mem[i]

LEMMA PartOf ==
    ASSUME NEW mem \in Seq(Stored), NEW keep, keep \subseteq DOMAIN mem
    PROVE  Parted(Only(mem, keep), mem, keep)
<1> DEFINE part == Only(mem, keep)
           n == Cardinality(keep)
<1>1. /\ part \in Seq(Stored) /\ Len(part) = n /\ n \in Nat
      /\ \A k \in 1..n : Nth(keep, k) \in keep /\ part[k] = mem[Nth(keep, k)]
      /\ \A k, l \in 1..n : k < l => Nth(keep, k) < Nth(keep, l)
      /\ \A i \in keep : \E k \in 1..n : Nth(keep, k) = i
  BY OnlyProperties
<1> HIDE DEF part, n
<1>2. DOMAIN part = 1..n
  BY <1>1
<1> QED
  BY <1>1, <1>2 DEF Parted, part

CapacitorsAt == {k \in DOMAIN memory : IsCapacitor(memory[k])}
InductorsAt  == {k \in DOMAIN memory : IsInductor(memory[k])}

LEMMA StoredParts ==
    ASSUME memory \in Seq(Stored)
    PROVE  /\ Parted(StoredCapacitors, memory, CapacitorsAt)
           /\ Parted(StoredInductors, memory, InductorsAt)
<1>1. StoredCapacitors = Only(memory, CapacitorsAt) /\ StoredInductors = Only(memory, InductorsAt)
  BY DEF StoredCapacitors, StoredInductors, CapacitorsAt, InductorsAt
<1>2. CapacitorsAt \subseteq DOMAIN memory /\ InductorsAt \subseteq DOMAIN memory
  BY DEF CapacitorsAt, InductorsAt
<1> HIDE DEF CapacitorsAt, InductorsAt
<1> QED
  BY <1>1, <1>2, PartOf

(* What is probed: words, first for the memory, then for the caller.       *)
LEMMA NodesType ==
    ASSUME NEW m \in Stored
    PROVE  Nodes(m) \in Seq(Words) /\ Len(Nodes(m)) \in {1, 2}
<1>1. m.element \in Line
  BY DEF Stored
<1>2. m.element.words \in Seq(Words)
  BY <1>1 DEF Line
<1>3. \A k : Word(m.element, k) \in Words
  BY <1>2, WordsAssumption DEF Word
<1> QED
  BY <1>3 DEF Nodes

LEMMA WithoutGroundType ==
    ASSUME NEW v \in Seq(Words)
    PROVE  WithoutGround(v) \in Seq(Words)
<1>1. CASE Len(v) = 2
  <2>1. v[1] \in Words
    BY <1>1
  <2> QED
    BY <2>1 DEF WithoutGround
<1>2. CASE Len(v) # 2
  BY <1>2 DEF WithoutGround
<1> QED
  BY <1>1, <1>2

Probed(query) ==
    /\ probe_vol(query) \in Seq(Seq(Words))
    /\ Len(StoredCapacitors) \in Nat /\ Len(query.volts) \in Nat
    /\ Len(probe_vol(query)) = Len(StoredCapacitors) + Len(query.volts)
    /\ \A k \in 1..Len(StoredCapacitors) : probe_vol(query)[k] = Nodes(StoredCapacitors[k])
    /\ \A k \in 1..Len(query.volts) :
         probe_vol(query)[Len(StoredCapacitors) + k] = WithoutGround(query.volts[k])
    /\ probe_cur(query) \in Seq(Words)
    /\ Len(StoredInductors) \in Nat /\ Len(query.currents) \in Nat
    /\ Len(probe_cur(query)) = Len(StoredInductors) + Len(query.currents)
    /\ \A k \in 1..Len(StoredInductors) : probe_cur(query)[k] = StoredInductors[k].name
    /\ \A k \in 1..Len(query.currents) :
         probe_cur(query)[Len(StoredInductors) + k] = query.currents[k]

LEMMA Probes ==
    ASSUME memory \in Seq(Stored), NEW query \in Queries
    PROVE  Probed(query)
<1>1. query.volts \in Seq(Seq(Words)) /\ query.currents \in Seq(Words)
  BY QueriesAssumption
<1> DEFINE sc == StoredCapacitors
           si == StoredInductors
           a == [k \in DOMAIN sc |-> Nodes(sc[k])]
           b == [k \in DOMAIN query.volts |-> WithoutGround(query.volts[k])]
           c == [k \in DOMAIN si |-> si[k].name]
           d == query.currents
<1>2. /\ sc \in Seq(Stored) /\ DOMAIN sc = 1..Len(sc) /\ Len(sc) \in Nat
      /\ si \in Seq(Stored) /\ DOMAIN si = 1..Len(si) /\ Len(si) \in Nat
  BY StoredParts DEF Parted
<1>3. probe_vol(query) = a \o b /\ probe_cur(query) = c \o d
  BY DEF probe_vol, probe_cur
<1> HIDE DEF sc, si
<1>4. a \in Seq(Seq(Words)) /\ Len(a) = Len(sc) /\ \A k \in 1..Len(sc) : a[k] = Nodes(sc[k])
  <2> DEFINE out(k) == Nodes(sc[k])
  <2>1. \A k \in 1..Len(sc) : out(k) \in Seq(Words)
    BY <1>2, NodesType
  <2>2. a = [k \in 1..Len(sc) |-> out(k)]
    BY <1>2
  <2> HIDE DEF out, a
  <2>3. a \in Seq(Seq(Words)) /\ Len(a) = Len(sc) /\ \A k \in 1..Len(sc) : a[k] = out(k)
    BY <1>2, <2>1, <2>2
  <2> QED
    BY <2>3 DEF out
<1>5. /\ b \in Seq(Seq(Words)) /\ Len(b) = Len(query.volts) /\ Len(query.volts) \in Nat
      /\ \A k \in 1..Len(query.volts) : b[k] = WithoutGround(query.volts[k])
  <2> DEFINE out(k) == WithoutGround(query.volts[k])
  <2>1. Len(query.volts) \in Nat /\ DOMAIN query.volts = 1..Len(query.volts)
    BY <1>1
  <2>2. \A k \in 1..Len(query.volts) : out(k) \in Seq(Words)
    BY <1>1, WithoutGroundType
  <2>3. b = [k \in 1..Len(query.volts) |-> out(k)]
    BY <2>1
  <2> HIDE DEF out, b
  <2>4. b \in Seq(Seq(Words)) /\ Len(b) = Len(query.volts) /\ \A k \in 1..Len(query.volts) : b[k] = out(k)
    BY <2>1, <2>2, <2>3
  <2> QED
    BY <2>1, <2>4 DEF out
<1>6. c \in Seq(Words) /\ Len(c) = Len(si) /\ \A k \in 1..Len(si) : c[k] = si[k].name
  <2>1. \A k \in 1..Len(si) : si[k].name \in Words
    <3>1. \A k \in 1..Len(si) : si[k] \in Stored
      BY <1>2
    <3> QED
      BY <3>1 DEF Stored
  <2> QED
    BY <1>2, <2>1
<1>7. d \in Seq(Words) /\ Len(d) \in Nat
  BY <1>1
<1> HIDE DEF a, b, c, d
<1>8. /\ a \o b \in Seq(Seq(Words)) /\ Len(a \o b) = Len(a) + Len(b)
      /\ \A k \in 1..Len(a) : (a \o b)[k] = a[k]
      /\ \A k \in 1..Len(b) : (a \o b)[Len(a) + k] = b[k]
  <2>1. a \in Seq(Seq(Words)) /\ b \in Seq(Seq(Words))
    BY <1>4, <1>5
  <2> QED
    BY ONLY <2>1, Joining
<1>9. /\ c \o d \in Seq(Words) /\ Len(c \o d) = Len(c) + Len(d)
      /\ \A k \in 1..Len(c) : (c \o d)[k] = c[k]
      /\ \A k \in 1..Len(d) : (c \o d)[Len(c) + k] = d[k]
  <2>1. c \in Seq(Words) /\ d \in Seq(Words)
    BY <1>6, <1>7
  <2> QED
    BY ONLY <2>1, Joining
<1>10. Len(sc) \in Nat /\ Len(si) \in Nat
  BY <1>2
<1> QED
  BY <1>3, <1>4, <1>5, <1>6, <1>7, <1>8, <1>9, <1>10 DEF Probed, sc, si, d

(* What memory and the reply become, given the vectors v and c.            *)
VoltsAt(v, query) == [k \in DOMAIN probe_vol(query) |-> Voltage(v, probe_vol(query)[k])]
CurrsAt(c, query) == [k \in DOMAIN probe_cur(query) |-> c[probe_cur(query)[k]]]
NewValue(m, v, c, query) ==
    IF IsCapacitor(m) THEN VoltsAt(v, query)[IndexOf(StoredCapacitors, m.name)]
    ELSE CurrsAt(c, query)[IndexOf(StoredInductors, m.name)]
Ending(s, n) == SubSeq(s, Len(s) - n + 1, Len(s))

LEMMA AnswerIs ==
    ASSUME NEW query, Answer(query)
    PROVE  /\ memory' = [k \in DOMAIN memory |->
                           [memory[k] EXCEPT !.value = NewValue(memory[k], volts', currs', query)]]
           /\ reply' = [message |-> "ok", status |-> FALSE,
                        voltages |-> Ending(VoltsAt(volts', query), Len(query.volts)),
                        currents |-> Ending(CurrsAt(currs', query), Len(query.currents))]
  BY DEF Answer, VoltsAt, CurrsAt, NewValue, Ending

LEMMA EndingType ==
    ASSUME NEW s \in Seq(Int), NEW n \in Nat, n <= Len(s)
    PROVE  /\ Ending(s, n) \in Seq(Int) /\ Len(Ending(s, n)) = n
           /\ \A k \in 1..n : Ending(s, n)[k] = s[Len(s) - n + k]
<1> DEFINE m == Len(s) - n + 1
<1>1. Len(s) \in Nat /\ m \in 1..(Len(s) + 1) /\ \A k \in m..Len(s) : s[k] \in Int
  OBVIOUS
<1>2. /\ SubSeq(s, m, Len(s)) \in Seq(Int)
      /\ Len(SubSeq(s, m, Len(s))) = Len(s) - m + 1
      /\ \A k \in 1..(Len(s) - m + 1) : SubSeq(s, m, Len(s))[k] = s[m + k - 1]
  BY <1>1, SubSeqProperties
<1>3. Len(s) - m + 1 = n /\ \A k \in 1..n : m + k - 1 = Len(s) - n + k
  BY <1>1
<1> QED
  BY <1>2, <1>3 DEF Ending

LEMMA VoltageType ==
    ASSUME NEW v \in [Words -> Int], NEW nodes \in Seq(Words)
    PROVE  Voltage(v, nodes) \in Int
<1>0. \A k \in 1..Len(nodes) : nodes[k] \in Words
  OBVIOUS
<1>1. CASE Len(nodes) = 1
  <2>1. 1 \in 1..Len(nodes) /\ nodes[1] \in Words
    BY <1>0, <1>1
  <2>2. v[nodes[1]] \in Int
    BY <2>1
  <2>3. Voltage(v, nodes) = v[nodes[1]]
    BY <1>1 DEF Voltage
  <2> QED
    BY <2>2, <2>3
<1>2. CASE Len(nodes) = 2
  <2>1. 1 \in 1..Len(nodes) /\ 2 \in 1..Len(nodes) /\ nodes[1] \in Words /\ nodes[2] \in Words
    BY <1>0, <1>2
  <2>2. v[nodes[1]] \in Int /\ v[nodes[2]] \in Int
    BY <2>1
  <2>3. Voltage(v, nodes) = v[nodes[1]] - v[nodes[2]]
    BY <1>2 DEF Voltage
  <2> QED
    BY <2>2, <2>3
<1>3. CASE Len(nodes) \notin {1, 2}
  BY <1>3 DEF Voltage
<1> QED
  BY <1>1, <1>2, <1>3

LEMMA ReadingsType ==
    ASSUME memory \in Seq(Stored), NEW query \in Queries,
           NEW v \in [Words -> Int], NEW c \in [Words -> Int]
    PROVE  /\ VoltsAt(v, query) \in Seq(Int) /\ CurrsAt(c, query) \in Seq(Int)
           /\ Len(VoltsAt(v, query)) = Len(probe_vol(query))
           /\ Len(CurrsAt(c, query)) = Len(probe_cur(query))
           /\ \A k \in 1..Len(probe_vol(query)) : VoltsAt(v, query)[k] = Voltage(v, probe_vol(query)[k])
           /\ \A k \in 1..Len(probe_cur(query)) : CurrsAt(c, query)[k] = c[probe_cur(query)[k]]
<1> DEFINE pv == probe_vol(query)
           pc == probe_cur(query)
           volt(k) == Voltage(v, pv[k])
           curr(k) == c[pc[k]]
<1>1. pv \in Seq(Seq(Words)) /\ pc \in Seq(Words)
  BY Probes DEF Probed
<1> HIDE DEF pv, pc
<1>2. DOMAIN pv = 1..Len(pv) /\ DOMAIN pc = 1..Len(pc) /\ Len(pv) \in Nat /\ Len(pc) \in Nat
  <2>1. \A S : \A s \in Seq(S) : DOMAIN s = 1..Len(s) /\ Len(s) \in Nat
    OBVIOUS
  <2> QED
    BY <1>1, <2>1
<1>3. ASSUME NEW k \in 1..Len(pv) PROVE volt(k) \in Int
  <2>1. \A S : \A s \in Seq(S) : \A i \in 1..Len(s) : s[i] \in S
    OBVIOUS
  <2>2. pv[k] \in Seq(Words)
    BY <1>1, <2>1
  <2> QED
    BY <2>2, VoltageType
<1>4. \A k \in 1..Len(pc) : curr(k) \in Int
  BY <1>1
<1>5. VoltsAt(v, query) = [k \in 1..Len(pv) |-> volt(k)] /\ CurrsAt(c, query) = [k \in 1..Len(pc) |-> curr(k)]
  BY <1>2 DEF VoltsAt, CurrsAt, pv, pc
<1> HIDE DEF volt, curr
<1> DEFINE vs == VoltsAt(v, query)
           cs == CurrsAt(c, query)
<1> HIDE DEF vs, cs
<1>6. vs \in Seq(Int) /\ Len(vs) = Len(pv) /\ \A k \in 1..Len(pv) : vs[k] = volt(k)
  <2>1. vs = [k \in 1..Len(pv) |-> volt(k)]
    BY <1>5 DEF vs
  <2> QED
    BY <1>2, <1>3, <2>1
<1>7. cs \in Seq(Int) /\ Len(cs) = Len(pc) /\ \A k \in 1..Len(pc) : cs[k] = curr(k)
  <2>1. cs = [k \in 1..Len(pc) |-> curr(k)]
    BY <1>5 DEF cs
  <2> QED
    BY <1>2, <1>4, <2>1
<1> QED
  BY <1>6, <1>7 DEF volt, curr, pv, pc, vs, cs

(* A capacitor of memory is probed, and so is an inductor: the place that  *)
(* runTransient looks at is that of a probe of the same name.              *)
LEMMA ProbeOf ==
    ASSUME memory \in Seq(Stored), NEW k \in DOMAIN memory
    PROVE  /\ IsCapacitor(memory[k]) =>
                \E i \in CapacitorsAt : /\ memory[i].name = memory[k].name
                                        /\ IndexOf(StoredCapacitors, memory[k].name) \in 1..Len(StoredCapacitors)
                                        /\ StoredCapacitors[IndexOf(StoredCapacitors, memory[k].name)] = memory[i]
           /\ IsInductor(memory[k]) =>
                \E i \in InductorsAt : /\ memory[i].name = memory[k].name
                                       /\ IndexOf(StoredInductors, memory[k].name) \in 1..Len(StoredInductors)
                                       /\ StoredInductors[IndexOf(StoredInductors, memory[k].name)] = memory[i]
<1> DEFINE m == memory[k]
<1>1. ASSUME NEW part, NEW keep, Parted(part, memory, keep), k \in keep
      PROVE  \E i \in keep : /\ memory[i].name = m.name
                             /\ IndexOf(part, m.name) \in 1..Len(part)
                             /\ part[IndexOf(part, m.name)] = memory[i]
  <2>1. PICK j \in 1..Len(part) : part[j] = m
    BY <1>1 DEF Parted
  <2>2. Len(part) \in Nat /\ DOMAIN part = 1..Len(part)
    BY <1>1 DEF Parted
  <2> DEFINE i == IndexOf(part, m.name)
  <2>3. i \in 1..Len(part) /\ part[i].name = m.name
    BY <2>1, <2>2, FoundThere
  <2> HIDE DEF i
  <2>4. PICK l \in keep : part[i] = memory[l]
    BY <1>1, <2>3 DEF Parted
  <2> QED
    BY <2>3, <2>4 DEF i
<1>2. IsCapacitor(m) => k \in CapacitorsAt
  BY DEF CapacitorsAt
<1>3. IsInductor(m) => k \in InductorsAt
  BY DEF InductorsAt
<1> HIDE DEF m
<1>4. Parted(StoredCapacitors, memory, CapacitorsAt) /\ Parted(StoredInductors, memory, InductorsAt)
  BY StoredParts
<1>5. ASSUME IsCapacitor(m)
      PROVE  \E i \in CapacitorsAt : /\ memory[i].name = m.name
                                     /\ IndexOf(StoredCapacitors, m.name) \in 1..Len(StoredCapacitors)
                                     /\ StoredCapacitors[IndexOf(StoredCapacitors, m.name)] = memory[i]
  BY <1>1, <1>2, <1>4, <1>5
<1>6. ASSUME IsInductor(m)
      PROVE  \E i \in InductorsAt : /\ memory[i].name = m.name
                                    /\ IndexOf(StoredInductors, m.name) \in 1..Len(StoredInductors)
                                    /\ StoredInductors[IndexOf(StoredInductors, m.name)] = memory[i]
  BY <1>1, <1>3, <1>4, <1>6
<1> QED
  BY <1>5, <1>6 DEF m

LEMMA NewValueType ==
    ASSUME memory \in Seq(Stored), NEW query \in Queries, NEW k \in DOMAIN memory,
           memory[k].name \in Reactive,
           NEW v \in [Words -> Int], NEW c \in [Words -> Int]
    PROVE  NewValue(memory[k], v, c, query) \in Int
<1> DEFINE m == memory[k]
           p == IndexOf(StoredCapacitors, m.name)
           q == IndexOf(StoredInductors, m.name)
<1>1. /\ VoltsAt(v, query) \in Seq(Int) /\ CurrsAt(c, query) \in Seq(Int)
      /\ Len(VoltsAt(v, query)) = Len(probe_vol(query))
      /\ Len(CurrsAt(c, query)) = Len(probe_cur(query))
  BY ReadingsType
<1>2. Probed(query)
  BY Probes
<1>3. IsCapacitor(m) => p \in 1..Len(StoredCapacitors)
  BY ProbeOf
<1>4. ~IsCapacitor(m) => IsInductor(m)
  BY DEF IsCapacitor, IsInductor, Reactive
<1>5. IsInductor(m) => q \in 1..Len(StoredInductors)
  BY ProbeOf
<1> HIDE DEF m, p, q
<1>6. 1..Len(StoredCapacitors) \subseteq 1..Len(VoltsAt(v, query))
  BY <1>1, <1>2 DEF Probed
<1>7. 1..Len(StoredInductors) \subseteq 1..Len(CurrsAt(c, query))
  BY <1>1, <1>2 DEF Probed
<1>8. IsCapacitor(m) => VoltsAt(v, query)[p] \in Int
  BY <1>1, <1>3, <1>6
<1>9. ~IsCapacitor(m) => CurrsAt(c, query)[q] \in Int
  BY <1>1, <1>4, <1>5, <1>7
<1> QED
  BY <1>8, <1>9 DEF NewValue, m, p, q

(* The types one by one, with those of replies under a name.               *)
Replies == [message : {"none", "ok", "wrong edge", "wrong element"}, status : BOOLEAN,
            voltages : Seq(Int), currents : Seq(Int)]
Typed ==
    /\ state \in States /\ circuit \in Netlists \cup {Null}
    /\ memory \in Seq(Stored) /\ AllReactive(memory)
    /\ started \in BOOLEAN /\ ready \in BOOLEAN /\ native \in Netlists \cup {Null}
    /\ volts \in [Words -> Int] /\ currs \in [Words -> Int]
    /\ asked \in Queries \cup {NoQuery} /\ reply \in Replies

LEMMA TypeParts == TypeInv <=> Typed
  BY DEF TypeInv, TypeOK, Typed, Replies

(* An answered run leaves values, and replies numbers.                     *)
LEMMA AnswerType ==
    ASSUME TypeInv, NEW query \in Queries, Answer(query),
           volts' \in [Words -> Int], currs' \in [Words -> Int]
    PROVE  /\ memory' \in Seq(Stored) /\ AllReactive(memory')
           /\ DOMAIN memory' = DOMAIN memory
           /\ \A k \in DOMAIN memory :
                /\ memory'[k].name = memory[k].name /\ memory'[k].element = memory[k].element
                /\ memory'[k].value = NewValue(memory[k], volts', currs', query)
                /\ memory'[k].value \in Int
           /\ reply' \in Replies
<1>1. memory \in Seq(Stored) /\ DOMAIN memory = 1..Len(memory) /\ Len(memory) \in Nat
  <2>1. memory \in Seq(Stored)
    BY TypeParts DEF Typed
  <2> QED
    BY <2>1
<1>2. ASSUME NEW k \in DOMAIN memory PROVE NewValue(memory[k], volts', currs', query) \in Int
  BY <1>1, NewValueType DEF TypeInv, AllReactive
<1> DEFINE new(k) == [memory[k] EXCEPT !.value = NewValue(memory[k], volts', currs', query)]
<1>3. memory' = [k \in DOMAIN memory |-> new(k)]
  BY AnswerIs
<1>4. ASSUME NEW k \in DOMAIN memory
      PROVE  /\ new(k) \in Stored /\ new(k).name = memory[k].name /\ new(k).element = memory[k].element
             /\ new(k).value = NewValue(memory[k], volts', currs', query)
  <2>1. memory[k] \in Stored
    BY <1>1
  <2> DEFINE x == NewValue(memory[k], volts', currs', query)
  <2>2. x \in Int \cup {Undefined}
    BY <1>2
  <2> HIDE DEF x
  <2>3. /\ [memory[k] EXCEPT !.value = x] \in Stored
        /\ [memory[k] EXCEPT !.value = x].name = memory[k].name
        /\ [memory[k] EXCEPT !.value = x].element = memory[k].element
        /\ [memory[k] EXCEPT !.value = x].value = x
    BY <2>1, <2>2 DEF Stored
  <2> QED
    BY <2>3 DEF x
<1> HIDE DEF new
<1>5. memory' \in Seq(Stored)
  <2>1. \A k \in 1..Len(memory) : new(k) \in Stored
    BY <1>1, <1>4
  <2>2. [k \in 1..Len(memory) |-> new(k)] \in Seq(Stored)
    BY <1>1, <2>1
  <2> QED
    BY <1>1, <1>3, <2>2
<1>6. /\ DOMAIN memory' = DOMAIN memory
      /\ \A k \in DOMAIN memory :
            /\ memory'[k].name = memory[k].name /\ memory'[k].element = memory[k].element
            /\ memory'[k].value = NewValue(memory[k], volts', currs', query)
            /\ memory'[k].value \in Int
  BY <1>2, <1>3, <1>4
<1>7. AllReactive(memory')
  BY <1>6 DEF AllReactive, TypeInv
<1> DEFINE vs == VoltsAt(volts', query)
           cs == CurrsAt(currs', query)
<1>8. /\ vs \in Seq(Int) /\ cs \in Seq(Int)
      /\ Len(vs) = Len(probe_vol(query)) /\ Len(cs) = Len(probe_cur(query))
  BY <1>1, ReadingsType
<1>9. /\ Len(query.volts) \in Nat /\ Len(query.currents) \in Nat
      /\ Len(query.volts) <= Len(vs) /\ Len(query.currents) <= Len(cs)
  BY <1>1, <1>8, Probes DEF Probed
<1>10. reply' = [message |-> "ok", status |-> FALSE, voltages |-> Ending(vs, Len(query.volts)),
                 currents |-> Ending(cs, Len(query.currents))]
  BY AnswerIs
<1> HIDE DEF vs, cs
<1>11. Ending(vs, Len(query.volts)) \in Seq(Int) /\ Ending(cs, Len(query.currents)) \in Seq(Int)
  BY <1>8, <1>9, EndingType
<1>12. reply' \in Replies
  BY <1>10, <1>11 DEF Replies
<1> QED
  BY <1>5, <1>6, <1>7, <1>12

(* An action that changes only the values, or nothing, of memory.          *)
LEMMA ValuesType ==
    ASSUME TypeInv, NEW f, \A k \in DOMAIN memory : f[k] \in Int \cup {Undefined},
           memory' = [k \in DOMAIN memory |-> [memory[k] EXCEPT !.value = f[k]]]
    PROVE  memory' \in Seq(Stored) /\ AllReactive(memory')
<1>1. memory \in Seq(Stored) /\ DOMAIN memory = 1..Len(memory) /\ Len(memory) \in Nat
  <2>1. memory \in Seq(Stored)
    BY TypeParts DEF Typed
  <2> QED
    BY <2>1
<1>2. ASSUME NEW k \in 1..Len(memory)
      PROVE  /\ [memory[k] EXCEPT !.value = f[k]] \in Stored
             /\ [memory[k] EXCEPT !.value = f[k]].name = memory[k].name
  <2>1. memory[k] \in Stored /\ f[k] \in Int \cup {Undefined}
    BY <1>1
  <2> QED
    BY <2>1 DEF Stored
<1>3. memory' = [k \in 1..Len(memory) |-> [memory[k] EXCEPT !.value = f[k]]]
  BY <1>1
<1>4. [k \in 1..Len(memory) |-> [memory[k] EXCEPT !.value = f[k]]] \in Seq(Stored)
  BY <1>1, <1>2
<1>5. memory' \in Seq(Stored)
  BY <1>3, <1>4
<1>6. AllReactive(memory')
  BY <1>1, <1>2, <1>3 DEF AllReactive, TypeInv
<1> QED
  BY <1>5, <1>6

LEMMA LatestType ==
    ASSUME NEW old \in [Words -> Int], NEW new, \A w \in DOMAIN new : new[w] \in Int
    PROVE  Latest(old, new) \in [Words -> Int]
  BY DEF Latest

LEMMA SimulatedType ==
    ASSUME NEW s \in Simulations
    PROVE  (\A w \in DOMAIN s.volt : s.volt[w] \in Int) /\ (\A w \in DOMAIN s.current : s.current[w] \in Int)
<1>1. s.volt \in [Edges \ {Ground} -> Values] /\ s.current \in [ElementNames(Joined(native)) \cap Branches -> Values]
  BY DEF Simulations
<1> QED
  BY <1>1, ValuesAssumption

(* What a client passes and reads has its type, whatever netlists are      *)
(* refused, names unknown and simulations failed (the state ds_status of   *)
(* saharaspice.js, Global and INgSpice).                                   *)
THEOREM TypesInvariant == Spec => []TypeInv
<1>1. Init => TypeInv
  <2> SUFFICES ASSUME Init PROVE TypeInv
    OBVIOUS
  <2>1. memory \in Seq(Stored) /\ AllReactive(memory)
    BY DEF Init, AllReactive
  <2>2. reply \in Replies
    BY DEF Init, NoReply, Replies
  <2>3. state \in States
    BY DEF Init, States
  <2>4. volts \in [Words -> Int] /\ currs \in [Words -> Int]
    BY DEF Init
  <2>5. /\ circuit \in Netlists \cup {Null} /\ started \in BOOLEAN /\ ready \in BOOLEAN
        /\ native \in Netlists \cup {Null}
        /\ asked \in Queries \cup {NoQuery}
    BY DEF Init
  <2> QED
    BY <2>1, <2>2, <2>3, <2>4, <2>5, TypeParts DEF Typed
<1>2. TypeInv /\ [Next]_vars => TypeInv'
  <2>t. (TypeInv <=> Typed) /\ (TypeInv <=> Typed)'
    BY TypeParts, PTL
  <2> SUFFICES ASSUME TypeInv, Typed, [Next]_vars PROVE Typed'
    BY <2>t
  <2>0. <<>> \in Seq(Stored) /\ AllReactive(<<>>)
    BY DEF AllReactive
  <2>1. CASE \E initialised \in BOOLEAN : Start(initialised)
    <3>1. UNCHANGED <<circuit, memory, native, volts, currs, asked, reply>> /\ started' \in BOOLEAN
          /\ ready' \in {ready, TRUE}
          /\ state' \in {"running", "error"}
      BY <2>1 DEF Start, Unasked, lastRun
    <3> QED
      BY <3>1 DEF Typed, States
  <2>2. CASE Stop
    <3>1. UNCHANGED <<native, volts, currs, asked, reply>> /\ started' \in BOOLEAN
          /\ ready' \in {ready, TRUE}
          /\ state' \in {"stopped", "error"} /\ circuit' = Null /\ memory' = <<>>
      BY <2>2 DEF Stop, Unasked, lastRun
    <3> QED
      BY <2>0, <3>1 DEF Typed, States
  <2>3. CASE Reset
    <3>1. UNCHANGED <<circuit, memory, native, volts, currs, asked, reply>> /\ started' \in BOOLEAN
          /\ ready' \in {ready, TRUE}
          /\ state' \in {"reset", "error"}
      BY <2>3 DEF Reset, Unasked, lastRun
    <3> QED
      BY <3>1 DEF Typed, States
  <2>4. CASE Restart
    <3>1. UNCHANGED <<native, volts, currs, asked, reply>> /\ started' \in BOOLEAN
          /\ ready' \in {ready, TRUE}
          /\ state' = "error" /\ circuit' = Null /\ memory' = <<>>
      BY <2>4 DEF Restart, Unasked, lastRun
    <3> QED
      BY <2>0, <3>1 DEF Typed, States
  <2>5. ASSUME NEW netlist \in Netlists, NEW given \in Given(StoredIn(netlist)), Load(netlist, given)
        PROVE  Typed'
    <3>1. /\ UNCHANGED <<state, started, ready, volts, currs, asked, reply>>
          /\ native' \in {netlist, native} /\ circuit' = netlist
          /\ memory' = MemoryOf(netlist, given)
      BY <2>5 DEF Load, Unasked, lastRun
    <3>2. memory' \in Seq(Stored) /\ AllReactive(memory')
      BY <3>1, MemoryType DEF Typed
    <3> QED
      BY <3>1, <3>2 DEF Typed, States
  <2>6. ASSUME NEW given \in Given(Names), UpdateMemory(given) PROVE Typed'
    <3> DEFINE f == [k \in DOMAIN memory |-> IF memory[k].name \in DOMAIN given
                                            THEN given[memory[k].name] ELSE memory[k].value]
    <3>1. UNCHANGED <<state, circuit, started, ready, native, volts, currs, asked, reply>>
      BY <2>6 DEF UpdateMemory, Unasked, lastRun, addon
    <3>2. \A k \in DOMAIN memory : memory[k] \in Stored
      BY DEF Typed, States
    <3>3. \A n \in DOMAIN given : given[n] \in Int
      <4>1. PICK S : given \in [S -> Initials]
        BY DEF Given
      <4> QED
        BY <4>1, ValuesAssumption
    <3>4. \A k \in DOMAIN memory : f[k] \in Int \cup {Undefined}
      BY <3>2, <3>3 DEF Stored
    <3>5. memory' = [k \in DOMAIN memory |-> [memory[k] EXCEPT !.value = f[k]]]
      <4>1. \A k \in DOMAIN memory : [memory[k] EXCEPT !.value = memory[k].value] = memory[k]
        BY <3>2 DEF Stored
      <4>2. memory' = [k \in DOMAIN memory |-> IF memory[k].name \in DOMAIN given
                            THEN [memory[k] EXCEPT !.value = given[memory[k].name]] ELSE memory[k]]
        BY <2>6 DEF UpdateMemory
      <4> QED
        BY <4>1, <4>2
    <3> HIDE DEF f
    <3>6. memory' \in Seq(Stored) /\ AllReactive(memory')
      BY <3>4, <3>5, ValuesType
    <3> QED
      BY <3>1, <3>6 DEF Typed, States
  <2>7. ASSUME NEW query \in Queries, WrongName(query) PROVE Typed'
    <3>1. /\ UNCHANGED <<state, circuit, started, ready, native, volts, currs>> /\ asked' = query
          /\ reply' = [message |-> IF KnownEdges(query) THEN "wrong element" ELSE "wrong edge",
                       status |-> FALSE, voltages |-> <<>>, currents |-> <<>>]
          /\ memory' = [k \in DOMAIN memory |-> [memory[k] EXCEPT !.value = Undefined]]
      BY <2>7 DEF WrongName, addon
    <3> DEFINE f == [k \in DOMAIN memory |-> Undefined]
    <3>2. memory' = [k \in DOMAIN memory |-> [memory[k] EXCEPT !.value = f[k]]]
      BY <3>1
    <3>3. memory' \in Seq(Stored) /\ AllReactive(memory')
      <4>1. \A k \in DOMAIN memory : f[k] \in Int \cup {Undefined}
        OBVIOUS
      <4> HIDE DEF f
      <4> QED
        BY <3>2, <4>1, ValuesType
    <3>4. reply' \in Replies
      <4>1. <<>> \in Seq(Int)
        OBVIOUS
      <4> QED
        BY <3>1, <4>1 DEF Replies
    <3> QED
      BY <3>1, <3>3, <3>4 DEF Typed, States
  <2>8. ASSUME NEW query \in Queries, Simulate(query) PROVE Typed'
    <3>1. /\ UNCHANGED <<state, circuit, started, ready, native>> /\ asked' = query /\ Answer(query)
          /\ \E s \in Simulations : /\ volts' = Latest(volts, s.volt)
                                    /\ currs' = Latest(currs, s.current)
      BY <2>8 DEF Simulate, addon
    <3>2. volts' \in [Words -> Int] /\ currs' \in [Words -> Int]
      BY <3>1, SimulatedType, LatestType DEF Typed, States
    <3> QED
      BY <3>1, <3>2, AnswerType DEF Typed, States
  <2>9. ASSUME NEW query \in Queries, SimulationFails(query) PROVE Typed'
    <3>1. /\ UNCHANGED <<state, circuit, started, ready, native, volts, currs>> /\ asked' = query
          /\ Answer(query)
      BY <2>9 DEF SimulationFails, addon
    <3>2. volts' \in [Words -> Int] /\ currs' \in [Words -> Int]
      BY <3>1 DEF Typed, States
    <3> QED
      BY <3>1, <3>2, AnswerType DEF Typed, States
  <2>10. CASE UNCHANGED vars
    BY <2>10 DEF vars, js, addon, lastRun, Typed
  <2> QED
    BY <2>1, <2>2, <2>3, <2>4, <2>5, <2>6, <2>7, <2>8, <2>9, <2>10 DEF Next
<1> QED
  BY <1>1, <1>2, PTL DEF Spec

THEOREM TypesCorrect == Spec => []TypeOK
<1>1. TypeInv => TypeOK
  BY DEF TypeInv
<1> QED
  BY <1>1, TypesInvariant, PTL

-----------------------------------------------------------------------------
TidyNetlists == \A netlist \in Netlists : TidyNetlist(netlist)

(* Memory is about the netlist's capacitors and inductors, each once.      *)
About(mem, netlist) ==
    /\ Distinct(mem)
    /\ \A k \in DOMAIN mem : /\ mem[k].name \in StoredIn(netlist)
                             /\ mem[k].element = LineOf(netlist, mem[k].name)
    /\ \A n \in StoredIn(netlist) : \E k \in DOMAIN mem : mem[k].name = n

Linked ==
    /\ circuit = Null => memory = <<>>
    /\ circuit # Null => circuit = native /\ About(memory, circuit)

LEMMA SameAbout ==
    ASSUME NEW mem, NEW new, DOMAIN new = DOMAIN mem,
           \A k \in DOMAIN mem : new[k].name = mem[k].name /\ new[k].element = mem[k].element,
           NEW netlist, About(mem, netlist)
    PROVE  About(new, netlist)
<1>1. Distinct(new)
  BY DEF Distinct, About
<1>2. \A k \in DOMAIN new : new[k].name \in StoredIn(netlist) /\ new[k].element = LineOf(netlist, new[k].name)
  BY DEF About
<1>3. \A n \in StoredIn(netlist) : \E k \in DOMAIN new : new[k].name = n
  BY DEF About
<1> QED
  BY <1>1, <1>2, <1>3 DEF About

(* A call that leaves the circuit, and memory up to its values.            *)
SameNames(new, old) ==
    /\ DOMAIN new = DOMAIN old
    /\ \A k \in DOMAIN old : new[k].name = old[k].name /\ new[k].element = old[k].element

LEMMA LinkedStays ==
    ASSUME Linked, memory \in Seq(Stored), memory' \in Seq(Stored),
           SameNames(memory', memory), circuit' = circuit, native' = native
    PROVE  Linked'
<1>1. ASSUME circuit = Null PROVE memory' = <<>>
  <2>1. memory = <<>>
    BY <1>1 DEF Linked
  <2>2. DOMAIN memory' = {}
    BY <2>1 DEF SameNames
  <2>3. Len(memory') = 0
    BY <2>2
  <2> QED
    BY <2>3
<1>2. ASSUME circuit # Null PROVE circuit = native /\ About(memory', circuit)
  <2>1. circuit = native /\ About(memory, circuit)
    BY <1>2 DEF Linked
  <2>2. DOMAIN memory' = DOMAIN memory /\ \A k \in DOMAIN memory :
             memory'[k].name = memory[k].name /\ memory'[k].element = memory[k].element
    BY DEF SameNames
  <2> QED
    BY <2>1, <2>2, SameAbout
<1>3. /\ circuit' = Null => memory' = <<>>
      /\ circuit' # Null => circuit' = native' /\ About(memory', circuit')
  BY <1>1, <1>2
<1> QED
  BY <1>3 DEF Linked

LEMMA LoadLinks ==
    ASSUME TidyNetlists, NEW netlist \in Netlists, NEW given, Load(netlist, given)
    PROVE  Linked'
<1> DEFINE mem == MemoryOf(netlist, given)
<1>1. circuit' = netlist /\ native' = netlist /\ memory' = mem
  BY DEF Load, TidyNetlists, TidyNetlist
<1>2. Filled(mem, netlist, given)
  BY NetlistsAssumption, MemoryFilled
<1> HIDE DEF mem
<1>3. About(mem, netlist)
  BY <1>2 DEF Filled, About
<1>4. netlist # Null
  BY NetlistsAssumption, ValuesAssumption
<1>5. /\ circuit' = Null => memory' = <<>>
      /\ circuit' # Null => circuit' = native' /\ About(memory', circuit')
  BY <1>1, <1>3, <1>4
<1> QED
  BY <1>5 DEF Linked

(* What the calls that only touch values do to memory.                     *)
LEMMA OnlyValues ==
    ASSUME memory \in Seq(Stored), NEW query,
           \/ \E given : UpdateMemory(given)
           \/ WrongName(query) \/ Answer(query)
    PROVE  SameNames(memory', memory)
<1>1. \A k \in DOMAIN memory : memory[k] \in Stored
  OBVIOUS
<1>2. \A k \in DOMAIN memory : \A x : /\ [memory[k] EXCEPT !.value = x].name = memory[k].name
                                     /\ [memory[k] EXCEPT !.value = x].element = memory[k].element
  BY <1>1 DEF Stored
<1>3. ASSUME NEW given, UpdateMemory(given) PROVE SameNames(memory', memory)
  <2>1. memory' = [k \in DOMAIN memory |-> IF memory[k].name \in DOMAIN given
             THEN [memory[k] EXCEPT !.value = given[memory[k].name]] ELSE memory[k]]
    BY <1>3 DEF UpdateMemory
  <2> QED
    BY <1>2, <2>1 DEF SameNames
<1>4. ASSUME WrongName(query) PROVE SameNames(memory', memory)
  <2>1. memory' = [k \in DOMAIN memory |-> [memory[k] EXCEPT !.value = Undefined]]
    BY <1>4 DEF WrongName
  <2> QED
    BY <1>2, <2>1 DEF SameNames
<1>5. ASSUME Answer(query) PROVE SameNames(memory', memory)
  <2>1. memory' = [k \in DOMAIN memory |->
                     [memory[k] EXCEPT !.value = NewValue(memory[k], volts', currs', query)]]
    BY <1>5, AnswerIs
  <2> QED
    BY <1>2, <2>1 DEF SameNames
<1> QED
  BY <1>3, <1>4, <1>5

LEMMA LinkedInvariant ==
    ASSUME TidyNetlists
    PROVE  Spec => []Linked
<1>1. Init => Linked
  BY DEF Init, Linked
<1>2. TypeInv /\ TypeInv' /\ Linked /\ [Next]_vars => Linked'
  <2> SUFFICES ASSUME TypeInv, TypeInv', Linked, [Next]_vars PROVE Linked'
    OBVIOUS
  <2>0. memory \in Seq(Stored) /\ memory' \in Seq(Stored)
    BY DEF TypeInv, TypeOK
  <2>s. ASSUME UNCHANGED <<circuit, memory, native>> PROVE Linked'
    BY <2>s DEF Linked
  <2>1. CASE \E initialised \in BOOLEAN : Start(initialised)
    BY <2>1, <2>s DEF Start
  <2>2. CASE Stop
    BY <2>2 DEF Stop, Linked
  <2>3. CASE Reset
    BY <2>3, <2>s DEF Reset
  <2>4. CASE Restart
    BY <2>4 DEF Restart, Linked
  <2>5. ASSUME NEW netlist \in Netlists, NEW given \in Given(StoredIn(netlist)), Load(netlist, given)
        PROVE  Linked'
    BY <2>5, LoadLinks
  <2>6. ASSUME NEW given \in Given(Names), UpdateMemory(given) PROVE Linked'
    <3>1. SameNames(memory', memory)
      BY <2>0, <2>6, OnlyValues
    <3>2. circuit' = circuit /\ native' = native
      BY <2>6 DEF UpdateMemory, addon
    <3> QED
      BY <2>0, <3>1, <3>2, LinkedStays
  <2>7. ASSUME NEW query \in Queries, WrongName(query) \/ Simulate(query) \/ SimulationFails(query)
        PROVE  Linked'
    <3>1. WrongName(query) \/ Answer(query)
      BY <2>7 DEF Simulate, SimulationFails
    <3>2. SameNames(memory', memory)
      BY <2>0, <3>1, OnlyValues
    <3>3. circuit' = circuit /\ native' = native
      BY <2>7 DEF WrongName, Simulate, SimulationFails, addon
    <3> QED
      BY <2>0, <3>2, <3>3, LinkedStays
  <2>8. CASE UNCHANGED vars
    BY <2>8, <2>s DEF vars, js, addon
  <2> QED
    BY <2>1, <2>2, <2>3, <2>4, <2>5, <2>6, <2>7, <2>8 DEF Next
<1> QED
  BY <1>1, <1>2, TypesInvariant, PTL DEF Spec

(* For tidy netlists, what saharaspice.js calls the circuit is the one     *)
(* that the addon simulates, whatever calls failed, and memory holds its   *)
(* capacitors and inductors, each of them once (loadCircuit, stop and      *)
(* restart of saharaspice.js, Global::setCircuit).                         *)
THEOREM CircuitCorrect ==
    ASSUME TidyNetlists
    PROVE  Spec => []SameCircuit
<1>1. TypeInv /\ Linked => SameCircuit
  <2> SUFFICES ASSUME TypeInv, Linked, circuit # Null PROVE SameCircuit
    BY DEF SameCircuit
  <2>1. circuit = native /\ About(memory, circuit)
    BY DEF Linked
  <2>2. circuit \in Netlists
    BY DEF TypeInv, TypeOK
  <2>3. Names = StoredIn(circuit)
    BY <2>1 DEF Names, About
  <2>4. Names = ElementNames(Joined(native)) \cap Reactive
    BY <2>1, <2>2, <2>3 DEF TidyNetlists, TidyNetlist
  <2>5. \A j, k \in DOMAIN memory : memory[j].name = memory[k].name => j = k
    BY <2>1 DEF About, Distinct
  <2> QED
    BY <2>1, <2>4, <2>5 DEF SameCircuit, Reactive
<1> QED
  BY <1>1, TypesInvariant, LinkedInvariant, PTL

-----------------------------------------------------------------------------
TidyRequests == \A query \in Queries, netlist \in Netlists : TidyQuery(query, netlist)

(* Memory is about the native circuit even when the circuit is unset.      *)
LEMMA NativeElements ==
    ASSUME TypeInv, Linked, TidyNetlists, native # Null, NEW k \in DOMAIN memory
    PROVE  LET words == memory[k].element.words
           IN  /\ words \in Seq(Words) /\ 2 \in DOMAIN words /\ 3 \in DOMAIN words
               /\ Nodes(memory[k]) = IF words[3] = Ground THEN <<words[2]>> ELSE <<words[2], words[3]>>
               /\ words[2] \in Edges /\ words[3] \in Edges
               /\ memory[k].name \in ElementNames(Joined(native))
<1> DEFINE m == memory[k]
           words == m.element.words
<1>1. circuit # Null
  <2>1. circuit = Null => memory = <<>>
    BY DEF Linked
  <2> QED
    BY <2>1
<1>2. circuit = native /\ About(memory, circuit) /\ native \in Netlists
  BY <1>1 DEF Linked, TypeInv, TypeOK
<1>3. m.name \in StoredIn(native) /\ m.element = LineOf(native, m.name)
  BY <1>2 DEF About
<1>4. m \in Stored
  <2>1. memory \in Seq(Stored)
    BY DEF TypeInv, TypeOK
  <2> QED
    BY <2>1
<1> HIDE DEF m
<1>5. words \in Seq(Words)
  <2>1. m.element \in Line
    BY <1>4 DEF Stored
  <2> QED
    BY <2>1 DEF Line
<1>6. \A i \in {2, 3} : /\ i \in DOMAIN words /\ parseInt[words[i]] = words[i]
                        /\ words[i] \in NodesOf(Joined(native))
  BY <1>2, <1>3 DEF TidyNetlists, TidyNetlist
<1>7. m.name \in ElementNames(Joined(native))
  BY <1>2, <1>3 DEF TidyNetlists, TidyNetlist
<1>8. Word(m.element, 2) = words[2] /\ Word(m.element, 3) = words[3]
  BY <1>6 DEF Word
<1>9. Nodes(m) = IF words[3] = Ground THEN <<words[2]>> ELSE <<words[2], words[3]>>
  BY <1>8 DEF Nodes
<1> QED
  BY <1>5, <1>6, <1>7, <1>9 DEF m, Edges

LEMMA NodesKnown ==
    ASSUME TypeInv, Linked, TidyNetlists, native # Null, NEW k \in DOMAIN memory
    PROVE  Range(Nodes(memory[k])) \subseteq Edges
<1> DEFINE words == memory[k].element.words
           two == words[2]
           three == words[3]
<1>1. Nodes(memory[k]) = IF three = Ground THEN <<two>> ELSE <<two, three>>
  BY NativeElements
<1>2. two \in Edges /\ three \in Edges
  BY NativeElements
<1> HIDE DEF two, three
<1> QED
  BY <1>1, <1>2 DEF Range

(* No call of runTransient is refused.                                     *)
LEMMA AllKnown ==
    ASSUME TypeInv, Linked, TidyNetlists, TidyRequests, native # Null, NEW query \in Queries
    PROVE  KnownEdges(query) /\ KnownElements(query)
<1>1. memory \in Seq(Stored) /\ native \in Netlists
  BY DEF TypeInv, TypeOK
<1>2. Probed(query)
  BY <1>1, Probes
<1>3. query.volts \in Seq(Seq(Words)) /\ query.currents \in Seq(Words)
  BY QueriesAssumption
<1> DEFINE sc == StoredCapacitors
           si == StoredInductors
           pv == probe_vol(query)
           pc == probe_cur(query)
<1>4. Parted(sc, memory, CapacitorsAt) /\ Parted(si, memory, InductorsAt)
  BY <1>1, StoredParts
<1>5. CapacitorsAt \subseteq DOMAIN memory /\ InductorsAt \subseteq DOMAIN memory
  BY DEF CapacitorsAt, InductorsAt
<1> HIDE DEF sc, si
<1>6. ASSUME NEW k \in 1..Len(sc) PROVE Range(pv[k]) \subseteq Edges
  <2>1. pv[k] = Nodes(sc[k])
    BY <1>2, <1>6 DEF Probed, sc
  <2>2. PICK i \in CapacitorsAt : sc[k] = memory[i]
    BY <1>4 DEF Parted
  <2>3. i \in DOMAIN memory
    BY <1>5
  <2> QED
    BY <2>1, <2>2, <2>3, NodesKnown
<1>7. ASSUME NEW k \in 1..Len(query.volts) PROVE Range(pv[Len(sc) + k]) \subseteq Edges
  <2>1. pv[Len(sc) + k] = WithoutGround(query.volts[k])
    BY <1>2, <1>7 DEF Probed, sc
  <2>2. DOMAIN query.volts = 1..Len(query.volts)
    BY <1>3
  <2> DEFINE v == query.volts[k]
  <2>3. v \in Seq(Words)
    <3>1. \A S : \A s \in Seq(S) : \A i \in 1..Len(s) : s[i] \in S
      OBVIOUS
    <3> QED
      BY <1>3, <3>1
  <2>4. Len(v) \in {1, 2} /\ \A i \in DOMAIN v : v[i] \in Edges
    BY <1>1, <2>2 DEF TidyRequests, TidyQuery, Edges
  <2> HIDE DEF v
  <2>5. Range(WithoutGround(v)) \subseteq Edges
    <3>1. 1 \in DOMAIN v
      BY <2>3, <2>4
    <3>2. v[1] \in Edges
      BY <2>4, <3>1
    <3>3. Range(v) \subseteq Edges
      BY <2>4 DEF Range
    <3>4. Range(<<v[1]>>) \subseteq Edges
      BY <3>2 DEF Range
    <3> QED
      BY <3>3, <3>4 DEF WithoutGround
  <2> QED
    BY <2>1, <2>5 DEF v
<1>8. ASSUME NEW k \in 1..Len(si) PROVE pc[k] \in ElementNames(Joined(native))
  <2>1. pc[k] = si[k].name
    BY <1>2, <1>8 DEF Probed, si
  <2>2. PICK i \in InductorsAt : si[k] = memory[i]
    BY <1>4 DEF Parted
  <2>3. i \in DOMAIN memory
    BY <1>5
  <2> QED
    BY <2>1, <2>2, <2>3, NativeElements
<1>9. ASSUME NEW k \in 1..Len(query.currents) PROVE pc[Len(si) + k] \in ElementNames(Joined(native))
  <2>1. pc[Len(si) + k] = query.currents[k]
    BY <1>2, <1>9 DEF Probed, si
  <2>2. DOMAIN query.currents = 1..Len(query.currents)
    BY <1>3
  <2> QED
    BY <1>1, <2>1, <2>2 DEF TidyRequests, TidyQuery
<1>10. /\ DOMAIN pv = 1..Len(pv) /\ Len(pv) = Len(sc) + Len(query.volts)
       /\ DOMAIN pc = 1..Len(pc) /\ Len(pc) = Len(si) + Len(query.currents)
       /\ Len(sc) \in Nat /\ Len(si) \in Nat
       /\ Len(query.volts) \in Nat /\ Len(query.currents) \in Nat
  <2>1. \A S : \A s \in Seq(S) : DOMAIN s = 1..Len(s)
    OBVIOUS
  <2>2. pv \in Seq(Seq(Words)) /\ pc \in Seq(Words)
    BY <1>2 DEF Probed
  <2>3. DOMAIN pv = 1..Len(pv) /\ DOMAIN pc = 1..Len(pc)
    BY <2>1, <2>2
  <2> QED
    BY <1>2, <2>3 DEF Probed, sc, si
<1> HIDE DEF pv, pc
<1>11. ASSUME NEW j \in DOMAIN pv PROVE Range(pv[j]) \subseteq Edges
  <2>1. CASE j \in 1..Len(sc)
    BY <1>6, <2>1
  <2>2. CASE j \notin 1..Len(sc)
    <3>1. j - Len(sc) \in 1..Len(query.volts) /\ j = Len(sc) + (j - Len(sc))
      BY <1>10, <2>2
    <3> QED
      BY <1>7, <3>1
  <2> QED
    BY <2>1, <2>2
<1>12. ASSUME NEW j \in DOMAIN pc PROVE pc[j] \in ElementNames(Joined(native))
  <2>1. CASE j \in 1..Len(si)
    BY <1>8, <2>1
  <2>2. CASE j \notin 1..Len(si)
    <3>1. j - Len(si) \in 1..Len(query.currents) /\ j = Len(si) + (j - Len(si))
      BY <1>10, <2>2
    <3> QED
      BY <1>9, <3>1
  <2> QED
    BY <2>1, <2>2
<1>13. UNION {Range(nodes) : nodes \in Range(pv)} \subseteq Edges
  <2>1. \A nodes \in Range(pv) : Range(nodes) \subseteq Edges
    BY <1>11 DEF Range
  <2> HIDE DEF Edges
  <2> QED
    BY <2>1
<1>14. Range(pc) \subseteq ElementNames(Joined(native))
  BY <1>12 DEF Range
<1> QED
  BY <1>13, <1>14 DEF KnownEdges, KnownElements, pv, pc

LEMMA GivenType ==
    ASSUME NEW names, NEW given \in Given(names)
    PROVE  \A n \in DOMAIN given : given[n] \in Int
<1>1. PICK S : given \in [S -> Initials]
  BY DEF Given
<1> QED
  BY <1>1, ValuesAssumption

LEMMA LoadHasValues ==
    ASSUME TypeInv, MemoryHasValues, NEW netlist \in Netlists,
           NEW names, NEW given \in Given(names)
    PROVE  \A k \in DOMAIN MemoryOf(netlist, given) : MemoryOf(netlist, given)[k].value \in Int
<1> DEFINE mem == MemoryOf(netlist, given)
<1>1. memory \in Seq(Stored)
  BY DEF TypeInv, TypeOK
<1>2. Len(memory) \in Nat /\ DOMAIN memory = 1..Len(memory)
  BY <1>1
<1>3. ASSUME NEW n \in Names PROVE ValueOf(memory, n) \in Int
  <2>1. PICK k \in 1..Len(memory) : n = memory[k].name
    BY <1>2 DEF Names
  <2>2. IndexOf(memory, n) \in 1..Len(memory)
    BY <1>2, <2>1, FoundThere
  <2> QED
    BY <1>2, <2>2 DEF ValueOf, MemoryHasValues
<1>4. \A n : InitialValue(n, given) \in Int
  BY <1>3, GivenType DEF InitialValue
<1>5. Filled(mem, netlist, given)
  BY NetlistsAssumption, MemoryFilled
<1> HIDE DEF mem
<1>6. ASSUME NEW k \in DOMAIN mem PROVE mem[k].value \in Int
  <2> DEFINE x == InitialValue(mem[k].name, given)
  <2>1. mem[k] = [name |-> mem[k].name, element |-> LineOf(netlist, mem[k].name), value |-> x]
    BY <1>5 DEF Filled
  <2>2. x \in Int
    BY <1>4
  <2> HIDE DEF x
  <2>3. mem[k].value = x
    BY <2>1
  <2> QED
    BY <2>2, <2>3
<1> QED
  BY <1>6 DEF mem

(* For tidy netlists and queries no element in memory is ever left without *)
(* a value, "in all other cases, set to 0" (loadCircuit, updateMemory and  *)
(* runTransient of saharaspice.js), also when simulations fail.            *)
THEOREM ValuesCorrect ==
    ASSUME TidyNetlists, TidyRequests
    PROVE  Spec => []MemoryHasValues
<1>1. Init => MemoryHasValues
  BY DEF Init, MemoryHasValues
<1>2. TypeInv /\ Linked /\ TypeInv' /\ MemoryHasValues /\ [Next]_vars => MemoryHasValues'
  <2> SUFFICES ASSUME TypeInv, Linked, TypeInv', MemoryHasValues, [Next]_vars
               PROVE  MemoryHasValues'
    OBVIOUS
  <2>0. memory \in Seq(Stored) /\ \A k \in DOMAIN memory : memory[k].value \in Int
    BY DEF TypeInv, TypeOK, MemoryHasValues
  <2>s. SUFFICES \A k \in DOMAIN memory' : memory'[k].value \in Int
    BY DEF MemoryHasValues
  <2>1. CASE \E initialised \in BOOLEAN : Start(initialised)
    BY <2>0, <2>1 DEF Start
  <2>2. CASE Stop
    BY <2>2 DEF Stop
  <2>3. CASE Reset
    BY <2>0, <2>3 DEF Reset
  <2>4. CASE Restart
    BY <2>4 DEF Restart
  <2>5. ASSUME NEW netlist \in Netlists, NEW given \in Given(StoredIn(netlist)), Load(netlist, given)
        PROVE  \A k \in DOMAIN memory' : memory'[k].value \in Int
    <3>1. memory' = MemoryOf(netlist, given)
      BY <2>5 DEF Load
    <3> QED
      BY <3>1, LoadHasValues
  <2>6. ASSUME NEW given \in Given(Names), UpdateMemory(given)
        PROVE  \A k \in DOMAIN memory' : memory'[k].value \in Int
    <3>1. memory' = [k \in DOMAIN memory |-> IF memory[k].name \in DOMAIN given
               THEN [memory[k] EXCEPT !.value = given[memory[k].name]] ELSE memory[k]]
      BY <2>6 DEF UpdateMemory
    <3>2. \A n \in DOMAIN given : given[n] \in Int
      BY GivenType
    <3>3. \A k \in DOMAIN memory : \A x : [memory[k] EXCEPT !.value = x].value = x
      BY <2>0 DEF Stored
    <3> QED
      BY <2>0, <3>1, <3>2, <3>3
  <2>7. ASSUME NEW query \in Queries PROVE ~WrongName(query)
    <3>1. native # Null => KnownEdges(query) /\ KnownElements(query)
      BY AllKnown
    <3> QED
      BY <3>1 DEF WrongName
  <2>8. ASSUME NEW query \in Queries, Simulate(query) \/ SimulationFails(query)
        PROVE  \A k \in DOMAIN memory' : memory'[k].value \in Int
    <3>1. Answer(query)
      BY <2>8 DEF Simulate, SimulationFails
    <3>2. volts' \in [Words -> Int] /\ currs' \in [Words -> Int]
      BY DEF TypeInv, TypeOK
    <3> QED
      BY <3>1, <3>2, AnswerType
  <2>9. CASE UNCHANGED vars
    BY <2>0, <2>9 DEF vars, js
  <2> QED
    BY <2>1, <2>2, <2>3, <2>4, <2>5, <2>6, <2>7, <2>8, <2>9 DEF Next
<1> QED
  BY <1>1, <1>2, TypesInvariant, LinkedInvariant, PTL DEF Spec

-----------------------------------------------------------------------------
(* The refinement.  The abstract state, of any memory.                     *)
NamesOf(mem)    == {mem[k].name : k \in DOMAIN mem}
ElementsOf(mem) == [n \in NamesOf(mem) |-> mem[IndexOf(mem, n)].element]
ChargeOf(mem)   == [n \in NamesOf(mem) |-> ValueOf(mem, n)]

LEMMA NameIndex ==
    ASSUME NEW mem \in Seq(Stored), Distinct(mem), NEW n \in NamesOf(mem)
    PROVE  /\ IndexOf(mem, n) \in DOMAIN mem /\ mem[IndexOf(mem, n)].name = n
           /\ \A k \in DOMAIN mem : mem[k].name = n => IndexOf(mem, n) = k
<1>1. Len(mem) \in Nat /\ DOMAIN mem = 1..Len(mem)
  OBVIOUS
<1>2. \A k \in 1..Len(mem) : /\ IndexOf(mem, mem[k].name) \in 1..Len(mem)
                             /\ mem[IndexOf(mem, mem[k].name)].name = mem[k].name
                             /\ IndexOf(mem, mem[k].name) = k
  BY <1>1, FoundThere
<1>3. PICK k \in 1..Len(mem) : n = mem[k].name
  BY <1>1 DEF NamesOf
<1> QED
  BY <1>1, <1>2, <1>3

LEMMA SameKeys ==
    ASSUME NEW mem \in Seq(Stored), NEW new \in Seq(Stored), Distinct(mem), SameNames(new, mem)
    PROVE  /\ NamesOf(new) = NamesOf(mem) /\ Distinct(new)
           /\ \A n \in NamesOf(mem) : IndexOf(new, n) = IndexOf(mem, n)
           /\ ElementsOf(new) = ElementsOf(mem)
<1>1. NamesOf(new) = NamesOf(mem)
  BY DEF SameNames, NamesOf
<1>2. Distinct(new)
  BY DEF SameNames, Distinct
<1>3. ASSUME NEW n \in NamesOf(mem) PROVE IndexOf(new, n) = IndexOf(mem, n)
  <2>1. IndexOf(mem, n) \in DOMAIN mem /\ mem[IndexOf(mem, n)].name = n
    BY NameIndex
  <2> DEFINE i == IndexOf(mem, n)
  <2>2. i \in DOMAIN new /\ new[i].name = n
    BY <2>1 DEF SameNames
  <2>3. \A k \in DOMAIN new : new[k].name = n => IndexOf(new, n) = k
    BY <1>1, <1>2, NameIndex
  <2> HIDE DEF i
  <2>4. IndexOf(new, n) = i
    BY <2>2, <2>3
  <2> QED
    BY <2>4 DEF i
<1>4. \A n \in NamesOf(mem) : new[IndexOf(mem, n)].element = mem[IndexOf(mem, n)].element
  BY NameIndex DEF SameNames
<1>5. ElementsOf(new) = ElementsOf(mem)
  BY <1>1, <1>3, <1>4 DEF ElementsOf
<1> QED
  BY <1>1, <1>2, <1>3, <1>5

(* Loading.                                                                *)
LEMMA FilledAbstractly ==
    ASSUME memory \in Seq(Stored), NEW netlist \in Netlists, NEW given \in Given(StoredIn(netlist)),
           MemoryOf(netlist, given) \in Seq(Stored)
    PROVE  /\ ElementsOf(MemoryOf(netlist, given)) = StoredLines(netlist)
           /\ ChargeOf(MemoryOf(netlist, given)) =
                [n \in StoredIn(netlist) |-> InitialValue(n, given)]
<1> DEFINE mem == MemoryOf(netlist, given)
<1>1. Filled(mem, netlist, given)
  BY NetlistsAssumption, MemoryFilled
<1>2. mem \in Seq(Stored)
  OBVIOUS
<1> HIDE DEF mem
<1>3. NamesOf(mem) = StoredIn(netlist) /\ Distinct(mem)
  BY <1>1 DEF Filled, NamesOf
<1>4. ASSUME NEW n \in StoredIn(netlist)
      PROVE  /\ mem[IndexOf(mem, n)].element = LineOf(netlist, n)
             /\ mem[IndexOf(mem, n)].value = InitialValue(n, given)
  <2>1. IndexOf(mem, n) \in DOMAIN mem /\ mem[IndexOf(mem, n)].name = n
    BY <1>2, <1>3, NameIndex
  <2> DEFINE i == IndexOf(mem, n)
             x == InitialValue(n, given)
             l == LineOf(netlist, n)
  <2>2. mem[i] = [name |-> n, element |-> l, value |-> x]
    BY <1>1, <2>1 DEF Filled
  <2> HIDE DEF i, x, l
  <2>3. mem[i].element = l /\ mem[i].value = x
    BY <2>2
  <2> QED
    BY <2>3 DEF i, x, l
<1>5. ElementsOf(mem) = StoredLines(netlist)
  BY <1>3, <1>4 DEF ElementsOf, StoredLines
<1>6. ChargeOf(mem) = [n \in StoredIn(netlist) |-> InitialValue(n, given)]
  BY <1>3, <1>4 DEF ChargeOf, ValueOf
<1> QED
  BY <1>5, <1>6 DEF mem

(* What a run stores: for an inductor its current, for a capacitor the     *)
(* voltage between its nodes.                                              *)
LEMMA StoredReading ==
    ASSUME TypeInv, Linked, TidyNetlists, native # Null, NEW query \in Queries,
           NEW v \in [Words -> Int], NEW c \in [Words -> Int], v[Ground] = 0,
           NEW k \in DOMAIN memory
    PROVE  NewValue(memory[k], v, c, query) =
               IF memory[k].name \in Inductors THEN c[memory[k].name]
               ELSE v[memory[k].element.words[2]] - v[memory[k].element.words[3]]
<1> DEFINE m == memory[k]
           p == IndexOf(StoredCapacitors, m.name)
           q == IndexOf(StoredInductors, m.name)
           two == m.element.words[2]
           three == m.element.words[3]
<1>1. memory \in Seq(Stored) /\ AllReactive(memory)
  BY DEF TypeInv, TypeOK
<1>2. Distinct(memory)
  <2>1. circuit # Null
    <3>1. circuit = Null => memory = <<>>
      BY DEF Linked
    <3> QED
      BY <3>1
  <2> QED
    BY <2>1 DEF Linked, About
<1>3. Probed(query)
  BY <1>1, Probes
<1>4. /\ \A j \in 1..Len(probe_vol(query)) : VoltsAt(v, query)[j] = Voltage(v, probe_vol(query)[j])
      /\ \A j \in 1..Len(probe_cur(query)) : CurrsAt(c, query)[j] = c[probe_cur(query)[j]]
  BY <1>1, ReadingsType
<1>5. m.name \in Reactive
  BY <1>1 DEF AllReactive
<1>6. ASSUME m.name \in Inductors PROVE NewValue(m, v, c, query) = c[m.name]
  <2>1. ~IsCapacitor(m) /\ IsInductor(m)
    BY <1>6, WordsAssumption DEF IsCapacitor, IsInductor
  <2>2. q \in 1..Len(StoredInductors) /\ StoredInductors[q].name = m.name
    BY <1>1, <2>1, ProbeOf
  <2>3. NewValue(m, v, c, query) = CurrsAt(c, query)[q]
    BY <2>1 DEF NewValue
  <2> HIDE DEF q, m
  <2>4. q \in 1..Len(probe_cur(query)) /\ probe_cur(query)[q] = m.name
    BY <1>3, <2>2 DEF Probed
  <2> QED
    BY <1>4, <2>3, <2>4
<1>7. ASSUME m.name \notin Inductors PROVE NewValue(m, v, c, query) = v[two] - v[three]
  <2>1. IsCapacitor(m)
    BY <1>5, <1>7 DEF IsCapacitor, Reactive
  <2>2. PICK i \in CapacitorsAt : /\ memory[i].name = m.name
                                  /\ p \in 1..Len(StoredCapacitors) /\ StoredCapacitors[p] = memory[i]
    BY <1>1, <2>1, ProbeOf
  <2>3. i = k
    BY <1>2, <2>2 DEF Distinct, CapacitorsAt
  <2>4. NewValue(m, v, c, query) = VoltsAt(v, query)[p]
    BY <2>1 DEF NewValue
  <2>5. /\ Nodes(m) = IF three = Ground THEN <<two>> ELSE <<two, three>>
        /\ two \in Words /\ three \in Words
    <3>1. /\ m.element.words \in Seq(Words) /\ 2 \in DOMAIN m.element.words /\ 3 \in DOMAIN m.element.words
          /\ Nodes(m) = IF three = Ground THEN <<two>> ELSE <<two, three>>
      BY NativeElements
    <3> QED
      BY <3>1
  <2>6. StoredCapacitors[p] = m
    BY <2>2, <2>3
  <2> HIDE DEF p, m, two, three
  <2>7. p \in 1..Len(probe_vol(query)) /\ probe_vol(query)[p] = Nodes(m)
    BY <1>3, <2>2, <2>6 DEF Probed
  <2>8. NewValue(m, v, c, query) = Voltage(v, Nodes(m))
    BY <1>4, <2>4, <2>7
  <2>9. v[two] \in Int /\ v[three] \in Int
    BY <2>5
  <2>10. Voltage(v, <<two>>) = v[two] /\ Voltage(v, <<two, three>>) = v[two] - v[three]
    BY DEF Voltage
  <2> QED
    BY <2>5, <2>8, <2>9, <2>10
<1> QED
  BY <1>6, <1>7 DEF m, two, three

(* A vector that never came counts as 0.                                   *)
Zero  == [w \in Words |-> 0]
Zeros == volts[Ground] = 0 /\ \A w \in Words \ Branches : currs[w] = 0

LEMMA ZerosInvariant == Spec => []Zeros
<1>1. Init => Zeros
  BY WordsAssumption DEF Init, Zeros
<1>2. Zeros /\ [Next]_vars => Zeros'
  <2> SUFFICES ASSUME Zeros, [Next]_vars PROVE Zeros'
    OBVIOUS
  <2>s. ASSUME UNCHANGED <<volts, currs>> PROVE Zeros'
    BY <2>s DEF Zeros
  <2>1. ASSUME NEW query \in Queries, NEW s \in Simulations,
               volts' = Latest(volts, s.volt), currs' = Latest(currs, s.current)
        PROVE  Zeros'
    <3>1. s.volt \in [Edges \ {Ground} -> Values]
          /\ s.current \in [ElementNames(Joined(native)) \cap Branches -> Values]
      BY DEF Simulations
    <3>2. volts'[Ground] = 0
      BY <2>1, <3>1, WordsAssumption DEF Latest, Zeros
    <3>3. \A w \in Words \ Branches : currs'[w] = 0
      BY <2>1, <3>1 DEF Latest, Zeros
    <3> QED
      BY <3>2, <3>3 DEF Zeros
  <2>2. CASE \E query \in Queries : Simulate(query)
    BY <2>1, <2>2 DEF Simulate
  <2>3. CASE \/ \E initialised \in BOOLEAN : Start(initialised)
             \/ Stop \/ Reset \/ Restart
             \/ \E netlist \in Netlists : \E given \in Given(StoredIn(netlist)) : Load(netlist, given)
             \/ \E given \in Given(Names) : UpdateMemory(given)
             \/ \E query \in Queries : WrongName(query) \/ SimulationFails(query)
    <3>1. UNCHANGED <<volts, currs>>
      BY <2>3 DEF Start, Stop, Reset, Restart, Load, UpdateMemory, WrongName, SimulationFails, Unasked
    <3> QED
      BY <2>s, <3>1
  <2>4. CASE UNCHANGED vars
    BY <2>4, <2>s DEF vars
  <2> QED
    BY <2>2, <2>3, <2>4 DEF Next
<1> QED
  BY <1>1, <1>2, PTL DEF Spec

(* What is read after a simulation is what it delivered, or 0.             *)
LEMMA Agrees ==
    ASSUME Zeros, NEW s \in Simulations,
           volts' = Latest(volts, s.volt), currs' = Latest(currs, s.current)
    PROVE  /\ \A w \in Words : w \in Edges => volts'[w] = Latest(Zero, s.volt)[w]
           /\ \A w \in Words : w \in ElementNames(Joined(native)) => currs'[w] = Latest(Zero, s.current)[w]
           /\ Latest(Zero, s.volt)[Ground] = 0
<1>1. s.volt \in [Edges \ {Ground} -> Values]
      /\ s.current \in [ElementNames(Joined(native)) \cap Branches -> Values]
  BY DEF Simulations
<1>2. volts[Ground] = 0 /\ \A w \in Words \ Branches : currs[w] = 0
  BY DEF Zeros
<1>3. DOMAIN s.volt = Edges \ {Ground} /\ DOMAIN s.current = ElementNames(Joined(native)) \cap Branches
  BY <1>1
<1> HIDE DEF Edges
<1>4. ASSUME NEW w \in Words, w \in Edges PROVE volts'[w] = Latest(Zero, s.volt)[w]
  BY <1>2, <1>3, <1>4 DEF Latest, Zero
<1>5. ASSUME NEW w \in Words, w \in ElementNames(Joined(native))
      PROVE  currs'[w] = Latest(Zero, s.current)[w]
  BY <1>2, <1>3, <1>5 DEF Latest, Zero
<1>6. Latest(Zero, s.volt)[Ground] = 0
  BY <1>3, WordsAssumption DEF Latest, Zero
<1> QED
  BY <1>4, <1>5, <1>6

(* The answer to the caller: the last places of what was probed.           *)
LEMMA Replied ==
    ASSUME TypeInv, NEW query \in Queries, Answer(query),
           volts' \in [Words -> Int], currs' \in [Words -> Int]
    PROVE  /\ reply'.voltages = [k \in DOMAIN query.volts |-> Voltage(volts', WithoutGround(query.volts[k]))]
           /\ reply'.currents = [k \in DOMAIN query.currents |-> currs'[query.currents[k]]]
<1>1. memory \in Seq(Stored) /\ query.volts \in Seq(Seq(Words)) /\ query.currents \in Seq(Words)
  BY QueriesAssumption DEF TypeInv, TypeOK
<1>2. Probed(query)
  BY <1>1, Probes
<1> DEFINE vs == VoltsAt(volts', query)
           cs == CurrsAt(currs', query)
           pv == probe_vol(query)
           pc == probe_cur(query)
           n == Len(query.volts)
           m == Len(query.currents)
           a == Len(StoredCapacitors)
           b == Len(StoredInductors)
<1>3. /\ vs \in Seq(Int) /\ Len(vs) = Len(pv) /\ \A k \in 1..Len(pv) : vs[k] = Voltage(volts', pv[k])
      /\ cs \in Seq(Int) /\ Len(cs) = Len(pc) /\ \A k \in 1..Len(pc) : cs[k] = currs'[pc[k]]
  BY <1>1, ReadingsType
<1>4. /\ reply'.voltages = Ending(vs, n) /\ reply'.currents = Ending(cs, m)
  BY AnswerIs
<1>5. DOMAIN query.volts = 1..n /\ DOMAIN query.currents = 1..m
  BY <1>1
<1>6. /\ n \in Nat /\ m \in Nat /\ a \in Nat /\ b \in Nat
      /\ Len(pv) = a + n /\ Len(pc) = b + m
      /\ \A k \in 1..n : pv[a + k] = WithoutGround(query.volts[k])
      /\ \A k \in 1..m : pc[b + k] = query.currents[k]
  BY <1>2 DEF Probed
<1> HIDE DEF vs, cs, pv, pc, n, m, a, b
<1>7. Ending(vs, n) = [k \in 1..n |-> Voltage(volts', WithoutGround(query.volts[k]))]
  <2>1. /\ Ending(vs, n) \in Seq(Int) /\ Len(Ending(vs, n)) = n
        /\ \A k \in 1..n : Ending(vs, n)[k] = vs[Len(vs) - n + k]
    <3>1. vs \in Seq(Int) /\ n \in Nat /\ n <= Len(vs)
      BY <1>3, <1>6
    <3> QED
      BY <3>1, EndingType
  <2>2. ASSUME NEW k \in 1..n PROVE Ending(vs, n)[k] = Voltage(volts', WithoutGround(query.volts[k]))
    <3>1. Len(vs) - n + k = a + k /\ a + k \in 1..Len(pv)
      BY <1>3, <1>6
    <3> QED
      BY <1>3, <1>6, <2>1, <3>1
  <2> DEFINE t == Ending(vs, n)
  <2>3. t \in Seq(Int) /\ Len(t) = n
    BY <2>1
  <2> HIDE DEF t
  <2>4. t = [k \in 1..n |-> t[k]]
    BY <2>3
  <2> QED
    BY <2>2, <2>4 DEF t
<1>8. Ending(cs, m) = [k \in 1..m |-> currs'[query.currents[k]]]
  <2>1. /\ Ending(cs, m) \in Seq(Int) /\ Len(Ending(cs, m)) = m
        /\ \A k \in 1..m : Ending(cs, m)[k] = cs[Len(cs) - m + k]
    <3>1. cs \in Seq(Int) /\ m \in Nat /\ m <= Len(cs)
      BY <1>3, <1>6
    <3> QED
      BY <3>1, EndingType
  <2>2. ASSUME NEW k \in 1..m PROVE Ending(cs, m)[k] = currs'[query.currents[k]]
    <3>1. Len(cs) - m + k = b + k /\ b + k \in 1..Len(pc)
      BY <1>3, <1>6
    <3> QED
      BY <1>3, <1>6, <2>1, <3>1
  <2> DEFINE t == Ending(cs, m)
  <2>3. t \in Seq(Int) /\ Len(t) = m
    BY <2>1
  <2> HIDE DEF t
  <2>4. t = [k \in 1..m |-> t[k]]
    BY <2>3
  <2> QED
    BY <2>2, <2>4 DEF t
<1> QED
  BY <1>4, <1>5, <1>7, <1>8

(* A voltage asked for, with or without its ground, is that across.        *)
LEMMA AcrossNodes ==
    ASSUME NEW v \in [Words -> Int], NEW volt \in [Words -> Int], NEW nodes \in Seq(Words),
           Len(nodes) \in {1, 2}, v[Ground] = 0,
           \A i \in DOMAIN nodes : v[nodes[i]] = volt[nodes[i]]
    PROVE  Voltage(v, WithoutGround(nodes)) = Runs!Across(volt, nodes)
<1>1. CASE Len(nodes) = 1
  <2>1. 1 \in DOMAIN nodes
    BY <1>1
  <2>2. WithoutGround(nodes) = nodes /\ Voltage(v, nodes) = v[nodes[1]]
    BY <1>1 DEF WithoutGround, Voltage
  <2>3. Runs!Across(volt, nodes) = volt[nodes[1]]
    BY <1>1 DEF Runs!Across
  <2> QED
    BY <2>1, <2>2, <2>3
<1>2. CASE Len(nodes) = 2
  <2>1. 1 \in DOMAIN nodes /\ 2 \in DOMAIN nodes
    BY <1>2
  <2> DEFINE one == nodes[1]
             two == nodes[2]
  <2>2. one \in Words /\ two \in Words /\ v[one] = volt[one] /\ v[two] = volt[two]
    BY <2>1
  <2>3. WithoutGround(nodes) = IF two = Ground THEN <<one>> ELSE nodes
    BY <1>2 DEF WithoutGround
  <2>4. Voltage(v, <<one>>) = v[one]
    BY DEF Voltage
  <2>5. Voltage(v, nodes) = v[one] - v[two]
    BY <1>2 DEF Voltage
  <2>6. Runs!Across(volt, nodes) = volt[one] - volt[two]
    BY <1>2 DEF Runs!Across
  <2> HIDE DEF one, two
  <2>7. v[one] \in Int /\ v[two] \in Int
    BY <2>2
  <2> QED
    BY <2>2, <2>3, <2>4, <2>5, <2>6, <2>7
<1> QED
  BY <1>1, <1>2

(* The steps of the abstract runs, in terms of memory.                     *)
LEMMA RunIs ==
    ASSUME NEW volt, NEW current, NEW query, volt[Ground] = 0,
           ics' = ChargeOf(memory), ElementsOf(memory') = ElementsOf(memory),
           ChargeOf(memory') = [n \in NamesOf(memory) |->
               IF n \in Inductors THEN current[n]
               ELSE volt[ElementsOf(memory)[n].words[2]] - volt[ElementsOf(memory)[n].words[3]]],
           reply'.voltages = [k \in DOMAIN query.volts |-> Runs!Across(volt, query.volts[k])],
           reply'.currents = [k \in DOMAIN query.currents |-> current[query.currents[k]]]
    PROVE  Runs!Run(volt, current, query)
  BY DEF Runs!Run, ElementsOf, ChargeOf, NamesOf, Names

LEMMA LoadIs ==
    ASSUME NEW lines, NEW given, ElementsOf(memory') = lines,
           ChargeOf(memory') = [n \in DOMAIN lines |-> InitialValue(n, given)],
           UNCHANGED <<ics, reply>>
    PROVE  Runs!Load(lines, given)
  BY DEF Runs!Load, InitialValue, ElementsOf, ChargeOf, NamesOf, Names

LEMMA UpdateIs ==
    ASSUME NEW given, ElementsOf(memory') = ElementsOf(memory),
           ChargeOf(memory') = [n \in NamesOf(memory) |->
               IF n \in DOMAIN given THEN given[n] ELSE ValueOf(memory, n)],
           UNCHANGED <<ics, reply>>
    PROVE  Runs!Update(given)
  BY DEF Runs!Update, ElementsOf, ChargeOf, NamesOf, Names

LEMMA StopIs ==
    ASSUME memory' = <<>>, UNCHANGED <<ics, reply>>
    PROVE  Runs!Stop
<1>1. Names' = {}
  BY DEF Names
<1> QED
  BY <1>1 DEF Runs!Stop, Runs!Nothing

LEMMA StutterIs ==
    ASSUME UNCHANGED <<memory, ics, reply>>
    PROVE  UNCHANGED Runs!vars
  BY DEF Runs!vars, Names, ValueOf

LEMMA DistinctMemory ==
    ASSUME Linked
    PROVE  Distinct(memory)
  BY DEF Linked, About, Distinct

LEMMA LoadRefines ==
    ASSUME TypeInv, TypeInv', NEW netlist \in Netlists, NEW given \in Given(StoredIn(netlist)),
           Load(netlist, given)
    PROVE  RunsStep
<1>1. circuit' = netlist /\ memory' = MemoryOf(netlist, given) /\ UNCHANGED <<ics, reply>>
  BY DEF Load, Unasked, lastRun
<1>2. memory \in Seq(Stored) /\ memory' \in Seq(Stored)
  BY DEF TypeInv, TypeOK
<1>3. /\ ElementsOf(memory') = StoredLines(netlist)
      /\ ChargeOf(memory') = [n \in StoredIn(netlist) |-> InitialValue(n, given)]
  BY <1>1, <1>2, FilledAbstractly
<1>4. DOMAIN StoredLines(netlist) = StoredIn(netlist)
  BY DEF StoredLines
<1>5. Runs!Load(StoredLines(netlist), given)
  BY <1>1, <1>3, <1>4, LoadIs
<1>6. netlist # Null
  BY NetlistsAssumption, ValuesAssumption
<1> QED
  BY <1>1, <1>5, <1>6 DEF RunsStep

LEMMA UpdateRefines ==
    ASSUME TypeInv, TypeInv', Linked, NEW given \in Given(Names), UpdateMemory(given)
    PROVE  RunsStep
<1>1. memory \in Seq(Stored) /\ memory' \in Seq(Stored)
  BY DEF TypeInv, TypeOK
<1>2. Distinct(memory)
  BY DistinctMemory
<1>3. SameNames(memory', memory)
  BY <1>1, OnlyValues
<1>4. /\ NamesOf(memory') = NamesOf(memory)
      /\ \A n \in NamesOf(memory) : IndexOf(memory', n) = IndexOf(memory, n)
      /\ ElementsOf(memory') = ElementsOf(memory)
  BY <1>1, <1>2, <1>3, SameKeys
<1>5. memory' = [k \in DOMAIN memory |-> IF memory[k].name \in DOMAIN given
           THEN [memory[k] EXCEPT !.value = given[memory[k].name]] ELSE memory[k]]
  BY DEF UpdateMemory
<1>6. ASSUME NEW n \in NamesOf(memory)
      PROVE  ValueOf(memory', n) = IF n \in DOMAIN given THEN given[n] ELSE ValueOf(memory, n)
  <2> DEFINE i == IndexOf(memory, n)
  <2>1. i \in DOMAIN memory /\ memory[i].name = n
    BY <1>1, <1>2, NameIndex
  <2>2. ValueOf(memory', n) = memory'[i].value /\ ValueOf(memory, n) = memory[i].value
    BY <1>4 DEF ValueOf
  <2> HIDE DEF i
  <2>3. memory[i] \in Stored
    BY <1>1, <2>1
  <2>4. [memory[i] EXCEPT !.value = given[n]].value = given[n]
    BY <2>3 DEF Stored
  <2> QED
    BY <1>5, <2>1, <2>2, <2>4
<1>7. ChargeOf(memory') = [n \in NamesOf(memory) |->
           IF n \in DOMAIN given THEN given[n] ELSE ValueOf(memory, n)]
  BY <1>4, <1>6 DEF ChargeOf
<1>8. UNCHANGED <<ics, reply>>
  BY DEF UpdateMemory, Unasked, lastRun
<1>9. Runs!Update(given)
  BY <1>4, <1>7, <1>8, UpdateIs
<1> QED
  BY <1>9 DEF RunsStep

LEMMA RunRefines ==
    ASSUME TypeInv, TypeInv', Linked, MemoryHasValues, Zeros, TidyNetlists, TidyRequests,
           NEW query \in Queries, Simulate(query)
    PROVE  RunsStep
<1>1. /\ memory \in Seq(Stored) /\ memory' \in Seq(Stored) /\ native \in Netlists
      /\ volts' \in [Words -> Int] /\ currs' \in [Words -> Int]
  BY DEF TypeInv, TypeOK, Simulate, Runnable
<1>2. PICK s \in Simulations : /\ volts' = Latest(volts, s.volt) /\ currs' = Latest(currs, s.current)
                               /\ sim' = s
  BY DEF Simulate
<1>3. native # Null /\ Answer(query) /\ asked' = query /\ ics' = Alters
  BY DEF Simulate, Runnable
<1> DEFINE volt == Latest(Zero, s.volt)
           current == Latest(Zero, s.current)
<1>4. /\ \A w \in Words : w \in Edges => volts'[w] = volt[w]
      /\ \A w \in Words : w \in ElementNames(Joined(native)) => currs'[w] = current[w]
      /\ volt[Ground] = 0
  BY <1>2, Agrees
<1>5. volt \in [Words -> Int]
  <2>1. Zero \in [Words -> Int]
    BY DEF Zero
  <2> QED
    BY <2>1, SimulatedType, LatestType
<1>6. volts'[Ground] = 0
  <2>1. s.volt \in [Edges \ {Ground} -> Values]
    BY DEF Simulations
  <2> QED
    BY <1>2, <2>1, WordsAssumption DEF Latest, Zeros
<1>7. Distinct(memory)
  BY DistinctMemory
<1>8. SameNames(memory', memory)
  BY <1>1, <1>3, OnlyValues
<1>9. /\ NamesOf(memory') = NamesOf(memory)
      /\ \A n \in NamesOf(memory) : IndexOf(memory', n) = IndexOf(memory, n)
      /\ ElementsOf(memory') = ElementsOf(memory)
  BY <1>1, <1>7, <1>8, SameKeys
<1> HIDE DEF volt, current
<1>10. ASSUME NEW n \in NamesOf(memory)
       PROVE  ValueOf(memory', n) =
                  IF n \in Inductors THEN current[n]
                  ELSE volt[ElementsOf(memory)[n].words[2]] - volt[ElementsOf(memory)[n].words[3]]
  <2> DEFINE i == IndexOf(memory, n)
  <2>1. i \in DOMAIN memory /\ memory[i].name = n
    BY <1>1, <1>7, NameIndex
  <2>2. ValueOf(memory', n) = memory'[i].value /\ ElementsOf(memory)[n] = memory[i].element
    BY <1>9 DEF ValueOf, ElementsOf
  <2> HIDE DEF i
  <2> DEFINE two == memory[i].element.words[2]
             three == memory[i].element.words[3]
  <2>3. memory'[i].value = NewValue(memory[i], volts', currs', query)
    BY <1>1, <1>3, <2>1, AnswerType
  <2>4. NewValue(memory[i], volts', currs', query) =
            IF n \in Inductors THEN currs'[n] ELSE volts'[two] - volts'[three]
    <3>1. NewValue(memory[i], volts', currs', query) =
            IF memory[i].name \in Inductors THEN currs'[memory[i].name] ELSE volts'[two] - volts'[three]
      BY <1>1, <1>3, <1>6, <2>1, StoredReading
    <3> QED
      BY <2>1, <3>1
  <2>5. two \in Words /\ three \in Words /\ two \in Edges /\ three \in Edges
    <3>1. /\ memory[i].element.words \in Seq(Words)
          /\ 2 \in DOMAIN memory[i].element.words /\ 3 \in DOMAIN memory[i].element.words
          /\ two \in Edges /\ three \in Edges
      BY <1>3, <2>1, NativeElements
    <3> QED
      BY <3>1
  <2>6. n \in ElementNames(Joined(native)) /\ n \in Words
    <3>1. memory[i].name \in ElementNames(Joined(native))
      BY <1>3, <2>1, NativeElements
    <3>2. memory[i] \in Stored
      BY <1>1, <2>1
    <3> QED
      BY <2>1, <3>1, <3>2 DEF Stored
  <2>7. volts'[two] = volt[two] /\ volts'[three] = volt[three] /\ currs'[n] = current[n]
    BY <1>4, <2>5, <2>6
  <2> QED
    BY <2>2, <2>3, <2>4, <2>7
<1>11. ChargeOf(memory') = [n \in NamesOf(memory) |->
           IF n \in Inductors THEN current[n]
           ELSE volt[ElementsOf(memory)[n].words[2]] - volt[ElementsOf(memory)[n].words[3]]]
  BY <1>9, <1>10 DEF ChargeOf
<1>12. ics' = ChargeOf(memory)
  <2>1. ASSUME NEW n \in NamesOf(memory) PROVE ValueOf(memory, n) # Undefined
    <3>1. IndexOf(memory, n) \in DOMAIN memory
      BY <1>1, <1>7, NameIndex
    <3> QED
      BY <3>1, ValuesAssumption DEF ValueOf, MemoryHasValues
  <2>2. Names = NamesOf(memory)
    BY DEF Names, NamesOf
  <2> QED
    BY <1>3, <2>1, <2>2 DEF Alters, ChargeOf
<1>13. query.volts \in Seq(Seq(Words)) /\ query.currents \in Seq(Words)
  BY QueriesAssumption
<1>14. reply'.voltages = [k \in DOMAIN query.volts |-> Runs!Across(volt, query.volts[k])]
  <2>1. reply'.voltages = [k \in DOMAIN query.volts |-> Voltage(volts', WithoutGround(query.volts[k]))]
    BY <1>1, <1>3, Replied
  <2>2. ASSUME NEW k \in DOMAIN query.volts
        PROVE  Voltage(volts', WithoutGround(query.volts[k])) = Runs!Across(volt, query.volts[k])
    <3> DEFINE v == query.volts[k]
    <3>1. v \in Seq(Words)
      <4>1. \A S : \A t \in Seq(S) : \A i \in DOMAIN t : t[i] \in S
        OBVIOUS
      <4> QED
        BY <1>13, <4>1
    <3>2. Len(v) \in {1, 2} /\ \A i \in DOMAIN v : v[i] \in Edges
      BY <1>1 DEF TidyRequests, TidyQuery, Edges
    <3> HIDE DEF v
    <3>3. \A i \in DOMAIN v : volts'[v[i]] = volt[v[i]]
      BY <1>4, <3>1, <3>2
    <3>4. Voltage(volts', WithoutGround(v)) = Runs!Across(volt, v)
      BY <1>1, <1>5, <1>6, <3>1, <3>2, <3>3, AcrossNodes
    <3> QED
      BY <3>4 DEF v
  <2> QED
    BY <2>1, <2>2
<1>15. reply'.currents = [k \in DOMAIN query.currents |-> current[query.currents[k]]]
  <2>1. reply'.currents = [k \in DOMAIN query.currents |-> currs'[query.currents[k]]]
    BY <1>1, <1>3, Replied
  <2>2. ASSUME NEW k \in DOMAIN query.currents
        PROVE  currs'[query.currents[k]] = current[query.currents[k]]
    <3>1. query.currents[k] \in Words
      BY <1>13
    <3>2. query.currents[k] \in ElementNames(Joined(native))
      BY <1>1 DEF TidyRequests, TidyQuery
    <3> QED
      BY <1>4, <3>1, <3>2
  <2> QED
    BY <2>1, <2>2
<1>16. Runs!Run(volt, current, query)
  BY <1>4, <1>9, <1>11, <1>12, <1>14, <1>15, RunIs
<1>17. /\ native # Null /\ sim' \in Simulations
       /\ Runs!Run(Latest([w \in Words |-> 0], sim'.volt),
                   Latest([w \in Words |-> 0], sim'.current), asked')
  BY <1>2, <1>3, <1>16 DEF volt, current, Zero
<1> QED
  BY <1>17 DEF RunsStep

(* For tidy netlists and queries, and simulations that succeed, the calls  *)
(* of saharaspice.js implement TransientRuns: every run starts from what   *)
(* the last one left or was set since, leaves what it simulated and        *)
(* answers its caller from that simulation, across loads of other circuits *)
(* that share elements, updates, stops and restarts in any order           *)
(* (loadCircuit, updateMemory, runTransient, stop, restart).               *)
THEOREM RunsRefined ==
    ASSUME TidyNetlists, TidyRequests, ~MayFail
    PROVE  Spec => RefinesRuns
<1>1. Init => Runs!Init
  <2> SUFFICES ASSUME Init PROVE Runs!Init
    OBVIOUS
  <2>1. Names = {}
    BY DEF Init, Names
  <2> QED
    BY <2>1 DEF Init, NoReply, Runs!Init, Runs!Nothing, Runs!NoAnswers
<1>2. TypeInv /\ TypeInv' /\ Linked /\ MemoryHasValues /\ Zeros /\ [Next]_vars
        => [RunsStep]_(Runs!vars)
  <2> SUFFICES ASSUME TypeInv, TypeInv', Linked, MemoryHasValues, Zeros, [Next]_vars
               PROVE  RunsStep \/ UNCHANGED Runs!vars
    OBVIOUS
  <2>1. CASE (\E initialised \in BOOLEAN : Start(initialised)) \/ Reset \/ UNCHANGED vars
    <3>1. UNCHANGED <<memory, ics, reply>>
      BY <2>1 DEF Start, Reset, Unasked, lastRun, vars, js
    <3> QED
      BY <3>1, StutterIs
  <2>2. CASE Stop \/ Restart
    <3>1. memory' = <<>> /\ UNCHANGED <<ics, reply>>
      BY <2>2 DEF Stop, Restart, Unasked, lastRun
    <3>2. Runs!Stop
      BY <3>1, StopIs
    <3> QED
      BY <3>2 DEF RunsStep
  <2>3. CASE \E netlist \in Netlists : \E given \in Given(StoredIn(netlist)) : Load(netlist, given)
    BY <2>3, LoadRefines
  <2>4. CASE \E given \in Given(Names) : UpdateMemory(given)
    BY <2>4, UpdateRefines
  <2>5. ASSUME NEW query \in Queries, WrongName(query) \/ Simulate(query) \/ SimulationFails(query)
        PROVE  RunsStep
    <3>1. ~WrongName(query)
      <4>1. native # Null => KnownEdges(query) /\ KnownElements(query)
        BY AllKnown
      <4> QED
        BY <4>1 DEF WrongName
    <3>2. ~SimulationFails(query)
      BY DEF SimulationFails
    <3>3. Simulate(query)
      BY <2>5, <3>1, <3>2
    <3> QED
      BY <3>3, RunRefines
  <2> QED
    BY <2>1, <2>2, <2>3, <2>4, <2>5 DEF Next
<1>3. Spec => []MemoryHasValues
  BY ValuesCorrect
<1> QED
  BY <1>1, <1>2, <1>3, TypesInvariant, LinkedInvariant, ZerosInvariant, PTL DEF Spec, RefinesRuns
=============================================================================
