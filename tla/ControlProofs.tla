--------------------------- MODULE ControlProofs ---------------------------
(***************************************************************************)
(* A proof about the execution of control structures, for any scripts: a   *)
(* repeat that is not being executed has no rounds left over.              *)
(***************************************************************************)
EXTENDS ControlBlocks, SequenceTheorems, TLAPS

(* Sequences of records of any types that have certain fields.             *)
Elements(s)   == {s[i] : i \in 1..Len(s)}
Records(s, F) == s \in Seq(Elements(s)) /\ \A i \in 1..Len(s) : F \subseteq DOMAIN s[i]

LEMMA Enlarge ==
    ASSUME NEW S, NEW s \in Seq(S)
    PROVE  /\ s \in Seq(Elements(s))
           /\ Len(s) \in Nat /\ DOMAIN s = 1..Len(s)
           /\ \A T : Elements(s) \subseteq T => s \in Seq(T)
<1>1. Len(s) \in Nat /\ DOMAIN s = 1..Len(s) /\ s \in [1..Len(s) -> S]
  BY LenProperties
<1>2. ASSUME NEW T, Elements(s) \subseteq T PROVE s \in Seq(T)
  <2>1. s \in [1..Len(s) -> T]
    BY <1>1, <1>2 DEF Elements
  <2> QED
    BY <1>1, <2>1
<1> QED
  BY <1>1, <1>2

LEMMA RecordsExcept ==
    ASSUME NEW F, NEW s, Records(s, F), NEW n \in 1..Len(s), NEW e, F \subseteq DOMAIN e
    PROVE  /\ Records([s EXCEPT ![n] = e], F) /\ Len([s EXCEPT ![n] = e]) = Len(s)
           /\ \A i \in 1..Len(s) : [s EXCEPT ![n] = e][i] = IF i = n THEN e ELSE s[i]
<1> DEFINE T == Elements(s) \cup {e}
           r == [s EXCEPT ![n] = e]
<1>1. s \in Seq(T)
  BY Enlarge DEF Records
<1>2. e \in T
  OBVIOUS
<1> HIDE DEF T
<1>3. r \in Seq(T) /\ Len(r) = Len(s) /\ \A i \in 1..Len(s) : r[i] = IF i = n THEN e ELSE s[i]
  BY <1>1, <1>2, ExceptSeq
<1> HIDE DEF r
<1>4. r \in Seq(Elements(r))
  BY <1>3, Enlarge
<1>5. \A i \in 1..Len(r) : F \subseteq DOMAIN r[i]
  BY <1>3 DEF Records
<1> QED
  BY <1>3, <1>4, <1>5 DEF Records, r

LEMMA RecordsAppend ==
    ASSUME NEW F, NEW s, Records(s, F), NEW e, F \subseteq DOMAIN e
    PROVE  /\ Records(Append(s, e), F) /\ Len(Append(s, e)) = Len(s) + 1
           /\ Append(s, e)[Len(s) + 1] = e
           /\ \A i \in 1..Len(s) : Append(s, e)[i] = s[i]
<1> DEFINE T == Elements(s) \cup {e}
           r == Append(s, e)
<1>1. s \in Seq(T) /\ Len(s) \in Nat
  BY Enlarge DEF Records
<1>2. e \in T
  OBVIOUS
<1> HIDE DEF T
<1>3. /\ r \in Seq(T) /\ Len(r) = Len(s) + 1 /\ r[Len(s) + 1] = e
      /\ \A i \in 1..Len(s) : r[i] = s[i]
  BY <1>1, <1>2, AppendProperties
<1> HIDE DEF r
<1>4. r \in Seq(Elements(r))
  BY <1>3, Enlarge
<1>5. \A i \in 1..Len(r) : F \subseteq DOMAIN r[i]
  BY <1>1, <1>3 DEF Records
<1> QED
  BY <1>3, <1>4, <1>5 DEF Records, r

LEMMA RecordsFront ==
    ASSUME NEW F, NEW s, Records(s, F), s # <<>>,
           NEW r, r = SubSeq(s, 1, Len(s) - 1)
    PROVE  /\ Records(r, F) /\ Len(r) = Len(s) - 1 /\ Len(s) \in Nat \ {0}
           /\ \A i \in 1..(Len(s) - 1) : r[i] = s[i]
<1> DEFINE T == Elements(s)
<1>1. s \in Seq(T) /\ Len(s) \in Nat
  BY Enlarge DEF Records
<1>2. Len(s) \in Nat \ {0}
  BY <1>1, EmptySeq
<1>3. \A i \in 1..(Len(s) - 1) : s[i] \in T
  <2>1. \A i \in 1..Len(s) : s[i] \in T
    BY DEF Elements
  <2> QED
    BY <1>1, <2>1
<1> HIDE DEF T
<1> DEFINE n == Len(s) - 1
<1>4. /\ r \in Seq(T) /\ Len(r) = n
      /\ \A i \in 1..n : r[i] = s[i]
  <2>1. n \in Nat /\ n \in Int /\ 1 \in Int /\ n - 1 + 1 = n /\ (1 <= n \/ n = 0)
    <3>1. PICK k \in Nat \ {0} : k = Len(s)
      BY <1>2
    <3>2. n = k - 1
      BY <3>1
    <3> HIDE DEF n
    <3> QED
      BY <3>2
  <2>2. r = SubSeq(s, 1, n) /\ \A i \in 1..n : s[i] \in T
    BY <1>3
  <2> HIDE DEF n
  <2>3. /\ SubSeq(s, 1, n) \in Seq(T)
        /\ Len(SubSeq(s, 1, n)) = IF 1 <= n THEN n - 1 + 1 ELSE 0
        /\ \A i \in 1..(n - 1 + 1) : SubSeq(s, 1, n)[i] = s[1 + i - 1]
    BY <2>1, <2>2, SubSeqProperties
  <2> QED
    BY <2>1, <2>2, <2>3
<1>5. r \in Seq(Elements(r))
  BY <1>4, Enlarge
<1>6. \A i \in 1..Len(r) : F \subseteq DOMAIN r[i]
  BY <1>1, <1>2, <1>4 DEF Records
<1> QED
  BY <1>1, <1>2, <1>4, <1>5, <1>6 DEF Records

-----------------------------------------------------------------------------
(* Reading.  No block has rounds left, and none gets any.                  *)
Fields    == {"kind", "todo"}
Clean(bs) == Records(bs, Fields) /\ \A i \in 1..Len(bs) : bs[i].todo = 0

LEMMA CleanField ==
    ASSUME NEW bs, Clean(bs), NEW c, NEW f, f # "todo", NEW v,
           NEW r, r = [bs EXCEPT ![c] = [@ EXCEPT ![f] = v]]
    PROVE  Clean(r)
<1>1. Records(bs, Fields) /\ \A i \in 1..Len(bs) : bs[i].todo = 0
  BY DEF Clean
<1>2. bs \in Seq(Elements(bs)) /\ Len(bs) \in Nat /\ DOMAIN bs = 1..Len(bs)
  BY <1>1, Enlarge DEF Records
<1>3. CASE c \in 1..Len(bs)
  <2> DEFINE e == [bs[c] EXCEPT ![f] = v]
  <2>1. Fields \subseteq DOMAIN bs[c] /\ bs[c].todo = 0
    BY <1>1, <1>3 DEF Records
  <2>2. Fields \subseteq DOMAIN e /\ e.todo = 0
    BY <2>1 DEF Fields
  <2>3. r = [bs EXCEPT ![c] = e]
    OBVIOUS
  <2> HIDE DEF e
  <2>4. /\ Records([bs EXCEPT ![c] = e], Fields)
        /\ Len([bs EXCEPT ![c] = e]) = Len(bs)
        /\ \A i \in 1..Len(bs) : [bs EXCEPT ![c] = e][i] = IF i = c THEN e ELSE bs[i]
    BY <1>1, <1>2, <1>3, <2>2, RecordsExcept
  <2> QED
    BY <1>1, <2>2, <2>3, <2>4 DEF Clean
<1>4. CASE c \notin 1..Len(bs)
  <2>1. r = bs
    BY <1>2, <1>4
  <2> QED
    BY <2>1
<1> QED
  BY <1>3, <1>4

LEMMA CleanAppend ==
    ASSUME NEW bs, Clean(bs), NEW parent, NEW prev,
           NEW r, r = Append(bs, Unfilled(parent, prev))
    PROVE  Clean(r)
<1> DEFINE e == Unfilled(parent, prev)
<1>1. Fields \subseteq DOMAIN e /\ e.todo = 0
  BY DEF Unfilled, Fields
<1> HIDE DEF e
<1>2. Records(bs, Fields) /\ \A i \in 1..Len(bs) : bs[i].todo = 0
  BY DEF Clean
<1>3. r = Append(bs, e)
  BY DEF e
<1>4. /\ Records(r, Fields) /\ Len(r) = Len(bs) + 1 /\ r[Len(bs) + 1] = e
      /\ \A i \in 1..Len(bs) : r[i] = bs[i]
  BY <1>1, <1>2, <1>3, RecordsAppend
<1>5. Len(bs) \in Nat
  BY <1>2, Enlarge DEF Records
<1> QED
  BY <1>1, <1>2, <1>4, <1>5 DEF Clean

LEMMA CleanEmpty == Clean(<<>>)
<1>1. <<>> \in Seq(Elements(<<>>)) /\ Len(<<>>) = 0
  BY EmptySeq
<1> QED
  BY <1>1 DEF Clean, Records

LEMMA CleanFilled ==
    ASSUME NEW bs, Clean(bs), NEW c, NEW line
    PROVE  Clean(Filled(bs, c, line))
<1> DEFINE r == [bs EXCEPT ![c].kind = line.kind]
           q == [r EXCEPT ![c].arg = line.arg]
           p == [q EXCEPT ![c].line = read + 1]
<1>1. Clean(r)
  BY "kind" # "todo", CleanField
<1>2. Clean(q)
  <2> HIDE DEF r
  <2> QED
    BY <1>1, "arg" # "todo", CleanField
<1>3. Clean(p)
  <2> HIDE DEF q
  <2> QED
    BY <1>2, "line" # "todo", CleanField
<1>4. Filled(bs, c, line) = p
  BY DEF Filled
<1> QED
  BY <1>3, <1>4

LEMMA CleanAllocate == ASSUME Clean(blocks) PROVE Clean(Allocate.bs)
<1>1. CASE cend = 0
  <2>1. Allocate.bs = Append(<<>>, Unfilled(0, 0))
    BY <1>1 DEF Allocate
  <2>2. Clean(Append(<<>>, Unfilled(0, 0)))
    BY CleanEmpty, CleanAppend
  <2> QED
    BY <2>1, <2>2
<1>2. CASE cend # 0 /\ blocks[cend].kind = "unfilled"
  BY <1>2 DEF Allocate
<1>3. CASE cend # 0 /\ blocks[cend].kind # "unfilled"
  <2> DEFINE n == Len(blocks) + 1
             r == [blocks EXCEPT ![cend].next = n]
  <2>1. Clean(r)
    BY "next" # "todo", CleanField
  <2>2. Allocate.bs = Append(r, Unfilled(blocks[cend].parent, cend))
    BY <1>3 DEF Allocate
  <2> HIDE DEF r
  <2>3. Clean(Append(r, Unfilled(blocks[cend].parent, cend)))
    BY <2>1, CleanAppend
  <2> QED
    BY <2>2, <2>3
<1> QED
  BY <1>1, <1>2, <1>3

LEMMA CleanAdd ==
    ASSUME NEW bs, Clean(bs), NEW c, NEW line,
           AddOpener(bs, c, line) \/ AddEnd(bs, c) \/ AddElse(bs, c) \/ AddLeaf(bs, c, line)
    PROVE  Clean(blocks')
<1>1. CASE AddOpener(bs, c, line)
  <2> DEFINE f == Filled(bs, c, line)
             n == Len(bs) + 1
             r == [f EXCEPT ![c].children = n]
  <2>1. Clean(f)
    BY CleanFilled
  <2>2. Clean(r)
    <3> HIDE DEF f
    <3> QED
      BY <2>1, "children" # "todo", CleanField
  <2>3. blocks' = Append(r, Unfilled(c, 0))
    BY <1>1 DEF AddOpener
  <2> HIDE DEF r
  <2> QED
    BY <2>2, <2>3, CleanAppend
<1>2. CASE AddLeaf(bs, c, line)
  BY <1>2, CleanFilled DEF AddLeaf
<1>3. CASE AddEnd(bs, c)
  <2> DEFINE f == [bs EXCEPT ![c].kind = "freed"]
             b == bs[c]
  <2>1. Clean(f)
    BY "kind" # "todo", CleanField
  <2>2. \/ blocks' = bs
        \/ blocks' = [f EXCEPT ![b.prev].next = 0]
        \/ blocks' = [f EXCEPT ![b.parent].children = 0]
    BY <1>3 DEF AddEnd
  <2> HIDE DEF f, b
  <2> QED
    BY <2>1, <2>2, "next" # "todo", "children" # "todo", CleanField
<1>4. CASE AddElse(bs, c)
  <2> DEFINE b == bs[c]
             cut == IF b.prev # 0 THEN [bs EXCEPT ![b.prev].next = 0]
                    ELSE [bs EXCEPT ![b.parent].children = 0]
             f == [cut EXCEPT ![b.parent].elseblock = c]
             r == [f EXCEPT ![c].prev = 0]
  <2>1. Clean(cut)
    <3> HIDE DEF b
    <3>1. Clean([bs EXCEPT ![b.prev].next = 0])
      BY "next" # "todo", CleanField
    <3>2. Clean([bs EXCEPT ![b.parent].children = 0])
      BY "children" # "todo", CleanField
    <3> QED
      BY <3>1, <3>2
  <2>2. blocks' = bs \/ blocks' = r
    BY <1>4 DEF AddElse
  <2>3. Clean(r)
    <3> HIDE DEF b, cut
    <3>1. Clean(f)
      BY <2>1, "elseblock" # "todo", CleanField
    <3> HIDE DEF f
    <3> QED
      BY <3>1, "prev" # "todo", CleanField
  <2> QED
    BY <2>2, <2>3
<1> QED
  BY <1>1, <1>2, <1>3, <1>4

-----------------------------------------------------------------------------
(* The stack.  Its calls keep their blocks.                                *)
Calls    == {"block"}
BlocksOf(s) == {s[i].block : i \in 1..Len(s)}

LEMMA SetLast ==
    ASSUME NEW s, Records(s, Calls), s # <<>>, NEW e, Calls \subseteq DOMAIN e,
           e.block = s[Len(s)].block
    PROVE  /\ Records([s EXCEPT ![Len(s)] = e], Calls)
           /\ BlocksOf(s) \subseteq BlocksOf([s EXCEPT ![Len(s)] = e])
<1>1. s \in Seq(Elements(s)) /\ Len(s) \in Nat /\ DOMAIN s = 1..Len(s)
  BY Enlarge DEF Records
<1>2. Len(s) \in 1..Len(s)
  <2>1. Len(s) \in Nat \ {0}
    BY <1>1, EmptySeq
  <2> QED
    BY <2>1
<1> DEFINE r == [s EXCEPT ![Len(s)] = e]
<1>3. Records(r, Calls) /\ Len(r) = Len(s)
      /\ \A i \in 1..Len(s) : r[i] = IF i = Len(s) THEN e ELSE s[i]
  BY <1>1, <1>2, RecordsExcept
<1> HIDE DEF r
<1>4. \A i \in 1..Len(s) : r[i].block = s[i].block
  BY <1>3
<1>5. BlocksOf(s) \subseteq BlocksOf(r)
  BY <1>3, <1>4 DEF BlocksOf
<1> QED
  BY <1>3, <1>5 DEF r

LEMMA DropLast ==
    ASSUME NEW s, Records(s, Calls), s # <<>>
    PROVE  /\ Records(SubSeq(s, 1, Len(s) - 1), Calls)
           /\ BlocksOf(s) \subseteq BlocksOf(SubSeq(s, 1, Len(s) - 1)) \cup {s[Len(s)].block}
<1> DEFINE r == SubSeq(s, 1, Len(s) - 1)
<1>1. /\ Records(r, Calls) /\ Len(r) = Len(s) - 1 /\ Len(s) \in Nat \ {0}
      /\ \A i \in 1..(Len(s) - 1) : r[i] = s[i]
  BY RecordsFront
<1> HIDE DEF r
<1>2. ASSUME NEW i \in 1..Len(s), i # Len(s) PROVE s[i].block \in BlocksOf(r)
  <2>1. i \in 1..(Len(s) - 1) /\ i \in 1..Len(r)
    BY <1>1, <1>2
  <2> QED
    BY <1>1, <2>1 DEF BlocksOf
<1>3. BlocksOf(s) \subseteq BlocksOf(r) \cup {s[Len(s)].block}
  BY <1>2 DEF BlocksOf
<1> QED
  BY <1>1, <1>3 DEF r

LEMMA PushCall ==
    ASSUME NEW s, Records(s, Calls), NEW bl, NEW num
    PROVE  /\ Records(Append(s, Frame(bl, num)), Calls)
           /\ BlocksOf(s) \subseteq BlocksOf(Append(s, Frame(bl, num)))
<1> DEFINE e == Frame(bl, num)
           r == Append(s, e)
<1>1. Calls \subseteq DOMAIN e
  BY DEF Frame, Calls
<1> HIDE DEF e
<1>2. Records(r, Calls) /\ Len(r) = Len(s) + 1 /\ \A i \in 1..Len(s) : r[i] = s[i]
  BY <1>1, RecordsAppend
<1> HIDE DEF r
<1>3. Len(s) \in Nat
  BY Enlarge DEF Records
<1>4. \A i \in 1..Len(s) : i \in 1..Len(r) /\ r[i].block = s[i].block
  BY <1>2, <1>3
<1>5. BlocksOf(s) \subseteq BlocksOf(r)
  BY <1>4 DEF BlocksOf
<1> QED
  BY <1>2, <1>5 DEF r, e

(* What the ways of returning and going on do to the stack.                *)
LEMMA Returning ==
    ASSUME Records(stack, Calls), stack # <<>>, NEW v, NEW num,
           Return(v) \/ ReturnNum(v, num)
    PROVE  /\ Records(stack', Calls) /\ top' = top
           /\ BlocksOf(stack) \subseteq BlocksOf(stack') \cup {frame.block}
<1>1. Records(Rest, Calls) /\ BlocksOf(stack) \subseteq BlocksOf(Rest) \cup {frame.block}
  BY DropLast DEF Rest, frame
<1>2. top' = top /\ (stack' = Rest \/ (Rest # <<>> /\ stack' = [Rest EXCEPT ![Len(Rest)].nn = num]))
  BY DEF Return, ReturnNum
<1>3. CASE stack' = Rest
  BY <1>1, <1>2, <1>3
<1>4. CASE Rest # <<>> /\ stack' = [Rest EXCEPT ![Len(Rest)].nn = num]
  <2> DEFINE s == Rest
             e == [s[Len(s)] EXCEPT !.nn = num]
  <2>1. Records(s, Calls) /\ s # <<>>
    BY <1>1, <1>4
  <2>2. stack' = [s EXCEPT ![Len(s)] = e]
    BY <1>4
  <2> HIDE DEF s
  <2>3. Calls \subseteq DOMAIN s[Len(s)]
    <3>1. s \in Seq(Elements(s)) /\ Len(s) \in Nat \ {0}
      BY <2>1, EmptySeq DEF Records
    <3> QED
      BY <2>1, <3>1 DEF Records
  <2>4. Calls \subseteq DOMAIN e /\ e.block = s[Len(s)].block
    BY <2>3 DEF Calls
  <2> HIDE DEF e
  <2>5. Records(stack', Calls) /\ BlocksOf(s) \subseteq BlocksOf(stack')
    BY <2>1, <2>2, <2>4, SetLast
  <2> QED
    BY <1>1, <1>2, <2>5 DEF s
<1> QED
  BY <1>2, <1>3, <1>4

LEMMA GoingOn ==
    ASSUME Records(stack, Calls), stack # <<>>, NEW f, NEW c, NEW l, RunFrom(f, c, l)
    PROVE  Records(stack', Calls) /\ top' = top /\ BlocksOf(stack) \subseteq BlocksOf(stack')
<1> DEFINE e == [stack[Len(stack)] EXCEPT !.phase = "body", !.first = f, !.ch = c, !.left = l]
<1>1. Calls \subseteq DOMAIN stack[Len(stack)]
  <2>1. stack \in Seq(Elements(stack)) /\ Len(stack) \in Nat \ {0}
    BY EmptySeq DEF Records
  <2> QED
    BY <2>1 DEF Records
<1>2. Calls \subseteq DOMAIN e /\ e.block = stack[Len(stack)].block
  BY <1>1 DEF Calls
<1>3. stack' = [stack EXCEPT ![Len(stack)] = e] /\ top' = top
  BY DEF RunFrom
<1> HIDE DEF e
<1> QED
  BY <1>2, <1>3, SetLast

LEMMA Calling ==
    ASSUME Records(stack, Calls), Call \/ (EndOfSet /\ block.kind \in Loops)
    PROVE  Records(stack', Calls) /\ BlocksOf(stack) \subseteq BlocksOf(stack')
<1>0. stack # <<>>
  BY DEF Call, EndOfSet, Running
<1>1. Calls \subseteq DOMAIN stack[Len(stack)]
  <2>1. stack \in Seq(Elements(stack)) /\ Len(stack) \in Nat \ {0}
    BY <1>0, EmptySeq DEF Records
  <2> QED
    BY <2>1 DEF Records
<1>2. CASE Call
  <2> DEFINE e == [stack[Len(stack)] EXCEPT !.cn = blocks[frame.ch].next]
             s == [stack EXCEPT ![Len(stack)] = e]
  <2>1. Calls \subseteq DOMAIN e /\ e.block = stack[Len(stack)].block
    BY <1>1 DEF Calls
  <2>2. stack' = Append(s, Frame(frame.ch, frame.nn))
    BY <1>2 DEF Call
  <2> HIDE DEF e
  <2>3. Records(s, Calls) /\ BlocksOf(stack) \subseteq BlocksOf(s)
    BY <1>0, <2>1, SetLast
  <2> HIDE DEF s
  <2>4. Records(stack', Calls) /\ BlocksOf(s) \subseteq BlocksOf(stack')
    BY <2>2, <2>3, PushCall
  <2> QED
    BY <2>3, <2>4
<1>3. CASE EndOfSet /\ block.kind \in Loops
  <2> DEFINE e == [stack[Len(stack)] EXCEPT !.phase = "test"]
  <2>1. Calls \subseteq DOMAIN e /\ e.block = stack[Len(stack)].block
    BY <1>1 DEF Calls
  <2>2. stack' = [stack EXCEPT ![Len(stack)] = e]
    BY <1>3 DEF EndOfSet, Loops
  <2> HIDE DEF e
  <2> QED
    BY <1>0, <2>1, <2>2, SetLast
<1> QED
  BY <1>2, <1>3

-----------------------------------------------------------------------------
(* The invariant: rounds are left only where a repeat is being executed,   *)
(* and nothing is executed while the top level waits for a line.           *)
Left(bs, s) ==
    \A i \in 1..Len(bs) : (i \notin BlocksOf(s) \/ bs[i].kind # "repeat") => bs[i].todo = 0

IInv ==
    /\ Records(blocks, Fields) /\ Records(stack, Calls)
    /\ top = 0 => stack = <<>>
    /\ Left(blocks, stack)

(* A step that keeps the blocks: a call that is left is no repeat.         *)
LEMMA KeptBlocks ==
    ASSUME IInv, blocks' = blocks, Records(stack', Calls), top' = top, stack # <<>>,
           \/ BlocksOf(stack) \subseteq BlocksOf(stack')
           \/ /\ BlocksOf(stack) \subseteq BlocksOf(stack') \cup {frame.block}
              /\ block.kind # "repeat"
    PROVE  IInv'
<1>1. Left(blocks', stack')
  BY DEF IInv, Left, block
<1>2. top' # 0
  BY DEF IInv
<1> QED
  BY <1>1, <1>2 DEF IInv

(* A step that sets the rounds left: to none if the call is left.          *)
LEMMA SetRounds ==
    ASSUME IInv, NEW n, Todo(n), Records(stack', Calls), top' = top, stack # <<>>,
           block.kind = "repeat",
           \/ BlocksOf(stack) \subseteq BlocksOf(stack')
           \/ BlocksOf(stack) \subseteq BlocksOf(stack') \cup {frame.block} /\ n = 0
    PROVE  IInv'
<1>1. frame.block \in BlocksOf(stack)
  <2>1. stack \in Seq(Elements(stack)) /\ Len(stack) \in Nat \ {0}
    BY EmptySeq DEF IInv, Records
  <2> QED
    BY <2>1 DEF BlocksOf, frame
<1>2. /\ Records(blocks', Fields) /\ Len(blocks') = Len(blocks)
      /\ \A i \in 1..Len(blocks) :
            /\ blocks'[i].kind = blocks[i].kind
            /\ blocks'[i].todo = IF i = frame.block THEN n ELSE blocks[i].todo
  <2> DEFINE e == [blocks[frame.block] EXCEPT !.todo = n]
  <2>1. blocks' = [blocks EXCEPT ![frame.block] = e]
    BY DEF Todo
  <2>2. Records(blocks, Fields)
    BY DEF IInv
  <2>3. Fields \subseteq DOMAIN blocks[frame.block] =>
            Fields \subseteq DOMAIN e /\ e.todo = n /\ e.kind = blocks[frame.block].kind
    BY DEF Fields
  <2> HIDE DEF e
  <2>4. blocks \in Seq(Elements(blocks)) /\ Len(blocks) \in Nat /\ DOMAIN blocks = 1..Len(blocks)
    BY <2>2, Enlarge DEF Records
  <2> DEFINE b == frame.block
  <2>5. CASE b \in 1..Len(blocks)
    <3>1. Fields \subseteq DOMAIN e /\ e.todo = n /\ e.kind = blocks[b].kind
      BY <2>2, <2>3, <2>5 DEF Records
    <3> HIDE DEF b
    <3>2. /\ Records([blocks EXCEPT ![b] = e], Fields)
          /\ Len([blocks EXCEPT ![b] = e]) = Len(blocks)
          /\ \A i \in 1..Len(blocks) :
                [blocks EXCEPT ![b] = e][i] = IF i = b THEN e ELSE blocks[i]
      BY <2>2, <2>5, <3>1, RecordsExcept
    <3>3. blocks' = [blocks EXCEPT ![b] = e]
      BY <2>1 DEF b
    <3>4. \A i \in 1..Len(blocks) :
             /\ blocks'[i].kind = blocks[i].kind
             /\ blocks'[i].todo = IF i = b THEN n ELSE blocks[i].todo
      BY <3>1, <3>2, <3>3
    <3> QED
      BY <3>2, <3>3, <3>4 DEF b
  <2>6. CASE b \notin 1..Len(blocks)
    <3>1. blocks' = blocks
      BY <2>1, <2>4, <2>6
    <3> QED
      BY <2>2, <2>6, <3>1
  <2> QED
    BY <2>5, <2>6
<1>3. Left(blocks', stack')
  BY <1>1, <1>2 DEF IInv, Left, block
<1>4. top' # 0
  BY DEF IInv
<1> QED
  BY <1>2, <1>3, <1>4 DEF IInv

LEMMA ReadInv == ASSUME IInv, ReadLine PROVE IInv'
<1>1. stack = <<>> /\ stack' = stack
  BY DEF IInv, ReadLine, Idle
<1>2. BlocksOf(stack) = {}
  BY <1>1, EmptySeq DEF BlocksOf
<1>3. Clean(blocks)
  BY <1>2 DEF IInv, Left, Clean
<1>4. Clean(blocks')
  <2>1. Clean(Allocate.bs)
    BY <1>3, CleanAllocate
  <2> DEFINE line == script[read + 1]
             bs == Allocate.bs
             c == Allocate.c
  <2>2. AddOpener(bs, c, line) \/ AddEnd(bs, c) \/ AddElse(bs, c) \/ AddLeaf(bs, c, line)
    BY DEF ReadLine
  <2> HIDE DEF line, bs, c
  <2>3. Clean(bs)
    BY <2>1 DEF bs
  <2> QED
    BY <2>2, <2>3, CleanAdd
<1>5. Records(blocks', Fields) /\ Left(blocks', stack')
  BY <1>4 DEF Clean, Left
<1> QED
  BY <1>1, <1>5 DEF IInv

LEMMA DoblockInv == ASSUME IInv, doblock PROVE IInv'
<1>1. Records(stack, Calls) /\ Records(blocks, Fields)
  BY DEF IInv
<1>2. CASE CallTop
  <2>1. stack' = Append(<<>>, Frame(top, 0)) /\ stack = <<>> /\ blocks' = blocks /\ top' = top /\ top # 0
    BY <1>2 DEF CallTop, reading
  <2>2. Records(stack', Calls) /\ BlocksOf(stack) \subseteq BlocksOf(stack')
    BY <1>1, <2>1, PushCall
  <2>3. Left(blocks', stack')
    BY <2>1, <2>2 DEF IInv, Left
  <2> QED
    BY <1>1, <2>1, <2>2, <2>3 DEF IInv
<1>3. CASE Plain \/ Break \/ Continue \/ Goto
  <2>1. stack # <<>> /\ block.kind # "repeat" /\ blocks' = blocks
    BY <1>3 DEF Plain, Break, Continue, Goto, Leave, IsBlock, Running, reading
  <2>2. \E v, num : Return(v) \/ ReturnNum(v, num)
    BY <1>3 DEF Plain, Break, Continue, Goto, Leave
  <2>3. /\ Records(stack', Calls) /\ top' = top
        /\ BlocksOf(stack) \subseteq BlocksOf(stack') \cup {frame.block}
    BY <1>1, <2>1, <2>2, Returning
  <2> QED
    BY <2>1, <2>3, KeptBlocks
<1>4. CASE While \/ ForEach \/ IfBlock
  <2>1. stack # <<>> /\ block.kind # "repeat" /\ blocks' = blocks
    BY <1>4 DEF While, ForEach, IfBlock, IsBlock, Running, reading
  <2>2. (\E f, c, l : RunFrom(f, c, l)) \/ (\E v : Return(v))
    BY <1>4 DEF While, ForEach, IfBlock
  <2>3. CASE \E f, c, l : RunFrom(f, c, l)
    BY <1>1, <2>1, <2>3, GoingOn, KeptBlocks
  <2>4. CASE \E v : Return(v)
    <3>1. /\ Records(stack', Calls) /\ top' = top
          /\ BlocksOf(stack) \subseteq BlocksOf(stack') \cup {frame.block}
      BY <1>1, <2>1, <2>4, Returning
    <3> QED
      BY <2>1, <3>1, KeptBlocks
  <2> QED
    BY <2>2, <2>3, <2>4
<1>5. CASE Repeat
  <2>1. stack # <<>> /\ block.kind = "repeat"
    BY <1>5 DEF Repeat, IsBlock, Running
  <2>2. \/ \E n, f, c, l : Todo(n) /\ RunFrom(f, c, l)
        \/ \E v : Todo(0) /\ Return(v)
    BY <1>5 DEF Repeat
  <2>3. CASE \E n, f, c, l : Todo(n) /\ RunFrom(f, c, l)
    BY <1>1, <2>1, <2>3, GoingOn, SetRounds
  <2>4. CASE \E v : Todo(0) /\ Return(v)
    <3>1. /\ Records(stack', Calls) /\ top' = top
          /\ BlocksOf(stack) \subseteq BlocksOf(stack') \cup {frame.block}
      BY <1>1, <2>1, <2>4, Returning
    <3> QED
      BY <2>1, <2>4, <3>1, SetRounds
  <2> QED
    BY <2>2, <2>3, <2>4
<1>6. CASE Call \/ (EndOfSet /\ block.kind \in Loops)
  <2>1. stack # <<>> /\ blocks' = blocks
    BY <1>6 DEF Call, EndOfSet, Running, reading
  <2>2. top' = top
    BY <1>6 DEF Call, EndOfSet, Loops
  <2>3. Records(stack', Calls) /\ BlocksOf(stack) \subseteq BlocksOf(stack')
    BY <1>1, <1>6, Calling
  <2> QED
    BY <2>1, <2>2, <2>3, KeptBlocks
<1>7. CASE (EndOfSet /\ block.kind = "if") \/ LeaveIf
  <2>1. stack # <<>> /\ block.kind # "repeat" /\ blocks' = blocks
    BY <1>7 DEF EndOfSet, LeaveIf, Running, Returned, reading
  <2>2. \E v, num : Return(v) \/ ReturnNum(v, num)
    BY <1>7 DEF EndOfSet, LeaveIf, Loops
  <2>3. /\ Records(stack', Calls) /\ top' = top
        /\ BlocksOf(stack) \subseteq BlocksOf(stack') \cup {frame.block}
    BY <1>1, <2>1, <2>2, Returning
  <2> QED
    BY <2>1, <2>3, KeptBlocks
<1>8. CASE GoOn
  <2>1. stack # <<>> /\ blocks' = blocks /\ \E f, c, l : RunFrom(f, c, l)
    BY <1>8 DEF GoOn, Returned, reading
  <2> QED
    BY <1>1, <2>1, GoingOn, KeptBlocks
<1>9. CASE BreakLoop \/ ContinueLoop \/ FindLabel
  <2>1. stack # <<>>
    BY <1>9 DEF BreakLoop, ContinueLoop, FindLabel, Returned
  <2>2. \/ blocks' = blocks /\ \E f, c, l : RunFrom(f, c, l)
        \/ Cleared /\ \E v, num : Return(v) \/ ReturnNum(v, num)
    BY <1>9 DEF BreakLoop, ContinueLoop, FindLabel
  <2>3. CASE blocks' = blocks /\ \E f, c, l : RunFrom(f, c, l)
    BY <1>1, <2>1, <2>3, GoingOn, KeptBlocks
  <2>4. CASE Cleared /\ \E v, num : Return(v) \/ ReturnNum(v, num)
    <3>1. /\ Records(stack', Calls) /\ top' = top
          /\ BlocksOf(stack) \subseteq BlocksOf(stack') \cup {frame.block}
      BY <1>1, <2>1, <2>4, Returning
    <3>2. CASE block.kind = "repeat" /\ Todo(0)
      BY <2>1, <3>1, <3>2, SetRounds
    <3>3. CASE block.kind # "repeat" /\ blocks' = blocks
      BY <2>1, <3>1, <3>3, KeptBlocks
    <3> QED
      BY <2>4, <3>2, <3>3 DEF Cleared
  <2> QED
    BY <2>2, <2>3, <2>4
<1>10. CASE TopReturned
  <2>1. stack = <<>> /\ stack' = stack /\ blocks' = blocks
    BY <1>10 DEF TopReturned, reading
  <2> QED
    BY <2>1 DEF IInv, Left
<1> QED
  BY <1>2, <1>3, <1>4, <1>5, <1>6, <1>7, <1>8, <1>9, <1>10 DEF doblock, EndOfSet

LEMMA InvInit == Init => IInv
<1> SUFFICES ASSUME Init PROVE IInv
  OBVIOUS
<1>1. blocks = <<>> /\ stack = <<>> /\ Len(<<>>) = 0
  BY EmptySeq DEF Init
<1>2. <<>> \in Seq(Elements(<<>>))
  BY EmptySeq
<1> QED
  BY <1>1, <1>2 DEF IInv, Records, Left

LEMMA InvStep == IInv /\ [Next]_vars => IInv'
<1> SUFFICES ASSUME IInv, [Next]_vars PROVE IInv'
  OBVIOUS
<1>1. CASE ReadLine
  BY <1>1, ReadInv
<1>2. CASE ResetControl
  <2>1. blocks' = <<>> /\ stack' = stack /\ top' = top /\ Len(<<>>) = 0 /\ <<>> \in Seq(Elements(<<>>))
    BY <1>2, EmptySeq DEF ResetControl
  <2> QED
    BY <2>1 DEF IInv, Records, Left
<1>3. CASE doblock
  BY <1>3, DoblockInv
<1>4. CASE UNCHANGED vars
  BY <1>4 DEF IInv, vars, reading
<1> QED
  BY <1>1, <1>2, <1>3, <1>4 DEF Next

(* A repeat block that is not being executed has no rounds left over from  *)
(* an earlier execution, whether that ended, was left by a break, by a     *)
(* continue of an outer loop or by a goto, at any depth (the case          *)
(* CO_REPEAT of doblock, control.c).                                       *)
THEOREM RepeatsCorrect == Spec => []RepeatsAfresh
<1>1. Init => IInv
  BY InvInit
<1>2. IInv /\ [Next]_vars => IInv'
  BY InvStep
<1>3. IInv => RepeatsAfresh
  <2> SUFFICES ASSUME IInv PROVE RepeatsAfresh
    OBVIOUS
  <2>1. DOMAIN blocks = 1..Len(blocks) /\ DOMAIN stack = 1..Len(stack)
    BY Enlarge DEF IInv, Records
  <2>2. Active = BlocksOf(stack)
    BY <2>1 DEF Active, BlocksOf
  <2> QED
    BY <2>1, <2>2 DEF IInv, Left, RepeatsAfresh
<1> QED
  BY <1>1, <1>2, <1>3, PTL DEF Spec
=============================================================================
