--------------------------- MODULE ControlBlocks ---------------------------
(***************************************************************************)
(* The control structures of ngspice's command language (control.c): the   *)
(* loop of cp_evloop that reads a line at a time into linked blocks, and   *)
(* doblock, which executes a block once it is whole.  doblock's recursion  *)
(* is a stack of frames.  What plain commands do, and the values of        *)
(* conditions, are left open; one level of the control stack is modelled.  *)
(***************************************************************************)
EXTENDS ControlLines, Lists

CONSTANTS
    Scripts,    \* the scripts: sequences of lines, [kind, arg]
    MaxForget   \* bound on ngSpice_Command(NULL)

Statements == {"statement", "label", "break", "continue", "goto"}
Line == [kind : Openers \cup {"else", "end"} \cup Statements, arg : Int]

ASSUME ScriptsAssumption == Scripts \subseteq Seq(Line)

VARIABLES
    forgets,    \* how often they were cleared
    blocks,     \* the struct controls, by address; 0 is NULL
    cend,       \* cend[stackp]: the last block
    top,        \* the block of the top level that is executed, 0 if none
    stack,      \* the calls of doblock
    val         \* what the last call of doblock returned

reading == <<script, read, base, forgets, blocks, cend>>
vars    == <<reading, top, stack, val>>

Jumps   == {"broken", "continued", "label"}

None   == [kind |-> "none", word |-> 0, from |-> 0]
Normal == [kind |-> "normal", word |-> 0, from |-> 0]

(* A block as TMALLOC and ZERO leave it.                                   *)
Unfilled(parent, prev) ==
    [kind |-> "unfilled", arg |-> 0, line |-> 0, todo |-> 0, parent |-> parent,
     prev |-> prev, next |-> 0, children |-> 0, elseblock |-> 0]

Init ==
    /\ script \in Scripts
    /\ read = 0 /\ base = 0 /\ forgets = 0
    /\ blocks = <<>> /\ cend = 0
    /\ top = 0 /\ stack = <<>> /\ val = None

-----------------------------------------------------------------------------
(* Reading.  bs is the memory and c the last block, while a line is added. *)

(* A block for the line: the unfilled one, a successor, or the very first. *)
Allocate ==
    IF cend = 0 THEN [bs |-> <<Unfilled(0, 0)>>, c |-> 1]
    ELSE IF blocks[cend].kind = "unfilled" THEN [bs |-> blocks, c |-> cend]
    ELSE LET n == Len(blocks) + 1 IN
         [bs |-> Append([blocks EXCEPT ![cend].next = n],
                        Unfilled(blocks[cend].parent, cend)),
          c |-> n]

Filled(bs, c, line) ==
    [bs EXCEPT ![c].kind = line.kind, ![c].arg = line.arg, ![c].line = read + 1]

(* newblock: the block's first child, to be filled by the next line.       *)
AddOpener(bs, c, line) ==
    LET n == Len(bs) + 1 IN
    /\ blocks' = Append([Filled(bs, c, line) EXCEPT ![c].children = n], Unfilled(c, 0))
    /\ cend' = n

AddLeaf(bs, c, line) == blocks' = Filled(bs, c, line) /\ cend' = c

(* end: the block made for it is thrown away; outside of any it stays.     *)
AddEnd(bs, c) ==
    LET b == bs[c]
        free == [bs EXCEPT ![c].kind = "freed"]
    IN
    \/ b.parent = 0 /\ blocks' = bs /\ cend' = c
    \/ /\ b.parent # 0 /\ cend' = b.parent
       /\ blocks' = IF b.prev # 0 THEN [free EXCEPT ![b.prev].next = 0]
                    ELSE [free EXCEPT ![b.parent].children = 0]

(* Slip: the second set stays linked to the first.                         *)
AddElseLinked(bs, c) ==
    LET b == bs[c]
        ifBlock == b.parent # 0 /\ bs[b.parent].kind = "if"
    IN
    /\ cend' = c
    /\ \/ ~ifBlock /\ blocks' = bs
       \/ ifBlock /\ blocks' = [bs EXCEPT ![b.parent].elseblock = c, ![c].prev = 0]

(* else: its block becomes the first of the second set, still unfilled.    *)
AddElse(bs, c) ==
    LET b == bs[c]
        ifBlock == b.parent # 0 /\ bs[b.parent].kind = "if"
        cut == IF b.prev # 0 THEN [bs EXCEPT ![b.prev].next = 0]
               ELSE [bs EXCEPT ![b.parent].children = 0]
    IN
    /\ cend' = c
    /\ \/ ~ifBlock /\ blocks' = bs
       \/ ifBlock /\ blocks' = [cut EXCEPT ![b.parent].elseblock = c, ![c].prev = 0]

(* One line is read; at the top level it is executed at once.              *)
Idle == top = 0

ReadLine ==
    /\ Idle /\ read < Len(script)
    /\ read' = read + 1
    /\ LET line == script[read + 1]
           new  == Allocate
       IN  CASE line.kind \in Openers -> AddOpener(new.bs, new.c, line)
             [] line.kind = "end"     -> AddEnd(new.bs, new.c)
             [] line.kind = "else"    -> AddElse(new.bs, new.c)
             [] OTHER                 -> AddLeaf(new.bs, new.c, line)
    /\ top' = IF blocks'[cend'].parent = 0 THEN cend' ELSE 0
    /\ UNCHANGED <<script, base, forgets, stack, val>>

(* cp_resetcontrol, by ngSpice_Command(NULL).                              *)
ResetControl ==
    /\ Idle /\ forgets < MaxForget /\ forgets' = forgets + 1
    /\ blocks' = <<>> /\ cend' = 0 /\ base' = read
    /\ UNCHANGED <<script, read, top, stack, val>>

-----------------------------------------------------------------------------
(* Executing.                                                              *)

(* The first label w in the list that begins with block b; 0 if none.      *)
findlabel(first, w) ==
    LET from[i \in 0..Len(blocks)] ==
            IF i = 0 \/ (blocks[i].kind = "label" /\ blocks[i].arg = w) THEN i
            ELSE from[blocks[i].next]
    IN  from[first]

(* A call: its block, the set of statements it runs, the one it is at and  *)
(* the one to come next, its nn, and the values left of a foreach.         *)
Frame(bl, num) ==
    LET do == blocks[bl].kind = "dowhile" IN
    [block |-> bl, first |-> blocks[bl].children, nn |-> num + 1, cn |-> 0,
     phase |-> IF do THEN "body" ELSE "enter",
     ch |-> IF do THEN blocks[bl].children ELSE 0,
     left |-> blocks[bl].arg]

frame == stack[Len(stack)]
block == blocks[frame.block]
Rest == SubSeq(stack, 1, Len(stack) - 1)

Running == stack # <<>> /\ val = None
IsBlock(kinds) == Running /\ block.kind \in kinds /\ frame.phase # "body"

(* The call returns v, and tells its caller num, if there is one.          *)
Return(v) == stack' = Rest /\ val' = v /\ UNCHANGED top
ReturnNum(v, num) ==
    /\ stack' = IF Rest = <<>> THEN Rest ELSE [Rest EXCEPT ![Len(Rest)].nn = num]
    /\ val' = v /\ UNCHANGED top

(* The call runs the statements from block c on.                           *)
RunFrom(first, c, left) ==
    /\ stack' = [stack EXCEPT ![Len(stack)] =
                    [@ EXCEPT !.phase = "body", !.first = first, !.ch = c, !.left = left]]
    /\ val' = None /\ UNCHANGED top

CallTop ==
    /\ top # 0 /\ stack = <<>> /\ val = None
    /\ stack' = <<Frame(top, 0)>>
    /\ UNCHANGED <<reading, top, val>>

(* Commands, labels, and what a line in error left unfilled.               *)
Plain == IsBlock({"statement", "label", "unfilled"}) /\ Return(Normal) /\ UNCHANGED reading

Leave(kind, v) ==
    /\ IsBlock({kind})
    /\ \/ block.arg > 0 /\ ReturnNum([kind |-> v, word |-> 0, from |-> block.line], block.arg)
       \/ block.arg = 0 /\ Return(Normal)
    /\ UNCHANGED reading

Break    == Leave("break", "broken")
Continue == Leave("continue", "continued")

Goto ==
    /\ IsBlock({"goto"})
    /\ Return([kind |-> "label", word |-> block.arg, from |-> block.line])
    /\ UNCHANGED reading

(* The test of while and dowhile.                                          *)
While ==
    /\ IsBlock({"while", "dowhile"})
    /\ RunFrom(block.children, block.children, 0) \/ Return(Normal)
    /\ UNCHANGED reading

Todo(n) == blocks' = [blocks EXCEPT ![frame.block].todo = n]

(* Slip: a count that is used up begins again.                            *)
RepeatAnew ==
    /\ IsBlock({"repeat"})
    /\ LET todo == IF block.todo = 0 THEN block.arg ELSE block.todo IN
       \/ /\ todo > 0 \/ todo = -1
          /\ Todo(IF todo = -1 THEN -1 ELSE todo - 1)
          /\ RunFrom(block.children, block.children, 0)
       \/ todo = 0 /\ Todo(0) /\ Return(Normal)
    /\ UNCHANGED <<script, read, base, forgets, cend>>

(* repeat: what is left of an earlier execution is gone on with.           *)
Repeat ==
    /\ IsBlock({"repeat"})
    /\ LET todo == IF frame.phase = "enter" /\ block.todo = 0 THEN block.arg ELSE block.todo IN
       \/ /\ todo > 0 \/ todo = -1
          /\ Todo(IF todo = -1 THEN -1 ELSE todo - 1)
          /\ RunFrom(block.children, block.children, 0)
       \/ todo = 0 /\ Todo(0) /\ Return(Normal)
    /\ UNCHANGED <<script, read, base, forgets, cend>>

ForEach ==
    /\ IsBlock({"foreach"})
    /\ \/ frame.left > 0 /\ RunFrom(block.children, block.children, frame.left - 1)
       \/ frame.left = 0 /\ Return(Normal)
    /\ UNCHANGED reading

IfBlock ==
    /\ IsBlock({"if"})
    /\ RunFrom(block.children, block.children, 0) \/ RunFrom(block.elseblock, block.elseblock, 0)
    /\ UNCHANGED reading

(* The next statement of the set, or the end of the set.                   *)
Call ==
    /\ Running /\ frame.phase = "body" /\ frame.ch # 0
    /\ stack' = Append([stack EXCEPT ![Len(stack)].cn = blocks[frame.ch].next], Frame(frame.ch, frame.nn))
    /\ UNCHANGED <<reading, top, val>>

EndOfSet ==
    /\ Running /\ frame.phase = "body" /\ frame.ch = 0
    /\ \/ block.kind = "if" /\ Return(Normal)
       \/ /\ block.kind \in Loops
          /\ stack' = [stack EXCEPT ![Len(stack)].phase = "test"]
          /\ UNCHANGED <<top, val>>
    /\ UNCHANGED reading

-----------------------------------------------------------------------------
(* A called doblock has returned val.                                      *)
Returned(kinds) == stack # <<>> /\ val.kind \in kinds

(* Slip: a loop that is left keeps its count.                              *)
ClearedNot == UNCHANGED blocks

(* A loop that is left has nothing left to do.                             *)
Cleared == IF block.kind = "repeat" THEN Todo(0) ELSE UNCHANGED blocks

GoOn == Returned({"normal"}) /\ RunFrom(frame.first, frame.cn, frame.left) /\ UNCHANGED reading

(* Slip: a loop that is left does not count.                               *)
BreakLoopUncounted ==
    /\ Returned({"broken"}) /\ block.kind \in Loops
    /\ Cleared
    /\ IF frame.nn < 2 THEN Return(Normal) ELSE ReturnNum(val, frame.nn)
    /\ UNCHANGED <<script, read, base, forgets, cend>>

BreakLoop ==
    /\ Returned({"broken"}) /\ block.kind \in Loops
    /\ Cleared
    /\ IF frame.nn < 2 THEN Return(Normal) ELSE ReturnNum(val, frame.nn - 1)
    /\ UNCHANGED <<script, read, base, forgets, cend>>

ContinueLoop ==
    /\ Returned({"continued"}) /\ block.kind \in Loops
    /\ \/ frame.nn < 2 /\ RunFrom(frame.first, 0, frame.left) /\ UNCHANGED blocks
       \/ frame.nn >= 2 /\ Cleared /\ ReturnNum(val, frame.nn - 1)
    /\ UNCHANGED <<script, read, base, forgets, cend>>

LeaveIf ==
    /\ Returned({"broken", "continued"}) /\ block.kind = "if"
    /\ ReturnNum(val, frame.nn)
    /\ UNCHANGED reading

(* A label is looked for in the set of statements, then passed upwards.    *)
FindLabel ==
    /\ Returned({"label"})
    /\ LET l == findlabel(frame.first, val.word) IN
       \/ l # 0 /\ RunFrom(frame.first, l, frame.left) /\ UNCHANGED blocks
       \/ l = 0 /\ Cleared /\ Return(val)
    /\ UNCHANGED <<script, read, base, forgets, cend>>

(* The top level: a label is looked for among all blocks; after a break or *)
(* continue that found no loop it goes on.                                 *)
TopReturned ==
    /\ top # 0 /\ stack = <<>> /\ val # None
    /\ \/ /\ val.kind # "label"
          /\ top' = blocks[top].next /\ val' = None
       \/ /\ val.kind = "label"
          /\ LET l == findlabel(1, val.word) IN
             top' = l /\ val' = IF l = 0 THEN None ELSE Normal
    /\ UNCHANGED <<reading, stack>>

doblock ==
    \/ CallTop \/ Plain \/ Break \/ Continue \/ Goto \/ While \/ Repeat \/ ForEach \/ IfBlock
    \/ Call \/ EndOfSet \/ GoOn \/ BreakLoop \/ ContinueLoop \/ LeaveIf \/ FindLabel
    \/ TopReturned

Next == ReadLine \/ ResetControl \/ doblock

Spec == Init /\ [][Next]_vars
FairSpec == Spec /\ WF_vars(doblock)

-----------------------------------------------------------------------------
(* The lines of the blocks that a list holds, in their order; what a line  *)
(* in error left unfilled has none.                                        *)
LinesOf(first) ==
    LET l[i \in 0..Len(blocks)] ==
            IF i = 0 THEN <<>>
            ELSE (IF blocks[i].kind = "unfilled" THEN <<>> ELSE <<blocks[i].line>>)
                 \o l[blocks[i].next]
    IN  l[first]

InOrder(S) == [k \in 1..Cardinality(S) |-> Nth(S, k)]

(* Every block that was read holds the statements that the script has      *)
(* there, those of the second set of an if apart, and none that was freed  *)
(* (help: "If the condition is non-zero then the first set of statements   *)
(* are executed, otherwise the second set").                               *)
WholeIf(o) ==
    \A e \in ElsesOf(o) : ElsesOf(o) = {e} /\ (EndOf(o) <= read => Members(e) # {})

BlocksHoldSets ==
    Idle => \A o \in (base + 1)..read :
       Kind(o) \in Openers /\ WholeIf(o) =>
          \E i \in DOMAIN blocks :
             /\ blocks[i].line = o /\ blocks[i].kind = Kind(o)
             /\ LinesOf(blocks[i].children) = InOrder(Members(o))
             /\ \A e \in ElsesOf(o) : LinesOf(blocks[i].elseblock) = InOrder(Members(e))

(* A repeat that is not being executed has nothing left to do, so that it  *)
(* is executed as often as it says the next time, too, however it was left *)
(* (help: "Execute the statements number times").                          *)
Active == {stack[i].block : i \in DOMAIN stack}
RepeatsAfresh ==
    \A i \in DOMAIN blocks \ Active : blocks[i].kind = "repeat" => blocks[i].todo = 0

(* Without while and goto every script comes to its end.                   *)
Bounded ==
    \A i \in DOMAIN script :
       /\ Kind(i) \notin {"while", "dowhile", "goto"}
       /\ Kind(i) = "repeat" => Arg(i) >= 0
Ends == (Bounded /\ top # 0) ~> top = 0

(* Where the execution is in the script.                                   *)
LineOf(i) == IF i = 0 \/ blocks[i].kind = "unfilled" THEN read + 1 ELSE blocks[i].line
Here ==
    CASE val.kind \in Jumps -> val.from
      [] stack = <<>> -> LineOf(IF val = None THEN top ELSE blocks[top].next)
      [] stack # <<>> /\ val = Normal ->
            IF frame.cn # 0 THEN LineOf(frame.cn) ELSE EndOf(block.line)
      [] stack # <<>> /\ val = None /\ frame.phase = "body" ->
            IF frame.ch # 0 THEN LineOf(frame.ch) ELSE EndOf(block.line)
      [] stack # <<>> /\ val = None /\ frame.phase = "test" /\ block.kind = "dowhile" ->
            EndOf(block.line)
      [] OTHER -> LineOf(frame.block)

OpenUnit == MinOf({i \in (base + 1)..read : Kind(i) \in Openers /\ EndOf(i) = read + 1})

(* The blocks and their execution do what the help says of the lines.      *)
Flow == INSTANCE ControlFlow WITH
    at <- IF top # 0 THEN Follow[Here] ELSE IF Open THEN OpenUnit ELSE read + 1

RefinesFlow == Flow!Spec
=============================================================================
