# Verification of sahara-spice

This directory holds TLA+ models of sahara-spice (a Node.js library that
simulates circuits piece by piece with ngspice) and of the part of ngspice it
links against, configurations that check them with TLC, and proofs checked by
TLAPS. Paths below are relative to the repository; "JS" is
`src/libraries/saharaspice.js`, "addon" is `src/libraries/saharaspice/node.cc`,
"ngspice" is `src/libraries/ngspice-36/src`.

## 1. The system

```
  clients ── REST handlers ── JS (ds_status) ── addon (Global) ── Circuit
                                                    │
                                                INgSpice ── ngspice shared library
                                                              caller's thread
                                                              background thread(s)
                                                              controls thread(s)
                                                                 │
                     command interpreter ── run control ── transient analysis
                        (blocks, jumps)      (run, resume,     (steps, breakpoints,
                                              halt, stop)       output vectors)
```

| part | state | operations | interacts by |
|---|---|---|---|
| JS library (`saharaspice.js`) | `ds_status[i]`: state, circuit, memory (a value per capacitor and inductor) | start, stop, reset, restart, loadCircuit, updateMemory, setCircuitParameters, runTransient | synchronous calls of the addon |
| addon (`node.cc`, `global.*`) | `_started`, `_circuit` | the same, validating names | calls of Circuit and INgSpice |
| Circuit (`circuit.cc`) | title, sections, elements, controls, edges | load, listing, setParams | called by the addon |
| INgSpice (`i_ngspice.cc`) | `_lastVectors`, `_bLoadedCircuit`, `_logs` | loadCircuit, getResult, run, stop | ngSpice_* calls; `_SendData` callback |
| shared library, threads (`sharedspice.c`) | `fl_running`, `fl_exited`, `ft_intrpt`, `cont_condition`, `tid2`, `shcontrols` | ngSpice_Command, ngSpice_Circ, ngSpice_running; the thread bodies; shared_exit | shared flags, a mutex and a condition variable, pthread_join, callbacks |
| breakpoints, synchronisation (`sharedspice.c`, `cktsetbk.c`, `cktclrbk.c`) | `bkpttmp`, `CKTbreaks` | ngSpice_SetBkpt, add_bkpt, CKTsetBreak, CKTclrBreak, sharedsync | called by the caller and by DCtran; a callback that chooses the step |
| run control (`runcoms.c`, `runcoms2.c`, `spiceif.c`, `breakp.c`, `cktdojob.c`) | `ci_inprogress`, `dbs`, `shouldstop`, `howmanysteps` | run, resume, step, stop, delete, reset | `ft_intrpt`; a pause is a return value |
| transient analysis (`dctran.c`) | `CKTtime`, `CKTdelta`, `CKTsaveDelta`, `CKTbreak` | DCtran's loop: accept, limit the step, solve, reject | calls of devices, breakpoints, output |
| output vectors (`outitf.c`, `vectors.c`, `postcoms.c`, `com_let.c`, `sharedspice.c`) | `plot_list`, `plot_cur`, the run's descriptors, `curvecvalsall`, `savenone` | beginPlot, OUTpData, OUTendPlot, sh_vecinit, sh_ExecutePerLoop; let, unlet, remzerovec, setplot, destroy | linked lists that the run and the commands share; the SendData callback |
| command interpreter (`control.c`, `cpitf.c`) | linked blocks, `cend`, the calls of doblock | cp_evloop line by line, doblock, cp_resetcontrol | calls of commands |
| netlist parser, device models | circuits, matrices | - | - |
| REST router, middleware, utilities | none that lasts | one library call per request | - |

What is hard in it:

* **Threads without synchronisation.** The flags of `sharedspice.c` are plain
  variables read and written by three kinds of threads. Which interleavings are
  harmless depends on what the caller waits for.
* **Wakeups and joins.** The controls thread is released by a condition
  variable and joined through a global that others overwrite.
* **Fatal errors.** `shared_exit` ends a thread or jumps out of a call,
  depending on flags.
* **State kept twice.** JS and the addon each keep the circuit and the server
  state and change them on different conditions.
* **Failure in the middle.** A refused netlist, a refused query and a failed
  simulation each leave something of the last call behind.
* **Continuity.** A run starts from what the last one left, across circuits,
  updates and loads; memory, probes and answers share one list of readings.
* **Text processing with state.** The loader edits the list it walks over,
  toggles between sections, and inserts commands at an index found by a search.
* **Step control with retries.** A time step is cut at breakpoints, rejected by
  the solver, by the truncation error or by the caller, and repeated; time goes
  forward and back in one variable, the table of breakpoints changes under way,
  and a pause leaves everything for a later resume.
* **Linked blocks.** The interpreter fills a list of blocks while it reads, else
  and end relink it, and jumps leave nested loops by return values and a counter
  passed by reference.
* **Lists shared by a run and by commands.** While a run is paused the caller may
  change the very plot that the run goes on to write.

## 2. The modules

| module | models | used by |
|---|---|---|
| `SharedSpice` | threads and commands of the shared library | `SharedSpiceClients` |
| `SharedSpiceClients` | callers of more or less discipline; the properties, fairness, the mapping to `BackgroundRun` | `MCSharedSpice`, `SharedSpiceProofs` |
| `BackgroundRun` | abstract: one run at a time, excluding the caller's requests | `SharedSpiceClients` |
| `SharedSpiceProofs` | theorems about the threads | |
| `Breakpoints` | the table of breakpoints: insertion and clearing | `TransientAnalysis` |
| `TransientAnalysis` | DCtran's step control, run control, breakpoints and synchronisation, composed | `MCTransient`, `TransientProofs` |
| `TransientJob` | abstract: an analysis that moves forward, pauses, goes on and ends | `TransientAnalysis` |
| `TransientProofs` | theorems about the table of breakpoints, the analysis (types, where a step begins), its steps and the breakpoints ahead of them; the refinement | |
| `ControlLines` | a script and the blocks its lines form, told from the lines alone | `ControlFlow`, `ControlBlocks` |
| `ControlFlow` | abstract: what the help text says control structures do | `ControlBlocks` |
| `ControlBlocks` | cp_evloop and doblock on linked blocks | `MCControl`, `ControlProofs` |
| `ControlProofs` | theorem about repeat | `ControlBlockProofs` |
| `ControlBlockProofs` | theorem about the blocks that are read | |
| `OutputVectors` | plots and vectors under runs and commands; what is told to the caller | `MCOutput`, `OutputProofs` |
| `OutputProofs` | theorems about the list of plots, their vectors, and what a run keeps and tells | |
| `Lists` | what is left of a list when entries are dropped | `OutputVectors`, `Netlist`, `ControlBlocks` |
| `ListProofs` | lemmas about lists: the first place of some kind, entries put in and taken out, lists of lists | `TransientProofs`, `OutputProofs`, `CircuitProofs`, `SaharaProofs`, `ControlBlockProofs` |
| `Netlist` | lines as Circuit tells them apart; what a netlist means | `Circuit`, `SaharaSpice` |
| `Circuit` | load line by line; listing | `MCCircuit`, `CircuitProofs` |
| `CircuitProofs` | theorems about the loader | |
| `TransientRuns` | abstract: runs that continue where the last one ended | `SaharaSpice` |
| `SaharaSpice` | JS over addon over INgSpice, one step per call | `MCSaharaSpice`, `SaharaProofs` |
| `SaharaProofs` | theorems about the library: types, status, circuit, memory, runs | |
| `MC*` | instances for TLC | |

`SaharaSpice` is the composition of the upper half: it uses the meaning of
netlists (`Netlist`) in place of the loader, which `Circuit` is proved to
implement (`AcceptsCorrect`, `NamesCorrect`). `TransientAnalysis` composes run
control, step control and the breakpoint calls; `SharedSpice` has it as its
label `sim`, and both treat `ft_intrpt` alike: cleared when an analysis begins
(`dosim`) and again at the end of a command (`cp_periodic`).

An operator whose comment begins with "Slip:" is not part of a specification.
It is the definition that follows it with a plausible mistake, kept to show
that the properties would notice.

### SharedSpice

One action is one stretch of code between two points where another thread can
be seen to interfere: between two accesses of the flags. `pc[t]` names where a
thread is. The caller: `Issue` enters a call, `Runc` and `Guard` are the two
tests of `runc`, `Stop*` is `_thread_stop` with its loop (`timeout` counts its
iterations), `CreateBg` is pthread_create with `fl_running = TRUE`, and `exec`
stands for `cp_evloop`, of whatever length. A background thread goes
born, live, evloop, sim, done, told, release and so on through `_thread_run`;
`sim` begins where `dosim` clears `ft_intrpt`. A controls thread goes through
`_cthread_run`; `waiting` holds the threads inside `pthread_cond_wait`, which
may return by itself (`SpuriousWakeup`). The mutex is not a variable: each of
its critical sections is an action, and the writes made outside it are others.
`cp_periodic`, which docommand calls after a command and which clears
`ft_intrpt`, is part of the action that ends the command; a netlist with
controls runs several commands or none, hence the choice in `CircReturn`.
`shared_exit` can happen to any thread that is executing a command; a jump to
another thread's stack and a join of thread 0 are undefined and lead to the
label `wild`, where nothing is promised.

Left out: what the commands do; the pipes and text; the Windows branches; slots
for threads are finite, and a caller that needs another one waits.

### Callers

`Spec` sends anything at any time. The header says nothing of when a caller may
send; what the library then guarantees is shown for two disciplines.
`Patient`: wait for the notification of a run's start before the next call and
of its end before the next run or netlist. `Quiet`, for netlists with
`controlswait`: also let the controls run before anything else is sent.
`PatientSpec` is the patient caller without `controlswait`, `QuietSpec` the
quiet one with it.

### Breakpoints and TransientAnalysis

Times are integers ("ticks"). `Breakpoints` has CKTsetBreak and CKTclrBreak as
operators on a sequence; CKTsetBreak puts a time that is close before an entry
in its place, leaves out one that is close behind an entry, and inserts any
other. In `TransientAnalysis`, `pc` is where DCtran is: add_bkpt (the
preliminary breakpoints), stops (those of stop commands), op (the operating
point), accept (CKTaccept: devices ask for breakpoints; the table is cleared),
dump (data are written, conditions asked), limit (the step is cut at
breakpoints), solve (an iteration and its verdict), and idle outside of an
analysis. One action is one such part of an iteration; it ends where the caller
or a callback can step in. What the numerics decide is a choice: convergence
(`NotConverged`, `FirstConverged`, `Truncated`), the step that the truncation
error allows (`Truncated`), the times at which devices want breakpoints
(`Accept`), and errors (`Abort`). `Synchronised` is sharedsync: the callback of
a caller may shorten every step and repeat a converged one. The caller's
commands (`Begin`, `GoOn`, `Step`, `StopWhen`, `Delete`, `Reset`) come between
analyses, `Halt` at any time, `SetBkpt` between analyses or from the callback
that receives a point.

`asked`, `unmet`, `promised`, `last` and `outcome` are history: the breakpoints
asked for, those that no accepted time has reached yet, those that
ngSpice_SetBkpt has agreed to, the last accepted time, how the analysis ended.

Left out: the integration order, transmission lines' own step control, other
analyses, a second circuit, measurements, `autostop` and `sim_status`,
and SetBkpt called by another thread beside the analysis.

### ControlLines, ControlFlow, ControlBlocks

A line is a kind and an argument: a jump's number of levels, a repeat's count, a
foreach's number of values, a label's word. Conditions are choices.
`ControlBlocks` has the linked list of `struct control` as `blocks`, a function
from addresses to records with the fields of the C structure (0 is NULL).
`ReadLine` is one call of cp_evloop's reading part: it allocates or reuses the
unfilled block, fills it, and links what else and end relink. A block that
becomes whole at the top level is executed: `CallTop` and the actions of
`doblock`. Its recursion is the sequence `stack`; a frame holds the block, the
set of statements it runs, the local `cn` and the counter `nn` that callers pass
by reference (`num`), and what a foreach has left. `val` is the value that the
last call returned. `ResetControl` is cp_resetcontrol by
`ngSpice_Command(NULL)`.

`ControlLines` and `ControlFlow` say the same without any blocks: from the lines
alone, which block a line belongs to, what follows it, and where a jump leads,
by the words of the help text (`ngspice.txt`, "Control structures").
`RefinesFlow` is the mapping from blocks and frames to a position in the script.

Left out: nested source files and the stack of controls (`cp_pushcontrol`),
redirection, and the commands themselves.

### OutputVectors

A value is the pair of a quantity and the number of the point, so that a value
shows where it belongs. `plots` is `plot_list`: a sequence, newest first, the
constant plot last; a plot has its vectors in the order of its list, newest
first. `slot` says which descriptor of the run writes a vector (0: none), which
in the code is a pointer from the descriptor to the vector; `run.gone` are the
descriptors whose vector was freed. `BeginPlot` is beginPlot with plotInit and
sh_vecinit, `Data` is OUTpData with sh_ExecutePerLoop, for any choice of specials
(`@device[parameter]`) that are found at the point, `Pause` and `Resume` are
E_PAUSE and the relinking call of beginPlot. The caller's commands are possible
outside of the analysis only (`Command`); each ends with `vec_gc` through
`cp_periodic` in docommand, which `Sweep` is. `told` is what the callback
SendData receives in this step. Where the code reads or writes freed memory or
beyond an array, `wild` becomes TRUE and nothing more is said.

`touched` and `missed` are history: the caller has changed the plot of a paused
run; some special was not found.

Left out: runs into raw files, interpolation, complex vectors, expressions,
indexed let, digital event nodes, names of plots (numbers here).

### Netlist and Circuit

A line is a record: its kind, which is what the prefix tests of `Circuit::load`
tell apart, and its words. `JoinLine` is the first loop of load, an iteration
per step; the other actions are the branches of the second loop; `listing`
builds the text from the object, `Send` hands it to `INgSpice::loadCircuit`,
whose splitting drops empty lines (`Received`). A tran command of fewer than
four words makes `makeTransCommand` (`circuit.cc:396`) read beyond its vector; no
listing is asked for then (`Listable`). `Netlist` says independently of the loops
what the logical lines, the element lines, the nodes and names are.

Not modelled: the copying constructor, which copies field by field; the
overload `load(string)`, without caller. `SetParams` has the addon's check that
there are as many values as elements; its instances are not empty. `paramlist` is
history: the values given last, so that `ListingKeepsCircuit` can say by position
which value each line that is sent afterwards must have.

### SaharaSpice

JavaScript is one thread and every call is synchronous, so a call is a step.
`memory` is a sequence, in insertion order like `Object.keys`. A simulation is
any choice of values for the native circuit's nodes and branches (`Simulations`,
external); `SimulationFails` is one that delivers nothing. `ics` and `sim` are
history: the initial values an analysis started from and the vectors it gave.
`ready` says whether ngSpice_Init was ever called, which only start and restart do
(`node.cc:59`); stop and reset leave the simulator initialised. A run before that
follows a null pointer (`spiceif.c:109`) and does not return, so it is no step.
Time steps and counts are passed through and left out.

## 3. What is checked

| run | instance | properties |
|---|---|---|
| `threads_types` | any caller, 2 background and 2 controls threads, 2 iterations of the stop loop; 3.3 million states | `TypeOK`, every action of the thread model |
| `threads_quiet` | quiet caller, the same bounds | `Exclusive`, `RunningIsReported`, `StoppedMeansStopped`, `OnlyWorkersExit` |
| `threads_patient` | patient caller, 2 background threads | `PatientInv`; `CallsReturn`, `HaltEndsRun` under fairness; `RefinesRun` |
| `transient` | an analysis of 14 ticks with a synchronising caller, breakpoints, stop times, pauses and retries; 440 thousand states | `TypeOK`, `StepsFromLast`, `StepsForward`, `NoCrossing`, `BreakpointsAreHit`, `TableInOrder`; `RunEnds` under fairness; `RefinesJob` |
| `control` | 1154 scripts of two and three nested blocks with every jump, and odd lines; 231 thousand states | `BlocksHoldSets`, `RepeatsAfresh`; `Ends` under fairness; `RefinesFlow` |
| `output` | two plots beside the constant one, runs of two points, a special, one name of the caller; 4 million states | `TypeOK`, `PlotsLinked`, `ScalesSound`, `RunKeepsPoints`, `OnlyTouchingBreaks`, `PointsAreTold` |
| `circuit` | titles with 0 to 3 lines of 13 kinds, and control sections of 0 to 2 commands between elements | `TypeOK`, `JoinsContinuations`, `AcceptsAcceptable`, `KnowsItsNames`, `ListingKeepsCircuit`, `LoadInv`, `PrintsAfterTran`, `AltersTakeEffect` |
| `sahara_tidy` | two circuits that share capacitor c1, numeric nodes, successful simulations | `SameCircuit`, `MemoryHasValues`, `RefinesRuns` |
| `sahara_wild` | refused netlists, named nodes, a title like a capacitor, unknown queries, failing simulations | `TypeOK`, `StatusAgrees` |
| `bug_release`, `bug_stale`, `bug_resume` | the smallest instance each | one violated property each, section 5 |

Why the bounds are enough.

* Threads: two background threads are one more than the flags describe: the
  hazards are about an old and a new thread, and a third would meet the same
  flags; likewise two controls threads for one `tid2`. The stop loop needs one
  iteration that fails and one that is the last; 2 stands for the 100 of the code
  (the proofs hold for any number).
* Transient analysis: `Final` = 14, `MaxStep` = 5, `DelMin` = 1 and `MinBreak` = 3
  keep the code's order DelMin < MinBreak < MaxStep with room for several steps.
  `Points` = {0, 5, 8, 14} holds two times that are exactly MinBreak apart, the
  first breakpoint of an analysis from given values (TStep) and the end.
  `Cut` = `Shrink` = 2 stand for the 10 and 8 of the code, which with small
  integers would lead straight to the smallest step. A table of at most 5
  entries (`MaxTable`), one preliminary breakpoint (`MaxPrelim`), counts of step
  up to 2 (`MaxSteps`); `RedoPastEnd` = FALSE excludes a caller that repeats a
  step leading past the end (section 5). The proofs hold for any values that the
  assumptions of the module allow (the last two as hypotheses, section 4).
* Control: every kind of block inside every kind of block with every jump of one
  or two levels and a label at either level; two blocks in a loop, so that break
  2 and continue 2 stop in the middle; ends, elses and counts where they do not
  belong. One reset (`MaxForget`).
* Output: two plots besides the constant one are what is needed to make another
  plot current, destroy it and the run's; two points distinguish the last from
  the others. The caller's name is a saved vector's in one kind of run and new
  in the other.
* Loader: three lines after the title reach every transition between two kinds
  of line, continuations of continuations and of empty lines, and duplicates
  with a line between; the sections add elements after `.endc`.
* Library: its behaviour depends on what is and was in memory: two circuits with
  a common and with different elements, with grounded, floating and reversed
  capacitors, and two simulated values beside one given value (so that 0, carried
  over, simulated and given values all differ).

Deadlock is checked for `threads_patient`, `transient` and the `sahara` runs. The
runs with `CHECK_DEADLOCK FALSE` may stop: threads end or wait for each other for
ever (that is the subject of `bug_release`), the loader ends with its netlist,
the interpreter with its script, and plots and points run out in `output`.

### Fairness

`Scheduling` is weak fairness of every thread: a thread that can take a step
takes one, as any preemptive scheduler provides. It excludes what nothing
forces: that a simulation completes, fails or finds no circuit. Hence
`CallsReturn` rests on the bound in `_thread_stop` and not on the simulation's
end. `BgPause` is included, as `OUTstopnow` is asked after every time step.
`Halting`, strong fairness of bg_halt, is an assumption about the caller ("keeps
asking"), needed since `dosim` may erase a request that comes too early and a
bg_halt may give up; `HaltEndsRun` is about such a caller.

`FairSpec` of `TransientAnalysis` and of `ControlBlocks` is weak fairness of
DCtran and of doblock as a whole: sequential code that is being executed goes on.
Nothing is assumed of its choices: `RunEnds` holds although the solver may reject
every step, since each rejection shrinks the step and too small a step is an
error. `Ends` is about scripts without while and goto.

## 4. What is proved

For every value of the constants that the named `ASSUME`s of the modules allow.

**Threads** (`SharedSpiceProofs`), for every set of threads and number of
iterations. `TypeCorrect`: the types, for any caller. `PatientCorrect`:
`PatientInv` is inductive (with the types) for patient callers. None of the
flags alone says where a thread is, so the invariant ties them together: one
thread at most is active (`OneActive`); flags and notification say truly where it
is (`FlagsAreRight`); and the caller is past none of its tests while a thread is
active that the test would have seen (`CallerIsRight`). The last is the point: the
tests read flags which are false in the creation window, and only a caller that
waited for the notification cannot be in that window. From it follow
`PatientExclusive`, `PatientRunningIsReported`, `PatientStoppedMeansStopped`,
`PatientOnlyWorkersExit`, and `PatientRefines`: every step maps to a step of
`BackgroundRun` or to none.

**Table of breakpoints** (`TransientProofs`), for any table, times and least
distance. `SetBreakSorted`: insertion keeps the order and shortens nothing.
`SetBreakCovers`: afterwards there is an entry at the time, or one before it
within the least distance. `SetBreakKeeps`: no entry is lost, but for an earlier
one within the least distance in its place. `ClrBreakSorted`: clearing keeps the
order and two entries. The lemmas behind them say what the entries are, which the
analysis needs: those that were there and the new time (`SetBreakEntries`), with the
time among them unless one is close before it (`SetBreakFaithful`), and none twice
when all times are further apart than the least distance (`SetBreakNoPile`).

**Transient analysis** (`TransientProofs`), for any times, steps and callers.
`TransientInv`: the invariant is the types, the table in order (so that the cut at
`breaks[2] - breaks[1]` is a step), and `Going`: while DCtran is inside an
analysis there is a table, and wherever a step begins or is tried again the time
is the last accepted one. `TransientTypes`, `TransientTable` and
`TransientSteps` are its parts that the run checks.

**Steps and breakpoints** (`TransientProofs`), for any times and steps, on three
invariants, each with the one before.
* `LInv` (`TransientNoCrossing`): a time about to be accepted passes no entry but the
  first, and that only when the step began within DelMin of it; an accepted time is
  behind every entry and, unless the analysis is over, at least MinBreak before the
  end; a first step is InitDelta long. `NoCrossing` alone is not inductive: whether
  the next step crosses depends on what was cleared at the acceptance before it.
* `FInv` (`TransientForward`): every step that is tried is positive, and time is not
  before the last accepted one. At the end the clamp of sharedsync may make it zero
  or less, hence `NotAtEnd` in the first invariant.
* `HInv` (`TransientHits`): a breakpoint with none close before it is an entry of the
  table, more than DelMin ahead of the last accepted time, until it is reached.

`TransientRefines` maps every step to one of `TransientJob` or to none; a step back in
`time` (reject, repeat) maps to none, as the job's time is the last accepted one.

Two hypotheses are needed, and both are about the caller. `NoPile`: the table has no
time twice but the final one; what happens otherwise is in section 5 ("A pile of
breakpoints"). It is an invariant of the run `transient` (add it to `MCTransient.cfg`),
and `TransientNoPile` derives it for breakpoints more than MinBreak apart (`Spread`,
a condition on the constants alone). `Polite`: a caller that synchronises repeats no
step past the end (section 5, "Steps at the end"). `SpreadCorrect` puts them together:
from `Spread` and `Polite` the four properties hold without an assumption about the
states. Of the constants the proofs use `StepAssumption`; its `InitDelta <= TStep` is
`dctran.c:112`, a tenth of the smaller of the hundredth of the final time and CKTstep.

**Control** (`ControlProofs`), for any script. `RepeatsCorrect`: a repeat that is
not being executed has no rounds left, however its executions were left. The
invariant says that rounds are left only in a repeat some frame of the stack
executes, and that no frame exists while nothing is executed; a loop is entered
while its own frame is the last, and left through `Cleared`.

**Blocks** (`ControlBlockProofs`), for any script. `BlocksCorrect`: the lists of blocks
hold the sets of statements that the lines form (`BlocksHoldSets`). The lines are first
told in terms that go on from one to the next: the openers that are open behind line j
(`OpenAt`), the elses that an if has so far (`Elses`), the set that the next line belongs
to (`Cur`). What an opener, an else, an end and any other line do to these is `OpenNext`,
`CurNext` and `MemNext`; an end goes back to the set around, which is what it was when
the block was opened (`OpenWithin`, `ElsesKept`).
The invariant `BInv` ties every link of every block to them. The filled blocks are those
of the statements, in the order of their lines (`HasLines`); a parent is the innermost
block open at the line (`Parents`); `next` is the block of the next statement of the same
set, or the last, still unfilled block if that set is the one that goes on (`NextOk`);
`co_children` and `co_elseblock` are the blocks of the least line of a set (`SetsOk`); and
the last block comes behind the last statement of its set (`LastSet`). Each is needed by
the others: that end and else clear the right link (`Cut`) needs `prev` and the parent,
that a new block comes into the right list (`Attach`, `Fill`) needs both and `Cur`.
Reading a line allocates, then fills, unlinks or relinks a block; a lemma for each shows
that `BInv` goes on to the next line. `LinesAre` is the recursion over a list: two
answers to it would differ at a last block, whose `next` comes after it.
An if is excepted that has a second else or is closed with an empty second set
(`WholeIf`, section 5, "Empty else").

**Output** (`OutputProofs`), for any number of plots, points and names.
`PlotsCorrect`: the current plot is one of the list, numbers are distinct, and the
constant plot is the last. The invariant adds that the list is a sequence of
records with their three fields. The step that needs the most is destroy: the
list without its entry at k, and the neighbour that becomes current.
`PointsKept`, `BreaksOnlyTouched` and `PointsTold` rest on a second invariant,
`KInv`: while nobody has touched the run's plot, its vectors are exactly those of the
run, the last saved in front; each holds values of its own quantity in the order of
the points, all of them so far unless a value was missed; nothing of it is freed;
and the names prepared for the caller are those of the vectors in the same order.
So names, count and last index fit when a point is told, and memory beside the data
is touched only after a command that set `touched`, with another current plot, or
after a special that was not found. A command either sets it or
leaves that plot alone, which is where the distinct numbers of `PlotsCorrect` are
needed. Besides the assumption on what a run saves (at least one quantity, each
once) the proof uses `FreedAssumption`.
`OutputTypes` and `ScalesCorrect` rest on `OInv`: the linked list, the types and the
scales together, since each needs the others. That the prepared names are names of
vectors needs the run's plot to be in the list, which a destroy must keep up; that a
scale is among the vectors needs their names to be distinct, or a sweep could leave
the wrong one. What a sweep leaves is `Only` of `Lists` (a recursive filter could not
be proved about): its k-th entry is the k-th place that is kept.

**Loader** (`CircuitProofs`), for every set of netlists and of further commands.
`LoadCorrect`: `IInv` (the types, well formed lines, and `LoadInv`) is inductive.
`JoinsCorrect`: before the joining loop looks at line i, the lines above are as given,
line i is already the logical line that begins there, and behind it are those of the
heads below (`JoinedFrom`). A plus line goes to the line above (`Belongs`), any other
becomes one more head (`Alone`, `NthBelow`); that the words of a joined line are the
concatenation needs what `FlattenSeq` computes, by the least place where it would not
be so (`LeastIndex`, from the well-foundedness of finite sets), as induction itself
cannot be cited.
`LoadInv` relates the object at line `index` to the lines before it: the toggle is
on exactly inside a control section, nodes and names are those of the element
lines read, and these are whole and different. At the end of the lines this is
`AcceptsAcceptable` (load succeeds exactly for acceptable netlists) and
`KnowsItsNames`. `PrintsFollowTran` is about `Commands` by itself: for commands
without a transient analysis the inserted one precedes every print.
What the simulator receives rests on `PInv` (`ObjectCorrect`), which adds to `IInv`
what listing relies on: each part of the object holds lines of its own kind,
elements have different names, `edges` is the set of their nodes, the k-th element is
the k-th element line with its own value or the k-th of `paramlist` (`OrderInv`), and
what was sent is the listing of these elements. `TextLaid` finds the
elements and commands in the text, `AllArrive` that the split loses only its empty
lines and no order, `Arrival` that with a title the commands are what comes from
behind the control line. From these follow `PrintsCorrect`, `AltersCorrect` and
`ListingCorrect`: a line is read as an element exactly if it was written for one, and
since places grow with the elements the k-th of them is the k-th element's (`Ranked`:
numbers without gaps that grow with the places are their ranks).
The hypotheses are about what the library passes, and `MCCircuit` assumes them so
that TLC evaluates them: `OrderlyExtras`, commands are plain, none is a transient
analysis, and alters come before prints (the library passes alter commands only, JS
`:190`); for the last also `FilledParams`, no value of setParams is empty, since an
element line of three words would be refused when read again.

**Library** (`SaharaProofs`), for any netlists, queries and values. `StatusCorrect`:
the state that JS reports agrees with the addon after any calls. `TypesCorrect`: the
types, for any outcome. Replies and memory are numbers because each element of memory
is found among the probes made for it (`ProbeOf`) and the caller's readings are the
last of them (`Replied`); the invariant adds that memory is about words that begin
with "c" or "l". The other three have hypotheses about what is loaded and asked, which
`MCSaharaSpice` assumes of its tidy instance so that TLC evaluates them:
* `TidyNetlist`: the addon accepts the netlist, a line begins with "c" or "l" exactly
  if it is an element line of such a name (a title may not), and the nodes of such
  a line are numbers. `TidyQuery`: one or two nodes and elements, all of the netlist.
* `CircuitCorrect` (`SameCircuit`) needs the first only. `Linked` says what stop leaves
  open: with no circuit memory is empty, with one it is the addon's and memory has
  each stored name once, with its last line.
* `ValuesCorrect` (`MemoryHasValues`): then every probe is known, also before the first
  load and after a stop, when the addon still has its circuit (`AllKnown`); so no run
  is refused, which is what would take the values away.
* `RunsRefined` (`RefinesRuns`), if simulations succeed too: a load is one of
  `TransientRuns` with the same given values, an update an update, stop and restart
  a stop, start and reset nothing. A run is one from the remembered values
  (`StoredReading` for what it stores, `Replied` and `AcrossNodes` for its answer).
  It needs `Zeros`: a vector that never came reads as 0, so that the ground, which
  has no vector, is 0 in every run.

Without the hypotheses these three are false: `bug_stale`, and "Undefined values" and
the netlists of `sahara_wild` (section 5). Memory as loadCircuit fills it is stated by
places (`Firsts`, `LineOf`), as what a fold computes could not be proved about.

Only model-checked: all liveness (`CallsReturn`, `HaltEndsRun`, `RunEnds`, `Ends`),
which this prover does not do; and `RefinesFlow`, whose mapping follows the recursion of
`Follow` over the lines and of `findlabel` over the lists.

## 5. Where code and text disagree

Three runs show a counterexample each.

* `bug_release`: a signal sent before `_cthread_run` waits is lost
  (`sharedspice.c:476`); the controls are never run and the background thread
  waits in pthread_join, against the header comment at `:36`.
* `bug_stale`: the result of the simulation is ignored (`node.cc:370`) and
  `_lastVectors` is kept. Start, loadCircuit, a run that succeeds and gives values
  other than 0, a run whose simulation fails: the second is answered "ok" with the
  values of the first, and these are stored as resulting values (JS `:243`).
* `bug_resume`: DCtran takes an analysis with `CKTtime` 0 for a new one
  (`dctran.c:111`), resumed or not; a breakpoint that ngSpice_SetBkpt accepted
  while it was paused there is gone, against `runcoms2.c:48` ("Continue a
  simulation").

Others can be reproduced with a small change of a configuration or a property:

* *The creation window.* `Spec` with BgThreads = {b1, b2}, CtThreads = {} and
  INVARIANT `RunningIsReported`: bg_halt right after bg_run finds `fl_exited` still
  TRUE from before, reports the thread as stopped and unregisters it
  (`sharedspice.c:560`); it simulates while `ngSpice_running` says FALSE, against
  `src/sharedspice.h:417`. In the same window a second command enters the
  simulator beside it (`:671`), which the comment at `:698` excludes.
* *Fatal errors.* The same with `OnlyWorkersExit`: a fatal error in
  `ngSpice_Circ` during a run ends the caller's thread (`:1992`), against the
  comment at `:1990`.
* *Initial values.* MCCircuit with `InitialValuesReachRun`: `listing` puts the
  run's alter commands after the netlist's own tran (`circuit.cc:214`); "set
  initial values" (JS `:168`) has then no effect on it.
* *Undefined values.* `sahara_tidy` with Queries <- WildQueries: a run refused for
  an unknown name stores `undefined` for all of memory (JS `:250`), against "in
  all other cases, set to 0" (`:159`); the next loadCircuit carries it over.
* *Steps at the end.* `transient` with RedoPastEnd = TRUE: `sharedsync` compares
  `CKTtime + CKTdelta` with the final time (`sharedspice.c:2304`) before it takes
  `olddelta` back (`:2309`); a step that the caller repeats near the end becomes
  zero or negative (`StepsForward`).
* *A pile of breakpoints.* `transient` with Points {0, 3, 6, 13, 20}, Final 20, TStep
  3, MaxStep 10, InitSave 10, MaxTable 8 and wantsync FALSE: SetBkpt of 6, 3 and 0 in
  turn, twice at time 0. A time close before an entry takes its place whatever the
  distance to the entry before (`cktsetbk.c:36`), so that equal entries pile up at the
  head; one is cleared per accepted point, the stale head is taken for the next
  breakpoint, and a step from 10 to 14 passes 13 (`BreakpointsAreHit`), against
  `dctran.c:390` ("limit the timestep so that the next breakpoint is not crossed"). With the 10 of
  the code for `Cut` it takes a longer pile.
* *Empty else.* `control` with Scripts <- EmptyElse, MaxForget = 0 and `BlocksHoldSets`
  without `WholeIf`: else makes its own, still unfilled block the second set
  (`control.c:847`) and forgets what is before it; an end right after it clears the
  first set (`:833`), frees the block (`:834`) and leaves `co_elseblock` pointing at
  it, against "otherwise the second set" (`ngspice.txt:5315`). The proof of
  `BlocksHoldSets` showed that this and a second else, which drops the set of the
  first (`:847`), are the only exceptions.
* *A touched plot.* `output` without the excuse `~touched` in `PointsAreTold` or
  `OnlyTouchingBreaks`: after let of a new name, unlet, remzerovec or destroy in a
  pause, resume counts other vectors than those of the run, or writes to freed
  ones; without `plot_cur = run.plot`, after setplot the points told are those of
  another plot.

Seen while modelling, part of the models, without a run of their own:

* Threads. The flag given to BGThreadRunning is TRUE when the thread has exited
  (`sharedspice.c:500`); `src/sharedspice.h:264` reads the other way. The end of
  an old run releases the controls of a netlist loaded meanwhile, beside the
  next simulation (`:518`). The comment at `cpitf.c:371` says that cp_periodic is
  called before every command; it is called after (`control.c:255`), and erases a
  halt requested meanwhile.
* Breakpoints. A time close before an entry takes its place without a look at the
  entry before (`cktsetbk.c:36`): equal times pile up, and a row of close ones
  drifts to the front. One entry is cleared per accepted point although `dctran.c:384` says
  "clear all previous breakpoints". add_bkpt runs before CKTminBreak is set.
  `bkpttmp` is global: preliminary breakpoints outlive reset and go to whatever
  analysis is next. A stop "when time = t" compares
  within three units in the last place (`breakp.c:519`) and relies on the breakpoint
  being hit to that; a caller that shortens steps may pass it by DelMin.
* Run control. `shouldstop` and `howmanysteps` outlive the analysis: a condition
  met at its last point stops the next one at its first (`outitf.c:1353`).
* Control language. A foreach line without a variable, given as a string by
  ngSpice_Command, is read again for ever (`control.c:762`). A block that is never ended swallows all later commands.
  An overflow of the control stack sets `stackp` to 0 (`:928`). plot_docoms calls
  cp_resetcontrol inside a running command. The list of top level blocks is never freed. A goto to a label that is
  not read yet is not found at the top level.
* Output. sh_ExecutePerLoop tells the vectors of the current plot, not of the
  run's, and always as many as were prepared, so that stale entries stay
  (`sharedspice.c:2090`). One index serves all vectors (`:2096`), also when a
  special was not found (`outitf.c:564`). `savenone` is never reset
  (`outitf.c:219`). In a run into a raw file `runPlot` is NULL and sh_vecinit
  dereferences it.
* Loader and INgSpice. A netlist with an empty title loses its first line to the
  title, since the listing is split without its empty lines (`i_ngspice.cc:53`).
  A tran command of fewer than four words is read beyond its end
  (`circuit.cc:396`). A duplicate name leaves load without an error text
  (`circuit.cc:340`) and the object half filled; the addon throws it away.
* Library. A run on a circuit that was loaded before the first start calls
  ngSpice_Circ, which has no test of `is_initialized` (`sharedspice.c:1127`), and
  follows a null pointer (`spiceif.c:109`). restart and-s its results onto false and always ends in state error
  (JS `:85`), with a started server. A title that begins with c or l is stored as
  an element (JS `:145`); the run then probes it and is refused. Probes use
  parseInt of a node's name (JS `:203`): named nodes, as in
  `src/__test__/cmos-inverter.cir`, become NaN and the run is refused; a name like
  2b becomes node 2. A refused netlist replaces circuit and memory of JS all the
  same (`:141`), while the addon goes on with the old one; `SameCircuit` holds for
  accepted netlists only. The status of a successful run is false (`node.cc:400`,
  the variable is `bError`), as that of a refused one. The third and further nodes
  of a transistor are no known edges; an element without a branch vector reads as
  current 0. stop clears the circuit of JS only; a run after it simulates the old
  one. getStatistics and clearStatistics do not exist in the addon, getConfig
  parses an empty string, and instances 1 to 3 refer to undefined names: each
  throws.

## 6. Not modelled

* **Device models, matrices, numerics, other analyses**: by far most of the 670
  thousand lines of the repository. They are floating point equations without a
  protocol; what they decide is a choice in `TransientAnalysis` and
  `SaharaSpice`. A finite model of them would say nothing about them, so the
  share of all lines that the models stand for stays small; of what sahara-spice
  itself wrote nearly everything that keeps state is modelled.
* **The netlist parser, expressions, printing, raw files, plotting**: text and
  formats.
* **Other threads that call ngSpice_SetBkpt during a run**, and commands issued
  from inside a SendData callback: both race on memory without a defined outcome.
* **Nested source files, redirection**: the control stack of the interpreter.
* **ngSpice_Init, ngGet_Vec_Info, ngSpice_AllPlots, ngSpice_AllVecs**: they run
  once or copy; the pointers that ngGet_Vec_Info hands out dangle as soon as the
  vector grows.
* **XSPICE event queues**: not enabled by this repository's configuration of
  ngspice.
* **A second circuit, measurements, transmission lines, integration order,
  autostop.**
* **INgSpice::run and stop**: no caller at this commit.
* **REST handlers and middleware** (stateless, one call each); charts, units,
  logging, the pipe parser (no caller).

## 7. Plan

Done: threads, callers, loader, library; breakpoints, step and run control;
control structures; output vectors; types and main invariants proved, for the
transient analysis all safety properties and the refinement.

1. `INgSpice::run` and `stop` on top of `SharedSpice`: when run returns, has the
   simulation ended (the creation window again)?
2. The control stack: source inside blocks, and errors that reset it.
3. `TransientAnalysis` beside `OutputVectors`: what an accepted, repeated or
   paused point does to the vectors.
