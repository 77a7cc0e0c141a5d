# A TLA+ verification project for picon

picon enforces control-flow integrity of C programs.  An LLVM pass numbers the
functions and basic blocks of a program, writes down its call graph and
control-flow graphs and inserts calls that announce every jump, call and return.
At run time a *monitor* process starts the program (the *client*) with four
pipes.  While modules are loaded the client sends its graphs to the monitor;
afterwards each inserted call sends a signal and waits for an answer, and the
monitor kills the client when a signal does not fit the graphs.

This directory holds TLA+ models of the build and of the run time, TLC
configurations for small instances, and TLAPS proofs.

## The system

| part | source | state | operations |
|---|---|---|---|
| `monitor_run` | `monitor/src/monitor_run.c` | state, current module, function, block, top block, call stack, block stack, signal buffer, error | a handler per signal (BEFORE_JUMP, AFTER_JUMP, CALL, ENTER, EXIT, RETURNED), reading, answering, timeout |
| stacks | `monitor/src/{call,block}_stack.c` and headers | arrays with first, last and top pointers | init, push (may extend), pop, restore top, free, trace |
| monitor `main` | `monitor/src/main.c` | err, number of runs, pipes, child pid | load, preload answers, run main, run destructors, kill, exit |
| injected code | `include/picon/injected_code.c`, `shared.h` | signal buffer `_cs`, two descriptors | `send_monitor` from six entry points |
| `monitor_load` | `monitor/src/monitor_load.c` | tables of the loaded modules | read a module section by section, reply its id, relocate, run initialisers |
| `picon-prelink` | `prelink/picon-prelink` | merged tables | read and merge the files of the pass, generate the loading code of a module |
| LLVM pass, analysis | `llvm_pass/CFI/CFI.cpp`, `CFIModulePass.cpp` | the files `.fctid`, `.trans`, `.bbtrans`, `.ipdom` and a lock, shared by all jobs of a build; identifiers known to a job | lock, number functions, append graphs, rewrite the identifiers, compute post-dominators, take out constructors and destructors |
| LLVM pass, injector | `llvm_pass/CFI/CFIInjector.cpp` | the code of a unit | insert the calls that send ENTER, EXIT, CALL, RETURNED, BEFORE_JUMP and AFTER_JUMP |
| dot dump, logging | `monitor_dot.c`, `log.h` | none | print |

How they interact: the pass and `picon-prelink` run at build time and produce
code that is linked into every module.  That code talks to `monitor_load` while
the dynamic linker runs constructors, and to `monitor_run` from then on.  The
only shared state between client and monitor are the pipes (created with
`O_DIRECT`, so each write is a packet and a pipe holds a bounded number of
them); `main` starts `monitor_run` once for the program's main function and once
per destructor.  `monitor_run` reads the tables `monitor_load` filled and never
changes them.

What is hard: compilations that run in parallel, fail half-way or are repeated on
files they all rewrite; signals placed one by one in the code that must add up to
what the monitor expects on every path; two processes that wait for each other
over bounded pipes; answers
sent in advance, so that the program runs ahead of its checks; ends of file,
broken pipes and timeouts at any point; a signal buffer that is read after a
failed read; two stacks tied together by saved pointers, which grow by
reallocation.  Every such place is a hazard in `PROJECT.json`, at its line.

What makes the parts correct:

* all object files of a module and its tables use the same identifiers, the
  tables hold every call and jump of the source and no others, and the code
  calls each constructor and destructor once;
* on every path the injected signals are such that the monitor accepts them and
  knows where the program is;
* loading gives each module its own tables, checked to be in range, and ends with
  both processes in agreement or both gone;
* `monitor_run` accepts exactly the signals of a program that moves along its
  graphs, brings a caller back to the block it called from, never looks outside
  its tables, and reports success only when everything has returned;
* the stacks behave as stacks however large they get;
* client and monitor never wait for each other for ever; a program that
  misbehaves gets at most a known number of signals further and is then killed;
  a program that conforms is left alone; neither process outlives the other for
  long.

## Modules

* `ProgramTables`: the tables of `monitor_load.h` as constants.  `modules[m]`
  has the fields of `module_data`; a row of a graph is `NULL` (never allocated)
  or the set of identifiers whose byte is set.  `TablesSound` states what the
  loader's checks guarantee: `MonitorRun` assumes it, `MonitorLoad` is proved to
  establish it.
* `MonitorLoad`: loading.  The client is the constructor that `picon-prelink`
  generates (`cpc`: `send` a packet, wait for the `id`, call the `inits`, `main`),
  for each module of the program in turn; the monitor is `monitor_load` (`mpc`:
  the `first` packet of a module, `sections`, the `entries` of a section,
  `relocate`, `inits`, `final` relocation, `loaded`), and `main` after a failure
  (`failed`, `free`).  `abort` and `segv` are crashes: after a short read
  `FREE_LOADING_PACKET` frees the value a second time; without memory, a name may
  be NULL when it is compared, and counts are set for tables that do not exist.
  A packet is one message with a field `lacks` for the read that will fail on it.
  `nb_modules` and `modules` are those of `ProgramTables`, as variables; an entry
  of a section is a step.  The watched run of an initialiser is one step of both
  processes, since no answer is preloaded at that time.
* `ModuleImage`: the tables of a module as `picon-prelink` packs and `monitor_load`
  reads them, and the reference `WellFormed`: what tables have to be like.
  `CompilePass` is proved to produce such tables, `MonitorLoad` to refuse others.
* `MonitorLoadTables`, `MonitorLoadProofs`, `MonitorLoadResolution`,
  `MonitorLoadContents`: the proofs about it; the first has the lemmas about packets
  and tables, the second the invariant, a lemma per action and theorems, the third
  what relocation finds, the fourth what the tables contain.
* `MCMonitorLoad`: a library and a program that call each other, three modules
  two of which define the same function, a program on its own, seventeen with one defect
  each, and one with a table longer than `PIPE_BUF`.
* `CFIPolicy`: the abstract promise: one stack of frames, one block per frame.
* `MonitorRun`: one call of `monitor_run`.  `pc` is the place in the loop:
  `start` (allocate the stacks), `wait` (timeout and read), `dispatch` (the
  switch), `answer` and `lastanswer` (write), `exit` (returned `error`), `segv`
  (a `NULL` row was dereferenced), `forgotten`.  The actions carry the names of the
  events.  A read that fails sets `error`, which is looked at only after the next
  answer, so the switch runs on whatever is in the buffer `sig`: uninitialised at first
  (`Init` takes any packet for it), the previous signal when nothing came (`ReadFails`),
  or a mixture of a packet that was too short and the signal before it (`ShortRead`).
  The history variable `failure` tells the last two apart.  A push is skipped while
  `error` is set, unless the array is full: then the result of the extension replaces
  the error and the loop goes on (`ForgetsError`); the model ends there.  picon's own
  client writes whole packets, and a packet pipe does not split them, so short packets
  come from a client that does not keep to `send_monitor`.  `blocks_sp` is an
  index into `blocks`, as the C pointer is.  The trace printed on errors is left
  to `GrowingStacks`: here its pushes and pops cancel out and the run is over.
* `MCMonitorRun`: a program of two modules for TLC, with recursion, a call across
  modules, a call back, a loop, a function without block protection and a
  constructor.
* `MonitorRunProofs`: the proofs about `MonitorRun`.
* `SignalChannel`: client and monitor as processes, with the two pipes.  A signal
  is reduced to what `monitor_run` will find it to be: accepted (`mid`), accepted
  and the end of the run (`last`), refused (`bad`), or a `NULL` row (`null`);
  as long as reads succeed `MonitorRun` is deterministic, so this depends on the
  signals alone.  The
  history variables count signals and answers for the properties.
* `SignalChannelProofs`: the proofs about it.
* `GrowingStacks`: the two stacks as arrays, with `realloc` that may extend in
  place, move, or fail.  A pointer is an allocation and an offset; comparing
  pointers into two allocations may come out either way.  With tracing, jumps push
  to the block stack, and `ErrorExit` is the end of `monitor_run` that pushes the
  current place, walks both stacks from top to first and frees them.
  `MCGrowingStacks` gives the arrays sizes of one and three instead of 512 and
  4096, so that they grow at different times.  `GrowingStacksProofs` has the proofs
  for every size.
* `Bitcode`: functions and blocks as the pass reads them, and what it computes from
  them: callees, lines of the block graph, immediate post-dominators.  `Ipdom`
  follows the pairwise search of `writeIPDOMToFile` with the behaviour of LLVM's
  tree on blocks that never reach a return; `ImmediatePostDominator` is the
  reference it is compared with.
* `CompilePass`: one `opt` job per source file and then `picon-prelink`.  `pc[u]` is
  where the job of unit `u` is: `waiting` for the lock, `locked`, `identified`,
  `callgraph`, `transitions`, `rewriting` (`.fctid` is truncated), `ids`, `ipdom`,
  `unlocked`, `done`, or `failed` and `killed`.  There is one action for every file
  written.  A kill drops the lock and keeps the files.  A file to which jobs append is
  the sequence of what each appended.  `harm` records disturbances after which no
  promise can be kept: `torn` (killed between truncating and writing `.fctid`),
  `unlocked` (the lock could not be had and, because the assertions in
  `CFIModulePass.cpp` are inverted, the job went on), and `dangling` (killed after
  appending lines with identifiers it did not get to record), after which only
  superfluous lines are possible.
* `CompilePassProofs`: the proofs about the lock, the identifiers and the tables.
* `MCCompilePass`: three files that call each other, with a constructor, a
  destructor, an annotation, ignored functions and an intrinsic; two files the pass
  refuses; two files with a static function of the same name.
* `Instrument`: the program after the injector, running against `MonitorRun`.  The
  injector's passes are operators on sequences of instructions, composed in the
  order of `InjectCode`; the program executes the result frame by frame, with
  any choice at a branch, and the monitor's steps are the actions of `MonitorRun`.
* `MCInstrument`: a program with a loop, a switch, recursion and functions with and
  without block protection, and a library that calls it back; a program with an
  endless loop.  It derives `MonitorRun`'s tables from the source with the
  operators of `Bitcode`.

Definitions whose names end in `_Something` and are described as mutants are
deliberately wrong variants; substituting one for the definition after it makes
a property fail, which shows that the property depends on that code.

## Runs

| run | what it shows |
|---|---|
| `monitor_run` | every property of `MonitorRun`, without tracing, with timeouts, failed and short reads: 149k states |
| `channel` | the safety and liveness properties of `SignalChannel` with n = 2 preloaded answers, pipes of 2 packets, 2 runs, timeouts, allocation failures, and a client that may do anything |
| `channel_conforming` | n = 0: a program that keeps to its graphs is never killed, the monitor returns 0 |
| `stacks_in_place` | the C stacks are the sequences of `MonitorRun` as long as `realloc` does not move them, with traces and through the error exit: 262k states |
| `stacks_move` | after a move `top` points into freed memory (violation) |
| `stacks_no_memory` | the failure of one push is overwritten by the success of the next (violation) |
| `loading` | loading with a client that may die between any two writes, failing allocations and refused initialisers: the tables are sound and each module's own, only complete and well-formed programs are loaded, externals are resolved, both sides count the same initialisers, freeing is safe, neither process outlives the other, and every proper program whose tables fit the pipe is loaded unless one of these faults comes in between: 121k states |
| `loading_too_long` | a proper module with a table of more than `PIPE_BUF` bytes is refused, because the packet pipe splits it (violation) |
| `compile` | three jobs in any interleaving at both protection levels, with one kill, one repeated compilation or one failed lock at any point: identifiers agree, no edge and no block's post-dominator is lost and no call invented, entry points are called once, the loader will accept the tables, every job ends: 102k states |
| `compile_static` | of two static functions with one name only one keeps its calls in the tables (violation) |
| `instrument` | every path of a two-module program, with two preloaded answers and tracing: all signals are accepted, the monitor's stack is the program's, the trace holds exactly the passed blocks that could not be avoided: 18k states |
| `instrument_loop` | a function whose last block loops announces its exit in every round and is killed (violation) |

The five violations are findings in `PROJECT.json`, each with the line of the
documentation or code it contradicts.

Bounds.  `MaxCalls` and `MaxBlocks` limit what the client sends, not what the
monitor does: in `MonitorRun` three nested calls cover recursion, a cross-module call and a call
back.  Tracing of `MonitorRun` is covered by the theorems, which hold for both
values of the option, and by `instrument`.  `Signal` holds every
packet over the identifiers of the program and one beyond, so every comparison
is met on both sides.  Pipes of two packets fill and drain; `MaxSignals` lets the
client send more than both pipes and the preloaded answers hold together.  In
`channel` n is within the answer pipe's capacity: with more answers to preload the
monitor blocks in a write that has no timeout, and `SilentClientKilled` fails.  For
n between C and 2C `NoBlockingTheorem` still excludes mutual blocking; with n above
2C the monitor blocks on the full answer pipe before it has read anything while
the client blocks on the full signal pipe.  The theorems do not depend on any of
these numbers.

In `GrowingStacks` `MaxDepth` calls and `MaxBlocks` blocks grow each array at least
once, up to three times for calls; `MaxAllocations` bounds the moves.  In
`CompilePass` `MaxRepeats` bounds kills, repeated compilations and failed locks
together; one is enough to put it between any two steps of the three jobs.  In
`Instrument` `MaxCalls` bounds the nesting: at the bound the program stops before
its next call, which `RunEnded` admits, so that the deadlock check still finds a
client and a monitor that wait for each other.

In `MonitorLoad` a pipe of two packets lets the constructor run ahead of the
monitor and block; three modules are enough for a name that is defined twice and
used in a third; the broken programs meet each comparison of the section
handlers at the boundary value.  `ImageAssumption` records what is taken for
granted: the pass does not repeat function identifiers, and the constructor of
the module with `main` is the last to run (a module loaded later with `dlopen`
would wait for its identifier for ever).

Fairness.  `SignalChannel` assumes weak fairness of the monitor's steps and of
the client's reads, writes and aborts: the kernel schedules both processes and
completes a system call that can proceed.  Nothing is assumed of the program's
own code: it may compute for ever between two signals, and `Send` and
`ClientExits` are not fair.  `MonitorLoad` assumes the same of both processes and,
in addition, that initialisers return; a program whose initialiser does not is
not loaded, and need not be.  `CompilePass` assumes that the kernel runs each job and
grants a lock that is free; that a killed job is started again is not assumed.
`Instrument` checks safety only and assumes no fairness.  With the timeout feature
the clock is part of the
monitor's steps: a `pselect` that sees nothing for long enough returns.

`CHECK_DEADLOCK FALSE` is used where the modelled function returns (`MonitorRun`)
and where undefined behaviour ends the model (`GrowingStacks`).

## Proofs

The theorems hold for every value of the constants: any program, any number of
source files, any pipe size and array size.  What they assume:

| assumption | what it says | why the code justifies it |
|---|---|---|
| `TablesAssumption` (`MonitorRun`) | the tables are `TablesSound` | `TablesTheorem` proves exactly this of `MonitorLoad` at each call of `monitor_run` |
| `RunAssumption`, `ChannelAssumption`, the size assumption of `GrowingStacks` | types of the constants | |
| `ImageAssumption` (`MonitorLoad`) | the entries of a module's tables are unsigned integers, names and flags, the pass does not repeat a function identifier, the module with `main` is constructed last | `shared.h` gives the fields these types; `IdentifiersTheorem`; constructors of libraries run first |
| `BuildAssumption` (`CompilePass`) | within one source file function names differ | LLVM keeps one function per name |
| `BitcodeAssumption` (`CompilePass`) | jumps lead to blocks of the function but never to its entry, and who is called by name is declared | LLVM's verifier refuses bitcode that is otherwise |

TLC evaluates all of them.  Hypotheses of single theorems are named below.

*MonitorRun.*  `IInv` is inductive: types, `Control` (which error codes and
states go with which `pc`; an empty stack while `Ready`; and that the buffer
holds the signal that led to the current state, until a read brings something),
`Shape` (layout of the stacks, places, rows, the entry point at the bottom, and one
block per call without tracing) and `Endings`.  `Control` is needed because the
handlers run on the buffer after a failed read.  When it is stale, no handler accepts
its own signal in the state it leaves behind, which is what `SigMatchesState` records.
When it is torn, the handler may accept what is in it, with `error` set: a CALL then
pushes nothing although it moves on to its target, so what relates stacks and current
function is claimed only as long as no signal of a failed read was accepted
(`Regular`).  It is enough, because `FailedReadEndsRun` says that no other signal is
read.  `StackLayout` is needed for the return: popping to a saved pointer must leave
the entries of all the callers below.  From `IInv` follow seven of the invariants of the
run.

*Refinement.* `MonitorRunProofs` proves `Spec => ImplementsPolicy`: the suspended
callers with the blocks their saved pointers lead to, and the current function on
top, are the frames of `CFIPolicy`, and each step is a policy step or a stutter.  For
the policy a run has failed as soon as `error` is set: what a handler still does with
the buffer of a failed read is no step of the policy.  `ChainTheorem` carries the
invariant of the abstract stack over: each suspended caller may call the function
above it.

*SignalChannel.*  The books of the protocol (answers written, in the pipe and
consumed; signals sent, in the pipe and read) form the invariant of
`BooksInvariant`; `LagTheorem` and `ContainmentTheorem` follow for every n and
every pipe size, `NoBlockingTheorem` under n <= 2C.  `ConformingTheorem` assumes
n = 0, no timeout and enough memory: with preloaded answers the program may end, or
be refused, before its last signals are read, with a timeout it may be too slow.

*GrowingStacks.*  Under the hypotheses `~ReallocMoves` and `~ReallocFails` (the runs
`stacks_move` and `stacks_no_memory` show what happens otherwise) the invariant of
`StacksInvariant` ties the arrays to the sequences: `top` and `last` are in the
allocation, the entries up to `top` are the stack, and saved pointers point into the
block array at or below its top.  `CoherenceTheorem`, `NoWildTheorem` and
`PopTheorem` follow, for all values of `EXTEND_SIZE`.

*MonitorLoad.*  None of the properties of loading is inductive.  `LoadInv` adds what
the processes know of each other:

* `InStep`: the monitor has read the first `r` packets of module `nb_modules`; the
  pipe holds the packets after those, and behind the last one at most the BEGIN of
  the next module, because the constructor waits for its identifier after BEGIN.
  Without this a section could be taken for one of another module;
* `ControlInv`: which packet the monitor is at in each of its states;
* `TablesTyped`: every table has the length its count says and rows of identifiers
  in range, and relocations lead to functions that exist.  It holds after an error
  too, as long as memory has not run out, since `monitor_data_free` runs then;
* `FunctionsInv`: how many functions of each module have been filled in, with which
  flags and names, and that initialisers are counted right;
* `Owed = Expects`: the initialisers the client will still call are as many as the
  monitor still expects, wherever the two are.

From `LoadInv` follow `TypeTheorem`, `TablesTheorem` and `InitsTheorem`.
`FreeTheorem` needs in addition that the distinct identifiers of n functions, all
below n, are all of 0 to n - 1 (a pigeonhole argument), so that no name is missing
when names are compared; its hypothesis is that `NULL` is not a function, so that a
table can be told from a missing one.

`ResolvedTheorem` (in `MonitorLoadResolution`) adds `ResolutionInv`: the module whose
initialisers run is resolved as far as modules are known, and the final pass leaves
the modules before `i` resolved with nothing open.  The search order, from the last
module down and within a module from the first function up, has a first match
whenever there is one at all (a least element of a set of naturals, from the
well-foundedness of `<`), and it lies in the last defining module.  A pass over one
module changes only that module's relocations and no name or flag, so what was
resolved stays so.

`IdsTheorem` and `ProperTheorem` (in `MonitorLoadContents`) say what the tables hold:
exactly what the constructor sent, and only what the reference accepts.  `ContentsInv`
follows the monitor through the sections: when it is at entry `c` of packet `r` of a
module, the module's call graph, block graphs and post-dominators are those of the
packets before `r` and of the first `c` entries of `r`, nothing else is in them, and all
these entries passed the checks of their handlers.  That nothing else is in them is
needed for the checks themselves: a function that occurs twice among the callers, or has
two block sections, is found by the row or the block count that the first one left, so a
row has to be known to be missing as long as no entry was about it.  A later
post-dominator of the same block replaces the earlier one, so of each block only the
last counts.  `IdsInv` adds that the k-th constructor was given k - 1, which is the
module its packets went to.  For `ProperTheorem` the complete tables are compared with
`WellFormed`, by the pigeonhole argument once more and by each handler's range checks,
and `ResolutionInv` gives the definitions in other modules that `Complete` asks for.
Both theorems take `NULL` to be no set of numbers: a missing row differs from every row.

*CompilePass.*  `CompileInv`: as long as no job went on without the lock or was
killed while it rewrote `.fctid`, the job that holds the lock is the only one between
lock and unlock (`Exclusion`); `Table`, the contents of `.fctid` or, while it is
rewritten, the copy in memory, numbers its functions from 0 on without gaps
(`Numbers`); the holder knows the identifiers of `Table` and continues them
(`KnowsAll`); and the identifiers in finished code are those of `Table` (`InCode`).
That the new identifiers leave no gap is `NumberingGoesOn`, from `Ranks`: counting the
smaller elements numbers a finite set.  `ExclusionTheorem`, `IdentifiersTheorem` and
`AssertionTheorem` (the debugging assertion of `writeFunctionIDs`) follow.

The theorems about the tables need four more invariants.

* `FilesInv`: every line of `.trans`, `.bbtrans` and `.ipdom` is exactly what some unit
  writes, under the identifiers of `Table` or under those that the unit knows and has yet
  to record; a unit that is done has recorded what it knows; and when `picon-prelink`
  has run, all units are done and the image is packed from the files as they are.  Lines
  under identifiers not yet recorded are why a kill before `writeFunctionIDs` leaves
  lines that dangle (`harm`).
* `KeptInv`: what is read back for a function of a unit, from the last line about it, is
  what the unit wrote; and as long as nothing was compiled again, no function has two
  lines of blocks.  It needs `OneDefinition`: no two source files define functions of
  the same name, which two static functions may (the run `compile_static`).
* `IpdKept`: a job that has written its post-dominators has a line in `.ipdom`, under
  the identifiers it knows.  Every line of that file counts, so it need not be the last.
* `FlagsInv`: a function is `External` until a unit that defines it has been recorded, and
  from then on has the flags that unit gives it.  It needs `EntryPoints`: constructors and
  destructors are functions their unit defines, and `main` is none of them and is defined
  in the module when it is declared there.

`NoFalseTheorem` follows from `FilesInv` alone.  `EntryTheorem` takes `OneDefinition` and
`EntryPoints`.  `AcceptTheorem` takes `OneDefinition` and `SomeFunction` (the module has a
function): the packed tables are compared with `WellFormed` part by part, the identifiers
by counting, blocks and post-dominators by their origin in a unit.  `IpdomsTheorem` takes
`OneDefinition` and says that every block of every function has an entry among the packed
post-dominators and that all its entries have what `writeIPDOMToFile` found for it: the
order in which `parse_bb_ipd` lists its lines is the lexicographic one, `RanksOf` shows
that its numbers go up to the number of lines, and `RanksDiffer` that no line is passed
over.  `EdgesTheorem` adds the calls and jumps, from `KeptInv`.  Its second hypothesis,
`IpdomsRight`, is only about the values: that what `writeIPDOMToFile` finds for a block
from which a return can be reached is the immediate post-dominator of the reference.  For
the files of the run `compile` TLC evaluates that all four hypotheses hold
(`SeveralFilesAreProper` in `MCCompilePass`), so the theorems are not empty for them.

Together with `ProperTheorem` this ties the two ends: what a build produces is what the
loader's checks let through.

Only model-checked:

* liveness (`JobsEnd`, `RefusalEndsClient`, `MonitorFollowsClient`, `FittingLoads` and
  the liveness properties of `SignalChannel`): beyond the prover;
* `IpdomsRight`, the hypothesis of `EdgesTheorem`: the search of `writeIPDOMToFile` is a
  fold over the successors of a block, and what a fold computes for every input needs
  induction over data.  TLC compares it with the reference on the functions of the run
  `compile`, and `TraceIsInevitable` of `instrument` depends on it;
* the properties of `Instrument`: the injected code is put together by `FlattenSeq` and
  `SelectSeq`, and what these return needs induction as well.

## Not modelled

* Text output: logging, the dot dump, the wording of traces, `DebugPrintRT` and
  `IdentifyBB`, which only prints.  Debian packaging and the examples.
* `injectForkSon` and with it `fork` in the program: the injector never calls it.
* In the pass: casts of LLVM constants that fail, files that cannot be opened, a
  write that is cut off within one file other than `.fctid`.  All units of a module are taken to be compiled
  with the same prefix, as the README of picon asks, and with the same `-cfi-level`
  and ignore file, as its examples do.
* A function in the ignore list that calls back into instrumented code: its callee
  would send ENTER without CALL.  The ignore list is for functions that were not
  compiled with the pass; those of the models return without calling.
* Environment checks, pipe creation and fork of the monitor, and a failing
  `mask_sigpipe`: they come before anything concurrent, and the last cannot happen.
* The byte layout of the loading packets: writer and reader use the same packed
  structures, so sequences of records take their place.
* Modules loaded with `dlopen` after `main` has started (`ImageAssumption`), and
  threads of the program, which would share the buffer `_cs` and the pipes.  The
  protocol supports neither; both are hazards without a property.
