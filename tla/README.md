# CUDAsmith in TLA+

CUDAsmith (`src/`) is a fuzzer for CUDA compilers: it writes random kernels that
are meant to be *valid* and *deterministic* (`src/README.md:4`), so that two
compilers that disagree on a kernel's result reveal a bug. It is Csmith (a random
C generator, `src/CUDAsmith-src/src`) with CLsmith's parallel statements ported to
CUDA (`src/CUDAsmith-src/src/CUDASmith`).

Determinism is easy to promise for one thread and hard for a group of threads
that communicate. This project therefore has two halves. The first is about the parallel
statements: what the generator plans, and what all the threads of a group then do
with it, under every schedule. The second is about the generator: how a program is
drawn, built statement by statement, analysed, pruned and given barriers, and the
sources of random choices, which must find every program and rebuild a saved one.

## Inventory

### The parallel part (`CUDASmith/`)

| component | state | operations | interacts with |
|---|---|---|---|
| **Message passing, generator** (`StatementMessage.cpp`) | `nodes_`, `sb_graph_`, `nodes_order_`, `nodes_async_`, four flag counters, `unlock_map`, `end_checks_` | register a node, draw the order, make each node's wait, update and signal | the threads of the kernel, through the code it writes |
| **Message passing, kernel** (written by `StatementMessage::Output`, `Message::OutputEndChecks`) | four flags and the fields of a message in local memory; each thread's position | spin, break early, unlock for a skipped node, update, signal, end checks | threads among themselves |
| **Barriers** (`StatementBarrier.cpp`, inside `StatementComm`, `StatementAtomicReduction`) | arrival of the group's threads | `__syncthreads()` | every statement that waits |
| **Inter-thread communication** (`StatementComm.cpp`) | permutations, `tid`, one element per thread of two buffers | hand elements round at a barrier, read and write one's element, hash | the rest of the program, which uses the elements as variables |
| **Grid** (`CUDAProgramGenerator.cpp`, `CUDA.h`) | `globalDim`, `localDim`, `noThreads`, `noGroups` | draw the dimensions, count, linear identifiers | sizes and indices of every buffer |
| **Atomics** (`ExpressionAtomic.cpp`, `StatementAtomicResult.cpp`, `StatementAtomicReduction.cpp`, `StatementIf.cpp`) | free counters, stack of block variables, `atomic_blocks`, the context flag | claim a counter for a block, collect its variables, reduce between barriers | contexts of the Csmith core |
| **EMI / true-guard sections** (`StatementEMI.cpp`, `StatementTG.cpp`) | the sections, statement trees | prune: delete leaves, delete compounds, lift their bodies | random numbers, `Block::remove_stmt` |
| **Walker, divergence** (`Walker.cpp`, `Divergence.cpp`) | position in nested blocks; divergence of variables | advance, skip; propagate divergence; place barriers | facts and points-to sets |
| **Statement choice, options** (`CUDAStatement.cpp`, `CUDAOptions.cpp`) | the options | pick a statement, refuse it in some contexts, `Conflict` | all of the above |
| **Globals, buffers, entry** (`Globals.cpp`, `MemoryBuffer.cpp`, `CUDAOutputMgr.cpp`) | lists of variables and buffers | declare, initialise, hash | text output |
| **Launcher** (`cuda_launcher.c`) | device buffers | allocate, launch, compare | CUDA driver |

### The Csmith core

| component | state | operations |
|---|---|---|
| **Random numbers** (`DFSRndNumGenerator.cpp`, `DefaultRndNumGenerator.cpp`, delta sequences) | a stack of choices, kept across runs in exhaustive mode | choose, filter, backtrack; record and replay |
| **Contexts and effects** (`CGContext.cpp`, `Effect.cpp`) | what was read and written, flags | add, merge, forbid |
| **Facts** (`Fact*.cpp`, `FactMgr.cpp`) | points-to and union facts at each statement | join, transfer, save and restore round branches and loops |
| **Functions, blocks, statements** | the program tree, the list of functions to generate | generate, analyse to a fixpoint, delete |
| **Types, qualifiers, variables** | types, scopes | match, choose, create |
| **Probability tables, safe arithmetic, options, reducer, output** | tables | look up; wrap |

### What is hard

* *Interleavings*: a message node is up to five flag accesses, and every other
  thread may be unlocking, checking or signalling in between.
* *Skipped, repeated and reordered nodes*: control flow decides which nodes a
  thread reaches. The generator does not know, and the kernel must neither hang nor
  update twice.
* *Reuse*: four flags serve any number of steps. A stale value must not match.
* *Waiting twice*: message nodes and barriers both wait, for different things.
* *Evaluation order round a barrier*: what is read after it belongs to someone else.
* *Position and vector while pruning*: statements are moved in the vector that is
  being walked.
* *Facts that outlive their reason*: they are noted down while a program grows, and jumps
  into what is already analysed, second rounds of loops and deletions change it later.
* *Backtracking state across runs* in the exhaustive generator.

`PROJECT.json` lists each of these as a hazard at its line.

### What makes each component correct

* Message passing: a drawn order that each thread can follow; at most a pair of
  nodes updates at a time, and never one field; the updates are those of the drawn
  order, each once; nobody spins for ever.
* Barriers with message nodes: the kernel returns.
* Communication: one owner per element; the result does not depend on the schedule.
* Grid: limits kept; groups tile it; identifiers are one to one.
* Reductions: what is read between the barriers is what all threads of the group
  have added, and nothing of the next reduction.
* Atomic blocks: a block is entered once; which thread enters does not show in the
  result.
* Program building: each statement in one place; no barrier in an atomic block,
  which one thread enters, and nothing that leaves it; every jump lands.
* Pruning: what remains is the program the draws describe, each statement once, and
  as many random numbers are drawn whatever they show.
* Facts: what is known of a pointer at a statement covers what it holds there in every
  run, and no jump passes the initialisation of a local.
* Walker: every statement once, in the order of the text, from any start.
* Divergence: what threads may reach differently is marked, and no barrier is put there.
* Random choices: the search writes every program once and then ends; what is recorded
  rebuilds the program, whichever generator made it.

## Modules

| module | models | composed of |
|---|---|---|
| `MessageOrdering` | the generator's half of message passing | |
| `MessagePassing` | the kernel's half | extends `MessageOrdering`, instantiates `MessageDAG` |
| `MessageDAG` | the promise: an order of steps, one after another | |
| `MessageBarrier` | message nodes and barriers in one straight-line program | extends `MessagePassing` |
| `InterThreadComm` | communication statements | |
| `RuntimeParameters` | the grid and the identifiers | |
| `AtomicReduction` | atomic reductions | |
| `AtomicBlocks` | atomic blocks, their counters and special values | |
| `RandomChoices` | the four random-number generators and the loops around the builder | |
| `ProgramGeneration` | blocks and statements: making, jumping, deleting, finishing | |
| `SectionPruning` | pruning of EMI and true-guard sections | extends `ProgramGeneration` |
| `FunctionWalker` | the walk over nested statements | extends `ProgramGeneration` |
| `Divergence` | divergence analysis and barrier placement | extends `FunctionWalker` |
| `PointerFacts` | what is known of pointers while a program is built | extends `ProgramGeneration` |
| `GeneratorPhases` | `goGenerator`: its steps in order, as far as they change the program | extends `SectionPruning` |
| `ProgramGenerator` | `goGenerator` with all it computes | extends `GeneratorPhases`, `Divergence` and `PointerFacts` |
| `MCMessageBarrier`, `MCRandomChoices`, `MCProgramGenerator` | constraints and instances for TLC | |
| `MessageOrderingProofs`, `InterThreadCommProofs`, `RuntimeParametersProofs`, `AtomicReductionProofs`, `AtomicBlocksProofs`, `RandomChoicesProofs` | theorems | extend their module and `TLAPS` |
| `MessagePassingProofs` | theorems about the kernel's half of message passing | extends `MessageBarrier` and `MessageOrderingProofs` |
| `ProgramGenerationProofs` | theorems about the program while it is built and pruned | extends `GeneratorPhases` |

Operators with a suffix (`Lock_NoFlipCheck`) and the comment *Mutant* are what a
plausible bug would have made of the definition below them. No specification uses
them: `PROJECT.json` pairs each with a property that fails if it is put in place.

### State and actions against the code

**MessageOrdering.** `nodes` is `nodes_` (a node is its index, with its thread as
value); `left[t]` is `sb_graph_[t]` from the iterator of thread `t` to the end;
`order` and `async` are `nodes_order_` and `nodes_async_`; `wait`, `unlocks`,
`endChecks` are what `MakeWait` has built, `unlock_map` and `end_checks_`; `flag`
holds `flag1` to `flag4`. `RegisterUpdate` is `StatementMessage::make_random`;
`PickNode`, `PickPair` and `StopPicking` are the three ways through an iteration of
the picking loop (`StatementMessage.cpp:136`); `PlanStep` is an iteration of the
planning loop (178). Random draws become nondeterminism: weights are dropped,
entries of weight 0 (threads without nodes left) are excluded.

**MessagePassing.** `pc[t]` is a thread's place in the code written out. One step
is one access to shared memory. `Visit` reaches a node, in any order and any
number of times, `Return` ends `func_1`: together they stand for every control flow
of the random program. `ReadEarly`, `ReadUnlock`, `SetUnlock`, `ReadCheck`,
`LoadField`, `StoreField`, `Signal`, `ReadBreak` follow the text of `MakeWait`,
`MakeUpdate`, `MakeSignal` and `OutputEndChecks`. A condition may read its flags in
any order, because the code prints a `std::set` of pointers. Memory is
sequentially consistent: each wait starts, and each signal ends, with a fence.
`message` keeps, for each field, the sequence of nodes that updated it, so that any
lost, repeated or reordered update shows. `due` is history: the nodes that control
flow has made a thread run, in an order that registration allows.

**MessageBarrier.** The nodes stand in the text in the order they were registered,
with a barrier in front of some. `Sync` is `__syncthreads()`. `RunText` is a
thread's step of `MessagePassing`, with control flow cut down to top to bottom.

**InterThreadComm.** A program is a sequence of writes and reads of the element and
of communication statements, the same for all threads (`CUDAOptions::Conflict`
excludes divergence). `l_comm_values` and `g_comm_values` hand over together and are
one array. `RowSources` says what `rand_expr` may be made of.

**AtomicReduction.** `text` is the sequence of reductions the threads of a group run,
one after another. A reduction is three places, `atomic`, `collect` and the barriers
`first` and `second` behind them; `init` and `entry` are the kernel's prologue, in
which thread 0 sets the local buffer to 0 (`MemoryBuffer::OutputDef`). `location`
holds `l_atomic_reduction` and the group's element of `g_atomic_reduction`,
`collective` each thread's `v_collective`. The value of `expr` is abstracted to a
constant; threads contribute different values through `get_linear_global_id()`.

**AtomicBlocks.** While all threads are at `generating`, `Claim` makes the condition of
one block after another (`ExpressionAtomic::make_condition`); `free_counters` and
the blocks are the generator's. Blocks do not nest, because `StatementIf::make_random`
makes none in an atomic context. `Launch` starts the kernel; `path[t]` is what
control flow makes of the blocks for thread `t`, the same under every schedule.
`Test` is the condition, one atomic operation; `RunBody` and `AddResult` are the block.
A block may have message nodes as well. Which thread enters then decides what
updates the message gets; no hash shows it, since `HashGlobalVariables` goes over the global
variables, of which the message is none.
`input` and `special` are the two pairs of buffers (a global one is the part of group
0, the only one that is hashed). What a block computes from its own variables is the
constant `Result(b)`; what it may change beyond them is its `body`.

**RuntimeParameters.** `loop` and `i` are the position in the three loops of
`InitRuntimeParameters`. The identifiers are those of `CUDA.h`.

**RandomChoices.** Building a program is a deterministic function of the values drawn,
so the builder is a tree, `tree`, made up while it is walked: after the values `path`
it draws (below a bound, through a filter, behind a depth guard) or ends. `states`,
`decision_depth`, `current_pos`, `all_done` are the members of `DFSRndNumGenerator`;
the branches of `random_choice` are the actions `EagerBacktracking`, `TooDeep`,
`Revisit`, `SwitchBranch`, `FirstVisit` and `DebugChoice`. `DefaultChoice` and
`DeltaChoice` are the other generators, `HandOver` is `switch_to_default_generator`;
`FinishExhaustive` and `FinishRandom` are what `goGenerator` does at the end of a
program, `StartDebug` and `StartDelta` a new process that is given what an earlier one
has saved.

**ProgramGeneration.** A statement is its number in the order of creation, `node` its
record. Block `s` is the first block of statement `s`, `-s` its second, 0 the body of
`func_1`. `prog` holds what can change afterwards: the statements of each block, the
deleted ones, parents, goto edges, the blocks of functions. `stack` holds the blocks
being filled with the flags of their `CGContext`. `Leaf` and `Open` draw a statement
(`Statement::make_random`; `Allowed` is what `StatementFilter`,
`CUDAStatement::make_random` (`RefusedCUDA`) and the filter of calls let through; "sync" stands for the
two statements with a barrier of their own, "message" for message nodes, which are let
through anywhere), `BackwardGoto` and
`ForwardGoto` are the two ways through `StatementGoto::make_random` (`iv_bounds` has an entry
for every loop, so that `in_array_loop` keeps gotos out of all of them), `FailAnalysis` is
the truncation of a block whose analysis fails (in programs without pointers, at any
statement of a block that is analysed again), `Close` ends a block. `RemoveStmt` is
`Block::remove_stmt`; `Sources` are the gotos it takes along, those to the statements it
deletes and, again, those to such gotos. `Nest`, `Within`, `Below` and `MustReturn` go round or
into blocks as the code's recursive functions do, and are recursive functions here.

**SectionPruning.** `prune` is the call stack of `PruneBlock`; a frame has the lists of
what is to be deleted and lifted. `PruneLeaf` and `PruneCompound` flip the coins,
`PruneInside` calls itself for the blocks of a compound, `PruneEnd` returns. An EMI
section applies its lists at the end of a block, a true-guard section whenever a
compound is lifted, inside the loop over the statements. `live` is the set of blocks
some loop holds an iterator into, and `undefined` records that the vector of one of
them was changed: nothing is said of such a program.

**PointerFacts.** `facts` is the fact manager of `func_1`: `now` is `global_facts`, `in`,
`out` and `visited` are the maps, `back` and `round` the backward edges of gotos and of loop
bodies to themselves; `entry` are the facts a block was opened with, a local of `make_random`
in the code. A fact is the set of what a pointer may point to, null and garbage included.
Each action is one of `ProgramGeneration` with what it does to the facts:
`LeafWithFacts` is drawn only if the facts allow it and notes them down
(`post_creation_analysis`), `CloseWithFacts` combines branches or comes out of a loop,
`ForwardGotoWithFacts` tries out what its jump brings to the destination, and
`ForwardGotoFails` is the attempt given up. `AnalysisFails` is `FailAnalysis` at the statement at which
`FindFixedPoint` really fails. `VisitFacts`, `AnalyzeWithEdgesIn`, `VisitAll` and `FindFixedPoint` call
each other as the functions of these names do. A program is a "move" between pointers, from
null or from the address of a local, a "use" of what a pointer points to, and control flow;
the pointers are global and point to a global at first. `Run` is what runs of the finished program come
to, every condition open. Effects are left out, and with them the failures for
conflicting ones; so is the assertion that a fixed point takes at most eight rounds.

**FunctionWalker.** A walker is a record of levels (a block, the statements left, the
branches not yet entered) and how many blocks the last step entered and left.

**Divergence.** The analysis is sequential code over shared maps, so it is a function
from a record (named like the members of `FunctionDivergence` and its saved states) to
the record it ends with. It is computed twice: as it is, and (`repaired`) with every
lookup finding the entry that holds; where the two differ the program is in a `KnownGap`.
What threads really do is `Counts`, a direct evaluation of the program.

**GeneratorPhases.** `phase` is the step of `goGenerator`: generate, track divergence,
prune EMI sections, prune true-guard sections, done. `PhaseSpec` is what happens to the
program in these steps, with no regard to divergence and pointers.

**ProgramGenerator.** The same steps, with divergence tracked after the program is generated and
barriers placed at the end. In programs with pointers the facts decide what may be drawn
and where an analysis fails. Its steps are steps of `PhaseSpec` (a property of the run `generator`): what
is true of every program of `PhaseSpec` is true of these.

## Runs

| run | instance | shows |
|---|---|---|
| `ordering` | 4 threads, 5 nodes | the order and the constraints are right for every registration, order and pairing |
| `passing` | 2 threads, 3 nodes, 1 field, 2 visits, fair | mutual exclusion, determinism, refinement of `MessageDAG`, with skips, repeats and reordering; kernels return, those with barriers if these agree with the order |
| `barrier_deadlock` | 2 threads, 2 nodes | **violated**: a node before a barrier waits for one behind it |
| `parameters` | 24 threads, groups of at most 8 | limits, divisors, tiling, identifiers |
| `comm` | 3 threads, 2 permutations, 3 statements | one owner per element, determinism |
| `comm_cell` | 2 threads, `rand_expr` reads the element | **violated**: the result depends on the schedule |
| `reduction` | 3 threads of group 1, 2-bit words, 2 reductions, fair | no plain access competes with another; thread 0 collects what a sequential run would; all threads come to the same barriers |
| `atomic_blocks` | 2 threads, 2 blocks, 2 counters, 2 visits a thread | a block is entered once; hashes do not depend on the schedule |
| `atomic_array` | 2 threads, 1 block with an array initialisation | **violated**: whose array is set depends on the schedule |
| `choices` | depth 3, up to 3 values a draw, fair | the search writes each program once and skips none; what is recorded rebuilds it; every process ends |
| `generator` | 4 or 5 drawn statements, twelve languages | blocks, jumps and sections are well formed; pruning does what its coins say; walks; divergence and barriers; facts of pointers cover every run; the refinement of `PhaseSpec` |
| `emi_entered` | 4 statements | **violated**: a goto leads into an EMI section |

### Bounds, and why they are enough

* `MaxNodes`: five nodes on four threads give every shape of four steps in a row
  and a pair with steps before and after it. The constraints of a step depend on
  the step before it and on the set of flags in use, so a longer order repeats these
  shapes with larger counters.
* Kernel runs use three nodes, one before and one after another, or a pair and one
  more. `MaxVisits` = 2 lets each thread skip, repeat or reorder its nodes. With two
  threads every set of flags is used and used again.
* `Fields`: the properties compare one field with itself, so one is enough.
* `Plans` keeps to one of each class of plans. Threads are told apart only by the nodes
  they own, so node 1 is thread 0's. Where there are barriers, only plans that agree
  with them are run (the others are `barrier_deadlock`), and, since only waiting is in
  question, the node of the order updates no field, which leaves all of them to its partner
  if it has one, and no thread has more nodes than visits. So pairs meet barriers too.
* `InterThreadComm`: a write, a communication and a read, or two communications,
  fit in three statements. Three threads have permutations that are not their own
  inverse.
* `RuntimeParameters`: 24 has divisors below and above its root, 4, 9 and 16 are
  squares, and 8 makes `RetryLocalDims` happen. The theorems cover 10000, 100, 256.
* `AtomicReduction`: two reductions, on the same location or on the two, with the
  same operation or different ones, are all that a late or an early thread can mix
  up. Two bits tell all seven operations apart, and the identifiers of group 1 (3, 4
  and 5) overflow them.
* `AtomicBlocks`: two blocks on two counters may share a counter, a memory or neither, if
  the code let them; with four visits and steps of 1 and 2, the constants 0, 1 and 2
  are met early, late or never.
* `RandomChoices`: three draws are the least with a choice below the one that is
  switched and one above it; the draws leave no value, one, or two with and without a gap,
  and one draw is beyond the depth.
* `ProgramGenerator`: `Room` bounds the statements drawn, 5 where lifting shows what it
  does in nests and where there are pointers, else 4; a block that is still empty gets one assignment (or move) beyond it.
  `MaxBlkDepth` = 2 (the code's default is 5) gives an `if` in a loop in a section. A
  program is drawn from one of twelve `Languages`, each with the statements whose
  interplay it is about: options that exclude each other in `CUDAOptions` are in
  different ones. Two pointers and five statements are enough for a fact to be copied after it
  has become stale: a move, a use or a second move, two jumps or a loop with one. A block has at
  most one local, and only in languages with "local".
* `Iterations` = 2: a loop that is run twice tells threads apart that leave it in
  different rounds; variables hold 0 or 1.
* The other modules do not wrap their counters: flags count the steps of one kernel, and the products of
  `RuntimeParameters` stay below 10^8, far from 2^31.

### Fairness

`FairBarrierSpec` gives each thread weak fairness of its own and `Sync` too, as does the
`FairSpec` of `AtomicReduction`. Spinning threads of one group only make progress past each other if the
hardware schedules them independently, which CUDA guarantees from Volta on
(independent thread scheduling). On older devices two threads of one warp can starve
each other in such a loop; a model cannot repair that, and the code takes no notice
of it. Termination also needs control flow to end, which `MaxVisits` gives. In `RandomChoices`
a process that runs takes its next step; there is only one thread.

## Findings

1. **Message nodes and barriers may deadlock** (`barrier_deadlock`).
   `CUDAOptions::Conflict` (`CUDAOptions.cpp:127`) does not keep `--message_passing`
   apart from `--inter_thread_comm` or `--atomic_reductions`. With both, a node of
   thread 0 can stand before a `__syncthreads()` and be ordered after a node of
   thread 1 behind it. Thread 0 spins, thread 1 waits at the barrier. The end
   checks, which are there "to prevent deadlock" (`CUDAOutputMgr.cpp:226`), are
   after `func_1`, which neither thread leaves. A node skipped in front of a barrier
   blocks in the same way, since only a later node or the end checks open it. That is
   what a node in an atomic block is for all threads that do not enter: `CUDAStatement::make_random` refuses reductions
   and communication there and message nodes not ("TODO check some context",
   `CUDAStatement.cpp:79`). Without barriers in the program this does no harm, since
   threads may skip any node (`passing`).
   `AgreeingKernelReturns` (in `passing`) shows what would be enough: an order that agrees with the barriers.
2. **A communication statement may race with itself** (`comm_cell`).
   `rand_expr` in `permutations[rand_expr % 10][...]` (`StatementComm.cpp:51`) is an
   arbitrary expression, and the elements are variables like any other
   (`StatementComm.cpp:121`). It is evaluated after the barrier, when the element's
   next owner may already be past its own assignment and writing. Kernels generated
   with `--inter_thread_comm` do contain such expressions.
3. **An atomic block may change its thread's arrays** (`atomic_array`). In an atomic
   block, assignments and loop variables are confined to the block (`Lhs.cpp:84`,
   `VariableSelector.cpp:1201`), so that it does not matter which thread enters.
   `StatementArrayOp::make_random_array_init` takes any visible array
   (`StatementArrayOp.cpp:96`). With `--atomics` and without `--vectors`
   (`CUDAOptions.cpp:108`), the thread that enters may set a global array of its
   own, which it later hashes.
4. **A section that never runs may be entered** (`emi_entered`). The block of an EMI
   section "will never run" (`StatementEMI.cpp:39`), so that pruning it changes nothing.
   `StatementGoto::make_random` (`StatementGoto.cpp:72`) chooses its destination in any
   block of the function that is not in a loop, also in the section's. Gotos are on by default
   (`CGOptions.cpp:284`); `CUDAOptions.cpp:104, 117` turns them off for atomics and for
   divergence tracking only.

What the properties of `generator` leave out is worth knowing too:

* A true-guard section lifts and deletes inside the range-for over the vector it changes
  (`StatementTG.cpp:122`; the comment at 70 says that it is done afterwards). Deleting a
  label's statement also deletes gotos from vectors being walked (`Block.cpp:808`).
  `IteratorsBreakOnlyThere` says that there are no other places.
* `StatementTG::Output` writes its condition, but not its block: a goto whose label is
  there has none. `JumpsLand` leaves out labels in such sections.
* A forward goto leads to the last statement of its block, and may be put *inside* that
  statement: it then closes a loop. `StatementGoto::make_random` analyses the destination
  once more (118-140) and computes what the goto brings from that, but does not merge it into the
  destination's facts again, and no backward edge makes the block be gone through again. In
  `L: if (c) { p = q; q = 0; if (d) goto L; } else *p = 1;` with `p` and `q` valid at first, the second
  round copies null to `p`, the third dereferences it, and the facts at `*p` do not say so.
  `PointersAreValid` is about programs without such a goto (`LateLoop`); without it TLC finds
  facts that do not cover a run at five statements, and this program at six.
* The divergence analysis looks blocks up in the innermost map only (`Divergence.cpp:188,
  402`), lets a branch's entry hide an older one (793), reads from a map it has freed
  (356) and ignores that after a return that only some threads reach the others go on
  alone (256). `Divergence.h:30` says that it is unfinished. `DivergenceFound` and
  `BarriersAreReachedTogether` hold of the programs in which none of this makes a
  difference (`KnownGap`).

## Proofs

Every property that a run checks about the parallel statements, the grid and the
random choices is proved as well, liveness excepted: for
every group size, limit, program and set of values, and for every control flow and
schedule. Of the program itself it is proved that building and pruning keep it in one piece, for
every language and any number of statements. What bounds the runs (`MaxNodes`, `MaxVisits`, `MaxLength`, `MaxBlocks`, `MaxPath`) is a
constant, of which the theorems ask only that it is a number.

### Message passing

`MessageOrderingProofs`, for every group size, number of nodes and set of fields:

* `TypeCorrect`: `TypeOK` is inductive (the other theorems rest on it; it is proved only, since the run
  `ordering` asks the deeper questions). The one fact that is not bookkeeping is
  that a non-empty set of node indices has a first element (`FirstIsLeast`, from the
  well-foundedness of `<`).
* `OrderFollowsSequencedBefore`: the drawn order is one the threads can follow.
  `FollowsSequencedBefore` speaks of the order only, and does not say why the *next*
  node fits; the strengthening `PickingInv` does: what is left of each thread's
  list is its end, and the registered nodes are exactly those left or in the order.
  `OrderGrows` treats one node and a pair together, as a set of threads that
  each give up their first node; planning leaves the order alone
  (`OrderUnchanged`).

The same module, about what `CreateOrdering` makes of the order. The
invariant `PlanInv` says where planning has come to and where that leaves the flags:

* `ChecksLetTheTurnPass` (`OnlyTheTurnPasses`): at each point of the run the
  constraints let exactly the nodes of the next step through, although four flags
  serve all of them. `ChecksFit` says that the checks of a step are the levels of the
  flags after the step before it, with all the signals of that step among them and
  the flag the node will signal; `SignalsGrow` that the values signalled through one flag grow.
  So all checks of a node are reached, and its own signal is not, exactly when the steps
  before its own are over (`TurnPasses`).
* `LocksHaveUnlockers` (`EveryLockHasAnUnlocker`): `UnlockInv` follows each lock from
  `unlock_map` into the waits of the thread's later nodes and into its end checks,
  and says that no other lock gets there.
* `DropsAreOfTheLastStep` (`OnlyLastThreadsDropped`): `DropInv` ties the threads that
  picking excludes to the last step drawn.

`MessagePassingProofs`, about the threads of the kernel with barriers anywhere
(`FairBarrierSpec`; without barriers in the text it is the kernel of `MessagePassing`):

* `UpdatesNeverRace` (`UpdatesDoNotRace`) and `KernelImplementsDAG` (`ImplementsDAG`,
  the refinement) from the invariant `KernelInv`: the flags stand where the nodes passed
  have left them, and these nodes are the first steps of the order and perhaps a part of
  the next (`FlagsInv`); a thread is only at nodes of its own, and what it has read of
  a check stays reached (`ThreadInv`). The second half is needed because a condition reads
  one flag at a time: between the reads others signal, and only because the
  values grow does a check that was read remain true. That a lock is opened by one thread
  only, and before its node is passed, rests on `UnlockInv`. Each action is shown to be a
  step of `MessageDAG` or a stutter (`MessageStep`).
* `KernelIsDeterministic` (`Determinism`): `DueInv` says that of the nodes control flow
  has made due, all but the one its thread is at have been passed, and `StoreInv` that a field
  holds the updates of the due nodes that have stored theirs, in the order drawn,
  and that what a thread has loaded is still there when it stores. The last uses
  `UpdatesNeverRace`; that a store appends to the right end uses that all the
  stores of earlier steps are made (`StoresInOrder`).

### Barriers, the grid and atomics

`InterThreadCommProofs`, for every group, table of permutations and program:

* `ElementsAreOwned`, `TidsStayDistinct`, `CommIsDeterministic` (`NoSharedElement`,
  `TidsAreDistinct`, `Determinism`) from `CommInv`: a barrier is behind all threads or none
  (`Together`); an element has one owner, who alone has accessed it since (`Owners`,
  `Touchers`), where a thread behind the barrier and before the assignment of `tid` is said to
  own already the element it is about to be given (`Due`); and what a thread holds is what a
  lone thread would after as many statements (`Values`), so that threads agree on the row of
  the table. They assume `RowsArePrivate`: `rand_expr` reads no element. The run `comm_cell`
  shows that `Determinism` is false without it.

`RuntimeParametersProofs`, for every value of the limits:

* `GridInv` (`TypeCorrect`, `GridWithinLimit`): the dimensions not drawn yet are 1,
  so the counter is the product of all three; a quotient of the limit leaves room
  for the factor (`QuotientFits`). A local dimension, once drawn, divides its
  global one (`DivisorsDivide`), so that no count is 0.
* `GroupsInv` (`GroupsTile`): each counter is the product of the factors drawn so
  far; at the end none is missing, and the integer division in
  `get_threads_per_group` is exact.
* `DivisorsAreExact` (`DivisorsExact`): `get_divisors` walks up to the root only. Of two
  factors of a number one is not above its root.
* `IdentifiersAreUnique` (`LinearIdsAreUnique`): positions in a box and linear
  identifiers are one to one (quotient and remainder, twice), and so are a thread's
  identifier in the grid and its place in its group with the group's in the grid, since groups tile.

`AtomicReductionProofs`, for every group size, word width, program and set of operations:

* `PlainAccessesAreAlone`: plain accesses never compete. The invariant `Lockstep` says
  that all threads are in one phase (before the first barrier, adding, or
  collecting) of one reduction; a barrier takes all of them to the next. In the
  first and the last phase only thread 0 has an access, in the other all accesses
  are atomic.
* `ReductionsAreDeterministic` (`Determinism`): a location holds what the threads that have added
  would have made of it *in the order of their identifiers* (`AddInv`); one that comes
  later is moved to its place in that order (`OneMoreAdds`), because no two operations of
  one kind show in which order they came (`ApplyCommutes`). For And, Or and Xor this
  is shown bit by bit: a word made of bits has these bits (`BitsOfSums`).

`AtomicBlocksProofs`, for every group, program, control flow and contents of memory:

* `BlocksEnteredOnce` (`OneEntry`): the invariant `CounterPasses` says that a block that
  has been entered has a counter above its constant. Counters only grow (`TestStep`), except
  when the buffers are set to 0; but then no thread is past the first barrier and
  none has entered anything (`InPhase`).
* `BlocksAreDeterministic` (`Determinism`): `ResultInv` adds that counters are claimed once (`ClaimInv`),
  so that a counter is its increment times the visits to its block (`CountInv`), and whether
  the block has been entered is a question of their number, whoever came. It
  assumes `BodiesAreLocal`, that no body sets an array of its thread: the run
  `atomic_array` shows that it is false without.

### Random choices

`RandomChoicesProofs`, for every depth and every builder, that is, whatever the draws ask for:

* `TypesAreKept`, `ProgramsAreWrittenOnce`, `SearchIsExhaustive`, `RecordsAreTrue`,
  `RecordsRebuild` (`TypeOK`, `EachProgramOnce`, `NothingSkipped`, `RecordIsTheRun`,
  `RebuildsTheProgram`) from one invariant, `ChoicesInv`. Its parts: every generator's position is the number of
  values handed out (`RecordInv`); the stack kept between runs leads through draws that
  the builder makes again (`StackInv`); the last program written is behind the stack in
  lexicographic order (`OnceInv`); a value that has not been tried belongs to a draw that is
  on the stack below it, or that the builder is on its way to (`SkipInv`); and a process that
  is given a record walks the way of the process that made it (`DebugInv`, `RandomInv`).
  `SkipInv` speaks of runs in progress: `NothingSkipped`, which is about a search that has
  ended, is not inductive.

### Building and pruning a program

`ProgramGenerationProofs`, for every set of languages, depth of blocks and bound on the statements
drawn, about `PhaseSpec`:

* `ProgramInvHolds`: the inductive invariant `ProgramInv`. It says that for some set `A` of
  blocks `Sound(A)` holds, which has these parts:
  * `WholeOf`: every statement that is not still being made stands once, in the text or in the
    list of deleted statements of its parent, and is younger than the statement that holds
    this block. The second half is what keeps statements from standing in
    themselves after pruning has moved them, and it is why recursion over
    blocks within blocks ends: `BelowStays` and `BelowIsYounger` induct over numbers.
  * `Pile`: the blocks being filled belong to younger and younger statements, and the statement of
    each has not joined its block yet; that is where it will join.
  * `Enclosed`: the blocks of `A` are those of atomic blocks and all in them. In these nothing is drawn that has a barrier,
    calls or leaves (message nodes are), and their frames on the stack carry the flag of the context.
    `A` is history: which blocks were opened inside an atomic one is to be seen in the tree only
    until lifting takes it apart. So it is not a variable of the model, and the invariant says that there is such a set.
  * `Callers`: the calls of `PruneBlock` that are under way are for blocks one inside the
    other, and the statements they have chosen stand in front of the place they have come to.
  * `Phased`: what is empty or has not begun in each phase; no edges without gotos.
* `EveryStatementHasOnePlace` (`OneOwner`): `RemoveStmt` moves statements from the texts to the
  lists of deleted ones and nowhere else (`Reduced`), wherever the gotos stand that it takes along;
  `MergeBlock` moves a text and its list together and sets the parents. A forward
  goto, which is put into the middle of a text that may be finished, makes a text longer like any other statement.
* `AtomicBlocksStayClosed` (`AtomicBlocksAreClosed`): what is run below an atomic block is in
  blocks of `A`, since no function is called there. It is about barriers and jumps; message
  nodes, which do stand in atomic blocks, are a question for `AgreeingKernelReturns`. It needs that a language with atomic blocks has
  no gotos (`AtomicWithoutGotos`, `CUDAOptions.cpp:117`): a forward goto is put
  behind a statement anywhere in its function, whatever the context it was drawn in.
* `IteratorsStayValid` (`IteratorsBreakOnlyThere`): the blocks of the callers are further out than all
  that is deleted at the end of a call, so no vector they walk is changed; this uses
  that numbers grow along the calls (`Callers`).

Proving found one error of the model, corrected since: `Leaf` accepted any kind that holds no
blocks, so that a language with an option in it ("tid", "atomic", "local") could have
that drawn as a statement. `Simple` names the statements.

### What they rest on, and what is only model-checked

They assume what the modules name as assumptions, which TLC evaluates in the runs: positive limits, at
least one thread and one node, a positive `MaxDepth`, bounds above 0 in the draws of the search
(`BoundsAssumption`), values that are naturals, a null pointer that is no block (`NoBlockIsNull`), no
gotos where there are atomic blocks (`AtomicWithoutGotos`); and the two hypotheses above. Recursive
functions are shown to be defined before they are used (`RunExists`, `AloneIsDefined`,
`SequentialIs`).

Out of the prover's reach, and checked by TLC only:

* liveness: `AgreeingKernelReturns`, `KernelReturns`, `EveryProcessEnds`;
* `PrunedAsDrawn` and `CoinsAreFixed` compare what recursive functions compute from the
  text before and after pruning: induction over the tree for a formula with such values in it;
* `JumpsLand`: nothing stands in the way of a proof but its length (see the plan);
* the walk, divergence and barriers, pointers (`WalkIsPreOrder`, `WalkerAtIsAdvanced`, `DivergenceFound`,
  `BarriersAreReachedTogether`, `PointersAreValid`, `JumpsSkipNoLocals`): `Divergence`, `FunctionWalker` and `PointerFacts`
  describe mutually recursive functions of the code (the walk over a block is one with the analysis of
  its statements) with RECURSIVE operators, of which the prover can show nothing. For the same
  reason the refinement of `PhaseSpec` by `ProgramGenerator` is checked and not proved.

## Plan

Done: message passing, its barriers, communication, the grid, atomics at run time; random
choices; building, jumping, deleting; facts of pointers; pruning; walker and divergence; proofs
of the parallel part, of the random choices and of the program as it is built and pruned. Left,
in this order:

1. Facts across calls (parameters, return values, functions analysed again) and of unions.
2. The read and write sets of effects, and the stack of block variables of atomic blocks.
3. Qualifiers and scopes; probability tables with filters; safe arithmetic at a small width.
4. `JumpsLand` for programs without true-guard sections, from `ProgramInv` and a set of the blocks printed.
5. The walker with recursive functions, to prove that it comes to each statement once.

## Not modelled, and why

Text output, naming, option parsing, the reducer and the host launcher have no state
or order that a property could be about, or only calls in a fixed order. Vector types and
the globals struct are naming and sizing. Of the Csmith core the parts in the plan above
are left; array operations and `append_nested_loop` are left out of `ProgramGeneration`,
pointers, parameters and local variables out of `Divergence`; calls, unions, arrays, pointers to
pointers and effects out of `PointerFacts`. Weak
memory is not modelled: the fences of the generated code stand at every
boundary of a node.
