# TLA+ models of Glyim

Glyim is a compiler for a Rust-like language, with an LLVM and a bytecode back
end, an interpreter, a runtime library, a language server, a package manager and
an orchestration tool for coding agents. This project models the parts of it
that are hard to test: iterations whose result must not depend on an order,
processes that interleave, commands that fail or outlive their timeout, and
algorithms whose answer has a meaning that can be computed independently. Paths
below are relative to the repository root, and mostly to `crates/`; line numbers
are of the commit the models were written from.

Section 1 is the inventory of the system, section 2 the models, section 3 the
runs and the sentences of the repository that the code does not keep, section 4
the proofs, section 5 what is left.

## 1. The system

### The compiler

    text -> tokens -> tree -> macros -> definition map -> HIR -> types, traits
         -> MIR -> borrow check -> optimise -> instances, drop glue
         -> LLVM | bytecode -> machine       (or: the MIR interpreter)

| Part | State it keeps | Operations | What makes it hard | What must hold |
|---|---|---|---|---|
| Lexer, parser (`glyim-frontend`, `-syntax`) | position, event stream of the tree builder | one function per production | every loop must consume; a checkpoint is wrapped later | nothing of the source is lost; operators group by level |
| Macros (`glyim-meta`) | macro table, bindings of a match | collect, match, substitute, expand | repetitions, recursion up to a limit | an expansion holds its arguments |
| Definition map (`glyim-def-map`) | modules with their scopes | declare, import to a fixed point, check visibility | imports of imports, globs, cycles | an import reaches its item |
| HIR (`glyim-hir`) | arena of expressions per body | lowering; `async fn` to a state machine | suspension: what is live across an await | the poll function does what the body says |
| Types (`glyim-type`), inference and traits (`glyim-solve`) | arena, inference table, obligations, caches | substitute, unify, match impls, auto traits | bindings that stay after an error, cycles | unification solves its equations; a proof is an instance of an impl |
| Type checker (`glyim-typeck`) | tables per body | rules per expression | data, not control | (its use of inference is modelled, its rules are not) |
| Constant evaluation (`glyim-const-eval`) | scopes, loop control, limits | evaluate, match patterns, cast | width of integers, control flow out of loops | the constant is what the program computes |
| Borrow checker (`glyim-borrowck`) | live sets, reserved points, move paths, loans | `check_borrows`, `check_moves` | joins, loops, three analyses that must agree about points | no conflicting access and no use after a move is missed; it ends |
| Optimiser (`glyim-opt`) | the body, maps of known values | four passes | maps merged before all predecessors were seen; blocks renumbered | the body keeps its meaning |
| Monomorphisation (`glyim-lower`), drop glue and drivers (`glyim-pipeline`) | arenas, queue of instances, units; phase outcomes | substitute, collect, partition, deduplicate; five drivers | handles that mean something in one arena only; five drivers that check different things | every instance once; only checked code is emitted |
| Layout (`glyim-layout`), LLVM (`glyim-codegen-llvm`) | layouts; slots, blocks, pads | sizes, enum encodings; lowering of bodies and calls | two computers of one layout; blocks split while lowering | values fit their memory and do not overlap; blocks are well formed |
| Bytecode (`glyim-codegen`, `-bytecode-vm`), interpreter (`glyim-mir-interp`) | bytes, constant table; operand stack, frames, generations | emit, patch, fold, decode, run | jumps patched later; a stack shared by all frames; references into frames | the code does what the body says; live references resolve |

Inside the compiler nothing runs concurrently: a phase is a function of the
output of the phase before it. What is hard is iteration and data that is
described twice.

### The programs around it

| Part | State | Operations | What makes it hard | What must hold |
|---|---|---|---|---|
| Language server (`glyim-lsp`, `glyim-vfs`) | `Vfs`, open files, a channel of 16, eight tables each in a lock of its own | notifications; the driver's eight writes per message; request handlers | the channel drops when full; readers and notifications fall between two writes; locks taken in different orders | once the driver is idle the tables show what the editor shows; nobody waits for ever |
| Runtime (`glyim-runtime`) | registries of threads, processes, sockets, each behind one mutex; the waker of `block_on` | the `glyim_*` calls of compiled programs | blocking calls made under a registry's mutex; a wake between poll and wait | a child is reaped once; who waits for a mutex gets it; a woken executor returns |
| Pilot (`tools/glyim-pilot`) | sessions in memory and in a state file, git worktrees, a set of streams in work, waves of streams | messages, turns (apply, gates, commit, pull request), merge, waves | turns of one stream meet; commands time out and go on; saves fail; the server dies | only gated work is committed, a failed apply leaves no trace, an acknowledged merge survives, streams start after their upstreams |
| Package manager (`glyip`), standard libraries (`glyim-lang-*`), command line, tests | files | | file and process calls | not modelled, section 5 |

`PROJECT.json` lists every component with its status and what is left out of it, the
lines of the source behind the definitions (small helpers of the function modules go
with the operators that use them),
and under `hazards` the places where something can go wrong that a test would
hardly reach, each with the properties that would catch it.

## 2. The models

State machines, each with its own `MC` module where the instance needs
definitions:

| Module | Models | One step is |
|---|---|---|
| `Execution` (on `Mir`) | the body of `check_borrows`, its points and executions | (state only) |
| `Liveness` (on `Execution`) | `compute_liveness` | one turn of the `while` loop |
| `AnalysisPromise` | abstract: from no answer to a correct one | the answer |
| `Reservation` (on `Execution`) | `ReservationAnalysis::compute` for one loan | one turn of its loop |
| `MoveAnalysis` | `check_moves` | collection, one turn of the dataflow, one block of the check |
| `Borrowck` | `check_borrows`: it extends `Liveness` and `Reservation` and makes their steps its own, one phase after the other | a step of a part, or one point of the walk |
| `LspAnalysis` | `LspState`, the channel, `AnalysisDriver`, the tables | a notification, a receive, one table write |
| `LspLocks` | the locks of the database and the handlers that take them | one `read`, one grant, drop or return; claim, enter and leave of a write |
| `PilotTurn` | the server: event loop, turns, applier, commit engine, session store, crash and restart | one awaited call of the loop or of a turn; a failing or late command |
| `Pilot` | `PilotTurn` with the agent commands and the browser extension: dispatch in waves, provider slots | also one dispatch, one post |
| `Runtime` | registries, mutexes, `block_on` | one lock, one blocking call, one wake |
| `Opt` | `optimize` | one sweep of constant propagation, one round of CFG simplification, one other pass |
| `Interp` | `run_body` | one statement or terminator |

Algorithms that are functions of their input are modules of operators. `MCCompiler`
runs them: the variable `job` is one call with its arguments, drawn from a small set, and the
one step is its return. The properties are action properties about that step:
they compare what the call returns with what its arguments mean. The run covers
every input of the sets.

| Module | Models | Compared with |
|---|---|---|
| `Parser` | the lexer, every token; one operator per `parse_` function over rowan's builder | the characters; the grouping by binding power |
| `Macros` | `macro_rules` collection, matching, substitution, expansion | the arguments of the call |
| `DefMap` | `build_def_map` and its visibility check | the declarations that paths lead to |
| `Async` | `desugar_async_fn`, from the arena of a body to the poll function, and the poll loop | the trace of the body as written, for all ways its futures are pending |
| `Solve` | types: substitution, flags, associated types, sizedness, casts, auto traits with cache; the inference table; impls, obligations, coherence, higher-ranked bounds | auto traits by reachable components; equations between types; instances of impls |
| `ConstEval` | `evaluate_expr`, patterns, arithmetic, casts | a direct semantics of the program; the instructions of `Llvm` |
| `Layout`, `Llvm` | the layouts of `glyim-layout` and of `abi.rs`; memory, instructions; blocks, slots, pads, calls | ranges of bytes; control flow of the body; the ABI of the definition |
| `Mir` | `walk_*_reads`, `successor_blocks`, `places_conflict` | sets of memory cells |
| `Vm` | `generate_*`, folding, patching, encoding, the bytes as they are emitted; decoding and execution | an execution of the MIR by the laws of arithmetic |
| `Mono` | type arenas, substitution of bodies, collection, devirtualisation, units, deduplication, drop glue | what the program reaches |
| `Pipeline` | the drivers, phase by phase | the severity of what each phase reports |

`Mir` also has the constructors the MC modules write bodies with. How state and code correspond:

* In the borrow checker blocks, statements and points count from 1. A point
  `<<bb, i>>` is statement `i` of `bb`; the terminator is one past the last
  statement, as in the code. A `FixedBitSet` is a set; a `HashMap` is a function
  over its keys. The body under analysis is chosen in the initial state and never
  changes, so that one run covers a family of bodies. A `FixedBitSet` panics when
  it is written beyond its capacity: in `Liveness` this is the assumption
  `BodiesReady`; in `MoveAnalysis`, where the code can get there, the phase
  `"panic"`. In `Borrowck` that phase is the index of `loans_by_dest`, which has a
  slot for each declared local and is indexed with the local of every loan and of
  every assignment, while liveness has room for undeclared ones. Types are reduced to field counts and to which places are Copy.
* In `LspAnalysis` a text is a record of path, version and content; what the
  front end makes of it is its diagnostics and the names it mentions: a content is
  the set of its names. From an `Endless` content `parse_to_syntax` never returns:
  the driver then has no step. `lost` is a
  history variable: the paths whose last `try_send` failed. The dependency graph
  is absent because `extract_dependencies` is a placeholder and the driver only
  clears it, `Shutdown` because nothing sends it. In `LspLocks` a handler is the
  sequence of guards it takes and drops; it may return between any two, which
  covers every `?`. A writer claims a lock, which turns new readers away, and
  enters when the readers are gone: that is `parking_lot::RwLock`, external code
  modelled by its documented behaviour.
* In `PilotTurn` a file is absent, clean, unformatted or has a banned pattern; a
  gate is what it lets pass, and may refuse for other reasons. `mem` is the store
  in memory, `disk` the state file; `work`, `index` and `head` are git's. A command
  that runs out of time is an error to its caller and an orphan that may have its
  effect later, since `run_timed_command` only drops the future. A crash clears
  what is in memory, and a restart loads `disk`.
* In `Runtime` the threads run arbitrary code that calls the library; `call[t]`
  says where thread `t` is in a call and what it holds. A child has ended by
  itself, by a signal it could handle or by SIGKILL.
* In `Opt` a value is below `Size`, and a struct has one field. A body means the calls
  and drops it makes, in order, and what it returns, in integers that wrap; a division
  by zero is undefined there. Folding computes as the code does, in numbers without
  that width: a sum is not cut off, a division by zero is 0, a `Cast` keeps its operand
  (`"narrow"`, to a type of two values) and a `Repeat` is its element.
* In `Interp` the program is arbitrary: a block is any terminator behind any
  statements; `id`, `me` and `born`, which name every frame ever pushed, are history
  variables. A statement that panics strays: the loop goes on with its next index and
  then with the terminator of the block it began in, on whatever block and frame
  `unwind_step` has set, or crashes on the index (status `"crashed"`). Drop is
  passed over, as a release build does.
* Integers keep their width. `ConstEval` keeps the difference between the 128
  bits the evaluator computes in and the width of the type; `Vm` has
  numbers of 8 bits in operands of the code's widths and marks as `Wild` what only
  a wider number could be. The body it is compared with has arithmetic of its own:
  sums modulo 2^8, quotients by their law, and a division by zero is a fault.
* `Parser` cuts off a loop whose body consumes nothing and marks it stuck, and
  marks a failed assertion of the tree builder as a panic.

Operators introduced by a comment `Mutant:` are variants of the operator that
follows them, each with one plausible mistake (a dropped guard, a missing reset,
a wrong order). They are not part of any specification. For every property
`PROJECT.json` names one such variant under which TLC finds the property
violated, so that none of them holds whatever the code does.

## 3. The runs

`tlc -config X.cfg M` for each. The cfg has the name of the module, except for the
run at the end of the table: TLC finds a violation there, of a sentence of the
repository that the code does not keep.

| Run | Instance | Shows |
|---|---|---|
| `liveness` (`MCLiveness`) | 5,400 bodies of 3 blocks and 2 locals, with gotos, switches, calls that unwind, drops, asserts, self loops and unreachable blocks | A block that is not waiting is stable (`WaitingCovers`), the sets stay below every solution (`BelowEverySolution`), the worklist runs empty (`Terminates`), the answer is liveness by execution paths (`LiveOutIsPathLiveness`); `ImplementsPromise` is refinement of `AnalysisPromise` |
| `moves` (`MCMoveAnalysis`) | 3 blocks, a two-field struct, a temporary and a Copy value | no use of a moved path is missed, within a block or in another, if the moving block does not initialise the path too and the way does not lead back through the entry block (`NoMissedMove`) |
| `borrowck` (`MCBorrowck`) | 3 blocks, every kind of borrow of a field, eight kinds of access to it, calls that use the reference, locals that are not declared; and 4 blocks with one two-phase loan, branches that activate it on one side, joins, loops with and without the loan inside | with the analyses composed in: at every turn of the analysis of a loan, a reserved point is reached with the reference unread, or read by terminators only, which the analysis does not look at (`AnalysedIsUnread`); no conflict is missed but a read behind the terminator that activated a two-phase loan (`NoMissedConflict`); an answer unless a local is not declared or a two-phase loan is in a loop whose block reads its reference in front of it (`Answers`) |
| `lsp_analysis` (`LspAnalysis`) | 2 files, 3 contents, one of which does not end in the parser, a channel of 2, 5 notifications | idle means current, for the files whose last message got through (`QuietIsCurrent`); the driver becomes idle again and again, or is held by an endless parse (`DriverCatchesUp`) |
| `lsp_locks` (`LspLocks`) | 2 threads, all handlers but hover, the driver writing without end | no deadlock; who waits for a lock gets it (`LocksAreGranted`) |
| `pilot_turn` (`MCPilotTurn`) | 1 stream, 2 tasks, 2 files of which one is locked, 7 messages of which 3 arrive, 2 faults, 1 crash | `CommittedIsGated`, `FailedApplyChangesNothing`, `AckedMergeIsDurable`, `TurnsEnd` |
| `pilot_waves` (`MCPilot`) | 3 streams in a chain, one provider slot, 2 dispatches of a wave, 1 crash | `UpstreamsMergedFirst` |
| `runtime` (`MCRuntime`) | 3 threads; programs of thread, executor, process or socket calls, 2 or 3 per thread; 1 child, 3 sockets, a stream of 1 message | `ReapedOnce`; a mutex is waited for without end only behind a call that waits for the outside (`MutexWaitsEnd`); `BlockOnReturns` |
| `opt` (`MCOpt`) | bodies of 3 blocks, a return place, an argument and a temporary, integers of 3 values, at most 8 sweeps (`MAX_ITERATIONS` is 1000 in the code; all bodies settle before) | constants are the values on bodies that assign once and whose folds are exact (`ConstantsAreTheValues`); the control flow passes keep the meaning of every body (`ControlFlowKeepsMeaning`) |
| `interp` (`Interp`) | 2 locals, 1 argument, 3 frames, 2 runs of one interpreter, 4 steps, recursion 3 | `LiveRefsResolve` until a panic crosses a frame; `recursion_depth` is the number of frames, panics included (`CallsAreCounted`); a panic that leaves its frame finds the nearest cleanup (`PanicsFindCleanup`) |
| `compiler` (`MCCompiler`) | the calls below | fifteen properties of results |
| `statement_panic` (`Interp`, `StatementPanic.cfg`) | that of `interp` | violated: `StatementPanicsAreRouted` |

The jobs of `compiler`, and what is compared:

| Property | Inputs |
|---|---|
| `SourceIsKept` | all texts over small alphabets (names, numbers, strings, comments, operators); token sequences in templates of items, expressions, types and patterns |
| `OperatorsGroupByLevel` | chains of up to 4 binary operators of every level |
| `MacrosCopyTheirArguments` | macros of 2 parts with fragments and repetitions, up to 4 argument trees; recursive ones up to their limit |
| `ImportsReachTheirItems` | crates of 2 modules with declarations and single, group, glob and renamed uses, cyclic ones too |
| `AsyncMeansTheBody` | functions of up to 3 awaits, each future pending up to twice |
| `AutoTraitsAreExact` | two structs whose fields refer to each other through references, pointers, tuples |
| `UnifySolvesTheEquations` | two calls of `unify` over 2 type variables and 1 integer variable |
| `ProofsAreInstances` | two impls with bounds, two obligations, a limit that can be reached; higher-ranked bounds |
| `ConstMeansTheProgram` | expressions with scopes, loops, matches, closures, and breaks that end their block; no variable shadows another one; integers of 3 and 5 bits computed in 8; every binary operation and cast of 3 bits against its instruction |
| `VariantsFitTheirMemory` | enums of small variants with and without explicit tags; places of two projections; pointers of 4 bytes |
| `EmittedBlocksAreWellFormed` | bodies of 3 blocks and a cleanup block, every terminator; calls of up to 3 arguments on 4 ABIs |
| `PlacesAreComparedInMemory` | all pairs of places with up to 2 projections, arrays of 2 and 3, two index locals |
| `BytecodeMeansTheBody` | modules of two functions that call each other, all arithmetic of 8 bits at its edges, folding on and off, call depth 3; compared up to the first return, and without the divisions that are faults |
| `ItemsAreEmittedOnce` | programs of 5 functions, generic ones among them; up to 5 modules into units |
| `OnlyCheckedCodeIsEmitted` | crates of up to 2 functions, up to 2 phases that report something, five drivers |

The references against which answers are compared are independent of the code:
points reached by executions, memory cells under a valuation of the index
locals, direct semantics of expressions and bodies, bytes, solutions of
equations over a finite universe of types. Where the question is arithmetic, a result is
the number that solves the operation's equation, not what the code's operation returns.

Why the bounds are enough. A dataflow defect needs a join, a back edge and a
block processed between two changes; three blocks give all of these, and four
blocks for reservation add a diamond. Locals are independent of each other in
the equations, so two suffice to tell "this one" from "another". Projections are
compared element by element: two give "equal, then different" and prefixes. The
channel of two fills up as one of sixteen does, and `MaxNotes = 5` is enough to
open both files, overflow the channel and close and reopen a file. The driver is
the only writer, so a cycle of waiting involves it and a reader; a second thread
shows what other readers add. In the pilot two tasks of one stream are what can
meet, `MaxMessages = 3` makes a turn meet the next one after a failure, and with
`MaxFaults = 2` a fault can hit the handling of a fault. A chain of three streams
has a direct and an indirect upstream. In the runtime a third thread waits for
the mutex while a second holds it and a first is waited for. In the interpreter
the third frame reuses the depth of one that returned. A call of a function of
the compiler needs no more than an input of every shape, twice where the
interaction of two parts is the question (two equations, two impls, two
functions, two structs, three awaits for a segment between two others).

Deadlock checking is off where the modelled code ends or its environment may
fall silent; it is on for the locks.

Fairness. The analyses and the optimiser are sequential code: weak fairness of
the next step. The language server's driver is a spawned task that runs when a
message is there: weak fairness of its steps, none of the editor. That does not
assume that the parser returns: in an endless parse no step is enabled. A handler that
has been called runs on: weak fairness of its steps and of the driver's claim and
release, none of new requests and none of the driver's next write. A waiting
reader competes with an unbounded stream of writes; `parking_lot` promises
eventual fairness, which is strong fairness of `GetRead`. In the pilot the async
runtime polls every task that can go on and every command ends or times out: weak
fairness of the event loop and of every turn, none of messages, orphans, merges
or crashes. In the runtime, weak fairness of the steps inside a call and of the
wake the executor's future has registered, none of the program's next call, of
children or of the network. The other specifications state none and have no
liveness property.

### Where the code and its comments disagree

The properties of the runs are stated so that they are true of the code as it
is; their conditions (`ReadBeforeTaken`, `ActivationUnseen`, `SeenReads`, `FoldsAreExact`,
`NothingIsShadowed`, `Endless`, `Paths \ lost`, "without niches", ...) are exactly
what the following traces call for. Each of these
definitions states a sentence of a comment, a doc or a test, or what a reader
would take for granted. One of them is a run, named in the second column, and in the
`findings` of `PROJECT.json`. To see the trace of another, put the definition in the
place of the properties of the module's cfg, with the constants named (under `PROPERTY`
where it is temporal, as `AlwaysAnswers`, or begins with `[][`); TLC finds a violation
of each.

| Definition | With | What the trace shows |
|---|---|---|
| `MCLiveness!StmtLivenessSeesTerminator` | | the scan of a block starts at `live_out` and misses what its own terminator reads (`liveness.rs:199-212`) |
| `MCLiveness!LiveAcrossPartialWrites` | `PartialBodies` | a write to a field, or through a reference, counts as overwriting the local (`liveness.rs:89`) |
| `Borrowck!ActivationEndsReservation` | `JoinBodies`, or the bodies of the run | a join with a path that did not use the reference makes a used one reserved again (`twophase.rs:104`); a call that uses it does not end the reservation |
| `Borrowck!AlwaysAnswers` | `NestedLoops` | the loan in a loop that shares its head with another: `compute` never ends (`twophase.rs:94`) |
| `MoveAnalysis!NoMissedMoveAnywhere` | `ReinitBodies` | `x = c; y = move x` in one block, a use of `x` in the next: not reported, since `moved_out` subtracts the block's initialisations after adding its moves (`move_analysis.rs:420`) |
| `MoveAnalysis!CallArgumentsAreMoves` | `CallBodies` | the arguments of a call are not recorded as moves (`move_analysis.rs:375`) |
| `MoveAnalysis!ReassignMakesUsable` | `SelfBodies` | after `x = move x` the local counts as moved (`move_analysis.rs:603`) |
| `MoveAnalysis!NeverPanics` | `VariantBodies` | a path for an enum variant joins the arena after the bit sets were made; recording it panics (`move_analysis.rs:142`) |
| `Borrowck!ActivatedLoanExcludesReads` | `CallActivation` | `transfer` looks at statements only (`twophase.rs:44`): after a call that uses the reference, the usual activation, a read of the borrowed place is still excused (`lib.rs:9-12`, 368-371: "after activation, normal mutable borrow rules apply") |
| `Borrowck!UndeclaredLocalsAreTracked` | `Undeclared` | liveness has room for a local that is not declared, `loans_by_dest` has not (`lib.rs:396`): the check panics (`liveness.rs:47-49`: "without panicking") |
| `Borrowck!ConflictBeforeTerminatorUse` | `TerminatorUse` | a borrowed place is overwritten and the block's own terminator reads the reference: no conflict |
| `Borrowck!EveryWriteIsChecked` | `UncheckedWrites` | writes by a call's destination and by the destination of a borrow are not checked (`lib.rs:228`) |
| `Borrowck!ActiveLoanIsHeld` | `Reassigned` | a loan is active after its local was given another reference (`lib.rs:408`) |
| `LspAnalysis!EveryChangeIsAnalysed` | | with the channel full the last change is never analysed (`state.rs:50`) |
| `LspAnalysis!DiagnosticsCorrespond` | | between two writes `diagnostics` and `raw_diagnostics` belong to different texts (`driver.rs:134`) |
| `LspAnalysis!LookupFindsTheFile` | | after close and reopen the `Vfs` id and the `FileMap` id of a path differ, and `diagnostics_for_file` looks up the former (`state.rs:92`) |
| `LspAnalysis!EveryMentionIsFound` | | re-analysing one file drops the other files' references to shared names (`reference_graph.rs:77`) |
| `LspLocks!NoDeadlock` | `"hover"` in `Requests` | `provide_hover` takes `source_maps` again under its own guard (`hover.rs:72`): with a write in between both wait for ever. Through `build_router` hover finds its own, empty file map and returns before; `provide_hover` is public |
| `PilotTurn!NothingBannedIsCommitted` | | the pattern gates scan `main..HEAD`, what is committed already, and not what is about to be (BR-02 and BR-06 of `spec/v0.1.0.md`) |
| `PilotTurn!EveryCommitIsGated` | | an orphaned `git add` of a timed out commit stages a later tree (BR-01) |
| `PilotTurn!EscalatesInTime` | | `fix_round` is read and never written, so that no number of failures escalates (REQ-FUNC-023) |
| `PilotTurn!WorktreesAreKnown` | | the worktree is made before its session; if the checkout fails or the server dies in between it belongs to no session, and `git worktree add` refuses its directory from then on (BR-11) |
| `PilotTurn!MarkMeansTurn` | | if the lock times out behind a turn the stream stays marked and its turns are skipped: "a race, but fine" (`turn.rs:141`) |
| `Runtime!TermIsHonored` | | a signal above 9 becomes SIGKILL, 15 too (`lib.rs:841`; `tests/process.rs`: "SIGTERM (15) is honored") |
| `Runtime!UnparkMakesToken` | | join removes the thread from the table before it waits; an unpark of it then leaves no token, though it still runs (`glyim-lang-std/lib/thread.g`) |
| `Opt!RemovesOnlyUnread` | | reads of a field, and of the operand of a unary operation, do not count as reads (`dce.rs:5`) |
| `Opt!FoldingKeepsMeaning` | | a folded sum keeps the bits its type has not, and a quotient of it differs; a folded `Cast` keeps its operand, a folded `Repeat` is its element (`constant_prop.rs:103-132`, 325, 326) |
| `Opt!OptimizingKeepsMeaning` | | a body that reads a field changes its meaning, for the reads that are not counted |
| `Interp!StatementPanicsAreRouted` | run `statement_panic` | after a panic in a statement the loop goes on with its next index in the cleanup block, and the terminator of the old block is run, which leads elsewhere (`lib.rs:295-318`); the index may crash the interpreter |
| `Interp!StaleRefsAreRefused` | | a reference to a frame that returned reads a later frame of its depth (`lib.rs:361`) |
| `Interp!LiveRefsSurviveUnwinding` | | unwinding does not count `frame_depth` down; afterwards live references are refused or read another frame |
| `Interp!UnwindCarriesThisPanic` | | `pending_unwind` of one run is still set in the next run of the interpreter |
| `MCCompiler!EveryParseEnds` | | the loop over a use group does not consume what is no name: `use a::{::` never ends (`parser/item.rs:944`) |
| `MCCompiler!TreeSpellsTheSource` | | a `>>` that closes two brackets, or a struct field without a value, puts a token into the tree that the source does not have |
| `MCCompiler!ChainsAreLowered` | | the lowering reads two operands of a node, the parser puts a chain of one level into nodes that go on from one another |
| `MCCompiler!RepetitionsCopyExpressions` | | in a repetition only the first tree of an expression is copied (`substitution.rs:143`) |
| `MCCompiler!ExpansionsKeepTheirTokens` | | `to_source` puts no space around keywords, so that two tokens become one |
| `MCCompiler!TreesMatchAnyArguments` | | `$($y:tt)*` takes the closing delimiter as well and the arm does not match (the shape of the `println!` and `panic!` arms of the standard library) |
| `MCCompiler!PrivateItemsAreReported`, `ReportedItemsArePrivate` | | the check takes the visibility of the `use` for that of the item it brings in: a `pub use` hides a private item, a private `use` of a public one is reported |
| `MCCompiler!ImportsAreSettled` | | the loop stops when the number of entries stands still, while another pass would still replace one (`glyim-def-map/src/lib.rs:463`) |
| `MCCompiler!AutoTraitsAreProved` | | in a cycle, what was cached under an assumption stays when it is refuted (`auto_trait.rs:94-97`) |
| `MCCompiler!UnifyKeepsItsBindings` | | a bound variable inside a type is not resolved and is bound again (`infer.rs:210`) |
| `MCCompiler!HigherRankedProofsHold` | | a bound `for<'a>` is proved by an impl for one region (`hrtb.rs:1-6`) |
| `MCCompiler!LoopAwaitsAreRejected` | | `root_expr_id` takes the first block of the arena, an inner one, for the body: an await in a loop is not seen and the body is replaced (`lower_async.rs:85-87`) |
| `MCCompiler!SegmentsKeepTheirMeaning` | | statements between awaits are skipped if the first future is ready at once, those behind the last are never emitted, and what they bind is lost on Pending (`lower_async.rs:1131-1134`) |
| `MCCompiler!SingleAwaitsKeepTheirMeaning` | | an await in a branch, an explicit `return`, a body without a value |
| `MCCompiler!PendingIsAnError` | | a pending future spins for ever, where the doc says it panics (`lower_async.rs:19-20`) |
| `MCCompiler!InstructionsAgree` | | LLVM compares unsigned numbers as signed ones and widens negative ones with zeros |
| `MCCompiler!FieldsHaveTheirAddress` | | the pointer to a field is bound to a name that ends with its arm, so that all fields have the address of the first (`lower.rs:430`) |
| `MCCompiler!CallsMatchDefinitions` | | an argument without bytes moves the later ones to the operand before theirs; no function is defined with memory for its result |
| `MCCompiler!NichesFitTheirMemory`, `DiscriminantIsTheVariant` | | an enum the one computer packs into a niche is written with the tag of the other; the discriminant is read where the first variant has its first field (`lower.rs:990-1005`) |
| `MCCompiler!PadsAreOnlyUnwoundTo`, `LocalsKeepTheirSlot` | | a cleanup block another one goes on to starts with a landing pad; `StorageLive` gives a local another slot for the blocks lowered later |
| `MCCompiler!IndexAssumedToAlias` | | `a[i]` and `a[j]` with `i = j` are called disjoint (`visitor.rs:175`, against 134-136) |
| `MCCompiler!CallsComeBack` | | `emit_terminator` gives a return no operand, the machine's `OP_RETURN` pops one: a generated function ends in `EmptyReturn` (`glyim-codegen/src/lib.rs:969`, against `glyim-bytecode-vm/src/lib.rs:13-14`) |
| `MCCompiler!DivisionByZeroTraps` | | the machine computes `x / 0` as 0 and goes on (`glyim-bytecode-vm/src/lib.rs:620`), where the folding leaves it "because the runtime traps on it" (`glyim-codegen/src/lib.rs:466-467`) |
| `MCCompiler!BreaksLeaveTheLoop` | | in a constant the rest of a block is run after a `break` or `continue` in its middle (`eval.rs:1218-1219`) |
| `MCCompiler!AddressesSeeTheirLocals` | | arguments and results of calls are not mirrored into addressable memory |
| `MCCompiler!DecodingIsUndone` | | the operands of Assert, Call and SwitchInt come back changed from decoding and encoding (`glyim-codegen/src/lib.rs:595`) |
| `MCCompiler!HandlesKeepTheirType` | | `substitute_body` makes types in an arena of its own whose handles are read in another (`type_arena.rs:13-17`) |
| `MCCompiler!InstancesAreDistinct`, `MergedBodiesAgree`, `MentionedFunctionsAreEmitted` | | an empty substitution has two handles and an item two instances; deduplication compares less than the body; a function that is mentioned and not called is not collected |
| `MCCompiler!GlueDropsTheElements` | | the glue of an array drops one element (`mono_cache.rs:493`) |
| `MCCompiler!DriversAgree`, `EveryDriverBorrowChecks` | | `to_mir`, `emit_*` run the solver without impls and no borrow check |

Smaller things met on the way, not stated as definitions: imports silently
overwrite declarations, and unresolved ones are not reported; enum variants are
never public, so `use E::*` imports none; `$p:path` matches nothing and `$()*`
does not end; `(a,)` is an error; an impl for `(T, T)` matches `(i32, bool)`;
`can_coerce` lets `&i32` become `&bool`; `occurs` does not end on a cyclic
binding; every type counts as local for coherence; constant folding of `% 0`
panics; in a constant a failed pattern's bindings stay in scope, a `let` that shadows
a variable of a block around it overwrites that one (`eval.rs:508-513`), and
`&&` and `||` evaluate both sides; the VM
numbers arguments from local 0 and MIR from 1; an array index is scaled by the
size of the array in bytecode; in an async body `let x = f().await + 1` loses the
`+ 1`.

## 4. The proofs

Each `*_proofs` module extends the module it is about; `Pilot_proofs` is about
`PilotTurn`, which `Pilot` extends, as well, `Borrowck_proofs` about `Liveness` and
`Reservation`, which `Borrowck` extends, and `Lsp_proofs` about `LspAnalysis` and
`LspLocks`. The theorems hold for every value of the constants that the module's
`ASSUME` admits, so for any number of bodies, blocks, streams, tasks, files, threads,
locals and messages, and any limits.
`ProofBasics` has the lemmas that more than one of them needs: a set of numbers has
a least member and a finite one a greatest, a function that applies a step a
number of times exists, stays where the step stays and, on the subsets of a finite
set, ends with a set the step leaves alone; the points of finitely many
finite blocks are finitely many, and what popping a worklist and pushing on it
leaves there.

| Module | Theorem | States |
|---|---|---|
| `Borrowck_proofs` | `TypeCorrect` | `Spec => []TypeOK`: the bit sets stay within their capacity |
| | `CoverageCorrect` | `Spec => []WaitingCovers` |
| | `PrecisionCorrect` | `Spec => []BelowEverySolution` |
| | `GrowthCorrect` | `Spec => OnlyGrows`: a stored set never shrinks |
| | `AnswerCorrect` | with the worklist empty, `live_out` is that of the least solution |
| | `ImplementationCorrect` | `Spec => ImplementsPromise` |
| | `LiveOutCorrect` | `Spec => []LiveOutIsPathLiveness`: the answer is liveness by execution paths |
| | `ReservationTypeCorrect` | `ReservationSpec => []ReservationTypeOK` |
| | `ReservationCorrect` | `ReservationSpec => []ReservedIsUnread` |
| | `ReservationInCheck` | `CheckSpec => []AnalysedIsUnread`: the same for every loan of the check |
| | `CheckTypeCorrect` | `CheckSpec => []CheckTypeOK` |
| | `LivenessInCheck` | `CheckSpec => []LiveOutIsPathLiveness`: what the check decides by, until its end |
| | `ConflictsCorrect` | `CheckSpec => []NoMissedConflict` |
| `MoveAnalysis_proofs` | `MoveTypeCorrect` | `Spec => []TypeOK`: the bit sets stay within their capacity |
| | `MoveCoverageCorrect` | `Spec => []WaitingCovers` |
| | `MovesCorrect` | `Spec => []NoMissedMove` |
| `Pilot_proofs` | `TurnTypeCorrect` | `Spec => []TypeOK` |
| | `TurnsAreApart` | `Spec => []OneTurn`: two tasks are never in a turn of one stream |
| | `CommitCorrect` | `Spec => []CommittedIsGated` |
| | `RollbackCorrect` | `Spec => []FailedApplyChangesNothing` |
| | `MergeCorrect` | `Spec => []AckedMergeIsDurable` |
| | `MergesAreForever` | `Spec => [][MergesStay]_vars`: the state file never forgets a merge |
| | `AgentTypeCorrect` | `PilotSpec => []AgentOK` |
| | `WavesCorrect` | `PilotSpec => []UpstreamsMergedFirst` |
| `Runtime_proofs` | `ReapedOnceCorrect` | `Spec => []ReapedOnce` |
| `Lsp_proofs` | `LspTypeCorrect` | `Spec => []TypeOK` |
| | `QuietCorrect` | `Spec => []QuietIsCurrent` |
| | `WriterIsAloneCorrect` | `LockSpec => []WriterIsAlone`: a lock that is written is held by nobody else |
| | `LockTypeCorrect` | without hover: `LockSpec => []LockTypeOK` |
| | `NoDeadlockCorrect` | without hover: `LockSpec => []NoDeadlock` |
| `Opt_proofs` | `BodiesStayWellFormed` | `Spec => []TypeOK`: terminators name blocks that are there |
| | `ControlFlowCorrect` | `Spec => []ControlFlowKeepsMeaning` |
| | `ConstantsCorrect` | `Spec => []ConstantsAreTheValues` |
| `Interp_proofs` | `InterpTypeCorrect` | `Spec => []TypeOK` |
| | `LiveRefsCorrect` | `Spec => []LiveRefsResolve` |
| | `CallsCorrect` | `Spec => []CallsAreCounted` |
| | `PanicsCorrect` | `Spec => PanicsFindCleanup` |

Assumptions on constants beyond their types: branches of a body lead to its
blocks (`BodiesAreGraphs`, `MoveBodiesReady`), and no local is read that the bit sets have no room
for (`BodiesReady`); `None` is neither a stream nor a session, since it stands for `Option::None`;
`NoThread` is no thread; the streams of streams.json are finitely many
(`WaveConstants`); requests are those that have a handler (`RequestsHaveHandlers`); the
bodies given to `optimize` have finitely many locals and their terminators name blocks
that are there (`OptAssumption`, `BodiesAreWellFormed`). Each is checked by TLC for the instances of the runs.

**Liveness.** A turn of the loop is first given a form that does not mention the
worklist's order (`Turn`, `ProcessTurn`): the sets of one block are recomputed
and every predecessor whose block changed is waiting. The inductive invariant is
`IInv == TypeOK /\ Queued /\ WaitingCovers`. `WaitingCovers` alone is not enough:
an empty worklist says nothing unless every marked block is really in it, which
is `Queued`. For precision a second invariant rides on the first:
`BelowEverySolution`, by monotonicity of the equations (`FlowMonotone`), and
`Growing`, that each stored set is below what its equation now gives, which is
what makes a recomputed set contain the old one. At the end `WaitingCovers`
gives a solution and `BelowEverySolution` makes it the least (`DoneIsLeast`),
which is the abstract specification's `Correct`. The refinement then has two
cases: a turn that leaves the worklist non-empty stutters, and the one that
empties it answers.

`LiveOutIsPathLiveness` says the same answer without any equation: a local is in
`live_out[b]` exactly if an execution that leaves `b` reaches a read of it through
points that do not write it. The points are collected by `Reach` in as many rounds
as the body has points, which is enough (`ReachCloses`) and gives the least closed
set (`ReachStays`). The two directions use the two invariants. A use on a path is
in the answer by coverage: where the local is not live is closed under the steps
of execution once no block waits, and contains no read of it (`UsedIsLive`). What
is in the answer is used on a path by precision: the map of what is used from
each entry (`UsedMap`) is one the equations do not enlarge (`UsedMapIsClosed`),
so no turn goes beyond it (`ClosedCovers`, `LiveIsUsed`).

**Two-phase reservations.** `ReservedIsUnread` compares the dataflow with the
points that some execution reaches with the reference unread, or read by terminators
only, each collected by `Reach` as above. The dataflow itself knows no such
distinction: what it keeps to are the `SilentPoints`, reached through no
statement that reads the reference. A silent point is unread, or a
terminator was the first to read the reference on the way there
(`SilentIsExplained`). A block's reserved points are silent when its entry is
(`ReservedAreSilent`, along the statements), but the entry is marked by an earlier
turn, from exits that may have changed since: so `ReservedInv == ReservationTypeOK
/\ WorklistApart /\ EntriesAreSilent /\ ExitsAreSilent /\ ReservedIsSilent`.
`WorklistApart`, that no block waits twice, is what keeps the marks of the type
invariant equal to the worklist when its head is taken off.

**Conflicts.** `CheckInv` joins the invariants of the two analyses with what one
phase of `check_borrows` hands to the next. `LivenessIsDone`: the live sets are
used only when they are final, so that all blocks satisfy their equations.
`LoanUnderAnalysis`: each analysis of a loan starts in an initial state of
`Reservation` and takes its steps, so `ReservedInv` holds again for the next loan
(`ReservationInCheck`).
`CacheIsSilent` and `CacheIsFull`: what a finished analysis leaves in the cache is
reached through no statement that reads the reference, and every two-phase loan has an entry when the
walk asks for it. `WalkInOrder` and `WalkedIsReported`: the conflicts of every
statement behind the walk are among the errors. It is left to show that what
`NoMissedConflict` asks for at a point is a conflict the walk finds there
(`ForbiddenIsFound`). For that the loan has to be active: suppose its local is not
live at the point by the backward scan of the block. The points where the scan of
that block, or the iteration for any other, says the same are closed under the
steps that keep the local (`UnscannedStays`), and the scan sees no read of it
among the statements there (`UnscannedIsUnread`); so no read that the scan sees is
reached, against the hypothesis (`SeenIsLive`). The reads in the terminator of the
point's own block are the ones it does not see: they are what the hypothesis
`SeenReads` of the property leaves out. And where the cache
excuses a read as falling into the reservation, either the reference is unread on some
way to it, which is where the property allows the read, or a terminator has activated
the loan, which the property leaves out (`CacheIsSilent`, `SilentIsExplained`). Besides
these `CheckInv` has `IInv`, the values of `phase`, and that reports name loans
(`ReportsNameLoans`). A check that panics reports nothing, and the property speaks of
finished ones; which bodies are answered is `Answers`, model-checked.

**Moves.** `IInv == TypeOK /\ Collected /\ Queued /\ WaitingCovers /\ Drained /\
Unchecked /\ Checked /\ AllChecked`. The first four are those of the liveness
analysis, for a forward dataflow whose entry block is different: `Collected` has
what `collect` made sure of, that a block records nothing the bit sets have no room
for. The others follow the check of the blocks one by one: `Checked` says that in
the blocks behind `next_block` every use of a path that is moved on entry, or by a
statement before it, and not initialised since, is reported (`Remains`,
`ReplayHasMoved`: the replay has grown an arena of its own, so its effects are
compared with those of the dataflow in `EffectsGrow`). At the end all blocks have
their equations, and the points an execution reaches from a move stay among those
where the path is moved (`MovedReach`, by induction over the rounds of
`ReachUninit`). The two exceptions in `NoMissedMove` are where this step fails:
`moved_out` subtracts the block's initialisations after adding its moves, and the
entry block forgets what comes back to it.

**Turns of the pilot.** `IInv == TypeOK /\ OneTurn /\ CommitInv /\ ApplyInv /\
MergeInv`. Everything rests on `OneTurn`: a stream whose turn is past its entry is
in `processing`, and no two tasks are; a lock timeout only leaves a mark behind,
which keeps turns out, never two in. `TurnFrame` then says that an action of a
turn changes its own task and the trees of its own stream, which leaves the other
turns' invariants alone. A commit copies the index, and between the pipeline and
`git add` lies a step in which a late `cargo fmt` may run: so `CommitInv` says
that a gated tree is formatted already, that the worktree is gated while `add`
runs, and that the index holds a gated tree or was written by an orphan. A
rollback only restores the files the turn has recorded: so `ApplyInv` says that
in every other file the worktree and the backup agree, up to formatting. A merge
is on disk when it is acknowledged, but every later save writes all of memory:
so `MergeInv` says that memory knows every merge the state file has, and that
`add_session`, which would replace a session by a fresh one, is only under way for
a stream without one. Hence a save never writes less than the file had
(`MergesAreForever`).

**Waves of the pilot.** `WaveInv == TypeOK /\ MergeInv /\ AgentOK /\ TodoIsReady /\
StartedAreStreams /\ UpstreamsMergedFirst`. When the loop of `compute_waves` has
ended (`WavesSettle`; with a cycle it does not end, and the command starts
nothing), each stream is in a later wave than those it depends on (`WavesRise`,
from the maximum in `Raise`), so by induction over the rounds in which `Ancestors`
collects them all its ancestors are in earlier ones. `run_wave` takes the first wave with an
unmerged stream, so all of those are merged (`EarlierIsMerged`). But the file is
read once, and the streams are assigned and posted later, while the server goes
on: `TodoIsReady` says that the streams still to be assigned are ready as well,
and `MergesAreForever` that what was ready stays so.

**Processes of the runtime.** `IInv == RegistryOK /\ OwnedOnce`. The owners of a
child are its handle in the table and the calls that hold it between taking it
out and collecting it. `OwnedOnce`: a child that has not been reaped has one owner
and one that has been has none, which `ReapedOnce` counts. `RegistryOK` has what
keeps it so: handles come from a counter and are below it, so that an insertion
never replaces a child.

**Analysis in the language server.** `IInv == TypeOK /\ VfsOK /\ FileMapOK /\
AllTracked`. `QuietIsCurrent` speaks of an idle driver only; the invariant follows
each file through the queue. If a message about it is under way, the last one
says what the editor shows; if none is, the driver either works on that very text,
and the tables it has come past hold it (`Written`), or is done with it and all
tables do (`UpToDate`). Files do not disturb each other because the two numberings,
of the `Vfs` and of the `FileMap`, are injective, each by itself: that the two
differ is one of the disagreements above and does not matter here. A path whose
last `try_send` failed is in `lost`, and nothing is said of it.

**Locks of the language server.** `WriterIsAlone` needs no more than the counts:
a reader comes in only while nobody writes, the driver only when the readers are gone
(`AloneInv`). Why nobody waits for ever lies in the handlers. A script is `Disciplined`:
it takes a lock only while it does not hold it and drops it only while it does, which
holds of each handler's scripts one by one (`HandlersAreDisciplined`; for completion,
of all the combinations of its parts) except of hover's, which takes `source_maps`
under its own guard. Then `LockInv` says that a thread holds exactly what its script has
taken and not dropped (`HeldAsScripted`) and waits only in a `read` (`WaitingReads`).
If all were stuck, the driver would wait for the readers of one lock it has claimed,
while it holds no other; each of those readers would wait for that lock too, since no
other is claimed, and a disciplined thread never waits for a lock it holds.

**Passes of the optimiser.** What a body means is an execution that is cut after as
many steps as there are blocks with values of the locals. So the first lemma is that
the cut changes nothing: a run that has not ended by then has been at one block twice
with the same values (`FuelIsEnough`, by counting), so it never ends
(`ControlIsAlone`: where a run goes does not depend on its events), and meanings can be
compared by their runs (`MeaningsAgree`). Removing blocks: if those that stay are
`Closed`, that is, name only each other and have the entry block, then a run of the
renumbered body is one of the old body step by step (`KeepSame`); the ranks that
`Keep` gives the blocks are dense and injective (`RanksAreDense`). Appending a block to
another: one step takes the place of two, and nothing else leads to the block that is
gone (`AppendedSteps`). That this is so when `MergeBlock` appends a block is the point
where a round could go wrong, since the predecessors are those of its beginning and
blocks have been merged since. `RoundOK` says what holds after each block: those not
deleted are closed, and each ends with the terminator of one block of the beginning
(`tail`), no two with that of the same. So if `i` had one predecessor `p` and `p` still
ends in a goto to `i`, then it ends with its own terminator, and no other block ends
with one that names `i` (`MergeStep`). The blocks a search visits are closed when it has
made as many rounds as there are blocks (`ReachableClosed`).

The first two passes are correct only for some bodies, and the proof shows where it
needs what `ConstantsAreTheValues` supposes. Folding and execution differ in what a
type has no room for, in `Cast` and in `Repeat`; `FoldIsExact` says that a fold whose
result is a value of its type is what the operation gives, or the operation is undefined. The
maps of a sweep are those the sweep before left and may stem from each other around a
loop, so a constant in them need not go back to a literal by way of the same map. But each one can be
derived from nothing by the statements of the body: `Found` collects these facts in as many
rounds as there are locals, and `FoldsAreExact` says that this is enough and that every
fold among them is exact. So a fact that is found comes, from found facts, by a
statement that assigns its local, and its constant is a value (`FoundIs`). `Known`, the
found facts and that any local may vary, is what no sweep leaves (`KnownIs`, `KnownKept`,
`SweepKept`). In every run each local that is known to be a constant holds that constant or
nothing yet (`Possible`): if each local is assigned once, the statement that gives the local
its value is the one its fact comes from (`AssignPossible`); with a second assignment
this fails. The "nothing yet" is real, since the map of the end of a block is also put
into the statements before the assignment. So `ReplaceKeeps` runs the two bodies side
by side (`RunsRelated`): where the source holds nothing yet the other may hold a
constant, and what the source does is what the other does until something undefined
happens (`Follows`), which a well-defined source that ends never lets happen, whatever
the calls return (`NeverTainted`). For `dce` the two bodies agree on the locals that
count as used, which needs that every read counts (`StatementsReadUsed`,
`ExecuteRetained`, `DceMeansTheSame`).

The invariant `IInv == TypeOK /\ MeansAsBegun /\ MeansAsSource` carries all this from
pass to pass; `MeansAsSource` says what holds of the maps before the constants are put
in, and that the body then means what the source does.

**Frames of the interpreter.** `IInv == TypeOK /\ FramesInv`. `LiveRefsResolve`
is about the generation of one frame; `FramesInv` relates all of them: until a
panic has left a frame, `frame_depth` is the height of the stack, the generation
of each parked frame is the one recorded for its depth, no frame is there twice,
and a reference to a frame that exists holds its depth. A call records under the
depth it leaves, a return zeroes only the depth it goes back to, and no step
makes a reference to anything but the current frame. `CallsAreCounted` is inductive with
type correctness alone, and unlike `FramesInv` it survives panics: `unwind_step` takes
off as many calls as it leaves frames behind. For `PanicsFindCleanup`
type correctness is enough as well, with the lemma that a panic which finds a caller with
a cleanup edge finds the nearest (`CaughtHasNearest`). Both hold of statements that
have strayed after a panic too; where those lead is the run `statement_panic`.

Each of these invariants was first model-checked on the instance of its run.

Only model-checked: termination and every other liveness property, among them that who
waits for a lock gets it (`LocksAreGranted`), and that a system which should go on can,
which are out of the prover's reach; what the recursive functions of the compiler
compute (everything of `MCCompiler`), which would need induction over data.

## 5. What is left

Not modelled, and why:

* `glyip`: manifests, a lockfile and a cache on disk. Its resolution is
  sequential and its parts are file and process calls.
* The dependency graph of the language server: nothing ever puts an edge into it.
* The standard libraries: Glyim sources; their calls into the runtime are those
  of `Runtime`.
* Foundations (`glyim-core`, `-span`, `-diag`, `-db`), command line and test
  harness: no state machine of their own.
* The rules of the type checker, the lowering of expressions to HIR and MIR, and
  the emission of debug info and intrinsics: translations with one case per
  construct, whose meaning could only be restated.
* Within modelled components: what request handlers answer; the pilot's parsing
  of replies and its context; built-in and procedural macros; projection and
  normalisation in the solver; floats and strings; drop elaboration. The notes in
  `PROJECT.json` have the rest. What drop glue drops is run and stated by no property
  that holds; `GlueDropsTheElements` above is one that does not.
