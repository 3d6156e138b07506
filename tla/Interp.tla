-------------------------------- MODULE Interp --------------------------------
(***************************************************************************)
(* The frames of the MIR interpreter (crates/glyim-mir-interp/src/lib.rs): *)
(* calls, returns, references from one frame into another, panics and      *)
(* unwinding, the two limits, and an interpreter that is used again.       *)
(*                                                                         *)
(* The program is arbitrary: a block is any terminator, and the statements *)
(* before it are any statements.  bb_idx is abstracted to how it was last  *)
(* set: "normal", or "cleanup" by unwinding, until that block begins.      *)
(* Values are numbers (all alike) and references; arithmetic, aggregates   *)
(* and projections other than Deref are left out.  Drop is passed over, as *)
(* a release build does (a debug build stops at its debug_assert).         *)
(*                                                                         *)
(* When a statement fails and unwind_step finds a cleanup block, the loop  *)
(* over the statements goes on with its next index, in the block and the   *)
(* frame that bb_idx and locals now name, and then runs the terminator it  *)
(* cloned before the statements, there too.  bb_idx is "cleanup" in the    *)
(* middle of a block in just this case.                                    *)
(*                                                                         *)
(* A reference is a pair (frame depth, local) in the code.  `id`, `me` and *)
(* `born`, which name every frame ever pushed, are history variables.      *)
(***************************************************************************)
EXTENDS Integers, Sequences, FiniteSets, Functions

CONSTANTS
    Locals,             \* the locals of every function: 0 is the return place
    Refs,               \* the locals whose type is a reference
    ArgCounts,          \* the numbers of arguments functions have
    MaxStmts,           \* the statements before a terminator
    MaxRuns,            \* how often the interpreter is used
    MaxFrames,          \* the frames of all runs together
    step_limit,
    recursion_limit

ASSUME InterpAssumption ==
    /\ Locals \subseteq Nat
    /\ 0 \in Locals
    /\ Refs \subseteq Locals
    /\ ArgCounts \subseteq Nat
    /\ MaxStmts \in Nat /\ MaxRuns \in Nat /\ MaxFrames \in Nat
    /\ step_limit \in Nat /\ recursion_limit \in Nat

VARIABLES
    panics_unwind,       \* the configuration flag
    status,              \* "block", "stmts", or how run_body has ended ("crashed": an index panic)
    cleanup_edge,        \* of the block's terminator: whether it has one
    done,                \* the statements of the block executed so far
    at,                  \* bb_idx
    locals,              \* of the current frame
    current_arg_count,
    call_stack,          \* the parked callers, outermost first
    frame_depth,
    frame_generations,
    next_frame_gen,
    recursion_depth,
    step_count,
    pending_unwind,      \* the run whose panic it holds, 0 for None
    run,                 \* history: the number of this run
    me,                  \* history: the current frame
    born,                \* history: the frames pushed so far
    crossed              \* history: a panic has left a frame in this run

stackVars == <<call_stack, frame_depth, frame_generations, next_frame_gen, recursion_depth>>
frameVars == <<locals, current_arg_count, me>>
vars == <<panics_unwind, status, cleanup_edge, done, at, frameVars, stackVars, step_count,
          pending_unwind, run, born, crossed>>

\* The places that code names: a local, or what it refers to.
Places == [local : Locals, deref : {FALSE}] \cup [local : Refs, deref : {TRUE}]

None == [kind |-> "none"]

Number == [kind |-> "number"]

RefTo(frame, local, id) == [kind |-> "ref", frame |-> frame, local |-> local, id |-> id]

Running == status \in {"block", "stmts"}

-----------------------------------------------------------------------------
(***************************************************************************)
(* Frame-aware references: locals_for_ref_frame, write_target_locals_mut.  *)
(* `depth`, `mine` and `stack` stand for frame_depth, locals and           *)
(* call_stack, which a return reads while it changes them.                 *)
(***************************************************************************)
Generation(frame) ==
    IF frame + 1 \in DOMAIN frame_generations THEN frame_generations[frame + 1] ELSE 0

InStack(stack, frame) ==
    frame < Len(stack) /\ stack[frame + 1].generation = Generation(frame)

Reaches(depth, stack, frame) == frame = depth \/ InStack(stack, frame)

LocalsFor(depth, mine, stack, frame) ==
    IF frame = depth THEN mine ELSE stack[frame + 1].locals

\* What a place holds: a local, or the target of the reference in it; None is an error.
ReadPlace(place) ==
    LET v == locals[place.local] IN
    IF ~place.deref THEN v
    ELSE IF v.kind # "ref" \/ ~Reaches(frame_depth, call_stack, v.frame) THEN None
    ELSE LocalsFor(frame_depth, locals, call_stack, v.frame)[v.local]

\* Whether a write to a place succeeds, and the locals and the stack after it.
Writable(place, mine, stack) ==
    place.deref => LET v == mine[place.local] IN
                   v.kind = "ref" /\ Reaches(frame_depth, stack, v.frame)

LocalsAfterWrite(place, val, mine) ==
    IF ~place.deref THEN [mine EXCEPT ![place.local] = val]
    ELSE IF mine[place.local].frame = frame_depth
         THEN [mine EXCEPT ![mine[place.local].local] = val] ELSE mine

StackAfterWrite(place, val, mine, stack) ==
    IF place.deref /\ mine[place.local].frame # frame_depth
    THEN [stack EXCEPT ![mine[place.local].frame + 1].locals[mine[place.local].local] = val]
    ELSE stack

-----------------------------------------------------------------------------
(***************************************************************************)
(* unwind_step: to the cleanup edge of the block, else to the nearest      *)
(* caller whose call has one, else to the top.                             *)
(***************************************************************************)
Caught == {i \in DOMAIN call_stack : call_stack[i].unwind_target}

\* Mutant: the callers left behind stay counted.
ResumeAtCountingOne(i) ==
    /\ at' = "cleanup"
    /\ call_stack' = SubSeq(call_stack, 1, i - 1)
    /\ recursion_depth' = recursion_depth - 1
    /\ locals' = call_stack[i].locals
    /\ me' = call_stack[i].id

\* frame_depth, frame_generations and current_arg_count stay those of the frame left.
ResumeAt(i) ==
    /\ at' = "cleanup"
    /\ call_stack' = SubSeq(call_stack, 1, i - 1)
    /\ recursion_depth' = recursion_depth - (Len(call_stack) - i + 1)
    /\ locals' = call_stack[i].locals
    /\ me' = call_stack[i].id

\* Mutant: the walk stops at the direct caller.
LastFrame(frames) == Len(call_stack)

NearestCaught(frames) == CHOOSE i \in frames : \A j \in frames : j <= i

\* A panic in a block with or without a cleanup edge; `next` is the status in which
\* the interpreter goes on.
UnwindStep(edge, next) ==
    \/ /\ ~panics_unwind
       /\ status' = "panic"
       /\ UNCHANGED <<at, frameVars, stackVars, pending_unwind, crossed>>
    \/ /\ panics_unwind
       /\ edge
       /\ at' = "cleanup"
       /\ status' = next
       /\ UNCHANGED <<frameVars, stackVars, pending_unwind, crossed>>
    \/ /\ panics_unwind
       /\ ~edge
       /\ Caught # {}
       /\ ResumeAt(NearestCaught(Caught))
       /\ pending_unwind' = IF pending_unwind = 0 THEN run ELSE pending_unwind
       /\ crossed' = TRUE
       /\ status' = next
       /\ UNCHANGED <<current_arg_count, frame_depth, frame_generations, next_frame_gen>>
    \/ /\ panics_unwind
       /\ ~edge
       /\ Caught = {}
       /\ status' = "unwound"
       /\ call_stack' = <<>>
       /\ recursion_depth' = recursion_depth - Len(call_stack)
       /\ pending_unwind' = 0
       /\ crossed' = TRUE
       /\ UNCHANGED <<at, frameVars, frame_depth, frame_generations, next_frame_gen>>

-----------------------------------------------------------------------------
(***************************************************************************)
(* run_current_function.                                                   *)
(***************************************************************************)
StepLimitReached == step_count + 1 > step_limit

BlockBegins ==
    /\ status = "block"
    /\ step_count' = step_count + 1
    /\ IF StepLimitReached
       THEN status' = "timed_out" /\ UNCHANGED cleanup_edge
       ELSE status' = "stmts" /\ cleanup_edge' \in BOOLEAN
    /\ at' = "normal"
    /\ UNCHANGED <<panics_unwind, done, frameVars, stackVars, pending_unwind, run, born, crossed>>

\* The loop goes on with the next index, in whichever block and frame it is now.
StatementFails ==
    /\ UnwindStep(cleanup_edge, "stmts")
    /\ UNCHANGED <<panics_unwind, cleanup_edge, step_count, run, born>>

\* A failing statement has led away from the block whose statements are counted.
Strayed == status = "stmts" /\ at = "cleanup"

\* The block or frame it led to has no such statement, local or target block: the index
\* panics, in the interpreter itself.
IndexPanics ==
    /\ Strayed
    /\ status' = "crashed"
    /\ UNCHANGED <<panics_unwind, cleanup_edge, done, at, frameVars, stackVars, step_count,
                   pending_unwind, run, born, crossed>>

NextStatement ==
    /\ status = "stmts"
    /\ done < MaxStmts
    /\ done' = done + 1

Assign(place, val) ==
    IF val # None /\ Writable(place, locals, call_stack)
    THEN /\ locals' = LocalsAfterWrite(place, val, locals)
         /\ call_stack' = StackAfterWrite(place, val, locals, call_stack)
         /\ UNCHANGED <<panics_unwind, status, cleanup_edge, at, current_arg_count, me,
                        frame_depth, frame_generations, next_frame_gen, recursion_depth,
                        step_count, pending_unwind, run, born, crossed>>
    ELSE StatementFails

AssignNumber(place) == NextStatement /\ Assign(place, Number)

AssignUse(place, from) == NextStatement /\ Assign(place, ReadPlace(from))

\* Rvalue::Ref
AssignRef(local, of) ==
    /\ NextStatement
    /\ Assign([local |-> local, deref |-> FALSE], RefTo(frame_depth, of, me))

IsArgument(local, arg_count) == local >= 1 /\ local <= arg_count

StorageLive(local) ==
    /\ NextStatement
    /\ locals' = IF IsArgument(local, current_arg_count) THEN locals ELSE [locals EXCEPT ![local] = None]
    /\ UNCHANGED <<panics_unwind, status, cleanup_edge, at, current_arg_count, me, stackVars,
                   step_count, pending_unwind, run, born, crossed>>

\* The statements are done.  The terminator is that of the block that began and acts on the
\* block and frame where a failing statement may have led since.  Assert, Call and Drop alone
\* can have a cleanup edge.
AtTerminator ==
    /\ status = "stmts"
    /\ cleanup_edge' = FALSE
    /\ done' = 0
    /\ UNCHANGED <<panics_unwind, step_count, run>>

AtPlainTerminator == AtTerminator /\ ~cleanup_edge

\* Goto and SwitchInt.
Goto ==
    /\ AtPlainTerminator
    /\ status' = "block"
    /\ at' = "normal"
    /\ UNCHANGED <<frameVars, stackVars, pending_unwind, born, crossed>>

\* Unreachable, and a terminator whose operand cannot be read.
TerminatorPanics ==
    /\ AtTerminator
    /\ status' = "panic"
    /\ UNCHANGED <<at, frameVars, stackVars, pending_unwind, born, crossed>>

\* Drop with a cleanup edge goes on like an Assert that holds.
AssertHolds ==
    /\ AtTerminator
    /\ status' = "block"
    /\ at' = "normal"
    /\ UNCHANGED <<frameVars, stackVars, pending_unwind, born, crossed>>

AssertFails ==
    /\ AtTerminator
    /\ UnwindStep(cleanup_edge, "block")
    /\ UNCHANGED born

\* Mutant: the generation is stamped on the frame and not recorded.
RecordNothing == UNCHANGED frame_generations

\* The generation of a frame is recorded under the depth it has while it is current.
RecordGeneration ==
    frame_generations' =
        [d \in 1..(IF Len(frame_generations) > frame_depth THEN Len(frame_generations)
                   ELSE frame_depth + 1) |->
            IF d = frame_depth + 1 THEN next_frame_gen ELSE Generation(d - 1)]

\* The caller's frame is parked and the callee's begins.
EnterCallee(destination, args) ==
    /\ call_stack' = Append(call_stack,
           [locals |-> locals, return_place |-> destination,
            unwind_target |-> cleanup_edge, generation |-> next_frame_gen, id |-> me])
    /\ RecordGeneration
    /\ next_frame_gen' = next_frame_gen + 1
    /\ frame_depth' = frame_depth + 1
    /\ current_arg_count' = Cardinality(DOMAIN args)
    /\ locals' = [l \in Locals |-> IF l \in DOMAIN args THEN args[l] ELSE None]
    /\ me' = born + 1
    /\ born' = born + 1
    /\ at' = "normal"
    /\ status' = "block"

Arguments(arg_count) == {l \in Locals : IsArgument(l, arg_count)}

\* The arguments are numbers or copies of locals of the caller.
Call(destination, arg_count) ==
    /\ AtTerminator
    /\ recursion_depth' = recursion_depth + 1
    /\ IF recursion_depth + 1 > recursion_limit
       THEN /\ status' = "stack_overflow"
            /\ UNCHANGED <<at, frameVars, call_stack, frame_depth, frame_generations,
                           next_frame_gen, born>>
       ELSE /\ born < MaxFrames
            /\ \E args \in [Arguments(arg_count) -> ({Number} \cup Range(locals)) \ {None}] :
                   EnterCallee(destination, args)
    /\ UNCHANGED <<pending_unwind, crossed>>

\* The depth the returning frame was called from loses its generation.
PopDepth ==
    /\ frame_depth' = frame_depth - 1
    /\ frame_generations' = [d \in DOMAIN frame_generations |->
                                IF d = frame_depth THEN 0 ELSE frame_generations[d]]

\* The callee's frame is gone from the stack and frame_depth still names it when the
\* return place is written.
Return ==
    LET n == Len(call_stack)
        frame == call_stack[n]
        below == SubSeq(call_stack, 1, n - 1)
    IN
    /\ AtPlainTerminator
    /\ pending_unwind' = 0
    /\ IF n = 0
       THEN status' = "returned" /\ UNCHANGED <<at, frameVars, stackVars>>
       ELSE IF locals[0] = None \/ ~Writable(frame.return_place, frame.locals, below)
       THEN /\ status' = "panic"
            /\ call_stack' = below
            /\ locals' = IF locals[0] = None THEN locals ELSE frame.locals
            /\ UNCHANGED <<at, current_arg_count, me, frame_depth, frame_generations,
                           next_frame_gen, recursion_depth>>
       ELSE /\ locals' = LocalsAfterWrite(frame.return_place, locals[0], frame.locals)
            /\ call_stack' = StackAfterWrite(frame.return_place, locals[0], frame.locals, below)
            /\ recursion_depth' = recursion_depth - 1
            /\ PopDepth
            /\ me' = frame.id
            /\ at' = "normal"
            /\ status' = "block"
            /\ UNCHANGED <<current_arg_count, next_frame_gen>>
    /\ UNCHANGED <<born, crossed>>

\* run_body on an interpreter that has been used before.  The generations and
\* pending_unwind are left as they are.
RunAgain ==
    /\ ~Running
    /\ status # "crashed"
    /\ run < MaxRuns
    /\ born < MaxFrames
    /\ run' = run + 1
    /\ status' = "block"
    /\ at' = "normal"
    /\ locals' = [l \in Locals |-> None]
    /\ current_arg_count' \in ArgCounts
    /\ call_stack' = <<>>
    /\ frame_depth' = 0
    /\ step_count' = 0
    /\ recursion_depth' = 1
    /\ me' = born + 1
    /\ born' = born + 1
    /\ crossed' = FALSE
    /\ UNCHANGED <<panics_unwind, cleanup_edge, done, frame_generations, next_frame_gen,
                   pending_unwind>>

-----------------------------------------------------------------------------
Init ==
    /\ panics_unwind \in BOOLEAN
    /\ status = "block"
    /\ cleanup_edge = FALSE
    /\ done = 0
    /\ at = "normal"
    /\ locals = [l \in Locals |-> None]
    /\ current_arg_count \in ArgCounts
    /\ call_stack = <<>>
    /\ frame_depth = 0
    /\ frame_generations = <<>>
    /\ next_frame_gen = 0
    /\ recursion_depth = 1
    /\ step_count = 0
    /\ pending_unwind = 0
    /\ run = 1
    /\ me = 1
    /\ born = 1
    /\ crossed = FALSE

Statement ==
    \/ \E place \in Places : AssignNumber(place)
    \/ \E place, from \in Places : AssignUse(place, from)
    \/ \E local, of \in Locals : AssignRef(local, of)
    \/ \E local \in Locals : StorageLive(local)

Next ==
    \/ BlockBegins
    \/ Statement
    \/ IndexPanics
    \/ Goto
    \/ TerminatorPanics
    \/ AssertHolds
    \/ AssertFails
    \/ \E destination \in Places, arg_count \in ArgCounts : Call(destination, arg_count)
    \/ Return
    \/ RunAgain

Spec == Init /\ [][Next]_vars

-----------------------------------------------------------------------------
Values == {None, Number} \cup [kind : {"ref"}, frame : Nat, local : Locals, id : Nat]

Frames == [locals : [Locals -> Values], return_place : Places, unwind_target : BOOLEAN,
           generation : Nat, id : Nat]

\* Counters within their limits; the parked frames and their values are well formed, and
\* frame_depth is never below the height of the stack.
TypeOK ==
    /\ status \in {"block", "stmts", "returned", "panic", "unwound", "timed_out",
                   "stack_overflow", "crashed"}
    /\ {panics_unwind, cleanup_edge, crossed} \subseteq BOOLEAN
    /\ done \in 0..MaxStmts
    /\ at \in {"normal", "cleanup"}
    /\ locals \in [Locals -> Values]
    /\ current_arg_count \in Nat
    /\ call_stack \in Seq(Frames)
    /\ frame_depth \in 0..born
    /\ Len(call_stack) <= frame_depth
    /\ frame_generations \in Seq(Nat)
    /\ Len(frame_generations) <= born
    /\ next_frame_gen \in Nat
    /\ recursion_depth \in Int
    /\ step_count \in 0..(step_limit + 1)
    /\ Running => step_count <= step_limit
    /\ run \in Nat
    /\ pending_unwind \in 0..run
    /\ born \in Nat
    /\ me \in Nat

\* The frames that exist: the current one and the parked ones.
Depth(id) == IF id = me THEN Len(call_stack)
             ELSE (CHOOSE i \in DOMAIN call_stack : call_stack[i].id = id) - 1

LiveIds == {me} \cup {call_stack[i].id : i \in DOMAIN call_stack}

HeldRefs ==
    {v \in Range(locals) \cup UNION {Range(call_stack[i].locals) : i \in DOMAIN call_stack} :
        v.kind = "ref"}

(* A reference into a frame that still exists is never refused and reads that very    *)
(* frame, however many calls and returns, at its depth or below it, lie between the   *)
(* borrow and the use: locals_for_ref_frame with frame_depth, the generation of the   *)
(* slot and the generation of the parked frame (`next(&mut self)` in a for loop).     *)
(* Until a panic has crossed a frame.                                                 *)
LiveRefsResolve ==
    Running /\ ~crossed =>
        \A v \in HeldRefs : v.id \in LiveIds =>
            /\ v.frame = Depth(v.id)
            /\ Reaches(frame_depth, call_stack, v.frame)

(* However often calls, returns and panics follow each other, the recursion limit is  *)
(* held against the frames there are: recursion_depth counts the current frame and    *)
(* the parked ones, those left behind by unwind_step no longer (`saturating_sub`).    *)
CallsAreCounted == Running => recursion_depth = Len(call_stack) + 1

(* A panic that leaves its frame resumes the nearest caller that has a cleanup block  *)
(* for its call, with the locals that it was parked with; callers without one are     *)
(* left behind, and their calls are never taken for returns (unwind_step, "silently   *)
(* treat the propagating panic as a successful return").  A terminator's panic goes   *)
(* on in that cleanup block; a statement's does not, see StatementPanicsAreRouted.    *)
Unwinds == /\ Len(call_stack') < Len(call_stack)
           /\ frame_depth' = frame_depth
           /\ status' # "panic"

ResumesNearestCleanup ==
    /\ status' # "unwound" =>
           LET caller == call_stack[Len(call_stack') + 1] IN
           /\ caller.unwind_target
           /\ me' = caller.id
           /\ locals' = caller.locals
    /\ status' = "block" => at' = "cleanup"
    /\ \A i \in DOMAIN call_stack : call_stack[i].unwind_target => i <= Len(call_stack') + 1

PanicsFindCleanup == [][Unwinds => ResumesNearestCleanup]_vars

-----------------------------------------------------------------------------
(***************************************************************************)
(* What comments say and the code does not do; TLC refutes each.           *)
(***************************************************************************)
(* "a panic while evaluating a statement can be routed there" (the cleanup edge): the *)
(* next block to begin after it is a cleanup block.                                   *)
StatementPanicsAreRouted == [][Strayed /\ status' = "block" => at' = "cleanup"]_vars

(* "Invalidate this depth's generation so a stale `Ref` cannot alias a reused slot":  *)
(* a reference whose frame is gone is refused.                                        *)
StaleRefsAreRefused ==
    Running /\ ~crossed =>
        \A v \in HeldRefs : v.id \notin LiveIds => ~Reaches(frame_depth, call_stack, v.frame)

(* Live references still resolve after a panic has been caught by a caller.           *)
LiveRefsSurviveUnwinding ==
    Running => \A v \in HeldRefs : v.id \in LiveIds => Reaches(frame_depth, call_stack, v.frame)

(* The panic reported at the top is one of this run.                                  *)
UnwindCarriesThisPanic == pending_unwind \in {0, run}

==============================================================================
