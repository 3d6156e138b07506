---------------------------- MODULE Interp_proofs ----------------------------
(***************************************************************************)
(* Proofs about Interp for every program, every number of locals and       *)
(* arguments and all limits.                                               *)
(***************************************************************************)
EXTENDS Interp, FiniteSetTheorems, WellFoundedInduction, TLAPS

\* The inductive invariant, until a panic has left a frame: frame_depth is the height of the stack,
\* each parked frame has the generation recorded for its depth, no frame is there twice, and
\* a reference to a frame that exists holds the depth of that frame.
FramesInv ==
    Running /\ ~crossed =>
        /\ frame_depth = Len(call_stack)
        /\ me <= born
        /\ \A i \in DOMAIN call_stack :
               /\ i \in DOMAIN frame_generations /\ call_stack[i].generation = frame_generations[i]
               /\ call_stack[i].id # me /\ call_stack[i].id <= born
        /\ \A i, j \in DOMAIN call_stack : call_stack[i].id = call_stack[j].id => i = j
        /\ \A v \in HeldRefs :
               /\ v.id <= born
               /\ v.id = me => v.frame = Len(call_stack)
               /\ \A i \in DOMAIN call_stack : v.id = call_stack[i].id => v.frame = i - 1

IInv == TypeOK /\ FramesInv

(***************************************************************************)
(* The operators.                                                          *)
(***************************************************************************)
\* A panic that leaves its frame finds the nearest caller with a cleanup edge, if there is one.
LEMMA CaughtHasNearest ==
    ASSUME TypeOK, Caught # {}
    PROVE  /\ NearestCaught(Caught) \in Caught
           /\ \A j \in Caught : j <= NearestCaught(Caught)
<1> DEFINE n == Len(call_stack)
           T == {n - i : i \in Caught}
<1>1. n \in Nat /\ Caught \subseteq 1..n
  BY DEF TypeOK, Caught
<1>2. T \subseteq Nat /\ T # {}
  <2> HIDE DEF n
  <2>1. PICK i : i \in Caught
    OBVIOUS
  <2>2. n - i \in T
    BY <2>1
  <2>3. \A j \in Caught : n - j \in Nat
    BY <1>1
  <2> QED
    BY <2>2, <2>3
<1> DEFINE R == {ss \in Nat \X Nat : ss[1] < ss[2]}
<1>3. PICK x \in T : \A y \in T : <<y, x>> \notin R
  <2>1. IsWellFoundedOn(R, Nat)
    BY NatLessThanWellFounded DEF OpToRel
  <2> HIDE DEF R, T
  <2> QED
    BY <1>2, <2>1, WFMin
<1>4. \A y \in T : x <= y
  <2> HIDE DEF T, n
  <2>1. SUFFICES ASSUME NEW y \in T, y < x PROVE FALSE
    BY <1>2
  <2>2. <<y, x>> \in Nat \X Nat
    BY <1>2
  <2>3. <<y, x>> \in R
    BY <2>1, <2>2
  <2> QED
    BY <1>3, <2>3
<1>5. PICK i \in Caught : x = n - i
  OBVIOUS
<1>6. \A j \in Caught : j <= i
  <2> HIDE DEF n
  <2>1. \A j \in Caught : n - i <= n - j
    BY <1>4, <1>5
  <2>2. SUFFICES ASSUME NEW j \in Caught PROVE j <= i
    OBVIOUS
  <2>3. n \in Nat /\ i \in Nat /\ j \in Nat /\ n - i <= n - j
    BY <1>1, <2>1
  <2> QED
    BY <2>3
<1> QED
  BY <1>6 DEF NearestCaught

\* Reading a place gives a value, and a reference that is read is one that is held.
LEMMA ReadGivesValue ==
    ASSUME TypeOK, NEW place \in Places
    PROVE  /\ ReadPlace(place) \in Values
           /\ ReadPlace(place).kind = "ref" => ReadPlace(place) \in HeldRefs
<1> DEFINE v == locals[place.local]
<1>1. place.local \in Locals /\ locals \in [Locals -> Values] /\ v \in Values
  BY InterpAssumption DEF Places, TypeOK
<1>2. v \in Range(locals)
  BY <1>1 DEF Range
<1>3. CASE ~place.deref
  BY <1>1, <1>2, <1>3 DEF ReadPlace, HeldRefs
<1>4. CASE place.deref /\ (v.kind # "ref" \/ ~Reaches(frame_depth, call_stack, v.frame))
  BY <1>4 DEF ReadPlace, Values, None
<1>5. CASE place.deref /\ v.kind = "ref" /\ Reaches(frame_depth, call_stack, v.frame)
  <2>1. v.frame \in Nat /\ v.local \in Locals
    BY <1>1, <1>5 DEF Values, None, Number
  <2>2. CASE v.frame = frame_depth
    <3>1. ReadPlace(place) = locals[v.local]
      BY <1>5, <2>2 DEF ReadPlace, LocalsFor
    <3>2. locals[v.local] \in Range(locals)
      BY <1>1, <2>1 DEF Range
    <3> QED
      BY <1>1, <2>1, <3>1, <3>2 DEF HeldRefs
  <2>3. CASE v.frame # frame_depth
    <3>1. PICK k \in DOMAIN call_stack : k = v.frame + 1
      BY <1>5, <2>1, <2>3 DEF Reaches, InStack, TypeOK
    <3>2. ReadPlace(place) = call_stack[k].locals[v.local]
      BY <1>5, <2>3, <3>1 DEF ReadPlace, LocalsFor
    <3>3. call_stack[k].locals \in [Locals -> Values]
      <4>1. call_stack[k] \in Frames
        BY DEF TypeOK
      <4> QED
        BY <4>1 DEF Frames
    <3>4. ReadPlace(place) \in Range(call_stack[k].locals)
      BY <2>1, <3>2, <3>3 DEF Range
    <3>5. ReadPlace(place) \in UNION {Range(call_stack[i].locals) : i \in DOMAIN call_stack}
      BY <3>4
    <3> QED
      BY <2>1, <3>2, <3>3, <3>5 DEF HeldRefs
  <2> QED
    BY <2>2, <2>3
<1> QED
  BY <1>3, <1>4, <1>5

\* Writing a place, through a reference that resolves or not, changes one local, of the current
\* frame or of a parked one.
LEMMA WriteChangesOne ==
    ASSUME frame_depth \in Nat, NEW place \in Places, NEW val \in Values,
           NEW mine \in [Locals -> Values], NEW stack \in Seq(Frames), Writable(place, mine, stack)
    PROVE  /\ LocalsAfterWrite(place, val, mine) \in [Locals -> Values]
           /\ \A l \in Locals : LocalsAfterWrite(place, val, mine)[l] \in {val, mine[l]}
           /\ StackAfterWrite(place, val, mine, stack) \in Seq(Frames)
           /\ Len(StackAfterWrite(place, val, mine, stack)) = Len(stack)
           /\ \A i \in DOMAIN stack :
                  LET f == StackAfterWrite(place, val, mine, stack)[i] IN
                  /\ f.generation = stack[i].generation
                  /\ f.id = stack[i].id
                  /\ \A l \in Locals : f.locals[l] \in {val, stack[i].locals[l]}
<1> DEFINE v == mine[place.local]
<1>1. place.local \in Locals
  BY InterpAssumption DEF Places
<1>2. CASE ~place.deref
  BY <1>1, <1>2 DEF LocalsAfterWrite, StackAfterWrite
<1>3. CASE place.deref
  <2>1. v.frame \in Nat /\ v.local \in Locals /\ Reaches(frame_depth, stack, v.frame)
    BY <1>1, <1>3 DEF Writable, Values, None, Number
  <2>2. CASE v.frame = frame_depth
    BY <1>3, <2>1, <2>2 DEF LocalsAfterWrite, StackAfterWrite
  <2>3. CASE v.frame # frame_depth
    <3> DEFINE k == v.frame + 1
               after == StackAfterWrite(place, val, mine, stack)
    <3>1. k \in DOMAIN stack
      BY <2>1, <2>3 DEF Reaches, InStack
    <3>2. LocalsAfterWrite(place, val, mine) = mine
      BY <1>3, <2>3 DEF LocalsAfterWrite
    <3>3. after = [stack EXCEPT ![k].locals[v.local] = val]
      BY <1>3, <2>3 DEF StackAfterWrite
    <3>4. after = [stack EXCEPT ![k] = [stack[k] EXCEPT !.locals = [stack[k].locals EXCEPT ![v.local] = val]]]
      BY <3>3
    <3>5. stack[k] \in Frames
      BY <3>1
    <3>6. [stack[k] EXCEPT !.locals = [stack[k].locals EXCEPT ![v.local] = val]] \in Frames
      BY <2>1, <3>5 DEF Frames
    <3>7. after \in Seq(Frames) /\ Len(after) = Len(stack)
      BY <3>1, <3>4, <3>6
    <3>8. \A i \in DOMAIN stack : i # k => after[i] = stack[i]
      BY <3>4
    <3>9. after[k] = [stack[k] EXCEPT !.locals = [stack[k].locals EXCEPT ![v.local] = val]]
      BY <3>1, <3>4
    <3>10. /\ after[k].generation = stack[k].generation
           /\ after[k].id = stack[k].id
           /\ \A l \in Locals : after[k].locals[l] \in {val, stack[k].locals[l]}
      BY <2>1, <3>5, <3>9 DEF Frames
    <3> QED
      BY <3>2, <3>7, <3>8, <3>10
  <2> QED
    BY <2>2, <2>3
<1> QED
  BY <1>2, <1>3

\* The frames below one of the stack.
LEMMA FramesBelow ==
    ASSUME NEW stack \in Seq(Frames), NEW i \in 1..Len(stack)
    PROVE  LET below == SubSeq(stack, 1, i - 1) IN
           /\ below \in Seq(Frames) /\ Len(below) = i - 1
           /\ \A j \in 1..(i - 1) : below[j] = stack[j]
  OBVIOUS

(***************************************************************************)
(* Type correctness.                                                       *)
(***************************************************************************)
\* The empty interpreter.
LEMMA TypeInit == Init => TypeOK
<1> SUFFICES ASSUME Init PROVE TypeOK
  OBVIOUS
<1>1. locals \in [Locals -> Values]
  BY DEF Init, Values
<1>2. call_stack \in Seq(Frames) /\ frame_generations \in Seq(Nat)
  BY DEF Init
<1>3. Len(call_stack) = 0 /\ Len(frame_generations) = 0
  BY DEF Init
<1>4. 0 \in 0..MaxStmts /\ 0 \in 0..(step_limit + 1) /\ 0 <= step_limit
  BY InterpAssumption
<1>5. current_arg_count \in Nat
  BY InterpAssumption DEF Init
<1>6. /\ {panics_unwind, cleanup_edge, crossed} \subseteq BOOLEAN
      /\ status = "block" /\ at = "normal"
  BY DEF Init
<1>7. /\ done \in 0..MaxStmts /\ step_count \in 0..(step_limit + 1) /\ step_count <= step_limit
      /\ frame_depth \in 0..born /\ Len(call_stack) <= frame_depth
      /\ Len(frame_generations) <= born
      /\ next_frame_gen \in Nat /\ recursion_depth \in Int /\ run \in Nat
      /\ pending_unwind \in 0..run /\ born \in Nat /\ me \in Nat
  BY <1>3, <1>4 DEF Init
<1> QED
  BY <1>1, <1>2, <1>5, <1>6, <1>7 DEF TypeOK

\* unwind_step leaves the frames well formed, at a cleanup edge, in a caller, or at the top.
LEMMA UnwindType ==
    ASSUME TypeOK, NEW edge, NEW next \in {"block", "stmts"}, UnwindStep(edge, next), Running,
           UNCHANGED <<panics_unwind, step_count, run, born>>, cleanup_edge' \in BOOLEAN,
           done' \in 0..MaxStmts
    PROVE  TypeOK'
<1>1. CASE ~panics_unwind /\ status' = "panic"
           /\ UNCHANGED <<at, frameVars, stackVars, pending_unwind, crossed>>
  BY <1>1 DEF TypeOK, Running, frameVars, stackVars
<1>2. CASE at' = "cleanup" /\ status' = next
           /\ UNCHANGED <<frameVars, stackVars, pending_unwind, crossed>>
  BY <1>2 DEF TypeOK, Running, frameVars, stackVars
<1>3. CASE /\ Caught # {}
           /\ ResumeAt(NearestCaught(Caught))
           /\ pending_unwind' = IF pending_unwind = 0 THEN run ELSE pending_unwind
           /\ crossed' = TRUE
           /\ status' = next
           /\ UNCHANGED <<current_arg_count, frame_depth, frame_generations, next_frame_gen>>
  <2>1. PICK i \in DOMAIN call_stack : i = NearestCaught(Caught)
    BY <1>3, CaughtHasNearest DEF Caught
  <2>2. call_stack[i] \in Frames /\ i \in 1..Len(call_stack)
    BY DEF TypeOK
  <2>3. locals' \in [Locals -> Values] /\ me' \in Nat
    BY <1>3, <2>1, <2>2 DEF ResumeAt, Frames
  <2>4. call_stack' \in Seq(Frames) /\ Len(call_stack') = i - 1
    <3>1. call_stack' = SubSeq(call_stack, 1, i - 1) /\ call_stack \in Seq(Frames)
      BY <1>3, <2>1 DEF ResumeAt, TypeOK
    <3> QED
      BY <2>2, <3>1, FramesBelow
  <2>5. recursion_depth' \in Int /\ at' = "cleanup"
    BY <1>3, <2>1, <2>2 DEF ResumeAt, TypeOK
  <2>6. pending_unwind' \in 0..run'
    BY <1>3 DEF TypeOK
  <2>7. Len(call_stack') <= frame_depth'
    BY <1>3, <2>2, <2>4 DEF TypeOK
  <2> QED
    BY <1>3, <2>3, <2>4, <2>5, <2>6, <2>7 DEF TypeOK, Running
<1>4. CASE /\ status' = "unwound"
           /\ call_stack' = <<>>
           /\ recursion_depth' = recursion_depth - Len(call_stack)
           /\ pending_unwind' = 0
           /\ crossed' = TRUE
           /\ UNCHANGED <<at, frameVars, frame_depth, frame_generations, next_frame_gen>>
  <2>1. call_stack' \in Seq(Frames) /\ Len(call_stack') = 0 /\ recursion_depth' \in Int
    BY <1>4 DEF TypeOK
  <2> QED
    BY <1>4, <2>1 DEF TypeOK, Running, frameVars
<1> QED
  BY <1>1, <1>2, <1>3, <1>4 DEF UnwindStep

\* An assignment writes a value, or fails.
LEMMA AssignType ==
    ASSUME TypeOK, NextStatement, NEW place \in Places, NEW val \in Values, Assign(place, val)
    PROVE  TypeOK'
<1>1. done' \in 0..MaxStmts /\ Running
  BY InterpAssumption DEF TypeOK, NextStatement, Running
<1>2. CASE val # None /\ Writable(place, locals, call_stack)
  <2>1. /\ locals' = LocalsAfterWrite(place, val, locals)
        /\ call_stack' = StackAfterWrite(place, val, locals, call_stack)
        /\ UNCHANGED <<panics_unwind, status, cleanup_edge, at, current_arg_count, me,
                        frame_depth, frame_generations, next_frame_gen, recursion_depth,
                        step_count, pending_unwind, run, born, crossed>>
    BY <1>2 DEF Assign
  <2>2. /\ locals' \in [Locals -> Values] /\ call_stack' \in Seq(Frames)
        /\ Len(call_stack') = Len(call_stack)
    BY <1>2, <2>1, WriteChangesOne DEF TypeOK
  <2> QED
    BY <1>1, <2>1, <2>2 DEF TypeOK, Running
<1>3. CASE ~(val # None /\ Writable(place, locals, call_stack))
  <2>1. UnwindStep(cleanup_edge, "stmts") /\ UNCHANGED <<panics_unwind, cleanup_edge, step_count, run, born>>
    BY <1>3 DEF Assign, StatementFails
  <2> QED
    BY <1>1, <2>1, UnwindType DEF TypeOK
<1> QED
  BY <1>2, <1>3

\* The parked frames, the generations and the new frame after a call.
LEMMA CallType ==
    ASSUME TypeOK, NEW destination \in Places, NEW arg_count \in ArgCounts, Call(destination, arg_count)
    PROVE  TypeOK'
<1>1. /\ status = "stmts" /\ cleanup_edge' = FALSE /\ done' = 0
      /\ recursion_depth' = recursion_depth + 1
      /\ UNCHANGED <<panics_unwind, step_count, run, pending_unwind, crossed>>
  BY DEF Call, AtTerminator
<1>0. done' \in 0..MaxStmts /\ recursion_depth' \in Int
  BY <1>1, InterpAssumption DEF TypeOK
<1>2. CASE recursion_depth + 1 > recursion_limit
  <2>1. /\ status' = "stack_overflow"
        /\ UNCHANGED <<at, frameVars, call_stack, frame_depth, frame_generations, next_frame_gen, born>>
    BY <1>2 DEF Call
  <2> QED
    BY <1>0, <1>1, <2>1 DEF TypeOK, Running, frameVars
<1>3. CASE ~(recursion_depth + 1 > recursion_limit)
  <2>1. PICK args \in [Arguments(arg_count) -> ({Number} \cup Range(locals)) \ {None}] :
            EnterCallee(destination, args)
    BY <1>3 DEF Call
  <2>2. Range(locals) \subseteq Values
    BY DEF TypeOK, Range
  <2>3. locals' \in [Locals -> Values]
    BY <2>1, <2>2 DEF EnterCallee, Values
  <2>4. current_arg_count' \in Nat
    <3>1. arg_count \in Nat
      BY InterpAssumption
    <3>2. Arguments(arg_count) \subseteq 1..arg_count
      <4>1. SUFFICES ASSUME NEW l \in Locals, l >= 1, l <= arg_count PROVE l \in 1..arg_count
        BY DEF Arguments, IsArgument
      <4>2. l \in Nat
        BY InterpAssumption
      <4> QED
        BY <3>1, <4>1, <4>2
    <3>3. IsFiniteSet(Arguments(arg_count))
      BY <3>1, <3>2, FS_Interval, FS_Subset
    <3>4. Cardinality(Arguments(arg_count)) \in Nat
      BY <3>3, FS_CardinalityType
    <3> QED
      BY <2>1, <3>4 DEF EnterCallee
  <2> DEFINE new == [locals |-> locals, return_place |-> destination,
                     unwind_target |-> cleanup_edge, generation |-> next_frame_gen, id |-> me]
  <2>5. new \in Frames
    BY DEF TypeOK, Frames
  <2>6. call_stack' = Append(call_stack, new)
    BY <2>1 DEF EnterCallee
  <2>7. call_stack' \in Seq(Frames) /\ Len(call_stack') = Len(call_stack) + 1
    <3> HIDE DEF new
    <3> QED
      BY <2>5, <2>6 DEF TypeOK
  <2>8. /\ frame_generations' \in Seq(Nat)
        /\ Len(frame_generations') <= born + 1
    <3> DEFINE m == IF Len(frame_generations) > frame_depth THEN Len(frame_generations)
                    ELSE frame_depth + 1
    <3>1. m \in Nat /\ m <= born + 1
      BY DEF TypeOK
    <3>2. \A d \in 1..m : (IF d = frame_depth + 1 THEN next_frame_gen ELSE Generation(d - 1)) \in Nat
      BY DEF TypeOK, Generation
    <3>3. frame_generations' = [d \in 1..m |-> IF d = frame_depth + 1 THEN next_frame_gen
                                              ELSE Generation(d - 1)]
      BY <2>1 DEF EnterCallee, RecordGeneration
    <3> HIDE DEF m
    <3>4. frame_generations' \in [1..m -> Nat]
      BY <3>2, <3>3
    <3> QED
      BY <3>1, <3>4
  <2>9. /\ next_frame_gen' = next_frame_gen + 1 /\ frame_depth' = frame_depth + 1
        /\ me' = born + 1 /\ born' = born + 1 /\ at' = "normal" /\ status' = "block"
    BY <2>1 DEF EnterCallee
  <2>10. /\ Len(call_stack') <= frame_depth' /\ frame_depth' \in 0..born'
         /\ Len(frame_generations') <= born'
         /\ next_frame_gen' \in Nat /\ born' \in Nat /\ me' \in Nat
    BY <2>7, <2>8, <2>9 DEF TypeOK
  <2> QED
    BY <1>0, <1>1, <2>3, <2>4, <2>7, <2>8, <2>9, <2>10 DEF TypeOK, Running
<1> QED
  BY <1>2, <1>3

\* A return pops a frame, and the caller gets the value or the interpreter stops.
LEMMA ReturnType ==
    ASSUME TypeOK, Return
    PROVE  TypeOK'
<1> DEFINE n == Len(call_stack)
           frame == call_stack[n]
           below == SubSeq(call_stack, 1, n - 1)
<1>1. /\ status = "stmts" /\ cleanup_edge' = FALSE /\ done' = 0 /\ pending_unwind' = 0
      /\ UNCHANGED <<panics_unwind, step_count, run, born, crossed>>
  BY DEF Return, AtPlainTerminator, AtTerminator
<1>2. done' \in 0..MaxStmts /\ pending_unwind' \in 0..run'
  BY <1>1, InterpAssumption DEF TypeOK
<1>3. CASE n = 0
  <2>1. status' = "returned" /\ UNCHANGED <<at, frameVars, stackVars>>
    BY <1>3 DEF Return
  <2> QED
    BY <1>1, <1>2, <2>1 DEF TypeOK, Running, frameVars, stackVars
<1>4. CASE n # 0
  <2>1. n \in 1..Len(call_stack) /\ frame \in Frames /\ call_stack \in Seq(Frames)
    BY <1>4 DEF TypeOK
  <2>2. below \in Seq(Frames) /\ Len(below) = n - 1
    BY <2>1, FramesBelow
  <2>3. frame.locals \in [Locals -> Values] /\ frame.return_place \in Places /\ frame.id \in Nat
    BY <2>1 DEF Frames
  <2>4. locals[0] \in Values
    BY InterpAssumption DEF TypeOK
  <2>5. CASE locals[0] = None \/ ~Writable(frame.return_place, frame.locals, below)
    <3>1. /\ status' = "panic"
          /\ call_stack' = below
          /\ locals' = IF locals[0] = None THEN locals ELSE frame.locals
          /\ UNCHANGED <<at, current_arg_count, me, frame_depth, frame_generations,
                         next_frame_gen, recursion_depth>>
      BY <1>4, <2>5 DEF Return
    <3>2. locals' \in [Locals -> Values]
      BY <2>3, <3>1 DEF TypeOK
    <3>3. call_stack' \in Seq(Frames) /\ Len(call_stack') <= frame_depth'
      BY <2>1, <2>2, <3>1 DEF TypeOK
    <3> QED
      BY <1>1, <1>2, <3>1, <3>2, <3>3 DEF TypeOK, Running
  <2>6. CASE ~(locals[0] = None \/ ~Writable(frame.return_place, frame.locals, below))
    <3>1. /\ locals' = LocalsAfterWrite(frame.return_place, locals[0], frame.locals)
          /\ call_stack' = StackAfterWrite(frame.return_place, locals[0], frame.locals, below)
          /\ recursion_depth' = recursion_depth - 1
          /\ PopDepth
          /\ me' = frame.id
          /\ at' = "normal"
          /\ status' = "block"
          /\ UNCHANGED <<current_arg_count, next_frame_gen>>
      BY <1>4, <2>6 DEF Return
    <3>2. /\ locals' \in [Locals -> Values] /\ call_stack' \in Seq(Frames)
          /\ Len(call_stack') = n - 1
      <4> HIDE DEF n, frame, below
      <4>1. frame_depth \in Nat
        BY DEF TypeOK
      <4> QED
        BY <2>2, <2>3, <2>4, <2>6, <3>1, <4>1, WriteChangesOne
    <3>3. frame_depth' \in 0..born' /\ Len(call_stack') <= frame_depth'
      BY <1>1, <2>1, <3>1, <3>2 DEF TypeOK, PopDepth
    <3>4. frame_generations' \in Seq(Nat) /\ Len(frame_generations') = Len(frame_generations)
      <4>1. frame_generations' = [d \in DOMAIN frame_generations |->
                                    IF d = frame_depth THEN 0 ELSE frame_generations[d]]
        BY <3>1 DEF PopDepth
      <4>2. frame_generations \in Seq(Nat)
        BY DEF TypeOK
      <4>3. \A d \in 1..Len(frame_generations) : frame_generations[d] \in Nat
        BY <4>2
      <4>4. /\ Len(frame_generations) \in Nat
            /\ frame_generations' \in [1..Len(frame_generations) -> Nat]
        BY <4>1, <4>2, <4>3
      <4> QED
        BY <4>4
    <3>5. recursion_depth' \in Int
      BY <3>1 DEF TypeOK
    <3> QED
      BY <1>1, <1>2, <2>3, <3>1, <3>2, <3>3, <3>4, <3>5 DEF TypeOK, Running
  <2> QED
    BY <2>5, <2>6
<1> QED
  BY <1>3, <1>4

\* A new run starts from an empty stack.
LEMMA RunAgainType ==
    ASSUME TypeOK, RunAgain
    PROVE  TypeOK'
<1>1. locals' \in [Locals -> Values]
  BY DEF RunAgain, Values
<1>2. call_stack' \in Seq(Frames) /\ Len(call_stack') = 0
  BY DEF RunAgain
<1>3. step_count' \in 0..(step_limit + 1) /\ step_count' <= step_limit
  BY InterpAssumption DEF RunAgain
<1>4. current_arg_count' \in Nat
  BY InterpAssumption DEF RunAgain
<1>5. /\ frame_depth' \in 0..born' /\ Len(call_stack') <= frame_depth'
      /\ Len(frame_generations') <= born' /\ recursion_depth' \in Int
      /\ run' \in Nat /\ pending_unwind' \in 0..run' /\ born' \in Nat /\ me' \in Nat
  BY <1>2 DEF RunAgain, TypeOK
<1>6. /\ status' = "block" /\ at' = "normal" /\ crossed' = FALSE
      /\ UNCHANGED <<panics_unwind, cleanup_edge, done, frame_generations, next_frame_gen>>
  BY DEF RunAgain
<1> QED
  BY <1>1, <1>2, <1>3, <1>4, <1>5, <1>6 DEF TypeOK, Running

\* Every step keeps the types.
LEMMA TypeStep ==
    ASSUME TypeOK, [Next]_vars
    PROVE  TypeOK'
<1>0. 0 \in 0..MaxStmts
  BY InterpAssumption
<1>1. ASSUME BlockBegins PROVE TypeOK'
  <2>1. step_count' \in 0..(step_limit + 1) /\ (~StepLimitReached => step_count' <= step_limit)
    BY <1>1, InterpAssumption DEF BlockBegins, TypeOK, Running, StepLimitReached
  <2>2. /\ status' \in {"timed_out", "stmts"} /\ cleanup_edge' \in BOOLEAN
        /\ status' = "stmts" => ~StepLimitReached
    BY <1>1 DEF BlockBegins, TypeOK
  <2> QED
    BY <1>1, <2>1, <2>2 DEF BlockBegins, TypeOK, Running, frameVars, stackVars
<1>2. ASSUME NEW place \in Places, AssignNumber(place) PROVE TypeOK'
  <2>1. Number \in Values
    BY DEF Values
  <2> QED
    BY <1>2, <2>1, AssignType DEF AssignNumber
<1>3. ASSUME NEW place \in Places, NEW from \in Places, AssignUse(place, from) PROVE TypeOK'
  BY <1>3, AssignType, ReadGivesValue DEF AssignUse
<1>4. ASSUME NEW local \in Locals, NEW of \in Locals, AssignRef(local, of) PROVE TypeOK'
  <2>1. RefTo(frame_depth, of, me) \in Values
    BY DEF Values, RefTo, TypeOK
  <2>2. [local |-> local, deref |-> FALSE] \in Places
    BY DEF Places
  <2> QED
    BY <1>4, <2>1, <2>2, AssignType DEF AssignRef
<1>5. ASSUME NEW local \in Locals, StorageLive(local) PROVE TypeOK'
  <2>1. locals' \in [Locals -> Values]
    BY <1>5 DEF StorageLive, TypeOK, Values
  <2>2. done' \in 0..MaxStmts
    BY <1>5, InterpAssumption DEF StorageLive, NextStatement, TypeOK
  <2> QED
    BY <1>5, <2>1, <2>2 DEF StorageLive, TypeOK, Running, stackVars
<1>6. ASSUME Goto PROVE TypeOK'
  BY <1>0, <1>6 DEF Goto, AtPlainTerminator, AtTerminator, TypeOK, Running, frameVars, stackVars
<1>7. ASSUME TerminatorPanics PROVE TypeOK'
  BY <1>0, <1>7 DEF TerminatorPanics, AtTerminator, TypeOK, Running, frameVars, stackVars
<1>8. ASSUME AssertHolds PROVE TypeOK'
  BY <1>0, <1>8 DEF AssertHolds, AtTerminator, TypeOK, Running, frameVars, stackVars
<1>9. ASSUME AssertFails PROVE TypeOK'
  <2>1. Running /\ cleanup_edge' \in BOOLEAN /\ done' \in 0..MaxStmts
    BY <1>0, <1>9 DEF AssertFails, AtTerminator, Running
  <2> QED
    BY <1>9, <2>1, UnwindType DEF AssertFails, AtTerminator
<1>10. ASSUME IndexPanics PROVE TypeOK'
  BY <1>10 DEF IndexPanics, Strayed, TypeOK, Running, frameVars, stackVars
<1>11. ASSUME UNCHANGED vars PROVE TypeOK'
  BY <1>11 DEF vars, TypeOK, Running, frameVars, stackVars
<1> QED
  BY <1>1, <1>2, <1>3, <1>4, <1>5, <1>6, <1>7, <1>8, <1>9, <1>10, <1>11, CallType, ReturnType, RunAgainType
     DEF Next, Statement

(* The interpreter's state is well formed: the counters stay within their limits, and what   *)
(* is parked on the call stack are frames of values.                                         *)
THEOREM InterpTypeCorrect == Spec => []TypeOK
<1> QED
  BY TypeInit, TypeStep, PTL DEF Spec

(***************************************************************************)
(* References.                                                             *)
(***************************************************************************)
\* What it takes for a reference to be held after a step.
LEMMA HeldNext ==
    ASSUME TypeOK', NEW v \in HeldRefs'
    PROVE  /\ v.kind = "ref"
           /\ \/ \E l \in Locals : v = locals'[l]
              \/ \E i \in DOMAIN call_stack', l \in Locals : v = call_stack'[i].locals[l]
<1>1. v.kind = "ref" /\ (v \in Range(locals)' \/ \E i \in DOMAIN call_stack' : v \in Range(call_stack'[i].locals))
  BY DEF HeldRefs
<1>2. locals' \in [Locals -> Values]
  BY DEF TypeOK
<1>3. \A i \in DOMAIN call_stack' : call_stack'[i].locals \in [Locals -> Values]
  <2>0. call_stack' \in Seq(Frames)
    BY DEF TypeOK
  <2>1. \A i \in DOMAIN call_stack' : call_stack'[i] \in Frames
    BY <2>0
  <2> QED
    BY <2>1 DEF Frames
<1> QED
  BY <1>1, <1>2, <1>3 DEF Range

\* What is a reference and in a local of the current frame, or of a parked one, is held.
LEMMA HeldNow ==
    ASSUME TypeOK, NEW l \in Locals
    PROVE  /\ locals[l].kind = "ref" => locals[l] \in HeldRefs
           /\ \A i \in DOMAIN call_stack :
                  call_stack[i].locals[l].kind = "ref" => call_stack[i].locals[l] \in HeldRefs
<1>1. locals \in [Locals -> Values]
  BY DEF TypeOK
<1>2. \A i \in DOMAIN call_stack : call_stack[i].locals \in [Locals -> Values]
  <2>1. \A i \in DOMAIN call_stack : call_stack[i] \in Frames
    BY DEF TypeOK
  <2> QED
    BY <2>1 DEF Frames
<1>3. locals[l] \in Range(locals)
  BY <1>1 DEF Range
<1>4. ASSUME NEW i \in DOMAIN call_stack
      PROVE  call_stack[i].locals[l]
                \in UNION {Range(call_stack[k].locals) : k \in DOMAIN call_stack}
  <2>1. call_stack[i].locals[l] \in Range(call_stack[i].locals)
    BY <1>2 DEF Range
  <2> QED
    BY <2>1
<1> QED
  BY <1>3, <1>4 DEF HeldRefs

\* A step that neither pushes nor pops keeps the invariant if what it stores is held already, or
\* refers to the current frame.
LEMMA SameFrames ==
    ASSUME IInv, TypeOK', Running, ~crossed,
           UNCHANGED <<frame_depth, frame_generations, me, born>>,
           Len(call_stack') = Len(call_stack),
           \A i \in DOMAIN call_stack : /\ call_stack'[i].generation = call_stack[i].generation
                                        /\ call_stack'[i].id = call_stack[i].id,
           \A v \in HeldRefs' : v \in HeldRefs \/ (v.id = me /\ v.frame = frame_depth)
    PROVE  FramesInv'
<1>1. DOMAIN call_stack' = DOMAIN call_stack
  BY DEF IInv, TypeOK
<1>2. /\ frame_depth' = Len(call_stack')
      /\ me' <= born'
      /\ \A i \in DOMAIN call_stack' :
               /\ i \in DOMAIN frame_generations' /\ call_stack'[i].generation = frame_generations'[i]
               /\ call_stack'[i].id # me' /\ call_stack'[i].id <= born'
      /\ \A i, j \in DOMAIN call_stack' : call_stack'[i].id = call_stack'[j].id => i = j
  BY <1>1 DEF IInv, FramesInv
<1>3. ASSUME NEW v \in HeldRefs'
      PROVE  /\ v.id <= born
             /\ v.id = me => v.frame = Len(call_stack)
             /\ \A i \in DOMAIN call_stack : v.id = call_stack[i].id => v.frame = i - 1
  <2>1. CASE v \in HeldRefs
    BY <2>1 DEF IInv, FramesInv
  <2>2. CASE v.id = me /\ v.frame = frame_depth
    BY <2>2 DEF IInv, FramesInv
  <2> QED
    BY <2>1, <2>2
<1> QED
  BY <1>1, <1>2, <1>3 DEF FramesInv

\* The case of a step that leaves every frame alone.
LEMMA NoFrameChanges ==
    ASSUME IInv, Running, ~crossed, UNCHANGED <<frameVars, stackVars, born>>
    PROVE  FramesInv'
<1>1. HeldRefs' = HeldRefs
  BY DEF HeldRefs, frameVars, stackVars
<1> QED
  BY <1>1 DEF IInv, FramesInv, frameVars, stackVars

\* A panic that stays in its frame keeps the frames; the others are not spoken of.
LEMMA UnwindFrames ==
    ASSUME IInv, NEW edge, NEW next, UnwindStep(edge, next), Running, UNCHANGED born
    PROVE  FramesInv'
<1>1. SUFFICES ASSUME status' # "panic", ~crossed' PROVE FramesInv'
  BY DEF FramesInv, Running
<1>2. UNCHANGED <<frameVars, stackVars, crossed>>
  BY <1>1 DEF UnwindStep
<1> QED
  BY <1>1, <1>2, NoFrameChanges

\* An assignment stores what was read or a number, or a reference to the current frame.
LEMMA AssignFrames ==
    ASSUME IInv, TypeOK', Running, NEW place \in Places, NEW val \in Values, Assign(place, val),
           val.kind = "ref" => val \in HeldRefs \/ (val.id = me /\ val.frame = frame_depth)
    PROVE  FramesInv'
<1>1. CASE val # None /\ Writable(place, locals, call_stack)
  <2>1. /\ locals' = LocalsAfterWrite(place, val, locals)
        /\ call_stack' = StackAfterWrite(place, val, locals, call_stack)
        /\ UNCHANGED <<frame_depth, frame_generations, me, born, status, crossed>>
    BY <1>1 DEF Assign
  <2>2. /\ \A l \in Locals : locals'[l] \in {val, locals[l]}
        /\ Len(call_stack') = Len(call_stack)
        /\ \A i \in DOMAIN call_stack :
               /\ call_stack'[i].generation = call_stack[i].generation
               /\ call_stack'[i].id = call_stack[i].id
               /\ \A l \in Locals : call_stack'[i].locals[l] \in {val, call_stack[i].locals[l]}
    <3>1. frame_depth \in Nat /\ locals \in [Locals -> Values] /\ call_stack \in Seq(Frames)
      BY DEF IInv, TypeOK
    <3> QED
      BY <1>1, <2>1, <3>1, WriteChangesOne
  <2>3. ASSUME NEW v \in HeldRefs' PROVE v \in HeldRefs \/ (v.id = me /\ v.frame = frame_depth)
    <3>1. /\ v.kind = "ref"
          /\ \/ \E l \in Locals : v = locals'[l]
             \/ \E i \in DOMAIN call_stack', l \in Locals : v = call_stack'[i].locals[l]
      BY HeldNext
    <3>2. DOMAIN call_stack' = DOMAIN call_stack
      BY <2>2 DEF IInv, TypeOK
    <3>3. CASE v = val
      BY <3>1, <3>3
    <3>4. CASE v # val
      <4>1. \/ \E l \in Locals : v = locals[l]
            \/ \E i \in DOMAIN call_stack, l \in Locals : v = call_stack[i].locals[l]
        BY <2>2, <3>1, <3>2, <3>4
      <4> QED
        BY <3>1, <4>1, HeldNow DEF IInv
    <3> QED
      BY <3>3, <3>4
  <2> QED
    <3>1. SUFFICES ASSUME ~crossed PROVE FramesInv'
      BY <2>1 DEF FramesInv
    <3> QED
      BY <2>1, <2>2, <2>3, <3>1, SameFrames
<1>2. CASE ~(val # None /\ Writable(place, locals, call_stack))
  BY <1>2, UnwindFrames DEF Assign, StatementFails
<1> QED
  BY <1>1, <1>2

\* A call parks the current frame under its depth with a fresh generation, and hands out what it
\* holds as arguments.
LEMMA CallFrames ==
    ASSUME IInv, TypeOK', NEW destination \in Places, NEW arg_count \in ArgCounts,
           Call(destination, arg_count)
    PROVE  FramesInv'
<1>1. Running /\ UNCHANGED crossed
  BY DEF Call, AtTerminator, Running
<1>2. SUFFICES ASSUME ~(recursion_depth + 1 > recursion_limit), ~crossed PROVE FramesInv'
  BY <1>1 DEF Call, FramesInv, Running
<1>3. PICK args \in [Arguments(arg_count) -> ({Number} \cup Range(locals)) \ {None}] :
          EnterCallee(destination, args)
  BY <1>2 DEF Call
<1> DEFINE n == Len(call_stack)
           new == [locals |-> locals, return_place |-> destination,
                   unwind_target |-> cleanup_edge, generation |-> next_frame_gen, id |-> me]
<1>0. /\ call_stack \in Seq(Frames) /\ locals \in [Locals -> Values]
      /\ me \in Nat /\ born \in Nat /\ frame_generations \in Seq(Nat)
  BY DEF IInv, TypeOK
<1>4. /\ call_stack \in Seq(Frames) /\ locals \in [Locals -> Values]
      /\ me \in Nat /\ born \in Nat /\ frame_generations \in Seq(Nat)
      /\ n \in Nat /\ DOMAIN call_stack = 1..n
  BY <1>0
<1>5. /\ frame_depth = n
      /\ me <= born
      /\ \A i \in 1..n :
             /\ i \in DOMAIN frame_generations /\ call_stack[i].generation = frame_generations[i]
             /\ call_stack[i].id # me /\ call_stack[i].id <= born
      /\ \A i, j \in 1..n : call_stack[i].id = call_stack[j].id => i = j
      /\ \A v \in HeldRefs :
             /\ v.id <= born
             /\ v.id = me => v.frame = n
             /\ \A i \in 1..n : v.id = call_stack[i].id => v.frame = i - 1
  BY <1>1, <1>2, <1>4 DEF IInv, FramesInv
<1>6. /\ call_stack' = Append(call_stack, new) /\ frame_depth' = n + 1
      /\ me' = born + 1 /\ born' = born + 1
      /\ locals' = [l \in Locals |-> IF l \in DOMAIN args THEN args[l] ELSE None]
  BY <1>3, <1>5 DEF EnterCallee
<1>7. /\ Len(call_stack') = n + 1 /\ DOMAIN call_stack' = 1..(n + 1)
      /\ \A i \in 1..n : call_stack'[i] = call_stack[i]
      /\ call_stack'[n + 1] = new
  BY <1>4, <1>6
<1>8. \A i \in 1..n : /\ i \in DOMAIN frame_generations
                      /\ call_stack[i].generation = frame_generations[i]
                      /\ call_stack[i].id # me /\ call_stack[i].id <= born
                      /\ call_stack[i].id \in Nat
  <2>1. \A i \in 1..n : call_stack[i] \in Frames
    BY <1>4
  <2> QED
    BY <1>5, <2>1 DEF Frames
<1>9. \A i \in 1..(n + 1) : /\ i \in DOMAIN frame_generations'
                            /\ call_stack'[i].generation = frame_generations'[i]
  <2> DEFINE m == IF Len(frame_generations) > n THEN Len(frame_generations) ELSE n + 1
  <2>1. frame_generations' = [d \in 1..m |-> IF d = n + 1 THEN next_frame_gen ELSE Generation(d - 1)]
    BY <1>3, <1>5 DEF EnterCallee, RecordGeneration
  <2>2. m \in Nat /\ n + 1 <= m
    BY <1>4
  <2>3. frame_generations'[n + 1] = next_frame_gen /\ n + 1 \in DOMAIN frame_generations'
    <3> HIDE DEF m, n
    <3> QED
      BY <1>4, <2>1, <2>2
  <2>4. ASSUME NEW i \in 1..n PROVE i \in DOMAIN frame_generations' /\ frame_generations'[i] = frame_generations[i]
    <3>1. i \in 1..m /\ i # n + 1
      BY <1>4, <2>2
    <3>2. frame_generations'[i] = Generation(i - 1) /\ i \in DOMAIN frame_generations'
      <4> HIDE DEF m, n
      <4> QED
        BY <2>1, <3>1
    <3>3. (i - 1) + 1 = i /\ i \in DOMAIN frame_generations
      BY <1>4, <1>8
    <3> QED
      BY <3>2, <3>3 DEF Generation
  <2>5. new.generation = next_frame_gen
    OBVIOUS
  <2> HIDE DEF n, new, m
  <2>6. \A i \in 1..(n + 1) : i \in 1..n \/ i = n + 1
    BY <1>4
  <2> QED
    BY <1>7, <1>8, <2>3, <2>4, <2>5, <2>6
<1>10. ASSUME NEW i \in 1..(n + 1)
       PROVE  /\ call_stack'[i].id # me' /\ call_stack'[i].id <= born'
              /\ \A j \in 1..(n + 1) : call_stack'[i].id = call_stack'[j].id => i = j
  <2>1. new.id = me
    OBVIOUS
  <2> HIDE DEF n, new
  <2>2. \A j \in 1..(n + 1) : j \in 1..n \/ j = n + 1
    BY <1>4
  <2>3. \A j \in 1..(n + 1) : call_stack'[j].id = IF j = n + 1 THEN me ELSE call_stack[j].id
    BY <1>7, <2>1, <2>2
  <2>4. \A j, k \in 1..n : call_stack[j].id = call_stack[k].id => j = k
    BY <1>5
  <2>5. call_stack'[i].id # me' /\ call_stack'[i].id <= born'
    <3>1. CASE i = n + 1
      BY <1>4, <1>5, <1>6, <2>3, <3>1
    <3>2. CASE i \in 1..n
      <4>1. call_stack'[i].id = call_stack[i].id
        BY <1>7, <3>2
      <4> QED
        BY <1>4, <1>6, <1>8, <3>2, <4>1
    <3> QED
      BY <2>2, <3>1, <3>2
  <2> QED
    BY <1>4, <1>8, <2>2, <2>3, <2>4, <2>5
<1>11. ASSUME NEW v \in HeldRefs' PROVE v \in HeldRefs
  <2>1. /\ v.kind = "ref"
        /\ \/ \E l \in Locals : v = locals'[l]
           \/ \E i \in DOMAIN call_stack', l \in Locals : v = call_stack'[i].locals[l]
    BY HeldNext
  <2>2. CASE \E l \in Locals : v = locals'[l]
    <3>1. PICK l \in Locals : v = locals'[l]
      BY <2>2
    <3>2. v # None
      BY <2>1 DEF None
    <3>3. l \in DOMAIN args /\ v = args[l]
      BY <1>6, <3>1, <3>2
    <3>4. v \in Range(locals)
      BY <2>1, <3>3 DEF Number
    <3> QED
      BY <2>1, <3>4 DEF HeldRefs
  <2>3. CASE \E i \in DOMAIN call_stack', l \in Locals : v = call_stack'[i].locals[l]
    <3>1. PICK i \in 1..(n + 1), l \in Locals : v = call_stack'[i].locals[l]
      BY <1>7, <2>3
    <3>2. new.locals = locals
      OBVIOUS
    <3>3. i \in 1..n \/ i = n + 1
      BY <1>4
    <3>4. v = locals[l] \/ (i \in DOMAIN call_stack /\ v = call_stack[i].locals[l])
      <4> HIDE DEF new, n
      <4>1. CASE i = n + 1
        BY <1>7, <3>1, <3>2, <4>1
      <4>2. CASE i \in 1..n
        BY <1>4, <1>7, <3>1, <4>2
      <4> QED
        BY <3>3, <4>1, <4>2
    <3> QED
      BY <2>1, <3>4, HeldNow DEF IInv
  <2> QED
    BY <2>1, <2>2, <2>3
<1>12. ASSUME NEW v \in HeldRefs'
       PROVE  /\ v.id <= born'
              /\ v.id # me'
              /\ \A i \in 1..(n + 1) : v.id = call_stack'[i].id => v.frame = i - 1
  <2>0. v.id \in Nat
    <3>1. v.kind = "ref" /\ v \in Values
      <4>1. locals' \in [Locals -> Values] /\ call_stack' \in Seq(Frames)
        BY DEF TypeOK
      <4>2. \A i \in DOMAIN call_stack' : call_stack'[i] \in Frames
        BY <4>1
      <4>3. \A i \in DOMAIN call_stack' : call_stack'[i].locals \in [Locals -> Values]
        BY <4>2 DEF Frames
      <4> QED
        BY <4>1, <4>3, HeldNext
    <3> QED
      BY <3>1 DEF Values, None, Number
  <2>1. /\ v.id <= born
        /\ v.id = me => v.frame = n
        /\ \A i \in 1..n : v.id = call_stack[i].id => v.frame = i - 1
    BY <1>5, <1>11
  <2>2. new.id = me
    OBVIOUS
  <2> HIDE DEF n, new
  <2>3. \A i \in 1..(n + 1) : i \in 1..n \/ i = n + 1
    BY <1>4
  <2> QED
    BY <1>4, <1>6, <1>7, <2>0, <2>1, <2>2, <2>3
<1> QED
  <2>1. born + 1 <= born + 1 /\ me' <= born'
    BY <1>4, <1>6
  <2>2. \A v \in HeldRefs' : v.id <= born' /\ v.id # me'
    BY <1>12
  <2>3. \A v \in HeldRefs' : \A i \in DOMAIN call_stack' : v.id = call_stack'[i].id => v.frame = i - 1
    BY <1>7, <1>12
  <2>4. \A i, j \in DOMAIN call_stack' : call_stack'[i].id = call_stack'[j].id => i = j
    BY <1>7, <1>10
  <2>5. \A i \in DOMAIN call_stack' : /\ i \in DOMAIN frame_generations'
                                      /\ call_stack'[i].generation = frame_generations'[i]
                                      /\ call_stack'[i].id # me' /\ call_stack'[i].id <= born'
    BY <1>7, <1>9, <1>10
  <2>6. frame_depth' = Len(call_stack')
    BY <1>6, <1>7
  <2> QED
    BY <2>1, <2>2, <2>3, <2>4, <2>5, <2>6 DEF FramesInv

\* A return pops the caller's frame, which becomes the current one under the depth it was parked
\* at, and zeroes no generation but that depth's.
LEMMA ReturnFrames ==
    ASSUME IInv, TypeOK', Return
    PROVE  FramesInv'
<1> DEFINE n == Len(call_stack)
           frame == call_stack[n]
           below == SubSeq(call_stack, 1, n - 1)
<1>1. Running /\ UNCHANGED <<born, crossed>>
  BY DEF Return, AtPlainTerminator, AtTerminator, Running
<1>2. SUFFICES ASSUME status' = "block", ~crossed PROVE FramesInv'
  <2>1. status' \in {"returned", "panic", "block"}
    BY DEF Return
  <2> QED
    BY <1>1, <2>1 DEF FramesInv, Running
<1>3. /\ n # 0
      /\ Writable(frame.return_place, frame.locals, below)
      /\ locals' = LocalsAfterWrite(frame.return_place, locals[0], frame.locals)
      /\ call_stack' = StackAfterWrite(frame.return_place, locals[0], frame.locals, below)
      /\ PopDepth
      /\ me' = frame.id
  BY <1>2 DEF Return
<1>0. /\ call_stack \in Seq(Frames) /\ locals \in [Locals -> Values]
      /\ born \in Nat /\ frame_depth \in Nat /\ frame_generations \in Seq(Nat)
  BY DEF IInv, TypeOK
<1>4. /\ n \in Nat \ {0} /\ n \in 1..n /\ DOMAIN call_stack = 1..n /\ frame \in Frames
      /\ frame.locals \in [Locals -> Values] /\ frame.return_place \in Places
  <2>1. n \in Nat \ {0} /\ n \in 1..n /\ DOMAIN call_stack = 1..n /\ frame \in Frames
    BY <1>0, <1>3
  <2> HIDE DEF frame
  <2> QED
    BY <2>1 DEF Frames
<1>5. /\ frame_depth = n
      /\ me <= born
      /\ \A i \in 1..n :
             /\ i \in DOMAIN frame_generations /\ call_stack[i].generation = frame_generations[i]
             /\ call_stack[i].id # me /\ call_stack[i].id <= born
      /\ \A i, j \in 1..n : call_stack[i].id = call_stack[j].id => i = j
      /\ \A v \in HeldRefs :
             /\ v.id <= born
             /\ v.id = me => v.frame = n
             /\ \A i \in 1..n : v.id = call_stack[i].id => v.frame = i - 1
  BY <1>1, <1>2, <1>4 DEF IInv, FramesInv
<1>6. /\ below \in Seq(Frames) /\ Len(below) = n - 1 /\ DOMAIN below = 1..(n - 1)
      /\ \A i \in 1..(n - 1) : below[i] = call_stack[i]
  <2>1. below \in Seq(Frames) /\ Len(below) = n - 1 /\ \A i \in 1..(n - 1) : below[i] = call_stack[i]
    BY <1>0, <1>4, FramesBelow
  <2> HIDE DEF below
  <2> QED
    BY <1>4, <2>1
<1>7. locals[0] \in Values
  BY <1>0, InterpAssumption
<1>8. /\ \A l \in Locals : locals'[l] \in {locals[0], frame.locals[l]}
      /\ Len(call_stack') = n - 1 /\ DOMAIN call_stack' = 1..(n - 1)
      /\ \A i \in 1..(n - 1) :
             /\ call_stack'[i].generation = call_stack[i].generation
             /\ call_stack'[i].id = call_stack[i].id
             /\ \A l \in Locals : call_stack'[i].locals[l] \in {locals[0], call_stack[i].locals[l]}
  <2>1. call_stack' \in Seq(Frames)
    BY DEF TypeOK
  <2> HIDE DEF n, frame, below
  <2>2. /\ \A l \in Locals : locals'[l] \in {locals[0], frame.locals[l]}
        /\ Len(call_stack') = n - 1
        /\ \A i \in 1..(n - 1) :
               /\ call_stack'[i].generation = below[i].generation
               /\ call_stack'[i].id = below[i].id
               /\ \A l \in Locals : call_stack'[i].locals[l] \in {locals[0], below[i].locals[l]}
    BY <1>0, <1>3, <1>4, <1>6, <1>7, WriteChangesOne
  <2>3. DOMAIN call_stack' = 1..(n - 1)
    BY <2>1, <2>2
  <2> QED
    BY <1>6, <2>2, <2>3
<1>9. ASSUME NEW v \in HeldRefs' PROVE v \in HeldRefs
  <2>1. /\ v.kind = "ref"
        /\ \/ \E l \in Locals : v = locals'[l]
           \/ \E i \in DOMAIN call_stack', l \in Locals : v = call_stack'[i].locals[l]
    BY HeldNext
  <2>2. \/ v = locals[0]
        \/ \E l \in Locals : v = call_stack[n].locals[l]
        \/ \E i \in 1..(n - 1), l \in Locals : v = call_stack[i].locals[l]
    <3>1. CASE \E l \in Locals : v = locals'[l]
      BY <1>8, <3>1
    <3>2. CASE \E i \in DOMAIN call_stack', l \in Locals : v = call_stack'[i].locals[l]
      BY <1>8, <3>2
    <3> QED
      BY <2>1, <3>1, <3>2
  <2>3. 0 \in Locals
    BY InterpAssumption
  <2>4. \A i \in 1..(n - 1) : i \in DOMAIN call_stack
    BY <1>4
  <2> HIDE DEF n
  <2> QED
    BY <1>4, <2>1, <2>2, <2>3, <2>4, HeldNow DEF IInv
<1>10. frame_depth' = n - 1
  BY <1>3, <1>5 DEF PopDepth
<1>11. \A i \in 1..(n - 1) : i \in DOMAIN frame_generations' /\ frame_generations'[i] = frame_generations[i]
  <2>1. \A i \in 1..(n - 1) : i \in 1..n /\ i # n
    <3> HIDE DEF n
    <3> QED
      BY <1>4
  <2>2. frame_generations' = [d \in DOMAIN frame_generations |->
                                  IF d = n THEN 0 ELSE frame_generations[d]]
    BY <1>3, <1>5 DEF PopDepth
  <2> HIDE DEF n
  <2> QED
    BY <1>5, <2>1, <2>2
<1> QED
  <2> HIDE DEF n
  <2>1. \A i \in 1..(n - 1) : i \in 1..n /\ i # n
    BY <1>4
  <2>2. frame_depth' = Len(call_stack')
    BY <1>8, <1>10
  <2>3. me' <= born'
    BY <1>1, <1>3, <1>4, <1>5
  <2>4. \A i \in DOMAIN call_stack' : /\ i \in DOMAIN frame_generations'
                                      /\ call_stack'[i].generation = frame_generations'[i]
    BY <1>5, <1>8, <1>11, <2>1
  <2>5. \A i \in DOMAIN call_stack' : call_stack'[i].id # me' /\ call_stack'[i].id <= born'
    BY <1>1, <1>3, <1>4, <1>5, <1>8, <2>1
  <2>6. \A i, j \in DOMAIN call_stack' : call_stack'[i].id = call_stack'[j].id => i = j
    BY <1>5, <1>8, <2>1
  <2>7. \A v \in HeldRefs' :
             /\ v.id <= born'
             /\ v.id = me' => v.frame = Len(call_stack')
             /\ \A i \in DOMAIN call_stack' : v.id = call_stack'[i].id => v.frame = i - 1
    BY <1>1, <1>3, <1>4, <1>5, <1>8, <1>9, <2>1
  <2> QED
    BY <2>2, <2>3, <2>4, <2>5, <2>6, <2>7 DEF FramesInv

\* A new run holds no reference and has no frame below it.
LEMMA RunAgainFrames ==
    ASSUME IInv, TypeOK', RunAgain
    PROVE  FramesInv'
<1>1. /\ call_stack' = <<>> /\ frame_depth' = 0 /\ me' = born + 1 /\ born' = born + 1
      /\ locals' = [l \in Locals |-> None]
  BY DEF RunAgain
<1>2. Len(call_stack') = 0 /\ DOMAIN call_stack' = {}
  BY <1>1
<1>3. HeldRefs' = {}
  <2>1. SUFFICES ASSUME NEW v \in HeldRefs' PROVE FALSE
    OBVIOUS
  <2>2. v.kind = "ref" /\ \E l \in Locals : v = locals'[l]
    BY <1>2, HeldNext
  <2> QED
    BY <1>1, <2>2 DEF None
<1>4. me' <= born'
  BY <1>1 DEF IInv, TypeOK
<1> QED
  BY <1>1, <1>2, <1>3, <1>4 DEF FramesInv

\* Every step keeps the frames.
LEMMA FramesStep ==
    ASSUME IInv, [Next]_vars
    PROVE  FramesInv'
<1>0. TypeOK /\ TypeOK'
  BY TypeStep DEF IInv
<1>1. ASSUME BlockBegins PROVE FramesInv'
  <2>1. Running /\ UNCHANGED <<frameVars, stackVars, born, crossed>>
    BY <1>1 DEF BlockBegins, Running
  <2> QED
    BY <2>1, NoFrameChanges DEF FramesInv
<1>2. ASSUME NEW place \in Places, AssignNumber(place) PROVE FramesInv'
  <2>1. Running /\ Number \in Values /\ Number.kind # "ref"
    BY <1>2 DEF AssignNumber, NextStatement, Running, Values, Number
  <2> QED
    BY <1>0, <1>2, <2>1, AssignFrames DEF AssignNumber
<1>3. ASSUME NEW place \in Places, NEW from \in Places, AssignUse(place, from) PROVE FramesInv'
  <2>1. Running
    BY <1>3 DEF AssignUse, NextStatement, Running
  <2> QED
    BY <1>0, <1>3, <2>1, AssignFrames, ReadGivesValue DEF AssignUse
<1>4. ASSUME NEW local \in Locals, NEW of \in Locals, AssignRef(local, of) PROVE FramesInv'
  <2>1. Running
    BY <1>4 DEF AssignRef, NextStatement, Running
  <2> DEFINE val == RefTo(frame_depth, of, me)
             place == [local |-> local, deref |-> FALSE]
  <2>2. val \in Values /\ val.id = me /\ val.frame = frame_depth
    BY <1>0 DEF Values, RefTo, TypeOK
  <2>3. place \in Places
    BY DEF Places
  <2>4. Assign(place, val)
    BY <1>4 DEF AssignRef
  <2> HIDE DEF val, place
  <2> QED
    BY <1>0, <2>1, <2>2, <2>3, <2>4, AssignFrames
<1>5. ASSUME NEW local \in Locals, StorageLive(local) PROVE FramesInv'
  <2>1. /\ Running /\ UNCHANGED <<status, crossed, stackVars, me, born>>
        /\ \A l \in Locals : locals'[l] \in {None, locals[l]}
    BY <1>0, <1>5 DEF StorageLive, NextStatement, Running, TypeOK
  <2>2. ASSUME NEW v \in HeldRefs' PROVE v \in HeldRefs
    <3>1. /\ v.kind = "ref"
          /\ \/ \E l \in Locals : v = locals'[l]
             \/ \E i \in DOMAIN call_stack, l \in Locals : v = call_stack[i].locals[l]
      BY <1>0, <2>1, HeldNext DEF stackVars
    <3>2. v # None
      BY <3>1 DEF None
    <3>3. \/ \E l \in Locals : v = locals[l]
          \/ \E i \in DOMAIN call_stack, l \in Locals : v = call_stack[i].locals[l]
      BY <2>1, <3>1, <3>2
    <3> QED
      BY <1>0, <3>1, <3>3, HeldNow
  <2>3. SUFFICES ASSUME ~crossed PROVE FramesInv'
    BY <2>1 DEF FramesInv
  <2> QED
    BY <1>0, <2>1, <2>2, <2>3, SameFrames DEF stackVars
<1>6. ASSUME Goto \/ AssertHolds PROVE FramesInv'
  <2>1. Running /\ UNCHANGED <<frameVars, stackVars, born, crossed>>
    BY <1>6 DEF Goto, AssertHolds, AtPlainTerminator, AtTerminator, Running
  <2> QED
    BY <2>1, NoFrameChanges DEF FramesInv
<1>7. ASSUME TerminatorPanics \/ IndexPanics PROVE FramesInv'
  BY <1>7 DEF TerminatorPanics, IndexPanics, FramesInv, Running
<1>8. ASSUME AssertFails PROVE FramesInv'
  <2>1. Running /\ UnwindStep(cleanup_edge, "block") /\ UNCHANGED born
    BY <1>8 DEF AssertFails, AtTerminator, Running
  <2> QED
    BY <2>1, UnwindFrames
<1>9. ASSUME UNCHANGED vars PROVE FramesInv'
  <2>1. HeldRefs' = HeldRefs
    BY <1>9 DEF HeldRefs, vars, frameVars, stackVars
  <2> QED
    BY <1>9, <2>1 DEF IInv, FramesInv, Running, vars, frameVars, stackVars
<1> QED
  BY <1>0, <1>1, <1>2, <1>3, <1>4, <1>5, <1>6, <1>7, <1>8, <1>9,
     CallFrames, ReturnFrames, RunAgainFrames DEF Next, Statement

\* The invariant holds at every point of every run.
LEMMA Invariant == Spec => []IInv
<1>1. Init => IInv
  <2> SUFFICES ASSUME Init PROVE FramesInv
    BY TypeInit DEF IInv
  <2>1. Len(call_stack) = 0 /\ DOMAIN call_stack = {} /\ frame_depth = 0 /\ me = 1 /\ born = 1
    BY DEF Init
  <2>2. HeldRefs = {}
    <3>1. Range(locals) \subseteq {None}
      BY DEF Init, Range
    <3>2. \A v \in HeldRefs : v = None /\ v.kind = "ref"
      BY <2>1, <3>1 DEF HeldRefs
    <3> QED
      BY <3>2 DEF None
  <2> QED
    BY <2>1, <2>2 DEF FramesInv
<1>2. IInv /\ [Next]_vars => IInv'
  BY TypeStep, FramesStep DEF IInv
<1> QED
  BY <1>1, <1>2, PTL DEF Spec

(* A reference into a frame that still exists is resolved by locals_for_ref_frame, and to    *)
(* that very frame, for every program and however deep the calls, until a panic has left a   *)
(* frame: the depth it holds is the depth of its frame, and the generation recorded for that *)
(* depth is the one the parked frame was given.                                              *)
THEOREM LiveRefsCorrect == Spec => []LiveRefsResolve
<1>1. ASSUME IInv PROVE LiveRefsResolve
  <2>1. SUFFICES ASSUME Running, ~crossed, NEW v \in HeldRefs, v.id \in LiveIds
                 PROVE  v.frame = Depth(v.id) /\ Reaches(frame_depth, call_stack, v.frame)
    BY DEF LiveRefsResolve
  <2>2. /\ frame_depth = Len(call_stack)
        /\ \A i \in DOMAIN call_stack :
               /\ i \in DOMAIN frame_generations /\ call_stack[i].generation = frame_generations[i]
               /\ call_stack[i].id # me
        /\ \A i, j \in DOMAIN call_stack : call_stack[i].id = call_stack[j].id => i = j
        /\ v.id = me => v.frame = Len(call_stack)
        /\ \A i \in DOMAIN call_stack : v.id = call_stack[i].id => v.frame = i - 1
    BY <1>1, <2>1 DEF IInv, FramesInv
  <2>3. CASE v.id = me
    BY <2>2, <2>3 DEF Depth, Reaches
  <2>4. CASE v.id # me
    <3>1. PICK i \in DOMAIN call_stack : call_stack[i].id = v.id
      BY <2>1, <2>4 DEF LiveIds
    <3>2. (CHOOSE k \in DOMAIN call_stack : call_stack[k].id = v.id) = i
      BY <2>2, <3>1
    <3>3. v.frame = i - 1 /\ Depth(v.id) = i - 1
      BY <2>2, <2>4, <3>1, <3>2 DEF Depth
    <3>4. i \in 1..Len(call_stack) /\ Len(call_stack) \in Nat
      BY <1>1 DEF IInv, TypeOK
    <3>5. i - 1 + 1 = i /\ i - 1 < Len(call_stack)
      BY <3>4
    <3>6. Generation(i - 1) = frame_generations[i]
      BY <2>2, <3>1, <3>5 DEF Generation
    <3> QED
      BY <2>2, <3>1, <3>3, <3>5, <3>6 DEF Reaches, InStack
  <2> QED
    BY <2>3, <2>4
<1> QED
  BY <1>1, Invariant, PTL

(***************************************************************************)
(* Unwinding.                                                              *)
(***************************************************************************)
\* unwind_step takes off recursion_depth what it takes off the stack.
LEMMA UnwindCounts ==
    ASSUME TypeOK, CallsAreCounted, Running, NEW edge, NEW next, UnwindStep(edge, next)
    PROVE  CallsAreCounted'
<1>0. recursion_depth = Len(call_stack) + 1 /\ Len(call_stack) \in Nat
  BY DEF CallsAreCounted, TypeOK
<1>1. CASE status' \in {"panic", "unwound"}
  BY <1>1 DEF CallsAreCounted, Running
<1>2. CASE UNCHANGED stackVars
  BY <1>0, <1>2 DEF CallsAreCounted, stackVars
<1>3. CASE /\ Caught # {}
           /\ ResumeAt(NearestCaught(Caught))
  <2>1. PICK i \in Caught : i = NearestCaught(Caught)
    BY <1>3, CaughtHasNearest
  <2>2. i \in 1..Len(call_stack) /\ call_stack \in Seq(Frames)
    BY DEF Caught, TypeOK
  <2>3. /\ call_stack' = SubSeq(call_stack, 1, i - 1)
        /\ recursion_depth' = recursion_depth - (Len(call_stack) - i + 1)
    BY <1>3, <2>1 DEF ResumeAt
  <2>4. Len(call_stack') = i - 1
    BY <2>2, <2>3, FramesBelow
  <2> QED
    BY <1>0, <2>2, <2>3, <2>4 DEF CallsAreCounted
<1> QED
  BY <1>1, <1>2, <1>3 DEF UnwindStep

\* An assignment changes neither count, or unwinds.
LEMMA AssignCounts ==
    ASSUME TypeOK, CallsAreCounted, NextStatement, NEW place \in Places, NEW val \in Values,
           Assign(place, val)
    PROVE  CallsAreCounted'
<1>0. Running /\ call_stack \in Seq(Frames) /\ frame_depth \in Nat /\ locals \in [Locals -> Values]
  BY DEF NextStatement, Running, TypeOK
<1>1. CASE val # None /\ Writable(place, locals, call_stack)
  <2>1. /\ call_stack' = StackAfterWrite(place, val, locals, call_stack)
        /\ UNCHANGED <<status, recursion_depth>>
    BY <1>1 DEF Assign
  <2>2. Len(call_stack') = Len(call_stack)
    BY <1>0, <1>1, <2>1, WriteChangesOne
  <2> QED
    BY <1>0, <2>1, <2>2 DEF CallsAreCounted, Running
<1>2. CASE ~(val # None /\ Writable(place, locals, call_stack))
  BY <1>0, <1>2, UnwindCounts DEF Assign, StatementFails
<1> QED
  BY <1>1, <1>2

\* A call counts the frame it parks, and a return no longer the one it takes back.
LEMMA CallCounts ==
    ASSUME TypeOK, CallsAreCounted, NEW destination \in Places, NEW arg_count \in ArgCounts,
           Call(destination, arg_count)
    PROVE  CallsAreCounted'
<1>0. recursion_depth = Len(call_stack) + 1 /\ Len(call_stack) \in Nat
  BY DEF Call, AtTerminator, Running, CallsAreCounted, TypeOK
<1>1. CASE status' = "stack_overflow"
  BY <1>1 DEF CallsAreCounted, Running
<1>2. CASE \E args \in [Arguments(arg_count) -> ({Number} \cup Range(locals)) \ {None}] :
               EnterCallee(destination, args)
  <2>1. Len(call_stack') = Len(call_stack) + 1 /\ recursion_depth' = recursion_depth + 1
    BY <1>2 DEF Call, EnterCallee, TypeOK
  <2> QED
    BY <1>0, <2>1 DEF CallsAreCounted
<1> QED
  BY <1>1, <1>2 DEF Call

LEMMA ReturnCounts ==
    ASSUME TypeOK, TypeOK', CallsAreCounted, Return
    PROVE  CallsAreCounted'
<1> DEFINE n == Len(call_stack)
           frame == call_stack[n]
           below == SubSeq(call_stack, 1, n - 1)
<1>0. recursion_depth = n + 1 /\ n \in Nat /\ call_stack \in Seq(Frames) /\ frame_depth \in Nat
  BY DEF Return, AtPlainTerminator, AtTerminator, Running, CallsAreCounted, TypeOK
<1>1. CASE status' \in {"returned", "panic"}
  BY <1>1 DEF CallsAreCounted, Running
<1>2. CASE /\ n # 0 /\ locals[0] # None /\ Writable(frame.return_place, frame.locals, below)
           /\ call_stack' = StackAfterWrite(frame.return_place, locals[0], frame.locals, below)
           /\ recursion_depth' = recursion_depth - 1
  <2>1. n \in 1..n
    BY <1>0, <1>2
  <2>2. frame \in Frames /\ below \in Seq(Frames) /\ Len(below) = n - 1
    <3>1. frame \in Frames
      BY <1>0, <2>1
    <3>2. below \in Seq(Frames) /\ Len(below) = n - 1
      BY <1>0, <2>1, FramesBelow
    <3> QED
      BY <3>1, <3>2
  <2>3. frame.return_place \in Places /\ frame.locals \in [Locals -> Values]
    BY <2>2 DEF Frames
  <2>4. locals[0] \in Values
    BY InterpAssumption DEF TypeOK
  <2>5. Len(call_stack') = n - 1
    <3> HIDE DEF frame, below
    <3>1. Len(StackAfterWrite(frame.return_place, locals[0], frame.locals, below)) = Len(below)
      BY <1>0, <1>2, <2>2, <2>3, <2>4, WriteChangesOne
    <3> QED
      BY <1>2, <2>2, <3>1
  <2> QED
    BY <1>0, <1>2, <2>5 DEF CallsAreCounted
<1> QED
  BY <1>1, <1>2 DEF Return

(* The recursion limit is held against the frames there are, for every program, whatever     *)
(* order calls, returns, failed calls and caught panics come in.                             *)
THEOREM CallsCorrect == Spec => []CallsAreCounted
<1>1. Init => CallsAreCounted
  BY DEF Init, CallsAreCounted
<1>2. ASSUME TypeOK, TypeOK', CallsAreCounted, [Next]_vars PROVE CallsAreCounted'
  <2>1. ASSUME NEW place \in Places, AssignNumber(place) PROVE CallsAreCounted'
    <3>1. Number \in Values
      BY DEF Values
    <3> QED
      BY <1>2, <2>1, <3>1, AssignCounts DEF AssignNumber
  <2>2. ASSUME NEW place \in Places, NEW from \in Places, AssignUse(place, from)
        PROVE  CallsAreCounted'
    BY <1>2, <2>2, AssignCounts, ReadGivesValue DEF AssignUse
  <2>3. ASSUME NEW local \in Locals, NEW of \in Locals, AssignRef(local, of)
        PROVE  CallsAreCounted'
    <3>1. RefTo(frame_depth, of, me) \in Values
      BY <1>2 DEF Values, RefTo, TypeOK
    <3>2. [local |-> local, deref |-> FALSE] \in Places
      BY DEF Places
    <3> QED
      BY <1>2, <2>3, <3>1, <3>2, AssignCounts DEF AssignRef
  <2>4. ASSUME AssertFails PROVE CallsAreCounted'
    <3>1. Running /\ UnwindStep(cleanup_edge, "block")
      BY <2>4 DEF AssertFails, AtTerminator, Running
    <3> QED
      BY <1>2, <3>1, UnwindCounts
  <2>5. ASSUME RunAgain PROVE CallsAreCounted'
    BY <2>5 DEF RunAgain, CallsAreCounted
  <2>6. ASSUME BlockBegins \/ (\E local \in Locals : StorageLive(local)) \/ IndexPanics \/ Goto
               \/ TerminatorPanics \/ AssertHolds \/ UNCHANGED vars
        PROVE  CallsAreCounted'
    <3>1. UNCHANGED stackVars /\ (Running' => Running)
      BY <2>6 DEF BlockBegins, StorageLive, NextStatement, IndexPanics, Goto, TerminatorPanics,
                  AssertHolds, AtPlainTerminator, AtTerminator, vars, stackVars, Running
    <3> QED
      BY <1>2, <3>1 DEF CallsAreCounted, stackVars
  <2> QED
    BY <1>2, <2>1, <2>2, <2>3, <2>4, <2>5, <2>6, CallCounts, ReturnCounts DEF Next, Statement
<1>3. Spec => []TypeOK
  BY InterpTypeCorrect
<1> QED
  BY <1>1, <1>2, <1>3, PTL DEF Spec

\* A panic goes on in the nearest caller with a cleanup edge, or there is none at all.
LEMMA UnwindFinds ==
    ASSUME TypeOK, NEW edge, NEW next, UnwindStep(edge, next), Unwinds
    PROVE  ResumesNearestCleanup
<1>1. CASE /\ Caught # {}
           /\ ResumeAt(NearestCaught(Caught))
  <2>1. PICK i \in Caught : i = NearestCaught(Caught) /\ \A j \in Caught : j <= i
    BY <1>1, CaughtHasNearest
  <2>2. i \in 1..Len(call_stack) /\ call_stack \in Seq(Frames)
    BY DEF Caught, TypeOK
  <2>3. /\ at' = "cleanup" /\ call_stack' = SubSeq(call_stack, 1, i - 1)
        /\ me' = call_stack[i].id /\ locals' = call_stack[i].locals
    BY <1>1, <2>1 DEF ResumeAt
  <2>4. Len(call_stack') = i - 1
    BY <2>2, <2>3, FramesBelow
  <2>5. Len(call_stack') + 1 = i
    BY <2>2, <2>4
  <2> QED
    BY <2>1, <2>3, <2>5 DEF Caught, ResumesNearestCleanup
<1>2. CASE status' = "unwound" /\ Caught = {}
  BY <1>2 DEF Caught, ResumesNearestCleanup
<1>3. CASE status' = "panic"
  BY <1>3 DEF Unwinds
<1>4. CASE UNCHANGED stackVars
  BY <1>4 DEF Unwinds, stackVars, TypeOK
<1> QED
  BY <1>1, <1>2, <1>3, <1>4 DEF UnwindStep

(* A panic that leaves its frame resumes the nearest caller that has a cleanup block for its *)
(* call, for every program and any depth of calls, skips no caller that has one when it      *)
(* reaches the top, and goes on in that block when it is a terminator's.                     *)
THEOREM PanicsCorrect == Spec => PanicsFindCleanup
<1>1. ASSUME TypeOK, [Next]_vars, Unwinds PROVE ResumesNearestCleanup
  <2>0. call_stack \in Seq(Frames) /\ Len(call_stack) \in Nat /\ frame_depth \in Nat
    BY <1>1 DEF TypeOK
  <2>1. ASSUME call_stack' = call_stack PROVE FALSE
    BY <1>1, <2>0, <2>1 DEF Unwinds
  <2>2. ASSUME NEW place \in Places, NEW val \in Values, Assign(place, val) PROVE ResumesNearestCleanup
    <3>1. CASE val # None /\ Writable(place, locals, call_stack)
      <4>1. call_stack' = StackAfterWrite(place, val, locals, call_stack) /\ locals \in [Locals -> Values]
        BY <1>1, <2>2, <3>1 DEF Assign, TypeOK
      <4>2. Len(call_stack') = Len(call_stack)
        BY <2>0, <3>1, <4>1, WriteChangesOne
      <4> QED
        BY <1>1, <2>0, <4>2 DEF Unwinds
    <3>2. CASE ~(val # None /\ Writable(place, locals, call_stack))
      BY <1>1, <2>2, <3>2, UnwindFinds DEF Assign, StatementFails
    <3> QED
      BY <3>1, <3>2
  <2>3. ASSUME NEW place \in Places, AssignNumber(place) PROVE ResumesNearestCleanup
    BY <2>2, <2>3 DEF AssignNumber, Values
  <2>4. ASSUME NEW place \in Places, NEW from \in Places, AssignUse(place, from) PROVE ResumesNearestCleanup
    BY <1>1, <2>2, <2>4, ReadGivesValue DEF AssignUse
  <2>5. ASSUME NEW local \in Locals, NEW of \in Locals, AssignRef(local, of) PROVE ResumesNearestCleanup
    <3>1. RefTo(frame_depth, of, me) \in Values
      BY <1>1 DEF Values, RefTo, TypeOK
    <3>2. [local |-> local, deref |-> FALSE] \in Places
      BY DEF Places
    <3> QED
      BY <2>2, <2>5, <3>1, <3>2 DEF AssignRef
  <2>6. ASSUME AssertFails PROVE ResumesNearestCleanup
    BY <1>1, <2>6, UnwindFinds DEF AssertFails
  <2>7. ASSUME NEW destination \in Places, NEW arg_count \in ArgCounts, Call(destination, arg_count)
        PROVE  FALSE
    <3>1. CASE recursion_depth + 1 > recursion_limit
      BY <2>1, <2>7, <3>1 DEF Call
    <3>2. CASE ~(recursion_depth + 1 > recursion_limit)
      <4>1. frame_depth' = frame_depth + 1
        BY <2>7, <3>2 DEF Call, EnterCallee
      <4> QED
        BY <1>1, <2>0, <4>1 DEF Unwinds
    <3> QED
      BY <3>1, <3>2
  <2>8. ASSUME Return PROVE FALSE
    <3>1. \/ UNCHANGED stackVars
          \/ status' = "panic"
          \/ frame_depth' = frame_depth - 1
      BY <2>8 DEF Return, PopDepth
    <3> QED
      BY <1>1, <2>0, <2>1, <3>1 DEF Unwinds, stackVars
  <2>9. ASSUME RunAgain PROVE FALSE
    <3>1. Len(call_stack') = 0 /\ frame_depth' = 0
      BY <2>9 DEF RunAgain
    <3> QED
      BY <1>1, <2>0, <3>1 DEF Unwinds, TypeOK
  <2>10. ASSUME BlockBegins \/ (\E local \in Locals : StorageLive(local)) \/ IndexPanics
                \/ Goto \/ TerminatorPanics \/ AssertHolds \/ UNCHANGED vars
         PROVE  FALSE
    <3>1. UNCHANGED stackVars
      BY <2>10 DEF BlockBegins, StorageLive, IndexPanics, Goto, TerminatorPanics, AssertHolds, vars,
                   stackVars
    <3> QED
      BY <2>1, <3>1 DEF stackVars
  <2> QED
    BY <1>1, <2>3, <2>4, <2>5, <2>6, <2>7, <2>8, <2>9, <2>10 DEF Next, Statement
<1>2. ASSUME TypeOK, [Next]_vars PROVE [Unwinds => ResumesNearestCleanup]_vars
  BY <1>1, <1>2
<1>3. Spec => [][Unwinds => ResumesNearestCleanup]_vars
  BY <1>2, InterpTypeCorrect, PTL DEF Spec
<1> QED
  BY <1>3 DEF PanicsFindCleanup

=============================================================================
