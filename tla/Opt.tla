--------------------------------- MODULE Opt ----------------------------------
(***************************************************************************)
(* The MIR optimiser (crates/glyim-opt): `optimize` takes a body through   *)
(* constant_prop, dce, cfg_simplify and unreachable_elim.  One step of the *)
(* model is one sweep of constant_prop over the blocks, one round of       *)
(* cfg_simplify, or one of the other passes.  The validation and the       *)
(* slice_desugar before them are left out (the bodies are valid and have   *)
(* no slice projections), and so is drop elaboration.                      *)
(*                                                                         *)
(* The bodies, numbered from 1 here and from 0 in the code:                *)
(*   Operand    [kind |-> "const", value], or [kind |-> "read", local,     *)
(*              field]: the local itself, or a field of it                 *)
(*   Statement  [local, field, rv]: assigns to a local or to a field       *)
(*   Rvalue     [kind, ops], of the kinds                                  *)
(*     "use"      Use, and an aggregate of one field                       *)
(*     "and"      BinaryOp And, and the other operations on Bools          *)
(*     "not"      UnaryOp Not of a Bool                                    *)
(*     "add"      BinaryOp Add, and Sub and Mul, of integers               *)
(*     "div"      BinaryOp Div, and Rem, of integers                       *)
(*     "less"     a comparison, a shift or a bit operation of integers     *)
(*     "narrow"   Cast to a type of two values                             *)
(*     "repeat"   Repeat, an array of the operand                          *)
(*     "inspect"  Len, Discriminant, and the aggregates never folded       *)
(*     "ref"      Ref                                                      *)
(*   Terminator [kind, op, dest, targets, cleanup]: targets is the         *)
(*              sequence of blocks it names, cleanup has at most one       *)
(* An assert expects 1; every call has a block to return to.               *)
(* Local 0 is the return place and Args are the arguments.  A value is an  *)
(* integer of a type with Size values, which 0 and 1 of Bool are among; a  *)
(* struct has a single field, so its field has its value, and an array has *)
(* another value than its elements.                                        *)
(* Floats, negative numbers and the types const_eq compares besides the    *)
(* values are left out.                                                    *)
(***************************************************************************)
EXTENDS Integers, Sequences, FiniteSets

CONSTANTS
    Bodies,           \* the bodies to optimise
    Locals,           \* their locals
    Args,             \* those that are arguments
    Size,             \* how many values an integer type has
    MAX_ITERATIONS    \* the cap on the sweeps of constant_prop, 1000 in the code

ASSUME OptAssumption ==
    /\ 0 \in Locals /\ IsFiniteSet(Locals)
    /\ Args \subseteq Locals \ {0}
    /\ MAX_ITERATIONS \in Nat \ {0}
    /\ Size \in Nat \ {0, 1}

\* What a program computes with, and a constant in a body: an Int or Uint has 128 bits
\* whatever its type has.
Values == 0..(Size - 1)
Constants == Nat

Operands == [kind : {"const"}, value : Constants] \cup [kind : {"read"}, local : Locals, field : BOOLEAN]

Unary == {"use", "not", "narrow", "repeat", "inspect", "ref"}
Binary == {"and", "add", "div", "less"}

Rvalues ==
    {rv \in [kind : Unary \cup Binary, ops : Seq(Operands)] :
        Len(rv.ops) = IF rv.kind \in Unary THEN 1 ELSE 2}

Assignments == [local : Locals, field : BOOLEAN, rv : Rvalues]

\* How many blocks a terminator names, its cleanup aside.
Arity(kind) == IF kind = "return" THEN 0 ELSE IF kind = "switch" THEN 2 ELSE 1

\* The terminators of a body with n blocks.
Terminators(n) ==
    {t \in [kind : {"return", "goto", "switch", "drop", "call", "assert"}, op : Operands,
            dest : Locals, targets : Seq(1..n), cleanup : {<<>>} \cup {<<i>> : i \in 1..n}] :
        Len(t.targets) = Arity(t.kind)}

\* The bodies that lowering builds: no terminator names a block that is not there.
WellFormed(b) ==
    /\ b # <<>>
    /\ b \in Seq([stmts : Seq(Assignments), term : Terminators(Len(b))])

ASSUME BodiesAreWellFormed == \A b \in Bodies : WellFormed(b)

VARIABLES
    source,       \* the body `optimize` was called with
    body,         \* the body it is working on
    stage,        \* the pass that comes next
    out_maps,     \* constant_prop: what is known at the end of each visited block
    iteration,    \* constant_prop: the sweeps made
    begun         \* the body the pass before cfg_simplify left

vars == <<source, body, stage, out_maps, iteration, begun>>

-----------------------------------------------------------------------------
(***************************************************************************)
(* Control flow (cfg_simplify.rs).                                         *)
(***************************************************************************)
Blocks(b) == 1..Len(b)

terminator_successors(term) == term.targets \o term.cleanup

\* How often block j names block i as a successor.
Edges(b, j, i) ==
    {n \in DOMAIN terminator_successors(b[j].term) : terminator_successors(b[j].term)[n] = i}

Preds(b, i) == {j \in Blocks(b) : Edges(b, j, i) # {}}

\* The new index of a block; a block that is gone becomes the entry block.
Remap(i, remap) == IF i \in DOMAIN remap THEN remap[i] ELSE 1

remap_terminator(block, remap) ==
    LET new(targets) == [n \in DOMAIN targets |-> Remap(targets[n], remap)]
        retargeted == [block.term EXCEPT !.targets = new(block.term.targets)]
    IN  [block EXCEPT !.term = [retargeted EXCEPT !.cleanup = new(block.term.cleanup)]]

\* The place of i among the numbers in `kept`, and the number at a place.
Rank(kept, i) == Cardinality({j \in kept : j <= i})

Nth(kept, n) == CHOOSE i \in kept : Rank(kept, i) = n

\* The elements of s whose numbers are in `kept`, moved up.
Retain(s, kept) == [n \in 1..Cardinality(kept) |-> s[Nth(kept, n)]]

\* The blocks in `kept`, and their terminators with them.
Keep(b, kept) ==
    LET remap == [i \in kept |-> Rank(kept, i)]
        moved == Retain(b, kept)
    IN  [n \in DOMAIN moved |-> remap_terminator(moved[n], remap)]

-----------------------------------------------------------------------------
(***************************************************************************)
(* constant_prop.rs.  A map is a set of pairs that gives a local its       *)
(* constant, or Varies (None in the code) when two predecessors disagree;  *)
(* of a local it leaves out nothing is known.                              *)
(***************************************************************************)
Varies == -1

Keys(map) == {pair[1] : pair \in map}

\* The maps of all predecessors at once: what one leaves out the others decide.
merge_maps(maps) ==
    LET all == UNION maps
        differ == {l \in Keys(all) : \E p, q \in all : p[1] = l /\ q[1] = l /\ p # q}
    IN  {pair \in all : pair[1] \notin differ} \cup {<<l, Varies>> : l \in differ}

Forget(map, l) == {pair \in map : pair[1] # l}

\* The constants an operand is known to be: one or none.
operand_to_const(op, map) ==
    IF op.kind = "const" THEN {op.value}
    ELSE {pair[2] : pair \in {q \in map : ~op.field /\ q[1] = op.local /\ q[2] # Varies}}

Bools(a) == \A n \in DOMAIN a : a[n] \in {0, 1}

\* What constant operands give, one constant or none.  The sum is not brought back into
\* its type, a division by zero gives 0, and a Cast and a Repeat give their operand.
Fold(kind, a) ==
    CASE kind \in {"use", "narrow", "repeat"} -> {a[1]}
      [] kind = "and" /\ Bools(a) -> {IF a[1] = 0 THEN 0 ELSE a[2]}
      [] kind = "not" /\ Bools(a) -> {1 - a[1]}
      [] kind = "add" -> {a[1] + a[2]}
      [] kind = "div" -> {IF a[2] = 0 THEN 0 ELSE a[1] \div a[2]}
      [] OTHER        -> {}

evaluate_rvalue_to_const(rv, map) ==
    IF rv.kind \in Unary
    THEN UNION {Fold(rv.kind, <<a>>) : a \in operand_to_const(rv.ops[1], map)}
    ELSE UNION {Fold(rv.kind, <<p[1], p[2]>>) :
                    p \in operand_to_const(rv.ops[1], map) \X operand_to_const(rv.ops[2], map)}

\* The local that is assigned is forgotten before its new value is looked at.
Transfer(map, stmt) ==
    LET rest == Forget(map, stmt.local)
    IN  rest \cup IF stmt.field THEN {}
                  ELSE {<<stmt.local, c>> : c \in evaluate_rvalue_to_const(stmt.rv, rest)}

\* The map of a block's end, from the maps of its predecessors that have one.
OutMap(b, maps, i) ==
    LET stmts == b[i].stmts
        after[n \in 0..Len(stmts)] ==
            IF n = 0 THEN merge_maps({m[2] : m \in {q \in maps : q[1] \in Preds(b, i)}})
            ELSE Transfer(after[n - 1], stmts[n])
    IN  after[Len(stmts)]

\* A block nothing leads to is passed over, unless it is the entry block.  `maps`
\* holds a block with its map.
Visit(b, maps, i) ==
    IF i = 1 \/ Preds(b, i) # {} THEN Forget(maps, i) \cup {<<i, OutMap(b, maps, i)>>} ELSE maps

\* One sweep: the blocks in order, each from the maps the sweep has so far.
Sweep(b, maps) ==
    LET swept[n \in 0..Len(b)] == IF n = 0 THEN maps ELSE Visit(b, swept[n - 1], n)
    IN  swept[Len(b)]

replace_operand(op, map) ==
    IF op.kind = "read" /\ operand_to_const(op, map) # {}
    THEN [kind |-> "const", value |-> CHOOSE c \in operand_to_const(op, map) : TRUE] ELSE op

replace_in_rvalue(rv, map) ==
    IF rv.kind \in {"ref", "inspect"} THEN rv
    ELSE [rv EXCEPT !.ops = [n \in DOMAIN @ |-> replace_operand(@[n], map)]]

\* The map of a block's end replaces the operands of all its statements, those before
\* the assignment too.
ReplaceInBody(b, maps) ==
    LET map(i) == UNION {m[2] : m \in {q \in maps : q[1] = i}}
        new(stmt, i) == [stmt EXCEPT !.rv = replace_in_rvalue(@, map(i))]
    IN  [i \in Blocks(b) |-> [b[i] EXCEPT !.stmts = [n \in DOMAIN @ |-> new(@[n], i)]]]

ConstantPropSweep ==
    LET swept == Sweep(body, out_maps) IN
    /\ stage = "constant_prop"
    /\ out_maps' = swept
    /\ iteration' = iteration + 1
    /\ stage' = IF swept = out_maps \/ iteration + 1 >= MAX_ITERATIONS THEN "replace" ELSE stage
    /\ UNCHANGED <<source, body, begun>>

ConstantPropReplace ==
    /\ stage = "replace"
    /\ body' = ReplaceInBody(body, out_maps)
    /\ stage' = "dce"
    /\ UNCHANGED <<source, out_maps, iteration, begun>>

-----------------------------------------------------------------------------
(***************************************************************************)
(* dce.rs.  A local counts as read when it is an operand as it stands,     *)
(* without a projection, of a Use, a BinaryOp, an Aggregate, a Cast, a     *)
(* Repeat, a Ref, a Discriminant, a Len, a Call, a SwitchInt or an Assert. *)
(***************************************************************************)
collect_operand_uses(op) == IF op.kind = "read" /\ ~op.field THEN {op.local} ELSE {}

collect_uses_in_rvalue(rv) ==
    IF rv.kind = "not" THEN {}
    ELSE UNION {collect_operand_uses(rv.ops[n]) : n \in DOMAIN rv.ops}

\* Mutant: terminators read nothing.
collect_uses_nowhere(term) == {}

collect_uses_in_terminator(term) ==
    IF term.kind \in {"call", "switch", "assert"} THEN collect_operand_uses(term.op) ELSE {}

Statements(b) == UNION {{b[i].stmts[n] : n \in DOMAIN b[i].stmts} : i \in Blocks(b)}

collect_used_locals(b) ==
    {0} \cup Args
        \cup (UNION {collect_uses_in_rvalue(s.rv) : s \in Statements(b)})
        \cup UNION {collect_uses_in_terminator(b[i].term) : i \in Blocks(b)}

Dce ==
    /\ stage = "dce"
    /\ LET used == collect_used_locals(body)
           live(stmts) == {n \in DOMAIN stmts : stmts[n].field \/ stmts[n].local \in used}
       IN  body' = [i \in Blocks(body) |-> [body[i] EXCEPT !.stmts = Retain(@, live(@))]]
    /\ begun' = body'
    /\ stage' = "cfg_simplify"
    /\ UNCHANGED <<source, out_maps, iteration>>

-----------------------------------------------------------------------------
(***************************************************************************)
(* cfg_simplify.rs.  A round looks at the blocks in order and appends      *)
(* block i to its only predecessor p when p ends in a Goto to i.  The      *)
(* predecessors are those of the beginning of the round.                   *)
(***************************************************************************)
SinglePred(b, i) ==
    \E p \in Preds(b, i) : Preds(b, i) = {p} /\ Cardinality(Edges(b, p, i)) = 1

ThePred(b, i) == CHOOSE p \in Preds(b, i) : TRUE

\* What a block is left with when its statements and its terminator are taken.
Taken ==
    [stmts |-> <<>>,
     term |-> [kind |-> "return", op |-> [kind |-> "const", value |-> 0], dest |-> 0,
               targets |-> <<>>, cleanup |-> <<>>]]

\* `at` holds the blocks as the round has changed them and the blocks to delete.
MergeBlock(b, at, i) ==
    LET p == ThePred(b, i)
        left == [at.blocks EXCEPT ![i] = Taken]
        merged == [stmts |-> left[p].stmts \o at.blocks[i].stmts, term |-> at.blocks[i].term]
    IN  IF /\ i \notin at.delete
           /\ SinglePred(b, i)
           /\ p \notin at.delete
           /\ at.blocks[p].term.kind = "goto"
           /\ at.blocks[p].term.targets = <<i>>
        THEN [blocks |-> [left EXCEPT ![p] = merged], delete |-> at.delete \cup {i}]
        ELSE at

Round(b) ==
    LET after[n \in 0..(Len(b) - 1)] ==
            IF n = 0 THEN [blocks |-> b, delete |-> {}] ELSE MergeBlock(b, after[n - 1], n + 1)
    IN  after[Len(b) - 1]

CfgSimplifyRound ==
    LET round == Round(body) IN
    /\ stage = "cfg_simplify"
    /\ body' = Keep(round.blocks, Blocks(body) \ round.delete)
    /\ stage' = IF round.delete = {} THEN "unreachable_elim" ELSE stage
    /\ UNCHANGED <<source, out_maps, iteration, begun>>

(***************************************************************************)
(* unreachable_elim.rs.                                                    *)
(***************************************************************************)
\* Mutant: cleanup edges are not followed.
reachable_without_unwinding(b) ==
    LET grown[n \in Nat] ==
            IF n = 0 THEN {1}
            ELSE grown[n - 1] \cup
                 {i \in Blocks(b) : \E j \in grown[n - 1] : \E k \in DOMAIN b[j].term.targets :
                                       b[j].term.targets[k] = i}
    IN  grown[Len(b)]

\* The blocks a depth-first search from the entry block visits.
reachable_set(b) ==
    LET grown[n \in 0..Len(b)] ==
            IF n = 0 THEN {1}
            ELSE grown[n - 1] \cup {i \in Blocks(b) : Preds(b, i) \cap grown[n - 1] # {}}
    IN  grown[Len(b)]

UnreachableElim ==
    /\ stage = "unreachable_elim"
    /\ body' = Keep(body, reachable_set(body))
    /\ stage' = "done"
    /\ UNCHANGED <<source, out_maps, iteration, begun>>

-----------------------------------------------------------------------------
Init ==
    /\ source \in Bodies
    /\ body = source
    /\ stage = "constant_prop"
    /\ out_maps = {}
    /\ iteration = 0
    /\ begun = source

Next == ConstantPropSweep \/ ConstantPropReplace \/ Dce \/ CfgSimplifyRound \/ UnreachableElim

\* `optimize` is a loop that runs until it is done.
Spec == Init /\ [][Next]_vars /\ WF_vars(Next)

-----------------------------------------------------------------------------
(***************************************************************************)
(* What a body means: the calls and drops it makes, in order, and what it  *)
(* ends with, for an argument, a result of every call and whether calls    *)
(* unwind.  This is the reference the passes are measured against.         *)
(***************************************************************************)
Uninit == -3

Envs == [Locals -> Values \cup {Uninit}]

\* Only a body with calls looks at their results.
Inputs(b) ==
    LET calls == \E i \in Blocks(b) : b[i].term.kind = "call"
    IN  [arg : {0, 1}, result : IF calls THEN {0, 1} ELSE {0},
         unwinds : IF calls THEN BOOLEAN ELSE {FALSE}]

\* A constant has the bits of its type when the program runs.
Read(op, env) == IF op.kind = "const" THEN op.value % Size ELSE env[op.local]

\* What an operation of the program gives.  Sums wrap around; a division by zero, and an
\* operation on what is no Bool, have no value.
Compute(kind, a) ==
    CASE kind \in {"use", "inspect", "ref"} -> a[1]
      [] kind = "repeat" -> (a[1] + 1) % Size
      [] kind = "add"    -> (a[1] + a[2]) % Size
      [] kind = "div"    -> IF a[2] = 0 THEN Uninit ELSE a[1] \div a[2]
      [] kind = "less"   -> IF a[1] < a[2] THEN 1 ELSE 0
      [] kind = "narrow" -> a[1] % 2
      [] kind = "and"    -> IF ~Bools(a) THEN Uninit ELSE IF a[1] = 0 THEN 0 ELSE a[2]
      [] kind = "not"    -> IF ~Bools(a) THEN Uninit ELSE 1 - a[1]

\* A value computed from an uninitialised one is uninitialised.
Evaluate(rv, env) ==
    LET a == [n \in DOMAIN rv.ops |-> Read(rv.ops[n], env)]
    IN  IF \E n \in DOMAIN a : a[n] = Uninit THEN Uninit ELSE Compute(rv.kind, a)

Assign(env, stmt) == [env EXCEPT ![stmt.local] = Evaluate(stmt.rv, env)]

Execute(env, stmts) ==
    LET after[n \in 0..Len(stmts)] == IF n = 0 THEN env ELSE Assign(after[n - 1], stmts[n])
    IN  after[Len(stmts)]

\* What is seen of a run, and a run: it is at a block, or at 0 when it has ended.
Whats == {"drop", "call", "return", "unwound", "undefined"}
Events == Seq(Whats \X (Values \cup {Uninit}))
Configs(b) == [at : 0..Len(b), events : Events, env : Envs]

Goto(i, events, env) == [at |-> i, events |-> events, env |-> env]

Ends(how, v, events, env) == Goto(0, Append(events, <<how, v>>), env)

Unwind(term, events, env) ==
    IF term.cleanup = <<>> THEN Ends("unwound", 0, events, env) ELSE Goto(term.cleanup[1], events, env)

\* How a run goes on at the end of a block.
RunTerminator(term, input, events, env) ==
    LET v    == Read(term.op, env)
        seen == Append(events, <<term.kind, v>>)
    IN  CASE term.kind = "return" -> Ends("return", env[0], events, env)
          [] term.kind = "goto"   -> Goto(term.targets[1], events, env)
          [] term.kind = "switch" -> IF v = Uninit THEN Ends("undefined", 0, events, env)
                                     ELSE Goto(term.targets[IF v = 0 THEN 1 ELSE 2], events, env)
          [] term.kind = "assert" -> IF v = Uninit THEN Ends("undefined", 0, events, env)
                                     ELSE IF v = 1 THEN Goto(term.targets[1], events, env)
                                     ELSE Unwind(term, events, env)
          [] term.kind = "drop"   -> Goto(term.targets[1], seen, env)
          [] term.kind = "call"   ->
                 IF input.unwinds THEN Unwind(term, seen, env)
                 ELSE Goto(term.targets[1], seen, [env EXCEPT ![term.dest] = input.result])

BlockRun(b, input, c) ==
    IF c.at = 0 THEN c
    ELSE RunTerminator(b[c.at].term, input, c.events, Execute(c.env, b[c.at].stmts))

\* Long enough for every run to end or to come back to a block with the values it had
\* there.
Fuel(b) == 1 + Cardinality(Blocks(b) \X Envs)

Entry(input) == Goto(1, <<>>, [l \in Locals |-> IF l \in Args THEN input.arg ELSE Uninit])

Meaning(b, input) ==
    LET step[c \in Configs(b)] == BlockRun(b, input, c)
        run[n \in Nat] == IF n = 0 THEN Entry(input) ELSE step[run[n - 1]]
        last == run[Fuel(b)]
    IN  IF last.at = 0 THEN last.events ELSE <<<<"diverges", 0>>>>

SameMeaning(b, c) == \A input \in Inputs(b) \cup Inputs(c) : Meaning(b, input) = Meaning(c, input)

-----------------------------------------------------------------------------
(***************************************************************************)
(* Properties.                                                             *)
(***************************************************************************)
\* Merging blocks and removing unreachable ones, with the renumbering both need, never
\* changes what a body does: its calls and drops, their order, and how it ends, also
\* along the cleanup edges of calls that unwind.
ControlFlowKeepsMeaning == stage = "done" => SameMeaning(body, begun)

\* No local is assigned twice, and no argument: what lowering emits for temporaries.
SingleAssignment(b) ==
    LET at == UNION {{<<i, n>> : n \in DOMAIN b[i].stmts} : i \in Blocks(b)}
        assigned(l) == {p \in at : b[p[1]].stmts[p[2]].local = l}
        called(l) == {i \in Blocks(b) : b[i].term.kind = "call" /\ b[i].term.dest = l}
    IN  \A l \in Locals :
            Cardinality(assigned(l)) + Cardinality(called(l)) <= IF l \in Args THEN 0 ELSE 1

\* Nothing undefined happens when the body runs.
WellDefined(b) ==
    \A input \in Inputs(b) :
        LET events == Meaning(b, input)
        IN  \A n \in DOMAIN events : events[n][1] # "undefined" /\ events[n][2] # Uninit

\* Every read is one that dce counts.
ReadsAreCounted(b) ==
    /\ \A s \in Statements(b) :
          s.rv.kind # "not" /\ \A n \in DOMAIN s.rv.ops : s.rv.ops[n].kind = "read" => ~s.rv.ops[n].field
    /\ \A i \in Blocks(b) :
          b[i].term.kind # "drop" /\ (b[i].term.op.kind = "read" => ~b[i].term.op.field)

\* All that the statements of a body give, from facts, and from nothing at all.
Derived(b, facts) ==
    UNION {{<<s.local, c>> : c \in evaluate_rvalue_to_const(s.rv, facts)} : s \in {t \in Statements(b) : ~t.field}}

Found(b) ==
    LET grown[n \in 0..Cardinality(Locals)] == IF n = 0 THEN {} ELSE Derived(b, grown[n - 1])
    IN  grown[Cardinality(Locals)]

\* Every constant that can be found is a value of the type it stands for: no folded sum
\* leaves its type, no folded Cast loses bits, and no Repeat is folded.
FoldsAreExact(b) ==
    /\ Derived(b, Found(b)) = Found(b)
    /\ \A s \in Statements(b) :
          /\ \A n \in DOMAIN s.rv.ops : s.rv.ops[n].kind = "const" => s.rv.ops[n].value < Size
          /\ ~s.field => \A c \in evaluate_rvalue_to_const(s.rv, Found(b)) :
                 s.rv.kind # "repeat" /\ c \in 0..(IF s.rv.kind = "narrow" THEN 1 ELSE Size - 1)

\* On a body that assigns every local once and reads whole locals only, constant
\* propagation and dead code elimination keep the meaning: the constants found by the
\* sweeps are the values the operands have.  The bodies in which a fold leaves its type
\* are excluded, and a division by zero is undefined (WellDefined).
ConstantsAreTheValues ==
    (stage \in {"cfg_simplify", "done"} /\ SingleAssignment(source) /\ ReadsAreCounted(source)
       /\ FoldsAreExact(source) /\ WellDefined(source)) => SameMeaning(body, source)

-----------------------------------------------------------------------------
(***************************************************************************)
(* What the documentation says and the code does not do.                   *)
(***************************************************************************)
\* "Dead-code elimination: removes assignments to locals that are never read" (dce.rs).
RemovesOnlyUnread ==
    [][Dce => \A s \in Statements(body) \ Statements(body') :
          \A r \in Statements(body') : \A n \in DOMAIN r.rv.ops :
              r.rv.ops[n].kind = "read" => r.rv.ops[n].local # s.local]_vars

\* Folding keeps the meaning of an operation: it does not of a sum that leaves its type
\* and is divided, of a Cast that loses bits, and of a Repeat.
FoldingKeepsMeaning ==
    (stage = "done" /\ SingleAssignment(source) /\ ReadsAreCounted(source) /\ WellDefined(source))
        => SameMeaning(body, source)

\* Optimising keeps the meaning of every well-defined body.
OptimizingKeepsMeaning == (stage = "done" /\ WellDefined(source)) => SameMeaning(body, source)
==============================================================================
