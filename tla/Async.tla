-------------------------------- MODULE Async --------------------------------
(***************************************************************************)
(* The desugaring of `async fn` (crates/glyim-hir/src/lower/lower_async.rs) *)
(* into a future: with at most one `.await` its poll function is the body, *)
(* which spins if the awaited future is pending; with more it is a state   *)
(* machine.                                                                *)
(*                                                                         *)
(* An expression is a record [k, name, kids, tail]: its kind, the name it  *)
(* mentions or binds, its operands in the order of evaluation, and for a   *)
(* block whether the last of them is its value.  In a tree the operands    *)
(* are trees, in the arena of a body they are positions in the arena.      *)
(***************************************************************************)
EXTENDS Integers, Sequences, SequencesExt, FiniteSets

Expr(k, name, kids) == [k |-> k, name |-> name, kids |-> kids, tail |-> FALSE]
Path(name) == Expr("Path", name, <<>>)
PollReady == Expr("QualifiedPath", "Poll::Ready", <<>>)
-----------------------------------------------------------------------------
(***************************************************************************)
(* Lowering: the operands of an expression are allocated before it, so     *)
(* that an inner block is in front of the block of the function.           *)
(***************************************************************************)
\* The value of a block is its last statement, unless that is a `let` or
\* ends in a semicolon; t.tail says that it does not.
lower_block_to_expr(t) == t.k = "Block" /\ t.tail /\ t.kids # <<>> /\ Last(t.kids).k # "Let"

RECURSIVE lower_expr(_, _)
lower_expr(t, exprs) ==
    LET Operand(acc, kid) ==
            LET after == lower_expr(kid, acc.exprs) IN [exprs |-> after, ids |-> Append(acc.ids, Len(after))]
        below == FoldLeft(Operand, [exprs |-> exprs, ids |-> <<>>], t.kids)
    IN Append(below.exprs, [t EXCEPT !.kids = below.ids, !.tail = lower_block_to_expr(t)])

Blocks(exprs) == {i \in DOMAIN exprs : exprs[i].k = "Block"}

\* What the desugaring takes for the body: the first block of the arena.
root_expr_id(exprs) ==
    IF Blocks(exprs) = {} THEN Len(exprs) ELSE CHOOSE i \in Blocks(exprs) : \A j \in Blocks(exprs) : i <= j

\* What the type checker takes for it: the last one.
checked_root(exprs) == CHOOSE i \in Blocks(exprs) : \A j \in Blocks(exprs) : j <= i
-----------------------------------------------------------------------------
(***************************************************************************)
(* Suspension points.                                                      *)
(***************************************************************************)
\* The kinds whose operands are searched for `.await`.
Searched ==
    {"Await", "Block", "If", "Match", "Call", "MethodCall", "While", "Loop", "For", "Return", "Let", "Assign", "Field",
     "Index", "Unary", "Binary", "Cast", "Ref", "Struct", "Array", "Tuple", "Range", "Closure"}

RECURSIVE collect_suspend_points(_, _)
collect_suspend_points(exprs, id) ==
    LET e == exprs[id]
        below == IF e.k \in Searched THEN FlattenSeq([i \in DOMAIN e.kids |-> collect_suspend_points(exprs, e.kids[i])])
                 ELSE <<>>
    IN IF e.k = "Await" THEN Append(below, id) ELSE below

IsLoopBody(e, i) == e.k = "Loop" \/ (e.k \in {"While", "For"} /\ i = 2)

RECURSIVE await_inside_loop(_, _, _)
await_inside_loop(exprs, id, in_loop) ==
    LET e == exprs[id]
    IN \/ e.k = "Await" /\ in_loop
       \/ e.k \in Searched /\ \E i \in DOMAIN e.kids : await_inside_loop(exprs, e.kids[i], in_loop \/ IsLoopBody(e, i))

\* The kinds that the split of a body into segments looks into.
Split == {"Await", "Block", "If", "Match", "Let", "Call", "MethodCall", "Binary", "Field", "Return"}

await_infos_await_exprs(exprs) == {i \in DOMAIN exprs : exprs[i].k = "Await"}

RECURSIVE stmt_contains(_, _, _)
stmt_contains(exprs, container, target) ==
    \/ container = target
    \/ /\ exprs[container].k \in Split
       /\ \E i \in DOMAIN exprs[container].kids : stmt_contains(exprs, exprs[container].kids[i], target)

HasAwait(exprs, id) == \E a \in await_infos_await_exprs(exprs) : stmt_contains(exprs, id, a)
-----------------------------------------------------------------------------
(***************************************************************************)
(* At most one `.await`: the body, rewritten in its arena, is polled.      *)
(***************************************************************************)
FieldName(i) == <<"f0", "f1", "f2">>[i]
Position(name, params) == CHOOSE i \in DOMAIN params : params[i] = name

\* One expression, in place; what it needs is appended to the arena. The
\* operands of blocks, conditionals and matches are rewritten with them.
RECURSIVE rewrite_expr(_, _, _)
rewrite_expr(exprs, id, params) ==
    LET e == exprs[id]
        n == Len(exprs)
    IN CASE e.k = "Await" ->
                [exprs EXCEPT ![id] = Expr("Match", "", <<n + 1, n + 2, n + 4>>)]
                    \o <<Expr("MethodCall", "poll", e.kids), Path("v"), Expr("Block", "", <<>>), Expr("Loop", "", <<n + 3>>)>>
         [] e.k = "Path" /\ e.name \in Range(params) ->
                [exprs EXCEPT ![id] = Expr("Field", FieldName(Position(e.name, params)), <<n + 1>>)] \o <<Path("self")>>
         [] e.k = "Return" /\ e.kids # <<>> ->
                [exprs EXCEPT ![id].kids = <<n + 2>>] \o <<PollReady, Expr("Call", "", <<n + 1, e.kids[1]>>)>>
         [] e.k \in {"Block", "If", "Match"} ->
                FoldLeft(LAMBDA acc, kid : rewrite_expr(acc, kid, params), exprs, e.kids)
         [] OTHER -> exprs

\* Every expression in the order of the arena, then the value of the first
\* block; without one no new body is appended.
rewrite_for_poll(exprs, params) ==
    LET all == FoldLeft(LAMBDA acc, id : rewrite_expr(acc, id, params), exprs, [i \in DOMAIN exprs |-> i])
        root == all[root_expr_id(all)]
        tail == Last(root.kids)
        n == Len(all)
    IN IF ~root.tail THEN all
       ELSE [all EXCEPT ![tail] = Expr("Call", "", <<n + 2, n + 1>>)]
                \o <<all[tail], PollReady, [Expr("Block", "", root.kids) EXCEPT !.tail = TRUE]>>

desugar_one_async_fn(body) == [kind |-> "poll", exprs |-> rewrite_for_poll(body.exprs, body.params)]
-----------------------------------------------------------------------------
(***************************************************************************)
(* Two and more: a machine with the states Start, S0, S1.. and Done.  An   *)
(* arm binds the fields of its state and polls a future; what it does then *)
(* is a list of expressions, the state to store and how it goes on.        *)
(***************************************************************************)
ResultName(j) == <<"v0", "v1", "v2", "v3">>[j]
Ready == "__v"

\* The statements between the awaits, the names that the awaits bind, and the
\* tail. The operands of a statement with an `.await` other than the future
\* are in no segment.
SplitBody(exprs) ==
    LET root == exprs[root_expr_id(exprs)]
        stmts == IF root.k # "Block" THEN <<>> ELSE IF root.tail THEN Front(root.kids) ELSE root.kids
        tail == IF root.k # "Block" THEN <<root_expr_id(exprs)>> ELSE IF root.tail THEN <<Last(root.kids)>> ELSE <<>>
        Stmt(acc, s) ==
            IF HasAwait(exprs, s)
            THEN [pre |-> Append(acc.pre, <<>>), vars |-> Append(acc.vars, IF exprs[s].k = "Let" THEN exprs[s].name ELSE "")]
            ELSE [acc EXCEPT !.pre[Len(acc.pre)] = Append(@, s)]
        split == FoldLeft(Stmt, [pre |-> <<<<>>>>, vars |-> <<>>], stmts)
    IN [pre |-> split.pre, vars |-> split.vars,
        tail |-> IF tail # <<>> /\ ~HasAwait(exprs, tail[1]) THEN tail ELSE <<>>]

\* Mutant: the result that has just come in is looked for in the state.
arm_rename_from_state(b, k, name) ==
    LET js == {j \in DOMAIN b.vars : b.vars[j] = name}
    IN IF js # {} THEN ResultName(CHOOSE j \in js : \A i \in js : i <= j)
       ELSE IF name \in Range(b.params) THEN FieldName(Position(name, b.params)) ELSE name

\* What a name of the body is called in the arm of the k-th future: the later
\* of two results with one name has it everywhere.
arm_rename(b, k, name) ==
    LET js == {j \in DOMAIN b.vars : b.vars[j] = name}
        last == CHOOSE j \in js : \A i \in js : i <= j
    IN IF js # {} THEN (IF last = k THEN Ready ELSE ResultName(last))
       ELSE IF name \in Range(b.params) THEN FieldName(Position(name, b.params)) ELSE name

\* The expression as a tree of its own; patterns keep their names.
RECURSIVE copy_expr_renamed(_, _, _)
copy_expr_renamed(b, k, id) ==
    LET e == b.exprs[id]
    IN [e EXCEPT !.name = IF e.k = "Path" THEN arm_rename(b, k, e.name) ELSE @,
                 !.kids = [i \in DOMAIN e.kids |-> copy_expr_renamed(b, k, e.kids[i])]]

Copies(b, k, ids) == [i \in DOMAIN ids |-> copy_expr_renamed(b, k, ids[i])]

\* The fields of a state: the parameters, some results, and one local more.
build_state_struct(b, state, results, extra) ==
    [state |-> state, fields |-> [i \in DOMAIN b.params |-> <<FieldName(i), FieldName(i)>>] \o results \o extra]
Kept(k) == [j \in 1..(k - 1) |-> <<ResultName(j), ResultName(j)>>]
NextState(b, k) == build_state_struct(b, k + 1, Kept(k), <<<<ResultName(k), Ready>>, <<"fut", "fut'">>>>)

\* The first arm runs the statements in front of the first await and makes its
\* future; if that is ready at once it goes to the second state, past the
\* statements in between.
StartArm(b) ==
    [pre |-> Copies(b, 1, b.pre[1]), make |-> <<copy_expr_renamed(b, 1, b.inner[1])>>,
     ready |-> [stmts |-> <<>>, make |-> <<copy_expr_renamed(b, 1, b.inner[2])>>, then |-> <<NextState(b, 1)>>, value |-> <<>>],
     pending |-> <<build_state_struct(b, 1, <<>>, <<<<"fut", "fut">>>>)>>]

\* The arm of state k polls the future again that it was left with; on Pending
\* the state stays. The statements behind the last await are in no arm.
SuspendArm(b, k) ==
    [pre |-> <<>>, make |-> <<>>, pending |-> <<>>,
     ready |-> IF k < Len(b.inner)
               THEN [stmts |-> Copies(b, k, b.pre[k + 1]), make |-> <<copy_expr_renamed(b, k, b.inner[k + 1])>>,
                     then |-> <<NextState(b, k)>>, value |-> <<>>]
               ELSE [stmts |-> <<>>, make |-> <<>>, then |-> <<>>,
                     value |-> IF b.tail = <<>> THEN <<Path(Ready)>> ELSE Copies(b, k, b.tail)]]

\* A future has a type to name if it is a call by name.
future_type_name(exprs, inner) ==
    exprs[inner].k = "Call" /\ exprs[exprs[inner].kids[1]].k = "Path"

desugar_multi_async_fn(body) ==
    LET points == collect_suspend_points(body.exprs, root_expr_id(body.exprs))
        inner == [i \in DOMAIN points |-> body.exprs[points[i]].kids[1]]
        split == SplitBody(body.exprs)
        b == [inner |-> inner, exprs |-> body.exprs, params |-> body.params,
              pre |-> split.pre, vars |-> split.vars, tail |-> split.tail]
    IN IF \E i \in DOMAIN inner : ~future_type_name(body.exprs, inner[i]) THEN [kind |-> "error", number |-> 61]
       ELSE IF Len(split.vars) < Len(inner) - 1 THEN [kind |-> "panic"]
       ELSE [kind |-> "machine", start |-> StartArm(b), arms |-> [k \in DOMAIN inner |-> SuspendArm(b, k)]]

desugar_async(body) ==
    LET root == root_expr_id(body.exprs)
    IN IF await_inside_loop(body.exprs, root, FALSE) THEN [kind |-> "error", number |-> 60]
       ELSE IF Len(collect_suspend_points(body.exprs, root)) <= 1 THEN desugar_one_async_fn(body)
       ELSE desugar_multi_async_fn(body)
-----------------------------------------------------------------------------
(***************************************************************************)
(* Running a body.  Values are terms.  Calling an async function makes a   *)
(* future, which is pending as often as pendings says for the futures in   *)
(* the order they are made; the log has what can be seen from outside.     *)
(***************************************************************************)
Begin(args, pendings, taken) ==
    [env |-> <<>>, args |-> args, log |-> <<>>, polls |-> <<>>, pendings |-> pendings, taken |-> taken,
     flow |-> "next", val |-> <<"unit">>]
Bind(st, name, v) == [st EXCEPT !.env = Append(@, <<name, v>>), !.val = <<"unit">>]
Note(st, event) == [st EXCEPT !.log = Append(@, event)]
Lookup(st, name) ==
    LET at == {i \in DOMAIN st.env : st.env[i][1] = name}
    IN IF at = {} THEN [st EXCEPT !.flow = "stuck"]
       ELSE [st EXCEPT !.val = st.env[CHOOSE i \in at : \A j \in at : j <= i][2]]

Make(st, name, args) ==
    [Note(st, <<"make", name, args>>) EXCEPT !.polls = Append(@, 0), !.val = <<"future", Len(st.polls) + 1, name, args>>]

\* A future that has been ready is not polled again.
Poll(st) ==
    LET i == st.val[2]
    IN IF st.val[1] # "future" \/ st.polls[i] > st.pendings[i] THEN [st EXCEPT !.flow = "stuck"]
       ELSE [Note(st, <<"poll", i>>) EXCEPT
                !.polls[i] = @ + 1,
                !.val = IF st.polls[i] < st.pendings[i] THEN <<"Pending">> ELSE <<"Ready", <<"out", st.val[3], st.val[4]>>>>]

\* `.await`: pending is handed to the caller, who polls again.
RECURSIVE Await(_)
Await(st) ==
    LET after == Poll(st)
    IN IF after.flow # "next" THEN after
       ELSE IF after.val[1] = "Ready" THEN [after EXCEPT !.val = @[2]]
       ELSE Await([Note(after, <<"pending">>) EXCEPT !.val = st.val])

RECURSIVE Run(_, _)
Run(t, st) ==
    LET Each(acc, kid) ==
            IF acc.st.flow # "next" THEN acc
            ELSE LET s == Run(kid, acc.st) IN [st |-> s, vals |-> Append(acc.vals, s.val)]
        Operands(kids) == FoldLeft(Each, [st |-> st, vals |-> <<>>], kids)
        ops == Operands(IF t.k = "Call" THEN Tail(t.kids) ELSE t.kids)
        Then(F(_, _)) == IF ops.st.flow # "next" THEN ops.st ELSE F(ops.st, ops.vals)
        Scoped(s) == [s EXCEPT !.env = st.env]
        Chosen(s, vals) == IF st.taken THEN Scoped(Run(t.kids[2], s)) ELSE IF Len(t.kids) = 3 THEN Scoped(Run(t.kids[3], s)) ELSE [s EXCEPT !.val = <<"unit">>]
        Arm(s) == IF s.val[1] = "Ready" THEN Scoped(Run(t.kids[2], Bind(s, "v", s.val[2]))) ELSE Run(t.kids[3], s)
    IN CASE t.k = "Path" -> Lookup(st, t.name)
         [] t.k = "Lit" -> [st EXCEPT !.val = <<"lit", t.name>>]
         [] t.k = "Binary" -> Then(LAMBDA s, vals : [s EXCEPT !.val = <<"+", vals[1], vals[2]>>])
         [] t.k = "Call" /\ t.kids[1] = PollReady -> Then(LAMBDA s, vals : [s EXCEPT !.val = <<"Ready", vals[1]>>])
         [] t.k = "Call" /\ t.name = "async" -> Then(LAMBDA s, vals : Make(s, t.kids[1].name, vals))
         [] t.k = "Call" -> Then(LAMBDA s, vals : [Note(s, <<"call", t.kids[1].name, vals>>) EXCEPT !.val = <<"result", t.kids[1].name, vals>>])
         [] t.k = "Let" -> Then(LAMBDA s, vals : Bind(s, t.name, vals[1]))
         [] t.k = "Block" -> Then(LAMBDA s, vals : [Scoped(s) EXCEPT !.val = IF t.tail THEN @ ELSE <<"unit">>])
         [] t.k = "Return" -> Then(LAMBDA s, vals : [s EXCEPT !.flow = "return"])
         [] t.k = "Await" -> Then(LAMBDA s, vals : Await(s))
         [] t.k = "MethodCall" -> Then(LAMBDA s, vals : Poll(s))
         [] t.k = "Field" -> [st EXCEPT !.val = st.args[CHOOSE i \in DOMAIN st.args : FieldName(i) = t.name]]
         [] t.k = "If" -> LET s == Run(t.kids[1], st) IN IF s.flow # "next" THEN s ELSE Chosen(s, <<>>)
         [] t.k = "Match" -> LET s == Run(t.kids[1], st) IN IF s.flow # "next" THEN s ELSE Arm(s)
         [] OTHER -> [st EXCEPT !.flow = "hang"]

RECURSIVE Tree(_, _)
Tree(exprs, id) == [exprs[id] EXCEPT !.kids = [i \in DOMAIN @ |-> Tree(exprs, @[i])]]

\* The machine is polled until it is ready; state 0 is Start.
RECURSIVE Drive(_, _, _, _)
Drive(m, state, fields, st) ==
    LET arm == IF state = 0 THEN m.start ELSE m.arms[state]
        Stmt(s, t) == IF s.flow # "next" THEN s ELSE Run(t, s)
        Stmts(ts, s) == FoldLeft(Stmt, s, ts)
        Made(ts, name, s) == IF ts = <<>> \/ s.flow # "next" THEN s
                             ELSE LET f == Run(ts[1], s) IN IF f.flow # "next" THEN f ELSE Bind(f, name, f.val)
        Stored(struct, s) == [i \in DOMAIN struct.fields |-> <<struct.fields[i][1], Lookup(s, struct.fields[i][2]).val>>]
        Bound(struct, s) == \A i \in DOMAIN struct.fields : Lookup(s, struct.fields[i][2]).flow = "next"
        Goto(struct, s) == IF s.flow # "next" THEN s
                           ELSE IF Bound(struct, s) THEN Drive(m, struct.state, Stored(struct, s), s) ELSE [s EXCEPT !.flow = "stuck"]
        ready == Made(arm.make, "fut", Stmts(arm.pre, [st EXCEPT !.env = fields]))
        future == IF ready.flow # "next" THEN ready ELSE Lookup(ready, "fut")
        polled == IF future.flow # "next" THEN future ELSE Poll(future)
        got == Stmts(arm.ready.stmts, Bind(polled, Ready, polled.val[2]))
    IN IF polled.flow # "next" THEN polled
       ELSE IF polled.val[1] = "Pending"
            THEN IF arm.pending = <<>> THEN Drive(m, state, fields, Note(polled, <<"pending">>))
                 ELSE Goto(arm.pending[1], Note(polled, <<"pending">>))
       ELSE IF arm.ready.then # <<>> THEN Goto(arm.ready.then[1], Made(arm.ready.make, "fut'", got))
       ELSE Stmts(arm.ready.value \o arm.ready.value, got)

\* The function as it is written, and as it is desugared.
Ended(st) == [log |-> st.log, flow |-> IF st.flow = "return" THEN "next" ELSE st.flow, val |-> st.val]
Written(t, params, args, pendings, taken) ==
    Ended(Run(t, [Begin(args, pendings, taken) EXCEPT !.env = [i \in DOMAIN params |-> <<params[i], args[i]>>]]))
Polled(future, params, args, pendings, taken) ==
    LET st == Begin(args, pendings, taken)
        once == Run(Tree(future.exprs, checked_root(future.exprs)), st)
    IN IF future.kind = "machine"
       THEN Ended(Drive(future, 0, [i \in DOMAIN params |-> <<FieldName(i), args[i]>>], st))
       ELSE IF once.flow \in {"next", "return"} /\ once.val[1] = "Ready" THEN [Ended(once) EXCEPT !.val = @[2]]
       ELSE [Ended(once) EXCEPT !.flow = IF @ = "next" THEN "stuck" ELSE @]
=============================================================================
