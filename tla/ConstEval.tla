------------------------------ MODULE ConstEval ------------------------------
(****************************************************************************)
(* The constant evaluator (crates/glyim-const-eval/src/eval.rs, value.rs).  *)
(* evaluate_expr threads the evaluator's fields through a recursive walk of *)
(* the expression: st.env is its stack of scopes, st.ctl its loop_control,  *)
(* and st.ok with st.val the Result.  Integers keep the difference between  *)
(* the 128 bits they are computed in (WideBits here) and the width of their *)
(* type (TyBits); floating point values are left out.                       *)
(****************************************************************************)
EXTENDS Integers, Sequences, TLC, Bitwise
LOCAL INSTANCE SequencesExt

CONSTANTS
    TyBits,          \* the width of every integer type
    WideBits,        \* stands for the 128 bits of i128 and u128
    MAX_EVAL_DEPTH,  \* lib.rs:15
    MAX_ITERS,       \* of while and loop
    MAX_FOR_ITERS,   \* the budget of for
    Fns              \* the registered const fns: name -> [params, body]

SignedTys == DOMAIN TyBits \cap {"i8", "i16", "i32", "i64", "isize"}

\* ConstValue.  The field that holds the contents has one name per sort.
IntVal(i, ty) == [k |-> "Int", i |-> i, ty |-> ty]
UintVal(i, ty) == [k |-> "Uint", i |-> i, ty |-> ty]
Bool(b) == [k |-> "Bool", b |-> b]
Char(c) == [k |-> "Char", c |-> c]
Unit == [k |-> "Unit"]
Tuple(vs) == [k |-> "Tuple", vs |-> vs]
Array(vs) == [k |-> "Array", vs |-> vs]
Struct(fs) == [k |-> "Struct", fs |-> fs]
RangeVal(start, end, inclusive) ==
    [k |-> "Range", start |-> start, end |-> end, inclusive |-> inclusive]

IsInteger(v) == v.k \in {"Int", "Uint"}
Number(k, i, ty) == IF k = "Int" THEN IntVal(i, ty) ELSE UintVal(i, ty)

----------------------------------------------------------------------------
\* Two's complement: v as the signed or unsigned integer of so many bits.
AsUnsigned(v, bits) == v % 2 ^ bits
AsSigned(v, bits) ==
    LET u == v % 2 ^ bits IN IF u >= 2 ^ (bits - 1) THEN u - 2 ^ bits ELSE u

Wide(k, i) == IF k = "Int" THEN AsSigned(i, WideBits) ELSE AsUnsigned(i, WideBits)

as_i128(v) == AsSigned(v.i, WideBits)
as_u128(v) == AsUnsigned(v.i, WideBits)

Fits(k, i, bits) ==
    IF k = "Int" THEN i \in -(2 ^ (bits - 1))..(2 ^ (bits - 1) - 1) ELSE i \in 0..(2 ^ bits - 1)

\* Rust divides towards zero.
Quotient(a, b) ==
    LET q == (IF a < 0 THEN -a ELSE a) \div (IF b < 0 THEN -b ELSE b)
    IN IF (a < 0) = (b < 0) THEN q ELSE -q
Remainder(a, b) == a - b * Quotient(a, b)

\* checked_add and its kin: None is the empty sequence.
Checked(op, a, b) ==
    IF ~IsInteger(a) \/ b.k # a.k \/ a.ty # b.ty \/ (op \in {"/", "%"} /\ b.i = 0) THEN <<>>
    ELSE LET r == CASE op = "+" -> a.i + b.i
                    [] op = "-" -> a.i - b.i
                    [] op = "*" -> a.i * b.i
                    [] op = "/" -> Quotient(a.i, b.i)
                    [] op = "%" -> Remainder(a.i, b.i)
         IN IF Fits(a.k, r, WideBits) THEN <<Number(a.k, r, a.ty)>> ELSE <<>>

validate_range(v) == IF IsInteger(v) /\ ~Fits(v.k, v.i, TyBits[v.ty]) THEN <<>> ELSE <<v>>

\* A Rust Option or Result is a sequence of at most one element.
AndThen(o, F(_)) == IF o = <<>> THEN <<>> ELSE F(o[1])

Arithmetic(op, a, b) == AndThen(Checked(op, a, b), validate_range)

compare_eq(a, b) ==
    /\ a.k = b.k
    /\ \/ IsInteger(a) /\ a.i = b.i
       \/ a.k = "Bool" /\ a.b = b.b
       \/ a.k = "Char" /\ a.c = b.c
       \/ a.k = "Unit"

compare_lt(a, b) ==
    IF a.k # b.k \/ a.k \notin {"Int", "Uint", "Char"} THEN <<>>
    ELSE <<Bool(IF a.k = "Char" THEN a.c < b.c ELSE a.i < b.i)>>

Negate(o) == AndThen(o, LAMBDA v : <<Bool(~v.b)>>)

\* The right side counts only if the left does not decide, but is evaluated.
logical(op, a, b) ==
    IF a.k # "Bool" THEN <<>>
    ELSE IF a.b = (op = "||") THEN <<a>>
    ELSE IF b.k = "Bool" THEN <<b>> ELSE <<>>

\* The type of the right side is not looked at.
bitwise(op, a, b) ==
    LET Bits(x, y) == CASE op = "&" -> x & y [] op = "|" -> x | y [] op = "^" -> x ^^ y
    IN IF a.k # b.k THEN <<>>
       ELSE IF IsInteger(a) THEN <<Number(a.k, Wide(a.k, Bits(as_u128(a), as_u128(b))), a.ty)>>
       ELSE IF a.k = "Bool"
            THEN <<Bool(CASE op = "&" -> a.b /\ b.b [] op = "|" -> a.b \/ b.b [] op = "^" -> a.b # b.b)>>
       ELSE <<>>

\* wrapping_shl and wrapping_shr take the amount modulo the 128 bits; neither
\* brings the result back into the range of its type.
shift(op, a, b) ==
    IF ~IsInteger(a) \/ b.k # "Int" THEN <<>>
    ELSE LET n == 2 ^ (b.i % WideBits)
         IN <<Number(a.k, IF op = "<<" THEN Wide(a.k, a.i * n) ELSE a.i \div n, a.ty)>>

apply_binop(op, a, b) ==
    CASE op \in {"+", "-", "*", "/", "%"} -> Arithmetic(op, a, b)
      [] op = "==" -> <<Bool(compare_eq(a, b))>>
      [] op = "!=" -> <<Bool(~compare_eq(a, b))>>
      [] op = "<"  -> compare_lt(a, b)
      [] op = ">"  -> compare_lt(b, a)
      [] op = "<=" -> Negate(compare_lt(b, a))
      [] op = ">=" -> Negate(compare_lt(a, b))
      [] op \in {"&&", "||"} -> logical(op, a, b)
      [] op \in {"&", "|", "^"} -> bitwise(op, a, b)
      [] op \in {"<<", ">>"} -> shift(op, a, b)

apply_unop(op, v) ==
    CASE op = "!" /\ v.k = "Bool" -> <<Bool(~v.b)>>
      [] op = "!" /\ IsInteger(v) -> <<Number(v.k, Wide(v.k, -v.i - 1), v.ty)>>
      [] op = "-" /\ v.k = "Int" /\ Fits("Int", -v.i, WideBits) -> validate_range(IntVal(-v.i, v.ty))
      [] OTHER -> <<>>

\* is_valid_cast, the gate typeck attaches, asked of the types that have a name
\* in its map: of the casts between primitives it refuses an integer to bool.
is_valid_cast(v, ty) == IsInteger(v) /\ ty = "bool" => v.ty \in {"isize", "usize"}

\* A Bool has no as_i128: its cast to an integer fails and its cast to bool is
\* false.
eval_cast(v, ty) ==
    IF ~is_valid_cast(v, ty) THEN <<>>
    ELSE CASE ty = "bool" -> <<Bool(IsInteger(v) /\ v.i # 0)>>
           [] ~IsInteger(v) \/ ty \notin DOMAIN TyBits \ {"isize", "usize"} -> <<>>
           [] ty \in SignedTys -> <<IntVal(AsSigned(as_i128(v), TyBits[ty]), ty)>>
           [] OTHER -> <<UintVal(AsUnsigned(as_u128(v), TyBits[ty]), ty)>>

Sqrt(i) == CHOOSE r \in 0..i : r * r <= i /\ (r + 1) * (r + 1) > i
SameInts(args) == Len(args) = 2 /\ IsInteger(args[1]) /\ args[2].k = args[1].k /\ args[1].ty = args[2].ty

\* ConstFn::from_name and apply: the builtins, also reached as methods.
BuiltinNames == {"abs", "min", "max", "sqrt", "is_power_of_two"}
apply_builtin(name, args) ==
    LET x == args[1]
        NonNegative == args # <<>> /\ IsInteger(x) /\ x.i >= 0
    IN CASE name = "abs" /\ args # <<>> /\ x.k = "Int" -> <<IntVal(IF x.i < 0 THEN -x.i ELSE x.i, x.ty)>>
         [] name = "min" /\ SameInts(args) -> <<IF args[2].i < x.i THEN args[2] ELSE x>>
         [] name = "max" /\ SameInts(args) -> <<IF args[2].i < x.i THEN x ELSE args[2]>>
         [] name = "sqrt" /\ NonNegative -> <<Number(x.k, Sqrt(x.i), x.ty)>>
         [] name = "is_power_of_two" /\ NonNegative -> <<Bool(\E e \in 0..WideBits : x.i = 2 ^ e)>>
         [] OTHER -> <<>>

----------------------------------------------------------------------------
\* The evaluator's fields and the Result of the call that just returned.
NoScope == [n \in {} |-> Unit]
Start == [env |-> <<NoScope>>, ctl |-> "none", ok |-> TRUE, val |-> Unit]

Yield(st, v) == [st EXCEPT !.val = v]
Fail(st) == [st EXCEPT !.ok = FALSE]
Answer(st, o) == IF o = <<>> THEN Fail(st) ELSE Yield(st, o[1])
\* The operator `?`.
Then(st, F(_)) == IF st.ok THEN F(st) ELSE st

push(st) == [st EXCEPT !.env = Append(@, NoScope)]
pop(st) == [st EXCEPT !.env = SubSeq(@, 1, Len(@) - 1)]
Define(st, depth, name, v) == [st EXCEPT !.env[depth] = (name :> v) @@ @]

Defining(st, name) == {i \in DOMAIN st.env : name \in DOMAIN st.env[i]}
Innermost(S) == CHOOSE i \in S : \A j \in S : j <= i

lookup(st, name) ==
    IF Defining(st, name) = {} THEN <<>> ELSE <<st.env[Innermost(Defining(st, name))][name]>>

\* Mutant: an assignment always defines the name in the innermost scope.
assign_innermost(st, name, v) == Define(st, Len(st.env), name, v)

\* Assign and Let both update the innermost scope that has the name.
assign_name(st, name, v) ==
    Define(st, IF Defining(st, name) = {} THEN Len(st.env) ELSE Innermost(Defining(st, name)), name, v)

eval_literal(lit) == IF IsInteger(lit) /\ lit.ty = "none"
                     THEN [lit EXCEPT !.ty = IF lit.k = "Int" THEN "i32" ELSE "u32"] ELSE lit

\* The state after matching, with a Bool; names bound on the way stay bound in
\* the innermost scope even if the match fails later.
RECURSIVE pattern_matches(_, _, _), match_all(_, _, _, _)
match_all(st, pats, vals, i) ==
    IF i > Len(pats) THEN Yield(st, Bool(TRUE))
    ELSE Then(pattern_matches(st, pats[i], vals[i]),
              LAMBDA m : IF m.val.b THEN match_all(m, pats, vals, i + 1) ELSE m)

InRange(pat, v) ==
    LET start == eval_literal(pat.start[1])
        end == eval_literal(pat.end[1])
    IN IF compare_lt(v, start) = <<>> \/ compare_lt(end, v) = <<>> THEN <<>>
       ELSE <<Bool(/\ ~compare_lt(v, start)[1].b
                   /\ IF pat.inclusive THEN ~compare_lt(end, v)[1].b ELSE compare_lt(v, end)[1].b)>>

pattern_matches(st, pat, v) ==
    CASE pat.k = "Wild"    -> Yield(st, Bool(TRUE))
      [] pat.k = "Literal" -> Yield(st, Bool(eval_literal(pat.lit) = v))
      [] pat.k = "Path"    -> Yield(st, Bool(lookup(st, pat.name) = <<v>>))
      [] pat.k = "Binding" -> Yield(Define(st, Len(st.env), pat.name, v), Bool(TRUE))
      [] pat.k = "Or"      ->
             LET m == pattern_matches(st, pat.pats[1], v)
             IN IF pat.pats = <<>> THEN Yield(st, Bool(FALSE))
                ELSE IF ~m.ok \/ m.val.b THEN m
                ELSE pattern_matches(m, [pat EXCEPT !.pats = Tail(@)], v)
      [] pat.k \in {"Tuple", "Array"} ->
             IF v.k # pat.k \/ Len(v.vs) # Len(pat.pats) THEN Yield(st, Bool(FALSE))
             ELSE match_all(st, pat.pats, v.vs, 1)
      [] pat.k = "Struct"  ->
             IF v.k # "Struct" \/ Len(v.fs) # Len(pat.pats) THEN Yield(st, Bool(FALSE))
             ELSE match_all(st, pat.pats, [i \in DOMAIN v.fs |-> v.fs[i].val], 1)
      [] pat.k = "Range"   ->
             IF pat.start = <<>> \/ pat.end = <<>> THEN Yield(st, Bool(FALSE))
             ELSE Answer(st, InRange(pat, v))

\* The elements a for loop visits; a range that is longer than the budget is
\* cut off after one element more.
materialize_elements(v) ==
    IF v.k \in {"Array", "Tuple"} THEN <<v.vs>>
    ELSE IF v.k # "Range" \/ v.start = <<>> \/ v.end = <<>> THEN <<>>
    ELSE IF ~IsInteger(v.start[1]) \/ ~IsInteger(v.end[1]) THEN <<>>
    ELSE LET s == as_i128(v.start[1])
             e == as_i128(v.end[1]) - (IF v.inclusive THEN 0 ELSE 1)
             n == IF e - s + 1 < 0 THEN 0 ELSE IF e - s > MAX_FOR_ITERS THEN MAX_FOR_ITERS + 1 ELSE e - s + 1
         IN <<[i \in 1..n |-> Number(v.start[1].k, s + i - 1, v.start[1].ty)]>>

RECURSIVE evaluate_expr(_, _, _), evaluate_all(_, _, _), eval_while(_, _, _, _),
          eval_loop(_, _, _, _), eval_for(_, _, _, _), eval_match(_, _, _, _)

evaluate_at_depth(x, st, depth) == evaluate_expr(x, st, depth + 1)

\* A list of expressions from left to right, up to the first error.
evaluate_all(xs, st, depth) ==
    IF xs = <<>> THEN Yield(st, Tuple(<<>>))
    ELSE Then(evaluate_at_depth(Head(xs), st, depth),
              LAMBDA h : Then(evaluate_all(Tail(xs), h, depth),
                              LAMBDA t : Yield(t, Tuple(<<h.val>> \o t.val.vs))))

eval_binary(x, st, depth) ==
    Then(evaluate_all(<<x.lhs, x.rhs>>, st, depth),
         LAMBDA t : Answer(t, apply_binop(x.op, t.val.vs[1], t.val.vs[2])))

eval_if(x, st, depth) ==
    Then(evaluate_at_depth(x.cond, st, depth),
         LAMBDA c : IF c.val.k # "Bool" THEN Fail(c)
                    ELSE IF c.val.b THEN evaluate_at_depth(x.then, c, depth)
                    ELSE IF x.else # <<>> THEN evaluate_at_depth(x.else[1], c, depth)
                    ELSE Yield(c, Unit))

\* Guards are not looked at.
eval_match(arms, v, st, depth) ==
    IF arms = <<>> THEN Fail(st)
    ELSE Then(pattern_matches(st, arms[1].pat, v),
              LAMBDA m : IF m.val.b THEN evaluate_at_depth(arms[1].body, m, depth)
                         ELSE eval_match(Tail(arms), v, m, depth))

\* An error in a statement leaves the scope on the stack, one in the tail not;
\* a break or continue does not keep the statements behind it from running.
eval_block(x, st, depth) ==
    Then(evaluate_all(x.stmts, push(st), depth),
         LAMBDA s : pop(IF x.tail = <<>> THEN Yield(s, Unit) ELSE evaluate_at_depth(x.tail[1], s, depth)))

\* loop_control.take() after the body of a loop.
take(st, Next(_)) ==
    LET taken == [st EXCEPT !.ctl = "none"] IN IF st.ctl = "Break" THEN Yield(taken, Unit) ELSE Next(taken)

eval_while(x, st, depth, n) ==
    IF n = 0 THEN Fail(st)
    ELSE Then(evaluate_at_depth(x.cond, st, depth),
              LAMBDA c : IF c.val.k # "Bool" THEN Fail(c)
                         ELSE IF ~c.val.b THEN Yield([c EXCEPT !.ctl = "none"], Unit)
                         ELSE Then(evaluate_at_depth(x.body, c, depth),
                                   LAMBDA b : take(b, LAMBDA t : eval_while(x, t, depth, n - 1))))

eval_loop(x, st, depth, n) ==
    IF n = 0 THEN Fail(st)
    ELSE Then(evaluate_at_depth(x.body, st, depth),
              LAMBDA b : take(b, LAMBDA t : eval_loop(x, t, depth, n - 1)))

\* The loop variable lives in the scope around the loop.
eval_for(x, elems, st, depth) ==
    IF elems = <<>> THEN Yield(st, Unit)
    ELSE Then(pattern_matches(st, x.pat, Head(elems)),
              LAMBDA m : Then(evaluate_at_depth(x.body, m, depth),
                              LAMBDA b : take(b, LAMBDA t : eval_for(x, Tail(elems), t, depth))))

\* A closure or const fn sees the scopes of its caller below its own.
bind_and_eval(f, args, st, depth) ==
    IF Len(f.params) # Len(args) THEN Fail(st)
    ELSE Then(match_all(push(st), [i \in DOMAIN args |-> [k |-> "Binding", name |-> f.params[i]]], args, 1),
              LAMBDA m : pop(evaluate_at_depth(f.body, m, depth)))

eval_call(x, st, depth) ==
    IF x.func.k = "Closure" /\ Len(x.func.params) # Len(x.args) THEN Fail(st)
    ELSE IF x.func.k \notin {"Closure", "Path"} THEN Fail(st)
    ELSE Then(evaluate_all(x.args, st, depth),
              LAMBDA a : IF x.func.k = "Closure" THEN bind_and_eval(x.func, a.val.vs, a, depth)
                         ELSE IF x.func.name \in DOMAIN Fns THEN bind_and_eval(Fns[x.func.name], a.val.vs, a, depth)
                         ELSE Answer(a, apply_builtin(x.func.name, a.val.vs)))

\* The receiver is the first of x.args.
eval_method_call(x, st, depth) ==
    IF x.name \notin BuiltinNames THEN Fail(evaluate_at_depth(x.args[1], st, depth))
    ELSE Then(evaluate_all(x.args, st, depth), LAMBDA t : Answer(t, apply_builtin(x.name, t.val.vs)))

eval_range(x, st, depth) ==
    Then(evaluate_all(x.start \o x.end, st, depth),
         LAMBDA t : LET n == Len(x.start)
                    IN Yield(t, RangeVal(SubSeq(t.val.vs, 1, n), SubSeq(t.val.vs, n + 1, Len(t.val.vs)), x.inclusive)))

eval_index(base, idx) ==
    IF ~IsInteger(idx) \/ base.k \notin {"Array", "Tuple"} THEN <<>>
    ELSE IF as_u128(idx) >= Len(base.vs) THEN <<>> ELSE <<base.vs[as_u128(idx) + 1]>>

eval_field(v, name) ==
    LET found == IF v.k = "Struct" THEN {i \in DOMAIN v.fs : v.fs[i].name = name} ELSE {}
    IN IF found = {} THEN <<>> ELSE <<v.fs[CHOOSE i \in found : \A j \in found : i <= j].val>>

evaluate_expr(x, st, depth) ==
    IF depth >= MAX_EVAL_DEPTH THEN Fail(st)
    ELSE CASE x.k = "Literal" -> Yield(st, eval_literal(x.lit))
           [] x.k = "Binary"  -> eval_binary(x, st, depth)
           [] x.k = "Unary"   -> Then(evaluate_at_depth(x.expr, st, depth), LAMBDA t : Answer(t, apply_unop(x.op, t.val)))
           [] x.k = "If"      -> eval_if(x, st, depth)
           [] x.k = "Match"   -> Then(evaluate_at_depth(x.scrutinee, st, depth), LAMBDA t : eval_match(x.arms, t.val, t, depth))
           [] x.k = "Block"   -> eval_block(x, st, depth)
           [] x.k = "Tuple"   -> Then(evaluate_all(x.elems, st, depth), LAMBDA t : IF x.elems = <<>> THEN Yield(t, Unit) ELSE t)
           [] x.k = "Array"   -> Then(evaluate_all(x.elems, st, depth), LAMBDA t : Yield(t, Array(t.val.vs)))
           [] x.k = "Struct"  -> Then(evaluate_all(x.elems, st, depth), LAMBDA t :
                                      Yield(t, Struct([i \in DOMAIN x.names |-> [name |-> x.names[i], val |-> t.val.vs[i]]])))
           [] x.k = "Path"    -> Answer(st, lookup(st, x.name))
           [] x.k = "Field"   -> Then(evaluate_at_depth(x.expr, st, depth), LAMBDA t : Answer(t, eval_field(t.val, x.name)))
           [] x.k = "Index"   -> Then(evaluate_all(<<x.base, x.index>>, st, depth), LAMBDA t : Answer(t, eval_index(t.val.vs[1], t.val.vs[2])))
           [] x.k = "Cast"    -> Then(evaluate_at_depth(x.expr, st, depth), LAMBDA t : Answer(t, eval_cast(t.val, x.ty)))
           [] x.k = "Ref"     -> evaluate_at_depth(x.expr, st, depth)
           [] x.k \in {"Assign", "Let"} -> Then(evaluate_at_depth(x.expr, st, depth), LAMBDA t : Yield(assign_name(t, x.name, t.val), Unit))
           [] x.k = "Call"    -> eval_call(x, st, depth)
           [] x.k = "MethodCall" -> eval_method_call(x, st, depth)
           [] x.k = "Return"  -> IF x.expr = <<>> THEN Yield(st, Unit) ELSE evaluate_at_depth(x.expr[1], st, depth)
           [] x.k \in {"Break", "Continue"} -> Yield([st EXCEPT !.ctl = x.k], Unit)
           [] x.k = "Range"   -> eval_range(x, st, depth)
           [] x.k = "While"   -> eval_while(x, st, depth, MAX_ITERS)
           [] x.k = "Loop"    -> eval_loop(x, st, depth, MAX_ITERS)
           [] x.k = "For"     -> Then(evaluate_at_depth(x.expr, st, depth), LAMBDA t :
                                      IF materialize_elements(t.val) = <<>> THEN Fail(t)
                                      ELSE eval_for(x, materialize_elements(t.val)[1], t, depth))
           [] OTHER           -> Fail(st)

evaluate(x) == evaluate_expr(x, Start, 0)

----------------------------------------------------------------------------
(****************************************************************************)
(* What such a program means, for the part of the language that the         *)
(* evaluator's loops, scopes and signals are about.  A block ends at the    *)
(* first break, continue or error, and let defines a new variable.          *)
(****************************************************************************)
RECURSIVE Meaning(_, _), MeaningOfAll(_, _), MeaningOfLoop(_, _, _), MeaningOfFor(_, _, _)

Goes(m) == m.ok /\ m.ctl = "none"
On(m, F(_)) == IF Goes(m) THEN F(m) ELSE m

MeaningOfAll(xs, m) ==
    IF xs = <<>> THEN Yield(m, Tuple(<<>>))
    ELSE On(Meaning(Head(xs), m),
            LAMBDA h : On(MeaningOfAll(Tail(xs), h), LAMBDA t : Yield(t, Tuple(<<h.val>> \o t.val.vs))))

EndOfLoop(m) == Yield([m EXCEPT !.ctl = "none"], Unit)
Repeat(m, F(_)) == IF m.ok /\ m.ctl # "Break" THEN F(EndOfLoop(m)) ELSE EndOfLoop(m)

MeaningOfLoop(x, m, n) ==
    IF n = 0 THEN Fail(m)
    ELSE On(IF x.k = "While" THEN Meaning(x.cond, m) ELSE Yield(m, Bool(TRUE)),
            LAMBDA c : IF c.val.b THEN Repeat(Meaning(x.body, c), LAMBDA r : MeaningOfLoop(x, r, n - 1)) ELSE Yield(c, Unit))

MeaningOfFor(x, elems, m) ==
    IF elems = <<>> THEN Yield(m, Unit)
    ELSE Repeat(pop(Meaning(x.body, Define(push(m), Len(m.env) + 1, x.pat.name, Head(elems)))),
                LAMBDA r : MeaningOfFor(x, Tail(elems), r))

\* A value is of the shape of a pattern, and what the pattern then names.
RECURSIVE Agrees(_, _), Named(_, _)
Parts(v) == IF v.k = "Struct" THEN [i \in DOMAIN v.fs |-> v.fs[i].val] ELSE v.vs
Agrees(pat, v) ==
    CASE pat.k \in {"Wild", "Binding"} -> TRUE
      [] pat.k = "Literal" -> pat.lit = v
      [] pat.k = "Or" -> \E i \in DOMAIN pat.pats : Agrees(pat.pats[i], v)
      [] pat.k = "Range" -> v.i \in pat.start[1].i..(pat.end[1].i - (IF pat.inclusive THEN 0 ELSE 1))
      [] OTHER -> /\ v.k = pat.k /\ Len(Parts(v)) = Len(pat.pats)
                  /\ \A i \in DOMAIN pat.pats : Agrees(pat.pats[i], Parts(v)[i])
Named(pat, v) ==
    CASE pat.k = "Binding" -> pat.name :> v
      [] pat.k = "Or" -> Named(pat.pats[CHOOSE i \in DOMAIN pat.pats : Agrees(pat.pats[i], v) /\ \A j \in 1..(i - 1) : ~Agrees(pat.pats[j], v)], v)
      [] pat.k \in {"Tuple", "Array", "Struct"} /\ pat.pats # <<>> ->
             LET Merge[i \in 1..Len(pat.pats)] == Named(pat.pats[i], Parts(v)[i]) @@ (IF i = 1 THEN NoScope ELSE Merge[i - 1])
             IN Merge[Len(pat.pats)]
      [] OTHER -> NoScope

MeaningOfMatch(arms, m) ==
    LET fit == {i \in DOMAIN arms : Agrees(arms[i].pat, m.val)}
        first == CHOOSE i \in fit : \A j \in fit : i <= j
    IN IF fit = {} THEN Fail(m)
       ELSE pop(Meaning(arms[first].body, [m EXCEPT !.env = Append(@, Named(arms[first].pat, m.val))]))

Elements(r) ==
    LET s == r.start[1].i
        n == r.end[1].i - s + (IF r.inclusive THEN 1 ELSE 0)
    IN [i \in 1..(IF n < 0 THEN 0 ELSE n) |-> [r.start[1] EXCEPT !.i = s + i - 1]]

\* An operation on two numbers: the number of their type which solves the
\* operation's equation, if there is one, or the answer of a comparison.
Operation(op, a, b) ==
    LET Wides == -(2 ^ WideBits)..(2 ^ WideBits)
        Divides(q, r) == a.i = q * b.i + r /\ r * r < b.i * b.i /\ r * a.i >= 0
        Solves(r) == CASE op = "+" -> r = a.i + b.i
                       [] op = "-" -> r + b.i = a.i
                       [] op = "*" -> r = a.i * b.i
                       [] op = "/" -> Divides(r, a.i - r * b.i)
                       [] op = "%" -> \E q \in Wides : Divides(q, r)
        found == {r \in Wides : a.ty = b.ty /\ Fits(a.k, r, TyBits[a.ty]) /\ Solves(r)}
    IN IF op \in {"+", "-", "*", "/", "%"}
       THEN IF found = {} THEN <<>> ELSE <<Number(a.k, CHOOSE r \in found : TRUE, a.ty)>>
       ELSE <<Bool(CASE op = "==" -> a.i = b.i [] op = "!=" -> a.i # b.i [] op = "<" -> a.i < b.i
                     [] op = "<=" -> a.i <= b.i [] op = ">" -> a.i > b.i [] op = ">=" -> a.i >= b.i)>>

\* An expression whose meaning is that of its parts.
Build(x, vs) ==
    CASE x.k = "Tuple" -> <<IF vs = <<>> THEN Unit ELSE Tuple(vs)>>
      [] x.k = "Array" -> <<Array(vs)>>
      [] x.k = "Struct" -> <<Struct([i \in DOMAIN vs |-> [name |-> x.names[i], val |-> vs[i]]])>>
      [] x.k = "Index" -> IF vs[2].i \in 0..(Len(vs[1].vs) - 1) THEN <<vs[1].vs[vs[2].i + 1]>> ELSE <<>>
      [] x.k = "Field" -> <<vs[1].fs[CHOOSE i \in DOMAIN vs[1].fs : vs[1].fs[i].name = x.name].val>>
      [] x.k = "Cast"  -> <<Number(IF x.ty \in SignedTys THEN "Int" ELSE "Uint",
                                   IF x.ty \in SignedTys THEN AsSigned(vs[1].i, TyBits[x.ty]) ELSE AsUnsigned(vs[1].i, TyBits[x.ty]), x.ty)>>
      [] x.k = "Unary" -> validate_range(IF x.op = "-" THEN IntVal(-vs[1].i, vs[1].ty) ELSE IntVal(-vs[1].i - 1, vs[1].ty))
      [] x.k = "MethodCall" -> IF x.name = "min" THEN <<IF vs[1].i < vs[2].i THEN vs[1] ELSE vs[2]>>
                               ELSE IF x.name = "max" THEN <<IF vs[1].i < vs[2].i THEN vs[2] ELSE vs[1]>>
                               ELSE IF x.name = "abs" THEN <<IF vs[1].i < 0 THEN IntVal(-vs[1].i, vs[1].ty) ELSE vs[1]>>
                               ELSE <<>>

\* The expressions right below x.
Kids(x) ==
    CASE x.k \in {"Literal", "Path", "Break", "Continue"} -> <<>>
      [] x.k = "Binary" -> <<x.lhs, x.rhs>>
      [] x.k \in {"Let", "Assign", "Cast", "Unary", "Field"} -> <<x.expr>>
      [] x.k = "If" -> <<x.cond, x.then>> \o x.else
      [] x.k = "Block" -> x.stmts \o x.tail
      [] x.k = "Call" -> Append(x.args, x.func.body)
      [] x.k = "Match" -> <<x.scrutinee>> \o [i \in DOMAIN x.arms |-> x.arms[i].body]
      [] x.k \in {"Tuple", "Array", "Struct"} -> x.elems
      [] x.k = "Index" -> <<x.base, x.index>>
      [] x.k = "MethodCall" -> x.args
      [] x.k = "While" -> <<x.cond, x.body>>
      [] x.k = "Loop" -> <<x.body>>
      [] x.k = "For" -> x.expr.start \o x.expr.end \o <<x.body>>

Meaning(x, m) ==
    CASE x.k = "Literal" -> Yield(m, x.lit)
      [] x.k = "Path"    -> Answer(m, lookup(m, x.name))
      [] x.k = "Binary"  -> On(MeaningOfAll(<<x.lhs, x.rhs>>, m), LAMBDA t : Answer(t, Operation(x.op, t.val.vs[1], t.val.vs[2])))
      [] x.k = "Let"     -> On(Meaning(x.expr, m), LAMBDA t : Yield(Define(t, Len(t.env), x.name, t.val), Unit))
      [] x.k = "Assign"  -> On(Meaning(x.expr, m), LAMBDA t : Yield(Define(t, Innermost(Defining(t, x.name)), x.name, t.val), Unit))
      [] x.k = "If"      -> On(Meaning(x.cond, m), LAMBDA c : IF c.val.b THEN Meaning(x.then, c)
                                                              ELSE IF x.else = <<>> THEN Yield(c, Unit) ELSE Meaning(x.else[1], c))
      [] x.k = "Block"   -> pop(On(MeaningOfAll(x.stmts, push(m)), LAMBDA t : IF x.tail = <<>> THEN Yield(t, Unit) ELSE Meaning(x.tail[1], t)))
      [] x.k = "Call"    -> On(MeaningOfAll(x.args, m), LAMBDA a :
                               pop(Meaning(x.func.body, [push(a) EXCEPT !.env[Len(a.env) + 1] =
                                   [n \in {x.func.params[i] : i \in DOMAIN x.func.params} |->
                                       a.val.vs[CHOOSE i \in DOMAIN x.func.params : x.func.params[i] = n]]])))
      [] x.k = "Match"   -> On(Meaning(x.scrutinee, m), LAMBDA t : MeaningOfMatch(x.arms, t))
      [] x.k \in {"Tuple", "Array", "Struct", "Index", "Cast", "Unary", "Field", "MethodCall"} ->
             On(MeaningOfAll(Kids(x), m), LAMBDA t : Answer(t, Build(x, t.val.vs)))
      [] x.k \in {"While", "Loop"} -> MeaningOfLoop(x, m, MAX_ITERS)
      [] x.k = "For"     -> On(MeaningOfAll(x.expr.start \o x.expr.end, m), LAMBDA t :
                               MeaningOfFor(x, Elements(RangeVal(<<t.val.vs[1]>>, <<t.val.vs[2]>>, x.expr.inclusive)), t))
      [] x.k \in {"Break", "Continue"} -> [m EXCEPT !.ctl = x.k]

RECURSIVE Names(_), Escapes(_), BreaksComeLast(_), NamesAreNew(_, _)
\* A break or continue inside x that is about a loop outside it.
Escapes(x) ==
    \/ x.k \in {"Break", "Continue"}
    \/ x.k \notin {"While", "Loop", "For"} /\ \E i \in DOMAIN Kids(x) : Escapes(Kids(x)[i])

BreaksComeLast(x) ==
    \A i \in DOMAIN Kids(x) :
        /\ BreaksComeLast(Kids(x)[i])
        /\ Escapes(Kids(x)[i]) => x.k \in {"If", "While", "Loop", "For", "Match"} \/ (x.k = "Block" /\ i = Len(Kids(x)))

Names(pat) ==
    CASE pat.k = "Binding" -> {pat.name}
      [] pat.k \in {"Or", "Tuple", "Array", "Struct"} -> UNION {Names(pat.pats[i]) : i \in DOMAIN pat.pats}
      [] OTHER -> {}

\* No let has the name of a variable of a block around its own, and no loop
\* variable or pattern the name of one that can be seen; a let may repeat one
\* of its own block, and a parameter any.
NamesAreNew(x, outside) ==
    LET Bound == CASE x.k = "For" -> {x.pat.name}
                   [] x.k = "Match" -> UNION {Names(x.arms[i].pat) : i \in DOMAIN x.arms}
                   [] OTHER -> {}
        Before(i) == CASE x.k = "Block" -> {Kids(x)[j].name : j \in {j \in 1..(i - 1) : Kids(x)[j].k = "Let"}}
                       [] x.k = "Call" -> {x.func.params[j] : j \in DOMAIN x.func.params}
                       [] OTHER -> Bound
    IN /\ Bound \cap outside = {}
       /\ \A i \in DOMAIN Kids(x) :
              /\ x.k = "Block" /\ Kids(x)[i].k = "Let" => Kids(x)[i].name \notin outside
              /\ NamesAreNew(Kids(x)[i], outside \cup Before(i))

NothingIsShadowed(x) == NamesAreNew(x, {})

SameResult(st, m) == st.ok = m.ok /\ (st.ok => st.val = m.val)
=============================================================================
