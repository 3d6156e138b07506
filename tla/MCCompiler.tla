------------------------------ MODULE MCCompiler -----------------------------
(****************************************************************************)
(* The algorithms of the compiler that are functions of their input, each   *)
(* run on every input of a small set: types, unification and trait solving, *)
(* the lexer, the parser, macros and name resolution, and, below, what      *)
(* comes after them.  A behaviour is one call: job is the call, and the one *)
(* step is its return.  The properties are about that step: what is         *)
(* returned, against what the input means.                                  *)
(****************************************************************************)
EXTENDS Integers, Sequences, FiniteSets, TLC

VARIABLES
    job,        \* the call: its kind and its arguments
    returned    \* whether it has returned

vars == <<job, returned>>

Return == ~returned /\ returned' = TRUE /\ UNCHANGED job
Returns(kind) == job.kind = kind /\ Return

Sol == INSTANCE Solve WITH MAX_RESOLVE_DEPTH <- 8, ProofDepth <- 4, MAX_STRUCT_EQ_DEPTH <- 8

SeqsUpTo(n, X) == UNION {[1..m -> X] : m \in 0..n}
BoolT == Sol!Prim("bool")
IntT == Sol!Ty("int", "i32", 0, <<>>)
Shared(t) == Sol!RefTo(t, "not")
Pair(s, t) == Sol!Tuple(<<s, t>>)
Boxed(t) == Sol!Adt("Box", <<t>>)
----------------------------------------------------------------------------
\* Auto traits of the structs A and B, which may hold one another.
StructA == Sol!Adt("A", <<>>)
StructB == Sol!Adt("B", <<>>)
FieldTys == {Sol!Ty("ptr", "mut", 0, <<BoolT>>), StructA, StructB, Shared(StructB), Sol!RefTo(StructA, "mut"), Pair(StructB, StructB)}
AutoJobs ==
    [kind : {"auto"}, a : SeqsUpTo(2, FieldTys), b : SeqsUpTo(2, FieldTys), manual : SUBSET {<<"B", "Send">>},
     negative : {{}, {<<"A", "Sync">>}, {<<"B", "Sync">>}}]
AutoContext ==
    [adts |-> [A |-> [kind |-> "struct", fields |-> job.a, variants |-> <<>>],
               B |-> [kind |-> "struct", fields |-> job.b, variants |-> <<>>]],
     manual |-> job.manual, negative |-> job.negative, hidden |-> <<>>, assoc |-> <<>>]
AutoTraits == [A |-> Sol!compute_auto_traits(AutoContext, StructA), B |-> Sol!compute_auto_traits(AutoContext, StructB)]

\* The greatest assignment of traits to A and B that the rules allow.
FlagsGiven(X, t) ==
    CASE t.k = "adt" -> X[t.d]
      [] t.k = "ptr" -> {"Unpin"}
      [] t.k = "tuple" -> X["B"]
      [] t.k = "ref" /\ t.d = "mut" -> (X["A"] \cap {"Send", "Sync"}) \cup {"Unpin"}
      [] OTHER -> {"Unpin"} \cup IF "Sync" \in X["B"] THEN {"Send", "Sync"} ELSE {}
Kept(X, id, fields) ==
    {tr \in Sol!AllFlags :
        \/ <<id, tr>> \in job.manual
        \/ <<id, tr>> \notin job.negative /\ \A i \in DOMAIN fields : tr \in FlagsGiven(X, fields[i])}
Narrowed(X) == [A |-> Kept(X, "A", job.a), B |-> Kept(X, "B", job.b)]
Greatest ==
    Sol!FoldLeft(LAMBDA X, n : Narrowed(X), [A |-> Sol!AllFlags, B |-> Sol!AllFlags], [n \in 1..6 |-> n])
FieldsOfBoth == {job.a[i] : i \in DOMAIN job.a} \cup {job.b[i] : i \in DOMAIN job.b}

(* A struct of a recursive group has every auto trait that the rules can    *)
(* give it, and no other when nothing in between hides the loss of a trait, *)
(* as a shared reference (Sync to Send) or a manual impl does.              *)
AutoTraitsAreExact ==
    [][Returns("auto") =>
           LET out == AutoTraits
               most == Greatest
           IN /\ \A id \in {"A", "B"} : most[id] \subseteq out[id]
              /\ job.manual = {} /\ Shared(StructB) \notin FieldsOfBoth => out = most]_vars

(* What does not hold: an auto trait is assumed only "until proven          *)
(* otherwise" (auto_trait.rs:94-97); what was cached under the assumption   *)
(* stays when it is refuted.                                                *)
AutoTraitsAreProved ==
    [][Returns("auto") => \A id \in {"A", "B"} : AutoTraits[id] \subseteq Greatest[id]]_vars
----------------------------------------------------------------------------
\* Two calls of unify on types over two type variables and an integer one.
Q0 == Sol!Infer("ty", 1)
Q1 == Sol!Infer("ty", 2)
QInt == Sol!Infer("int", 1)
OpenTypes == {IntT, BoolT, Q0, Q1, QInt, Shared(Q0), Shared(Q1), Shared(IntT), Pair(Q0, Q1), Pair(Q1, BoolT), Pair(IntT, Q1),
              Pair(QInt, Shared(Q0)), Sol!Ty("slice", "", 0, <<Q1>>), Boxed(Q0), Boxed(QInt)}
UnifyJobs == [kind : {"unify"}, a1 : OpenTypes, b1 : OpenTypes, a2 : OpenTypes, b2 : OpenTypes]
OpenTable == Sol!new_var(Sol!new_var(Sol!new_var(Sol!NewTable, "ty"), "ty"), "int")
UnifiedTwice == LET one == Sol!unify(OpenTable, job.a1, job.b1) IN <<one, Sol!unify(one.tab, job.a2, job.b2)>>

\* A type with its variables replaced as far as they are bound; a cycle is cut.
RECURSIVE Deep(_, _, _)
Deep(tab, t, fuel) ==
    IF fuel = 0 THEN Sol!ErrorTy
    ELSE LET r == Sol!resolve_ty_shallow(tab, t) IN [r EXCEPT !.a = [i \in DOMAIN @ |-> Deep(tab, @[i], fuel - 1)]]
DeepIn(tab, t) == Deep(tab, t, 6)

\* Textbook unification: the pairs still to solve under the bindings so far.
RECURSIVE Subst(_, _, _)
Subst(v, u, t) == IF t = v THEN u ELSE [t EXCEPT !.a = [i \in DOMAIN @ |-> Subst(v, u, @[i])]]
RECURSIVE VarsOf(_)
VarsOf(t) == IF t.k = "infer" THEN {t} ELSE UNION {VarsOf(t.a[i]) : i \in DOMAIN t.a}
RECURSIVE Solvable(_)
Solvable(pairs) ==
    IF pairs = <<>> THEN TRUE
    ELSE LET x == Head(pairs)[1]  y == Head(pairs)[2]
             Eliminate(v, u) == Solvable([i \in DOMAIN Tail(pairs) |-> <<Subst(v, u, Tail(pairs)[i][1]), Subst(v, u, Tail(pairs)[i][2])>>])
         IN CASE x = y -> Solvable(Tail(pairs))
              [] x.k = "infer" /\ x.d = "ty" -> x \notin VarsOf(y) /\ Eliminate(x, y)
              [] y.k = "infer" /\ y.d = "ty" -> y \notin VarsOf(x) /\ Eliminate(y, x)
              [] x.k = "infer" -> y.k = "int" /\ Eliminate(x, y)
              [] y.k = "infer" -> x.k = "int" /\ Eliminate(y, x)
              [] OTHER -> x.k = y.k /\ x.d = y.d /\ Len(x.a) = Len(y.a) /\ Solvable([i \in DOMAIN x.a |-> <<x.a[i], y.a[i]>>] \o Tail(pairs))

\* One side is a variable, or no variable is bound or occurs twice; and no
\* integer variable is the second of the two.
RECURSIVE Leaves1(_)
Leaves1(t) == IF t.k = "infer" THEN <<t>> ELSE IF t.a = <<>> THEN <<>> ELSE Leaves1(t.a[1]) \o (IF Len(t.a) = 2 THEN Leaves1(t.a[2]) ELSE <<>>)
Simple(tab, a, b) ==
    LET x == Sol!resolve_ty_shallow(tab, a)
        y == Sol!resolve_ty_shallow(tab, b)
        leaves == Leaves1(x) \o Leaves1(y)
    IN /\ QInt \notin VarsOf(y)
       /\ \/ x.k = "infer" \/ y.k = "infer"
          \/ /\ \A i \in DOMAIN leaves : Sol!probe_var(tab, leaves[i]) = <<>>
             /\ \A i, j \in DOMAIN leaves : i # j => leaves[i] # leaves[j]

(* Two calls of unify succeed exactly when the equations have a solution,   *)
(* and the bindings then solve both, with no variable inside itself: the    *)
(* second call does not undo the first. fully_resolve is content exactly    *)
(* when no type variable is left open behind the type. For equations with   *)
(* a variable on one side, or whose variables are new and occur once.       *)
UnifySolvesTheEquations ==
    [][Returns("unify") /\ Simple(OpenTable, job.a1, job.b1) =>
        LET out == UnifiedTwice
            t1 == out[1].tab
            t2 == out[2].tab
        IN /\ out[1].ok <=> Solvable(<<<<job.a1, job.b1>>>>)
           /\ out[1].ok /\ Simple(t1, job.a2, job.b2) =>
                  /\ out[2].ok <=> Solvable(<<<<job.a1, job.b1>>, <<job.a2, job.b2>>>>)
                  /\ out[2].ok => /\ DeepIn(t2, job.a1) = DeepIn(t2, job.b1)
                                  /\ DeepIn(t2, job.a2) = DeepIn(t2, job.b2)
                                  /\ LET r == Sol!fully_resolve(t2, job.a1)
                                         open == {v \in VarsOf(DeepIn(t2, job.a1)) : v.d = "ty"}
                                     IN (r.ok => open = {}) /\ (VarsOf(DeepIn(t2, job.a1)) = {} => r.ok)]_vars

(* What does not hold: unify makes any two types equal or reports that it   *)
(* cannot; a bound variable inside a type is bound again.                   *)
UnifyKeepsItsBindings ==
    [][Returns("unify") /\ UnifiedTwice[1].ok /\ UnifiedTwice[2].ok =>
        \A p \in {<<job.a1, job.b1>>, <<job.a2, job.b2>>} : DeepIn(UnifiedTwice[2].tab, p[1]) = DeepIn(UnifiedTwice[2].tab, p[2])]_vars
----------------------------------------------------------------------------
\* Two impls of a trait, one with a bound, and two obligations of that trait.
Heads == {Sol!Param(0), IntT, Shared(Sol!Param(0)), Pair(Sol!Param(0), BoolT), Pair(Sol!Param(0), Sol!Param(1)), Boxed(Sol!Param(0)),
          Boxed(Shared(Sol!Param(1)))}
Ground1 == {IntT, BoolT}
Ground2 == Ground1 \cup {Shared(t) : t \in Ground1} \cup {Pair(s, t) : s, t \in Ground1} \cup {Boxed(t) : t \in Ground1}
Ground == Ground2 \cup {Boxed(Shared(IntT)), Shared(Boxed(BoolT)), Pair(Shared(IntT), BoolT)}
TraitPred(trait, t) == Sol!Ty("trait", trait, 0, <<t>>)
SolveJobs ==
    [kind : {"solve"}, one : Heads, two : Heads, bound : SUBSET {BoolT}, queue : SeqsUpTo(2, Ground), limit : 1..2]
SolveContext ==
    [adts |-> <<>>, negative |-> {}, manual |-> {}, hidden |-> <<>>, assoc |-> <<>>, lang |-> <<>>, fnsigs |-> <<>>, closures |-> <<>>,
     impls |-> <<[id |-> 1, ref |-> [trait |-> "Show", args |-> <<job.one>>], predicates |-> <<>>],
                 [id |-> 2, ref |-> [trait |-> "Show", args |-> <<job.two>>], predicates |-> <<TraitPred("Eq", BoolT)>>]>>
                 \o [i \in 1..Cardinality(job.bound) |-> [id |-> 3, ref |-> [trait |-> "Eq", args |-> <<BoolT>>], predicates |-> <<>>]]]
Fulfilled ==
    Sol!process_obligations(SolveContext,
        [Sol!NewFulfillment EXCEPT !.queue = [i \in DOMAIN job.queue |-> TraitPred("Show", job.queue[i])]], job.limit)

IsInstance(head, t) == \E x, y \in Ground : Sol!subst_ty(SolveContext, head, (0 :> x) @@ (1 :> y)) = t
Impls(t) == {i \in {1} \cup (IF job.bound = {} THEN {} ELSE {2}) : IsInstance(SolveContext.impls[i].ref.args[1], t)}

(* The obligations that are not reported are those of a type that is an     *)
(* instance of exactly one impl whose bounds hold, unless the limit stopped *)
(* the queue, and then as many were looked at as it allows.                 *)
ProofsAreInstances ==
    [][Returns("solve") =>
        LET f == Fulfilled
            seen == SubSeq(job.queue, 1, IF f.overflow THEN job.limit ELSE Len(job.queue))
        IN /\ f.overflow <=> Len(job.queue) > job.limit
           /\ f.diags = SelectSeq([i \in DOMAIN seen |-> TraitPred("Show", seen[i])], LAMBDA p : Cardinality(Impls(p.a[1])) # 1)]_vars

----------------------------------------------------------------------------
\* Bounds that hold for all 'a and 'b.
Lifetime(r) == Sol!Ty("lifetime", "", r, <<>>)
Regions == {Sol!Static, Sol!LateBound(0), Sol!LateBound(1)}
Borrowed(r) == [Shared(IntT) EXCEPT !.n = r]
HrtbJobs ==
    [kind : {"hrtb"}, vars : {<<"region", "region">>, <<"ty", "region">>},
     value : {Sol!Ty("region_outlives", "", 0, <<Lifetime(r), Lifetime(s)>>) : r, s \in Regions}
               \cup {Sol!Ty("type_outlives", "", 0, <<Borrowed(r), Lifetime(s)>>) : r, s \in Regions}
               \cup {Sol!Ty("well_formed", "", 0, <<Borrowed(r)>>) : r \in Regions}
               \cup {Sol!Ty("coerce", "", 0, <<Borrowed(r), Borrowed(s)>>) : r, s \in Regions}]
Proved == Sol!check_hrtb([impls |-> <<>>], [vars |-> job.vars, value |-> job.value])

\* Regions as lengths, 'static the longest: the first outlives the second.
LengthOf(r, x) == IF r = Sol!Static THEN 3 ELSE x[r % 10]
(* What does not hold: a higher-ranked bound that is proved holds for all   *)
(* regions (hrtb.rs:1-6).                                                   *)
HigherRankedProofsHold ==
    [][Returns("hrtb") /\ Proved = "Proven" /\ job.value.k \in {"region_outlives", "type_outlives"} =>
        \A x \in [0..1 -> 1..3] : LengthOf(job.value.a[1].n, x) >= LengthOf(job.value.a[2].n, x)]_vars

(****************************************************************************)
(* The lexer and the parser on short sequences of characters and tokens.    *)
(****************************************************************************)
Ps == INSTANCE Parser WITH Keywords <- (<<"_">> :> "Underscore") @@ (<<"b", "e">> :> "KwBe"), NumberSuffixes <- {<<"i", "1">>}
Mac == INSTANCE Macros WITH RecursionLimit <- 2

----------------------------------------------------------------------------
Alphabets ==
    <<[len |-> 5, chars |-> {"'", "a", "\\", "\"", "b"}], [len |-> 5, chars |-> {"0", "e", ".", "+", "i"}],
      [len |-> 6, chars |-> {"/", "*", "\n", "a"}], [len |-> 4, chars |-> {"<", "=", ">", ".", "&", "-", " "}]>>
LexJob == \E i \in DOMAIN Alphabets : job \in [kind : {"lex"}, src : [1..Alphabets[i].len -> Alphabets[i].chars]]
Lexed == Ps!lex(job.src)

\* What a reader of the grammar expects of the text from p to before q.
Text(p, q) == SubSeq(job.src, p, q - 1)
Operators ==
    {<<c>> : c \in {"<", "=", ">", ".", "&", "-", "/", "*", "+"}}
      \cup {<<c, "=">> : c \in {"<", "=", ">", "&", "-", "/", "*", "+"}}
      \cup {<<"<", "<">>, <<">", ">">>, <<"&", "&">>, <<".", ".">>, <<".", ".", "=">>, <<"<", "<", "=">>, <<">", ">", "=">>, <<"-", ">">>, <<"=", ">">>}
StartsWith(p, text) == p + Len(text) <= Len(job.src) + 1 /\ Text(p, p + Len(text)) = text
Longest(p) == CHOOSE o \in Operators : StartsWith(p, o) /\ \A o2 \in Operators : StartsWith(p, o2) => Len(o2) <= Len(o)
\* The quotes in the text that no backslash escapes.
RECURSIVE Closers(_, _, _)
Closers(p, q, quote) ==
    IF p >= q THEN {}
    ELSE IF job.src[p] = "\\" THEN Closers(p + 2, q, quote)
    ELSE (IF job.src[p] = quote THEN {p} ELSE {}) \cup Closers(p + 1, q, quote)
QuotedText(t, errors) ==
    LET open == IF t.kind = "ByteLit" THEN t.start + 1 ELSE t.start
        closers == Closers(open + 1, t.end, job.src[open])
    IN closers = {t.end - 1} \/ (closers = {} /\ t.end = Len(job.src) + 1 /\ errors > 0)
\* Spaces and comments, the block comments nested.
RECURSIVE Trivia(_, _)
Trivia(p, q) ==
    IF p >= q THEN TRUE
    ELSE \/ job.src[p] \in Ps!Space /\ Trivia(p + 1, q)
         \/ \E r \in p + 2 .. q :
               /\ job.src[p] = "/" /\ p + 1 < q /\ Trivia(r, q)
               /\ \/ job.src[p + 1] = "/" /\ (r = Len(job.src) + 1 \/ job.src[r] = "\n") /\ \A i \in p + 2 .. r - 1 : job.src[i] # "\n"
                  \/ job.src[p + 1] = "*" /\ (r = Len(job.src) + 1 \/ Text(r - 2, r) = <<"*", "/">>)

(* The tokens cover the source: they do not overlap, between them is only   *)
(* space and comments, an operator is the longest one that is spelled       *)
(* there, and a quoted literal ends at its first unescaped quote or, with   *)
(* an error, at the end of the source.                                      *)
TokensCoverTheSource ==
    Returns("lex") =>
        LET out == Lexed
            ts == out.tokens
            ends == <<1>> \o [i \in DOMAIN ts |-> ts[i].end]
            starts == [i \in DOMAIN ts |-> ts[i].start] \o <<Len(job.src) + 1>>
        IN /\ \A i \in DOMAIN ends : ends[i] <= starts[i] /\ Trivia(ends[i], starts[i])
           /\ \A i \in DOMAIN ts :
                 LET t == ts[i]
                 IN /\ t.start < t.end
                    /\ <<job.src[t.start]>> \in Operators => Text(t.start, t.end) = Longest(t.start)
                    /\ t.kind \in {"StringLit", "CharLit", "ByteLit"} => QuotedText(t, out.errors)
----------------------------------------------------------------------------
\* Token sequences: an item or a function body with a few tokens of any kind.
Wildcards == {"Ident", "IntLit", "Comma", "Colon", "Semicolon", "Eq", "LParen", "RParen", "LBrace", "RBrace", "Lt", "Shr", "KwMut", "AndAnd"}
InItems == {"Ident", "LParen", "RBrace", "Lt", "Shr", "KwPub", "KwUnsafe", "KwFn", "KwAsync", "KwWhere", "ColonColon"}
InTraits == {"KwType", "KwConst", "KwExtern", "KwUnsafe", "Ident", "Colon", "LBrace", "RBrace", "Plus"}
InTrees == {"Dollar", "LParen", "RParen", "LBrace", "RBrace", "Ident", "Colon", "Star", "FatArrow"}
InUse == {"Ident", "ColonColon", "Star", "LBrace", "RBrace", "Comma", "KwAs", "Semicolon"}
InArgs == {"Ident", "Shr", "Comma", "Gt", "Semicolon", "Eq"}
Statements == {"KwLet", "KwIf", "KwMatch", "Ident", "LBrace", "RBrace", "Or", "Dot", "FatArrow", "LBracket", "Underscore"}
Templates ==
    [body |-> [before |-> <<"KwFn", "Ident", "LParen", "RParen", "LBrace">>, len |-> 3, kinds |-> Wildcards, after |-> <<"RBrace">>],
     stmts |-> [before |-> <<"KwFn", "Ident", "LParen", "RParen", "LBrace">>, len |-> 3, kinds |-> Statements, after |-> <<"RBrace">>],
     struct |-> [before |-> <<"KwStruct", "Ident">>, len |-> 3, kinds |-> Wildcards, after |-> <<>>],
     enum |-> [before |-> <<"KwEnum", "Ident", "LBrace">>, len |-> 3, kinds |-> Wildcards, after |-> <<>>],
     trait |-> [before |-> <<"KwTrait", "Ident", "LBrace">>, len |-> 3, kinds |-> InTraits, after |-> <<"RBrace">>],
     impl |-> [before |-> <<"KwImpl", "Ident", "LBrace">>, len |-> 3, kinds |-> InTraits, after |-> <<>>],
     macro |-> [before |-> <<"KwMacroRules", "Bang", "Ident", "LBrace", "LParen">>, len |-> 3, kinds |-> InTrees, after |-> <<"RParen">>],
     items |-> [before |-> <<>>, len |-> 3, kinds |-> InItems, after |-> <<"KwEnum", "Ident">>],
     use |-> [before |-> <<"KwUse">>, len |-> 4, kinds |-> InUse, after |-> <<>>],
     alias |-> [before |-> <<"KwType", "Ident", "Eq", "Ident", "Lt", "Ident", "Lt">>, len |-> 3, kinds |-> InArgs, after |-> <<>>]]
ParseJob == \E f \in DOMAIN Templates : job \in [kind : {"parse"}, form : {f}, mid : [1..Templates[f].len -> Templates[f].kinds]]
Toks == Templates[job.form].before \o job.mid \o Templates[job.form].after
Parsed == Ps!parse_to_syntax(Toks)
\* A token by its parts: && and >> are two characters each.
Spelled(kind) == CASE kind = "AndAnd" -> <<"And", "And">> [] kind = "Shr" -> <<"Gt", "Gt">> [] OTHER -> <<kind>>
RECURSIVE SpelledAll(_)
SpelledAll(toks) == IF toks = <<>> THEN <<>> ELSE Spelled(Head(toks)) \o SpelledAll(Tail(toks))
RECURSIVE LeavesOf(_)
LeavesOf(elems) ==
    IF elems = <<>> THEN <<>>
    ELSE (IF Head(elems).leaf THEN Spelled(Head(elems).kind) ELSE LeavesOf(Head(elems).kids)) \o LeavesOf(Tail(elems))

RECURSIVE IsSubSeq(_, _)
IsSubSeq(xs, ys) ==
    IF xs = <<>> THEN TRUE ELSE IF ys = <<>> THEN FALSE
    ELSE IF Head(xs) = Head(ys) THEN IsSubSeq(Tail(xs), Tail(ys)) ELSE IsSubSeq(xs, Tail(ys))
RECURSIVE Kinds(_)
Kinds(elems) == UNION {{elems[i].kind} \cup Kinds(elems[i].kids) : i \in DOMAIN elems}
\* A use path that does not start with a name: the case excluded below.
BadUse(out) == "KwUse" \in {Toks[i] : i \in DOMAIN Toks} /\ out.parents # <<>>

(* The parser ends on every sequence of tokens, with one tree that holds    *)
(* them: no loop runs without consuming, every node is finished, no token   *)
(* is lost or moved, and none is made up unless two brackets were closed by *)
(* a `>>` or a field of a struct literal was left out. Except after a use   *)
(* path that starts with no name.                                           *)
ParsesToOneTree ==
    Returns("parse") =>
        LET out == Parsed
            leaves == LeavesOf(out.kids)
            toks == SpelledAll(Toks)
        IN ~BadUse(out) => /\ ~out.stuck /\ ~out.panic
                           /\ out.kids[1].kind = "SourceFile"
                           /\ IsSubSeq(toks, leaves)
                           /\ leaves # toks => "StructField" \in Kinds(out.kids) \/ "Shr" \in {Toks[i] : i \in DOMAIN Toks}

(* From the text to the tree nothing of the source is lost: the tokens      *)
(* cover it and the tree holds the tokens (Parser).                         *)
SourceIsKept == [][TokensCoverTheSource /\ ParsesToOneTree]_vars

(* What does not hold: a source text is parsed or reported (use paths).     *)
EveryParseEnds == [][Returns("parse") => ~Parsed.stuck /\ ~Parsed.panic]_vars
(* What does not hold: the tree spells the source text.                     *)
TreeSpellsTheSource == [][Returns("parse") /\ ~BadUse(Parsed) => LeavesOf(Parsed.kids) = SpelledAll(Toks)]_vars
----------------------------------------------------------------------------
\* Operators between operands, in the body of a function.
BinaryOps == {"Star", "Plus", "And", "EqEq", "AndAnd", "OrOr", "DotDot", "Eq"}
ExprJob == job \in [kind : {"expr"}, ops : [1..4 -> BinaryOps]]
RECURSIVE Operands(_)
Operands(ops) == IF ops = <<>> THEN <<"Ident">> ELSE <<"Ident", Head(ops)>> \o Operands(Tail(ops))
ParsedExpr == Ps!parse_to_syntax(<<"KwFn", "Ident", "LParen", "RParen", "LBrace">> \o Operands(job.ops) \o <<"RBrace">>)

\* The grammar of the levels: = to the right, the others to the left, a
\* comparison or a range at most once.
LevelOf(op) ==
    CASE op = "Eq" -> 1 [] op = "DotDot" -> 2 [] op = "OrOr" -> 3 [] op = "AndAnd" -> 4 [] op = "EqEq" -> 5 [] op = "And" -> 6 [] op = "Plus" -> 7
      [] op = "Star" -> 8
Places(ops, level) == {i \in DOMAIN ops : LevelOf(ops[i]) = level}
Lowest(ops) == CHOOSE l \in 1..8 : Places(ops, l) # {} /\ \A i \in DOMAIN ops : LevelOf(ops[i]) >= l
SplitAt(ops) ==
    LET places == Places(ops, Lowest(ops))
    IN CHOOSE i \in places : \A j \in places : IF Lowest(ops) = 1 THEN i <= j ELSE i >= j
Before(ops) == SubSeq(ops, 1, SplitAt(ops) - 1)
AfterIt(ops) == SubSeq(ops, SplitAt(ops) + 1, Len(ops))
RECURSIVE Grouped(_), Allowed(_)
Grouped(ops) == IF ops = <<>> THEN <<"operand">> ELSE <<ops[SplitAt(ops)], Grouped(Before(ops)), Grouped(AfterIt(ops))>>
Allowed(ops) ==
    ops = <<>> \/ /\ Lowest(ops) \in {2, 5} => Cardinality(Places(ops, Lowest(ops))) = 1
                  /\ Allowed(Before(ops)) /\ Allowed(AfterIt(ops))

\* The tree, where a node that starts with an operator continues the one
\* before it.
RECURSIVE ReadInto(_, _)
ReadInto(left, elems) ==
    IF elems = <<>> THEN left
    ELSE LET e == Head(elems)
             at == CHOOSE i \in DOMAIN e.kids : e.kids[i].leaf
             op == e.kids[at].kind
             rhs == ReadInto(<<>>, SubSeq(e.kids, at + 1, Len(e.kids)))
         IN IF e.kind = "PathExpr" THEN ReadInto(<<"operand">>, Tail(elems))
            ELSE ReadInto(<<op, ReadInto(left, SubSeq(e.kids, 1, at - 1)), rhs>>, Tail(elems))
ExprElems(out) == out.kids[1].kids[1].kids[5].kids[2].kids
OneEach == \A i, j \in DOMAIN job.ops : i # j => job.ops[i] # job.ops[j]
Within(ops, S) == \A i \in DOMAIN ops : ops[i] \in S

(* Operators group by their levels, = to the right and the others to the    *)
(* left, where a node that starts with an operator continues the one before *)
(* it; and the lowering of a tree with no two operators of a level and      *)
(* neither && nor || reads it so.                                           *)
OperatorsGroupByLevel ==
    [][Returns("expr") /\ Allowed(job.ops) =>
        LET out == ParsedExpr
            elems == ExprElems(out)
        IN /\ out.diagnostics = 0
           /\ ReadInto(<<>>, elems) = Grouped(job.ops)
           /\ OneEach /\ Within(job.ops, {"Star", "Plus", "And", "EqEq"}) => Ps!lower_binary_expr(elems[1]) = Grouped(job.ops)]_vars
(* What does not hold: the lowering sees every operand of a chain.          *)
ChainsAreLowered ==
    [][Returns("expr") /\ Within(job.ops, {"Star", "Plus", "And"}) =>
        Ps!lower_binary_expr(ExprElems(ParsedExpr)[1]) = Grouped(job.ops)]_vars
----------------------------------------------------------------------------
\* Macros of one arm that expand to what they match, and arguments for them.
Sym(text) ==
    Mac!Tok(CASE text = "$" -> "Dollar" [] text = ":" -> "Colon" [] text = "," -> "Comma" [] text = ";" -> "Semicolon" [] text = "*" -> "Star"
              [] text = "+" -> "Plus" [] text = "?" -> "Question" [] text = "!" -> "Bang" [] text = "&" -> "And" [] text = "1" -> "IntLit"
              [] text = "as" -> "KwAs" [] text \in {"LParen", "RParen", "LBrace", "RBrace"} -> text [] OTHER -> "Ident", text)
Syms(texts) == [i \in DOMAIN texts |-> Sym(texts[i])]
Hole(name, spec) == Syms(<<"$", name, ":", spec>>)
Rep(inner, op) == <<Sym("$"), Mac!Group("LParen", inner, "RParen")>> \o Syms(op)
Parts ==
    [ident |-> Hole("x", "ident"), tt |-> Hole("x", "tt"), expr |-> Hole("x", "expr"), ty |-> Hole("w", "ty"), comma |-> Syms(<<",">>),
     idents |-> Rep(Hole("y", "ident"), <<",", "*">>), tts |-> Rep(Hole("y", "tt"), <<"*">>), maybe |-> Rep(Hole("z", "ident"), <<"?">>),
     more |-> Rep(Syms(<<";">>) \o Hole("y", "tt"), <<"*">>), pairs |-> Rep(Hole("y", "ident") \o Hole("z", "tt"), <<";", "+">>), exprs |-> Rep(Hole("y", "expr"), <<",", "+">>)]
ArgTree(text) == IF text = "(1)" THEN Mac!Group("LParen", <<Sym("1")>>, "RParen") ELSE Sym(text)
Args(texts) == <<Sym("LParen")>> \o [i \in DOMAIN texts |-> ArgTree(texts[i])] \o <<Sym("RParen")>>
\* A pattern as a template: its fragment specifiers left out.
RECURSIVE TemplateOf(_)
TemplateOf(trees) ==
    IF trees = <<>> THEN <<>>
    ELSE IF Mac!IsTok(trees, 1, {"Colon"}) THEN TemplateOf(Tail(Tail(trees)))
    ELSE <<[Head(trees) EXCEPT !.inner = TemplateOf(@)]>> \o TemplateOf(Tail(trees))
CopyJob == \E m \in 0..3 : job \in [kind : {"copy"}, parts : [1..2 -> DOMAIN Parts], args : [1..m -> {"a", "1", ",", ";", "+", "(1)"}]]
CopyPattern == <<Sym("LParen")>> \o Parts[job.parts[1]] \o Parts[job.parts[2]] \o <<Sym("RParen")>>
CopyExpanded ==
    Mac!expand_macro_call(Mac!parse_macro_def(<<[pattern |-> CopyPattern, expansion |-> TemplateOf(CopyPattern)]>>), Args(job.args))
\* A macro that copies the first of some trees and calls itself for the others.
Muncher ==
    <<[pattern |-> Args(<<>>), expansion |-> Syms(<<"LBrace", "RBrace">>)],
      [pattern |-> <<Sym("LParen")>> \o Hole("x", "tt") \o Rep(Syms(<<";">>) \o Hole("r", "tt"), <<"*">>) \o <<Sym("RParen")>>,
       expansion |-> Syms(<<"LBrace", "$", "x", ";", "m", "!">>)
                       \o <<Mac!Group("LParen", Rep(Syms(<<"$", "r">>), <<";", "*">>), "RParen"), Sym("RBrace")>>]>>
MunchJob == \E m \in 0..4 : job \in [kind : {"munch"}, args : [1..m -> {"a", "1", ",", "&", "as", "(1)"}]]
MunchArgs == [i \in DOMAIN job.args |-> ArgTree(job.args[i])]
RECURSIVE Joined(_)
Joined(trees) == IF Len(trees) <= 1 THEN trees ELSE <<Head(trees), Sym(";")>> \o Joined(Tail(trees))
MuncherExpanded ==
    Mac!expand_node_recursive([m |-> Mac!parse_macro_def(Muncher)],
                              Syms(<<"m", "!">>) \o <<Mac!Group("LParen", Joined(MunchArgs), "RParen")>>, 0)

Names(p) == CASE p \in {"ident", "tt", "expr"} -> {"x"} [] p = "ty" -> {"w"} [] p = "comma" -> {} [] p = "maybe" -> {"z"}
             [] p = "pairs" -> {"y", "z"} [] OTHER -> {"y"}
Distinct == Names(job.parts[1]) \cap Names(job.parts[2]) = {}
Wide == "exprs" \in {job.parts[1], job.parts[2]} /\ \E i \in 1 .. Len(job.args) - 1 : job.args[i] # "," /\ job.args[i + 1] # ","
Without(args, i) == SubSeq(args, 1, i - 1) \o SubSeq(args, i + 1, Len(args))
Trailing(args) == {Without(args, i) : i \in {k \in DOMAIN args : args[k] \in {Sym(","), Sym(";")}}}
Copied(out) == SelectSeq(out.trees, LAMBDA t : t.kind \notin {"LBrace", "RBrace", "Semicolon"})

(* A macro that expands to what it matches copies its arguments, whole and  *)
(* in order, but for the separator it allows behind the last repetition;    *)
(* and one that copies a tree and calls itself for the others copies them   *)
(* all or reports the recursion limit. Except for repetitions of fragments  *)
(* with more than one tree.                                                 *)
MacrosCopyTheirArguments ==
    [][/\ Returns("copy") /\ Distinct /\ ~Wide =>
              LET out == CopyExpanded
              IN out.some => out.trees = Args(job.args) \/ out.trees \in Trailing(Args(job.args))
       /\ Returns("munch") =>
              LET out == MuncherExpanded
              IN IF Len(job.args) > 2 THEN out.diagnostics > 0 ELSE out.diagnostics = 0 /\ Copied(out) = MunchArgs]_vars
(* What does not hold: a repetition copies its expressions.                 *)
RepetitionsCopyExpressions ==
    [][Returns("copy") /\ Distinct /\ CopyExpanded.some => CopyExpanded.trees \in {Args(job.args)} \cup Trailing(Args(job.args))]_vars
(* What does not hold: the tokens of an expansion are read as they are.     *)
ExpansionsKeepTheirTokens == [][Returns("copy") /\ CopyExpanded.some => Mac!Reparsed(CopyExpanded.trees) = CopyExpanded.trees]_vars
(* What does not hold: `$($y:tt)*` matches any arguments.                   *)
TreesMatchAnyArguments == [][Returns("copy") /\ job.parts = <<"maybe", "tts">> => CopyExpanded.some]_vars
----------------------------------------------------------------------------
\* A crate of two modules, with some use declarations in each and at the root.
Dm == INSTANCE DefMap
Pub == Dm!Vis("Public")
InCrate(segments) == Dm!Path("Crate", 0, segments)
One(name, alias) == Dm!UseTree("path", Dm!Path("Plain", 0, <<name>>), alias, <<>>)
Glob(path) == Dm!UseTree("glob", path, "", <<>>)
Single(path, alias) == Dm!UseTree("path", path, alias, <<>>)
UseTrees ==
    [all_a |-> Glob(InCrate(<<"a">>)), all_b |-> Glob(InCrate(<<"b">>)), all |-> Glob(InCrate(<<>>)), above |-> Glob(Dm!Path("Super", 2, <<>>)),
     x |-> Single(InCrate(<<"b", "X">>), ""), x_as_z |-> Single(InCrate(<<"b", "X">>), "Z"), z |-> Single(InCrate(<<"a", "Z">>), ""),
     b_as_w |-> Single(Dm!Path("Super", 1, <<"b">>), "W"), v |-> Single(InCrate(<<"a", "E", "V">>), ""),
     some |-> Dm!UseTree("nested", InCrate(<<"a">>), "", <<One("E", ""), One("f", "g"), One("W", "X")>>)]
UsesOf(vis) == [module : {"root", "a", "b"}, tree : DOMAIN UseTrees, vis : vis]
UsesJob ==
    \/ job \in [kind : {"uses"}, own : {FALSE}, uses : [1..3 -> UsesOf({"Public"})]]
    \/ job \in [kind : {"uses"}, own : BOOLEAN, uses : [1..2 -> UsesOf({"Public", "Inherited"})]]
PubNode == Dm!VisNode({"KwPub"}, <<>>)
Public(item) == <<PubNode, item>>
RECURSIVE UsesFrom(_, _)
UsesFrom(uses, module) ==
    IF uses = <<>> THEN <<>>
    ELSE LET item == Dm!Item("UseDecl", "", UseTrees[Head(uses).tree])
         IN (IF Head(uses).module # module THEN <<>> ELSE IF Head(uses).vis = "Public" THEN Public(item) ELSE <<item>>) \o UsesFrom(Tail(uses), module)
UsesIn(module) == UsesFrom(job.uses, module)
OwnX == IF job.own THEN Public(Dm!Item("StructDef", "X", <<>>)) ELSE <<>>
CrateItems ==
    UsesIn("root") \o OwnX
      \o Public(Dm!Item("Module", "a", UsesIn("a") \o OwnX \o <<Dm!Item("FnDef", "f", <<>>)>> \o Public(Dm!Item("EnumDef", "E", <<Dm!Item("EnumVariant", "V", <<>>)>>))))
      \o <<Dm!Item("Module", "b", UsesIn("b") \o Public(Dm!Item("StructDef", "X", <<>>)) \o Public(Dm!Item("StructDef", "X", <<>>))
                                     \o <<Dm!VisNode({"KwPub", "LParen", "KwCrate"}, <<>>), Dm!Item("ConstDef", "X", <<>>)>>)>>
DefMapBuilt == Dm!build_def_map(CrateItems)

\* The names that the declarations give a module, in no order.
In(m, entry) == [m |-> m, entry |-> entry]
EntriesOf(modules) == UNION {{In(m, e) : e \in modules[m].scope} : m \in DOMAIN modules}
Given == EntriesOf(Dm!collect_items(Dm!Empty, 1, CrateItems).modules)
ByPath(out, E, m, at, path, name, vis) ==
    LET from == Dm!Descend(out.modules, Dm!Start(out.modules, at, path), Dm!Front(path.segments))
        module == Dm!resolve_module_path_for_modules(out.modules, at, path)
    IN {In(m, Dm!Entry(d.entry.ns, name, d.entry.id, vis)) : d \in {e \in E : e.m = from /\ e.entry.name = Dm!Last(path.segments)}}
         \cup (IF module = 0 THEN {} ELSE {In(m, Dm!Entry("types", name, out.modules[module].def_id, vis))})
ByUse(out, E, u) ==
    LET module == Dm!resolve_module_path_for_modules(out.modules, u.module, u.tree.path)
    IN CASE u.tree.form = "path" -> ByPath(out, E, u.module, u.module, u.tree.path, Dm!NameOf(u.tree), u.vis)
         [] module = 0 -> {}
         [] u.tree.form = "glob" -> {In(u.module, d.entry) : d \in {e \in E : e.m = module /\ e.entry.vis = Pub}}
         [] OTHER -> UNION {ByPath(out, E, u.module, module, u.tree.inner[i].path, Dm!NameOf(u.tree.inner[i]), u.vis) : i \in DOMAIN u.tree.inner}
RECURSIVE ClosedUnder(_, _)
ClosedUnder(out, E) ==
    LET more == E \cup UNION {ByUse(out, E, out.use_decls[i]) : i \in DOMAIN out.use_decls}
    IN IF more = E THEN E ELSE ClosedUnder(out, more)
Ambiguous(E) == \E d, e \in E : d # e /\ d.m = e.m /\ Dm!SameName(d.entry, e.entry)

(* The names of a module are the ones that its declarations give it, in     *)
(* whatever order they are written: none is there that no chain of          *)
(* declarations leads to and, unless two chains meet in a name, none that   *)
(* one leads to is missing.                                                 *)
ImportsReachTheirItems ==
    [][Returns("uses") =>
        LET out == DefMapBuilt
            reached == ClosedUnder(out, Given)
        IN /\ EntriesOf(out.modules) \subseteq reached
           /\ ~Ambiguous(reached) => EntriesOf(out.modules) = reached]_vars
\* The entries whose item the module has no access to; one duplicate is reported in any case.
OwnVis(e) == (CHOOSE d \in Given : d.entry.id = e.id).entry.vis
NoAccess(out) ==
    {d \in EntriesOf(out.modules) : /\ \E g \in Given : g.entry.id = d.entry.id
                                    /\ d.entry.id \in DOMAIN out.def_to_module
                                    /\ ~Dm!is_accessible_from(out.modules, OwnVis(d.entry), out.def_to_module[d.entry.id], d.m)}
(* What does not hold: an import of a private item is reported.             *)
PrivateItemsAreReported == [][Returns("uses") /\ NoAccess(DefMapBuilt) # {} => DefMapBuilt.diagnostics > 1]_vars
(* What does not hold: only imports of private items are reported.          *)
ReportedItemsArePrivate == [][Returns("uses") /\ DefMapBuilt.diagnostics > 1 => NoAccess(DefMapBuilt) # {}]_vars
(* What does not hold: the loop ends where another pass changes nothing.    *)
ImportsAreSettled == [][Returns("uses") => Dm!ProcessAll(DefMapBuilt.modules, DefMapBuilt.use_decls) = DefMapBuilt.modules]_vars

----------------------------------------------------------------------------
\* Constant evaluation: integers of three and five bits in eight.
C == INSTANCE ConstEval WITH
         TyBits <- [i8 |-> 3, i32 |-> 5, isize |-> 4, u8 |-> 3, u32 |-> 5, usize |-> 4],
         WideBits <- 8, MAX_EVAL_DEPTH <- 12, MAX_ITERS <- 5, MAX_FOR_ITERS <- 3,
         Fns <- [f \in {} |-> 0]

Lit(i) == [k |-> "Literal", lit |-> C!IntVal(i, "i32")]
Var(n) == [k |-> "Path", name |-> n]
Bin(op, l, r) == [k |-> "Binary", op |-> op, lhs |-> l, rhs |-> r]
Let(n, x) == [k |-> "Let", name |-> n, expr |-> x]
Assign(n, x) == [k |-> "Assign", name |-> n, expr |-> x]
BlockOf(stmts, tail) == [k |-> "Block", stmts |-> stmts, tail |-> tail]
IfThen(c, t, e) == [k |-> "If", cond |-> c, then |-> t, else |-> e]
Break == [k |-> "Break"]
Continue == [k |-> "Continue"]
While(c, b) == [k |-> "While", cond |-> c, body |-> b]
Loop(b) == [k |-> "Loop", body |-> b]
For(n, lo, hi, incl, b) ==
    [k |-> "For", pat |-> [k |-> "Binding", name |-> n], body |-> b,
     expr |-> [k |-> "Range", start |-> <<Lit(lo)>>, end |-> <<Lit(hi)>>, inclusive |-> incl]]
Closure(ps, b, args) == [k |-> "Call", func |-> [k |-> "Closure", params |-> ps, body |-> b], args |-> args]

Steps ==
    {Assign("a", Bin("+", Var("a"), Lit(1))), Assign("a", Bin("*", Var("a"), Lit(7))),
     Let("b", Var("a")), Let("a", Lit(3)), Break, Continue,
     IfThen(Bin("<", Lit(1), Var("a")), BlockOf(<<Break>>, <<>>), <<>>),
     IfThen(Bin("==", Var("a"), Lit(1)), BlockOf(<<Assign("a", Lit(4)), Continue>>, <<>>), <<Break>>),
     Assign("a", Closure(<<"p">>, BlockOf(<<Let("q", Var("p"))>>, <<Bin("-", Var("q"), Lit(2))>>), <<Var("a")>>))}
Inner == {BlockOf(<<s>>, <<>>) : s \in Steps} \cup {BlockOf(<<s, t>>, <<>>) : s, t \in Steps}
Loops == UNION {{While(Bin("<", Var("a"), Lit(3)), b), Loop(b), For("i", 0, 2, FALSE, b), For("i", 1, 3, TRUE, b)} : b \in Inner}
Nested == {Loop(BlockOf(<<l, s>>, <<>>)) : s \in Steps,
           l \in {While(Bin("<", Var("a"), Lit(2)), b) : b \in {BlockOf(<<s>>, <<>>) : s \in Steps}}
                    \cup {For("i", 0, 1, TRUE, BlockOf(<<s>>, <<>>)) : s \in Steps}}

Node(kind, elems) == [k |-> kind, elems |-> elems]
PBind(n) == [k |-> "Binding", name |-> n]
PLit(i) == [k |-> "Literal", lit |-> C!IntVal(i, "i32")]
POf(kind, pats) == [k |-> kind, pats |-> pats]
PRange(lo, hi, incl) ==
    [k |-> "Range", start |-> <<C!IntVal(lo, "i32")>>, end |-> <<C!IntVal(hi, "i32")>>, inclusive |-> incl]
Patterns ==
    {POf("Tuple", <<p, q>>) : p, q \in {PBind("p"), PLit(1), PRange(0, 1, FALSE), PRange(0, 2, TRUE),
                                         POf("Or", <<PLit(0), PLit(3)>>)}}
      \cup {[k |-> "Wild"], POf("Array", <<PLit(1)>>), POf("Tuple", <<PLit(1)>>)}
Match(x, p, q) ==
    [k |-> "Match", scrutinee |-> x,
     arms |-> <<[pat |-> p, body |-> Lit(5)], [pat |-> q, body |-> IF C!Names(q) = {} THEN Var("a") ELSE Var("p")], [pat |-> [k |-> "Wild"], body |-> Lit(6)]>>]
Matches ==
    {BlockOf(<<Let(n, Lit(9)), Let("a", Lit(8))>>, <<Match(Node("Tuple", <<Lit(i), Lit(j)>>), p, q)>>) : i \in 0..1, j \in 0..3, p, q \in Patterns, n \in {"p", "r"}}

Atoms == {Lit(i) : i \in {-16, -3, 0, 2, 15}} \cup {[k |-> "Literal", lit |-> C!UintVal(6, "u8")]}
Cast(x, ty) == [k |-> "Cast", expr |-> x, ty |-> ty]
Forms ==
    {Cast(x, ty) : x \in Atoms, ty \in {"i8", "u8", "i32", "u32"}}
      \cup {[k |-> "Unary", op |-> op, expr |-> Lit(i)] : op \in {"-", "!"}, i \in {-16, 0, 15}}
      \cup {[k |-> "MethodCall", name |-> n, args |-> <<x, y>>] : n \in {"min", "max", "abs"}, x, y \in {Lit(-3), Lit(2), Lit(15)}}
      \cup {[k |-> "Index", base |-> Node(kind, <<Lit(7), Lit(8)>>), index |-> Lit(i)] : kind \in {"Tuple", "Array"}, i \in -1..2}
      \cup {[k |-> "Field", name |-> n, expr |-> Node("Struct", <<Lit(1), Lit(2)>>) @@ ("names" :> <<"x", "y">>)] : n \in {"x", "y"}}
      \cup {Bin(op, x, y) : op \in {"+", "-", "*", "/", "%"}, x, y \in Atoms}
      \cup {Bin(op, Lit(i), Lit(j)) : op \in {"<=", "!=", ">"}, i, j \in {-16, -3, 0, 2, 15}}

\* Two statements that use the same names one after the other.
Reuses ==
    {For("i", 0, n, TRUE, BlockOf(<<Let("b", Var("i")), Assign("a", Bin("+", Var("a"), Var("b")))>>, <<>>)) : n \in 0..2}
      \cup {BlockOf(<<Let("b", Lit(n)), Let("b", Bin("*", Var("b"), Var("b"))), Assign("a", Var("b"))>>, <<>>) : n \in 2..3}
      \cup {Assign("a", Closure(<<"a">>, BlockOf(<<Assign("a", Lit(n))>>, <<Bin("+", Var("a"), Lit(1))>>), <<Lit(5)>>)) : n \in 0..1}
      \cup {Let("a", Bin("-", Var("a"), Lit(1)))}

Programs ==
    {BlockOf(<<Let("a", Lit(0)), l>>, <<Var("a")>>) : l \in Loops \cup Nested}
      \cup {BlockOf(<<Let("a", Lit(0)), s, t>>, <<Var("a")>>) : s, t \in Reuses} \cup Matches \cup Forms

ConstEvaluated == C!evaluate(job.body)

ConstJobs == {[kind |-> "const", body |-> p] : p \in Programs}

----------------------------------------------------------------------------
\* The same operation as a constant and as an instruction of the LLVM backend.
L == INSTANCE Llvm WITH PtrSize <- 4, ALIGN_MAX <- 16, Many <- 1000

Bits(ty) == IF ty \in {"i8", "u8"} THEN 3 ELSE 5
SignedTy(ty) == ty \in C!SignedTys
Small(ty) == IF SignedTy(ty) THEN -4..3 ELSE 0..7
Const(i, ty) == IF SignedTy(ty) THEN C!IntVal(i, ty) ELSE C!UintVal(i, ty)
Instructions ==
    "+" :> "Add" @@ "-" :> "Sub" @@ "*" :> "Mul" @@ "/" :> "Div" @@ "%" :> "Rem" @@ "==" :> "Eq" @@ "!=" :> "Ne" @@ "<" :> "Lt"
      @@ ">" :> "Gt" @@ "<=" :> "LtEq" @@ ">=" :> "GtEq" @@ "&" :> "BitAnd" @@ "|" :> "BitOr" @@ "^" :> "BitXor"
      @@ "<<" :> "Shl" @@ ">>" :> "Shr"
ArithJobs ==
    UNION {[kind : {"arith"}, op : DOMAIN Instructions, x : Small(ty), y : Small(ty), ty : {ty}]
             \cup [kind : {"arith"}, op : {"neg", "!", "as i32", "as u32", "as i8", "as u8"}, x : Small(ty), y : {0}, ty : {ty}] :
           ty \in {"i8", "u8"}}
CastTo == CASE job.op = "as i32" -> "i32" [] job.op = "as u32" -> "u32" [] job.op = "as i8" -> "i8" [] OTHER -> "u8"
\* A shift has an i32 on its right.
AsConstant ==
    LET a == Const(job.x, job.ty)
        b == IF job.op \in {"<<", ">>"} THEN C!IntVal(job.y, "i32") ELSE Const(job.y, job.ty)
    IN CASE job.op \in DOMAIN Instructions -> C!apply_binop(job.op, a, b)
         [] job.op \in {"neg", "!"} -> C!apply_unop(IF job.op = "neg" THEN "-" ELSE "!", a)
         [] OTHER -> C!eval_cast(a, CastTo)
AsInstruction ==
    CASE job.op \in DOMAIN Instructions -> L!lower_binop(Instructions[job.op], job.x, job.y, Bits(job.ty), SignedTy(job.ty))
      [] job.op \in {"neg", "!"} -> L!lower_unop(IF job.op = "neg" THEN "Neg" ELSE "Not", job.x, Bits(job.ty))
      [] OTHER -> L!lower_cast(job.x, Bits(job.ty), Bits(CastTo))
Computed == <<AsConstant, AsInstruction>>

\* The bits of the constant, as many as the instruction gives.
BitsOf(v) ==
    CASE v.k = "Bool" -> IF v.b THEN 1 ELSE 0
      [] OTHER -> C!AsUnsigned(v.i, Bits(v.ty))
Agrees(out) == out[1] # <<>> /\ out[2] # <<>> => out[2][1] = BitsOf(out[1][1])
\* Orders of unsigned numbers that differ in the highest bit, and negative
\* numbers that are made wider: the cases left out below.
Misread ==
    \/ job.ty = "u8" /\ job.op \in {"<", ">", "<=", ">="} /\ (job.x < 4) # (job.y < 4)
    \/ job.x < 0 /\ job.op \in {"as i32", "as u32"}

(* A constant is what the program computes: evaluation at compile time      *)
(* gives the meaning of the expression, whatever loops, matches, blocks and *)
(* closures surround its variables, for the programs in which a break or    *)
(* continue has nothing behind it in its block and no let, loop variable or *)
(* pattern shadows a variable of a block around it (eval_block runs on      *)
(* behind a break, assign_name writes the shadowed variable); and an        *)
(* operation that has a value as a constant has the same bits as an         *)
(* instruction.                                                             *)
ConstMeansTheProgram ==
    [][/\ Returns("const") /\ C!BreaksComeLast(job.body) /\ C!NothingIsShadowed(job.body)
             => C!SameResult(ConstEvaluated, C!Meaning(job.body, C!Start))
       /\ Returns("arith") /\ ~Misread => Agrees(Computed)]_vars

(* What does not hold: a break exits the loop and a continue skips to the   *)
(* next iteration, as eval_while says (eval.rs:1218-1219).  The statements  *)
(* behind them in their block are run before the loop looks at loop_control.*)
BreaksLeaveTheLoop ==
    [][Returns("const") /\ C!NothingIsShadowed(job.body)
           => C!SameResult(ConstEvaluated, C!Meaning(job.body, C!Start))]_vars

(* What does not hold: constants and instructions agree on all operations.  *)
(* LLVM compares unsigned numbers as signed ones and fills the higher bits  *)
(* of a negative number with zeros.                                         *)
InstructionsAgree == [][Returns("arith") => Agrees(Computed)]_vars
----------------------------------------------------------------------------
\* Memory of enums in the LLVM backend, on a target with pointers of 4 bytes.

Uint(n) == [k |-> "uint", bytes |-> n]
BoolTy == [k |-> "bool"]
RefTo(ty) == [k |-> "ref", elem |-> ty]
UnitTy == [k |-> "unit"]
TupleOf(tys) == [k |-> "tuple", args |-> tys]
ArrayOf(ty, n) == [k |-> "array", elem |-> ty, count |-> n]
StructOf(tys) == [k |-> "struct", fields |-> tys, variants |-> <<>>]
EnumOf(vs) == [k |-> "enum", fields |-> <<>>, variants |-> vs]

UpTo(n, S) == UNION {[1..i -> S] : i \in 0..n}
Leaves == {Uint(1), Uint(2), Uint(4), BoolTy, RefTo(UnitTy), UnitTy}
Inners == {EnumOf(<<<<>>, <<Uint(4)>>>>), EnumOf(<<<<>>, <<BoolTy>>>>), StructOf(<<Uint(1), Uint(4)>>),
           ArrayOf(Uint(2), 3), TupleOf(<<Uint(4), Uint(1)>>), [k |-> "string"]}
Enums ==
    {EnumOf(<<f, g>>) : f, g \in UpTo(2, Leaves)}
      \cup {EnumOf(<<f, g, h>>) : f, g, h \in UpTo(1, Leaves)}
      \cup {EnumOf(<<f, g>>) : f, g \in UpTo(2, Inners)}
      \cup {EnumOf(<<f>>) : f \in UpTo(2, Leaves \cup Inners)}
EnumJobs == {[kind |-> "enum", ty |-> ty] : ty \in Enums}

\* The stores that build every variant.
VariantsBuilt ==
    [v \in DOMAIN job.ty.variants |->
        L!build_layout_aggregate(L!full_layout_of(job.ty), v - 1,
            [f \in DOMAIN job.ty.variants[v] |-> L!llvm_size(job.ty.variants[v][f])])]

RECURSIVE WithoutNiche(_)
WithoutNiche(ty) ==
    CASE ty.k = "enum" ->
             /\ L!layout_of(ty).tag.encoding # "niche"
             /\ \A v \in DOMAIN ty.variants : \A f \in DOMAIN ty.variants[v] : WithoutNiche(ty.variants[v][f])
      [] OTHER -> TRUE

Apart(stores, size) ==
    /\ \A i \in DOMAIN stores : stores[i].off + stores[i].size <= size
    /\ \A i, j \in DOMAIN stores : i # j => ~L!Overlap(stores[i], stores[j])

\* The last stores are those of the fields.
Aligned(stores, tys) ==
    \A i \in DOMAIN tys :
        stores[Len(stores) - Len(tys) + i].off % L!full_layout_of(tys[i]).align = 0

\* Places in arrays, arrays of arrays and a tuple behind a reference.
PlaceElem(k, i, from_end) == [k |-> k, i |-> i, from_end |-> from_end]
Picks(n) ==
    {PlaceElem("ConstantIndex", i, FALSE) : i \in 0 .. n - 1} \cup {PlaceElem("ConstantIndex", i, TRUE) : i \in 1..n}
      \cup {PlaceElem("Index", 0, FALSE)}
ElementTys ==
    {ArrayOf(ty, n) : ty \in {Uint(2), TupleOf(<<Uint(4), Uint(1)>>), EnumOf(<<<<>>, <<Uint(4)>>>>), RefTo(UnitTy)}, n \in 1..3}
FieldsOf(ty) == {<<PlaceElem("Field", i, FALSE)>> : i \in 0..1}
PairTy == TupleOf(<<Uint(4), Uint(4)>>)
ElementJobs ==
    UNION {[kind : {"element"}, ty : {ty}, path : {<<p>> : p \in Picks(ty.count)}, index : 0 .. ty.count - 1] : ty \in ElementTys}
      \cup UNION {[kind : {"element"}, ty : {ArrayOf(ty, 2), RefTo(ArrayOf(ty, 2))}, index : 0..0,
                   path : {<<p, q>> : p \in Picks(2), q \in Picks(ty.count)} \cup {<<PlaceElem("Deref", 0, FALSE), p, q>> : p \in Picks(2), q \in Picks(ty.count)}] :
                  ty \in {t \in ElementTys : t.count > 1}}
      \cup [kind : {"element"}, ty : {PairTy}, path : FieldsOf(PairTy), index : {0}]
ElementAddressed == L!place_ptr(job.ty, job.path, job.index)

\* Which element of how many the path picks, counted over the arrays it enters.
Ordinal(e, n) ==
    CASE e.k = "Index" -> job.index [] e.from_end -> n - e.i [] OTHER -> e.i
RECURSIVE Offset(_, _)
Offset(ty, path) ==
    IF path = <<>> THEN 0
    ELSE IF ty.k = "ref" THEN Offset(ty.elem, Tail(path))
    ELSE Ordinal(path[1], ty.count) * L!llvm_size(ty.elem) + Offset(ty.elem, Tail(path))
EndsInside(out) ==
    LET whole == IF job.ty.k = "ref" THEN job.ty.elem ELSE job.ty
    IN out.off + L!llvm_size(out.ty) <= L!llvm_size(whole)

(* The alloca of an enum is sized by one computer of layouts (types.rs through  *)
(* glyim-layout) and filled at the offsets of the other (abi.rs, which does *)
(* not align the data to the variants): without niches the tag and the      *)
(* fields of every variant still fall inside it, aligned and apart. So do   *)
(* the elements that place_ptr goes to, counted from either end, in arrays  *)
(* of arrays and behind references.                                         *)
VariantsFitTheirMemory ==
    [][/\ Returns("enum") /\ WithoutNiche(job.ty) =>
              LET out == VariantsBuilt
              IN \A v \in DOMAIN out : Apart(out[v], L!llvm_size(job.ty)) /\ Aligned(out[v], job.ty.variants[v])
       /\ Returns("element") /\ job.ty.k # "tuple" =>
              LET out == ElementAddressed
              IN out.ok => out.off = Offset(job.ty, job.path) /\ EndsInside(out)]_vars

(* What does not hold: two fields are apart in memory. The pointer to the   *)
(* field is bound to a name that ends with its arm (lower.rs, place_ptr).   *)
FieldsHaveTheirAddress ==
    [][Returns("element") /\ job.ty = PairTy => ElementAddressed.off = 4 * job.path[1].i]_vars

(* What does not hold: the same for enums that the first computer packs into    *)
(* a niche (lower.rs:990-1004 says the aggregate's layout is the memory's). *)
NichesFitTheirMemory ==
    [][Returns("enum") => LET out == VariantsBuilt IN \A v \in DOMAIN out : Apart(out[v], L!llvm_size(job.ty))]_vars

(* What does not hold: a value's discriminant is the variant it was built as.   *)
(* lower_discriminant looks for the tag where the first variant has its     *)
(* first field.                                                             *)
DiscriminantIsTheVariant ==
    [][Returns("enum") /\ Len(job.ty.variants) > 1 =>
           LET out == VariantsBuilt
           IN \A v \in DOMAIN out : L!lower_discriminant(L!full_layout_of(job.ty), out[v]) = v - 1]_vars
----------------------------------------------------------------------------
\* Bodies in the LLVM backend: three blocks and a cleanup of one or two.
Targets == 1..3
Cleanups == {<<>>, <<4>>}
Terms ==
    {[k |-> "Goto", target |-> t] : t \in Targets}
      \cup {[k |-> "SwitchInt", targets |-> ts] : ts \in {<<2>>, <<3, 2>>, <<3, 3>>}}
      \cup {[k |-> "Return"], [k |-> "Unreachable"]}
      \cup {[k |-> "Call", target |-> t, cleanup |-> c, ret |-> r, dest |-> 2] :
              t \in {<<>>, <<2>>, <<3>>}, c \in Cleanups, r \in {"ignore", "direct", "indirect"}}
      \cup {[k |-> "Assert", target |-> t, cleanup |-> c] : t \in {2, 3}, c \in Cleanups}
      \cup {[k |-> "Drop", target |-> t, cleanup |-> c, ty |-> ty] : t \in {2, 3}, c \in Cleanups,
              ty \in {Uint(1), [k |-> "string"], [k |-> "mutref", elem |-> [k |-> "string"]]}}
MirBlock(stmts, term, cleanup) == [stmts |-> stmts, term |-> term, cleanup |-> cleanup]
Unwinding ==
    {<<MirBlock(<<>>, [k |-> "Unreachable"], TRUE)>>,
     <<MirBlock(<<>>, [k |-> "Drop", target |-> 5, cleanup |-> <<>>, ty |-> [k |-> "string"]], TRUE),
       MirBlock(<<>>, [k |-> "Unreachable"], TRUE)>>}
Live2 == [k |-> "StorageLive", local |-> 2]
Use2 == [k |-> "Assign", local |-> 1, from |-> 2]
MirBodies3 ==
    {[blocks |-> <<MirBlock(<<Live2>>, s, FALSE), MirBlock(<<Use2>>, t, FALSE), MirBlock(<<Live2, Use2>>, u, FALSE)>> \o c,
      locals |-> 2, nothing |-> n] :
        s, t \in Terms, u \in {[k |-> "Return"], [k |-> "Goto", target |-> 2]}, c \in Unwinding, n \in BOOLEAN}
BodyJobs ==
    {[kind |-> "body", mir |-> m, windows |-> w] : w \in {FALSE}, m \in {b \in MirBodies3 : b.nothing}}
      \cup {[kind |-> "body", mir |-> m, windows |-> w] : w \in {TRUE},
              m \in {b \in MirBodies3 : ~b.nothing /\ Len(b.blocks) = 4 /\ b.blocks[3].term.k = "Return"}}

BodyLowered == L!lower_body(job.mir, job.windows)

Successors(t) ==
    CASE t.k \in {"Goto", "Assert", "Drop"} -> {t.target}
      [] t.k = "SwitchInt" -> {t.targets[i] : i \in DOMAIN t.targets}
      [] t.k = "Call" -> {t.target[i] : i \in DOMAIN t.target}
      [] OTHER -> {}

\* As glyim-lower builds calls: each returns to a new block of its own.
FreshTargets(mir) ==
    \A b \in DOMAIN mir.blocks :
        LET t == mir.blocks[b].term
        IN t.k = "Call" => \A s \in Successors(t) :
               s > b /\ \A c \in DOMAIN mir.blocks \ {b} : s \notin Successors(mir.blocks[c].term)

\* Signatures with arguments of no size, of the size of registers and larger.
ArgTys == {Uint(4), UnitTy, TupleOf(<<Uint(4), Uint(1)>>), ArrayOf(Uint(4), 5)}
CallJobs ==
    [kind : {"call"}, sig : [inputs : UpTo(3, ArgTys), output : ArgTys],
     abi : {"X86_64SystemV", "X86_64Windows", "AArch64AAPCS", "Wasm32"}]
ArgumentsPassed ==
    <<L!lower_call_arguments(job.sig, job.abi), L!llvm_fn_type_from_sig(job.sig, job.abi), L!lower_body_parameters(job.sig)>>
InOrder ==
    [i \in DOMAIN job.sig.inputs |->
        [operand |-> i, mode |-> L!classify_arg(job.sig.inputs[i], L!full_layout_of(job.sig.inputs[i]), job.abi)]]
EveryArgumentHasBytes == \A i \in DOMAIN job.sig.inputs : job.sig.inputs[i] # UnitTy

(* LLVM takes a body only if every block ends with its one terminator and every *)
(* block that is unwound to starts with a pad.  The instructions of one MIR *)
(* block are spread over several (asserts, drops, the result of an invoke   *)
(* in its target), and the order of lowering decides where they end up. It  *)
(* takes a call only if the arguments are those of the declared type; if    *)
(* none is without bytes they are the operands in their order, and if none  *)
(* goes through memory they are what the defined function takes.            *)
EmittedBlocksAreWellFormed ==
    [][/\ Returns("body") /\ FreshTargets(job.mir) =>
              LET out == BodyLowered
                  Code == out.code
              IN out.ok =>
                     \A b \in DOMAIN Code :
                         /\ Code[b] # <<>> /\ \A i \in DOMAIN Code[b] : Code[b][i].op \in L!Enders <=> i = Len(Code[b])
                         /\ \A i \in DOMAIN Code[b] : \A u \in DOMAIN Code[b][i].unwind :
                                Code[Code[b][i].unwind[u]][1].op = "pad"
       /\ Returns("call") =>
              LET out == ArgumentsPassed
                  modes == [i \in DOMAIN out[1] |-> out[1][i].mode]
              IN /\ modes = out[2]
                 /\ EveryArgumentHasBytes =>
                        /\ SelectSeq(out[1], LAMBDA a : a.mode # "sret") = InOrder
                        /\ (\A i \in DOMAIN modes : modes[i] = "direct") => out[1] = out[3]]_vars

(* What does not hold: every call passes what the defined function takes. An *)
(* argument without bytes moves the later ones to the operand before their  *)
(* own, and no function is defined with memory for its result.              *)
CallsMatchDefinitions == [][Returns("call") => ArgumentsPassed[1] = ArgumentsPassed[3]]_vars

(* What does not hold: a block that starts with a pad is entered by unwinding   *)
(* only.  Every cleanup block gets a pad, also one another cleanup block    *)
(* goes on to.                                                              *)
PadsAreOnlyUnwoundTo ==
    [][Returns("body") /\ BodyLowered.ok =>
           LET Code == BodyLowered.code
           IN \A b \in DOMAIN Code : \A i \in DOMAIN Code[b] : \A t \in DOMAIN Code[b][i].to :
                  LET head == Code[Code[b][i].to[t]] IN head # <<>> => head[1].op # "pad"]_vars

(* What does not hold: one slot of the stack holds a local for all blocks.      *)
(* StorageLive makes another one for the blocks lowered after it.           *)
LocalsKeepTheirSlot ==
    [][Returns("body") /\ BodyLowered.ok =>
           LET Code == BodyLowered.code
           IN \A b, c \in DOMAIN Code : \A i \in DOMAIN Code[b], j \in DOMAIN Code[c] :
                  Code[b][i].op = "load" /\ Code[c][j].op = "load" /\ Code[b][i].slot > 1 /\ Code[c][j].slot > 1
                      => Code[b][i].slot = Code[c][j].slot]_vars
----------------------------------------------------------------------------
\* Comparison of places in the borrow checker: every pair of places with at most
\* two projections over a small alphabet.  As the MIR validator demands, constant
\* indices and subslices come last.
P == INSTANCE Mir

MiddleElems ==
    {P!Elem("deref", 0, 0, FALSE), P!Elem("field", 0, 0, FALSE), P!Elem("field", 1, 0, FALSE),
     P!Elem("downcast", 0, 0, FALSE), P!Elem("downcast", 1, 0, FALSE),
     P!Elem("index", 5, 0, FALSE), P!Elem("index", 6, 0, FALSE)}
LastElems ==
    MiddleElems \cup {P!Elem("const", n, 0, FALSE) : n \in 0..1} \cup {P!Elem("const", n, 0, TRUE) : n \in 1..2}
          \cup {P!Elem("sub", 0, 1, FALSE), P!Elem("sub", 1, 3, FALSE), P!Elem("sub", 1, 1, TRUE)}
SmallPlaces ==
    {P!Local(1)} \cup {P!Place(0, pr) : pr \in {<<>>} \cup {<<e>> : e \in LastElems}
                                                 \cup {<<d, e>> : d \in MiddleElems, e \in LastElems}}
PlaceJobs == {[kind |-> "places", a |-> p, b |-> q] : p, q \in SmallPlaces}

Conflict == P!places_conflict(job.a, job.b)

\* Memory.  Under a valuation of the index locals and an array length, an
\* element denotes the set of selectors it may follow; two places overlap
\* if at every common depth they may follow the same selector.
Lengths == {2, 3}
IndexLocals == {5, 6}
Positions(len) == 0..(len - 1)

Selectors(e, env, len) ==
    CASE e.k = "index"           -> {<<"elem", env[e.n]>>}
      [] e.k = "const" /\ ~e.fe  -> {<<"elem", e.n>>}
      [] e.k = "const" /\ e.fe   -> {<<"elem", len - e.n>>}
      [] e.k = "sub" /\ ~e.fe    -> {<<"elem", k>> : k \in {j \in Positions(len) : e.n <= j /\ j < e.m}}
      [] e.k = "sub" /\ e.fe     -> {<<"elem", k>> : k \in {j \in Positions(len) : e.n <= j /\ j < len - e.m}}
      [] OTHER                   -> {<<e.k, e.n>>}

Overlap(p, q, env, len) ==
    /\ p.local = q.local
    /\ \A i \in 1..Len(p.proj) :
           i <= Len(q.proj) =>
               Selectors(p.proj[i], env, len) \cap Selectors(q.proj[i], env, len) # {}

Envs(len) == [IndexLocals -> Positions(len)]

\* The comparison is defined on places of one type: at a common depth both
\* select elements of an array, or both the same kind of part.
Sort(e) == IF e.k \in {"index", "const", "sub"} THEN "array" ELSE e.k

SameShape(p, q) ==
    \A i \in 1..Len(p.proj) : i <= Len(q.proj) => Sort(p.proj[i]) = Sort(q.proj[i])

FromStart(p) == \A i \in 1..Len(p.proj) : ~p.proj[i].fe

\* Places that never overlap, if different index locals hold different indices.
ApartAtRunTime(p, q) ==
    \A len \in Lengths : \A env \in Envs(len) :
        (\A i, j \in IndexLocals : i # j => env[i] # env[j]) => ~Overlap(p, q, env, len)

AlwaysApart(p, q) ==
    \A len \in Lengths : \A env \in Envs(len) : ~Overlap(p, q, env, len)

MeetAtRunTime(p, q) ==
    \E len \in Lengths : \E env \in Envs(len) : Overlap(p, q, env, len)

Compared == Returns("places") /\ SameShape(job.a, job.b)

(* places_conflict says what the memory of two places says. Places that it  *)
(* calls disjoint never overlap, as long as different index locals hold     *)
(* different indices, which is the reading its comment gives; and places it *)
(* says conflict, without offsets from the end, overlap in some execution.  *)
PlacesAreComparedInMemory ==
    [][Compared => IF Conflict THEN FromStart(job.a) /\ FromStart(job.b) => MeetAtRunTime(job.a, job.b)
                   ELSE ApartAtRunTime(job.a, job.b)]_vars

(* What does not hold: visitor.rs:134-136: "`Index` projections are likewise    *)
(* conservatively assumed to alias because the index value is unknown at    *)
(* compile time."                                                           *)
IndexAssumedToAlias == [][Compared /\ ~Conflict => AlwaysApart(job.a, job.b)]_vars
----------------------------------------------------------------------------
\* Bytecode: programs of two functions, the second called by the first or itself.
V == INSTANCE Vm WITH PtrSize <- 8, ALIGN_MAX <- 16, Many <- 1000, MAX_CALL_DEPTH <- 3

At(n) == [local |-> n, proj |-> <<>>]
Copy(n) == [k |-> "copy", place |-> At(n)]
Num(n) == [k |-> "constant", const |-> [k |-> "Int", n |-> n]]
Fn(n) == [k |-> "constant", const |-> [k |-> "Fn", n |-> n]]
Rvalue(op, operands) == [k |-> op, ops |-> operands]
Set(n, rvalue) == [k |-> "Assign", place |-> At(n), rvalue |-> rvalue]
Jumps(t) == [k |-> "Goto", target |-> t]
Branch(o, no, yes) == [k |-> "SwitchBool", discr |-> o, targets |-> <<no, yes>>]
CallTo(f, args, dest, t) == [k |-> "Call", func |-> Fn(f), args |-> args, dest |-> dest, target |-> <<t>>]
Check(o, expected, t) == [k |-> "Assert", discr |-> o, expected |-> expected, target |-> t]
Leave == [k |-> "Return"]
VBlock(stmts, term) == [stmts |-> stmts, term |-> term]
VBody(blocks) == [blocks |-> blocks, tys |-> <<Uint(8), Uint(8)>>]

Rvalues ==
    {Rvalue(op, <<x, y>>) : op \in V!BinaryOps, x \in {Copy(1), Num(-7)}, y \in {Num(3), Num(-1), Copy(0)}}
      \cup {Rvalue("Neg", <<Copy(1)>>), Rvalue("Not", <<Copy(0)>>), Rvalue("Use", <<Num(127)>>)}
Callee ==
    VBody(<<VBlock(<<>>, Branch(Copy(0), 1, 2)), VBlock(<<Set(0, Rvalue("Use", <<Num(5)>>))>>, Leave),
            VBlock(<<Set(1, Rvalue("Sub", <<Copy(0), Num(1)>>))>>, CallTo(1, <<Copy(1)>>, 1, 3)),
            VBlock(<<Set(0, Rvalue("Add", <<Copy(0), Copy(1)>>))>>, Leave)>>)
Tails ==
    {Branch(Copy(0), 1, 2), Branch(Num(0), 2, 1), Check(Copy(1), TRUE, 2), Check(Copy(0), FALSE, 1)}
      \cup {CallTo(1, <<x>>, d, 2) : x \in {Copy(0), Num(1), Num(2)}, d \in 0..1}
Entries ==
    {VBody(<<VBlock(<<Set(1, Rvalue("Use", <<Num(n)>>)), Set(0, r)>>, t), VBlock(<<Set(0, Rvalue("Neg", <<Copy(0)>>)), Set(0, q)>>, Jumps(2)), VBlock(<<>>, Leave)>>) :
        n \in {0, 2}, r \in Rvalues, t \in Tails, q \in {Rvalue("Neg", <<Copy(0)>>), Rvalue("Sub", <<Num(100), Num(-100)>>)}}
VmJobs ==
    {[kind |-> "vm", entry |-> x, optimize |-> o] : x \in Entries, o \in {FALSE}}
      \cup {[kind |-> "vm", entry |-> x, optimize |-> o] : o \in {TRUE},
              x \in {y \in Entries : y.blocks[1].term.k = "SwitchBool"}}
Program == <<job.entry, Callee>>
ModuleOf(j) ==
    LET tables == [strings |-> <<>>, fns |-> <<0, 1>>]
    IN <<V!Assembled(j.entry, tables, j.optimize), V!Assembled(Callee, tables, FALSE)>>

\* The machine after each of its steps, from m to the one it ends in.
RECURSIVE RunFrom(_, _)
RunFrom(module, m) == IF m.ended = "run" THEN <<m>> \o RunFrom(module, V!drive(module, m)) ELSE <<m>>
MachineRun == LET module == ModuleOf(job) IN RunFrom(module, V!run_module(module))

Meant == V!UpToReturn(Program, 1, 1, [i \in 0..1 |-> 0], <<>>)
EndsAs == [return |-> "EmptyReturn", assert |-> "AssertionFailed", overflow |-> "CallFrameOverflow"]

(* The bytes generate_function gives for a body, optimised or not, do on the    *)
(* machine what the body means, up to the first return: branches by block   *)
(* numbers, arguments of nested calls, all arithmetic and its folding       *)
(* leave the same frames with the same locals, and the machine stops where  *)
(* an assertion or the call depth stops the body.  OP_RETURN then finds no  *)
(* operand (see CallsComeBack); divisions that are faults are left out.     *)
BytecodeMeansTheBody ==
    [][Returns("vm") =>
           LET run == MachineRun
               last == run[Len(run)]
               meant == Meant
           IN meant.how # "fault" =>
                  /\ last.ended = EndsAs[meant.how]
                  /\ Len(last.frames) = Len(meant.frames)
                  /\ \A i \in DOMAIN meant.frames : \A n \in DOMAIN meant.frames[i] :
                         last.frames[i].locals[n] = V!VInt(meant.frames[i][n])]_vars

(* What does not hold: lib.rs:13-14 of the machine, "cross-function calls       *)
(* (`OP_CALL` / `OP_CALL_INDIRECT`) with a real call stack (recursion       *)
(* supported)": a function that returns ends in a result.                   *)
CallsComeBack ==
    [][Returns("vm") /\ Meant.how = "return" => MachineRun[Len(MachineRun)].ended # "EmptyReturn"]_vars

(* What does not hold: glyim-codegen lib.rs:466-467, "Division by zero is not   *)
(* foldable (returns `None`) because the runtime traps on it rather than    *)
(* returning a wrapped value."                                              *)
DivisionByZeroTraps ==
    [][Returns("vm") /\ Meant.how = "fault" => MachineRun[Len(MachineRun)].ended = "AbnormalTermination"]_vars

(* What does not hold: lib.rs:620-624 of the machine, "Mirror into addressable  *)
(* memory so `LoadLocalAddr(idx) + Deref` (offset 0) observes the same      *)
(* value".  Arguments and results of calls are not mirrored.                *)
AddressesSeeTheirLocals ==
    [][Returns("vm") =>
           LET run == MachineRun
           IN \A k \in DOMAIN run : \A i \in DOMAIN run[k].frames : \A n \in DOMAIN run[k].frames[i].locals :
                  run[k].frames[i].mem[n] = run[k].frames[i].locals[n]]_vars

(* What does not hold: glyim-codegen lib.rs:595-598, decode_bytecode "is the    *)
(* inverse of [`encode_bytecode`]".  The operands of Assert, Call and       *)
(* SwitchInt come back changed, and so the peephole pass changes them.      *)
DecodingIsUndone ==
    [][Returns("vm") =>
           LET module == ModuleOf(job)
           IN \A f \in DOMAIN module : V!encode_bytecode(V!decode_bytecode(module[f].code, 1)) = module[f].code]_vars
----------------------------------------------------------------------------
\* Monomorphization of small programs. Handles 7 to 10 are T, &T, String and
\* an enum; the functions are main (1), f<T> (2), g<T> (3), h (4), m (5).
M == INSTANCE Mono WITH MONO_SET_THRESHOLD <- 4

TyT == 7
RefT == 8
EnumTy == 10
GenericArgs == <<<<M!TyArg(M!I32)>>, <<>>, <<M!TyArg(TyT)>>, <<M!TyArg(EnumTy)>>, <<M!TyArg(RefT)>>>>
OfI32 == [index |-> 0, len |-> 1]
OfNone == [index |-> 1, len |-> 0]
OfT == [index |-> 2, len |-> 1]
OfEnum == [index |-> 3, len |-> 1]
OfRefT == [index |-> 4, len |-> 1]
FnTys == [i \in 1..25 |-> [k |-> "fndef", id |-> ((i - 1) \div 5) + 1,
                           substs |-> [index |-> (i - 1) % 5, len |-> Len(GenericArgs[((i - 1) % 5) + 1])]]]
MonoArena ==
    [types |-> M!NewArena.types \o <<[k |-> "ref", elem |-> TyT], [k |-> "string"],
                                     [k |-> "adt", id |-> 50, substs |-> OfNone]>> \o FnTys,
     subs |-> GenericArgs]

FnConst(def, s) ==
    [k |-> "const", c |-> [k |-> "Fn", def |-> def, substs |-> OfNone], ty |-> 10 + (def - 1) * 5 + s.index + 1]
LocalOp(n) == [k |-> "place", local |-> n, proj |-> <<>>]
CallOf(func, args) == M!Block([k |-> "Call", func |-> func, args |-> args, dest |-> LocalOp(0)])
CallFn(def, s) == CallOf(FnConst(def, s), <<>>)
CallMethod == CallOf([k |-> "const", c |-> [k |-> "VirtualMethod", trait |-> 9, name |-> "m"], ty |-> M!UNIT], <<LocalOp(1)>>)
PassFn == CallOf(FnConst(4, OfNone), <<FnConst(5, OfNone)>>)
DropLocal == M!Block([k |-> "Drop", local |-> 1, proj |-> <<>>, target |-> 0])
BodyOf(def, arg, blocks) == [owner |-> def, locals |-> <<M!UNIT, arg>>, blocks |-> Append(blocks, M!Block(M!ReturnTerm))]

TermOf == [f_i32 |-> CallFn(2, OfI32), f_enum |-> CallFn(2, OfEnum), g_enum |-> CallFn(3, OfEnum), g_i32 |-> CallFn(3, OfI32),
           g_T |-> CallFn(3, OfT), g_RefT |-> CallFn(3, OfRefT), h |-> CallFn(4, OfNone), main |-> CallFn(1, OfNone),
           method |-> CallMethod, drop |-> DropLocal, pass |-> PassFn]
CallTerms(names) == [i \in DOMAIN names |-> TermOf[names[i]]]

CrateOf(j) ==
    [fns |-> <<BodyOf(1, M!I32, CallTerms(j.main)), BodyOf(2, TyT, CallTerms(j.f)), BodyOf(3, TyT, CallTerms(j.g)),
               BodyOf(4, EnumTy, CallTerms(j.h)), BodyOf(5, EnumTy, <<>>)>>,
     adts |-> (50 :> [kind |-> "enum", fields |-> <<>>, variants |-> <<<<>>, <<9>>>>]),
     dropImpls |-> {}, methods |-> (<<9, 50, "m">> :> 5), arena |-> MonoArena]
MonoJobs ==
    [kind : {"mono"}, main : [1..2 -> {"f_i32", "f_enum", "g_enum", "pass"}],
     f : UpTo(2, {"g_i32", "g_T", "g_RefT", "method", "drop", "h"}),
     g : UpTo(1, {"drop", "method"}), h : UpTo(1, {"main", "drop"})]

MonoRoots ==
    M!discover_mono_roots(<<[kind |-> "fn", name |-> "main", id |-> 7, lo |-> 0, hi |-> 9],
                            [kind |-> "fn", name |-> "f", id |-> 2, lo |-> 10, hi |-> 19]>>, {}, ("main" :> 1))

Collected == M!collect(CrateOf(job), MonoRoots.items, 24)
\* What is compiled, after the checks and the merging of instances.
Merged(st) == M!deduplicate(CrateOf(job), st.arena, st.items)
Refused(st) == M!check_unsized_locals(st.arena, st.items) # {}
Warned(st) == M!check_unused_generic_params(st.arena, st.items) # {}

\* The type a handle stands for, with T replaced.
RECURSIVE TypeOf(_, _, _)
TypeOf(a, t, env) ==
    LET kind == M!ty_kind(a, t)
    IN CASE kind.k = "param" -> IF env = <<>> THEN kind ELSE env[kind.index + 1]
         [] kind.k = "ref" -> [k |-> "ref", elem |-> TypeOf(a, kind.elem, env)]
         [] kind.k = "fndef" ->
                LET args == M!substitution_args(a, kind.substs)
                IN [k |-> "fndef", id |-> kind.id, args |-> [i \in DOMAIN args |-> TypeOf(a, args[i].ty, env)]]
         [] OTHER -> kind

\* What an instance refers to when it runs.
CalledBy(p, def, env, block) ==
    LET term == block.term
        callee == TypeOf(p.arena, term.func.ty, env)
        self == TypeOf(p.arena, p.fns[def].locals[2], env)
    IN CASE term.k = "Drop" -> {<<0, <<self>>>>}
         [] term.k = "Call" /\ term.func.c.k = "Fn" -> {<<callee.id, callee.args>>}
         [] term.k = "Call" /\ term.func.c.k = "VirtualMethod" -> IF self.k = "adt" THEN {<<5, <<>>>>} ELSE {}
         [] OTHER -> {}
Instance(p, x) == UNION {CalledBy(p, x[1], x[2], p.fns[x[1]].blocks[b]) : b \in DOMAIN p.fns[x[1]].blocks}
RECURSIVE Reached(_, _)
Reached(p, S) ==
    LET T == S \cup UNION {Instance(p, x) : x \in {y \in S : y[1] # 0}}
    IN IF T = S THEN S ELSE Reached(p, T)

ItemType(a, item) ==
    CASE item.k = "Fn" ->
             LET args == M!substitution_args(a, item.substs)
             IN <<item.def, [i \in DOMAIN args |-> TypeOf(a, args[i].ty, <<>>)]>>
      [] item.k = "DropGlue" -> <<0, <<TypeOf(a, item.ty, <<>>)>>>>
      [] OTHER -> <<-1, <<>>>>

\* No generic body names an instance at its own parameter.
CallsAreConcrete(p) ==
    \A d \in 2..3 : \A b \in DOMAIN p.fns[d].blocks :
        LET term == p.fns[d].blocks[b].term
        IN term.k = "Call" /\ term.func.c.k = "Fn" => TypeOf(p.arena, term.func.ty, <<>>) = TypeOf(p.arena, term.func.ty, <<[k |-> "i32"]>>)

\* Glue drops its value as local 0, which has the type unit.
Types(st) == {ItemType(st.arena, st.items[i].item) : i \in DOMAIN st.items}
OwnItems(st) == Types(st) \ {<<0, <<[k |-> "unit"]>>>>}

GroupJobs == {[kind |-> "cgus", modules |-> m, max |-> n] : m \in UpTo(5, 1..4), n \in 0..3}
UnitsSplit == M!partition(job.modules, job.max)

(* The collector, from the roots, collects exactly the functions and drop   *)
(* glue that running the program refers to, at their types, when generic    *)
(* bodies call only concrete instances, and each once, but for functions    *)
(* without type arguments, whose empty substitution has two handles. Every  *)
(* item is then in one codegen unit, and there are no more than asked for.  *)
ItemsAreEmittedOnce ==
    [][/\ Returns("mono") /\ CallsAreConcrete(CrateOf(job)) =>
              LET st == Collected
              IN /\ ~st.dead /\ st.errors = 0 /\ st.queue = <<>>
                 /\ OwnItems(st) = Reached(CrateOf(job), {<<1, <<>>>>})
                 /\ \A i, j \in DOMAIN st.items :
                        i # j /\ ItemType(st.arena, st.items[i].item) = ItemType(st.arena, st.items[j].item)
                            => st.items[i].item.k = "Fn" /\ st.items[i].item.substs.len = 0
       /\ Returns("cgus") =>
              LET groups == UnitsSplit
              IN /\ Len(groups) <= IF job.max = 0 THEN 1 ELSE job.max
                 /\ \A i \in DOMAIN job.modules : Cardinality({g \in DOMAIN groups : i \in groups[g]}) = 1
                 /\ \A g \in DOMAIN groups : groups[g] # {} /\ groups[g] \subseteq DOMAIN job.modules]_vars

(* What does not hold: a handle means the same type in every view of the    *)
(* compilation (type_arena.rs:13-17); substitute_body makes its types in an *)
(* arena of its own.                                                        *)
HandlesKeepTheirType ==
    [][Returns("mono") => LET st == Collected IN ~st.dead /\ OwnItems(st) = Reached(CrateOf(job), {<<1, <<>>>>})]_vars

(* What does not hold: an instance is collected once (mono.rs: seen and     *)
(* cache are keyed by the item).                                            *)
InstancesAreDistinct ==
    [][Returns("mono") /\ CallsAreConcrete(CrateOf(job)) => LET st == Collected IN Cardinality(Types(st)) = Len(st.items)]_vars

(* What does not hold: deduplication merges only instances whose bodies are *)
(* the same (polymorphize.rs:1-2, 7).                                       *)
MergedBodiesAgree ==
    [][Returns("mono") =>
           LET st == Collected
               kept == Merged(st)[2]
           IN ~Refused(st) /\ ~Warned(st) => \A i \in DOMAIN st.items : \E j \in DOMAIN kept : kept[j].body = st.items[i].body]_vars

(* What does not hold: every function the program mentions is emitted.      *)
MentionedFunctionsAreEmitted ==
    [][Returns("mono") =>
           LET st == Collected
           IN \A i \in DOMAIN st.items : \A b \in DOMAIN st.items[i].body.blocks :
                  LET term == st.items[i].body.blocks[b].term
                  IN term.k = "Call" => \A n \in DOMAIN term.args :
                         M!IsFn(term.args[n]) => <<term.args[n].c.def, <<>>>> \in Types(st)]_vars

\* Drop glue, run on a value of variant v; d.local is the local the index is in.
GlueArena == [types |-> M!NewArena.types \o
    <<[k |-> "string"], [k |-> "adt", id |-> 50, substs |-> OfNone],
      [k |-> "array", elem |-> 8, len |-> [k |-> "uint", n |-> 2]], [k |-> "slice", elem |-> 8]>>, subs |-> <<>>]
GlueFields == UpTo(3, {M!I32, 8, M!BOOL})
GlueJobs ==
    [kind : {"glue"}, ty : {9}, adt : {[kind |-> "enum", variants |-> <<f, g>>] : f, g \in GlueFields}
                                        \cup {[kind |-> "struct", variants |-> <<f>>] : f \in GlueFields}]
      \cup [kind : {"glue"}, ty : 8..11, adt : {[kind |-> "struct", variants |-> <<>>]}]
Adt == job.adt @@ ("fields" :> <<>>)
GlueMade == M!generate_drop_glue([adts |-> (50 :> Adt), dropImpls |-> {}], GlueArena, job.ty)

\* The places the glue drops: env has the values of the locals that are set.
RECURSIVE DropsFrom(_, _, _, _, _)
DropsFrom(body, bb, env, v, fuel) ==
    LET block == body.blocks[bb + 1]
        Exec(e, s) == CASE s.k = "Discriminant" -> (s.dest :> v) @@ e
                        [] s.k = "Len" -> (s.dest :> 2) @@ e
                        [] s.k = "Set" -> (s.dest :> s.n) @@ e
                        [] s.k = "Add" -> (s.dest :> e[s.dest] + s.n) @@ e
        after == M!FoldLeft(Exec, env, block.stmts)
        Found(elem) == IF elem.k # "Index" THEN elem
                       ELSE [elem EXCEPT !.i = IF @ \in DOMAIN after THEN after[@] ELSE -1]
        hit == SelectSeq(block.term.targets, LAMBDA x : x[1] = after[block.term.discr.local])
    IN CASE fuel = 0 \/ block.term.k \in {"Return", "Unreachable"} -> <<>>
         [] block.term.k = "Goto" -> DropsFrom(body, block.term.target, after, v, fuel - 1)
         [] block.term.k = "Drop" ->
                <<[i \in DOMAIN block.term.proj |-> Found(block.term.proj[i])]>> \o DropsFrom(body, block.term.target, after, v, fuel - 1)
         [] block.term.k = "SwitchInt" ->
                DropsFrom(body, IF hit # <<>> THEN hit[1][2] ELSE block.term.otherwise, after, v, fuel - 1)
Drops(body, v) == DropsFrom(body, 0, <<>>, v, 12)

(* What does not hold: the glue of an array or a slice drops every element  *)
(* (mono_cache.rs: "a per-element drop loop").                              *)
GlueDropsTheElements ==
    [][Returns("glue") /\ job.ty \in {10, 11} =>
           Drops(GlueMade, 0) = <<<<M!Elem("Index", 0)>>, <<M!Elem("Index", 1)>>>>]_vars
----------------------------------------------------------------------------
\* The drivers, on crates of up to two functions with at most two bad phases.
D == INSTANCE Pipeline

PhaseNames == {"read", "parse", "expand", "def_map", "hir", "typeck", "lower1", "borrowck1", "closure1", "lower2",
               "borrowck2", "collect", "post_mono", "backend"}
CrateJobs ==
    [kind : {"crate"}, bad : {{}} \cup {{x, y} : x, y \in PhaseNames}, n : 0..2, bounds : BOOLEAN,
     registry : {"none", "empty", "some"}, roots : {{}, {1}}]
Severity(name) == IF name \in job.bad THEN "error" ELSE "ok"
CrateInput ==
    [read |-> "read" \notin job.bad, backend |-> "backend" \notin job.bad, parse |-> Severity("parse"),
     expand |-> Severity("expand"), def_map |-> Severity("def_map"), hir |-> Severity("hir"), typeck |-> Severity("typeck"),
     collect |-> Severity("collect"), post_mono |-> Severity("post_mono"), bounds |-> job.bounds, registry |-> job.registry,
     roots |-> job.roots, reached |-> job.roots \cap 1..job.n, main |-> 1,
     bodies |-> SubSeq(<<[lower |-> Severity("lower1"), borrowck |-> Severity("borrowck1"), closures |-> <<Severity("closure1")>>],
                         [lower |-> Severity("lower2"), borrowck |-> Severity("borrowck2"), closures |-> <<>>]>>, 1, job.n)]
Driven ==
    [compile |-> D!compile_file(CrateInput), to_mir |-> D!compile_file_to_mir(CrateInput),
     mir |-> D!emit_mir(CrateInput), llvm |-> D!emit_llvm_ir(CrateInput), asm |-> D!emit_asm(CrateInput)]

Reports(o) == \E i \in DOMAIN o.ran : o.ran[i].severity = "error"
BorrowChecked(o, b) == \E i \in DOMAIN o.ran : o.ran[i].name = <<"borrowck", b[1], b[2]>> /\ o.ran[i].severity # "error"

(* compile_file succeeds exactly when the file and the output can be used   *)
(* and no phase has reported an error, HIR lowering included, whose errors  *)
(* are not looked at behind it; what it hands to the backend was            *)
(* borrow-checked, closures too. No driver writes what it reports on.       *)
OnlyCheckedCodeIsEmitted ==
    [][Returns("crate") =>
           LET out == Driven
           IN /\ \A d \in DOMAIN out : out[d].ok => ~Reports(out[d])
              /\ \A b \in out.compile.bodies : BorrowChecked(out.compile, b)
              /\ out.compile.ok <=> /\ CrateInput.read
                                    /\ ~Reports(out.compile)
                                    /\ CrateInput.backend \/ job.n = 0]_vars

(* What does not hold: what glyip test and --emit hand on is borrow-checked. *)
EveryDriverBorrowChecks ==
    [][Returns("crate") => LET out == Driven IN \A d \in DOMAIN out : \A b \in out[d].bodies : BorrowChecked(out[d], b)]_vars

(* What does not hold: a crate that compiles can be emitted as MIR, IR or   *)
(* assembly and run by the interpreter; the solver has no impls there.      *)
DriversAgree ==
    [][Returns("crate") => LET out == Driven IN out.compile.ok /\ job.n > 0 => \A d \in DOMAIN out : out[d].ok]_vars
----------------------------------------------------------------------------
\* Async functions of a and b. The futures that they make are pending up to
\* twice each, in the order in which they are made.
As == INSTANCE Async

Name(x) == As!Path(x)
CallAsync(f, args) == As!Expr("Call", "async", <<Name(f)>> \o args)
CallPlain(f, args) == As!Expr("Call", "", <<Name(f)>> \o args)
AwaitOf(x) == As!Expr("Await", "", <<x>>)
LetIn(x, v) == As!Expr("Let", x, <<v>>)
Sum(x, y) == As!Expr("Binary", "+", <<x, y>>)
BodyBlock(stmts, tail) == [As!Expr("Block", "", stmts \o tail) EXCEPT !.tail = tail # <<>>]
Held == {"a", "b", "x"}
Lets(x, f, names) == {LetIn(x, AwaitOf(CallAsync(f, <<Name(n)>>))) : n \in names}
AsyncTails(f, names) ==
    {<<Sum(Name(m), Name(n))>> : m, n \in names} \cup {<<AwaitOf(CallAsync(f, <<Name(n)>>))>> : n \in names}
      \cup {<<Sum(Name(n), As!Expr("Lit", "1", <<>>))>> : n \in names}
Straight ==
    {BodyBlock(<<s>>, t) : s \in Lets("x", "f", {"a", "b"}), t \in AsyncTails("g", {"a", "x"})}
      \cup {BodyBlock(<<s, t>>, u) : s \in Lets("x", "f", {"a", "b"}), t \in Lets("y", "g", Held), u \in AsyncTails("h", {"a", "x", "y"})}
      \cup {BodyBlock(<<s, t, u>>, <<Sum(Name(m), Name(n))>>) : s \in Lets("x", "f", {"b"}), t \in Lets("y", "g", {"a", "x"}), u \in Lets("z", "f", {"x", "y"}), m, n \in {"b", "x", "y", "z"}}
      \cup {BodyBlock(<<>>, t) : t \in AsyncTails("f", {"a", "b"})}
Between ==
    {BodyBlock(<<LetIn("x", AwaitOf(CallAsync("f", <<Name("a")>>))), s, LetIn("y", AwaitOf(CallAsync("g", <<Name("x")>>)))>>, <<t>>) :
        s \in {LetIn("z", Sum(Name("x"), Name("b"))), CallPlain("p", <<Name("x")>>)}, t \in {Name("y"), CallPlain("p", <<Name("y")>>)}}
Branches ==
    {BodyBlock(<<>>, <<As!Expr("If", "", <<Name("a"), BodyBlock(<<>>, <<Name("a")>>), BodyBlock(<<>>, <<AwaitOf(CallAsync("f", <<Name("b")>>))>>)>>)>>),
     BodyBlock(<<LetIn("x", AwaitOf(CallAsync("f", <<Name("a")>>)))>>, <<As!Expr("Return", "", <<Name("x")>>)>>),
     BodyBlock(<<AwaitOf(CallAsync("f", <<Name("a")>>))>>, <<>>)}
LoopOf(body) == BodyBlock(<<As!Expr("For", "i", <<Name("a"), body>>)>>, <<Name("b")>>)
LoopAwaits == {LoopOf(AwaitOf(CallAsync("f", <<Name("a")>>))), LoopOf(BodyBlock(<<LetIn("x", AwaitOf(CallAsync("f", <<Name("a")>>)))>>, <<>>))}

AsyncJobs ==
    [kind : {"async"}, body : Straight \cup Between \cup LoopAwaits, pendings : [1..3 -> 0..2], taken : {TRUE}]
      \cup [kind : {"async"}, body : Branches, pendings : [1..3 -> 0..2], taken : BOOLEAN]
AsyncDesugared == As!desugar_async([exprs |-> As!lower_expr(job.body, <<>>), params |-> <<"a", "b">>])

AsyncArgs == <<<<"arg", "a">>, <<"arg", "b">>>>
AsWritten == As!Written(job.body, <<"a", "b">>, AsyncArgs, job.pendings, job.taken)
AsPolled(future) == As!Polled(future, <<"a", "b">>, AsyncArgs, job.pendings, job.taken)
KeepsMeaning == AsPolled(AsyncDesugared) = AsWritten

(* An async function whose statements bind the results of calls of async    *)
(* functions means, as the future that it is desugared into, what it means  *)
(* as it is written: the same futures are made and polled in the same order *)
(* however often each is pending, every result arrives where it is used,    *)
(* and Pending is returned exactly when a future is pending. A function     *)
(* that awaits once does so if its future is ready at once.                 *)
AsyncMeansTheBody ==
    [][Returns("async") /\ job.body \in Straight /\ (AsyncDesugared.kind = "poll" => job.pendings[1] = 0) => KeepsMeaning]_vars

(* What does not hold: lower_async.rs:85-87, "the single most important     *)
(* correctness guard is to NEVER silently fall through": an await in the    *)
(* block of a loop is not seen, because that block is taken for the body.   *)
LoopAwaitsAreRejected == [][Returns("async") /\ job.body \in LoopAwaits => AsyncDesugared.kind = "error"]_vars

(* What does not hold: lower_async.rs:1131-1134, other statements between   *)
(* the awaits are "grouped into pre-segments"; they are skipped if the     *)
(* first future is ready at once, and what they bind is lost on Pending.    *)
SegmentsKeepTheirMeaning == [][Returns("async") /\ job.body \in Between => KeepsMeaning]_vars

(* What does not hold: a function that awaits once, in a branch, with an    *)
(* explicit return or without a value, means what is written.               *)
SingleAwaitsKeepTheirMeaning ==
    [][Returns("async") /\ job.body \in Branches /\ job.pendings[1] = 0 => KeepsMeaning]_vars

(* What does not hold: lower_async.rs:19-20, a pending future is an error.  *)
PendingIsAnError ==
    [][Returns("async") => LET future == AsyncDesugared IN future.kind = "poll" => AsPolled(future).flow # "hang"]_vars
----------------------------------------------------------------------------
Init ==
    /\ returned = FALSE
    /\ \/ job \in ConstJobs \cup ArithJobs \cup EnumJobs \cup ElementJobs
       \/ job \in BodyJobs \cup CallJobs \cup PlaceJobs \cup VmJobs
       \/ job \in MonoJobs \cup GroupJobs \cup GlueJobs \cup CrateJobs \cup AsyncJobs
       \/ job \in AutoJobs \cup UnifyJobs \cup SolveJobs \cup HrtbJobs
       \/ LexJob \/ ParseJob \/ ExprJob \/ CopyJob \/ MunchJob \/ UsesJob
Next == Return
Spec == Init /\ [][Next]_vars
=============================================================================
