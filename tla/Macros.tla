------------------------------- MODULE Macros --------------------------------
(****************************************************************************)
(* Declarative macros: patterns, matching, substitution, and the expansion  *)
(* of the calls in a body. A token tree is a token or a group; a group has  *)
(* a closing delimiter and an inner sequence. Every tree that an arm or a   *)
(* call holds starts and ends with its delimiters as plain tokens.          *)
(****************************************************************************)
EXTENDS Integers, Sequences, SequencesExt

CONSTANT RecursionLimit
Ps == INSTANCE Parser WITH Keywords <- <<>>, NumberSuffixes <- {}    \* nothing is lexed here

Tok(kind, text) == [kind |-> kind, text |-> text, inner |-> <<>>, close |-> ""]
Group(open, inner, close) == [kind |-> open, text |-> "", inner |-> inner, close |-> close]
IsGroup(tree) == tree.close # ""
IsTok(trees, i, kinds) == i <= Len(trees) /\ ~IsGroup(trees[i]) /\ trees[i].kind \in kinds
IsParens(trees, i) == i <= Len(trees) /\ IsGroup(trees[i]) /\ trees[i].kind = "LParen"
RepetitionOps == {"Star", "Plus", "Question"}

\* A token tree written down and read again. Words with nothing between them
\* become one word; a space is written, if at all, between the tokens that
\* want one.
Words == {"Ident", "IntLit", "KwPub", "KwMut", "KwAs", "KwLet", "KwFn"}
Reads(a, b) ==
    CASE a.kind \in Words /\ b.kind \in Words -> IF a.kind = "IntLit" THEN "Error" ELSE "Ident"
      [] a.kind = "And" /\ b.kind = "And" -> "AndAnd"
      [] a.kind = "Gt" /\ b.kind = "Gt" -> "Shr"
      [] OTHER -> "two"
WantsSpace(tree) == ~IsGroup(tree) /\ tree.kind \in {"Ident", "KwPub", "IntLit", "FloatLit", "StringLit", "CharLit", "BoolLit", "Lifetime"}
Fuses(a, b, spaced) ==
    ~IsGroup(a) /\ ~IsGroup(b) /\ Reads(a, b) # "two" /\ ~(spaced /\ WantsSpace(a) /\ WantsSpace(b))
RECURSIVE Relex(_, _)
Relex(trees, spaced) ==
    FoldLeft(LAMBDA done, tree :
                IF done # <<>> /\ Fuses(Last(done), tree, spaced) THEN Append(Front(done), Tok(Reads(Last(done), tree), "fused"))
                ELSE Append(done, IF IsGroup(tree) THEN [tree EXCEPT !.inner = Relex(@, spaced)] ELSE tree),
             <<>>, trees)
RECURSIVE Flat(_)
Flat(trees) ==
    IF trees = <<>> THEN <<>>
    ELSE LET t == Head(trees)
         IN (IF IsGroup(t) THEN <<t.kind>> \o Flat(t.inner) \o <<t.close>> ELSE <<t.kind>>) \o Flat(Tail(trees))
to_source(trees) == Relex(trees, TRUE)
----------------------------------------------------------------------------
\* Patterns.
Piece(form, tok, name, spec, inner, sep, op) ==
    [form |-> form, tok |-> tok, name |-> name, spec |-> spec, inner |-> inner, sep |-> sep, op |-> op]
TokenPiece(tok) == Piece("token", tok, "", "", <<>>, <<>>, "")
Metavar(name, spec) == Piece("var", Tok("", ""), name, spec, <<>>, <<>>, "")
Repetition(inner, sep, op) == Piece("rep", Tok("", ""), "", "", inner, sep, op)
Flexible == {"expr", "ty", "path", "pat", "stmt", "item", "block", "meta"}
parse_fragment_spec(trees, i) ==
    IsTok(trees, i, {"Ident", "Lifetime"}) /\ trees[i].text \in Flexible \cup {"ident", "lifetime", "literal", "vis", "tt"}
Refused == [ok |-> FALSE, pieces |-> <<>>]
\* What follows a group after $: a separator unless it is an operator, and the
\* place of the operator.
Separator(trees, i) == IF i <= Len(trees) /\ ~IsTok(trees, i, RepetitionOps) THEN <<trees[i]>> ELSE <<>>
RECURSIVE PiecesFrom(_, _, _)
PiecesFrom(trees, i, pieces) ==
    LET tree == trees[i]
        inner == PiecesFrom(trees[i + 1].inner, 1, <<>>)
        sep == Separator(trees, i + 2)
        op == i + 2 + Len(sep)
    IN CASE i > Len(trees) -> [ok |-> TRUE, pieces |-> pieces]
         [] ~IsTok(trees, i, {"Dollar"}) -> IF IsGroup(tree) THEN Refused ELSE PiecesFrom(trees, i + 1, Append(pieces, TokenPiece(tree)))
         [] i = Len(trees) -> Refused
         [] IsTok(trees, i + 1, {"Ident"}) ->
              IF IsTok(trees, i + 2, {"Colon"}) /\ parse_fragment_spec(trees, i + 3)
              THEN PiecesFrom(trees, i + 4, Append(pieces, Metavar(trees[i + 1].text, trees[i + 3].text)))
              ELSE Refused
         [] IsParens(trees, i + 1) ->
              IF inner.ok /\ IsTok(trees, op, RepetitionOps)
              THEN PiecesFrom(trees, op + 1, Append(pieces, Repetition(inner.pieces, sep, trees[op].kind)))
              ELSE Refused
         [] OTHER -> PiecesFrom(trees, i + 1, Append(pieces, TokenPiece(tree)))
parse_pattern_pieces(trees) == PiecesFrom(trees, 1, <<>>)
parse_pattern(trees) == parse_pattern_pieces(IF Len(trees) = 1 /\ IsGroup(trees[1]) THEN trees[1].inner ELSE trees)
----------------------------------------------------------------------------
\* Matching: the position after what matched, and the trees under each name.
matches_fragment_spec(tree, spec) ==
    CASE spec = "tt" -> TRUE
      [] IsGroup(tree) -> FALSE
      [] spec = "ident" -> tree.kind = "Ident"
      [] spec = "literal" -> tree.kind \in {"IntLit", "FloatLit", "StringLit", "BoolLit", "CharLit"}
      [] spec = "lifetime" -> tree.kind = "Lifetime"
      [] spec = "vis" -> tree.kind = "KwPub"
\* The length of the longest prefix before a comma or semicolon that is such a
\* fragment; 0 when there is none.
consume_fragment(spec, input, i) ==
    LET Ends == {k \in i .. Len(input) : IsTok(input, k, {"Comma", "Semicolon"})}
        end == IF Ends = {} THEN Len(input) + 1 ELSE CHOOSE k \in Ends : \A m \in Ends : k <= m
        Is(take) == LET kinds == Flat(to_source(SubSeq(input, i, i + take - 1)))
                    IN ~Contains(kinds, "Error") /\ Ps!try_parse_fragment(spec, kinds)
        Takes == {take \in 1 .. end - i : Is(take)}
    IN IF Takes = {} THEN 0 ELSE CHOOSE t \in Takes : \A u \in Takes : u <= t

NoBindings == [x \in {} |-> <<>>]
Extend(b, name, trees) == [x \in DOMAIN b \cup {name} |-> (IF x \in DOMAIN b THEN b[x] ELSE <<>>) \o (IF x = name THEN trees ELSE <<>>)]
ExtendAll(b, more) ==
    [x \in DOMAIN b \cup DOMAIN more |-> (IF x \in DOMAIN b THEN b[x] ELSE <<>>) \o (IF x \in DOMAIN more THEN more[x] ELSE <<>>)]
Matched(at, b) == [ok |-> TRUE, at |-> at, b |-> b, stuck |-> FALSE]
Failed == [ok |-> FALSE, at |-> 0, b |-> NoBindings, stuck |-> FALSE]
Bound(input, i, n, b, name) == Matched(i + n, Extend(b, name, SubSeq(input, i, i + n - 1)))
MatchMetavar(piece, input, i, b) ==
    LET n == consume_fragment(piece.spec, input, i)
    IN CASE piece.spec \in Flexible -> IF n > 0 THEN Bound(input, i, n, b, piece.name) ELSE Failed
         [] i > Len(input) -> IF piece.spec = "vis" THEN Matched(i, b) ELSE Failed
         [] OTHER -> IF matches_fragment_spec(input[i], piece.spec) THEN Bound(input, i, 1, b, piece.name) ELSE Failed

RECURSIVE match_pieces(_, _, _, _), Repeat(_, _, _, _, _)
\* A separator is consumed before it is known whether a repetition follows;
\* an empty repetition without one never ends.
Repeat(piece, input, i, b, count) ==
    LET m == match_pieces(piece.inner, input, i, NoBindings)
        more == ExtendAll(b, m.b)
    IN CASE ~m.ok \/ (m.at = i /\ piece.inner # <<>>) -> [at |-> i, b |-> b, count |-> count, stuck |-> m.stuck]
         [] piece.sep = <<>> -> IF m.at = i THEN [at |-> i, b |-> b, count |-> count, stuck |-> TRUE] ELSE Repeat(piece, input, m.at, more, count + 1)
         [] m.at <= Len(input) /\ input[m.at] = piece.sep[1] -> Repeat(piece, input, m.at + 1, more, count + 1)
         [] OTHER -> [at |-> m.at, b |-> more, count |-> count + 1, stuck |-> FALSE]
MatchRepetition(piece, input, i, b) ==
    LET reps == Repeat(piece, input, i, b, 0)
    IN CASE reps.stuck -> [Failed EXCEPT !.stuck = TRUE]
         [] (piece.op = "Plus" /\ reps.count = 0) \/ (piece.op = "Question" /\ reps.count > 1) -> Failed
         [] OTHER -> Matched(reps.at, reps.b)
match_pieces(pieces, input, i, b) ==
    FoldLeft(LAMBDA m, piece :
                CASE ~m.ok -> m
                  [] piece.form = "token" ->
                       IF m.at <= Len(input) /\ input[m.at] = piece.tok THEN [m EXCEPT !.at = @ + 1] ELSE Failed
                  [] piece.form = "var" -> MatchMetavar(piece, input, m.at, m.b)
                  [] piece.form = "rep" -> MatchRepetition(piece, input, m.at, m.b),
             Matched(i, b), pieces)
\* FullMatch; a partial match is none.
match_pattern(pieces, input) ==
    LET m == match_pieces(pieces, input, 1, NoBindings) IN [m EXCEPT !.ok = @ /\ m.at = Len(input) + 1]
----------------------------------------------------------------------------
\* Substitution. The repetitions are counted in trees, and each takes one.
find_all_metavars(trees) == {trees[i + 1].text : i \in {k \in 1 .. Len(trees) - 1 : IsTok(trees, k, {"Dollar"}) /\ IsTok(trees, k + 1, {"Ident"})}}
extract_first_bindings(b, names, index) == [x \in {y \in DOMAIN b \cap names : index <= Len(b[y])} |-> <<b[x][1]>>]
extract_repetition_bindings(b, names, index) ==
    [x \in {y \in DOMAIN b \cap names : index <= Len(b[y])} |-> <<b[x][index]>>]
Repetitions(b, names) ==
    LET Counts == {Len(b[x]) : x \in DOMAIN b \cap names} IN IF Counts = {} THEN 0 ELSE CHOOSE n \in Counts : \A m \in Counts : m <= n
Out(trees) == [ok |-> TRUE, trees |-> trees]
Unbound == [ok |-> FALSE, trees |-> <<>>]
RECURSIVE SubstFrom(_, _, _, _)
SubstRepetition(inner, sep, op, b) ==
    LET names == find_all_metavars(inner)
        n == IF op = "Question" /\ Repetitions(b, names) > 0 THEN 1 ELSE Repetitions(b, names)
    IN FoldLeft(LAMBDA done, index :
                   LET one == SubstFrom(inner, 1, extract_repetition_bindings(b, names, index), <<>>)
                   IN IF done.ok /\ one.ok THEN Out(done.trees \o (IF index > 1 THEN sep ELSE <<>>) \o one.trees) ELSE Unbound,
                Out(<<>>), [index \in 1 .. n |-> index])
SubstFrom(template, i, b, done) ==
    LET tree == template[i]
        next == template[i + 1]
        sep == Separator(template, i + 2)
        op == i + 2 + Len(sep)
        rep == SubstRepetition(next.inner, sep, template[op].kind, b)
        inner == SubstFrom(tree.inner, 1, b, <<>>)
    IN CASE i > Len(template) -> Out(done)
         [] IsGroup(tree) -> IF inner.ok THEN SubstFrom(template, i + 1, b, Append(done, [tree EXCEPT !.inner = inner.trees])) ELSE Unbound
         [] ~IsTok(template, i, {"Dollar"}) -> SubstFrom(template, i + 1, b, Append(done, tree))
         [] i = Len(template) -> Out(Append(done, tree))
         [] IsTok(template, i + 1, {"Ident"}) -> IF next.text \in DOMAIN b THEN SubstFrom(template, i + 2, b, done \o b[next.text]) ELSE Unbound
         [] IsParens(template, i + 1) ->
              IF ~IsTok(template, op, RepetitionOps) THEN Out(done)
              ELSE IF rep.ok THEN SubstFrom(template, op + 1, b, done \o rep.trees) ELSE Unbound
         [] OTHER -> SubstFrom(template, i + 2, b, done \o <<tree, next>>)
substitute(template, b) == SubstFrom(template, 1, b, <<>>)
----------------------------------------------------------------------------
\* Definitions and calls. An arm whose pattern is refused is left out.
parse_macro_def(arms) ==
    SelectSeq([a \in DOMAIN arms |-> [pattern |-> parse_pattern(arms[a].pattern), expansion |-> arms[a].expansion]], LAMBDA arm : arm.pattern.ok)
Expanded(trees, diagnostics, some) == [trees |-> trees, diagnostics |-> diagnostics, some |-> some]
expand_macro_call(arms, args) ==
    LET full == SelectInSeq(arms, LAMBDA arm : match_pattern(arm.pattern.pieces, args).ok)
        result == substitute(arms[full].expansion, match_pattern(arms[full].pattern.pieces, args).b)
    IN IF full # 0 /\ result.ok THEN Expanded(result.trees, 0, TRUE) ELSE Expanded(<<>>, 1, FALSE)
try_expand_macro_call(macros, name, args, depth) ==
    CASE depth > RecursionLimit -> Expanded(<<>>, 1, FALSE)
      [] name \notin DOMAIN macros -> Expanded(<<>>, 0, FALSE)
      [] OTHER -> expand_macro_call(macros[name], args)
\* A call's arguments with their delimiters as tokens.
flatten_token_tree(group) == <<Tok(group.kind, group.kind)>> \o group.inner \o <<Tok(group.close, group.close)>>
IsCall(trees, i) == IsTok(trees, i, {"Ident"}) /\ IsTok(trees, i + 1, {"Bang"}) /\ i + 2 <= Len(trees) /\ IsGroup(trees[i + 2])
\* The text of an expansion is parsed again, with no space between its tokens.
Reparsed(trees) == Relex(trees, FALSE)
RECURSIVE expand_node_recursive(_, _, _)
expand_node_recursive(macros, trees, depth) ==
    LET tree == Head(trees)
        call == try_expand_macro_call(macros, tree.text, flatten_token_tree(trees[3]), depth)
        body == expand_node_recursive(macros, Reparsed(call.trees), depth + 1)
        inner == expand_node_recursive(macros, tree.inner, depth)
        Then(n, done, diagnostics) ==
            LET rest == expand_node_recursive(macros, SubSeq(trees, n + 1, Len(trees)), depth)
            IN [trees |-> done \o rest.trees, diagnostics |-> diagnostics + rest.diagnostics]
    IN CASE trees = <<>> -> [trees |-> <<>>, diagnostics |-> 0]
         [] IsCall(trees, 1) -> IF call.some THEN Then(3, body.trees, body.diagnostics) ELSE Then(3, SubSeq(trees, 1, 3), call.diagnostics)
         [] IsGroup(tree) -> Then(1, <<[tree EXCEPT !.inner = inner.trees]>>, inner.diagnostics)
         [] OTHER -> Then(1, <<tree>>, 0)
=============================================================================
