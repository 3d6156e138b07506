------------------------------- MODULE Parser --------------------------------
(****************************************************************************)
(* The lexer on a sequence of characters. A token is its kind and the       *)
(* positions from its first character to after its last; trivia makes none. *)
(* Keywords maps the spellings of keywords to their kinds.                  *)
(****************************************************************************)
EXTENDS Integers, Sequences, SequencesExt

CONSTANT Keywords, NumberSuffixes

Digit == {"0", "1"}
HexDigit == Digit \cup {"a", "b", "e"}
Alpha == {"a", "b", "e", "i", "x"}
Alnum == Alpha \cup Digit
Word == Alnum \cup {"_"}
Space == {" ", "\n"}

\* The character at a position; nothing after the end.
peek(src, p) == IF p <= Len(src) THEN src[p] ELSE "end"
peek_next(src, p) == peek(src, p + 1)
\* The first position from p whose character is not in a set.
After(src, p, set) ==
    LET RECURSIVE go(_)
        go(q) == IF peek(src, q) \in set THEN go(q + 1) ELSE q
    IN go(p)

\* The first position from p of a character, or after the end.
Find(src, p, ch) ==
    LET RECURSIVE go(_)
        go(q) == IF q > Len(src) \/ peek(src, q) = ch THEN q ELSE go(q + 1)
    IN go(p)

\* Trivia: spaces, line comments and nested block comments.
BlockComment(src, p) ==
    LET RECURSIVE go(_, _)
        go(q, depth) ==
            CASE depth = 0 \/ q > Len(src) -> q
              [] peek(src, q) = "/" /\ peek_next(src, q) = "*" -> go(q + 2, depth + 1)
              [] peek(src, q) = "*" /\ peek_next(src, q) = "/" -> go(q + 2, depth - 1)
              [] OTHER -> go(q + 1, depth)
    IN go(p + 2, 1)
lex_trivia(src, p) ==
    LET RECURSIVE go(_)
        go(q) == CASE peek(src, q) \in Space -> go(q + 1)
                   [] peek(src, q) = "/" /\ peek_next(src, q) = "/" -> go(Find(src, q + 2, "\n"))
                   [] peek(src, q) = "/" /\ peek_next(src, q) = "*" -> go(BlockComment(src, q))
                   [] OTHER -> q
    IN go(p)
----------------------------------------------------------------------------
Lexed(kind, end, errors) == [kind |-> kind, end |-> end, errors |-> errors]
lex_ident_or_keyword(src, p) == After(src, p, Word)
lookup_keyword(text) == IF text \in DOMAIN Keywords THEN Keywords[text] ELSE "Ident"

\* Numbers.
is_valid_number_suffix(suffix) == suffix \in NumberSuffixes
lex_number_suffix(src, kind, p) ==
    LET end == After(src, p, Word)
    IN Lexed(kind, end, IF end > p /\ ~is_valid_number_suffix(SubSeq(src, p, end - 1)) THEN 1 ELSE 0)
lex_number(src, p) ==
    LET whole == After(src, p, Digit \cup {"_"})
        is_float == peek(src, whole) = "." /\ peek_next(src, whole) \in Digit
        frac == IF is_float THEN After(src, whole + 1, Digit \cup {"_"}) ELSE whole
        kind == IF is_float THEN "FloatLit" ELSE "IntLit"
        sign == IF peek(src, frac + 1) \in {"+", "-"} THEN frac + 2 ELSE frac + 1
        exponent == After(src, sign, Digit \cup {"_"})
    IN CASE peek(src, p) = "0" /\ peek_next(src, p) = "x" -> lex_number_suffix(src, "IntLit", After(src, p + 2, HexDigit \cup {"_"}))
         [] peek(src, p) = "0" /\ peek_next(src, p) = "b" -> lex_number_suffix(src, "IntLit", After(src, p + 2, {"0", "1", "_"}))
         [] peek(src, frac) # "e" -> lex_number_suffix(src, kind, frac)
         [] exponent = sign -> Lexed(kind, frac, 1)
         [] OTHER -> lex_number_suffix(src, "FloatLit", exponent)

Quoted(src, p, quote) ==
    LET RECURSIVE go(_)
        go(q) == CASE q > Len(src) -> [end |-> Len(src) + 1, errors |-> 1]
                   [] src[q] = quote -> [end |-> q + 1, errors |-> 0]
                   [] src[q] = "\\" -> go(q + 2)
                   [] OTHER -> go(q + 1)
    IN go(p)
lex_string(src, p) == LET q == Quoted(src, p + 1, "\"") IN Lexed("StringLit", q.end, q.errors)
lex_char(src, p) == LET q == Quoted(src, p + 1, "'") IN Lexed("CharLit", q.end, q.errors)
lex_byte_lit(src, p) == LET q == Quoted(src, p + 2, peek_next(src, p)) IN Lexed("ByteLit", q.end, q.errors)
\* A quote and a word is a lifetime unless a quote follows the word.
LifetimeOrChar(src, p) ==
    LET ident_end == After(src, p + 2, Word)
    IN IF peek_next(src, p) \in Alpha \cup {"_"} /\ peek(src, ident_end) # "'" THEN Lexed("Lifetime", ident_end, 0) ELSE lex_char(src, p)
WordOrByte(src, p) ==
    IF peek(src, p) = "b" /\ peek_next(src, p) \in {"'", "\""} THEN lex_byte_lit(src, p)
    ELSE LET end == lex_ident_or_keyword(src, p) IN Lexed(lookup_keyword(SubSeq(src, p, end - 1)), end, 0)

\* Operators, by the characters after the first.
Op(kind, p, n) == Lexed(kind, p + n, 0)
OrEq(src, p, plain, with_eq) == IF peek_next(src, p) = "=" THEN Op(with_eq, p, 2) ELSE Op(plain, p, 1)
lex_dot(src, p) ==
    IF peek_next(src, p) # "." THEN Op("Dot", p, 1) ELSE IF peek(src, p + 2) = "=" THEN Op("DotDotEq", p, 3) ELSE Op("DotDot", p, 2)
lex_colon(src, p) == IF peek_next(src, p) = ":" THEN Op("ColonColon", p, 2) ELSE Op("Colon", p, 1)
lex_plus(src, p) == OrEq(src, p, "Plus", "PlusEq")
lex_minus(src, p) == IF peek_next(src, p) = ">" THEN Op("Arrow", p, 2) ELSE OrEq(src, p, "Minus", "MinusEq")
lex_star(src, p) == OrEq(src, p, "Star", "StarEq")
lex_slash(src, p) == OrEq(src, p, "Slash", "SlashEq")
lex_eq(src, p) == IF peek_next(src, p) = ">" THEN Op("FatArrow", p, 2) ELSE OrEq(src, p, "Eq", "EqEq")
lex_bang(src, p) == OrEq(src, p, "Bang", "BangEq")
Shift(src, p, plain, with_eq) == IF peek(src, p + 2) = "=" THEN Op(with_eq, p, 3) ELSE Op(plain, p, 2)
lex_lt(src, p) == IF peek_next(src, p) = "<" THEN Shift(src, p, "Shl", "ShlEq") ELSE OrEq(src, p, "Lt", "LtEq")
lex_gt(src, p) == IF peek_next(src, p) = ">" THEN Shift(src, p, "Shr", "ShrEq") ELSE OrEq(src, p, "Gt", "GtEq")
lex_and(src, p) == IF peek_next(src, p) = "&" THEN Op("AndAnd", p, 2) ELSE OrEq(src, p, "And", "AndEq")
lex_or(src, p) == IF peek_next(src, p) = "|" THEN Op("OrOr", p, 2) ELSE OrEq(src, p, "Or", "OrEq")
lex_caret(src, p) == OrEq(src, p, "Caret", "CaretEq")
Single ==
    [c \in {"(", ")", "{", "}", "[", "]", ",", ";", "%", "@", "#", "$", "~", "?"} |->
        CASE c = "(" -> "LParen" [] c = ")" -> "RParen" [] c = "{" -> "LBrace" [] c = "}" -> "RBrace" [] c = "[" -> "LBracket"
          [] c = "]" -> "RBracket" [] c = "," -> "Comma" [] c = ";" -> "Semicolon" [] c = "%" -> "Percent" [] c = "@" -> "At"
          [] c = "#" -> "Hash" [] c = "$" -> "Dollar" [] c = "~" -> "Tilde" [] c = "?" -> "Question"]
LexOperator(src, p) ==
    LET ch == peek(src, p)
    IN CASE ch \in DOMAIN Single -> Op(Single[ch], p, 1)
         [] ch = "." -> lex_dot(src, p) [] ch = ":" -> lex_colon(src, p) [] ch = "+" -> lex_plus(src, p) [] ch = "-" -> lex_minus(src, p)
         [] ch = "*" -> lex_star(src, p) [] ch = "/" -> lex_slash(src, p) [] ch = "=" -> lex_eq(src, p) [] ch = "!" -> lex_bang(src, p)
         [] ch = "<" -> lex_lt(src, p) [] ch = ">" -> lex_gt(src, p) [] ch = "&" -> lex_and(src, p) [] ch = "|" -> lex_or(src, p)
         [] ch = "^" -> lex_caret(src, p)
         [] OTHER -> Lexed("Error", p + 1, 1)
LexToken(src, p) ==
    LET ch == peek(src, p)
    IN CASE ch \in Alpha \cup {"_"} -> WordOrByte(src, p)
         [] ch \in Digit -> lex_number(src, p)
         [] ch = "\"" -> lex_string(src, p)
         [] ch = "'" -> LifetimeOrChar(src, p)
         [] OTHER -> LexOperator(src, p)
lex(src) ==
    LET RECURSIVE go(_, _, _)
        go(p, tokens, errors) ==
            LET q == lex_trivia(src, p)
                t == LexToken(src, q)
            IN IF q > Len(src) THEN [tokens |-> tokens, errors |-> errors]
               ELSE go(t.end, Append(tokens, [kind |-> t.kind, start |-> q, end |-> t.end]), errors + t.errors)
    IN go(1, <<>>, 0)

-----------------------------------------------------------------------------
(****************************************************************************)
(* The parser: one operator per parse_ function, from a parser to a parser. *)
(* A token is its SyntaxKind. The tree under construction is rowan's: a     *)
(* list of finished elements and a stack of open nodes, each with the place *)
(* of its first child. A loop whose body consumes nothing never ends: it is *)
(* cut off and marked stuck. A failed assertion of the builder is marked    *)
(* panic.                                                                   *)
(****************************************************************************)
NewParser(tokens) ==
    [tokens |-> tokens, pos |-> 1, kids |-> <<>>, parents |-> <<>>, diagnostics |-> 0, last_was_path |-> FALSE,
     suppress_struct_lit |-> FALSE, pending_gt_count |-> 0, break |-> FALSE, stuck |-> FALSE, panic |-> FALSE]

\* Tokens: the current one, the nth after it, and those no loop runs past.
is_some(p) == p.pos <= Len(p.tokens)
Peek(p, i) == IF p.pos + i <= Len(p.tokens) THEN p.tokens[p.pos + i] ELSE "Error"
current_kind(p) == IF p.pending_gt_count > 0 THEN "Gt" ELSE Peek(p, 0)
Is(p, kinds) == current_kind(p) \in kinds
error(p) == [p EXCEPT !.diagnostics = @ + 1]

\* rowan's GreenNodeBuilder.
Leaf(kind) == [kind |-> kind, leaf |-> TRUE, kids |-> <<>>]
token(p, kind) == [p EXCEPT !.kids = Append(@, Leaf(kind))]
checkpoint(p) == Len(p.kids)
start_node_at(p, at, kind) ==
    [p EXCEPT !.parents = Append(@, [kind |-> kind, first |-> at]),
              !.panic = @ \/ at > Len(p.kids) \/ (p.parents # <<>> /\ at < Last(p.parents).first)]
start_node(p, kind) == start_node_at(p, checkpoint(p), kind)
finish_node(p) ==
    IF p.parents = <<>> THEN [p EXCEPT !.panic = TRUE]
    ELSE LET top == Last(p.parents)
             node == [kind |-> top.kind, leaf |-> FALSE, kids |-> SubSeq(p.kids, top.first + 1, Len(p.kids))]
         IN [p EXCEPT !.parents = Front(@), !.kids = Append(SubSeq(@, 1, top.first), node)]

\* Consuming tokens.
bump(p) ==
    IF p.pending_gt_count > 0 THEN [token(p, "Gt") EXCEPT !.pending_gt_count = @ - 1]
    ELSE IF is_some(p) THEN [token(p, Peek(p, 0)) EXCEPT !.pos = @ + 1] ELSE p
expect(p, kind) == IF current_kind(p) = kind THEN bump(p) ELSE error(p)
bump_expected(p, kind) == bump(IF current_kind(p) = kind THEN p ELSE error(p))
skip_token(p) == IF is_some(p) THEN [p EXCEPT !.pos = @ + 1] ELSE p
ErrorAndBump(p) == IF is_some(error(p)) THEN bump(error(p)) ELSE error(p)

\* Control: a node around a body, an optional part, and the loops.
Node(p, kind, Body(_)) == finish_node(Body(start_node(p, kind)))
NodeAt(p, at, kind, Body(_)) == finish_node(Body(start_node_at(p, at, kind)))
When(p, kinds, Body(_)) == IF Is(p, kinds) THEN Body(p) ELSE p
Opt(p, kinds) == When(p, kinds, bump)
NoBody(p) == p
Consumed(p) == <<p.pos, p.pending_gt_count>>
Iterate(p, Cond(_), Body(_)) ==
    LET RECURSIVE go(_)
        go(q) == IF q.stuck \/ ~Cond(q) THEN q
                 ELSE LET r == Body(q)
                      IN IF r.break THEN [r EXCEPT !.break = FALSE]
                         ELSE IF Consumed(r) = Consumed(q) THEN [r EXCEPT !.stuck = TRUE] ELSE go(r)
    IN go(p)
While(p, kinds, Body(_)) == Iterate(p, LAMBDA q : Is(q, kinds), Body)
Until(p, kinds, Body(_)) == Iterate(p, LAMBDA q : ~Is(q, kinds) /\ is_some(q), Body)
ListUntil(p, kinds, Elem(_)) == Until(p, kinds, LAMBDA q : Opt(Elem(q), {"Comma"}))
Bounds(p, Elem(_)) ==
    Iterate(p, LAMBDA q : TRUE, LAMBDA q : LET r == Elem(q) IN IF Is(r, {"Plus"}) THEN bump(r) ELSE [r EXCEPT !.break = TRUE])
Then(p, kind, Body(_)) == When(p, {kind}, LAMBDA q : Body(bump(q)))

PathStart == {"Ident", "KwSelf", "KwSuper", "KwCrate"}
Open == {"LParen", "LBrace", "LBracket"}
Literals == {"IntLit", "FloatLit", "StringLit", "CharLit", "KwTrue", "KwFalse"}

RECURSIVE parse_expr(_), parse_type(_), parse_pat(_), parse_block(_), parse_item(_), parse_token_tree(_), parse_if_expr(_),
          parse_use_tree(_), parse_unary_expr(_)
----------------------------------------------------------------------------
\* Types and paths.

\* The mistaken forms are mutants: see the README.
parse_type_arg_list_dropping(p) ==
    LET list == ListUntil(bump(p), {"Gt", "Shr"}, LAMBDA q : Then(parse_type(q), "Eq", parse_type))
    IN IF Is(list, {"Shr"}) THEN skip_token(token(list, "Gt")) ELSE Opt(list, {"Gt"})
SplitShr(p) == [skip_token(token(token(p, "Gt"), "Gt")) EXCEPT !.pending_gt_count = @ + 1]
parse_type_arg_list(p) ==
    LET list == ListUntil(bump(p), {"Gt", "Shr"}, LAMBDA q : Then(parse_type(q), "Eq", parse_type))
    IN IF Is(list, {"Shr"}) THEN SplitShr(list) ELSE Opt(list, {"Gt"})
parse_type_param_list(p) ==
    LET TypeParam(q) == Then(Then(IF Is(q, {"Lifetime"}) THEN bump(q) ELSE bump_expected(q, "Ident"),
                                  "Colon", LAMBDA r : Bounds(r, parse_type)), "Eq", parse_type)
        list == ListUntil(expect(start_node(p, "TypeParamList"), "Lt"), {"Gt", "Shr"}, LAMBDA q : Node(q, "TypeParam", TypeParam))
    IN finish_node(IF Is(list, {"Shr"}) THEN SplitShr(list) ELSE Opt(list, {"Gt"}))
parse_path_inner(p) ==
    LET Segment(q) == IF Is(q, PathStart) THEN bump(q)
                      ELSE IF Is(q, {"Lt"}) THEN parse_type_arg_list(q)
                      ELSE [IF Is(q, {"Star", "LBrace"}) THEN q ELSE error(q) EXCEPT !.break = TRUE]
    IN IF ~Is(p, PathStart) THEN error(p) ELSE While(bump(p), {"ColonColon"}, LAMBDA q : Segment(bump(q)))
parse_path(p) == Node(p, "UsePath", parse_path_inner)
TypesIn(p, close) == expect(ListUntil(p, {close}, parse_type), close)
parse_path_type(p) ==
    LET path == parse_path(p)
        args == IF Is(path, {"Lt"}) THEN parse_type_arg_list(path)
                ELSE When(path, {"LParen"}, LAMBDA q : Node(q, "GenericArgList", LAMBDA r : TypesIn(bump(r), "RParen")))
    IN Then(args, "Arrow", parse_type)
parse_type(p) ==
    LET k == current_kind(p)
        Ref(q) == parse_type(While(bump(q), {"KwMut", "Lifetime"}, bump))
        FnType(q) == Then(TypesIn(expect(bump(q), "LParen"), "RParen"), "Arrow", parse_type)
        Slice(q) == IF Is(q, {"Semicolon"}) THEN NodeAt(q, checkpoint(p), "ArrayType", LAMBDA r : expect(parse_expr(bump(r)), "RBracket"))
                    ELSE NodeAt(q, checkpoint(p), "SliceType", LAMBDA r : expect(r, "RBracket"))
    IN CASE k = "AndAnd" -> Node(p, "RefType", LAMBDA q : Node(token(q, "And"), "RefType", LAMBDA r : parse_type(skip_token(token(r, "And")))))
         [] k = "And" -> Node(p, "RefType", Ref)
         [] k = "Lifetime" -> Node(p, "Lifetime", bump)
         [] k = "Star" -> Node(p, "RawPtrType", LAMBDA q : parse_type(Opt(bump(q), {"KwConst", "KwMut"})))
         [] k = "LBracket" -> Slice(parse_type(bump(p)))
         [] k = "LParen" -> Node(p, "TupleType", LAMBDA q : TypesIn(bump(q), "RParen"))
         [] k = "Bang" -> Node(p, "NeverType", bump)
         [] k = "Underscore" -> Node(p, "InferType", bump)
         [] k = "KwDyn" -> Node(p, "DynType", LAMBDA q : Bounds(bump(q), parse_type))
         [] k = "KwImpl" -> Node(p, "ImplTraitType", LAMBDA q : Bounds(bump(q), parse_type))
         [] k = "KwFn" -> Node(p, "FnType", FnType)
         [] k \in PathStart -> Node(p, "PathType", parse_path_type)
         [] OTHER -> ErrorAndBump(p)
----------------------------------------------------------------------------
\* Patterns.
PatsIn(p) == expect(ListUntil(p, {"RParen"}, parse_pat), "RParen")
PatStructField(p) ==
    IF Is(p, {"DotDot"}) THEN Opt(bump(p), {"Comma"})
    ELSE IF Is(p, {"Ident"}) THEN Then(NodeAt(bump(p), checkpoint(p), "PatIdent", NoBody), "Colon", parse_pat)
    ELSE ErrorAndBump(p)
PatPath(p) ==
    LET path == Node(p, "UsePath", parse_path_inner)
        Fields(q) == expect(ListUntil(bump(q), {"RBrace"}, PatStructField), "RBrace")
    IN IF Peek(p, 1) \notin {"ColonColon", "LParen", "LBrace"} THEN Node(p, "PatIdent", bump)
       ELSE CASE Is(path, {"LParen"}) -> NodeAt(path, checkpoint(p), "PatStruct", LAMBDA q : Node(q, "PatTuple", LAMBDA r : PatsIn(bump(r))))
              [] Is(path, {"LBrace"}) -> NodeAt(path, checkpoint(p), "PatStruct", Fields)
              [] OTHER -> path
PatLiteral(p) ==
    LET RangeEnd(q) == IF Is(q, {"FatArrow", "Comma", "RBrace", "RParen", "RBracket"}) THEN q
                       ELSE parse_pat(IF Is(q, Literals) THEN q ELSE error(q))
    IN IF Is(bump(p), {"DotDot", "DotDotEq"}) THEN NodeAt(bump(p), checkpoint(p), "PatRange", LAMBDA q : RangeEnd(bump(q)))
       ELSE NodeAt(bump(p), checkpoint(p), "PatLit", NoBody)
parse_pat_inner(p) ==
    LET k == current_kind(p)
        Slice(q) == expect(ListUntil(bump(q), {"RBracket"}, LAMBDA r : IF Is(r, {"DotDot"}) THEN bump(r) ELSE parse_pat(r)), "RBracket")
    IN CASE k = "LBracket" -> Node(p, "PatSlice", Slice)
         [] k = "Bang" -> Node(p, "NeverType", bump)
         [] k = "Underscore" -> Node(p, "PatWild", bump)
         [] k \in PathStart -> PatPath(p)
         [] k \in Literals -> PatLiteral(p)
         [] OTHER -> ErrorAndBump(p)
parse_pat_single(p) ==
    LET k == current_kind(p)
    IN CASE k \in {"KwRef", "And"} -> parse_pat_inner(Opt(bump(p), {"KwMut"}))
         [] k = "KwMut" -> parse_pat_inner(bump(p))
         [] k = "AndAnd" -> Node(p, "PatRef", LAMBDA q : Node(bump(q), "PatRef", LAMBDA r : parse_pat_inner(bump(r))))
         [] k = "LParen" -> Node(p, "PatTuple", LAMBDA q : PatsIn(bump(q)))
         [] OTHER -> parse_pat_inner(p)
parse_pat(p) ==
    LET first == parse_pat_single(p)
        Rest(q) == While(q, {"Or"}, LAMBDA r : parse_pat_single(bump(r)))
    IN IF Is(first, {"Or"}) THEN NodeAt(first, checkpoint(p), "PatOr", Rest) ELSE first
----------------------------------------------------------------------------
\* Expressions.
AssignOps == {"Eq", "PlusEq", "MinusEq", "StarEq", "SlashEq", "OrEq", "AndEq", "CaretEq", "ShlEq", "ShrEq"}
CompareOps == {"EqEq", "BangEq", "Lt", "Gt", "LtEq", "GtEq"}
BitOps == {"And", "Or", "Caret", "Shl", "Shr"}
NoOperand == {"Semicolon", "RBrace", "Comma", "RParen", "RBracket", "Eq"}

\* A list of arguments between delimiters, a comma after the last one allowed.
ExprsIn(p, close) ==
    LET Rest(q) == LET r == bump(q) IN IF Is(r, {close}) THEN r ELSE parse_expr(r)
        args == bump(p)
    IN expect(IF Is(args, {close}) THEN args ELSE While(parse_expr(args), {"Comma"}, Rest), close)
StructExprField(p) ==
    LET name == bump(p)
        Shorthand(q) == Node(q, "PathExpr", LAMBDA r : Node(r, "UsePath", LAMBDA u : token(u, Peek(p, 0))))
    IN CASE Is(p, {"Ident"}) /\ Is(name, {"Colon"}) -> parse_expr(NodeAt(bump(name), checkpoint(p), "StructField", NoBody))
         [] Is(p, {"Ident"}) -> NodeAt(name, checkpoint(p), "StructField", Shorthand)
         [] Is(p, {"DotDot"}) -> IF Is(name, {"RBrace"}) THEN name ELSE parse_expr(name)
         [] OTHER -> ErrorAndBump(p)
DotSuffix(p, at) ==
    LET dot == bump(p)
        name == IF Is(dot, {"Ident", "IntLit", "FloatLit"}) THEN bump(dot) ELSE error(dot)
        generic == Then(name, "ColonColon", LAMBDA q : When(q, {"Lt"}, parse_type_arg_list))
    IN CASE Is(dot, {"KwAwait"}) -> NodeAt(bump(dot), at, "AwaitExpr", NoBody)
         [] Is(generic, {"LParen"}) -> NodeAt(generic, at, "MethodCallExpr", LAMBDA q : ExprsIn(q, "RParen"))
         [] OTHER -> NodeAt(generic, at, "FieldExpr", NoBody)
PostfixSuffix(p, at) ==
    LET k == current_kind(p)
    IN CASE k = "Dot" -> DotSuffix(p, at)
         [] k = "LParen" -> NodeAt(p, at, "CallExpr", LAMBDA q : ExprsIn(q, "RParen"))
         [] k = "LBracket" -> NodeAt(p, at, "IndexExpr", LAMBDA q : expect(parse_expr(bump(q)), "RBracket"))
         [] k = "Question" -> NodeAt(p, at, "TryExpr", bump)
         [] k = "KwAs" -> NodeAt(p, at, "CastExpr", LAMBDA q : parse_type(bump(q)))
         [] OTHER -> NodeAt(p, at, "StructExpr", LAMBDA q : expect(ListUntil(bump(q), {"RBrace"}, StructExprField), "RBrace"))
HasSuffix(p) ==
    \/ Is(p, {"Dot", "LParen", "LBracket", "Question", "KwAs"})
    \/ Is(p, {"LBrace"}) /\ p.last_was_path /\ ~p.suppress_struct_lit

parse_path_expr(p) == [Node(p, "PathExpr", parse_path) EXCEPT !.last_was_path = TRUE]
parse_label(p) == IF Is(p, {"Ident", "Lifetime"}) /\ Peek(p, 1) = "Colon" THEN bump(bump(p)) ELSE p
\* The head of if, while, for and match, where a brace opens the block.
Suppressed(p, Part(_)) == [Part([p EXCEPT !.suppress_struct_lit = TRUE]) EXCEPT !.suppress_struct_lit = FALSE]
Condition(p) == IF Is(p, {"KwLet"}) THEN parse_expr(expect(parse_pat(bump(p)), "Eq")) ELSE parse_expr(p)
parse_if_expr(p) ==
    LET then == parse_block(Suppressed(bump_expected(start_node(p, "IfExpr"), "KwIf"), Condition))
        Else(q) == IF Is(q, {"KwIf"}) THEN parse_if_expr(q) ELSE parse_block(q)
    IN finish_node(Then(then, "KwElse", Else))
parse_while_expr(p) == Node(p, "WhileExpr", LAMBDA q : parse_block(Suppressed(bump(parse_label(q)), Condition)))
parse_for_expr(p) ==
    LET Iter(q) == parse_expr(expect(parse_pat(q), "KwIn"))
    IN Node(p, "ForExpr", LAMBDA q : parse_block(Suppressed(bump(parse_label(q)), Iter)))
parse_loop_expr(p) ==
    LET Body(q) == IF Is(q, {"LBrace"}) THEN parse_block(q) ELSE error(q)
    IN Node(p, "LoopExpr", LAMBDA q : Body(bump(parse_label(q))))
parse_closure_expr(p) ==
    LET moved == Opt(start_node(p, "ClosureExpr"), {"KwMove"})
        pipe == IF Is(moved, {"Or", "OrOr"}) THEN bump(moved) ELSE error(moved)
        Param(q) == Node(q, "Param", LAMBDA r : Then(parse_pat_single(r), "Colon", parse_type))
        Params(q) == LET r == ListUntil(q, {"Or"}, Param) IN IF Is(r, {"Or"}) THEN bump(r) ELSE error(r)
        params == Node(pipe, "ParamList", LAMBDA q : IF Is(moved, {"OrOr"}) THEN q ELSE Params(q))
        typed == Then(params, "Arrow", parse_type)
    IN finish_node(IF Is(typed, {"LBrace"}) THEN parse_block(typed) ELSE parse_expr(typed))
parse_match_arm(p) ==
    LET head == expect(Then(parse_pat(start_node(p, "MatchArm")), "KwIf", parse_expr), "FatArrow")
    IN finish_node(Opt(IF Is(head, {"LBrace"}) THEN parse_block(head) ELSE parse_expr(head), {"Comma"}))
MatchExpr(p) ==
    LET head == expect(Suppressed(bump(p), parse_expr), "LBrace")
    IN expect(Node(head, "MatchArmList", LAMBDA q : Until(q, {"RBrace"}, parse_match_arm)), "RBrace")
Parenthesized(p) ==
    LET inner == bump(p)
        first == parse_expr(inner)
        More(q) == expect(While(q, {"Comma"}, LAMBDA r : parse_expr(bump(r))), "RParen")
    IN CASE Is(inner, {"RParen"}) -> NodeAt(bump(inner), checkpoint(p), "TupleExpr", NoBody)
         [] Is(first, {"Comma"}) -> NodeAt(first, checkpoint(p), "TupleExpr", More)
         [] OTHER -> expect(first, "RParen")
ArrayExpr(p) ==
    LET first == parse_expr(bump(p))
    IN IF ~Is(bump(p), {"RBracket"}) /\ Is(first, {"Semicolon"}) THEN expect(parse_expr(bump(first)), "RBracket") ELSE ExprsIn(p, "RBracket")
Jump(p) == LET q == bump(p) IN IF Is(q, NoOperand \cup {"FatArrow"}) THEN q ELSE parse_expr(q)
Labelled(p) ==
    CASE Is(p, {"KwLoop"}) -> parse_loop_expr(p)
      [] Is(p, {"KwWhile"}) -> parse_while_expr(p)
      [] Is(p, {"KwFor"}) -> parse_for_expr(p)
      [] Is(p, {"LBrace"}) -> parse_block(p)
      [] OTHER -> error(p)
parse_primary_expr(q) ==
    LET p == [q EXCEPT !.last_was_path = FALSE]
        k == current_kind(p)
    IN CASE parse_label(p) # p -> Labelled(parse_label(p))
         [] k \in PathStart -> parse_path_expr(p)
         [] k \in Literals \cup {"ByteLit"} -> Node(p, "LitExpr", bump)
         [] k = "LParen" -> Parenthesized(p)
         [] k \in {"KwMove", "Or", "OrOr"} -> parse_closure_expr(p)
         [] k = "KwUnsafe" -> IF Is(bump(p), {"LBrace"}) THEN parse_block(bump(p)) ELSE error(bump(p))
         [] k \in {"LBrace", "KwWhile", "KwLoop", "KwFor"} -> Labelled(p)
         [] k = "KwIf" -> parse_if_expr(p)
         [] k = "KwReturn" -> Node(p, "ReturnExpr", Jump)
         [] k = "KwBreak" -> Node(p, "BreakExpr", Jump)
         [] k = "KwContinue" -> Node(p, "ContinueExpr", bump)
         [] k = "LBracket" -> Node(p, "ArrayExpr", ArrayExpr)
         [] k = "KwMatch" -> Node(p, "MatchExpr", MatchExpr)
         [] OTHER -> ErrorAndBump(p)
parse_postfix_expr(p) ==
    LET primary == parse_primary_expr(p)
    IN IF Is(primary, {"Bang"}) /\ primary.last_was_path
       THEN NodeAt(primary, checkpoint(p), "MacroCall", LAMBDA q : parse_token_tree(bump(q)))
       ELSE Iterate(primary, HasSuffix, LAMBDA q : PostfixSuffix(q, checkpoint(p)))
parse_unary_expr(p) ==
    IF Is(p, {"Bang", "Minus", "Star", "And"}) THEN Node(p, "UnaryExpr", LAMBDA q : parse_unary_expr(Opt(bump(q), {"KwMut"})))
    ELSE parse_postfix_expr(p)

\* Binary operators: a level wraps its left operand, but a second operator of
\* the level starts after the node of the first; || and && never wrap theirs.
Level(p, ops, Operand(_)) ==
    LET Wrap(q, at) == NodeAt(q, at, "BinaryExpr", LAMBDA r : Operand(bump(r)))
        left == Operand(p)
    IN IF ~Is(left, ops) THEN left ELSE While(Wrap(left, checkpoint(p)), ops, LAMBDA q : Wrap(q, checkpoint(q)))
Chain(p, op, Operand(_)) == While(Operand(p), {op}, LAMBDA q : Node(q, "BinaryExpr", LAMBDA r : Operand(bump(r))))
parse_multiplicative_expr(p) == Level(p, {"Star", "Slash", "Percent"}, parse_unary_expr)
parse_additive_expr(p) == Level(p, {"Plus", "Minus"}, parse_multiplicative_expr)
parse_bitwise_expr(p) == Level(p, BitOps, parse_additive_expr)
parse_comparison_tight(p) ==
    LET left == parse_bitwise_expr(p)
    IN IF Is(left, CompareOps) THEN NodeAt(left, checkpoint(p), "BinaryExpr", LAMBDA q : parse_additive_expr(bump(q))) ELSE left
parse_comparison_expr(p) ==
    LET left == parse_bitwise_expr(p)
    IN IF Is(left, CompareOps) THEN NodeAt(left, checkpoint(p), "BinaryExpr", LAMBDA q : parse_bitwise_expr(bump(q))) ELSE left
parse_and_expr(p) == Chain(p, "AndAnd", parse_comparison_expr)
parse_or_expr(p) == Chain(p, "OrOr", parse_and_expr)
parse_range_expr(p) ==
    LET End(q) == LET r == bump(q) IN IF Is(r, NoOperand) THEN r ELSE parse_or_expr(r)
        left == IF Is(p, {"DotDot", "DotDotEq"}) THEN p ELSE parse_or_expr(p)
    IN IF Is(left, {"DotDot", "DotDotEq"}) THEN NodeAt(left, checkpoint(p), "RangeExpr", End) ELSE left
parse_expr(p) ==
    LET left == parse_range_expr(p)
    IN IF Is(left, AssignOps) THEN NodeAt(left, checkpoint(p), "AssignExpr", LAMBDA q : parse_expr(bump(q))) ELSE left
----------------------------------------------------------------------------
\* Statements.
ItemStart == {"KwFn", "KwStruct", "KwEnum", "KwTrait", "KwImpl", "KwMod", "KwConst", "KwStatic", "KwType", "KwExtern"}
ExprStart == Literals \cup PathStart \cup Open \cup {"ByteLit", "Or", "OrOr", "Bang", "Minus", "Star", "And"}
LetStmt(p) ==
    LET init == Then(Then(parse_pat(bump(p)), "Colon", parse_type), "Eq", parse_expr)
    IN IF Is(init, {"Semicolon"}) THEN bump(init) ELSE error(init)
TailOrSemi(p) == IF Is(p, {"Semicolon"}) THEN bump(p) ELSE IF Is(p, {"RBrace"}) THEN p ELSE error(p)
parse_stmt(p) ==
    LET k == current_kind(p)
        BlockLike == {"KwIf", "KwWhile", "KwFor", "KwLoop", "KwMatch", "KwReturn", "KwBreak", "KwContinue", "KwMove", "LBrace"}
    IN CASE k = "KwLet" -> Node(p, "LetStmt", LetStmt)
         [] k \in BlockLike \/ (k = "KwUnsafe" /\ Peek(p, 1) = "LBrace") -> Node(p, "ExprStmt", LAMBDA q : Opt(parse_expr(q), {"Semicolon"}))
         [] k \in ItemStart \cup {"KwPub", "KwUnsafe"} -> parse_item(p)
         [] k \in ExprStart -> Node(p, "ExprStmt", LAMBDA q : TailOrSemi(parse_expr(q)))
         [] OTHER -> ErrorAndBump(p)
parse_block_inner(p) == Until(p, {"RBrace"}, parse_stmt)
parse_block(p) == Node(p, "Block", LAMBDA q : expect(parse_block_inner(expect(q, "LBrace")), "RBrace"))
----------------------------------------------------------------------------
\* Items.
parse_where_clause(p) ==
    LET Bound(q) == Node(q, "Bound", parse_type)
        Predicate(q) == Then(parse_type(q), "Colon", LAMBDA r : Bounds(r, Bound))
        Next(q) == LET r == Node(q, "WherePredicate", Predicate)
                   IN IF Is(r, {"Comma"}) /\ Is(bump(r), PathStart \cup {"Lifetime"}) THEN bump(r) ELSE [Opt(r, {"Comma"}) EXCEPT !.break = TRUE]
    IN Node(p, "WhereClause", LAMBDA q : Iterate(expect(q, "KwWhere"), LAMBDA r : TRUE, Next))
Generics(p) == When(p, {"Lt"}, parse_type_param_list)
Where(p) == When(p, {"KwWhere"}, parse_where_clause)
Named(p, kind) == bump_expected(bump_expected(p, kind), "Ident")
Typed(p) == parse_type(expect(bump_expected(p, "Ident"), "Colon"))

parse_param(p) ==
    LET Ref(q) == Opt(Opt(bump(q), {"KwMut"}), {"Lifetime"})
        Param(q) ==
          CASE Is(q, {"And"}) /\ Is(Ref(q), {"KwSelf"}) -> Node(Ref(q), "RefType", parse_type)
            [] Is(q, {"And"}) -> Typed(Ref(q))
            [] Is(q, {"KwMut"}) -> IF Is(bump(q), {"KwSelf"}) THEN bump(bump(q)) ELSE Typed(bump(q))
            [] Is(q, {"KwSelf"}) -> bump(q)
            [] OTHER -> Typed(q)
    IN Node(p, "Param", Param)
parse_fn_def(p) ==
    LET abi == Then(start_node(p, "FnDef"), "KwExtern", LAMBDA q : Opt(q, {"StringLit"}))
        mod == IF Is(abi, {"KwConst", "KwAsync"}) /\ Peek(abi, 1) = "KwFn" THEN bump(abi) ELSE abi
        open == expect(Generics(Named(mod, "KwFn")), "LParen")
        params == IF Is(open, {"RParen"}) THEN open ELSE Node(open, "ParamList", LAMBDA q : ListUntil(q, {"RParen"}, parse_param))
        head == Where(Then(expect(params, "RParen"), "Arrow", parse_type))
    IN finish_node(IF Is(head, {"LBrace"}) THEN parse_block(head) ELSE expect(head, "Semicolon"))

parse_visibility(p) ==
    LET Scope(q) ==
          CASE Is(q, {"KwCrate"}) -> Node(q, "VisCrate", bump)
            [] Is(q, {"KwSuper"}) -> Node(q, "VisSuper", bump)
            [] Is(q, {"KwSelf"}) -> Node(q, "VisSelf", bump)
            [] Is(q, {"Ident"}) -> Node(q, "VisPath", parse_path)
            [] OTHER -> error(q)
        Pub(q) == Then(bump(q), "LParen", LAMBDA r : expect(Scope(r), "RParen"))
    IN When(p, {"KwPub"}, LAMBDA q : Node(q, "Visibility", Pub))
parse_struct_def(p) ==
    LET head == Where(Generics(Named(start_node(p, "StructDef"), "KwStruct")))
        Field(q) == IF Is(q, {"Ident"}) THEN Then(bump(q), "Colon", parse_type) ELSE bump(error(q))
        TupleField(q) == parse_type(parse_visibility(q))
    IN finish_node(CASE Is(head, {"LParen"}) -> expect(expect(ListUntil(bump(head), {"RParen"}, TupleField), "RParen"), "Semicolon")
                     [] Is(head, {"LBrace"}) -> expect(ListUntil(bump(head), {"RBrace"}, LAMBDA q : Field(parse_visibility(q))), "RBrace")
                     [] OTHER -> expect(head, "Semicolon"))
parse_enum_def(p) ==
    LET head == expect(Where(Generics(Named(start_node(p, "EnumDef"), "KwEnum"))), "LBrace")
        Field(q) == IF Is(q, {"Ident"}) THEN Then(bump(q), "Colon", parse_type) ELSE ErrorAndBump(q)
        FieldList(q) == ListUntil(bump(q), {"RBrace"}, LAMBDA r : Node(r, "StructField", Field))
        Fields(q) == When(q, {"LBrace"}, LAMBDA r : expect(Node(r, "FieldList", FieldList), "RBrace"))
        Variant(q) == Then(Fields(Then(bump_expected(q, "Ident"), "LParen", LAMBDA r : TypesIn(r, "RParen"))), "Eq", parse_expr)
        Variants(q) == ListUntil(q, {"RBrace"}, LAMBDA r : Node(r, "EnumVariant", Variant))
    IN finish_node(expect(Node(head, "VariantList", Variants), "RBrace"))

ConstDef(p) == Node(p, "ConstDef", LAMBDA q : expect(Then(Typed(bump(q)), "Eq", parse_expr), "Semicolon"))
ForeignStatic(p) == Node(p, "StaticDef", LAMBDA q : expect(Typed(Opt(bump(q), {"KwMut"})), "Semicolon"))
StaticDef(p) ==
    Node(p, "StaticDef", LAMBDA q : expect(Then(Typed(Opt(Opt(bump(q), {"KwRef"}), {"KwMut"})), "Eq", parse_expr), "Semicolon"))
TypeAlias(p) ==
    Node(p, "TypeAlias", LAMBDA q : expect(Then(Generics(bump_expected(bump(q), "Ident")), "Eq", parse_type), "Semicolon"))
ForeignItem(p) == CASE Is(p, {"KwFn"}) -> parse_fn_def(p) [] Is(p, {"KwStatic"}) -> ForeignStatic(p) [] OTHER -> bump(error(p))
ForeignItems(p) == expect(Until(bump(p), {"RBrace"}, ForeignItem), "RBrace")
Abi(p) == Opt(bump(p), {"StringLit"})
parse_extern_block(p) ==
    LET Body(q) == IF Is(q, {"LBrace"}) THEN ForeignItems(q) ELSE expect(q, "Semicolon")
    IN Node(p, "ExternBlock", LAMBDA q : Body(Abi(q)))
ExternItem(p) ==
    LET Alias(q) == Then(bump_expected(bump(q), "Ident"), "KwAs", LAMBDA r : bump_expected(r, "Ident"))
        Body(q) == CASE Is(q, {"KwCrate"}) -> Alias(q) [] Is(q, {"LBrace"}) -> ForeignItems(q) [] OTHER -> expect(q, "Semicolon")
    IN IF Peek(p, 1) = "KwFn" \/ (Peek(p, 1) = "StringLit" /\ Peek(p, 2) = "KwFn") THEN parse_fn_def(p)
       ELSE Node(p, "ExternBlock", LAMBDA q : Body(Abi(q)))
\* A member of a trait or an impl; type and const differ between the two.
Member(p, Alias(_), Const(_)) ==
    CASE Is(p, {"KwFn"}) -> parse_fn_def(p)
      [] Is(p, {"KwType"}) -> Node(p, "TypeAlias", LAMBDA q : expect(Alias(bump_expected(bump(q), "Ident")), "Semicolon"))
      [] Is(p, {"KwConst"}) -> Node(p, "ConstDef", LAMBDA q : expect(Const(Typed(bump(q))), "Semicolon"))
      [] Is(p, {"KwExtern"}) -> parse_extern_block(p)
      [] Is(p, {"KwUnsafe"}) -> parse_item(p)
      [] OTHER -> bump(error(p))
Members(p, Alias(_), Const(_)) ==
    expect(Until(expect(Where(p), "LBrace"), {"RBrace"}, LAMBDA q : Member(q, Alias, Const)), "RBrace")
parse_trait_def(p) ==
    LET Supers(q) == Then(q, "Colon", LAMBDA r : Bounds(r, parse_type))
        Const(q) == Then(q, "Eq", parse_expr)
    IN Node(p, "TraitDef", LAMBDA q : Members(Supers(Generics(Named(q, "KwTrait"))), Supers, Const))
parse_impl_def(p) ==
    LET Self(q) == Then(parse_type(Generics(bump_expected(q, "KwImpl"))), "KwFor", parse_type)
        Alias(q) == Then(q, "Eq", parse_type)
    IN Node(p, "ImplDef", LAMBDA q : Members(Self(q), Alias, LAMBDA r : parse_expr(expect(r, "Eq"))))

\* An error in the first segment returns before the node is finished.
parse_use_path(p) ==
    LET Segment(q) == IF Is(q, PathStart) THEN bump(q) ELSE [IF Is(q, {"Star", "LBrace"}) THEN q ELSE error(q) EXCEPT !.break = TRUE]
        node == start_node(p, "UsePath")
    IN IF ~Is(p, PathStart) THEN error(node) ELSE finish_node(While(bump(node), {"ColonColon"}, LAMBDA q : Segment(bump(q))))
parse_use_tree(p) ==
    LET glob == Opt(parse_use_path(start_node(p, "UseTree")), {"Star"})
        alias == Then(glob, "KwAs", LAMBDA q : IF Is(q, {"Ident", "Underscore"}) THEN bump(q) ELSE error(q))
    IN finish_node(Then(alias, "LBrace", LAMBDA q : expect(ListUntil(q, {"RBrace"}, parse_use_tree), "RBrace")))
parse_use_decl(p) == Node(p, "UseDecl", LAMBDA q : expect(parse_use_tree(bump_expected(q, "KwUse")), "Semicolon"))

\* Token trees: only those in parentheses know about $.
TokenTreeLeaf(p) == Node(p, "TokenTree", bump)
Dollar(p) ==
    LET q == bump(p)
        Repetition(r) == IF Is(r, {"Plus", "Star", "Question"}) THEN bump(r) ELSE error(r)
        name == bump(q)
        Fragment(r) == IF Is(r, {"Ident"}) THEN NodeAt(r, checkpoint(q), "MetaVar", bump) ELSE error(r)
    IN CASE Is(q, {"LParen"}) -> Repetition(Opt(parse_token_tree(q), {"Comma", "Semicolon"}))
         [] Is(q, {"Ident"}) -> IF Is(name, {"Colon"}) THEN Fragment(bump(name)) ELSE NodeAt(name, checkpoint(q), "MetaVar", NoBody)
         [] Is(q, {"KwCrate"}) -> Node(q, "MetaVarCrate", bump)
         [] OTHER -> bump(error(q))
parse_token_tree(p) ==
    LET Tree(q) == IF Is(q, Open) THEN parse_token_tree(q) ELSE TokenTreeLeaf(q)
        MetaTree(q) == IF Is(q, {"Dollar"}) THEN Node(q, "TokenTree", Dollar) ELSE Tree(q)
        Group(close, Body(_, _)) == Node(p, "TokenTree", LAMBDA q : expect(Body(bump(q), close), close))
    IN CASE Is(p, {"LParen"}) -> Group("RParen", LAMBDA q, close : ListUntil(q, {close}, MetaTree))
         [] Is(p, {"LBrace"}) -> Group("RBrace", LAMBDA q, close : Until(q, {close}, Tree))
         [] Is(p, {"LBracket"}) -> Group("RBracket", LAMBDA q, close : Until(q, {close}, Tree))
         [] OTHER -> TokenTreeLeaf(p)
parse_macro_def(p) ==
    LET node == start_node(p, "MacroDef")
        head == IF Is(node, {"KwMacroRules"}) THEN bump_expected(bump_expected(bump(node), "Bang"), "Ident")
                ELSE bump_expected(bump_expected(bump_expected(node, "KwMacro"), "Ident"), "Bang")
        Arm(q) == parse_token_tree(expect(parse_token_tree(q), "FatArrow"))
        Entry(q) == IF Is(q, {"Comma", "Semicolon"}) THEN bump(q) ELSE Opt(Node(q, "MacroArm", Arm), {"Comma", "Semicolon"})
    IN finish_node(expect(Until(expect(head, "LBrace"), {"RBrace"}, Entry), "RBrace"))

ModItem(p) ==
    LET Body(q) == IF Is(q, {"LBrace"}) THEN expect(Until(bump(q), {"RBrace"}, parse_item), "RBrace") ELSE expect(q, "Semicolon")
    IN Node(p, "Module", LAMBDA q : Body(Named(q, "KwMod")))
\* Recovery: to the next token an item may start with.
RecoverItem(p) == Until(error(p), ItemStart \cup {"KwUse", "KwPub", "KwUnsafe", "KwMacroRules"}, bump)
ItemKind(p) ==
    LET k == current_kind(p)
    IN CASE k \in {"KwConst", "KwAsync"} /\ Peek(p, 1) = "KwFn" -> parse_fn_def(p)
         [] k = "KwFn" -> parse_fn_def(p)
         [] k = "KwStruct" -> parse_struct_def(p)
         [] k = "KwUse" -> parse_use_decl(p)
         [] k = "KwEnum" -> parse_enum_def(p)
         [] k = "KwTrait" -> parse_trait_def(p)
         [] k = "KwImpl" -> parse_impl_def(p)
         [] k = "KwMod" -> ModItem(p)
         [] k = "KwConst" -> ConstDef(p)
         [] k = "KwStatic" -> StaticDef(p)
         [] k = "KwType" -> TypeAlias(p)
         [] k \in {"KwMacroRules", "KwMacro"} -> parse_macro_def(p)
         [] k = "KwExtern" -> ExternItem(p)
         [] OTHER -> RecoverItem(p)
parse_item(p) ==
    LET vis == parse_visibility(p)
    IN IF ~Is(vis, {"KwUnsafe"}) THEN ItemKind(vis)
       ELSE IF Is(bump(vis), ItemStart \cup {"KwUse", "KwAsync", "KwMacro", "KwMacroRules"}) THEN ItemKind(bump(vis)) ELSE error(bump(vis))
parse_source_file(p) == Node(p, "SourceFile", LAMBDA q : Iterate(q, is_some, parse_item))
\* finish: the builder wants exactly one element.
parse_to_syntax(tokens) == LET p == parse_source_file(NewParser(tokens)) IN [p EXCEPT !.panic = @ \/ Len(p.kids) # 1]
----------------------------------------------------------------------------
\* How the lowering to HIR reads a binary expression: the last node before the
\* operator and the first after it; <<>> when one is missing. An operand is
\* <<"operand">>.
is_bin_op_kind(kind) ==
    kind \in CompareOps \cup BitOps \cup {"Plus", "Minus", "Star", "Slash", "Percent", "AndAnd", "OrOr", "Eq"}
RECURSIVE lower_binary_expr(_)
lower_binary_expr(node) ==
    LET at == SelectInSeq(node.kids, LAMBDA e : e.leaf /\ is_bin_op_kind(e.kind))
        exprs == SelectSeq(node.kids, LAMBDA e : ~e.leaf)
        before == SelectSeq(SubSeq(node.kids, 1, at - 1), LAMBDA e : ~e.leaf)
        after == SelectSeq(SubSeq(node.kids, at + 1, Len(node.kids)), LAMBDA e : ~e.leaf)
        Binary(op, l, r) == LET lhs == lower_binary_expr(l)  rhs == lower_binary_expr(r) IN IF lhs = <<>> \/ rhs = <<>> THEN <<>> ELSE <<op, lhs, rhs>>
    IN CASE node.kind # "BinaryExpr" -> <<"operand">>
         [] at # 0 /\ before # <<>> /\ after # <<>> -> Binary(node.kids[at].kind, Last(before), after[1])
         [] OTHER -> IF Len(exprs) < 2 THEN <<>> ELSE Binary("Plus", exprs[1], exprs[2])
----------------------------------------------------------------------------
\* Fragments of macro patterns: whether the tokens are one of a kind.
is_literal(kind) == kind \in {"IntLit", "FloatLit", "StringLit", "CharLit", "BoolLit"}
is_fragment_lifetime(src) == src = <<"Lifetime">>
is_fragment_literal(src) ==
    \/ Len(src) = 1 /\ is_literal(src[1])
    \/ Len(src) = 2 /\ src[1] = "Minus" /\ is_literal(src[2])
is_fragment_vis(src) ==
    \/ src = <<>> \/ src = <<"KwPub">>
    \/ /\ Len(src) >= 3 /\ src[1] = "KwPub" /\ src[2] = "LParen" /\ Last(src) = "RParen"
       /\ (src[3] \in {"KwCrate", "KwSuper", "KwSelf"} /\ Len(src) = 4) \/ src[3] = "KwIn"
CloseOf(kind) == CASE kind = "LParen" -> "RParen" [] kind = "LBrace" -> "RBrace" [] kind = "LBracket" -> "RBracket" [] OTHER -> "Error"
Close == {"RParen", "RBrace", "RBracket"}
Depth(src, i) == Len(SelectSeq(SubSeq(src, 1, i), LAMBDA t : t \in Open)) - Len(SelectSeq(SubSeq(src, 1, i), LAMBDA t : t \in Close))
is_fragment_tt(src) ==
    \/ Len(src) = 1
    \/ /\ Len(src) > 1 /\ Last(src) = CloseOf(src[1])
       /\ \A i \in DOMAIN src : Depth(src, i) >= 0
       /\ Depth(src, Len(src)) = 0

\* A meta item from position p: where it ends, or 0.
KindAt(src, p) == IF p <= Len(src) THEN src[p] ELSE "End"
is_meta_literal(kind) == kind \in {"StringLit", "IntLit", "FloatLit", "CharLit", "BoolLit"}
parse_meta_path(src, p) ==
    LET RECURSIVE go(_)
        go(q) == IF KindAt(src, q) = "ColonColon" /\ KindAt(src, q + 1) = "Ident" THEN go(q + 2) ELSE q
    IN IF KindAt(src, p) = "Ident" THEN go(p + 1) ELSE 0
RECURSIVE parse_meta_item(_, _), parse_meta_list(_, _)
parse_meta_list(src, p) ==
    LET q == parse_meta_item(src, p)
    IN CASE KindAt(src, p) = "RParen" -> p + 1
         [] q = 0 -> 0
         [] KindAt(src, q) = "Comma" -> parse_meta_list(src, q + 1)
         [] KindAt(src, q) = "RParen" -> q + 1
         [] OTHER -> 0
parse_meta_item(src, p) ==
    LET q == parse_meta_path(src, p)
    IN CASE q = 0 -> 0
         [] KindAt(src, q) = "Eq" -> IF is_meta_literal(KindAt(src, q + 1)) THEN q + 2 ELSE 0
         [] KindAt(src, q) = "LParen" -> parse_meta_list(src, q + 1)
         [] OTHER -> q
validate_meta_fragment(src) == parse_meta_item(src, 1) = Len(src) + 1

\* The fragment in a function that makes it the only construct of its kind.
Wrapped(kind, src) ==
    LET head == <<"KwFn", "Ident", "LParen">>
        body == head \o <<"RParen", "LBrace">>
    IN CASE kind \in {"expr", "stmt", "item"} -> body \o src \o <<"RBrace">>
         [] kind = "block" -> head \o <<"RParen">> \o src
         [] kind = "ty" -> head \o <<"Ident", "Colon">> \o src \o <<"RParen", "LBrace", "RBrace">>
         [] kind = "pat" -> body \o <<"KwLet">> \o src \o <<"Eq", "IntLit", "Semicolon", "RBrace">>
is_exprish(kind) ==
    kind \in {"PathExpr", "LitExpr", "BinaryExpr", "CallExpr", "MethodCallExpr", "IfExpr", "MatchExpr", "Block", "UnaryExpr", "RefExpr",
              "TupleExpr", "ArrayExpr", "StructExpr", "CastExpr", "IndexExpr", "FieldExpr", "RangeExpr", "ClosureExpr", "WhileExpr",
              "LoopExpr", "ForExpr", "ReturnExpr", "BreakExpr", "ContinueExpr", "AssignExpr"}
is_typeish(kind) ==
    kind \in {"PathType", "TupleType", "ArrayType", "RefType", "RawPtrType", "FnType", "DynType", "NeverType", "SliceType", "ImplTraitType",
              "InferType"}
is_patish(kind) == kind \in {"PatIdent", "PatWild", "PatLit", "PatRange", "PatTuple", "PatStruct", "PatOr", "PatSlice"}
Children(node, kinds) == SelectSeq(node.kids, LAMBDA e : ~e.leaf /\ e.kind \in kinds)
First(nodes, kind) == LET found == SelectSeq(IF nodes = <<>> THEN <<>> ELSE nodes[1].kids, LAMBDA e : ~e.leaf /\ e.kind = kind)
                      IN SubSeq(found, 1, 1)
HasChild(nodes, Ok(_)) == nodes # <<>> /\ \E i \in DOMAIN nodes[1].kids : ~nodes[1].kids[i].leaf /\ Ok(nodes[1].kids[i].kind)
ParsesAs(kind, src) ==
    LET parsed == parse_to_syntax(Wrapped(kind, src))
        fn == First(parsed.kids, "FnDef")
        block == First(fn, "Block")
        stmts == IF block = <<>> THEN <<>> ELSE Children(block[1], {"ExprStmt", "LetStmt"})
    IN /\ parsed.diagnostics = 0 /\ fn # <<>>
       /\ CASE kind = "expr" -> Len(stmts) = 1 \/ (stmts = <<>> /\ HasChild(block, is_exprish))
            [] kind = "stmt" -> Len(stmts) = 1
            [] kind = "block" -> block # <<>> /\ Len(src) >= 2 /\ src[1] = "LBrace" /\ Last(src) = "RBrace"
            [] kind = "ty" -> HasChild(First(First(fn, "ParamList"), "Param"), is_typeish)
            [] kind = "pat" -> HasChild(First(block, "LetStmt"), is_patish)
            [] kind = "item" -> block # <<>> /\ Len(Children(block[1], {"FnDef", "StructDef", "EnumDef", "ImplDef", "ExternBlock"})) = 1
try_parse_fragment(kind, src) ==
    CASE kind = "meta" -> validate_meta_fragment(src)
      [] kind = "lifetime" -> is_fragment_lifetime(src)
      [] kind = "literal" -> is_fragment_literal(src)
      [] kind = "vis" -> is_fragment_vis(src)
      [] kind = "tt" -> is_fragment_tt(src)
      [] OTHER -> kind \in {"expr", "stmt", "block", "ty", "pat", "item"} /\ ParsesAs(kind, src)
=============================================================================
