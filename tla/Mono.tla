-------------------------------- MODULE Mono ---------------------------------
(****************************************************************************)
(* Monomorphization (glyim-lower: mono.rs, discovery.rs, polymorphize.rs,   *)
(* partition.rs, post_mono_checks.rs; glyim-pipeline: mono_cache.rs) over   *)
(* the interned types of glyim-type.                                        *)
(*                                                                          *)
(* A type is a handle, a number that means something only in the arena that *)
(* gave it out: types[h + 1]. A substitution is a handle with its length.   *)
(* A program p has the bodies fns, the adts [kind, fields,     *)
(* variants], the adts with a Drop impl, the methods <<trait, adt, name>>   *)
(* and the arena of the compilation. What interns returns <<arena, handle>>. *)
(****************************************************************************)
EXTENDS Integers, Sequences, FiniteSets, SequencesExt

CONSTANT MONO_SET_THRESHOLD

----------------------------------------------------------------------------
\* The arena.

Prims == <<"error", "never", "unit", "bool", "u8", "usize", "i32">>
ERROR == 0
UNIT == 2
BOOL == 3
U8 == 4
USIZE == 5
I32 == 6
NewArena == [types |-> [i \in DOMAIN Prims |-> [k |-> Prims[i]]] \o <<[k |-> "param", index |-> 0]>>,
             subs |-> <<>>]

OutOfBounds == [k |-> "out of bounds"]
EmptySubsts == [index |-> 0, len |-> 0]
TyArg(t) == [k |-> "ty", ty |-> t]

alloc_ty(a, kind) ==
    LET known == {t \in DOMAIN a.types : a.types[t] = kind}
    IN IF known # {} THEN <<a, (CHOOSE t \in known : TRUE) - 1>>
       ELSE <<[a EXCEPT !.types = Append(@, kind)], Len(a.types)>>

intern_substitution(a, args) ==
    LET known == {s \in DOMAIN a.subs : a.subs[s] = args}
    IN IF known # {} THEN <<a, [index |-> (CHOOSE s \in known : TRUE) - 1, len |-> Len(args)]>>
       ELSE <<[a EXCEPT !.subs = Append(@, args)], [index |-> Len(a.subs), len |-> Len(args)]>>

ty_kind(a, t) == IF t < Len(a.types) THEN a.types[t + 1] ELSE OutOfBounds

SubstsInBounds(a, s) == s.len = 0 \/ s.index < Len(a.subs)
substitution_args(a, s) ==
    IF s.len # 0 /\ SubstsInBounds(a, s) THEN a.subs[s.index + 1] ELSE <<>>

TyArgs(a, s) ==
    LET args == substitution_args(a, s)
    IN {args[i].ty : i \in {j \in DOMAIN args : args[j].k = "ty"}}
----------------------------------------------------------------------------
\* Substitution of a generic body: new types go to a fresh arena c.

RECURSIVE substitute_ty(_, _, _, _)
substitute_args(args, substs, c, a) ==
    FoldLeft(LAMBDA acc, arg :
                 IF arg.k = "ty"
                 THEN LET r == substitute_ty(arg.ty, substs, acc[1], a)
                      IN <<r[1], Append(acc[2], TyArg(r[2]))>>
                 ELSE <<acc[1], Append(acc[2], arg)>>,
             <<c, <<>>>>, args)

substitute_substitution(s, substs, c, a) ==
    LET r == substitute_args(substitution_args(a, s), substs, c, a)
    IN intern_substitution(r[1], r[2])

substitute_len(len, substs, a) ==
    LET args == substitution_args(a, substs)
    IN IF len.k = "param" /\ len.index + 1 \in DOMAIN args /\ args[len.index + 1].k = "const"
       THEN args[len.index + 1].c
       ELSE len

substitute_param(index, substs, a) ==
    LET args == substitution_args(a, substs)
    IN IF index + 1 \in DOMAIN args /\ args[index + 1].k = "ty" THEN args[index + 1].ty ELSE ERROR

substitute_ty(t, substs, c, a) ==
    LET kind == ty_kind(a, t)
    IN CASE kind.k = "param" -> <<c, substitute_param(kind.index, substs, a)>>
         [] kind.k \in {"ref", "ptr", "slice"} ->
                LET r == substitute_ty(kind.elem, substs, c, a)
                IN IF r[2] = kind.elem THEN <<r[1], t>> ELSE alloc_ty(r[1], [kind EXCEPT !.elem = r[2]])
         [] kind.k = "array" ->
                LET r == substitute_ty(kind.elem, substs, c, a)
                    len == substitute_len(kind.len, substs, a)
                IN IF r[2] = kind.elem /\ len = kind.len THEN <<r[1], t>>
                   ELSE alloc_ty(r[1], [kind EXCEPT !.elem = r[2], !.len = len])
         [] kind.k \in {"tuple", "adt", "fndef"} ->
                LET args == substitution_args(a, kind.substs)
                    r == substitute_args(args, substs, c, a)
                    s == intern_substitution(r[1], r[2])
                IN IF r[2] = args THEN <<r[1], t>> ELSE alloc_ty(s[1], [kind EXCEPT !.substs = s[2]])
         [] kind.k = "fnptr" ->
                LET args == substitution_args(a, kind.substs)
                    r == substitute_args(args, substs, c, a)
                    o == substitute_ty(kind.elem, substs, r[1], a)
                    s == intern_substitution(o[1], r[2])
                IN IF r[2] = args /\ o[2] = kind.elem THEN <<o[1], t>>
                   ELSE alloc_ty(s[1], [kind EXCEPT !.substs = s[2], !.elem = o[2]])
         [] OTHER -> <<c, t>>

substitute_operand(op, substs, c, a) ==
    IF op.k # "const" THEN <<c, op>>
    ELSE LET r == substitute_ty(op.ty, substs, c, a)
         IN IF op.c.k \in {"Fn", "ConstRef"}
            THEN LET s == substitute_substitution(op.c.substs, substs, r[1], a)
                 IN <<s[1], [op EXCEPT !.ty = r[2], !.c.substs = s[2]]>>
            ELSE <<r[1], [op EXCEPT !.ty = r[2]]>>

substitute_each(Sub(_, _), c, xs) ==
    FoldLeft(LAMBDA acc, x : LET r == Sub(acc[1], x) IN <<r[1], Append(acc[2], r[2])>>, <<c, <<>>>>, xs)

\* Only the target of a cast and the type of a repeat count, not the operands.
substitute_rvalue(rv, substs, c, a) ==
    IF rv.k \in {"Cast", "Repeat"}
    THEN LET r == substitute_ty(rv.ty, substs, c, a) IN <<r[1], [rv EXCEPT !.ty = r[2]]>>
    ELSE <<c, rv>>

substitute_terminator(term, substs, c, a) ==
    CASE term.k = "Call" ->
             LET f == substitute_operand(term.func, substs, c, a)
                 r == substitute_each(LAMBDA d, op : substitute_operand(op, substs, d, a), f[1], term.args)
             IN <<r[1], [term EXCEPT !.func = f[2], !.args = r[2]]>>
      [] term.k = "SwitchInt" ->
             LET d == substitute_operand(term.discr, substs, c, a)
                 r == substitute_ty(term.ty, substs, d[1], a)
             IN <<r[1], [term EXCEPT !.discr = d[2], !.ty = r[2]]>>
      [] OTHER -> <<c, term>>

substitute_block(block, substs, c, a) ==
    LET s == substitute_each(LAMBDA d, rv : substitute_rvalue(rv, substs, d, a), c, block.stmts)
        r == substitute_terminator(block.term, substs, s[1], a)
    IN <<r[1], [stmts |-> s[2], term |-> r[2]]>>

substitute_body(body, substs, a) ==
    LET l == substitute_each(LAMBDA d, t : substitute_ty(t, substs, d, a), NewArena, body.locals)
        b == substitute_each(LAMBDA d, x : substitute_block(x, substs, d, a), l[1], body.blocks)
    IN [body EXCEPT !.locals = l[2], !.blocks = b[2]]
----------------------------------------------------------------------------
\* Which types need drop.

RECURSIVE is_copy(_, _)
is_copy(a, t) ==
    LET kind == ty_kind(a, t)
    IN CASE kind.k \in {"bool", "u8", "usize", "i32", "never", "unit"} -> TRUE
         [] kind.k = "array" -> is_copy(a, kind.elem)
         [] kind.k = "tuple" -> \A u \in TyArgs(a, kind.substs) : is_copy(a, u)
         [] OTHER -> FALSE

RECURSIVE needs_drop_rec(_, _, _, _)
needs_drop_rec(p, a, t, visited) ==
    LET kind == ty_kind(a, t)
        Inner(u) == needs_drop_rec(p, a, u, visited \cup {t})
    IN /\ ~is_copy(a, t)
       /\ t \notin visited
       /\ CASE kind.k = "string" -> TRUE
            [] kind.k \in {"slice", "array"} -> Inner(kind.elem)
            [] kind.k \in {"tuple", "closure"} -> \E u \in TyArgs(a, kind.substs) : Inner(u)
            [] kind.k = "adt" ->
                   \/ kind.id \in p.dropImpls
                   \/ /\ kind.id \in DOMAIN p.adts
                      /\ \/ p.adts[kind.id].kind = "union"
                         \/ \E v \in DOMAIN p.adts[kind.id].variants :
                                \E f \in DOMAIN p.adts[kind.id].variants[v] : Inner(p.adts[kind.id].variants[v][f])
            [] OTHER -> FALSE

needs_drop(p, a, t) == needs_drop_rec(p, a, t, {})
----------------------------------------------------------------------------
\* Drop glue. Block n of the code is blocks[n + 1]; the value is local 0.

Block(term) == [stmts |-> <<>>, term |-> term]
ReturnTerm == [k |-> "Return"]
Elem(kind, i) == [k |-> kind, i |-> i]
DropOf(proj, target) == [k |-> "Drop", local |-> 0, proj |-> proj, target |-> target]

DummyBody == [owner |-> 0, locals |-> <<UNIT>>, blocks |-> <<Block([k |-> "Unreachable"])>>]
ReturnOnly == [DummyBody EXCEPT !.blocks = <<Block(ReturnTerm)>>]
Panicked == [DummyBody EXCEPT !.owner = -1]

FieldsToDrop(p, a, fields) ==
    SelectSeq([i \in DOMAIN fields |-> i], LAMBDA i : needs_drop(p, a, fields[i]))

\* Blocks that drop projs in order and go to ret, built from the last one.
DropChain(blocks, projs, ret) ==
    FoldRight(LAMBDA proj, acc : <<Append(acc[1], Block(DropOf(proj, acc[2]))), Len(acc[1])>>, projs, <<blocks, ret>>)

\* As DropChain, with the first drop in block 0.
ChainFromStart(projs) ==
    LET chain == DropChain(<<Block(ReturnTerm), Block(ReturnTerm)>>, Tail(projs), 1)
    IN [DummyBody EXCEPT !.blocks = [chain[1] EXCEPT ![1] = Block(DropOf(Head(projs), chain[2]))]]

generate_struct_drop_glue(p, a, adt) ==
    IF adt.variants = <<>> THEN Panicked
    ELSE LET fields == FieldsToDrop(p, a, adt.variants[1])
         IN IF fields = <<>> THEN ReturnOnly
            ELSE ChainFromStart([i \in DOMAIN fields |-> <<Elem("Field", fields[i] - 1)>>])

VariantProjs(p, a, adt, v) ==
    LET fields == FieldsToDrop(p, a, adt.variants[v])
    IN [i \in DOMAIN fields |-> <<Elem("Downcast", v - 1), Elem("Field", fields[i] - 1)>>]

generate_enum_drop_glue(p, a, adt) ==
    LET built == FoldLeft(LAMBDA acc, v :
                              LET chain == DropChain(acc[1], VariantProjs(p, a, adt, v), 1)
                              IN <<chain[1], Append(acc[2], <<v - 1, chain[2]>>)>>,
                          <<<<Block(ReturnTerm), Block(ReturnTerm)>>, <<>>>>,
                          [v \in DOMAIN adt.variants |-> v])
        switch == [k |-> "SwitchInt", discr |-> [k |-> "place", local |-> 1, proj |-> <<>>],
                   ty |-> U8, targets |-> built[2], otherwise |-> 1]
    IN [DummyBody EXCEPT
            !.locals = <<UNIT, U8>>,
            !.blocks = [built[1] EXCEPT ![1] = [stmts |-> <<[k |-> "Discriminant", dest |-> 1]>>, term |-> switch]]]

\* Element i is Index(i), the element whose number is in local i.
generate_array_drop_glue(len) ==
    IF len.k # "uint" THEN Panicked
    ELSE ChainFromStart([i \in 1..(IF len.n = 0 THEN 1 ELSE len.n) |-> <<Elem("Index", i - 1)>>])

\* Locals 1 and 2 are the index and the length.
SliceGlue ==
    LET header == [stmts |-> <<[k |-> "Len", dest |-> 2], [k |-> "Set", dest |-> 1, n |-> 0]>>,
                   term |-> [k |-> "SwitchInt", discr |-> [k |-> "place", local |-> 1, proj |-> <<>>],
                             ty |-> USIZE, targets |-> <<<<0, 1>>>>, otherwise |-> 3]]
        inc == [stmts |-> <<[k |-> "Add", dest |-> 1, n |-> 1]>>, term |-> [k |-> "Goto", target |-> 0]]
    IN [DummyBody EXCEPT !.locals = <<UNIT, USIZE, USIZE>>,
                         !.blocks = <<header, Block(ReturnTerm), inc, Block(DropOf(<<Elem("Index", 1)>>, 2))>>]

generate_drop_glue(p, a, t) ==
    LET kind == ty_kind(a, t)
    IN CASE ~needs_drop(p, a, t) -> ReturnOnly
         [] kind.k = "adt" /\ kind.id \in DOMAIN p.adts ->
                LET adt == p.adts[kind.id]
                IN CASE adt.kind = "struct" -> generate_struct_drop_glue(p, a, adt)
                     [] adt.kind = "enum" -> generate_enum_drop_glue(p, a, adt)
                     [] OTHER -> ReturnOnly
         [] kind.k = "array" /\ needs_drop(p, a, kind.elem) -> generate_array_drop_glue(kind.len)
         [] kind.k = "slice" /\ needs_drop(p, a, kind.elem) -> SliceGlue
         [] OTHER -> ReturnOnly
----------------------------------------------------------------------------
\* The collector. Its state: arena, queue, seen, items, errors, dead.
\* cache holds the items pushed; between two items it is seen.

FnItem(def, substs) == [k |-> "Fn", def |-> def, substs |-> substs]
GlueItem(t) == [k |-> "DropGlue", ty |-> t]
StaticItem(def) == [k |-> "Static", def |-> def]

enqueue(st, item) == IF item \in st.seen THEN st ELSE [st EXCEPT !.queue = Append(@, item)]

\* The body of an item, and whether the provider reports that there is none.
body_of(p, a, item) ==
    CASE item.k = "Fn" /\ item.def \notin DOMAIN p.fns -> <<DummyBody, TRUE>>
      [] item.k = "Fn" -> <<IF item.substs.len = 0 THEN p.fns[item.def]
                            ELSE substitute_body(p.fns[item.def], item.substs, a), FALSE>>
      [] item.k = "Static" -> <<DummyBody, FALSE>>
      [] item.k = "DropGlue" -> <<generate_drop_glue(p, a, item.ty), FALSE>>

RECURSIVE peel_refs(_, _)
peel_refs(a, t) == IF ty_kind(a, t).k = "ref" THEN peel_refs(a, ty_kind(a, t).elem) ELSE t

resolve_trait_method(p, a, trait, recv, name) ==
    LET kind == ty_kind(a, peel_refs(a, recv))
    IN IF kind.k = "adt" /\ <<trait, kind.id, name>> \in DOMAIN p.methods
       THEN <<p.methods[<<trait, kind.id, name>>]>>
       ELSE <<>>

ReceiverTy(body, args) ==
    IF args = <<>> THEN <<>>
    ELSE IF args[1].k = "const" THEN <<args[1].ty>>
    ELSE IF args[1].local < Len(body.locals) THEN <<body.locals[args[1].local + 1]>>
    ELSE <<>>

devirtualize_block(p, a, body, block) ==
    LET term == block.term
        recv == ReceiverTy(body, term.args)
        method == resolve_trait_method(p, a, term.func.c.trait, recv[1], term.func.c.name)
    IN IF term.k = "Call" /\ term.func.k = "const" /\ term.func.c.k = "VirtualMethod" /\ recv # <<>> /\ method # <<>>
       THEN LET fn == alloc_ty(a, [k |-> "fndef", id |-> method[1], substs |-> EmptySubsts])
            IN <<fn[1], [block EXCEPT !.term.func =
                            [k |-> "const", c |-> [k |-> "Fn", def |-> method[1], substs |-> EmptySubsts], ty |-> fn[2]]]>>
       ELSE <<a, block>>

devirtualize(p, a, body) ==
    LET r == substitute_each(LAMBDA b, block : devirtualize_block(p, b, body, block), a, body.blocks)
    IN <<r[1], [body EXCEPT !.blocks = r[2]]>>

HasParam(a, substs) == \E t \in TyArgs(a, substs) : ty_kind(a, t).k = "param"

\* The instance a call refers to, by the type of its callee.
CalleeItem(a, func) ==
    LET kind == ty_kind(a, func.ty)
    IN FnItem(func.c.def, IF kind.k = "fndef" /\ ~HasParam(a, kind.substs) THEN kind.substs ELSE EmptySubsts)

IsFn(op) == op.k = "const" /\ op.c.k = "Fn"

\* With a type context, functions that are not called are not collected.
scan_terminator(st, term) ==
    IF term.k = "Call" /\ IsFn(term.func) THEN enqueue(st, CalleeItem(st.arena, term.func)) ELSE st

DropLocals(body) ==
    LET drops == SelectSeq(body.blocks, LAMBDA block : block.term.k = "Drop")
    IN [i \in DOMAIN drops |-> drops[i].term.local]

scan_body_for_refs(st, body) ==
    LET calls == FoldLeft(LAMBDA s, block : scan_terminator(s, block.term), st, body.blocks)
    IN FoldLeft(LAMBDA s, l : IF l < Len(body.locals) THEN enqueue(s, GlueItem(body.locals[l + 1])) ELSE s,
                calls, DropLocals(body))

\* A handle of another arena can be looked up past the end of this one.
CallsInBounds(a, body) ==
    \A b \in DOMAIN body.blocks :
        LET term == body.blocks[b].term
            kind == ty_kind(a, term.func.ty)
        IN term.k = "Call" /\ IsFn(term.func) =>
               /\ kind # OutOfBounds
               /\ kind.k = "fndef" =>
                      /\ SubstsInBounds(a, kind.substs)
                      /\ \A t \in TyArgs(a, kind.substs) : ty_kind(a, t) # OutOfBounds

ItemInBounds(a, item) ==
    CASE item.k = "Fn" -> SubstsInBounds(a, item.substs)
      [] item.k = "DropGlue" -> ty_kind(a, item.ty) # OutOfBounds
      [] OTHER -> TRUE

\* One item taken from the queue; it may have been taken before.
collect_item(p, st) ==
    LET item == Head(st.queue)
        rest == [st EXCEPT !.queue = Tail(@)]
        found == body_of(p, st.arena, item)
        direct == devirtualize(p, st.arena, found[1])
        body == direct[2]
        marked == [rest EXCEPT !.seen = @ \cup {item}, !.arena = direct[1], !.errors = @ + (IF found[2] THEN 1 ELSE 0)]
    IN IF ~ItemInBounds(st.arena, item) \/ found[1] = Panicked \/ ~CallsInBounds(direct[1], body)
       THEN [st EXCEPT !.queue = <<>>, !.dead = TRUE]
       ELSE [scan_body_for_refs(marked, body) EXCEPT !.items = Append(@, [item |-> item, body |-> body, module |-> 0])]

collect_unchecked(p, st) == collect_item(p, st)
collect_one(p, st) ==
    IF Head(st.queue) \in st.seen THEN [st EXCEPT !.queue = Tail(@)] ELSE collect_item(p, st)

RECURSIVE collect_all(_, _, _)
collect_all(p, st, fuel) ==
    IF st.queue = <<>> \/ fuel = 0 THEN st ELSE collect_all(p, collect_one(p, st), fuel - 1)

collect(p, start, fuel) ==
    collect_all(p, [arena |-> p.arena, queue |-> start, seen |-> {}, items |-> <<>>, errors |-> 0, dead |-> FALSE], fuel)
----------------------------------------------------------------------------
\* Roots. An item has a span and the file its attributes with theirs.

span_intersects(x, y) == x.lo <= y.hi /\ y.lo <= x.hi
has_attr_in_span(attrs, item, name) == \E at \in attrs : at.name = name /\ span_intersects(item, at)

IsRoot(attrs, item) ==
    \/ item.kind = "fn" /\ (item.name = "main" \/ has_attr_in_span(attrs, item, "start")
                               \/ has_attr_in_span(attrs, item, "no_mangle"))
    \/ item.kind = "static" /\ has_attr_in_span(attrs, item, "used")

\* names: the ids of the def map's value namespace; the HIR id otherwise.
RootItem(names, item) ==
    LET id == IF item.name \in DOMAIN names THEN names[item.name] ELSE item.id
    IN IF item.kind = "fn" THEN FnItem(id, intern_substitution(NewArena, <<>>)[2]) ELSE StaticItem(id)

discover_mono_roots(hir, attrs, names) ==
    LET roots == SelectSeq(hir, LAMBDA item : IsRoot(attrs, item))
    IN [items |-> [i \in DOMAIN roots |-> RootItem(names, roots[i])], warned |-> roots = <<>>]
----------------------------------------------------------------------------
\* Codegen units: sets of item numbers in the order of their modules.

GroupsOf(modules) ==
    LET Mods == SetToSortSeq({modules[i] : i \in DOMAIN modules}, <)
    IN [g \in DOMAIN Mods |-> {i \in DOMAIN modules : modules[i] = Mods[g]}]

\* min_by_key keeps the first of equal keys, max_by_key the last.
Size(groups, g) == Cardinality(groups[g])
Smallest(groups) ==
    CHOOSE g \in DOMAIN groups :
        \A h \in DOMAIN groups : Size(groups, g) < Size(groups, h) + (IF g <= h THEN 1 ELSE 0)
Largest(groups) ==
    CHOOSE g \in DOMAIN groups :
        \A h \in DOMAIN groups : Size(groups, h) < Size(groups, g) + (IF h <= g THEN 1 ELSE 0)

\* The target keeps its number when it is before the removed group.
merge_once(groups) ==
    LET small == Smallest(groups)
        large == Largest(groups)
        target == IF large > small THEN large - 1 ELSE large
    IN [RemoveAt(groups, small) EXCEPT ![target] = @ \cup groups[small]]

RECURSIVE merge_groups(_, _)
merge_groups(groups, max_cgus) ==
    IF Len(groups) <= max_cgus \/ Len(groups) < 2 THEN groups ELSE merge_groups(merge_once(groups), max_cgus)

partition(modules, max_cgus) ==
    IF modules = <<>> THEN <<>> ELSE merge_groups(GroupsOf(modules), max_cgus)
----------------------------------------------------------------------------
\* Polymorphization: the parameters a body uses, as sets of indices.

RECURSIVE mark_used_params(_, _)
mark_used_params_in_const(a, c) == IF c.k = "param" THEN {c.index} ELSE {}
mark_used_params_in_subst(a, s) ==
    UNION {IF arg.k = "ty" THEN mark_used_params(a, arg.ty) ELSE mark_used_params_in_const(a, arg.c) :
           arg \in ToSet(substitution_args(a, s))}
mark_used_params(a, t) ==
    LET kind == ty_kind(a, t)
    IN CASE kind.k = "param" -> {kind.index}
         [] kind.k \in {"ref", "ptr", "slice"} -> mark_used_params(a, kind.elem)
         [] kind.k = "array" -> mark_used_params(a, kind.elem) \cup mark_used_params_in_const(a, kind.len)
         [] kind.k \in {"tuple", "adt", "closure", "opaque", "fndef", "projection", "dyn"} ->
                mark_used_params_in_subst(a, kind.substs)
         [] kind.k = "fnptr" -> mark_used_params_in_subst(a, kind.substs) \cup mark_used_params(a, kind.elem)
         [] OTHER -> {}

\* The type of a place (glyim-mir), ERROR where a projection does not fit.
field_ty(p, id, i) ==
    IF id \in DOMAIN p.adts /\ i + 1 \in DOMAIN p.adts[id].fields THEN p.adts[id].fields[i + 1] ELSE ERROR
ElemTy(p, a, t, elem) ==
    LET kind == ty_kind(a, t)
        args == substitution_args(a, kind.substs)
    IN CASE elem.k = "Deref" /\ kind.k \in {"ref", "ptr"} -> kind.elem
         [] elem.k = "Field" /\ kind.k = "tuple" ->
                IF elem.i + 1 \in DOMAIN args /\ args[elem.i + 1].k = "ty" THEN args[elem.i + 1].ty ELSE ERROR
         [] elem.k = "Field" /\ kind.k = "adt" -> field_ty(p, kind.id, elem.i)
         [] elem.k \in {"Index", "ConstantIndex"} /\ kind.k \in {"array", "slice"} -> kind.elem
         [] elem.k = "Subslice" /\ kind.k = "slice" -> t
         [] elem.k = "Subslice" /\ kind.k = "array" -> kind.elem
         [] elem.k = "Downcast" -> t
         [] OTHER -> ERROR
PlaceTy(p, a, body, pl) ==
    FoldLeft(LAMBDA t, elem : ElemTy(p, a, t, elem), body.locals[pl.local + 1], pl.proj)

mark_used_params_in_place(p, a, body, pl) ==
    mark_used_params(a, PlaceTy(p, a, body, pl))
      \cup UNION {mark_used_params(a, body.locals[elem.i + 1]) : elem \in {e \in ToSet(pl.proj) : e.k = "Index" /\ e.i < Len(body.locals)}}

mark_used_params_in_mir_const(a, op) ==
    mark_used_params(a, op.ty) \cup (IF op.c.k \in {"Fn", "ConstRef"} THEN mark_used_params_in_subst(a, op.c.substs) ELSE {})

mark_used_params_in_operand(p, a, body, op) ==
    IF op.k = "const" THEN mark_used_params_in_mir_const(a, op) ELSE mark_used_params_in_place(p, a, body, op)

\* The type of a cast, a repeat or an array and the substs of an aggregate.
mark_used_params_in_rvalue(p, a, body, rv) ==
    UNION {mark_used_params_in_operand(p, a, body, op) : op \in ToSet(rv.ops)}
      \cup (IF rv.k \in {"Cast", "Repeat", "ArrayOf"} THEN mark_used_params(a, rv.ty) ELSE {})
      \cup (IF rv.k = "Aggregate" THEN mark_used_params_in_subst(a, rv.substs) ELSE {})

mark_used_params_in_terminator(p, a, body, term) ==
    CASE term.k = "Call" ->
             UNION {mark_used_params_in_operand(p, a, body, op) : op \in {term.func, term.dest} \cup ToSet(term.args)}
      [] term.k = "SwitchInt" -> mark_used_params_in_operand(p, a, body, term.discr) \cup mark_used_params(a, term.ty)
      [] term.k = "Assert" -> mark_used_params_in_operand(p, a, body, term.cond)
      [] term.k = "Drop" -> mark_used_params_in_place(p, a, body, term)
      [] OTHER -> {}

analyze_used_params(p, a, body) ==
    UNION {mark_used_params(a, body.locals[l]) : l \in DOMAIN body.locals}
      \cup UNION {mark_used_params_in_terminator(p, a, body, body.blocks[b].term)
                    \cup UNION {mark_used_params_in_rvalue(p, a, body, rv) : rv \in ToSet(body.blocks[b].stmts)} :
                  b \in DOMAIN body.blocks}

polymorphize_substs(a, substs, used) ==
    LET args == substitution_args(a, substs)
        Kept(i) == CASE i - 1 \in used \/ args[i].k = "lifetime" -> args[i]
                     [] args[i].k = "ty" -> TyArg(UNIT)
                     [] args[i].k = "const" -> [k |-> "const", c |-> [k |-> "unit"]]
    IN intern_substitution(a, [i \in DOMAIN args |-> Kept(i)])

compute_poly_item(p, a, item, body) ==
    LET kind == IF item.k = "DropGlue" THEN ty_kind(a, item.ty) ELSE [k |-> ""]
        used == analyze_used_params(p, a, body)
    IN CASE item.k = "Fn" /\ item.substs.len # 0 ->
                LET s == polymorphize_substs(a, item.substs, used) IN <<s[1], [item EXCEPT !.substs = s[2]]>>
         [] kind.k \in {"adt", "tuple", "closure", "fndef", "opaque"} /\ kind.substs.len # 0 ->
                LET s == polymorphize_substs(a, kind.substs, used)
                    t == alloc_ty(s[1], [kind EXCEPT !.substs = s[2]])
                IN <<t[1], GlueItem(t[2])>>
         [] OTHER -> <<a, item>>

\* The first of the items with one polymorphic form stands for all of them.
deduplicate(p, a, items) ==
    FoldLeft(LAMBDA acc, data :
                 LET poly == compute_poly_item(p, acc[1], data.item, data.body)
                 IN IF \E i \in DOMAIN acc[2] : acc[2][i].item = poly[2] THEN <<poly[1], acc[2]>>
                    ELSE <<poly[1], Append(acc[2], [data EXCEPT !.item = poly[2]])>>,
             <<a, <<>>>>, items)
----------------------------------------------------------------------------
\* Checks after monomorphization.

RECURSIVE ty_contains_param(_, _)
subst_args_contain_param(a, s) == \E t \in TyArgs(a, s) : ty_contains_param(a, t)
ty_contains_param(a, t) ==
    LET kind == ty_kind(a, t)
    IN CASE kind.k = "param" -> TRUE
         [] kind.k \in {"ref", "ptr", "slice", "array"} -> ty_contains_param(a, kind.elem)
         [] kind.k \in {"tuple", "adt", "closure", "opaque", "fndef"} -> subst_args_contain_param(a, kind.substs)
         [] kind.k = "fnptr" -> subst_args_contain_param(a, kind.substs) \/ ty_contains_param(a, kind.elem)
         [] OTHER -> FALSE

operand_contains_param(a, op) ==
    /\ op.k = "const"
    /\ ty_contains_param(a, op.ty) \/ (op.c.k \in {"Fn", "ConstRef"} /\ subst_args_contain_param(a, op.c.substs))

rvalue_contains_param(a, rv) ==
    /\ rv.k \notin {"Ref", "Discriminant", "Len"}
    /\ \/ \E op \in ToSet(rv.ops) : operand_contains_param(a, op)
       \/ rv.k \in {"Cast", "ArrayOf"} /\ ty_contains_param(a, rv.ty)
       \/ rv.k = "Aggregate" /\ subst_args_contain_param(a, rv.substs)

body_uses_any_param(a, body) ==
    \/ \E l \in DOMAIN body.locals : ty_contains_param(a, body.locals[l])
    \/ \E b \in DOMAIN body.blocks :
           LET term == body.blocks[b].term
           IN \/ \E rv \in ToSet(body.blocks[b].stmts) : rvalue_contains_param(a, rv)
              \/ term.k = "Call" /\ \E op \in {term.func} \cup ToSet(term.args) : operand_contains_param(a, op)
              \/ term.k = "SwitchInt" /\ (operand_contains_param(a, term.discr) \/ ty_contains_param(a, term.ty))
              \/ term.k = "Assert" /\ operand_contains_param(a, term.cond)

check_unsized_locals(a, items) ==
    UNION {{<<i, l>> : l \in {n \in DOMAIN items[i].body.locals :
                                 ty_kind(a, items[i].body.locals[n]).k \in {"slice", "dyn"}}} :
           i \in DOMAIN items}

check_unused_generic_params(a, items) ==
    {i \in DOMAIN items :
        items[i].item.k = "Fn" /\ items[i].item.substs.len # 0 /\ ~body_uses_any_param(a, items[i].body)}

check_large_mono_set(items) == Len(items) > MONO_SET_THRESHOLD
=============================================================================
