-------------------------------- MODULE Solve --------------------------------
(****************************************************************************)
(* The types of glyim-type and what is decided about them. Types of one     *)
(* arena are interned by structure, so a type is a tree [k, d, n, a]: its   *)
(* kind, a name or mutability, a number (index, region, length) and the     *)
(* types inside; a function type holds its inputs and then its output.      *)
(* Generic arguments that are no types have the kinds "lifetime", "const".  *)
(* A context c holds adts (fields, variants), negative and manual impls of  *)
(* auto traits, assoc, the associated types of the impls in the order they  *)
(* are found, and hidden, the types behind opaque ones.                     *)
(****************************************************************************)
EXTENDS Integers, Sequences, FiniteSets, SequencesExt

CONSTANTS MAX_RESOLVE_DEPTH,
          ProofDepth,           \* how deep the solver recurses before the stack is gone
          MAX_STRUCT_EQ_DEPTH

Ty(k, d, n, a) == [k |-> k, d |-> d, n |-> n, a |-> a]
Prim(k) == Ty(k, "", 0, <<>>)
ErrorTy == Prim("error")
Param(i) == Ty("param", "", i, <<>>)
Infer(kind, i) == Ty("infer", kind, i, <<>>)
RefTo(t, mut) == Ty("ref", mut, 0, <<t>>)
Adt(id, args) == Ty("adt", id, 0, args)
Tuple(args) == Ty("tuple", "", 0, args)
Projection(trait, args) == Ty("proj", trait, 0, args)

IsTy(arg) == arg.k \notin {"lifetime", "const"}
TyArgs(t) == SelectSeq(t.a, IsTy)

Scalars == {"bool", "int", "uint", "float", "char", "never", "unit"}

RECURSIVE is_copy(_)
is_copy(t) ==
    \/ t.k \in Scalars
    \/ t.k \in {"array", "tuple"} /\ \A i \in DOMAIN TyArgs(t) : is_copy(TyArgs(t)[i])

Fields(c, id) == c.adts[id].fields
VariantFields(c, id) == FlattenSeq(c.adts[id].variants)

\* Only the variants are looked at; an unknown ADT is unsized.
RECURSIVE is_sized(_, _)
is_sized(c, t) ==
    CASE t.k \in {"slice", "dyn", "opaque"} -> FALSE
      [] t.k \in {"array", "tuple"} -> \A i \in DOMAIN TyArgs(t) : is_sized(c, TyArgs(t)[i])
      [] t.k = "adt" ->
           /\ t.d \in DOMAIN c.adts
           /\ \A i \in DOMAIN VariantFields(c, t.d) : is_sized(c, VariantFields(c, t.d)[i])
      [] OTHER -> TRUE

is_valid_cast(c, from, to) ==
    CASE from.k \in {"int", "uint"} /\ to.k \in {"int", "uint", "float"} -> TRUE
      [] from.k = "float" /\ to.k \in {"float", "int", "uint"} -> TRUE
      [] from.k \in {"ptr", "ref"} /\ to.k \in {"ptr", "int"} -> TRUE
      [] from.k \in {"bool", "char"} /\ to.k \in {"int", "uint"} -> TRUE
      [] from.k = "adt" /\ to.k \in {"int", "uint"} ->
           from.d \in DOMAIN c.adts /\ c.adts[from.d].kind = "enum" /\ VariantFields(c, from.d) = <<>>
      [] OTHER -> from = to

\* Regions are numbers; a type's n is its region where it is a ref or a dyn.
Erased == 0
Static == 1
ReVar(i) == 10 + i
EarlyBound(i) == 20 + i
LateBound(i) == 30 + i
Placeholder(i) == 40 + i
RegionKind(r) == r \div 10
RegionFlags(t) ==
    CASE RegionKind(t.n) = 1 /\ t.k = "ref" -> {"RE_INFER"} [] RegionKind(t.n) = 2 /\ t.k = "ref" -> {"RE_PARAM"}
      [] RegionKind(t.n) = 4 -> {"RE_PLACEHOLDER"} [] OTHER -> {}

\* The flags a type carries: what is open in it. The predicates of a dyn type
\* are of the kinds trait, region_outlives, type_outlives, well_formed, coerce.
RECURSIVE compute_flags(_)
compute_flags(t) ==
    LET Inside == UNION {compute_flags(TyArgs(t)[i]) : i \in DOMAIN TyArgs(t)}
    IN CASE t.k = "infer" -> {"TY_INFER"}
         [] t.k = "param" -> {"TY_PARAM"}
         [] t.k = "error" -> {"ERROR"}
         [] t.k = "bound" -> {"TY_PLACEHOLDER"}
         [] t.k \in {"region_outlives", "type_outlives", "well_formed", "coerce"} -> {}
         [] t.k \in {"ref", "dyn"} -> RegionFlags(t) \cup Inside
         [] OTHER -> Inside
----------------------------------------------------------------------------
\* Associated types and substitution of parameters.
Entries(c, trait, Match(_)) == SelectSeq(c.assoc, LAMBDA e : e.trait = trait /\ Match(e.self))
SameAdt(s, t) == t.k = "adt" /\ s.k = "adt" /\ s.d = t.d

\* The impl of this very type, or else any impl for the same ADT.
resolve_associated_type(c, self, trait) ==
    LET exact == Entries(c, trait, LAMBDA s : s = self)
        by_adt == Entries(c, trait, LAMBDA s : SameAdt(s, self))
    IN IF exact # <<>> THEN <<exact[1].ty>> ELSE IF by_adt # <<>> THEN <<by_adt[1].ty>> ELSE <<>>

\* The parameters of the impl, read off the first impl of the trait whose
\* arguments align; entries of impls that fail half-way stay in the map.
RECURSIVE AlignArgs(_, _, _)
AlignArgs(ia, ca, map) ==
    IF ia = <<>> THEN [ok |-> TRUE, map |-> map]
    ELSE IF Head(ia).k = "param"
    THEN AlignArgs(Tail(ia), Tail(ca), (Head(ia).n :> Head(ca)) @@ map)
    ELSE IF Head(ia) = Head(ca) THEN AlignArgs(Tail(ia), Tail(ca), map) ELSE [ok |-> FALSE, map |-> map]

RECURSIVE FirstAligned(_, _, _)
FirstAligned(impls, ca, map) ==
    IF impls = <<>> THEN map
    ELSE LET i == Head(impls).self
             r == AlignArgs(i.a, ca, map)
         IN IF i.k \notin {"adt", "tuple"} \/ Len(i.a) # Len(ca) THEN FirstAligned(Tail(impls), ca, map)
            ELSE IF r.ok THEN r.map ELSE FirstAligned(Tail(impls), ca, r.map)

impl_param_subst(c, self, trait) ==
    IF self.k \in {"adt", "tuple"} THEN FirstAligned(Entries(c, trait, LAMBDA s : TRUE), self.a, <<>>)
    ELSE <<>>

\* subst_ty: raw pointers, function pointers and closures are left alone.
RECURSIVE subst_ty(_, _, _)
subst_args(c, args, s) == [i \in DOMAIN args |-> IF IsTy(args[i]) THEN subst_ty(c, args[i], s) ELSE args[i]]
subst_projection(c, t, s) ==
    LET self == IF t.a # <<>> /\ IsTy(t.a[1]) THEN subst_ty(c, t.a[1], s) ELSE ErrorTy
        found == resolve_associated_type(c, self, t.d)
    IN IF t.a = <<>> \/ ~IsTy(t.a[1]) \/ self = t.a[1] THEN t
       ELSE IF found = <<>> THEN Projection(t.d, <<self>>)
       ELSE subst_ty(c, found[1], impl_param_subst(c, self, t.d))
subst_ty(c, t, s) ==
    IF DOMAIN s = {} THEN t
    ELSE CASE t.k = "param" -> IF t.n \in DOMAIN s /\ IsTy(s[t.n]) THEN s[t.n] ELSE t
           [] t.k \in {"ref", "adt", "tuple", "fndef", "slice"} -> [t EXCEPT !.a = subst_args(c, t.a, s)]
           [] t.k = "array" ->
                LET inner == [t EXCEPT !.a = subst_args(c, t.a, s)]
                    const == t.d = "param" /\ t.n \in DOMAIN s /\ s[t.n].k = "const"
                IN IF const THEN [inner EXCEPT !.d = "value", !.n = s[t.n].n] ELSE inner
           [] t.k = "proj" -> subst_projection(c, t, s)
           [] OTHER -> t

\* The target of a dereference, through a registered Deref impl for an ADT.
deref_ty(c, t) ==
    IF t.k \in {"ref", "ptr"} THEN <<t.a[1]>>
    ELSE LET exact == Entries(c, "Deref", LAMBDA s : s = t)
             template == Entries(c, "Deref", LAMBDA s : SameAdt(s, t))
         IN IF t.k # "adt" \/ template = <<>> THEN <<>>
            ELSE IF exact # <<>> THEN <<Last(exact).ty>>
            ELSE LET target == Last(template).ty
                 IN IF target.k = "param" /\ target.n < Len(t.a) /\ IsTy(t.a[target.n + 1]) THEN <<t.a[target.n + 1]>> ELSE <<>>
----------------------------------------------------------------------------
\* Auto traits: a depth first walk with a cache of the types done and the set
\* of the types under way, which are assumed to have every trait.
AllTraits == <<"Send", "Sync", "Unpin">>
AllFlags == {"Send", "Sync", "Unpin"}
NewWalk == [cache |-> <<>>, evaluating |-> {}]
Under(walk, t) == [walk EXCEPT !.evaluating = @ \cup {t}]
Cached(walk, t, flags) ==
    [cache |-> (t :> flags) @@ walk.cache, evaluating |-> walk.evaluating \ {t}]

NothingUnderWay == {}
WhatIsUnderWay == AllFlags

RECURSIVE compute_auto_traits_recursive(_, _, _)
Meet(c, ts, walk) ==
    FoldLeft(LAMBDA acc, t : LET r == compute_auto_traits_recursive(c, t, acc.walk)
                             IN [flags |-> acc.flags \cap r.flags, walk |-> r.walk],
             [flags |-> AllFlags, walk |-> walk], ts)

\* Up to the first field without the trait.
RECURSIVE fields_have(_, _, _, _)
fields_have(c, fields, trait, walk) ==
    IF fields = <<>> THEN [ok |-> TRUE, walk |-> walk]
    ELSE LET r == compute_auto_traits_recursive(c, Head(fields), walk)
         IN IF trait \in r.flags THEN fields_have(c, Tail(fields), trait, r.walk) ELSE [ok |-> FALSE, walk |-> r.walk]

adt_auto_traits(c, id, walk) ==
    FoldLeft(LAMBDA acc, trait :
                 LET r == fields_have(c, Fields(c, id), trait, acc.walk)
                 IN CASE acc.unknown \/ <<id, trait>> \in c.manual -> acc
                      [] <<id, trait>> \in c.negative -> [acc EXCEPT !.flags = @ \ {trait}]
                      [] id \notin DOMAIN c.adts -> [acc EXCEPT !.flags = {}, !.unknown = TRUE]
                      [] OTHER -> [acc EXCEPT !.flags = IF r.ok THEN @ ELSE @ \ {trait}, !.walk = r.walk],
             [flags |-> AllFlags, walk |-> walk, unknown |-> FALSE], AllTraits)

compute_auto_traits_for_kind(c, t, walk) ==
    CASE t.k \in Scalars \cup {"string", "fnptr", "fndef"} -> [flags |-> AllFlags, walk |-> walk]
      [] t.k = "ref" ->
           LET r == compute_auto_traits_recursive(c, t.a[1], walk)
               shared == IF "Sync" \in r.flags THEN {"Send", "Sync"} ELSE {}
           IN [flags |-> {"Unpin"} \cup (IF t.d = "not" THEN shared ELSE r.flags \cap {"Send", "Sync"}), walk |-> r.walk]
      [] t.k = "ptr" -> [flags |-> {"Unpin"}, walk |-> walk]
      [] t.k \in {"slice", "array", "tuple", "closure"} -> Meet(c, TyArgs(t), walk)
      [] t.k = "adt" -> adt_auto_traits(c, t.d, walk)
      [] t.k = "opaque" /\ t.d \in DOMAIN c.hidden -> compute_auto_traits_recursive(c, c.hidden[t.d], walk)
      [] OTHER -> [flags |-> {}, walk |-> walk]

compute_auto_traits_recursive(c, t, walk) ==
    IF t \in DOMAIN walk.cache THEN [flags |-> walk.cache[t], walk |-> walk]
    ELSE IF t \in walk.evaluating THEN [flags |-> WhatIsUnderWay, walk |-> walk]
    ELSE LET r == compute_auto_traits_for_kind(c, t, Under(walk, t))
         IN [flags |-> r.flags, walk |-> Cached(r.walk, t, r.flags)]

compute_auto_traits(c, t) == compute_auto_traits_recursive(c, t, NewWalk).flags
implements_auto_trait(c, t, trait) == trait \in compute_auto_traits(c, t)
----------------------------------------------------------------------------
\* What keeps a trait from being used as dyn Trait.
check_object_safety(input) ==
    (IF input.requires_self_sized THEN {<<"SelfSized", 0>>} ELSE {})
      \cup {<<"GenericMethod", m>> : m \in {m \in DOMAIN input.methods : input.methods[m].has_generic_params}}
      \cup {<<"ByValueSelf", m>> : m \in {m \in DOMAIN input.methods : input.methods[m].self_kind = "value" /\ ~input.requires_self_sized}}
      \cup {<<"StaticMethod", m>> : m \in {m \in DOMAIN input.methods : input.methods[m].self_kind = "none"}}
      \cup {<<"UnconstrainedAssociatedType", t>> : t \in {t \in DOMAIN input.associated_types : ~input.associated_types[t]}}
      \cup {<<"SupertraitNotObjectSafe", s>> : s \in {s \in DOMAIN input.supertraits : ~input.supertraits[s]}}

-----------------------------------------------------------------------------
(****************************************************************************)
(* glyim-solve.  The inference table (infer.rs): the type, integer and      *)
(* float variables with the type each is bound to, <<>> while it is open,   *)
(* and the universe. Unification binds variables as it goes: what it bound  *)
(* before an error stays bound. Only the two types it is called with are    *)
(* resolved first, never the types inside them. Diagnostics are left out.   *)
(*                                                                          *)
(* The trait solver (solver.rs), the obligations (fulfill.rs) and the       *)
(* higher-ranked bounds (hrtb.rs). A trait reference is                     *)
(* [trait, args]; a predicate is of the kind trait, region_outlives,        *)
(* type_outlives, well_formed or coerce, with its arguments; an impl is     *)
(* [id, ref, predicates]. A context has besides the impls, lang,  *)
(* the builtin traits by name, and the signatures of functions and closures *)
(****************************************************************************)
NewTable == [ty |-> <<>>, int |-> <<>>, float |-> <<>>, regions |-> 0, universe |-> 0]
new_var(tab, kind) == [tab EXCEPT ![kind] = Append(@, <<>>)]
new_region_var(tab) == [tab EXCEPT !.regions = @ + 1]
create_universe(tab) == [tab EXCEPT !.universe = @ + 1]
snapshot(tab) == tab
rollback_to(tab, snap) == snap
commit(tab, snap) == tab
IsVar(t) == t.k = "infer"
probe_var(tab, v) == IF v.n \in DOMAIN tab[v.d] THEN tab[v.d][v.n] ELSE <<>>
Bind(tab, v, t) == [tab EXCEPT ![v.d][v.n] = <<t>>]

\* Only cycles through type variables are noticed before the depth limit.
RECURSIVE resolve_ty_shallow_depth(_, _, _, _)
resolve_ty_shallow_depth(tab, t, depth, visited) ==
    IF depth > MAX_RESOLVE_DEPTH \/ t \in visited THEN ErrorTy
    ELSE IF ~IsVar(t) \/ probe_var(tab, t) = <<>> THEN t
    ELSE resolve_ty_shallow_depth(tab, probe_var(tab, t)[1], depth + 1, visited \cup (IF t.d = "ty" THEN {t} ELSE {}))
resolve_ty_shallow(tab, t) == resolve_ty_shallow_depth(tab, t, 0, {})

\* Projections and dyn types are not entered by the walks below.
Entered == {"ref", "ptr", "slice", "array", "adt", "fndef", "closure", "tuple", "opaque", "fnptr"}

occurs_as_written(tab, v, ty) == ty = v
RECURSIVE occurs(_, _, _)
occurs(tab, v, ty) ==
    LET t == resolve_ty_shallow(tab, ty)
    IN t = v \/ (t.k \in Entered /\ \E i \in DOMAIN TyArgs(t) : occurs(tab, v, TyArgs(t)[i]))

Unified(tab, cs) == [ok |-> TRUE, tab |-> tab, cs |-> cs]
Mismatch(tab) == [ok |-> FALSE, tab |-> tab, cs |-> <<>>]

\* An integer or float variable v against other: the value is the second of
\* the two types, even where that is the variable itself.
unify_num(tab, v, other, b) ==
    IF other.k = v.d \/ (IsVar(other) /\ other.d = v.d) THEN Unified(Bind(tab, v, b), <<>>)
    ELSE IF IsVar(other) /\ other.d = "ty" THEN Unified(Bind(tab, other, v), <<>>)
    ELSE Mismatch(tab)

unify_var(tab, v, other) ==
    IF occurs(tab, v, other) THEN Mismatch(tab) ELSE Unified(Bind(tab, v, other), <<>>)

RECURSIVE unify_tys(_, _, _)
\* The types of two argument lists, up to the first mismatch.
unify_all(r, as, bs) ==
    FoldLeft(LAMBDA acc, i : LET u == unify_tys(acc.tab, as[i], bs[i])
                             IN IF ~acc.ok THEN acc ELSE IF ~u.ok THEN u ELSE [u EXCEPT !.cs = acc.cs \o @],
             r, [i \in DOMAIN as |-> i])

\* The predicates of two dyn types; regions inside become constraints.
unify_predicate_args(r, as, bs) ==
    FoldLeft(LAMBDA acc, i :
                 LET x == as[i]  y == bs[i]
                 IN CASE ~acc.ok -> acc
                      [] IsTy(x) /\ IsTy(y) -> unify_all(acc, <<x>>, <<y>>)
                      [] x.k = "lifetime" /\ y.k = "lifetime" -> IF x = y THEN acc ELSE [acc EXCEPT !.cs = Append(@, <<"RegionEq", x.n, y.n>>)]
                      [] x.k = "const" /\ y.k = "const" /\ x = y -> acc
                      [] OTHER -> Mismatch(acc.tab),
             r, [i \in DOMAIN as |-> i])
unify_predicate(r, p, q) ==
    LET regions == [i \in DOMAIN p.a |-> IF IsTy(p.a[i]) THEN <<"TypeEq", p.a[i], q.a[i]>> ELSE <<"RegionEq", p.a[i].n, q.a[i].n>>]
    IN CASE ~r.ok -> r
         [] p.k # q.k \/ p.d # q.d \/ Len(p.a) # Len(q.a) -> Mismatch(r.tab)
         [] p.k \in {"region_outlives", "type_outlives"} -> IF p = q THEN r ELSE [r EXCEPT !.cs = @ \o regions]
         [] OTHER -> unify_predicate_args(r, p.a, q.a)
unify_dyn(tab, a, b) ==
    IF a.n # b.n \/ Len(a.a) # Len(b.a) THEN Mismatch(tab)
    ELSE FoldLeft(LAMBDA acc, i : unify_predicate(acc, a.a[i], b.a[i]), Unified(tab, <<>>), [i \in DOMAIN a.a |-> i])

\* Types with the same head: a ref adds the equality of its regions, any other
\* argument that is no type is a mismatch.
SameHead(a, b) ==
    /\ a.k = b.k /\ a.d = b.d /\ Len(a.a) = Len(b.a)
    /\ a.k \in Entered \cup {"proj"}
    /\ a.k = "array" => a.n = b.n
    /\ \A i \in DOMAIN a.a : IsTy(a.a[i]) /\ IsTy(b.a[i])

unify_tys(tab, a, b) ==
    CASE a = b -> Unified(tab, <<>>)
      [] {a.k, b.k} \cap {"error", "never"} # {} -> Unified(tab, <<>>)
      [] IsVar(a) /\ a.d = "int" -> unify_num(tab, a, b, b)
      [] IsVar(b) /\ b.d = "int" -> unify_num(tab, b, a, b)
      [] IsVar(a) /\ a.d = "float" -> unify_num(tab, a, b, b)
      [] IsVar(b) /\ b.d = "float" -> unify_num(tab, b, a, b)
      [] IsVar(a) -> unify_var(tab, a, b)
      [] IsVar(b) -> unify_var(tab, b, a)
      [] a.k = "dyn" /\ b.k = "dyn" -> unify_dyn(tab, a, b)
      [] SameHead(a, b) -> unify_all(Unified(tab, IF a.k = "ref" THEN <<<<"RegionEq", a.n, b.n>>>> ELSE <<>>), a.a, b.a)
      [] OTHER -> Mismatch(tab)

unify(tab, a, b) == unify_tys(tab, resolve_ty_shallow(tab, a), resolve_ty_shallow(tab, b))

\* The type a variable stands for, or the variables that are still open. The
\* integer and float variables behind a type variable are not looked at.
RECURSIVE has_unresolved_non_ty_infer(_, _)
has_unresolved_non_ty_infer(tab, t) ==
    IF IsVar(t) THEN t.d # "ty" /\ probe_var(tab, t) = <<>>
    ELSE t.k \in Entered /\ \E i \in DOMAIN TyArgs(t) : has_unresolved_non_ty_infer(tab, TyArgs(t)[i])

RECURSIVE collect_unresolved_vars(_, _)
collect_unresolved_vars(tab, t) ==
    CASE IsVar(t) /\ t.d = "ty" ->
             IF t.n \notin DOMAIN tab.ty THEN <<>>
             ELSE IF tab.ty[t.n] = <<>> THEN <<t.n>> ELSE collect_unresolved_vars(tab, tab.ty[t.n][1])
      [] t.k \in Entered -> FlattenSeq([i \in DOMAIN TyArgs(t) |-> collect_unresolved_vars(tab, TyArgs(t)[i])])
      [] OTHER -> <<>>

fully_resolve(tab, ty) ==
    LET t == resolve_ty_shallow(tab, ty)
        open == collect_unresolved_vars(tab, t)
    IN CASE has_unresolved_non_ty_infer(tab, t) -> [ok |-> FALSE, ty |-> t, open |-> <<>>]
         [] "TY_INFER" \in compute_flags(t) /\ open # <<>> -> [ok |-> FALSE, ty |-> t, open |-> open]
         [] OTHER -> [ok |-> TRUE, ty |-> t, open |-> <<>>]
----------------------------------------------------------------------------
Proven == "Proven"
Ambiguous == "Ambiguous"
DefiniteNo == "DefiniteNo"
NoStack == "stack overflow"

impls_of_trait(c, trait) == SelectSeq(c.impls, LAMBDA i : i.ref.trait = trait)
register_impl(c, impl) == [c EXCEPT !.impls = Append(@, impl)]

tys_match_by_head(p, i) == p = i \/ i.k = "param" \/ p.k = "infer" \/ (p.k = i.k /\ p.d = i.d)
\* What an impl covers: a parameter matches any type, each time
\* it occurs, and an inference variable of the predicate matches anything.
RECURSIVE tys_match(_, _)
generic_args_match(p, i) ==
    CASE IsTy(p) /\ IsTy(i) -> tys_match(p, i)
      [] p.k = "lifetime" /\ i.k = "lifetime" -> TRUE
      [] OTHER -> p.k = "const" /\ i.k = "const" /\ p = i
args_match(ps, is) == Len(ps) = Len(is) /\ \A n \in DOMAIN ps : generic_args_match(ps[n], is[n])
tys_match(p, i) ==
    \/ p = i
    \/ i.k = "param" \/ p.k = "infer"
    \/ p.k = i.k /\ p.k \in {"adt", "ref", "ptr", "slice", "tuple", "fnptr"} /\ p.d = i.d /\ args_match(p.a, i.a)
    \/ p.k = i.k /\ p.k = "array" /\ args_match(p.a, i.a)
matches_trait_ref(p, i) == p.trait = i.trait /\ args_match(p.args, i.args)

builtin_holds(c, name, t) ==
    CASE name = "Copy" -> is_copy(t)
      [] name = "Sized" -> is_sized(c, t)
      [] OTHER -> implements_auto_trait(c, t, name)

\* A non-capturing closure or a function item becomes a function pointer of
\* its signature; inner types matter only where the mutability changes.
fn_coerces(c, a, b) ==
    CASE a.k = "fndef" -> a.d \in DOMAIN c.fnsigs /\ c.fnsigs[a.d] = b
      [] OTHER -> /\ a.d \in DOMAIN c.closures
                  /\ c.closures[a.d].captures = 0
                  /\ c.closures[a.d].sig.a = b.a
RECURSIVE can_coerce(_, _, _)
can_coerce(c, a, b) ==
    \/ a = b
    \/ a.k = "array" /\ b.k = "slice" /\ a.a[1] = b.a[1]
    \/ /\ a.k = b.k /\ a.k \in {"ref", "ptr"}
       /\ a.d = b.d \/ (a.d = "mut" /\ b.d = "not" /\ can_coerce(c, a.a[1], b.a[1]))
    \/ a.k = "ref" /\ b.k = "ptr" /\ a.d = b.d /\ can_coerce(c, a.a[1], b.a[1])
    \/ a.k \in {"fndef", "closure"} /\ b.k = "fnptr" /\ fn_coerces(c, a, b)

\* fulfill.rs has a copy of can_coerce without the step from &T to *const T.
RECURSIVE can_coerce_fulfill(_, _, _)
can_coerce_fulfill(c, a, b) ==
    \/ a = b
    \/ a.k = "array" /\ b.k = "slice" /\ a.a[1] = b.a[1]
    \/ /\ a.k = b.k /\ a.k \in {"ref", "ptr"}
       /\ a.d = b.d \/ (a.d = "mut" /\ b.d = "not" /\ can_coerce_fulfill(c, a.a[1], b.a[1]))
    \/ a.k \in {"fndef", "closure"} /\ b.k = "fnptr" /\ fn_coerces(c, a, b)

RECURSIVE evaluate_predicate(_, _, _)
\* The predicates of an impl as they are written, up to one that fails.
RECURSIVE all_hold(_, _, _)
all_hold(c, preds, depth) ==
    IF preds = <<>> THEN Proven
    ELSE LET first == evaluate_predicate(c, Head(preds), depth)
             rest == all_hold(c, Tail(preds), depth)
         IN IF first \in {DefiniteNo, NoStack} THEN first
            ELSE IF first = Ambiguous /\ rest = Proven THEN Ambiguous ELSE rest

Verdict(results) ==
    LET Count(v) == Len(SelectSeq(results, LAMBDA r : r = v))
    IN CASE Count(NoStack) > 0 -> NoStack
         [] Count(Proven) > 1 -> Ambiguous
         [] Count(Proven) = 1 -> Proven
         [] Count(Ambiguous) > 0 -> Ambiguous
         [] OTHER -> DefiniteNo

prove_trait(c, ref, depth) ==
    LET matching == SelectSeq(impls_of_trait(c, ref.trait), LAMBDA i : matches_trait_ref(ref, i.ref))
        tys == SelectSeq(ref.args, IsTy)
    IN CASE depth = 0 -> NoStack
         [] ref.trait \in DOMAIN c.lang /\ tys # <<>> ->
                IF builtin_holds(c, c.lang[ref.trait], tys[1]) THEN Proven ELSE DefiniteNo
         [] OTHER -> Verdict([i \in DOMAIN matching |-> all_hold(c, matching[i].predicates, depth - 1)])

prove_negative(c, ref) ==
    IF \E i \in DOMAIN impls_of_trait(c, ref.trait) : matches_trait_ref(ref, impls_of_trait(c, ref.trait)[i].ref)
    THEN DefiniteNo ELSE Ambiguous

TraitRefOf(p) == [trait |-> p.d, args |-> p.a]
can_prove(c, p, depth) == IF p.n = 1 THEN prove_negative(c, TraitRefOf(p)) ELSE prove_trait(c, TraitRefOf(p), depth)
try_resolve_projection(c, t, depth) == IF t.k = "proj" THEN prove_trait(c, TraitRefOf(t), depth) ELSE Proven
evaluate_predicate(c, p, depth) ==
    CASE p.k = "trait" -> can_prove(c, p, depth)
      [] p.k \in {"well_formed", "type_outlives"} -> try_resolve_projection(c, p.a[1], depth)
      [] p.k = "region_outlives" -> Proven
      [] p.k = "coerce" -> IF can_coerce(c, p.a[1], p.a[2]) THEN Proven ELSE Ambiguous

\* Orphan rule and overlap: every type counts as local, and only identical
\* heads overlap.
check_coherence(c, impl) ==
    CASE impl.ref.args = <<>> -> "orphan"
      [] \E i \in DOMAIN impls_of_trait(c, impl.ref.trait) :
             LET other == impls_of_trait(c, impl.ref.trait)[i] IN other.id # impl.id /\ other.ref.args = impl.ref.args -> "overlap"
      [] OTHER -> "ok"

\* The queue of obligations: only trait predicates are proved; a diagnostic
\* for each that is not. Beyond limit the rest stays where it is.
RECURSIVE process_obligations(_, _, _)
process_obligations(c, f, limit) ==
    IF f.queue = <<>> THEN [f EXCEPT !.overflow = FALSE]
    ELSE LET p == Head(f.queue)
             g == [f EXCEPT !.queue = Tail(@), !.processed = @ + 1]
         IN IF g.processed > limit THEN [g EXCEPT !.overflow = TRUE]
            ELSE process_obligations(c, [g EXCEPT !.diags = IF p.k # "trait" \/ can_prove(c, p, ProofDepth) = Proven THEN @ ELSE Append(@, p)], limit)
register_obligation(f, p) == [f EXCEPT !.queue = Append(@, p)]
NewFulfillment == [queue |-> <<>>, processed |-> 0, diags |-> <<>>, overflow |-> FALSE]
----------------------------------------------------------------------------
\* Higher-ranked bounds: a binder is [vars, value], its variables of the kinds
\* "region", "ty", "const". The placeholders are numbered by their position
\* among all variables, but found by their position among the regions.
region_map(vars) ==
    LET regions == SelectSeq([i \in DOMAIN vars |-> i], LAMBDA i : vars[i] = "region")
    IN [i \in DOMAIN regions |-> Placeholder(regions[i] - 1)]
substitute_region(r, map) == IF RegionKind(r) = 3 /\ (r % 10) + 1 \in DOMAIN map THEN map[(r % 10) + 1] ELSE r
RECURSIVE substitute(_, _)
substitute(t, map) ==
    CASE t.k = "lifetime" -> [t EXCEPT !.n = substitute_region(@, map)]
      [] t.k = "ref" -> [t EXCEPT !.n = substitute_region(@, map), !.a = <<substitute(@[1], map)>>]
      [] t.k = "dyn" -> [t EXCEPT !.n = substitute_region(@, map)]
      [] OTHER -> [t EXCEPT !.a = [i \in DOMAIN t.a |-> substitute(t.a[i], map)]]
instantiate_binder_with_placeholders(binder) == substitute(binder.value, region_map(binder.vars))

\* Equality by structure, up to a depth; open variables are never equal.
RECURSIVE ty_struct_eq(_, _, _)
ty_struct_eq(a, b, depth) ==
    /\ depth < MAX_STRUCT_EQ_DEPTH
    /\ a.k = b.k /\ a.k \notin {"infer", "bound"}
    /\ a.d = b.d /\ a.n = b.n /\ Len(a.a) = Len(b.a)
    /\ \A i \in DOMAIN a.a : IF IsTy(a.a[i]) THEN ty_struct_eq(a.a[i], b.a[i], depth + 1) ELSE a.a[i] = b.a[i]

RECURSIVE region_in_ty(_, _)
region_in_ty(r, t) ==
    \/ t.k \in {"ref", "dyn"} /\ t.n = r
    \/ t.k \notin {"dyn", "proj"} /\ \E i \in DOMAIN TyArgs(t) : region_in_ty(r, TyArgs(t)[i])
ty_has_open_components(t) == compute_flags(t) \cap {"TY_INFER", "TY_PARAM", "TY_PLACEHOLDER", "RE_INFER", "RE_PARAM", "ERROR"} # {}
ty_is_concrete_well_formed(t) == ~ty_has_open_components(t) /\ t.k \notin {"dyn", "proj"}

RegionOutlives(a, b) ==
    \/ a = b
    \/ RegionKind(a) = 4 /\ b = Static
    \/ a = Static /\ RegionKind(b) = 4
check_hrtb(c, binder) ==
    LET p == instantiate_binder_with_placeholders(binder)
        holds == CASE p.k = "region_outlives" -> RegionOutlives(p.a[1].n, p.a[2].n)
                   [] p.k = "type_outlives" ->
                        p.a[2].n = Static \/ region_in_ty(p.a[2].n, p.a[1]) \/ ~ty_has_open_components(p.a[1])
                   [] p.k = "well_formed" -> ty_is_concrete_well_formed(p.a[1])
                   [] p.k = "coerce" -> ty_struct_eq(p.a[1], p.a[2], 0) \/ can_coerce(c, p.a[1], p.a[2])
    IN IF p.k = "trait" THEN can_prove(c, p, ProofDepth) ELSE IF holds THEN Proven ELSE Ambiguous
=============================================================================
