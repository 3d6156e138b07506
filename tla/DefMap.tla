------------------------------- MODULE DefMap --------------------------------
(****************************************************************************)
(* The definition map of a crate: its modules, what each declares, and the  *)
(* names that its `use` declarations bring in. A node of the syntax tree    *)
(* has a kind, a name, and the nodes and tokens inside it: a `use` its      *)
(* tree, a visibility its tokens and path. An item is public if a           *)
(* visibility comes before it.                                              *)
(****************************************************************************)
EXTENDS Integers, Sequences, SequencesExt, FiniteSetsExt, TLC

Item(kind, name, inner) == [kind |-> kind, name |-> name, inner |-> inner]
VisNode(tokens, path) == [kind |-> "Visibility", tokens |-> tokens, path |-> path]
Path(kind, supers, segments) == [kind |-> kind, supers |-> supers, segments |-> segments]
UseTree(form, path, alias, inner) == [form |-> form, path |-> path, alias |-> alias, inner |-> inner]

Vis(k) == [k |-> k, path |-> <<>>]
PubIn(path) == [k |-> "PubIn", path |-> path]

\* The scope of a module has at most one entry for a name in a namespace.
Namespaces == {"types", "values"}
ModuleData(parent, def_id) == [parent |-> parent, children |-> <<>>, scope |-> {}, def_id |-> def_id]
Entry(ns, name, id, vis) == [ns |-> ns, name |-> name, id |-> id, vis |-> vis]
SameName(d, e) == d.ns = e.ns /\ d.name = e.name
Get(modules, m, ns, name) == {e \in modules[m].scope : e.ns = ns /\ e.name = name}
DeclareAll(modules, m, entries) == [modules EXCEPT ![m].scope = {d \in @ : \A e \in entries : ~SameName(d, e)} \cup entries]
declare(modules, m, name, id, vis, ns) == DeclareAll(modules, m, {Entry(ns, name, id, vis)})

\* The first child of a name; 0 when there is none.
ChildOf(modules, m, name) ==
    LET i == SelectInSeq(modules[m].children, LAMBDA child : child.name = name)
    IN IF i = 0 THEN 0 ELSE modules[m].children[i].id
RECURSIVE Ancestor(_, _, _)
Ancestor(modules, m, n) == IF n = 0 \/ modules[m].parent = 0 THEN m ELSE Ancestor(modules, modules[m].parent, n - 1)
RECURSIVE DepthOf(_, _)
DepthOf(modules, m) == IF modules[m].parent = 0 THEN 0 ELSE 1 + DepthOf(modules, modules[m].parent)
Start(modules, m, path) ==
    CASE path.kind = "Super" -> Ancestor(modules, m, path.supers)
      [] path.kind = "Crate" -> 1
      [] OTHER -> m
Descend(modules, m, segments) ==
    FoldLeft(LAMBDA at, name : IF at = 0 THEN 0 ELSE ChildOf(modules, at, name), m, segments)

(* Resolver::resolve_path: `super` stops at the root.                       *)
resolve_path(modules, m, path) ==
    LET at == Descend(modules, Start(modules, m, path), Front(path.segments))
    IN IF path.segments = <<>> \/ at = 0 THEN {} ELSE UNION {Get(modules, at, ns, Last(path.segments)) : ns \in Namespaces}
(* The module a path ends at: `super` past the root is none.                *)
resolve_module_path_for_modules(modules, m, path) ==
    IF path.kind = "Super" /\ path.supers > DepthOf(modules, m) THEN 0
    ELSE Descend(modules, Start(modules, m, path), path.segments)
----------------------------------------------------------------------------
\* One use declaration of the module m.
import_all_public_for_modules(modules, source, target) == DeclareAll(modules, target, {e \in modules[source].scope : e.vis = Vis("Public")})
\* What a path is resolved to, under a name of m.
DeclareResolved(modules, m, name, found, vis) == DeclareAll(modules, m, {Entry(e.ns, name, e.id, vis) : e \in found})
DeclareModule(modules, m, name, id, vis) ==
    IF id = 0 THEN modules ELSE declare(modules, m, name, modules[id].def_id, vis, "types")
\* A path of `self` alone is no path.
extract_path_from_syntax(tree) == tree.path.segments # <<>> \/ tree.path.kind \in {"Super", "Crate"}
NameOf(tree) == IF tree.alias # "" THEN tree.alias ELSE Last(tree.path.segments)
\* In braces only paths of one segment are looked at, whatever follows them.
ProcessInner(modules, m, base, tree, vis) ==
    LET name == NameOf(tree)
        with == DeclareModule(modules, m, name, ChildOf(modules, base, tree.path.segments[1]), vis)
    IN IF Len(tree.path.segments) # 1 THEN modules
       ELSE DeclareResolved(with, m, name, resolve_path(with, base, tree.path), vis)
process_use_tree(modules, m, tree, vis) ==
    LET module == resolve_module_path_for_modules(modules, m, tree.path)
        with == DeclareModule(modules, m, NameOf(tree), module, vis)
    IN CASE ~extract_path_from_syntax(tree) -> modules
         [] tree.form = "glob" -> IF module = 0 THEN modules ELSE import_all_public_for_modules(modules, module, m)
         [] tree.form = "nested" ->
              IF module = 0 THEN modules
              ELSE FoldLeft(LAMBDA done, inner : ProcessInner(done, m, module, inner, vis), modules, tree.inner)
         [] tree.form = "path" ->
              IF tree.path.segments = <<>> /\ tree.alias = "" THEN modules
              ELSE DeclareResolved(with, m, NameOf(tree), resolve_path(with, m, tree.path), vis)
----------------------------------------------------------------------------
\* The structural pass.
VisOfTokens(node) ==
    CASE "KwPub" \notin node.tokens -> Vis("Inherited")
      [] "LParen" \notin node.tokens -> Vis("Public")
      [] "KwCrate" \in node.tokens -> Vis("PubCrate")
      [] "KwSuper" \in node.tokens -> Vis("PubSuper")
      [] "KwSelf" \in node.tokens \/ node.path = <<>> -> Vis("Inherited")
      [] OTHER -> PubIn(node.path)
\* The nearest sibling before the node that is no comma, semicolon or trivia.
visibility_of_node(siblings, i) ==
    LET at == SelectLastInSubSeq(siblings, 1, i - 1, LAMBDA n : n.kind \notin {"Comma", "Semicolon"})
    IN CASE at = 0 -> Vis("Inherited")
         [] siblings[at].kind = "KwPub" -> Vis("Public")
         [] siblings[at].kind = "Visibility" -> VisOfTokens(siblings[at])
         [] OTHER -> Vis("Inherited")
namespace_for_kind(kind) == IF kind \in {"FnDef", "ConstDef", "StaticDef"} THEN "values" ELSE "types"
Fresh(st) == [st EXCEPT !.def_counter = @ + 1]
AddModule(st, parent, name, home) ==
    LET id == Len(st.modules) + 1
    IN Fresh([st EXCEPT !.modules = Append([@ EXCEPT ![parent].children = Append(@, [name |-> name, id |-> id])], ModuleData(parent, st.def_counter)),
                        !.def_to_module = (st.def_counter :> (IF home = 0 THEN id ELSE home)) @@ @])
Declared(st, m, name, id, vis, ns) == [st EXCEPT !.modules = declare(@, m, name, id, vis, ns)]
CollectVariant(st, m, variant, vis) == Fresh(Declared(st, m, variant.name, st.def_counter, vis, "values"))
\* The type of an enum replaces what has its name, and its variants are in a
\* module of that name.
CollectEnum(st, m, item, vis) ==
    LET own == Fresh([Declared(st, m, item.name, st.def_counter, vis, "types") EXCEPT !.def_to_module = (st.def_counter :> m) @@ @])
        with == AddModule(own, m, item.name, 0)
    IN FoldLeft(LAMBDA done, i :
                   IF item.inner[i].kind = "EnumVariant"
                   THEN CollectVariant(done, Len(with.modules), item.inner[i], visibility_of_node(item.inner, i)) ELSE done,
                with, [i \in DOMAIN item.inner |-> i])
Report(st) == [st EXCEPT !.diagnostics = @ + 1]
CollectNamed(st, m, item, vis) ==
    LET ns == namespace_for_kind(item.kind)
        with == Fresh([st EXCEPT !.def_to_module = (st.def_counter :> m) @@ @])
    IN IF Get(st.modules, m, ns, item.name) # {} THEN Report(with) ELSE Declared(with, m, item.name, st.def_counter, vis, ns)
RECURSIVE collect_items(_, _, _)
CollectModule(st, m, item, vis) ==
    LET with == Declared(AddModule(st, m, item.name, m), m, item.name, st.def_counter, vis, "types")
    IN IF ChildOf(st.modules, m, item.name) # 0 THEN Report(st) ELSE collect_items(with, Len(with.modules), item.inner)
ItemKinds == {"FnDef", "StructDef", "TraitDef", "ImplDef", "TypeAlias", "ConstDef", "StaticDef", "ExternBlock"}
collect_items(st, m, items) ==
    FoldLeft(LAMBDA done, i :
                LET item == items[i]
                    vis == visibility_of_node(items, i)
                IN CASE item.kind = "Module" -> CollectModule(done, m, item, vis)
                     [] item.kind = "EnumDef" -> CollectEnum(done, m, item, vis)
                     [] item.kind = "UseDecl" -> [done EXCEPT !.use_decls = Append(@, [tree |-> item.inner, module |-> m, vis |-> vis])]
                     [] item.kind \in ItemKinds -> CollectNamed(done, m, item, vis)
                     [] OTHER -> done,
             st, [i \in DOMAIN items |-> i])
----------------------------------------------------------------------------
\* `pub(in path)` is looked up from the parent of the module.
is_descendant_of(modules, m, ancestor) == \E n \in 0 .. DepthOf(modules, m) : Ancestor(modules, m, n) = ancestor
is_accessible_from(modules, vis, defining, from) ==
    LET parent == modules[defining].parent
        module == Descend(modules, IF parent = 0 THEN defining ELSE parent, vis.path)
    IN CASE vis.k \in {"Public", "PubCrate"} -> TRUE
         [] vis.k = "PubSuper" -> parent = 0 \/ is_descendant_of(modules, from, parent)
         [] vis.k = "PubIn" -> module # 0 /\ is_descendant_of(modules, from, module)
         [] vis.k = "Inherited" -> is_descendant_of(modules, from, defining)
\* The visibility that is looked at is the one of the declaration in the scope.
validate_import_visibility(st) ==
    MapThenSumSet(LAMBDA m : Cardinality({e \in st.modules[m].scope :
                                             /\ e.id \in DOMAIN st.def_to_module
                                             /\ ~is_accessible_from(st.modules, e.vis, st.def_to_module[e.id], m)}),
                  DOMAIN st.modules)
----------------------------------------------------------------------------
\* The loop over the use declarations.
scope_entry_count(modules) == MapThenSumSet(LAMBDA m : Cardinality(modules[m].scope), DOMAIN modules)
ProcessAll(modules, use_decls) == FoldLeft(LAMBDA done, use : process_use_tree(done, use.module, use.tree, use.vis), modules, use_decls)
MaxEntries(modules) == Len(modules) * 1024
ResolveOnce(st, prev) == [st EXCEPT !.modules = ProcessAll(@, st.use_decls)]
RECURSIVE ResolveImports(_, _)
ResolveImports(st, prev) ==
    LET pass == [st EXCEPT !.modules = ProcessAll(@, st.use_decls)]
        count == scope_entry_count(pass.modules)
    IN CASE count = prev -> pass
         [] count > MaxEntries(pass.modules) -> Report(pass)
         [] OTHER -> ResolveImports(pass, count)
Empty == [modules |-> <<ModuleData(0, 0)>>, def_counter |-> 1, def_to_module |-> (0 :> 1), use_decls |-> <<>>, diagnostics |-> 0]
build_def_map(items) ==
    LET st == collect_items(Empty, 1, items)
        done == ResolveImports(st, scope_entry_count(st.modules))
    IN [done EXCEPT !.diagnostics = @ + validate_import_visibility(done)]
=============================================================================
