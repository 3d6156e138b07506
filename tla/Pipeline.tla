------------------------------ MODULE Pipeline -------------------------------
(****************************************************************************)
(* The drivers of glyim-pipeline (lib.rs): which phases run, where the      *)
(* diagnostics are looked at, and what is written in the end. A crate c     *)
(* gives the severity ("ok", "warning", "error") of what each phase would   *)
(* report, for its bodies (with their closures) too; bounds says whether    *)
(* its types hold only with the impls registered with the solver.           *)
(****************************************************************************)
EXTENDS Integers, Sequences, FiniteSets, SequencesExt

\* A phase, what it reports and whether the sink is checked behind it.
Phase(name, severity) == [name |-> name, severity |-> severity, checked |-> TRUE]
Unchecked(name, severity) == [name |-> name, severity |-> severity, checked |-> FALSE]

typeck(c, impls) == Phase(<<"typeck">>, IF c.bounds /\ ~impls THEN "error" ELSE c.typeck)

\* The front: HIR lowering is checked only with the type checker.
front_end(c, expand, impls) ==
    <<Phase(<<"parse">>, c.parse)>>
      \o (IF expand THEN <<Phase(<<"expand">>, c.expand)>> ELSE <<>>)
      \o <<Phase(<<"def_map">>, c.def_map), Unchecked(<<"hir">>, c.hir), typeck(c, impls)>>

closure_phases(b, i) == [n \in DOMAIN b.closures |-> Phase(<<"borrowck", i, n>>, b.closures[n])]

check_body_without_closures(c, i) ==
    <<Phase(<<"lower", i>>, c.bodies[i].lower), Phase(<<"borrowck", i, 0>>, c.bodies[i].borrowck)>>

check_body(c, i) ==
    <<Phase(<<"lower", i>>, c.bodies[i].lower), Phase(<<"borrowck", i, 0>>, c.bodies[i].borrowck)>>
      \o closure_phases(c.bodies[i], i)

lower_body(c, i) == <<Phase(<<"lower", i>>, c.bodies[i].lower)>>

\* mono: the roots found, the providers' errors and the checks behind.
mono_phases(c) ==
    <<Unchecked(<<"discovery">>, IF c.roots = {} THEN "warning" ELSE "ok"), Unchecked(<<"collect">>, c.collect),
      Phase(<<"post_mono">>, c.post_mono)>>

\* The phases that run: up to the first check that sees an error.
RECURSIVE run_phases(_, _)
run_phases(phases, errors) ==
    IF phases = <<>> THEN <<>>
    ELSE LET now == errors \/ Head(phases).severity = "error"
         IN <<Head(phases)>> \o (IF Head(phases).checked /\ now THEN <<>> ELSE run_phases(Tail(phases), now))

Failed(ran) == ran # <<>> /\ Last(ran).checked /\ \E i \in DOMAIN ran : ran[i].severity = "error"

\* Whether the driver succeeds, the phases that ran, whether it wrote its
\* output (backend: that can be written) and the bodies it hands on.
Outcome(c, phases, writes, bodies) ==
    LET ran == run_phases(phases, FALSE)
        ok == c.read /\ ~Failed(ran) /\ (writes => c.backend)
    IN [ok |-> ok, ran |-> IF c.read THEN ran ELSE <<>>, wrote |-> ok /\ writes, bodies |-> IF ok THEN bodies ELSE {}]

Each(c, Phases(_, _)) == FlattenSeq([i \in DOMAIN c.bodies |-> Phases(c, i)])
ClosuresOf(c) == UNION {{<<i, n>> : n \in DOMAIN c.bodies[i].closures} : i \in DOMAIN c.bodies}
Functions(c) == {<<i, 0>> : i \in DOMAIN c.bodies}

\* Without mono items every body is emitted; closures are emitted always.
compile_file_with_artifacts(c) ==
    LET emitted == (IF c.roots = {} THEN Functions(c) ELSE {<<i, 0>> : i \in c.reached}) \cup ClosuresOf(c)
    IN Outcome(c, front_end(c, c.registry = "some", TRUE) \o Each(c, check_body) \o mono_phases(c),
               emitted # {}, emitted)

compile_file(c) == compile_file_with_artifacts(c)

\* Behind these two no body is checked, closures are not kept.
compile_file_to_mir(c) == Outcome(c, front_end(c, FALSE, FALSE) \o Each(c, lower_body), FALSE, Functions(c))
emit_mir(c) == Outcome(c, front_end(c, FALSE, FALSE) \o Each(c, lower_body), TRUE, Functions(c))

NonEmpty(o) == IF o.bodies = {} THEN [o EXCEPT !.ok = FALSE, !.wrote = FALSE] ELSE o

\* Only the first body.
emit_llvm_ir(c) ==
    NonEmpty(Outcome(c, front_end(c, FALSE, FALSE) \o Each(c, lower_body), TRUE, Functions(c) \cap {<<1, 0>>}))
emit_asm(c) == NonEmpty(Outcome(c, front_end(c, FALSE, FALSE) \o Each(c, lower_body), TRUE, Functions(c)))

\* Before the compilation: the id of main, if the file parses.
entry_main_local_id(c) == IF c.read /\ c.parse # "error" /\ c.main # 0 THEN <<c.main>> ELSE <<>>
=============================================================================
