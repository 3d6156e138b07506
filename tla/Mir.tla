--------------------------------- MODULE Mir ---------------------------------
(***************************************************************************)
(* The part of MIR the borrow checker looks at (crates/glyim-mir), and the *)
(* shared traversals of crates/glyim-borrowck/src/visitor.rs.              *)
(*                                                                         *)
(* Blocks and statements are numbered from 1 here and from 0 in the code:  *)
(* block 1 is the entry block, and index Len(stmts)+1 of a block stands    *)
(* for its terminator (`num_stmts` in the code).                           *)
(*                                                                         *)
(*   Place      [local, proj]: a local and a sequence of projections       *)
(*   Operand    [mode, place]: `copy` or `move`; constants read nothing    *)
(*   Rvalue     [kind |-> "ref", place, borrow], or "inspect" (Len and     *)
(*              Discriminant) of a place, or "ops" of a set of operands    *)
(*              (Use, BinaryOp, UnaryOp, Aggregate, Cast, Repeat)          *)
(*   Statement  "assign" with dest and rv, "live" or "dead" with local,    *)
(*              "nop"                                                      *)
(*   Terminator [kind, ops, dest, targets, cleanup]: `ops` are the operands *)
(*              of SwitchInt, Call and Assert, `dest` the set holding a    *)
(*              call's destination, `targets` the sequence of blocks it    *)
(*              names, `cleanup` the unwind block, a sequence of at most 1 *)
(*   Body       [nlocals, blocks]: blocks is a sequence of [stmts, term]   *)
(***************************************************************************)
EXTENDS Integers, Sequences, FiniteSets

BorrowKind == {"shared", "unique", "mut", "two_phase"}

Place(l, proj) == [local |-> l, proj |-> proj]

Local(l) == Place(l, <<>>)

Assign(dest, rv) == [kind |-> "assign", dest |-> dest, rv |-> rv]

Ref(place, borrow) == [kind |-> "ref", place |-> place, borrow |-> borrow]

Inspect(place) == [kind |-> "inspect", place |-> place]

Ops(ops) == [kind |-> "ops", ops |-> ops]

Operand(mode, place) == [mode |-> mode, place |-> place]

(***************************************************************************)
(* The bodies the analyses are defined for: branch targets exist, and      *)
(* locals are natural numbers.                                             *)
(***************************************************************************)
BlockIdx(body) == 1..Len(body.blocks)

Stmts(body, bb) == body.blocks[bb].stmts

Term(body, bb) == body.blocks[bb].term

\* A statement index of bb, or the index of its terminator.
Points(body, bb) == 1..(Len(Stmts(body, bb)) + 1)

(***************************************************************************)
(* visitor.rs: the places read by a construct.                             *)
(***************************************************************************)
OperandReads(ops) == {op.place : op \in ops}

walk_rvalue_reads(rv) ==
    IF rv.kind = "ops" THEN OperandReads(rv.ops) ELSE {rv.place}

\* A Drop reads nothing: the code counts it as a kill.
walk_terminator_reads(t) ==
    IF t.kind \in {"switch", "call", "assert"} THEN OperandReads(t.ops) ELSE {}

StmtReads(s) == IF s.kind = "assign" THEN walk_rvalue_reads(s.rv) ELSE {}

LocalsOf(places) == {p.local : p \in places}

successor_blocks(t) ==
    CASE t.kind \in {"return", "unreachable"} -> <<>>
      [] t.kind \in {"goto", "switch"}        -> t.targets
      [] OTHER                                -> t.targets \o t.cleanup

Successors(body, bb) ==
    LET named == successor_blocks(Term(body, bb)) IN {named[i] : i \in DOMAIN named}

Predecessors(body, bb) ==
    {p \in BlockIdx(body) : bb \in Successors(body, p)}

(***************************************************************************)
(* visitor.rs: places_conflict.  A projection element is a record          *)
(* [k, n, m, fe]: n is the field, variant, index local, offset or start    *)
(* of a subslice, m its exclusive end, fe the flag `from_end`.             *)
(***************************************************************************)
Elem(k, n, m, fe) == [k |-> k, n |-> n, m |-> m, fe |-> fe]

Inside(sub, idx) == sub.n <= idx.n /\ idx.n < sub.m

SameOr(eq) == IF eq THEN "continue" ELSE "disjoint"

\* Mutant: only equal elements are compared further, fields fall through.
ElemVerdictCoarse(a, b) ==
    IF a = b THEN "continue"
    ELSE IF a.k = "index" /\ b.k = "index" THEN "disjoint" ELSE "conflict"

\* What one iteration of the loop decides about the two elements at a depth.
ElemVerdict(a, b) ==
    LET kinds   == {a.k, b.k}
        fromEnd == a.fe \/ b.fe
    IN  CASE kinds = {"deref"}                          -> "continue"
          [] kinds \in {{"field"}, {"downcast"}, {"index"}} -> SameOr(a.n = b.n)
          [] kinds = {"const"} /\ ~fromEnd              -> SameOr(a.n = b.n)
          [] kinds = {"field", "index"}                 -> "disjoint"
          [] kinds = {"sub"} /\ ~fromEnd                -> SameOr(a.n < b.m /\ b.n < a.m)
          [] kinds = {"sub", "const"} /\ ~fromEnd       ->
                 SameOr(IF a.k = "sub" THEN Inside(a, b) ELSE Inside(b, a))
          [] OTHER                                      -> "conflict"

\* The first depth at which the loop returns decides; if there is none, one
\* place is a prefix of the other.
places_conflict(a, b) ==
    /\ a.local = b.local
    /\ LET depth(i)  == ElemVerdict(a.proj[i], b.proj[i])
           common    == {i \in 1..Len(a.proj) : i <= Len(b.proj)}
           returns   == {i \in common : depth(i) # "continue"}
       IN  \A i \in returns :
               (\A j \in returns : i <= j) => depth(i) = "conflict"
-----------------------------------------------------------------------------
(***************************************************************************)
(* The loans of a body and when two borrows exclude each other             *)
(* (crates/glyim-borrowck/src/lib.rs).  A loan is identified by the point  *)
(* that creates it; the code numbers them in the order of those points.    *)
(***************************************************************************)
\* Every `dest = &place` of the body.
collect_loans(body) ==
    UNION {{[block |-> bb, stmt |-> i, dest_local |-> Stmts(body, bb)[i].dest.local,
             place |-> Stmts(body, bb)[i].rv.place, kind |-> Stmts(body, bb)[i].rv.borrow] :
               i \in {j \in DOMAIN Stmts(body, bb) :
                         /\ Stmts(body, bb)[j].kind = "assign"
                         /\ Stmts(body, bb)[j].rv.kind = "ref"}} : bb \in BlockIdx(body)}

is_two_phase(kind) == kind = "two_phase"

\* Borrow kinds that exclude reads: BorrowKind::Mut of either sort, and Unique.
IsExclusive(kind) == kind # "shared"

conflicts_with_active(active, new, in_reservation) ==
    /\ ~(active = "shared" /\ new = "shared")
    /\ ~(active \in {"mut", "two_phase"} /\ new = "shared" /\ in_reservation)
-----------------------------------------------------------------------------
(***************************************************************************)
(* Short ways to write MIR, used to list the bodies an analysis is checked *)
(* on.                                                                     *)
(***************************************************************************)
Field(l, f) == Place(l, <<Elem("field", f, 0, FALSE)>>)

Deref(l) == Place(l, <<Elem("deref", 0, 0, FALSE)>>)

Copy(l) == Operand("copy", Local(l))

Move(l) == Operand("move", Local(l))

SetConst(dest) == Assign(dest, Ops({}))

SetOp(dest, op) == Assign(dest, Ops({op}))

StorageLive(l) == [kind |-> "live", local |-> l]

StorageDead(l) == [kind |-> "dead", local |-> l]

Nop == [kind |-> "nop"]

Terminator(kind, ops, dest, targets, cleanup) ==
    [kind |-> kind, ops |-> ops, dest |-> dest, targets |-> targets, cleanup |-> cleanup]

Goto(t) == Terminator("goto", {}, {}, <<t>>, <<>>)

Return == Terminator("return", {}, {}, <<>>, <<>>)

Switch(op, targets) == Terminator("switch", {op}, {}, targets, <<>>)

Call(ops, dest, t, cleanup) == Terminator("call", ops, {dest}, <<t>>, cleanup)

AssertTrue(op, t, cleanup) == Terminator("assert", {op}, {}, <<t>>, cleanup)

Drop(t, cleanup) == Terminator("drop", {}, {}, <<t>>, cleanup)

Block(stmts, term) == [stmts |-> stmts, term |-> term]

\* The blocks made of one of these statement lists and one of these terminators.
BlocksOf(lists, terms) == {Block(ss, t) : ss \in lists, t \in terms}

Body(nlocals, blocks) == [nlocals |-> nlocals, blocks |-> blocks]
=============================================================================
