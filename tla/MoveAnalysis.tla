----------------------------- MODULE MoveAnalysis ----------------------------
(***************************************************************************)
(* check_moves (crates/glyim-borrowck/src/move_analysis.rs): the forward   *)
(* dataflow of moved and dead paths, then the check of every block in      *)
(* order.  FixedBitSet::insert and ::remove panic on a bit beyond the      *)
(* capacity a set was made with, which is the number of paths the arena    *)
(* had before the dataflow; `phase` "panic" is that end of the compiler.   *)
(***************************************************************************)
EXTENDS Mir

(***************************************************************************)
(* Move paths and the effects of statements on them                        *)
(* (crates/glyim-borrowck/src/move_analysis.rs).                           *)
(*                                                                         *)
(* A move path is represented by its place; the arena is a set of places.  *)
(* What the type context answers is part of the body:                      *)
(*   body.fields[l]   count_fields of the type of local l, 0 for None      *)
(*   body.copies      the places whose type is Copy                        *)
(***************************************************************************)
Root(l) == Local(l)

HasRoot(body, l) == l < body.nlocals

\* build_move_paths: a root per local and a child per field of its type.
build_move_paths(body) ==
    {Root(l) : l \in 0..(body.nlocals - 1)}
      \cup UNION {{Place(l, <<Elem("field", f, 0, FALSE)>>) : f \in 0..(body.fields[l] - 1)} :
                    l \in 0..(body.nlocals - 1)}

(***************************************************************************)
(* MovePathArena::find walks the projection from the root.  An index stays *)
(* on the path, a variant or an offset from the start descends (creating   *)
(* the child if it is missing), a field descends if the arena was built    *)
(* with it, which only a root was; everything else ends the walk.          *)
(***************************************************************************)
Descend(body, l, at, e) ==
    CASE e.k = "index"           -> [at |-> at, end |-> FALSE]
      [] e.k = "downcast"        -> [at |-> Append(at, e), end |-> FALSE]
      [] e.k = "const" /\ ~e.fe  -> [at |-> Append(at, e), end |-> FALSE]
      [] e.k = "field" /\ at = <<>> /\ e.n < body.fields[l]
                                 -> [at |-> <<e>>, end |-> FALSE]
      [] OTHER                   -> [at |-> at, end |-> TRUE]

Walk(body, place) ==
    LET walk[k \in 0..Len(place.proj)] ==
            IF k = 0 THEN [at |-> <<>>, end |-> FALSE]
            ELSE LET w == walk[k - 1]
                 IN  IF w.end THEN w ELSE Descend(body, place.local, w.at, place.proj[k])
    IN  walk

\* The path found for a place, as a set: empty for a local the arena lacks.
find(body, place) ==
    IF HasRoot(body, place.local)
    THEN {Place(place.local, Walk(body, place)[Len(place.proj)].at)} ELSE {}

\* All the paths on the way, which `find` leaves in the arena.
FindCreates(body, place) ==
    IF HasRoot(body, place.local)
    THEN {Place(place.local, Walk(body, place)[k].at) : k \in 0..Len(place.proj)} ELSE {}

find_root(body, l) == IF HasRoot(body, l) THEN {Root(l)} ELSE {}

Children(arena, p) ==
    {q \in arena : /\ q.local = p.local /\ Len(q.proj) = Len(p.proj) + 1
                   /\ SubSeq(q.proj, 1, Len(p.proj)) = p.proj}

\* record_move and record_init: the paths and their direct children.
WithChildren(arena, ps) == ps \cup UNION {Children(arena, p) : p \in ps}

(***************************************************************************)
(* Effects.  Only operands of statements move; a Copy type never does.     *)
(***************************************************************************)
MovedOperands(body, rv) ==
    IF rv.kind # "ops" THEN {}
    ELSE {op.place : op \in {o \in rv.ops : o.mode = "move" /\ o.place \notin body.copies}}

StmtMoves(body, arena, s) ==
    CASE s.kind = "assign" -> WithChildren(arena, UNION {find(body, p) : p \in MovedOperands(body, s.rv)})
      [] s.kind = "dead"   -> WithChildren(arena, find_root(body, s.local))
      [] OTHER             -> {}

StmtDeads(body, arena, s) ==
    IF s.kind = "dead" THEN WithChildren(arena, find_root(body, s.local)) ELSE {}

StmtInits(body, arena, s) ==
    CASE s.kind = "assign" -> WithChildren(arena, find(body, s.dest))
      [] s.kind = "live"   -> WithChildren(arena, find_root(body, s.local))
      [] OTHER             -> {}

\* A Call terminator initialises its destination; its arguments move nothing.
TermInits(body, arena, bb) ==
    IF Term(body, bb).kind = "call"
    THEN WithChildren(arena, UNION {find(body, p) : p \in Term(body, bb).dest}) ELSE {}

StmtSet(body, bb) == {Stmts(body, bb)[i] : i \in DOMAIN Stmts(body, bb)}

BlockMoves(body, arena, bb) == UNION {StmtMoves(body, arena, s) : s \in StmtSet(body, bb)}

BlockDeads(body, arena, bb) == UNION {StmtDeads(body, arena, s) : s \in StmtSet(body, bb)}

BlockInits(body, arena, bb) ==
    TermInits(body, arena, bb) \cup UNION {StmtInits(body, arena, s) : s \in StmtSet(body, bb)}

(***************************************************************************)
(* compute_stmt_moved: the moved and dead paths before each statement.     *)
(* apply_stmt_move_effects clears the destination first and adds the moved *)
(* operands after.                                                         *)
(***************************************************************************)
ApplyStmt(body, arena, s, st) ==
    [moved |-> (st.moved \ StmtInits(body, arena, s)) \cup StmtMoves(body, arena, s),
     dead  |-> (st.dead \ StmtInits(body, arena, s)) \cup StmtDeads(body, arena, s)]

compute_stmt_moved(body, arena, bb, moved_in, dead_in) ==
    LET scan[i \in Points(body, bb)] ==
            IF i = 1 THEN [moved |-> moved_in, dead |-> dead_in]
            ELSE ApplyStmt(body, arena, Stmts(body, bb)[i - 1], scan[i - 1])
    IN  scan

(***************************************************************************)
(* check_place_use_after_move: what is wrong with using a place, if        *)
(* anything.  A use is an operand, a borrow or an inspection.              *)
(***************************************************************************)
UsedPlaces(s) ==
    IF s.kind # "assign" THEN {}
    ELSE IF s.rv.kind = "ops" THEN {[how |-> "operand", place |-> op.place] : op \in s.rv.ops}
    ELSE {[how |-> IF s.rv.kind = "ref" THEN "borrow" ELSE "inspect", place |-> s.rv.place]}

\* The path itself is in the set, or, for a bare local, one of its children is.
Hit(body, arena, place, set) ==
    \/ find(body, place) \cap set # {}
    \/ place.proj = <<>> /\ set \cap UNION {Children(arena, p) : p \in find(body, place)} # {}

UseError(body, arena, use, st) ==
    CASE Hit(body, arena, use.place, st.dead)                       -> "dead"
      [] use.how = "operand" /\ use.place \in body.copies           -> "ok"
      [] Hit(body, arena, use.place, st.moved)                      -> "moved"
      [] OTHER                                                      -> "ok"

-----------------------------------------------------------------------------
CONSTANT Bodies

\* A body is a sequence of blocks, a block has a sequence of statements, and branches lead
\* to blocks.
ASSUME MoveBodiesReady ==
    \A b \in Bodies :
        /\ Len(b.blocks) \in Nat
        /\ \A bb \in BlockIdx(b) :
               /\ Len(Stmts(b, bb)) \in Nat /\ DOMAIN Stmts(b, bb) = 1..Len(Stmts(b, bb))
               /\ Successors(b, bb) \subseteq BlockIdx(b)

VARIABLES
    body,
    phase,                     \* "collect", "dataflow", "check", "done" or "panic"
    arena,                     \* the move paths that exist
    moved_in, moved_out, dead_in, dead_out,
    worklist, in_worklist,
    next_block,                \* the block check_moves looks at next
    errors                     \* <<block, statement, used place, kind>> reported

flow == <<moved_in, moved_out, dead_in, dead_out>>

vars == <<body, phase, arena, flow, worklist, in_worklist, next_block, errors>>

Blocks == BlockIdx(body)

Capacity == build_move_paths(body)

PathMaps == [Blocks -> SUBSET Capacity]

\* No bit set of the dataflow ever holds a path beyond the capacity it was made
\* with, although the arena grows while the blocks are checked.
TypeOK ==
    /\ body \in Bodies
    /\ phase \in {"collect", "dataflow", "check", "done", "panic"}
    /\ Capacity \subseteq arena
    /\ moved_in \in PathMaps /\ moved_out \in PathMaps
    /\ dead_in \in PathMaps /\ dead_out \in PathMaps
    /\ worklist \in Seq(Blocks) /\ in_worklist \subseteq Blocks
    /\ next_block \in 1..(Len(body.blocks) + 1)

Init ==
    /\ body \in Bodies
    /\ phase = "collect"
    /\ arena = Capacity
    /\ moved_in = [bb \in Blocks |-> {}] /\ moved_out = [bb \in Blocks |-> {}]
    /\ dead_in = [bb \in Blocks |-> {}] /\ dead_out = [bb \in Blocks |-> {}]
    /\ worklist = [bb \in Blocks |-> bb] /\ in_worklist = Blocks
    /\ next_block = 1
    /\ errors = {}

Moves(bb) == BlockMoves(body, Capacity, bb)
Deads(bb) == BlockDeads(body, Capacity, bb)
Inits(bb) == BlockInits(body, Capacity, bb)

\* The per-block sets are collected; recording a path that `find` had to create
\* is an insert beyond the capacity.
Collect ==
    /\ phase = "collect"
    /\ phase' = IF \A bb \in Blocks : Moves(bb) \cup Inits(bb) \subseteq Capacity
                THEN "dataflow" ELSE "panic"
    /\ UNCHANGED <<body, arena, flow, worklist, in_worklist, next_block, errors>>

\* Mutant: a path counts as moved only if every predecessor moved it.
JoinAll(bb, out) ==
    IF bb = 1 THEN {} ELSE {m \in Capacity : \A p \in Predecessors(body, bb) : m \in out[p]}

(***************************************************************************)
(* compute_move_dataflow: one turn of its loop.  The entry block starts    *)
(* with nothing moved, whoever branches back to it.                        *)
(***************************************************************************)
JoinIn(bb, out) == IF bb = 1 THEN {} ELSE UNION {out[p] : p \in Predecessors(body, bb)}

MovedOut(bb, in) == (in \cup Moves(bb)) \ Inits(bb)

DeadOut(bb, in) == (in \cup Deads(bb)) \ Inits(bb)

\* The successors not waiting yet, in the order the terminator names them
\* first, as a set of one sequence.
PushedSeqs(bb, S) ==
    LET named    == successor_blocks(Term(body, bb))
        First(b) == CHOOSE i \in DOMAIN named :
                        named[i] = b /\ \A j \in 1..(i - 1) : named[j] # b
    IN  {s \in [1..Cardinality(S) -> S] :
            /\ \A b \in S : \E i \in DOMAIN s : s[i] = b
            /\ \A i, j \in DOMAIN s : i < j => First(s[i]) < First(s[j])}

Front(s) == SubSeq(s, 1, Len(s) - 1)

Changed(bi, mIn, dIn) ==
    <<mIn, MovedOut(bi, mIn), dIn, DeadOut(bi, dIn)>>
        # <<moved_in[bi], moved_out[bi], dead_in[bi], dead_out[bi]>>

Turn ==
    /\ phase = "dataflow" /\ worklist # <<>>
    /\ LET bi      == worklist[Len(worklist)]
           waiting == in_worklist \ {bi}
           mIn     == JoinIn(bi, moved_out)
           dIn     == JoinIn(bi, dead_out)
           pushed  == IF Changed(bi, mIn, dIn) THEN Successors(body, bi) \ waiting ELSE {}
       IN  /\ moved_in'  = [moved_in  EXCEPT ![bi] = mIn]
           /\ moved_out' = [moved_out EXCEPT ![bi] = MovedOut(bi, mIn)]
           /\ dead_in'   = [dead_in   EXCEPT ![bi] = dIn]
           /\ dead_out'  = [dead_out  EXCEPT ![bi] = DeadOut(bi, dIn)]
           /\ in_worklist' = waiting \cup pushed
           /\ \E new \in PushedSeqs(bi, pushed) : worklist' = Front(worklist) \o new
    /\ UNCHANGED <<body, phase, arena, next_block, errors>>

EndDataflow ==
    /\ phase = "dataflow" /\ worklist = <<>>
    /\ phase' = "check"
    /\ UNCHANGED <<body, arena, flow, worklist, in_worklist, next_block, errors>>

(***************************************************************************)
(* check_moves on one block: replay its statements from moved_in, report   *)
(* the uses of moved or dead places, and leave the paths `find` made.      *)
(***************************************************************************)
BlockErrors(bb) ==
    LET scan == compute_stmt_moved(body, arena, bb, moved_in[bb], dead_in[bb])
    IN  UNION {{<<bb, i, u.place, UseError(body, arena, u, scan[i])>> :
                  u \in {v \in UsedPlaces(Stmts(body, bb)[i]) :
                            UseError(body, arena, v, scan[i]) # "ok"}} :
                  i \in DOMAIN Stmts(body, bb)}

\* The replay touches a path the bit sets have no room for.
ReplayOverflows(bb) ==
    \E s \in StmtSet(body, bb) :
        ~ (StmtMoves(body, arena, s) \cup StmtInits(body, arena, s) \subseteq Capacity)

CheckBlock ==
    /\ phase = "check" /\ next_block <= Len(body.blocks)
    /\ IF ReplayOverflows(next_block)
       THEN phase' = "panic" /\ UNCHANGED <<arena, next_block, errors>>
       ELSE /\ errors' = errors \cup BlockErrors(next_block)
            /\ arena' = arena \cup
                 UNION {UNION {FindCreates(body, u.place) : u \in UsedPlaces(s)} :
                          s \in StmtSet(body, next_block)}
            /\ next_block' = next_block + 1
            /\ UNCHANGED phase
    /\ UNCHANGED <<body, flow, worklist, in_worklist>>

Finish ==
    /\ phase = "check" /\ next_block > Len(body.blocks)
    /\ phase' = "done"
    /\ UNCHANGED <<body, arena, flow, worklist, in_worklist, next_block, errors>>

Next == Collect \/ Turn \/ EndDataflow \/ CheckBlock \/ Finish

\* Sequential code: it keeps running while it can.
Spec == Init /\ [][Next]_vars /\ WF_vars(Next)

Done == phase = "done"

-----------------------------------------------------------------------------
(***************************************************************************)
(* Properties of the dataflow.                                             *)
(***************************************************************************)
\* A block that is not waiting satisfies both sets of equations for the current
\* outputs of its predecessors.
Settled(bb) ==
    /\ moved_in[bb] = JoinIn(bb, moved_out)
    /\ moved_out[bb] = MovedOut(bb, moved_in[bb])
    /\ dead_in[bb] = JoinIn(bb, dead_out)
    /\ dead_out[bb] = DeadOut(bb, dead_in[bb])

WaitingCovers == \A bb \in Blocks \ in_worklist : Settled(bb)

\* Every body is answered, or the compiler has panicked.
Terminates == <>(phase \in {"done", "panic"})

(***************************************************************************)
(* Executions.  A point <<bb, i>> is statement i of bb or its terminator.  *)
(***************************************************************************)
IsStmt(p) == p[2] <= Len(Stmts(body, p[1]))

StmtAt(p) == Stmts(body, p[1])[p[2]]

AllPoints == UNION {{<<bb, i>> : i \in Points(body, bb)} : bb \in Blocks}

PointsAfter(p) ==
    IF IsStmt(p) THEN {<<p[1], p[2] + 1>>} ELSE {<<s, 1>> : s \in Successors(body, p[1])}

InitsAt(p) ==
    IF IsStmt(p) THEN StmtInits(body, Capacity, StmtAt(p)) ELSE TermInits(body, Capacity, p[1])

MovesAt(p) == IF IsStmt(p) THEN StmtMoves(body, Capacity, StmtAt(p)) ELSE {}

\* Further points: those after the points of `passes` that do not initialise path m.
Onward(points, m, passes) ==
    points \cup UNION {PointsAfter(q) : q \in {r \in points \cap passes : m \notin InitsAt(r)}}

\* The points reached from after p, by way of the points `passes`, while path m is not
\* initialised again.
ReachUninit(p, m, passes) ==
    LET reach[k \in 0..Cardinality(AllPoints)] ==
            IF k = 0 THEN PointsAfter(p) ELSE Onward(reach[k - 1], m, passes)
    IN  reach[Cardinality(AllPoints)]

\* The move paths a report about a place can be about.
PathsOf(place) ==
    find(body, place) \cup
        (IF place.proj = <<>> THEN UNION {Children(Capacity, q) : q \in find(body, place)} ELSE {})

\* An operand use of a non-Copy place at statement point p whose path is m.
UsesMoved(p, m) ==
    IsStmt(p) /\ \E u \in UsedPlaces(StmtAt(p)) :
        /\ m \in PathsOf(u.place)
        /\ ~(u.how = "operand" /\ u.place \in body.copies)

ReportedAt(p) == \E e \in errors : <<e[1], e[2]>> = p

NotBackToEntry == {p \in AllPoints : IsStmt(p) \/ 1 \notin Successors(body, p[1])}

\* Every use after a move is reported in whatever block it comes, if the moving
\* block initialises the path nowhere and the way does not lead back through the
\* entry block, which the dataflow starts afresh.
NoMissedMove ==
    Done => \A p \in AllPoints : \A m \in MovesAt(p) :
        \A q \in ReachUninit(p, m, NotBackToEntry) :
            UsesMoved(q, m) /\ m \notin Inits(p[1]) => ReportedAt(q)

(***************************************************************************)
(* What the comments of move_analysis.rs say and the code does not do.     *)
(***************************************************************************)
\* move_analysis.rs:3-4: the analysis "tracks which places have been moved out
\* of at each program point": the use in another block is reported, whatever
\* else the moving block does.
NoMissedMoveAnywhere ==
    Done => \A p \in AllPoints : \A m \in MovesAt(p) :
        \A q \in ReachUninit(p, m, AllPoints) : UsesMoved(q, m) => ReportedAt(q)

\* The paths that the arguments of a Call terminator move out of.
CallMoves(bb) ==
    LET t == Term(body, bb)
    IN  IF t.kind # "call" THEN {}
        ELSE UNION {find(body, o.place) :
                      o \in {op \in t.ops : op.mode = "move" /\ op.place \notin body.copies}}

\* move_analysis.rs:3-4 again, for what the arguments of a call move: their later
\* use is reported.
CallArgumentsAreMoves ==
    Done => \A bb \in Blocks : \A m \in CallMoves(bb) :
        \A q \in ReachUninit(<<bb, Len(Stmts(body, bb)) + 1>>, m, AllPoints) :
            UsesMoved(q, m) => ReportedAt(q)

\* move_analysis.rs:8: "reassigning a moved local makes it usable again", also
\* when the statement that reassigns it is the one that moves it.
ReassignMakesUsable ==
    Done => \A e \in errors : \E p \in AllPoints : \E m \in PathsOf(e[3]) \cap MovesAt(p) :
        m \notin InitsAt(p) /\ <<e[1], e[2]>> \in ReachUninit(p, m, AllPoints)

\* The arena grows whenever `find` meets a new variant or offset; the bit sets
\* must have room for the paths that are recorded.
NeverPanics == phase # "panic"
=============================================================================
