----------------------------- MODULE Reservation -----------------------------
(***************************************************************************)
(* ReservationAnalysis (crates/glyim-borrowck/src/twophase.rs): the points *)
(* of a body where a two-phase borrow is still reserved, that is, where    *)
(* its reference has not been read yet.  A forward dataflow with a FIFO    *)
(* worklist; a step is one turn of its loop.                               *)
(***************************************************************************)
EXTENDS Execution

VARIABLES
    loan,             \* the loan under analysis; never changes
    per_block,        \* the reserved points of each block, the result
    entry_reserved, exit_reserved,
    res_worklist, res_in_worklist,
    started           \* the loan's own block has been transferred

res_vars == <<loan, per_block, entry_reserved, exit_reserved, res_worklist,
              res_in_worklist, started>>

\* Reserved points are points of their block, and the marks of the worklist are
\* exactly the blocks in it.
ReservationTypeOK ==
    /\ body \in Bodies /\ loan \in collect_loans(body)
    /\ DOMAIN per_block = Blocks
    /\ \A bb \in Blocks : per_block[bb] \subseteq Points(body, bb)
    /\ entry_reserved \in [Blocks -> BOOLEAN]
    /\ exit_reserved \in [Blocks -> BOOLEAN]
    /\ res_worklist \in Seq(Blocks)
    /\ res_in_worklist = {res_worklist[i] : i \in DOMAIN res_worklist}
    /\ started \in BOOLEAN

\* LocalReadChecker: does statement i of bb read the reference?
Activates(bb, i) == loan.dest_local \in LocalsOf(StmtReads(Stmts(body, bb)[i]))

\* Mutant: the statement just before the point is not looked at.
ReservedTooLong(bb, start, reserved) ==
    {i \in start..(Len(Stmts(body, bb)) + 1) :
        reserved /\ \A j \in start..(i - 2) : ~Activates(bb, j)}

(***************************************************************************)
(* `transfer`: from point `start` of bb on, a point is reserved while no   *)
(* statement before it has read the reference.  The terminator's reads are *)
(* not looked at.                                                          *)
(***************************************************************************)
ReservedFrom(bb, start, reserved) ==
    {i \in start..(Len(Stmts(body, bb)) + 1) :
        reserved /\ \A j \in start..(i - 1) : ~Activates(bb, j)}

ExitFrom(bb, start, reserved) ==
    (Len(Stmts(body, bb)) + 1) \in ReservedFrom(bb, start, reserved)

\* The blocks of S in the order the terminator of bb names them first, as a
\* set of one sequence.
InOrder(bb, S) ==
    LET named    == successor_blocks(Term(body, bb))
        First(b) == CHOOSE i \in DOMAIN named :
                        named[i] = b /\ \A j \in 1..(i - 1) : named[j] # b
    IN  {s \in [1..Cardinality(S) -> S] :
            /\ \A b \in S : \E i \in DOMAIN s : s[i] = b
            /\ \A i, j \in DOMAIN s : i < j => First(s[i]) < First(s[j])}

\* Queue the successors S of bb that are not waiting.
Push(bb, S, rest, waiting) ==
    /\ res_in_worklist' = waiting \cup S
    /\ \E new \in InOrder(bb, S \ waiting) : res_worklist' = rest \o new

ReservationInit ==
    /\ body \in Bodies
    /\ loan \in {l \in collect_loans(body) : is_two_phase(l.kind)}
    /\ per_block = [bb \in Blocks |-> {}]
    /\ entry_reserved = [bb \in Blocks |-> FALSE]
    /\ exit_reserved = [bb \in Blocks |-> FALSE]
    /\ res_worklist = <<>> /\ res_in_worklist = {}
    /\ started = FALSE

\* The loan is reserved right after its creation; if it still is at the end of
\* its block, the successors' entries are.
Start ==
    /\ ~started
    /\ started' = TRUE
    /\ LET bb   == loan.block
           exit == ExitFrom(bb, loan.stmt + 1, TRUE)
           succ == IF exit THEN Successors(body, bb) ELSE {}
       IN  /\ per_block' = [per_block EXCEPT ![bb] = ReservedFrom(bb, loan.stmt + 1, TRUE)]
           /\ exit_reserved' = [exit_reserved EXCEPT ![bb] = exit]
           /\ entry_reserved' = [b \in Blocks |-> entry_reserved[b] \/ b \in succ]
           /\ Push(bb, succ, res_worklist, res_in_worklist)
    /\ UNCHANGED <<body, loan>>

\* Recompute the entries of the successors of bb from all their predecessors,
\* and push those that changed.
Propagate(bb, exits) ==
    LET entry(b) == \E p \in Predecessors(body, b) : exits[p]
        changed  == {b \in Successors(body, bb) : entry(b) # entry_reserved[b]}
    IN  /\ entry_reserved' = [b \in Blocks |-> IF b \in changed THEN entry(b) ELSE entry_reserved[b]]
        /\ Push(bb, changed, Tail(res_worklist), res_in_worklist \ {bb})

ReservationTurn ==
    /\ started /\ res_worklist # <<>>
    /\ LET bb   == Head(res_worklist)
           bits == ReservedFrom(bb, 1, entry_reserved[bb])
           exit == ExitFrom(bb, 1, entry_reserved[bb])
       IN  \/ /\ bits = per_block[bb] /\ exit = exit_reserved[bb]
              /\ res_worklist' = Tail(res_worklist)
              /\ res_in_worklist' = res_in_worklist \ {bb}
              /\ UNCHANGED <<per_block, entry_reserved, exit_reserved>>
           \/ /\ bits # per_block[bb] \/ exit # exit_reserved[bb]
              /\ per_block' = [per_block EXCEPT ![bb] = bits]
              /\ exit_reserved' = [exit_reserved EXCEPT ![bb] = exit]
              /\ Propagate(bb, exit_reserved')
    /\ UNCHANGED <<body, loan, started>>

ReservationNext == Start \/ ReservationTurn

\* `compute` is sequential code: its loop runs on while the worklist is not empty.
ReservationSpec == ReservationInit /\ [][ReservationNext]_<<body, res_vars>> /\ WF_<<body, res_vars>>(ReservationNext)

ReservationDone == started /\ res_worklist = <<>>

is_reservation(bb, i) == i \in per_block[bb]

-----------------------------------------------------------------------------
(***************************************************************************)
(* Executions.  The points reached from the loan's creation while no       *)
(* statement on the way has read the reference, or while some has.         *)
(***************************************************************************)
CreatedAt(l) == <<l.block, l.stmt>>

ReadsReference(p, l) == l.dest_local \in ReadsAt(p)

UnreadPoints(l) == Reach(PointsAfter(CreatedAt(l)), {p \in AllPoints : ~ReadsReference(p, l)})

\* The points behind a terminator that is the first to read the reference, like
\* the call it is passed to, as long as no statement reads it too: `transfer`
\* looks at statements only.
StatementReads(p, l) == IsStmt(p) /\ ReadsReference(p, l)

ActivatedByTerminator(l) ==
    Reach(UNION {PointsAfter(q) : q \in {r \in UnreadPoints(l) : ~IsStmt(r) /\ ReadsReference(r, l)}},
          {p \in AllPoints : ~StatementReads(p, l)})

NotCreating(l) == AllPoints \ {CreatedAt(l)}

\* The points some execution reaches after reading the reference, before the
\* loan is taken again.
ActivatedPoints(l) ==
    Reach(UNION {PointsAfter(p) : p \in {q \in Reach(PointsAfter(CreatedAt(l)), NotCreating(l)) :
                                            ReadsReference(q, l)}},
          NotCreating(l))

\* On a loop, the analysis comes back to the block of the loan; a read of the
\* reference in front of the loan then takes back what it began with.
LoanInLoop(l) == CreatedAt(l) \in Reach(PointsAfter(CreatedAt(l)), AllPoints)

ReadBeforeTaken(l) == \E i \in 1..l.stmt : ReadsReference(<<l.block, i>>, l)

\* No point is ever called reserved unless some execution reaches it with the
\* reference still unread, or read by terminators only, which the analysis does
\* not look at: reservation is never invented and ends with the first statement
\* that reads the reference, at any stage.
ReservedIsUnread ==
    LET unread == UnreadPoints(loan)
        missed == ActivatedByTerminator(loan)
    IN  \A bb \in Blocks : \A i \in per_block[bb] :
            <<bb, i>> \in unread \/ <<bb, i>> \in missed
=============================================================================
