------------------------------ MODULE Borrowck ------------------------------
(***************************************************************************)
(* check_borrows (crates/glyim-borrowck/src/lib.rs), the borrow checker's  *)
(* entry point: it runs Liveness on the body, Reservation on each of its   *)
(* two-phase loans, and then walks every point of every block looking for  *)
(* accesses that conflict with an active loan.  Both analyses take their   *)
(* steps on their own variables.  check_moves (MoveAnalysis) follows; it   *)
(* shares only the body with what comes before.                            *)
(***************************************************************************)
EXTENDS Liveness, Reservation

VARIABLES
    phase,               \* "liveness", "reserve", "walk", "moves" or "panic"
    activation_cache,    \* the reserved points of each analysed loan
    at,                  \* the point the walk looks at next
    errors               \* the conflicts reported

live_vars == <<live_in, live_out, worklist, in_worklist>>

check_vars == <<body, live_vars, res_vars, phase, activation_cache, at, errors>>

\* The value of `loan` between two analyses.
NoLoan == <<>>

AllLoans == collect_loans(body)

TwoPhaseLoans == {l \in AllLoans : is_two_phase(l.kind)}

\* The analyses stay well-typed inside check_borrows, the cache holds two-phase
\* loans and points of their blocks, and reports name loans of the body.
CheckTypeOK ==
    /\ TypeOK
    /\ phase \in {"liveness", "reserve", "walk", "moves", "panic"}
    /\ loan = NoLoan \/ ReservationTypeOK
    /\ DOMAIN activation_cache \subseteq TwoPhaseLoans
    /\ \A l \in DOMAIN activation_cache : \A bb \in Blocks :
           activation_cache[l][bb] \subseteq Points(body, bb)
    /\ at[1] \in 1..(Len(body.blocks) + 1)
    /\ \A e \in errors : e.loan \in AllLoans /\ e.at[1] \in Blocks

\* The reservation sets before the analysis of a loan starts.
Fresh(l) ==
    /\ loan' = l
    /\ per_block' = [bb \in Blocks |-> {}]
    /\ entry_reserved' = [bb \in Blocks |-> FALSE]
    /\ exit_reserved' = [bb \in Blocks |-> FALSE]
    /\ res_worklist' = <<>> /\ res_in_worklist' = {} /\ started' = FALSE

CheckInit ==
    /\ Init
    /\ phase = "liveness"
    /\ loan = NoLoan
    /\ per_block = <<>> /\ entry_reserved = <<>> /\ exit_reserved = <<>>
    /\ res_worklist = <<>> /\ res_in_worklist = {} /\ started = FALSE
    /\ activation_cache = <<>>
    /\ at = <<1, 1>>
    /\ errors = {}

ComputeLiveness ==
    /\ phase = "liveness"
    /\ \/ Next /\ UNCHANGED phase
       \/ Done /\ phase' = "reserve" /\ UNCHANGED <<body, live_vars>>
    /\ UNCHANGED <<res_vars, activation_cache, at, errors>>

(***************************************************************************)
(* The activation cache: the two-phase loans are analysed in the order of  *)
(* their index, which is the order of their creation points.               *)
(***************************************************************************)
Before(p, q) == p[1] < q[1] \/ (p[1] = q[1] /\ p[2] < q[2])

BeginLoan ==
    /\ phase = "reserve" /\ loan = NoLoan
    /\ \E l \in TwoPhaseLoans \ DOMAIN activation_cache :
           /\ \A m \in TwoPhaseLoans \ DOMAIN activation_cache :
                  ~Before(CreatedAt(m), CreatedAt(l))
           /\ Fresh(l)
    /\ UNCHANGED <<body, phase, live_vars, activation_cache, at, errors>>

AnalyseLoan ==
    /\ phase = "reserve" /\ loan # NoLoan
    /\ ReservationNext
    /\ UNCHANGED <<phase, live_vars, activation_cache, at, errors>>

\* Mutant: the loan stays the one under analysis.
CacheLoanAgain ==
    /\ phase = "reserve" /\ loan # NoLoan /\ ReservationDone
    /\ activation_cache' = [l \in DOMAIN activation_cache \cup {loan} |->
                               IF l = loan THEN per_block ELSE activation_cache[l]]
    /\ UNCHANGED <<body, phase, live_vars, res_vars, at, errors>>

CacheLoan ==
    /\ phase = "reserve" /\ loan # NoLoan /\ ReservationDone
    /\ activation_cache' = [l \in DOMAIN activation_cache \cup {loan} |->
                               IF l = loan THEN per_block ELSE activation_cache[l]]
    /\ loan' = NoLoan
    /\ UNCHANGED <<body, phase, live_vars, per_block, entry_reserved, exit_reserved, res_worklist,
                   res_in_worklist, started, at, errors>>

\* loans_by_dest has a slot for each declared local of the body and panics when
\* it is indexed with another.  A body may assign such locals: liveness, whose
\* bit sets have room for them, allows for it.
HasSlot(d) == d < body.nlocals

\* Every loan is put into the slot of its local.
EndReserve ==
    /\ phase = "reserve" /\ loan = NoLoan /\ TwoPhaseLoans = DOMAIN activation_cache
    /\ phase' = IF \A l \in AllLoans : HasSlot(l.dest_local) THEN "walk" ELSE "panic"
    /\ UNCHANGED <<body, live_vars, res_vars, activation_cache, at, errors>>

(***************************************************************************)
(* Conflict detection at one point.                                        *)
(***************************************************************************)
LiveLocals(p) == compute_stmt_liveness(body, p[1], live_out[p[1]])[p[2]]

\* A loan is active while the local holding its reference is live.  The loans are
\* looked up in the slots of all live locals.
active_loans(p) == {l \in AllLoans : l.dest_local \in LiveLocals(p)}

SlotsAreThere(p) == \A d \in LiveLocals(p) : HasSlot(d)

loan_is_in_reservation(l, p) == is_two_phase(l.kind) /\ p[2] \in activation_cache[l][p[1]]

Report(p, l, how) == [at |-> p, loan |-> l, how |-> how]

Hits(places, l) == \E place \in places : places_conflict(place, l.place)

ReadConflicts(p, places) ==
    {Report(p, l, "use") : l \in {m \in active_loans(p) :
        Hits(places, m) /\ IsExclusive(m.kind) /\ ~loan_is_in_reservation(m, p)}}

BorrowConflicts(p, rv) ==
    {Report(p, l, "borrow") : l \in {m \in active_loans(p) :
        /\ Hits({rv.place}, m)
        /\ conflicts_with_active(m.kind, rv.borrow, loan_is_in_reservation(m, p))}}

\* Mutant: a write is held against exclusive loans only.
WriteConflictsExclusive(p, dest) ==
    {Report(p, l, "assign") : l \in {m \in active_loans(p) :
        Hits({dest}, m) /\ IsExclusive(m.kind)}}

WriteConflicts(p, dest) ==
    {Report(p, l, "assign") : l \in {m \in active_loans(p) : Hits({dest}, m)}}

\* A borrow is checked as a borrow only; its own destination is not.
check_stmt_conflicts(p) ==
    LET s == StmtAt(p)
    IN  CASE s.kind # "assign"    -> {}
          [] s.kind = "assign" /\ s.rv.kind = "ref" -> BorrowConflicts(p, s.rv)
          [] OTHER -> ReadConflicts(p, walk_rvalue_reads(s.rv)) \cup WriteConflicts(p, s.dest)

\* Only what the terminator reads is checked.
check_terminator_conflicts(p) ==
    ReadConflicts(p, walk_terminator_reads(Term(body, p[1])))

CheckStmt ==
    /\ phase = "walk" /\ at[1] \in Blocks /\ IsStmt(at) /\ SlotsAreThere(at)
    /\ errors' = errors \cup check_stmt_conflicts(at)
    /\ at' = <<at[1], at[2] + 1>>
    /\ UNCHANGED <<body, phase, live_vars, res_vars, activation_cache>>

CheckTerminator ==
    /\ phase = "walk" /\ at[1] \in Blocks /\ ~IsStmt(at) /\ SlotsAreThere(at)
    /\ errors' = errors \cup check_terminator_conflicts(at)
    /\ at' = <<at[1] + 1, 1>>
    /\ UNCHANGED <<body, phase, live_vars, res_vars, activation_cache>>

LookupPanics ==
    /\ phase = "walk" /\ at[1] \in Blocks /\ ~SlotsAreThere(at)
    /\ phase' = "panic"
    /\ UNCHANGED <<body, live_vars, res_vars, activation_cache, at, errors>>

\* The move errors are appended to the conflicts, which no longer change.
EndWalk ==
    /\ phase = "walk" /\ at[1] \notin Blocks
    /\ phase' = "moves"
    /\ UNCHANGED <<body, live_vars, res_vars, activation_cache, at, errors>>

CheckNext ==
    \/ ComputeLiveness
    \/ BeginLoan \/ AnalyseLoan \/ CacheLoan \/ EndReserve
    \/ CheckStmt \/ CheckTerminator \/ LookupPanics \/ EndWalk

\* Sequential code: it keeps running while it can.
CheckSpec == CheckInit /\ [][CheckNext]_check_vars /\ WF_check_vars(CheckNext)

Checked == phase = "moves"

-----------------------------------------------------------------------------
\* Executions.
EndsLocal(p, d) ==
    \/ d \in WritesAt(p)
    \/ IsStmt(p) /\ StmtAt(p).kind = "dead" /\ StmtAt(p).local = d

KeepsLocal(d) == {p \in AllPoints : ~EndsLocal(p, d)}

\* The points an execution reaches with the reference of l still in its local.
HeldPoints(l) == Reach(PointsAfter(CreatedAt(l)), KeepsLocal(l.dest_local))

\* The points where the reference that p finds in local d is read later, or by p.
LaterReads(p, d) == {q \in Reach({p}, KeepsLocal(d)) : d \in ReadsAt(q)}

\* What the rules of borrowing forbid at p while loan l is active: a two-phase
\* loan is activated by the first read of its reference, a terminator's too.
ForbiddenReads(p, l) ==
    /\ IsExclusive(l.kind) /\ Hits(PlacesReadAt(p), l)
    /\ ~(is_two_phase(l.kind) /\ p \in UnreadPoints(l))

ForbiddenWrites(p, l) == Hits(PlacesWrittenAt(p), l)

IsBorrow(p) == IsStmt(p) /\ StmtAt(p).kind = "assign" /\ StmtAt(p).rv.kind = "ref"

ForbiddenBorrow(p, l) ==
    IsBorrow(p) /\ Hits({StmtAt(p).rv.place}, l) /\ ~(l.kind = "shared" /\ StmtAt(p).rv.borrow = "shared")

Reported(p, l) == \E e \in errors : e.at = p /\ e.loan = l

-----------------------------------------------------------------------------
(***************************************************************************)
(* Properties.                                                             *)
(***************************************************************************)
\* The read of a reference that keeps its loan active at p, where the code sees
\* it: a statement, or the terminator of another block than p's.
SeenReads(p, d) == {q \in LaterReads(p, d) : IsStmt(q) \/ q[1] # p[1]}

\* A two-phase loan whose activation the reservation analysis did not see.
ActivationUnseen(p, l) == is_two_phase(l.kind) /\ p \in ActivatedByTerminator(l)

\* At each turn of its analysis, whichever loans the check has analysed before, what is
\* called reserved of a loan is reached with its reference unread, or read by terminators
\* only (compute resets what it left of the last loan).
AnalysedIsUnread == loan # NoLoan => ReservedIsUnread

\* No conflict is missed: if an execution takes a loan, reaches an assignment
\* that reads, writes or borrows the borrowed place again, and later reads the
\* reference, the assignment is reported against the loan; a second borrow
\* unless the first is two-phase, a read unless it was a terminator that
\* activated the loan.
NoMissedConflict ==
    Checked => \A l \in AllLoans : \A p \in HeldPoints(l) :
        /\ IsStmt(p) /\ SeenReads(p, l.dest_local) # {}
        /\ IF IsBorrow(p) THEN ~is_two_phase(l.kind) /\ ForbiddenBorrow(p, l)
           ELSE (ForbiddenReads(p, l) /\ ~ActivationUnseen(p, l)) \/ ForbiddenWrites(p, l)
        => Reported(p, l)

\* Every body is answered that declares the locals it assigns, and has no
\* two-phase loan in a loop whose block reads the reference in front of it.
Answers ==
    /\ \A d \in Locals(body) : HasSlot(d)
    /\ \A l \in TwoPhaseLoans : ~(LoanInLoop(l) /\ ReadBeforeTaken(l))
    => <>Checked

(***************************************************************************)
(* What the comments of lib.rs say and the code does not do.               *)
(***************************************************************************)
\* lib.rs:9-12 and 368-371: the loan is activated "when the reference is first
\* used", and "after activation, normal mutable borrow rules apply"; a use is
\* also the one by the call that ends a block.
ActivatedLoanExcludesReads ==
    Checked => \A l \in TwoPhaseLoans : \A p \in HeldPoints(l) :
        /\ IsStmt(p) /\ SeenReads(p, l.dest_local) # {}
        /\ ~IsBorrow(p) /\ ForbiddenReads(p, l)
        => Reported(p, l)

\* The same of the reservation itself: no reserved point is reached after the reference
\* has been read.
ActivationEndsReservation ==
    loan # NoLoan /\ ReservationDone =>
        LET activated == ActivatedPoints(loan)
        IN  \A bb \in Blocks : \A i \in per_block[bb] : <<bb, i>> \notin activated

\* lib.rs:376: the analysis of every two-phase loan is computed before any
\* conflict is looked for, so each of them has to come to an answer.
AlwaysAnswers == <>(phase \in {"walk", "moves", "panic"})

\* liveness.rs:47-49: bodies "may reference `Call` destinations or `Assign` places
\* whose local index is >= `body.locals.len()`", to be tracked "without panicking".
UndeclaredLocalsAreTracked == phase # "panic"

\* lib.rs:5-6: "conflicts are detected between active borrows and place
\* accesses", also when the reference is read by the terminator of the block.
ConflictBeforeTerminatorUse ==
    Checked => \A l \in AllLoans : \A p \in HeldPoints(l) :
        /\ IsStmt(p) /\ ~IsBorrow(p) /\ LaterReads(p, l.dest_local) # {}
        /\ ForbiddenReads(p, l) \/ ForbiddenWrites(p, l)
        => Reported(p, l)

\* lib.rs:5-6 again: every write to a borrowed place is an access, the one to
\* the destination of a call or of a borrow too.
EveryWriteIsChecked ==
    Checked => \A l \in AllLoans : \A p \in HeldPoints(l) :
        /\ \E q \in UNION {SeenReads(r, l.dest_local) : r \in PointsAfter(p)} : q[1] # p[1]
        /\ ~EndsLocal(p, l.dest_local) /\ ForbiddenWrites(p, l)
        => Reported(p, l)

\* lib.rs:175-177: a loan whose local is live is one whose "reference is still in
\* use": the local still holds the reference the loan made.
ActiveLoanIsHeld == \A e \in errors : e.at \in HeldPoints(e.loan)
=============================================================================
