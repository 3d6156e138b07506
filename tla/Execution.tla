------------------------------ MODULE Execution ------------------------------
(***************************************************************************)
(* The body that check_borrows looks at and its executions, as the places  *)
(* they read and write point by point.  A point <<bb, i>> is statement i   *)
(* of block bb or, behind the last statement, its terminator.              *)
(***************************************************************************)
EXTENDS Mir

CONSTANT Bodies

\* Branches lead to blocks, and the lists of a body are finite.
ASSUME BodiesAreGraphs ==
    \A b \in Bodies :
        /\ Len(b.blocks) \in Nat
        /\ \A bb \in BlockIdx(b) :
               /\ Len(Stmts(b, bb)) \in Nat /\ DOMAIN Stmts(b, bb) = 1..Len(Stmts(b, bb))
               /\ Successors(b, bb) \subseteq BlockIdx(b)

VARIABLE body    \* the MIR body under analysis; never changes

Blocks == BlockIdx(body)

AllPoints == UNION {{<<bb, i>> : i \in Points(body, bb)} : bb \in Blocks}

IsStmt(p) == p[2] <= Len(Stmts(body, p[1]))

StmtAt(p) == Stmts(body, p[1])[p[2]]

Entries(bb) == {<<s, 1>> : s \in Successors(body, bb)}

PointsAfter(p) == IF IsStmt(p) THEN {<<p[1], p[2] + 1>>} ELSE Entries(p[1])

PlacesReadAt(p) ==
    IF IsStmt(p) THEN StmtReads(StmtAt(p)) ELSE walk_terminator_reads(Term(body, p[1]))

PlacesWrittenAt(p) ==
    IF IsStmt(p) THEN IF StmtAt(p).kind = "assign" THEN {StmtAt(p).dest} ELSE {}
                 ELSE IF Term(body, p[1]).kind = "call" THEN Term(body, p[1]).dest ELSE {}

ReadsAt(p) == LocalsOf(PlacesReadAt(p))

WritesAt(p) == LocalsOf(PlacesWrittenAt(p))

\* The points of a set and those that come after one of its points in `passes`.
Further(points, passes) == points \cup UNION {PointsAfter(p) : p \in points \cap passes}

\* The points an execution can reach from a point of `from` by way of `passes`.
Reach(from, passes) ==
    LET reach[k \in 0..Cardinality(AllPoints)] ==
            IF k = 0 THEN from ELSE Further(reach[k - 1], passes)
    IN  reach[Cardinality(AllPoints)]
=============================================================================
