--------------------------- MODULE Borrowck_proofs ---------------------------
(***************************************************************************)
(* Proofs about the borrow checker for every set of bodies: no bound on    *)
(* the number of blocks, locals or statements, and no assumption on the    *)
(* shape of the control-flow graph beyond BodiesReady.  First Liveness,    *)
(* then Reservation by itself: a point that the analysis calls reserved is *)
(* reached with the reference unread.  Then check_borrows, which relies on *)
(* both: no conflict is missed.                                            *)
(***************************************************************************)
EXTENDS Borrowck, ProofBasics

(***************************************************************************)
(* Points, and what is reached from them.                                  *)
(***************************************************************************)
\* The blocks and points of a body.
LEMMA BodyShape ==
    ASSUME body \in Bodies
    PROVE  /\ Len(body.blocks) \in Nat /\ Blocks = 1..Len(body.blocks) /\ IsFiniteSet(Blocks)
           /\ \A bb \in Blocks :
                  /\ Len(Stmts(body, bb)) \in Nat /\ DOMAIN Stmts(body, bb) = 1..Len(Stmts(body, bb))
                  /\ Points(body, bb) = 1..(Len(Stmts(body, bb)) + 1)
                  /\ Successors(body, bb) \subseteq Blocks
<1>1. Len(body.blocks) \in Nat /\ Blocks = 1..Len(body.blocks)
  BY BodiesAreGraphs DEF Blocks, BlockIdx
<1>2. IsFiniteSet(Blocks)
  BY <1>1, FS_Interval
<1>3. \A bb \in Blocks : /\ Len(Stmts(body, bb)) \in Nat /\ DOMAIN Stmts(body, bb) = 1..Len(Stmts(body, bb))
                         /\ Successors(body, bb) \subseteq Blocks
  BY BodiesAreGraphs DEF Blocks
<1> QED
  BY <1>1, <1>2, <1>3 DEF Points

\* A point is a block of the body and an index of it.
LEMMA PointShape ==
    /\ \A bb \in Blocks : \A i \in Points(body, bb) : <<bb, i>> \in AllPoints
    /\ \A p \in AllPoints : /\ p[1] \in Blocks /\ p[2] \in Points(body, p[1])
                            /\ p = <<p[1], p[2]>>
BY DEF AllPoints

\* There are finitely many, and what comes after one is one.
LEMMA PointsAreFinite ==
    ASSUME body \in Bodies
    PROVE  IsFiniteSet(AllPoints)
<1> DEFINE I == [bb \in Blocks |-> Points(body, bb)]
<1>1. IsFiniteSet(Blocks) /\ \A bb \in Blocks : I[bb] = Points(body, bb) /\ IsFiniteSet(I[bb])
  BY BodyShape, FS_Interval
<1> HIDE DEF I
<1>2. IsFiniteSet(UNION {{<<bb, i>> : i \in I[bb]} : bb \in Blocks})
  BY <1>1, PointsFinitelyMany
<1> QED
  BY <1>1, <1>2 DEF AllPoints

LEMMA EntriesArePoints ==
    ASSUME body \in Bodies, NEW bb \in Blocks
    PROVE  Entries(bb) \subseteq AllPoints
<1>1. \A s \in Blocks : 1 \in Points(body, s)
  BY BodyShape
<1> QED
  BY <1>1, BodyShape, PointShape DEF Entries

LEMMA PointsAreClosed ==
    ASSUME body \in Bodies, NEW p \in AllPoints
    PROVE  PointsAfter(p) \subseteq AllPoints
<1>1. p[1] \in Blocks /\ p[2] \in Points(body, p[1])
  BY PointShape
<1>2. CASE ~IsStmt(p)
  BY <1>1, <1>2, EntriesArePoints DEF PointsAfter
<1>3. CASE IsStmt(p)
  <2>1. p[2] + 1 \in Points(body, p[1])
    BY <1>1, <1>3, BodyShape DEF IsStmt
  <2> QED
    BY <1>1, <1>3, <2>1, PointShape DEF PointsAfter
<1> QED
  BY <1>2, <1>3

\* What Reach computes, round by round.
NextRound(passes) == [points \in SUBSET AllPoints |-> Further(points, passes)]

LEMMA NextRoundType ==
    ASSUME body \in Bodies, NEW passes
    PROVE  /\ NextRound(passes) \in [SUBSET AllPoints -> SUBSET AllPoints]
           /\ \A points \in SUBSET AllPoints :
                  /\ NextRound(passes)[points] = Further(points, passes)
                  /\ points \subseteq NextRound(passes)[points]
<1>1. \A points \in SUBSET AllPoints :
          /\ Further(points, passes) \in SUBSET AllPoints
          /\ points \subseteq Further(points, passes)
  BY PointsAreClosed DEF Further
<1> QED
  BY <1>1 DEF NextRound

LEMMA ReachRounds ==
    ASSUME body \in Bodies, NEW from \in SUBSET AllPoints, NEW passes
    PROVE  \E f : /\ Rounds(f, from, NextRound(passes), Cardinality(AllPoints))
                  /\ Reach(from, passes) = f[Cardinality(AllPoints)]
<1> DEFINE N == Cardinality(AllPoints)
           D == SUBSET AllPoints
           step == NextRound(passes)
           reach[k \in 0..N] == IF k = 0 THEN from ELSE Further(reach[k - 1], passes)
<1>1. Reach(from, passes) = reach[N]
  BY DEF Reach
<1>2. N \in Nat
  BY PointsAreFinite, FS_CardinalityType
<1>3. step \in [D -> D] /\ \A points \in D : step[points] = Further(points, passes)
  BY NextRoundType
<1>4. from \in D
  OBVIOUS
<1> HIDE DEF N, D, step, reach
<1>5. PICK f : Rounds(f, from, step, N)
  BY <1>2, RoundsExist, Zenon
<1>6. /\ f \in [0..N -> D] /\ f[0] = from
      /\ \A k \in 1..N : f[k] = step[f[k - 1]]
  BY <1>2, <1>3, <1>4, <1>5, RoundsStay
<1>7. ASSUME NEW k \in 1..N PROVE f[k] = Further(f[k - 1], passes)
  <2>1. k - 1 \in 0..N
    BY <1>2
  <2> QED
    BY <1>3, <1>6, <2>1
<1>8. f = [k \in 0..N |-> IF k = 0 THEN from ELSE Further(f[k - 1], passes)]
  <2>1. \A k \in 0..N : f[k] = IF k = 0 THEN from ELSE Further(f[k - 1], passes)
    BY <1>2, <1>6, <1>7
  <2> QED
    BY <1>6, <2>1
<1>9. reach = [k \in 0..N |-> IF k = 0 THEN from ELSE Further(reach[k - 1], passes)]
  <2>1. \E g : g = [k \in 0..N |-> IF k = 0 THEN from ELSE Further(g[k - 1], passes)]
    BY <1>8, Zenon
  <2> USE DEF reach
  <2> QED
    BY <2>1, Zenon
<1>10. \A k \in 0..N : reach[k] = IF k = 0 THEN from ELSE Further(reach[k - 1], passes)
  BY <1>9
<1> DEFINE S == {k \in Nat : reach[k] = f[k]}
<1>11. 0 \in S
  BY <1>2, <1>6, <1>10
<1>12. ASSUME NEW n \in 0..(N - 1), n \in S PROVE n + 1 \in S
  <2>1. n + 1 \in 1..N /\ n + 1 \in 0..N /\ (n + 1) - 1 = n /\ n + 1 # 0 /\ n + 1 \in Nat
    BY <1>2
  <2>2. reach[n + 1] = Further(reach[n], passes) /\ f[n + 1] = Further(f[n], passes)
    BY <1>7, <1>10, <2>1
  <2> QED
    BY <1>12, <2>1, <2>2
<1> HIDE DEF S
<1>13. N \in S
  BY <1>2, <1>11, <1>12, UpTo
<1> QED
  BY <1>1, <1>5, <1>13 DEF N, S, step

\* Reach is closed: as many rounds as there are points are enough.
LEMMA ReachCloses ==
    ASSUME body \in Bodies, NEW from \in SUBSET AllPoints, NEW passes
    PROVE  /\ from \subseteq Reach(from, passes)
           /\ Reach(from, passes) \subseteq AllPoints
           /\ \A p \in Reach(from, passes) \cap passes : PointsAfter(p) \subseteq Reach(from, passes)
<1> DEFINE D == SUBSET AllPoints
           N == Cardinality(AllPoints)
           step == NextRound(passes)
           R == Reach(from, passes)
<1>1. PICK f : Rounds(f, from, step, N) /\ R = f[N]
  BY ReachRounds
<1>2. step \in [D -> D]
  BY NextRoundType
<1>3. \A X \in D : X \subseteq step[X]
  BY NextRoundType
<1>4. \A X \in D : step[X] = Further(X, passes)
  BY NextRoundType
<1>5. IsFiniteSet(AllPoints) /\ from \in D /\ \A X \in D : X \subseteq AllPoints
  BY PointsAreFinite
<1>6. N \in Nat /\ Cardinality(AllPoints) <= N
  BY PointsAreFinite, FS_CardinalityType
<1> HIDE DEF D, N, step, R
<1>7. f[N] \in D /\ from \subseteq f[N] /\ step[f[N]] = f[N]
  BY <1>1, <1>2, <1>3, <1>5, <1>6, RoundsClose
<1>8. R \in D /\ from \subseteq R /\ Further(R, passes) = R
  BY <1>1, <1>4, <1>7
<1>9. \A p \in R \cap passes : PointsAfter(p) \subseteq R
  BY <1>8 DEF Further
<1> QED
  BY <1>8, <1>9 DEF D, R

\* It is the least such set.
LEMMA ReachStays ==
    ASSUME body \in Bodies, NEW from \in SUBSET AllPoints, NEW passes, NEW Q,
           from \subseteq Q, \A p \in Q \cap passes : PointsAfter(p) \subseteq Q
    PROVE  Reach(from, passes) \subseteq Q
<1> DEFINE D == SUBSET AllPoints
           N == Cardinality(AllPoints)
           step == NextRound(passes)
<1>1. PICK f : Rounds(f, from, step, N) /\ Reach(from, passes) = f[N]
  BY ReachRounds
<1>2. step \in [D -> D] /\ \A X \in D : step[X] = Further(X, passes)
  BY NextRoundType
<1>3. \A X \in D : X \subseteq Q => step[X] \subseteq Q
  BY <1>2 DEF Further
<1>4. N \in Nat /\ from \in D
  BY PointsAreFinite, FS_CardinalityType
<1> HIDE DEF D, N, step
<1>5. f[N] \subseteq Q
  BY <1>1, <1>2, <1>3, <1>4, RoundsWithin
<1> QED
  BY <1>1, <1>5

(***************************************************************************)
(* What the loop needs of a body that BodiesReady gives.                   *)
(***************************************************************************)
\* The equations stay within the blocks and locals of the body.
LEMMA BodyFacts ==
    ASSUME NEW b \in Bodies
    PROVE  /\ Len(b.blocks) \in Nat \ {0}
           /\ BlockIdx(b) \subseteq Nat
           /\ IsFiniteSet(BlockIdx(b))
           /\ \A bb \in BlockIdx(b) : Successors(b, bb) \subseteq BlockIdx(b)
           /\ \A bb \in BlockIdx(b) : Predecessors(b, bb) \subseteq BlockIdx(b)
           /\ \A bb \in BlockIdx(b) : Uses(b, bb) \subseteq Locals(b)
<1>1. Len(b.blocks) \in Nat \ {0}
  BY BodiesAreGraphs, BodiesReady DEF LivenessReady
<1>2. IsFiniteSet(1..Len(b.blocks))
  BY <1>1, FS_Interval
<1> QED
  BY <1>1, <1>2, BodiesAreGraphs, BodiesReady DEF LivenessReady, BlockIdx, Predecessors

\* One evaluation of the equations yields sets of locals of the body.
LEMMA FlowType ==
    ASSUME NEW b \in Bodies, NEW lin \in LiveMaps(b), NEW bb \in BlockIdx(b)
    PROVE  /\ FlowOut(b, lin, bb) \subseteq Locals(b)
           /\ FlowIn(b, FlowOut(b, lin, bb), bb) \subseteq Locals(b)
<1>1. Successors(b, bb) \subseteq BlockIdx(b) /\ Uses(b, bb) \subseteq Locals(b)
  BY BodyFacts
<1>2. \A s \in BlockIdx(b) : lin[s] \subseteq Locals(b)
  BY DEF LiveMaps
<1>3. FlowOut(b, lin, bb) \subseteq Locals(b)
  BY <1>1, <1>2 DEF FlowOut
<1> QED
  BY <1>1, <1>3 DEF FlowIn

\* The equations are monotone in live_in.
LEMMA FlowMonotone ==
    ASSUME NEW b \in Bodies, NEW x \in LiveMaps(b), NEW y \in LiveMaps(b),
           \A s \in BlockIdx(b) : x[s] \subseteq y[s],
           NEW bb \in BlockIdx(b)
    PROVE  /\ FlowOut(b, x, bb) \subseteq FlowOut(b, y, bb)
           /\ FlowIn(b, FlowOut(b, x, bb), bb) \subseteq FlowIn(b, FlowOut(b, y, bb), bb)
<1>1. Successors(b, bb) \subseteq BlockIdx(b)
  BY BodyFacts
<1>2. FlowOut(b, x, bb) \subseteq FlowOut(b, y, bb)
  BY <1>1 DEF FlowOut
<1> QED
  BY <1>2 DEF FlowIn

\* A block is popped off the worklist and a set of blocks pushed onto it.
LEMMA PopPushes ==
    ASSUME NEW S, NEW w \in Seq(S), w # <<>>,
           NEW P, P \subseteq S, IsFiniteSet(P), NEW new \in Ascending(P)
    PROVE  /\ w[Len(w)] \in S
           /\ Front(w) \in Seq(S)
           /\ Front(w) \o new \in Seq(S)
           /\ \A b \in S : On(w, b) /\ b # w[Len(w)] => On(Front(w), b)
           /\ \A b \in S : On(Front(w), b) \/ b \in P => On(Front(w) \o new, b)
<1>1. /\ new \in [1..Cardinality(P) -> P]
      /\ \A b \in P : \E i \in 1..Cardinality(P) : new[i] = b
  BY DEF Ascending
<1>2. Front(w) = Popped(w)
  BY DEF Front, Popped
<1>3. /\ w[Len(w)] \in S
      /\ Popped(w) \in Seq(S)
      /\ Popped(w) \o new \in Seq(S)
      /\ \A b \in S : On(w, b) /\ b # w[Len(w)] => On(Popped(w), b)
      /\ \A b \in S : On(Popped(w), b) \/ b \in P => On(Popped(w) \o new, b)
  BY <1>1, PopPush, Zenon
<1> QED
  BY <1>2, <1>3

(***************************************************************************)
(* One turn of the loop, with the worklist reduced to what the invariants  *)
(* use of it.                                                              *)
(***************************************************************************)
\* Every block marked as waiting is really on the stack.
Queued == \A bb \in in_worklist : On(worklist, bb)

\* The block a turn recomputes, and what happens to the waiting blocks.
Turn(bi) ==
    /\ body' = body
    /\ live_in'  = [live_in EXCEPT ![bi] = FlowIn(body, FlowOut(body, live_in, bi), bi)]
    /\ live_out' = [live_out EXCEPT ![bi] = FlowOut(body, live_in, bi)]
    /\ worklist' \in Seq(Blocks)
    /\ in_worklist' \subseteq Blocks
    /\ in_worklist \ {bi} \subseteq in_worklist'
    /\ \/ live_in' = live_in /\ live_out' = live_out
       \/ Predecessors(body, bi) \subseteq in_worklist'
    /\ Queued => Queued'

\* A step of Process is a turn for the block on top of the stack.
LEMMA ProcessTurn ==
    ASSUME TypeOK, Process
    PROVE  \E bi \in Blocks : Turn(bi)
<1> DEFINE bi     == worklist[Len(worklist)]
           newOut == FlowOut(body, live_in, bi)
           newIn  == FlowIn(body, newOut, bi)
<1>1. body \in Bodies /\ worklist \in Seq(Blocks) /\ worklist # <<>> /\ body' = body
  BY DEF TypeOK, Process
<1>2. IsFiniteSet(Blocks) /\ Predecessors(body, bi) \subseteq Blocks
  BY <1>1, BodyFacts DEF Blocks, Predecessors
<1>3. bi \in Blocks
  <2>1. Len(worklist) \in Nat /\ Len(worklist) > 0
    BY <1>1
  <2> QED
    BY <1>1, <2>1
<1>4. live_in \in LiveMaps(body) /\ live_out \in LiveMaps(body) /\ in_worklist \subseteq Blocks
  BY DEF TypeOK
<1>5. Blocks' = Blocks
  BY <1>1 DEF Blocks
<1>6. CASE Settle(bi, newIn, newOut)
  <2>1. /\ newIn = live_in[bi] /\ newOut = live_out[bi]
        /\ worklist' = Front(worklist) /\ in_worklist' = in_worklist \ {bi}
        /\ live_in' = live_in /\ live_out' = live_out
    BY <1>6 DEF Settle
  <2>2. \E new \in Ascending({}) : TRUE
    <3>1. Cardinality({}) = 0
      BY FS_EmptySet
    <3>2. << >> \in [1..0 -> {}]
      OBVIOUS
    <3> QED
      BY <3>1, <3>2 DEF Ascending
  <2>3. /\ Front(worklist) \in Seq(Blocks)
        /\ \A b \in Blocks : On(worklist, b) /\ b # bi => On(Front(worklist), b)
    BY <1>1, <2>2, PopPushes, FS_EmptySet
  <2>4. Queued => Queued'
    BY <2>1, <2>3, <1>4 DEF Queued
  <2>5. /\ live_in' = [live_in EXCEPT ![bi] = newIn]
        /\ live_out' = [live_out EXCEPT ![bi] = newOut]
    BY <2>1, <1>3, <1>4 DEF LiveMaps, Blocks
  <2>6. worklist' \in Seq(Blocks) /\ in_worklist' \subseteq Blocks /\ in_worklist \ {bi} \subseteq in_worklist'
    BY <2>1, <2>3, <1>4
  <2>7. Turn(bi)
    BY <1>1, <2>1, <2>4, <2>5, <2>6 DEF Turn
  <2> QED
    BY <2>7, <1>3
<1>7. CASE Update(bi, newIn, newOut)
  <2> DEFINE waiting == in_worklist \ {bi}
             pushed  == Predecessors(body, bi) \ waiting
  <2>1. /\ live_in' = [live_in EXCEPT ![bi] = newIn]
        /\ live_out' = [live_out EXCEPT ![bi] = newOut]
        /\ in_worklist' = waiting \cup pushed
        /\ \E new \in Ascending(pushed) : worklist' = Front(worklist) \o new
    BY <1>7 DEF Update
  <2>2. PICK new \in Ascending(pushed) : worklist' = Front(worklist) \o new
    BY <2>1
  <2>3. pushed \subseteq Blocks /\ IsFiniteSet(pushed)
    BY <1>2, FS_Subset
  <2> HIDE DEF pushed
  <2>4. /\ Front(worklist) \o new \in Seq(Blocks)
        /\ \A b \in Blocks : On(worklist, b) /\ b # bi => On(Front(worklist), b)
        /\ \A b \in Blocks : On(Front(worklist), b) \/ b \in pushed
               => On(Front(worklist) \o new, b)
    BY <1>1, <2>2, <2>3, PopPushes
  <2>5. in_worklist' \subseteq Blocks
    BY <2>1, <2>3, <1>4
  <2>6. Queued => Queued'
    BY <2>1, <2>2, <2>4, <2>5, <1>4 DEF Queued
  <2>7. worklist' \in Seq(Blocks) /\ waiting \subseteq in_worklist'
    BY <2>1, <2>2, <2>4
  <2>8. Predecessors(body, bi) \subseteq in_worklist'
    BY <2>1 DEF pushed
  <2>9. Turn(bi)
    BY <1>1, <2>1, <2>5, <2>6, <2>7, <2>8 DEF Turn
  <2> QED
    BY <2>9, <1>3
<1> QED
  BY <1>6, <1>7 DEF Process

-----------------------------------------------------------------------------
(***************************************************************************)
(* Type correctness and the inductive invariant.                           *)
(***************************************************************************)
\* The initial state is well typed and every block waits.
LEMMA InitFacts ==
    ASSUME Init
    PROVE  TypeOK /\ Queued /\ WaitingCovers
<1>1. body \in Bodies /\ Len(body.blocks) \in Nat
  BY BodyFacts DEF Init
<1>2. worklist \in Seq(Blocks)
  BY <1>1 DEF Init, Blocks, BlockIdx
<1>3. TypeOK
  BY <1>1, <1>2 DEF Init, TypeOK, LiveMaps, Blocks
<1>4. Queued
  BY <1>1 DEF Init, Queued, On, Blocks, BlockIdx
<1>5. WaitingCovers
  BY DEF Init, WaitingCovers
<1> QED
  BY <1>3, <1>4, <1>5

\* A turn leaves every set within the body's blocks and locals.
LEMMA TurnType ==
    ASSUME TypeOK, NEW bi \in Blocks, Turn(bi)
    PROVE  TypeOK'
<1>1. body \in Bodies /\ live_in \in LiveMaps(body) /\ live_out \in LiveMaps(body)
  BY DEF TypeOK
<1>2. /\ FlowOut(body, live_in, bi) \subseteq Locals(body)
      /\ FlowIn(body, FlowOut(body, live_in, bi), bi) \subseteq Locals(body)
  BY <1>1, FlowType DEF Blocks
<1>3. live_in' \in LiveMaps(body) /\ live_out' \in LiveMaps(body)
  BY <1>1, <1>2 DEF Turn, LiveMaps, Blocks
<1> QED
  BY <1>1, <1>3 DEF TypeOK, Turn, Blocks

\* A turn for bi settles bi or queues whoever read its old live_in, itself
\* included; the other blocks keep the inputs they were computed from.
LEMMA TurnCovers ==
    ASSUME TypeOK, WaitingCovers, NEW bi \in Blocks, Turn(bi)
    PROVE  WaitingCovers'
<1>1. body \in Bodies /\ live_in \in LiveMaps(body) /\ live_out \in LiveMaps(body) /\ body' = body
  BY DEF TypeOK, Turn
<1>2. Blocks' = Blocks
  BY <1>1 DEF Blocks
<1> SUFFICES ASSUME NEW bb \in Blocks, bb \notin in_worklist'
             PROVE  Stable(bb)'
  BY <1>2 DEF WaitingCovers
<1>3. \A s \in Blocks : s # bi => live_in'[s] = live_in[s] /\ live_out'[s] = live_out[s]
  BY <1>1 DEF Turn, LiveMaps, Blocks
<1>4. /\ live_in'[bi] = FlowIn(body, FlowOut(body, live_in, bi), bi)
      /\ live_out'[bi] = FlowOut(body, live_in, bi)
  BY <1>1 DEF Turn, LiveMaps, Blocks
<1>5. Successors(body, bb) \subseteq Blocks
  BY <1>1, BodyFacts DEF Blocks
<1>6. FlowOut(body, live_in', bb) = FlowOut(body, live_in, bb)
  <2>1. CASE live_in' = live_in
    BY <2>1
  <2>2. CASE Predecessors(body, bi) \subseteq in_worklist'
    <3>1. bi \notin Successors(body, bb)
      BY <2>2 DEF Predecessors, Blocks
    <3> QED
      BY <3>1, <1>3, <1>5 DEF FlowOut
  <2> QED
    BY <2>1, <2>2 DEF Turn
<1>7. CASE bb = bi
  BY <1>7, <1>4, <1>6, <1>1 DEF Stable
<1>8. CASE bb # bi
  <2>1. Stable(bb)
    BY <1>8 DEF WaitingCovers, Turn
  <2> QED
    BY <2>1, <1>8, <1>3, <1>6, <1>1 DEF Stable
<1> QED
  BY <1>7, <1>8

\* What the loop maintains.
IInv == TypeOK /\ Queued /\ WaitingCovers

\* Init establishes it and every step preserves it.
LEMMA InvInit == Init => IInv
BY InitFacts DEF IInv

LEMMA InvStep == IInv /\ [Next]_vars => IInv'
<1> SUFFICES ASSUME IInv, [Next]_vars PROVE IInv'
  OBVIOUS
<1>1. CASE Process
  <2>1. TypeOK /\ Queued /\ WaitingCovers
    BY DEF IInv
  <2>2. PICK bi \in Blocks : Turn(bi)
    BY <1>1, <2>1, ProcessTurn
  <2>3. TypeOK' /\ WaitingCovers'
    BY <2>1, <2>2, TurnType, TurnCovers
  <2>4. Queued'
    BY <2>1, <2>2 DEF Turn
  <2> QED
    BY <2>3, <2>4 DEF IInv
<1>2. CASE UNCHANGED vars
  BY <1>2 DEF IInv, TypeOK, Queued, WaitingCovers, Stable, Blocks, vars
<1> QED
  BY <1>1, <1>2 DEF Next

\* The runs of the loop, wherever they stop: no safety result needs its fairness.
Run == Init /\ [][Next]_vars

LEMMA SpecRuns == Spec => Run
BY PTL DEF Spec, Run

LEMMA Invariance == Run => []IInv
BY InvInit, InvStep, PTL DEF Run

\* compute_liveness never indexes a bit set or a block vector out of range:
\* every set it stores is within the capacity, every queued index is a block.
THEOREM TypeCorrect == Spec => []TypeOK
BY SpecRuns, Invariance, PTL DEF IInv

\* The worklist discipline of compute_liveness is right: a block that is not
\* waiting satisfies its equations.
THEOREM CoverageCorrect == Spec => []WaitingCovers
BY SpecRuns, Invariance, PTL DEF IInv

-----------------------------------------------------------------------------
(***************************************************************************)
(* Precision: the iteration stays below every solution, and only grows.    *)
(***************************************************************************)
\* The solutions of the equations are among the live_in that a turn would not enlarge.
IsClosed(b, lin) ==
    \A bb \in BlockIdx(b) : FlowIn(b, FlowOut(b, lin, bb), bb) \subseteq lin[bb]

BelowEveryClosed ==
    \A lin \in LiveMaps(body) :
        IsClosed(body, lin) =>
            \A bb \in Blocks : /\ live_in[bb] \subseteq lin[bb]
                               /\ live_out[bb] \subseteq FlowOut(body, lin, bb)

LEMMA ClosedCovers ==
    ASSUME BelowEveryClosed
    PROVE  BelowEverySolution
<1>1. \A sol : IsSolution(body, sol) => IsClosed(body, sol)
  BY DEF IsSolution, IsClosed
<1> QED
  BY <1>1 DEF BelowEveryClosed, BelowEverySolution

\* A turn applies the monotone equations to sets below one of those.
LEMMA TurnBelow ==
    ASSUME TypeOK, BelowEveryClosed, NEW bi \in Blocks, Turn(bi)
    PROVE  BelowEveryClosed'
<1>1. body \in Bodies /\ live_in \in LiveMaps(body) /\ live_out \in LiveMaps(body) /\ body' = body
  BY DEF TypeOK, Turn
<1>2. Blocks' = Blocks
  BY <1>1 DEF Blocks
<1> SUFFICES ASSUME NEW sol \in LiveMaps(body), IsClosed(body, sol), NEW bb \in Blocks
             PROVE  /\ live_in'[bb] \subseteq sol[bb]
                    /\ live_out'[bb] \subseteq FlowOut(body, sol, bb)
  BY <1>1, <1>2 DEF BelowEveryClosed
<1>3. /\ \A s \in Blocks : live_in[s] \subseteq sol[s]
      /\ \A s \in Blocks : live_out[s] \subseteq FlowOut(body, sol, s)
  BY DEF BelowEveryClosed
<1>4. /\ FlowOut(body, live_in, bi) \subseteq FlowOut(body, sol, bi)
      /\ FlowIn(body, FlowOut(body, live_in, bi), bi)
           \subseteq FlowIn(body, FlowOut(body, sol, bi), bi)
  BY <1>1, <1>3, FlowMonotone DEF Blocks
<1>5. FlowIn(body, FlowOut(body, sol, bi), bi) \subseteq sol[bi]
  BY DEF IsClosed, Blocks
<1>6. CASE bb = bi
  BY <1>1, <1>4, <1>5, <1>6 DEF Turn, LiveMaps, Blocks
<1>7. CASE bb # bi
  BY <1>1, <1>3, <1>7 DEF Turn, LiveMaps, Blocks
<1> QED
  BY <1>6, <1>7

\* Each stored set is below what the equations would give now.
Growing ==
    \A bb \in Blocks : /\ live_in[bb] \subseteq FlowIn(body, FlowOut(body, live_in, bb), bb)
                       /\ live_out[bb] \subseteq FlowOut(body, live_in, bb)

\* So a turn can only enlarge the sets it replaces.
LEMMA TurnGrows ==
    ASSUME TypeOK, Growing, NEW bi \in Blocks, Turn(bi)
    PROVE  /\ \A bb \in Blocks : /\ live_in[bb] \subseteq live_in'[bb]
                                 /\ live_out[bb] \subseteq live_out'[bb]
           /\ Growing'
<1>1. body \in Bodies /\ live_in \in LiveMaps(body) /\ live_out \in LiveMaps(body) /\ body' = body
  BY DEF TypeOK, Turn
<1>2. live_in' \in LiveMaps(body) /\ Blocks' = Blocks
  BY <1>1, TurnType DEF TypeOK, Blocks
<1>3. \A bb \in Blocks : /\ live_in[bb] \subseteq live_in'[bb]
                         /\ live_out[bb] \subseteq live_out'[bb]
  BY <1>1 DEF Growing, Turn, LiveMaps, Blocks
<1> SUFFICES ASSUME NEW bb \in Blocks
             PROVE  /\ live_in'[bb] \subseteq FlowIn(body, FlowOut(body, live_in', bb), bb)
                    /\ live_out'[bb] \subseteq FlowOut(body, live_in', bb)
  BY <1>1, <1>2, <1>3 DEF Growing
<1>4. /\ FlowOut(body, live_in, bb) \subseteq FlowOut(body, live_in', bb)
      /\ FlowIn(body, FlowOut(body, live_in, bb), bb)
           \subseteq FlowIn(body, FlowOut(body, live_in', bb), bb)
  BY <1>1, <1>2, <1>3, FlowMonotone DEF Blocks
<1>5. CASE bb = bi
  BY <1>1, <1>4, <1>5 DEF Turn, LiveMaps, Blocks
<1>6. CASE bb # bi
  <2>1. live_in'[bb] = live_in[bb] /\ live_out'[bb] = live_out[bb]
    BY <1>1, <1>6 DEF Turn, LiveMaps, Blocks
  <2> QED
    BY <2>1, <1>4 DEF Growing
<1> QED
  BY <1>5, <1>6

\* Init and every step preserve both bounds.
LEMMA Bounds == Run => [](BelowEveryClosed /\ Growing)
<1>1. Init => BelowEveryClosed /\ Growing
  BY DEF Init, BelowEveryClosed, Growing, Blocks
<1>2. TypeOK /\ BelowEveryClosed /\ Growing /\ [Next]_vars => (BelowEveryClosed /\ Growing)'
  <2> SUFFICES ASSUME TypeOK, BelowEveryClosed, Growing, [Next]_vars
               PROVE  (BelowEveryClosed /\ Growing)'
    OBVIOUS
  <2>1. CASE Process
    <3>1. PICK bi \in Blocks : Turn(bi)
      BY <2>1, ProcessTurn
    <3> QED
      BY <3>1, TurnBelow, TurnGrows
  <2>2. CASE UNCHANGED vars
    BY <2>2 DEF BelowEveryClosed, Growing, Blocks, vars
  <2> QED
    BY <2>1, <2>2 DEF Next
<1>3. IInv => TypeOK
  BY DEF IInv
<1> QED
  BY <1>1, <1>2, <1>3, Invariance, PTL DEF Run

\* No local is ever recorded live that some solution of the equations leaves
\* out: the answer of compute_liveness is as precise as the equations allow.
THEOREM PrecisionCorrect == Spec => []BelowEverySolution
<1>1. BelowEveryClosed => BelowEverySolution
  BY ClosedCovers
<1> QED
  BY <1>1, SpecRuns, Bounds, PTL

\* Recomputing a block from scratch never drops a local it had.
THEOREM GrowthCorrect == Spec => OnlyGrows
<1>1. TypeOK /\ Growing /\ [Next]_vars =>
        [\A bb \in Blocks : /\ live_in[bb] \subseteq live_in'[bb]
                            /\ live_out[bb] \subseteq live_out'[bb]]_vars
  <2> SUFFICES ASSUME TypeOK, Growing, Process
               PROVE  \A bb \in Blocks : /\ live_in[bb] \subseteq live_in'[bb]
                                         /\ live_out[bb] \subseteq live_out'[bb]
    BY DEF Next
  <2>1. PICK bi \in Blocks : Turn(bi)
    BY ProcessTurn
  <2> QED
    BY <2>1, TurnGrows
<1> QED
  BY <1>1, TypeCorrect, SpecRuns, Bounds, PTL DEF Spec, OnlyGrows

-----------------------------------------------------------------------------
(***************************************************************************)
(* The detailed loop implements the promise.                               *)
(***************************************************************************)
\* With an empty worklist every block satisfies its equations.
LEMMA DoneIsStable ==
    ASSUME IInv, Done
    PROVE  body \in Bodies /\ \A bb \in Blocks : Stable(bb)
<1>1. in_worklist = {}
  <2>1. DOMAIN worklist = {}
    BY DEF Done
  <2> QED
    BY <2>1 DEF IInv, Queued, On
<1> QED
  BY <1>1 DEF IInv, TypeOK, WaitingCovers

\* So live_in solves the equations.
LEMMA DoneIsLeast ==
    ASSUME IInv, BelowEverySolution, Done
    PROVE  IsLeastLiveOut(body, live_out)
<1>1. TypeOK
  BY DEF IInv
<1>2. \A bb \in Blocks : /\ live_out[bb] = FlowOut(body, live_in, bb)
                         /\ live_in[bb] = FlowIn(body, live_out[bb], bb)
  BY DoneIsStable DEF Stable
<1>3. IsSolution(body, live_in)
  BY <1>2 DEF IsSolution, Blocks
<1>4. live_out = [bb \in BlockIdx(body) |-> FlowOut(body, live_in, bb)]
  BY <1>1, <1>2 DEF TypeOK, LiveMaps, Blocks
<1>5. live_in \in LiveMaps(body)
  BY <1>1 DEF TypeOK
<1> QED
  BY <1>3, <1>4, <1>5 DEF IsLeastLiveOut, BelowEverySolution, Blocks

\* The invariant part of the promise.
LeastWhenDone == Done => IsLeastLiveOut(body, live_out)

\* The answer is right whenever the stack is empty.
THEOREM AnswerCorrect == Spec => []LeastWhenDone
<1>1. IInv /\ BelowEverySolution => LeastWhenDone
  BY DoneIsLeast DEF LeastWhenDone
<1> QED
  BY <1>1, SpecRuns, Invariance, PrecisionCorrect, PTL

\* compute_liveness delivers what its callers rely on: nothing until the stack
\* is empty, then live_out of the least solution of the body's equations.
THEOREM ImplementationCorrect == Spec => ImplementsPromise
<1> DEFINE answer == IF Done THEN live_out ELSE <<>>
<1>1. Init => Promise!Init
  <2> SUFFICES ASSUME Init PROVE Promise!Init
    OBVIOUS
  <2>1. body \in Bodies /\ Len(body.blocks) \in Nat \ {0}
    BY BodyFacts DEF Init
  <2>2. worklist[1] = 1 /\ 1 \in DOMAIN worklist
    BY <2>1 DEF Init, Blocks, BlockIdx
  <2>3. ~Done
    BY <2>2 DEF Done
  <2> QED
    BY <2>1, <2>3 DEF Promise!Init, Promise!NotYet
<1>2. LeastWhenDone' /\ [Next]_vars => [Promise!Answer]_(<<body, answer>>)
  <2> SUFFICES ASSUME LeastWhenDone', [Next]_vars
               PROVE  Promise!Answer \/ (body' = body /\ answer' = answer)
    OBVIOUS
  <2>1. CASE UNCHANGED vars
    BY <2>1 DEF vars, Done
  <2>2. CASE Process
    <3>1. ~Done /\ body' = body
      BY <2>2 DEF Process, Done
    <3>2. CASE Done'
      BY <3>1, <3>2 DEF Promise!Answer, Promise!NotYet, LeastWhenDone
    <3>3. CASE ~Done'
      BY <3>1, <3>3
    <3> QED
      BY <3>2, <3>3
  <2> QED
    BY <2>1, <2>2 DEF Next
<1> QED
  BY <1>1, <1>2, AnswerCorrect, PTL DEF Spec, Promise!Spec, ImplementsPromise

-----------------------------------------------------------------------------
(***************************************************************************)
(* The answer is liveness by execution paths.                              *)
(***************************************************************************)
\* Local l is not written by the points of bb from `from` to before `to`.
Unwritten(bb, l, from, to) == \A k \in from..(to - 1) : l \notin WritesAt(<<bb, k>>)

\* The summaries of a block in terms of its points.
LEMMA SummaryPoints ==
    ASSUME body \in Bodies, NEW bb \in Blocks, NEW l
    PROVE  /\ l \in Uses(body, bb) <=>
                  \E j \in Points(body, bb) : l \in ReadsAt(<<bb, j>>) /\ Unwritten(bb, l, 1, j)
           /\ l \notin Defs(body, bb) <=> \A k \in Points(body, bb) : l \notin WritesAt(<<bb, k>>)
<1> DEFINE N == Len(Stmts(body, bb))
           ss == Stmts(body, bb)
<1>1. N \in Nat /\ DOMAIN ss = 1..N /\ Points(body, bb) = 1..(N + 1)
  BY BodyShape
<1>2. /\ WritesAt(<<bb, N + 1>>) = TermDefs(body, bb)
      /\ ReadsAt(<<bb, N + 1>>) = LocalsOf(walk_terminator_reads(Term(body, bb)))
  <2>1. ~IsStmt(<<bb, N + 1>>) /\ LocalsOf({}) = {}
    BY <1>1 DEF IsStmt, LocalsOf
  <2> QED
    BY <2>1 DEF WritesAt, PlacesWrittenAt, ReadsAt, PlacesReadAt, TermDefs
<1>3. ASSUME NEW k \in 1..N
      PROVE  /\ WritesAt(<<bb, k>>) = IF ss[k].kind = "assign" THEN {ss[k].dest.local} ELSE {}
             /\ ReadsAt(<<bb, k>>) = LocalsOf(StmtReads(ss[k]))
  <2>1. IsStmt(<<bb, k>>) /\ LocalsOf({}) = {}
    BY <1>1 DEF IsStmt, LocalsOf
  <2>2. \A place : LocalsOf({place}) = {place.local}
    BY DEF LocalsOf
  <2> QED
    BY <2>1, <2>2 DEF WritesAt, PlacesWrittenAt, ReadsAt, PlacesReadAt, StmtAt
<1>4. ASSUME NEW j \in 1..(N + 1)
      PROVE  l \notin DefsBefore(body, bb, j) <=> Unwritten(bb, l, 1, j)
  <2>1. \A k \in 1..(j - 1) : k \in 1..N
    BY <1>1
  <2>2. l \in DefsBefore(body, bb, j) <=>
            \E k \in 1..(j - 1) : ss[k].kind = "assign" /\ l = ss[k].dest.local
    BY DEF DefsBefore
  <2> QED
    BY <1>3, <2>1, <2>2 DEF Unwritten
<1> HIDE DEF N, ss
<1>5. l \in Uses(body, bb) <=>
          \/ l \in LocalsOf(walk_terminator_reads(Term(body, bb))) /\ l \notin DefsBefore(body, bb, N + 1)
          \/ \E i \in DOMAIN ss : l \in LocalsOf(StmtReads(ss[i])) /\ l \notin DefsBefore(body, bb, i)
  BY DEF Uses, N, ss
<1>6. N + 1 \in 1..(N + 1) /\ \A j \in 1..(N + 1) : j \in 1..N \/ j = N + 1
  BY <1>1
<1>7. l \in Uses(body, bb) <=>
          \E j \in 1..(N + 1) : l \in ReadsAt(<<bb, j>>) /\ Unwritten(bb, l, 1, j)
  <2>1. ASSUME l \in Uses(body, bb)
        PROVE  \E j \in 1..(N + 1) : l \in ReadsAt(<<bb, j>>) /\ Unwritten(bb, l, 1, j)
    <3>1. CASE l \in LocalsOf(walk_terminator_reads(Term(body, bb))) /\ l \notin DefsBefore(body, bb, N + 1)
      BY <1>2, <1>4, <1>6, <3>1
    <3>2. CASE \E i \in DOMAIN ss : l \in LocalsOf(StmtReads(ss[i])) /\ l \notin DefsBefore(body, bb, i)
      <4>1. PICK i \in 1..N : l \in LocalsOf(StmtReads(ss[i])) /\ l \notin DefsBefore(body, bb, i)
        BY <1>1, <3>2
      <4>2. i \in 1..(N + 1)
        BY <1>1
      <4>3. l \in ReadsAt(<<bb, i>>) /\ Unwritten(bb, l, 1, i)
        BY <1>3, <1>4, <4>1, <4>2
      <4> QED
        BY <4>2, <4>3
    <3> QED
      BY <1>5, <2>1, <3>1, <3>2
  <2>2. ASSUME NEW j \in 1..(N + 1), l \in ReadsAt(<<bb, j>>), Unwritten(bb, l, 1, j)
        PROVE  l \in Uses(body, bb)
    <3>1. l \notin DefsBefore(body, bb, j)
      BY <1>4, <2>2
    <3>2. CASE j = N + 1
      BY <1>2, <1>5, <2>2, <3>1, <3>2
    <3>3. CASE j \in 1..N
      BY <1>1, <1>3, <1>5, <2>2, <3>1, <3>3
    <3> QED
      BY <1>6, <3>2, <3>3
  <2> QED
    BY <2>1, <2>2
<1>8. l \notin Defs(body, bb) <=> \A k \in 1..(N + 1) : l \notin WritesAt(<<bb, k>>)
  <2>1. l \notin Defs(body, bb) <=> l \notin DefsBefore(body, bb, N + 1) /\ l \notin TermDefs(body, bb)
    BY DEF Defs, N
  <2>2. Unwritten(bb, l, 1, N + 1) <=> \A k \in 1..N : l \notin WritesAt(<<bb, k>>)
    <3>1. (N + 1) - 1 = N
      BY <1>1
    <3> QED
      BY <3>1 DEF Unwritten
  <2>3. \A k \in 1..N : k \in 1..(N + 1)
    BY <1>1
  <2> QED
    BY <1>2, <1>4, <1>6, <2>1, <2>2, <2>3
<1> QED
  BY <1>1, <1>7, <1>8

\* Local l is read at point p or later on, in its block, before it is written, or is live
\* at the end of the block and not written before.
LiveAt(bb, i, l) ==
    \/ \E j \in Points(body, bb) : /\ i <= j /\ l \in ReadsAt(<<bb, j>>)
                                   /\ Unwritten(bb, l, i, j)
    \/ /\ l \in live_out[bb]
       /\ \A k \in Points(body, bb) : i <= k => l \notin WritesAt(<<bb, k>>)

\* With the worklist empty, such a local is in live_in when the point is the first of its
\* block.
LEMMA LiveAtEntry ==
    ASSUME body \in Bodies, \A b \in Blocks : Stable(b), NEW bb \in Blocks, NEW l, LiveAt(bb, 1, l)
    PROVE  l \in live_in[bb]
<1>1. \A k \in Points(body, bb) : 1 <= k
  BY BodyShape
<1>2. live_in[bb] = Uses(body, bb) \cup (live_out[bb] \ Defs(body, bb))
  BY DEF Stable, FlowIn
<1> QED
  BY <1>1, <1>2, SummaryPoints DEF LiveAt

\* The points where the iteration's sets say that l is not live.
DeadPoints(l) == {p \in AllPoints : ~LiveAt(p[1], p[2], l)}

LEMMA DeadEntries ==
    ASSUME body \in Bodies, \A b \in Blocks : Stable(b), NEW bb \in Blocks, NEW l,
           l \notin live_out[bb]
    PROVE  Entries(bb) \subseteq DeadPoints(l)
<1> SUFFICES ASSUME NEW s \in Successors(body, bb) PROVE <<s, 1>> \in DeadPoints(l)
  BY DEF Entries
<1>1. s \in Blocks /\ <<s, 1>> \in AllPoints
  BY BodyShape, EntriesArePoints DEF Entries
<1>2. l \notin live_in[s]
  BY DEF Stable, FlowOut
<1>3. ~LiveAt(s, 1, l)
  BY <1>1, <1>2, LiveAtEntry
<1> QED
  BY <1>1, <1>3 DEF DeadPoints

\* After one of them that does not write l, l is still not live.
LEMMA DeadStaysDead ==
    ASSUME body \in Bodies, \A b \in Blocks : Stable(b), NEW l,
           NEW p \in DeadPoints(l) \cap NotWriting(l)
    PROVE  PointsAfter(p) \subseteq DeadPoints(l)
<1> DEFINE b == p[1]
           i == p[2]
           N == Len(Stmts(body, b))
<1>1. /\ p \in AllPoints /\ b \in Blocks /\ i \in Points(body, b) /\ p = <<b, i>>
      /\ l \notin WritesAt(<<b, i>>) /\ ~LiveAt(b, i, l)
  BY PointShape DEF NotWriting, DeadPoints
<1>2. N \in Nat /\ Points(body, b) = 1..(N + 1)
  BY <1>1, BodyShape
<1>3. CASE ~IsStmt(p)
  <2>1. i = N + 1 /\ PointsAfter(p) = Entries(b)
    <3>1. ~(i <= N) /\ i \in 1..(N + 1)
      BY <1>1, <1>2, <1>3 DEF IsStmt
    <3> QED
      BY <1>2, <1>3, <3>1 DEF PointsAfter
  <2>2. \A k \in Points(body, b) : i <= k => k = i
    BY <1>2, <2>1
  <2>3. l \notin live_out[b]
    BY <1>1, <2>2 DEF LiveAt
  <2> QED
    BY <1>1, <2>1, <2>3, DeadEntries
<1>4. CASE IsStmt(p)
  <2>1. PointsAfter(p) = {<<b, i + 1>>} /\ i \in 1..N /\ i + 1 \in Points(body, b)
    BY <1>1, <1>2, <1>4 DEF IsStmt, PointsAfter
  <2>2. <<b, i + 1>> \in AllPoints
    BY <1>1, <2>1, PointShape
  <2> HIDE DEF b, i, N
  <2>3. ASSUME LiveAt(b, i + 1, l) PROVE LiveAt(b, i, l)
    <3>1. CASE \E j \in Points(body, b) : /\ i + 1 <= j /\ l \in ReadsAt(<<b, j>>)
                                           /\ Unwritten(b, l, i + 1, j)
      <4>1. PICK j \in Points(body, b) : /\ i + 1 <= j /\ l \in ReadsAt(<<b, j>>)
                                         /\ Unwritten(b, l, i + 1, j)
        BY <3>1
      <4>2. i <= j /\ \A k \in i..(j - 1) : k = i \/ k \in (i + 1)..(j - 1)
        BY <1>2, <2>1, <4>1
      <4>3. Unwritten(b, l, i, j)
        BY <1>1, <4>1, <4>2 DEF Unwritten
      <4> QED
        BY <4>1, <4>2, <4>3 DEF LiveAt
    <3>2. CASE /\ l \in live_out[b]
               /\ \A k \in Points(body, b) : i + 1 <= k => l \notin WritesAt(<<b, k>>)
      <4>1. \A k \in Points(body, b) : i <= k => k = i \/ i + 1 <= k
        BY <1>2, <2>1
      <4> QED
        BY <1>1, <3>2, <4>1 DEF LiveAt
    <3> QED
      BY <2>3, <3>1, <3>2 DEF LiveAt
  <2>4. <<b, i + 1>>[1] = b /\ <<b, i + 1>>[2] = i + 1
    OBVIOUS
  <2> QED
    BY <1>1, <2>1, <2>2, <2>3, <2>4 DEF DeadPoints
<1> QED
  BY <1>3, <1>4

LEMMA DeadIsUnread ==
    ASSUME body \in Bodies, NEW l, NEW p \in DeadPoints(l)
    PROVE  l \notin ReadsAt(p)
<1>1. /\ p[1] \in Blocks /\ p[2] \in Points(body, p[1]) /\ p = <<p[1], p[2]>>
      /\ ~LiveAt(p[1], p[2], l)
  BY PointShape DEF DeadPoints
<1>2. p[2] <= p[2] /\ Unwritten(p[1], l, p[2], p[2])
  BY <1>1, BodyShape DEF Unwritten
<1> QED
  BY <1>1, <1>2 DEF LiveAt

\* A local that some path reads before writing it is in live_out.
LEMMA UsedIsLive ==
    ASSUME body \in Bodies, \A b \in Blocks : Stable(b), NEW bb \in Blocks, NEW l,
           UsedFrom(Entries(bb), l)
    PROVE  l \in live_out[bb]
<1> SUFFICES ASSUME l \notin live_out[bb] PROVE FALSE
  OBVIOUS
<1>1. Entries(bb) \subseteq DeadPoints(l) /\ Entries(bb) \in SUBSET AllPoints
  BY DeadEntries, EntriesArePoints
<1>2. \A p \in DeadPoints(l) \cap NotWriting(l) : PointsAfter(p) \subseteq DeadPoints(l)
  BY DeadStaysDead
<1>3. Reach(Entries(bb), NotWriting(l)) \subseteq DeadPoints(l)
  BY <1>1, <1>2, ReachStays, Zenon
<1>4. PICK p \in Reach(Entries(bb), NotWriting(l)) : l \in ReadsAt(p)
  BY DEF UsedFrom
<1>5. p \in DeadPoints(l)
  BY <1>3, <1>4
<1> QED
  BY <1>4, <1>5, DeadIsUnread

\* The execution through a block up to a point that nothing before it writes.
LEMMA ReachInBlock ==
    ASSUME body \in Bodies, NEW bb \in Blocks, NEW l, NEW j \in Points(body, bb),
           Unwritten(bb, l, 1, j)
    PROVE  <<bb, j>> \in Reach({<<bb, 1>>}, NotWriting(l))
<1> DEFINE R == Reach({<<bb, 1>>}, NotWriting(l))
           N == Len(Stmts(body, bb))
           S == {n \in Nat : <<bb, n + 1>> \in R}
<1>1. N \in Nat /\ Points(body, bb) = 1..(N + 1) /\ j \in 1..(N + 1)
  BY BodyShape
<1>2. {<<bb, 1>>} \in SUBSET AllPoints
  BY <1>1, PointShape
<1>3. <<bb, 1>> \in R /\ \A p \in R \cap NotWriting(l) : PointsAfter(p) \subseteq R
  BY <1>2, ReachCloses
<1> HIDE DEF R
<1>4. 0 \in S
  BY <1>3
<1>5. ASSUME NEW n \in 0..((j - 1) - 1), n \in S PROVE n + 1 \in S
  <2>1. n + 1 \in 1..(j - 1) /\ n + 1 \in Points(body, bb) /\ n + 1 # N + 1 /\ n + 1 \in Nat
    BY <1>1
  <2>2. <<bb, n + 1>> \in R /\ l \notin WritesAt(<<bb, n + 1>>)
    BY <1>5, <2>1 DEF Unwritten
  <2>3. <<bb, n + 1>> \in NotWriting(l)
    BY <2>1, <2>2, PointShape DEF NotWriting
  <2>4. PointsAfter(<<bb, n + 1>>) = {<<bb, (n + 1) + 1>>}
    <3>1. n + 1 <= N
      BY <1>1, <2>1
    <3> QED
      BY <3>1 DEF PointsAfter, IsStmt, N
  <2>5. <<bb, (n + 1) + 1>> \in R
    BY <1>3, <2>2, <2>3, <2>4
  <2> QED
    BY <2>1, <2>5
<1> HIDE DEF S
<1>6. j - 1 \in S /\ (j - 1) + 1 = j
  BY <1>1, <1>4, <1>5, UpTo
<1> QED
  BY <1>6 DEF S, R

\* The locals used from the entries of the blocks, block by block.
UsedMap == [bb \in Blocks |-> {l \in Locals(body) : UsedFrom({<<bb, 1>>}, l)}]

\* No turn would enlarge them.
LEMMA UsedMapIsClosed ==
    ASSUME body \in Bodies
    PROVE  UsedMap \in LiveMaps(body) /\ IsClosed(body, UsedMap)
<1>1. UsedMap \in LiveMaps(body)
  BY DEF UsedMap, LiveMaps, Blocks
<1> SUFFICES ASSUME NEW bb \in Blocks,
                    NEW l \in FlowIn(body, FlowOut(body, UsedMap, bb), bb)
             PROVE  l \in UsedMap[bb]
  BY <1>1 DEF IsClosed, Blocks
<1>2. l \in Locals(body)
  <2>1. FlowIn(body, FlowOut(body, UsedMap, bb), bb) \subseteq Locals(body)
    BY <1>1, FlowType DEF Blocks
  <2> QED
    BY <2>1
<1> SUFFICES UsedFrom({<<bb, 1>>}, l)
  BY <1>2 DEF UsedMap
<1> DEFINE R == Reach({<<bb, 1>>}, NotWriting(l))
           N == Len(Stmts(body, bb))
<1>3. N \in Nat /\ Points(body, bb) = 1..(N + 1)
  BY BodyShape
<1>4. CASE l \in Uses(body, bb)
  <2>1. PICK j \in Points(body, bb) : l \in ReadsAt(<<bb, j>>) /\ Unwritten(bb, l, 1, j)
    BY <1>4, SummaryPoints
  <2> QED
    BY <2>1, ReachInBlock DEF UsedFrom
<1>5. CASE l \notin Defs(body, bb) /\ \E s \in Successors(body, bb) : l \in UsedMap[s]
  <2>1. PICK s \in Successors(body, bb) : l \in UsedMap[s]
    BY <1>5
  <2>2. s \in Blocks /\ UsedFrom({<<s, 1>>}, l)
    BY <2>1, BodyShape DEF UsedMap
  <2>3. \A k \in Points(body, bb) : l \notin WritesAt(<<bb, k>>)
    BY <1>5, SummaryPoints
  <2>4. <<bb, N + 1>> \in R
    <3>1. N + 1 \in Points(body, bb) /\ \A k \in 1..((N + 1) - 1) : k \in Points(body, bb)
      BY <1>3
    <3>2. Unwritten(bb, l, 1, N + 1)
      BY <2>3, <3>1 DEF Unwritten
    <3> QED
      BY <3>1, <3>2, ReachInBlock
  <2>5. {<<bb, 1>>} \in SUBSET AllPoints /\ {<<s, 1>>} \in SUBSET AllPoints
        /\ <<bb, N + 1>> \in AllPoints
    <3>1. 1 \in Points(body, bb) /\ N + 1 \in Points(body, bb) /\ 1 \in Points(body, s)
      BY <1>3, <2>2, BodyShape
    <3> QED
      BY <2>2, <3>1, PointShape
  <2>6. R \subseteq AllPoints /\ \A p \in R \cap NotWriting(l) : PointsAfter(p) \subseteq R
    BY <2>5, ReachCloses
  <2>7. <<s, 1>> \in R
    <3>1. <<bb, N + 1>> \in NotWriting(l)
      BY <1>3, <2>3, <2>5 DEF NotWriting
    <3>2. <<s, 1>> \in PointsAfter(<<bb, N + 1>>)
      BY <2>1 DEF PointsAfter, IsStmt, Entries
    <3> HIDE DEF R
    <3> QED
      BY <2>4, <2>6, <3>1, <3>2
  <2>8. Reach({<<s, 1>>}, NotWriting(l)) \subseteq R
    <3> HIDE DEF R
    <3>1. {<<s, 1>>} \subseteq R
      BY <2>7
    <3> QED
      BY <2>5, <2>6, <3>1, ReachStays, Zenon
  <2> QED
    BY <2>2, <2>8 DEF UsedFrom
<1> QED
  BY <1>4, <1>5 DEF FlowIn, FlowOut

\* A local in live_out is read by some path before it is written.
LEMMA LiveIsUsed ==
    ASSUME TypeOK, BelowEveryClosed, NEW bb \in Blocks, NEW l \in live_out[bb]
    PROVE  UsedFrom(Entries(bb), l)
<1>1. body \in Bodies
  BY DEF TypeOK
<1>2. l \in FlowOut(body, UsedMap, bb)
  BY <1>1, UsedMapIsClosed DEF BelowEveryClosed
<1>3. PICK s \in Successors(body, bb) : l \in UsedMap[s]
  BY <1>2 DEF FlowOut
<1>4. s \in Blocks /\ UsedFrom({<<s, 1>>}, l)
  BY <1>1, <1>3, BodyShape DEF UsedMap
<1> DEFINE R == Reach(Entries(bb), NotWriting(l))
<1>5. Entries(bb) \in SUBSET AllPoints /\ <<s, 1>> \in Entries(bb)
  BY <1>1, <1>3, EntriesArePoints DEF Entries
<1>6. Entries(bb) \subseteq R /\ \A p \in R \cap NotWriting(l) : PointsAfter(p) \subseteq R
  BY <1>1, <1>5, ReachCloses
<1>7. Reach({<<s, 1>>}, NotWriting(l)) \subseteq R
  <2> HIDE DEF R
  <2>1. {<<s, 1>>} \in SUBSET AllPoints /\ {<<s, 1>>} \subseteq R
    BY <1>5, <1>6
  <2> QED
    BY <1>1, <1>6, <2>1, ReachStays, Zenon
<1> QED
  BY <1>4, <1>7 DEF UsedFrom

\* When the worklist is empty, live_out of a block holds exactly the locals that some
\* execution from the end of the block reads before it writes them.
LEMMA LiveOutIsExact == Run => []LiveOutIsPathLiveness
<1>1. IInv /\ BelowEveryClosed => LiveOutIsPathLiveness
  <2> SUFFICES ASSUME IInv, BelowEveryClosed, Done, NEW bb \in Blocks, NEW l \in Locals(body)
               PROVE  l \in live_out[bb] <=> UsedFrom(Entries(bb), l)
    BY DEF LiveOutIsPathLiveness
  <2> QED
    BY DoneIsStable, UsedIsLive, LiveIsUsed DEF IInv
<1> QED
  BY <1>1, Invariance, Bounds, PTL

\* compute_liveness answers which locals are read later: when its worklist is empty,
\* live_out of a block holds exactly the locals that some execution from the end of the
\* block reads before it writes them, with any loops and however many blocks.
THEOREM LiveOutCorrect == Spec => []LiveOutIsPathLiveness
BY SpecRuns, LiveOutIsExact, PTL

(***************************************************************************)
(* Loans.                                                                  *)
(***************************************************************************)
\* A loan is created by a statement of the body.
LEMMA LoanShape ==
    ASSUME body \in Bodies, NEW l \in collect_loans(body)
    PROVE  /\ l.block \in Blocks /\ l.stmt \in 1..Len(Stmts(body, l.block))
           /\ l.stmt + 1 \in Points(body, l.block)
           /\ PointsAfter(CreatedAt(l)) = {<<l.block, l.stmt + 1>>}
           /\ PointsAfter(CreatedAt(l)) \subseteq AllPoints
<1>1. l.block \in Blocks /\ l.stmt \in DOMAIN Stmts(body, l.block)
  BY DEF collect_loans, Blocks
<1>2. /\ l.stmt \in 1..Len(Stmts(body, l.block)) /\ l.stmt <= Len(Stmts(body, l.block))
      /\ l.stmt + 1 \in Points(body, l.block)
  BY <1>1, BodyShape
<1>3. PointsAfter(CreatedAt(l)) = {<<l.block, l.stmt + 1>>}
  BY <1>2 DEF PointsAfter, CreatedAt, IsStmt
<1> QED
  BY <1>1, <1>2, <1>3, PointShape

(***************************************************************************)
(* The points reached with the reference not read by a statement: it is    *)
(* unread, or was read by terminators only.                                *)
(***************************************************************************)
SilentPoints(l) == Reach(PointsAfter(CreatedAt(l)), {p \in AllPoints : ~StatementReads(p, l)})

\* The point after the loan is one, and where the reference is not read the
\* next points are.
LEMMA SilentCloses ==
    ASSUME body \in Bodies, NEW l \in collect_loans(body)
    PROVE  /\ <<l.block, l.stmt + 1>> \in SilentPoints(l)
           /\ SilentPoints(l) \subseteq AllPoints
           /\ \A p \in SilentPoints(l) : ~StatementReads(p, l) => PointsAfter(p) \subseteq SilentPoints(l)
<1> DEFINE passes == {p \in AllPoints : ~StatementReads(p, l)}
           after == PointsAfter(CreatedAt(l))
<1>1. after \in SUBSET AllPoints /\ after = {<<l.block, l.stmt + 1>>}
  BY LoanShape
<1>2. SilentPoints(l) = Reach(after, passes)
  BY DEF SilentPoints
<1> HIDE DEF passes, after
<1>3. /\ after \subseteq SilentPoints(l)
      /\ SilentPoints(l) \subseteq AllPoints
      /\ \A p \in SilentPoints(l) \cap passes : PointsAfter(p) \subseteq SilentPoints(l)
  <2> SUFFICES /\ after \subseteq Reach(after, passes)
               /\ Reach(after, passes) \subseteq AllPoints
               /\ \A p \in Reach(after, passes) \cap passes : PointsAfter(p) \subseteq Reach(after, passes)
    BY <1>2
  <2> QED
    BY <1>1, ReachCloses, Zenon
<1>4. \A p \in SilentPoints(l) : ~StatementReads(p, l) => p \in passes
  BY <1>3 DEF passes
<1> QED
  BY <1>1, <1>3, <1>4

\* Where no statement has read the reference it is unread, or a terminator was the
\* first to read it.
LEMMA SilentIsExplained ==
    ASSUME body \in Bodies, NEW l \in collect_loans(body)
    PROVE  SilentPoints(l) \subseteq UnreadPoints(l) \cup ActivatedByTerminator(l)
<1> DEFINE after  == PointsAfter(CreatedAt(l))
           quiet  == {p \in AllPoints : ~ReadsReference(p, l)}
           passes == {p \in AllPoints : ~StatementReads(p, l)}
           first  == {r \in UnreadPoints(l) : ~IsStmt(r) /\ ReadsReference(r, l)}
           behind == UNION {PointsAfter(q) : q \in first}
           Q      == UnreadPoints(l) \cup ActivatedByTerminator(l)
<1>1. after \in SUBSET AllPoints
  BY LoanShape
<1>2. UnreadPoints(l) = Reach(after, quiet)
  BY DEF UnreadPoints
<1>3. ActivatedByTerminator(l) = Reach(behind, passes)
  BY DEF ActivatedByTerminator
<1>4. SilentPoints(l) = Reach(after, passes)
  BY DEF SilentPoints
<1>5. /\ after \subseteq UnreadPoints(l) /\ UnreadPoints(l) \subseteq AllPoints
      /\ \A p \in UnreadPoints(l) \cap quiet : PointsAfter(p) \subseteq UnreadPoints(l)
  <2> HIDE DEF after, quiet
  <2> QED
    BY <1>1, <1>2, ReachCloses
<1>6. behind \in SUBSET AllPoints
  BY <1>5, PointsAreClosed
<1>7. /\ behind \subseteq ActivatedByTerminator(l)
      /\ \A p \in ActivatedByTerminator(l) \cap passes : PointsAfter(p) \subseteq ActivatedByTerminator(l)
  <2> HIDE DEF behind, passes
  <2> QED
    BY <1>3, <1>6, ReachCloses
<1>8. ASSUME NEW p \in Q \cap passes PROVE PointsAfter(p) \subseteq Q
  <2>1. CASE p \in ActivatedByTerminator(l)
    BY <1>7, <1>8, <2>1
  <2>2. CASE p \in UnreadPoints(l) /\ ReadsReference(p, l)
    <3>1. p \in first
      BY <1>8, <2>2 DEF StatementReads
    <3> QED
      BY <1>7, <3>1
  <2>3. CASE p \in UnreadPoints(l) /\ ~ReadsReference(p, l)
    <3>1. p \in quiet
      BY <1>5, <2>3
    <3> QED
      BY <1>5, <2>3, <3>1
  <2> QED
    BY <1>8, <2>1, <2>2, <2>3
<1>9. after \subseteq Q
  BY <1>5
<1> HIDE DEF after, passes, Q
<1>10. Reach(after, passes) \subseteq Q
  BY <1>1, <1>8, <1>9, ReachStays
<1> QED
  BY <1>4, <1>10 DEF Q

\* Transfer: if no statement has read the reference at a reserved start, none has where it reserves.
LEMMA ReservedAreSilent ==
    ASSUME body \in Bodies, loan \in collect_loans(body), NEW bb \in Blocks,
           NEW start \in Points(body, bb), NEW reserved,
           reserved => <<bb, start>> \in SilentPoints(loan)
    PROVE  \A i \in ReservedFrom(bb, start, reserved) : <<bb, i>> \in SilentPoints(loan)
<1> SUFFICES ASSUME NEW i \in ReservedFrom(bb, start, reserved)
             PROVE  <<bb, i>> \in SilentPoints(loan)
  OBVIOUS
<1> DEFINE len == Len(Stmts(body, bb))
<1>1. /\ i \in start..(len + 1) /\ reserved
      /\ \A j \in start..(i - 1) : ~Activates(bb, j)
  BY DEF ReservedFrom
<1>2. len \in Nat /\ start \in 1..(len + 1) /\ Points(body, bb) = 1..(len + 1)
  BY BodyShape
<1> HIDE DEF len
<1>3. i - start \in Nat /\ i \in Int /\ start \in Int
  BY <1>1, <1>2
<1> DEFINE S == {n \in Nat : <<bb, start + n>> \in SilentPoints(loan)}
<1>4. 0 \in S
  BY <1>1, <1>3
<1>5. ASSUME NEW n \in 0..((i - start) - 1), n \in S PROVE n + 1 \in S
  <2> DEFINE p == <<bb, start + n>>
  <2>1. start + n \in start..(i - 1) /\ start + n # len + 1 /\ (start + n) + 1 = start + (n + 1)
        /\ n + 1 \in Nat
    BY <1>1, <1>2, <1>3
  <2>2. p \in SilentPoints(loan)
    BY <1>5
  <2>3. ~StatementReads(p, loan)
    BY <1>1, <2>1 DEF StatementReads, ReadsReference, ReadsAt, PlacesReadAt, StmtAt, Activates
  <2>4. PointsAfter(p) = {<<bb, start + (n + 1)>>}
    <3>1. start + n <= len
      BY <1>1, <1>2, <1>3
    <3> QED
      BY <2>1, <3>1 DEF PointsAfter, IsStmt, len
  <2> HIDE DEF p
  <2>5. <<bb, start + (n + 1)>> \in SilentPoints(loan)
    BY <2>2, <2>3, <2>4, SilentCloses
  <2> QED
    BY <2>1, <2>5
<1> HIDE DEF S
<1>6. \A n \in 0..(i - start) : n \in S
  BY <1>3, <1>4, <1>5, UpTo
<1>7. i - start \in S /\ start + (i - start) = i
  BY <1>3, <1>6
<1> QED
  BY <1>7 DEF S

\* If the end of the block is reserved too, the successors' entries are silent.
LEMMA ExitIsSilent ==
    ASSUME body \in Bodies, loan \in collect_loans(body), NEW bb \in Blocks,
           NEW start \in Points(body, bb), NEW reserved,
           reserved => <<bb, start>> \in SilentPoints(loan),
           ExitFrom(bb, start, reserved)
    PROVE  \A s \in Successors(body, bb) : <<s, 1>> \in SilentPoints(loan)
<1> DEFINE last == <<bb, Len(Stmts(body, bb)) + 1>>
<1>1. last \in SilentPoints(loan)
  BY ReservedAreSilent DEF ExitFrom
<1>2. ~StatementReads(last, loan)
  BY BodyShape DEF StatementReads, IsStmt
<1>3. PointsAfter(last) = {<<s, 1>> : s \in Successors(body, bb)}
  BY BodyShape DEF PointsAfter, IsStmt, Entries
<1> HIDE DEF last
<1>4. PointsAfter(last) \subseteq SilentPoints(loan)
  BY <1>1, <1>2, SilentCloses
<1> QED
  BY <1>3, <1>4

\* What is reserved from a point of the block on are points of the block.
LEMMA ReservedArePoints ==
    ASSUME body \in Bodies, NEW bb \in Blocks, NEW start \in Points(body, bb), NEW reserved
    PROVE  ReservedFrom(bb, start, reserved) \subseteq Points(body, bb)
BY BodyShape DEF ReservedFrom

\* The silent points depend on the body and the loan alone.
LEMMA SilentIsRigid ==
    ASSUME body' = body, NEW CONSTANT l
    PROVE  Blocks' = Blocks /\ SilentPoints(l)' = SilentPoints(l)
<1>1. Blocks' = Blocks
  BY DEF Blocks
<1>2. SilentPoints(l)' = SilentPoints(l)
  BY DEF SilentPoints, Reach, Further, PointsAfter, Entries, AllPoints, Blocks, StatementReads, ReadsReference,
         IsStmt, StmtAt, ReadsAt, PlacesReadAt, CreatedAt
<1> QED
  BY <1>1, <1>2

(***************************************************************************)
(* The worklist.                                                           *)
(***************************************************************************)
Waiting(w) == {w[i] : i \in DOMAIN w}

Apart(w) == \A i, j \in DOMAIN w : i # j => w[i] # w[j]

\* A worklist of blocks, each of them once.
IsWorklist(w) == w \in Seq(Blocks) /\ Apart(w)

\* The new part of a worklist holds each block of the set once.
LEMMA InOrderIsApart ==
    ASSUME NEW bb, NEW S, IsFiniteSet(S), NEW s \in InOrder(bb, S)
    PROVE  s \in Seq(S) /\ Waiting(s) = S /\ Apart(s)
<1>1. Cardinality(S) \in Nat
  BY FS_CardinalityType
<1>2. s \in [1..Cardinality(S) -> S] /\ \A b \in S : \E i \in DOMAIN s : s[i] = b
  BY DEF InOrder
<1> DEFINE n == Cardinality(S)
<1>3. s \in Surjection(1..n, S)
  BY <1>2 DEF Surjection
<1>4. IsFiniteSet(1..n) /\ Cardinality(1..n) = n
  BY <1>1, FS_Interval
<1>5. s \in Injection(1..n, S)
  <2> HIDE DEF n
  <2>1. Cardinality(S) = Cardinality(1..n) <=> s \in Injection(1..n, S)
    BY <1>3, <1>4, FS_Surjection
  <2> QED
    BY <1>4, <2>1 DEF n
<1>6. s \in Seq(S)
  BY <1>1, <1>2
<1>7. Apart(s)
  BY <1>2, <1>5 DEF Apart, Injection, IsInjective
<1>8. Waiting(s) = S
  BY <1>2 DEF Waiting
<1> QED
  BY <1>6, <1>7, <1>8

\* Appending blocks that are not waiting.
LEMMA AppendApart ==
    ASSUME NEW B, NEW rest \in Seq(B), NEW new \in Seq(B), Apart(rest), Apart(new),
           Waiting(rest) \cap Waiting(new) = {}
    PROVE  /\ rest \o new \in Seq(B) /\ Apart(rest \o new)
           /\ Waiting(rest \o new) = Waiting(rest) \cup Waiting(new)
<1> DEFINE w == rest \o new
           m == Len(rest)
           n == Len(new)
<1>1. /\ m \in Nat /\ n \in Nat /\ DOMAIN rest = 1..m /\ DOMAIN new = 1..n
      /\ w \in Seq(B) /\ DOMAIN w = 1..(m + n)
  OBVIOUS
<1>2. \A i \in 1..m : w[i] = rest[i] /\ i \in 1..(m + n)
  BY <1>1
<1>3. \A j \in 1..n : w[m + j] = new[j] /\ m + j \in 1..(m + n)
  BY <1>1
<1>4. \A k \in 1..(m + n) : k \in 1..m \/ (k - m \in 1..n /\ k = m + (k - m))
  BY <1>1
<1> HIDE DEF w, m, n
<1>5. Waiting(w) = Waiting(rest) \cup Waiting(new)
  <2>1. ASSUME NEW k \in 1..(m + n) PROVE w[k] \in Waiting(rest) \cup Waiting(new)
    <3>1. CASE k \in 1..m
      BY <1>1, <1>2, <3>1 DEF Waiting
    <3>2. CASE k - m \in 1..n /\ k = m + (k - m)
      <4>1. w[k] = new[k - m]
        BY <1>3, <3>2
      <4> QED
        BY <1>1, <3>2, <4>1 DEF Waiting
    <3> QED
      BY <1>4, <3>1, <3>2
  <2>2. \A i \in 1..m : rest[i] \in Waiting(w)
    BY <1>1, <1>2 DEF Waiting
  <2>3. \A j \in 1..n : new[j] \in Waiting(w)
    BY <1>1, <1>3 DEF Waiting
  <2> QED
    BY <1>1, <2>1, <2>2, <2>3 DEF Waiting
<1>6. ASSUME NEW k \in 1..(m + n), NEW l \in 1..(m + n), w[k] = w[l] PROVE k = l
  <2>1. \A i \in 1..m : rest[i] \in Waiting(rest)
    BY <1>1 DEF Waiting
  <2>2. \A j \in 1..n : new[j] \in Waiting(new)
    BY <1>1 DEF Waiting
  <2>3. CASE k \in 1..m /\ l \in 1..m
    BY <1>1, <1>2, <1>6, <2>3 DEF Apart
  <2>4. CASE k \in 1..m /\ l - m \in 1..n /\ l = m + (l - m)
    <3>1. w[k] = rest[k] /\ w[l] = new[l - m]
      BY <1>2, <1>3, <2>4
    <3> QED
      BY <1>6, <2>1, <2>2, <2>4, <3>1
  <2>5. CASE l \in 1..m /\ k - m \in 1..n /\ k = m + (k - m)
    <3>1. w[l] = rest[l] /\ w[k] = new[k - m]
      BY <1>2, <1>3, <2>5
    <3> QED
      BY <1>6, <2>1, <2>2, <2>5, <3>1
  <2>6. CASE k - m \in 1..n /\ k = m + (k - m) /\ l - m \in 1..n /\ l = m + (l - m)
    <3>1. w[k] = new[k - m] /\ w[l] = new[l - m]
      BY <1>3, <2>6
    <3>2. k - m = l - m
      BY <1>1, <1>6, <2>6, <3>1 DEF Apart
    <3> QED
      BY <2>6, <3>2
  <2> QED
    BY <1>4, <2>3, <2>4, <2>5, <2>6
<1> QED
  BY <1>1, <1>5, <1>6 DEF Apart, w

\* Taking the first block off.
LEMMA TailApart ==
    ASSUME NEW B, NEW w \in Seq(B), w # <<>>, Apart(w)
    PROVE  /\ Head(w) \in B /\ Tail(w) \in Seq(B) /\ Apart(Tail(w))
           /\ Waiting(Tail(w)) = Waiting(w) \ {Head(w)}
<1> DEFINE t == Tail(w)
           n == Len(w)
<1>1. /\ n \in Nat /\ n # 0 /\ DOMAIN w = 1..n /\ Head(w) = w[1] /\ w[1] \in B
      /\ t \in Seq(B) /\ DOMAIN t = 1..(n - 1)
  OBVIOUS
<1>2. \A i \in 1..(n - 1) : t[i] = w[i + 1] /\ i + 1 \in 1..n /\ i + 1 # 1
  BY <1>1
<1>3. \A k \in 1..n : k = 1 \/ (k - 1 \in 1..(n - 1) /\ k = (k - 1) + 1)
  BY <1>1
<1> HIDE DEF t, n
<1>4. Apart(t)
  <2>1. ASSUME NEW i \in 1..(n - 1), NEW j \in 1..(n - 1), i # j PROVE t[i] # t[j]
    <3>1. i + 1 # j + 1
      BY <1>1, <2>1
    <3> QED
      BY <1>1, <1>2, <3>1 DEF Apart
  <2> QED
    BY <1>1, <2>1 DEF Apart
<1>5. 1 \in 1..n
  BY <1>1
<1>6. ASSUME NEW i \in 1..(n - 1) PROVE t[i] \in Waiting(w) \ {w[1]}
  <2>1. w[i + 1] # w[1]
    BY <1>1, <1>2, <1>5 DEF Apart
  <2> QED
    BY <1>1, <1>2, <2>1 DEF Waiting
<1>7. ASSUME NEW k \in 1..n, w[k] # w[1] PROVE w[k] \in Waiting(t)
  <2>1. k - 1 \in 1..(n - 1) /\ w[k] = t[k - 1]
    BY <1>2, <1>3, <1>7
  <2> QED
    BY <1>1, <2>1 DEF Waiting
<1>8. Waiting(t) = Waiting(w) \ {w[1]}
  <2>1. Waiting(t) \subseteq Waiting(w) \ {w[1]}
    BY <1>1, <1>6 DEF Waiting
  <2>2. Waiting(w) \ {w[1]} \subseteq Waiting(t)
    BY <1>1, <1>7 DEF Waiting
  <2> QED
    BY <2>1, <2>2
<1> QED
  <2>1. Apart(Tail(w)) /\ Waiting(Tail(w)) = Waiting(w) \ {w[1]}
    BY <1>4, <1>8 DEF t
  <2> QED
    BY <1>1, <2>1 DEF t

\* Push leaves a worklist whose blocks are the marked ones.
LEMMA PushKeeps ==
    ASSUME body \in Bodies, NEW bb, NEW S \in SUBSET Blocks, NEW rest, IsWorklist(rest),
           Push(bb, S, rest, Waiting(rest))
    PROVE  /\ res_worklist' \in Seq(Blocks) /\ Apart(res_worklist')
           /\ res_in_worklist' = Waiting(res_worklist')
<1> DEFINE T == S \ Waiting(rest)
<1>1. IsFiniteSet(T)
  <2>1. IsFiniteSet(Blocks)
    BY BodyShape, FS_Interval
  <2> QED
    BY <2>1, FS_Subset
<1>2. PICK new \in InOrder(bb, T) : res_worklist' = rest \o new
  BY DEF Push
<1>3. res_in_worklist' = Waiting(rest) \cup S
  BY DEF Push
<1> HIDE DEF T
<1>4. new \in Seq(T) /\ Waiting(new) = T /\ Apart(new)
  BY <1>1, <1>2, InOrderIsApart
<1>5. new \in Seq(Blocks)
  BY <1>4 DEF T
<1>6. Waiting(rest) \cap T = {} /\ Waiting(rest) \cup T = Waiting(rest) \cup S
  BY DEF T
<1> QED
  BY <1>2, <1>3, <1>4, <1>5, <1>6, AppendApart DEF IsWorklist

(***************************************************************************)
(* The invariant.  That the reserved points are silent is kept only        *)
(* because the entry marks are: a marked entry is silent, so what the      *)
(* block reserves from it is.                                              *)
(***************************************************************************)
ReservedIsSilent == \A bb \in Blocks : \A i \in per_block[bb] : <<bb, i>> \in SilentPoints(loan)

EntriesAreSilent == \A bb \in Blocks : entry_reserved[bb] => <<bb, 1>> \in SilentPoints(loan)

ExitsAreSilent ==
    \A bb \in Blocks : exit_reserved[bb] =>
        \A s \in Successors(body, bb) : <<s, 1>> \in SilentPoints(loan)

WorklistApart == Apart(res_worklist)

ReservedInv ==
    /\ ReservationTypeOK
    /\ WorklistApart
    /\ EntriesAreSilent
    /\ ExitsAreSilent
    /\ ReservedIsSilent

LEMMA ReservedInit == ReservationInit => ReservedInv
<1> SUFFICES ASSUME ReservationInit PROVE ReservedInv
  OBVIOUS
<1> USE DEF ReservationInit
<1>1. ReservationTypeOK
  <2>1. loan \in collect_loans(body) /\ DOMAIN per_block = Blocks /\ started \in BOOLEAN
    OBVIOUS
  <2>2. \A bb \in Blocks : per_block[bb] \subseteq Points(body, bb)
    OBVIOUS
  <2>3. entry_reserved \in [Blocks -> BOOLEAN] /\ exit_reserved \in [Blocks -> BOOLEAN]
    OBVIOUS
  <2>4. res_worklist \in Seq(Blocks) /\ DOMAIN res_worklist = {}
    OBVIOUS
  <2>5. res_in_worklist = {res_worklist[i] : i \in DOMAIN res_worklist}
    BY <2>4
  <2> QED
    BY <2>1, <2>2, <2>3, <2>4, <2>5 DEF ReservationTypeOK
<1>2. WorklistApart
  BY DEF WorklistApart, Apart
<1>3. EntriesAreSilent /\ ExitsAreSilent /\ ReservedIsSilent
  BY DEF EntriesAreSilent, ExitsAreSilent, ReservedIsSilent
<1> QED
  BY <1>1, <1>2, <1>3 DEF ReservedInv

\* The invariant holds after a step that leaves the arguments alone, when the
\* worklist and the tables of the next state are as it says.
LEMMA ReservedKept ==
    ASSUME body \in Bodies, loan \in collect_loans(body), body' = body, loan' = loan,
           DOMAIN per_block' = Blocks,
           \A bb \in Blocks : per_block'[bb] \subseteq Points(body, bb),
           \A bb \in Blocks : \A i \in per_block'[bb] : <<bb, i>> \in SilentPoints(loan),
           entry_reserved' \in [Blocks -> BOOLEAN],
           \A bb \in Blocks : entry_reserved'[bb] => <<bb, 1>> \in SilentPoints(loan),
           exit_reserved' \in [Blocks -> BOOLEAN],
           \A bb \in Blocks : exit_reserved'[bb] =>
               \A s \in Successors(body, bb) : <<s, 1>> \in SilentPoints(loan),
           res_worklist' \in Seq(Blocks), Apart(res_worklist'), res_in_worklist' = Waiting(res_worklist'),
           started' \in BOOLEAN
    PROVE  ReservedInv'
<1>1. Blocks' = Blocks /\ SilentPoints(loan)' = SilentPoints(loan)
  <2>1. PICK l : l = loan
    OBVIOUS
  <2>2. Blocks' = Blocks /\ SilentPoints(l)' = SilentPoints(l)
    BY SilentIsRigid
  <2> QED
    BY <2>1, <2>2
<1>2. ReservationTypeOK'
  BY <1>1 DEF ReservationTypeOK, Waiting
<1>3. WorklistApart'
  BY DEF WorklistApart, Apart
<1>4. EntriesAreSilent'
  BY <1>1 DEF EntriesAreSilent
<1>5. ExitsAreSilent'
  BY <1>1 DEF ExitsAreSilent
<1>6. ReservedIsSilent'
  BY <1>1 DEF ReservedIsSilent
<1> QED
  BY <1>2, <1>3, <1>4, <1>5, <1>6 DEF ReservedInv

\* What the invariant says of the state before a step.
LEMMA ReservedFacts ==
    ASSUME ReservedInv
    PROVE  /\ body \in Bodies /\ loan \in collect_loans(body) /\ DOMAIN per_block = Blocks
           /\ \A bb \in Blocks : per_block[bb] \subseteq Points(body, bb)
           /\ \A bb \in Blocks : \A i \in per_block[bb] : <<bb, i>> \in SilentPoints(loan)
           /\ entry_reserved \in [Blocks -> BOOLEAN] /\ exit_reserved \in [Blocks -> BOOLEAN]
           /\ \A bb \in Blocks : entry_reserved[bb] => <<bb, 1>> \in SilentPoints(loan)
           /\ \A bb \in Blocks : exit_reserved[bb] =>
                  \A s \in Successors(body, bb) : <<s, 1>> \in SilentPoints(loan)
           /\ IsWorklist(res_worklist) /\ res_in_worklist = Waiting(res_worklist) /\ started \in BOOLEAN
BY DEF ReservedInv, ReservationTypeOK, WorklistApart, EntriesAreSilent, ExitsAreSilent, ReservedIsSilent,
       IsWorklist, Waiting

LEMMA StartKeeps == ReservedInv /\ Start => ReservedInv'
<1> SUFFICES ASSUME ReservedInv, Start PROVE ReservedInv'
  OBVIOUS
<1> DEFINE bb == loan.block
           start == loan.stmt + 1
           exit == ExitFrom(bb, start, TRUE)
           succ == IF exit THEN Successors(body, bb) ELSE {}
<1>1. /\ per_block' = [per_block EXCEPT ![bb] = ReservedFrom(bb, start, TRUE)]
      /\ exit_reserved' = [exit_reserved EXCEPT ![bb] = exit]
      /\ entry_reserved' = [b \in Blocks |-> entry_reserved[b] \/ b \in succ]
      /\ Push(bb, succ, res_worklist, res_in_worklist)
      /\ body' = body /\ loan' = loan /\ started' = TRUE
  BY DEF Start
<1>2. bb \in Blocks /\ start \in Points(body, bb) /\ <<bb, start>> \in SilentPoints(loan)
  BY ReservedFacts, LoanShape, SilentCloses
<1>3. exit \in BOOLEAN
  BY DEF ExitFrom
<1> HIDE DEF bb, start
<1>4. /\ ReservedFrom(bb, start, TRUE) \subseteq Points(body, bb)
      /\ \A i \in ReservedFrom(bb, start, TRUE) : <<bb, i>> \in SilentPoints(loan)
  BY <1>2, ReservedFacts, ReservedArePoints, ReservedAreSilent
<1>5. exit => \A s \in Successors(body, bb) : <<s, 1>> \in SilentPoints(loan)
  BY <1>2, ReservedFacts, ExitIsSilent
<1> HIDE DEF exit
<1>6. succ \in SUBSET Blocks /\ \A s \in succ : <<s, 1>> \in SilentPoints(loan)
  BY <1>2, <1>5, ReservedFacts, BodyShape
<1> HIDE DEF succ
<1>7. /\ res_worklist' \in Seq(Blocks) /\ Apart(res_worklist') /\ res_in_worklist' = Waiting(res_worklist')
  <2>1. Push(bb, succ, res_worklist, Waiting(res_worklist))
    BY <1>1, ReservedFacts
  <2> QED
    BY <1>6, <2>1, ReservedFacts, PushKeeps
<1>8. /\ DOMAIN per_block' = Blocks
      /\ \A b \in Blocks : per_block'[b] \subseteq Points(body, b)
      /\ \A b \in Blocks : \A i \in per_block'[b] : <<b, i>> \in SilentPoints(loan)
  BY <1>1, <1>2, <1>4, ReservedFacts
<1>9. /\ entry_reserved' \in [Blocks -> BOOLEAN]
      /\ \A b \in Blocks : entry_reserved'[b] => <<b, 1>> \in SilentPoints(loan)
  BY <1>1, <1>6, ReservedFacts
<1>10. /\ exit_reserved' \in [Blocks -> BOOLEAN]
       /\ \A b \in Blocks : exit_reserved'[b] =>
              \A s \in Successors(body, b) : <<s, 1>> \in SilentPoints(loan)
  BY <1>1, <1>2, <1>3, <1>5, ReservedFacts
<1> QED
  BY <1>1, <1>7, <1>8, <1>9, <1>10, ReservedFacts, ReservedKept

LEMMA TurnKeeps == ReservedInv /\ ReservationTurn => ReservedInv'
<1> SUFFICES ASSUME ReservedInv, ReservationTurn PROVE ReservedInv'
  OBVIOUS
<1> DEFINE bb == Head(res_worklist)
           bits == ReservedFrom(bb, 1, entry_reserved[bb])
           exit == ExitFrom(bb, 1, entry_reserved[bb])
<1>1. /\ bb \in Blocks /\ IsWorklist(Tail(res_worklist))
      /\ Waiting(Tail(res_worklist)) = res_in_worklist \ {bb}
  <2>1. res_worklist # <<>>
    BY DEF ReservationTurn
  <2> QED
    BY <2>1, ReservedFacts, TailApart DEF IsWorklist
<1>2. body' = body /\ loan' = loan /\ started' = started
  BY DEF ReservationTurn
<1>3. CASE /\ res_worklist' = Tail(res_worklist)
           /\ res_in_worklist' = res_in_worklist \ {bb}
           /\ UNCHANGED <<per_block, entry_reserved, exit_reserved>>
  <2>1. res_worklist' \in Seq(Blocks) /\ Apart(res_worklist') /\ res_in_worklist' = Waiting(res_worklist')
    BY <1>1, <1>3 DEF IsWorklist
  <2> QED
    BY <1>2, <1>3, <2>1, ReservedFacts, ReservedKept
<1>4. CASE /\ per_block' = [per_block EXCEPT ![bb] = bits]
           /\ exit_reserved' = [exit_reserved EXCEPT ![bb] = exit]
           /\ Propagate(bb, exit_reserved')
  <2>1. 1 \in Points(body, bb) /\ (entry_reserved[bb] => <<bb, 1>> \in SilentPoints(loan))
    BY <1>1, ReservedFacts, BodyShape
  <2>2. exit \in BOOLEAN
    BY DEF ExitFrom
  <2>3. bits \subseteq Points(body, bb) /\ \A i \in bits : <<bb, i>> \in SilentPoints(loan)
    BY <1>1, <2>1, ReservedFacts, ReservedArePoints, ReservedAreSilent
  <2>4. exit => \A s \in Successors(body, bb) : <<s, 1>> \in SilentPoints(loan)
    BY <1>1, <2>1, ReservedFacts, ExitIsSilent
  <2> DEFINE entry(b) == \E p \in Predecessors(body, b) : exit_reserved'[p]
             changed  == {b \in Successors(body, bb) : entry(b) # entry_reserved[b]}
  <2>5. /\ entry_reserved' = [b \in Blocks |-> IF b \in changed THEN entry(b) ELSE entry_reserved[b]]
        /\ Push(bb, changed, Tail(res_worklist), res_in_worklist \ {bb})
    BY <1>4 DEF Propagate
  <2> HIDE DEF bits, exit
  <2>6. /\ exit_reserved' \in [Blocks -> BOOLEAN]
        /\ \A b \in Blocks : exit_reserved'[b] =>
               \A s \in Successors(body, b) : <<s, 1>> \in SilentPoints(loan)
    BY <1>1, <1>4, <2>2, <2>4, ReservedFacts
  <2>7. \A b \in Blocks : entry(b) => <<b, 1>> \in SilentPoints(loan)
    BY <2>6 DEF Predecessors, Blocks
  <2>8. changed \in SUBSET Blocks
    BY <1>1, ReservedFacts, BodyShape
  <2> HIDE DEF changed
  <2>9. /\ res_worklist' \in Seq(Blocks) /\ Apart(res_worklist') /\ res_in_worklist' = Waiting(res_worklist')
    <3>1. Push(bb, changed, Tail(res_worklist), Waiting(Tail(res_worklist)))
      BY <1>1, <2>5
    <3> HIDE DEF bb
    <3> QED
      BY <1>1, <2>8, <3>1, ReservedFacts, PushKeeps
  <2>10. /\ DOMAIN per_block' = Blocks
         /\ \A b \in Blocks : per_block'[b] \subseteq Points(body, b)
         /\ \A b \in Blocks : \A i \in per_block'[b] : <<b, i>> \in SilentPoints(loan)
    BY <1>1, <1>4, <2>3, ReservedFacts
  <2>11. /\ entry_reserved' \in [Blocks -> BOOLEAN]
         /\ \A b \in Blocks : entry_reserved'[b] => <<b, 1>> \in SilentPoints(loan)
    BY <2>5, <2>7, ReservedFacts
  <2> QED
    BY <1>2, <2>6, <2>9, <2>10, <2>11, ReservedFacts, ReservedKept
<1> QED
  BY <1>3, <1>4 DEF ReservationTurn

LEMMA ReservedStep == ReservedInv /\ [ReservationNext]_<<body, res_vars>> => ReservedInv'
<1> SUFFICES ASSUME ReservedInv, [ReservationNext]_<<body, res_vars>> PROVE ReservedInv'
  OBVIOUS
<1>1. CASE Start
  BY <1>1, StartKeeps
<1>2. CASE ReservationTurn
  BY <1>2, TurnKeeps
<1>3. CASE UNCHANGED <<body, res_vars>>
  BY <1>3, ReservedFacts, ReservedKept DEF res_vars, IsWorklist
<1> QED
  BY <1>1, <1>2, <1>3 DEF ReservationNext

THEOREM ReservedCorrect == ReservationSpec => []ReservedInv
BY ReservedInit, ReservedStep, PTL DEF ReservationSpec

\* The tables, the worklist and its marks have the types the code gives them; in
\* particular a block waits in the worklist exactly when it is marked.
THEOREM ReservationTypeCorrect == ReservationSpec => []ReservationTypeOK
<1>1. ReservedInv => ReservationTypeOK
  BY DEF ReservedInv
<1> QED
  BY <1>1, ReservedCorrect, PTL

LEMMA ReservedExplained == ReservedInv => ReservedIsUnread
<1> SUFFICES ASSUME ReservedInv, NEW bb \in Blocks, NEW i \in per_block[bb]
             PROVE  <<bb, i>> \in UnreadPoints(loan) \/ <<bb, i>> \in ActivatedByTerminator(loan)
  BY DEF ReservedIsUnread
<1> QED
  BY ReservedFacts, SilentIsExplained

\* `compute` calls no point reserved unless the reference can still be unread
\* there, or a terminator has read it, at any turn of its loop, for every body and
\* two-phase loan.
THEOREM ReservationCorrect == ReservationSpec => []ReservedIsUnread
BY ReservedCorrect, ReservedExplained, PTL

(***************************************************************************)
(* compute_stmt_liveness.                                                  *)
(***************************************************************************)
\* The scan of a block satisfies the equations that define it.
LEMMA ScanEquations ==
    ASSUME body \in Bodies, NEW bb \in Blocks, NEW out
    PROVE  LET N == Len(Stmts(body, bb))
               scan == compute_stmt_liveness(body, bb, out)
           IN  /\ scan[N + 1] = out
               /\ \A i \in 1..N : scan[i] = StmtTransfer(Stmts(body, bb)[i], scan[i + 1])
<1> DEFINE ss == Stmts(body, bb)
           N == Len(ss)
           scan[i \in Points(body, bb)] ==
               IF i = N + 1 THEN out ELSE StmtTransfer(ss[i], scan[i + 1])
           S == {n \in Nat : \E f : f = [i \in ((N + 1) - n)..(N + 1) |->
                                 IF i = N + 1 THEN out ELSE StmtTransfer(ss[i], f[i + 1])]}
<1>1. N \in Nat /\ Points(body, bb) = 1..(N + 1)
  BY BodyShape
<1>2. compute_stmt_liveness(body, bb, out) = scan
  BY DEF compute_stmt_liveness
<1> HIDE DEF scan, N, ss
<1>3. 0 \in S
  <2> DEFINE f == [i \in (N + 1)..(N + 1) |-> out]
  <2>1. \A i \in (N + 1)..(N + 1) : i = N + 1
    BY <1>1
  <2>2. f = [i \in (N + 1)..(N + 1) |-> IF i = N + 1 THEN out ELSE StmtTransfer(ss[i], f[i + 1])]
    BY <2>1
  <2>3. (N + 1) - 0 = N + 1
    BY <1>1
  <2> HIDE DEF f
  <2> QED
    BY <2>2, <2>3
<1>4. ASSUME NEW n \in 0..(N - 1), n \in S PROVE n + 1 \in S
  <2> DEFINE low == (N + 1) - n
  <2>1. /\ low \in 2..(N + 1) /\ (N + 1) - (n + 1) = low - 1 /\ n + 1 \in Nat /\ n \in Nat
        /\ low - 1 # N + 1 /\ low - 1 \in Int
    BY <1>1
  <2>2. PICK f : f = [i \in low..(N + 1) |->
                          IF i = N + 1 THEN out ELSE StmtTransfer(ss[i], f[i + 1])]
    BY <1>4
  <2> HIDE DEF low
  <2> DEFINE g == [i \in (low - 1)..(N + 1) |->
                       IF i = low - 1 THEN StmtTransfer(ss[i], f[i + 1]) ELSE f[i]]
  <2>3. \A i \in low..(N + 1) : i \in (low - 1)..(N + 1) /\ i # low - 1 /\ g[i] = f[i]
    BY <1>1, <2>1
  <2>4. ASSUME NEW i \in (low - 1)..(N + 1)
        PROVE  g[i] = IF i = N + 1 THEN out ELSE StmtTransfer(ss[i], g[i + 1])
    <3>1. CASE i = low - 1
      <4>1. i + 1 = low /\ low \in low..(N + 1)
        BY <1>1, <2>1, <3>1
      <4> QED
        BY <2>1, <2>3, <3>1, <4>1
    <3>2. CASE i # low - 1
      <4>1. i \in low..(N + 1) /\ (i = N + 1 \/ i + 1 \in low..(N + 1))
        BY <1>1, <2>1, <3>2
      <4>2. f[i] = IF i = N + 1 THEN out ELSE StmtTransfer(ss[i], f[i + 1])
        BY <2>2, <4>1
      <4> QED
        BY <2>3, <4>1, <4>2
    <3> QED
      BY <3>1, <3>2
  <2>5. g = [i \in (low - 1)..(N + 1) |-> g[i]]
    OBVIOUS
  <2> HIDE DEF g
  <2>6. g = [i \in (low - 1)..(N + 1) |-> IF i = N + 1 THEN out ELSE StmtTransfer(ss[i], g[i + 1])]
    BY <2>4, <2>5
  <2> QED
    BY <2>1, <2>6
<1> HIDE DEF S
<1>5. N \in S
  BY <1>1, <1>3, <1>4, UpTo
<1>6. \E f : f = [i \in Points(body, bb) |-> IF i = N + 1 THEN out ELSE StmtTransfer(ss[i], f[i + 1])]
  <2>1. (N + 1) - N = 1
    BY <1>1
  <2> QED
    BY <1>1, <1>5, <2>1 DEF S
<1>7. scan = [i \in Points(body, bb) |-> IF i = N + 1 THEN out ELSE StmtTransfer(ss[i], scan[i + 1])]
  <2> USE DEF scan
  <2> QED
    BY <1>6, Zenon
<1>8. scan[N + 1] = out
  <2>1. N + 1 \in Points(body, bb)
    BY <1>1
  <2> QED
    BY <1>7, <2>1
<1>9. \A i \in 1..N : scan[i] = StmtTransfer(ss[i], scan[i + 1])
  <2>1. \A i \in 1..N : i \in Points(body, bb) /\ i # N + 1
    BY <1>1
  <2> QED
    BY <1>7, <2>1
<1> QED
  BY <1>2, <1>8, <1>9 DEF N, ss

\* The points of block bb where the scan says that d is not live.
UnscannedPoints(bb, d) ==
    {<<bb, i>> : i \in {j \in Points(body, bb) :
                           d \notin compute_stmt_liveness(body, bb, live_out[bb])[j]}}

\* After one of them that leaves d alone, d is not live either: the next one is
\* one of them or, after the terminator, dead for the iteration.
LEMMA UnscannedStays ==
    ASSUME body \in Bodies, \A b \in Blocks : Stable(b), NEW bb \in Blocks, NEW d,
           NEW p \in UnscannedPoints(bb, d) \cap KeepsLocal(d)
    PROVE  PointsAfter(p) \subseteq UnscannedPoints(bb, d) \cup DeadPoints(d)
<1> DEFINE N == Len(Stmts(body, bb))
           scan == compute_stmt_liveness(body, bb, live_out[bb])
<1>1. N \in Nat /\ Points(body, bb) = 1..(N + 1)
  BY BodyShape
<1>2. PICK i \in 1..(N + 1) : p = <<bb, i>> /\ d \notin scan[i]
  BY <1>1 DEF UnscannedPoints
<1>3. ~EndsLocal(<<bb, i>>, d)
  BY <1>2 DEF KeepsLocal
<1>4. scan[N + 1] = live_out[bb] /\ \A j \in 1..N : scan[j] = StmtTransfer(Stmts(body, bb)[j], scan[j + 1])
  BY ScanEquations
<1> HIDE DEF scan
<1>5. CASE i = N + 1
  <2>1. ~IsStmt(p) /\ d \notin live_out[bb]
    BY <1>1, <1>2, <1>4, <1>5 DEF IsStmt
  <2>2. PointsAfter(p) = Entries(bb)
    BY <1>2, <2>1 DEF PointsAfter
  <2> QED
    BY <2>1, <2>2, DeadEntries
<1>6. CASE i \in 1..N
  <2> DEFINE s == Stmts(body, bb)[i]
  <2>1. IsStmt(<<bb, i>>) /\ StmtAt(<<bb, i>>) = s
    BY <1>1, <1>6 DEF IsStmt, StmtAt
  <2>2. /\ s.kind = "assign" => d # s.dest.local
        /\ s.kind = "dead" => d # s.local
    <3>1. \A place : LocalsOf({place}) = {place.local}
      BY DEF LocalsOf
    <3> QED
      BY <1>3, <2>1, <3>1 DEF EndsLocal, WritesAt, PlacesWrittenAt
  <2>3. scan[i] = StmtTransfer(s, scan[i + 1])
    BY <1>4, <1>6
  <2> HIDE DEF s
  <2>4. d \notin scan[i + 1]
    BY <1>2, <2>2, <2>3 DEF StmtTransfer
  <2>5. PointsAfter(p) = {<<bb, i + 1>>} /\ i + 1 \in Points(body, bb)
    BY <1>1, <1>2, <1>6, <2>1 DEF PointsAfter
  <2> QED
    BY <2>4, <2>5 DEF UnscannedPoints, scan
<1> QED
  BY <1>1, <1>2, <1>5, <1>6

\* A statement among them does not read d.
LEMMA UnscannedIsUnread ==
    ASSUME body \in Bodies, NEW bb \in Blocks, NEW d, NEW p \in UnscannedPoints(bb, d), IsStmt(p)
    PROVE  d \notin ReadsAt(p)
<1> DEFINE N == Len(Stmts(body, bb))
           scan == compute_stmt_liveness(body, bb, live_out[bb])
<1>1. N \in Nat /\ Points(body, bb) = 1..(N + 1)
  BY BodyShape
<1>2. PICK i \in 1..(N + 1) : p = <<bb, i>> /\ d \notin scan[i]
  BY <1>1 DEF UnscannedPoints
<1>3. i \in 1..N
  BY <1>1, <1>2 DEF IsStmt
<1>4. scan[i] = StmtTransfer(Stmts(body, bb)[i], scan[i + 1])
  BY <1>3, ScanEquations
<1> DEFINE s == Stmts(body, bb)[i]
<1>5. ReadsAt(p) = LocalsOf(StmtReads(s))
  BY <1>2 DEF ReadsAt, PlacesReadAt, StmtAt
<1> HIDE DEF scan, s
<1>6. CASE s.kind = "assign"
  <2>1. d \notin StmtTransfer(s, scan[i + 1])
    BY <1>2, <1>4 DEF s
  <2> QED
    BY <1>5, <1>6, <2>1 DEF StmtTransfer, StmtReads
<1>7. CASE s.kind # "assign"
  BY <1>5, <1>7 DEF StmtReads, LocalsOf
<1> QED
  BY <1>6, <1>7

\* So a local whose value is read later, where the walk sees it, is live.
LEMMA SeenIsLive ==
    ASSUME body \in Bodies, \A b \in Blocks : Stable(b), NEW p \in AllPoints, NEW d,
           SeenReads(p, d) # {}
    PROVE  d \in compute_stmt_liveness(body, p[1], live_out[p[1]])[p[2]]
<1> SUFFICES ASSUME d \notin compute_stmt_liveness(body, p[1], live_out[p[1]])[p[2]]
             PROVE  FALSE
  OBVIOUS
<1> DEFINE bb == p[1]
           U == UnscannedPoints(bb, d)
           Q == U \cup DeadPoints(d)
<1>1. bb \in Blocks /\ p[2] \in Points(body, bb) /\ p = <<bb, p[2]>>
  BY PointShape
<1>2. p \in U
  BY <1>1 DEF UnscannedPoints
<1>3. \A q \in Q \cap KeepsLocal(d) : PointsAfter(q) \subseteq Q
  <2> SUFFICES ASSUME NEW q \in Q \cap KeepsLocal(d) PROVE PointsAfter(q) \subseteq Q
    OBVIOUS
  <2>1. CASE q \in U
    BY <1>1, <2>1, UnscannedStays
  <2>2. CASE q \in DeadPoints(d)
    <3>1. q \in NotWriting(d)
      BY DEF KeepsLocal, EndsLocal, NotWriting
    <3> QED
      BY <2>2, <3>1, DeadStaysDead
  <2> QED
    BY <2>1, <2>2
<1>4. Reach({p}, KeepsLocal(d)) \subseteq Q
  <2>1. {p} \in SUBSET AllPoints /\ {p} \subseteq Q
    BY <1>2
  <2> HIDE DEF Q
  <2> QED
    BY <1>3, <2>1, ReachStays, Zenon
<1>5. PICK q \in Reach({p}, KeepsLocal(d)) : d \in ReadsAt(q) /\ (IsStmt(q) \/ q[1] # p[1])
  BY DEF SeenReads, LaterReads
<1>6. q \in U
  BY <1>4, <1>5, DeadIsUnread
<1>7. q[1] = bb
  BY <1>6 DEF UnscannedPoints
<1> QED
  BY <1>1, <1>5, <1>6, <1>7, UnscannedIsUnread

(***************************************************************************)
(* check_borrows.  Its invariant joins those of the two analyses.          *)
(***************************************************************************)
\* The liveness sets are used only when they are final.
LivenessIsDone == phase # "liveness" => Done

LoanUnderAnalysis == loan = NoLoan \/ (loan \in TwoPhaseLoans /\ ReservedInv)

\* What the cache calls reserved can be reached without a statement reading the
\* reference.
CacheIsSilent ==
    /\ DOMAIN activation_cache \subseteq TwoPhaseLoans
    /\ \A l \in DOMAIN activation_cache : \A bb \in Blocks : \A i \in activation_cache[l][bb] :
           i \in Points(body, bb) /\ <<bb, i>> \in SilentPoints(l)

CacheIsFull == phase \in {"walk", "moves"} => TwoPhaseLoans \subseteq DOMAIN activation_cache

\* The walk goes through the blocks in order, from point to point.
WalkInOrder ==
    /\ at \in (1..(Len(body.blocks) + 1)) \X (Nat \ {0})
    /\ phase \in {"liveness", "reserve"} => at = <<1, 1>>
    /\ phase = "moves" => at[1] \notin Blocks

\* The conflicts of the statements behind it are reported.
WalkedIsReported ==
    phase \in {"walk", "moves"} =>
        \A p \in AllPoints : IsStmt(p) /\ Before(p, at) => check_stmt_conflicts(p) \subseteq errors

ReportsNameLoans == \A e \in errors : e.loan \in AllLoans /\ e.at[1] \in Blocks

CheckInv ==
    /\ IInv
    /\ phase \in {"liveness", "reserve", "walk", "moves", "panic"}
    /\ LivenessIsDone
    /\ LoanUnderAnalysis
    /\ CacheIsSilent
    /\ CacheIsFull
    /\ WalkInOrder
    /\ WalkedIsReported
    /\ ReportsNameLoans

\* What NoMissedConflict asks for at p is a conflict the walk finds at p.
LEMMA ForbiddenIsFound ==
    ASSUME body \in Bodies, \A b \in Blocks : Stable(b), CacheIsSilent,
           NEW l \in AllLoans, NEW p \in AllPoints, IsStmt(p), SeenReads(p, l.dest_local) # {},
           IF IsBorrow(p) THEN ~is_two_phase(l.kind) /\ ForbiddenBorrow(p, l)
           ELSE (ForbiddenReads(p, l) /\ ~ActivationUnseen(p, l)) \/ ForbiddenWrites(p, l),
           is_two_phase(l.kind) => l \in DOMAIN activation_cache
    PROVE  \E e \in check_stmt_conflicts(p) : e.at = p /\ e.loan = l
<1> DEFINE s == StmtAt(p)
<1>1. p[1] \in Blocks /\ p[2] \in Points(body, p[1]) /\ p = <<p[1], p[2]>>
  BY PointShape
<1>2. l \in active_loans(p)
  BY SeenIsLive DEF active_loans, LiveLocals
<1>3. \A how : Report(p, l, how).at = p /\ Report(p, l, how).loan = l
  BY DEF Report
<1>4. loan_is_in_reservation(l, p) => is_two_phase(l.kind) /\ p \in SilentPoints(l)
  <2> SUFFICES ASSUME is_two_phase(l.kind), p[2] \in activation_cache[l][p[1]]
               PROVE  p \in SilentPoints(l)
    BY DEF loan_is_in_reservation
  <2>1. <<p[1], p[2]>> \in SilentPoints(l)
    BY <1>1 DEF CacheIsSilent
  <2> QED
    BY <1>1, <2>1
<1>5. CASE IsBorrow(p)
  <2>1. s.kind = "assign" /\ s.rv.kind = "ref"
    BY <1>5 DEF IsBorrow
  <2>2. Hits({s.rv.place}, l) /\ ~(l.kind = "shared" /\ s.rv.borrow = "shared") /\ ~is_two_phase(l.kind)
    BY <1>5 DEF ForbiddenBorrow
  <2>3. check_stmt_conflicts(p) = BorrowConflicts(p, s.rv)
    BY <2>1 DEF check_stmt_conflicts
  <2> HIDE DEF s
  <2>4. conflicts_with_active(l.kind, s.rv.borrow, loan_is_in_reservation(l, p))
    BY <1>4, <2>2 DEF conflicts_with_active
  <2>5. Report(p, l, "borrow") \in BorrowConflicts(p, s.rv)
    BY <1>2, <2>2, <2>4 DEF BorrowConflicts
  <2> QED
    BY <1>3, <2>3, <2>5
<1>6. CASE ~IsBorrow(p)
  <2>1. PlacesReadAt(p) = StmtReads(s) /\ PlacesWrittenAt(p) = IF s.kind = "assign" THEN {s.dest} ELSE {}
    BY DEF PlacesReadAt, PlacesWrittenAt
  <2>2. \A places : Hits(places, l) => places # {}
    BY DEF Hits
  <2>3. s.kind = "assign" /\ s.rv.kind # "ref"
    <3>1. s.kind = "assign"
      BY <1>6, <2>1, <2>2 DEF ForbiddenReads, ForbiddenWrites, StmtReads
    <3> QED
      BY <1>6, <3>1 DEF IsBorrow
  <2>4. check_stmt_conflicts(p) = ReadConflicts(p, walk_rvalue_reads(s.rv)) \cup WriteConflicts(p, s.dest)
    BY <2>3 DEF check_stmt_conflicts
  <2>5. PlacesReadAt(p) = walk_rvalue_reads(s.rv) /\ PlacesWrittenAt(p) = {s.dest}
    BY <2>1, <2>3 DEF StmtReads
  <2> HIDE DEF s
  <2>6. CASE ForbiddenReads(p, l) /\ ~ActivationUnseen(p, l)
    <3>1. ~loan_is_in_reservation(l, p)
      <4>1. SilentPoints(l) \subseteq UnreadPoints(l) \cup ActivatedByTerminator(l)
        BY SilentIsExplained DEF AllLoans
      <4> QED
        BY <1>4, <2>6, <4>1 DEF ForbiddenReads, ActivationUnseen
    <3>2. Report(p, l, "use") \in ReadConflicts(p, walk_rvalue_reads(s.rv))
      BY <1>2, <2>5, <2>6, <3>1 DEF ForbiddenReads, ReadConflicts
    <3> QED
      BY <1>3, <2>4, <3>2
  <2>7. CASE ForbiddenWrites(p, l)
    <3>1. Report(p, l, "assign") \in WriteConflicts(p, s.dest)
      BY <1>2, <2>5, <2>7 DEF ForbiddenWrites, WriteConflicts
    <3> QED
      BY <1>3, <2>4, <3>1
  <2> QED
    BY <1>6, <2>6, <2>7
<1> QED
  BY <1>5, <1>6

\* Reports name the loan and the point.
LEMMA ReportShape ==
    ASSUME NEW p
    PROVE  /\ \A e \in check_stmt_conflicts(p) : e.loan \in AllLoans /\ e.at = p
           /\ \A e \in check_terminator_conflicts(p) : e.loan \in AllLoans /\ e.at = p
<1>1. \A l, how : Report(p, l, how).loan = l /\ Report(p, l, how).at = p
  BY DEF Report
<1>2. active_loans(p) \subseteq AllLoans
  BY DEF active_loans
<1>3. \A places : \A e \in ReadConflicts(p, places) : e.loan \in AllLoans /\ e.at = p
  BY <1>1, <1>2 DEF ReadConflicts
<1>4. \A dest : \A e \in WriteConflicts(p, dest) : e.loan \in AllLoans /\ e.at = p
  BY <1>1, <1>2 DEF WriteConflicts
<1>5. \A rv : \A e \in BorrowConflicts(p, rv) : e.loan \in AllLoans /\ e.at = p
  BY <1>1, <1>2 DEF BorrowConflicts
<1> QED
  BY <1>3, <1>4, <1>5 DEF check_stmt_conflicts, check_terminator_conflicts

\* Conflicts depend on the body, the liveness sets and the cache alone.
LEMMA ConflictsAreRigid ==
    ASSUME body' = body, live_out' = live_out, activation_cache' = activation_cache, NEW CONSTANT p
    PROVE  check_stmt_conflicts(p)' = check_stmt_conflicts(p)
BY DEF check_stmt_conflicts, ReadConflicts, WriteConflicts, BorrowConflicts, active_loans, AllLoans,
       LiveLocals, loan_is_in_reservation, StmtAt

\* Init establishes the invariant.
LEMMA CheckInitKeeps == CheckInit => CheckInv
<1> SUFFICES ASSUME CheckInit PROVE CheckInv
  OBVIOUS
<1> USE DEF CheckInit
<1>1. IInv
  BY InvInit
<1>2. body \in Bodies /\ Len(body.blocks) \in Nat
  BY <1>1, BodyShape DEF IInv, TypeOK
<1>3. LivenessIsDone /\ LoanUnderAnalysis /\ CacheIsFull /\ WalkedIsReported
  BY DEF LivenessIsDone, LoanUnderAnalysis, CacheIsFull, WalkedIsReported
<1>4. CacheIsSilent /\ ReportsNameLoans
  BY DEF CacheIsSilent, ReportsNameLoans
<1>5. WalkInOrder
  <2>1. 1 \in 1..(Len(body.blocks) + 1) /\ 1 \in Nat \ {0}
    BY <1>2
  <2> QED
    BY <2>1 DEF WalkInOrder
<1> QED
  BY <1>1, <1>3, <1>4, <1>5 DEF CheckInv

\* The body is never changed.
LEMMA BodyIsFixed ==
    ASSUME [CheckNext]_check_vars
    PROVE  body' = body
<1>1. CASE CheckNext
  BY <1>1 DEF CheckNext, ComputeLiveness, Next, Process, BeginLoan, AnalyseLoan, ReservationNext,
              Start, ReservationTurn, CacheLoan, EndReserve, CheckStmt, CheckTerminator, LookupPanics, EndWalk
<1>2. CASE UNCHANGED check_vars
  BY <1>2 DEF check_vars
<1> QED
  BY <1>1, <1>2

\* Nor, after the first phase, are the liveness sets; before, each step is one of
\* Liveness.
LEMMA LivenessKept ==
    ASSUME CheckInv, [CheckNext]_check_vars
    PROVE  /\ IInv' /\ LivenessIsDone'
           /\ phase # "liveness" => live_out' = live_out /\ phase' # "liveness"
<1>1. IInv /\ LivenessIsDone
  BY DEF CheckInv
<1>2. CASE UNCHANGED vars /\ (phase # "liveness" => phase' # "liveness")
                          /\ (phase' # "liveness" => phase # "liveness" \/ Done)
  <2>1. IInv'
    BY <1>1, <1>2, InvStep
  <2> QED
    BY <1>1, <1>2, <2>1 DEF LivenessIsDone, Done, vars
<1>3. CASE phase = "liveness" /\ Next /\ UNCHANGED phase
  <2>1. IInv'
    BY <1>1, <1>3, InvStep
  <2> QED
    BY <1>3, <2>1 DEF LivenessIsDone
<1>4. CASE ComputeLiveness
  <2>1. CASE Next /\ UNCHANGED phase
    BY <1>3, <1>4, <2>1 DEF ComputeLiveness
  <2>2. CASE Done /\ phase' = "reserve" /\ UNCHANGED <<body, live_vars>>
    BY <1>2, <1>4, <2>2 DEF ComputeLiveness, live_vars, vars
  <2> QED
    BY <1>4, <2>1, <2>2 DEF ComputeLiveness
<1>5. CASE BeginLoan \/ AnalyseLoan \/ CacheLoan
  <2>1. body' = body
    BY BodyIsFixed
  <2>2. UNCHANGED <<phase, live_vars>> /\ phase = "reserve"
    BY <1>5 DEF BeginLoan, AnalyseLoan, CacheLoan
  <2> QED
    BY <1>2, <2>1, <2>2 DEF live_vars, vars
<1>6. CASE EndReserve \/ CheckStmt \/ CheckTerminator \/ LookupPanics \/ EndWalk
  BY <1>2, <1>6 DEF EndReserve, CheckStmt, CheckTerminator, LookupPanics, EndWalk, live_vars, vars
<1>7. CASE UNCHANGED check_vars
  BY <1>2, <1>7 DEF check_vars, live_vars, vars
<1> QED
  BY <1>4, <1>5, <1>6, <1>7 DEF CheckNext

\* A loan's analysis starts from Reservation's initial state and takes its steps.
LEMMA LoanKept ==
    ASSUME CheckInv, [CheckNext]_check_vars
    PROVE  LoanUnderAnalysis'
<1>1. LoanUnderAnalysis /\ body \in Bodies /\ body' = body
  BY BodyIsFixed DEF CheckInv, IInv, TypeOK
<1>2. TwoPhaseLoans' = TwoPhaseLoans /\ Blocks' = Blocks
  BY <1>1 DEF TwoPhaseLoans, AllLoans, Blocks
<1>3. CASE UNCHANGED res_vars
  <2>1. ReservedInv => ReservedInv'
    BY <1>1, <1>3, ReservedStep
  <2> QED
    BY <1>1, <1>2, <1>3, <2>1 DEF LoanUnderAnalysis, res_vars, NoLoan
<1>4. CASE BeginLoan
  <2>1. PICK l \in TwoPhaseLoans : Fresh(l)
    BY <1>4 DEF BeginLoan
  <2>2. l \in collect_loans(body) /\ is_two_phase(l.kind)
    BY DEF TwoPhaseLoans, AllLoans
  <2>3. ReservationInit'
    BY <1>1, <1>2, <2>1, <2>2 DEF Fresh, ReservationInit
  <2>4. ReservedInv'
    BY <2>3, ReservedInit, PTL
  <2> QED
    BY <1>2, <2>1, <2>4 DEF LoanUnderAnalysis, Fresh
<1>5. CASE AnalyseLoan
  <2>1. loan \in TwoPhaseLoans /\ ReservedInv /\ ReservationNext
    BY <1>1, <1>5 DEF AnalyseLoan, LoanUnderAnalysis
  <2>2. ReservedInv'
    BY <2>1, ReservedStep
  <2>3. loan' = loan
    BY <2>1 DEF ReservationNext, Start, ReservationTurn
  <2> QED
    BY <1>2, <2>1, <2>2, <2>3 DEF LoanUnderAnalysis
<1>6. CASE CacheLoan
  BY <1>6 DEF CacheLoan, LoanUnderAnalysis, NoLoan
<1>7. CASE ComputeLiveness \/ EndReserve \/ CheckStmt \/ CheckTerminator \/ LookupPanics \/ EndWalk
  BY <1>3, <1>7 DEF ComputeLiveness, EndReserve, CheckStmt, CheckTerminator, LookupPanics, EndWalk
<1>8. CASE UNCHANGED check_vars
  BY <1>3, <1>8 DEF check_vars
<1> QED
  BY <1>4, <1>5, <1>6, <1>7, <1>8 DEF CheckNext

\* The cache takes over what the analysis of a loan found.
LEMMA CacheKept ==
    ASSUME CheckInv, [CheckNext]_check_vars
    PROVE  /\ CacheIsSilent' /\ CacheIsFull'
           /\ phase \in {"walk", "moves"} => activation_cache' = activation_cache
<1>1. /\ LoanUnderAnalysis /\ CacheIsSilent /\ CacheIsFull
      /\ phase \in {"liveness", "reserve", "walk", "moves", "panic"} /\ body' = body
  BY BodyIsFixed DEF CheckInv
<1>2. TwoPhaseLoans' = TwoPhaseLoans /\ Blocks' = Blocks
  BY <1>1 DEF TwoPhaseLoans, AllLoans, Blocks
<1>3. \A bb : Points(body, bb)' = Points(body, bb)
  BY <1>1
<1>4. CASE activation_cache' = activation_cache
  <2>1. CacheIsSilent'
    <3> SUFFICES ASSUME NEW l \in DOMAIN activation_cache, NEW bb \in Blocks, NEW i \in activation_cache[l][bb]
                 PROVE  i \in Points(body, bb)' /\ <<bb, i>> \in SilentPoints(l)'
      BY <1>1, <1>2, <1>4 DEF CacheIsSilent
    <3> QED
      BY <1>1, SilentIsRigid DEF CacheIsSilent
  <2>2. CASE phase' \in {"walk", "moves"} => phase \in {"walk", "moves"} \/ TwoPhaseLoans = DOMAIN activation_cache
    BY <1>1, <1>2, <1>4, <2>1, <2>2 DEF CacheIsFull
  <2>3. CASE CheckNext
    BY <1>1, <2>2, <2>3 DEF CheckNext, ComputeLiveness, BeginLoan, AnalyseLoan, CacheLoan, EndReserve,
                            CheckStmt, CheckTerminator, LookupPanics, EndWalk
  <2>4. CASE UNCHANGED check_vars
    BY <2>2, <2>4 DEF check_vars
  <2> QED
    BY <2>3, <2>4
<1>5. CASE CacheLoan
  <2>1. /\ phase = "reserve" /\ phase' = phase /\ loan # NoLoan
        /\ activation_cache' = [l \in DOMAIN activation_cache \cup {loan} |->
                                   IF l = loan THEN per_block ELSE activation_cache[l]]
    BY <1>5 DEF CacheLoan
  <2>2. /\ loan \in TwoPhaseLoans
        /\ \A bb \in Blocks : \A i \in per_block[bb] :
               i \in Points(body, bb) /\ <<bb, i>> \in SilentPoints(loan)
    <3>1. loan \in TwoPhaseLoans /\ ReservedInv
      BY <1>1, <2>1 DEF LoanUnderAnalysis
    <3> QED
      BY <3>1, ReservedFacts
  <2>3. ASSUME NEW l \in DOMAIN activation_cache', NEW bb \in Blocks, NEW i \in activation_cache'[l][bb]
        PROVE  i \in Points(body, bb) /\ <<bb, i>> \in SilentPoints(l)
    <3>1. CASE l = loan
      BY <2>1, <2>2, <2>3, <3>1
    <3>2. CASE l # loan
      BY <1>1, <2>1, <2>3, <3>2 DEF CacheIsSilent
    <3> QED
      BY <3>1, <3>2
  <2>4. ASSUME NEW l \in DOMAIN activation_cache', NEW bb \in Blocks, NEW i \in activation_cache'[l][bb]
        PROVE  i \in Points(body, bb)' /\ <<bb, i>> \in SilentPoints(l)'
    <3>1. PICK m, b, k : m = l /\ b = bb /\ k = i
      OBVIOUS
    <3>2. SilentPoints(m)' = SilentPoints(m)
      BY <1>1, SilentIsRigid
    <3> QED
      BY <1>1, <2>3, <2>4, <3>1, <3>2
  <2>5. CacheIsSilent'
    BY <1>1, <1>2, <2>1, <2>2, <2>4 DEF CacheIsSilent
  <2> QED
    BY <2>1, <2>5 DEF CacheIsFull
<1>6. CASE UNCHANGED check_vars
  BY <1>4, <1>6 DEF check_vars
<1>7. CASE CheckNext /\ ~CacheLoan
  BY <1>4, <1>7 DEF CheckNext, ComputeLiveness, BeginLoan, AnalyseLoan, EndReserve, CheckStmt,
                    CheckTerminator, LookupPanics, EndWalk
<1> QED
  BY <1>5, <1>6, <1>7

\* Reports only ever name loans and points of the body.
LEMMA ReportsKept ==
    ASSUME CheckInv, [CheckNext]_check_vars
    PROVE  ReportsNameLoans'
<1>1. ReportsNameLoans /\ body' = body
  BY BodyIsFixed DEF CheckInv
<1>2. AllLoans' = AllLoans /\ Blocks' = Blocks
  BY <1>1 DEF AllLoans, Blocks
<1>3. CASE errors' = errors
  BY <1>1, <1>2, <1>3 DEF ReportsNameLoans
<1>4. CASE CheckStmt \/ CheckTerminator
  <2>1. /\ at[1] \in Blocks
        /\ errors' \subseteq errors \cup check_stmt_conflicts(at) \cup check_terminator_conflicts(at)
    BY <1>4 DEF CheckStmt, CheckTerminator
  <2> QED
    BY <1>1, <1>2, <2>1, ReportShape DEF ReportsNameLoans
<1>5. CASE UNCHANGED check_vars
  BY <1>3, <1>5 DEF check_vars
<1> QED
  BY <1>3, <1>4, <1>5 DEF CheckNext, ComputeLiveness, BeginLoan, AnalyseLoan, CacheLoan, EndReserve,
                          LookupPanics, EndWalk

\* What is behind the next point of the walk is behind this one, or is this one.
LEMMA WalkStep ==
    ASSUME CheckInv, CheckStmt \/ CheckTerminator
    PROVE  /\ WalkInOrder'
           /\ \A p \in AllPoints : IsStmt(p) /\ Before(p, at)' => Before(p, at) \/ (p = at /\ CheckStmt)
<1>1. WalkInOrder /\ body \in Bodies /\ body' = body /\ phase = "walk" /\ phase' = "walk"
  BY DEF CheckInv, IInv, TypeOK, CheckStmt, CheckTerminator
<1>2. at \in (1..(Len(body.blocks) + 1)) \X (Nat \ {0}) /\ at[1] \in Blocks
  BY <1>1 DEF WalkInOrder, CheckStmt, CheckTerminator
<1>3. Len(body.blocks) \in Nat /\ Blocks = 1..Len(body.blocks)
  BY <1>1, BodyShape
<1>4. PICK bb \in 1..Len(body.blocks), i \in Nat \ {0} : at = <<bb, i>>
  BY <1>2, <1>3
<1>5. ASSUME NEW p \in AllPoints
      PROVE  /\ p[1] \in Nat /\ p[2] \in Nat \ {0} /\ p = <<p[1], p[2]>>
             /\ IsStmt(p) <=> p[2] <= Len(Stmts(body, p[1]))
             /\ Len(Stmts(body, p[1])) \in Nat
  <2>1. p[1] \in Blocks /\ p[2] \in Points(body, p[1]) /\ p = <<p[1], p[2]>>
    BY PointShape
  <2> QED
    BY <1>1, <1>3, <2>1, BodyShape DEF IsStmt
<1>6. CASE CheckStmt
  <2>1. at' = <<bb, i + 1>>
    BY <1>4, <1>6 DEF CheckStmt
  <2>2. WalkInOrder'
    <3>1. bb \in 1..(Len(body.blocks) + 1) /\ i + 1 \in Nat \ {0}
      BY <1>3
    <3>2. at' \in (1..(Len(body'.blocks) + 1)) \X (Nat \ {0})
      BY <1>1, <2>1, <3>1
    <3> QED
      BY <1>1, <3>2 DEF WalkInOrder
  <2>3. ASSUME NEW p \in AllPoints, Before(p, at)' PROVE Before(p, at) \/ p = at
    <3>1. p[1] < bb \/ (p[1] = bb /\ p[2] < i + 1)
      BY <2>1, <2>3 DEF Before
    <3>2. p[1] < bb \/ (p[1] = bb /\ (p[2] < i \/ p[2] = i))
      BY <1>5, <3>1
    <3> QED
      BY <1>4, <1>5, <3>2 DEF Before
  <2> QED
    BY <1>6, <2>2, <2>3
<1>7. CASE CheckTerminator
  <2>1. at' = <<bb + 1, 1>> /\ ~IsStmt(at)
    BY <1>4, <1>7 DEF CheckTerminator
  <2>2. WalkInOrder'
    <3>1. bb + 1 \in 1..(Len(body.blocks) + 1) /\ 1 \in Nat \ {0}
      BY <1>3
    <3>2. at' \in (1..(Len(body'.blocks) + 1)) \X (Nat \ {0})
      BY <1>1, <2>1, <3>1
    <3> QED
      BY <1>1, <3>2 DEF WalkInOrder
  <2>3. ASSUME NEW p \in AllPoints, IsStmt(p), Before(p, at)' PROVE Before(p, at)
    <3>1. p[1] < bb + 1 \/ (p[1] = bb + 1 /\ p[2] < 1)
      BY <2>1, <2>3 DEF Before
    <3>2. p[1] < bb \/ p[1] = bb
      BY <1>5, <3>1
    <3>3. p[1] = bb => p[2] < i
      <4>1. ~(i <= Len(Stmts(body, bb)))
        BY <1>4, <2>1 DEF IsStmt
      <4> QED
        BY <1>5, <2>3, <4>1
    <3> QED
      BY <1>4, <3>2, <3>3 DEF Before
  <2> QED
    BY <2>2, <2>3
<1> QED
  BY <1>6, <1>7

\* The walk misses no statement.
LEMMA WalkKept ==
    ASSUME CheckInv, [CheckNext]_check_vars
    PROVE  WalkInOrder' /\ WalkedIsReported'
<1>1. /\ body \in Bodies /\ body' = body /\ WalkInOrder /\ WalkedIsReported
      /\ phase \in {"liveness", "reserve", "walk", "moves", "panic"}
  BY BodyIsFixed DEF CheckInv, IInv, TypeOK
<1>2. Blocks' = Blocks /\ AllPoints' = AllPoints
  BY <1>1 DEF Blocks, AllPoints
<1>3. CASE phase' \in {"liveness", "reserve"} /\ phase \in {"liveness", "reserve"} /\ at' = at
  <2>1. WalkInOrder'
    BY <1>1, <1>2, <1>3 DEF WalkInOrder
  <2> QED
    BY <1>3, <2>1 DEF WalkedIsReported
<1>4. CASE EndReserve
  <2>1. at' = at /\ at = <<1, 1>> /\ phase' \in {"walk", "panic"}
    BY <1>1, <1>4 DEF EndReserve, WalkInOrder
  <2>2. WalkInOrder'
    BY <1>1, <2>1 DEF WalkInOrder
  <2>3. ASSUME NEW p \in AllPoints PROVE ~Before(p, at)'
    <3>1. p[1] \in Nat \ {0} /\ p[2] \in Nat \ {0}
      <4>1. p[1] \in Blocks /\ p[2] \in Points(body, p[1])
        BY PointShape
      <4> QED
        BY <1>1, <4>1, BodyShape
    <3> QED
      BY <2>1, <3>1 DEF Before
  <2> QED
    BY <1>2, <2>2, <2>3 DEF WalkedIsReported
<1>5. CASE phase \in {"walk", "moves"} /\ ~LookupPanics
  <2>1. live_out' = live_out /\ activation_cache' = activation_cache
    BY <1>5, LivenessKept, CacheKept
  <2>2. \A p : check_stmt_conflicts(p)' = check_stmt_conflicts(p)
    BY <1>1, <2>1, ConflictsAreRigid
  <2>3. \A p : IsStmt(p)' <=> IsStmt(p)
    BY <1>1 DEF IsStmt
  <2>4. \A p \in AllPoints : IsStmt(p) /\ Before(p, at) => check_stmt_conflicts(p) \subseteq errors
    BY <1>5, <1>1 DEF WalkedIsReported
  <2>5. CASE CheckStmt \/ CheckTerminator
    <3>1. /\ errors \subseteq errors'
          /\ CheckStmt => check_stmt_conflicts(at) \subseteq errors'
      BY <2>5 DEF CheckStmt, CheckTerminator
    <3>2. ASSUME NEW p \in AllPoints, IsStmt(p), Before(p, at)'
          PROVE  check_stmt_conflicts(p) \subseteq errors'
      BY <2>4, <2>5, <3>1, <3>2, WalkStep
    <3> QED
      BY <1>2, <2>2, <2>3, <2>5, <3>2, WalkStep DEF WalkedIsReported
  <2>6. CASE EndWalk \/ UNCHANGED check_vars
    <3>1. at' = at /\ errors' = errors
      BY <2>6 DEF EndWalk, check_vars
    <3>2. WalkInOrder'
      BY <1>1, <1>2, <2>6 DEF WalkInOrder, EndWalk, check_vars
    <3> QED
      BY <1>2, <2>2, <2>3, <2>4, <3>1, <3>2 DEF WalkedIsReported, Before
  <2> QED
    BY <1>5, <2>5, <2>6 DEF CheckNext, ComputeLiveness, BeginLoan, AnalyseLoan, CacheLoan, EndReserve
<1>6. CASE LookupPanics \/ phase = "panic"
  <2>1. phase' = "panic" /\ at' = at
    BY <1>6 DEF LookupPanics, CheckNext, ComputeLiveness, BeginLoan, AnalyseLoan, CacheLoan, EndReserve,
                CheckStmt, CheckTerminator, EndWalk, check_vars
  <2> QED
    BY <1>1, <2>1 DEF WalkInOrder, WalkedIsReported
<1>7. CASE phase \in {"liveness", "reserve"} /\ ~EndReserve
  <2>1. CASE UNCHANGED check_vars
    BY <1>3, <1>7, <2>1 DEF check_vars
  <2>2. CASE CheckNext
    BY <1>3, <1>7, <2>2 DEF CheckNext, ComputeLiveness, BeginLoan, AnalyseLoan, CacheLoan, CheckStmt,
                            CheckTerminator, LookupPanics, EndWalk
  <2> QED
    BY <2>1, <2>2
<1> QED
  BY <1>1, <1>4, <1>5, <1>6, <1>7

LEMMA CheckStep == CheckInv /\ [CheckNext]_check_vars => CheckInv'
<1> SUFFICES ASSUME CheckInv, [CheckNext]_check_vars PROVE CheckInv'
  OBVIOUS
<1>1. phase' \in {"liveness", "reserve", "walk", "moves", "panic"}
  BY DEF CheckInv, CheckNext, ComputeLiveness, BeginLoan, AnalyseLoan, CacheLoan, EndReserve, CheckStmt,
         CheckTerminator, LookupPanics, EndWalk, check_vars
<1> QED
  BY <1>1, LivenessKept, LoanKept, CacheKept, WalkKept, ReportsKept DEF CheckInv

LEMMA CheckInvariance == CheckSpec => []CheckInv
BY CheckInitKeeps, CheckStep, PTL DEF CheckSpec

\* The first phase is compute_liveness, and nothing after it writes what it computed.
LEMMA AnalysisRuns == CheckSpec => Run
<1>1. CheckInit => Init
  BY DEF CheckInit
<1>2. [CheckNext]_check_vars => [Next]_vars
  <2> SUFFICES ASSUME [CheckNext]_check_vars PROVE [Next]_vars
    OBVIOUS
  <2>1. CASE ComputeLiveness
    BY <2>1, BodyIsFixed DEF ComputeLiveness, live_vars, vars
  <2>2. CASE BeginLoan \/ AnalyseLoan \/ CacheLoan \/ EndReserve
    BY <2>2, BodyIsFixed DEF BeginLoan, AnalyseLoan, CacheLoan, EndReserve, live_vars, vars
  <2>3. CASE CheckStmt \/ CheckTerminator \/ LookupPanics \/ EndWalk \/ UNCHANGED check_vars
    BY <2>3, BodyIsFixed DEF CheckStmt, CheckTerminator, LookupPanics, EndWalk, check_vars, live_vars, vars
  <2> QED
    BY <2>1, <2>2, <2>3 DEF CheckNext
<1> QED
  BY <1>1, <1>2, PTL DEF CheckSpec, Run

\* check_borrows takes a loan for active by live_out: once compute_liveness has
\* finished, and through the rest of the check, that is exactly what is read later.
THEOREM LivenessInCheck == CheckSpec => []LiveOutIsPathLiveness
BY AnalysisRuns, LiveOutIsExact, PTL

\* Inside check_borrows the reservation of every loan is right at each turn of its analysis,
\* whichever loans were analysed before it, in every body.
THEOREM ReservationInCheck == CheckSpec => []AnalysedIsUnread
<1>1. CheckInv => AnalysedIsUnread
  <2>1. CheckInv /\ loan # NoLoan => ReservedInv
    BY DEF CheckInv, LoanUnderAnalysis
  <2> QED
    BY <2>1, ReservedExplained DEF AnalysedIsUnread
<1> QED
  BY <1>1, CheckInvariance, PTL

\* Inside check_borrows both analyses keep their types, whichever loans they are run on,
\* and the cache and the reports hold loans and points of the body.
THEOREM CheckTypeCorrect == CheckSpec => []CheckTypeOK
<1>1. CheckInv => CheckTypeOK
  <2> SUFFICES ASSUME CheckInv PROVE CheckTypeOK
    OBVIOUS
  <2>1. TypeOK /\ (loan = NoLoan \/ ReservationTypeOK)
    BY DEF CheckInv, IInv, LoanUnderAnalysis, ReservedInv
  <2>2. at[1] \in 1..(Len(body.blocks) + 1)
    BY DEF CheckInv, WalkInOrder
  <2>3. /\ DOMAIN activation_cache \subseteq TwoPhaseLoans
        /\ \A l \in DOMAIN activation_cache : \A bb \in Blocks :
               activation_cache[l][bb] \subseteq Points(body, bb)
    BY DEF CheckInv, CacheIsSilent
  <2> QED
    BY <2>1, <2>2, <2>3 DEF CheckInv, CheckTypeOK, ReportsNameLoans
<1> QED
  BY <1>1, CheckInvariance, PTL

\* check_borrows reports every conflict that an execution can meet, at a statement and
\* while the reference is read later where the walk sees it, in every body.
THEOREM ConflictsCorrect == CheckSpec => []NoMissedConflict
<1>1. CheckInv => NoMissedConflict
  <2> SUFFICES ASSUME CheckInv, Checked, NEW l \in AllLoans, NEW p \in HeldPoints(l),
                      IsStmt(p), SeenReads(p, l.dest_local) # {},
                      IF IsBorrow(p) THEN ~is_two_phase(l.kind) /\ ForbiddenBorrow(p, l)
                      ELSE (ForbiddenReads(p, l) /\ ~ActivationUnseen(p, l)) \/ ForbiddenWrites(p, l)
               PROVE  Reported(p, l)
    BY DEF NoMissedConflict
  <2>1. phase = "moves" /\ Done /\ CacheIsSilent /\ body \in Bodies
    BY DEF Checked, CheckInv, LivenessIsDone, IInv, TypeOK
  <2>2. \A b \in Blocks : Stable(b)
    BY <2>1, DoneIsStable DEF CheckInv
  <2>3. p \in AllPoints
    <3> DEFINE after == PointsAfter(CreatedAt(l))
               passes == KeepsLocal(l.dest_local)
    <3>1. after \in SUBSET AllPoints
      BY <2>1, LoanShape DEF AllLoans
    <3>2. p \in Reach(after, passes)
      BY DEF HeldPoints
    <3> HIDE DEF after, passes
    <3>3. Reach(after, passes) \subseteq AllPoints
      BY <2>1, <3>1, ReachCloses
    <3> QED
      BY <3>2, <3>3
  <2>4. is_two_phase(l.kind) => l \in DOMAIN activation_cache
    BY <2>1 DEF CheckInv, CacheIsFull, TwoPhaseLoans
  <2>5. PICK e \in check_stmt_conflicts(p) : e.at = p /\ e.loan = l
    BY <2>1, <2>2, <2>3, <2>4, ForbiddenIsFound
  <2>6. Before(p, at)
    <3>1. /\ at[1] \in 1..(Len(body.blocks) + 1) /\ at[1] \notin Blocks
          /\ Blocks = 1..Len(body.blocks) /\ Len(body.blocks) \in Nat
      BY <2>1, BodyShape DEF CheckInv, WalkInOrder
    <3>2. p[1] \in Blocks
      BY <2>3, PointShape
    <3> QED
      BY <3>1, <3>2 DEF Before
  <2>7. e \in errors
    BY <2>1, <2>3, <2>5, <2>6 DEF CheckInv, WalkedIsReported
  <2> QED
    BY <2>5, <2>7 DEF Reported
<1> QED
  BY <1>1, CheckInvariance, PTL
=============================================================================
