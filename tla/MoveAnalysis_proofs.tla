------------------------- MODULE MoveAnalysis_proofs -------------------------
(***************************************************************************)
(* Proofs about MoveAnalysis for every set of bodies: the bit sets never   *)
(* hold more than they have room for, the worklist loses no change, and a  *)
(* use after a move is reported.                                           *)
(***************************************************************************)
EXTENDS MoveAnalysis, ProofBasics

\* What the assumption says of a body.
LEMMA BodyShape ==
    ASSUME body \in Bodies
    PROVE  /\ Len(body.blocks) \in Nat /\ Blocks = 1..Len(body.blocks) /\ IsFiniteSet(Blocks)
           /\ \A bb \in Blocks :
                  /\ Len(Stmts(body, bb)) \in Nat /\ DOMAIN Stmts(body, bb) = 1..Len(Stmts(body, bb))
                  /\ Points(body, bb) = 1..(Len(Stmts(body, bb)) + 1)
                  /\ Successors(body, bb) \subseteq Blocks
                  /\ Predecessors(body, bb) \subseteq Blocks
<1>1. Len(body.blocks) \in Nat /\ Blocks = 1..Len(body.blocks)
  BY MoveBodiesReady DEF Blocks, BlockIdx
<1>2. IsFiniteSet(Blocks)
  BY <1>1, FS_Interval
<1>3. \A bb \in Blocks : /\ Len(Stmts(body, bb)) \in Nat /\ DOMAIN Stmts(body, bb) = 1..Len(Stmts(body, bb))
                         /\ Successors(body, bb) \subseteq Blocks
  BY MoveBodiesReady DEF Blocks
<1>4. \A bb \in Blocks : /\ Points(body, bb) = 1..(Len(Stmts(body, bb)) + 1)
                         /\ Predecessors(body, bb) \subseteq Blocks
  BY DEF Points, Predecessors, Blocks
<1> QED
  BY <1>1, <1>2, <1>3, <1>4

(***************************************************************************)
(* Effects of statements.                                                  *)
(***************************************************************************)
\* A larger arena has more children; if they are all in the smaller one, the same.
LEMMA ChildrenGrow ==
    ASSUME NEW small, NEW large, small \subseteq large, NEW ps
    PROVE  /\ WithChildren(small, ps) \subseteq WithChildren(large, ps)
           /\ WithChildren(large, ps) \subseteq small
                  => WithChildren(large, ps) = WithChildren(small, ps)
BY DEF WithChildren, Children

\* So a statement moves no less when the arena has grown, and initialises the same
\* if that fits into the bit sets.
LEMMA EffectsGrow ==
    ASSUME NEW large, Capacity \subseteq large, NEW s
    PROVE  /\ StmtMoves(body, Capacity, s) \subseteq StmtMoves(body, large, s)
           /\ StmtInits(body, large, s) \subseteq Capacity
                  => StmtInits(body, large, s) = StmtInits(body, Capacity, s)
BY ChildrenGrow DEF StmtMoves, StmtInits

\* What a statement kills it also moves.
LEMMA DeadsAreMoves ==
    ASSUME NEW bb
    PROVE  Deads(bb) \subseteq Moves(bb)
<1>1. \A s : StmtDeads(body, Capacity, s) \subseteq StmtMoves(body, Capacity, s)
  BY DEF StmtDeads, StmtMoves
<1> QED
  BY <1>1 DEF Deads, Moves, BlockDeads, BlockMoves

\* What one statement does is part of what its block does.
LEMMA StmtInBlock ==
    ASSUME NEW bb, NEW i \in DOMAIN Stmts(body, bb)
    PROVE  /\ StmtMoves(body, Capacity, Stmts(body, bb)[i]) \subseteq Moves(bb)
           /\ StmtInits(body, Capacity, Stmts(body, bb)[i]) \subseteq Inits(bb)
BY DEF Moves, Inits, BlockMoves, BlockInits, StmtSet

\* A path the block initialises is initialised by a statement or the terminator.
LEMMA InitsOfBlock ==
    ASSUME NEW bb, NEW m \in Inits(bb)
    PROVE  \/ \E i \in DOMAIN Stmts(body, bb) : m \in StmtInits(body, Capacity, Stmts(body, bb)[i])
           \/ m \in TermInits(body, Capacity, bb)
<1>1. Inits(bb) = TermInits(body, Capacity, bb)
                    \cup UNION {StmtInits(body, Capacity, s) : s \in StmtSet(body, bb)}
  BY DEF Inits, BlockInits
<1>2. \A s \in StmtSet(body, bb) : \E i \in DOMAIN Stmts(body, bb) : s = Stmts(body, bb)[i]
  BY DEF StmtSet
<1>3. \/ \E s \in StmtSet(body, bb) : m \in StmtInits(body, Capacity, s)
      \/ m \in TermInits(body, Capacity, bb)
  BY <1>1
<1> QED
  BY <1>2, <1>3

\* The equations stay within the capacity if what is recorded does.
LEMMA FlowType ==
    ASSUME body \in Bodies, NEW bb \in Blocks, Moves(bb) \cup Inits(bb) \subseteq Capacity,
           NEW out \in PathMaps
    PROVE  /\ JoinIn(bb, out) \in SUBSET Capacity
           /\ MovedOut(bb, JoinIn(bb, out)) \in SUBSET Capacity
           /\ DeadOut(bb, JoinIn(bb, out)) \in SUBSET Capacity
<1>1. JoinIn(bb, out) \in SUBSET Capacity
  BY BodyShape DEF JoinIn, PathMaps
<1> QED
  BY <1>1, DeadsAreMoves DEF MovedOut, DeadOut

(***************************************************************************)
(* One turn of the dataflow, with the worklist reduced to what the         *)
(* invariants use of it.                                                   *)
(***************************************************************************)
\* Every block marked as waiting is really on the stack.
Queued == \A bb \in in_worklist : On(worklist, bb)

Processed(bi) ==
    /\ UNCHANGED <<body, phase, arena, next_block, errors>>
    /\ moved_in'  = [moved_in  EXCEPT ![bi] = JoinIn(bi, moved_out)]
    /\ moved_out' = [moved_out EXCEPT ![bi] = MovedOut(bi, JoinIn(bi, moved_out))]
    /\ dead_in'   = [dead_in   EXCEPT ![bi] = JoinIn(bi, dead_out)]
    /\ dead_out'  = [dead_out  EXCEPT ![bi] = DeadOut(bi, JoinIn(bi, dead_out))]
    /\ worklist' \in Seq(Blocks) /\ in_worklist' \subseteq Blocks
    /\ in_worklist \ {bi} \subseteq in_worklist'
    /\ \/ moved_out' = moved_out /\ dead_out' = dead_out
       \/ Successors(body, bi) \subseteq in_worklist'
    /\ Queued => Queued'

\* A turn works on the block on top of the stack.
LEMMA TurnProcesses ==
    ASSUME TypeOK, Turn
    PROVE  \E bi \in Blocks : Processed(bi)
<1> DEFINE bi      == worklist[Len(worklist)]
           waiting == in_worklist \ {bi}
           changed == Changed(bi, JoinIn(bi, moved_out), JoinIn(bi, dead_out))
           pushed  == IF changed THEN Successors(body, bi) \ waiting ELSE {}
<1>1. /\ worklist # <<>> /\ UNCHANGED <<body, phase, arena, next_block, errors>>
      /\ moved_in'  = [moved_in  EXCEPT ![bi] = JoinIn(bi, moved_out)]
      /\ moved_out' = [moved_out EXCEPT ![bi] = MovedOut(bi, JoinIn(bi, moved_out))]
      /\ dead_in'   = [dead_in   EXCEPT ![bi] = JoinIn(bi, dead_out)]
      /\ dead_out'  = [dead_out  EXCEPT ![bi] = DeadOut(bi, JoinIn(bi, dead_out))]
      /\ in_worklist' = waiting \cup pushed
      /\ \E new \in PushedSeqs(bi, pushed) : worklist' = Front(worklist) \o new
  BY DEF Turn
<1>2. /\ body \in Bodies /\ worklist \in Seq(Blocks) /\ in_worklist \subseteq Blocks
      /\ moved_out \in PathMaps /\ dead_out \in PathMaps
  BY DEF TypeOK
<1>3. bi \in Blocks
  <2>1. Len(worklist) \in Nat /\ Len(worklist) > 0
    BY <1>1, <1>2
  <2> QED
    BY <1>2, <2>1
<1>4. changed \/ (moved_out' = moved_out /\ dead_out' = dead_out)
  <2>1. ASSUME ~changed
        PROVE  /\ MovedOut(bi, JoinIn(bi, moved_out)) = moved_out[bi]
               /\ DeadOut(bi, JoinIn(bi, dead_out)) = dead_out[bi]
    <3> HIDE DEF bi
    <3> QED
      BY <2>1 DEF Changed
  <2> HIDE DEF bi, changed
  <2> QED
    BY <1>1, <1>2, <1>3, <2>1 DEF PathMaps
<1>5. pushed \subseteq Blocks /\ IsFiniteSet(pushed)
      /\ (changed => Successors(body, bi) \subseteq waiting \cup pushed)
  <2>1. pushed \subseteq Blocks
    BY <1>2, <1>3, BodyShape
  <2>2. changed => Successors(body, bi) \subseteq waiting \cup pushed
    OBVIOUS
  <2> HIDE DEF pushed
  <2> QED
    BY <1>2, <2>1, <2>2, BodyShape, FS_Subset
<1>6. PICK new \in PushedSeqs(bi, pushed) : worklist' = Front(worklist) \o new
  BY <1>1
<1>7. /\ new \in [1..Cardinality(pushed) -> pushed]
      /\ \A b \in pushed : \E i \in 1..Cardinality(pushed) : new[i] = b
  BY <1>6 DEF PushedSeqs
<1>8. Front(worklist) = Popped(worklist)
  BY DEF Front, Popped
<1> HIDE DEF pushed, changed
<1>9. /\ Popped(worklist) \o new \in Seq(Blocks)
      /\ \A b \in Blocks : On(worklist, b) /\ b # bi => On(Popped(worklist), b)
      /\ \A b \in Blocks : On(Popped(worklist), b) \/ b \in pushed => On(Popped(worklist) \o new, b)
  BY <1>1, <1>2, <1>5, <1>7, PopPush
<1> HIDE DEF bi
<1>10. worklist' \in Seq(Blocks) /\ in_worklist' \subseteq Blocks
  BY <1>1, <1>2, <1>5, <1>6, <1>8, <1>9
<1>11. Queued => Queued'
  BY <1>1, <1>2, <1>5, <1>6, <1>8, <1>9 DEF Queued
<1>12. \/ (moved_out' = moved_out /\ dead_out' = dead_out)
       \/ Successors(body, bi) \subseteq in_worklist'
  BY <1>1, <1>4, <1>5
<1>13. Processed(bi)
  BY <1>1, <1>10, <1>11, <1>12 DEF Processed
<1> QED
  BY <1>3, <1>13

\* A turn for bi settles bi and queues whoever read its old outputs.
LEMMA TurnCovers ==
    ASSUME TypeOK, WaitingCovers, NEW bi \in Blocks, Processed(bi)
    PROVE  WaitingCovers'
<1>1. /\ body \in Bodies /\ body' = body
      /\ moved_in \in PathMaps /\ moved_out \in PathMaps
      /\ dead_in \in PathMaps /\ dead_out \in PathMaps
  BY DEF TypeOK, Processed
<1>2. Blocks' = Blocks
  BY <1>1 DEF Blocks
<1>3. /\ \A b \in Blocks : b # bi => moved_in'[b] = moved_in[b] /\ dead_in'[b] = dead_in[b]
      /\ \A b \in Blocks : b # bi => moved_out'[b] = moved_out[b] /\ dead_out'[b] = dead_out[b]
      /\ moved_in'[bi] = JoinIn(bi, moved_out) /\ dead_in'[bi] = JoinIn(bi, dead_out)
      /\ moved_out'[bi] = MovedOut(bi, moved_in'[bi]) /\ dead_out'[bi] = DeadOut(bi, dead_in'[bi])
  BY <1>1 DEF Processed, PathMaps
<1> SUFFICES ASSUME NEW bb \in Blocks, bb \notin in_worklist'
             PROVE  Settled(bb)'
  BY <1>2 DEF WaitingCovers
<1>4. JoinIn(bb, moved_out)' = JoinIn(bb, moved_out) /\ JoinIn(bb, dead_out)' = JoinIn(bb, dead_out)
  <2>1. CASE moved_out' = moved_out /\ dead_out' = dead_out
    BY <1>1, <2>1 DEF JoinIn
  <2>2. CASE Successors(body, bi) \subseteq in_worklist'
    <3>1. \A b \in Predecessors(body, bb) : b \in Blocks /\ b # bi
      BY <2>2 DEF Predecessors, Blocks
    <3>2. /\ {moved_out'[b] : b \in Predecessors(body, bb)} = {moved_out[b] : b \in Predecessors(body, bb)}
          /\ {dead_out'[b] : b \in Predecessors(body, bb)} = {dead_out[b] : b \in Predecessors(body, bb)}
      BY <1>3, <3>1
    <3> QED
      BY <1>1, <3>2, Zenon DEF JoinIn
  <2> QED
    BY <2>1, <2>2 DEF Processed
<1>5. Moves(bb)' = Moves(bb) /\ Deads(bb)' = Deads(bb) /\ Inits(bb)' = Inits(bb)
  BY <1>1 DEF Moves, Deads, Inits, Capacity
<1>6. CASE bb = bi
  BY <1>3, <1>4, <1>5, <1>6 DEF Settled, MovedOut, DeadOut
<1>7. CASE bb # bi
  <2>1. Settled(bb)
    BY <1>7 DEF WaitingCovers, Processed
  <2> QED
    BY <1>3, <1>4, <1>5, <1>7, <2>1 DEF Settled, MovedOut, DeadOut
<1> QED
  BY <1>6, <1>7

(***************************************************************************)
(* The replay of a block.                                                  *)
(***************************************************************************)
\* The recursion of compute_stmt_moved: its start and its steps.
LEMMA Scanned ==
    ASSUME body \in Bodies, NEW bb \in Blocks, NEW paths, NEW min, NEW din
    PROVE  LET scan == compute_stmt_moved(body, paths, bb, min, din)
           IN  /\ scan[1] = [moved |-> min, dead |-> din]
               /\ \A i \in 1..Len(Stmts(body, bb)) :
                      scan[i + 1] = ApplyStmt(body, paths, Stmts(body, bb)[i], scan[i])
<1> DEFINE N == Len(Stmts(body, bb))
           x == [moved |-> min, dead |-> din]
           Is(f, n) == f = [i \in 1..(n + 1) |->
                              IF i = 1 THEN x
                              ELSE ApplyStmt(body, paths, Stmts(body, bb)[i - 1], f[i - 1])]
           S == {n \in Nat : \E f : Is(f, n)}
           scan[i \in Points(body, bb)] ==
               IF i = 1 THEN x ELSE ApplyStmt(body, paths, Stmts(body, bb)[i - 1], scan[i - 1])
<1>1. N \in Nat /\ Points(body, bb) = 1..(N + 1)
  BY BodyShape
<1>2. compute_stmt_moved(body, paths, bb, min, din) = scan
  BY DEF compute_stmt_moved
<1> HIDE DEF N, x, scan
<1>3. 0 \in S
  <2> DEFINE f == [i \in 1..1 |-> x]
  <2>1. f = [i \in 1..(0 + 1) |->
                 IF i = 1 THEN x ELSE ApplyStmt(body, paths, Stmts(body, bb)[i - 1], f[i - 1])]
    OBVIOUS
  <2> HIDE DEF f
  <2> QED
    BY <2>1
<1>4. ASSUME NEW n \in 0..(N - 1), n \in S PROVE n + 1 \in S
  <2>1. PICK f : Is(f, n)
    BY <1>4
  <2>2. n \in Nat /\ n + 1 \in Nat
    BY <1>1
  <2> DEFINE g == [i \in 1..((n + 1) + 1) |->
                      IF i = (n + 1) + 1 THEN ApplyStmt(body, paths, Stmts(body, bb)[n + 1], f[n + 1])
                      ELSE f[i]]
  <2>3. ASSUME NEW i \in 1..((n + 1) + 1)
        PROVE  g[i] = IF i = 1 THEN x ELSE ApplyStmt(body, paths, Stmts(body, bb)[i - 1], g[i - 1])
    <3>1. CASE i = (n + 1) + 1
      <4>1. i - 1 = n + 1 /\ i # 1 /\ n + 1 \in 1..((n + 1) + 1) /\ n + 1 # (n + 1) + 1
        BY <2>2, <3>1
      <4>2. g[i - 1] = f[n + 1] /\ g[i] = ApplyStmt(body, paths, Stmts(body, bb)[n + 1], f[n + 1])
        BY <3>1, <4>1
      <4> HIDE DEF g
      <4> QED
        BY <4>1, <4>2
    <3>2. CASE i # (n + 1) + 1
      <4>1. i \in 1..(n + 1) /\ g[i] = f[i] /\ (i # 1 => g[i - 1] = f[i - 1])
        BY <2>2, <3>2
      <4>2. f[i] = IF i = 1 THEN x ELSE ApplyStmt(body, paths, Stmts(body, bb)[i - 1], f[i - 1])
        BY <2>1, <4>1
      <4> HIDE DEF g
      <4> QED
        BY <4>1, <4>2
    <3> QED
      BY <3>1, <3>2
  <2>4. g = [i \in 1..((n + 1) + 1) |-> g[i]]
    OBVIOUS
  <2> HIDE DEF g
  <2>5. Is(g, n + 1)
    BY <2>3, <2>4
  <2> QED
    BY <2>2, <2>5
<1> HIDE DEF S
<1>5. N \in S
  BY <1>1, <1>3, <1>4, UpTo
<1>6. \E f : f = [i \in Points(body, bb) |->
                    IF i = 1 THEN x ELSE ApplyStmt(body, paths, Stmts(body, bb)[i - 1], f[i - 1])]
  BY <1>1, <1>5 DEF S
<1>7. scan = [i \in Points(body, bb) |->
                 IF i = 1 THEN x ELSE ApplyStmt(body, paths, Stmts(body, bb)[i - 1], scan[i - 1])]
  <2> USE DEF scan
  <2> QED
    BY <1>6, Zenon
<1>8. scan[1] = x
  <2>1. 1 \in Points(body, bb)
    BY <1>1
  <2> QED
    BY <1>7, <2>1
<1>9. ASSUME NEW i \in 1..N
      PROVE  scan[i + 1] = ApplyStmt(body, paths, Stmts(body, bb)[i], scan[i])
  <2>1. i + 1 \in Points(body, bb) /\ i + 1 # 1 /\ (i + 1) - 1 = i
    BY <1>1
  <2>2. scan[i + 1] = ApplyStmt(body, paths, Stmts(body, bb)[(i + 1) - 1], scan[(i + 1) - 1])
    BY <1>7, <2>1
  <2> QED
    BY <2>1, <2>2
<1> QED
  BY <1>2, <1>8, <1>9 DEF N, x

\* No statement of bb from `from` to before `to` initialises path m.
Untouched(bb, m, from, to) ==
    \A k \in from..(to - 1) : m \notin StmtInits(body, Capacity, Stmts(body, bb)[k])

\* Path m has been moved when statement i of bb is reached: on the way to the block or in
\* it, and not initialised since.
Remains(bb, m, i) ==
    \/ m \in moved_in[bb] /\ Untouched(bb, m, 1, i)
    \/ \E j \in 1..(i - 1) : /\ m \in StmtMoves(body, Capacity, Stmts(body, bb)[j])
                            /\ Untouched(bb, m, j + 1, i)

\* The replay of a block fits into the bit sets.
Fits(bb) ==
    \A i \in DOMAIN Stmts(body, bb) : StmtInits(body, arena, Stmts(body, bb)[i]) \subseteq Capacity

\* What a statement does to the moved paths.
LEMMA ApplyMoved ==
    ASSUME NEW paths, NEW s, NEW st
    PROVE  ApplyStmt(body, paths, s, st).moved
               = (st.moved \ StmtInits(body, paths, s)) \cup StmtMoves(body, paths, s)
BY DEF ApplyStmt

\* A path the replay has as moved stays so as long as no statement initialises it.
LEMMA StaysMoved ==
    ASSUME body \in Bodies, NEW bb \in Blocks, Capacity \subseteq arena, Fits(bb),
           NEW min, NEW din, NEW m,
           NEW j \in Points(body, bb), NEW i \in Points(body, bb), j <= i,
           m \in compute_stmt_moved(body, arena, bb, min, din)[j].moved,
           Untouched(bb, m, j, i)
    PROVE  m \in compute_stmt_moved(body, arena, bb, min, din)[i].moved
<1> DEFINE scan == compute_stmt_moved(body, arena, bb, min, din)
           N == Len(Stmts(body, bb))
           S == {n \in Nat : m \in scan[j + n].moved}
<1>1. N \in Nat /\ DOMAIN Stmts(body, bb) = 1..N /\ Points(body, bb) = 1..(N + 1)
  BY BodyShape
<1>2. \A k \in 1..N : scan[k + 1] = ApplyStmt(body, arena, Stmts(body, bb)[k], scan[k])
  <2>1. /\ scan[1] = [moved |-> min, dead |-> din]
        /\ \A k \in 1..N : scan[k + 1] = ApplyStmt(body, arena, Stmts(body, bb)[k], scan[k])
    BY Scanned
  <2> QED
    BY <2>1
<1> HIDE DEF scan, N
<1>3. i - j \in Nat /\ i \in Int /\ j \in Int
  BY <1>1
<1>4. 0 \in S
  BY <1>3 DEF scan
<1>5. ASSUME NEW n \in 0..((i - j) - 1), n \in S PROVE n + 1 \in S
  <2> DEFINE k == j + n
  <2>1. k \in 1..N /\ k \in j..(i - 1) /\ k + 1 = j + (n + 1) /\ n + 1 \in Nat
    BY <1>1, <1>3
  <2>2. m \in scan[k].moved
    BY <1>5
  <2> HIDE DEF k
  <2>3. m \notin StmtInits(body, arena, Stmts(body, bb)[k])
    BY <1>1, <2>1, EffectsGrow DEF Fits, Untouched
  <2>4. scan[k + 1].moved = (scan[k].moved \ StmtInits(body, arena, Stmts(body, bb)[k]))
                                \cup StmtMoves(body, arena, Stmts(body, bb)[k])
    BY <1>2, <2>1, ApplyMoved
  <2>5. m \in scan[k + 1].moved
    BY <2>2, <2>3, <2>4
  <2> QED
    BY <2>1, <2>5
<1> HIDE DEF S
<1>6. \A n \in 0..(i - j) : n \in S
  BY <1>3, <1>4, <1>5, UpTo
<1>7. i - j \in S /\ j + (i - j) = i
  BY <1>3, <1>6
<1> QED
  BY <1>7 DEF S, scan

\* So the replay has as moved what remains moved.
LEMMA ReplayHasMoved ==
    ASSUME body \in Bodies, NEW bb \in Blocks, Capacity \subseteq arena, Fits(bb),
           NEW i \in DOMAIN Stmts(body, bb), NEW m, Remains(bb, m, i)
    PROVE  m \in compute_stmt_moved(body, arena, bb, moved_in[bb], dead_in[bb])[i].moved
<1> DEFINE scan == compute_stmt_moved(body, arena, bb, moved_in[bb], dead_in[bb])
           N == Len(Stmts(body, bb))
<1>1. N \in Nat /\ i \in 1..N /\ Points(body, bb) = 1..(N + 1)
  BY BodyShape
<1>2. /\ scan[1] = [moved |-> moved_in[bb], dead |-> dead_in[bb]]
      /\ \A k \in 1..N : scan[k + 1] = ApplyStmt(body, arena, Stmts(body, bb)[k], scan[k])
  BY Scanned
<1>3. CASE m \in moved_in[bb] /\ Untouched(bb, m, 1, i)
  <2>1. m \in scan[1].moved
    BY <1>2, <1>3
  <2>2. 1 \in Points(body, bb) /\ i \in Points(body, bb) /\ 1 <= i
    BY <1>1
  <2> QED
    BY <1>3, <2>1, <2>2, StaysMoved
<1>4. CASE \E j \in 1..(i - 1) : /\ m \in StmtMoves(body, Capacity, Stmts(body, bb)[j])
                                 /\ Untouched(bb, m, j + 1, i)
  <2>1. PICK j \in 1..(i - 1) : /\ m \in StmtMoves(body, Capacity, Stmts(body, bb)[j])
                                /\ Untouched(bb, m, j + 1, i)
    BY <1>4
  <2>2. j \in 1..N /\ j + 1 \in Points(body, bb) /\ i \in Points(body, bb) /\ j + 1 <= i
    BY <1>1
  <2>3. m \in StmtMoves(body, arena, Stmts(body, bb)[j])
    BY <2>1, EffectsGrow
  <2>4. scan[j + 1].moved = (scan[j].moved \ StmtInits(body, arena, Stmts(body, bb)[j]))
                                \cup StmtMoves(body, arena, Stmts(body, bb)[j])
    <3>1. scan[j + 1] = ApplyStmt(body, arena, Stmts(body, bb)[j], scan[j])
      BY <1>2, <2>2
    <3> HIDE DEF scan
    <3> QED
      BY <3>1, ApplyMoved
  <2>5. m \in scan[j + 1].moved
    <3> HIDE DEF scan
    <3> QED
      BY <2>3, <2>4
  <2> QED
    BY <2>1, <2>2, <2>5, StaysMoved
<1> QED
  BY <1>3, <1>4 DEF Remains

\* A use of a path that is moved is an error, of one kind or the other.
LEMMA UseIsError ==
    ASSUME Capacity \subseteq arena, NEW p, NEW m, UsesMoved(p, m), NEW st, m \in st.moved
    PROVE  \E u \in UsedPlaces(StmtAt(p)) : UseError(body, arena, u, st) # "ok"
<1>1. PICK u \in UsedPlaces(StmtAt(p)) :
          m \in PathsOf(u.place) /\ ~(u.how = "operand" /\ u.place \in body.copies)
  BY DEF UsesMoved
<1>2. \A q : Children(Capacity, q) \subseteq Children(arena, q)
  BY DEF Children
<1>3. Hit(body, arena, u.place, st.moved)
  BY <1>1, <1>2 DEF Hit, PathsOf
<1>4. UseError(body, arena, u, st) # "ok"
  BY <1>1, <1>3 DEF UseError
<1> QED
  BY <1>4

\* The uses of moved paths in a block are reported.
Reported(bb) ==
    \A i \in DOMAIN Stmts(body, bb) : \A m \in Capacity :
        Remains(bb, m, i) /\ UsesMoved(<<bb, i>>, m) => ReportedAt(<<bb, i>>)

\* The check of a block reports them.
LEMMA CheckReports ==
    ASSUME body \in Bodies, NEW bb \in Blocks, Capacity \subseteq arena, Fits(bb),
           NEW i \in DOMAIN Stmts(body, bb), NEW m, Remains(bb, m, i), UsesMoved(<<bb, i>>, m)
    PROVE  \E e \in BlockErrors(bb) : <<e[1], e[2]>> = <<bb, i>>
<1> DEFINE scan == compute_stmt_moved(body, arena, bb, moved_in[bb], dead_in[bb])
<1>1. m \in scan[i].moved
  BY ReplayHasMoved
<1>2. StmtAt(<<bb, i>>) = Stmts(body, bb)[i]
  BY DEF StmtAt
<1>3. BlockErrors(bb) =
          UNION {{<<bb, k, u.place, UseError(body, arena, u, scan[k])>> :
                    u \in {v \in UsedPlaces(Stmts(body, bb)[k]) :
                              UseError(body, arena, v, scan[k]) # "ok"}} :
                    k \in DOMAIN Stmts(body, bb)}
  BY DEF BlockErrors
<1> HIDE DEF scan
<1>4. PICK u \in UsedPlaces(Stmts(body, bb)[i]) : UseError(body, arena, u, scan[i]) # "ok"
  BY <1>1, <1>2, UseIsError
<1> DEFINE e == <<bb, i, u.place, UseError(body, arena, u, scan[i])>>
<1>5. e \in BlockErrors(bb)
  BY <1>3, <1>4
<1>6. <<e[1], e[2]>> = <<bb, i>>
  OBVIOUS
<1> QED
  BY <1>5, <1>6

(***************************************************************************)
(* The inductive invariant.                                                *)
(***************************************************************************)
\* What the blocks record fits into the bit sets, once that has been looked at.
Collected ==
    phase \in {"dataflow", "check", "done"} =>
        \A bb \in Blocks : Moves(bb) \cup Inits(bb) \subseteq Capacity

\* No block waits when the dataflow has ended.
Drained == phase \in {"check", "done"} => in_worklist = {}

\* No block is checked before the dataflow has ended.
Unchecked == phase \in {"collect", "dataflow"} => next_block = 1

\* The blocks checked so far have their uses of moved paths reported.
Checked == \A bb \in 1..(next_block - 1) : Reported(bb)

\* At the end all are.
AllChecked == phase = "done" => next_block > Len(body.blocks)

IInv ==
    /\ TypeOK /\ Collected /\ Queued /\ WaitingCovers
    /\ Drained /\ Unchecked /\ Checked /\ AllChecked

LEMMA InvInit == Init => IInv
<1> SUFFICES ASSUME Init PROVE IInv
  OBVIOUS
<1>1. /\ body \in Bodies /\ phase = "collect" /\ arena = Capacity /\ next_block = 1
      /\ moved_in = [bb \in Blocks |-> {}] /\ moved_out = [bb \in Blocks |-> {}]
      /\ dead_in = [bb \in Blocks |-> {}] /\ dead_out = [bb \in Blocks |-> {}]
      /\ worklist = [bb \in Blocks |-> bb] /\ in_worklist = Blocks
  BY DEF Init
<1>2. Len(body.blocks) \in Nat /\ Blocks = 1..Len(body.blocks)
  BY <1>1, BodyShape
<1>3. TypeOK
  <2>1. worklist \in Seq(Blocks)
    BY <1>1, <1>2
  <2>2. [bb \in Blocks |-> {}] \in PathMaps
    BY DEF PathMaps
  <2>3. next_block \in 1..(Len(body.blocks) + 1)
    BY <1>1, <1>2
  <2> QED
    BY <1>1, <2>1, <2>2, <2>3 DEF TypeOK
<1>4. Queued
  <2> SUFFICES ASSUME NEW bb \in Blocks PROVE On(worklist, bb)
    BY <1>1 DEF Queued
  <2>1. bb \in DOMAIN worklist /\ worklist[bb] = bb
    BY <1>1
  <2>2. Len(worklist) = Len(body.blocks)
    BY <1>1, <1>2
  <2> QED
    BY <1>2, <2>1, <2>2 DEF On
<1>5. WaitingCovers
  BY <1>1 DEF WaitingCovers
<1>6. Collected /\ Drained /\ Unchecked /\ AllChecked
  BY <1>1 DEF Collected, Drained, Unchecked, AllChecked
<1>7. Checked
  BY <1>1 DEF Checked
<1> QED
  BY <1>3, <1>4, <1>5, <1>6, <1>7 DEF IInv

\* What a report is about does not change after the dataflow.
LEMMA ReportsCount ==
    ASSUME NEW bb, UNCHANGED <<body, moved_in>>,
           \A i \in DOMAIN Stmts(body, bb) : \A m \in Capacity :
               Remains(bb, m, i) /\ UsesMoved(<<bb, i>>, m)
                   => \E e \in errors' : <<e[1], e[2]>> = <<bb, i>>
    PROVE  Reported(bb)'
<1>1. \A i, m : Remains(bb, m, i)' = Remains(bb, m, i)
  BY DEF Remains, Untouched, Capacity
<1>2. \A i, m : UsesMoved(<<bb, i>>, m)' = UsesMoved(<<bb, i>>, m)
  BY DEF UsesMoved, IsStmt, StmtAt, PathsOf, Capacity
<1>3. Capacity' = Capacity
  BY DEF Capacity
<1> QED
  BY <1>1, <1>2, <1>3 DEF Reported, ReportedAt

\* So reports stay.
LEMMA ReportsStay ==
    ASSUME NEW bb, Reported(bb), errors \subseteq errors', UNCHANGED <<body, moved_in>>
    PROVE  Reported(bb)'
BY ReportsCount DEF Reported, ReportedAt

\* The parts of the invariant that a step leaves alone.
LEMMA SamePart ==
    ASSUME IInv, UNCHANGED <<body, flow, worklist, in_worklist>>
    PROVE  /\ Queued' /\ WaitingCovers'
           /\ (Capacity \subseteq arena' /\ phase' \in {"collect", "dataflow", "check", "done", "panic"}
                 /\ next_block' \in 1..(Len(body.blocks) + 1) => TypeOK')
           /\ (phase' \in {"dataflow", "check", "done"} =>
                 \A bb \in Blocks : Moves(bb) \cup Inits(bb) \subseteq Capacity) => Collected'
<1>1. Blocks' = Blocks /\ Capacity' = Capacity
  BY DEF Blocks, Capacity
<1>2. PathMaps' = PathMaps
  BY <1>1 DEF PathMaps
<1>3. Queued'
  BY DEF IInv, Queued
<1>4. WaitingCovers'
  <2> SUFFICES ASSUME NEW bb \in Blocks, bb \notin in_worklist PROVE Settled(bb)'
    BY <1>1 DEF WaitingCovers
  <2>1. Settled(bb)
    BY DEF IInv, WaitingCovers
  <2> QED
    BY <2>1 DEF flow, Settled, JoinIn, MovedOut, DeadOut, Moves, Deads, Inits, Capacity
<1>5. ASSUME Capacity \subseteq arena', phase' \in {"collect", "dataflow", "check", "done", "panic"},
             next_block' \in 1..(Len(body.blocks) + 1)
      PROVE  TypeOK'
  BY <1>1, <1>2, <1>5 DEF IInv, TypeOK, flow
<1>6. \A bb : Moves(bb)' = Moves(bb) /\ Inits(bb)' = Inits(bb)
  BY DEF Moves, Inits, Capacity
<1>7. ASSUME phase' \in {"dataflow", "check", "done"} =>
                 \A bb \in Blocks : Moves(bb) \cup Inits(bb) \subseteq Capacity
      PROVE  Collected'
  BY <1>1, <1>6, <1>7 DEF Collected
<1> QED
  BY <1>3, <1>4, <1>5, <1>7

LEMMA CollectKeeps == ASSUME IInv, Collect PROVE IInv'
<1>1. /\ phase = "collect" /\ UNCHANGED <<body, arena, flow, worklist, in_worklist, next_block, errors>>
      /\ phase' \in {"dataflow", "panic"}
      /\ phase' = "dataflow" => \A bb \in Blocks : Moves(bb) \cup Inits(bb) \subseteq Capacity
  BY DEF Collect
<1>2. TypeOK /\ next_block = 1 /\ Checked
  BY <1>1 DEF IInv, Unchecked
<1>3. Queued' /\ WaitingCovers' /\ TypeOK' /\ Collected'
  BY <1>1, <1>2, SamePart DEF TypeOK
<1>4. Drained' /\ Unchecked' /\ AllChecked'
  BY <1>1, <1>2 DEF Drained, Unchecked, AllChecked
<1>5. Checked'
  BY <1>1, <1>2 DEF Checked
<1> QED
  BY <1>3, <1>4, <1>5 DEF IInv

LEMMA TurnKeeps == ASSUME IInv, Turn PROVE IInv'
<1>1. TypeOK /\ Collected /\ Queued /\ WaitingCovers /\ Unchecked
  BY DEF IInv
<1>2. phase = "dataflow"
  BY DEF Turn
<1>3. PICK bi \in Blocks : Processed(bi)
  BY <1>1, TurnProcesses
<1>4. UNCHANGED <<body, phase, arena, next_block, errors>>
  BY <1>3 DEF Processed
<1>5. Blocks' = Blocks /\ Capacity' = Capacity /\ PathMaps' = PathMaps
  BY <1>4 DEF Blocks, Capacity, PathMaps
<1>6. TypeOK'
  <2>1. body \in Bodies /\ Moves(bi) \cup Inits(bi) \subseteq Capacity
    BY <1>1, <1>2 DEF Collected, TypeOK
  <2>2. /\ moved_in \in PathMaps /\ moved_out \in PathMaps
        /\ dead_in \in PathMaps /\ dead_out \in PathMaps
    BY <1>1 DEF TypeOK
  <2>3. /\ JoinIn(bi, moved_out) \in SUBSET Capacity /\ MovedOut(bi, JoinIn(bi, moved_out)) \in SUBSET Capacity
        /\ JoinIn(bi, dead_out) \in SUBSET Capacity /\ DeadOut(bi, JoinIn(bi, dead_out)) \in SUBSET Capacity
    BY <2>1, <2>2, FlowType
  <2>4. /\ moved_in' \in PathMaps /\ moved_out' \in PathMaps
        /\ dead_in' \in PathMaps /\ dead_out' \in PathMaps
    BY <1>3, <2>2, <2>3 DEF Processed, PathMaps
  <2> QED
    BY <1>1, <1>3, <1>4, <1>5, <2>4 DEF TypeOK, Processed
<1>7. Collected'
  <2>1. \A bb : Moves(bb)' = Moves(bb) /\ Inits(bb)' = Inits(bb)
    BY <1>4 DEF Moves, Inits, Capacity
  <2> QED
    BY <1>1, <1>4, <1>5, <2>1 DEF Collected
<1>8. Queued'
  BY <1>1, <1>3 DEF Processed
<1>9. WaitingCovers'
  BY <1>1, <1>3, TurnCovers
<1>10. Drained' /\ Unchecked' /\ AllChecked'
  BY <1>1, <1>2, <1>4 DEF Drained, Unchecked, AllChecked
<1>11. Checked'
  BY <1>1, <1>2, <1>4 DEF Unchecked, Checked
<1> QED
  BY <1>6, <1>7, <1>8, <1>9, <1>10, <1>11 DEF IInv

LEMMA EndDataflowKeeps == ASSUME IInv, EndDataflow PROVE IInv'
<1>1. /\ phase = "dataflow" /\ worklist = <<>> /\ phase' = "check"
      /\ UNCHANGED <<body, arena, flow, worklist, in_worklist, next_block, errors>>
  BY DEF EndDataflow
<1>2. TypeOK /\ next_block = 1
  BY <1>1 DEF IInv, Unchecked
<1>3. Queued' /\ WaitingCovers' /\ TypeOK' /\ Collected'
  <2>1. \A bb \in Blocks : Moves(bb) \cup Inits(bb) \subseteq Capacity
    BY <1>1 DEF IInv, Collected
  <2> QED
    BY <1>1, <1>2, <2>1, SamePart DEF TypeOK
<1>4. Drained'
  <2>1. \A bb : ~On(worklist, bb)
    BY <1>1 DEF On
  <2> QED
    BY <1>1, <2>1 DEF IInv, Queued, Drained
<1>5. Unchecked' /\ AllChecked'
  BY <1>1 DEF Unchecked, AllChecked
<1>6. Checked'
  BY <1>1, <1>2 DEF Checked
<1> QED
  BY <1>3, <1>4, <1>5, <1>6 DEF IInv

LEMMA FinishKeeps == ASSUME IInv, Finish PROVE IInv'
<1>1. /\ phase = "check" /\ phase' = "done" /\ next_block > Len(body.blocks)
      /\ UNCHANGED <<body, arena, flow, worklist, in_worklist, next_block, errors>>
  BY DEF Finish
<1>2. TypeOK /\ Drained /\ Checked
  BY DEF IInv
<1>3. Queued' /\ WaitingCovers' /\ TypeOK' /\ Collected'
  <2>1. \A bb \in Blocks : Moves(bb) \cup Inits(bb) \subseteq Capacity
    BY <1>1 DEF IInv, Collected
  <2> QED
    BY <1>1, <1>2, <2>1, SamePart DEF TypeOK
<1>4. Drained' /\ Unchecked' /\ AllChecked'
  BY <1>1, <1>2 DEF Drained, Unchecked, AllChecked
<1>5. Checked'
  <2>1. \A bb \in 1..(next_block - 1) : Reported(bb)'
    <3>1. UNCHANGED <<body, moved_in, errors>>
      BY <1>1 DEF flow
    <3> QED
      BY <1>2, <3>1, ReportsStay DEF Checked
  <2> QED
    BY <1>1, <2>1 DEF Checked
<1> QED
  BY <1>3, <1>4, <1>5 DEF IInv

LEMMA CheckBlockKeeps == ASSUME IInv, CheckBlock PROVE IInv'
<1>1. /\ phase = "check" /\ next_block <= Len(body.blocks)
      /\ UNCHANGED <<body, flow, worklist, in_worklist>>
  BY DEF CheckBlock
<1>2. /\ TypeOK /\ Drained /\ Checked /\ body \in Bodies /\ Capacity \subseteq arena
      /\ next_block \in 1..(Len(body.blocks) + 1)
  BY DEF IInv, TypeOK
<1>3. UNCHANGED <<body, moved_in>>
  BY <1>1 DEF flow
<1>4. Len(body.blocks) \in Nat /\ Blocks = 1..Len(body.blocks)
  BY <1>2, BodyShape
<1>5. \A bb \in Blocks : Moves(bb) \cup Inits(bb) \subseteq Capacity
  BY <1>1 DEF IInv, Collected
<1>6. CASE ReplayOverflows(next_block)
  <2>1. phase' = "panic" /\ UNCHANGED <<arena, next_block, errors>>
    BY <1>6 DEF CheckBlock
  <2>2. Queued' /\ WaitingCovers' /\ TypeOK' /\ Collected'
    BY <1>1, <1>2, <1>5, <2>1, SamePart
  <2>3. Drained' /\ Unchecked' /\ AllChecked'
    BY <2>1 DEF Drained, Unchecked, AllChecked
  <2>4. Checked'
    BY <1>2, <1>3, <2>1, ReportsStay DEF Checked
  <2> QED
    BY <2>2, <2>3, <2>4 DEF IInv
<1>7. CASE ~ReplayOverflows(next_block)
  <2>1. /\ errors' = errors \cup BlockErrors(next_block)
        /\ arena \subseteq arena'
        /\ next_block' = next_block + 1 /\ phase' = phase
    BY <1>7 DEF CheckBlock
  <2>2. next_block \in Blocks /\ next_block' \in 1..(Len(body.blocks) + 1)
    BY <1>1, <1>2, <1>4, <2>1
  <2>3. Queued' /\ WaitingCovers' /\ TypeOK' /\ Collected'
    BY <1>1, <1>2, <1>5, <2>1, <2>2, SamePart
  <2>4. Drained' /\ Unchecked' /\ AllChecked'
    BY <1>1, <1>2, <2>1 DEF Drained, Unchecked, AllChecked
  <2>5. Fits(next_block)
    BY <1>7 DEF ReplayOverflows, Fits, StmtSet
  <2>6. PICK bb \in Blocks : bb = next_block
    BY <2>2
  <2>7. Reported(bb)'
    <3>1. ASSUME NEW i \in DOMAIN Stmts(body, bb), NEW m, Remains(bb, m, i), UsesMoved(<<bb, i>>, m)
          PROVE  \E e \in errors' : <<e[1], e[2]>> = <<bb, i>>
      <4>1. \E e \in BlockErrors(bb) : <<e[1], e[2]>> = <<bb, i>>
        BY <1>2, <2>5, <2>6, <3>1, CheckReports
      <4> QED
        BY <2>1, <2>6, <4>1
    <3> QED
      BY <1>3, <3>1, ReportsCount
  <2>8. Checked'
    <3>1. ASSUME NEW b \in 1..(next_block' - 1) PROVE Reported(b)'
      <4>1. CASE b = bb
        BY <2>7, <4>1
      <4>2. CASE b # bb
        <5>1. b \in 1..(next_block - 1)
          BY <1>2, <2>1, <2>6, <4>2
        <5>2. Reported(b) /\ errors \subseteq errors'
          BY <1>2, <2>1, <5>1 DEF Checked
        <5> QED
          BY <1>3, <5>2, ReportsStay
      <4> QED
        BY <4>1, <4>2
    <3> QED
      BY <3>1 DEF Checked
  <2> QED
    BY <2>3, <2>4, <2>8 DEF IInv
<1> QED
  BY <1>6, <1>7

LEMMA InvStep == IInv /\ [Next]_vars => IInv'
<1> SUFFICES ASSUME IInv, [Next]_vars PROVE IInv'
  OBVIOUS
<1>1. CASE Collect
  BY <1>1, CollectKeeps
<1>2. CASE Turn
  BY <1>2, TurnKeeps
<1>3. CASE EndDataflow
  BY <1>3, EndDataflowKeeps
<1>4. CASE CheckBlock
  BY <1>4, CheckBlockKeeps
<1>5. CASE Finish
  BY <1>5, FinishKeeps
<1>6. CASE UNCHANGED vars
  <2>1. UNCHANGED <<body, phase, arena, flow, worklist, in_worklist, next_block, errors>>
    BY <1>6 DEF vars
  <2>2. TypeOK /\ Collected /\ Drained /\ Unchecked /\ Checked /\ AllChecked
    BY DEF IInv
  <2>3. Queued' /\ WaitingCovers' /\ TypeOK' /\ Collected'
    BY <2>1, <2>2, SamePart DEF TypeOK, Collected
  <2>4. Drained' /\ Unchecked' /\ AllChecked'
    BY <2>1, <2>2 DEF Drained, Unchecked, AllChecked
  <2>5. UNCHANGED <<body, moved_in>> /\ errors' = errors /\ next_block' = next_block
    BY <2>1 DEF flow
  <2>6. Checked'
    BY <2>2, <2>5, ReportsStay DEF Checked
  <2> QED
    BY <2>3, <2>4, <2>6 DEF IInv
<1> QED
  BY <1>1, <1>2, <1>3, <1>4, <1>5, <1>6 DEF Next

\* The bit sets of the dataflow never hold a path beyond the capacity they were made
\* with, whatever the arena grows to and whatever the blocks move and initialise.
THEOREM MoveTypeCorrect == Spec => []TypeOK
<1>1. IInv => TypeOK
  BY DEF IInv
<1> QED
  BY <1>1, InvInit, InvStep, PTL DEF Spec

\* No change of a block's outputs is lost: a block that is not waiting satisfies its
\* equations at every moment of compute_move_dataflow.
THEOREM MoveCoverageCorrect == Spec => []WaitingCovers
<1>1. IInv => WaitingCovers
  BY DEF IInv
<1> QED
  BY <1>1, InvInit, InvStep, PTL DEF Spec

(***************************************************************************)
(* Executions.                                                             *)
(***************************************************************************)
\* A body has finitely many points.
LEMMA AllPointsFinite ==
    ASSUME body \in Bodies
    PROVE  IsFiniteSet(AllPoints)
<1> DEFINE I == [bb \in Blocks |-> Points(body, bb)]
<1>1. \A bb \in Blocks : I[bb] = Points(body, bb) /\ IsFiniteSet(I[bb])
  BY BodyShape, FS_Interval
<1>2. AllPoints = UNION {{<<bb, i>> : i \in I[bb]} : bb \in Blocks}
  BY <1>1 DEF AllPoints
<1>3. IsFiniteSet(Blocks)
  BY BodyShape
<1> HIDE DEF I
<1> QED
  BY <1>1, <1>2, <1>3, PointsFinitelyMany

\* What has the points after p, and with a point that is passed those after it, has all
\* the points reached.
LEMMA ReachStays ==
    ASSUME IsFiniteSet(AllPoints), NEW p, NEW m, NEW passes, NEW Q,
           PointsAfter(p) \subseteq Q,
           \A q \in Q \cap passes : m \notin InitsAt(q) => PointsAfter(q) \subseteq Q
    PROVE  ReachUninit(p, m, passes) \subseteq Q
<1> DEFINE N == Cardinality(AllPoints)
           D == SUBSET Q
           first == PointsAfter(p)
           step == [points \in D |-> Onward(points, m, passes)]
           reach[k \in 0..N] == IF k = 0 THEN first ELSE Onward(reach[k - 1], m, passes)
<1>1. ReachUninit(p, m, passes) = reach[N]
  BY DEF ReachUninit
<1>2. N \in Nat
  BY FS_CardinalityType
<1>3. step \in [D -> D]
  <2>1. \A points \in D : Onward(points, m, passes) \in D
    BY DEF Onward
  <2> QED
    BY <2>1
<1>4. \A points \in D : step[points] = Onward(points, m, passes)
  OBVIOUS
<1>5. first \in D
  OBVIOUS
<1> HIDE DEF N, D, step, reach, first
<1>6. PICK f : Rounds(f, first, step, N)
  BY <1>2, RoundsExist, Zenon
<1>7. /\ f \in [0..N -> D] /\ f[0] = first
      /\ \A k \in 1..N : f[k] = step[f[k - 1]]
  BY <1>2, <1>3, <1>5, <1>6, RoundsStay
<1>8. ASSUME NEW k \in 1..N PROVE f[k] = Onward(f[k - 1], m, passes)
  <2>1. k - 1 \in 0..N
    BY <1>2
  <2> QED
    BY <1>4, <1>7, <2>1
<1>9. f = [k \in 0..N |-> IF k = 0 THEN first ELSE Onward(f[k - 1], m, passes)]
  <2>1. \A k \in 0..N : f[k] = IF k = 0 THEN first ELSE Onward(f[k - 1], m, passes)
    BY <1>2, <1>7, <1>8
  <2> QED
    BY <1>7, <2>1
<1>10. reach = [k \in 0..N |-> IF k = 0 THEN first ELSE Onward(reach[k - 1], m, passes)]
  <2>1. \E g : g = [k \in 0..N |-> IF k = 0 THEN first ELSE Onward(g[k - 1], m, passes)]
    BY <1>9, Zenon
  <2> USE DEF reach
  <2> QED
    BY <2>1, Zenon
<1>11. \A k \in 0..N : reach[k] = IF k = 0 THEN first ELSE Onward(reach[k - 1], m, passes)
  BY <1>10
<1> DEFINE S == {k \in Nat : reach[k] \in D}
<1>12. 0 \in S
  BY <1>2, <1>5, <1>11
<1>13. ASSUME NEW n \in 0..(N - 1), n \in S PROVE n + 1 \in S
  <2>1. n + 1 \in 0..N /\ n + 1 # 0 /\ (n + 1) - 1 = n /\ n + 1 \in Nat
    BY <1>2
  <2>2. reach[n + 1] = Onward(reach[n], m, passes)
    BY <1>11, <2>1
  <2>3. Onward(reach[n], m, passes) \in D
    BY <1>3, <1>4, <1>13
  <2> QED
    BY <2>1, <2>2, <2>3
<1> HIDE DEF S
<1>14. N \in S
  BY <1>2, <1>12, <1>13, UpTo
<1> QED
  BY <1>1, <1>14 DEF S, D

\* The points where path m, moved at p, is moved by the dataflow or by p itself.
MovedAlong(p, m) ==
    {q \in AllPoints : \/ m \in moved_in[q[1]] /\ Untouched(q[1], m, 1, q[2])
                       \/ q[1] = p[1] /\ q[2] > p[2]}

\* A path that is moved at the end of a block is moved where its successors begin, but
\* for the entry block.
LEMMA MovedOnward ==
    ASSUME body \in Bodies, \A bb \in Blocks : Settled(bb),
           NEW bb \in Blocks, NEW m, m \notin Inits(bb), m \in moved_in[bb] \/ m \in Moves(bb),
           NEW s \in Successors(body, bb), s # 1
    PROVE  m \in moved_in[s]
<1>1. s \in Blocks /\ bb \in Predecessors(body, s)
  BY BodyShape DEF Predecessors, Blocks
<1>2. m \in moved_out[bb]
  BY DEF Settled, MovedOut
<1>3. moved_in[s] = JoinIn(s, moved_out)
  BY <1>1 DEF Settled
<1> QED
  BY <1>1, <1>2, <1>3 DEF JoinIn

\* A point is a statement or the terminator of its block.
LEMMA PointShape ==
    ASSUME body \in Bodies, NEW q \in AllPoints
    PROVE  /\ q[1] \in Blocks /\ q = <<q[1], q[2]>> /\ q[2] \in Nat
           /\ Len(Stmts(body, q[1])) \in Nat
           /\ q[2] \in 1..(Len(Stmts(body, q[1])) + 1)
           /\ IsStmt(q) => q[2] \in DOMAIN Stmts(body, q[1])
           /\ ~IsStmt(q) => q[2] = Len(Stmts(body, q[1])) + 1
<1>1. PICK bb \in Blocks : \E i \in Points(body, bb) : q = <<bb, i>>
  BY DEF AllPoints
<1>2. PICK i \in Points(body, bb) : q = <<bb, i>>
  BY <1>1
<1>3. /\ Len(Stmts(body, bb)) \in Nat /\ i \in 1..(Len(Stmts(body, bb)) + 1)
      /\ DOMAIN Stmts(body, bb) = 1..Len(Stmts(body, bb))
  BY BodyShape
<1>4. q[1] = bb /\ q[2] = i
  BY <1>2
<1> QED
  BY <1>2, <1>3, <1>4 DEF IsStmt

\* Nothing is initialised before the first statement of a block.
LEMMA EntryUntouched ==
    ASSUME NEW bb, NEW m
    PROVE  /\ Untouched(bb, m, 1, 1)
           /\ <<bb, 1>>[1] = bb /\ <<bb, 1>>[2] = 1
BY DEF Untouched

\* What no statement and not the terminator initialises, the block does not.
LEMMA WholeUntouched ==
    ASSUME body \in Bodies, NEW bb \in Blocks, NEW m,
           Untouched(bb, m, 1, Len(Stmts(body, bb)) + 1), m \notin TermInits(body, Capacity, bb)
    PROVE  m \notin Inits(bb)
<1>1. /\ DOMAIN Stmts(body, bb) = 1..Len(Stmts(body, bb)) /\ Len(Stmts(body, bb)) \in Nat
      /\ (Len(Stmts(body, bb)) + 1) - 1 = Len(Stmts(body, bb))
  BY BodyShape
<1>2. \A k \in DOMAIN Stmts(body, bb) : m \notin StmtInits(body, Capacity, Stmts(body, bb)[k])
  BY <1>1 DEF Untouched
<1> QED
  BY <1>2, InitsOfBlock

\* Every execution on from p stays among those points, unless it leads back to the entry.
LEMMA MovedReach ==
    ASSUME body \in Bodies, \A bb \in Blocks : Settled(bb),
           NEW p \in AllPoints, NEW m \in MovesAt(p), m \notin Inits(p[1])
    PROVE  ReachUninit(p, m, NotBackToEntry) \subseteq MovedAlong(p, m)
<1>1. IsStmt(p)
  BY DEF MovesAt
<1>2. /\ p[1] \in Blocks /\ p[2] \in DOMAIN Stmts(body, p[1]) /\ p[2] \in Nat
      /\ Len(Stmts(body, p[1])) \in Nat /\ p[2] \in 1..Len(Stmts(body, p[1]))
  BY <1>1, PointShape, BodyShape
<1>3. m \in Moves(p[1])
  BY <1>1, <1>2, StmtInBlock DEF MovesAt, StmtAt
<1>4. ASSUME NEW b \in Blocks, NEW i \in 1..(Len(Stmts(body, b)) + 1)
      PROVE  <<b, i>> \in AllPoints
  BY <1>4, BodyShape DEF AllPoints
<1>5. PointsAfter(p) \subseteq MovedAlong(p, m)
  <2> DEFINE n == <<p[1], p[2] + 1>>
  <2>1. PointsAfter(p) = {n}
    BY <1>1 DEF PointsAfter
  <2>2. n \in AllPoints
    BY <1>2, <1>4
  <2>3. n[1] = p[1] /\ n[2] > p[2]
    BY <1>2
  <2> HIDE DEF n
  <2> QED
    BY <2>1, <2>2, <2>3 DEF MovedAlong
<1>6. ASSUME NEW q \in MovedAlong(p, m) \cap NotBackToEntry, m \notin InitsAt(q)
      PROVE  PointsAfter(q) \subseteq MovedAlong(p, m)
  <2>1. /\ q \in AllPoints
        /\ \/ m \in moved_in[q[1]] /\ Untouched(q[1], m, 1, q[2])
           \/ q[1] = p[1] /\ q[2] > p[2]
    BY DEF MovedAlong
  <2>2. /\ q[1] \in Blocks /\ q[2] \in 1..(Len(Stmts(body, q[1])) + 1) /\ Len(Stmts(body, q[1])) \in Nat
        /\ IsStmt(q) => q[2] \in DOMAIN Stmts(body, q[1])
        /\ ~IsStmt(q) => q[2] = Len(Stmts(body, q[1])) + 1
    BY <2>1, PointShape
  <2>3. CASE IsStmt(q)
    <3> DEFINE n == <<q[1], q[2] + 1>>
    <3>1. PointsAfter(q) = {n}
      BY <2>3 DEF PointsAfter
    <3>2. q[2] + 1 \in 1..(Len(Stmts(body, q[1])) + 1)
      BY <2>2, <2>3 DEF IsStmt
    <3>3. n \in AllPoints /\ n[1] = q[1] /\ n[2] = q[2] + 1
      BY <1>4, <2>2, <3>2
    <3>4. m \notin StmtInits(body, Capacity, Stmts(body, q[1])[q[2]])
      BY <1>6, <2>3 DEF InitsAt, StmtAt
    <3>5. \/ m \in moved_in[q[1]] /\ Untouched(q[1], m, 1, q[2] + 1)
          \/ q[1] = p[1] /\ q[2] + 1 > p[2]
      <4>1. \A k \in 1..((q[2] + 1) - 1) : k \in 1..(q[2] - 1) \/ k = q[2]
        BY <2>2
      <4>2. Untouched(q[1], m, 1, q[2]) => Untouched(q[1], m, 1, q[2] + 1)
        BY <3>4, <4>1 DEF Untouched
      <4>3. q[2] > p[2] => q[2] + 1 > p[2]
        BY <1>2, <2>2
      <4> QED
        BY <2>1, <4>2, <4>3
    <3> HIDE DEF n
    <3> QED
      BY <3>1, <3>3, <3>5 DEF MovedAlong
  <2>4. CASE ~IsStmt(q)
    <3>1. PointsAfter(q) = {<<s, 1>> : s \in Successors(body, q[1])}
      BY <2>4 DEF PointsAfter
    <3> SUFFICES ASSUME NEW s \in Successors(body, q[1])
                 PROVE  <<s, 1>> \in MovedAlong(p, m)
      BY <3>1
    <3>2. s # 1
      BY <1>6, <2>4 DEF NotBackToEntry
    <3>3. s \in Blocks /\ Len(Stmts(body, s)) \in Nat
      BY <2>2, BodyShape
    <3>4. <<s, 1>> \in AllPoints
      <4>1. 1 \in 1..(Len(Stmts(body, s)) + 1)
        BY <3>3
      <4> QED
        BY <1>4, <3>3, <4>1
    <3>5. m \notin TermInits(body, Capacity, q[1])
      BY <1>6, <2>4 DEF InitsAt
    <3>6. CASE q[1] = p[1]
      <4>1. m \in moved_in[s]
        BY <1>3, <2>2, <3>2, <3>6, MovedOnward
      <4> QED
        BY <3>4, <4>1, EntryUntouched DEF MovedAlong
    <3>7. CASE q[1] # p[1]
      <4>1. m \in moved_in[q[1]] /\ Untouched(q[1], m, 1, Len(Stmts(body, q[1])) + 1)
        BY <2>1, <2>2, <2>4, <3>7
      <4>2. m \notin Inits(q[1])
        BY <2>2, <3>5, <4>1, WholeUntouched
      <4>3. m \in moved_in[s]
        BY <2>2, <3>2, <4>1, <4>2, MovedOnward
      <4> QED
        BY <3>4, <4>3, EntryUntouched DEF MovedAlong
    <3> QED
      BY <3>6, <3>7
  <2> QED
    BY <2>3, <2>4
<1>7. IsFiniteSet(AllPoints)
  BY AllPointsFinite
<1> QED
  BY <1>5, <1>6, <1>7, ReachStays, Zenon

\* A use reached so is reported once every block is checked.
LEMMA MovedIsReported ==
    ASSUME body \in Bodies, \A bb \in Blocks : Settled(bb), \A bb \in Blocks : Reported(bb),
           NEW p \in AllPoints, NEW m \in MovesAt(p), m \in Capacity, m \notin Inits(p[1]),
           NEW q \in ReachUninit(p, m, NotBackToEntry), UsesMoved(q, m)
    PROVE  ReportedAt(q)
<1>1. q \in MovedAlong(p, m)
  BY MovedReach
<1>2. /\ q \in AllPoints
      /\ \/ m \in moved_in[q[1]] /\ Untouched(q[1], m, 1, q[2])
         \/ q[1] = p[1] /\ q[2] > p[2]
  BY <1>1 DEF MovedAlong
<1>3. IsStmt(p) /\ IsStmt(q)
  BY DEF MovesAt, UsesMoved
<1>4. /\ q[1] \in Blocks /\ q = <<q[1], q[2]>> /\ q[2] \in DOMAIN Stmts(body, q[1]) /\ q[2] \in Nat
      /\ p[1] \in Blocks /\ p[2] \in DOMAIN Stmts(body, p[1]) /\ p[2] \in Nat
      /\ p[2] \in 1..(Len(Stmts(body, p[1])) + 1)
  BY <1>2, <1>3, PointShape
<1>5. Remains(q[1], m, q[2])
  <2>1. CASE m \in moved_in[q[1]] /\ Untouched(q[1], m, 1, q[2])
    BY <2>1 DEF Remains
  <2>2. CASE q[1] = p[1] /\ q[2] > p[2]
    <3>1. m \in StmtMoves(body, Capacity, Stmts(body, q[1])[p[2]])
      BY <1>3, <2>2 DEF MovesAt, StmtAt
    <3>2. p[2] \in 1..(q[2] - 1)
      BY <1>4, <2>2
    <3>3. Untouched(q[1], m, p[2] + 1, q[2])
      <4>1. \A k \in (p[2] + 1)..(q[2] - 1) : k \in DOMAIN Stmts(body, q[1])
        BY <1>4, BodyShape
      <4>2. m \notin Inits(q[1])
        BY <2>2
      <4> QED
        BY <4>1, <4>2, StmtInBlock DEF Untouched
    <3> QED
      BY <3>1, <3>2, <3>3 DEF Remains
  <2> QED
    BY <1>2, <2>1, <2>2
<1>6. UsesMoved(<<q[1], q[2]>>, m)
  BY <1>4
<1>7. ReportedAt(<<q[1], q[2]>>)
  BY <1>4, <1>5, <1>6 DEF Reported
<1> QED
  BY <1>4, <1>7

\* When check_moves has returned, every use of a path that was moved before and not
\* initialised since has been reported, in whatever block it comes and after however
\* many turns of the dataflow, but for the two exceptions the property names: a block
\* that initialises the path as well, and a way back through the entry block.
THEOREM MovesCorrect == Spec => []NoMissedMove
<1>1. IInv => NoMissedMove
  <2> SUFFICES ASSUME IInv, Done, NEW p \in AllPoints, NEW m \in MovesAt(p),
                      NEW q \in ReachUninit(p, m, NotBackToEntry),
                      UsesMoved(q, m), m \notin Inits(p[1])
               PROVE  ReportedAt(q)
    BY DEF NoMissedMove
  <2>1. body \in Bodies /\ phase = "done" /\ in_worklist = {} /\ next_block \in 1..(Len(body.blocks) + 1)
    BY DEF IInv, TypeOK, Done, Drained
  <2>2. \A bb \in Blocks : Settled(bb)
    BY <2>1 DEF IInv, WaitingCovers
  <2>3. \A bb \in Blocks : Reported(bb)
    <3>1. Len(body.blocks) \in Nat /\ Blocks = 1..Len(body.blocks)
      BY <2>1, BodyShape
    <3>2. next_block > Len(body.blocks)
      BY <2>1 DEF IInv, AllChecked
    <3>3. \A bb \in Blocks : bb \in 1..(next_block - 1)
      BY <2>1, <3>1, <3>2
    <3> QED
      BY <3>3 DEF IInv, Checked
  <2>4. m \in Capacity
    <3>1. IsStmt(p)
      BY DEF MovesAt
    <3>2. p[1] \in Blocks /\ p[2] \in DOMAIN Stmts(body, p[1])
      BY <2>1, <3>1, PointShape
    <3>3. m \in Moves(p[1])
      BY <3>1, <3>2, StmtInBlock DEF MovesAt, StmtAt
    <3>4. Moves(p[1]) \cup Inits(p[1]) \subseteq Capacity
      BY <2>1, <3>2 DEF IInv, Collected
    <3> QED
      BY <3>3, <3>4
  <2> QED
    BY <2>1, <2>2, <2>3, <2>4, MovedIsReported
<1> QED
  BY <1>1, InvInit, InvStep, PTL DEF Spec
=============================================================================
