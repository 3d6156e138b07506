------------------------------- MODULE Liveness ------------------------------
(***************************************************************************)
(* compute_liveness (crates/glyim-borrowck/src/liveness.rs): the worklist  *)
(* iteration that solves the backward liveness equations of one body.  The *)
(* body is chosen in the initial state, so that one check covers a family  *)
(* of bodies; a step is one turn of the `while` loop.                      *)
(***************************************************************************)
EXTENDS Execution

(***************************************************************************)
(* The sets of locals: the block summaries, the backward dataflow          *)
(* equations over them, and the per-statement scan.                        *)
(***************************************************************************)
AssignDests(b, bb) ==
    {s.dest.local : s \in {t \in {Stmts(b, bb)[i] : i \in DOMAIN Stmts(b, bb)} :
                              t.kind = "assign"}}

\* The destination local of a Call terminator; empty for the other kinds.
TermDefs(b, bb) ==
    IF Term(b, bb).kind = "call" THEN LocalsOf(Term(b, bb).dest) ELSE {}

\* The locals a bit set of capacity local_capacity(b) can hold.
Locals(b) ==
    0..(b.nlocals - 1)
      \cup UNION {0..d : d \in UNION {AssignDests(b, bb) \cup TermDefs(b, bb) :
                                        bb \in BlockIdx(b)}}

\* Mutant: the statement's own destination is defined before its rvalue is read.
DefsUpTo(b, bb, i) ==
    {Stmts(b, bb)[j].dest.local :
        j \in {k \in DOMAIN Stmts(b, bb) : k <= i /\ Stmts(b, bb)[k].kind = "assign"}}

(***************************************************************************)
(* compute_block_summaries: `uses` are the locals read before any          *)
(* statement of the block defines them (the rvalue is read before its      *)
(* destination is written), `defs` those some statement or the call        *)
(* destination defines.  A destination counts by its local, whatever its   *)
(* projection.                                                             *)
(***************************************************************************)
DefsBefore(b, bb, i) ==
    {Stmts(b, bb)[j].dest.local :
        j \in {k \in 1..(i - 1) : Stmts(b, bb)[k].kind = "assign"}}

Uses(b, bb) ==
    LET ss == Stmts(b, bb)
    IN  (LocalsOf(walk_terminator_reads(Term(b, bb))) \ DefsBefore(b, bb, Len(ss) + 1))
          \cup UNION {LocalsOf(StmtReads(ss[i])) \ DefsBefore(b, bb, i) : i \in DOMAIN ss}

Defs(b, bb) == DefsBefore(b, bb, Len(Stmts(b, bb)) + 1) \cup TermDefs(b, bb)

(***************************************************************************)
(* The equations of compute_liveness.  A solution is given by its live_in; *)
(* live_out follows from it.                                               *)
(***************************************************************************)
FlowOut(b, lin, bb) == UNION {lin[s] : s \in Successors(b, bb)}

FlowIn(b, out, bb) == Uses(b, bb) \cup (out \ Defs(b, bb))

LiveMaps(b) == [BlockIdx(b) -> SUBSET Locals(b)]

IsSolution(b, lin) ==
    \A bb \in BlockIdx(b) : lin[bb] = FlowIn(b, FlowOut(b, lin, bb), bb)

\* `out` is live_out of the least solution of the equations.
IsLeastLiveOut(b, out) ==
    \E lin \in LiveMaps(b) :
        /\ IsSolution(b, lin)
        /\ out = [bb \in BlockIdx(b) |-> FlowOut(b, lin, bb)]
        /\ \A sol \in LiveMaps(b) :
               IsSolution(b, sol) => \A bb \in BlockIdx(b) : lin[bb] \subseteq sol[bb]

(***************************************************************************)
(* compute_stmt_liveness: the locals live before each statement of a       *)
(* block, scanned backward from live_out.  The entry at the terminator's   *)
(* index is live_out itself.                                               *)
(***************************************************************************)
StmtTransfer(s, live) ==
    CASE s.kind = "assign" -> (live \ {s.dest.local}) \cup LocalsOf(walk_rvalue_reads(s.rv))
      [] s.kind = "dead"   -> live \ {s.local}
      [] OTHER             -> live

compute_stmt_liveness(b, bb, out) ==
    LET ss == Stmts(b, bb)
        scan[i \in Points(b, bb)] ==
            IF i = Len(ss) + 1 THEN out ELSE StmtTransfer(ss[i], scan[i + 1])
    IN  scan

(***************************************************************************)
(* What the equations need of a body: it has an entry block, and no local  *)
(* is read that the bit sets cannot hold (FixedBitSet::insert panics on    *)
(* one).                                                                   *)
(***************************************************************************)
LivenessReady(b) ==
    /\ Len(b.blocks) > 0
    /\ \A bb \in BlockIdx(b) : Uses(b, bb) \subseteq Locals(b)
----------------------------------------------------------------------------

ASSUME BodiesReady == \A b \in Bodies : LivenessReady(b)

VARIABLES
    live_in,
    live_out,
    worklist,     \* a stack of blocks: pushed and popped at the end
    in_worklist

vars == <<body, live_in, live_out, worklist, in_worklist>>

\* The sets hold locals within the capacity of the bit sets, and the worklist blocks.
TypeOK ==
    /\ body \in Bodies
    /\ live_in \in LiveMaps(body)
    /\ live_out \in LiveMaps(body)
    /\ worklist \in Seq(Blocks)
    /\ in_worklist \subseteq Blocks

\* Mutant: the iteration starts from the top instead of the empty sets.
InitAllLive ==
    /\ body \in Bodies
    /\ live_in  = [bb \in Blocks |-> Locals(body)]
    /\ live_out = [bb \in Blocks |-> Locals(body)]
    /\ worklist = [bb \in Blocks |-> bb]
    /\ in_worklist = Blocks

Init ==
    /\ body \in Bodies
    /\ live_in  = [bb \in Blocks |-> {}]
    /\ live_out = [bb \in Blocks |-> {}]
    /\ worklist = [bb \in Blocks |-> bb]
    /\ in_worklist = Blocks

\* The one increasing enumeration of a set of blocks, as a set of sequences.
Ascending(S) ==
    {s \in [1..Cardinality(S) -> S] :
        /\ \A b \in S : \E i \in DOMAIN s : s[i] = b
        /\ \A i, j \in DOMAIN s : i < j => s[i] < s[j]}

Front(s) == SubSeq(s, 1, Len(s) - 1)

\* Mutant: the block is looked at without being popped.
SettlePeeks(bi, newIn, newOut) ==
    /\ newIn = live_in[bi] /\ newOut = live_out[bi]
    /\ UNCHANGED <<live_in, live_out, worklist, in_worklist>>

\* Nothing changed for bi: it only leaves the worklist.
Settle(bi, newIn, newOut) ==
    /\ newIn = live_in[bi] /\ newOut = live_out[bi]
    /\ worklist' = Front(worklist)
    /\ in_worklist' = in_worklist \ {bi}
    /\ UNCHANGED <<live_in, live_out>>

\* Mutant: the blocks that follow bi are queued, not the ones before it.
UpdatePushesSuccessors(bi, newIn, newOut) ==
    /\ newIn # live_in[bi] \/ newOut # live_out[bi]
    /\ live_in'  = [live_in EXCEPT ![bi] = newIn]
    /\ live_out' = [live_out EXCEPT ![bi] = newOut]
    /\ LET waiting == in_worklist \ {bi}
           pushed  == Successors(body, bi) \ waiting
       IN  /\ in_worklist' = waiting \cup pushed
           /\ \E new \in Ascending(pushed) : worklist' = Front(worklist) \o new

\* The sets of bi changed: store them and push the predecessors of bi that
\* are not waiting already, in block order.
Update(bi, newIn, newOut) ==
    /\ newIn # live_in[bi] \/ newOut # live_out[bi]
    /\ live_in'  = [live_in EXCEPT ![bi] = newIn]
    /\ live_out' = [live_out EXCEPT ![bi] = newOut]
    /\ LET waiting == in_worklist \ {bi}
           pushed  == Predecessors(body, bi) \ waiting
       IN  /\ in_worklist' = waiting \cup pushed
           /\ \E new \in Ascending(pushed) : worklist' = Front(worklist) \o new

Process ==
    /\ worklist # <<>>
    /\ LET bi     == worklist[Len(worklist)]
           newOut == FlowOut(body, live_in, bi)
           newIn  == FlowIn(body, newOut, bi)
       IN  Settle(bi, newIn, newOut) \/ Update(bi, newIn, newOut)
    /\ UNCHANGED body

Next == Process

\* The loop is ordinary sequential code: it keeps running while it can.
Spec == Init /\ [][Next]_vars /\ WF_vars(Next)

Done == worklist = <<>>

-----------------------------------------------------------------------------
(***************************************************************************)
(* Properties.                                                             *)
(***************************************************************************)
\* The block satisfies its equations for the current sets.
Stable(bb) ==
    /\ live_out[bb] = FlowOut(body, live_in, bb)
    /\ live_in[bb] = FlowIn(body, live_out[bb], bb)

\* A block that is not waiting is stable: whenever a turn changes a live_in,
\* every block that read the old one is queued (liveness.rs:177-184), so an
\* empty worklist means a solution.
WaitingCovers == \A bb \in Blocks \ in_worklist : Stable(bb)

\* No set ever holds a local that some solution of the equations leaves out,
\* so nothing is reported live without a use that makes it so.
BelowEverySolution ==
    \A sol \in LiveMaps(body) :
        IsSolution(body, sol) =>
            \A bb \in Blocks : /\ live_in[bb] \subseteq sol[bb]
                               /\ live_out[bb] \subseteq FlowOut(body, sol, bb)

\* The iteration only ever adds locals: a block's sets never shrink, although
\* each turn recomputes them from scratch.
OnlyGrows ==
    [][\A bb \in Blocks : /\ live_in[bb] \subseteq live_in'[bb]
                          /\ live_out[bb] \subseteq live_out'[bb]]_vars

\* The worklist runs empty on every body, loops included.
Terminates == <>Done

\* The detailed algorithm implements its promise: when the worklist runs empty,
\* and not before, the callers see the least solution.
Promise == INSTANCE AnalysisPromise WITH
    Inputs  <- Bodies,
    Correct <- IsLeastLiveOut,
    input   <- body,
    result  <- IF Done THEN live_out ELSE <<>>

ImplementsPromise == Promise!Spec
-----------------------------------------------------------------------------
\* Liveness by execution paths.
NotWriting(l) == {p \in AllPoints : l \notin WritesAt(p)}

UsedFrom(from, l) == \E p \in Reach(from, NotWriting(l)) : l \in ReadsAt(p)

\* The answer of compute_liveness is the meaning its module comment gives
\* (liveness.rs:3-4): a local is in live_out of a block exactly if some path
\* from the end of the block reads it before any statement or call writes it.
LiveOutIsPathLiveness ==
    Done => \A bb \in Blocks, l \in Locals(body) :
                l \in live_out[bb] <=> UsedFrom(Entries(bb), l)
=============================================================================
