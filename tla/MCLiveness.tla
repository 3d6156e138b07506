----------------------------- MODULE MCLiveness ------------------------------
(***************************************************************************)
(* Bodies to check Liveness on: three blocks and two locals, with          *)
(* branches, joins, self loops, back edges, calls that unwind, drops and   *)
(* asserts.                                                                *)
(***************************************************************************)
EXTENDS Liveness

Lists ==
    {<<>>, <<SetConst(Local(0))>>, <<SetOp(Local(0), Copy(0))>>,
     <<SetOp(Local(1), Move(0)), SetConst(Local(0))>>}

Entry ==
    BlocksOf(Lists, {Goto(2), Switch(Copy(0), <<2, 3>>), Drop(2, <<3>>),
                     Call({Copy(0)}, Local(1), 2, <<3>>), Call({}, Local(0), 1, <<2>>)})

Middle ==
    BlocksOf(Lists \cup {<<SetConst(Local(0)), SetOp(Local(1), Copy(0))>>,
                         <<Assign(Local(1), Ref(Local(0), "shared"))>>},
             {Goto(1), Goto(3), Switch(Copy(1), <<1, 3>>), Switch(Copy(1), <<2, 3>>),
              AssertTrue(Copy(0), 1, <<3>>)})

Exit ==
    BlocksOf({<<>>, <<SetOp(Local(1), Copy(0))>>,
              <<StorageDead(0), Assign(Local(0), Inspect(Local(1)))>>},
             {Return, Goto(2), Switch(Move(0), <<1, 3>>)})

FamilyBodies == {Body(2, <<e, m, x>>) : e \in Entry, m \in Middle, x \in Exit}

-----------------------------------------------------------------------------
(***************************************************************************)
(* What the comments of liveness.rs say and the code does not do.          *)
(***************************************************************************)
\* liveness.rs:199-201: result[i] is the set of locals live just before
\* statement i, the terminator's reads included, for they come later.
StmtLivenessSeesTerminator ==
    Done => \A bb \in Blocks :
                LET n    == Len(Stmts(body, bb))
                    live == compute_stmt_liveness(body, bb, live_out[bb])
                IN  ReadsAt(<<bb, n + 1>>) \subseteq live[n + 1]

\* The points that leave the value of l in place, at least in part.
KeptByPartialWrite(l) ==
    {p \in AllPoints : \/ l \notin WritesAt(p)
                       \/ IsStmt(p) /\ StmtAt(p).dest.proj # <<>>}

\* liveness.rs:3-4: a write to a part of a local, or through it, does not
\* overwrite its current value; a write through a reference even uses it.
LiveAcrossPartialWrites ==
    Done => \A bb \in Blocks, l \in Locals(body) :
                (\E p \in Reach(Entries(bb), KeptByPartialWrite(l)) : l \in ReadsAt(p))
                    => l \in live_out[bb]

\* `(*_1).x = c` between a definition of _1 and its use.
PartialBodies ==
    {Body(2, <<Block(ss, Goto(2)), Block(<<SetConst(dest)>>, Goto(3)),
               Block(<<SetOp(Local(0), Copy(1))>>, Return)>>) :
        ss \in Lists, dest \in {Local(0), Local(1), Deref(1), Field(1, 0)}}
=============================================================================
