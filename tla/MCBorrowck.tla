----------------------------- MODULE MCBorrowck ------------------------------
(***************************************************************************)
(* Bodies for Borrowck: _0 a struct, _1 and _2 references to it or to its  *)
(* fields, _3 a plain value; and, for the reservation of a loan, bodies    *)
(* with one two-phase borrow `_1 = &two_phase _0`.                         *)
(***************************************************************************)
EXTENDS Borrowck

Borrow(d, place, kind) == Assign(Local(d), Ref(place, kind))

UseRef(d) == SetOp(Local(3), Copy(d))

ReadAll   == SetOp(Local(3), Copy(0))
ReadField == SetOp(Local(3), Operand("copy", Field(0, 1)))
WriteAll  == SetConst(Local(0))
WriteField == SetConst(Field(0, 0))

Kinds == {"shared", "unique", "mut", "two_phase"}

Creates == {<<Borrow(1, Field(0, 0), k)>> : k \in Kinds}
             \cup {<<Borrow(1, Field(0, 0), k), UseRef(1)>> : k \in {"two_phase"}}

Accesses == {<<WriteAll>>, <<ReadField, WriteField>>, <<ReadAll, UseRef(1)>>, <<StorageDead(1)>>,
             <<ReadAll, SetConst(Local(1))>>,
             <<Borrow(2, Local(0), "shared"), UseRef(2)>>, <<Borrow(2, Field(0, 0), "mut"), UseRef(2)>>,
             <<Borrow(2, Local(0), "two_phase"), ReadAll, UseRef(2)>>}

Lasts == {<<UseRef(1)>>, <<ReadAll>>}

Bodies3(firsts, seconds, thirds) ==
    {Body(4, <<f, s, t>>) : f \in firsts, s \in seconds, t \in thirds}

\* _4 is not among the declared locals.
Undeclared ==
    {Body(4, <<Block(<<Borrow(d, Local(0), "mut"), SetOp(Local(4), Copy(0))>> \o ss, Return)>>) :
        d \in {1, 4}, ss \in {<<>>, <<UseRef(4)>>}}

\* The call that ends the block of the loan uses the reference, which is used
\* again later.
CallActivation ==
    {Body(4, <<Block(<<Borrow(1, Local(0), "two_phase")>> \o ss,
                     Call({Operand("copy", Deref(1))}, Local(3), 2, <<>>)),
               Block(<<ReadAll, UseRef(1)>>, Return)>>) : ss \in {<<>>, <<ReadAll>>, <<UseRef(1)>>}}

ConflictBodies ==
    Bodies3(BlocksOf(Creates, {Goto(2), Switch(Copy(3), <<2, 3>>), Switch(Copy(0), <<2, 3>>)}),
            BlocksOf(Accesses, {Goto(3), Switch(Copy(3), <<2, 3>>), Call({Copy(1)}, Local(3), 3, <<>>),
                                Call({Copy(0)}, Local(3), 3, <<1>>)}),
            BlocksOf(Lasts, {Return, Goto(2), AssertTrue(Copy(1), 2, <<>>)}))

\* One two-phase loan in straight lines, branches that activate it on one side,
\* joins, and loops with and without the loan inside.
Taken == Borrow(1, Local(0), "two_phase")

Activate == SetOp(Local(2), Copy(1))

Other == SetOp(Local(2), Copy(0))

Quiet == {<<>>, <<Other>>, <<Activate>>, <<Other, Activate>>}

\* The loan's block, then three blocks that may or may not read the reference.
Shapes(first, lists, terms) ==
    {Body(3, <<f, Block(l2, t2), Block(l3, t3), Block(<<Other>>, t4)>>) :
        f \in first, l2 \in lists, l3 \in lists,
        t2 \in terms, t3 \in terms, t4 \in {Return, Goto(1)}}

ReservationBodies ==
    Shapes(BlocksOf({<<Taken>>, <<Taken, Activate, Other>>, <<Activate, Taken>>},
                    {Goto(2), Switch(Copy(2), <<2, 3>>)}),
           Quiet,
           {Goto(3), Goto(4), Switch(Copy(2), <<2, 4>>), Call({Move(1)}, Local(2), 3, <<4>>)})

FamilyBodies == Undeclared \cup CallActivation \cup ConflictBodies \cup ReservationBodies

\* The borrow sits in a block that reads the previous iteration's reference
\* first, on a loop; a second loop of three blocks shares its head.
NestedLoops ==
    {Body(3, <<Block(<<Activate, Taken>>, Goto(2)),
               Block(<<>>, Switch(Copy(2), <<1, 3>>)),
               Block(<<>>, Goto(4)),
               Block(ss, Switch(Copy(2), <<2, 5>>)),
               Block(<<>>, Return)>>) : ss \in Quiet}

JoinBodies ==
    {Body(3, <<Block(<<Taken>>, Switch(Copy(2), <<2, 3>>)), Block(ss, Goto(3)),
               Block(<<Other>>, Goto(4)), Block(<<Activate>>, Return)>>) : ss \in Quiet}

\* The reference is passed to the call that ends the block of the access.
TerminatorUse ==
    {Body(4, <<Block(<<Borrow(1, Local(0), k), WriteAll>>, Call({Move(1)}, Local(3), 2, <<>>)),
               Block(<<>>, Return)>>) : k \in Kinds}

\* A call, or a borrow, writes the borrowed local.
UncheckedWrites ==
    {Body(4, <<Block(<<Borrow(1, Local(0), "mut")>> \o ss, t), Block(<<UseRef(1)>>, Return)>>) :
        ss \in {<<>>, <<Borrow(0, Local(2), "shared")>>},
        t \in {Goto(2), Call({}, Local(0), 2, <<>>)}}

\* The local of the first reference is given another one.
Reassigned ==
    {Body(4, <<Block(<<Borrow(1, Local(0), k), UseRef(1), Borrow(1, Local(2), k), WriteAll,
                       UseRef(1)>>, Return)>>) : k \in Kinds}
=============================================================================
