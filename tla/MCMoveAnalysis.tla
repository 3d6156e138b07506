---------------------------- MODULE MCMoveAnalysis ---------------------------
(***************************************************************************)
(* Bodies for MoveAnalysis: _0 is a two-field struct that is not Copy, _1  *)
(* a temporary, _2 a Copy value; moves, partial moves, storage markers,    *)
(* reassignments and uses, in three blocks with branches and loops.        *)
(***************************************************************************)
EXTENDS MoveAnalysis

Typed(blocks) ==
    [nlocals |-> 3, blocks |-> blocks,
     fields |-> [l \in 0..2 |-> IF l = 0 THEN 2 ELSE 0],
     copies |-> {Local(2), Field(0, 1)}]

MoveWhole == SetOp(Local(1), Move(0))
MoveField == SetOp(Local(1), Operand("move", Field(0, 0)))
InitWhole == SetConst(Local(0))
InitField == SetConst(Field(0, 0))
BorrowIt  == Assign(Local(1), Ref(Local(0), "shared"))
CopyField == SetOp(Local(2), Operand("copy", Field(0, 1)))
LenOf     == Assign(Local(2), Inspect(Field(0, 0)))
MoveSelf  == SetOp(Local(0), Move(0))
CopyVariant == SetOp(Local(2), Operand("copy", Place(0, <<Elem("downcast", 1, 0, FALSE),
                                                          Elem("field", 0, 0, FALSE)>>)))

Singles == {MoveWhole, MoveField, InitWhole, InitField, StorageDead(0), StorageLive(0),
            SetOp(Local(2), Copy(2)), Nop}

Uses == {<<BorrowIt>>, <<CopyField>>, <<LenOf>>, <<MoveWhole, CopyField>>}

First == BlocksOf({<<s>> : s \in Singles} \cup {<<s, BorrowIt>> : s \in {MoveField, InitWhole}},
                  {Switch(Copy(2), <<2, 3>>)})

Second == BlocksOf({<<>>} \cup {<<s>> : s \in {MoveField, InitField, InitWhole, StorageDead(0)}},
                   {Goto(3), Goto(1), Switch(Copy(2), <<2, 3>>), Call({Copy(2)}, Local(0), 3, <<>>)})

Third == BlocksOf(Uses, {Return, Goto(2)})

\* A path moved after it was initialised in the same block, used in the next.
ReinitBodies ==
    {Typed(<<Block(<<s, MoveWhole>>, Goto(2)), Block(<<u>>, Return)>>) :
        s \in {Nop, InitWhole, InitField}, u \in {BorrowIt, LenOf}}

CallBodies ==
    {Typed(<<Block(<<s>>, Call({Move(0)}, Local(1), 2, <<>>)), Block(<<u>>, Return)>>) :
        s \in {Nop, InitWhole}, u \in {BorrowIt, LenOf}}

SelfBodies ==
    {Typed(<<Block(<<s, MoveSelf, u>>, Return)>>) : s \in {Nop, InitWhole}, u \in {BorrowIt, LenOf}}

\* A match arm reads a variant's field; a later block ends the storage.
VariantBodies ==
    {Typed(<<Block(<<s>>, Goto(2)), Block(<<CopyVariant>>, Goto(3)),
             Block(<<e>>, Return)>>) :
        s \in {Nop, InitWhole}, e \in {Nop, StorageDead(0), InitWhole}}

\* A variant's field is assigned, or moved from: the dataflow itself meets a
\* path it has no room for.
VariantPlace == Place(0, <<Elem("downcast", 1, 0, FALSE)>>)

VariantEffects ==
    {Typed(<<Block(<<s>>, Return)>>) :
        s \in {SetConst(VariantPlace), SetOp(Local(1), Operand("move", VariantPlace))}}

FamilyBodies ==
    {Typed(<<f, s, t>>) : f \in First, s \in Second, t \in Third}
      \cup VariantBodies \cup VariantEffects
=============================================================================
