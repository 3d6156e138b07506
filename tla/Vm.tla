--------------------------------- MODULE Vm ---------------------------------
(****************************************************************************)
(* The bytecode machine (crates/glyim-bytecode-vm/src/lib.rs).              *)
(*                                                                          *)
(* m is the module, a sequence of functions; functions, blocks, locals and  *)
(* addresses count from zero, as in the code.  vm is the machine: how it    *)
(* ended ("run" until then), the result, the operand stack all frames share *)
(* and the frames.                                                          *)
(****************************************************************************)
EXTENDS Layout, Integers, Bitwise
LOCAL INSTANCE SequencesExt

(****************************************************************************)
(* The bytecode backend: MIR to bytes (crates/glyim-codegen/src/lib.rs).    *)
(*                                                                          *)
(* Code is a sequence of bytes.  Numbers have 8 bits instead of 64, in the  *)
(* operands of the code's widths: the low byte first, then seven bytes of   *)
(* sign.  What only a wider number could be is Wild.                        *)
(*                                                                          *)
(* A body has blocks, each with statements and a terminator, and the types  *)
(* of its locals as in Layout.  Emission threads e: the bytes, whether each *)
(* constant is an integer, and the tables of strings and functions.         *)
(****************************************************************************)
Op == [LoadConst |-> 1, Add |-> 2, Sub |-> 3, Mul |-> 4, Div |-> 5, Rem |-> 6, Eq |-> 7, Ne |-> 8,
       Lt |-> 9, Gt |-> 10, Le |-> 11, Ge |-> 12, And |-> 13, Or |-> 14, Not |-> 15, Neg |-> 16,
       BitAnd |-> 17, BitOr |-> 18, BitXor |-> 19, Shl |-> 20, Shr |-> 21, LoadLocal |-> 22,
       StoreLocal |-> 23, Return |-> 24, JumpIf |-> 25, Jump |-> 26, Call |-> 27, Cast |-> 28,
       Aggregate |-> 29, Discriminant |-> 30, Len |-> 31, SwitchInt |-> 32, Assert |-> 33,
       CallIndirect |-> 34, LoadLocalAddr |-> 41, StoreField |-> 42, Deref |-> 43, Drop |-> 44,
       Repeat |-> 45, Trap |-> 255]
BinaryOps == {"Add", "Sub", "Mul", "Div", "Rem", "Eq", "Ne", "Lt", "Gt", "Le", "Ge", "And", "Or",
              "BitAnd", "BitOr", "BitXor", "Shl", "Shr"}
is_foldable_binop(byte) == byte \in {Op[o] : o \in BinaryOps}

Wild == 1000
Bits == 8
Wrap(n) == ((n + 128) % 256) - 128

Word(width, n) == [i \in 1..width |-> IF i = 1 THEN n % 256 ELSE IF n < 0 THEN 255 ELSE 0]
U32(n) == Word(4, n)
I64(n) == Word(8, n)
U32_MAX == -1   \* BasicBlockIdx::from_raw(u32::MAX)

\* The numbers the bytes from i on stand for.
ReadI64(bytes, i) ==
    LET low == Wrap(bytes[i])
    IN IF I64(low) = SubSeq(bytes, i, i + 7) THEN low ELSE Wild
ReadU32(bytes, i) ==
    IF U32(bytes[i]) = SubSeq(bytes, i, i + 3) THEN bytes[i] ELSE Wild

----------------------------------------------------------------------------
\* i64 arithmetic.
Quot(a, b) == IF (a < 0) = (b < 0) THEN Wrap((IF a < 0 THEN -a ELSE a) \div (IF b < 0 THEN -b ELSE b))
              ELSE -((IF a < 0 THEN -a ELSE a) \div (IF b < 0 THEN -b ELSE b))
Overflows(a, b) == b = 0 \/ (a = -128 /\ b = -1)
AsInt(p) == IF p THEN 1 ELSE 0
Pow2(n) == 2 ^ n

\* All of BinOp but division and remainder.
Arith(op, a, b) ==
    CASE op = "Add" -> Wrap(a + b)
      [] op = "Sub" -> Wrap(a - b)
      [] op = "Mul" -> Wrap(a * b)
      [] op = "Eq" -> AsInt(a = b)
      [] op = "Ne" -> AsInt(a # b)
      [] op = "Lt" -> AsInt(a < b)
      [] op = "Gt" -> AsInt(a > b)
      [] op = "Le" -> AsInt(a <= b)
      [] op = "Ge" -> AsInt(a >= b)
      [] op = "And" -> AsInt(a # 0 /\ b # 0)
      [] op = "Or" -> AsInt(a # 0 \/ b # 0)
      [] op = "BitAnd" -> Wrap((a % 256) & (b % 256))
      [] op = "BitOr" -> Wrap((a % 256) | (b % 256))
      [] op = "BitXor" -> Wrap((a % 256) ^^ (b % 256))
      [] op = "Shl" -> Wrap(a * Pow2(b % Bits))
      [] op = "Shr" -> a \div Pow2(b % Bits)

\* Mutant: the remainder is folded like the quotient.
fold_rem_as_quotient(op, a, b) ==
    IF op \in {"Div", "Rem"} THEN IF Overflows(a, b) THEN <<>> ELSE <<Quot(a, b)>> ELSE <<Arith(op, a, b)>>

\* <<>> is None.  a.rem(b) panics where it overflows: callers exclude it.
fold_int_binop(op, a, b) ==
    CASE op = "Div" -> IF Overflows(a, b) THEN <<>> ELSE <<Quot(a, b)>>
      [] op = "Rem" -> <<a - b * Quot(a, b)>>
      [] OTHER -> <<Arith(op, a, b)>>

----------------------------------------------------------------------------
\* GlyimLayoutProvider.  ERROR has no layout.
ErrorTy == [k |-> "error"]
KnownLayout(ty) == IF ty.k = "error" THEN Unknown ELSE layout_of(ty)
field_offset(ty, n) ==
    LET l == KnownLayout(ty)
    IN IF ty.k = "array" /\ l.ok THEN n * (l.size \div ty.count)
       ELSE IF l.ok /\ n + 1 \in DOMAIN l.offsets THEN l.offsets[n + 1] ELSE 0
size_of(ty) == LET l == KnownLayout(ty) IN IF l.ok THEN l.size ELSE 0
tag_offset(ty) == LET l == KnownLayout(ty) IN IF l.ok /\ l.tag.encoding = "direct" THEN l.tag.size ELSE 0

intern(table, x) ==
    IF \E i \in DOMAIN table : table[i] = x THEN table ELSE Append(table, x)
IndexIn(table, x) == (CHOOSE i \in DOMAIN table : table[i] = x) - 1

Put(e, bytes) == [e EXCEPT !.bc = @ \o bytes]
PutConst(e, n) == Put(e, <<Op.LoadConst>> \o I64(n))
Flagged(e, n, isInt) == [PutConst(e, n) EXCEPT !.ints = Append(@, isInt)]
PutAdd(e, n) == Put(PutConst(e, n), <<Op.Add>>)

\* One projection: the address so far is on the stack, ty is the type it has.
\* The size that scales an index is that of ty itself, the whole array.
address_deref(s) ==
    [e |-> Put(s.e, <<Op.Deref>>), ty |-> IF s.ty.k \in {"ref", "mutref"} THEN s.ty.elem ELSE ErrorTy]
address_field(s, p) == [s EXCEPT !.e = PutAdd(s.e, field_offset(s.ty, p.n))]
Element(ty) == IF ty.k \in {"array", "slice"} THEN ty.elem ELSE ErrorTy
address_index(s, p, local) ==
    LET base == Put(s.e, <<Op.LoadLocal>> \o U32(p.n))
        count == CASE s.ty.k = "array" -> PutConst(base, s.ty.count)
                   [] s.ty.k = "slice" -> Put(base, <<Op.Len>> \o U32(local))
                   [] OTHER -> PutConst(base, 0)
        checked == PutAdd(Put(count, <<Op.Lt, Op.Assert, 1>> \o U32(U32_MAX)), 0)
    IN [e |-> IF size_of(s.ty) = 0 THEN checked
              ELSE Put(PutConst(base, size_of(s.ty)), <<Op.Mul, Op.Add>>),
        ty |-> Element(s.ty)]
address_downcast(s) == IF tag_offset(s.ty) = 0 THEN s ELSE [s EXCEPT !.e = PutAdd(s.e, tag_offset(s.ty))]
address_constant_index(s, p, local) ==
    IF p.fe /\ s.ty.k # "array"
    THEN [e |-> Put(PutConst(Put(PutConst(Put(s.e, <<Op.LoadLocal>> \o U32(local) \o <<Op.Len>>), p.n),
                                 <<Op.Sub>>), size_of(s.ty)), <<Op.Mul, Op.Add>>),
          ty |-> IF s.ty.k = "slice" THEN s.ty.elem ELSE ErrorTy]
    ELSE LET at == IF ~p.fe THEN p.n ELSE IF p.n > s.ty.count THEN 0 ELSE s.ty.count - p.n
         IN [e |-> PutAdd(s.e, at * size_of(s.ty)), ty |-> ErrorTy]
address_subslice(s, p) == [s EXCEPT !.e = PutAdd(s.e, p.n * size_of(s.ty))]

emit_place_address(e, place, tys) ==
    LET project(s, p) ==
            CASE p.k = "deref" -> address_deref(s)
              [] p.k = "field" -> address_field(s, p)
              [] p.k = "index" -> address_index(s, p, place.local)
              [] p.k = "downcast" -> address_downcast(s)
              [] p.k = "const" -> address_constant_index(s, p, place.local)
              [] p.k = "sub" -> address_subslice(s, p)
        base == [e |-> Put(e, <<Op.LoadLocalAddr>> \o U32(place.local)), ty |-> tys[place.local + 1]]
    IN FoldLeft(project, base, place.proj).e

----------------------------------------------------------------------------
RECURSIVE emit_constant(_, _)
emit_constant(e, c) ==
    CASE c.k \in {"Int", "Bool"} -> Flagged(e, c.n, TRUE)
      [] c.k = "Unit" -> Flagged(e, 0, TRUE)
      [] c.k = "Float" -> Flagged(e, c.n, FALSE)
      [] c.k = "String" ->
             LET t == intern(e.strings, c.n) IN [Flagged(e, IndexIn(t, c.n), FALSE) EXCEPT !.strings = t]
      [] c.k = "Fn" ->
             LET t == intern(e.fns, c.n) IN [Flagged(e, IndexIn(t, c.n), FALSE) EXCEPT !.fns = t]
      [] c.k = "Aggregate" -> FoldLeft(emit_constant, e, c.elems)

emit_operand(e, o, tys) ==
    CASE o.k = "constant" -> emit_constant(e, o.const)
      [] o.place.proj = <<>> -> Put(e, <<Op.LoadLocal>> \o U32(o.place.local))
      [] OTHER -> Put(emit_place_address(e, o.place, tys), <<Op.Deref>>)
Operands(e, os, tys) == FoldLeft(LAMBDA acc, o : emit_operand(acc, o, tys), e, os)

\* Aggregates and repetitions have their opcode before their operands.
emit_rvalue(e, r, tys) ==
    CASE r.k = "Use" -> emit_operand(e, r.ops[1], tys)
      [] r.k \in BinaryOps \cup {"Not", "Neg", "Discriminant", "Len"} -> Put(Operands(e, r.ops, tys), <<Op[r.k]>>)
      [] r.k = "Ref" -> emit_place_address(e, r.ops[1].place, tys)
      [] r.k = "Aggregate" -> Operands(Put(e, <<Op.Aggregate>> \o U32(Len(r.ops))), r.ops, tys)
      [] r.k = "Cast" -> Put(emit_operand(e, r.ops[1], tys), <<Op.Cast, 0>>)
      [] r.k = "Repeat" -> Operands(Put(e, <<Op.Repeat>>), r.ops, tys)

emit_statement(e, s, tys) ==
    IF s.k # "Assign" THEN e
    ELSE LET value == emit_rvalue(e, s.rvalue, tys)
         IN IF s.place.proj = <<>> THEN Put(value, <<Op.StoreLocal>> \o U32(s.place.local))
            ELSE Put(emit_place_address(value, s.place, tys), <<Op.StoreField>>)

emit_terminator(e, t, tys) ==
    CASE t.k = "Return" -> Put(e, <<Op.Return>>)
      [] t.k = "Unreachable" -> Put(e, <<Op.Trap>>)
      [] t.k = "Goto" -> Put(e, <<Op.Jump>> \o U32(t.target))
      [] t.k = "SwitchBool" ->   \* targets: the value's, then otherwise
             Put(emit_operand(e, t.discr, tys),
                 <<Op.JumpIf>> \o U32(t.targets[2]) \o <<Op.Jump>> \o U32(t.targets[1]))
      [] t.k = "SwitchInt" ->    \* values are u128, 16 bytes
             Put(emit_operand(e, t.discr, tys),
                 <<Op.SwitchInt>> \o U32(Len(t.values))
                   \o FlattenSeq([i \in DOMAIN t.values |-> Word(16, t.values[i]) \o U32(t.targets[i])])
                   \o U32(t.targets[Len(t.targets)]))
      [] t.k = "Call" ->
             Put(Operands(e, <<t.func>> \o t.args, tys),
                 <<IF t.func.k = "constant" THEN Op.Call ELSE Op.CallIndirect>>
                   \o U32(Len(t.args)) \o U32(t.dest) \o U32(IF t.target = <<>> THEN U32_MAX ELSE t.target[1]))
      [] t.k = "Assert" ->
             Put(emit_operand(e, t.discr, tys), <<Op.Assert, AsInt(t.expected)>> \o U32(t.target))
      [] t.k = "Drop" -> Put(emit_place_address(e, t.place, tys), <<Op.Drop, Op.Jump>> \o U32(t.target))

----------------------------------------------------------------------------
(****************************************************************************)
(* The peephole pass decodes the bytes with widths of its own, and writes   *)
(* back what it took as operands.                                           *)
(****************************************************************************)
Take(bc, i, n) == SubSeq(bc, i, Min({i + n - 1, Len(bc)}))

\* The operand bytes, and how far they reach.
RECURSIVE decode_operand(_, _, _)
RECURSIVE InnerInstrs(_, _, _)
InnerInstrs(bc, at, n) ==
    IF n = 0 \/ at > Len(bc) THEN at
    ELSE InnerInstrs(bc, at + 1 + decode_operand(bc, at + 1, bc[at]).used, n - 1)
decode_operand(bc, i, op) ==
    LET count == IF i + 3 > Len(bc) THEN 0 ELSE ReadU32(bc, i)
        Taken(v) == [bytes |-> v, used |-> Len(v)]
    IN CASE op = Op.LoadConst -> Taken(Take(bc, i, 8))
         [] op \in {Op.LoadLocal, Op.StoreLocal, Op.Jump, Op.JumpIf, Op.Len, Op.Discriminant} -> Taken(Take(bc, i, 4))
         [] op = Op.Cast -> Taken(Take(bc, i, 1))
         [] op = Op.Assert -> Taken(Take(bc, i, 1) \o Take(bc, i, 4))
         [] op = Op.Aggregate -> Taken(SubSeq(bc, i, InnerInstrs(bc, i + 4, count) - 1))
         [] op \in {Op.Call, Op.CallIndirect} ->
                Taken(SubSeq(bc, i, InnerInstrs(bc, i + 4, count) - 1) \o Take(bc, i, 8))
         [] op = Op.SwitchInt ->
                Taken(Take(bc, i, 4) \o FlattenSeq([j \in 1..count |-> Take(bc, i, 12)]) \o Take(bc, i, 4))
         [] OTHER -> Taken(<<>>)

RECURSIVE decode_bytecode(_, _)
decode_bytecode(bc, i) ==
    IF i > Len(bc) THEN <<>>
    ELSE LET d == decode_operand(bc, i + 1, bc[i])
         IN <<[op |-> bc[i], operand |-> d.bytes]>> \o decode_bytecode(bc, i + 1 + d.used)
encode_bytecode(instrs) == FlattenSeq([k \in DOMAIN instrs |-> <<instrs[k].op>> \o instrs[k].operand])
Name(byte) == CHOOSE o \in DOMAIN Op : Op[o] = byte

\* ints: the flags of the constants from k on, in the order of emission.
RECURSIVE Rewrite(_, _, _)
Rewrite(instrs, k, ints) ==
    IF k > Len(instrs) THEN <<>>
    ELSE LET Const(j) == j <= Len(instrs) /\ instrs[j].op = Op.LoadConst
             Flag(n) == n <= Len(ints) /\ ints[n]
             Rest(n) == SubSeq(ints, n + 1, Len(ints))
             folded == IF Const(k) /\ Flag(1) /\ Const(k + 1) /\ Flag(2)
                             /\ k + 2 <= Len(instrs) /\ is_foldable_binop(instrs[k + 2].op)
                       THEN fold_int_binop(Name(instrs[k + 2].op), ReadI64(instrs[k].operand, 1), ReadI64(instrs[k + 1].operand, 1))
                       ELSE <<>>
         IN IF folded # <<>>
            THEN <<[op |-> Op.LoadConst, operand |-> I64(folded[1])]>> \o Rewrite(instrs, k + 3, Rest(2))
            ELSE IF instrs[k].op = Op.Neg /\ k < Len(instrs) /\ instrs[k + 1].op = Op.Neg
            THEN Rewrite(instrs, k + 2, ints)
            ELSE <<instrs[k]>> \o Rewrite(instrs, k + 1, IF Const(k) THEN Rest(1) ELSE ints)
peephole(bc, ints) == encode_bytecode(Rewrite(decode_bytecode(bc, 1), 1, ints))

\* The blocks' bytes one after the other; blocks are named by number in jumps.
Blocks(body, tables) ==
    LET block(acc, b) ==
            LET e == emit_terminator(FoldLeft(LAMBDA x, s : emit_statement(x, s, body.tys),
                                         [acc.e EXCEPT !.bc = <<>>], b.stmts), b.term, body.tys)
            IN [e |-> e, code |-> Append(acc.code, e.bc)]
    IN FoldLeft(block, [e |-> [bc |-> <<>>, ints |-> <<>>] @@ tables, code |-> <<>>], body.blocks)
generate_function(body, tables, optimize) ==
    LET all == Blocks(body, tables)
        bc == FlattenSeq(all.code)
    IN IF optimize THEN peephole(bc, all.e.ints) ELSE bc

-----------------------------------------------------------------------------
CONSTANT MAX_CALL_DEPTH

VInt(n) == [int |-> n, elems |-> <<>>, tuple |-> FALSE]
VTuple(vs) == [int |-> 0, elems |-> vs, tuple |-> TRUE]   \* as_int of a tuple is 0

Top(vm) == vm.frames[Len(vm.frames)]
Fail(vm, error) == [vm EXCEPT !.ended = error]
SetTop(vm, fr) == [vm EXCEPT !.frames[Len(vm.frames)] = fr]
Advance(vm, pc) == SetTop(vm, [Top(vm) EXCEPT !.pc = pc])
Popped(vm, n) == [vm EXCEPT !.stack = SubSeq(@, 1, Len(@) - n)]
Push(vm, v) == [vm EXCEPT !.stack = Append(@, v)]
Nth(vm, n) == vm.stack[Len(vm.stack) - n]    \* Nth(vm, 0) is the top

\* With n operands on the stack and `bytes` bytes of code left, the rest.
Has(vm, n, result) == IF Len(vm.stack) < n THEN Fail(vm, "StackUnderflow") ELSE result
Left(code, pc, bytes, vm, result) == IF pc + bytes > Len(code) THEN Fail(vm, "UnexpectedEndOfCode") ELSE result

resolve_target(f, t) == IF f.block_offsets # <<>> THEN f.block_offsets[t + 1] ELSE t
Resolvable(f, t) == f.block_offsets = <<>> \/ t + 1 \in DOMAIN f.block_offsets
\* Indexing block_offsets beyond its end panics.
Goto(m, vm, t) ==
    LET f == m[Top(vm).func + 1]
    IN IF Resolvable(f, t) THEN Advance(vm, resolve_target(f, t)) ELSE Fail(vm, "panic")

push_frame(m, vm, func, args, resume, dest) ==
    IF Len(vm.frames) >= MAX_CALL_DEPTH THEN Fail(vm, "CallFrameOverflow")
    ELSE IF func + 1 \notin DOMAIN m THEN Fail(vm, "FunctionOutOfBounds")
    ELSE LET n == Max({m[func + 1].n_locals, Len(args)})
         IN [vm EXCEPT !.frames = Append(@,
               [locals |-> [i \in 0..(n - 1) |-> IF i < Len(args) THEN args[i + 1] ELSE VInt(0)],
                mem |-> [i \in 0..(Max({n * 8, 8}) - 1) |-> VInt(0)],
                func |-> func, pc |-> 0, resume |-> resume, dest |-> dest])]

run_module(m) ==
    LET vm == [ended |-> "run", result |-> <<>>, stack |-> <<>>, frames |-> <<>>]
    IN IF m = <<>> THEN Fail(vm, "FunctionOutOfBounds") ELSE push_frame(m, vm, 0, <<>>, U32_MAX, U32_MAX)

\* The local, its address, and behind the address the elements of a tuple.
set_local(vm, idx, v) ==
    LET fr == Top(vm)
        mirrored == [a \in DOMAIN fr.mem |->
                        IF a = idx THEN v
                        ELSE IF a - idx \in DOMAIN v.elems THEN v.elems[a - idx] ELSE fr.mem[a]]
    IN IF idx \notin DOMAIN fr.locals THEN Fail(vm, "LocalOutOfBounds")
       ELSE SetTop(vm, [fr EXCEPT !.locals[idx] = v, !.mem = mirrored])

\* A negative address becomes a large one; resizing to it is out of memory.
set_mem(vm, addr, v) ==
    LET fr == Top(vm)
    IN IF addr < 0 THEN Fail(vm, "panic")
       ELSE SetTop(vm, [fr EXCEPT !.mem = [a \in DOMAIN @ \cup 0..addr |->
                            IF a = addr THEN v ELSE IF a \in DOMAIN @ THEN @[a] ELSE VInt(0)]])

binop(op, a, b) ==
    CASE op \in {"Div", "Rem"} /\ Overflows(a, b) -> 0
      [] op = "Div" -> Quot(a, b)
      [] op = "Rem" -> a - b * Quot(a, b)
      [] OTHER -> Arith(op, a, b)
unop(op, a) == IF op = "Not" THEN AsInt(a = 0) ELSE Wrap(-a)

----------------------------------------------------------------------------
\* The opcodes.  pc is behind the opcode.
LoadConst(code, vm, pc) == Left(code, pc, 8, vm, Push(Advance(vm, pc + 8), VInt(ReadI64(code, pc + 1))))
LoadLocal(code, vm, pc) ==
    Left(code, pc, 4, vm,
        LET idx == ReadU32(code, pc + 1)
        IN IF idx \notin DOMAIN Top(vm).locals THEN Fail(vm, "LocalOutOfBounds")
           ELSE Push(Advance(vm, pc + 4), Top(vm).locals[idx]))
StoreLocal(code, vm, pc) ==
    Left(code, pc, 4, vm, Has(vm, 1, set_local(Popped(Advance(vm, pc + 4), 1), ReadU32(code, pc + 1), Nth(vm, 0))))
LoadLocalAddr(code, vm, pc) == Left(code, pc, 4, vm, Push(Advance(vm, pc + 4), VInt(ReadU32(code, pc + 1))))
StoreField(vm, pc) == Has(vm, 2, set_mem(Popped(Advance(vm, pc), 2), Nth(vm, 0).int, Nth(vm, 1)))
Deref(vm, pc) ==
    Has(vm, 1, IF Nth(vm, 0).int \notin DOMAIN Top(vm).mem THEN Fail(vm, "LocalOutOfBounds")
               ELSE Push(Popped(Advance(vm, pc), 1), Top(vm).mem[Nth(vm, 0).int]))
Binary(op, vm, pc) == Has(vm, 2, Push(Popped(Advance(vm, pc), 2), VInt(binop(op, Nth(vm, 1).int, Nth(vm, 0).int))))
Unary(op, vm, pc) == Has(vm, 1, Push(Popped(Advance(vm, pc), 1), VInt(unop(op, Nth(vm, 0).int))))
Cast(code, vm, pc) == IF pc = Len(code) THEN Fail(vm, "panic") ELSE Advance(vm, pc + 1)
Jump(m, code, vm, pc) == Left(code, pc, 4, vm, Goto(m, vm, ReadU32(code, pc + 1)))
JumpIf(m, code, vm, pc) ==
    Left(code, pc, 4, vm,
        IF ~Resolvable(m[Top(vm).func + 1], ReadU32(code, pc + 1)) THEN Fail(vm, "panic")
        ELSE Has(vm, 1, IF Nth(vm, 0).int # 0 THEN Goto(m, Popped(vm, 1), ReadU32(code, pc + 1))
                        ELSE Popped(Advance(vm, pc + 4), 1)))
\* The last of several equal values wins.
SwitchInt(m, code, vm, pc) ==
    Has(vm, 1, Left(code, pc, 4, vm,
        LET n == ReadU32(code, pc + 1)
        IN Left(code, pc, 4 + 12 * n + 4, vm,
             LET taken == {i \in 1..n : ReadI64(code, pc + 5 + 12 * (i - 1)) = Nth(vm, 0).int}
                 at == IF taken = {} THEN pc + 5 + 12 * n ELSE pc + 13 + 12 * (Max(taken) - 1)
             IN Goto(m, Popped(vm, 1), ReadU32(code, at)))))
AssertThat(m, code, vm, pc) ==
    Left(code, pc + 1, 4, vm, Has(vm, 1,
        IF (Nth(vm, 0).int # 0) # (code[pc + 1] # 0) THEN Fail(vm, "AssertionFailed")
        ELSE Goto(m, Popped(vm, 1), ReadU32(code, pc + 2))))
LenOf(code, vm, pc) == Left(code, pc, 4, vm, Push(Advance(vm, pc + 4), VInt(0)))
Discriminant(vm, pc) == Has(vm, 1, Push(Popped(Advance(vm, pc), 1), VInt(Len(Nth(vm, 0).elems))))
Aggregate(code, vm, pc) ==
    Left(code, pc, 4, vm,
        LET n == ReadU32(code, pc + 1)
        IN Has(vm, n, Push(Popped(Advance(vm, pc + 4), n), VTuple([i \in 1..n |-> Nth(vm, n - i)]))))
DropPlace(m, code, vm, pc) == Has(vm, 1, Left(code, pc, 4, vm, Goto(m, Popped(vm, 1), ReadU32(code, pc + 1))))
Repeat(vm, pc) ==
    Has(vm, 2, Push(Popped(Advance(vm, pc), 2), VTuple([i \in 1..Max({Nth(vm, 1).int, 0}) |-> Nth(vm, 0)])))

\* The caller's local is set, its memory is not.
Return(m, vm) ==
    LET done == Top(vm)
        rest == [Popped(vm, 1) EXCEPT !.frames = SubSeq(@, 1, Len(@) - 1)]
        fr == Top(rest)
    IN IF vm.stack = <<>> THEN Fail(vm, "EmptyReturn")
       ELSE IF Len(vm.frames) = 1 THEN [rest EXCEPT !.ended = "done", !.result = <<Nth(vm, 0)>>]
       ELSE Goto(m, IF done.dest \in DOMAIN fr.locals THEN SetTop(rest, [fr EXCEPT !.locals[done.dest] = Nth(vm, 0)])
                    ELSE rest, done.resume)

Call(m, code, vm, pc) ==
    Left(code, pc, 12, vm,
        LET argc == ReadU32(code, pc + 1)
        IN Has(vm, argc + 1,
               push_frame(m, Popped(Advance(vm, pc + 12), argc + 1), Nth(vm, argc).int,
                          [i \in 1..argc |-> Nth(vm, argc - i)], ReadU32(code, pc + 9), ReadU32(code, pc + 5))))

\* One turn of the loop.
drive(m, vm) ==
    LET code == m[Top(vm).func + 1].code
        pc == Top(vm).pc + 1
        op == Name(code[pc])
    IN IF Top(vm).pc >= Len(code) THEN Fail(vm, "UnexpectedEndOfCode")
       ELSE IF code[pc] \notin {Op[o] : o \in DOMAIN Op} THEN Fail(vm, "UnknownOpcode")
       ELSE CASE op = "LoadConst" -> LoadConst(code, vm, pc)
              [] op = "LoadLocal" -> LoadLocal(code, vm, pc)
              [] op = "StoreLocal" -> StoreLocal(code, vm, pc)
              [] op = "LoadLocalAddr" -> LoadLocalAddr(code, vm, pc)
              [] op = "StoreField" -> StoreField(vm, pc)
              [] op = "Deref" -> Deref(vm, pc)
              [] op \in BinaryOps -> Binary(op, vm, pc)
              [] op \in {"Not", "Neg"} -> Unary(op, vm, pc)
              [] op = "Cast" -> Cast(code, vm, pc)
              [] op = "Jump" -> Jump(m, code, vm, pc)
              [] op = "JumpIf" -> JumpIf(m, code, vm, pc)
              [] op = "SwitchInt" -> SwitchInt(m, code, vm, pc)
              [] op = "Assert" -> AssertThat(m, code, vm, pc)
              [] op = "Len" -> LenOf(code, vm, pc)
              [] op = "Discriminant" -> Discriminant(vm, pc)
              [] op = "Aggregate" -> Aggregate(code, vm, pc)
              [] op = "Drop" -> DropPlace(m, code, vm, pc)
              [] op = "Repeat" -> Repeat(vm, pc)
              [] op = "Return" -> Return(m, vm)
              [] op \in {"Call", "CallIndirect"} -> Call(m, code, vm, pc)
              [] op = "Trap" -> Fail(vm, "AbnormalTermination")

----------------------------------------------------------------------------
(****************************************************************************)
(* Functions for the machine: the bytes of generate_function, and the table *)
(* of where the blocks begin that `block_offsets` asks for.                 *)
(****************************************************************************)
Ends(instr) == instr.op \in {Op.Return, Op.Jump, Op.Trap}

Assembled(body, tables, optimize) ==
    LET parts == Blocks(body, tables).code
        code == generate_function(body, tables, optimize)
        instrs == decode_bytecode(code, 1)
        Start(b) == FoldLeft(LAMBDA n, i : n + i, 0, [i \in 1..(b - 1) |-> Len(parts[i])])
        \* the instructions before block b in the optimised code, by the ends
        Before(b) == SelectSeq([i \in DOMAIN instrs |-> i],
                         LAMBDA i : Cardinality({j \in 1..(i - 1) : Ends(instrs[j])}) < b - 1)
    IN [code |-> code,
        n_locals |-> Len(body.tys),
        block_offsets |->
            [b \in DOMAIN parts |->
                IF ~optimize THEN Start(b)
                ELSE Len(encode_bytecode([i \in DOMAIN Before(b) |-> instrs[Before(b)[i]]]))]]

----------------------------------------------------------------------------
(****************************************************************************)
(* What the operations mean, by their laws: the number of this width that   *)
(* satisfies them.  Division and remainder that are faults have none.       *)
(****************************************************************************)
Numbers == -128..127
Congruent(n, m) == (n - m) % 256 = 0
BitsOf(n) == {i \in 0..(Bits - 1) : ((n % 256) \div Pow2(i)) % 2 = 1}
Magnitude(n) == IF n < 0 THEN -n ELSE n
Divides(a, b, q, r) == a = b * q + r /\ Magnitude(r) < Magnitude(b) /\ (r = 0 \/ (r < 0) = (a < 0))
Shifted(i, b) == i + (b % Bits)

Means(op, a, b, n) ==
    CASE op = "Add" -> Congruent(n, a + b)
      [] op = "Sub" -> Congruent(n, a - b)
      [] op = "Mul" -> Congruent(n, a * b)
      [] op = "Div" -> Divides(a, b, n, a - b * n)
      [] op = "Rem" -> \E q \in Numbers : Divides(a, b, q, n)
      [] op = "Eq" -> n = AsInt(a = b)
      [] op = "Ne" -> n = AsInt(a # b)
      [] op = "Lt" -> n = AsInt(a < b)
      [] op = "Gt" -> n = AsInt(b < a)
      [] op = "Le" -> n = AsInt(~(b < a))
      [] op = "Ge" -> n = AsInt(~(a < b))
      [] op = "And" -> n = AsInt(~(a = 0 \/ b = 0))
      [] op = "Or" -> n = AsInt(~(a = 0 /\ b = 0))
      [] op = "BitAnd" -> BitsOf(n) = BitsOf(a) \cap BitsOf(b)
      [] op = "BitOr" -> BitsOf(n) = BitsOf(a) \cup BitsOf(b)
      [] op = "BitXor" -> BitsOf(n) = (BitsOf(a) \cup BitsOf(b)) \ (BitsOf(a) \cap BitsOf(b))
      [] op = "Shl" -> BitsOf(n) = {Shifted(i, b) : i \in BitsOf(a)} \cap (0..(Bits - 1))
      [] op = "Shr" ->   \* the sign fills the bits above
             \A i \in 0..(Bits - 1) : i \in BitsOf(n) <=> Min({Shifted(i, b), Bits - 1}) \in BitsOf(a)
      [] op = "Not" -> n = AsInt(a = 0)
      [] op = "Neg" -> Congruent(n + a, 0)

(****************************************************************************)
(* What a program of such bodies does up to the first return of a call, the *)
(* program's included: `how` it gets there or stops before, and the locals  *)
(* of the frames, the entry's first.  Locals hold numbers, a call's         *)
(* arguments are its first locals.                                          *)
(****************************************************************************)
ValueOf(o, env) == IF o.k = "constant" THEN o.const.n ELSE env[o.place.local]

\* The numbers an rvalue may have: one, or none.
Possible(r, env) ==
    IF r.k = "Use" THEN {ValueOf(r.ops[1], env)}
    ELSE {n \in Numbers : Means(r.k, ValueOf(r.ops[1], env), ValueOf(r.ops[Len(r.ops)], env), n)}

RECURSIVE UpToReturn(_, _, _, _, _)
UpToReturn(fns, f, b, start, outer) ==
    LET block == fns[f].blocks[b]
        after == FoldLeft(LAMBDA envs, s : UNION {{[env EXCEPT ![s.place.local] = n] :
                                                     n \in Possible(s.rvalue, env)} : env \in envs},
                          {start}, block.stmts)
        env == CHOOSE e \in after : TRUE
        frames == Append(outer, env)
        t == block.term
        On(target) == UpToReturn(fns, f, target + 1, env, outer)
        Stops(how) == [how |-> how, frames |-> frames]
    IN IF after = {} THEN [how |-> "fault", frames |-> outer]
       ELSE CASE t.k = "Return" -> Stops("return")
              [] t.k = "Goto" -> On(t.target)
              [] t.k = "SwitchBool" -> On(IF ValueOf(t.discr, env) # 0 THEN t.targets[2] ELSE t.targets[1])
              [] t.k = "Assert" -> IF (ValueOf(t.discr, env) # 0) = t.expected THEN On(t.target) ELSE Stops("assert")
              [] t.k = "Call" ->
                     IF Len(frames) >= MAX_CALL_DEPTH THEN Stops("overflow")
                     ELSE UpToReturn(fns, t.func.const.n + 1, 1,
                              [i \in DOMAIN env |-> IF i < Len(t.args) THEN ValueOf(t.args[i + 1], env) ELSE 0],
                              frames)
=============================================================================
