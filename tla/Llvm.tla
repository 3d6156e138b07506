-------------------------------- MODULE Llvm --------------------------------
(****************************************************************************)
(* The LLVM backend (crates/glyim-codegen-llvm/src/lower.rs): where values  *)
(* are put in memory, what the instructions compute, and the blocks a body  *)
(* is lowered to.                                                           *)
(*                                                                          *)
(* Bits is the width of the machine integers.  A pointer is [base, off]:    *)
(* base says what was allocated or loaded, off how many bytes into it.      *)
(****************************************************************************)
EXTENDS Integers, Layout, Bitwise, TLC
LOCAL INSTANCE SequencesExt

AtOr(s, i, default) == IF i + 1 \in DOMAIN s THEN s[i + 1] ELSE default
----------------------------------------------------------------------------
\* Enum values.  A store is [off, size, value]; v counts variants from 0.
DataStart(l, v) == align_to(align_to(l.tag.size, l.tag.align), l.variants[v + 1].align)

tag_offset(l) == AtOr(l.offsets, l.tag.field, 0)

\* The tag of variant v, if it is stored at all.
store_tag(l, v) ==
    CASE l.tag.encoding = "direct" -> <<[off |-> 0, size |-> l.tag.size, value |-> v]>>
      [] l.tag.encoding = "niche" /\ v # l.tag.untagged ->
             <<[off |-> tag_offset(l), size |-> l.tag.size, value |-> l.tag.niche_start + v - l.tag.first]>>
      [] OTHER -> <<>>

\* A value without an offset of its own goes to the start of the data.
store_fields(base, offsets, sizes) ==
    [i \in DOMAIN sizes |-> [off |-> base + AtOr(offsets, i - 1, 0), size |-> sizes[i], value |-> -i]]

\* A slip in build_layout_aggregate: the fields follow the tag directly.
build_aggregate_behind_tag(l, v, sizes) ==
    LET multiple == l.tag.encoding # "single"
        offsets == IF multiple THEN l.variants[v + 1].offsets ELSE l.offsets
        base == IF l.tag.encoding = "direct" THEN l.tag.size ELSE 0
    IN (IF multiple THEN store_tag(l, v) ELSE <<>>) \o store_fields(base, offsets, sizes)

\* The tag is stored first, then the fields in order, all into a temporary of
\* llvm_size bytes.  sizes are those of the values.
build_layout_aggregate(l, v, sizes) ==
    LET multiple == l.tag.encoding # "single"
        offsets == IF multiple THEN l.variants[v + 1].offsets ELSE l.offsets
        base == IF l.tag.encoding = "direct" THEN DataStart(l, v) ELSE 0
    IN (IF multiple THEN store_tag(l, v) ELSE <<>>) \o store_fields(base, offsets, sizes)

Bytes(s) == s.off..(s.off + s.size - 1)
Overlap(s, t) == Bytes(s) \cap Bytes(t) # {}

\* What a load of size bytes at off gives after the stores: the last store
\* there when it covers the load exactly; -1000 stands for anything else.
Load(stores, off, size) ==
    LET hits == {i \in DOMAIN stores : Overlap(stores[i], [off |-> off, size |-> size])}
    IN IF hits # {} /\ stores[Max(hits)].off = off /\ stores[Max(hits)].size = size
       THEN stores[Max(hits)].value ELSE -1000

\* A value of the niche is a variant that has no data there.
discriminant_of_niche(t, value) ==
    IF value >= t.niche_start /\ value < t.niche_start + t.last - t.first + 1
    THEN value - t.niche_start + t.first ELSE t.untagged

\* The variant the code reads from memory after the stores.
lower_discriminant(l, stores) ==
    LET tag == Load(stores, tag_offset(l), l.tag.size)
    IN CASE l.tag.encoding = "single" -> 0
         [] l.tag.encoding = "direct" -> tag
         [] OTHER -> discriminant_of_niche(l.tag, tag)
----------------------------------------------------------------------------
\* Places.  p is [base, off, ty] and index gives the value of an index local.
\* A projection that does not fit the type is an internal error: ok is FALSE.
Elem(ty) == IF ty.k \in {"array", "slice"} THEN <<ty.elem>> ELSE <<>>

ptr_deref(p) ==
    IF p.ty.k \in {"ref", "mutref"}
    THEN [p EXCEPT !.base = <<"loaded", @, p.off>>, !.off = 0, !.ty = p.ty.elem]
    ELSE [p EXCEPT !.ok = FALSE]

\* The pointer to the field is bound to a second `ptr` that ends with the arm:
\* only the type moves on, and it does so for tuples and first variants only.
ptr_field(p, f) ==
    LET fields == CASE p.ty.k = "tuple" -> p.ty.args
                    [] p.ty.k \in {"struct", "enum", "union"} /\ p.ty.variants # <<>> -> p.ty.variants[1]
                    [] OTHER -> <<>>
    IN IF f + 1 \in DOMAIN fields THEN [p EXCEPT !.ty = fields[f + 1]] ELSE p

\* A slice is a pointer and a length: its elements are behind the pointer.
Data(p) == IF p.ty.k = "slice" THEN [p EXCEPT !.base = <<"loaded", @, p.off>>, !.off = 0] ELSE p

ptr_index(p, i) ==
    IF Elem(p.ty) = <<>> THEN [p EXCEPT !.ok = FALSE]
    ELSE LET d == Data(p)
         IN [d EXCEPT !.off = @ + i * llvm_size(p.ty.elem), !.ty = p.ty.elem]

ptr_downcast(p, v) ==
    LET l == full_layout_of(p.ty)
    IN IF l.tag.encoding = "direct" THEN [p EXCEPT !.off = @ + DataStart(l, v)] ELSE p

ptr_constant_index(p, offset, from_end, len) ==
    ptr_index(p, IF from_end THEN (IF p.ty.k = "array" THEN p.ty.count ELSE len) - offset ELSE offset)

\* The subslice is a new pair of pointer and length; the type stays what it was.
ptr_subslice(p, from) ==
    IF Elem(p.ty) = <<>> THEN [p EXCEPT !.ok = FALSE]
    ELSE [p EXCEPT !.base = <<"subslice", Data(p).base, Data(p).off + from * llvm_size(p.ty.elem)>>, !.off = 0]

Project(p, e, index) ==
    IF ~p.ok THEN p
    ELSE CASE e.k = "Deref" -> ptr_deref(p)
           [] e.k = "Field" -> ptr_field(p, e.i)
           [] e.k = "Index" -> ptr_index(p, index)
           [] e.k = "Downcast" -> ptr_downcast(p, e.i)
           [] e.k = "ConstantIndex" -> ptr_constant_index(p, e.i, e.from_end, index)
           [] e.k = "Subslice" -> ptr_subslice(p, e.i)

place_ptr(ty, projection, index) ==
    FoldLeft(LAMBDA p, e : Project(p, e, index), [base |-> <<"local">>, off |-> 0, ty |-> ty, ok |-> TRUE], projection)
----------------------------------------------------------------------------
\* Instructions on integers.  bits is the width of the operands; a result is
\* the unsigned reading of its bits, and <<>> where LLVM leaves it undefined.
Signed(x, bits) == IF x % 2 ^ bits >= 2 ^ (bits - 1) THEN (x % 2 ^ bits) - 2 ^ bits ELSE x % 2 ^ bits
Unsigned(x, bits) == x % 2 ^ bits
Truth(b) == <<IF b THEN 1 ELSE 0>>
Trunc(a, b) ==
    LET Size(x) == IF x < 0 THEN -x ELSE x
        q == Size(a) \div Size(b)
    IN IF (a < 0) = (b < 0) THEN q ELSE -q

binop_arith(op, x, y, bits, signed) ==
    LET a == IF signed THEN Signed(x, bits) ELSE Unsigned(x, bits)
        b == IF signed THEN Signed(y, bits) ELSE Unsigned(y, bits)
    IN CASE op = "Add" -> <<Unsigned(x + y, bits)>>
         [] op = "Sub" -> <<Unsigned(x - y, bits)>>
         [] op = "Mul" -> <<Unsigned(x * y, bits)>>
         [] b = 0 \/ (signed /\ a = -(2 ^ (bits - 1)) /\ b = -1) -> <<>>
         [] op = "Div" -> <<Unsigned(Trunc(a, b), bits)>>
         [] op = "Rem" -> <<Unsigned(a - b * Trunc(a, b), bits)>>

binop_equal(op, x, y, bits) == Truth((op = "Eq") = (Unsigned(x, bits) = Unsigned(y, bits)))

\* The four orders are signed whatever the operands are.
binop_compare(op, x, y, bits) ==
    LET a == Signed(x, bits)  b == Signed(y, bits)
    IN CASE op = "Lt" -> Truth(a < b)
         [] op = "Gt" -> Truth(a > b)
         [] op = "LtEq" -> Truth(a <= b)
         [] op = "GtEq" -> Truth(a >= b)

binop_bits(op, x, y, bits, signed) ==
    LET a == Unsigned(x, bits)  b == Unsigned(y, bits)
    IN CASE op = "BitAnd" -> <<a & b>>
         [] op = "BitOr" -> <<a | b>>
         [] op = "BitXor" -> <<a ^^ b>>
         [] b >= bits -> <<>>
         [] op = "Shl" -> <<Unsigned(a * 2 ^ b, bits)>>
         [] op = "Shr" -> <<Unsigned((IF signed THEN Signed(a, bits) ELSE a) \div 2 ^ b, bits)>>

lower_binop(op, x, y, bits, signed) ==
    CASE op \in {"Add", "Sub", "Mul", "Div", "Rem"} -> binop_arith(op, x, y, bits, signed)
      [] op \in {"Eq", "Ne"} -> binop_equal(op, x, y, bits)
      [] op \in {"Lt", "Gt", "LtEq", "GtEq"} -> binop_compare(op, x, y, bits)
      [] OTHER -> binop_bits(op, x, y, bits, signed)

lower_unop(op, x, bits) ==
    CASE op = "Not" -> <<2 ^ bits - 1 - Unsigned(x, bits)>>
      [] op = "Neg" -> <<Unsigned(-x, bits)>>
      [] op = "Deref" -> <<x>>

\* A wider integer is filled with zeros, also when the operand is signed.
lower_cast(x, from, to) == IF to >= from THEN <<Unsigned(x, from)>> ELSE <<Unsigned(x, to)>>
-----------------------------------------------------------------------------
(****************************************************************************)
(* Lowering a MIR body (lower_body and below): which block every            *)
(* instruction ends up in, which slot of the stack it names, where the      *)
(* unwinder lands, and what a call passes.                                  *)
(*                                                                          *)
(* A body is [blocks, locals]: blocks[b] is [stmts, term, cleanup].  The    *)
(* state of the lowering is e: code[b] holds the instructions of block b    *)
(* (block 1 is the entry, blocks beyond those of the body are appended), at *)
(* is the block the builder appends to, slot[l] the alloca of a local and   *)
(* pad the landing pad of the current block.                                *)
(****************************************************************************)
Instr(op, slot, to, unwind) == [op |-> op, slot |-> slot, to |-> to, unwind |-> unwind]
Plain(op) == Instr(op, 0, <<>>, <<>>)
Branch(t) == Instr("br", 0, <<t>>, <<>>)

Enders == {"br", "condbr", "switch", "invoke", "ret", "resume", "cleanupret", "unreachable"}

emit(e, i) == [e EXCEPT !.code[e.at] = Append(@, i)]
EmitAll(e, is) == FoldLeft(emit, e, is)
append_block(e) == [e EXCEPT !.code = Append(@, <<>>)]
position_at_end(e, b) == [e EXCEPT !.at = b]

\* Every StorageLive makes another alloca, where the builder stands.
alloc_local(e, l) ==
    emit([e EXCEPT !.slot[l] = e.slots + 1, !.slots = @ + 1], Instr("alloca", e.slots + 1, <<>>, <<>>))

lower_statement(e, s) ==
    CASE s.k = "Assign" ->
             EmitAll(e, <<Instr("load", e.slot[s.from], <<>>, <<>>), Instr("store", e.slot[s.local], <<>>, <<>>)>>)
      [] s.k = "StorageLive" -> alloc_local(e, s.local)
      [] s.k \in {"StorageDead", "Nop"} -> e
----------------------------------------------------------------------------
\* Drops.
RECURSIVE is_copy(_)
is_copy(ty) ==
    CASE ty.k \in {"bool", "int", "uint", "char", "never", "unit"} -> TRUE
      [] ty.k = "array" -> is_copy(ty.elem)
      [] ty.k = "tuple" -> \A i \in DOMAIN ty.args : is_copy(ty.args[i])
      [] OTHER -> FALSE

RECURSIVE type_needs_drop(_)
type_needs_drop(ty) ==
    CASE ty.k \in {"ref", "mutref"} -> FALSE
      [] ty.k = "array" -> type_needs_drop(ty.elem)
      [] ty.k \in {"tuple", "closure"} -> \E i \in DOMAIN ty.args : type_needs_drop(ty.args[i])
      [] ty.k \in {"struct", "enum", "union"} ->
             \E v \in DOMAIN ty.variants : \E f \in DOMAIN ty.variants[v] : type_needs_drop(ty.variants[v][f])
      [] ty.k \in {"string", "dyn"} -> TRUE
      [] OTHER -> FALSE

type_is_owning_pointer(ty) == ty.k = "mutref" /\ ~is_copy(ty.elem)

\* The pointee is freed after its drop glue returned.
Dealloc(e, ty) == IF type_is_owning_pointer(ty) THEN emit(e, Plain("dealloc")) ELSE e

drop_with_cleanup(e, t) ==
    LET f == append_block(e)
        cont == Len(f.code)
        g == emit(f, Instr("invoke", 0, <<cont>>, t.cleanup))
    IN emit(Dealloc(position_at_end(g, cont), t.ty), Branch(t.target))
drop_without_cleanup(e, t) == emit(Dealloc(emit(e, Plain("call")), t.ty), Branch(t.target))

lower_drop(e, t) ==
    CASE ~(type_needs_drop(t.ty) \/ type_is_owning_pointer(t.ty)) -> emit(e, Branch(t.target))
      [] t.cleanup # <<>> -> drop_with_cleanup(e, t)
      [] OTHER -> drop_without_cleanup(e, t)
----------------------------------------------------------------------------
\* A failed assertion calls glyim_panic from a block of its own.
lower_assert(e, t) ==
    LET f == append_block(e)
        fail == Len(f.code)
        g == position_at_end(emit(f, Instr("condbr", 0, <<t.target, fail>>, <<>>)), fail)
        h == append_block(g)
        cont == Len(h.code)
    IN IF t.cleanup = <<>>
       THEN EmitAll(g, <<Plain("call"), Plain("unreachable")>>)
       ELSE emit(position_at_end(emit(h, Instr("invoke", 0, <<cont>>, t.cleanup)), cont), Plain("unreachable"))

lower_return(e, nothing) ==
    IF nothing THEN emit(e, Plain("ret"))
    ELSE EmitAll(e, <<Instr("load", e.slot[1], <<>>, <<>>), Plain("ret")>>)

\* Falling off a cleanup block goes on unwinding.
lower_unreachable(e) ==
    emit(e, Plain(CASE e.pad = "landingpad" -> "resume"
                    [] e.pad = "cleanuppad" -> "cleanupret"
                    [] OTHER -> "unreachable"))

\* The result is stored where the builder stands: after an invoke that is the
\* end of the target block.  t.ret is how the result comes back.
store_result(e, t) ==
    CASE t.ret = "ignore" -> e
      [] t.ret = "indirect" -> EmitAll(e, <<Plain("load"), Instr("store", e.slot[t.dest], <<>>, <<>>)>>)
      [] OTHER -> emit(e, Instr("store", e.slot[t.dest], <<>>, <<>>))

\* A slip in lower_call: it branches after an invoke as it does after a call.
lower_call_branching(e, t) ==
    LET f == IF t.cleanup = <<>> \/ t.target = <<>> THEN emit(e, Plain("call"))
             ELSE position_at_end(emit(e, Instr("invoke", 0, t.target, t.cleanup)), t.target[1])
    IN emit(store_result(f, t), IF t.target # <<>> THEN Branch(t.target[1]) ELSE Plain("unreachable"))

lower_call(e, t) ==
    LET f == IF t.ret = "indirect" THEN emit(e, Plain("alloca")) ELSE e
    IN CASE t.cleanup # <<>> /\ t.target = <<>> -> [e EXCEPT !.ok = FALSE]
         [] t.cleanup # <<>> ->
                store_result(position_at_end(emit(f, Instr("invoke", 0, t.target, t.cleanup)), t.target[1]), t)
         [] OTHER ->
                emit(store_result(emit(f, Plain("call")), t),
                     IF t.target # <<>> THEN Branch(t.target[1]) ELSE Plain("unreachable"))

\* A switch without cases is a plain branch.
lower_switch(e, t) ==
    emit(e, IF Len(t.targets) = 1 THEN Branch(t.targets[1]) ELSE Instr("switch", 0, t.targets, <<>>))

lower_terminator(e, t, body) ==
    CASE t.k = "Goto" -> emit(e, Branch(t.target))
      [] t.k = "SwitchInt" -> lower_switch(e, t)
      [] t.k = "Return" -> lower_return(e, body.nothing)
      [] t.k = "Unreachable" -> lower_unreachable(e)
      [] t.k = "Call" -> lower_call(e, t)
      [] t.k = "Assert" -> lower_assert(e, t)
      [] t.k = "Drop" -> lower_drop(e, t)
----------------------------------------------------------------------------
select_personality(windows, has_cleanup) ==
    IF ~has_cleanup THEN "none" ELSE IF windows THEN "seh" ELSE "itanium"

emit_itanium_landingpad(e) == emit([e EXCEPT !.pad = "landingpad"], Plain("pad"))
emit_seh_cleanuppad(e) == emit([e EXCEPT !.pad = "cleanuppad"], Plain("pad"))

emit_landingpad(e, personality) ==
    CASE personality = "none" -> e
      [] personality = "seh" -> emit_seh_cleanuppad(e)
      [] OTHER -> emit_itanium_landingpad(e)

\* The pad of the block before does not leak into this one.
lower_block(e, b, body, personality) ==
    LET f == [position_at_end(e, b) EXCEPT !.pad = "none"]
        g == IF body.blocks[b].cleanup THEN emit_landingpad(f, personality) ELSE f
    IN IF ~e.ok THEN e
       ELSE lower_terminator(FoldLeft(lower_statement, g, body.blocks[b].stmts), body.blocks[b].term, body)

\* Blocks are lowered in the order of their indices, after an alloca for
\* every local.
lower_body(body, windows) ==
    LET start == [code |-> [b \in DOMAIN body.blocks |-> <<>>], at |-> 1, slot |-> [l \in 1..body.locals |-> 0],
                  slots |-> 0, pad |-> "none", ok |-> TRUE]
        allocated == FoldLeft(alloc_local, start, [l \in 1..body.locals |-> l])
        personality == select_personality(windows, \E b \in DOMAIN body.blocks : body.blocks[b].cleanup)
    IN FoldLeft(LAMBDA e, b : lower_block(e, b, body, personality), allocated, [b \in DOMAIN body.blocks |-> b])
----------------------------------------------------------------------------
\* What a call passes and what the function it names takes.
\* The counter of the operands advances only with arguments that are passed,
\* so an argument after an ignored one takes the operand before its own.
RECURSIVE call_arguments(_, _, _)
call_arguments(modes, i, operand) ==
    IF i > Len(modes) THEN <<>>
    ELSE IF modes[i] = "ignore" THEN call_arguments(modes, i + 1, operand)
    ELSE <<[operand |-> operand, mode |-> modes[i]]>> \o call_arguments(modes, i + 1, operand + 1)

\* A returned aggregate that does not fit registers is written through a first
\* argument of its own.
lower_call_arguments(sig, abi) ==
    LET a == full_fn_abi_of(sig, abi)
    IN (IF a.ret = "indirect" THEN <<[operand |-> 0, mode |-> "sret"]>> ELSE <<>>) \o call_arguments(a.args, 1, 1)

\* The defined function takes every argument by value.
lower_body_parameters(sig) == [i \in DOMAIN sig.inputs |-> [operand |-> i, mode |-> "direct"]]

\* The type the forward declaration has.
llvm_fn_type_from_sig(sig, abi) ==
    LET a == full_fn_abi_of(sig, abi)
    IN (IF a.ret = "indirect" THEN <<"sret">> ELSE <<>>) \o SelectSeq(a.args, LAMBDA m : m # "ignore")
=============================================================================
