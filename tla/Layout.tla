------------------------------- MODULE Layout -------------------------------
(****************************************************************************)
(* Sizes, alignments and enum encodings (crates/glyim-layout/src/lib.rs),   *)
(* and the second computer of them that the LLVM backend has                *)
(* (crates/glyim-codegen-llvm/src/abi.rs).                                  *)
(*                                                                          *)
(* A type is a record: k is its kind, bytes the width of an integer, elem   *)
(* and count describe an array, args the fields of a tuple or closure,      *)
(* fields those of a struct or union and variants those of each variant of  *)
(* an enum (a struct has no variants: glyim-typeck registers it so).        *)
(* A layout is a record as well, an error is Unknown.                       *)
(****************************************************************************)
EXTENDS Naturals, Sequences, FiniteSetsExt
LOCAL INSTANCE SequencesExt

CONSTANTS
    PtrSize,     \* the pointer's size and alignment on the target
    ALIGN_MAX,   \* glyim_core::abi::ALIGN_MAX
    Many         \* stands for the niches of char: more than any enum needs

align_to(size, align) == ((size + align - 1) \div align) * align

NoTag == [encoding |-> "single", field |-> 0, size |-> 0, align |-> 1,
          untagged |-> 0, first |-> 0, last |-> 0, niche_start |-> 0, values |-> 0]

Shaped(size, align, offsets) ==
    [ok |-> TRUE, size |-> size, align |-> align, offsets |-> offsets, tag |-> NoTag, variants |-> <<>>]
Unknown == [ok |-> FALSE]

scalar(bytes) == Shaped(bytes, IF bytes = 0 THEN 1 ELSE bytes, <<0>>)
unit == Shaped(0, 1, <<>>)

\* The loop all aggregates share: each field at the next offset its alignment
\* allows, the size rounded up to the largest alignment.
Placed(acc, l) ==
    LET at == align_to(acc.size, l.align)
    IN Shaped(at + l.size, Max({acc.align, l.align}), Append(acc.offsets, at))
InOrder(ls) ==
    IF \E i \in DOMAIN ls : ~ls[i].ok THEN Unknown
    ELSE LET all == FoldLeft(Placed, Shaped(0, 1, <<>>), ls)
         IN [all EXCEPT !.size = align_to(@, all.align)]

layout_tuple(ls) == IF ls = <<>> THEN unit ELSE InOrder(ls)
layout_closure(ls) == IF ls = <<>> THEN unit ELSE InOrder(ls)
layout_struct(ls) == InOrder(ls)
layout_variant_data(ls) == InOrder(ls)
layout_single_variant_enum(ls) == InOrder(ls)

layout_union(ls) ==
    IF \E i \in DOMAIN ls : ~ls[i].ok THEN Unknown
    ELSE LET align == Max({1} \cup {ls[i].align : i \in DOMAIN ls})
             size == Max({0} \cup {ls[i].size : i \in DOMAIN ls})
         IN Shaped(align_to(size, align), align, [i \in DOMAIN ls |-> 0])

\* An array whose length is not known yet has no layout.
layout_array(l, count) ==
    IF ~l.ok \/ count < 0 THEN Unknown
    ELSE LET stride == align_to(l.size, l.align)
         IN Shaped(stride * count, l.align, [i \in 1..count |-> (i - 1) * stride])

\* A fat pointer: data and vtable, or data and length.
FatPointer == Shaped(2 * PtrSize, PtrSize, <<0, PtrSize>>)
----------------------------------------------------------------------------
\* Encodings of enums.  ls are the layouts of the variants, in order.
discriminant_info(n) == IF n <= 256 THEN 1 ELSE IF n <= 65536 THEN 2 ELSE 4

MaxSize(ls) == Max({0} \cup {ls[i].size : i \in DOMAIN ls})
MaxAlign(ls) == Max({1} \cup {ls[i].align : i \in DOMAIN ls})

direct_tag_encoding(ls) ==
    LET tag == discriminant_info(Len(ls))
        align == Max({tag, MaxAlign(ls)})
        end == Max({align_to(tag, ls[i].align) + ls[i].size : i \in DOMAIN ls})
    IN [Shaped(align_to(end, align), align, <<0, align_to(tag, MaxAlign(ls))>>) EXCEPT
          !.tag = [NoTag EXCEPT !.encoding = "direct", !.size = tag, !.align = tag, !.values = 2 ^ (8 * tag)],
          !.variants = ls]

\* The variants that get a niche value are those before the one with the data,
\* or those after it when it is the first.  Variants are numbered from 0.
build_niche_layout(ls, vi, fi, field, niche_start, values) ==
    [Shaped(align_to(MaxSize(ls), MaxAlign(ls)), MaxAlign(ls), ls[vi].offsets) EXCEPT
       !.tag = [encoding |-> "niche", field |-> fi - 1, size |-> field.size, align |-> field.align,
                untagged |-> vi - 1, niche_start |-> niche_start, values |-> values,
                first |-> IF vi = 1 THEN 1 ELSE 0,
                last |-> IF vi = 1 THEN Len(ls) - 1 ELSE vi - 2],
       !.variants = ls]

\* How many values the tag of that type has; none is known for a pointer, a
\* character or an enum.
tag_value_count(ty) ==
    CASE ty.k = "bool" -> 256
      [] ty.k \in {"int", "uint"} -> 2 ^ (8 * ty.bytes)
      [] OTHER -> 0

\* The bit patterns (start and number) a type leaves free; number 0 is None.
\* l is the type's layout.
niche_info(ty, l) ==
    CASE ty.k = "bool" -> [start |-> 2, count |-> 254]
      [] ty.k \in {"ref", "mutref"} -> [start |-> 0, count |-> 1]
      [] ty.k = "int" -> [start |-> 2 ^ (8 * ty.bytes - 1), count |-> 1]
      [] ty.k = "char" -> [start |-> 1114112, count |-> Many]
      [] ty.k = "enum" /\ l.ok /\ l.tag.encoding = "direct" ->
             [start |-> Len(ty.variants),
              count |-> IF l.tag.values > Len(ty.variants) THEN l.tag.values - Len(ty.variants) ELSE 0]
      [] ty.k = "enum" /\ l.ok /\ l.tag.encoding = "niche" /\ l.tag.values > 0 ->
             IF l.tag.first > 0 THEN [start |-> 0, count |-> l.tag.first]
             ELSE [start |-> l.tag.last + 1,
                   count |-> IF l.tag.values > l.tag.last + 1 THEN l.tag.values - l.tag.last - 1 ELSE 0]
      [] OTHER -> [start |-> 0, count |-> 0]

RECURSIVE layout_of(_)

FieldLayouts(tys) == [i \in DOMAIN tys |-> layout_of(tys[i])]

\* The first field, in order of the variants, with enough free patterns.
try_niche_encoding(variants, ls) ==
    LET Fits(v, f) == niche_info(variants[v][f], layout_of(variants[v][f])).count >= Len(variants) - 1
        Vs == {v \in DOMAIN variants : \E f \in DOMAIN variants[v] : Fits(v, f)}
    IN IF Vs = {} THEN <<>>
       ELSE LET v == Min(Vs)
                f == Min({g \in DOMAIN variants[v] : Fits(v, g)})
                ty == variants[v][f]
                l == layout_of(ty)
            IN <<build_niche_layout(ls, v, f, l, niche_info(ty, l).start, tag_value_count(ty))>>

layout_enum(variants) ==
    IF variants = <<>> THEN Unknown
    ELSE IF Len(variants) = 1 THEN layout_single_variant_enum(FieldLayouts(variants[1]))
    ELSE LET ls == [v \in DOMAIN variants |-> layout_variant_data(FieldLayouts(variants[v]))]
         IN IF \E v \in DOMAIN ls : ~ls[v].ok THEN Unknown
            ELSE LET niche == try_niche_encoding(variants, ls)
                 IN IF niche # <<>> THEN niche[1] ELSE direct_tag_encoding(ls)

layout_adt(ty) ==
    CASE ty.k = "struct" -> layout_struct(FieldLayouts(ty.fields))
      [] ty.k = "union" -> layout_union(FieldLayouts(ty.fields))
      [] ty.k = "enum" -> layout_enum(ty.variants)

Scalars == {"bool", "int", "uint", "char", "ref", "mutref", "fnptr"}

\* Only scalars and closures reach the check of ALIGN_MAX: the others return
\* before it.
layout_of(ty) ==
    LET l == CASE ty.k = "bool" -> scalar(1)
               [] ty.k \in {"int", "uint"} -> scalar(ty.bytes)
               [] ty.k = "char" -> scalar(4)
               [] ty.k = "never" -> scalar(0)
               [] ty.k = "unit" -> unit
               [] ty.k \in {"ref", "mutref", "fnptr"} -> scalar(PtrSize)
               [] ty.k \in {"dyn", "string"} -> FatPointer
               [] ty.k = "closure" -> layout_closure(FieldLayouts(ty.args))
               [] ty.k = "tuple" -> layout_tuple(FieldLayouts(ty.args))
               [] ty.k = "array" -> layout_array(layout_of(ty.elem), ty.count)
               [] ty.k \in {"struct", "enum", "union"} -> layout_adt(ty)
               [] OTHER -> Unknown
    IN IF l.ok /\ ty.k \notin {"tuple", "array", "struct", "enum", "union"} /\ l.align > ALIGN_MAX
       THEN Unknown ELSE l

pass_mode_for(ty, l, conv) ==
    IF ty.k \in {"never", "unit"} \/ l.size = 0 THEN "ignore"
    ELSE IF conv \in {"C", "System"} /\ l.size > 16 THEN "indirect" ELSE "direct"

\* An argument without a layout is left out of the list.
fn_abi_of(inputs, conv) ==
    LET known == SelectSeq(inputs, LAMBDA ty : layout_of(ty).ok)
    IN [i \in DOMAIN known |-> pass_mode_for(known[i], layout_of(known[i]), conv)]
----------------------------------------------------------------------------
(* The backend's own computer.  It never uses a niche: an enum of several     *)
(* variants has a tag of its own in front of the variants.                  *)

\* The smallest number of whole bytes that number the variants.
TagBytes(n) == IF n <= 256 THEN 1 ELSE 2

full_enum(ls) ==
    LET tag == TagBytes(Len(ls))
        start == align_to(tag, tag)
    IN [Shaped(align_to(MaxSize(ls) + start, MaxAlign(ls)), MaxAlign(ls),
               [i \in DOMAIN ls[1].offsets |-> ls[1].offsets[i] + start]) EXCEPT
          !.tag = [NoTag EXCEPT !.encoding = "direct", !.size = tag, !.align = tag, !.values = 2 ^ (8 * tag)],
          !.variants = ls]

RECURSIVE full_layout_of(_)

FullFields(tys) == [i \in DOMAIN tys |-> full_layout_of(tys[i])]

full_adt(ty) ==
    IF Len(ty.variants) > 1
    THEN LET ls == [v \in DOMAIN ty.variants |-> InOrder(FullFields(ty.variants[v]))]
         IN IF \E v \in DOMAIN ls : ~ls[v].ok THEN Unknown ELSE full_enum(ls)
    ELSE IF Len(ty.variants) = 1
    THEN layout_tuple(FullFields(ty.variants[1]))
    ELSE layout_of(ty)

full_layout_of(ty) ==
    CASE ty.k = "tuple" -> layout_tuple(FullFields(ty.args))
      [] ty.k = "array" -> layout_array(full_layout_of(ty.elem), ty.count)
      [] ty.k \in {"struct", "enum", "union"} -> full_adt(ty)
      [] OTHER -> layout_of(ty)

classify_arg(ty, l, abi) ==
    IF l.size = 0 THEN "ignore"
    ELSE IF ty.k \in Scalars THEN "direct"
    ELSE IF \/ abi = "Wasm32"
            \/ abi \in {"X86_64SystemV", "AArch64AAPCS"} /\ l.size <= 16 /\ l.align <= 8
            \/ abi \in {"X86_64Windows", "AArch64Windows"} /\ l.size <= 8 /\ l.align <= 8
         THEN "direct" ELSE "indirect"

full_fn_abi_of(sig, abi) ==
    [args |-> [i \in DOMAIN sig.inputs |-> classify_arg(sig.inputs[i], full_layout_of(sig.inputs[i]), abi)],
     ret |-> classify_arg(sig.output, full_layout_of(sig.output), abi)]

\* The bytes of an LLVM value of the type: what an alloca reserves.  Aggregates
\* take their size from layout_of, not from full_layout_of.
RECURSIVE llvm_size(_)
llvm_size(ty) ==
    CASE ty.k \in {"never", "unit"} -> 0
      [] ty.k = "array" -> llvm_size(ty.elem) * ty.count
      [] ty.k \in {"slice", "string", "dyn"} -> 2 * PtrSize
      [] ty.k \in {"tuple", "struct", "enum", "union", "closure"} ->
             LET l == layout_of(ty) IN IF l.ok THEN l.size ELSE 0
      [] OTHER -> layout_of(ty).size
=============================================================================
