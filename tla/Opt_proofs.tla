----------------------------- MODULE Opt_proofs -----------------------------
(***************************************************************************)
(* Proofs about Opt, for bodies of any size with any number of locals: the *)
(* passes leave well-formed bodies, the control flow passes keep what a    *)
(* body does, and constant propagation and dead code elimination keep it   *)
(* for bodies that assign every local once.                                *)
(***************************************************************************)
EXTENDS Opt, ProofBasics

(***************************************************************************)
(* Recursion.  A value that changes in numbered steps stays in its set.    *)
(***************************************************************************)
Steps(f, D, first, step, N) ==
    f \in [0..N -> D] /\ f[0] = first /\ \A k \in 1..N : f[k] = step[<<k, f[k - 1]>>]

LEMMA StepsExist ==
    ASSUME NEW D, NEW first \in D, NEW N \in Nat, NEW step,
           \A k \in 1..N : \A x \in D : step[<<k, x>>] \in D
    PROVE  \E f : Steps(f, D, first, step, N)
<1> DEFINE OK(f, n) == f[0] = first /\ \A k \in 1..n : f[k] = step[<<k, f[k - 1]>>]
           S == {n \in Nat : n <= N /\ \E f \in [0..n -> D] : OK(f, n)}
<1>1. 0 \in S
  <2> DEFINE f == [k \in 0..0 |-> first]
  <2>1. f \in [0..0 -> D] /\ OK(f, 0)
    OBVIOUS
  <2> HIDE DEF f
  <2> QED
    BY <2>1
<1>2. ASSUME NEW n \in 0..(N - 1), n \in S PROVE n + 1 \in S
  <2>1. PICK f \in [0..n -> D] : OK(f, n)
    BY <1>2
  <2> DEFINE g == [k \in 0..(n + 1) |-> IF k = n + 1 THEN step[<<n + 1, f[n]>>] ELSE f[k]]
  <2>2. n \in 0..n /\ n + 1 \in 1..N /\ f[n] \in D
    OBVIOUS
  <2>3. g \in [0..(n + 1) -> D]
    <3>1. \A k \in 0..(n + 1) : k # n + 1 => k \in 0..n
      OBVIOUS
    <3> QED
      BY <2>2, <3>1
  <2>4. g[0] = first
    BY <2>1
  <2>5. ASSUME NEW k \in 1..(n + 1) PROVE g[k] = step[<<k, g[k - 1]>>]
    <3>1. CASE k = n + 1
      <4>1. g[k] = step[<<n + 1, f[n]>>] /\ k - 1 = n /\ n \in 0..(n + 1) /\ n # n + 1
        BY <3>1
      <4> QED
        BY <3>1, <4>1
    <3>2. CASE k # n + 1
      <4>1. k \in 1..n /\ k - 1 \in 0..n /\ k - 1 # n + 1
        BY <3>2
      <4> QED
        BY <2>1, <3>2, <4>1
    <3> QED
      BY <3>1, <3>2
  <2> HIDE DEF g
  <2>6. OK(g, n + 1)
    BY <2>4, <2>5
  <2> QED
    BY <2>2, <2>3, <2>6
<1> HIDE DEF S
<1>3. N \in S
  BY <1>1, <1>2, UpTo
<1> QED
  BY <1>3 DEF S, Steps

\* What holds at the start and after a step whenever it held before holds at all numbers.
LEMMA Always ==
    ASSUME NEW S, 0 \in S, \A n \in Nat : n \in S => n + 1 \in S
    PROVE  \A n \in Nat : n \in S
BY UpTo

\* A value that changes for ever.
Forever(f, D, first, step) ==
    f \in [Nat -> D] /\ f[0] = first /\ \A n \in Nat : f[n + 1] = step[f[n]]

LEMMA RunsExist ==
    ASSUME NEW D, NEW first \in D, NEW step \in [D -> D]
    PROVE  \E f : Forever(f, D, first, step)
<1> DEFINE up(N) == CHOOSE f : Rounds(f, first, step, N)
           f == [n \in Nat |-> up(n)[n]]
<1>1. ASSUME NEW N \in Nat
      PROVE  /\ up(N) \in [0..N -> D] /\ up(N)[0] = first
             /\ \A k \in 1..N : up(N)[k] = step[up(N)[k - 1]]
  <2>1. Rounds(up(N), first, step, N)
    BY RoundsExist
  <2> HIDE DEF up
  <2> QED
    BY <2>1, RoundsStay
<1> HIDE DEF up
<1>2. ASSUME NEW N \in Nat PROVE \A k \in 0..N : up(N)[k] = up(N + 1)[k]
  <2> DEFINE S == {k \in Nat : up(N)[k] = up(N + 1)[k]}
  <2>1. 0 \in S
    BY <1>1
  <2>2. ASSUME NEW k \in 0..(N - 1), k \in S PROVE k + 1 \in S
    <3>1. k + 1 \in 1..N /\ k + 1 \in 1..(N + 1) /\ (k + 1) - 1 = k /\ k + 1 \in Nat /\ N + 1 \in Nat
      OBVIOUS
    <3>2. up(N)[k + 1] = step[up(N)[k]] /\ up(N + 1)[k + 1] = step[up(N + 1)[k]]
      BY <1>1, <3>1
    <3> QED
      BY <2>2, <3>1, <3>2
  <2> HIDE DEF S
  <2>3. \A k \in 0..N : k \in S
    BY <2>1, <2>2, UpTo
  <2> QED
    BY <2>3 DEF S
<1>3. f \in [Nat -> D]
  BY <1>1
<1>4. f[0] = first
  BY <1>1
<1>5. ASSUME NEW n \in Nat PROVE f[n + 1] = step[f[n]]
  <2>1. n + 1 \in 1..(n + 1) /\ (n + 1) - 1 = n /\ n + 1 \in Nat /\ n \in 0..n
    OBVIOUS
  <2>2. up(n + 1)[n + 1] = step[up(n + 1)[n]]
    BY <1>1, <2>1
  <2>3. up(n + 1)[n] = up(n)[n]
    BY <1>2, <2>1
  <2> QED
    BY <2>1, <2>2, <2>3
<1> HIDE DEF f
<1>6. Forever(f, D, first, step)
  BY <1>3, <1>4, <1>5 DEF Forever
<1> QED
  BY <1>6

(***************************************************************************)
(* The numbers that stay.  They keep their order, and every place up to    *)
(* their number is the place of one of them.                               *)
(***************************************************************************)
LEMMA RanksAreDense ==
    ASSUME NEW N \in Nat, NEW kept \in SUBSET (1..N)
    PROVE  /\ IsFiniteSet(kept) /\ Cardinality(kept) \in Nat
           /\ \A i \in kept : Rank(kept, i) \in 1..Cardinality(kept) /\ Nth(kept, Rank(kept, i)) = i
           /\ \A n \in 1..Cardinality(kept) : Nth(kept, n) \in kept /\ Rank(kept, Nth(kept, n)) = n
           /\ 1 \in kept => Rank(kept, 1) = 1
<1> DEFINE C == Cardinality(kept)
           Below(i) == {j \in kept : j <= i}
<1>1. IsFiniteSet(kept) /\ C \in Nat
  <2>1. IsFiniteSet(1..N)
    BY FS_Interval
  <2> QED
    BY <2>1, FS_Subset, FS_CardinalityType
<1>0. \A i \in kept : i \in Nat /\ i >= 1
  OBVIOUS
<1>2. ASSUME NEW i \in kept
      PROVE  IsFiniteSet(Below(i)) /\ Cardinality(Below(i)) \in 1..C
  <2>1. Below(i) \in SUBSET kept /\ i \in Below(i)
    OBVIOUS
  <2> HIDE DEF Below
  <2>2. IsFiniteSet(Below(i)) /\ Cardinality(Below(i)) \in Nat /\ Cardinality(Below(i)) <= C
    BY <1>1, <2>1, FS_Subset, FS_CardinalityType
  <2>3. Cardinality(Below(i)) # 0
    BY <2>1, <2>2, FS_EmptySet
  <2> QED
    BY <1>1, <2>2, <2>3
<1>3. ASSUME NEW i \in kept, NEW j \in kept, i < j
      PROVE  Cardinality(Below(i)) # Cardinality(Below(j))
  <2>1. Below(i) \in SUBSET Below(j) /\ j \in Below(j) /\ j \notin Below(i)
    <3>1. \A k \in kept : k <= i => k <= j
      BY <1>0, <1>3
    <3>2. i \in Nat /\ j \in Nat /\ ~(j <= i)
      BY <1>0, <1>3
    <3>3. Below(i) \in SUBSET Below(j)
      BY <3>1
    <3>4. j \in Below(j) /\ j \notin Below(i)
      BY <3>2
    <3> QED
      BY <3>3, <3>4
  <2> HIDE DEF Below
  <2> QED
    BY <1>2, <2>1, FS_Subset
<1>4. \A i, j \in kept : Cardinality(Below(i)) = Cardinality(Below(j)) => i = j
  <2>1. \A i, j \in kept : i < j \/ j < i \/ i = j
    OBVIOUS
  <2> HIDE DEF Below
  <2> QED
    BY <1>3, <2>1
<1> DEFINE f == [i \in kept |-> Cardinality(Below(i))]
<1>5. f \in Injection(kept, 1..C)
  <2> HIDE DEF Below, C
  <2> QED
    BY <1>2, <1>4 DEF Injection, IsInjective
<1>6. f \in Surjection(kept, 1..C)
  <2>1. IsFiniteSet(1..C) /\ Cardinality(1..C) = C
    BY <1>1, FS_Interval
  <2> HIDE DEF f
  <2> QED
    BY <1>5, <2>1, FS_Injection
<1>7. \A n \in 1..C : \E i \in kept : Cardinality(Below(i)) = n
  <2> HIDE DEF Below, C
  <2> QED
    BY <1>6 DEF Surjection
<1>8. \A i \in kept : Rank(kept, i) = Cardinality(Below(i))
  BY DEF Rank
<1> HIDE DEF Below, f
<1>9. ASSUME NEW n \in 1..C PROVE Nth(kept, n) \in kept /\ Rank(kept, Nth(kept, n)) = n
  BY <1>7, <1>8 DEF Nth
<1>10. ASSUME NEW i \in kept PROVE Rank(kept, i) \in 1..C /\ Nth(kept, Rank(kept, i)) = i
  <2>1. Rank(kept, i) \in 1..C
    BY <1>2, <1>8
  <2>2. Nth(kept, Rank(kept, i)) \in kept /\ Rank(kept, Nth(kept, Rank(kept, i))) = Rank(kept, i)
    BY <1>9, <2>1
  <2> QED
    BY <1>4, <1>8, <2>1, <2>2
<1>11. ASSUME 1 \in kept PROVE Rank(kept, 1) = 1
  <2>1. Below(1) = {1}
    <3>1. \A j \in kept : j <= 1 <=> j = 1
      BY <1>0
    <3> QED
      BY <1>11, <3>1 DEF Below
  <2> QED
    BY <1>8, <1>11, <2>1, FS_Singleton
<1> QED
  BY <1>1, <1>9, <1>10, <1>11

LEMMA Retained ==
    ASSUME NEW S, NEW s \in Seq(S), NEW kept \in SUBSET (1..Len(s))
    PROVE  /\ Retain(s, kept) \in Seq(S) /\ Len(Retain(s, kept)) = Cardinality(kept)
           /\ DOMAIN Retain(s, kept) = 1..Cardinality(kept)
           /\ \A n \in 1..Cardinality(kept) : Retain(s, kept)[n] = s[Nth(kept, n)]
<1>1. Len(s) \in Nat /\ \A i \in 1..Len(s) : s[i] \in S
  BY ElementOfSeq
<1>2. Cardinality(kept) \in Nat /\ \A n \in 1..Cardinality(kept) : Nth(kept, n) \in 1..Len(s)
  BY <1>1, RanksAreDense
<1>3. Retain(s, kept) \in [1..Cardinality(kept) -> S]
  BY <1>1, <1>2 DEF Retain
<1> QED
  BY <1>2, <1>3 DEF Retain

(***************************************************************************)
(* What bodies, values and runs are made of.                               *)
(***************************************************************************)
AllInputs == [arg : {0, 1}, result : {0, 1}, unwinds : BOOLEAN]

\* The blocks a terminator names.
Named(t) == {t.targets[n] : n \in DOMAIN t.targets} \cup {t.cleanup[n] : n \in DOMAIN t.cleanup}

LEMMA BodyParts ==
    ASSUME NEW b, WellFormed(b)
    PROVE  /\ Len(b) \in Nat \ {0} /\ b \in Seq([stmts : Seq(Assignments), term : Terminators(Len(b))])
           /\ 1 \in Blocks(b) /\ Blocks(b) = DOMAIN b
           /\ \A i \in Blocks(b) : /\ b[i] \in [stmts : Seq(Assignments), term : Terminators(Len(b))]
                                   /\ b[i].stmts \in Seq(Assignments) /\ b[i].term \in Terminators(Len(b))
<1>1. b # <<>> /\ b \in Seq([stmts : Seq(Assignments), term : Terminators(Len(b))])
  BY DEF WellFormed
<1> DEFINE R == [stmts : Seq(Assignments), term : Terminators(Len(b))]
<1>2. \A r \in R : r.stmts \in Seq(Assignments) /\ r.term \in Terminators(Len(b))
  OBVIOUS
<1> HIDE DEF R
<1>3. b \in Seq(R) /\ b # <<>>
  BY <1>1 DEF R
<1>4. Len(b) \in Nat \ {0} /\ DOMAIN b = 1..Len(b)
  BY <1>3, EmptySeq
<1>5. \A i \in 1..Len(b) : b[i] \in R
  BY <1>3, ElementOfSeq
<1> QED
  BY <1>2, <1>3, <1>4, <1>5 DEF Blocks, R

LEMMA TerminatorParts ==
    ASSUME NEW n \in Nat, NEW t \in Terminators(n)
    PROVE  /\ t.kind \in {"return", "goto", "switch", "drop", "call", "assert"}
           /\ t.op \in Operands /\ t.dest \in Locals
           /\ t.targets \in Seq(1..n) /\ Len(t.targets) = Arity(t.kind)
           /\ DOMAIN t.targets = 1..Arity(t.kind)
           /\ \A k \in 1..Arity(t.kind) : t.targets[k] \in 1..n /\ t.targets[k] \in Named(t)
           /\ t.cleanup = <<>> \/ t.cleanup = <<t.cleanup[1]>>
           /\ t.cleanup # <<>> => t.cleanup[1] \in 1..n /\ t.cleanup[1] \in Named(t)
           /\ Named(t) \subseteq 1..n
<1>1. /\ t.kind \in {"return", "goto", "switch", "drop", "call", "assert"}
      /\ t.op \in Operands /\ t.dest \in Locals
      /\ t.targets \in Seq(1..n) /\ Len(t.targets) = Arity(t.kind)
      /\ t.cleanup \in {<<>>} \cup {<<i>> : i \in 1..n}
  BY DEF Terminators
<1>2. DOMAIN t.targets = 1..Arity(t.kind) /\ \A k \in 1..Arity(t.kind) : t.targets[k] \in 1..n
  <2>1. DOMAIN t.targets = 1..Len(t.targets) /\ \A k \in 1..Len(t.targets) : t.targets[k] \in 1..n
    BY <1>1, ElementOfSeq
  <2> QED
    BY <1>1, <2>1
<1>3. \/ t.cleanup = <<>> /\ DOMAIN t.cleanup = {}
      \/ t.cleanup = <<t.cleanup[1]>> /\ DOMAIN t.cleanup = {1} /\ t.cleanup[1] \in 1..n
  BY <1>1
<1> QED
  BY <1>1, <1>2, <1>3 DEF Named

\* The successors the passes look at are these blocks.
LEMMA SuccessorsAreNamed ==
    ASSUME NEW n \in Nat, NEW t \in Terminators(n)
    PROVE  /\ DOMAIN terminator_successors(t) = 1..(Arity(t.kind) + Len(t.cleanup))
           /\ Named(t) = {terminator_successors(t)[k] : k \in DOMAIN terminator_successors(t)}
<1> DEFINE s == t.targets
           c == t.cleanup
           A == Arity(t.kind)
<1>1. s \in Seq(1..n) /\ Len(s) = A /\ A \in Nat
  BY TerminatorParts DEF Arity
<1>2. c \in Seq(1..n) /\ Len(c) \in Nat
  <2>1. c \in {<<>>} \cup {<<i>> : i \in 1..n}
    BY DEF Terminators
  <2>2. <<>> \in Seq(1..n) /\ \A i \in 1..n : <<i>> \in Seq(1..n)
    OBVIOUS
  <2> HIDE DEF c
  <2>3. c \in Seq(1..n)
    BY <2>1, <2>2
  <2> QED
    BY <2>3
<1>3. DOMAIN s = 1..A /\ DOMAIN c = 1..Len(c)
  BY <1>1, <1>2
<1> HIDE DEF s, c, A
<1>4. s \o c \in Seq(1..n) /\ Len(s \o c) = A + Len(c)
      /\ \A k \in 1..(A + Len(c)) : (s \o c)[k] = IF k <= A THEN s[k] ELSE c[k - A]
  BY <1>1, <1>2, ConcatProperties
<1>5. DOMAIN (s \o c) = 1..(A + Len(c))
  BY <1>1, <1>2, <1>4
<1>6. \A k \in DOMAIN s : k \in DOMAIN (s \o c) /\ s[k] = (s \o c)[k]
  BY <1>1, <1>2, <1>3, <1>4, <1>5
<1>7. \A k \in DOMAIN c : k + A \in DOMAIN (s \o c) /\ c[k] = (s \o c)[k + A]
  BY <1>1, <1>2, <1>3, <1>4, <1>5
<1>8. \A k \in DOMAIN (s \o c) : \/ k \in DOMAIN s /\ (s \o c)[k] = s[k]
                                 \/ k - A \in DOMAIN c /\ (s \o c)[k] = c[k - A]
  BY <1>1, <1>2, <1>3, <1>4, <1>5
<1>9. {s[k] : k \in DOMAIN s} \cup {c[k] : k \in DOMAIN c} = {(s \o c)[k] : k \in DOMAIN (s \o c)}
  <2> DEFINE X == {s[k] : k \in DOMAIN s} \cup {c[k] : k \in DOMAIN c}
             Y == {(s \o c)[k] : k \in DOMAIN (s \o c)}
  <2>1. ASSUME NEW x \in X PROVE x \in Y
    BY <1>6, <1>7
  <2>2. ASSUME NEW x \in Y PROVE x \in X
    BY <1>8
  <2> QED
    BY <2>1, <2>2
<1> QED
  BY <1>5, <1>9 DEF Named, terminator_successors, s, c, A

LEMMA PredsAre ==
    ASSUME NEW b, WellFormed(b), NEW i
    PROVE  Preds(b, i) = {j \in Blocks(b) : i \in Named(b[j].term)}
<1>1. ASSUME NEW j \in Blocks(b) PROVE Edges(b, j, i) # {} <=> i \in Named(b[j].term)
  <2>1. Named(b[j].term) =
            {terminator_successors(b[j].term)[k] : k \in DOMAIN terminator_successors(b[j].term)}
    <3>1. Len(b) \in Nat /\ b[j].term \in Terminators(Len(b))
      BY BodyParts
    <3> QED
      BY <3>1, SuccessorsAreNamed
  <2> QED
    BY <2>1 DEF Edges
<1> QED
  BY <1>1 DEF Preds

\* Arithmetic in a type with Size values.
LEMMA ModIsValue == \A n \in Nat : n % Size \in Values /\ n % 2 \in Values
BY OptAssumption DEF Values

LEMMA ModOfSmall == \A n \in Values : n % Size = n
BY OptAssumption DEF Values

LEMMA DivIsSmall == ASSUME NEW m \in Nat, NEW n \in Nat \ {0} PROVE m \div n \in 0..m
OBVIOUS

LEMMA SmallValues ==
    /\ 0 \in Values /\ 1 \in Values
    /\ \A i \in AllInputs : i.arg \in Values /\ i.result \in Values
BY OptAssumption DEF Values, AllInputs

LEMMA RvalueParts ==
    ASSUME NEW rv \in Rvalues
    PROVE  \/ rv.kind \in Unary /\ Len(rv.ops) = 1 /\ \E a \in Operands : rv.ops = <<a>>
           \/ rv.kind \in Binary /\ Len(rv.ops) = 2 /\ \E a, b \in Operands : rv.ops = <<a, b>>
<1>1. rv.kind \in Unary \cup Binary /\ rv.ops \in Seq(Operands)
      /\ Len(rv.ops) = IF rv.kind \in Unary THEN 1 ELSE 2
  BY DEF Rvalues
<1>2. Len(rv.ops) = 1 => rv.ops = <<rv.ops[1]>> /\ rv.ops[1] \in Operands
  BY <1>1
<1>3. Len(rv.ops) = 2 => rv.ops = <<rv.ops[1], rv.ops[2]>> /\ rv.ops[1] \in Operands /\ rv.ops[2] \in Operands
  BY <1>1
<1> QED
  BY <1>1, <1>2, <1>3
\* What the operations give, one by one.
LEMMA ComputedOfOne ==
    ASSUME NEW a
    PROVE  /\ \A kind \in {"use", "inspect", "ref"} : Compute(kind, <<a>>) = a
           /\ Compute("repeat", <<a>>) = (a + 1) % Size
           /\ Compute("narrow", <<a>>) = a % 2
           /\ Compute("not", <<a>>) = IF a \notin {0, 1} THEN Uninit ELSE 1 - a
<1> DEFINE t == <<a>>
<1>1. t[1] = a /\ (Bools(t) <=> a \in {0, 1})
  BY DEF Bools
<1> HIDE DEF t
<1>2. /\ \A kind \in {"use", "inspect", "ref"} : Compute(kind, t) = t[1]
      /\ Compute("repeat", t) = (t[1] + 1) % Size
      /\ Compute("narrow", t) = t[1] % 2
      /\ Compute("not", t) = IF ~Bools(t) THEN Uninit ELSE 1 - t[1]
  BY DEF Compute
<1> QED
  BY <1>1, <1>2 DEF t

LEMMA ComputedOfTwo ==
    ASSUME NEW a, NEW b
    PROVE  /\ Compute("add", <<a, b>>) = (a + b) % Size
           /\ Compute("div", <<a, b>>) = IF b = 0 THEN Uninit ELSE a \div b
           /\ Compute("less", <<a, b>>) = IF a < b THEN 1 ELSE 0
           /\ Compute("and", <<a, b>>) =
                  IF ~(a \in {0, 1} /\ b \in {0, 1}) THEN Uninit ELSE IF a = 0 THEN 0 ELSE b
<1> DEFINE t == <<a, b>>
<1>1. t[1] = a /\ t[2] = b /\ (Bools(t) <=> a \in {0, 1} /\ b \in {0, 1})
  BY DEF Bools
<1> HIDE DEF t
<1>2. /\ Compute("add", t) = (t[1] + t[2]) % Size
      /\ Compute("div", t) = IF t[2] = 0 THEN Uninit ELSE t[1] \div t[2]
      /\ Compute("less", t) = IF t[1] < t[2] THEN 1 ELSE 0
      /\ Compute("and", t) = IF ~Bools(t) THEN Uninit ELSE IF t[1] = 0 THEN 0 ELSE t[2]
  BY DEF Compute
<1> QED
  BY <1>1, <1>2 DEF t

LEMMA ComputeValue ==
    /\ \A kind \in Unary : \A a \in Values : Compute(kind, <<a>>) \in Values \cup {Uninit}
    /\ \A kind \in Binary : \A a, b \in Values : Compute(kind, <<a, b>>) \in Values \cup {Uninit}
<1>1. \A a \in Values : (a + 1) % Size \in Values /\ a % 2 \in Values
  BY ModIsValue, OptAssumption DEF Values
<1>2. \A a, b \in Values : (a + b) % Size \in Values /\ (b # 0 => a \div b \in Values)
  <2>1. ASSUME NEW a \in Values, NEW b \in Values, b # 0 PROVE a \div b \in Values
    <3>1. a \in Nat /\ b \in Nat \ {0} /\ a < Size
      BY <2>1, OptAssumption DEF Values
    <3>2. a \div b \in 0..a
      BY <3>1, DivIsSmall
    <3> QED
      BY <3>1, <3>2, OptAssumption DEF Values
  <2>2. ASSUME NEW a \in Values, NEW b \in Values PROVE (a + b) % Size \in Values
    <3>1. a + b \in Nat
      BY DEF Values
    <3> QED
      BY <3>1, ModIsValue
  <2> QED
    BY <2>1, <2>2
<1>3. 0 \in Values /\ 1 \in Values
  BY OptAssumption DEF Values
<1>4. ASSUME NEW kind \in Unary, NEW a \in Values PROVE Compute(kind, <<a>>) \in Values \cup {Uninit}
  BY <1>1, <1>3, ComputedOfOne DEF Unary
<1>5. ASSUME NEW kind \in Binary, NEW a \in Values, NEW b \in Values
      PROVE  Compute(kind, <<a, b>>) \in Values \cup {Uninit}
  BY <1>2, <1>3, ComputedOfTwo DEF Binary
<1> QED
  BY <1>4, <1>5

\* What constants fold to, one by one.
LEMMA FoldedOfOne ==
    ASSUME NEW a
    PROVE  /\ \A kind \in {"use", "narrow", "repeat"} : Fold(kind, <<a>>) = {a}
           /\ Fold("not", <<a>>) = IF a \in {0, 1} THEN {1 - a} ELSE {}
           /\ \A kind \in {"inspect", "ref"} : Fold(kind, <<a>>) = {}
<1> DEFINE t == <<a>>
<1>1. t[1] = a /\ (Bools(t) <=> a \in {0, 1})
  BY DEF Bools
<1> HIDE DEF t
<1>2. /\ \A kind \in {"use", "narrow", "repeat"} : Fold(kind, t) = {t[1]}
      /\ Fold("not", t) = IF Bools(t) THEN {1 - t[1]} ELSE {}
      /\ \A kind \in {"inspect", "ref"} : Fold(kind, t) = {}
  BY DEF Fold
<1> QED
  BY <1>1, <1>2 DEF t

LEMMA FoldedOfTwo ==
    ASSUME NEW a, NEW b
    PROVE  /\ Fold("add", <<a, b>>) = {a + b}
           /\ Fold("div", <<a, b>>) = {IF b = 0 THEN 0 ELSE a \div b}
           /\ Fold("less", <<a, b>>) = {}
           /\ Fold("and", <<a, b>>) =
                  IF a \in {0, 1} /\ b \in {0, 1} THEN {IF a = 0 THEN 0 ELSE b} ELSE {}
<1> DEFINE t == <<a, b>>
<1>1. t[1] = a /\ t[2] = b /\ (Bools(t) <=> a \in {0, 1} /\ b \in {0, 1})
  BY DEF Bools
<1> HIDE DEF t
<1>2. /\ Fold("add", t) = {t[1] + t[2]}
      /\ Fold("div", t) = {IF t[2] = 0 THEN 0 ELSE t[1] \div t[2]}
      /\ Fold("less", t) = {}
      /\ Fold("and", t) = IF Bools(t) THEN {IF t[1] = 0 THEN 0 ELSE t[2]} ELSE {}
  BY DEF Fold
<1> QED
  BY <1>1, <1>2 DEF t

LEMMA FoldIsConstant ==
    /\ \A kind \in Unary : \A a \in Nat : Fold(kind, <<a>>) \subseteq Nat
    /\ \A kind \in Binary : \A a, b \in Nat : Fold(kind, <<a, b>>) \subseteq Nat
<1>1. \A a, b \in Nat : b # 0 => a \div b \in Nat
  BY DivIsSmall
<1>2. ASSUME NEW a \in Nat
      PROVE  \A kind \in Unary : Fold(kind, <<a>>) \subseteq Nat
  <2> DEFINE t == <<a>>
  <2>1. /\ Fold("use", t) = {a} /\ Fold("narrow", t) = {a} /\ Fold("repeat", t) = {a}
        /\ Fold("inspect", t) = {} /\ Fold("ref", t) = {}
        /\ Fold("not", t) = IF a \in {0, 1} THEN {1 - a} ELSE {}
    BY FoldedOfOne
  <2> HIDE DEF t
  <2>2. \A kind \in Unary : Fold(kind, t) \subseteq Nat
    BY <2>1 DEF Unary
  <2> QED
    BY <2>2 DEF t
<1>3. ASSUME NEW a \in Nat, NEW b \in Nat
      PROVE  \A kind \in Binary : Fold(kind, <<a, b>>) \subseteq Nat
  <2> DEFINE t == <<a, b>>
  <2>1. /\ Fold("add", t) = {a + b} /\ Fold("div", t) = {IF b = 0 THEN 0 ELSE a \div b}
        /\ Fold("less", t) = {}
        /\ Fold("and", t) = IF a \in {0, 1} /\ b \in {0, 1} THEN {IF a = 0 THEN 0 ELSE b} ELSE {}
    BY FoldedOfTwo
  <2> HIDE DEF t
  <2>2. \A kind \in Binary : Fold(kind, t) \subseteq Nat
    BY <1>1, <2>1 DEF Binary
  <2> QED
    BY <2>2 DEF t
<1> QED
  BY <1>2, <1>3

\* A folded constant that its type has is what the operation gives.
LEMMA FoldIsExact ==
    /\ \A kind \in Unary : \A a \in Values : \A c \in Fold(kind, <<a>>) :
          kind # "repeat" /\ c \in 0..(IF kind = "narrow" THEN 1 ELSE Size - 1)
              => Compute(kind, <<a>>) \in {Uninit, c}
    /\ \A kind \in Binary : \A a, b \in Values : \A c \in Fold(kind, <<a, b>>) :
          c \in 0..(Size - 1) => Compute(kind, <<a, b>>) \in {Uninit, c}
<1>1. ASSUME NEW a \in Values
      PROVE  /\ \A c \in Fold("use", <<a>>) : Compute("use", <<a>>) = c
             /\ \A c \in Fold("narrow", <<a>>) : c \in 0..1 => Compute("narrow", <<a>>) = c
             /\ \A c \in Fold("not", <<a>>) : Compute("not", <<a>>) = c
             /\ Fold("inspect", <<a>>) = {} /\ Fold("ref", <<a>>) = {}
  <2> DEFINE t == <<a>>
  <2>1. /\ Fold("use", t) = {a} /\ Fold("narrow", t) = {a} /\ Fold("inspect", t) = {} /\ Fold("ref", t) = {}
        /\ Fold("not", t) = IF a \in {0, 1} THEN {1 - a} ELSE {}
    BY FoldedOfOne
  <2>2. /\ Compute("use", t) = a /\ Compute("narrow", t) = a % 2
        /\ Compute("not", t) = IF a \notin {0, 1} THEN Uninit ELSE 1 - a
    BY ComputedOfOne
  <2>3. a \in 0..1 => a % 2 = a
    OBVIOUS
  <2> HIDE DEF t
  <2> QED
    BY <2>1, <2>2, <2>3 DEF t
<1>2. ASSUME NEW a \in Values, NEW b \in Values
      PROVE  /\ \A c \in Fold("add", <<a, b>>) : c \in 0..(Size - 1) => Compute("add", <<a, b>>) = c
             /\ \A c \in Fold("div", <<a, b>>) : Compute("div", <<a, b>>) \in {Uninit, c}
             /\ \A c \in Fold("and", <<a, b>>) : Compute("and", <<a, b>>) = c
             /\ Fold("less", <<a, b>>) = {}
  <2> DEFINE t == <<a, b>>
  <2>1. /\ Fold("add", t) = {a + b} /\ Fold("div", t) = {IF b = 0 THEN 0 ELSE a \div b}
        /\ Fold("less", t) = {}
        /\ Fold("and", t) = IF a \in {0, 1} /\ b \in {0, 1} THEN {IF a = 0 THEN 0 ELSE b} ELSE {}
    BY FoldedOfTwo
  <2>2. /\ Compute("add", t) = (a + b) % Size
        /\ Compute("div", t) = IF b = 0 THEN Uninit ELSE a \div b
        /\ Compute("and", t) = IF ~(a \in {0, 1} /\ b \in {0, 1}) THEN Uninit ELSE IF a = 0 THEN 0 ELSE b
    BY ComputedOfTwo
  <2>3. \A c \in 0..(Size - 1) : c % Size = c
    BY ModOfSmall DEF Values
  <2> HIDE DEF t
  <2>4. \A c \in Fold("add", t) : c \in 0..(Size - 1) => Compute("add", t) = c
    BY <2>1, <2>2, <2>3
  <2>5. \A c \in Fold("div", t) : Compute("div", t) \in {Uninit, c}
    BY <2>1, <2>2
  <2>6. \A c \in Fold("and", t) : Compute("and", t) = c
    BY <2>1, <2>2
  <2> QED
    BY <2>1, <2>4, <2>5, <2>6 DEF t
<1> QED
  BY <1>1, <1>2 DEF Unary, Binary

LEMMA OperandValue ==
    ASSUME NEW op \in Operands, NEW env \in Envs
    PROVE  Read(op, env) \in Values \cup {Uninit}
<1>1. op.kind = "const" => op.value \in Nat
  BY DEF Operands, Constants
<1>2. op.kind = "const" => op.value % Size \in Values
  BY <1>1, ModIsValue
<1> QED
  BY <1>2 DEF Operands, Envs, Read

LEMMA OneOperand ==
    ASSUME NEW rv, NEW a, rv.ops = <<a>>, NEW env
    PROVE  Evaluate(rv, env) = IF Read(a, env) = Uninit THEN Uninit ELSE Compute(rv.kind, <<Read(a, env)>>)
<1> DEFINE vs == [n \in DOMAIN rv.ops |-> Read(rv.ops[n], env)]
<1>1. vs = <<Read(a, env)>>
  OBVIOUS
<1>2. Evaluate(rv, env) = IF \E n \in DOMAIN vs : vs[n] = Uninit THEN Uninit ELSE Compute(rv.kind, vs)
  BY DEF Evaluate
<1>3. DOMAIN vs = {1} /\ vs[1] = Read(a, env)
  BY <1>1
<1> HIDE DEF vs
<1> QED
  BY <1>1, <1>2, <1>3

LEMMA TwoOperands ==
    ASSUME NEW rv, NEW a, NEW b, rv.ops = <<a, b>>, NEW env
    PROVE  Evaluate(rv, env) = IF Read(a, env) = Uninit \/ Read(b, env) = Uninit THEN Uninit
                               ELSE Compute(rv.kind, <<Read(a, env), Read(b, env)>>)
<1> DEFINE vs == [n \in DOMAIN rv.ops |-> Read(rv.ops[n], env)]
<1>1. vs = <<Read(a, env), Read(b, env)>>
  OBVIOUS
<1>2. Evaluate(rv, env) = IF \E n \in DOMAIN vs : vs[n] = Uninit THEN Uninit ELSE Compute(rv.kind, vs)
  BY DEF Evaluate
<1>3. DOMAIN vs = {1, 2} /\ vs[1] = Read(a, env) /\ vs[2] = Read(b, env)
  BY <1>1
<1> HIDE DEF vs
<1> QED
  BY <1>1, <1>2, <1>3

LEMMA RvalueValue ==
    ASSUME NEW rv \in Rvalues, NEW env \in Envs
    PROVE  Evaluate(rv, env) \in Values \cup {Uninit}
<1>1. CASE \E a \in Operands : rv.ops = <<a>> /\ rv.kind \in Unary
  <2>1. PICK a \in Operands : rv.ops = <<a>>
    BY <1>1
  <2>2. Evaluate(rv, env) = IF Read(a, env) = Uninit THEN Uninit ELSE Compute(rv.kind, <<Read(a, env)>>)
    BY <2>1, OneOperand
  <2>3. Read(a, env) \in Values \cup {Uninit}
    BY OperandValue
  <2> QED
    BY <1>1, <2>2, <2>3, ComputeValue
<1>2. CASE \E a, b \in Operands : rv.ops = <<a, b>> /\ rv.kind \in Binary
  <2>1. PICK a \in Operands, b \in Operands : rv.ops = <<a, b>>
    BY <1>2
  <2>2. Evaluate(rv, env) = IF Read(a, env) = Uninit \/ Read(b, env) = Uninit THEN Uninit
                            ELSE Compute(rv.kind, <<Read(a, env), Read(b, env)>>)
    BY <2>1, TwoOperands
  <2>3. Read(a, env) \in Values \cup {Uninit} /\ Read(b, env) \in Values \cup {Uninit}
    BY OperandValue
  <2> QED
    BY <1>2, <2>2, <2>3, ComputeValue
<1> QED
  BY <1>1, <1>2, RvalueParts

LEMMA AssignValue ==
    ASSUME NEW stmt \in Assignments, NEW env \in Envs
    PROVE  Assign(env, stmt) \in Envs
BY RvalueValue DEF Assign, Assignments, Envs

(***************************************************************************)
(* Statements, one after the other.                                        *)
(***************************************************************************)
IsExecution(f, env, stmts) ==
    /\ f \in [0..Len(stmts) -> Envs] /\ f[0] = env
    /\ \A k \in 1..Len(stmts) : f[k] = Assign(f[k - 1], stmts[k])

LEMMA ExecutionExists ==
    ASSUME NEW stmts \in Seq(Assignments), NEW env \in Envs
    PROVE  \E f : IsExecution(f, env, stmts) /\ Execute(env, stmts) = f[Len(stmts)]
<1> DEFINE N == Len(stmts)
           step == [kx \in (1..N) \X Envs |-> Assign(kx[2], stmts[kx[1]])]
           after[n \in 0..N] == IF n = 0 THEN env ELSE Assign(after[n - 1], stmts[n])
<1>1. Execute(env, stmts) = after[N]
  BY DEF Execute
<1>2. N \in Nat /\ \A k \in 1..N : stmts[k] \in Assignments
  BY ElementOfSeq
<1>3. \A k \in 1..N : \A x \in Envs : step[<<k, x>>] = Assign(x, stmts[k]) /\ step[<<k, x>>] \in Envs
  BY <1>2, AssignValue
<1> HIDE DEF N, step, after
<1>4. PICK f \in [0..N -> Envs] : f[0] = env /\ \A k \in 1..N : f[k] = step[<<k, f[k - 1]>>]
  <2>1. \A k \in 1..N : \A x \in Envs : step[<<k, x>>] \in Envs
    BY <1>3
  <2>2. N \in Nat
    BY <1>2
  <2>3. \E f : Steps(f, Envs, env, step, N)
    BY <2>1, <2>2, StepsExist, Zenon
  <2> QED
    BY <2>3 DEF Steps
<1>5. \A k \in 1..N : f[k] = Assign(f[k - 1], stmts[k])
  <2>1. \A k \in 1..N : k - 1 \in 0..N
    BY <1>2
  <2> QED
    BY <1>3, <1>4, <2>1
<1>6. f = [k \in 0..N |-> IF k = 0 THEN env ELSE Assign(f[k - 1], stmts[k])]
  <2>1. \A k \in 0..N : k # 0 => k \in 1..N
    BY <1>2
  <2> QED
    BY <1>4, <1>5, <2>1
<1>7. after = [k \in 0..N |-> IF k = 0 THEN env ELSE Assign(after[k - 1], stmts[k])]
  BY <1>6 DEF after
<1> DEFINE S == {k \in Nat : after[k] = f[k]}
<1>8. 0 \in S
  BY <1>2, <1>4, <1>7
<1>9. ASSUME NEW k \in 0..(N - 1), k \in S PROVE k + 1 \in S
  <2>1. k + 1 \in 0..N /\ k + 1 # 0 /\ (k + 1) - 1 = k /\ k + 1 \in 1..N /\ k + 1 \in Nat
    BY <1>2
  <2>2. after[k + 1] = Assign(after[k], stmts[k + 1]) /\ f[k + 1] = Assign(f[k], stmts[k + 1])
    BY <1>5, <1>7, <2>1
  <2> QED
    BY <1>9, <2>1, <2>2
<1> HIDE DEF S
<1>10. N \in S
  <2>1. \A k \in 0..N : k \in S
    BY <1>2, <1>8, <1>9, UpTo
  <2> QED
    BY <1>2, <2>1
<1>11. after[N] = f[N]
  BY <1>10 DEF S
<1> QED
  BY <1>1, <1>4, <1>5, <1>11 DEF IsExecution, N

LEMMA ExecuteIs ==
    ASSUME NEW stmts \in Seq(Assignments), NEW env \in Envs, NEW f, IsExecution(f, env, stmts)
    PROVE  Execute(env, stmts) = f[Len(stmts)] /\ Execute(env, stmts) \in Envs
<1>1. PICK g : IsExecution(g, env, stmts) /\ Execute(env, stmts) = g[Len(stmts)]
  BY ExecutionExists
<1> DEFINE N == Len(stmts)
           S == {k \in Nat : f[k] = g[k]}
<1>2. N \in Nat /\ N \in 0..N
  OBVIOUS
<1>3. 0 \in S
  BY <1>1 DEF IsExecution
<1>4. ASSUME NEW k \in 0..(N - 1), k \in S PROVE k + 1 \in S
  <2>1. k + 1 \in 1..N /\ (k + 1) - 1 = k /\ k + 1 \in Nat
    BY <1>2
  <2>2. f[k + 1] = Assign(f[k], stmts[k + 1]) /\ g[k + 1] = Assign(g[k], stmts[k + 1])
    BY <1>1, <2>1 DEF IsExecution
  <2> QED
    BY <1>4, <2>1, <2>2
<1> HIDE DEF S
<1>5. N \in S
  BY <1>2, <1>3, <1>4, UpTo
<1> QED
  BY <1>1, <1>2, <1>5 DEF S, IsExecution

\* Running two lists of statements is running them joined.
LEMMA ExecuteJoined ==
    ASSUME NEW s \in Seq(Assignments), NEW t \in Seq(Assignments), NEW env \in Envs
    PROVE  Execute(env, s \o t) = Execute(Execute(env, s), t)
<1>1. PICK f : IsExecution(f, env, s) /\ Execute(env, s) = f[Len(s)]
  BY ExecutionExists
<1>2. Execute(env, s) \in Envs
  BY <1>1, ExecuteIs
<1>3. PICK g : IsExecution(g, Execute(env, s), t) /\ Execute(Execute(env, s), t) = g[Len(t)]
  BY <1>2, ExecutionExists
<1> DEFINE m == Len(s)
           n == Len(t)
           h == [k \in 0..(m + n) |-> IF k <= m THEN f[k] ELSE g[k - m]]
<1>4. m \in Nat /\ n \in Nat
  OBVIOUS
<1>5. /\ s \o t \in Seq(Assignments) /\ Len(s \o t) = m + n
      /\ \A k \in 1..(m + n) : (s \o t)[k] = IF k <= m THEN s[k] ELSE t[k - m]
  BY ConcatProperties
<1>6. /\ f \in [0..m -> Envs] /\ f[0] = env /\ \A k \in 1..m : f[k] = Assign(f[k - 1], s[k])
      /\ g \in [0..n -> Envs] /\ g[0] = f[m] /\ \A k \in 1..n : g[k] = Assign(g[k - 1], t[k])
  BY <1>1, <1>3 DEF IsExecution
<1> HIDE DEF m, n
<1>7. h \in [0..(m + n) -> Envs] /\ h[0] = env
  <2>1. \A k \in 0..(m + n) : (k <= m => k \in 0..m) /\ (~(k <= m) => k - m \in 0..n)
    BY <1>4
  <2> QED
    BY <1>4, <1>6, <2>1
<1>8. ASSUME NEW k \in 1..(m + n) PROVE h[k] = Assign(h[k - 1], (s \o t)[k])
  <2>1. k \in 0..(m + n) /\ k - 1 \in 0..(m + n)
    BY <1>4
  <2>2. CASE k <= m
    <3>1. h[k] = f[k] /\ h[k - 1] = f[k - 1] /\ k \in 1..m /\ (s \o t)[k] = s[k]
      BY <1>4, <1>5, <2>1, <2>2
    <3> QED
      BY <1>6, <3>1
  <2>3. CASE k = m + 1
    <3>1. ~(k <= m) /\ k - m = 1 /\ k - 1 = m /\ m <= m /\ 1 \in 1..n /\ 1 - 1 = 0
      BY <1>4, <2>3
    <3>2. h[k] = g[1] /\ h[k - 1] = f[m] /\ (s \o t)[k] = t[1]
      BY <1>5, <2>1, <3>1
    <3> QED
      BY <1>6, <3>1, <3>2
  <2>4. CASE k > m + 1
    <3>1. ~(k <= m) /\ ~(k - 1 <= m) /\ (k - 1) - m = (k - m) - 1 /\ k - m \in 1..n
      BY <1>4, <2>4
    <3>2. h[k] = g[k - m] /\ h[k - 1] = g[(k - m) - 1] /\ (s \o t)[k] = t[k - m]
      BY <1>5, <2>1, <3>1
    <3> QED
      BY <1>6, <3>1, <3>2
  <2>5. k <= m \/ k = m + 1 \/ k > m + 1
    BY <1>4
  <2> QED
    BY <2>2, <2>3, <2>4, <2>5
<1>9. h[m + n] = g[n]
  <2>1. m + n \in 0..(m + n) /\ (m + n <= m => n = 0) /\ (m + n) - m = n
    BY <1>4
  <2> QED
    BY <1>4, <1>6, <2>1
<1> HIDE DEF h
<1>10. IsExecution(h, env, s \o t)
  BY <1>5, <1>7, <1>8 DEF IsExecution
<1>11. Execute(env, s \o t) = h[m + n]
  <2>1. Execute(env, s \o t) = h[Len(s \o t)]
    BY <1>5, <1>10, ExecuteIs
  <2> QED
    BY <1>5, <2>1
<1> QED
  BY <1>3, <1>9, <1>11 DEF n

(***************************************************************************)
(* Runs of a body.                                                         *)
(***************************************************************************)

\* The end of a block leads to a block its terminator names, or ends the run.
LEMMA RunTerminatorValue ==
    ASSUME NEW n \in Nat, NEW t \in Terminators(n), NEW input \in AllInputs,
           NEW events \in Events, NEW env \in Envs
    PROVE  RunTerminator(t, input, events, env) \in [at : {0} \cup Named(t), events : Events, env : Envs]
<1> DEFINE v == Read(t.op, env)
           R == [at : {0} \cup Named(t), events : Events, env : Envs]
<1>1. /\ t.kind \in {"return", "goto", "switch", "drop", "call", "assert"}
      /\ \A k \in 1..Arity(t.kind) : t.targets[k] \in Named(t)
      /\ t.cleanup # <<>> => t.cleanup[1] \in Named(t)
      /\ t.dest \in Locals
  BY TerminatorParts
<1>2. v \in Values \cup {Uninit}
  BY TerminatorParts, OperandValue
<1>3. \A how \in Whats : \A w \in Values \cup {Uninit} : Append(events, <<how, w>>) \in Events
  <2>1. \A how \in Whats : \A w \in Values \cup {Uninit} : <<how, w>> \in Whats \X (Values \cup {Uninit})
    OBVIOUS
  <2> QED
    BY <2>1, AppendProperties DEF Events
<1>4. \A i \in {0} \cup Named(t) : \A es \in Events : \A e \in Envs : Goto(i, es, e) \in R
  BY DEF Goto
<1>5. \A how \in Whats : \A w \in Values \cup {Uninit} : \A e \in Envs : Ends(how, w, events, e) \in R
  BY <1>3, <1>4 DEF Ends
<1>6. \A es \in Events : Unwind(t, es, env) \in R
  <2>1. \A es \in Events : Append(es, <<"unwound", 0>>) \in Events
    <3>1. <<"unwound", 0>> \in Whats \X (Values \cup {Uninit})
      BY SmallValues DEF Whats
    <3> QED
      BY <3>1, AppendProperties DEF Events
  <2> QED
    BY <1>1, <1>4, <2>1 DEF Unwind, Ends
<1>7. env[0] \in Values \cup {Uninit}
  BY OptAssumption DEF Envs
<1>8. t.kind \in {"drop", "call"} => Append(events, <<t.kind, v>>) \in Events
  BY <1>2, <1>3 DEF Whats
<1>9. [env EXCEPT ![t.dest] = input.result] \in Envs
  BY SmallValues DEF Envs
<1> HIDE DEF R, v
<1>10. CASE t.kind = "return"
  <2>1. Ends("return", env[0], events, env) \in R
    BY <1>5, <1>7 DEF Whats
  <2> QED
    BY <1>10, <2>1 DEF RunTerminator, R
<1>11. CASE t.kind = "goto"
  <2>1. t.targets[1] \in Named(t)
    BY <1>1, <1>11 DEF Arity
  <2> QED
    BY <1>4, <1>11, <2>1 DEF RunTerminator, R
<1>12. CASE t.kind = "switch"
  <2>1. t.targets[1] \in Named(t) /\ t.targets[2] \in Named(t)
    BY <1>1, <1>12 DEF Arity
  <2>2. Ends("undefined", 0, events, env) \in R
    BY <1>5, SmallValues DEF Whats
  <2> QED
    BY <1>4, <1>12, <2>1, <2>2 DEF RunTerminator, R, v
<1>13. CASE t.kind = "assert"
  <2>1. t.targets[1] \in Named(t)
    BY <1>1, <1>13 DEF Arity
  <2>2. Ends("undefined", 0, events, env) \in R
    BY <1>5, SmallValues DEF Whats
  <2> QED
    BY <1>4, <1>6, <1>13, <2>1, <2>2 DEF RunTerminator, R, v
<1>14. CASE t.kind = "drop"
  <2>1. t.targets[1] \in Named(t)
    BY <1>1, <1>14 DEF Arity
  <2> QED
    BY <1>4, <1>8, <1>14, <2>1 DEF RunTerminator, R, v
<1>15. CASE t.kind = "call"
  <2>1. t.targets[1] \in Named(t)
    BY <1>1, <1>15 DEF Arity
  <2> QED
    BY <1>4, <1>6, <1>8, <1>9, <1>15, <2>1 DEF RunTerminator, R, v
<1> QED
  BY <1>1, <1>10, <1>11, <1>12, <1>13, <1>14, <1>15 DEF R

LEMMA BlocksFinite ==
    ASSUME NEW b, WellFormed(b)
    PROVE  IsFiniteSet(Blocks(b))
<1>1. 1 \in Int /\ Len(b) \in Int
  BY BodyParts
<1> QED
  BY <1>1, FS_Interval DEF Blocks

LEMMA BlockRunValue ==
    ASSUME NEW b, WellFormed(b), NEW input \in AllInputs, NEW c \in Configs(b)
    PROVE  /\ BlockRun(b, input, c) \in Configs(b)
           /\ c.at # 0 => /\ c.at \in Blocks(b)
                          /\ BlockRun(b, input, c).at \in {0} \cup Named(b[c.at].term)
<1>1. c.at \in 0..Len(b) /\ c.events \in Events /\ c.env \in Envs
  BY DEF Configs
<1>2. CASE c.at = 0
  BY <1>2 DEF BlockRun
<1>3. CASE c.at # 0
  <2>1. Len(b) \in Nat /\ c.at \in Blocks(b)
    BY <1>1, <1>3, BodyParts DEF Blocks
  <2>2. b[c.at].stmts \in Seq(Assignments) /\ b[c.at].term \in Terminators(Len(b))
    BY <2>1, BodyParts
  <2>3. Execute(c.env, b[c.at].stmts) \in Envs
    BY <1>1, <2>2, ExecutionExists, ExecuteIs
  <2> DEFINE r == RunTerminator(b[c.at].term, input, c.events, Execute(c.env, b[c.at].stmts))
  <2>4. r \in [at : {0} \cup Named(b[c.at].term), events : Events, env : Envs]
    BY <1>1, <2>1, <2>2, <2>3, RunTerminatorValue
  <2>5. BlockRun(b, input, c) = r
    BY <1>3 DEF BlockRun
  <2>6. Named(b[c.at].term) \subseteq 1..Len(b)
    BY <2>1, <2>2, TerminatorParts
  <2> HIDE DEF r
  <2>7. r \in [at : 0..Len(b), events : Events, env : Envs]
    BY <2>1, <2>4, <2>6
  <2> QED
    BY <2>1, <2>4, <2>5, <2>7 DEF Configs
<1> QED
  BY <1>2, <1>3

LEMMA EntryValue ==
    ASSUME NEW b, WellFormed(b), NEW input \in AllInputs
    PROVE  Entry(input) \in Configs(b) /\ Entry(input).at = 1
<1>1. <<>> \in Events /\ 1 \in 0..Len(b)
  <2>1. Len(b) \in Nat \ {0}
    BY BodyParts
  <2> QED
    BY <2>1 DEF Events
<1>2. [l \in Locals |-> IF l \in Args THEN input.arg ELSE Uninit] \in Envs
  BY SmallValues DEF Envs
<1> QED
  BY <1>1, <1>2 DEF Entry, Goto, Configs

IsRun(run, b, input) ==
    /\ run \in [Nat -> Configs(b)] /\ run[0] = Entry(input)
    /\ \A n \in Nat : run[n + 1] = BlockRun(b, input, run[n])

LEMMA MeaningIs ==
    ASSUME NEW b, WellFormed(b), NEW input \in AllInputs
    PROVE  \E run : /\ IsRun(run, b, input)
                    /\ Meaning(b, input) = IF run[Fuel(b)].at = 0 THEN run[Fuel(b)].events
                                           ELSE <<<<"diverges", 0>>>>
<1> DEFINE C == Configs(b)
           step == [c \in C |-> BlockRun(b, input, c)]
           run[n \in Nat] == IF n = 0 THEN Entry(input) ELSE step[run[n - 1]]
<1>1. Meaning(b, input) = IF run[Fuel(b)].at = 0 THEN run[Fuel(b)].events ELSE <<<<"diverges", 0>>>>
  BY DEF Meaning
<1>2. step \in [C -> C] /\ \A c \in C : step[c] = BlockRun(b, input, c)
  BY BlockRunValue
<1>3. Entry(input) \in C
  BY EntryValue
<1> HIDE DEF C, step, run
<1>4. PICK f \in [Nat -> C] : f[0] = Entry(input) /\ \A n \in Nat : f[n + 1] = step[f[n]]
  <2>1. \E f : Forever(f, C, Entry(input), step)
    BY <1>2, <1>3, RunsExist, Zenon
  <2> QED
    BY <2>1 DEF Forever
<1>5. f = [n \in Nat |-> IF n = 0 THEN Entry(input) ELSE step[f[n - 1]]]
  <2>1. ASSUME NEW n \in Nat, n # 0 PROVE f[n] = step[f[n - 1]]
    <3>1. n - 1 \in Nat /\ (n - 1) + 1 = n
      BY <2>1
    <3> QED
      BY <1>2, <1>4, <3>1
  <2> QED
    BY <1>4, <2>1
<1>6. run = [n \in Nat |-> IF n = 0 THEN Entry(input) ELSE step[run[n - 1]]]
  BY <1>5 DEF run
<1>7. run = f
  <2> DEFINE S == {n \in Nat : run[n] = f[n]}
  <2>1. 0 \in S
    BY <1>4, <1>6
  <2>2. \A n \in Nat : n \in S => n + 1 \in S
    <3>1. \A n \in Nat : n + 1 \in Nat /\ n + 1 # 0 /\ (n + 1) - 1 = n
      OBVIOUS
    <3> QED
      BY <1>4, <1>6, <3>1
  <2> HIDE DEF S
  <2>3. \A n \in Nat : n \in S
    BY <2>1, <2>2, Always
  <2> QED
    BY <1>4, <1>6, <2>3 DEF S
<1>8. run \in [Nat -> C] /\ run[0] = Entry(input)
  BY <1>4, <1>7
<1>9. \A n \in Nat : run[n + 1] = BlockRun(b, input, run[n])
  BY <1>2, <1>4, <1>7
<1>10. IsRun(run, b, input)
  BY <1>8, <1>9 DEF IsRun, C
<1> QED
  BY <1>1, <1>10

\* What has ended stays as it is.
LEMMA EndedStays ==
    ASSUME NEW b, NEW input, NEW run, IsRun(run, b, input), NEW n \in Nat, run[n].at = 0
    PROVE  \A m \in Nat : n <= m => run[m] = run[n]
<1> DEFINE S == {k \in Nat : run[n + k] = run[n]}
<1>1. 0 \in S
  OBVIOUS
<1>2. ASSUME NEW k \in Nat, k \in S PROVE k + 1 \in S
  <2>1. run[n + k] = run[n] /\ n + k \in Nat /\ n + (k + 1) = (n + k) + 1 /\ k + 1 \in Nat
    BY <1>2
  <2>2. run[(n + k) + 1] = BlockRun(b, input, run[n + k])
    BY <2>1 DEF IsRun
  <2> QED
    BY <2>1, <2>2 DEF BlockRun
<1> HIDE DEF S
<1>3. \A k \in Nat : k \in S
  BY <1>1, <1>2, Always
<1> TAKE m \in Nat
<1> HAVE n <= m
<1>4. m - n \in S /\ n + (m - n) = m
  BY <1>3
<1> QED
  BY <1>4 DEF S

\* Where a run goes depends on where it is and on its values, not on what it has done.
LEMMA ControlIsAlone ==
    ASSUME NEW b, WellFormed(b), NEW input \in AllInputs, NEW c \in Configs(b), NEW d \in Configs(b),
           c.at = d.at, c.env = d.env
    PROVE  /\ BlockRun(b, input, c).at = BlockRun(b, input, d).at
           /\ BlockRun(b, input, c).env = BlockRun(b, input, d).env
<1>1. CASE c.at = 0
  BY <1>1 DEF BlockRun
<1>2. CASE c.at # 0
  <2> DEFINE t == b[c.at].term
             env == Execute(c.env, b[c.at].stmts)
  <2>1. t.kind \in {"return", "goto", "switch", "drop", "call", "assert"}
    <3>1. Len(b) \in Nat /\ t \in Terminators(Len(b))
      BY <1>2, BodyParts, BlockRunValue
    <3> QED
      BY <3>1, TerminatorParts
  <2> HIDE DEF t, env
  <2>2. /\ RunTerminator(t, input, c.events, env).at = RunTerminator(t, input, d.events, env).at
        /\ RunTerminator(t, input, c.events, env).env = RunTerminator(t, input, d.events, env).env
    BY <2>1 DEF RunTerminator, Unwind, Ends, Goto
  <2> QED
    BY <1>2, <2>2 DEF BlockRun, t, env
<1> QED
  BY <1>1, <1>2

LEMMA EnvsFinite == IsFiniteSet(Envs)
<1> DEFINE V == Values \cup {Uninit}
           graph == [e \in Envs |-> {<<l, e[l]>> : l \in Locals}]
<1>1. IsFiniteSet(SUBSET (Locals \X V))
  <2>1. V \in SUBSET (Uninit..Size)
    BY OptAssumption DEF Values, Uninit
  <2>2. IsFiniteSet(Uninit..Size)
    <3>1. Uninit \in Int /\ Size \in Int
      BY OptAssumption DEF Uninit
    <3> QED
      BY <3>1, FS_Interval
  <2>3. IsFiniteSet(V)
    BY <2>1, <2>2, FS_Subset
  <2> QED
    BY <2>3, OptAssumption, FS_Product, FS_SUBSET
<1>2. graph \in [Envs -> SUBSET (Locals \X V)]
  BY DEF Envs
<1>3. ASSUME NEW e \in Envs, NEW f \in Envs, graph[e] = graph[f] PROVE e = f
  <2>1. ASSUME NEW l \in Locals PROVE e[l] = f[l]
    <3>1. <<l, e[l]>> \in graph[e]
      OBVIOUS
    <3>2. <<l, e[l]>> \in graph[f]
      BY <1>3, <3>1
    <3> QED
      BY <3>2
  <2> QED
    BY <2>1 DEF Envs
<1> HIDE DEF graph, V
<1>4. graph \in Injection(Envs, SUBSET (Locals \X V))
  BY <1>2, <1>3 DEF Injection, IsInjective
<1> QED
  BY <1>1, <1>4, FS_Injection

\* A run that ends at all ends within its fuel: otherwise it is at a block twice with the
\* same values, and goes on as it did the first time.
LEMMA FuelIsEnough ==
    ASSUME NEW b, WellFormed(b), NEW input \in AllInputs, NEW run, IsRun(run, b, input),
           NEW n \in Nat, run[n].at = 0
    PROVE  run[Fuel(b)].at = 0
<1> DEFINE T == Blocks(b) \X Envs
           F == Fuel(b)
<1>1. IsFiniteSet(T) /\ Cardinality(T) \in Nat /\ F \in Nat /\ F = 1 + Cardinality(T)
  <2>1. IsFiniteSet(Blocks(b))
    BY BlocksFinite
  <2>2. IsFiniteSet(T)
    BY <2>1, EnvsFinite, FS_Product
  <2> QED
    BY <2>2, FS_CardinalityType DEF Fuel
<1> SUFFICES ASSUME run[F].at # 0 PROVE FALSE
  OBVIOUS
<1> HIDE DEF T, F
<1>2. \A k \in 0..F : run[k].at # 0
  BY <1>1, EndedStays
<1> DEFINE g == [k \in 0..(F - 1) |-> <<run[k].at, run[k].env>>]
<1>3. g \in [0..(F - 1) -> T]
  <2>1. \A k \in 0..(F - 1) : run[k].at \in Blocks(b) /\ run[k].env \in Envs
    <3> TAKE k \in 0..(F - 1)
    <3>1. k \in 0..F /\ k \in Nat
      BY <1>1
    <3>2. run[k] \in Configs(b) /\ run[k].at # 0
      BY <1>2, <3>1 DEF IsRun
    <3> QED
      BY <3>2, BlockRunValue DEF Configs
  <2> QED
    BY <2>1 DEF T
<1>4. IsFiniteSet(0..(F - 1)) /\ Cardinality(0..(F - 1)) = F
  <2>1. 0 \in Int /\ F - 1 \in Int /\ ~(0 > F - 1) /\ (F - 1) - 0 + 1 = F
    BY <1>1
  <2> QED
    BY <2>1, FS_Interval
<1>5. PICK p \in 0..(F - 1), q \in 0..(F - 1) : p # q /\ g[p] = g[q]
  <2> HIDE DEF g
  <2>1. Cardinality(T) < Cardinality(0..(F - 1))
    BY <1>1, <1>4
  <2> QED
    BY <1>1, <1>3, <1>4, <2>1, FS_PigeonHole
<1>6. PICK x \in 0..(F - 1), y \in 0..(F - 1) :
          x < y /\ run[x].at = run[y].at /\ run[x].env = run[y].env
  BY <1>1, <1>5
<1>7. \A k \in Nat : run[x + k].at = run[y + k].at /\ run[x + k].env = run[y + k].env
  <2> DEFINE S == {k \in Nat : run[x + k].at = run[y + k].at /\ run[x + k].env = run[y + k].env}
  <2>1. 0 \in S
    BY <1>6
  <2>2. ASSUME NEW k \in Nat, k \in S PROVE k + 1 \in S
    <3>1. /\ x + k \in Nat /\ y + k \in Nat /\ x + (k + 1) = (x + k) + 1 /\ y + (k + 1) = (y + k) + 1
          /\ k + 1 \in Nat
      BY <1>1
    <3>2. /\ run[x + k] \in Configs(b) /\ run[y + k] \in Configs(b)
          /\ run[(x + k) + 1] = BlockRun(b, input, run[x + k])
          /\ run[(y + k) + 1] = BlockRun(b, input, run[y + k])
      BY <3>1 DEF IsRun
    <3> QED
      BY <2>2, <3>1, <3>2, ControlIsAlone
  <2> HIDE DEF S
  <2>3. \A k \in Nat : k \in S
    BY <2>1, <2>2, Always
  <2> QED
    BY <2>3 DEF S
<1>8. PICK z \in Nat : run[z].at = 0 /\ \A m \in Nat : run[m].at = 0 => z <= m
  <2> DEFINE E == {m \in Nat : run[m].at = 0}
  <2>1. E \in SUBSET Nat /\ E # {}
    OBVIOUS
  <2> HIDE DEF E
  <2>2. \E m \in E : \A k \in E : m <= k
    BY <2>1, HasLeast
  <2> QED
    BY <2>2 DEF E
<1>9. z > F
  BY <1>1, <1>2, <1>8
<1>10. /\ z - y \in Nat /\ x + (z - y) \in Nat /\ x + (z - y) < z /\ y + (z - y) = z
  BY <1>1, <1>6, <1>9
<1>11. run[x + (z - y)].at = 0
  BY <1>7, <1>8, <1>10
<1> QED
  BY <1>1, <1>8, <1>10, <1>11

\* Two bodies whose runs end alike, or not at all, mean the same.
LEMMA MeaningsAgree ==
    ASSUME NEW b, WellFormed(b), NEW c, WellFormed(c), NEW input \in AllInputs,
           \A r, q : IsRun(r, b, input) /\ IsRun(q, c, input) =>
               /\ \A n \in Nat : q[n].at = 0 => \E m \in Nat : r[m].at = 0 /\ r[m].events = q[n].events
               /\ (\E n \in Nat : r[n].at = 0) => \E n \in Nat : q[n].at = 0
    PROVE  Meaning(b, input) = Meaning(c, input)
<1>1. PICK r : /\ IsRun(r, b, input)
               /\ Meaning(b, input) = IF r[Fuel(b)].at = 0 THEN r[Fuel(b)].events ELSE <<<<"diverges", 0>>>>
  BY MeaningIs
<1>2. PICK q : /\ IsRun(q, c, input)
               /\ Meaning(c, input) = IF q[Fuel(c)].at = 0 THEN q[Fuel(c)].events ELSE <<<<"diverges", 0>>>>
  BY MeaningIs
<1>3. Fuel(b) \in Nat /\ Fuel(c) \in Nat
  <2>1. ASSUME NEW a, WellFormed(a) PROVE Fuel(a) \in Nat
    <3>1. IsFiniteSet(Blocks(a))
      BY <2>1, BlocksFinite
    <3>2. IsFiniteSet(Blocks(a) \X Envs)
      BY <3>1, EnvsFinite, FS_Product
    <3> QED
      BY <3>2, FS_Product, FS_CardinalityType DEF Fuel
  <2> QED
    BY <2>1
<1>4. CASE q[Fuel(c)].at = 0
  <2>1. PICK m \in Nat : r[m].at = 0 /\ r[m].events = q[Fuel(c)].events
    BY <1>1, <1>2, <1>3, <1>4
  <2>2. r[Fuel(b)].at = 0
    BY <1>1, <2>1, FuelIsEnough
  <2>3. r[Fuel(b)] = r[m]
    BY <1>1, <1>3, <2>1, <2>2, EndedStays
  <2> QED
    BY <1>1, <1>2, <1>4, <2>1, <2>2, <2>3
<1>5. CASE q[Fuel(c)].at # 0
  <2>1. ~\E n \in Nat : q[n].at = 0
    BY <1>2, <1>5, FuelIsEnough
  <2>2. r[Fuel(b)].at # 0
    BY <1>1, <1>2, <1>3, <2>1
  <2> QED
    BY <1>1, <1>2, <1>5, <2>2
<1> QED
  BY <1>4, <1>5

(***************************************************************************)
(* Two runs side by side.                                                  *)
(***************************************************************************)
\* What a run means when it has come to x and its fuel is spent.
Outcome(x) == IF x.at = 0 THEN x.events ELSE <<<<"diverges", 0>>>>

\* A relation between configurations of two bodies that holds on entry and that every
\* block keeps.
IsKept(R, b, i, c, j) ==
    /\ <<Entry(i), Entry(j)>> \in R
    /\ \A x \in Configs(b), y \in Configs(c) :
           <<x, y>> \in R => <<BlockRun(b, i, x), BlockRun(c, j, y)>> \in R

\* The runs end in configurations it relates.
EndsRelated(R, b, i, c, j) ==
    \E x \in Configs(b), y \in Configs(c) :
        <<x, y>> \in R /\ Meaning(b, i) = Outcome(x) /\ Meaning(c, j) = Outcome(y)

\* What every block keeps holds at the end.
LEMMA RunsRelated ==
    ASSUME NEW b, WellFormed(b), NEW c, WellFormed(c), Len(b) = Len(c),
           NEW i \in AllInputs, NEW j \in AllInputs,
           NEW R, IsKept(R, b, i, c, j)
    PROVE  EndsRelated(R, b, i, c, j)
<1>1. PICK r : /\ IsRun(r, b, i)
               /\ Meaning(b, i) = IF r[Fuel(b)].at = 0 THEN r[Fuel(b)].events ELSE <<<<"diverges", 0>>>>
  BY MeaningIs
<1>2. PICK q : /\ IsRun(q, c, j)
               /\ Meaning(c, j) = IF q[Fuel(c)].at = 0 THEN q[Fuel(c)].events ELSE <<<<"diverges", 0>>>>
  BY MeaningIs
<1>3. Fuel(b) \in Nat /\ Fuel(c) = Fuel(b)
  <2>1. IsFiniteSet(Blocks(b))
    BY BlocksFinite
  <2>2. IsFiniteSet(Blocks(b) \X Envs)
    BY <2>1, EnvsFinite, FS_Product
  <2>3. Fuel(b) \in Nat
    BY <2>2, FS_Product, FS_CardinalityType DEF Fuel
  <2> QED
    BY <2>3 DEF Fuel, Blocks
<1> DEFINE S == {n \in Nat : <<r[n], q[n]>> \in R}
<1>4. 0 \in S
  BY <1>1, <1>2 DEF IsRun, IsKept
<1>5. ASSUME NEW n \in Nat, n \in S PROVE n + 1 \in S
  <2>1. r[n] \in Configs(b) /\ r[n + 1] = BlockRun(b, i, r[n])
    BY <1>1 DEF IsRun
  <2>2. q[n] \in Configs(c) /\ q[n + 1] = BlockRun(c, j, q[n])
    BY <1>2 DEF IsRun
  <2> QED
    BY <1>5, <2>1, <2>2 DEF IsKept
<1> HIDE DEF S
<1>6. Fuel(b) \in S
  BY <1>3, <1>4, <1>5, Always
<1>7. r[Fuel(b)] \in Configs(b) /\ q[Fuel(b)] \in Configs(c)
  BY <1>1, <1>2, <1>3 DEF IsRun
<1> QED
  BY <1>1, <1>2, <1>3, <1>6, <1>7 DEF S, Outcome, EndsRelated

\* A body without calls does not look at their results.
LEMMA CallsAlone ==
    ASSUME NEW b, WellFormed(b), \A k \in Blocks(b) : b[k].term.kind # "call",
           NEW i \in AllInputs, NEW j \in AllInputs, i.arg = j.arg
    PROVE  Meaning(b, i) = Meaning(b, j)
<1> DEFINE R == {<<x, x>> : x \in Configs(b)}
<1>1. Entry(i) = Entry(j) /\ Entry(i) \in Configs(b)
  BY EntryValue DEF Entry
<1>2. ASSUME NEW x \in Configs(b) PROVE BlockRun(b, i, x) = BlockRun(b, j, x)
  <2>1. CASE x.at = 0
    BY <2>1 DEF BlockRun
  <2>2. CASE x.at # 0
    <3> DEFINE t == b[x.at].term
               env == Execute(x.env, b[x.at].stmts)
    <3>1. x.at \in Blocks(b)
      BY <2>2, BlockRunValue
    <3>2. t.kind # "call"
      BY <3>1
    <3>3. t.kind \in {"return", "goto", "switch", "drop", "call", "assert"}
      <4>1. Len(b) \in Nat /\ t \in Terminators(Len(b))
        BY <3>1, BodyParts
      <4> QED
        BY <4>1, TerminatorParts
    <3> HIDE DEF t, env
    <3>4. RunTerminator(t, i, x.events, env) = RunTerminator(t, j, x.events, env)
      BY <3>2, <3>3 DEF RunTerminator
    <3> QED
      BY <2>2, <3>4 DEF BlockRun, t, env
  <2> QED
    BY <2>1, <2>2
<1>3. <<Entry(i), Entry(j)>> \in R
  BY <1>1
<1>4. \A x \in Configs(b), y \in Configs(b) :
          <<x, y>> \in R => <<BlockRun(b, i, x), BlockRun(b, j, y)>> \in R
  BY <1>2, BlockRunValue
<1>5. \A x, y : <<x, y>> \in R => x = y
  OBVIOUS
<1> HIDE DEF R
<1>6. IsKept(R, b, i, b, j)
  BY <1>3, <1>4 DEF IsKept
<1>7. EndsRelated(R, b, i, b, j)
  BY <1>6, RunsRelated
<1>8. PICK x \in Configs(b), y \in Configs(b) :
          <<x, y>> \in R /\ Meaning(b, i) = Outcome(x) /\ Meaning(b, j) = Outcome(y)
  BY <1>7 DEF EndsRelated
<1> QED
  BY <1>5, <1>8

\* Something undefined is in the events.
Tainted(events) == \E n \in DOMAIN events : events[n][1] = "undefined" \/ events[n][2] = Uninit

\* The meaning of a well-defined body has nothing undefined in it, for inputs that only
\* another body looks at too.
LEMMA NeverTainted ==
    ASSUME NEW b, WellFormed(b), WellDefined(b), NEW i \in AllInputs
    PROVE  ~Tainted(Meaning(b, i))
<1>1. CASE \E k \in Blocks(b) : b[k].term.kind = "call"
  <2>1. i \in Inputs(b)
    BY <1>1 DEF Inputs, AllInputs
  <2> QED
    BY <2>1 DEF WellDefined, Tainted
<1>2. CASE \A k \in Blocks(b) : b[k].term.kind # "call"
  <2> DEFINE j == [arg |-> i.arg, result |-> 0, unwinds |-> FALSE]
  <2>1. j \in Inputs(b) /\ j \in AllInputs /\ i.arg = j.arg
    BY <1>2 DEF Inputs, AllInputs
  <2> HIDE DEF j
  <2>2. Meaning(b, i) = Meaning(b, j)
    BY <1>2, <2>1, CallsAlone
  <2> QED
    BY <2>1, <2>2 DEF WellDefined, Tainted
<1> QED
  BY <1>1, <1>2

(***************************************************************************)
(* Renumbering.  If no block that stays names one that goes, the blocks    *)
(* that stay do what they did, under their new numbers.                    *)
(***************************************************************************)
Renumber(targets, remap) == [n \in DOMAIN targets |-> Remap(targets[n], remap)]

\* The terminator t under the new numbers.
Renumbered(u, t, remap) ==
    /\ u.kind = t.kind /\ u.op = t.op /\ u.dest = t.dest
    /\ u.targets = Renumber(t.targets, remap) /\ u.cleanup = Renumber(t.cleanup, remap)

\* What renumbering the terminator t of a body of n blocks, for one of m, starts from.
Renumbering(t, n, kept, remap, m) ==
    /\ n \in Nat /\ m \in Nat /\ t \in Terminators(n)
    /\ kept \in SUBSET (1..n) /\ Named(t) \subseteq kept /\ remap \in [kept -> 1..m]

LEMMA NewTargets ==
    ASSUME NEW n \in Nat, NEW m \in Nat, NEW t \in Terminators(n),
           NEW kept, Named(t) \subseteq kept, NEW remap \in [kept -> 1..m]
    PROVE  /\ Renumber(t.targets, remap) \in Seq(1..m) /\ Len(Renumber(t.targets, remap)) = Arity(t.kind)
           /\ Renumber(t.cleanup, remap) \in {<<>>} \cup {<<i>> : i \in 1..m}
<1>1. /\ t.kind \in {"return", "goto", "switch", "drop", "call", "assert"}
      /\ t.op \in Operands /\ t.dest \in Locals
      /\ Len(t.targets) = Arity(t.kind) /\ DOMAIN t.targets = 1..Arity(t.kind)
      /\ \A k \in 1..Arity(t.kind) : t.targets[k] \in kept
      /\ t.cleanup = <<>> \/ t.cleanup = <<t.cleanup[1]>>
      /\ t.cleanup # <<>> => t.cleanup[1] \in kept
  BY TerminatorParts
<1>2. \A i \in kept : Remap(i, remap) = remap[i] /\ Remap(i, remap) \in 1..m
  BY DEF Remap
<1>3. Renumber(t.targets, remap) \in Seq(1..m) /\ Len(Renumber(t.targets, remap)) = Arity(t.kind)
  <2>1. Arity(t.kind) \in Nat
    BY DEF Arity
  <2>2. Renumber(t.targets, remap) \in [1..Arity(t.kind) -> 1..m]
    BY <1>1, <1>2 DEF Renumber
  <2> QED
    BY <2>1, <2>2
<1>4. Renumber(t.cleanup, remap) \in {<<>>} \cup {<<i>> : i \in 1..m}
  <2>1. CASE t.cleanup = <<>>
    <3>1. Renumber(t.cleanup, remap) = <<>>
      BY <2>1 DEF Renumber
    <3> QED
      BY <3>1
  <2>2. CASE t.cleanup = <<t.cleanup[1]>>
    <3>1. t.cleanup[1] \in kept
      BY <1>1, <2>2
    <3>2. Renumber(t.cleanup, remap) = <<remap[t.cleanup[1]]>>
      BY <1>2, <2>2, <3>1 DEF Renumber
    <3> QED
      BY <3>1, <3>2
  <2> QED
    BY <1>1, <2>1, <2>2
<1> QED
  BY <1>3, <1>4

LEMMA RemappedBlock ==
    ASSUME NEW n, NEW m, NEW block \in [stmts : Seq(Assignments), term : Terminators(n)],
           NEW kept, NEW remap, Renumbering(block.term, n, kept, remap, m)
    PROVE  /\ remap_terminator(block, remap) \in [stmts : Seq(Assignments), term : Terminators(m)]
           /\ remap_terminator(block, remap).stmts = block.stmts
           /\ Renumbered(remap_terminator(block, remap).term, block.term, remap)
<1> DEFINE t  == block.term
           K  == {"return", "goto", "switch", "drop", "call", "assert"}
           X  == {t.targets, Renumber(t.targets, remap)}
           Y  == {t.cleanup, Renumber(t.cleanup, remap)}
           TT == [kind : K, op : Operands, dest : Locals, targets : X, cleanup : Y]
           u  == [t EXCEPT !.targets = Renumber(t.targets, remap)]
           w  == [u EXCEPT !.cleanup = Renumber(t.cleanup, remap)]
<1>1. /\ t \in Terminators(n) /\ block \in [stmts : Seq(Assignments), term : Terminators(n)]
      /\ n \in Nat /\ m \in Nat /\ Named(t) \subseteq kept /\ remap \in [kept -> 1..m]
  BY DEF Renumbering
<1>2. remap_terminator(block, remap) = [block EXCEPT !.term = w]
  BY DEF remap_terminator, Renumber
<1>3. /\ Renumber(t.targets, remap) \in Seq(1..m) /\ Len(Renumber(t.targets, remap)) = Arity(t.kind)
      /\ Renumber(t.cleanup, remap) \in {<<>>} \cup {<<i>> : i \in 1..m}
  <2> HIDE DEF t
  <2> QED
    BY <1>1, NewTargets
<1>4. t \in TT
  BY <1>1 DEF Terminators
<1> HIDE DEF t
<1>5. /\ u \in TT /\ u.targets = Renumber(t.targets, remap)
      /\ u.kind = t.kind /\ u.op = t.op /\ u.dest = t.dest /\ u.cleanup = t.cleanup
  BY <1>4
<1> HIDE DEF u
<1>6. /\ w \in TT /\ w.cleanup = Renumber(t.cleanup, remap) /\ w.targets = u.targets
      /\ w.kind = t.kind /\ w.op = t.op /\ w.dest = t.dest
  BY <1>5
<1> HIDE DEF w
<1>7. w \in Terminators(m)
  BY <1>3, <1>5, <1>6 DEF Terminators
<1>8. Renumbered(w, t, remap)
  BY <1>5, <1>6 DEF Renumbered
<1>9. /\ block \in [stmts : Seq(Assignments), term : Terminators(n) \cup Terminators(m)]
  BY <1>1
<1>10. /\ [block EXCEPT !.term = w] \in [stmts : Seq(Assignments), term : Terminators(m)]
       /\ [block EXCEPT !.term = w].stmts = block.stmts /\ [block EXCEPT !.term = w].term = w
  BY <1>7, <1>9
<1> QED
  BY <1>2, <1>8, <1>10 DEF t

\* Where a run is, under the new numbers.
Moved(c, remap) == Goto(IF c.at = 0 THEN 0 ELSE remap[c.at], c.events, c.env)

LEMMA RemappedRun ==
    ASSUME NEW n, NEW m, NEW t, NEW kept, NEW remap, Renumbering(t, n, kept, remap, m),
           NEW u, Renumbered(u, t, remap), NEW input, NEW events, NEW env \in Envs
    PROVE  RunTerminator(u, input, events, env) = Moved(RunTerminator(t, input, events, env), remap)
<1>1. /\ t.kind \in {"return", "goto", "switch", "drop", "call", "assert"}
      /\ t.op \in Operands /\ DOMAIN t.targets = 1..Arity(t.kind)
      /\ \A k \in 1..Arity(t.kind) : t.targets[k] \in kept
      /\ t.cleanup = <<>> \/ t.cleanup = <<t.cleanup[1]>>
      /\ t.cleanup # <<>> => t.cleanup[1] \in kept
  <2>1. n \in Nat /\ t \in Terminators(n) /\ Named(t) \subseteq kept
    BY DEF Renumbering
  <2> QED
    BY <2>1, TerminatorParts
<1>2. \A i \in kept : Remap(i, remap) = remap[i] /\ i # 0
  BY DEF Remap, Renumbering
<1>3. \A k \in 1..Arity(t.kind) : u.targets[k] = remap[t.targets[k]] /\ t.targets[k] # 0
  BY <1>1, <1>2 DEF Renumber, Renumbered
<1>4. \/ t.cleanup = <<>> /\ u.cleanup = <<>>
      \/ t.cleanup # <<>> /\ u.cleanup # <<>> /\ u.cleanup[1] = remap[t.cleanup[1]] /\ t.cleanup[1] # 0
  <2>1. CASE t.cleanup = <<>>
    BY <2>1 DEF Renumber, Renumbered
  <2>2. CASE t.cleanup # <<>>
    <3>1. t.cleanup[1] \in kept /\ t.cleanup = <<t.cleanup[1]>>
      BY <1>1, <2>2
    <3>2. u.cleanup = <<remap[t.cleanup[1]]>>
      <4>1. \A i \in kept : Renumber(<<i>>, remap) = <<remap[i]>>
        BY <1>2 DEF Renumber
      <4>2. u.cleanup = Renumber(<<t.cleanup[1]>>, remap)
        BY <3>1 DEF Renumbered
      <4> QED
        BY <3>1, <4>1, <4>2
    <3> QED
      BY <1>2, <2>2, <3>1, <3>2
  <2> QED
    BY <2>1, <2>2
<1>5. u.kind = t.kind /\ u.op = t.op /\ u.dest = t.dest
  BY DEF Renumbered
<1> DEFINE v == Read(t.op, env)
<1>6. v \in Values \cup {Uninit}
  BY <1>1, OperandValue
<1> HIDE DEF v
<1>7. \A i, es, e : Moved(Goto(i, es, e), remap) = Goto(IF i = 0 THEN 0 ELSE remap[i], es, e)
  BY DEF Moved, Goto
<1>8. \A how, w, es, e : Moved(Ends(how, w, es, e), remap) = Ends(how, w, es, e)
  BY <1>7 DEF Ends
<1>9. \A es, e : Unwind(u, es, e) = Moved(Unwind(t, es, e), remap)
  BY <1>4, <1>7, <1>8 DEF Unwind
<1>10. CASE t.kind = "return"
  BY <1>5, <1>8, <1>10 DEF RunTerminator
<1>11. CASE t.kind = "goto"
  <2>1. u.targets[1] = remap[t.targets[1]] /\ t.targets[1] # 0
    BY <1>3, <1>11 DEF Arity
  <2> QED
    BY <1>5, <1>7, <1>11, <2>1 DEF RunTerminator
<1>12. CASE t.kind = "switch"
  <2>1. \A k \in {1, 2} : u.targets[k] = remap[t.targets[k]] /\ t.targets[k] # 0
    BY <1>3, <1>12 DEF Arity
  <2> QED
    BY <1>5, <1>7, <1>8, <1>12, <2>1 DEF RunTerminator, v
<1>13. CASE t.kind = "assert"
  <2>1. u.targets[1] = remap[t.targets[1]] /\ t.targets[1] # 0
    BY <1>3, <1>13 DEF Arity
  <2> QED
    BY <1>5, <1>7, <1>8, <1>9, <1>13, <2>1 DEF RunTerminator
<1>14. CASE t.kind = "drop"
  <2>1. u.targets[1] = remap[t.targets[1]] /\ t.targets[1] # 0
    BY <1>3, <1>14 DEF Arity
  <2> QED
    BY <1>5, <1>7, <1>14, <2>1 DEF RunTerminator
<1>15. CASE t.kind = "call"
  <2>1. u.targets[1] = remap[t.targets[1]] /\ t.targets[1] # 0
    BY <1>3, <1>15 DEF Arity
  <2> QED
    BY <1>5, <1>7, <1>9, <1>15, <2>1 DEF RunTerminator
<1> QED
  BY <1>1, <1>10, <1>11, <1>12, <1>13, <1>14, <1>15

\* The blocks that stay name only blocks that stay, and the entry block is one of them.
Closed(b, kept) ==
    kept \subseteq Blocks(b) /\ 1 \in kept /\ \A i \in kept : Named(b[i].term) \subseteq kept

LEMMA KeptBody ==
    ASSUME NEW b, WellFormed(b), NEW kept, Closed(b, kept), NEW remap, remap = [i \in kept |-> Rank(kept, i)]
    PROVE  /\ WellFormed(Keep(b, kept))
           /\ remap \in [kept -> Blocks(Keep(b, kept))] /\ remap[1] = 1
           /\ \A i \in kept : /\ Keep(b, kept)[remap[i]].stmts = b[i].stmts
                              /\ Renumbered(Keep(b, kept)[remap[i]].term, b[i].term, remap)
<1> DEFINE N == Len(b)
           C == Cardinality(kept)
           moved == Retain(b, kept)
           k == Keep(b, kept)
           Old == [stmts : Seq(Assignments), term : Terminators(N)]
           New == [stmts : Seq(Assignments), term : Terminators(C)]
<1>1. /\ N \in Nat \ {0} /\ b \in Seq(Old) /\ kept \in SUBSET (1..N) /\ 1 \in kept
      /\ \A i \in kept : b[i] \in Old /\ Named(b[i].term) \subseteq kept
  BY BodyParts DEF Closed, Blocks
<1>2. /\ C \in Nat
      /\ \A i \in kept : Rank(kept, i) \in 1..C /\ Nth(kept, Rank(kept, i)) = i
      /\ \A n \in 1..C : Nth(kept, n) \in kept
      /\ Rank(kept, 1) = 1
  BY <1>1, RanksAreDense
<1>3. DOMAIN moved = 1..C /\ \A n \in 1..C : moved[n] = b[Nth(kept, n)]
  <2> HIDE DEF Old
  <2> QED
    BY <1>1, Retained
<1>4. remap \in [kept -> 1..C] /\ remap[1] = 1 /\ \A i \in kept : Nth(kept, remap[i]) = i
  BY <1>1, <1>2
<1>5. k = [n \in 1..C |-> remap_terminator(moved[n], remap)]
  BY <1>3 DEF Keep
<1> HIDE DEF moved, k, C, N
<1>6. ASSUME NEW n \in 1..C
      PROVE  /\ k[n] \in New /\ k[n].stmts = b[Nth(kept, n)].stmts
             /\ Renumbered(k[n].term, b[Nth(kept, n)].term, remap)
  <2>1. b[Nth(kept, n)] \in Old /\ Named(b[Nth(kept, n)].term) \subseteq kept
    BY <1>1, <1>2
  <2>2. k[n] = remap_terminator(b[Nth(kept, n)], remap)
    BY <1>3, <1>5
  <2> DEFINE old == b[Nth(kept, n)]
  <2>3. old \in [stmts : Seq(Assignments), term : Terminators(N)]
    BY <2>1
  <2>5. Renumbering(old.term, N, kept, remap, C)
    <3>1. N \in Nat /\ C \in Nat /\ kept \in SUBSET (1..N) /\ remap \in [kept -> 1..C]
      BY <1>1, <1>2, <1>4
    <3>2. old.term \in Terminators(N) /\ Named(old.term) \subseteq kept
      BY <2>1
    <3> QED
      BY <3>1, <3>2 DEF Renumbering
  <2> HIDE DEF old
  <2>4. /\ remap_terminator(old, remap) \in [stmts : Seq(Assignments), term : Terminators(C)]
        /\ remap_terminator(old, remap).stmts = old.stmts
        /\ Renumbered(remap_terminator(old, remap).term, old.term, remap)
    BY ONLY <2>3, <2>5, RemappedBlock, Zenon
  <2> QED
    BY <2>2, <2>4 DEF old
<1> HIDE DEF Old
<1>7. k \in Seq(New) /\ Len(k) = C
  <2>1. k \in [1..C -> New]
    BY <1>5, <1>6
  <2> HIDE DEF New
  <2> QED
    BY <1>2, <2>1
<1>8. C # 0
  BY <1>2, <1>4, <1>1
<1>9. WellFormed(k)
  BY <1>2, <1>7, <1>8 DEF WellFormed
<1>10. Blocks(k) = 1..C
  BY <1>7 DEF Blocks
<1>11. \A i \in kept : k[remap[i]].stmts = b[i].stmts /\ Renumbered(k[remap[i]].term, b[i].term, remap)
  BY <1>4, <1>6
<1> QED
  BY <1>4, <1>9, <1>10, <1>11 DEF k

\* A run of the blocks that stay is a run of the body, under the new numbers.
LEMMA KeepSame ==
    ASSUME NEW b, WellFormed(b), NEW kept, Closed(b, kept), NEW input \in AllInputs
    PROVE  Meaning(Keep(b, kept), input) = Meaning(b, input)
<1> DEFINE remap == [i \in kept |-> Rank(kept, i)]
           k == Keep(b, kept)
<1>1. /\ WellFormed(k) /\ remap \in [kept -> Blocks(k)] /\ remap[1] = 1
      /\ \A i \in kept : k[remap[i]].stmts = b[i].stmts /\ Renumbered(k[remap[i]].term, b[i].term, remap)
  BY KeptBody
<1>2. /\ Len(b) \in Nat /\ kept \in SUBSET (1..Len(b)) /\ 1 \in kept /\ DOMAIN remap = kept
      /\ \A i \in kept : /\ Named(b[i].term) \subseteq kept /\ b[i].term \in Terminators(Len(b))
                         /\ b[i].stmts \in Seq(Assignments)
  BY BodyParts DEF Closed, Blocks
<1> HIDE DEF remap, k
<1>3. ASSUME NEW r, NEW q, IsRun(r, b, input), IsRun(q, k, input)
      PROVE  \A n \in Nat : r[n].at \in {0} \cup kept /\ q[n] = Moved(r[n], remap)
  <2> DEFINE S == {n \in Nat : r[n].at \in {0} \cup kept /\ q[n] = Moved(r[n], remap)}
  <2>1. 0 \in S
    <3>1. r[0] = Entry(input) /\ q[0] = Entry(input)
      BY <1>3 DEF IsRun
    <3>2. Entry(input).at = 1 /\ Moved(Entry(input), remap) = Entry(input)
      BY <1>1 DEF Entry, Goto, Moved
    <3> QED
      BY <1>2, <3>1, <3>2
  <2>2. ASSUME NEW n \in Nat, n \in S PROVE n + 1 \in S
    <3>1. /\ r[n] \in Configs(b) /\ r[n].at \in {0} \cup kept /\ q[n] = Moved(r[n], remap) /\ n + 1 \in Nat
          /\ r[n + 1] = BlockRun(b, input, r[n]) /\ q[n + 1] = BlockRun(k, input, q[n])
          /\ r[n + 1] \in Configs(b)
      BY <1>3, <2>2 DEF IsRun
    <3>2. CASE r[n].at = 0
      BY <3>1, <3>2 DEF Moved, Goto, BlockRun
    <3>3. CASE r[n].at # 0
      <4> DEFINE i == r[n].at
                 env == Execute(r[n].env, b[i].stmts)
      <4>1. i \in kept /\ i \in Nat \ {0} /\ remap[i] \in Nat \ {0} /\ r[n].env \in Envs
        BY <1>1, <1>2, <3>1, <3>3 DEF Blocks, Configs
      <4>2. env \in Envs
        BY <1>2, <4>1, ExecutionExists, ExecuteIs
      <4>3. q[n].at = remap[i] /\ q[n].events = r[n].events /\ q[n].env = r[n].env
        BY <3>1, <3>3 DEF Moved, Goto
      <4>4. r[n + 1] = RunTerminator(b[i].term, input, r[n].events, env)
        BY <3>1, <3>3 DEF BlockRun
      <4>5. q[n + 1] = RunTerminator(k[remap[i]].term, input, r[n].events, env)
        BY <1>1, <3>1, <4>1, <4>3 DEF BlockRun
      <4>6. r[n + 1].at \in {0} \cup kept
        <5>1. BlockRun(b, input, r[n]).at \in {0} \cup Named(b[r[n].at].term)
          BY <3>1, <3>3, BlockRunValue
        <5> QED
          BY <1>2, <3>1, <4>1, <5>1
      <4>7. q[n + 1] = Moved(r[n + 1], remap)
        <5> DEFINE t == b[i].term
                   u == k[remap[i]].term
                   N == Len(b)
                   events == r[n].events
        <5>1. Renumbering(t, N, kept, remap, Len(k))
          <6>1. N \in Nat /\ Len(k) \in Nat /\ kept \in SUBSET (1..N) /\ remap \in [kept -> 1..Len(k)]
            BY <1>1, <1>2, BodyParts DEF Blocks
          <6>2. t \in Terminators(N) /\ Named(t) \subseteq kept
            BY <1>2, <4>1
          <6> QED
            BY <6>1, <6>2 DEF Renumbering
        <5>2. Renumbered(u, t, remap)
          BY <1>1, <4>1
        <5> HIDE DEF t, u, env, events
        <5>3. RunTerminator(u, input, events, env) = Moved(RunTerminator(t, input, events, env), remap)
          BY <4>2, <5>1, <5>2, RemappedRun
        <5> QED
          BY <4>4, <4>5, <5>3 DEF t, u, events
      <4> QED
        BY <3>1, <4>6, <4>7
    <3> QED
      BY <3>2, <3>3
  <2> HIDE DEF S
  <2>3. \A n \in Nat : n \in S
    BY <2>1, <2>2, Always
  <2> QED
    BY <2>3 DEF S
<1>4. ASSUME NEW r, NEW q, IsRun(r, b, input), IsRun(q, k, input), NEW n \in Nat
      PROVE  (q[n].at = 0 <=> r[n].at = 0) /\ q[n].events = r[n].events
  <2>1. r[n].at \in {0} \cup kept /\ q[n] = Moved(r[n], remap)
    BY <1>3, <1>4
  <2>2. \A i \in kept : remap[i] # 0
    BY <1>1 DEF Blocks
  <2> QED
    BY <2>1, <2>2 DEF Moved, Goto
<1> QED
  BY <1>1, <1>4, MeaningsAgree DEF k

\* c is b with block i appended to block p, as far as the blocks in `kept` go.
Appended(b, c, p, i, kept) ==
    /\ Blocks(c) = Blocks(b) /\ Closed(c, kept) /\ p \in kept /\ i \in Blocks(b) \ kept
    /\ b[p].term.kind = "goto" /\ b[p].term.targets = <<i>>
    /\ c[p].stmts = b[p].stmts \o b[i].stmts /\ c[p].term = b[i].term
    /\ \A j \in kept \ {p} : c[j] = b[j]

\* From p the longer body takes one step where the other takes two, and nothing else leads to i.
LEMMA AppendedSteps ==
    ASSUME NEW b, WellFormed(b), NEW c, WellFormed(c), NEW p, NEW i, NEW kept, Appended(b, c, p, i, kept),
           NEW input \in AllInputs, NEW r, IsRun(r, b, input), NEW q, IsRun(q, c, input)
    PROVE  \A n \in Nat : q[n].at \in {0} \cup kept /\ \E m \in Nat : n <= m /\ r[m] = q[n]
<1> DEFINE S == {n \in Nat : q[n].at \in {0} \cup kept /\ \E m \in Nat : n <= m /\ r[m] = q[n]}
<1>1. 0 \in S
  <2>1. r[0] = Entry(input) /\ q[0] = Entry(input)
    BY DEF IsRun
  <2>2. Entry(input).at = 1 /\ 1 \in kept
    BY EntryValue DEF Appended, Closed
  <2> QED
    BY <2>1, <2>2
<1>2. ASSUME NEW n \in Nat, n \in S PROVE n + 1 \in S
  <2>1. /\ q[n] \in Configs(c) /\ q[n].at \in {0} \cup kept /\ n + 1 \in Nat
        /\ q[n + 1] = BlockRun(c, input, q[n])
    BY <1>2 DEF IsRun
  <2>2. PICK m \in Nat : n <= m /\ r[m] = q[n]
    BY <1>2
  <2>3. /\ m + 1 \in Nat /\ m + 2 \in Nat /\ n + 1 <= m + 1 /\ n + 1 <= m + 2
        /\ (m + 1) + 1 = m + 2
    BY <2>2
  <2>4. r[m + 1] = BlockRun(b, input, r[m]) /\ r[m + 2] = BlockRun(b, input, r[m + 1])
    BY <2>2, <2>3 DEF IsRun
  <2>5. CASE q[n].at = 0
    <3>1. q[n + 1] = q[n] /\ r[m + 1] = r[m]
      BY <2>1, <2>2, <2>4, <2>5 DEF BlockRun
    <3> QED
      BY <2>1, <2>2, <2>3, <3>1
  <2>6. CASE q[n].at # 0
    <3> DEFINE j == q[n].at
    <3>1. j \in kept /\ kept \subseteq Blocks(c) /\ Named(c[j].term) \subseteq kept /\ j # 0
      BY <2>1, <2>6 DEF Appended, Closed
    <3>2. q[n + 1].at \in {0} \cup kept
      <4>1. BlockRun(c, input, q[n]).at \in {0} \cup Named(c[j].term)
        BY <2>1, <2>6, BlockRunValue
      <4> QED
        BY <2>1, <3>1, <4>1
    <3>3. q[n + 1] = RunTerminator(c[j].term, input, q[n].events, Execute(q[n].env, c[j].stmts))
      BY <2>1, <2>6 DEF BlockRun
    <3>4. r[m + 1] = RunTerminator(b[j].term, input, q[n].events, Execute(q[n].env, b[j].stmts))
      BY <2>2, <2>4, <2>6 DEF BlockRun
    <3>5. CASE j # p
      <4>1. c[j] = b[j]
        BY <3>1, <3>5 DEF Appended
      <4>2. r[m + 1] = q[n + 1]
        BY <3>3, <3>4, <4>1
      <4> HIDE DEF j
      <4> QED
        BY <2>1, <2>3, <3>2, <4>2
    <3>6. CASE j = p
      <4> DEFINE env == Execute(q[n].env, b[p].stmts)
      <4>1. /\ b[p].term.kind = "goto" /\ b[p].term.targets = <<i>> /\ i \in Blocks(b) /\ i # 0
            /\ c[p].stmts = b[p].stmts \o b[i].stmts /\ c[p].term = b[i].term /\ p \in Blocks(b)
        BY <3>1 DEF Appended, Blocks
      <4>2. q[n].env \in Envs /\ b[p].stmts \in Seq(Assignments) /\ b[i].stmts \in Seq(Assignments)
        BY <2>1, <4>1, BodyParts DEF Configs
      <4>3. Execute(q[n].env, c[p].stmts) = Execute(env, b[i].stmts)
        BY <4>1, <4>2, ExecuteJoined
      <4> HIDE DEF env
      <4>4. r[m + 1] = Goto(i, q[n].events, env)
        BY <3>4, <3>6, <4>1 DEF RunTerminator, env
      <4>5. r[m + 1].at = i /\ r[m + 1].events = q[n].events /\ r[m + 1].env = env
        BY <4>4 DEF Goto
      <4>6. r[m + 2] = RunTerminator(b[i].term, input, q[n].events, Execute(env, b[i].stmts))
        BY <2>4, <4>1, <4>5 DEF BlockRun
      <4>7. r[m + 2] = q[n + 1]
        BY <3>3, <3>6, <4>1, <4>3, <4>6
      <4> HIDE DEF j
      <4> QED
        BY <2>1, <2>3, <3>2, <4>7
    <3> QED
      BY <3>5, <3>6
  <2> QED
    BY <2>5, <2>6
<1> HIDE DEF S
<1>3. \A n \in Nat : n \in S
  BY <1>1, <1>2, Always
<1> QED
  BY <1>3 DEF S

LEMMA AppendedSame ==
    ASSUME NEW b, WellFormed(b), NEW c, WellFormed(c), NEW p, NEW i, NEW kept, Appended(b, c, p, i, kept),
           NEW input \in AllInputs
    PROVE  Meaning(c, input) = Meaning(b, input)
<1>1. ASSUME NEW r, NEW q, IsRun(r, b, input), IsRun(q, c, input)
      PROVE  /\ \A n \in Nat : q[n].at = 0 => \E m \in Nat : r[m].at = 0 /\ r[m].events = q[n].events
             /\ (\E n \in Nat : r[n].at = 0) => \E n \in Nat : q[n].at = 0
  <2>1. \A n \in Nat : \E m \in Nat : n <= m /\ r[m] = q[n]
    BY <1>1, AppendedSteps
  <2>2. ASSUME NEW n \in Nat, r[n].at = 0 PROVE q[n].at = 0
    <3>1. PICK m \in Nat : n <= m /\ r[m] = q[n]
      BY <2>1
    <3>2. r[m] = r[n]
      BY <1>1, <2>2, <3>1, EndedStays
    <3> QED
      BY <2>2, <3>1, <3>2
  <2>3. \A n \in Nat : q[n].at = 0 => \E m \in Nat : r[m].at = 0 /\ r[m].events = q[n].events
    BY <2>1
  <2> QED
    BY <2>2, <2>3
<1>2. Meaning(b, input) = Meaning(c, input)
  BY <1>1, MeaningsAgree
<1> QED
  BY <1>2

\* Only what is kept matters.
LEMMA KeptSame ==
    ASSUME NEW b, WellFormed(b), NEW c, WellFormed(c), Len(c) = Len(b),
           NEW kept, Closed(b, kept), \A j \in kept : c[j] = b[j], NEW input \in AllInputs
    PROVE  Meaning(c, input) = Meaning(b, input)
<1>1. Closed(c, kept)
  BY DEF Closed, Blocks
<1>2. Keep(c, kept) = Keep(b, kept)
  <2>1. kept \in SUBSET (1..Len(b)) /\ Len(b) \in Nat
    BY BodyParts DEF Closed, Blocks
  <2>2. \A n \in 1..Cardinality(kept) : Nth(kept, n) \in kept
    BY <2>1, RanksAreDense
  <2>3. Retain(c, kept) = Retain(b, kept)
    BY <2>2 DEF Retain
  <2> QED
    BY <2>3 DEF Keep
<1> QED
  BY <1>1, <1>2, KeepSame

LEMMA EntryBlockStays ==
    ASSUME NEW b, WellFormed(b)
    PROVE  Closed(b, Blocks(b))
<1>1. Len(b) \in Nat \ {0} /\ \A i \in Blocks(b) : b[i].term \in Terminators(Len(b))
  BY BodyParts
<1>2. \A i \in Blocks(b) : Named(b[i].term) \subseteq 1..Len(b)
  BY <1>1, TerminatorParts
<1> QED
  BY <1>1, <1>2, BodyParts DEF Closed, Blocks

(***************************************************************************)
(* A round of cfg_simplify.  A block that is not deleted ends with the     *)
(* terminator of the block `tail` gives it, and no two end with that of    *)
(* the same one.                                                           *)
(***************************************************************************)
RoundOK(b, at, tail) ==
    /\ WellFormed(at.blocks) /\ Len(at.blocks) = Len(b)
    /\ Closed(at.blocks, Blocks(b) \ at.delete)
    /\ \A j \in Blocks(b) \ at.delete : tail[j] \in Blocks(b) /\ at.blocks[j].term = b[tail[j]].term
    /\ \A j, k \in Blocks(b) \ at.delete : tail[j] = tail[k] => j = k
    /\ \A input \in AllInputs : Meaning(at.blocks, input) = Meaning(b, input)

Rounding(b) ==
    {at \in [blocks : Seq([stmts : Seq(Assignments), term : Terminators(Len(b))]), delete : SUBSET Blocks(b)] :
        \E tail : RoundOK(b, at, tail)}

LEMMA TakenBlock == \A n \in Nat : Taken \in [stmts : Seq(Assignments), term : Terminators(n)]
<1> SUFFICES ASSUME NEW n \in Nat PROVE Taken \in [stmts : Seq(Assignments), term : Terminators(n)]
  OBVIOUS
<1> DEFINE t == [kind |-> "return", op |-> [kind |-> "const", value |-> 0], dest |-> 0,
                 targets |-> <<>>, cleanup |-> <<>>]
<1>1. [kind |-> "const", value |-> 0] \in Operands
  BY DEF Operands, Constants
<1>2. 0 \in Locals
  BY OptAssumption
<1>3. <<>> \in Seq(1..n) /\ <<>> \in Seq(Assignments) /\ Len(<<>>) = 0
  OBVIOUS
<1>4. t \in [kind : {"return", "goto", "switch", "drop", "call", "assert"}, op : Operands,
             dest : Locals, targets : Seq(1..n), cleanup : {<<>>} \cup {<<i>> : i \in 1..n}]
  BY <1>1, <1>2, <1>3
<1>5. Len(t.targets) = Arity(t.kind)
  BY <1>3 DEF Arity
<1>6. t \in Terminators(n)
  BY <1>4, <1>5 DEF Terminators
<1> HIDE DEF t
<1>7. [stmts |-> <<>>, term |-> t] \in [stmts : Seq(Assignments), term : Terminators(n)]
  BY <1>3, <1>6
<1> QED
  BY <1>7 DEF Taken, t

\* Block i is appended to its only predecessor p.
LEMMA MergeStep ==
    ASSUME NEW b, WellFormed(b), NEW i \in 2..Len(b), NEW at \in Rounding(b)
    PROVE  MergeBlock(b, at, i) \in Rounding(b)
<1> DEFINE N == Len(b)
           p == ThePred(b, i)
           old == at.blocks
           left == [old EXCEPT ![i] = Taken]
           merged == [stmts |-> left[p].stmts \o old[i].stmts, term |-> old[i].term]
           new == [left EXCEPT ![p] = merged]
           then == [blocks |-> new, delete |-> at.delete \cup {i}]
           Merges == /\ i \notin at.delete
                     /\ SinglePred(b, i)
                     /\ p \notin at.delete
                     /\ old[p].term.kind = "goto"
                     /\ old[p].term.targets = <<i>>
           Block == [stmts : Seq(Assignments), term : Terminators(N)]
           kept == Blocks(b) \ (at.delete \cup {i})
<1>1. MergeBlock(b, at, i) = IF Merges THEN then ELSE at
  BY DEF MergeBlock
<1>2. CASE ~Merges
  <2> HIDE DEF Merges, then
  <2> QED
    BY <1>1, <1>2
<1>3. CASE Merges
  <2>1. PICK tail : RoundOK(b, at, tail)
    BY DEF Rounding
  <2>2. /\ N \in Nat \ {0} /\ Len(old) = N /\ WellFormed(old) /\ old \in Seq(Block)
        /\ i \in Blocks(b) /\ i # 1 /\ Blocks(b) = 1..N /\ Blocks(old) = 1..N
        /\ at.delete \in SUBSET Blocks(b) /\ Closed(old, Blocks(b) \ at.delete)
    BY <2>1, BodyParts DEF RoundOK, Blocks, Rounding
  <2>3. Preds(b, i) = {p} /\ p \in Blocks(b) /\ p \in Blocks(b) \ at.delete
    <3>1. PICK x \in Preds(b, i) : Preds(b, i) = {x}
      BY <1>3 DEF SinglePred
    <3>2. p = x
      BY <3>1 DEF ThePred
    <3>3. p \in Blocks(b)
      BY <3>1, <3>2 DEF Preds
    <3> QED
      BY <1>3, <3>1, <3>2, <3>3
  <2>4. \A j \in Blocks(b) : i \in Named(b[j].term) => j = p
    BY <2>3, PredsAre
  <2>5. tail[p] = p
    <3>1. old[p].term = b[tail[p]].term /\ tail[p] \in Blocks(b)
      BY <2>1, <2>3 DEF RoundOK
    <3>2. i \in Named(old[p].term)
      BY <1>3 DEF Named
    <3> QED
      BY <2>4, <3>1, <3>2
  \* Nothing else that is kept leads to i.
  <2>6. ASSUME NEW j \in Blocks(b) \ at.delete, i \in Named(old[j].term) PROVE j = p
    <3>1. old[j].term = b[tail[j]].term /\ tail[j] \in Blocks(b)
      BY <2>1 DEF RoundOK
    <3>2. tail[j] = tail[p]
      BY <2>4, <2>5, <2>6, <3>1
    <3> QED
      BY <2>1, <2>3, <3>2 DEF RoundOK
  <2>7. new \in Seq(Block) /\ Len(new) = N /\ DOMAIN new = 1..N
        /\ \A j \in 1..N : new[j] = IF j = p THEN merged ELSE IF j = i THEN Taken ELSE old[j]
    <3>1. \A j \in 1..N : old[j] \in Block
      BY <2>2, ElementOfSeq
    <3>2. DOMAIN old = 1..N /\ old \in [1..N -> Block]
      BY <2>2, <3>1
    <3>3. Taken \in Block
      BY <2>2, TakenBlock
    <3> HIDE DEF N
    <3>4. left \in [1..N -> Block] /\ \A j \in 1..N : left[j] = IF j = i THEN Taken ELSE old[j]
      BY <2>2, <3>2, <3>3
    <3>5. left[p] \in Block /\ old[i] \in Block
      BY <2>2, <2>3, <3>1, <3>4
    <3>6. left[p].stmts \o old[i].stmts \in Seq(Assignments)
      BY <3>5, ConcatProperties
    <3>7. merged \in Block
      BY <3>5, <3>6
    <3>10. p \in 1..N
      BY <2>2, <2>3
    <3> HIDE DEF merged, left, Block, p
    <3>8. new \in [1..N -> Block] /\ \A j \in 1..N : new[j] = IF j = p THEN merged ELSE left[j]
      <4>1. new \in [1..N -> Block]
        BY <3>4, <3>7, <3>10
      <4>2. \A j \in 1..N : new[j] = IF j = p THEN merged ELSE left[j]
        BY <3>4, <3>7, <3>10
      <4> QED
        BY <4>1, <4>2
    <3>9. new \in Seq(Block) /\ Len(new) = N /\ DOMAIN new = 1..N
      <4>1. N \in Nat
        BY <2>2
      <4> HIDE DEF new
      <4> QED
        BY <3>8, <4>1
    <3> QED
      BY <3>4, <3>8, <3>9
  <2>8. merged.term = old[i].term /\ (p # i => merged.stmts = old[p].stmts \o old[i].stmts)
    <3>1. p # i => left[p] = old[p]
      BY <2>2, <2>3
    <3> QED
      BY <3>1
  <2> HIDE DEF new, merged, left
  <2>9. WellFormed(new) /\ Blocks(new) = Blocks(b)
    BY <2>2, <2>7 DEF WellFormed, Blocks
  <2>10. kept \subseteq Blocks(b) \ at.delete /\ 1 \in kept /\ i \in Blocks(b) \ at.delete
    BY <1>3, <2>2 DEF Closed
  <2>11. \A j \in kept \ {p} : new[j] = old[j]
    BY <2>2, <2>7
  <2>12. \A j \in kept : Named(new[j].term) \subseteq kept
    <3>1. \A j \in Blocks(b) \ at.delete : j # p => Named(old[j].term) \subseteq kept
      BY <2>2, <2>6 DEF Closed
    <3>2. p # i => Named(new[p].term) \subseteq kept
      BY <2>2, <2>3, <2>7, <2>8, <2>10, <3>1
    <3> QED
      BY <2>10, <2>11, <3>1, <3>2
  <2>13. Closed(new, kept)
    BY <2>9, <2>10, <2>12 DEF Closed
  <2> DEFINE tails == [j \in Blocks(b) |-> IF j = p THEN tail[i] ELSE tail[j]]
  <2>14. \A j \in kept : tails[j] \in Blocks(b) /\ new[j].term = b[tails[j]].term
    <3>1. \A j \in Blocks(b) \ at.delete : tail[j] \in Blocks(b) /\ old[j].term = b[tail[j]].term
      BY <2>1 DEF RoundOK
    <3>2. \A j \in kept \ {p} : tails[j] = tail[j] /\ new[j] = old[j]
      BY <2>10, <2>11
    <3>3. p \in kept => tails[p] = tail[i] /\ new[p].term = old[i].term
      BY <2>2, <2>3, <2>7, <2>8
    <3> HIDE DEF tails, kept
    <3> QED
      BY <2>10, <3>1, <3>2, <3>3
  <2>15. \A j, k \in kept : tails[j] = tails[k] => j = k
    <3>1. \A j, k \in Blocks(b) \ at.delete : tail[j] = tail[k] => j = k
      BY <2>1 DEF RoundOK
    <3> QED
      BY <2>10, <3>1
  <2>16. ASSUME NEW input \in AllInputs PROVE Meaning(new, input) = Meaning(b, input)
    <3>1. Meaning(old, input) = Meaning(b, input)
      BY <2>1 DEF RoundOK
    <3>2. CASE p # i
      <4>1. p \in kept
        BY <2>3, <3>2
      <4>2. Appended(old, new, p, i, kept)
        BY <1>3, <2>2, <2>3, <2>7, <2>8, <2>9, <2>10, <2>11, <2>13, <3>2, <4>1 DEF Appended
      <4> HIDE DEF old, kept, p
      <4> QED
        BY <2>2, <2>9, <3>1, <4>2, AppendedSame
    <3>3. CASE p = i
      <4>1. \A j \in kept : new[j] = old[j]
        BY <2>11, <3>3
      <4>2. Closed(old, kept)
        BY <2>2, <2>10, <2>12, <4>1 DEF Closed
      <4>3. Len(new) = Len(old)
        BY <2>2, <2>7
      <4> HIDE DEF old, kept, p
      <4> QED
        BY <2>2, <2>9, <3>1, <4>1, <4>2, <4>3, KeptSame
    <3> QED
      BY <3>2, <3>3
  <2>17. RoundOK(b, then, tails)
    <3>1. then.blocks = new /\ then.delete = at.delete \cup {i}
      OBVIOUS
    <3> HIDE DEF then, tails
    <3> QED
      BY <2>7, <2>9, <2>13, <2>14, <2>15, <2>16, <3>1 DEF RoundOK
  <2>18. then \in [blocks : Seq(Block), delete : SUBSET Blocks(b)]
    BY <2>2, <2>7
  <2>19. then \in Rounding(b)
    BY <2>17, <2>18 DEF Rounding
  <2> HIDE DEF then, Merges
  <2> QED
    BY <1>1, <1>3, <2>19
<1> HIDE DEF Merges
<1> QED
  BY <1>2, <1>3

LEMMA RoundStart ==
    ASSUME NEW b, WellFormed(b)
    PROVE  [blocks |-> b, delete |-> {}] \in Rounding(b)
<1> DEFINE at == [blocks |-> b, delete |-> {}]
           same == [j \in Blocks(b) |-> j]
<1>1. at.blocks = b /\ at.delete = {} /\ Blocks(b) \ at.delete = Blocks(b)
  OBVIOUS
<1>2. Closed(b, Blocks(b))
  BY EntryBlockStays
<1>3. at \in [blocks : Seq([stmts : Seq(Assignments), term : Terminators(Len(b))]), delete : SUBSET Blocks(b)]
  BY BodyParts
<1> HIDE DEF at
<1>4. RoundOK(b, at, same)
  BY <1>1, <1>2 DEF RoundOK
<1> QED
  BY <1>3, <1>4 DEF Rounding, at

LEMMA RoundCorrect ==
    ASSUME NEW b, WellFormed(b)
    PROVE  Round(b) \in Rounding(b)
<1> DEFINE M == Len(b) - 1
           first == [blocks |-> b, delete |-> {}]
           D == Rounding(b)
           step == [kx \in (1..M) \X D |-> MergeBlock(b, kx[2], kx[1] + 1)]
           after[n \in 0..M] == IF n = 0 THEN first ELSE MergeBlock(b, after[n - 1], n + 1)
<1>1. Round(b) = after[M]
  BY DEF Round
<1>2. M \in Nat /\ \A k \in 1..M : k + 1 \in 2..Len(b)
  <2>1. Len(b) \in Nat \ {0}
    BY BodyParts
  <2> QED
    BY <2>1
<1>3. \A k \in 1..M : \A x \in D : step[<<k, x>>] = MergeBlock(b, x, k + 1) /\ MergeBlock(b, x, k + 1) \in D
  BY <1>2, MergeStep
<1>4. first \in D
  BY RoundStart
<1> HIDE DEF M, D, step, after, first
<1>5. PICK f \in [0..M -> D] : f[0] = first /\ \A k \in 1..M : f[k] = step[<<k, f[k - 1]>>]
  <2>1. \A k \in 1..M : \A x \in D : step[<<k, x>>] \in D
    BY <1>3
  <2>2. \E f : Steps(f, D, first, step, M)
    BY <1>2, <1>4, <2>1, StepsExist, Zenon
  <2> QED
    BY <2>2 DEF Steps
<1>6. \A k \in 1..M : f[k] = MergeBlock(b, f[k - 1], k + 1)
  <2>1. \A k \in 1..M : k - 1 \in 0..M
    BY <1>2
  <2> QED
    BY <1>3, <1>5, <2>1
<1>7. f = [k \in 0..M |-> IF k = 0 THEN first ELSE MergeBlock(b, f[k - 1], k + 1)]
  <2>1. \A k \in 0..M : k # 0 => k \in 1..M
    BY <1>2
  <2> QED
    BY <1>5, <1>6, <2>1
<1>8. after = [k \in 0..M |-> IF k = 0 THEN first ELSE MergeBlock(b, after[k - 1], k + 1)]
  BY <1>7 DEF after
<1> DEFINE S == {k \in Nat : after[k] \in D}
<1>9. 0 \in S
  BY <1>2, <1>4, <1>8
<1>10. ASSUME NEW k \in 0..(M - 1), k \in S PROVE k + 1 \in S
  <2>1. k + 1 \in 0..M /\ k + 1 # 0 /\ (k + 1) - 1 = k /\ k + 1 \in 1..M /\ k + 1 \in Nat
    BY <1>2
  <2>2. after[k + 1] = MergeBlock(b, after[k], (k + 1) + 1)
    BY <1>8, <2>1
  <2> QED
    BY <1>3, <1>10, <2>1, <2>2
<1> HIDE DEF S
<1>11. M \in S
  <2>1. \A k \in 0..M : k \in S
    BY <1>2, <1>9, <1>10, UpTo
  <2> QED
    BY <1>2, <2>1
<1> QED
  BY <1>1, <1>11 DEF S, D

LEMMA CfgSimplifyKeeps ==
    ASSUME NEW b, WellFormed(b), NEW c, c = Keep(Round(b).blocks, Blocks(b) \ Round(b).delete)
    PROVE  WellFormed(c) /\ \A input \in AllInputs : Meaning(c, input) = Meaning(b, input)
<1>1. PICK tail : RoundOK(b, Round(b), tail)
  BY RoundCorrect DEF Rounding
<1> DEFINE d == Round(b).blocks
           kept == Blocks(b) \ Round(b).delete
<1>2. WellFormed(d) /\ Closed(d, kept) /\ \A input \in AllInputs : Meaning(d, input) = Meaning(b, input)
  BY <1>1 DEF RoundOK
<1> HIDE DEF d, kept
<1>3. c = Keep(d, kept)
  BY DEF d, kept
<1>4. WellFormed(c)
  <2> DEFINE remap == [i \in kept |-> Rank(kept, i)]
  <2>1. remap = [i \in kept |-> Rank(kept, i)]
    OBVIOUS
  <2> HIDE DEF remap
  <2> QED
    BY <1>2, <1>3, <2>1, KeptBody
<1>5. \A input \in AllInputs : Meaning(c, input) = Meaning(d, input)
  BY <1>2, <1>3, KeepSame
<1> QED
  BY <1>2, <1>4, <1>5

(***************************************************************************)
(* unreachable_elim.                                                       *)
(***************************************************************************)
\* What the search visits has the successors of everything in it.
LEMMA ReachableClosed ==
    ASSUME NEW b, WellFormed(b)
    PROVE  Closed(b, reachable_set(b))
<1> DEFINE N == Len(b)
           P == Blocks(b)
           D == SUBSET P
           more(X) == X \cup {i \in Blocks(b) : Preds(b, i) \cap X # {}}
           step == [X \in D |-> more(X)]
           first == {1}
           grown[n \in 0..N] == IF n = 0 THEN first ELSE more(grown[n - 1])
<1>1. reachable_set(b) = grown[N]
  BY DEF reachable_set
<1>2. N \in Nat /\ first \in D
  BY BodyParts
<1>3. step \in [D -> D] /\ \A X \in D : step[X] = more(X) /\ X \subseteq step[X]
  OBVIOUS
<1>4. IsFiniteSet(P) /\ Cardinality(P) <= N
  <2>1. Cardinality(P) = N
    <3>1. 1 \in Int /\ N \in Int
      BY <1>2
    <3>2. Cardinality(1..N) = IF 1 > N THEN 0 ELSE N - 1 + 1
      BY <3>1, FS_Interval
    <3> QED
      BY <1>2, <3>2 DEF Blocks
  <2> QED
    BY <1>2, <2>1, BlocksFinite
<1>5. \A X \in D : X \subseteq P
  OBVIOUS
<1> HIDE DEF N, step, grown, D, P, more, first
<1>6. PICK f : Rounds(f, first, step, N)
  BY <1>2, RoundsExist
<1>7. /\ f \in [0..N -> D] /\ f[0] = first
      /\ \A k \in 1..N : f[k] = step[f[k - 1]]
  BY <1>2, <1>3, <1>6, RoundsStay
<1>8. \A k \in 1..N : f[k] = more(f[k - 1])
  <2>1. \A k \in 1..N : k - 1 \in 0..N
    BY <1>2
  <2> QED
    BY <1>3, <1>7, <2>1
<1>9. grown = [n \in 0..N |-> IF n = 0 THEN first ELSE more(grown[n - 1])]
  <2>1. \A k \in 0..N : k # 0 => k \in 1..N
    BY <1>2
  <2>2. f = [n \in 0..N |-> IF n = 0 THEN first ELSE more(f[n - 1])]
    BY <1>7, <1>8, <2>1
  <2> QED
    BY <2>2 DEF grown
<1>10. grown[N] = f[N]
  <2> DEFINE S == {k \in Nat : grown[k] = f[k]}
  <2>1. 0 \in S
    BY <1>2, <1>7, <1>9
  <2>2. ASSUME NEW k \in 0..(N - 1), k \in S PROVE k + 1 \in S
    <3>1. k + 1 \in 0..N /\ k + 1 # 0 /\ (k + 1) - 1 = k /\ k + 1 \in 1..N /\ k + 1 \in Nat
      BY <1>2
    <3>2. grown[k + 1] = more(grown[k]) /\ f[k + 1] = more(f[k])
      BY <1>8, <1>9, <3>1
    <3> QED
      BY <2>2, <3>1, <3>2
  <2> HIDE DEF S
  <2>3. \A k \in 0..N : k \in S
    BY <1>2, <2>1, <2>2, UpTo
  <2> QED
    BY <1>2, <2>3 DEF S
<1>11. f[N] \in D /\ first \subseteq f[N] /\ step[f[N]] = f[N]
  <2>1. \A X \in D : X \subseteq step[X]
    BY <1>3
  <2> QED
    <3>1. N \in Nat /\ first \in D /\ step \in [D -> D] /\ IsFiniteSet(P) /\ Cardinality(P) <= N
      BY <1>2, <1>3, <1>4
    <3> QED
      BY ONLY <1>5, <1>6, <2>1, <3>1, RoundsClose
<1>12. more(f[N]) = f[N]
  BY <1>3, <1>11
<1> DEFINE R == f[N]
<1>13. ASSUME NEW i \in R, NEW j \in Named(b[i].term) PROVE j \in R
  <2>1. i \in Blocks(b) /\ j \in Blocks(b)
    <3>1. i \in Blocks(b)
      BY <1>11 DEF D, P
    <3>2. Named(b[i].term) \subseteq Blocks(b)
      BY <3>1, EntryBlockStays DEF Closed
    <3> QED
      BY <3>1, <3>2
  <2>2. i \in Preds(b, j)
    BY <2>1, PredsAre
  <2> QED
    BY <1>12, <2>1, <2>2 DEF more
<1>14. R \subseteq Blocks(b) /\ 1 \in R
  BY <1>11 DEF D, P, first
<1> HIDE DEF R
<1>15. Closed(b, R)
  BY <1>13, <1>14 DEF Closed
<1> QED
  BY <1>1, <1>10, <1>15 DEF R

LEMMA UnreachableElimKeeps ==
    ASSUME NEW b, WellFormed(b)
    PROVE  /\ WellFormed(Keep(b, reachable_set(b)))
           /\ \A input \in AllInputs : Meaning(Keep(b, reachable_set(b)), input) = Meaning(b, input)
<1>1. Closed(b, reachable_set(b))
  BY ReachableClosed
<1>2. WellFormed(Keep(b, reachable_set(b)))
  <2> DEFINE remap == [i \in reachable_set(b) |-> Rank(reachable_set(b), i)]
  <2>1. remap = [i \in reachable_set(b) |-> Rank(reachable_set(b), i)]
    OBVIOUS
  <2> HIDE DEF remap
  <2> QED
    BY <1>1, <2>1, KeptBody
<1> QED
  BY <1>1, <1>2, KeepSame

(***************************************************************************)
(* Constant propagation and dead code elimination leave well-formed bodies.*)
(***************************************************************************)
\* What a map holds of a local.
Facts == Locals \X (Nat \cup {Varies})

LEMMA ConstantsOfOperand ==
    ASSUME NEW op \in Operands, NEW map \in SUBSET Facts
    PROVE  operand_to_const(op, map) \subseteq Nat
<1>1. CASE op.kind = "const"
  BY <1>1 DEF operand_to_const, Operands, Constants
<1>2. CASE op.kind # "const"
  <2>1. \A q \in map : q[2] # Varies => q[2] \in Nat
    BY DEF Facts
  <2> QED
    BY <1>2, <2>1 DEF operand_to_const
<1> QED
  BY <1>1, <1>2

LEMMA ReplacedOperand ==
    ASSUME NEW op \in Operands, NEW map \in SUBSET Facts
    PROVE  replace_operand(op, map) \in Operands
<1>1. operand_to_const(op, map) \subseteq Nat
  BY ConstantsOfOperand
<1>2. CASE op.kind = "read" /\ operand_to_const(op, map) # {}
  <2> DEFINE v == CHOOSE c \in operand_to_const(op, map) : TRUE
  <2>1. v \in Nat
    BY <1>1, <1>2
  <2>2. replace_operand(op, map) = [kind |-> "const", value |-> v]
    BY <1>2 DEF replace_operand
  <2> HIDE DEF v
  <2> QED
    BY <2>1, <2>2 DEF Operands, Constants
<1>3. CASE ~(op.kind = "read" /\ operand_to_const(op, map) # {})
  BY <1>3 DEF replace_operand
<1> QED
  BY <1>2, <1>3

LEMMA ReplacedRvalue ==
    ASSUME NEW rv \in Rvalues, NEW map \in SUBSET Facts
    PROVE  replace_in_rvalue(rv, map) \in Rvalues
<1> DEFINE new == [n \in DOMAIN rv.ops |-> replace_operand(rv.ops[n], map)]
<1>1. CASE rv.kind \in {"ref", "inspect"}
  BY <1>1 DEF replace_in_rvalue
<1>2. CASE rv.kind \notin {"ref", "inspect"}
  <2>1. replace_in_rvalue(rv, map) = [rv EXCEPT !.ops = new]
    BY <1>2 DEF replace_in_rvalue
  <2>2. /\ rv.kind \in Unary \cup Binary /\ rv.ops \in Seq(Operands)
        /\ Len(rv.ops) = IF rv.kind \in Unary THEN 1 ELSE 2
    BY DEF Rvalues
  <2>3. DOMAIN rv.ops = 1..Len(rv.ops) /\ Len(rv.ops) \in Nat
        /\ \A n \in 1..Len(rv.ops) : rv.ops[n] \in Operands
    BY <2>2, ElementOfSeq
  <2>4. new \in [1..Len(rv.ops) -> Operands]
    BY <2>3, ReplacedOperand
  <2> HIDE DEF new
  <2>5. new \in Seq(Operands) /\ Len(new) = Len(rv.ops)
    BY <2>3, <2>4
  <2>6. rv \in [kind : Unary \cup Binary, ops : Seq(Operands)]
    BY DEF Rvalues
  <2>7. [rv EXCEPT !.ops = new] \in [kind : Unary \cup Binary, ops : Seq(Operands)]
        /\ [rv EXCEPT !.ops = new].kind = rv.kind /\ [rv EXCEPT !.ops = new].ops = new
    BY <2>5, <2>6
  <2> QED
    BY <2>1, <2>2, <2>5, <2>7 DEF Rvalues
<1> QED
  BY <1>1, <1>2

LEMMA ReplacedBody ==
    ASSUME NEW b, WellFormed(b), NEW maps \in SUBSET (Nat \X SUBSET Facts)
    PROVE  WellFormed(ReplaceInBody(b, maps))
<1> DEFINE c == ReplaceInBody(b, maps)
           N == Len(b)
           Block == [stmts : Seq(Assignments), term : Terminators(N)]
           map(i) == UNION {m[2] : m \in {q \in maps : q[1] = i}}
           new(stmt, i) == [stmt EXCEPT !.rv = replace_in_rvalue(stmt.rv, map(i))]
           news(i) == [n \in DOMAIN b[i].stmts |-> new(b[i].stmts[n], i)]
<1>1. c = [i \in Blocks(b) |-> [b[i] EXCEPT !.stmts = news(i)]]
  BY DEF ReplaceInBody
<1>2. N \in Nat \ {0} /\ Blocks(b) = 1..N /\ \A i \in 1..N : b[i] \in Block
  BY BodyParts DEF Blocks
<1>3. \A i : map(i) \in SUBSET Facts
  OBVIOUS
<1> HIDE DEF map, c, N
<1>4. ASSUME NEW i \in 1..N PROVE [b[i] EXCEPT !.stmts = news(i)] \in Block
  <2>1. b[i] \in Block /\ b[i].stmts \in Seq(Assignments)
    BY <1>2
  <2>2. ASSUME NEW stmt \in Assignments PROVE new(stmt, i) \in Assignments
    <3>1. stmt \in [local : Locals, field : BOOLEAN, rv : Rvalues]
      BY DEF Assignments
    <3>2. replace_in_rvalue(stmt.rv, map(i)) \in Rvalues
      BY <1>3, <3>1, ReplacedRvalue
    <3> QED
      BY <3>1, <3>2 DEF Assignments
  <2> HIDE DEF new
  <2>3. DOMAIN b[i].stmts = 1..Len(b[i].stmts) /\ Len(b[i].stmts) \in Nat
        /\ \A n \in 1..Len(b[i].stmts) : b[i].stmts[n] \in Assignments
    BY <2>1, ElementOfSeq
  <2>4. news(i) \in [1..Len(b[i].stmts) -> Assignments]
    BY <2>2, <2>3
  <2>5. news(i) \in Seq(Assignments)
    BY <2>3, <2>4
  <2> HIDE DEF news
  <2> QED
    BY <2>1, <2>5
<1> HIDE DEF news
<1>5. c \in [1..N -> Block]
  <2>1. \A i \in 1..N : c[i] = [b[i] EXCEPT !.stmts = news(i)]
    BY <1>1, <1>2
  <2> HIDE DEF Block
  <2> QED
    BY <1>1, <1>2, <1>4, <2>1
<1>6. c \in Seq(Block) /\ Len(c) = N
  <2> HIDE DEF Block
  <2> QED
    BY <1>2, <1>5
<1>7. WellFormed(c)
  BY <1>2, <1>6 DEF WellFormed, N
<1> QED
  BY <1>7 DEF c

\* The body without the assignments to locals that are not used.
Removed(b, used) ==
    [i \in Blocks(b) |->
        [b[i] EXCEPT !.stmts = Retain(@, {n \in DOMAIN @ : @[n].field \/ @[n].local \in used})]]

LEMMA RemovedBody ==
    ASSUME NEW b, WellFormed(b), NEW used
    PROVE  /\ WellFormed(Removed(b, used)) /\ Len(Removed(b, used)) = Len(b)
           /\ Blocks(Removed(b, used)) = Blocks(b)
<1> DEFINE c == Removed(b, used)
           N == Len(b)
           Block == [stmts : Seq(Assignments), term : Terminators(N)]
           live(i) == {n \in DOMAIN b[i].stmts : b[i].stmts[n].field \/ b[i].stmts[n].local \in used}
           news(i) == Retain(b[i].stmts, live(i))
<1>1. c = [i \in Blocks(b) |-> [b[i] EXCEPT !.stmts = news(i)]]
  BY DEF Removed
<1>2. N \in Nat \ {0} /\ Blocks(b) = 1..N /\ \A i \in 1..N : b[i] \in Block
  BY BodyParts DEF Blocks
<1> HIDE DEF N, c
<1>3. ASSUME NEW i \in 1..N PROVE [b[i] EXCEPT !.stmts = news(i)] \in Block
  <2>1. b[i] \in Block /\ b[i].stmts \in Seq(Assignments)
    BY <1>2
  <2>2. DOMAIN b[i].stmts = 1..Len(b[i].stmts)
    BY <2>1, ElementOfSeq
  <2>3. live(i) \in SUBSET (1..Len(b[i].stmts))
    BY <2>2
  <2> HIDE DEF live
  <2>4. news(i) \in Seq(Assignments)
    BY <2>1, <2>3, Retained
  <2> HIDE DEF news
  <2> QED
    BY <2>1, <2>4
<1> HIDE DEF news, Block
<1>4. c \in [1..N -> Block]
  <2>1. \A i \in 1..N : c[i] = [b[i] EXCEPT !.stmts = news(i)]
    BY <1>1, <1>2
  <2>2. DOMAIN c = 1..N /\ c = [i \in DOMAIN c |-> c[i]]
    BY <1>1, <1>2
  <2> QED
    BY <1>3, <2>1, <2>2
<1>5. c \in Seq(Block) /\ Len(c) = N
  <2>1. N \in Nat
    BY <1>2
  <2> QED
    BY ONLY <1>4, <2>1
<1>6. WellFormed(c)
  BY <1>2, <1>5 DEF WellFormed, N, Block
<1>7. Blocks(c) = Blocks(b)
  BY <1>5 DEF Blocks, N
<1> QED
  BY <1>5, <1>6, <1>7 DEF c, N

\* What an rvalue is known to be, by the number of its operands.
LEMMA ConstantOfOne ==
    ASSUME NEW rv, rv.kind \in Unary, NEW a, rv.ops = <<a>>, NEW map, NEW c
    PROVE  c \in evaluate_rvalue_to_const(rv, map) <=>
               \E v \in operand_to_const(a, map) : c \in Fold(rv.kind, <<v>>)
<1>1. rv.ops[1] = a
  OBVIOUS
<1>2. evaluate_rvalue_to_const(rv, map) = UNION {Fold(rv.kind, <<v>>) : v \in operand_to_const(a, map)}
  BY <1>1 DEF evaluate_rvalue_to_const
<1> QED
  BY <1>2

LEMMA ConstantOfTwo ==
    ASSUME NEW rv, rv.kind \in Binary, NEW a, NEW b, rv.ops = <<a, b>>, NEW map, NEW c
    PROVE  c \in evaluate_rvalue_to_const(rv, map) <=>
               \E v \in operand_to_const(a, map), w \in operand_to_const(b, map) : c \in Fold(rv.kind, <<v, w>>)
<1> DEFINE A == operand_to_const(a, map)
           B == operand_to_const(b, map)
           All == {Fold(rv.kind, <<p[1], p[2]>>) : p \in A \X B}
<1>1. rv.ops[1] = a /\ rv.ops[2] = b /\ rv.kind \notin Unary
  BY DEF Unary, Binary
<1>2. evaluate_rvalue_to_const(rv, map) = UNION All
  BY <1>1 DEF evaluate_rvalue_to_const
<1> HIDE DEF A, B
<1>3. ASSUME NEW v \in A, NEW w \in B PROVE Fold(rv.kind, <<v, w>>) \in All
  <2>1. <<v, w>> \in A \X B /\ <<v, w>>[1] = v /\ <<v, w>>[2] = w
    OBVIOUS
  <2> QED
    BY <2>1
<1>4. ASSUME NEW s \in All PROVE \E v \in A, w \in B : s = Fold(rv.kind, <<v, w>>)
  <2>1. PICK p \in A \X B : s = Fold(rv.kind, <<p[1], p[2]>>)
    BY <1>4
  <2>2. p[1] \in A /\ p[2] \in B
    OBVIOUS
  <2> QED
    BY <2>1, <2>2
<1> HIDE DEF All
<1> QED
  BY <1>2, <1>3, <1>4 DEF A, B

LEMMA ConstantsOfRvalue ==
    ASSUME NEW rv \in Rvalues, NEW map \in SUBSET Facts
    PROVE  evaluate_rvalue_to_const(rv, map) \subseteq Nat
<1> SUFFICES ASSUME NEW c \in evaluate_rvalue_to_const(rv, map) PROVE c \in Nat
  OBVIOUS
<1>1. CASE rv.kind \in Unary
  <2>1. PICK a \in Operands : rv.ops = <<a>>
    BY <1>1, RvalueParts DEF Unary, Binary
  <2>2. PICK v \in operand_to_const(a, map) : c \in Fold(rv.kind, <<v>>)
    BY <1>1, <2>1, ConstantOfOne
  <2>3. v \in Nat
    BY ConstantsOfOperand
  <2> QED
    BY <1>1, <2>2, <2>3, FoldIsConstant
<1>2. CASE rv.kind \in Binary
  <2>1. PICK a \in Operands, b \in Operands : rv.ops = <<a, b>>
    BY <1>2, RvalueParts DEF Unary, Binary
  <2>2. PICK v \in operand_to_const(a, map), w \in operand_to_const(b, map) : c \in Fold(rv.kind, <<v, w>>)
    BY <1>2, <2>1, ConstantOfTwo
  <2>3. v \in Nat /\ w \in Nat
    BY ConstantsOfOperand
  <2> QED
    BY <1>2, <2>2, <2>3, FoldIsConstant
<1> QED
  BY <1>1, <1>2, RvalueParts

LEMMA Transferred ==
    ASSUME NEW stmt \in Assignments, NEW map \in SUBSET Facts
    PROVE  Transfer(map, stmt) \in SUBSET Facts
<1>1. Forget(map, stmt.local) \in SUBSET Facts
  BY DEF Forget
<1>2. stmt.rv \in Rvalues /\ stmt.local \in Locals
  BY DEF Assignments
<1>3. evaluate_rvalue_to_const(stmt.rv, Forget(map, stmt.local)) \subseteq Nat
  BY <1>1, <1>2, ConstantsOfRvalue
<1>4. \A v \in Nat : <<stmt.local, v>> \in Facts
  BY <1>2 DEF Facts
<1> QED
  BY <1>1, <1>3, <1>4 DEF Transfer

LEMMA StatementsTyped ==
    ASSUME NEW b, WellFormed(b)
    PROVE  /\ Statements(b) \subseteq Assignments
           /\ \A i \in Blocks(b) : \A n \in 1..Len(b[i].stmts) : b[i].stmts[n] \in Statements(b)
<1>1. \A i \in Blocks(b) : /\ DOMAIN b[i].stmts = 1..Len(b[i].stmts)
                           /\ \A n \in 1..Len(b[i].stmts) : b[i].stmts[n] \in Assignments
  <2> TAKE i \in Blocks(b)
  <2>1. b[i].stmts \in Seq(Assignments)
    BY BodyParts
  <2> QED
    BY <2>1, ElementOfSeq
<1> QED
  BY <1>1 DEF Statements

\* In a body that assigns every local once no two statements assign the same local, none
\* an argument, and none a local that a call returns to.
LEMMA AssignedOnce ==
    ASSUME NEW b, WellFormed(b), SingleAssignment(b), NEW s \in Statements(b)
    PROVE  /\ \A t \in Statements(b) : s.local = t.local => s = t
           /\ s.local \notin Args
           /\ \A i \in Blocks(b) : b[i].term.kind = "call" => b[i].term.dest # s.local
<1> DEFINE at == UNION {{<<i, n>> : n \in DOMAIN b[i].stmts} : i \in Blocks(b)}
           l == s.local
           assigned == {p \in at : b[p[1]].stmts[p[2]].local = l}
           called == {i \in Blocks(b) : b[i].term.kind = "call" /\ b[i].term.dest = l}
<1>1. l \in Locals
  BY StatementsTyped DEF Assignments
<1>2. Cardinality(assigned) + Cardinality(called) <= IF l \in Args THEN 0 ELSE 1
  BY <1>1 DEF SingleAssignment
<1>3. IsFiniteSet(Blocks(b))
  BY BlocksFinite
<1>4. IsFiniteSet(assigned) /\ Cardinality(assigned) \in Nat /\ IsFiniteSet(called) /\ Cardinality(called) \in Nat
  <2> DEFINE I == [i \in Blocks(b) |-> DOMAIN b[i].stmts]
  <2>1. \A i \in Blocks(b) : IsFiniteSet(DOMAIN b[i].stmts)
    <3> TAKE i \in Blocks(b)
    <3>1. b[i].stmts \in Seq(Assignments)
      BY BodyParts
    <3>2. Len(b[i].stmts) \in Nat /\ DOMAIN b[i].stmts = 1..Len(b[i].stmts)
      BY <3>1
    <3>3. 1 \in Int /\ Len(b[i].stmts) \in Int
      BY <3>2
    <3> QED
      BY <3>2, <3>3, FS_Interval
  <2>2. \A i \in Blocks(b) : IsFiniteSet(I[i])
    BY <2>1
  <2>3. at = UNION {{<<i, n>> : n \in I[i]} : i \in Blocks(b)}
    OBVIOUS
  <2> HIDE DEF I
  <2>4. IsFiniteSet(UNION {{<<i, n>> : n \in I[i]} : i \in Blocks(b)})
    BY <1>3, <2>2, PointsFinitelyMany
  <2>5. assigned \in SUBSET at /\ called \in SUBSET Blocks(b) /\ IsFiniteSet(at)
    BY <2>3, <2>4
  <2> HIDE DEF assigned, called, at
  <2> QED
    BY <1>3, <2>5, FS_Subset, FS_CardinalityType
<1>5. \A x \in assigned, y \in assigned : x = y
  <2> HIDE DEF assigned
  <2> SUFFICES ASSUME NEW x \in assigned, NEW y \in assigned, x # y PROVE FALSE
    OBVIOUS
  <2>1. IsFiniteSet({x}) /\ Cardinality({x}) = 1
    BY FS_Singleton
  <2>2. IsFiniteSet({x} \cup {y}) /\ Cardinality({x} \cup {y}) = 2
    BY <2>1, FS_AddElement
  <2>3. ({x} \cup {y}) \in SUBSET assigned
    OBVIOUS
  <2>4. 2 <= Cardinality(assigned)
    BY <1>4, <2>2, <2>3, FS_Subset
  <2> HIDE DEF called
  <2> QED
    BY <1>2, <1>4, <2>4
<1>6. ASSUME NEW t \in Statements(b), t.local = l
      PROVE  \E q \in assigned : b[q[1]].stmts[q[2]] = t
  <2>1. PICK i \in Blocks(b) : t \in {b[i].stmts[n] : n \in DOMAIN b[i].stmts}
    BY DEF Statements
  <2>2. PICK n \in DOMAIN b[i].stmts : b[i].stmts[n] = t
    BY <2>1
  <2> DEFINE q == <<i, n>>
  <2>3. q \in at /\ q[1] = i /\ q[2] = n
    BY <2>1
  <2> HIDE DEF q, at
  <2> QED
    BY <1>6, <2>2, <2>3
<1>7. PICK p \in assigned : b[p[1]].stmts[p[2]] = s
  BY <1>6
<1> HIDE DEF assigned
<1>8. Cardinality(assigned) # 0
  BY <1>4, <1>7, FS_EmptySet
<1>9. l \notin Args /\ Cardinality(called) = 0
  <2> HIDE DEF called
  <2> QED
    BY <1>2, <1>4, <1>8
<1>10. called = {}
  <2> HIDE DEF called
  <2> QED
    BY <1>4, <1>9, FS_EmptySet
<1>11. \A t \in Statements(b) : s.local = t.local => s = t
  BY <1>5, <1>6, <1>7
<1> QED
  BY <1>9, <1>10, <1>11

(***************************************************************************)
(* What can be known of a body: the constants found from its statements,   *)
(* and that nothing is known.                                              *)
(***************************************************************************)
Known(b) == Found(b) \cup (Locals \X {Varies})

\* When folds are exact every constant comes from the statement that assigns the local,
\* and is a value.
LEMMA FoundIs ==
    ASSUME NEW b, WellFormed(b), FoldsAreExact(b), NEW fact \in Found(b)
    PROVE  /\ fact \in Locals \X Values
           /\ \E stmt \in Statements(b) : /\ stmt.local = fact[1] /\ ~stmt.field
                                          /\ fact[2] \in evaluate_rvalue_to_const(stmt.rv, Found(b))
<1>1. fact \in Derived(b, Found(b))
  BY DEF FoldsAreExact
<1>2. PICK s \in {t \in Statements(b) : ~t.field} :
          fact \in {<<s.local, c>> : c \in evaluate_rvalue_to_const(s.rv, Found(b))}
  BY <1>1 DEF Derived
<1>3. PICK c \in evaluate_rvalue_to_const(s.rv, Found(b)) : fact = <<s.local, c>>
  BY <1>2
<1>4. s \in Statements(b) /\ ~s.field /\ fact[1] = s.local /\ fact[2] = c
  BY <1>2, <1>3
<1>5. s.local \in Locals
  BY <1>4, StatementsTyped DEF Assignments
<1>6. c \in 0..(IF s.rv.kind = "narrow" THEN 1 ELSE Size - 1)
  BY <1>4 DEF FoldsAreExact
<1>7. c \in Values
  BY <1>6, OptAssumption DEF Values
<1> QED
  BY <1>3, <1>4, <1>5, <1>7

LEMMA KnownIs ==
    ASSUME NEW b, WellFormed(b), FoldsAreExact(b)
    PROVE  /\ Known(b) \in SUBSET Facts
           /\ \A fact \in Known(b) : fact[1] \in Locals
           /\ \A fact \in Known(b) : fact[2] # Varies => fact \in Found(b) /\ fact[2] \in Values
<1>1. \A fact \in Found(b) : fact \in Locals \X Values
  BY FoundIs
<1>2. Values \subseteq Nat
  BY OptAssumption DEF Values
<1>3. \A fact \in Locals \X Values : fact \in Facts /\ fact[1] \in Locals /\ fact[2] \in Values
  BY <1>2 DEF Facts
<1>4. \A fact \in Locals \X {Varies} : fact \in Facts /\ fact[1] \in Locals /\ fact[2] = Varies
  BY DEF Facts
<1> QED
  BY <1>1, <1>3, <1>4 DEF Known

\* What is known gives only what is found.
LEMMA OperandFound ==
    ASSUME NEW b, WellFormed(b), FoldsAreExact(b), NEW from \in SUBSET Known(b), NEW op
    PROVE  operand_to_const(op, from) \subseteq operand_to_const(op, Found(b))
<1>1. CASE op.kind = "const"
  BY <1>1 DEF operand_to_const
<1>2. CASE op.kind # "const"
  <2> SUFFICES ASSUME NEW c \in operand_to_const(op, from) PROVE c \in operand_to_const(op, Found(b))
    OBVIOUS
  <2>1. PICK q \in from : ~op.field /\ q[1] = op.local /\ q[2] # Varies /\ c = q[2]
    BY <1>2 DEF operand_to_const
  <2>2. q \in Found(b)
    BY <2>1, KnownIs
  <2> QED
    BY <1>2, <2>1, <2>2 DEF operand_to_const
<1> QED
  BY <1>1, <1>2

LEMMA RvalueFound ==
    ASSUME NEW b, WellFormed(b), FoldsAreExact(b), NEW from \in SUBSET Known(b), NEW rv \in Rvalues
    PROVE  evaluate_rvalue_to_const(rv, from) \subseteq evaluate_rvalue_to_const(rv, Found(b))
<1> SUFFICES ASSUME NEW c \in evaluate_rvalue_to_const(rv, from)
             PROVE  c \in evaluate_rvalue_to_const(rv, Found(b))
  OBVIOUS
<1>1. CASE rv.kind \in Unary
  <2>1. PICK a \in Operands : rv.ops = <<a>>
    BY <1>1, RvalueParts DEF Unary, Binary
  <2>2. PICK v \in operand_to_const(a, from) : c \in Fold(rv.kind, <<v>>)
    BY <1>1, <2>1, ConstantOfOne
  <2>3. v \in operand_to_const(a, Found(b))
    BY OperandFound
  <2> QED
    BY <1>1, <2>1, <2>2, <2>3, ConstantOfOne
<1>2. CASE rv.kind \in Binary
  <2>1. PICK a \in Operands, d \in Operands : rv.ops = <<a, d>>
    BY <1>2, RvalueParts DEF Unary, Binary
  <2>2. PICK v \in operand_to_const(a, from), w \in operand_to_const(d, from) : c \in Fold(rv.kind, <<v, w>>)
    BY <1>2, <2>1, ConstantOfTwo
  <2>3. v \in operand_to_const(a, Found(b)) /\ w \in operand_to_const(d, Found(b))
    BY OperandFound
  <2> QED
    BY <1>2, <2>1, <2>2, <2>3, ConstantOfTwo
<1> QED
  BY <1>1, <1>2, RvalueParts

\* A set of facts that a transfer does not leave.
Keeps(b, F) ==
    /\ F \in SUBSET Facts /\ \A l \in Locals : <<l, Varies>> \in F
    /\ \A map \in SUBSET F, stmt \in Statements(b) : Transfer(map, stmt) \in SUBSET F

LEMMA FactsKept ==
    ASSUME NEW b, WellFormed(b)
    PROVE  Keeps(b, Facts)
<1>1. \A l \in Locals : <<l, Varies>> \in Facts
  BY DEF Facts
<1>2. Statements(b) \subseteq Assignments
  BY StatementsTyped
<1> QED
  BY <1>1, <1>2, Transferred DEF Keeps

LEMMA KnownKept ==
    ASSUME NEW b, WellFormed(b), FoldsAreExact(b)
    PROVE  Keeps(b, Known(b))
<1>1. Known(b) \in SUBSET Facts
  BY KnownIs
<1>2. \A l \in Locals : <<l, Varies>> \in Known(b)
  BY DEF Known
<1>3. ASSUME NEW map \in SUBSET Known(b), NEW stmt \in Statements(b)
      PROVE  Transfer(map, stmt) \in SUBSET Known(b)
  <2> DEFINE rest == Forget(map, stmt.local)
             new == IF stmt.field THEN {}
                    ELSE {<<stmt.local, c>> : c \in evaluate_rvalue_to_const(stmt.rv, rest)}
  <2>1. rest \in SUBSET Known(b) /\ Transfer(map, stmt) = rest \cup new
    BY DEF Forget, Transfer
  <2>2. stmt.rv \in Rvalues
    BY StatementsTyped DEF Assignments
  <2> HIDE DEF rest
  <2>3. evaluate_rvalue_to_const(stmt.rv, rest) \subseteq evaluate_rvalue_to_const(stmt.rv, Found(b))
    BY <2>1, <2>2, RvalueFound
  <2>4. new \subseteq Derived(b, Found(b))
    BY <2>3 DEF Derived
  <2>5. new \subseteq Known(b)
    BY <2>4 DEF FoldsAreExact, Known
  <2> QED
    BY <2>1, <2>5
<1> QED
  BY <1>1, <1>2, <1>3 DEF Keeps

LEMMA Merged ==
    ASSUME NEW b, NEW F, Keeps(b, F), NEW maps \in SUBSET SUBSET F
    PROVE  merge_maps(maps) \in SUBSET F
<1>1. UNION maps \in SUBSET F /\ F \in SUBSET Facts
  BY DEF Keeps
<1>2. \A pair \in Facts : pair[1] \in Locals
  BY DEF Facts
<1>3. Keys(UNION maps) \subseteq Locals
  BY <1>1, <1>2 DEF Keys
<1>4. \A l \in Locals : <<l, Varies>> \in F
  BY DEF Keeps
<1> QED
  <2> DEFINE all == UNION maps
             differ == {l \in Keys(all) : \E p, q \in all : p[1] = l /\ q[1] = l /\ p # q}
  <2>1. merge_maps(maps) = {pair \in all : pair[1] \notin differ} \cup {<<l, Varies>> : l \in differ}
    BY DEF merge_maps
  <2>2. differ \subseteq Locals /\ all \in SUBSET F
    BY <1>1, <1>3
  <2> HIDE DEF all, differ
  <2> QED
    BY <1>4, <2>1, <2>2

\* What constant_prop has for the blocks when all of it is in F.
Maps(F) == SUBSET (Nat \X SUBSET F)

LEMMA OutMapKept ==
    ASSUME NEW b, WellFormed(b), NEW F, Keeps(b, F), NEW maps \in Maps(F), NEW i \in Blocks(b)
    PROVE  OutMap(b, maps, i) \in SUBSET F
<1> DEFINE stmts == b[i].stmts
           N == Len(stmts)
           D == SUBSET F
           first == merge_maps({m[2] : m \in {q \in maps : q[1] \in Preds(b, i)}})
           step == [kx \in (1..N) \X D |-> Transfer(kx[2], stmts[kx[1]])]
           after[n \in 0..N] == IF n = 0 THEN first ELSE Transfer(after[n - 1], stmts[n])
<1>1. OutMap(b, maps, i) = after[N]
  BY DEF OutMap
<1>2. N \in Nat /\ \A k \in 1..N : stmts[k] \in Statements(b)
  <2>1. stmts \in Seq(Assignments)
    BY BodyParts
  <2> QED
    BY <2>1, StatementsTyped
<1>3. \A k \in 1..N : \A x \in D : step[<<k, x>>] = Transfer(x, stmts[k]) /\ Transfer(x, stmts[k]) \in D
  BY <1>2 DEF Keeps
<1>4. first \in D
  <2>1. {m[2] : m \in {q \in maps : q[1] \in Preds(b, i)}} \in SUBSET D
    BY DEF Maps
  <2> QED
    BY <2>1, Merged
<1> HIDE DEF N, D, step, after, first, stmts
<1>5. PICK f \in [0..N -> D] : f[0] = first /\ \A k \in 1..N : f[k] = step[<<k, f[k - 1]>>]
  <2>1. \A k \in 1..N : \A x \in D : step[<<k, x>>] \in D
    BY <1>3
  <2>2. \E f : Steps(f, D, first, step, N)
    BY <1>2, <1>4, <2>1, StepsExist, Zenon
  <2> QED
    BY <2>2 DEF Steps
<1>6. \A k \in 1..N : f[k] = Transfer(f[k - 1], stmts[k])
  <2>1. \A k \in 1..N : k - 1 \in 0..N
    BY <1>2
  <2> QED
    BY <1>3, <1>5, <2>1
<1>7. f = [k \in 0..N |-> IF k = 0 THEN first ELSE Transfer(f[k - 1], stmts[k])]
  <2>1. \A k \in 0..N : k # 0 => k \in 1..N
    BY <1>2
  <2> QED
    BY <1>5, <1>6, <2>1
<1>8. after = [k \in 0..N |-> IF k = 0 THEN first ELSE Transfer(after[k - 1], stmts[k])]
  BY <1>7 DEF after
<1> DEFINE S == {k \in Nat : after[k] \in D}
<1>9. 0 \in S
  BY <1>2, <1>4, <1>8
<1>10. ASSUME NEW k \in 0..(N - 1), k \in S PROVE k + 1 \in S
  <2>1. k + 1 \in 0..N /\ k + 1 # 0 /\ (k + 1) - 1 = k /\ k + 1 \in 1..N /\ k + 1 \in Nat
    BY <1>2
  <2>2. after[k + 1] = Transfer(after[k], stmts[k + 1])
    BY <1>8, <2>1
  <2> QED
    BY <1>3, <1>10, <2>1, <2>2
<1> HIDE DEF S
<1>11. N \in S
  <2>1. \A k \in 0..N : k \in S
    BY <1>2, <1>9, <1>10, UpTo
  <2> QED
    BY <1>2, <2>1
<1> QED
  BY <1>1, <1>11 DEF S, D

LEMMA VisitKept ==
    ASSUME NEW b, WellFormed(b), NEW F, Keeps(b, F), NEW maps \in Maps(F), NEW i \in Blocks(b)
    PROVE  Visit(b, maps, i) \in Maps(F)
<1>1. OutMap(b, maps, i) \in SUBSET F /\ i \in Nat
  BY OutMapKept DEF Blocks
<1>2. Forget(maps, i) \in Maps(F)
  BY DEF Forget, Maps
<1>3. Forget(maps, i) \cup {<<i, OutMap(b, maps, i)>>} \in Maps(F)
  BY <1>1, <1>2 DEF Maps
<1> QED
  BY <1>3 DEF Visit

LEMMA SweepKept ==
    ASSUME NEW b, WellFormed(b), NEW F, Keeps(b, F), NEW maps \in Maps(F)
    PROVE  Sweep(b, maps) \in Maps(F)
<1> DEFINE N == Len(b)
           D == Maps(F)
           step == [kx \in (1..N) \X D |-> Visit(b, kx[2], kx[1])]
           after[n \in 0..N] == IF n = 0 THEN maps ELSE Visit(b, after[n - 1], n)
<1>1. Sweep(b, maps) = after[N]
  BY DEF Sweep
<1>2. N \in Nat /\ Blocks(b) = 1..N
  BY BodyParts DEF Blocks
<1>3. \A k \in 1..N : \A x \in D : step[<<k, x>>] = Visit(b, x, k) /\ Visit(b, x, k) \in D
  BY <1>2, VisitKept
<1>4. maps \in D
  OBVIOUS
<1> HIDE DEF N, D, step, after
<1>5. PICK f \in [0..N -> D] : f[0] = maps /\ \A k \in 1..N : f[k] = step[<<k, f[k - 1]>>]
  <2>1. \A k \in 1..N : \A x \in D : step[<<k, x>>] \in D
    BY <1>3
  <2>2. \E f : Steps(f, D, maps, step, N)
    BY <1>2, <1>4, <2>1, StepsExist, Zenon
  <2> QED
    BY <2>2 DEF Steps
<1>6. \A k \in 1..N : f[k] = Visit(b, f[k - 1], k)
  <2>1. \A k \in 1..N : k - 1 \in 0..N
    BY <1>2
  <2> QED
    BY <1>3, <1>5, <2>1
<1>7. f = [k \in 0..N |-> IF k = 0 THEN maps ELSE Visit(b, f[k - 1], k)]
  <2>1. \A k \in 0..N : k # 0 => k \in 1..N
    BY <1>2
  <2> QED
    BY <1>5, <1>6, <2>1
<1>8. after = [k \in 0..N |-> IF k = 0 THEN maps ELSE Visit(b, after[k - 1], k)]
  BY <1>7 DEF after
<1> DEFINE S == {k \in Nat : after[k] \in D}
<1>9. 0 \in S
  BY <1>2, <1>4, <1>8
<1>10. ASSUME NEW k \in 0..(N - 1), k \in S PROVE k + 1 \in S
  <2>1. k + 1 \in 0..N /\ k + 1 # 0 /\ (k + 1) - 1 = k /\ k + 1 \in 1..N /\ k + 1 \in Nat
    BY <1>2
  <2>2. after[k + 1] = Visit(b, after[k], k + 1)
    BY <1>8, <2>1
  <2> QED
    BY <1>3, <1>10, <2>1, <2>2
<1> HIDE DEF S
<1>11. N \in S
  <2>1. \A k \in 0..N : k \in S
    BY <1>2, <1>9, <1>10, UpTo
  <2> QED
    BY <1>2, <2>1
<1> QED
  BY <1>1, <1>11 DEF S, D

\* What the locals can hold if all that is known of the body is true: a local that is
\* known to be a constant holds it or nothing yet.
Possible(b) ==
    {env \in Envs : \A fact \in Known(b) : fact[2] # Varies => env[fact[1]] \in {Uninit, fact[2]}}

LEMMA OperandKnown ==
    ASSUME NEW b, NEW env \in Possible(b), NEW from \in SUBSET Known(b),
           NEW op \in Operands, op.kind = "read", NEW c \in operand_to_const(op, from)
    PROVE  Read(op, env) \in {Uninit, c}
<1>1. PICK q \in from : q[1] = op.local /\ q[2] # Varies /\ c = q[2]
  BY DEF operand_to_const
<1>2. env[q[1]] \in {Uninit, q[2]}
  BY <1>1 DEF Possible
<1> QED
  BY <1>1, <1>2 DEF Read

\* The operands of a statement: a constant that is found for one is its value.
LEMMA StatementOperand ==
    ASSUME NEW b, WellFormed(b), FoldsAreExact(b), NEW env \in Possible(b), NEW s \in Statements(b),
           NEW n \in DOMAIN s.rv.ops, NEW c \in operand_to_const(s.rv.ops[n], Found(b))
    PROVE  Read(s.rv.ops[n], env) \in {Uninit, c} /\ c \in Values
<1> DEFINE op == s.rv.ops[n]
<1>1. op \in Operands
  <2>1. s.rv.ops \in Seq(Operands)
    BY StatementsTyped DEF Assignments, Rvalues
  <2> QED
    BY <2>1
<1>2. CASE op.kind = "const"
  <2>1. c = op.value /\ Read(op, env) = op.value % Size
    BY <1>2 DEF operand_to_const, Read
  <2>2. op.value \in Nat /\ op.value < Size
    BY <1>1, <1>2 DEF Operands, Constants, FoldsAreExact
  <2>3. op.value \in Values
    BY <2>2, OptAssumption DEF Values
  <2> QED
    BY <2>1, <2>3, ModOfSmall
<1>3. CASE op.kind # "const"
  <2>1. op.kind = "read" /\ Found(b) \in SUBSET Known(b)
    BY <1>1, <1>3 DEF Operands, Known
  <2>2. Read(op, env) \in {Uninit, c}
    BY <1>1, <2>1, OperandKnown
  <2>3. PICK q \in Found(b) : c = q[2]
    BY <1>3 DEF operand_to_const
  <2>4. q \in Locals \X Values
    BY FoundIs
  <2> QED
    BY <2>2, <2>3, <2>4
<1> QED
  BY <1>2, <1>3

\* A constant that is found for an rvalue is what the rvalue evaluates to.
LEMMA EvaluatedAsKnown ==
    ASSUME NEW b, WellFormed(b), FoldsAreExact(b), NEW env \in Possible(b), NEW s \in Statements(b),
           ~s.field, NEW c \in evaluate_rvalue_to_const(s.rv, Found(b))
    PROVE  Evaluate(s.rv, env) \in {Uninit, c}
<1> DEFINE rv == s.rv
<1>1. rv \in Rvalues
  BY StatementsTyped DEF Assignments
<1>2. rv.kind # "repeat" /\ c \in 0..(IF rv.kind = "narrow" THEN 1 ELSE Size - 1)
  BY DEF FoldsAreExact
<1>3. CASE rv.kind \in Unary
  <2>1. PICK a \in Operands : rv.ops = <<a>>
    BY <1>1, <1>3, RvalueParts DEF Unary, Binary
  <2>2. PICK v \in operand_to_const(a, Found(b)) : c \in Fold(rv.kind, <<v>>)
    BY <1>3, <2>1, ConstantOfOne
  <2>3. 1 \in DOMAIN rv.ops /\ rv.ops[1] = a
    BY <2>1
  <2>4. Read(a, env) \in {Uninit, v} /\ v \in Values
    BY <2>3, StatementOperand
  <2>5. Compute(rv.kind, <<v>>) \in {Uninit, c}
    BY <1>2, <1>3, <2>2, <2>4, FoldIsExact
  <2>6. Evaluate(rv, env) = IF Read(a, env) = Uninit THEN Uninit ELSE Compute(rv.kind, <<Read(a, env)>>)
    BY <2>1, OneOperand
  <2> QED
    BY <2>4, <2>5, <2>6
<1>4. CASE rv.kind \in Binary
  <2>1. PICK a \in Operands, d \in Operands : rv.ops = <<a, d>>
    BY <1>1, <1>4, RvalueParts DEF Unary, Binary
  <2>2. PICK v \in operand_to_const(a, Found(b)), w \in operand_to_const(d, Found(b)) :
            c \in Fold(rv.kind, <<v, w>>)
    BY <1>4, <2>1, ConstantOfTwo
  <2>3. 1 \in DOMAIN rv.ops /\ rv.ops[1] = a /\ 2 \in DOMAIN rv.ops /\ rv.ops[2] = d
    BY <2>1
  <2>4. Read(a, env) \in {Uninit, v} /\ v \in Values /\ Read(d, env) \in {Uninit, w} /\ w \in Values
    BY <2>3, StatementOperand
  <2>5. c \in 0..(Size - 1)
    BY <1>2, <1>4 DEF Binary
  <2>6. Compute(rv.kind, <<v, w>>) \in {Uninit, c}
    BY <1>4, <2>2, <2>4, <2>5, FoldIsExact
  <2>7. Evaluate(rv, env) = IF Read(a, env) = Uninit \/ Read(d, env) = Uninit THEN Uninit
                            ELSE Compute(rv.kind, <<Read(a, env), Read(d, env)>>)
    BY <2>1, TwoOperands
  <2> QED
    BY <2>4, <2>6, <2>7
<1> QED
  BY <1>1, <1>3, <1>4, RvalueParts

\* What is known stays true: on entry, after a statement, and after a call.
LEMMA EntryPossible ==
    ASSUME NEW b, WellFormed(b), SingleAssignment(b), FoldsAreExact(b), NEW input \in AllInputs
    PROVE  Entry(input).env \in Possible(b)
<1>1. Entry(input).env \in Envs
  BY EntryValue DEF Configs
<1>2. ASSUME NEW fact \in Known(b), fact[2] # Varies PROVE Entry(input).env[fact[1]] = Uninit
  <2>1. PICK s \in Statements(b) : s.local = fact[1]
    BY <1>2, KnownIs, FoundIs
  <2>2. fact[1] \notin Args /\ fact[1] \in Locals
    BY <2>1, KnownIs, AssignedOnce
  <2> QED
    BY <2>2 DEF Entry, Goto
<1> QED
  BY <1>1, <1>2 DEF Possible

LEMMA AssignPossible ==
    ASSUME NEW b, WellFormed(b), SingleAssignment(b), FoldsAreExact(b), NEW stmt \in Statements(b), NEW env \in Possible(b)
    PROVE  Assign(env, stmt) \in Possible(b)
<1>1. stmt \in Assignments /\ env \in Envs /\ stmt.local \in Locals /\ stmt.rv \in Rvalues
  BY StatementsTyped DEF Possible, Assignments
<1>2. Assign(env, stmt) \in Envs
  BY <1>1, AssignValue
<1>3. ASSUME NEW fact \in Known(b), fact[2] # Varies
      PROVE  Assign(env, stmt)[fact[1]] \in {Uninit, fact[2]}
  <2>1. CASE fact[1] # stmt.local
    <3>1. env[fact[1]] \in {Uninit, fact[2]}
      BY <1>3 DEF Possible
    <3>2. Assign(env, stmt)[fact[1]] = env[fact[1]]
      BY <1>1, <2>1 DEF Assign, Envs
    <3> QED
      BY <3>1, <3>2
  <2>2. CASE fact[1] = stmt.local
    <3>1. PICK s \in Statements(b) : /\ s.local = fact[1] /\ ~s.field
                                     /\ fact[2] \in evaluate_rvalue_to_const(s.rv, Found(b))
      BY <1>3, KnownIs, FoundIs
    <3>2. s = stmt
      BY <2>2, <3>1, AssignedOnce
    <3>3. Evaluate(stmt.rv, env) \in {Uninit, fact[2]}
      BY <3>1, <3>2, EvaluatedAsKnown
    <3>4. Assign(env, stmt)[stmt.local] = Evaluate(stmt.rv, env)
      BY <1>1 DEF Assign, Envs
    <3> QED
      BY <2>2, <3>3, <3>4
  <2> QED
    BY <2>1, <2>2
<1> QED
  BY <1>2, <1>3 DEF Possible

LEMMA CallPossible ==
    ASSUME NEW b, WellFormed(b), SingleAssignment(b), FoldsAreExact(b), NEW env \in Possible(b),
           NEW i \in Blocks(b), b[i].term.kind = "call", NEW v \in Values
    PROVE  [env EXCEPT ![b[i].term.dest] = v] \in Possible(b)
<1> DEFINE l == b[i].term.dest
           next == [env EXCEPT ![l] = v]
<1>1. env \in Envs /\ next \in Envs
  BY DEF Possible, Envs
<1>2. ASSUME NEW fact \in Known(b), fact[2] # Varies PROVE next[fact[1]] \in {Uninit, fact[2]}
  <2>1. PICK s \in Statements(b) : s.local = fact[1]
    BY <1>2, KnownIs, FoundIs
  <2>2. fact[1] # l
    BY <2>1, AssignedOnce
  <2>3. env[fact[1]] \in {Uninit, fact[2]}
    BY <1>2 DEF Possible
  <2> QED
    BY <1>1, <2>2, <2>3 DEF Envs
<1> HIDE DEF next
<1>3. next \in Possible(b)
  BY <1>1, <1>2 DEF Possible
<1> QED
  BY <1>3 DEF next

(***************************************************************************)
(* Replacement.  The body with its constants runs next to the source: a    *)
(* local of the source holds what it holds there or nothing yet.           *)
(***************************************************************************)
Refines(env, other) == \A l \in Locals : env[l] \in {Uninit, other[l]}

LEMMA OperandReplaced ==
    ASSUME NEW b, WellFormed(b), FoldsAreExact(b), NEW env \in Possible(b), NEW other \in Envs, Refines(env, other),
           NEW map \in SUBSET Known(b), NEW op \in Operands
    PROVE  Read(op, env) \in {Uninit, Read(op, other), Read(replace_operand(op, map), other)}
           /\ Read(op, env) \in {Uninit, Read(op, other)}
           /\ Read(op, env) \in {Uninit, Read(replace_operand(op, map), other)}
<1>1. Read(op, env) \in {Uninit, Read(op, other)}
  BY DEF Read, Refines, Operands
<1>2. CASE op.kind = "read" /\ operand_to_const(op, map) # {}
  <2> DEFINE v == CHOOSE c \in operand_to_const(op, map) : TRUE
  <2>1. v \in operand_to_const(op, map)
    BY <1>2
  <2>2. replace_operand(op, map) = [kind |-> "const", value |-> v]
    BY <1>2 DEF replace_operand
  <2> HIDE DEF v
  <2>3. Read(op, env) \in {Uninit, v}
    BY <1>2, <2>1, OperandKnown
  <2>4. v \in Values
    BY <1>2, <2>1, KnownIs DEF operand_to_const
  <2>5. Read(replace_operand(op, map), other) = v
    BY <2>2, <2>4, ModOfSmall DEF Read
  <2> QED
    BY <1>1, <2>3, <2>5
<1>3. CASE ~(op.kind = "read" /\ operand_to_const(op, map) # {})
  BY <1>1, <1>3 DEF replace_operand
<1> QED
  BY <1>2, <1>3

LEMMA RvalueReplaced ==
    ASSUME NEW b, WellFormed(b), FoldsAreExact(b), NEW env \in Possible(b), NEW other \in Envs, Refines(env, other),
           NEW map \in SUBSET Known(b), NEW rv \in Rvalues
    PROVE  Evaluate(rv, env) \in {Uninit, Evaluate(replace_in_rvalue(rv, map), other)}
<1> DEFINE new == replace_in_rvalue(rv, map)
           ops == [n \in DOMAIN rv.ops |-> replace_operand(rv.ops[n], map)]
<1>1. CASE \E a \in Operands : rv.ops = <<a>>
  <2>1. PICK a \in Operands : rv.ops = <<a>>
    BY <1>1
  <2>2. PICK d \in {a, replace_operand(a, map)} : new.ops = <<d>> /\ new.kind = rv.kind
    <3>1. CASE rv.kind \in {"ref", "inspect"}
      BY <2>1, <3>1 DEF replace_in_rvalue
    <3>2. CASE rv.kind \notin {"ref", "inspect"}
      <4>1. new = [rv EXCEPT !.ops = ops]
        BY <3>2 DEF replace_in_rvalue
      <4>2. ops = <<replace_operand(a, map)>>
        BY <2>1
      <4> HIDE DEF new, ops
      <4>3. new.ops = ops /\ new.kind = rv.kind
        BY <4>1 DEF Rvalues
      <4> QED
        BY <4>2, <4>3
    <3> QED
      BY <3>1, <3>2
  <2>3. Read(a, env) \in {Uninit, Read(d, other)}
    BY <2>2, OperandReplaced
  <2> HIDE DEF new
  <2>4. Evaluate(new, other) =
            IF Read(d, other) = Uninit THEN Uninit ELSE Compute(new.kind, <<Read(d, other)>>)
    BY <2>2, OneOperand
  <2>5. Evaluate(rv, env) =
            IF Read(a, env) = Uninit THEN Uninit ELSE Compute(rv.kind, <<Read(a, env)>>)
    BY <2>1, OneOperand
  <2>6. Evaluate(rv, env) \in {Uninit, Evaluate(new, other)}
    BY <2>2, <2>3, <2>4, <2>5
  <2> QED
    BY <2>6 DEF new
<1>2. CASE \E a, e \in Operands : rv.ops = <<a, e>> /\ rv.kind \in Binary
  <2>1. PICK a \in Operands, e \in Operands : rv.ops = <<a, e>> /\ rv.kind \in Binary
    BY <1>2
  <2> DEFINE p == replace_operand(a, map)
             q == replace_operand(e, map)
  <2>2. new.ops = <<p, q>> /\ new.kind = rv.kind
    <3>1. new = [rv EXCEPT !.ops = ops]
      BY <2>1 DEF replace_in_rvalue, Binary
    <3>2. ops = <<p, q>>
      BY <2>1
    <3> HIDE DEF new, ops
    <3>3. new.ops = ops /\ new.kind = rv.kind
      BY <3>1 DEF Rvalues
    <3> QED
      BY <3>2, <3>3
  <2>3. Read(a, env) \in {Uninit, Read(p, other)} /\ Read(e, env) \in {Uninit, Read(q, other)}
    BY OperandReplaced
  <2> HIDE DEF new, p, q
  <2>4. Evaluate(new, other) =
            IF Read(p, other) = Uninit \/ Read(q, other) = Uninit THEN Uninit
            ELSE Compute(new.kind, <<Read(p, other), Read(q, other)>>)
    BY <2>2, TwoOperands
  <2>5. Evaluate(rv, env) =
            IF Read(a, env) = Uninit \/ Read(e, env) = Uninit THEN Uninit
            ELSE Compute(rv.kind, <<Read(a, env), Read(e, env)>>)
    BY <2>1, TwoOperands
  <2>6. Evaluate(rv, env) \in {Uninit, Evaluate(new, other)}
    BY <2>2, <2>3, <2>4, <2>5
  <2> QED
    BY <2>6 DEF new
<1> QED
  BY <1>1, <1>2, RvalueParts

\* The statements of a block and what replacement makes of them.
Replaced(stmts, map) ==
    [n \in DOMAIN stmts |-> [stmts[n] EXCEPT !.rv = replace_in_rvalue(@, map)]]

LEMMA ExecuteReplaced ==
    ASSUME NEW b, WellFormed(b), SingleAssignment(b), FoldsAreExact(b), NEW map \in SUBSET Known(b),
           NEW stmts \in Seq(Assignments), \A n \in 1..Len(stmts) : stmts[n] \in Statements(b),
           NEW env \in Possible(b), NEW other \in Envs, Refines(env, other)
    PROVE  /\ Execute(env, stmts) \in Possible(b) /\ Execute(other, Replaced(stmts, map)) \in Envs
           /\ Refines(Execute(env, stmts), Execute(other, Replaced(stmts, map)))
<1> DEFINE N == Len(stmts)
           news == Replaced(stmts, map)
<1>1. N \in Nat /\ DOMAIN stmts = 1..N /\ \A n \in 1..N : stmts[n] \in Assignments
  BY ElementOfSeq
<1>2. ASSUME NEW n \in 1..N
      PROVE  /\ news[n] \in Assignments /\ news[n].local = stmts[n].local
             /\ news[n].rv = replace_in_rvalue(stmts[n].rv, map)
  <2>1. news[n] = [stmts[n] EXCEPT !.rv = replace_in_rvalue(stmts[n].rv, map)]
    BY <1>1 DEF Replaced
  <2>2. stmts[n] \in [local : Locals, field : BOOLEAN, rv : Rvalues]
    BY <1>1 DEF Assignments
  <2>3. map \in SUBSET Facts
    BY KnownIs
  <2>4. replace_in_rvalue(stmts[n].rv, map) \in Rvalues
    BY <2>2, <2>3, ReplacedRvalue
  <2> QED
    BY <2>1, <2>2, <2>4 DEF Assignments
<1>3. news \in Seq(Assignments) /\ Len(news) = N
  <2>1. DOMAIN news = 1..N /\ news = [n \in 1..N |-> news[n]]
    BY <1>1 DEF Replaced
  <2>2. news \in [1..N -> Assignments]
    BY <1>2, <2>1
  <2> HIDE DEF news, N
  <2> QED
    BY <1>1, <2>2
<1>4. env \in Envs
  BY DEF Possible
<1>5. PICK f : IsExecution(f, env, stmts) /\ Execute(env, stmts) = f[N]
  BY <1>4, ExecutionExists
<1>6. PICK g : IsExecution(g, other, news) /\ Execute(other, news) = g[N]
  BY <1>3, ExecutionExists
<1> HIDE DEF news
<1> DEFINE S == {n \in Nat : f[n] \in Possible(b) /\ Refines(f[n], g[n])}
<1>7. 0 \in S
  BY <1>5, <1>6 DEF IsExecution
<1>8. ASSUME NEW n \in 0..(N - 1), n \in S PROVE n + 1 \in S
  <2>1. n + 1 \in 1..N /\ (n + 1) - 1 = n /\ n + 1 \in Nat /\ n \in 0..N
    BY <1>1
  <2>2. f[n + 1] = Assign(f[n], stmts[n + 1])
    BY <1>5, <2>1 DEF IsExecution
  <2>3. g[n + 1] = Assign(g[n], news[n + 1]) /\ g[n] \in Envs
    BY <1>3, <1>6, <2>1 DEF IsExecution
  <2>4. f[n] \in Possible(b) /\ Refines(f[n], g[n]) /\ f[n] \in Envs
    BY <1>8 DEF Possible
  <2>5. f[n + 1] \in Possible(b)
    BY <2>1, <2>2, <2>4, AssignPossible
  <2> DEFINE s == stmts[n + 1]
             t == news[n + 1]
  <2>6. s \in Assignments /\ t.local = s.local /\ t.rv = replace_in_rvalue(s.rv, map)
    BY <1>1, <1>2, <2>1
  <2> HIDE DEF s, t
  <2>7. s.local \in Locals /\ s.rv \in Rvalues
    BY <2>6 DEF Assignments
  <2>8. Evaluate(s.rv, f[n]) \in {Uninit, Evaluate(t.rv, g[n])}
    BY <2>3, <2>4, <2>6, <2>7, RvalueReplaced
  <2>9. Refines(Assign(f[n], s), Assign(g[n], t))
    BY <2>3, <2>4, <2>6, <2>7, <2>8 DEF Assign, Refines, Envs
  <2> QED
    BY <2>1, <2>2, <2>3, <2>5, <2>9 DEF s, t
<1> HIDE DEF S
<1>9. N \in S
  <2>1. \A n \in 0..N : n \in S
    BY <1>1, <1>7, <1>8, UpTo
  <2> QED
    BY <1>1, <2>1
<1>10. g[N] \in Envs
  BY <1>1, <1>3, <1>6 DEF IsExecution
<1> QED
  BY <1>5, <1>6, <1>9, <1>10 DEF S, news

\* Until something undefined is in them, the events of the source are those of the other.
Matched(events, other) == Tainted(events) \/ events = other

\* x is where the source is and y where the other body is, unless the source ended with
\* something undefined.
Follows(b, x, y) ==
    \/ x.at = 0 /\ Tainted(x.events)
    \/ x.at = y.at /\ x.env \in Possible(b) /\ Refines(x.env, y.env) /\ Matched(x.events, y.events)

LEMMA TaintedAppend ==
    ASSUME NEW events \in Events, NEW how, NEW v
    PROVE  /\ Tainted(events) => Tainted(Append(events, <<how, v>>))
           /\ how = "undefined" \/ v = Uninit => Tainted(Append(events, <<how, v>>))
<1> DEFINE e == <<how, v>>
           new == Append(events, e)
<1>1. e[1] = how /\ e[2] = v
  OBVIOUS
<1> HIDE DEF e
<1>2. Len(events) \in Nat /\ DOMAIN events = 1..Len(events)
  BY DEF Events
<1>3. /\ DOMAIN new = 1..(Len(events) + 1) /\ new[Len(events) + 1] = e
      /\ \A n \in 1..Len(events) : new[n] = events[n]
  <2>1. \E S : events \in Seq(S) /\ e \in S
    <3> DEFINE S == (Whats \X (Values \cup {Uninit})) \cup {e}
    <3>1. events \in Seq(S)
      <4>1. events \in [1..Len(events) -> S]
        BY <1>2 DEF Events
      <4> HIDE DEF S
      <4> QED
        BY <1>2, <4>1
    <3> QED
      BY <3>1
  <2> QED
    BY <2>1, AppendProperties
<1> HIDE DEF new
<1>4. Tainted(events) => Tainted(new)
  <2>1. \A n \in 1..Len(events) : n \in 1..(Len(events) + 1)
    BY <1>2
  <2> QED
    BY <1>2, <1>3, <2>1 DEF Tainted
<1>5. how = "undefined" \/ v = Uninit => Tainted(new)
  <2>1. Len(events) + 1 \in 1..(Len(events) + 1)
    BY <1>2
  <2> QED
    BY <1>1, <1>3, <2>1 DEF Tainted
<1> QED
  BY <1>4, <1>5 DEF new, e

LEMMA MatchedAppend ==
    ASSUME NEW events \in Events, NEW other, Matched(events, other),
           NEW how, NEW w, NEW v \in {Uninit, w}
    PROVE  Matched(Append(events, <<how, v>>), Append(other, <<how, w>>))
<1>1. CASE Tainted(events) \/ v = Uninit
  BY <1>1, TaintedAppend DEF Matched
<1>2. CASE ~Tainted(events) /\ v = w
  BY <1>2 DEF Matched
<1> QED
  BY <1>1, <1>2

LEMMA TerminatorFollows ==
    ASSUME NEW b, WellFormed(b), SingleAssignment(b), FoldsAreExact(b), NEW i \in Blocks(b), NEW input \in AllInputs,
           NEW events \in Events, NEW others \in Events, Matched(events, others),
           NEW env \in Possible(b), NEW other \in Envs, Refines(env, other)
    PROVE  Follows(b, RunTerminator(b[i].term, input, events, env),
                      RunTerminator(b[i].term, input, others, other))
<1> DEFINE t == b[i].term
           v == Read(t.op, env)
           w == Read(t.op, other)
           x == RunTerminator(t, input, events, env)
           y == RunTerminator(t, input, others, other)
<1>1. /\ t.kind \in {"return", "goto", "switch", "drop", "call", "assert"}
      /\ t.op \in Operands /\ t.dest \in Locals
  <2>1. Len(b) \in Nat /\ t \in Terminators(Len(b))
    BY BodyParts
  <2> QED
    BY <2>1, TerminatorParts
<1>2. v \in {Uninit, w} /\ v \in Values \cup {Uninit}
  <2>1. {} \in SUBSET Known(b) /\ env \in Envs
    BY DEF Possible
  <2> QED
    BY <1>1, <2>1, OperandReplaced, OperandValue
<1>3. Matched(Append(events, <<t.kind, v>>), Append(others, <<t.kind, w>>))
  BY <1>2, MatchedAppend
<1>4. Matched(Append(events, <<"unwound", 0>>), Append(others, <<"unwound", 0>>))
  BY MatchedAppend
<1>5. env[0] \in {Uninit, other[0]}
  BY OptAssumption DEF Refines
<1>6. Matched(Append(events, <<"return", env[0]>>), Append(others, <<"return", other[0]>>))
  BY <1>5, MatchedAppend
<1>7. Tainted(Append(events, <<"undefined", 0>>))
  BY TaintedAppend
<1>8. \A at, es, os : Matched(es, os) => Follows(b, Goto(at, es, env), Goto(at, os, other))
  BY DEF Follows, Goto
<1>9. ASSUME NEW es \in {events, Append(events, <<t.kind, v>>)}, NEW os, Matched(es, os),
             es \in Events
      PROVE  Follows(b, Unwind(t, es, env), Unwind(t, os, other))
  <2>1. Matched(Append(es, <<"unwound", 0>>), Append(os, <<"unwound", 0>>))
    BY <1>9, MatchedAppend
  <2> QED
    BY <1>8, <1>9, <2>1 DEF Unwind, Ends
<1>10. t.kind = "call" => Append(events, <<t.kind, v>>) \in Events
  <2>1. t.kind = "call" => <<t.kind, v>> \in Whats \X (Values \cup {Uninit})
    BY <1>2 DEF Whats
  <2> QED
    BY <2>1, AppendProperties DEF Events
<1> HIDE DEF v, w
<1>11. CASE t.kind = "return"
  <2>1. x = Goto(0, Append(events, <<"return", env[0]>>), env)
        /\ y = Goto(0, Append(others, <<"return", other[0]>>), other)
    BY <1>11 DEF RunTerminator, Ends
  <2> QED
    BY <1>6, <1>8, <2>1
<1>12. CASE t.kind = "goto"
  <2>1. x = Goto(t.targets[1], events, env) /\ y = Goto(t.targets[1], others, other)
    BY <1>12 DEF RunTerminator
  <2> QED
    BY <1>8, <2>1
<1>13. CASE t.kind \in {"switch", "assert"} /\ v = Uninit
  <2>1. x = Goto(0, Append(events, <<"undefined", 0>>), env)
    BY <1>13 DEF RunTerminator, Ends, v
  <2> QED
    BY <1>7, <2>1 DEF Follows, Goto
<1>14. CASE t.kind = "switch" /\ v # Uninit
  <2>1. v = w
    BY <1>2, <1>14
  <2>2. /\ x = Goto(t.targets[IF v = 0 THEN 1 ELSE 2], events, env)
        /\ y = Goto(t.targets[IF v = 0 THEN 1 ELSE 2], others, other)
    BY <1>14, <2>1 DEF RunTerminator, v, w
  <2> QED
    BY <1>8, <2>2
<1>15. CASE t.kind = "assert" /\ v # Uninit
  <2>1. v = w
    BY <1>2, <1>15
  <2>2. /\ x = IF v = 1 THEN Goto(t.targets[1], events, env) ELSE Unwind(t, events, env)
        /\ y = IF v = 1 THEN Goto(t.targets[1], others, other) ELSE Unwind(t, others, other)
    BY <1>15, <2>1 DEF RunTerminator, v, w
  <2> QED
    BY <1>8, <1>9, <2>2
<1>16. CASE t.kind = "drop"
  <2>1. x = Goto(t.targets[1], Append(events, <<t.kind, v>>), env)
        /\ y = Goto(t.targets[1], Append(others, <<t.kind, w>>), other)
    BY <1>16 DEF RunTerminator, v, w
  <2> QED
    BY <1>3, <1>8, <2>1
<1>17. CASE t.kind = "call" /\ input.unwinds
  <2>1. x = Unwind(t, Append(events, <<t.kind, v>>), env)
        /\ y = Unwind(t, Append(others, <<t.kind, w>>), other)
    BY <1>17 DEF RunTerminator, v, w
  <2> QED
    BY <1>3, <1>9, <1>10, <1>17, <2>1
<1>18. CASE t.kind = "call" /\ ~input.unwinds
  <2> DEFINE env2 == [env EXCEPT ![t.dest] = input.result]
             other2 == [other EXCEPT ![t.dest] = input.result]
  <2>1. x = Goto(t.targets[1], Append(events, <<t.kind, v>>), env2)
        /\ y = Goto(t.targets[1], Append(others, <<t.kind, w>>), other2)
    BY <1>18 DEF RunTerminator, v, w
  <2>2. env2 \in Possible(b)
    BY <1>18, CallPossible, SmallValues
  <2>3. Refines(env2, other2)
    BY <1>1 DEF Refines, Possible, Envs
  <2> HIDE DEF env2, other2
  <2> QED
    BY <1>3, <2>1, <2>2, <2>3 DEF Follows, Goto
<1> QED
  BY <1>1, <1>11, <1>12, <1>13, <1>14, <1>15, <1>16, <1>17, <1>18

LEMMA ReplacedBlock ==
    ASSUME NEW b, WellFormed(b), NEW F, Keeps(b, F), NEW maps \in Maps(F), NEW i \in Blocks(b)
    PROVE  \E map \in SUBSET F : /\ ReplaceInBody(b, maps)[i].stmts = Replaced(b[i].stmts, map)
                                 /\ ReplaceInBody(b, maps)[i].term = b[i].term
<1> DEFINE map == UNION {m[2] : m \in {q \in maps : q[1] = i}}
           news == Replaced(b[i].stmts, map)
<1>1. map \in SUBSET F
  BY DEF Maps
<1>2. ReplaceInBody(b, maps)[i] = [b[i] EXCEPT !.stmts = news]
  BY DEF ReplaceInBody, Replaced
<1>3. b[i] \in [stmts : Seq(Assignments), term : Terminators(Len(b))]
  BY BodyParts
<1> HIDE DEF map, news
<1>4. ReplaceInBody(b, maps)[i].stmts = news /\ ReplaceInBody(b, maps)[i].term = b[i].term
  BY <1>2, <1>3
<1> QED
  BY <1>1, <1>4 DEF news

LEMMA ReplacedIs ==
    ASSUME NEW b, WellFormed(b), NEW F, Keeps(b, F), NEW maps \in Maps(F)
    PROVE  /\ WellFormed(ReplaceInBody(b, maps)) /\ Len(ReplaceInBody(b, maps)) = Len(b)
           /\ Blocks(ReplaceInBody(b, maps)) = Blocks(b)
<1>1. maps \in SUBSET (Nat \X SUBSET Facts)
  BY DEF Maps, Keeps
<1>2. WellFormed(ReplaceInBody(b, maps))
  BY <1>1, ReplacedBody
<1>3. DOMAIN ReplaceInBody(b, maps) = Blocks(b)
  BY DEF ReplaceInBody
<1>4. Blocks(ReplaceInBody(b, maps)) = Blocks(b)
  BY <1>2, <1>3, BodyParts
<1>5. Len(ReplaceInBody(b, maps)) \in Nat /\ Len(b) \in Nat
  BY <1>2, BodyParts
<1>6. Len(ReplaceInBody(b, maps)) = Len(b)
  BY <1>4, <1>5 DEF Blocks
<1> QED
  BY <1>2, <1>4, <1>6

\* The constants are the values the operands have: putting them in keeps the meaning of
\* a well-defined body that assigns every local once.
LEMMA ReplaceKeeps ==
    ASSUME NEW b, WellFormed(b), SingleAssignment(b), FoldsAreExact(b), WellDefined(b),
           NEW maps \in Maps(Known(b)), NEW input \in AllInputs
    PROVE  Meaning(ReplaceInBody(b, maps), input) = Meaning(b, input)
<1> DEFINE c == ReplaceInBody(b, maps)
           R == {p \in Configs(b) \X Configs(c) : Follows(b, p[1], p[2])}
<1>1. WellFormed(c) /\ Len(c) = Len(b) /\ Blocks(c) = Blocks(b) /\ Keeps(b, Known(b))
  BY KnownKept, ReplacedIs
<1>2. \A i \in Blocks(b) : \E map \in SUBSET Known(b) :
          c[i].stmts = Replaced(b[i].stmts, map) /\ c[i].term = b[i].term
  BY <1>1, ReplacedBlock
<1> HIDE DEF c
<1>3. <<Entry(input), Entry(input)>> \in R
  <2>1. Entry(input) \in Configs(b) /\ Entry(input) \in Configs(c) /\ Entry(input).env \in Possible(b)
    BY <1>1, EntryValue, EntryPossible
  <2>2. Refines(Entry(input).env, Entry(input).env) /\ Matched(Entry(input).events, Entry(input).events)
    BY DEF Refines, Matched
  <2> QED
    BY <2>1, <2>2 DEF Follows
<1>4. ASSUME NEW x \in Configs(b), NEW y \in Configs(c), Follows(b, x, y)
      PROVE  Follows(b, BlockRun(b, input, x), BlockRun(c, input, y))
  <2>1. CASE x.at = 0 /\ Tainted(x.events)
    BY <2>1 DEF BlockRun, Follows
  <2>2. CASE ~(x.at = 0 /\ Tainted(x.events))
    <3>1. /\ x.at = y.at /\ x.env \in Possible(b) /\ Refines(x.env, y.env) /\ Matched(x.events, y.events)
          /\ x.events \in Events /\ y.events \in Events /\ y.env \in Envs
      BY <1>4, <2>2 DEF Follows, Configs
    <3>2. CASE x.at = 0
      BY <1>4, <3>1, <3>2 DEF BlockRun
    <3>3. CASE x.at # 0
      <4> DEFINE i == x.at
                 env == Execute(x.env, b[i].stmts)
                 other == Execute(y.env, c[i].stmts)
      <4>1. i \in Blocks(b)
        BY <3>3, BlockRunValue
      <4>2. PICK map \in SUBSET Known(b) :
                c[i].stmts = Replaced(b[i].stmts, map) /\ c[i].term = b[i].term
        BY <1>2, <4>1
      <4>3. b[i].stmts \in Seq(Assignments) /\ \A n \in 1..Len(b[i].stmts) : b[i].stmts[n] \in Statements(b)
        BY <4>1, BodyParts, StatementsTyped
      <4>4. env \in Possible(b) /\ other \in Envs /\ Refines(env, other)
        BY <3>1, <4>2, <4>3, ExecuteReplaced
      <4>5. BlockRun(b, input, x) = RunTerminator(b[i].term, input, x.events, env)
        BY <3>3 DEF BlockRun
      <4>6. BlockRun(c, input, y) = RunTerminator(b[i].term, input, y.events, other)
        BY <3>1, <3>3, <4>2 DEF BlockRun
      <4> HIDE DEF env, other, i
      <4> QED
        BY <3>1, <4>1, <4>4, <4>5, <4>6, TerminatorFollows
    <3> QED
      BY <3>2, <3>3
  <2> QED
    BY <2>1, <2>2
<1>5. \A x \in Configs(b), y \in Configs(c) :
          <<x, y>> \in R => <<BlockRun(b, input, x), BlockRun(c, input, y)>> \in R
  BY <1>1, <1>4, BlockRunValue
<1>6. \A x, y : <<x, y>> \in R => Follows(b, x, y)
  OBVIOUS
<1> HIDE DEF R
<1>7. IsKept(R, b, input, c, input)
  BY <1>3, <1>5 DEF IsKept
<1>8. PICK x \in Configs(b), y \in Configs(c) :
          <<x, y>> \in R /\ Meaning(b, input) = Outcome(x) /\ Meaning(c, input) = Outcome(y)
  <2>1. WellFormed(b) /\ WellFormed(c) /\ Len(b) = Len(c) /\ input \in AllInputs
    BY <1>1
  <2>2. EndsRelated(R, b, input, c, input)
    BY <2>1, <1>7, RunsRelated
  <2> QED
    BY <2>2 DEF EndsRelated
<1>9. Follows(b, x, y) /\ ~Tainted(Outcome(x))
  BY <1>6, <1>8, NeverTainted
<1>10. Outcome(x) = Outcome(y)
  BY <1>9 DEF Follows, Matched, Outcome
<1> QED
  BY <1>8, <1>10 DEF c

\* Replacement keeps the reads dce counts.
LEMMA ReplacementCounted ==
    ASSUME NEW b, WellFormed(b), ReadsAreCounted(b), NEW F, Keeps(b, F), NEW maps \in Maps(F)
    PROVE  ReadsAreCounted(ReplaceInBody(b, maps))
<1> DEFINE c == ReplaceInBody(b, maps)
<1>1. WellFormed(c) /\ Blocks(c) = Blocks(b)
  BY ReplacedIs
<1>2. \A i \in Blocks(b) : \E map \in SUBSET F :
          c[i].stmts = Replaced(b[i].stmts, map) /\ c[i].term = b[i].term
  BY ReplacedBlock
<1> HIDE DEF c
<1>3. ASSUME NEW s \in Statements(c)
      PROVE  /\ s.rv.kind # "not"
             /\ \A n \in DOMAIN s.rv.ops : s.rv.ops[n].kind = "read" => ~s.rv.ops[n].field
  <2>1. PICK i \in Blocks(c) : s \in {c[i].stmts[n] : n \in DOMAIN c[i].stmts}
    BY DEF Statements
  <2>2. PICK n \in DOMAIN c[i].stmts : c[i].stmts[n] = s
    BY <2>1
  <2>3. PICK map \in SUBSET F : c[i].stmts = Replaced(b[i].stmts, map)
    BY <1>1, <1>2
  <2> DEFINE r == b[i].stmts[n]
             new == replace_in_rvalue(r.rv, map)
             ops == [k \in DOMAIN r.rv.ops |-> replace_operand(r.rv.ops[k], map)]
  <2>4. n \in DOMAIN b[i].stmts /\ s = [r EXCEPT !.rv = new]
    BY <2>2, <2>3 DEF Replaced
  <2>5. r \in Statements(b)
    BY <1>1, <2>4 DEF Statements
  <2>6. r \in [local : Locals, field : BOOLEAN, rv : Rvalues] /\ r.rv \in Rvalues
    <3>1. r \in Assignments
      BY <2>5, StatementsTyped
    <3> QED
      BY <3>1 DEF Assignments
  <2>7. /\ r.rv.kind # "not"
        /\ \A k \in DOMAIN r.rv.ops : r.rv.ops[k].kind = "read" => ~r.rv.ops[k].field
    BY <2>5 DEF ReadsAreCounted
  <2> HIDE DEF r
  <2>8. s.rv = new
    <3> HIDE DEF new
    <3> QED
      BY <2>4, <2>6
  <2>9. CASE r.rv.kind \in {"ref", "inspect"}
    BY <2>7, <2>8, <2>9 DEF replace_in_rvalue
  <2>10. CASE r.rv.kind \notin {"ref", "inspect"}
    <3>1. new = [r.rv EXCEPT !.ops = ops]
      BY <2>10 DEF replace_in_rvalue
    <3>2. DOMAIN ops = DOMAIN r.rv.ops
          /\ \A k \in DOMAIN r.rv.ops : ops[k] = replace_operand(r.rv.ops[k], map)
      OBVIOUS
    <3> HIDE DEF new, ops
    <3>3. s.rv.ops = ops /\ s.rv.kind = r.rv.kind
      BY <2>6, <2>8, <3>1 DEF Rvalues
    <3>4. \A k \in DOMAIN r.rv.ops : ops[k].kind = "read" => ~ops[k].field
      <4>1. ASSUME NEW op PROVE replace_operand(op, map).kind = "read" => replace_operand(op, map) = op
        <5>1. CASE op.kind = "read" /\ operand_to_const(op, map) # {}
          <6> DEFINE v == CHOOSE k \in operand_to_const(op, map) : TRUE
          <6>1. replace_operand(op, map) = [kind |-> "const", value |-> v]
            BY <5>1 DEF replace_operand
          <6> HIDE DEF v
          <6> QED
            BY <6>1
        <5>2. CASE ~(op.kind = "read" /\ operand_to_const(op, map) # {})
          BY <5>2 DEF replace_operand
        <5> QED
          BY <5>1, <5>2
      <4> QED
        BY <2>7, <3>2, <4>1
    <3> QED
      BY <2>7, <3>2, <3>3, <3>4
  <2> QED
    BY <2>9, <2>10
<1>4. \A i \in Blocks(c) : c[i].term = b[i].term
  BY <1>1, <1>2
<1>5. ReadsAreCounted(c)
  BY <1>1, <1>3, <1>4 DEF ReadsAreCounted
<1> QED
  BY <1>5 DEF c

(***************************************************************************)
(* Dead code elimination.  The two bodies agree on the locals that are     *)
(* used.                                                                   *)
(***************************************************************************)
Agree(env, other, used) == \A l \in Locals : l \in used => env[l] = other[l]

\* The place of a number counts the numbers that stay up to it.
LEMMA RankSteps ==
    ASSUME NEW N \in Nat, NEW kept \in SUBSET (1..N)
    PROVE  /\ Rank(kept, 0) = 0 /\ Rank(kept, N) = Cardinality(kept)
           /\ \A k \in 1..N : /\ k \in kept => Rank(kept, k) = Rank(kept, k - 1) + 1
                              /\ k \notin kept => Rank(kept, k) = Rank(kept, k - 1)
           /\ \A k \in 0..N : Rank(kept, k) \in Nat
<1> DEFINE Below(k) == {j \in kept : j <= k}
<1>1. \A k : Rank(kept, k) = Cardinality(Below(k))
  BY DEF Rank
<1>2. \A j \in kept : j \in Nat /\ 1 <= j /\ j <= N
  OBVIOUS
<1>3. Below(0) = {} /\ Below(N) = kept
  <2>1. \A j \in kept : j <= N /\ ~(j <= 0)
    BY <1>2
  <2> QED
    BY <2>1
<1>4. \A k \in 0..N : IsFiniteSet(Below(k)) /\ Cardinality(Below(k)) \in Nat
  <2>1. IsFiniteSet(kept)
    BY RanksAreDense
  <2> QED
    BY <2>1, FS_Subset, FS_CardinalityType
<1>5. ASSUME NEW k \in 1..N
      PROVE  /\ k \in kept => Below(k) = Below(k - 1) \cup {k}
             /\ k \notin kept => Below(k) = Below(k - 1)
             /\ k \notin Below(k - 1) /\ k - 1 \in 0..N
  <2>1. \A j \in kept : (j <= k <=> (j <= k - 1 \/ j = k)) /\ ~(k <= k - 1)
    BY <1>2
  <2>2. k - 1 \in 0..N
    OBVIOUS
  <2>3. k \notin Below(k - 1)
    BY <2>1
  <2>4. k \in kept => Below(k) = Below(k - 1) \cup {k}
    <3> SUFFICES ASSUME k \in kept PROVE \A j : j \in Below(k) <=> j \in Below(k - 1) \/ j = k
      OBVIOUS
    <3>1. k <= k
      OBVIOUS
    <3> QED
      BY <2>1, <3>1
  <2>5. k \notin kept => Below(k) = Below(k - 1)
    BY <2>1
  <2> QED
    BY <2>2, <2>3, <2>4, <2>5
<1> HIDE DEF Below
<1>6. ASSUME NEW k \in 1..N
      PROVE  /\ k \in kept => Cardinality(Below(k)) = Cardinality(Below(k - 1)) + 1
             /\ k \notin kept => Cardinality(Below(k)) = Cardinality(Below(k - 1))
  <2>1. IsFiniteSet(Below(k - 1)) /\ k \notin Below(k - 1)
    BY <1>4, <1>5
  <2>2. Cardinality(Below(k - 1) \cup {k}) = Cardinality(Below(k - 1)) + 1
    BY <2>1, FS_AddElement
  <2> QED
    BY <1>5, <2>2
<1> QED
  BY <1>1, <1>3, <1>4, <1>6, FS_EmptySet

\* What a body reads is used, if dce counts all its reads.
ReadsUsed(op, used) == op.kind = "read" => op.local \in used

LEMMA ReadAgrees ==
    ASSUME NEW op \in Operands, NEW used, ReadsUsed(op, used), NEW env, NEW other, Agree(env, other, used)
    PROVE  Read(op, env) = Read(op, other)
BY DEF Operands, ReadsUsed, Agree, Read

LEMMA StatementsReadUsed ==
    ASSUME NEW b, ReadsAreCounted(b), NEW s \in Statements(b)
    PROVE  \A n \in DOMAIN s.rv.ops : ReadsUsed(s.rv.ops[n], collect_used_locals(b))
<1> SUFFICES ASSUME NEW n \in DOMAIN s.rv.ops, s.rv.ops[n].kind = "read"
             PROVE  s.rv.ops[n].local \in collect_used_locals(b)
  BY DEF ReadsUsed
<1>1. s.rv.kind # "not" /\ ~s.rv.ops[n].field
  BY DEF ReadsAreCounted
<1>2. s.rv.ops[n].local \in collect_operand_uses(s.rv.ops[n])
  BY <1>1 DEF collect_operand_uses
<1>3. s.rv.ops[n].local \in collect_uses_in_rvalue(s.rv)
  BY <1>1, <1>2 DEF collect_uses_in_rvalue
<1> QED
  BY <1>3 DEF collect_used_locals

LEMMA TerminatorsReadUsed ==
    ASSUME NEW b, ReadsAreCounted(b), NEW i \in Blocks(b)
    PROVE  /\ b[i].term.kind # "drop" /\ 0 \in collect_used_locals(b)
           /\ b[i].term.kind \in {"call", "switch", "assert"} =>
                  ReadsUsed(b[i].term.op, collect_used_locals(b))
<1>1. b[i].term.kind # "drop" /\ (b[i].term.op.kind = "read" => ~b[i].term.op.field)
  BY DEF ReadsAreCounted
<1>2. 0 \in collect_used_locals(b)
  BY DEF collect_used_locals
<1>3. ASSUME b[i].term.kind \in {"call", "switch", "assert"}, b[i].term.op.kind = "read"
      PROVE  b[i].term.op.local \in collect_used_locals(b)
  <2>1. b[i].term.op.local \in collect_uses_in_terminator(b[i].term)
    BY <1>1, <1>3 DEF collect_uses_in_terminator, collect_operand_uses
  <2> QED
    BY <2>1 DEF collect_used_locals
<1> QED
  BY <1>1, <1>2, <1>3 DEF ReadsUsed

LEMMA AssignAgrees ==
    ASSUME NEW s \in Assignments, NEW used, \A n \in DOMAIN s.rv.ops : ReadsUsed(s.rv.ops[n], used),
           NEW env \in Envs, NEW other \in Envs, Agree(env, other, used)
    PROVE  Agree(Assign(env, s), Assign(other, s), used)
<1>1. s.local \in Locals /\ s.rv \in Rvalues
  BY DEF Assignments
<1>2. \A n \in DOMAIN s.rv.ops : s.rv.ops[n] \in Operands
  BY <1>1 DEF Rvalues
<1>3. \A n \in DOMAIN s.rv.ops : Read(s.rv.ops[n], env) = Read(s.rv.ops[n], other)
  BY <1>2, ReadAgrees
<1>4. [n \in DOMAIN s.rv.ops |-> Read(s.rv.ops[n], env)] = [n \in DOMAIN s.rv.ops |-> Read(s.rv.ops[n], other)]
  BY <1>3
<1>5. Evaluate(s.rv, env) = Evaluate(s.rv, other)
  BY <1>4 DEF Evaluate
<1> QED
  BY <1>1, <1>5 DEF Assign, Agree, Envs

\* An assignment to a local that is not used changes none that is.
LEMMA AssignUnused ==
    ASSUME NEW s \in Assignments, NEW used, s.local \notin used,
           NEW env \in Envs, NEW other \in Envs, Agree(env, other, used)
    PROVE  Agree(Assign(env, s), other, used)
BY DEF Assign, Agree, Envs, Assignments

LEMMA ExecuteRetained ==
    ASSUME NEW stmts \in Seq(Assignments), NEW used, NEW live \in SUBSET (1..Len(stmts)),
           \A n \in 1..Len(stmts) : \A k \in DOMAIN stmts[n].rv.ops : ReadsUsed(stmts[n].rv.ops[k], used),
           \A n \in (1..Len(stmts)) \ live : stmts[n].local \notin used,
           NEW env \in Envs, NEW other \in Envs, Agree(env, other, used)
    PROVE  /\ Execute(env, stmts) \in Envs /\ Execute(other, Retain(stmts, live)) \in Envs
           /\ Agree(Execute(env, stmts), Execute(other, Retain(stmts, live)), used)
<1> DEFINE N == Len(stmts)
           news == Retain(stmts, live)
           C == Cardinality(live)
<1>1. N \in Nat /\ \A n \in 1..N : stmts[n] \in Assignments
  BY ElementOfSeq
<1>2. /\ news \in Seq(Assignments) /\ Len(news) = C
      /\ \A n \in 1..C : news[n] = stmts[Nth(live, n)]
  BY Retained
<1>3. C \in Nat /\ \A i \in live : Rank(live, i) \in 1..C /\ Nth(live, Rank(live, i)) = i
  BY <1>1, RanksAreDense
<1>4. /\ Rank(live, 0) = 0 /\ Rank(live, N) = C
      /\ \A k \in 1..N : /\ k \in live => Rank(live, k) = Rank(live, k - 1) + 1
                         /\ k \notin live => Rank(live, k) = Rank(live, k - 1)
      /\ \A k \in 0..N : Rank(live, k) \in Nat
  BY <1>1, RankSteps
<1>5. PICK f : IsExecution(f, env, stmts) /\ Execute(env, stmts) = f[N]
  BY ExecutionExists
<1>6. PICK g : IsExecution(g, other, news) /\ Execute(other, news) = g[C]
  BY <1>2, ExecutionExists
<1> HIDE DEF news, C
<1> DEFINE S == {n \in Nat : g[Rank(live, n)] \in Envs /\ Agree(f[n], g[Rank(live, n)], used)}
<1>7. 0 \in S
  BY <1>4, <1>5, <1>6 DEF IsExecution
<1>8. ASSUME NEW n \in 0..(N - 1), n \in S PROVE n + 1 \in S
  <2> DEFINE k == n + 1
             r == Rank(live, n)
  <2>1. k \in 1..N /\ k - 1 = n /\ k \in Nat /\ n \in 0..N
    BY <1>1
  <2>2. f[k] = Assign(f[n], stmts[k]) /\ f[n] \in Envs
    BY <1>1, <1>5, <2>1 DEF IsExecution
  <2>3. g[r] \in Envs /\ Agree(f[n], g[r], used) /\ r \in Nat
    BY <1>4, <1>8, <2>1
  <2>4. CASE k \in live
    <3>1. Rank(live, k) = r + 1 /\ r + 1 \in 1..C /\ Nth(live, r + 1) = k
      BY <1>3, <1>4, <2>1, <2>4
    <3>2. (r + 1) - 1 = r
      BY <2>3
    <3> HIDE DEF r, k
    <3>3. news[r + 1] = stmts[k]
      BY <1>2, <3>1
    <3>4. g[r + 1] = Assign(g[r], stmts[k])
      BY <1>2, <1>6, <3>1, <3>2, <3>3 DEF IsExecution
    <3>5. stmts[k] \in Assignments
          /\ \A j \in DOMAIN stmts[k].rv.ops : ReadsUsed(stmts[k].rv.ops[j], used)
      BY <1>1, <2>1
    <3>6. Agree(f[k], g[r + 1], used) /\ g[r + 1] \in Envs
      BY <2>2, <2>3, <3>4, <3>5, AssignAgrees, AssignValue
    <3> QED
      BY <2>1, <3>1, <3>6 DEF k
  <2>5. CASE k \notin live
    <3>1. Rank(live, k) = r
      BY <1>4, <2>1, <2>5
    <3>2. stmts[k] \in Assignments /\ stmts[k].local \notin used
      BY <1>1, <2>1, <2>5
    <3> HIDE DEF r, k
    <3>3. Agree(f[k], g[r], used)
      BY <2>2, <2>3, <3>2, AssignUnused
    <3> QED
      BY <2>1, <2>3, <3>1, <3>3 DEF k
  <2> QED
    BY <2>4, <2>5
<1> HIDE DEF S
<1>9. N \in S
  <2>1. \A n \in 0..N : n \in S
    BY <1>1, <1>7, <1>8, UpTo
  <2> QED
    BY <1>1, <2>1
<1>10. f[N] \in Envs
  BY <1>1, <1>5 DEF IsExecution
<1> QED
  BY <1>4, <1>5, <1>6, <1>9, <1>10 DEF S, news

LEMMA TerminatorAgrees ==
    ASSUME NEW n \in Nat, NEW t \in Terminators(n), NEW used, 0 \in used, t.kind # "drop",
           t.kind \in {"call", "switch", "assert"} => ReadsUsed(t.op, used),
           NEW input \in AllInputs, NEW events, NEW env \in Envs, NEW other \in Envs,
           Agree(env, other, used)
    PROVE  /\ RunTerminator(t, input, events, env).at = RunTerminator(t, input, events, other).at
           /\ RunTerminator(t, input, events, env).events = RunTerminator(t, input, events, other).events
           /\ Agree(RunTerminator(t, input, events, env).env,
                    RunTerminator(t, input, events, other).env, used)
<1> DEFINE v == Read(t.op, env)
           w == Read(t.op, other)
           x == RunTerminator(t, input, events, env)
           y == RunTerminator(t, input, events, other)
           Same(c, d) == c.at = d.at /\ c.events = d.events /\ Agree(c.env, d.env, used)
<1>1. /\ t.kind \in {"return", "goto", "switch", "drop", "call", "assert"}
      /\ t.op \in Operands /\ t.dest \in Locals
  BY TerminatorParts
<1>2. t.kind \in {"call", "switch", "assert"} => v = w
  BY <1>1, ReadAgrees
<1>3. env[0] = other[0]
  BY OptAssumption DEF Agree
<1>4. \A at, es : Same(Goto(at, es, env), Goto(at, es, other))
  BY DEF Goto
<1> HIDE DEF Same
<1>5. \A es : Same(Unwind(t, es, env), Unwind(t, es, other))
  BY <1>4 DEF Unwind, Ends
<1> HIDE DEF v, w
<1>6. CASE t.kind = "return"
  <2>1. x = Goto(0, Append(events, <<"return", env[0]>>), env)
        /\ y = Goto(0, Append(events, <<"return", env[0]>>), other)
    BY <1>3, <1>6 DEF RunTerminator, Ends
  <2>2. Same(x, y)
    BY <1>4, <2>1
  <2> QED
    BY <2>2 DEF Same
<1>7. CASE t.kind = "goto"
  <2>1. x = Goto(t.targets[1], events, env) /\ y = Goto(t.targets[1], events, other)
    BY <1>7 DEF RunTerminator
  <2>2. Same(x, y)
    BY <1>4, <2>1
  <2> QED
    BY <2>2 DEF Same
<1>8. CASE t.kind = "switch"
  <2>1. v = w
    BY <1>2, <1>8
  <2>2. /\ x = IF v = Uninit THEN Goto(0, Append(events, <<"undefined", 0>>), env)
               ELSE Goto(t.targets[IF v = 0 THEN 1 ELSE 2], events, env)
        /\ y = IF v = Uninit THEN Goto(0, Append(events, <<"undefined", 0>>), other)
               ELSE Goto(t.targets[IF v = 0 THEN 1 ELSE 2], events, other)
    BY <1>8, <2>1 DEF RunTerminator, Ends, v, w
  <2>3. Same(x, y)
    BY <1>4, <2>2
  <2> QED
    BY <2>3 DEF Same
<1>9. CASE t.kind = "assert"
  <2>1. v = w
    BY <1>2, <1>9
  <2>2. /\ x = IF v = Uninit THEN Goto(0, Append(events, <<"undefined", 0>>), env)
               ELSE IF v = 1 THEN Goto(t.targets[1], events, env) ELSE Unwind(t, events, env)
        /\ y = IF v = Uninit THEN Goto(0, Append(events, <<"undefined", 0>>), other)
               ELSE IF v = 1 THEN Goto(t.targets[1], events, other) ELSE Unwind(t, events, other)
    BY <1>9, <2>1 DEF RunTerminator, Ends, v, w
  <2>3. Same(x, y)
    BY <1>4, <1>5, <2>2
  <2> QED
    BY <2>3 DEF Same
<1>10. CASE t.kind = "call" /\ input.unwinds
  <2>1. v = w
    BY <1>2, <1>10
  <2>2. x = Unwind(t, Append(events, <<t.kind, v>>), env)
        /\ y = Unwind(t, Append(events, <<t.kind, v>>), other)
    BY <1>10, <2>1 DEF RunTerminator, v, w
  <2>3. Same(x, y)
    BY <1>5, <2>2
  <2> QED
    BY <2>3 DEF Same
<1>11. CASE t.kind = "call" /\ ~input.unwinds
  <2> DEFINE env2 == [env EXCEPT ![t.dest] = input.result]
             other2 == [other EXCEPT ![t.dest] = input.result]
  <2>1. v = w
    BY <1>2, <1>11
  <2>2. x = Goto(t.targets[1], Append(events, <<t.kind, v>>), env2)
        /\ y = Goto(t.targets[1], Append(events, <<t.kind, v>>), other2)
    BY <1>11, <2>1 DEF RunTerminator, v, w
  <2>3. Agree(env2, other2, used)
    BY <1>1 DEF Agree, Envs
  <2> HIDE DEF env2, other2
  <2> QED
    BY <2>2, <2>3 DEF Goto
<1> QED
  BY <1>1, <1>6, <1>7, <1>8, <1>9, <1>10, <1>11

\* What dce removes is never read: it keeps the meaning of a body whose reads it counts.
LEMMA DceMeansTheSame ==
    ASSUME NEW b, WellFormed(b), ReadsAreCounted(b), NEW input \in AllInputs
    PROVE  Meaning(Removed(b, collect_used_locals(b)), input) = Meaning(b, input)
<1> DEFINE used == collect_used_locals(b)
           c == Removed(b, used)
<1>1. WellFormed(c) /\ Len(b) = Len(c) /\ Blocks(c) = Blocks(b)
  BY RemovedBody
<1>2. \A s \in Statements(b) : \A n \in DOMAIN s.rv.ops : ReadsUsed(s.rv.ops[n], used)
  BY StatementsReadUsed
<1> DEFINE live(i) == {n \in DOMAIN b[i].stmts : b[i].stmts[n].field \/ b[i].stmts[n].local \in used}
           Same(x, y) == x.at = y.at /\ x.events = y.events /\ Agree(x.env, y.env, used)
           R == {p \in Configs(b) \X Configs(c) : Same(p[1], p[2])}
<1>3. ASSUME NEW i \in Blocks(b)
      PROVE  /\ c[i].stmts = Retain(b[i].stmts, live(i)) /\ c[i].term = b[i].term
             /\ b[i].stmts \in Seq(Assignments) /\ live(i) \in SUBSET (1..Len(b[i].stmts))
  <2> DEFINE news == Retain(b[i].stmts, live(i))
  <2>1. c[i] = [b[i] EXCEPT !.stmts = news]
    BY DEF Removed
  <2>2. b[i] \in [stmts : Seq(Assignments), term : Terminators(Len(b))] /\ b[i].stmts \in Seq(Assignments)
    BY BodyParts
  <2> HIDE DEF news
  <2>3. c[i].stmts = news /\ c[i].term = b[i].term
    BY <2>1, <2>2
  <2>4. DOMAIN b[i].stmts = 1..Len(b[i].stmts)
    BY <2>2
  <2> QED
    BY <2>2, <2>3, <2>4 DEF news
<1> HIDE DEF used, c
<1>4. ASSUME NEW x \in Configs(b), NEW y \in Configs(c), Same(x, y)
      PROVE  Same(BlockRun(b, input, x), BlockRun(c, input, y))
  <2>1. CASE x.at = 0
    BY <1>4, <2>1 DEF BlockRun
  <2>2. CASE x.at # 0
    <3> DEFINE i == x.at
               env == Execute(x.env, b[i].stmts)
               other == Execute(y.env, c[i].stmts)
    <3>1. i \in Blocks(b)
      BY <2>2, BlockRunValue
    <3>2. /\ c[i].stmts = Retain(b[i].stmts, live(i)) /\ c[i].term = b[i].term
          /\ b[i].stmts \in Seq(Assignments) /\ live(i) \in SUBSET (1..Len(b[i].stmts))
      BY <1>3, <3>1
    <3>3. \A n \in 1..Len(b[i].stmts) : \A k \in DOMAIN b[i].stmts[n].rv.ops :
              ReadsUsed(b[i].stmts[n].rv.ops[k], used)
      <4>1. \A n \in 1..Len(b[i].stmts) : b[i].stmts[n] \in Statements(b)
        BY <3>1, StatementsTyped
      <4> HIDE DEF i
      <4> QED
        BY <1>2, <4>1
    <3>4. \A n \in (1..Len(b[i].stmts)) \ live(i) : b[i].stmts[n].local \notin used
      BY <3>2 DEF live
    <3>5. x.env \in Envs /\ y.env \in Envs /\ Agree(x.env, y.env, used) /\ y.at = i /\ x.events = y.events
      BY <1>4 DEF Configs
    <3>6. BlockRun(b, input, x) = RunTerminator(b[i].term, input, x.events, env)
      BY <2>2 DEF BlockRun
    <3>7. BlockRun(c, input, y) = RunTerminator(b[i].term, input, x.events, other)
      BY <2>2, <3>2, <3>5 DEF BlockRun
    <3>8. env \in Envs /\ other \in Envs /\ Agree(env, other, used)
      <4> DEFINE ss == b[i].stmts
                 kept == live(i)
      <4>1. /\ ss \in Seq(Assignments) /\ kept \in SUBSET (1..Len(ss))
            /\ \A n \in 1..Len(ss) : \A k \in DOMAIN ss[n].rv.ops : ReadsUsed(ss[n].rv.ops[k], used)
            /\ \A n \in (1..Len(ss)) \ kept : ss[n].local \notin used
            /\ env = Execute(x.env, ss) /\ other = Execute(y.env, Retain(ss, kept))
        BY <3>2, <3>3, <3>4
      <4> HIDE DEF ss, kept, env, other
      <4> QED
        BY <3>5, <4>1, ExecuteRetained
    <3> HIDE DEF env, other, i
    <3>9. Len(b) \in Nat /\ b[i].term \in Terminators(Len(b))
      BY <3>1, BodyParts
    <3>10. /\ b[i].term.kind # "drop" /\ 0 \in used
           /\ b[i].term.kind \in {"call", "switch", "assert"} => ReadsUsed(b[i].term.op, used)
      BY <3>1, TerminatorsReadUsed DEF used
    <3> QED
      BY <3>6, <3>7, <3>8, <3>9, <3>10, TerminatorAgrees
  <2> QED
    BY <2>1, <2>2
<1>5. <<Entry(input), Entry(input)>> \in R
  <2>1. Entry(input) \in Configs(b) /\ Entry(input) \in Configs(c)
    BY <1>1, EntryValue
  <2> QED
    BY <2>1 DEF Agree
<1>6. \A x \in Configs(b), y \in Configs(c) :
          <<x, y>> \in R => <<BlockRun(b, input, x), BlockRun(c, input, y)>> \in R
  <2> HIDE DEF Same
  <2> QED
    BY <1>1, <1>4, BlockRunValue
<1>7. \A x, y : <<x, y>> \in R => x.at = y.at /\ x.events = y.events
  OBVIOUS
<1> HIDE DEF R, Same, live
<1>8. IsKept(R, b, input, c, input)
  BY <1>5, <1>6 DEF IsKept
<1>9. PICK x \in Configs(b), y \in Configs(c) :
          <<x, y>> \in R /\ Meaning(b, input) = Outcome(x) /\ Meaning(c, input) = Outcome(y)
  <2>1. WellFormed(b) /\ WellFormed(c) /\ Len(b) = Len(c) /\ input \in AllInputs
    BY <1>1
  <2>2. EndsRelated(R, b, input, c, input)
    BY <2>1, <1>8, RunsRelated
  <2> QED
    BY <2>2 DEF EndsRelated
<1> QED
  BY <1>7, <1>9 DEF Outcome, c, used

(***************************************************************************)
(* The inductive invariant.                                                *)
(***************************************************************************)
TypeOK ==
    /\ source \in Bodies /\ WellFormed(body) /\ WellFormed(begun)
    /\ stage \in {"constant_prop", "replace", "dce", "cfg_simplify", "unreachable_elim", "done"}
    /\ out_maps \in Maps(Facts) /\ iteration \in Nat

\* From cfg_simplify on, the body means what dce left.
MeansAsBegun ==
    stage \in {"cfg_simplify", "unreachable_elim", "done"} =>
        \A input \in AllInputs : Meaning(body, input) = Meaning(begun, input)

\* What ConstantsAreTheValues supposes of the source.
Supposed ==
    /\ SingleAssignment(source) /\ ReadsAreCounted(source)
    /\ FoldsAreExact(source) /\ WellDefined(source)

\* Until the constants are put in, the body is the source and constant_prop has only the
\* constants found from its statements; then the body, and what dce leaves of it, mean what the
\* source does.
MeansAsSource ==
    /\ stage \in {"constant_prop", "replace"} =>
           body = source /\ (FoldsAreExact(source) => out_maps \in Maps(Known(source)))
    /\ stage = "dce" /\ Supposed =>
           /\ ReadsAreCounted(body)
           /\ \A input \in AllInputs : Meaning(body, input) = Meaning(source, input)
    /\ stage \in {"cfg_simplify", "unreachable_elim", "done"} /\ Supposed =>
           \A input \in AllInputs : Meaning(begun, input) = Meaning(source, input)

IInv == TypeOK /\ MeansAsBegun /\ MeansAsSource

LEMMA InvInit == Init => IInv
<1> SUFFICES ASSUME Init PROVE IInv
  OBVIOUS
<1>1. WellFormed(source)
  BY BodiesAreWellFormed DEF Init
<1>2. {} \in Maps(Facts) /\ {} \in Maps(Known(source))
  BY DEF Maps
<1> QED
  BY <1>1, <1>2 DEF Init, IInv, TypeOK, MeansAsBegun, MeansAsSource

LEMMA InvStep == IInv /\ [Next]_vars => IInv'
<1> SUFFICES ASSUME IInv, [Next]_vars PROVE IInv'
  OBVIOUS
<1>1. WellFormed(source)
  BY BodiesAreWellFormed DEF IInv, TypeOK
<1>2. CASE UNCHANGED vars
  BY <1>2 DEF vars, IInv, TypeOK, MeansAsBegun, MeansAsSource, Supposed
<1>3. CASE ConstantPropSweep
  <2>1. Sweep(body, out_maps) \in Maps(Facts)
    BY SweepKept, FactsKept DEF IInv, TypeOK
  <2>2. body = source /\ (FoldsAreExact(source) => Sweep(body, out_maps) \in Maps(Known(source)))
    <3>1. body = source /\ (FoldsAreExact(source) => out_maps \in Maps(Known(source)))
      BY <1>3 DEF ConstantPropSweep, IInv, MeansAsSource
    <3> QED
      BY <1>1, <3>1, SweepKept, KnownKept
  <2> QED
    BY <1>3, <2>1, <2>2 DEF ConstantPropSweep, IInv, TypeOK, MeansAsBegun, MeansAsSource
<1>4. CASE ConstantPropReplace
  <2>1. /\ body = source /\ body' = ReplaceInBody(source, out_maps) /\ out_maps \in Maps(Facts)
        /\ FoldsAreExact(source) => out_maps \in Maps(Known(source))
    BY <1>4 DEF ConstantPropReplace, IInv, TypeOK, MeansAsSource
  <2>2. WellFormed(body')
    BY <1>1, <2>1, FactsKept, ReplacedIs
  <2>3. Supposed => ReadsAreCounted(body')
    BY <1>1, <2>1, KnownKept, ReplacementCounted DEF Supposed
  <2>4. Supposed => \A input \in AllInputs : Meaning(body', input) = Meaning(source, input)
    BY <1>1, <2>1, ReplaceKeeps DEF Supposed
  <2>5. source' = source /\ stage' = "dce" /\ UNCHANGED <<out_maps, iteration, begun>>
    BY <1>4 DEF ConstantPropReplace
  <2>6. Supposed' = Supposed
    BY <2>5 DEF Supposed
  <2> QED
    BY <2>2, <2>3, <2>4, <2>5, <2>6 DEF IInv, TypeOK, MeansAsBegun, MeansAsSource
<1>5. CASE Dce
  <2>1. body' = Removed(body, collect_used_locals(body))
    BY <1>5 DEF Dce, Removed
  <2>2. WellFormed(body')
    BY <2>1, RemovedBody DEF IInv, TypeOK
  <2>3. ReadsAreCounted(body) =>
            \A input \in AllInputs : Meaning(body', input) = Meaning(body, input)
    BY <2>1, DceMeansTheSame DEF IInv, TypeOK
  <2>4. /\ source' = source /\ stage = "dce" /\ stage' = "cfg_simplify" /\ begun' = body'
        /\ UNCHANGED <<out_maps, iteration>>
    BY <1>5 DEF Dce
  <2>5. Supposed' = Supposed
    BY <2>4 DEF Supposed
  <2> QED
    BY <2>2, <2>3, <2>4, <2>5 DEF IInv, TypeOK, MeansAsBegun, MeansAsSource
<1>6. CASE CfgSimplifyRound
  <2>1. body' = Keep(Round(body).blocks, Blocks(body) \ Round(body).delete)
    BY <1>6 DEF CfgSimplifyRound
  <2>2. WellFormed(body') /\ \A input \in AllInputs : Meaning(body', input) = Meaning(body, input)
    BY <2>1, CfgSimplifyKeeps DEF IInv, TypeOK
  <2> QED
    BY <1>6, <2>2 DEF CfgSimplifyRound, IInv, TypeOK, MeansAsBegun, MeansAsSource, Supposed
<1>7. CASE UnreachableElim
  <2>1. body' = Keep(body, reachable_set(body))
    BY <1>7 DEF UnreachableElim
  <2>2. WellFormed(body') /\ \A input \in AllInputs : Meaning(body', input) = Meaning(body, input)
    BY <2>1, UnreachableElimKeeps DEF IInv, TypeOK
  <2> QED
    BY <1>7, <2>2 DEF UnreachableElim, IInv, TypeOK, MeansAsBegun, MeansAsSource, Supposed
<1> QED
  BY <1>2, <1>3, <1>4, <1>5, <1>6, <1>7 DEF Next

LEMMA Invariance == Spec => []IInv
<1>1. Init => IInv
  BY InvInit
<1>2. IInv /\ [Next]_vars => IInv'
  BY InvStep
<1> QED
  BY <1>1, <1>2, PTL DEF Spec

\* Whatever well-formed bodies are optimised, every pass leaves a well-formed body: no
\* terminator names a block that is not there.
THEOREM BodiesStayWellFormed == Spec => []TypeOK
<1>1. IInv => TypeOK
  BY DEF IInv
<1> QED
  BY <1>1, Invariance, PTL

\* cfg_simplify and unreachable_elim never change what a body does.
THEOREM ControlFlowCorrect == Spec => []ControlFlowKeepsMeaning
<1>1. IInv => ControlFlowKeepsMeaning
  <2> SUFFICES ASSUME IInv, stage = "done", NEW input \in Inputs(body) \cup Inputs(begun)
               PROVE  Meaning(body, input) = Meaning(begun, input)
    BY DEF ControlFlowKeepsMeaning, SameMeaning
  <2>1. input \in AllInputs
    BY DEF Inputs, AllInputs
  <2> QED
    BY <2>1 DEF IInv, MeansAsBegun
<1> QED
  BY <1>1, Invariance, PTL

\* The constants constant_prop puts in are the values the operands have, and what dce
\* removes is never read: every pass after them leaves a body that does what the source
\* does, if the source assigns every local once, reads whole locals, has only constants
\* that their types have, folded ones included, and is well-defined.
THEOREM ConstantsCorrect == Spec => []ConstantsAreTheValues
<1>1. IInv => ConstantsAreTheValues
  <2> SUFFICES ASSUME IInv, stage \in {"cfg_simplify", "done"}, Supposed,
                      NEW input \in Inputs(body) \cup Inputs(source)
               PROVE  Meaning(body, input) = Meaning(source, input)
    BY DEF ConstantsAreTheValues, SameMeaning, Supposed
  <2>1. input \in AllInputs
    BY DEF Inputs, AllInputs
  <2>2. Meaning(body, input) = Meaning(begun, input)
    BY <2>1 DEF IInv, MeansAsBegun
  <2>3. Meaning(begun, input) = Meaning(source, input)
    BY <2>1 DEF IInv, MeansAsSource
  <2> QED
    BY <2>2, <2>3
<1> QED
  BY <1>1, Invariance, PTL

=============================================================================
