---------------------------- MODULE ProofBasics -----------------------------
(***************************************************************************)
(* What more than one of the proof modules needs: facts about numbers and  *)
(* finite sets of them, functions defined by recursion on them, finite     *)
(* sets of points and worklists.  Induction is over sets of numbers.       *)
(***************************************************************************)
EXTENDS Integers, Sequences, FiniteSets, FiniteSetTheorems, SequenceTheorems,
        WellFoundedInduction, TLAPS

\* A set of numbers that is not empty has a least one.
LEMMA HasLeast ==
    ASSUME NEW S \in SUBSET Nat, S # {}
    PROVE  \E m \in S : \A n \in S : m <= n
<1> DEFINE R == {ss \in Nat \X Nat : ss[1] < ss[2]}
<1>1. PICK m \in S : \A n \in S : <<n, m>> \notin R
  <2>1. IsWellFoundedOn(R, Nat)
    BY NatLessThanWellFounded DEF OpToRel
  <2> HIDE DEF R
  <2> QED
    BY <2>1, WFMin
<1>2. ASSUME NEW n \in S, n < m PROVE FALSE
  <2>1. <<n, m>> \in R
    BY <1>2
  <2> QED
    BY <1>1, <2>1
<1>3. \A n \in S : n \in Nat /\ m \in Nat
  OBVIOUS
<1> QED
  BY <1>2, <1>3

\* What has 0, and with a number below N the next one, has all up to N.
LEMMA UpTo ==
    ASSUME NEW N \in Nat, NEW S, 0 \in S, \A n \in 0..(N - 1) : n \in S => n + 1 \in S
    PROVE  \A n \in 0..N : n \in S
<1> SUFFICES ASSUME NEW k \in 0..N, k \notin S PROVE FALSE
  OBVIOUS
<1>1. PICK m \in (0..N) \ S : \A n \in (0..N) \ S : m <= n
  <2> DEFINE T == (0..N) \ S
  <2>1. T \in SUBSET Nat /\ T # {}
    OBVIOUS
  <2> HIDE DEF T
  <2>2. \E m \in T : \A n \in T : m <= n
    BY <2>1, HasLeast
  <2> QED
    BY <2>2 DEF T
<1>2. m - 1 \in 0..(N - 1) /\ m - 1 \in S /\ (m - 1) + 1 = m
  BY <1>1
<1> QED
  BY <1>1, <1>2

\* A finite set of numbers that is not empty has a greatest one: take the member
\* with the fewest members above it.
LEMMA HasGreatest ==
    ASSUME NEW S \in SUBSET Nat, IsFiniteSet(S), S # {}
    PROVE  \E x \in S : \A y \in S : x >= y
<1> DEFINE Above(x) == {y \in S : y > x}
           Counts == {Cardinality(Above(x)) : x \in S}
<1>1. \A x \in S : IsFiniteSet(Above(x)) /\ Cardinality(Above(x)) \in Nat
  BY FS_Subset, FS_CardinalityType
<1>2. \E m \in Counts : \A n \in Counts : m <= n
  <2>1. Counts \in SUBSET Nat /\ Counts # {}
    BY <1>1
  <2> HIDE DEF Counts
  <2> QED
    BY <2>1, HasLeast
<1>3. PICK x \in S : \A y \in S : Cardinality(Above(x)) <= Cardinality(Above(y))
  BY <1>2
<1>4. ASSUME NEW y \in S, y > x PROVE FALSE
  <2>0. \A z \in S : z > y => z > x
    BY <1>4
  <2>1. Above(y) \in SUBSET Above(x) /\ y \in Above(x) /\ y \notin Above(y)
    <3>1. ~(y > y)
      OBVIOUS
    <3> QED
      BY <1>4, <2>0, <3>1
  <2> HIDE DEF Above
  <2>2. Cardinality(Above(y)) <= Cardinality(Above(x)) /\ Cardinality(Above(y)) # Cardinality(Above(x))
    BY <1>1, <2>1, FS_Subset
  <2> QED
    BY <1>1, <1>3, <2>2
<1>5. \A y \in S : y \in Nat /\ x \in Nat
  OBVIOUS
<1> QED
  BY <1>4, <1>5

(***************************************************************************)
(* Recursion.  `Rounds` names the equation of a function that starts with  *)
(* `first` and applies `step`, itself a function, N times.                 *)
(***************************************************************************)
Rounds(f, first, step, N) == f = [k \in 0..N |-> IF k = 0 THEN first ELSE step[f[k - 1]]]

\* The equation has a solution.
LEMMA RoundsExist ==
    ASSUME NEW first, NEW step, NEW N \in Nat
    PROVE  \E f : Rounds(f, first, step, N)
<1> DEFINE S == {n \in Nat : \E f : f = [k \in 0..n |-> IF k = 0 THEN first ELSE step[f[k - 1]]]}
<1>1. 0 \in S
  <2> DEFINE f == [k \in 0..0 |-> first]
  <2>1. f = [k \in 0..0 |-> IF k = 0 THEN first ELSE step[f[k - 1]]]
    OBVIOUS
  <2> HIDE DEF f
  <2> QED
    BY <2>1
<1>2. ASSUME NEW n \in 0..(N - 1), n \in S PROVE n + 1 \in S
  <2>1. PICK f : f = [k \in 0..n |-> IF k = 0 THEN first ELSE step[f[k - 1]]]
    BY <1>2
  <2> DEFINE g == [k \in 0..(n + 1) |-> IF k = n + 1 THEN step[f[n]] ELSE f[k]]
  <2>2. ASSUME NEW k \in 0..(n + 1)
        PROVE  g[k] = IF k = 0 THEN first ELSE step[g[k - 1]]
    <3>1. CASE k = n + 1
      <4>1. g[k - 1] = f[n] /\ g[k] = step[f[n]] /\ k # 0
        BY <3>1
      <4> QED
        BY <4>1
    <3>2. CASE k # n + 1
      <4>1. k \in 0..n /\ g[k] = f[k] /\ (k # 0 => g[k - 1] = f[k - 1])
        BY <3>2
      <4>2. f[k] = IF k = 0 THEN first ELSE step[f[k - 1]]
        BY <2>1, <4>1
      <4> QED
        BY <4>1, <4>2
    <3> QED
      BY <3>1, <3>2
  <2>3. g = [k \in 0..(n + 1) |-> g[k]]
    OBVIOUS
  <2> HIDE DEF g
  <2>4. g = [k \in 0..(n + 1) |-> IF k = 0 THEN first ELSE step[g[k - 1]]]
    BY <2>2, <2>3
  <2> QED
    BY <2>4
<1> HIDE DEF S
<1>3. N \in S
  BY <1>1, <1>2, UpTo
<1>4. \E f : f = [k \in 0..N |-> IF k = 0 THEN first ELSE step[f[k - 1]]]
  BY <1>3 DEF S
<1> QED
  BY <1>4 DEF Rounds

\* If `step` stays within a set, so do the rounds.
LEMMA RoundsStay ==
    ASSUME NEW D, NEW first \in D, NEW step \in [D -> D], NEW N \in Nat,
           NEW f, Rounds(f, first, step, N)
    PROVE  /\ f \in [0..N -> D] /\ f[0] = first
           /\ \A k \in 1..N : f[k] = step[f[k - 1]]
<1>1. f = [k \in 0..N |-> IF k = 0 THEN first ELSE step[f[k - 1]]]
  BY DEF Rounds
<1>2. f[0] = first
  BY <1>1
<1>3. \A k \in 1..N : f[k] = step[f[k - 1]]
  BY <1>1
<1> DEFINE S == {k \in Nat : f[k] \in D}
<1>4. 0 \in S
  BY <1>2
<1>5. ASSUME NEW n \in 0..(N - 1), n \in S PROVE n + 1 \in S
  <2>1. n + 1 \in 1..N /\ (n + 1) - 1 = n /\ n + 1 \in Nat
    OBVIOUS
  <2>2. f[n + 1] = step[f[n]]
    BY <1>3, <2>1
  <2> QED
    BY <1>5, <2>1, <2>2
<1> HIDE DEF S
<1>6. \A k \in 0..N : k \in S
  BY <1>4, <1>5, UpTo
<1>7. \A k \in 0..N : f[k] \in D
  BY <1>6 DEF S
<1> QED
  BY <1>1, <1>2, <1>3, <1>7

\* What has the start, and with a value its next one, has all of them.
LEMMA RoundsWithin ==
    ASSUME NEW D, NEW first \in D, NEW step \in [D -> D], NEW N \in Nat,
           NEW f, Rounds(f, first, step, N),
           NEW Q, first \subseteq Q, \A X \in D : X \subseteq Q => step[X] \subseteq Q
    PROVE  f[N] \subseteq Q
<1>1. /\ f \in [0..N -> D] /\ f[0] = first
      /\ \A k \in 1..N : f[k] = step[f[k - 1]]
  BY RoundsStay
<1> DEFINE S == {k \in Nat : f[k] \subseteq Q}
<1>2. 0 \in S
  BY <1>1
<1>3. ASSUME NEW n \in 0..(N - 1), n \in S PROVE n + 1 \in S
  <2>1. n + 1 \in 1..N /\ (n + 1) - 1 = n /\ n \in 0..N /\ n + 1 \in Nat
    OBVIOUS
  <2>2. f[n + 1] = step[f[n]] /\ f[n] \in D /\ f[n] \subseteq Q
    BY <1>1, <1>3, <2>1
  <2> QED
    BY <2>1, <2>2
<1> HIDE DEF S
<1>4. N \in S
  BY <1>2, <1>3, UpTo
<1> QED
  BY <1>4 DEF S

\* If each application adds members of a finite set or changes nothing, then after as
\* many as the set has members nothing changes: until then each adds at least one.
LEMMA RoundsClose ==
    ASSUME NEW P, IsFiniteSet(P), NEW D, \A X \in D : X \subseteq P,
           NEW N \in Nat, Cardinality(P) <= N,
           NEW first \in D, NEW step \in [D -> D], \A X \in D : X \subseteq step[X],
           NEW f, Rounds(f, first, step, N)
    PROVE  f[N] \in D /\ first \subseteq f[N] /\ step[f[N]] = f[N]
<1>1. /\ f \in [0..N -> D] /\ f[0] = first
      /\ \A k \in 1..N : f[k] = step[f[k - 1]]
  BY RoundsStay
<1>2. ASSUME NEW n \in 0..(N - 1)
      PROVE  /\ f[n + 1] = step[f[n]] /\ f[n] \subseteq f[n + 1]
             /\ n \in 0..N /\ n + 1 \in 0..N /\ n \in Nat /\ n + 1 \in Nat
  <2>1. n + 1 \in 1..N /\ (n + 1) - 1 = n /\ n \in 0..N /\ n + 1 \in 0..N /\ n \in Nat /\ n + 1 \in Nat
    OBVIOUS
  <2>2. f[n + 1] = step[f[n]]
    BY <1>1, <2>1
  <2>3. f[n] \in D
    BY <1>1, <2>1
  <2> QED
    BY <2>1, <2>2, <2>3
<1>3. \A k \in 0..N : first \subseteq f[k]
  <2> DEFINE S == {k \in Nat : first \subseteq f[k]}
  <2>1. 0 \in S
    BY <1>1
  <2>2. ASSUME NEW n \in 0..(N - 1), n \in S PROVE n + 1 \in S
    BY <1>2, <2>2
  <2> HIDE DEF S
  <2>3. \A k \in 0..N : k \in S
    BY <2>1, <2>2, UpTo
  <2> QED
    BY <2>3 DEF S
<1>4. \A k \in 0..N : step[f[k]] = f[k] \/ Cardinality(f[k]) >= k
  <2> DEFINE S == {k \in Nat : step[f[k]] = f[k] \/ Cardinality(f[k]) >= k}
  <2>0. \A k \in 0..N : IsFiniteSet(f[k]) /\ Cardinality(f[k]) \in Nat
    BY <1>1, FS_Subset, FS_CardinalityType
  <2>1. 0 \in S
    BY <2>0
  <2>2. ASSUME NEW n \in 0..(N - 1), n \in S PROVE n + 1 \in S
    <3>1. n \in 0..N /\ n + 1 \in 0..N /\ n \in Nat /\ n + 1 \in Nat
      BY <1>2
    <3>2. f[n + 1] = step[f[n]] /\ f[n] \subseteq f[n + 1]
      BY <1>2
    <3>3. CASE f[n + 1] = f[n]
      BY <3>1, <3>2, <3>3
    <3>4. CASE f[n + 1] # f[n]
      <4>1. Cardinality(f[n]) >= n
        BY <2>2, <3>2, <3>4
      <4>2. Cardinality(f[n]) <= Cardinality(f[n + 1]) /\ Cardinality(f[n + 1]) # Cardinality(f[n])
        BY <2>0, <3>1, <3>2, <3>4, FS_Subset
      <4>3. Cardinality(f[n + 1]) >= n + 1
        BY <2>0, <3>1, <4>1, <4>2
      <4> QED
        BY <3>1, <4>3
    <3> QED
      BY <3>3, <3>4
  <2> HIDE DEF S
  <2>3. \A k \in 0..N : k \in S
    BY <2>1, <2>2, UpTo
  <2> QED
    BY <2>3 DEF S
<1>5. N \in 0..N /\ f[N] \in D /\ f[N] \subseteq P
  BY <1>1
<1>6. step[f[N]] = f[N]
  <2>1. CASE Cardinality(f[N]) >= N
    <3>1. /\ Cardinality(f[N]) <= Cardinality(P)
          /\ Cardinality(f[N]) \in Nat /\ Cardinality(P) \in Nat
      BY <1>5, FS_Subset, FS_CardinalityType
    <3>2. f[N] = P
      BY <1>5, <2>1, <3>1, FS_Subset
    <3> QED
      BY <1>5, <3>2
  <2> QED
    BY <1>4, <1>5, <2>1
<1> QED
  BY <1>3, <1>5, <1>6

(***************************************************************************)
(* Points.                                                                 *)
(***************************************************************************)
\* Finitely many blocks with finitely many indices each make finitely many points.
LEMMA PointsFinitelyMany ==
    ASSUME NEW B, IsFiniteSet(B), NEW I, \A b \in B : IsFiniteSet(I[b])
    PROVE  IsFiniteSet(UNION {{<<b, i>> : i \in I[b]} : b \in B})
<1> DEFINE PointsOf(b) == {<<b, i>> : i \in I[b]}
           All == {PointsOf(b) : b \in B}
<1>1. ASSUME NEW b \in B PROVE IsFiniteSet(PointsOf(b))
  <2> DEFINE f == [i \in I[b] |-> <<b, i>>]
  <2>1. f \in Surjection(I[b], PointsOf(b))
    BY DEF Surjection
  <2> HIDE DEF f
  <2> QED
    BY <2>1, FS_Surjection
<1>2. IsFiniteSet(All)
  <2> DEFINE f == [b \in B |-> PointsOf(b)]
  <2> HIDE DEF PointsOf
  <2>1. f \in Surjection(B, All)
    BY DEF Surjection
  <2> HIDE DEF f
  <2> QED
    BY <2>1, FS_Surjection
<1>3. \A T \in All : IsFiniteSet(T)
  <2> HIDE DEF PointsOf
  <2> QED
    BY <1>1
<1>4. IsFiniteSet(UNION All)
  <2> HIDE DEF All
  <2> QED
    BY <1>2, <1>3, FS_UNION
<1> QED
  BY <1>4

(***************************************************************************)
(* The worklist as a sequence: popping and pushing.                        *)
(***************************************************************************)
\* b is on the stack s; the stack without its top.
On(s, b) == \E i \in DOMAIN s : s[i] = b

Popped(s) == SubSeq(s, 1, Len(s) - 1)

\* The elements of a worklist after a pop and the pushes of a set of blocks.
LEMMA PopPush ==
    ASSUME NEW S, NEW w \in Seq(S), w # <<>>,
           NEW P, P \subseteq S, IsFiniteSet(P), NEW new \in [1..Cardinality(P) -> P],
           \A b \in P : \E i \in 1..Cardinality(P) : new[i] = b
    PROVE  /\ w[Len(w)] \in S
           /\ Popped(w) \in Seq(S)
           /\ Popped(w) \o new \in Seq(S)
           /\ \A b \in S : On(w, b) /\ b # w[Len(w)] => On(Popped(w), b)
           /\ \A b \in S : On(Popped(w), b) \/ b \in P => On(Popped(w) \o new, b)
<1>1. /\ Len(w) \in Nat /\ Len(w) > 0 /\ DOMAIN w = 1..Len(w)
      /\ \A i \in 1..Len(w) : w[i] \in S
  OBVIOUS
<1>2. /\ Popped(w) \in Seq(S) /\ Len(Popped(w)) = Len(w) - 1
      /\ \A i \in 1..(Len(w) - 1) : Popped(w)[i] = w[i]
  BY <1>1, SubSeqProperties DEF Popped
<1>3. DOMAIN Popped(w) = 1..(Len(w) - 1)
  BY <1>2
<1>4. /\ new \in Seq(S) /\ Len(new) = Cardinality(P)
      /\ \A b \in P : \E i \in 1..Cardinality(P) : new[i] = b
  <2>1. Cardinality(P) \in Nat
    BY FS_CardinalityType
  <2>2. new \in [1..Cardinality(P) -> S]
    OBVIOUS
  <2> QED
    BY <2>1, <2>2
<1>5. /\ Popped(w) \o new \in Seq(S)
      /\ Len(Popped(w) \o new) = Len(w) - 1 + Cardinality(P)
      /\ \A i \in 1..(Len(w) - 1) : (Popped(w) \o new)[i] = Popped(w)[i]
      /\ \A i \in 1..Cardinality(P) : (Popped(w) \o new)[Len(w) - 1 + i] = new[i]
  <2>1. Cardinality(P) \in Nat
    BY FS_CardinalityType
  <2> DEFINE f == Popped(w)
  <2>2. /\ f \o new \in Seq(S)
        /\ Len(f \o new) = Len(f) + Len(new)
        /\ \A i \in 1..(Len(f) + Len(new)) :
               (f \o new)[i] = IF i <= Len(f) THEN f[i] ELSE new[i - Len(f)]
    <3>1. f \in Seq(S) /\ new \in Seq(S)
      BY <1>2, <1>4
    <3> HIDE DEF f
    <3> QED
      BY ONLY <3>1, ConcatProperties, Zenon
  <2>3. Len(f) = Len(w) - 1 /\ Len(new) = Cardinality(P)
    BY <1>2, <1>4
  <2> HIDE DEF f
  <2>4. /\ \A i \in 1..(Len(w) - 1) : (f \o new)[i] = f[i]
        /\ \A i \in 1..Cardinality(P) : (f \o new)[Len(w) - 1 + i] = new[i]
    BY <1>1, <2>1, <2>2, <2>3
  <2> QED
    BY <2>2, <2>3, <2>4 DEF f
<1>6. \A b \in S : (\E i \in DOMAIN w : w[i] = b) /\ b # w[Len(w)]
                  => \E i \in DOMAIN Popped(w) : Popped(w)[i] = b
  BY <1>1, <1>2, <1>3
<1>7. \A b \in S : (\E i \in DOMAIN Popped(w) : Popped(w)[i] = b) \/ b \in P
                  => \E i \in DOMAIN (Popped(w) \o new) : (Popped(w) \o new)[i] = b
  <2> SUFFICES ASSUME NEW b \in S,
                      (\E i \in DOMAIN Popped(w) : Popped(w)[i] = b) \/ b \in P
               PROVE  \E i \in DOMAIN (Popped(w) \o new) : (Popped(w) \o new)[i] = b
    OBVIOUS
  <2>1. Cardinality(P) \in Nat
    BY FS_CardinalityType
  <2>2. DOMAIN (Popped(w) \o new) = 1..(Len(w) - 1 + Cardinality(P))
    BY <1>5
  <2>3. CASE \E i \in DOMAIN Popped(w) : Popped(w)[i] = b
    BY <2>1, <2>2, <2>3, <1>1, <1>3, <1>5
  <2>4. CASE b \in P
    <3>1. PICK i \in 1..Cardinality(P) : new[i] = b
      BY <1>4, <2>4
    <3>2. Len(w) - 1 + i \in 1..(Len(w) - 1 + Cardinality(P))
      BY <1>1, <2>1
    <3> QED
      BY <3>1, <3>2, <2>2, <1>5
  <2> QED
    BY <2>3, <2>4
<1>8. w[Len(w)] \in S
  BY <1>1
<1> QED
  BY <1>2, <1>5, <1>6, <1>7, <1>8 DEF On
=============================================================================
