---------------------------- MODULE HistoryProofs ----------------------------
(***************************************************************************)
(* Theorems about the Git histories that CommitHistory and OldestByTphash  *)
(* go through: what diffTree makes of two trees, which commits are read,   *)
(* what the searches by time and by hash find among them, which pairs the  *)
(* detectors make, and which answers are recorded.                         *)
(***************************************************************************)
EXTENDS OldestByTphash, InductionLemmas, FiniteSetTheorems, SequenceTheorems

(* Sequences: what FlattenSeq and Sorted make. *)

\* The sequences of ss are joined one by one; f has what is there after each.
Joins(f, ss, S) ==
  /\ f \in [0 .. Len(ss) -> Seq(S)] /\ f[0] = <<>>
  /\ \A i \in 1 .. Len(ss) : f[i] = f[i - 1] \o ss[i]

\* FlattenSeq is a fold of joins, and every step of it is one join.
LEMMA Flattened ==
  ASSUME NEW S, NEW ss \in Seq(Seq(S))
  PROVE  \E f : Joins(f, ss, S) /\ FlattenSeq(ss) = f[Len(ss)]
<1> DEFINE N == Len(ss)
           D == [i \in 1 .. N |-> [x \in Seq(S) |-> x \o ss[i]]]
<1>0. \A i \in 1 .. N : ss[i] \in Seq(S)
  OBVIOUS
<1>1. N \in Nat /\ <<>> \in Seq(S) /\ D \in [1 .. N -> [Seq(S) -> Seq(S)]]
  OBVIOUS
<1>2. PICK f : Turns(f, Seq(S), <<>>, N, D)
  BY <1>1, Iteration, Zenon
<1>3. Joins(f, ss, S)
  <2>1. f \in [0 .. N -> Seq(S)] /\ f[0] = <<>> /\ \A i \in 1 .. N : f[i] = D[i][f[i - 1]]
    BY <1>2 DEF Turns
  <2>2. ASSUME NEW i \in 1 .. N PROVE f[i] = f[i - 1] \o ss[i]
    <3>1. i - 1 \in 0 .. N
      BY <1>1
    <3>2. f[i - 1] \in Seq(S)
      BY <2>1, <3>1
    <3>3. D[i][f[i - 1]] = f[i - 1] \o ss[i]
      BY <3>2
    <3> QED BY <2>1, <3>3
  <2> QED BY <2>1, <2>2 DEF Joins
<1>4. CASE N = 0
  <2>1. FlattenSeq(ss) = ss /\ ss = <<>>
    BY <1>4 DEF FlattenSeq
  <2> QED BY <1>3, <1>4, <2>1 DEF Joins
<1>5. CASE N # 0
  <2> DEFINE Eq(g) == g = [i \in 1 .. N |-> IF i = 1 THEN ss[i] ELSE g[i - 1] \o ss[i]]
             flat == CHOOSE g : Eq(g)
             g0 == [i \in 1 .. N |-> f[i]]
  <2>1. FlattenSeq(ss) = flat[N]
    BY <1>5 DEF FlattenSeq
  <2>2. Eq(g0)
    <3>1. ASSUME NEW i \in 1 .. N PROVE g0[i] = IF i = 1 THEN ss[i] ELSE g0[i - 1] \o ss[i]
      <4>1. CASE i = 1
        <5>1. f[1] = <<>> \o ss[1] /\ ss[1] \in Seq(S)
          <6>1. 1 \in 1 .. N /\ 1 - 1 = 0
            BY <4>1
          <6> QED BY <1>3, <1>0, <6>1 DEF Joins
        <5>2. f[1] = ss[1]
          BY <5>1
        <5> QED BY <4>1, <5>2
      <4>2. CASE i # 1
        <5>1. i - 1 \in 1 .. N
          BY <4>2
        <5> QED BY <1>3, <4>2, <5>1 DEF Joins
      <4> QED BY <4>1, <4>2
    <3> HIDE DEF g0
    <3>2. g0 = [i \in 1 .. N |-> g0[i]]
      BY DEF g0
    <3> QED BY <3>1, <3>2
  <2>3. Eq(flat)
    <3> HIDE DEF Eq, g0
    <3> QED BY <2>2
  <2>4. \A i \in 1 .. N : flat[i] = IF i = 1 THEN ss[i] ELSE flat[i - 1] \o ss[i]
    <3> HIDE DEF flat
    <3> QED BY <2>3
  <2> DEFINE T == {k \in Nat : k \in 1 .. N => flat[k] = f[k]}
  <2>5. ASSUME NEW k \in Nat, k \in T PROVE k + 1 \in T
    <3> HIDE DEF flat
    <3> SUFFICES ASSUME k + 1 \in 1 .. N PROVE flat[k + 1] = f[k + 1]
      OBVIOUS
    <3>1. f[k + 1] = f[k] \o ss[k + 1]
      <4>1. (k + 1) - 1 = k
        OBVIOUS
      <4> QED BY <1>3, <4>1 DEF Joins
    <3>2. CASE k = 0
      <4>1. f[1] = <<>> \o ss[1] /\ ss[1] \in Seq(S)
        <5>1. 1 \in 1 .. N /\ 1 - 1 = 0
          BY <3>2
        <5> QED BY <1>3, <1>0, <5>1 DEF Joins
      <4>2. f[1] = ss[1] /\ flat[1] = ss[1]
        BY <2>4, <3>2, <4>1
      <4> QED BY <3>2, <4>2
    <3>3. CASE k # 0
      <4>1. k \in 1 .. N /\ flat[k] = f[k]
        BY <2>5, <3>3
      <4>2. k + 1 # 1 /\ (k + 1) - 1 = k
        BY <3>3
      <4>3. flat[k + 1] = flat[k] \o ss[k + 1]
        BY <2>4, <4>2
      <4> QED BY <3>1, <4>1, <4>3
    <3> QED BY <3>2, <3>3
  <2>6. 0 \in T
    OBVIOUS
  <2>7. N \in T
    <3> HIDE DEF T, flat
    <3> QED BY <1>1, <2>5, <2>6, SetInduction
  <2>8. flat[N] = f[N]
    BY <1>1, <1>5, <2>7
  <2> HIDE DEF flat
  <2> QED BY <1>3, <2>1, <2>8
<1> QED BY <1>4, <1>5

\* What is in two sequences, joined.
LEMMA RangeConcat == ASSUME NEW S, NEW s \in Seq(S), NEW t \in Seq(S) PROVE Range(s \o t) = Range(s) \cup Range(t)
<1>1. ASSUME NEW i \in DOMAIN t PROVE Len(s) + i \in DOMAIN (s \o t) /\ (s \o t)[Len(s) + i] = t[i]
  OBVIOUS
<1>2. ASSUME NEW i \in DOMAIN s PROVE i \in DOMAIN (s \o t) /\ (s \o t)[i] = s[i]
  OBVIOUS
<1>3. ASSUME NEW i \in DOMAIN (s \o t), i \notin DOMAIN s PROVE i - Len(s) \in DOMAIN t /\ (s \o t)[i] = t[i - Len(s)]
  BY <1>3
<1>4. \A x : x \in Range(s \o t) => x \in Range(s) \/ x \in Range(t)
  BY <1>1, <1>2, <1>3 DEF Range
<1>5. \A x : x \in Range(s) \/ x \in Range(t) => x \in Range(s \o t)
  BY <1>1, <1>2, Zenon DEF Range
<1> QED BY <1>4, <1>5

\* Of two elements, the one that comes first is related to the other one.
Pairwise(s, R) == \A p, q \in DOMAIN s : p < q => <<s[p], s[q]>> \in R

\* FlattenSeq has the elements of all sequences, and none besides.
LEMMA FlattenElements ==
  ASSUME NEW S, NEW ss \in Seq(Seq(S))
  PROVE  /\ FlattenSeq(ss) \in Seq(S)
         /\ \A x : x \in Range(FlattenSeq(ss)) <=> \E i \in DOMAIN ss : x \in Range(ss[i])
<1>1. PICK f : Joins(f, ss, S) /\ FlattenSeq(ss) = f[Len(ss)]
  BY Flattened
<1> DEFINE T == {n \in Nat : n <= Len(ss) =>
                   \A x : x \in Range(f[n]) <=> \E i \in 1 .. n : x \in Range(ss[i])}
<1>2. 0 \in T
  <2>1. Range(f[0]) = {} /\ \A i \in 1 .. 0 : FALSE
    BY <1>1 DEF Joins, Range
  <2> QED BY <2>1
<1>3. ASSUME NEW n \in Nat, n \in T PROVE n + 1 \in T
  <2> SUFFICES ASSUME n + 1 <= Len(ss), NEW x
               PROVE  x \in Range(f[n + 1]) <=> \E i \in 1 .. (n + 1) : x \in Range(ss[i])
    OBVIOUS
  <2>1. f[n] \in Seq(S) /\ ss[n + 1] \in Seq(S) /\ f[n + 1] = f[n] \o ss[n + 1]
    <3>1. (n + 1) - 1 = n /\ n \in 0 .. Len(ss) /\ n + 1 \in 1 .. Len(ss)
      OBVIOUS
    <3>2. ss[n + 1] \in Seq(S)
      BY <3>1
    <3> QED BY <1>1, <3>1, <3>2 DEF Joins
  <2>2. Range(f[n + 1]) = Range(f[n]) \cup Range(ss[n + 1])
    BY <2>1, RangeConcat
  <2>3. x \in Range(f[n]) <=> \E i \in 1 .. n : x \in Range(ss[i])
    BY <1>3
  <2> QED BY <2>2, <2>3
<1>4. Len(ss) \in T
  <2> HIDE DEF T
  <2>1. Len(ss) \in Nat
    OBVIOUS
  <2> QED BY <1>2, <1>3, <2>1, SetInduction
<1>5. f[Len(ss)] \in Seq(S) /\ DOMAIN ss = 1 .. Len(ss) /\ Len(ss) \in Nat
  <2>1. DOMAIN ss = 1 .. Len(ss) /\ Len(ss) \in Nat
    BY LenProperties
  <2>2. Len(ss) \in 0 .. Len(ss) /\ f \in [0 .. Len(ss) -> Seq(S)]
    BY <1>1, <2>1 DEF Joins
  <2> QED BY <2>1, <2>2
<1>6. \A x : x \in Range(f[Len(ss)]) <=> \E i \in 1 .. Len(ss) : x \in Range(ss[i])
  BY <1>4, <1>5
<1> QED BY <1>1, <1>5, <1>6

\* When all of one sequence is related to all of the next ones, the order goes through.
LEMMA FlattenPairs ==
  ASSUME NEW S, NEW ss \in Seq(Seq(S)), NEW R,
         \A i \in DOMAIN ss : Pairwise(ss[i], R),
         \A h, i \in DOMAIN ss : h < i => \A x \in Range(ss[h]), y \in Range(ss[i]) : <<x, y>> \in R
  PROVE  Pairwise(FlattenSeq(ss), R)
<1>1. PICK f : Joins(f, ss, S) /\ FlattenSeq(ss) = f[Len(ss)]
  BY Flattened
<1> DEFINE P(n) == /\ Pairwise(f[n], R)
                   /\ \A x \in Range(f[n]) : \E h \in 1 .. n : x \in Range(ss[h])
           T == {n \in Nat : n <= Len(ss) => P(n)}
<1>2. 0 \in T
  <2>1. f[0] = <<>>
    BY <1>1 DEF Joins
  <2>2. P(0)
    BY <2>1 DEF Pairwise, Range
  <2> QED BY <2>2
<1>3. ASSUME NEW n \in Nat, n \in T PROVE n + 1 \in T
  <2> SUFFICES ASSUME n + 1 <= Len(ss) PROVE P(n + 1)
    OBVIOUS
  <2> DEFINE s == f[n]
             t == ss[n + 1]
             u == f[n + 1]
  <2>1. s \in Seq(S) /\ t \in Seq(S) /\ u = s \o t
    <3>1. (n + 1) - 1 = n /\ n \in 0 .. Len(ss) /\ n + 1 \in 1 .. Len(ss)
      OBVIOUS
    <3>2. ss[n + 1] \in Seq(S)
      BY <3>1
    <3> QED BY <1>1, <3>1, <3>2 DEF Joins
  <2>2. P(n) /\ n + 1 \in DOMAIN ss
    BY <1>3
  <2>3. Range(u) = Range(s) \cup Range(t)
    <3> HIDE DEF s, t, u
    <3> QED BY <2>1, RangeConcat
  <2>4. \A x \in Range(u) : \E h \in 1 .. (n + 1) : x \in Range(ss[h])
    BY <2>2, <2>3
  <2>5. ASSUME NEW p \in DOMAIN u, NEW q \in DOMAIN u, p < q PROVE <<u[p], u[q]>> \in R
    <3> HIDE DEF s, t, u, P
    <3>0. DOMAIN u = 1 .. (Len(s) + Len(t)) /\ Len(s) \in Nat /\ Len(t) \in Nat
          /\ DOMAIN s = 1 .. Len(s) /\ DOMAIN t = 1 .. Len(t)
      BY <2>1
    <3>1. CASE q <= Len(s)
      <4>1. p \in DOMAIN s /\ q \in DOMAIN s /\ u[p] = s[p] /\ u[q] = s[q]
        BY <2>1, <2>5, <3>0, <3>1
      <4>2. Pairwise(s, R)
        BY <2>2 DEF P, s
      <4> QED BY <2>5, <4>1, <4>2 DEF Pairwise
    <3>2. CASE p > Len(s)
      <4>1. p - Len(s) \in DOMAIN t /\ q - Len(s) \in DOMAIN t /\ u[p] = t[p - Len(s)] /\ u[q] = t[q - Len(s)]
            /\ p - Len(s) < q - Len(s)
        <5>1. p \in Nat /\ q \in Nat /\ p <= Len(s) + Len(t) /\ q <= Len(s) + Len(t) /\ q > Len(s)
          BY <2>5, <3>0, <3>2
        <5>2. p - Len(s) \in 1 .. Len(t) /\ q - Len(s) \in 1 .. Len(t) /\ p - Len(s) < q - Len(s)
          BY <2>5, <3>0, <3>2, <5>1
        <5>3. \A i \in DOMAIN u : i > Len(s) => u[i] = t[i - Len(s)]
          BY <2>1, <3>0
        <5> QED BY <3>0, <3>2, <5>1, <5>2, <5>3
      <4>2. Pairwise(t, R)
        BY <2>2 DEF t
      <4> QED BY <4>1, <4>2 DEF Pairwise
    <3>3. CASE p <= Len(s) /\ q > Len(s)
      <4>1. p \in DOMAIN s /\ q - Len(s) \in DOMAIN t /\ u[p] = s[p] /\ u[q] = t[q - Len(s)]
        BY <2>1, <2>5, <3>0, <3>3
      <4>2. u[p] \in Range(s) /\ u[q] \in Range(t)
        BY <4>1 DEF Range
      <4>3. PICK h \in 1 .. n : u[p] \in Range(ss[h])
        BY <2>2, <4>2 DEF P, s
      <4>4. h \in DOMAIN ss /\ h < n + 1
        BY <2>2
      <4> QED BY <2>2, <4>2, <4>3, <4>4 DEF t
    <3> QED BY <3>0, <3>1, <3>2, <3>3
  <2> HIDE DEF s, t
  <2>6. Pairwise(u, R)
    BY <2>5, Zenon DEF Pairwise
  <2> QED BY <2>4, <2>6
<1>4. Len(ss) \in T
  <2> HIDE DEF T
  <2>1. Len(ss) \in Nat
    OBVIOUS
  <2> QED BY <1>2, <1>3, <2>1, SetInduction
<1> QED BY <1>1, <1>4

---------------------------------------------------------------------------

\* A strict order of the elements of S, as a set of pairs.
Orders(R, S) ==
  /\ \A x \in S : <<x, x>> \notin R
  /\ \A x, y \in S : x = y \/ <<x, y>> \in R \/ <<y, x>> \in R
  /\ \A x, y, z \in S : <<x, y>> \in R /\ <<y, z>> \in R => <<x, z>> \in R

BelowIn(R, S, x) == {y \in S : <<y, x>> \in R}

\* An element has more elements before it than those before it have.
LEMMA RankGrows ==
  ASSUME NEW S, IsFiniteSet(S), NEW R, Orders(R, S)
  PROVE  /\ \A x \in S : Cardinality(BelowIn(R, S, x)) \in 0 .. Cardinality(S) - 1
         /\ \A x, y \in S : <<x, y>> \in R => Cardinality(BelowIn(R, S, x)) < Cardinality(BelowIn(R, S, y))
<1>1. ASSUME NEW A, A \subseteq S, NEW x \in A PROVE IsFiniteSet(A) /\ Cardinality(A) \in Nat
                                                     /\ Cardinality(A \ {x}) = Cardinality(A) - 1 /\ IsFiniteSet(A \ {x})
  <2>1. IsFiniteSet(A)
    BY <1>1, FS_Subset
  <2> QED BY <2>1, FS_RemoveElement, FS_CardinalityType
<1>2. ASSUME NEW x \in S PROVE Cardinality(BelowIn(R, S, x)) \in 0 .. Cardinality(S) - 1
  <2>1. BelowIn(R, S, x) \subseteq S \ {x}
    BY DEF BelowIn, Orders
  <2>2. IsFiniteSet(S \ {x}) /\ Cardinality(S \ {x}) = Cardinality(S) - 1 /\ Cardinality(S) \in Nat
    BY <1>1
  <2>3. Cardinality(BelowIn(R, S, x)) <= Cardinality(S \ {x}) /\ IsFiniteSet(BelowIn(R, S, x))
    BY <2>1, <2>2, FS_Subset
  <2>4. Cardinality(BelowIn(R, S, x)) \in Nat
    BY <2>3, FS_CardinalityType
  <2> QED BY <2>2, <2>3, <2>4
<1>3. ASSUME NEW x \in S, NEW y \in S, <<x, y>> \in R
      PROVE  Cardinality(BelowIn(R, S, x)) < Cardinality(BelowIn(R, S, y))
  <2> DEFINE A == BelowIn(R, S, y)
  <2>1. BelowIn(R, S, x) \subseteq A \ {x} /\ A \subseteq S /\ x \in A
    BY <1>3 DEF BelowIn, Orders
  <2> HIDE DEF A
  <2>2. Cardinality(A \ {x}) = Cardinality(A) - 1 /\ IsFiniteSet(A \ {x}) /\ Cardinality(A) \in Nat
    BY <1>1, <2>1
  <2>3. Cardinality(BelowIn(R, S, x)) <= Cardinality(A \ {x}) /\ IsFiniteSet(BelowIn(R, S, x))
    BY <2>1, <2>2, FS_Subset
  <2>4. Cardinality(BelowIn(R, S, x)) \in Nat
    BY <2>3, FS_CardinalityType
  <2>5. Cardinality(BelowIn(R, S, x)) < Cardinality(A)
    BY <2>2, <2>3, <2>4
  <2> QED BY <2>5 DEF A
<1> QED BY <1>2, <1>3

\* Every number of elements is before some element.
LEMMA RankExists ==
  ASSUME NEW S, IsFiniteSet(S), NEW R, Orders(R, S), NEW i \in 1 .. Cardinality(S)
  PROVE  \E x \in S : Cardinality(BelowIn(R, S, x)) = i - 1
<1> DEFINE c(x) == Cardinality(BelowIn(R, S, x))
           N == Cardinality(S)
           F == [x \in S |-> c(x)]
           C == {F[x] : x \in S}
<1>1. N \in Nat
  BY FS_CardinalityType
<1>2. \A x \in S : c(x) \in 0 .. N - 1
  BY RankGrows
<1>3. \A x, y \in S : c(x) = c(y) => x = y
  <2>1. \A x, y \in S : <<x, y>> \in R => c(x) < c(y)
    BY RankGrows
  <2>2. SUFFICES ASSUME NEW x \in S, NEW y \in S, c(x) = c(y) PROVE x = y
    OBVIOUS
  <2>3. c(x) \in Int /\ c(y) \in Int /\ c(x) = c(y)
    BY <1>2, <2>2
  <2>4. (<<x, y>> \in R => c(x) < c(y)) /\ (<<y, x>> \in R => c(y) < c(x))
    BY <2>1
  <2>5. x = y \/ <<x, y>> \in R \/ <<y, x>> \in R
    BY DEF Orders
  <2> HIDE DEF c
  <2> QED BY <2>3, <2>4, <2>5
<1>4. F \in Bijection(S, C)
  <2> HIDE DEF c
  <2> QED BY <1>3 DEF Bijection, Injection, Surjection, IsInjective
<1>5. Cardinality(C) = N
  <2>1. IsFiniteSet(C) /\ Cardinality(C) = Cardinality(S)
    <3> HIDE DEF C, F
    <3>1. ExistsBijection(S, C)
      BY <1>4 DEF ExistsBijection
    <3> QED BY <3>1, FS_Bijection
  <2> QED BY <2>1
<1>6. C \subseteq 0 .. N - 1 /\ IsFiniteSet(0 .. N - 1) /\ Cardinality(0 .. N - 1) = N
  <2>1. C \subseteq 0 .. N - 1
    BY <1>2
  <2> HIDE DEF N, C
  <2>2. IsFiniteSet(0 .. N - 1) /\ Cardinality(0 .. N - 1) = N
    BY <1>1, FS_Interval
  <2> QED BY <2>1, <2>2
<1>7. C = 0 .. N - 1
  <2> HIDE DEF C
  <2> QED BY <1>5, <1>6, FS_Subset
<1>8. i - 1 \in C
  <2> HIDE DEF C
  <2>1. i - 1 \in 0 .. N - 1
    <3> HIDE DEF N
    <3>1. i \in 1 .. N
      BY DEF N
    <3> QED BY <1>1, <3>1
  <2> QED BY <1>7, <2>1
<1> QED BY <1>8

\* A function that gives each element the number of those before it lists all of them, in order.
LEMMA RankOrder ==
  ASSUME NEW S, IsFiniteSet(S), NEW R, Orders(R, S), NEW s, s = [i \in 1 .. Cardinality(S) |-> s[i]],
         \A i \in 1 .. Cardinality(S) : s[i] \in S /\ Cardinality(BelowIn(R, S, s[i])) = i - 1
  PROVE  s \in Seq(S) /\ Len(s) = Cardinality(S) /\ Range(s) = S /\ Pairwise(s, R)
<1> DEFINE N == Cardinality(S)
<1>1. N \in Nat
  BY FS_CardinalityType
<1>2. s \in Seq(S) /\ Len(s) = N /\ DOMAIN s = 1 .. N
  <2> HIDE DEF N
  <2>1. s = [i \in 1 .. N |-> s[i]] /\ \A i \in 1 .. N : s[i] \in S
    BY Zenon DEF N
  <2>2. s \in [1 .. N -> S]
    BY <2>1, Zenon
  <2>3. DOMAIN s = 1 .. N
    BY <2>2
  <2>4. s \in Seq(S)
    <3>1. s \in UNION {[1 .. n -> S] : n \in Nat}
      BY <1>1, <2>2, Zenon
    <3> QED BY <3>1, SeqDef, Zenon
  <2>5. Len(s) = N
    <3>1. 1 .. Len(s) = 1 .. N /\ Len(s) \in Nat
      BY <2>3, <2>4, LenProperties
    <3>2. ASSUME NEW m \in Nat, NEW n \in Nat, 1 .. m = 1 .. n PROVE m = n
      <4>1. (m # 0 => m \in 1 .. n) /\ (n # 0 => n \in 1 .. m)
        BY <3>2
      <4> QED BY <4>1
    <3> QED BY <1>1, <3>1, <3>2
  <2> QED BY <2>3, <2>4, <2>5
<1>3. ASSUME NEW x \in S PROVE x \in Range(s)
  <2> DEFINE i == Cardinality(BelowIn(R, S, x)) + 1
  <2>1. i \in 1 .. N /\ i - 1 = Cardinality(BelowIn(R, S, x))
    BY <1>1, RankGrows
  <2>2. s[i] \in S /\ Cardinality(BelowIn(R, S, s[i])) = Cardinality(BelowIn(R, S, x))
    BY <2>1
  <2>3. \A y, z \in S : <<y, z>> \in R => Cardinality(BelowIn(R, S, y)) < Cardinality(BelowIn(R, S, z))
    BY RankGrows
  <2>4. Cardinality(BelowIn(R, S, x)) \in Int
    BY <1>1, RankGrows
  <2>5. s[i] = x
    <3> DEFINE c(y) == Cardinality(BelowIn(R, S, y))
               z == s[i]
    <3>1. z \in S /\ c(z) = c(x) /\ c(x) \in Int
      BY <2>2, <2>4
    <3>2. (<<x, z>> \in R => c(x) < c(z)) /\ (<<z, x>> \in R => c(z) < c(x))
      BY <2>3, <3>1
    <3> HIDE DEF c, z
    <3>3. z = x \/ <<x, z>> \in R \/ <<z, x>> \in R
      BY <3>1 DEF Orders
    <3>4. z = x
      BY <3>1, <3>2, <3>3
    <3> QED BY <3>4 DEF z
  <2> QED BY <1>2, <2>1, <2>5 DEF Range
<1>4. Range(s) \subseteq S
  BY <1>2 DEF Range
<1>5. ASSUME NEW p \in DOMAIN s, NEW q \in DOMAIN s, p < q PROVE <<s[p], s[q]>> \in R
  <2>1. p \in 1 .. N /\ q \in 1 .. N
    BY <1>2
  <2>2. s[p] \in S /\ s[q] \in S /\ Cardinality(BelowIn(R, S, s[p])) = p - 1 /\ Cardinality(BelowIn(R, S, s[q])) = q - 1
    BY <2>1
  <2>3. s[p] # s[q]
    BY <1>5, <2>1, <2>2
  <2>4. <<s[q], s[p]>> \in R => q - 1 < p - 1
    BY <2>2, RankGrows
  <2> QED BY <1>5, <2>1, <2>2, <2>3, <2>4 DEF Orders
<1>6. Pairwise(s, R)
  BY <1>5 DEF Pairwise
<1> QED BY <1>2, <1>3, <1>4, <1>6

Less == {r \in Int \X Int : r[1] < r[2]}

\* Numbers, in their order.
LEMMA SortedNumbers ==
  ASSUME NEW S, S \subseteq Int, IsFiniteSet(S)
  PROVE  /\ Sorted(S, <) \in Seq(S) /\ Len(Sorted(S, <)) = Cardinality(S) /\ Range(Sorted(S, <)) = S
         /\ \A p, q \in DOMAIN Sorted(S, <) : p < q => Sorted(S, <)[p] < Sorted(S, <)[q]
<1> DEFINE s == Sorted(S, <)
<1>1. Orders(Less, S)
  BY DEF Orders, Less
<1>2. \A x \in S : BelowIn(Less, S, x) = {y \in S : y < x}
  BY DEF BelowIn, Less
<1>3. s = [i \in 1 .. Cardinality(S) |-> CHOOSE x \in S : Cardinality({y \in S : y < x}) = i - 1]
  BY DEF Sorted
<1>4. ASSUME NEW i \in 1 .. Cardinality(S)
      PROVE  s[i] \in S /\ Cardinality(BelowIn(Less, S, s[i])) = i - 1
  <2>1. PICK x \in S : Cardinality(BelowIn(Less, S, x)) = i - 1
    BY <1>1, RankExists
  <2>2. Cardinality({y \in S : y < x}) = i - 1
    BY <1>2, <2>1
  <2>3. s[i] \in S /\ Cardinality({y \in S : y < s[i]}) = i - 1
    <3>1. s[i] = CHOOSE z \in S : Cardinality({y \in S : y < z}) = i - 1
      BY <1>3
    <3> HIDE DEF s
    <3> QED BY <2>2, <3>1
  <2> HIDE DEF s
  <2> QED BY <1>2, <2>3
<1>5. s = [i \in 1 .. Cardinality(S) |-> s[i]]
  BY <1>3
<1>6. s \in Seq(S) /\ Len(s) = Cardinality(S) /\ Range(s) = S /\ Pairwise(s, Less)
  <2> HIDE DEF s
  <2> QED BY <1>1, <1>4, <1>5, RankOrder
<1> HIDE DEF s
<1>7. \A p, q \in DOMAIN s : p < q => s[p] < s[q]
  BY <1>6 DEF Pairwise, Less
<1>8. s \in Seq(S) /\ Len(s) = Cardinality(S) /\ Range(s) = S /\ \A p, q \in DOMAIN s : p < q => s[p] < s[q]
  BY <1>6, <1>7
<1> QED BY <1>8 DEF s

(* Trees: induction over them, and the equations of diffTree and Files. *)

Depth == Cardinality(Trees)
DirsIn(t, S) == \A k \in DOMAIN t : IsDir(k) => t[k] \in S

\* What the assumption says of one tree.
LEMMA TreeFacts ==
  /\ Depth \in Nat /\ Empty \in Trees /\ DOMAIN Empty = {} /\ TreesUpTo[Depth] = Trees
  /\ \A t \in Trees : IsFiniteSet(DOMAIN t) /\ DOMAIN t \subseteq Nat \ {0}
  /\ \A t \in Trees : \A k \in DOMAIN t : k \in Nat \ {0} /\ IF IsDir(k) THEN t[k] \in Trees ELSE t[k][1] \in Nat \ {0}
<1>1. Depth \in Nat
  BY HistoryAssumption, FS_CardinalityType DEF Depth
<1>2. DOMAIN Empty = {}
  BY DEF Empty
<1> QED BY <1>1, <1>2, HistoryAssumption DEF Depth

\* The windows and the skew are numbers.
LEMMA WindowFacts ==
  /\ Skew \in Nat /\ Later \in Nat /\ RemovalBack \in Nat /\ MoveBack \in Nat
  /\ Margin \in Nat /\ Back \in Nat /\ Ahead \in Nat
<1>1. {Skew, Later, RemovalBack, MoveBack, Margin, Back, Ahead} \subseteq Nat
  BY HistoryAssumption
<1> QED BY <1>1

\* Each level has the trees whose directories are in the level below.
LEMMA Levels ==
  /\ TreesUpTo[0] = {}
  /\ \A n \in 1 .. Depth : TreesUpTo[n] = {t \in Trees : DirsIn(t, TreesUpTo[n - 1])}
<1> DEFINE Step == [s \in SUBSET Trees |-> {t \in Trees : DirsIn(t, s)}]
           D == [n \in 1 .. Depth |-> Step]
           Eq(g) == g = [n \in 0 .. Depth |->
                          IF n = 0 THEN {} ELSE {t \in Trees : \A k \in DOMAIN t : IsDir(k) => t[k] \in g[n - 1]}]
           up == CHOOSE g : Eq(g)
<1>1. PICK f : Turns(f, SUBSET Trees, {}, Depth, D)
  <2>1. Step \in [SUBSET Trees -> SUBSET Trees]
    OBVIOUS
  <2>2. D \in [1 .. Depth -> [SUBSET Trees -> SUBSET Trees]] /\ {} \in SUBSET Trees
    BY <2>1
  <2> HIDE DEF D
  <2> QED BY <2>2, TreeFacts, Iteration
<1>2. f \in [0 .. Depth -> SUBSET Trees] /\ f[0] = {} /\ \A n \in 1 .. Depth : f[n] = D[n][f[n - 1]]
  BY <1>1 DEF Turns
<1>3. ASSUME NEW n \in 1 .. Depth PROVE f[n] = {t \in Trees : DirsIn(t, f[n - 1])}
  <2>1. n - 1 \in 0 .. Depth
    BY TreeFacts
  <2>2. f[n - 1] \in SUBSET Trees
    BY <1>2, <2>1
  <2> QED BY <1>2, <2>2
<1> HIDE DEF D
<1>4. Eq(f)
  <2>1. ASSUME NEW n \in 0 .. Depth
        PROVE  f[n] = IF n = 0 THEN {} ELSE {t \in Trees : \A k \in DOMAIN t : IsDir(k) => t[k] \in f[n - 1]}
    <3>1. CASE n = 0
      BY <1>2, <3>1
    <3>2. CASE n # 0
      <4>1. n \in 1 .. Depth
        BY <3>2, TreeFacts
      <4> QED BY <1>3, <3>2, <4>1 DEF DirsIn
    <3> QED BY <3>1, <3>2
  <2>2. f = [n \in 0 .. Depth |-> f[n]]
    BY <1>2
  <2> QED BY <2>1, <2>2
<1>5. Eq(up)
  <2> HIDE DEF Eq
  <2> QED BY <1>4
<1>6. TreesUpTo = up
  BY Zenon DEF TreesUpTo, Depth
<1>7. \A n \in 0 .. Depth : up[n] = IF n = 0 THEN {} ELSE {t \in Trees : DirsIn(t, up[n - 1])}
  <2> HIDE DEF up
  <2> QED BY <1>5 DEF DirsIn
<1>8. up[0] = {} /\ \A n \in 1 .. Depth : up[n] = {t \in Trees : DirsIn(t, up[n - 1])}
  <2> HIDE DEF up, Eq
  <2>1. 0 \in 0 .. Depth /\ \A n \in 1 .. Depth : n \in 0 .. Depth /\ n # 0
    BY TreeFacts
  <2> QED BY <1>7, <2>1
<1> QED BY <1>6, <1>8

Common(a, b) == DOMAIN a \cup DOMAIN b

\* The subtrees of two trees of a level are in the level below.
LEMMA LevelBelow ==
  ASSUME NEW n \in Nat, n + 1 <= Depth, NEW a \in TreesUpTo[n + 1], NEW b \in TreesUpTo[n + 1],
         NEW k \in Common(a, b), IsDir(k)
  PROVE  /\ a \in Trees /\ b \in Trees
         /\ Subtree(a, k) \in TreesUpTo[n] /\ Subtree(b, k) \in TreesUpTo[n]
         /\ Subtree(a, k) \in Trees /\ Subtree(b, k) \in Trees
<1>1. n + 1 \in 1 .. Depth /\ (n + 1) - 1 = n
  BY TreeFacts
<1>2. TreesUpTo[n + 1] = {t \in Trees : DirsIn(t, TreesUpTo[n])}
  BY <1>1, Levels
<1>3. \A t \in TreesUpTo[n + 1] : t \in Trees /\ (k \in DOMAIN t => t[k] \in TreesUpTo[n])
  BY <1>2 DEF DirsIn
<1>4. n # 0
  BY <1>3, Levels DEF Common
<1>5. TreesUpTo[n] = {t \in Trees : DirsIn(t, TreesUpTo[n - 1])}
  <2>1. n \in 1 .. Depth
    BY <1>4, TreeFacts
  <2> QED BY <2>1, Levels
<1>6. Empty \in TreesUpTo[n]
  BY <1>5, TreeFacts DEF DirsIn
<1> QED BY <1>3, <1>5, <1>6 DEF Subtree

\* What holds of two trees when it holds of their directories holds of any two trees.
LEMMA PairInduction ==
  ASSUME NEW S,
         \A a, b \in Trees : (\A k \in Common(a, b) : IsDir(k) => <<Subtree(a, k), Subtree(b, k)>> \in S) => <<a, b>> \in S
  PROVE  \A a, b \in Trees : <<a, b>> \in S
<1> DEFINE T == {n \in Nat : n <= Depth => \A a, b \in TreesUpTo[n] : <<a, b>> \in S}
<1>1. 0 \in T
  BY Levels
<1>2. ASSUME NEW n \in Nat, n \in T PROVE n + 1 \in T
  <2> SUFFICES ASSUME n + 1 <= Depth, NEW a \in TreesUpTo[n + 1], NEW b \in TreesUpTo[n + 1] PROVE <<a, b>> \in S
    OBVIOUS
  <2>1. ASSUME NEW k \in Common(a, b), IsDir(k) PROVE <<Subtree(a, k), Subtree(b, k)>> \in S
    <3>1. Subtree(a, k) \in TreesUpTo[n] /\ Subtree(b, k) \in TreesUpTo[n]
      BY <2>1, LevelBelow
    <3>2. n <= Depth
      BY TreeFacts
    <3> QED BY <1>2, <3>1, <3>2
  <2>2. a \in Trees /\ b \in Trees
    <3>1. n + 1 \in 1 .. Depth
      BY TreeFacts
    <3> QED BY <3>1, Levels
  <2> QED BY <2>1, <2>2
<1> HIDE DEF T
<1>3. Depth \in T
  BY <1>1, <1>2, TreeFacts, SetInduction
<1>4. \A a, b \in TreesUpTo[Depth] : <<a, b>> \in S
  <2>1. Depth <= Depth
    BY TreeFacts
  <2> QED BY <1>3, <2>1 DEF T
<1> QED BY <1>4, TreeFacts

---------------------------------------------------------------------------

\* The bodies of diffTree and Files, with what they call.
DiffAt(f, a, b, path, k) ==
  IF IsDir(k) THEN f[<<Subtree(a, k), Subtree(b, k), Append(path, k)>>]
  ELSE IF Blob(a, k) = Blob(b, k) THEN <<>>
  ELSE <<[file |-> Append(path, k), oid1 |-> Blob(a, k), oid2 |-> Blob(b, k),
          mode1 |-> Mode(a, k), mode2 |-> Mode(b, k)]>>

DiffBody(f, at) ==
  IF at[1] = at[2] THEN <<>>
  ELSE FlattenSeq([i \in DOMAIN Names(at[1], at[2]) |-> DiffAt(f, at[1], at[2], at[3], Names(at[1], at[2])[i])])

Places == Trees \X Trees \X Seq(Nat)

\* The names that a merge of two trees goes through.
LEMMA NamesFacts ==
  ASSUME NEW a \in Trees, NEW b \in Trees
  PROVE  /\ Names(a, b) \in Seq(Common(a, b)) /\ Common(a, b) \subseteq Nat \ {0}
         /\ Range(Names(a, b)) = Common(a, b) /\ DOMAIN Names(a, b) = 1 .. Len(Names(a, b))
         /\ \A p, q \in DOMAIN Names(a, b) : p < q => Names(a, b)[p] < Names(a, b)[q]
<1>1. IsFiniteSet(Common(a, b)) /\ Common(a, b) \subseteq Nat \ {0}
  BY TreeFacts, FS_Union DEF Common
<1>2. Common(a, b) \subseteq Int
  BY <1>1
<1>3. Names(a, b) = Sorted(Common(a, b), <)
  BY DEF Names, Common
<1>4. Names(a, b) \in Seq(Common(a, b)) /\ Range(Names(a, b)) = Common(a, b)
  BY <1>1, <1>2, <1>3, SortedNumbers
<1>5. \A p, q \in DOMAIN Names(a, b) : p < q => Names(a, b)[p] < Names(a, b)[q]
  BY <1>1, <1>2, <1>3, SortedNumbers
<1> QED BY <1>1, <1>4, <1>5

\* Two functions that agree on the directories make the same of two trees.
DirsAgree(f, g, a, b, path) ==
  \A k \in Common(a, b) : IsDir(k) =>
    f[<<Subtree(a, k), Subtree(b, k), Append(path, k)>>] = g[<<Subtree(a, k), Subtree(b, k), Append(path, k)>>]

\* diffTree depends on itself only at the directories that the two trees have.
LEMMA DiffSame ==
  ASSUME NEW f, NEW g, NEW path, NEW a \in Trees, NEW b \in Trees, DirsAgree(f, g, a, b, path)
  PROVE  DiffBody(f, <<a, b, path>>) = DiffBody(g, <<a, b, path>>)
<1>1. ASSUME NEW i \in DOMAIN Names(a, b)
      PROVE  DiffAt(f, a, b, path, Names(a, b)[i]) = DiffAt(g, a, b, path, Names(a, b)[i])
  <2>1. Names(a, b)[i] \in Common(a, b)
    BY NamesFacts
  <2> QED BY <2>1 DEF DiffAt, DirsAgree
<1>2. [i \in DOMAIN Names(a, b) |-> DiffAt(f, a, b, path, Names(a, b)[i])]
        = [i \in DOMAIN Names(a, b) |-> DiffAt(g, a, b, path, Names(a, b)[i])]
  BY <1>1
<1> QED BY <1>2 DEF DiffBody

\* diffTree is defined by its equation: the recursion ends, as trees are finite.
LEMMA DiffEquation ==
  \A a, b \in Trees : \A path \in Seq(Nat) : diffTree[<<a, b, path>>] = DiffBody(diffTree, <<a, b, path>>)
<1> DEFINE Holds(f, n) == \A a, b \in TreesUpTo[n] : \A path \in Seq(Nat) :
                            f[<<a, b, path>>] = DiffBody(f, <<a, b, path>>)
           T == {n \in Nat : n <= Depth => \E f : f = [at \in Places |-> f[at]] /\ Holds(f, n)}
<1>1. 0 \in T
  <2>1. [at \in Places |-> <<>>] = [at \in Places |-> [x \in Places |-> <<>>][at]]
    OBVIOUS
  <2>2. Holds([at \in Places |-> <<>>], 0)
    BY Levels
  <2> HIDE DEF Holds
  <2> QED BY <2>1, <2>2
<1>2. ASSUME NEW n \in Nat, n \in T PROVE n + 1 \in T
  <2> SUFFICES ASSUME n + 1 <= Depth PROVE \E f : f = [at \in Places |-> f[at]] /\ Holds(f, n + 1)
    OBVIOUS
  <2>1. n <= Depth
    BY TreeFacts
  <2>2. PICK g : g = [at \in Places |-> g[at]] /\ Holds(g, n)
    BY <1>2, <2>1
  <2> DEFINE f == [at \in Places |-> DiffBody(g, at)]
  <2>3. \A a, b \in Trees : \A path \in Seq(Nat) : f[<<a, b, path>>] = DiffBody(g, <<a, b, path>>)
    BY DEF Places
  <2>4. f = [at \in Places |-> f[at]]
    OBVIOUS
  <2> HIDE DEF f
  <2>5. ASSUME NEW a \in TreesUpTo[n + 1], NEW b \in TreesUpTo[n + 1], NEW path \in Seq(Nat)
        PROVE  f[<<a, b, path>>] = DiffBody(f, <<a, b, path>>)
    <3>1. a \in Trees /\ b \in Trees
      <4>1. n + 1 \in 1 .. Depth
        BY TreeFacts
      <4> QED BY <4>1, Levels
    <3>2. ASSUME NEW k \in Common(a, b), IsDir(k)
          PROVE  f[<<Subtree(a, k), Subtree(b, k), Append(path, k)>>] = g[<<Subtree(a, k), Subtree(b, k), Append(path, k)>>]
      <4>1. /\ Subtree(a, k) \in TreesUpTo[n] /\ Subtree(b, k) \in TreesUpTo[n]
            /\ Subtree(a, k) \in Trees /\ Subtree(b, k) \in Trees
        BY <3>2, LevelBelow
      <4>2. Append(path, k) \in Seq(Nat)
        <5>1. k \in Nat
          BY <3>1, NamesFacts
        <5> QED BY <5>1
      <4> HIDE DEF Holds
      <4>3. g[<<Subtree(a, k), Subtree(b, k), Append(path, k)>>] = DiffBody(g, <<Subtree(a, k), Subtree(b, k), Append(path, k)>>)
        BY <2>2, <4>1, <4>2 DEF Holds
      <4> QED BY <2>3, <4>1, <4>2, <4>3
    <3>3. DiffBody(f, <<a, b, path>>) = DiffBody(g, <<a, b, path>>)
      <4>1. DirsAgree(f, g, a, b, path)
        BY <3>2 DEF DirsAgree
      <4> QED BY <3>1, <4>1, DiffSame
    <3> QED BY <2>3, <3>1, <3>3
  <2>6. Holds(f, n + 1)
    BY <2>5
  <2> HIDE DEF Holds
  <2> QED BY <2>4, <2>6
<1>3. Depth \in T
  <2> HIDE DEF T
  <2> QED BY <1>1, <1>2, TreeFacts, SetInduction
<1>4. PICK f : f = [at \in Places |-> f[at]] /\ Holds(f, Depth)
  BY <1>3
<1>5. \A at \in Places : f[at] = DiffBody(f, at)
  <2> SUFFICES ASSUME NEW at \in Places PROVE f[at] = DiffBody(f, at)
    OBVIOUS
  <2>1. PICK a \in Trees, b \in Trees, path \in Seq(Nat) : at = <<a, b, path>>
    BY DEF Places
  <2> QED BY <1>4, <2>1, TreeFacts
<1>6. f = [at \in Places |-> DiffBody(f, at)]
  BY <1>4, <1>5, Zenon
<1>7. diffTree = [at \in Places |-> DiffBody(diffTree, at)]
  <2>1. f = [at \in Trees \X Trees \X Seq(Nat) |-> DiffBody(f, at)]
    BY <1>6 DEF Places
  <2>2. diffTree = [at \in Trees \X Trees \X Seq(Nat) |-> DiffBody(diffTree, at)]
    BY <2>1 DEF diffTree, DiffBody, DiffAt
  <2> QED BY <2>2 DEF Places
<1>8. \A a, b \in Trees : \A path \in Seq(Nat) : <<a, b, path>> \in Places
  BY DEF Places
<1> QED BY <1>7, <1>8, Zenon

FileAt(f, t, path, k) ==
  IF IsDir(k) THEN f[<<t[k], Append(path, k)>>] ELSE <<[file |-> Append(path, k), oid |-> t[k][1]]>>

FileBody(f, at) == FlattenSeq([i \in DOMAIN Entries(at[1]) |-> FileAt(f, at[1], at[2], Entries(at[1])[i])])

Roots == Trees \X Seq(Nat)

\* The entries of a tree are its names, each once and in order.
LEMMA EntriesFacts ==
  ASSUME NEW t \in Trees
  PROVE  /\ Entries(t) \in Seq(DOMAIN t) /\ DOMAIN t \subseteq Nat \ {0}
         /\ Range(Entries(t)) = DOMAIN t /\ DOMAIN Entries(t) = 1 .. Len(Entries(t))
         /\ \A p, q \in DOMAIN Entries(t) : p < q => Entries(t)[p] < Entries(t)[q]
<1>1. IsFiniteSet(DOMAIN t) /\ DOMAIN t \subseteq Nat \ {0}
  BY TreeFacts
<1>2. DOMAIN t \subseteq Int
  BY <1>1
<1>3. Entries(t) = Sorted(DOMAIN t, <)
  BY DEF Entries
<1>4. Entries(t) \in Seq(DOMAIN t) /\ Range(Entries(t)) = DOMAIN t
  BY <1>1, <1>2, <1>3, SortedNumbers
<1>5. \A p, q \in DOMAIN Entries(t) : p < q => Entries(t)[p] < Entries(t)[q]
  BY <1>1, <1>2, <1>3, SortedNumbers
<1> QED BY <1>1, <1>4, <1>5

BelowAgree(f, g, t, path) ==
  \A k \in DOMAIN t : IsDir(k) => f[<<t[k], Append(path, k)>>] = g[<<t[k], Append(path, k)>>]

\* Files depends on itself only at the directories of the tree.
LEMMA FilesSame ==
  ASSUME NEW f, NEW g, NEW path, NEW t \in Trees, BelowAgree(f, g, t, path)
  PROVE  FileBody(f, <<t, path>>) = FileBody(g, <<t, path>>)
<1>1. ASSUME NEW i \in DOMAIN Entries(t)
      PROVE  FileAt(f, t, path, Entries(t)[i]) = FileAt(g, t, path, Entries(t)[i])
  <2>1. Entries(t)[i] \in DOMAIN t
    BY EntriesFacts
  <2> QED BY <2>1 DEF FileAt, BelowAgree
<1>2. [i \in DOMAIN Entries(t) |-> FileAt(f, t, path, Entries(t)[i])]
        = [i \in DOMAIN Entries(t) |-> FileAt(g, t, path, Entries(t)[i])]
  BY <1>1
<1> QED BY <1>2 DEF FileBody

\* Files is defined by its equation.
LEMMA FilesEquation ==
  \A t \in Trees : \A path \in Seq(Nat) : Files[<<t, path>>] = FileBody(Files, <<t, path>>)
<1> DEFINE Holds(f, n) == \A t \in TreesUpTo[n] : \A path \in Seq(Nat) : f[<<t, path>>] = FileBody(f, <<t, path>>)
           T == {n \in Nat : n <= Depth => \E f : f = [at \in Roots |-> f[at]] /\ Holds(f, n)}
<1>1. 0 \in T
  <2>1. [at \in Roots |-> <<>>] = [at \in Roots |-> [x \in Roots |-> <<>>][at]]
    OBVIOUS
  <2>2. Holds([at \in Roots |-> <<>>], 0)
    BY Levels
  <2> HIDE DEF Holds
  <2> QED BY <2>1, <2>2
<1>2. ASSUME NEW n \in Nat, n \in T PROVE n + 1 \in T
  <2> SUFFICES ASSUME n + 1 <= Depth PROVE \E f : f = [at \in Roots |-> f[at]] /\ Holds(f, n + 1)
    OBVIOUS
  <2>1. n <= Depth
    BY TreeFacts
  <2>2. PICK g : g = [at \in Roots |-> g[at]] /\ Holds(g, n)
    BY <1>2, <2>1
  <2> DEFINE f == [at \in Roots |-> FileBody(g, at)]
  <2>3. \A t \in Trees : \A path \in Seq(Nat) : f[<<t, path>>] = FileBody(g, <<t, path>>)
    BY DEF Roots
  <2>4. f = [at \in Roots |-> f[at]]
    OBVIOUS
  <2> HIDE DEF f
  <2>5. ASSUME NEW t \in TreesUpTo[n + 1], NEW path \in Seq(Nat)
        PROVE  f[<<t, path>>] = FileBody(f, <<t, path>>)
    <3>1. n + 1 \in 1 .. Depth /\ (n + 1) - 1 = n
      BY TreeFacts
    <3>2. t \in Trees /\ \A k \in DOMAIN t : IsDir(k) => t[k] \in TreesUpTo[n]
      BY <3>1, Levels DEF DirsIn
    <3>3. ASSUME NEW k \in DOMAIN t, IsDir(k)
          PROVE  f[<<t[k], Append(path, k)>>] = g[<<t[k], Append(path, k)>>]
      <4>1. t[k] \in TreesUpTo[n] /\ t[k] \in Trees /\ k \in Nat
        BY <3>2, <3>3, TreeFacts
      <4>2. Append(path, k) \in Seq(Nat)
        BY <4>1
      <4> HIDE DEF Holds
      <4>3. g[<<t[k], Append(path, k)>>] = FileBody(g, <<t[k], Append(path, k)>>)
        BY <2>2, <4>1, <4>2 DEF Holds
      <4> QED BY <2>3, <4>1, <4>2, <4>3
    <3>4. FileBody(f, <<t, path>>) = FileBody(g, <<t, path>>)
      <4>1. BelowAgree(f, g, t, path)
        BY <3>3 DEF BelowAgree
      <4> QED BY <3>2, <4>1, FilesSame
    <3> QED BY <2>3, <3>2, <3>4
  <2>6. Holds(f, n + 1)
    BY <2>5
  <2> HIDE DEF Holds
  <2> QED BY <2>4, <2>6
<1>3. Depth \in T
  <2> HIDE DEF T
  <2> QED BY <1>1, <1>2, TreeFacts, SetInduction
<1>4. PICK f : f = [at \in Roots |-> f[at]] /\ Holds(f, Depth)
  BY <1>3
<1>5. \A at \in Roots : f[at] = FileBody(f, at)
  <2> SUFFICES ASSUME NEW at \in Roots PROVE f[at] = FileBody(f, at)
    OBVIOUS
  <2>1. PICK t \in Trees, path \in Seq(Nat) : at = <<t, path>>
    BY DEF Roots
  <2> QED BY <1>4, <2>1, TreeFacts
<1>6. f = [at \in Roots |-> FileBody(f, at)]
  BY <1>4, <1>5, Zenon
<1>7. Files = [at \in Roots |-> FileBody(Files, at)]
  <2>1. f = [at \in Trees \X Seq(Nat) |-> FileBody(f, at)]
    BY <1>6 DEF Roots
  <2>2. Files = [at \in Trees \X Seq(Nat) |-> FileBody(Files, at)]
    BY <2>1 DEF Files, FileBody, FileAt
  <2> QED BY <2>2 DEF Roots
<1>8. \A t \in Trees : \A path \in Seq(Nat) : <<t, path>> \in Roots
  BY DEF Roots
<1> QED BY <1>7, <1>8, Zenon

---------------------------------------------------------------------------

(* What is in the trees, and in the changes between them. *)

\* A pathname that goes on with k where path ends.
Under(file, path, k) ==
  /\ file \in Seq(Nat) /\ Len(file) > Len(path)
  /\ \A i \in 1 .. Len(path) : file[i] = path[i]
  /\ file[Len(path) + 1] = k

\* A pathname below a directory is below the directory above it.
LEMMA UnderFacts ==
  ASSUME NEW path \in Seq(Nat), NEW k \in Nat
  PROVE  /\ Append(path, k) \in Seq(Nat) /\ Under(Append(path, k), path, k)
         /\ \A file, j : Under(file, Append(path, k), j) => Under(file, path, k)
<1>1. Append(path, k) \in Seq(Nat) /\ Len(Append(path, k)) = Len(path) + 1 /\ Append(path, k)[Len(path) + 1] = k
      /\ Len(path) \in Nat
  OBVIOUS
<1>2. \A i \in 1 .. Len(path) : Append(path, k)[i] = path[i]
  OBVIOUS
<1>3. Under(Append(path, k), path, k)
  BY <1>1, <1>2 DEF Under
<1>4. ASSUME NEW file, NEW j, Under(file, Append(path, k), j) PROVE Under(file, path, k)
  <2>1. file \in Seq(Nat) /\ Len(file) > Len(path) + 1 /\ \A i \in 1 .. (Len(path) + 1) : file[i] = Append(path, k)[i]
    BY <1>1, <1>4 DEF Under
  <2>2. Len(path) + 1 \in 1 .. (Len(path) + 1) /\ \A i \in 1 .. Len(path) : i \in 1 .. (Len(path) + 1)
    BY <1>1
  <2>3. file[Len(path) + 1] = k /\ \A i \in 1 .. Len(path) : file[i] = path[i]
    BY <1>1, <1>2, <2>1, <2>2
  <2>4. Len(file) > Len(path)
    BY <1>1, <2>1
  <2> QED BY <2>1, <2>3, <2>4 DEF Under
<1> QED BY <1>1, <1>3, <1>4

\* The order of the names is the order of the pathnames.
LEMMA UnderBefore ==
  ASSUME NEW path \in Seq(Nat), NEW k \in Nat, NEW j \in Nat, k < j, NEW f, NEW g, Under(f, path, k), Under(g, path, j)
  PROVE  Before(f, g)
<1> DEFINE i == Len(path) + 1
<1>1. i \in 1 .. Len(g) /\ f[i] < g[i]
  BY DEF Under
<1>2. \A m \in 1 .. i - 1 : m <= Len(f) /\ f[m] = g[m]
  BY DEF Under
<1> QED BY <1>1, <1>2 DEF Before

FileRecords == [file : Seq(Nat), oid : Blobs]

\* The files of a tree, of which one name leads to this part.
FilePart(t, path, k) ==
  IF k \notin DOMAIN t THEN {} ELSE Range(FileAt(Files, t, path, k))

\* The files of a tree are those of its names, and each begins with its name.
LEMMA FilesBelow ==
  \A t \in Trees : \A path \in Seq(Nat) :
    /\ Files[<<t, path>>] \in Seq(FileRecords)
    /\ \A k \in DOMAIN t : \A x \in FilePart(t, path, k) : x \in FileRecords /\ Under(x.file, path, k)
    /\ \A x : x \in Range(Files[<<t, path>>]) <=> \E k \in DOMAIN t : x \in FilePart(t, path, k)
<1> DEFINE P(t, path) == /\ Files[<<t, path>>] \in Seq(FileRecords)
                         /\ \A k \in DOMAIN t : \A x \in FilePart(t, path, k) : x \in FileRecords /\ Under(x.file, path, k)
                         /\ \A x : x \in Range(Files[<<t, path>>]) <=> \E k \in DOMAIN t : x \in FilePart(t, path, k)
           Q(t) == \A path \in Seq(Nat) : P(t, path)
           S == {ab \in Trees \X Trees : ab[1] = ab[2] => Q(ab[1])}
<1>1. ASSUME NEW t \in Trees, NEW path \in Seq(Nat), \A k \in DOMAIN t : IsDir(k) => Q(t[k])
      PROVE  P(t, path)
  <2> DEFINE e == Entries(t)
             ss == [i \in DOMAIN e |-> FileAt(Files, t, path, e[i])]
  <2>1. ASSUME NEW k \in DOMAIN t
        PROVE  /\ FileAt(Files, t, path, k) \in Seq(FileRecords)
               /\ \A x \in FilePart(t, path, k) : x \in FileRecords /\ Under(x.file, path, k)
    <3>0. k \in Nat /\ FilePart(t, path, k) = Range(FileAt(Files, t, path, k))
      BY TreeFacts DEF FilePart
    <3>1. CASE IsDir(k)
      <4>1. FileAt(Files, t, path, k) = Files[<<t[k], Append(path, k)>>]
        BY <3>1 DEF FileAt
      <4>2. t[k] \in Trees /\ Append(path, k) \in Seq(Nat)
        BY <3>0, <3>1, TreeFacts
      <4>3. P(t[k], Append(path, k))
        BY <1>1, <3>1, <4>2, Zenon
      <4>4. \A x \in Range(Files[<<t[k], Append(path, k)>>]) : x \in FileRecords /\ \E j : Under(x.file, Append(path, k), j)
        BY <4>3, Zenon
      <4>5. \A file, j : Under(file, Append(path, k), j) => Under(file, path, k)
        BY <3>0, UnderFacts
      <4> QED BY <3>0, <4>1, <4>3, <4>4, <4>5, Zenon
    <3>2. CASE ~IsDir(k)
      <4> DEFINE r == [file |-> Append(path, k), oid |-> t[k][1]]
      <4>1. FileAt(Files, t, path, k) = <<r>>
        BY <3>2 DEF FileAt
      <4>2. t[k][1] \in Blobs
        BY <3>2 DEF Blobs
      <4>3. r \in FileRecords /\ Under(r.file, path, k)
        BY <3>0, <4>2, UnderFacts DEF FileRecords
      <4> HIDE DEF r
      <4>4. <<r>> \in Seq(FileRecords) /\ Range(<<r>>) = {r}
        BY <4>3 DEF Range
      <4> QED BY <3>0, <4>1, <4>3, <4>4
    <3> QED BY <3>1, <3>2
  <2>2. \A i \in DOMAIN e : e[i] \in DOMAIN t
    BY EntriesFacts
  <2>3. ss \in Seq(Seq(FileRecords)) /\ DOMAIN ss = DOMAIN e
    <3>1. ss \in [DOMAIN e -> Seq(FileRecords)]
      BY <2>1, <2>2
    <3>2. DOMAIN e = 1 .. Len(e) /\ Len(e) \in Nat
      BY EntriesFacts
    <3> HIDE DEF ss, e
    <3>3. ss \in UNION {[1 .. n -> Seq(FileRecords)] : n \in Nat}
      BY <3>1, <3>2
    <3> QED BY <3>1, <3>3, SeqDef, Zenon
  <2>4. Files[<<t, path>>] = FlattenSeq(ss)
    <3>1. Files[<<t, path>>] = FileBody(Files, <<t, path>>)
      BY FilesEquation
    <3> QED BY <3>1 DEF FileBody
  <2>5. /\ Files[<<t, path>>] \in Seq(FileRecords)
        /\ \A x : x \in Range(Files[<<t, path>>]) <=> \E i \in DOMAIN ss : x \in Range(ss[i])
    <3> HIDE DEF ss
    <3> QED BY <2>3, <2>4, FlattenElements
  <2>6. \A i \in DOMAIN e : Range(ss[i]) = FilePart(t, path, e[i])
    BY <2>2 DEF FilePart
  <2>7. \A k \in DOMAIN t : \E i \in DOMAIN e : e[i] = k
    <3>1. Range(e) = DOMAIN t
      BY EntriesFacts
    <3> HIDE DEF e
    <3> QED BY <3>1 DEF Range
  <2>8. \A x : x \in Range(Files[<<t, path>>]) <=> \E k \in DOMAIN t : x \in FilePart(t, path, k)
    <3> HIDE DEF ss, e
    <3>1. ASSUME NEW x, NEW i \in DOMAIN ss, x \in Range(ss[i]) PROVE \E k \in DOMAIN t : x \in FilePart(t, path, k)
      BY <2>2, <2>3, <2>6, <3>1, Zenon
    <3>2. ASSUME NEW x, NEW k \in DOMAIN t, x \in FilePart(t, path, k) PROVE \E i \in DOMAIN ss : x \in Range(ss[i])
      <4>1. PICK i \in DOMAIN e : e[i] = k
        BY <2>7
      <4>2. x \in Range(ss[i])
        BY <2>6, <3>2, <4>1
      <4> QED BY <2>3, <4>2
    <3> QED BY <2>5, <3>1, <3>2, Zenon
  <2> QED BY <2>1, <2>5, <2>8
<1>2. ASSUME NEW a \in Trees, NEW b \in Trees,
             \A k \in Common(a, b) : IsDir(k) => <<Subtree(a, k), Subtree(b, k)>> \in S
      PROVE  <<a, b>> \in S
  <2> SUFFICES ASSUME a = b PROVE Q(a)
    OBVIOUS
  <2>1. ASSUME NEW k \in DOMAIN a, IsDir(k) PROVE Q(a[k])
    <3>1. Subtree(a, k) = a[k] /\ Subtree(b, k) = a[k] /\ k \in Common(a, b)
      BY <2>1 DEF Subtree, Common
    <3> HIDE DEF Q
    <3> QED BY <1>2, <2>1, <3>1
  <2> HIDE DEF P
  <2> QED BY <1>1, <2>1
<1>3. \A a, b \in Trees : <<a, b>> \in S
  <2> HIDE DEF S
  <2> QED BY <1>2, PairInduction
<1>4. ASSUME NEW t \in Trees PROVE Q(t)
  <2>1. <<t, t>> \in S
    BY <1>3
  <2> HIDE DEF Q
  <2> QED BY <2>1
<1> QED BY <1>4

Modes == {"none"} \cup UNION {{t[k][2] : k \in DOMAIN t} : t \in Trees}
Changes == [file : Seq(Nat), oid1 : Blobs \cup {0}, oid2 : Blobs \cup {0}, mode1 : Modes, mode2 : Modes]
FileOrder == {r \in Changes \X Changes : Before(r[1].file, r[2].file)}

\* The versions that the changes take away, and those that they bring.
Gone(d) == {[file |-> c.file, oid |-> c.oid1] : c \in {x \in Range(d) : x.oid1 # 0}}
Brought(d) == {[file |-> c.file, oid |-> c.oid2] : c \in {x \in Range(d) : x.oid2 # 0}}

\* What the changes d make of the files old, which are in the order of their names.
Rebuilds(d, old, new) ==
  /\ d \in Seq(Changes) /\ Pairwise(d, FileOrder)
  /\ \A c \in Range(d) : c.oid1 # c.oid2
  /\ Gone(d) = old \ new /\ Brought(d) = new \ old

\* A blob is a number other than 0.
LEMMA BlobFacts == Blobs \subseteq Nat \ {0}
<1>1. ASSUME NEW x \in Blobs PROVE x \in Nat \ {0}
  <2>1. PICK t \in Trees : x \in {t[k][1] : k \in {n \in DOMAIN t : ~IsDir(n)}}
    BY DEF Blobs
  <2>2. PICK k \in DOMAIN t : ~IsDir(k) /\ x = t[k][1]
    BY <2>1
  <2> QED BY <2>2, TreeFacts
<1> QED BY <1>1

\* One name: its files are the only ones that its changes are about.
LEMMA PartRebuilds ==
  ASSUME NEW a \in Trees, NEW b \in Trees, NEW path \in Seq(Nat), NEW k \in Common(a, b),
         IsDir(k) => Rebuilds(diffTree[<<Subtree(a, k), Subtree(b, k), Append(path, k)>>],
                              Range(Files[<<Subtree(a, k), Append(path, k)>>]),
                              Range(Files[<<Subtree(b, k), Append(path, k)>>]))
                     /\ \A c \in Range(diffTree[<<Subtree(a, k), Subtree(b, k), Append(path, k)>>]) :
                          \E j : Under(c.file, Append(path, k), j)
  PROVE  /\ Rebuilds(DiffAt(diffTree, a, b, path, k), FilePart(a, path, k), FilePart(b, path, k))
         /\ \A c \in Range(DiffAt(diffTree, a, b, path, k)) : Under(c.file, path, k)
<1> DEFINE d == DiffAt(diffTree, a, b, path, k)
<1>0. k \in Nat
  BY NamesFacts
<1>1. CASE IsDir(k)
  <2>1. d = diffTree[<<Subtree(a, k), Subtree(b, k), Append(path, k)>>]
    BY <1>1 DEF DiffAt
  <2>2. ASSUME NEW t \in Trees PROVE FilePart(t, path, k) = Range(Files[<<Subtree(t, k), Append(path, k)>>])
    <3>1. CASE k \in DOMAIN t
      BY <1>1, <3>1 DEF FilePart, FileAt, Subtree
    <3>2. CASE k \notin DOMAIN t
      <4>1. FilePart(t, path, k) = {} /\ Subtree(t, k) = Empty
        BY <3>2 DEF FilePart, Subtree
      <4>2. Append(path, k) \in Seq(Nat)
        BY <1>0
      <4>3. \A x : x \in Range(Files[<<Empty, Append(path, k)>>]) <=> \E j \in DOMAIN Empty : x \in FilePart(Empty, Append(path, k), j)
        BY <4>2, TreeFacts, FilesBelow
      <4> QED BY <4>1, <4>3, TreeFacts
    <3> QED BY <3>1, <3>2
  <2>3. \A file, j : Under(file, Append(path, k), j) => Under(file, path, k)
    BY <1>0, UnderFacts
  <2> HIDE DEF d
  <2>4. Rebuilds(d, FilePart(a, path, k), FilePart(b, path, k))
    BY <1>1, <2>1, <2>2
  <2>5. \A c \in Range(d) : Under(c.file, path, k)
    BY <1>1, <2>1, <2>3, Zenon
  <2> QED BY <2>4, <2>5 DEF d
<1>2. CASE ~IsDir(k)
  <2> DEFINE p == Append(path, k)
             c == [file |-> p, oid1 |-> Blob(a, k), oid2 |-> Blob(b, k), mode1 |-> Mode(a, k), mode2 |-> Mode(b, k)]
  <2>1. p \in Seq(Nat) /\ Under(p, path, k)
    BY <1>0, UnderFacts
  <2>2. ASSUME NEW t \in Trees
        PROVE  /\ Blob(t, k) \in Blobs \cup {0} /\ Mode(t, k) \in Modes
               /\ FilePart(t, path, k) = IF Blob(t, k) = 0 THEN {} ELSE {[file |-> p, oid |-> Blob(t, k)]}
    <3>1. CASE k \in DOMAIN t
      <4>1. Blob(t, k) = t[k][1] /\ t[k][1] \in Blobs /\ Mode(t, k) = t[k][2] /\ t[k][2] \in Modes
        BY <1>2, <3>1 DEF Blob, Blobs, Mode, Modes
      <4>2. FilePart(t, path, k) = Range(<<[file |-> p, oid |-> t[k][1]]>>)
        BY <1>2, <3>1 DEF FilePart, FileAt
      <4>3. \A x : Range(<<x>>) = {x}
        BY DEF Range
      <4>4. Blob(t, k) # 0
        BY <4>1, BlobFacts
      <4> HIDE DEF p
      <4> QED BY <4>1, <4>2, <4>3, <4>4
    <3>2. CASE k \notin DOMAIN t
      BY <3>2 DEF FilePart, Blob, Mode, Modes
    <3> QED BY <3>1, <3>2
  <2>3. c \in Changes
    BY <2>1, <2>2 DEF Changes
  <2>4. CASE Blob(a, k) = Blob(b, k)
    <3>1. d = <<>> /\ Range(<<>>) = {} /\ DOMAIN <<>> = {}
      BY <1>2, <2>4 DEF DiffAt, Range
    <3> HIDE DEF d, c
    <3>2. Gone(<<>>) = {} /\ Brought(<<>>) = {}
      BY <3>1 DEF Gone, Brought
    <3>3. FilePart(a, path, k) = FilePart(b, path, k)
      BY <2>2, <2>4
    <3>4. Pairwise(d, FileOrder) /\ d \in Seq(Changes)
      BY <3>1 DEF Pairwise
    <3>5. Rebuilds(d, FilePart(a, path, k), FilePart(b, path, k))
      BY <3>1, <3>2, <3>3, <3>4 DEF Rebuilds
    <3> QED BY <3>1, <3>5 DEF d
  <2>5. CASE Blob(a, k) # Blob(b, k)
    <3>1. d = <<c>> 
      BY <1>2, <2>5 DEF DiffAt
    <3>2. c.file = p /\ c.oid1 = Blob(a, k) /\ c.oid2 = Blob(b, k)
      OBVIOUS
    <3> HIDE DEF d, c, p
    <3>3. Range(d) = {c} /\ d \in Seq(Changes) /\ DOMAIN d = {1}
      BY <2>3, <3>1 DEF Range
    <3>4. Gone(d) = IF Blob(a, k) = 0 THEN {} ELSE {[file |-> p, oid |-> Blob(a, k)]}
      BY <3>2, <3>3 DEF Gone
    <3>5. Brought(d) = IF Blob(b, k) = 0 THEN {} ELSE {[file |-> p, oid |-> Blob(b, k)]}
      BY <3>2, <3>3 DEF Brought
    <3>6. Pairwise(d, FileOrder)
      BY <3>3 DEF Pairwise
    <3>7. [file |-> p, oid |-> Blob(a, k)] # [file |-> p, oid |-> Blob(b, k)]
      <4> DEFINE r == [file |-> p, oid |-> Blob(a, k)]
                 s == [file |-> p, oid |-> Blob(b, k)]
      <4>1. r.oid # s.oid
        BY <2>5
      <4> HIDE DEF r, s
      <4>2. r # s
        BY <4>1
      <4> QED BY <4>2 DEF r, s
    <3>8. Gone(d) = FilePart(a, path, k) \ FilePart(b, path, k) /\ Brought(d) = FilePart(b, path, k) \ FilePart(a, path, k)
      BY <2>2, <2>5, <3>4, <3>5, <3>7
    <3>9. Rebuilds(d, FilePart(a, path, k), FilePart(b, path, k))
      BY <2>5, <3>2, <3>3, <3>6, <3>8 DEF Rebuilds
    <3> QED BY <2>1, <3>2, <3>3, <3>9 DEF d
  <2> QED BY <2>4, <2>5
<1> QED BY <1>1, <1>2

\* The parts of two trees under one name have no file in common with those under another name.
LEMMA PartsApart ==
  ASSUME NEW a \in Trees, NEW b \in Trees, NEW path \in Seq(Nat)
  PROVE  \A x : x \in Range(Files[<<a, path>>]) \ Range(Files[<<b, path>>])
                  <=> \E k \in Common(a, b) : x \in FilePart(a, path, k) \ FilePart(b, path, k)
<1>1. ASSUME NEW t \in Trees PROVE \A k, x : x \in FilePart(t, path, k) => k \in DOMAIN t /\ Under(x.file, path, k)
  BY FilesBelow DEF FilePart
<1>2. ASSUME NEW t \in Trees PROVE \A x : x \in Range(Files[<<t, path>>]) <=> \E k \in DOMAIN t : x \in FilePart(t, path, k)
  BY FilesBelow
<1>3. \A f, j, k : Under(f, path, j) /\ Under(f, path, k) => j = k
  BY DEF Under
<1>4. ASSUME NEW x, x \in Range(Files[<<a, path>>]), x \notin Range(Files[<<b, path>>])
      PROVE  \E k \in Common(a, b) : x \in FilePart(a, path, k) \ FilePart(b, path, k)
  <2>1. PICK k \in DOMAIN a : x \in FilePart(a, path, k)
    BY <1>2, <1>4
  <2>2. x \notin FilePart(b, path, k)
    BY <1>1, <1>2, <1>4
  <2> QED BY <2>1, <2>2 DEF Common
<1>5. ASSUME NEW x, NEW k \in Common(a, b), x \in FilePart(a, path, k), x \notin FilePart(b, path, k)
      PROVE  x \in Range(Files[<<a, path>>]) /\ x \notin Range(Files[<<b, path>>])
  <2>1. k \in DOMAIN a /\ Under(x.file, path, k) /\ x \in Range(Files[<<a, path>>])
    BY <1>1, <1>2, <1>5
  <2>2. ASSUME x \in Range(Files[<<b, path>>]) PROVE FALSE
    <3>1. PICK j \in DOMAIN b : x \in FilePart(b, path, j)
      BY <1>2, <2>2
    <3>2. Under(x.file, path, j)
      BY <1>1, <3>1
    <3> QED BY <1>3, <1>5, <2>1, <3>1, <3>2
  <2> QED BY <2>1, <2>2
<1> QED BY <1>4, <1>5

\* The changes between two trees rebuild one from the other.
LEMMA DiffRebuilds ==
  \A a, b \in Trees : \A path \in Seq(Nat) :
    /\ Rebuilds(diffTree[<<a, b, path>>], Range(Files[<<a, path>>]), Range(Files[<<b, path>>]))
    /\ \A c \in Range(diffTree[<<a, b, path>>]) : \E j : Under(c.file, path, j)
<1> DEFINE P(a, b, path) ==
             /\ Rebuilds(diffTree[<<a, b, path>>], Range(Files[<<a, path>>]), Range(Files[<<b, path>>]))
             /\ \A c \in Range(diffTree[<<a, b, path>>]) : \E j : Under(c.file, path, j)
           Q(a, b) == \A path \in Seq(Nat) : P(a, b, path)
           S == {ab \in Trees \X Trees : Q(ab[1], ab[2])}
<1>1. ASSUME NEW a \in Trees, NEW b \in Trees, NEW path \in Seq(Nat),
             \A k \in Common(a, b) : IsDir(k) => Q(Subtree(a, k), Subtree(b, k))
      PROVE  P(a, b, path)
  <2>0. diffTree[<<a, b, path>>] = DiffBody(diffTree, <<a, b, path>>)
    BY DiffEquation
  <2>1. CASE a = b
    <3>1. diffTree[<<a, b, path>>] = <<>>
      BY <2>0, <2>1 DEF DiffBody
    <3>2. Range(<<>>) = {} /\ DOMAIN <<>> = {} /\ <<>> \in Seq(Changes)
      BY DEF Range
    <3>3. Gone(<<>>) = {} /\ Brought(<<>>) = {}
      BY <3>2 DEF Gone, Brought
    <3> QED BY <2>1, <3>1, <3>2, <3>3 DEF Rebuilds, Pairwise
  <2>2. CASE a # b
    <3> DEFINE e == Names(a, b)
               part(k) == DiffAt(diffTree, a, b, path, k)
               ss == [i \in DOMAIN e |-> part(e[i])]
               d == diffTree[<<a, b, path>>]
    <3>1. d = FlattenSeq(ss)
      BY <2>0, <2>2 DEF DiffBody
    <3>2. ASSUME NEW k \in Common(a, b)
          PROVE  /\ Rebuilds(part(k), FilePart(a, path, k), FilePart(b, path, k))
                 /\ \A c \in Range(part(k)) : Under(c.file, path, k)
      <4>1. ASSUME IsDir(k) PROVE P(Subtree(a, k), Subtree(b, k), Append(path, k))
        <5>1. k \in Nat /\ Append(path, k) \in Seq(Nat)
          BY NamesFacts
        <5> HIDE DEF P
        <5> QED BY <1>1, <4>1, <5>1
      <4> QED BY <4>1, PartRebuilds
    <3>3. \A i \in DOMAIN e : e[i] \in Common(a, b)
      BY NamesFacts
    <3>4. \A k \in Common(a, b) : \E i \in DOMAIN e : e[i] = k
      <4>1. Range(e) = Common(a, b)
        BY NamesFacts
      <4> HIDE DEF e
      <4> QED BY <4>1 DEF Range
    <3>5. \A k \in Common(a, b) : part(k) \in Seq(Changes) /\ Pairwise(part(k), FileOrder)
      BY <3>2 DEF Rebuilds
    <3>6. DOMAIN e = 1 .. Len(e) /\ Len(e) \in Nat /\ \A p, q \in DOMAIN e : p < q => e[p] < e[q]
      BY NamesFacts
    <3>7. Common(a, b) \subseteq Nat
      BY NamesFacts
    <3> HIDE DEF e, part
    <3>8. ss \in Seq(Seq(Changes)) /\ DOMAIN ss = DOMAIN e
      <4>1. ss \in [DOMAIN e -> Seq(Changes)]
        BY <3>3, <3>5
      <4> HIDE DEF ss
      <4>2. ss \in UNION {[1 .. n -> Seq(Changes)] : n \in Nat}
        BY <3>6, <4>1
      <4> QED BY <4>1, <4>2, SeqDef, Zenon
    <3>9. \A i \in DOMAIN e : ss[i] = part(e[i])
      OBVIOUS
    <3> HIDE DEF ss, d
    <3>10. d \in Seq(Changes) /\ \A x : x \in Range(d) <=> \E i \in DOMAIN ss : x \in Range(ss[i])
      BY <3>1, <3>8, FlattenElements
    <3>11. \A x : x \in Range(d) <=> \E k \in Common(a, b) : x \in Range(part(k))
      <4>1. ASSUME NEW x, NEW i \in DOMAIN ss, x \in Range(ss[i]) PROVE \E k \in Common(a, b) : x \in Range(part(k))
        BY <3>3, <3>8, <3>9, <4>1, Zenon
      <4>2. ASSUME NEW x, NEW k \in Common(a, b), x \in Range(part(k)) PROVE \E i \in DOMAIN ss : x \in Range(ss[i])
        <5>1. PICK i \in DOMAIN e : e[i] = k
          BY <3>4
        <5> QED BY <3>8, <3>9, <4>2, <5>1
      <4> QED BY <3>10, <4>1, <4>2, Zenon
    <3>12. Pairwise(d, FileOrder)
      <4>1. \A i \in DOMAIN ss : Pairwise(ss[i], FileOrder)
        BY <3>3, <3>5, <3>8, <3>9
      <4>2. ASSUME NEW h \in DOMAIN ss, NEW i \in DOMAIN ss, h < i, NEW x \in Range(ss[h]), NEW y \in Range(ss[i])
            PROVE  <<x, y>> \in FileOrder
        <5>1. e[h] \in Nat /\ e[i] \in Nat /\ e[h] < e[i] /\ e[h] \in Common(a, b) /\ e[i] \in Common(a, b)
          BY <3>3, <3>6, <3>7, <3>8, <4>2
        <5>2. Under(x.file, path, e[h]) /\ Under(y.file, path, e[i])
          BY <3>2, <3>8, <3>9, <5>1
        <5>3. Before(x.file, y.file)
          BY <5>1, <5>2, UnderBefore
        <5>4. x \in Range(d) /\ y \in Range(d)
          BY <3>10
        <5>5. x \in Changes /\ y \in Changes
          BY <3>10, <5>4 DEF Range
        <5> QED BY <5>3, <5>5 DEF FileOrder
      <4>3. \A h, i \in DOMAIN ss : h < i => \A x \in Range(ss[h]), y \in Range(ss[i]) : <<x, y>> \in FileOrder
        BY <4>2
      <4> QED BY <3>1, <3>8, <4>1, <4>3, FlattenPairs
    <3>13. \A c \in Range(d) : c.oid1 # c.oid2 /\ \E j : Under(c.file, path, j)
      <4>1. \A k \in Common(a, b) : \A c \in Range(part(k)) : c.oid1 # c.oid2
        BY <3>2 DEF Rebuilds
      <4> QED BY <3>2, <3>11, <4>1
    <3>14. Gone(d) = Range(Files[<<a, path>>]) \ Range(Files[<<b, path>>])
      <4>1. \A x : x \in Gone(d) <=> \E k \in Common(a, b) : x \in Gone(part(k))
        BY <3>11 DEF Gone
      <4>2. \A k \in Common(a, b) : Gone(part(k)) = FilePart(a, path, k) \ FilePart(b, path, k)
        BY <3>2 DEF Rebuilds
      <4>3. \A x : x \in Gone(d) <=> \E k \in Common(a, b) : x \in FilePart(a, path, k) \ FilePart(b, path, k)
        BY <4>1, <4>2
      <4> QED BY <4>3, PartsApart
    <3>15. Brought(d) = Range(Files[<<b, path>>]) \ Range(Files[<<a, path>>])
      <4>1. \A x : x \in Brought(d) <=> \E k \in Common(a, b) : x \in Brought(part(k))
        BY <3>11 DEF Brought
      <4>2. \A k \in Common(a, b) : Brought(part(k)) = FilePart(b, path, k) \ FilePart(a, path, k)
        BY <3>2 DEF Rebuilds
      <4>3. Common(a, b) = Common(b, a)
        BY DEF Common
      <4>4. \A x : x \in Brought(d) <=> \E k \in Common(b, a) : x \in FilePart(b, path, k) \ FilePart(a, path, k)
        BY <4>1, <4>2, <4>3
      <4> QED BY <4>4, PartsApart
    <3> QED BY <3>10, <3>12, <3>13, <3>14, <3>15 DEF Rebuilds, d
  <2> QED BY <2>1, <2>2
<1>2. ASSUME NEW a \in Trees, NEW b \in Trees,
             \A k \in Common(a, b) : IsDir(k) => <<Subtree(a, k), Subtree(b, k)>> \in S
      PROVE  <<a, b>> \in S
  <2>1. \A k \in Common(a, b) : IsDir(k) => Q(Subtree(a, k), Subtree(b, k))
    <3> HIDE DEF Q
    <3> QED BY <1>2
  <2>2. Q(a, b)
    <3> HIDE DEF P
    <3> QED BY <1>1, <2>1
  <2> HIDE DEF Q
  <2> QED BY <2>2
<1>3. \A a, b \in Trees : <<a, b>> \in S
  <2> HIDE DEF S
  <2> QED BY <1>2, PairInduction
<1>4. ASSUME NEW a \in Trees, NEW b \in Trees PROVE Q(a, b)
  <2>1. <<a, b>> \in S
    BY <1>3
  <2> HIDE DEF Q
  <2> QED BY <2>1
<1> QED BY <1>4

\* The commit that diffCommit makes of number n of a history.
CommitOf(h, n) ==
  [time |-> h[n].time, changes |-> diffTree[<<IF n = 1 THEN Empty ELSE h[n - 1].tree, h[n].tree, <<>>>>]]
CommitRecords == [time : Nat, changes : Seq(Changes)]

(* The commits of a repository are those of its history, and in the order of the history once all of them are read. *)
ReadInv ==
  /\ git = [r \in Repos |-> git[r]] /\ \A r \in Repos : git[r] \in Histories[r]
  /\ m_commits \in [Repos -> Seq(CommitRecords)] /\ m_commitsInit \in [Repos -> BOOLEAN]
  /\ \A r \in Repos : m_commitsInit[r] =>
       /\ Len(git[r]) > 1 /\ Len(m_commits[r]) = Len(git[r]) /\ TimesInOrder(m_commits[r])
       /\ \A n \in 1 .. Len(git[r]) : m_commits[r][n] = CommitOf(git[r], n)
  /\ \A r \in Repos : ~m_commitsInit[r] /\ pc # "failed" =>
       /\ Len(m_commits[r]) <= Len(git[r])
       /\ \A j \in 1 .. Len(m_commits[r]) : m_commits[r][j] = CommitOf(git[r], Len(git[r]) + 1 - j)

\* The commits of a history have trees and times, and there is at least one.
LEMMA HistoryFacts ==
  ASSUME NEW r \in Repos, NEW h \in Histories[r]
  PROVE  /\ h \in Seq([tree : Trees, time : Nat]) /\ Len(h) \in Nat \ {0} /\ DOMAIN h = 1 .. Len(h)
         /\ \A n \in 1 .. Len(h) : h[n].tree \in Trees /\ h[n].time \in Nat
<1>1. h \in Seq([tree : Trees, time : Nat]) /\ h # <<>>
  BY HistoriesAssumption
<1>2. \A n \in 1 .. Len(h) : h[n] \in [tree : Trees, time : Nat]
  BY <1>1, ElementOfSeq
<1>3. Len(h) \in Nat \ {0} /\ DOMAIN h = 1 .. Len(h)
  BY <1>1, EmptySeq, LenProperties
<1>4. \A c \in [tree : Trees, time : Nat] : c.tree \in Trees /\ c.time \in Nat
  OBVIOUS
<1> QED BY <1>1, <1>2, <1>3, <1>4

\* The changes of a commit rebuild its tree from that of its parent.
LEMMA CommitOfFacts ==
  ASSUME NEW r \in Repos, NEW h \in Histories[r], NEW n \in 1 .. Len(h)
  PROVE  LET old == IF n = 1 THEN Empty ELSE h[n - 1].tree
         IN  /\ CommitOf(h, n) \in CommitRecords /\ CommitOf(h, n).time = h[n].time
             /\ CommitOf(h, n).changes = diffTree[<<old, h[n].tree, <<>>>>]
             /\ old \in Trees /\ h[n].tree \in Trees
             /\ Rebuilds(CommitOf(h, n).changes, FilesOf(old), FilesOf(h[n].tree))
             /\ \A c \in Range(CommitOf(h, n).changes) : \E j : Under(c.file, <<>>, j)
<1> DEFINE old == IF n = 1 THEN Empty ELSE h[n - 1].tree
           new == h[n].tree
           d == diffTree[<<old, new, <<>>>>]
<1>1. old \in Trees /\ new \in Trees /\ h[n].time \in Nat /\ <<>> \in Seq(Nat)
  <2>1. n # 1 => n - 1 \in 1 .. Len(h)
    BY HistoryFacts
  <2> QED BY <2>1, HistoryFacts, TreeFacts
<1>2. CommitOf(h, n) = [time |-> h[n].time, changes |-> d]
  BY DEF CommitOf
<1> HIDE DEF old, new
<1>3. Rebuilds(d, FilesOf(old), FilesOf(new)) /\ \A c \in Range(d) : \E j : Under(c.file, <<>>, j)
  BY <1>1, DiffRebuilds DEF FilesOf
<1>4. d \in Seq(Changes)
  BY <1>3 DEF Rebuilds
<1>5. CommitOf(h, n) \in CommitRecords
  <2> HIDE DEF d
  <2> QED BY <1>1, <1>2, <1>4 DEF CommitRecords
<1>6. CommitOf(h, n).time = h[n].time /\ CommitOf(h, n).changes = d
  BY <1>2
<1> QED BY <1>1, <1>3, <1>5, <1>6 DEF old, new

\* Nothing has been read at the start.
LEMMA ReadInit == LoaderInit => ReadInv
<1> SUFFICES ASSUME LoaderInit PROVE ReadInv
  OBVIOUS
<1>1. git = [r \in Repos |-> git[r]] /\ \A r \in Repos : git[r] \in Histories[r]
  BY DEF LoaderInit, Init
<1>2. m_commits = [r \in Repos |-> <<>>] /\ m_commitsInit = [r \in Repos |-> FALSE]
  BY DEF LoaderInit, Init
<1>3. \A r \in Repos : Len(git[r]) \in Nat
  BY <1>1, HistoryFacts
<1>4. m_commits \in [Repos -> Seq(CommitRecords)] /\ m_commitsInit \in [Repos -> BOOLEAN]
  BY <1>2
<1>5. \A r \in Repos : m_commits[r] = <<>> /\ ~m_commitsInit[r] /\ Len(m_commits[r]) = 0 /\ \A j \in 1 .. 0 : FALSE
  BY <1>2
<1> QED BY <1>1, <1>3, <1>4, <1>5 DEF ReadInv

\* Only these actions touch what is read.
LEMMA ReadSteps ==
  LoaderNext =>
    \/ \E r \in Repos : diffCommit(r) \/ commitsRead(r)
    \/ nextTool
    \/ UNCHANGED <<git, readVars>> /\ (pc = "failed" => pc' = "failed")
<1> SUFFICES ASSUME LoaderNext PROVE \/ \E r \in Repos : diffCommit(r) \/ commitsRead(r)
                                     \/ nextTool
                                     \/ UNCHANGED <<git, readVars>> /\ (pc = "failed" => pc' = "failed")
  OBVIOUS
<1> DEFINE Q == UNCHANGED <<git, readVars>> /\ (pc = "failed" => pc' = "failed")
<1>1. CASE Next
  <2>1. detectTransitions \/ doDetect \/ processChange \/ nextDetector => Q
    BY DEF detectTransitions, doDetect, processChange, nextDetector
  <2>2. ASSUME NEW r \in Repos, getCurrentOids(r) PROVE Q
    BY <2>2 DEF getCurrentOids
  <2>3. WalkStep => Q
    BY DEF WalkStep, leaveDir, walkDir, walkBlob, walkEnds
  <2> HIDE DEF Q
  <2>4. Q \/ \E r \in Repos : diffCommit(r) \/ commitsRead(r)
    BY <1>1, <2>1, <2>2, <2>3 DEF Next
  <2> QED BY <2>4 DEF Q
<1>2. ASSUME NEW b \in Inputs, reviewFile(b) \/ processFile(b) \/ otherRun(b) PROVE Q
  <2>1. reviewFile(b) \/ processFile(b) => pc = "start" /\ UNCHANGED <<git, readVars>>
    BY DEF reviewFile, processFile
  <2>2. otherRun(b) => Q
    BY DEF otherRun, vars, readVars
  <2> QED BY <1>2, <2>1, <2>2
<1>3. searchRepository \/ reviewAgainst \/ diffAgainst => Q
  BY DEF searchRepository, reviewAgainst, diffAgainst
<1> HIDE DEF Q
<1>4. Q \/ nextTool \/ \E r \in Repos : diffCommit(r) \/ commitsRead(r)
  BY <1>1, <1>2, <1>3 DEF LoaderNext, Q
<1> QED BY <1>4 DEF Q

\* The commits come from HEAD to the root.
LEMMA ReadDiff == ASSUME ReadInv, NEW r \in Repos, diffCommit(r) PROVE ReadInv'
<1> DEFINE h == git[r]
           m == m_commits[r]
           n == Len(h) - Len(m)
<1>1. Reading(r) /\ ~m_commitsInit[r] /\ pc # "failed" /\ n > 0 /\ UNCHANGED <<git, m_commitsInit>>
  BY DEF diffCommit, Reading
<1>2. h \in Histories[r] /\ m \in Seq(CommitRecords) /\ Len(h) \in Nat /\ Len(m) \in Nat
  BY HistoryFacts DEF ReadInv
<1>3. CASE UNCHANGED m_commits /\ pc' = "failed"
  BY <1>1, <1>3 DEF ReadInv
<1>4. CASE m_commits' = [m_commits EXCEPT ![r] = Append(m, CommitOf(h, n))] /\ UNCHANGED pc
  <2>1. n \in 1 .. Len(h) /\ CommitOf(h, n) \in CommitRecords
    <3>1. n \in 1 .. Len(h)
      <4> HIDE DEF m, h
      <4> QED BY <1>1, <1>2
    <3> QED BY <1>2, <3>1, CommitOfFacts
  <2> DEFINE c == CommitOf(h, n)
             s == Append(m, c)
  <2>2. s \in Seq(CommitRecords) /\ Len(s) = Len(m) + 1 /\ s[Len(m) + 1] = c /\ \A j \in 1 .. Len(m) : s[j] = m[j]
    <3> HIDE DEF c, m
    <3> QED BY <1>2, <2>1 DEF c
  <2>3. \A j \in 1 .. Len(m) : m[j] = CommitOf(h, Len(h) + 1 - j)
    BY <1>1 DEF ReadInv
  <2>4. ASSUME NEW j \in 1 .. Len(s) PROVE s[j] = CommitOf(h, Len(h) + 1 - j)
    <3>1. CASE j = Len(m) + 1
      <4>1. Len(h) + 1 - j = n
        <5> HIDE DEF m, h
        <5> QED BY <1>2, <3>1
      <4> HIDE DEF s, n, m, h
      <4> QED BY <2>2, <3>1, <4>1 DEF c
    <3>2. CASE j # Len(m) + 1
      <4>1. j \in 1 .. Len(m)
        BY <1>2, <2>2, <3>2
      <4> HIDE DEF s, c, m, h
      <4> QED BY <2>2, <2>3, <4>1
    <3> QED BY <3>1, <3>2
  <2>5. Len(s) <= Len(h)
    <3> HIDE DEF m, h, s
    <3> QED BY <1>1, <1>2, <2>2
  <2>6. m_commits \in [Repos -> Seq(CommitRecords)]
    BY DEF ReadInv
  <2> HIDE DEF s
  <2>7. m_commits' = [m_commits EXCEPT ![r] = s]
    BY <1>4 DEF s
  <2>8. m_commits' \in [Repos -> Seq(CommitRecords)] /\ m_commits'[r] = s /\ \A q \in Repos : q # r => m_commits'[q] = m_commits[q]
    BY <2>2, <2>6, <2>7
  <2> QED BY <1>1, <1>4, <2>4, <2>5, <2>8 DEF ReadInv
<1>5. \/ UNCHANGED m_commits /\ pc' = "failed"
      \/ m_commits' = [m_commits EXCEPT ![r] = Append(m, CommitOf(h, n))] /\ UNCHANGED pc
  BY DEF diffCommit, CommitOf
<1> QED BY <1>3, <1>4, <1>5

\* At the end the list is reversed, and is then in the order of the history.
LEMMA ReadEnd == ASSUME ReadInv, NEW r \in Repos, commitsRead(r) PROVE ReadInv'
<1> DEFINE h == git[r]
           m == m_commits[r]
           s == Reverse(m)
<1>1. ~m_commitsInit[r] /\ pc # "failed" /\ Len(m) = Len(h) /\ UNCHANGED git /\ m_commits' = [m_commits EXCEPT ![r] = s]
  BY DEF commitsRead, Reading
<1>2. h \in Histories[r] /\ m \in Seq(CommitRecords) /\ Len(h) \in Nat /\ Len(m) \in Nat
  BY HistoryFacts DEF ReadInv
<1>3. s \in Seq(CommitRecords) /\ Len(s) = Len(m)
  <2> HIDE DEF m
  <2>1. s = [i \in 1 .. Len(m) |-> m[Len(m) - i + 1]]
    BY DEF Reverse
  <2>2. \A i \in 1 .. Len(m) : Len(m) - i + 1 \in 1 .. Len(m)
    BY <1>2
  <2>3. \A i \in 1 .. Len(m) : m[i] \in CommitRecords
    BY <1>2, ElementOfSeq
  <2>4. s \in [1 .. Len(m) -> CommitRecords]
    BY <2>1, <2>2, <2>3
  <2> HIDE DEF s
  <2> QED BY <1>2, <2>4
<1>4. \A n \in 1 .. Len(h) : s[n] = CommitOf(h, n)
  <2>1. \A j \in 1 .. Len(m) : m[j] = CommitOf(h, Len(h) + 1 - j)
    BY <1>1 DEF ReadInv
  <2> SUFFICES ASSUME NEW n \in 1 .. Len(h) PROVE s[n] = CommitOf(h, n)
    OBVIOUS
  <2>2. s[n] = m[Len(m) - n + 1]
    BY <1>1 DEF Reverse
  <2>3. Len(m) - n + 1 \in 1 .. Len(m) /\ Len(h) + 1 - (Len(m) - n + 1) = n
    BY <1>1, <1>2
  <2> HIDE DEF m, h, s
  <2> QED BY <2>1, <2>2, <2>3
<1>5. m_commits \in [Repos -> Seq(CommitRecords)] /\ m_commitsInit \in [Repos -> BOOLEAN]
  BY DEF ReadInv
<1>6. m_commits' \in [Repos -> Seq(CommitRecords)] /\ m_commits'[r] = s /\ \A q \in Repos : q # r => m_commits'[q] = m_commits[q]
  <2> HIDE DEF s
  <2> QED BY <1>1, <1>3, <1>5
<1>7. CASE Len(h) > 1 /\ TimesInOrder(s) /\ m_commitsInit' = [m_commitsInit EXCEPT ![r] = TRUE] /\ UNCHANGED pc
  <2>1. m_commitsInit' \in [Repos -> BOOLEAN] /\ m_commitsInit'[r] /\ \A q \in Repos : q # r => m_commitsInit'[q] = m_commitsInit[q]
    BY <1>5, <1>7
  <2> HIDE DEF s
  <2> QED BY <1>1, <1>3, <1>4, <1>6, <1>7, <2>1 DEF ReadInv
<1>8. CASE pc' = "failed" /\ UNCHANGED m_commitsInit
  <2> HIDE DEF s
  <2> QED BY <1>1, <1>5, <1>6, <1>8 DEF ReadInv
<1>9. \/ Len(h) > 1 /\ TimesInOrder(s) /\ m_commitsInit' = [m_commitsInit EXCEPT ![r] = TRUE] /\ UNCHANGED pc
      \/ pc' = "failed" /\ UNCHANGED m_commitsInit
  BY DEF commitsRead
<1> QED BY <1>7, <1>8, <1>9

\* The next tool begins to read anew.
LEMMA ReadAgain == ASSUME ReadInv, nextTool PROVE ReadInv'
<1>1. PICK trunk \in Grown("trunk"), stable \in Grown("stable") : git' = [trunk |-> trunk, stable |-> stable]
  BY DEF nextTool
<1>2. trunk \in Histories["trunk"] /\ stable \in Histories["stable"] /\ Repos = {"trunk", "stable"}
  BY LoaderAssumption DEF Grown, Repos
<1>3. git' = [r \in Repos |-> git'[r]] /\ \A r \in Repos : git'[r] \in Histories[r]
  BY <1>1, <1>2
<1>4. m_commits' = [r \in Repos |-> <<>>] /\ m_commitsInit' = [r \in Repos |-> FALSE]
  BY DEF nextTool
<1>5. \A r \in Repos : Len(git'[r]) \in Nat
  BY <1>3, HistoryFacts
<1>6. m_commits' \in [Repos -> Seq(CommitRecords)] /\ m_commitsInit' \in [Repos -> BOOLEAN]
  BY <1>4
<1>7. \A r \in Repos : m_commits'[r] = <<>> /\ ~m_commitsInit'[r] /\ Len(m_commits'[r]) = 0 /\ \A j \in 1 .. 0 : FALSE
  BY <1>4
<1> QED BY <1>3, <1>5, <1>6, <1>7 DEF ReadInv

\* ReadInv is inductive.
LEMMA ReadInvHolds == LoaderSpec => []ReadInv
<1>1. ASSUME ReadInv, [LoaderNext]_<<vars, loaderVars>> PROVE ReadInv'
  <2>1. CASE UNCHANGED <<git, readVars>> /\ (pc = "failed" => pc' = "failed")
    BY <1>1, <2>1 DEF ReadInv, readVars
  <2>2. CASE LoaderNext
    BY <1>1, <2>1, <2>2, ReadSteps, ReadDiff, ReadEnd, ReadAgain
  <2>3. CASE UNCHANGED <<vars, loaderVars>>
    <3>1. UNCHANGED <<git, readVars>> /\ (pc = "failed" => pc' = "failed")
      BY <2>3 DEF vars, readVars
    <3> QED BY <2>1, <3>1
  <2> QED BY <1>1, <2>2, <2>3
<1> QED BY <1>1, ReadInit, PTL DEF LoaderSpec

\* No two changes of a commit are of one file.
LEMMA FilesDiffer ==
  ASSUME NEW d \in Seq(Changes), Pairwise(d, FileOrder)
  PROVE  IsInjective([i \in DOMAIN d |-> d[i].file])
<1>1. ASSUME NEW i \in DOMAIN d, NEW j \in DOMAIN d, i < j PROVE d[i].file # d[j].file
  <2>1. <<d[i], d[j]>> \in FileOrder
    BY <1>1 DEF Pairwise
  <2>2. d[i].file \in Seq(Nat) /\ d[j].file \in Seq(Nat) /\ Before(d[i].file, d[j].file)
    BY <2>1 DEF FileOrder, Changes
  <2>3. \A p \in Seq(Nat) : ~Before(p, p)
    <3>1. \A p \in Seq(Nat) : Len(p) \in Nat /\ \A i_1 \in 1 .. Len(p) : p[i_1] \in Nat
      OBVIOUS
    <3> QED BY <3>1 DEF Before
  <2> QED BY <2>2, <2>3
<1>2. \A i \in DOMAIN d : i \in Nat
  OBVIOUS
<1>3. \A i, j \in DOMAIN d : d[i].file = d[j].file => i = j
  BY <1>1, <1>2
<1> QED BY <1>3 DEF IsInjective

\* The commits that were read have the changes that ChangesRebuildTrees asks for.
LEMMA ReadRebuilds == ReadInv => ChangesRebuildTrees
<1> SUFFICES ASSUME ReadInv, NEW r \in Repos, m_commitsInit[r], NEW n \in DOMAIN git[r]
             PROVE  LET changes == m_commits[r][n].changes
                        old     == IF n = 1 THEN {} ELSE FilesOf(git[r][n - 1].tree)
                        gone    == {[file |-> c.file, oid |-> c.oid1] : c \in {x \in Range(changes) : x.oid1 # 0}}
                        new     == {[file |-> c.file, oid |-> c.oid2] : c \in {x \in Range(changes) : x.oid2 # 0}}
                    IN  /\ gone \subseteq old
                        /\ FilesOf(git[r][n].tree) = (old \ gone) \cup new
                        /\ IsInjective([i \in DOMAIN changes |-> changes[i].file])
  BY DEF ChangesRebuildTrees
<1> DEFINE h == git[r]
           d == m_commits[r][n].changes
           before == IF n = 1 THEN Empty ELSE h[n - 1].tree
           old == IF n = 1 THEN {} ELSE FilesOf(h[n - 1].tree)
<1>1. h \in Histories[r]
  BY DEF ReadInv
<1>2. n \in 1 .. Len(h)
  BY <1>1, HistoryFacts
<1>3. m_commits[r][n] = CommitOf(h, n)
  BY <1>2 DEF ReadInv
<1>4. Rebuilds(d, FilesOf(before), FilesOf(h[n].tree)) /\ before \in Trees
  BY <1>1, <1>2, <1>3, CommitOfFacts
<1>5. FilesOf(before) = old
  <2>1. FilesOf(Empty) = {}
    <3>1. \A x : x \in Range(Files[<<Empty, <<>>>>]) <=> \E k \in DOMAIN Empty : x \in FilePart(Empty, <<>>, k)
      <4>1. <<>> \in Seq(Nat)
        OBVIOUS
      <4> QED BY <4>1, TreeFacts, FilesBelow
    <3> QED BY <3>1, TreeFacts DEF FilesOf
  <2> QED BY <2>1
<1> HIDE DEF old, before, d
<1>6. IsInjective([i \in DOMAIN d |-> d[i].file])
  BY <1>4, FilesDiffer DEF Rebuilds
<1>7. Gone(d) \subseteq old /\ FilesOf(h[n].tree) = (old \ Gone(d)) \cup Brought(d)
  BY <1>4, <1>5 DEF Rebuilds
<1> QED BY <1>6, <1>7 DEF Gone, Brought, d, old

\* Of all histories that the repositories have: the changes that were read are exactly the difference.
THEOREM ChangesRebuild == LoaderSpec => []ChangesRebuildTrees
BY ReadInvHolds, ReadRebuilds, PTL

---------------------------------------------------------------------------

(* The searches by time. *)

TimedBy(cs) == cs \in Seq(CommitRecords) /\ TimesInOrder(cs)

\* A commit is at most as much older than one before it as the skew is.
LEMMA NearlyInOrder ==
  ASSUME NEW cs, TimedBy(cs), NEW i \in DOMAIN cs, NEW j \in DOMAIN cs, i < j
  PROVE  cs[i].time <= cs[j].time + Skew
<1>1. /\ Len(cs) \in Nat /\ Skew \in Nat /\ DOMAIN cs = 1 .. Len(cs)
      /\ \A n \in 1 .. Len(cs) : cs[n].time \in Nat
      /\ \A n \in 1 .. Len(cs) - 1 : cs[n].time <= cs[n + 1].time + Skew
      /\ \A n \in 1 .. Len(cs) - 2 : cs[n].time < cs[n + 2].time
  <2>1. cs \in Seq(CommitRecords)
    BY DEF TimedBy
  <2>2. \A n \in 1 .. Len(cs) : cs[n] \in CommitRecords
    BY <2>1, ElementOfSeq
  <2>3. \A n \in 1 .. Len(cs) : cs[n].time \in Nat
    BY <2>2 DEF CommitRecords
  <2> QED BY <2>1, <2>3, WindowFacts DEF TimedBy, TimesInOrder
<1> DEFINE T == {d \in Nat : /\ i + d + 1 <= Len(cs) => cs[i].time <= cs[i + d + 1].time + Skew
                             /\ i + d + 2 <= Len(cs) => cs[i].time <= cs[i + d + 2].time + Skew}
<1>2. 0 \in T
  <2>1. i + 1 <= Len(cs) => i \in 1 .. Len(cs) - 1
    BY <1>1
  <2>2. i + 2 <= Len(cs) => i \in 1 .. Len(cs) - 2 /\ i + 2 \in 1 .. Len(cs)
    BY <1>1
  <2>3. i + 2 <= Len(cs) => cs[i].time <= cs[i + 2].time + Skew
    BY <1>1, <2>2
  <2>4. i + 1 <= Len(cs) => cs[i].time <= cs[i + 1].time + Skew
    BY <1>1, <2>1
  <2>5. i + 0 + 1 = i + 1 /\ i + 0 + 2 = i + 2
    BY <1>1
  <2> QED BY <2>3, <2>4, <2>5
<1>3. ASSUME NEW d \in Nat, d \in T PROVE d + 1 \in T
  <2>0. i + (d + 1) + 1 = i + d + 2 /\ i + (d + 1) + 2 = i + d + 3 /\ (i + d + 1) + 2 = i + d + 3
    BY <1>1
  <2>1. i + d + 2 <= Len(cs) => cs[i].time <= cs[i + d + 2].time + Skew
    BY <1>3
  <2>2. ASSUME i + d + 3 <= Len(cs) PROVE cs[i].time <= cs[i + d + 3].time + Skew
    <3>1. i + d + 1 \in 1 .. Len(cs) - 2 /\ i + d + 1 <= Len(cs) /\ i + d + 1 \in 1 .. Len(cs) /\ i + d + 3 \in 1 .. Len(cs)
      BY <1>1, <2>2
    <3>2. cs[i].time <= cs[i + d + 1].time + Skew
      BY <1>3, <3>1
    <3>3. cs[i + d + 1].time < cs[(i + d + 1) + 2].time
      BY <1>1, <3>1
    <3>4. cs[i].time \in Nat /\ cs[i + d + 1].time \in Nat /\ cs[i + d + 3].time \in Nat
      BY <1>1, <3>1
    <3>5. cs[i + d + 1].time < cs[i + d + 3].time
      BY <2>0, <3>3
    <3>6. \A x, y, z, w \in Nat : x <= y + w /\ y < z => x <= z + w
      OBVIOUS
    <3>7. Skew \in Nat
      BY <1>1
    <3> QED BY <3>2, <3>4, <3>5, <3>6, <3>7
  <2> QED BY <2>0, <2>1, <2>2
<1>4. j - i - 1 \in Nat /\ i + (j - i - 1) + 1 = j /\ j <= Len(cs)
  BY <1>1
<1>5. j - i - 1 \in T
  <2> HIDE DEF T
  <2> QED BY <1>2, <1>3, <1>4, SetInduction
<1> QED BY <1>4, <1>5

\* The ends of a finite set of numbers.
LEMMA EndsOf ==
  ASSUME NEW S, S \subseteq Int, IsFiniteSet(S), S # {}
  PROVE  /\ Max(S) \in S /\ \A x \in S : x <= Max(S)
         /\ Min(S) \in S /\ \A x \in S : Min(S) <= x
<1> DEFINE s == Sorted(S, <)
<1>1. s \in Seq(S) /\ Range(s) = S /\ \A p, q \in DOMAIN s : p < q => s[p] < s[q]
  BY SortedNumbers
<1> HIDE DEF s
<1>2. DOMAIN s = 1 .. Len(s) /\ Len(s) \in Nat /\ \A p \in 1 .. Len(s) : s[p] \in S
  BY <1>1, ElementOfSeq
<1>3. \A x \in S : \E p \in 1 .. Len(s) : s[p] = x
  BY <1>1, <1>2 DEF Range
<1>4. 1 \in 1 .. Len(s) /\ Len(s) \in 1 .. Len(s)
  <2>1. PICK x : x \in S
    OBVIOUS
  <2>2. PICK p \in 1 .. Len(s) : s[p] = x
    BY <1>3, <2>1
  <2> QED BY <1>2, <2>2
<1>5. \A p \in 1 .. Len(s) : s[1] <= s[p] /\ s[p] <= s[Len(s)]
  <2> SUFFICES ASSUME NEW p \in 1 .. Len(s) PROVE s[1] <= s[p] /\ s[p] <= s[Len(s)]
    OBVIOUS
  <2>1. s[1] \in Int /\ s[p] \in Int /\ s[Len(s)] \in Int
    BY <1>2, <1>4
  <2>2. p # 1 => s[1] < s[p]
    BY <1>1, <1>2, <1>4
  <2>3. p # Len(s) => s[p] < s[Len(s)]
    <3>0. \A k \in Nat : \A q \in 1 .. k : q # k => q < k
      OBVIOUS
    <3>1. p # Len(s) => p < Len(s)
      BY <1>2, <3>0
    <3>2. p \in DOMAIN s /\ Len(s) \in DOMAIN s
      BY <1>2, <1>4
    <3> QED BY <1>1, <3>1, <3>2
  <2> QED BY <2>1, <2>2, <2>3
<1>6. s[1] \in S /\ s[Len(s)] \in S
  BY <1>2, <1>4
<1>7. \A x \in S : s[1] <= x /\ x <= s[Len(s)]
  BY <1>3, <1>5
<1>8. \E x \in S : \A y \in S : x >= y
  BY <1>6, <1>7
<1>9. \E x \in S : \A y \in S : x =< y
  BY <1>6, <1>7
<1>10. Max(S) \in S /\ \A y \in S : Max(S) >= y
  BY <1>8 DEF Max
<1>11. Min(S) \in S /\ \A y \in S : Min(S) =< y
  BY <1>9 DEF Min
<1> QED BY <1>10, <1>11

\* The body of the search in lastCommitByTime, and the part of it without the recursion.
Within(cs, time, l, r) == Max({i \in l .. r : time >= cs[i].time} \cup {-1})
LooseBody(f, cs, time, at) ==
  IF at[2] - at[1] > 2
  THEN f[IF time < cs[(at[1] + at[2]) \div 2].time THEN <<at[1], (at[1] + at[2]) \div 2>> ELSE <<(at[1] + at[2]) \div 2, at[2]>>]
  ELSE Within(cs, time, at[1], at[2])

LooseEq(f, cs, time) ==
  f = [at \in (1 .. Len(cs)) \X (1 .. Len(cs)) |-> LooseBody(f, cs, time, at)]

\* The middle of a range of more than three is within it.
LEMMA Middle ==
  \A l, r \in Int : r - l > 2 => /\ (l + r) \div 2 \in Int /\ l < (l + r) \div 2 /\ (l + r) \div 2 < r
OBVIOUS

\* The search comes to an end.
LEMMA LooseExists ==
  ASSUME NEW cs, TimedBy(cs), NEW time
  PROVE  \E f : LooseEq(f, cs, time)
<1> DEFINE N == Len(cs)
           R == 1 .. N
           Holds(f, d) == \A l, r \in R : r - l < d => f[<<l, r>>] = LooseBody(f, cs, time, <<l, r>>)
           T == {d \in Nat : \E f : f = [at \in R \X R |-> f[at]] /\ Holds(f, d - N)}
<1>0. N \in Nat
  BY DEF TimedBy
<1>1. 0 \in T
  <2>1. [at \in R \X R |-> 0] = [at \in R \X R |-> [x \in R \X R |-> 0][at]]
    OBVIOUS
  <2>2. \A l, r \in R : ~(r - l < 0 - N)
    BY <1>0
  <2>3. Holds([at \in R \X R |-> 0], 0 - N)
    BY <2>2
  <2> HIDE DEF Holds
  <2> QED BY <2>1, <2>3
<1>2. ASSUME NEW d \in Nat, d \in T PROVE d + 1 \in T
  <2> HIDE DEF N
  <2>1. PICK g : g = [at \in R \X R |-> g[at]] /\ Holds(g, d - N)
    BY <1>2
  <2> DEFINE f == [at \in R \X R |-> LooseBody(g, cs, time, at)]
  <2>2. \A l, r \in R : f[<<l, r>>] = LooseBody(g, cs, time, <<l, r>>)
    OBVIOUS
  <2>3. f = [at \in R \X R |-> f[at]]
    OBVIOUS
  <2> HIDE DEF f
  <2>4. ASSUME NEW l \in R, NEW r \in R, r - l < d - N + 1 PROVE f[<<l, r>>] = LooseBody(f, cs, time, <<l, r>>)
    <3> DEFINE m == (l + r) \div 2
    <3>1. CASE ~(r - l > 2)
      BY <2>2, <3>1 DEF LooseBody
    <3>2. CASE r - l > 2
      <4>1. m \in R /\ m - l < d - N /\ r - m < d - N
        BY <1>0, <2>4, <3>2, Middle
      <4> HIDE DEF m, Holds
      <4>2. g[<<l, m>>] = LooseBody(g, cs, time, <<l, m>>) /\ g[<<m, r>>] = LooseBody(g, cs, time, <<m, r>>)
        BY <2>1, <4>1 DEF Holds
      <4>3. f[<<l, m>>] = g[<<l, m>>] /\ f[<<m, r>>] = g[<<m, r>>]
        BY <2>2, <4>1, <4>2
      <4>4. LooseBody(f, cs, time, <<l, r>>) = LooseBody(g, cs, time, <<l, r>>)
        BY <4>3 DEF LooseBody, m
      <4> QED BY <2>2, <4>4
    <3> QED BY <3>1, <3>2
  <2>5. Holds(f, (d + 1) - N)
    <3>1. (d + 1) - N = d - N + 1
      BY <1>0
    <3> HIDE DEF R
    <3> QED BY <2>4, <3>1
  <2> HIDE DEF Holds
  <2> QED BY <2>3, <2>5
<1>3. N + N + 1 \in T
  <2> HIDE DEF T, N
  <2> QED BY <1>0, <1>1, <1>2, SetInduction
<1>4. PICK f : f = [at \in R \X R |-> f[at]] /\ Holds(f, (N + N + 1) - N)
  BY <1>3
<1>5. \A l, r \in R : f[<<l, r>>] = LooseBody(f, cs, time, <<l, r>>)
  <2> HIDE DEF N
  <2>1. \A l, r \in R : r - l < (N + N + 1) - N
    BY <1>0
  <2> QED BY <1>4, <2>1
<1>6. f = [at \in R \X R |-> LooseBody(f, cs, time, at)]
  <2>1. \A at \in R \X R : f[at] = LooseBody(f, cs, time, at)
    <3> HIDE DEF R
    <3> QED BY <1>5
  <2> HIDE DEF R
  <2> QED BY <1>4, <2>1, Zenon
<1> QED BY <1>6, Zenon DEF LooseEq

\* The search of lastCommitByTime is defined by its equation.
LEMMA LooseFacts ==
  ASSUME NEW cs, TimedBy(cs), NEW time
  PROVE  \E f : /\ \A l, r \in 1 .. Len(cs) : f[<<l, r>>] = LooseBody(f, cs, time, <<l, r>>)
                /\ lastCommitByTime(cs, time) = IF Len(cs) = 0 \/ time < cs[1].time THEN 0 ELSE f[<<1, Len(cs)>>]
<1> DEFINE loose == CHOOSE f : LooseEq(f, cs, time)
<1>1. LooseEq(loose, cs, time)
  BY LooseExists
<1>2. lastCommitByTime(cs, time) = IF Len(cs) = 0 \/ time < cs[1].time THEN 0 ELSE loose[<<1, Len(cs)>>]
  BY Zenon DEF lastCommitByTime, LooseEq, LooseBody, Within
<1> HIDE DEF loose
<1>3. \A l, r \in 1 .. Len(cs) : loose[<<l, r>>] = LooseBody(loose, cs, time, <<l, r>>)
  BY <1>1 DEF LooseEq
<1> QED BY <1>2, <1>3

\* No commit is older by more than s than one before it.
InOrderBut(cs, s) == \A i, j \in 1 .. Len(cs) : i < j => cs[i].time <= cs[j].time + s

\* What lastCommitByTime returns: no commit behind it is in time by more than s.
LastGood(cs, s, time, n) ==
  /\ n \in 1 .. Len(cs) /\ cs[n].time <= time
  /\ \A i \in n + 1 .. Len(cs) : cs[i].time > time - s

\* The commits that were read have times.
LEMMA TimedFacts ==
  ASSUME NEW cs, TimedBy(cs)
  PROVE  /\ Len(cs) \in Nat /\ DOMAIN cs = 1 .. Len(cs) /\ Skew \in Nat
         /\ \A i \in 1 .. Len(cs) : cs[i] \in CommitRecords /\ cs[i].time \in Nat
<1>1. cs \in Seq(CommitRecords)
  BY DEF TimedBy
<1>2. \A n \in 1 .. Len(cs) : cs[n] \in CommitRecords
  BY <1>1, ElementOfSeq
<1>3. \A n \in 1 .. Len(cs) : cs[n].time \in Nat
  BY <1>2 DEF CommitRecords
<1> QED BY <1>1, <1>2, <1>3, WindowFacts

\* The commits that are left are looked at from the last one on.
LEMMA WithinGood ==
  ASSUME NEW cs, TimedBy(cs), NEW s \in Nat, InOrderBut(cs, s), NEW time \in Int, NEW l \in 1 .. Len(cs), NEW r \in 1 .. Len(cs), l <= r,
         cs[l].time <= time, r = Len(cs) \/ time < cs[r].time
  PROVE  LastGood(cs, s, time, Within(cs, time, l, r))
<1> DEFINE S == {i \in l .. r : time >= cs[i].time}
           M == Max(S \cup {-1})
<1>0. Len(cs) \in Nat /\ \A i \in 1 .. Len(cs) : cs[i].time \in Nat
  BY TimedFacts
<1>1. l \in S /\ S \subseteq 1 .. Len(cs)
  BY <1>0
<1>2. IsFiniteSet(S \cup {-1}) /\ S \cup {-1} \subseteq Int /\ S \cup {-1} # {}
  <2>1. IsFiniteSet(1 .. Len(cs))
    BY <1>0, FS_Interval
  <2> HIDE DEF S
  <2>2. IsFiniteSet(S) /\ IsFiniteSet({-1})
    BY <1>1, <2>1, FS_Subset, FS_Singleton
  <2>3. IsFiniteSet(S \cup {-1})
    BY <2>2, FS_Union, Zenon
  <2>4. S \subseteq Int /\ -1 \in Int
    BY <1>0, <1>1
  <2>5. S \cup {-1} \subseteq Int /\ S \cup {-1} # {}
    BY <2>4
  <2> QED BY <2>3, <2>5
<1>3. M \in S \cup {-1} /\ \A x \in S \cup {-1} : x <= M
  <2> HIDE DEF S
  <2> QED BY <1>2, EndsOf
<1>4. M \in S
  <2> HIDE DEF M
  <2> QED BY <1>1, <1>3
<1>5. \A i \in M + 1 .. r : i \in l .. r /\ ~(cs[i].time <= time)
  <2> SUFFICES ASSUME NEW i \in M + 1 .. r PROVE i \in l .. r /\ ~(cs[i].time <= time)
    OBVIOUS
  <2> HIDE DEF M
  <2>1. M \in l .. r
    BY <1>4
  <2>2. i \in l .. r /\ i > M /\ i \in Int
    BY <2>1
  <2>3. i \notin S
    <3> HIDE DEF S
    <3> QED BY <1>1, <1>3, <1>4, <2>2
  <2>4. i \in 1 .. Len(cs)
    BY <1>0, <2>2
  <2> QED BY <1>0, <2>2, <2>3, <2>4
<1>6. M \in 1 .. Len(cs) /\ cs[M].time <= time
  <2> HIDE DEF M
  <2>1. M \in 1 .. Len(cs) /\ time >= cs[M].time
    BY <1>1, <1>4
  <2> QED BY <1>0, <2>1
<1>7. ASSUME NEW i \in M + 1 .. Len(cs) PROVE cs[i].time > time - s
  <2> HIDE DEF M
  <2>0. i \in 1 .. Len(cs) /\ cs[i].time \in Nat
    BY <1>0, <1>6
  <2>1. CASE i <= r
    <3>1. i \in M + 1 .. r
      BY <1>6, <2>1
    <3>2. cs[i].time > time
      BY <1>5, <2>0, <3>1
    <3> QED BY <1>0, <2>0, <3>2
  <2>2. CASE i > r
    <3>1. r # Len(cs) /\ time < cs[r].time /\ cs[r].time \in Nat
      BY <1>0, <2>0, <2>2
    <3>2. cs[r].time <= cs[i].time + s
      BY <2>0, <2>2 DEF InOrderBut
    <3> QED BY <1>0, <2>0, <3>1, <3>2
  <2> QED BY <2>0, <2>1, <2>2
<1>8. LastGood(cs, s, time, M)
  <2> HIDE DEF M
  <2> QED BY <1>6, <1>7 DEF LastGood
<1> QED BY <1>8 DEF Within

\* lastCommitByTime misses a commit only where its time is within s of the time asked for.
LEMMA LastCommitBut ==
  ASSUME NEW cs, TimedBy(cs), NEW s \in Nat, InOrderBut(cs, s), NEW time \in Int
  PROVE  LET last == lastCommitByTime(cs, time)
         IN  /\ last \in 0 .. Len(cs) /\ (last # 0 => cs[last].time <= time)
             /\ \A i \in 1 .. Len(cs) : i > last => cs[i].time > time - s
             /\ \A i \in 1 .. Len(cs) : i <= last => cs[i].time <= time + s
<1> DEFINE N == Len(cs)
           last == lastCommitByTime(cs, time)
<1>0. N \in Nat /\ DOMAIN cs = 1 .. N /\ \A i \in 1 .. N : cs[i].time \in Nat
  BY TimedFacts
<1>1. PICK f : /\ \A l, r \in 1 .. N : f[<<l, r>>] = LooseBody(f, cs, time, <<l, r>>)
               /\ last = IF N = 0 \/ time < cs[1].time THEN 0 ELSE f[<<1, N>>]
  BY LooseFacts
<1>2. CASE N = 0
  <2>1. last = 0 /\ \A i \in 1 .. 0 : FALSE
    BY <1>1, <1>2
  <2>2. \A i \in 1 .. N : FALSE
    BY <1>2
  <2>3. last \in 0 .. N
    BY <1>2, <2>1
  <2> HIDE DEF last, N
  <2> QED BY <2>1, <2>2, <2>3 DEF last, N
<1>3. CASE N # 0 /\ time < cs[1].time
  <2>1. last = 0
    BY <1>1, <1>3
  <2>2. ASSUME NEW i \in 1 .. N PROVE cs[i].time > time - s
    <3>1. 1 \in 1 .. N /\ cs[1].time \in Nat /\ cs[i].time \in Nat
      BY <1>0, <1>3
    <3>2. CASE i = 1
      BY <1>0, <1>3, <3>1, <3>2
    <3>3. CASE i # 1
      <4>1. cs[1].time <= cs[i].time + s
        BY <1>0, <3>1, <3>3 DEF InOrderBut
      <4> QED BY <1>0, <1>3, <3>1, <4>1
    <3> QED BY <3>2, <3>3
  <2> HIDE DEF last, N
  <2>3. \A i \in 1 .. N : ~(i <= 0)
    BY <1>0
  <2>4. last \in 0 .. N
    BY <1>0, <2>1
  <2> QED BY <2>1, <2>2, <2>3, <2>4 DEF N, last
<1>4. CASE N # 0 /\ ~(time < cs[1].time)
  <2> DEFINE Cond(l, r) == l <= r /\ cs[l].time <= time /\ (r = N \/ time < cs[r].time)
             T == {d \in Nat : \A l, r \in 1 .. N : r - l <= d /\ Cond(l, r) => LastGood(cs, s, time, f[<<l, r>>])}
  <2> HIDE DEF last
  <2>1. ASSUME NEW l \in 1 .. N, NEW r \in 1 .. N, Cond(l, r), ~(r - l > 2) PROVE LastGood(cs, s, time, f[<<l, r>>])
    <3>1. f[<<l, r>>] = Within(cs, time, l, r)
      BY <1>1, <2>1 DEF LooseBody
    <3> QED BY <2>1, <3>1, WithinGood
  <2>2. 0 \in T
    <3> HIDE DEF Cond
    <3> SUFFICES ASSUME NEW l \in 1 .. N, NEW r \in 1 .. N, r - l <= 0, Cond(l, r) PROVE LastGood(cs, s, time, f[<<l, r>>])
      OBVIOUS
    <3>1. ~(r - l > 2)
      BY <1>0
    <3> QED BY <2>1, <3>1
  <2>3. ASSUME NEW d \in Nat, d \in T PROVE d + 1 \in T
    <3> SUFFICES ASSUME NEW l \in 1 .. N, NEW r \in 1 .. N, r - l <= d + 1, Cond(l, r)
                 PROVE  LastGood(cs, s, time, f[<<l, r>>])
      OBVIOUS
    <3>1. CASE ~(r - l > 2)
      <4> HIDE DEF Cond
      <4> QED BY <2>1, <3>1
    <3>2. CASE r - l > 2
      <4> DEFINE m == (l + r) \div 2
      <4> HIDE DEF N
      <4>1. m \in 1 .. N /\ l <= m /\ m <= r /\ m - l <= d /\ r - m <= d
        BY <1>0, <3>2, Middle
      <4>2. f[<<l, r>>] = f[IF time < cs[m].time THEN <<l, m>> ELSE <<m, r>>]
        BY <1>1, <3>2 DEF LooseBody
      <4> HIDE DEF m
      <4>3. cs[m].time \in Nat
        BY <1>0, <4>1
      <4>4. CASE time < cs[m].time
        <5>1. Cond(l, m)
          BY <4>1, <4>4
        <5> HIDE DEF Cond
        <5> QED BY <2>3, <4>1, <4>2, <4>4, <5>1
      <4>5. CASE ~(time < cs[m].time)
        <5>1. Cond(m, r)
          BY <4>1, <4>3, <4>5
        <5> HIDE DEF Cond
        <5> QED BY <2>3, <4>1, <4>2, <4>5, <5>1
      <4> QED BY <4>4, <4>5
    <3> QED BY <3>1, <3>2
  <2>4. N \in T
    <3> HIDE DEF T, N
    <3> QED BY <1>0, <2>2, <2>3, SetInduction
  <2>5. Cond(1, N) /\ N - 1 <= N /\ 1 \in 1 .. N /\ N \in 1 .. N
    <3>1. 1 \in 1 .. N /\ N \in 1 .. N /\ cs[1].time \in Nat
      BY <1>0, <1>4
    <3> HIDE DEF N
    <3> QED BY <1>0, <1>4, <3>1
  <2>6. LastGood(cs, s, time, f[<<1, N>>])
    <3> HIDE DEF Cond, N
    <3> QED BY <2>4, <2>5
  <2>7. last = f[<<1, N>>]
    BY <1>1, <1>4
  <2>8. last \in 1 .. N /\ cs[last].time <= time /\ \A i \in last + 1 .. N : cs[i].time > time - s
    BY <2>6, <2>7 DEF LastGood
  <2>9. ASSUME NEW i \in 1 .. N, i <= last PROVE cs[i].time <= time + s
    <3>1. CASE i = last
      BY <1>0, <2>8, <3>1
    <3>2. CASE i # last
      <4>1. cs[i].time <= cs[last].time + s
        <5> HIDE DEF N
        <5>1. i < last
          BY <1>0, <2>8, <2>9, <3>2
        <5> QED BY <1>0, <2>8, <5>1 DEF InOrderBut
      <4>2. cs[i].time \in Nat /\ cs[last].time \in Nat
        BY <1>0, <2>8
      <4> QED BY <1>0, <2>8, <4>1, <4>2
    <3> QED BY <3>1, <3>2
  <2>10. \A i \in 1 .. N : i > last => i \in last + 1 .. N
    BY <1>0, <2>8
  <2>11. last \in 0 .. N
    BY <1>0, <2>8
  <2> HIDE DEF N, T, Cond
  <2> QED BY <2>8, <2>9, <2>10, <2>11 DEF N, last
<1> QED BY <1>2, <1>3, <1>4

\* In a repository that has been read.
LEMMA LastCommit ==
  ASSUME NEW cs, TimedBy(cs), NEW time \in Int
  PROVE  LET last == lastCommitByTime(cs, time)
         IN  /\ last \in 0 .. Len(cs) /\ (last # 0 => cs[last].time <= time)
             /\ \A i \in 1 .. Len(cs) : i > last => cs[i].time > time - Skew
             /\ \A i \in 1 .. Len(cs) : i <= last => cs[i].time <= time + Skew
<1>1. Skew \in Nat /\ InOrderBut(cs, Skew)
  BY NearlyInOrder, TimedFacts DEF InOrderBut
<1> QED BY <1>1, LastCommitBut

Early(a, b) == IF b < a THEN b ELSE a
Late(a, b) == IF b < a THEN a ELSE b

\* Every commit inside the window is listed, but for those that are closer to an end than the skew.
LEMMA ListedBetween ==
  ASSUME NEW cs, TimedBy(cs), NEW a \in Int, NEW b \in Int
  PROVE  LET l == listCommitsBetweenDates(cs, a, b)
         IN  /\ l \in Seq(1 .. Len(cs))
             /\ \A i \in 1 .. Len(cs) : Early(a, b) + Skew < cs[i].time /\ cs[i].time <= Late(a, b) - Skew => i \in Range(l)
<1> DEFINE N == Len(cs)
           backward == b < a
           less == nearestCommitByTime(cs, IF backward THEN b ELSE a)
           more == nearestCommitByTime(cs, IF backward THEN a ELSE b)
           listed == {i \in less - Margin .. more + Margin : i \in 1 .. N /\ isBetween(cs[i].time, a, b)}
           older(i, j) == cs[i].time < cs[j].time \/ (cs[i].time = cs[j].time /\ i < j)
           R == {p \in (1 .. N) \X (1 .. N) : IF backward THEN older(p[2], p[1]) ELSE older(p[1], p[2])}
           l == listCommitsBetweenDates(cs, a, b)
<1>0. /\ N \in Nat /\ Skew \in Nat /\ DOMAIN cs = 1 .. N /\ \A i \in 1 .. N : cs[i].time \in Nat
      /\ Margin \in Nat
  BY TimedFacts, WindowFacts
<1>1. listed \subseteq 1 .. N /\ IsFiniteSet(listed)
  <2>1. listed \subseteq 1 .. N
    OBVIOUS
  <2>2. IsFiniteSet(1 .. N)
    BY <1>0, FS_Interval
  <2> QED BY <2>1, <2>2, FS_Subset
<1>2. Orders(R, listed)
  <2>1. \A i, j \in 1 .. N : <<i, j>> \in R <=> IF backward THEN older(j, i) ELSE older(i, j)
    OBVIOUS
  <2>2. \A i \in 1 .. N : cs[i].time \in Nat /\ i \in Nat
    BY <1>0
  <2>6. \A x, y \in 1 .. N : x = y \/ older(x, y) \/ older(y, x)
    <3> HIDE DEF N
    <3> QED BY <2>2
  <2>7. \A x \in 1 .. N : ~older(x, x)
    <3> HIDE DEF N
    <3> QED BY <2>2
  <2>8. \A x, y, z \in 1 .. N : older(x, y) /\ older(y, z) => older(x, z)
    <3> HIDE DEF N
    <3> QED BY <2>2
  <2> HIDE DEF R, N, listed, older, backward
  <2>3. \A x \in 1 .. N : <<x, x>> \notin R
    BY <2>1, <2>7
  <2>4. \A x, y \in 1 .. N : x = y \/ <<x, y>> \in R \/ <<y, x>> \in R
    BY <2>1, <2>6
  <2>5. \A x, y, z \in 1 .. N : <<x, y>> \in R /\ <<y, z>> \in R => <<x, z>> \in R
    BY <2>1, <2>8
  <2> QED BY <1>1, <2>3, <2>4, <2>5 DEF Orders
<1>3. \A x \in listed : BelowIn(R, listed, x) = {y \in listed : IF backward THEN older(x, y) ELSE older(y, x)}
  <2>1. \A i, j \in 1 .. N : <<i, j>> \in R <=> IF backward THEN older(j, i) ELSE older(i, j)
    OBVIOUS
  <2> HIDE DEF listed, R, older, backward
  <2> QED BY <1>1, <2>1 DEF BelowIn
<1>4. l = [i \in 1 .. Cardinality(listed) |->
             CHOOSE x \in listed : Cardinality({y \in listed : IF backward THEN older(x, y) ELSE older(y, x)}) = i - 1]
  BY DEF listCommitsBetweenDates, Sorted
<1>5. l \in Seq(1 .. N) /\ Range(l) = listed
  <2> HIDE DEF listed, R, l, older, backward
  <2>1. ASSUME NEW i \in 1 .. Cardinality(listed)
        PROVE  l[i] \in listed /\ Cardinality(BelowIn(R, listed, l[i])) = i - 1
    <3>1. PICK x \in listed : Cardinality(BelowIn(R, listed, x)) = i - 1
      BY <1>1, <1>2, RankExists
    <3>2. Cardinality({y \in listed : IF backward THEN older(x, y) ELSE older(y, x)}) = i - 1
      BY <1>3, <3>1
    <3>3. l[i] = CHOOSE z \in listed : Cardinality({y \in listed : IF backward THEN older(z, y) ELSE older(y, z)}) = i - 1
      BY <1>4, Zenon
    <3>4. l[i] \in listed /\ Cardinality({y \in listed : IF backward THEN older(l[i], y) ELSE older(y, l[i])}) = i - 1
      BY <3>2, <3>3, Zenon
    <3> QED BY <1>3, <3>4, Zenon
  <2>2. l = [i \in 1 .. Cardinality(listed) |-> l[i]]
    <3> DEFINE at(i) == CHOOSE x \in listed : Cardinality({y \in listed : IF backward THEN older(x, y) ELSE older(y, x)}) = i - 1
    <3>1. l = [i \in 1 .. Cardinality(listed) |-> at(i)]
      BY <1>4, Zenon
    <3> HIDE DEF at
    <3> QED BY <3>1
  <2>3. l \in Seq(listed) /\ Range(l) = listed
    BY <1>1, <1>2, <2>1, <2>2, RankOrder
  <2>4. Len(l) \in Nat /\ l \in [1 .. Len(l) -> 1 .. N]
    BY <1>1, <2>3, ElementOfSeq, LenProperties
  <2> QED BY <2>3, <2>4, SeqDef
<1>6. ASSUME NEW i \in 1 .. N, Early(a, b) + Skew < cs[i].time, cs[i].time <= Late(a, b) - Skew PROVE i \in listed
  <2> DEFINE lo == lastCommitByTime(cs, Early(a, b))
             hi == lastCommitByTime(cs, Late(a, b))
  <2>1. Early(a, b) \in Int /\ Late(a, b) \in Int
    BY DEF Early, Late
  <2>2. less = Max({lo, 1}) /\ more = Max({hi, 1})
    BY DEF nearestCommitByTime, Early, Late
  <2>3. /\ lo \in 0 .. N /\ (i <= lo => cs[i].time <= Early(a, b) + Skew)
        /\ hi \in 0 .. N /\ (i > hi => cs[i].time > Late(a, b) - Skew)
    BY <2>1, LastCommit
  <2> HIDE DEF lo, hi, less, more, N
  <2>4. i \in Nat /\ i >= 1 /\ cs[i].time \in Nat
    BY <1>0
  <2>5. lo < i /\ i <= hi
    BY <1>0, <1>6, <2>1, <2>3, <2>4
  <2>6. \A x \in Int : /\ Max({x, 1}) \in {x, 1}  /\ x <= Max({x, 1})
    <3> SUFFICES ASSUME NEW x \in Int PROVE Max({x, 1}) \in {x, 1} /\ x <= Max({x, 1})
      OBVIOUS
    <3>1. IsFiniteSet({x, 1})
      <4>1. IsFiniteSet({x} \cup {1})
        BY FS_Singleton, FS_Union, Zenon
      <4>2. {x} \cup {1} = {x, 1}
        OBVIOUS
      <4> QED BY <4>1, <4>2
    <3> QED BY <3>1, EndsOf
  <2>7. lo \in Int /\ hi \in Int
    BY <2>3
  <2>8. less \in Int /\ more \in Int /\ less <= i /\ i <= more
    BY <2>2, <2>4, <2>5, <2>6, <2>7
  <2>9. i \in less - Margin .. more + Margin
    BY <1>0, <2>4, <2>8
  <2>10. isBetween(cs[i].time, a, b)
    BY <1>0, <1>6, <2>4 DEF isBetween, Early, Late
  <2> QED BY <2>9, <2>10
<1> HIDE DEF listed, l
<1> QED BY <1>5, <1>6 DEF l

\* Of the changes of one name that are no removals, each brings a blob.
LEMMA NamedUpdates ==
  ASSUME NEW c \in CommitRecords, NEW name, \A x \in Range(c.changes) : x.oid1 # x.oid2
  PROVE  LET o == findUpdateOidsByBasename(c, name)
         IN  /\ Len(o) \in Nat /\ (o # <<>> => Len(o) # 0)
             /\ \A i \in 1 .. Len(o) : o[i] # 0
<1> DEFINE S == {i \in DOMAIN c.changes : Last(c.changes[i].file) = name /\ type(c.changes[i]) # "DEL"}
           named == Sorted(S, <)
           o == findUpdateOidsByBasename(c, name)
<1>1. c.changes \in Seq(Changes)
  BY DEF CommitRecords
<1>2. S \subseteq Int /\ IsFiniteSet(S) /\ S \subseteq DOMAIN c.changes
  <2>1. DOMAIN c.changes = 1 .. Len(c.changes) /\ Len(c.changes) \in Nat
    BY <1>1, LenProperties
  <2>2. IsFiniteSet(1 .. Len(c.changes))
    BY <2>1, FS_Interval
  <2>3. S \subseteq 1 .. Len(c.changes)
    BY <2>1
  <2> HIDE DEF S
  <2>4. IsFiniteSet(S)
    BY <2>2, <2>3, FS_Subset
  <2>5. S \subseteq Int
    BY <2>1, <2>3
  <2>6. S \subseteq DOMAIN c.changes
    BY <2>1, <2>3
  <2> QED BY <2>4, <2>5, <2>6
<1>3. named \in Seq(S)
  <2> HIDE DEF S
  <2> QED BY <1>2, SortedNumbers
<1>4. o = [i \in DOMAIN named |-> c.changes[named[i]].oid2]
  BY DEF findUpdateOidsByBasename
<1> HIDE DEF named, o
<1>5. Len(named) \in Nat /\ DOMAIN named = 1 .. Len(named) /\ \A i \in 1 .. Len(named) : named[i] \in S
  <2> HIDE DEF S
  <2> QED BY <1>3, ElementOfSeq, LenProperties
<1>6. \A i \in 1 .. Len(named) : c.changes[named[i]].oid2 # 0
  <2> SUFFICES ASSUME NEW i \in 1 .. Len(named) PROVE c.changes[named[i]].oid2 # 0
    OBVIOUS
  <2>1. named[i] \in DOMAIN c.changes /\ type(c.changes[named[i]]) # "DEL"
    BY <1>5
  <2>2. c.changes[named[i]].oid1 # c.changes[named[i]].oid2
    BY <2>1 DEF Range
  <2> QED BY <2>1, <2>2 DEF type
<1>7. Len(o) = Len(named) /\ \A i \in 1 .. Len(named) : o[i] = c.changes[named[i]].oid2
  <2>1. o = [i \in 1 .. Len(named) |-> c.changes[named[i]].oid2]
    BY <1>4, <1>5
  <2> QED BY <1>5, <2>1
<1>8. o # <<>> => Len(o) # 0
  <2>1. o \in Seq({c.changes[named[i]].oid2 : i \in 1 .. Len(named)})
    <3>1. o \in [1 .. Len(named) -> {c.changes[named[i]].oid2 : i \in 1 .. Len(named)}]
      BY <1>4, <1>5
    <3> QED BY <1>5, <3>1, SeqDef
  <2> QED BY <2>1, EmptySeq
<1> QED BY <1>5, <1>6, <1>7, <1>8 DEF o

\* A version of the template that is missed is close to an end of the windows, or behind them.
LEMMA RelevantFound ==
  ASSUME NEW cs, TimedBy(cs), \A i \in 1 .. Len(cs) : \A x \in Range(cs[i].changes) : x.oid1 # x.oid2,
         NEW t \in Nat, NEW name, findRelevantPot(cs, name, t) = 0,
         NEW k \in 1 .. Len(cs), findUpdateOidsByBasename(cs[k], name) # <<>>
  PROVE  \E end \in {0, t - Back, t + Ahead} :
           cs[k].time > t + Ahead \/ cs[k].time \in end - Skew .. end + Skew
<1> DEFINE near == listCommitsBetweenDates(cs, t - Back, t + Ahead)
           past == listCommitsBetweenDates(cs, t - Back - 1, 0)
           listed == near \o past
           newOids(i) == findUpdateOidsByBasename(cs[listed[i]], name)
           found == {i \in DOMAIN listed : newOids(i) # <<>>}
           time == cs[k].time
<1>0. Back \in Nat /\ Ahead \in Nat /\ Skew \in Nat /\ time \in Nat /\ t - Back \in Int /\ t + Ahead \in Int
      /\ t - Back - 1 \in Int /\ 0 \in Int
  <2>1. Back \in Nat /\ Ahead \in Nat /\ Skew \in Nat
    BY WindowFacts
  <2>2. time \in Nat
    BY TimedFacts
  <2> QED BY <2>1, <2>2
<1>1. /\ near \in Seq(1 .. Len(cs))
      /\ t - Back + Skew < time /\ time <= t + Ahead - Skew => k \in Range(near)
  <2> DEFINE lo == t - Back
             hi == t + Ahead
  <2>1. lo \in Int /\ hi \in Int /\ Early(lo, hi) = lo /\ Late(lo, hi) = hi
    BY <1>0 DEF Early, Late
  <2>2. near = listCommitsBetweenDates(cs, lo, hi)
    OBVIOUS
  <2> HIDE DEF near, lo, hi
  <2>3. LET l == listCommitsBetweenDates(cs, lo, hi)
        IN  /\ l \in Seq(1 .. Len(cs))
            /\ \A i \in 1 .. Len(cs) : Early(lo, hi) + Skew < cs[i].time /\ cs[i].time <= Late(lo, hi) - Skew => i \in Range(l)
    BY <2>1, ListedBetween
  <2>4. /\ near \in Seq(1 .. Len(cs))
        /\ Early(lo, hi) + Skew < cs[k].time /\ cs[k].time <= Late(lo, hi) - Skew => k \in Range(near)
    BY <2>2, <2>3
  <2>5. lo + Skew < time /\ time <= hi - Skew => k \in Range(near)
    BY <2>1, <2>4
  <2>6. near \in Seq(1 .. Len(cs))
    BY <2>4
  <2>7. hi - Skew = t + Ahead - Skew
    BY <1>0 DEF hi
  <2>8. lo + Skew = t - Back + Skew
    BY DEF lo
  <2> QED BY <2>5, <2>6, <2>7, <2>8
<1>2. /\ past \in Seq(1 .. Len(cs))
      /\ Early(t - Back - 1, 0) + Skew < time /\ time <= Late(t - Back - 1, 0) - Skew => k \in Range(past)
  <2> HIDE DEF past, time
  <2> QED BY <1>0, ListedBetween DEF past, time
<1>3. findRelevantPot(cs, name, t) = IF found = {} THEN 0 ELSE IF Len(newOids(Min(found))) > 1 THEN -1 ELSE newOids(Min(found))[1]
  BY DEF findRelevantPot
<1> HIDE DEF near, past
<1>4. listed \in Seq(1 .. Len(cs)) /\ Range(listed) = Range(near) \cup Range(past)
  BY <1>1, <1>2, RangeConcat
<1> HIDE DEF listed
<1>5. DOMAIN listed = 1 .. Len(listed) /\ Len(listed) \in Nat /\ \A i \in DOMAIN listed : listed[i] \in 1 .. Len(cs)
  BY <1>4, ElementOfSeq, LenProperties
<1>6. found = {}
  <2> SUFFICES ASSUME found # {} PROVE FALSE
    OBVIOUS
  <2>1. IsFiniteSet(1 .. Len(listed))
    BY <1>5, FS_Interval
  <2>2. found \subseteq 1 .. Len(listed) /\ found \subseteq Int
    BY <1>5
  <2>3. Min(found) \in found
    <3> HIDE DEF found
    <3> QED BY <2>1, <2>2, EndsOf, FS_Subset
  <2>4. PICK m \in DOMAIN listed : m = Min(found) /\ newOids(m) # <<>>
    BY <2>3
  <2>5. listed[m] \in 1 .. Len(cs)
    BY <1>5
  <2>6. cs[listed[m]] \in CommitRecords
    BY <2>5, TimedFacts
  <2>7. Len(newOids(m)) \in Nat /\ Len(newOids(m)) # 0 /\ \A i \in 1 .. Len(newOids(m)) : newOids(m)[i] # 0
    BY <2>4, <2>5, <2>6, NamedUpdates
  <2>8. 0 = IF Len(newOids(m)) > 1 THEN -1 ELSE newOids(m)[1]
    <3> HIDE DEF newOids, found
    <3> QED BY <1>3, <2>4
  <2> HIDE DEF newOids
  <2>9. 1 \in 1 .. Len(newOids(m))
    BY <2>7
  <2> QED BY <2>7, <2>8, <2>9
<1>7. k \notin Range(near) /\ k \notin Range(past)
  <2> SUFFICES ASSUME k \in Range(listed) PROVE FALSE
    BY <1>4
  <2>1. PICK i \in DOMAIN listed : listed[i] = k
    BY DEF Range
  <2>2. i \in found
    BY <2>1
  <2> QED BY <1>6, <2>2
<1> HIDE DEF found, time
<1>8. Early(t - Back - 1, 0) = (IF t - Back - 1 >= 0 THEN 0 ELSE t - Back - 1)
      /\ Late(t - Back - 1, 0) = (IF t - Back - 1 >= 0 THEN t - Back - 1 ELSE 0)
  BY <1>0 DEF Early, Late
<1>9. \/ time > t + Ahead
      \/ time >= 0 - Skew /\ time <= 0 + Skew
      \/ time >= t - Back - Skew /\ time <= t - Back + Skew
      \/ time >= t + Ahead - Skew /\ time <= t + Ahead + Skew
  BY <1>0, <1>1, <1>2, <1>7, <1>8
<1> QED BY <1>0, <1>9 DEF time

\* The values of a function on a finite set.
LEMMA FiniteImage == ASSUME NEW f, IsFiniteSet(DOMAIN f), f = [x \in DOMAIN f |-> f[x]] PROVE IsFiniteSet({f[x] : x \in DOMAIN f})
<1> DEFINE C == {f[x] : x \in DOMAIN f}
<1>1. f \in Surjection(DOMAIN f, C)
  BY DEF Surjection
<1> HIDE DEF C
<1>2. IsFiniteSet(C)
  BY <1>1, FS_Surjection
<1> QED BY <1>2 DEF C

\* There is a last time.
LEMMA TimesBounded == ASSUME ReadInv PROVE Max(Times) \in Int
<1> DEFINE C == Range(git["trunk"]) \cup Range(git["stable"])
           T == {TimeOf(c) : c \in C}
<1>1. ASSUME NEW r \in Repos PROVE IsFiniteSet(Range(git[r])) /\ Range(git[r]) # {} /\ \A c \in Range(git[r]) : c.time \in Nat
  <2> DEFINE h == git[r]
  <2>1. Len(h) \in Nat \ {0} /\ DOMAIN h = 1 .. Len(h) /\ \A n \in 1 .. Len(h) : h[n].time \in Nat
    BY HistoryFacts DEF ReadInv
  <2> HIDE DEF h
  <2>2. IsFiniteSet(1 .. Len(h))
    BY <2>1, FS_Interval
  <2>3. Range(h) = {h[n] : n \in 1 .. Len(h)}
    BY <2>1 DEF Range
  <2>4. IsFiniteSet(Range(h))
    <3> DEFINE f == [n \in 1 .. Len(h) |-> h[n]]
    <3>1. DOMAIN f = 1 .. Len(h) /\ f = [n \in DOMAIN f |-> f[n]] /\ {f[n] : n \in DOMAIN f} = {h[n] : n \in 1 .. Len(h)}
      OBVIOUS
    <3> HIDE DEF f
    <3>2. IsFiniteSet({f[n] : n \in DOMAIN f})
      BY <2>2, <3>1, FiniteImage
    <3> QED BY <2>3, <3>1, <3>2
  <2>5. h[1] \in Range(h) /\ \A c \in Range(h) : c.time \in Nat
    BY <2>1, <2>3
  <2> QED BY <2>4, <2>5 DEF h
<1>2. IsFiniteSet(C) /\ C # {} /\ \A c \in C : c.time \in Nat
  <2>1. "trunk" \in Repos /\ "stable" \in Repos
    BY DEF Repos
  <2> QED BY <1>1, <2>1, FS_Union
<1> HIDE DEF C
<1>3. IsFiniteSet(T) /\ T # {} /\ T \subseteq Int /\ T \subseteq Nat
  <2>1. IsFiniteSet(T)
    <3> DEFINE f == [c \in C |-> TimeOf(c)]
    <3>1. DOMAIN f = C /\ f = [c \in DOMAIN f |-> f[c]] /\ {f[c] : c \in DOMAIN f} = {TimeOf(c) : c \in C}
      OBVIOUS
    <3> HIDE DEF f
    <3>2. IsFiniteSet({f[c] : c \in DOMAIN f})
      BY <1>2, <3>1, FiniteImage
    <3> QED BY <3>1, <3>2
  <2> QED BY <1>2, <2>1 DEF TimeOf
<1> HIDE DEF T
<1>4. Max(T) \in Nat
  BY <1>3, EndsOf
<1>5. Times = 0 .. 1 + Max(T)
  BY DEF Times, T, C
<1>6. IsFiniteSet(Times) /\ Times # {} /\ Times \subseteq Int
  <2>1. IsFiniteSet(0 .. 1 + Max(T))
    BY <1>4, FS_Interval
  <2>2. 0 \in 0 .. 1 + Max(T)
    BY <1>4
  <2> QED BY <1>5, <2>1, <2>2
<1> QED BY <1>6, EndsOf

\* The commits that were read are searched as SearchesMissOnlyTheSkew asks for.
LEMMA ReadSearches == ReadInv => SearchesMissOnlyTheSkew
<1> SUFFICES ASSUME ReadInv, NEW r \in Repos, m_commitsInit[r], NEW t \in Times
             PROVE  LET commits == m_commits[r]
                        last == lastCommitByTime(commits, t)
                    IN  /\ last # -1 /\ (last # 0 => commits[last].time <= t)
                        /\ \A i \in last + 1 .. Len(commits) : commits[i].time <= t => commits[i].time > t - Skew
                        /\ \A u \in t .. Max(Times) : \A i \in DOMAIN commits :
                             t + Skew < commits[i].time /\ commits[i].time <= u - Skew =>
                               i \in Range(listCommitsBetweenDates(commits, t, u))
                        /\ \A n \in PoNames : findRelevantPot(commits, n, t) = 0 =>
                             \A i \in DOMAIN commits : findUpdateOidsByBasename(commits[i], n) # <<>> =>
                               \E end \in {0, t - Back, t + Ahead} :
                                 commits[i].time > t + Ahead \/ commits[i].time \in end - Skew .. end + Skew
  BY DEF SearchesMissOnlyTheSkew
<1> DEFINE cs == m_commits[r]
<1>1. TimedBy(cs)
  BY DEF ReadInv, TimedBy
<1>2. \A i \in 1 .. Len(cs) : \A x \in Range(cs[i].changes) : x.oid1 # x.oid2
  <2> SUFFICES ASSUME NEW i \in 1 .. Len(cs) PROVE \A x \in Range(cs[i].changes) : x.oid1 # x.oid2
    OBVIOUS
  <2>1. git[r] \in Histories[r] /\ i \in 1 .. Len(git[r]) /\ cs[i] = CommitOf(git[r], i)
    BY DEF ReadInv
  <2> HIDE DEF cs
  <2> DEFINE old == IF i = 1 THEN Empty ELSE git[r][i - 1].tree
  <2>2. Rebuilds(CommitOf(git[r], i).changes, FilesOf(old), FilesOf(git[r][i].tree))
    BY <2>1, CommitOfFacts
  <2> QED BY <2>1, <2>2 DEF Rebuilds
<1> HIDE DEF cs
<1>3. t \in Nat /\ t \in Int
  BY TimesBounded DEF Times
<1>4. Max(Times) \in Int
  BY TimesBounded
<1>5. Len(cs) \in Nat /\ DOMAIN cs = 1 .. Len(cs) /\ Skew \in Nat
  BY <1>1, TimedFacts
<1> DEFINE last == lastCommitByTime(cs, t)
<1>6. /\ last \in 0 .. Len(cs) /\ (last # 0 => cs[last].time <= t)
      /\ \A i \in 1 .. Len(cs) : i > last => cs[i].time > t - Skew
  BY <1>1, <1>3, LastCommit
<1> HIDE DEF last
<1>7. last # -1 /\ \A i \in last + 1 .. Len(cs) : cs[i].time > t - Skew
  <2>1. \A i \in last + 1 .. Len(cs) : i \in 1 .. Len(cs) /\ i > last
    BY <1>5, <1>6
  <2> QED BY <1>5, <1>6, <2>1
<1>8. ASSUME NEW u \in t .. Max(Times), NEW i \in DOMAIN cs, t + Skew < cs[i].time, cs[i].time <= u - Skew
      PROVE  i \in Range(listCommitsBetweenDates(cs, t, u))
  <2>1. u \in Int /\ t <= u
    BY <1>3, <1>4
  <2>2. Early(t, u) = t /\ Late(t, u) = u
    BY <1>3, <2>1 DEF Early, Late
  <2> QED BY <1>1, <1>3, <1>5, <1>8, <2>1, <2>2, ListedBetween
<1>9. ASSUME NEW n \in PoNames, findRelevantPot(cs, n, t) = 0, NEW i \in DOMAIN cs, findUpdateOidsByBasename(cs[i], n) # <<>>
      PROVE  \E end \in {0, t - Back, t + Ahead} :
               cs[i].time > t + Ahead \/ cs[i].time \in end - Skew .. end + Skew
  BY <1>1, <1>2, <1>3, <1>5, <1>9, RelevantFound
<1> QED BY <1>6, <1>7, <1>8, <1>9 DEF cs, last

\* Of all histories whose times pass the checks: the searches by time miss commits within the skew only.
THEOREM SearchesMissLittle == LoaderSpec => []SearchesMissOnlyTheSkew
BY ReadInvHolds, ReadSearches, PTL

(* The search for a change in a commit. *)

\* The body of the search in findChange.
SearchBody(f, changes, pattern, at) ==
  IF at[1] > at[2] THEN 0
  ELSE IF Before(build_pathname(changes[(at[1] + at[2]) \div 2].file), pattern) THEN f[<<(at[1] + at[2]) \div 2 + 1, at[2]>>]
  ELSE IF Before(pattern, build_pathname(changes[(at[1] + at[2]) \div 2].file)) THEN f[<<at[1], (at[1] + at[2]) \div 2 - 1>>]
  ELSE (at[1] + at[2]) \div 2

SearchEq(f, changes, pattern) ==
  f = [at \in (1 .. Len(changes) + 1) \X (0 .. Len(changes)) |-> SearchBody(f, changes, pattern, at)]

\* The middle of a range is in it.
LEMMA Halves ==
  \A l, r \in Int : l <= r => /\ (l + r) \div 2 \in Int /\ l <= (l + r) \div 2 /\ (l + r) \div 2 <= r
OBVIOUS

\* The search comes to an end.
LEMMA SearchExists ==
  ASSUME NEW changes, Len(changes) \in Nat, NEW pattern
  PROVE  \E f : SearchEq(f, changes, pattern)
<1> DEFINE N == Len(changes)
           L == 1 .. N + 1
           R == 0 .. N
           Holds(f, d) == \A l \in L : \A r \in R : r - l < d => f[<<l, r>>] = SearchBody(f, changes, pattern, <<l, r>>)
           T == {d \in Nat : \E f : f = [at \in L \X R |-> f[at]] /\ Holds(f, d)}
<1> HIDE DEF N
<1>0. N \in Nat
  BY DEF N
<1>1. 0 \in T
  <2> DEFINE z == [at \in L \X R |-> 0]
  <2>1. z = [at \in L \X R |-> z[at]]
    OBVIOUS
  <2>2. \A l \in L : \A r \in R : z[<<l, r>>] = 0
    OBVIOUS
  <2>3. \A l \in L : \A r \in R : r - l < 0 => l > r
    BY <1>0
  <2> HIDE DEF z, L, R
  <2>4. Holds(z, 0)
    BY <2>2, <2>3 DEF SearchBody
  <2> HIDE DEF Holds
  <2> QED BY <2>1, <2>4
<1>2. ASSUME NEW d \in Nat, d \in T PROVE d + 1 \in T
  <2>1. PICK g : g = [at \in L \X R |-> g[at]] /\ Holds(g, d)
    BY <1>2
  <2> DEFINE f == [at \in L \X R |-> SearchBody(g, changes, pattern, at)]
  <2>2. \A l \in L : \A r \in R : f[<<l, r>>] = SearchBody(g, changes, pattern, <<l, r>>)
    OBVIOUS
  <2>3. f = [at \in L \X R |-> f[at]]
    OBVIOUS
  <2> HIDE DEF f
  <2>4. ASSUME NEW l \in L, NEW r \in R, r - l < d + 1 PROVE f[<<l, r>>] = SearchBody(f, changes, pattern, <<l, r>>)
    <3> DEFINE m == (l + r) \div 2
    <3>1. CASE l > r
      BY <2>2, <3>1 DEF SearchBody
    <3>2. CASE ~(l > r)
      <4>1. m + 1 \in L /\ m - 1 \in R /\ r - (m + 1) < d /\ (m - 1) - l < d
        BY <1>0, <2>4, <3>2, Halves
      <4> HIDE DEF m, Holds, L, R
      <4>2. /\ g[<<m + 1, r>>] = SearchBody(g, changes, pattern, <<m + 1, r>>)
            /\ g[<<l, m - 1>>] = SearchBody(g, changes, pattern, <<l, m - 1>>)
        BY <2>1, <4>1 DEF Holds
      <4>3. f[<<m + 1, r>>] = g[<<m + 1, r>>] /\ f[<<l, m - 1>>] = g[<<l, m - 1>>]
        BY <2>2, <4>1, <4>2
      <4>4. SearchBody(f, changes, pattern, <<l, r>>) = SearchBody(g, changes, pattern, <<l, r>>)
        BY <4>3 DEF SearchBody, m
      <4> QED BY <2>2, <4>4
    <3> QED BY <3>1, <3>2
  <2>5. Holds(f, d + 1)
    <3> HIDE DEF L, R
    <3> QED BY <2>4
  <2> HIDE DEF Holds, L, R
  <2> QED BY <2>3, <2>5
<1>3. N + 1 \in T
  <2> HIDE DEF T
  <2> QED BY <1>0, <1>1, <1>2, SetInduction
<1>4. PICK f : f = [at \in L \X R |-> f[at]] /\ Holds(f, N + 1)
  BY <1>3
<1>5. \A l \in L : \A r \in R : f[<<l, r>>] = SearchBody(f, changes, pattern, <<l, r>>)
  <2>1. \A l \in L : \A r \in R : r - l < N + 1
    BY <1>0
  <2> HIDE DEF L, R
  <2> QED BY <1>4, <2>1
<1>6. f = [at \in L \X R |-> SearchBody(f, changes, pattern, at)]
  <2>1. \A at \in L \X R : f[at] = SearchBody(f, changes, pattern, at)
    <3> HIDE DEF L, R
    <3> QED BY <1>5
  <2> HIDE DEF L, R
  <2> QED BY <1>4, <2>1, Zenon
<1> QED BY <1>6, Zenon DEF SearchEq, L, R, N

\* The binary search of findChange is defined by its equation.
LEMMA SearchFacts ==
  ASSUME NEW changes, Len(changes) \in Nat, NEW file
  PROVE  \E f : /\ \A l \in 1 .. Len(changes) + 1 : \A r \in 0 .. Len(changes) :
                     f[<<l, r>>] = SearchBody(f, changes, build_pathname(file), <<l, r>>)
                /\ findChange(changes, file) = f[<<1, Len(changes)>>]
<1> DEFINE pattern == build_pathname(file)
           search == CHOOSE f : SearchEq(f, changes, pattern)
<1>1. SearchEq(search, changes, pattern)
  <2> HIDE DEF pattern
  <2> QED BY SearchExists
<1>2. findChange(changes, file) = search[<<1, Len(changes)>>]
  BY Zenon DEF findChange, SearchEq, SearchBody
<1> HIDE DEF search, pattern
<1>3. \A l \in 1 .. Len(changes) + 1 : \A r \in 0 .. Len(changes) : search[<<l, r>>] = SearchBody(search, changes, pattern, <<l, r>>)
  BY <1>1 DEF SearchEq
<1> QED BY <1>2, <1>3 DEF pattern

\* The change that is found, if any, is one of the commit, and it has the pathname as far as strcmp can tell.
LEMMA FoundChange ==
  ASSUME NEW changes, Len(changes) \in Nat, NEW file
  PROVE  LET n == findChange(changes, file)
         IN  /\ n \in 0 .. Len(changes)
             /\ n # 0 => /\ ~Before(build_pathname(changes[n].file), build_pathname(file))
                         /\ ~Before(build_pathname(file), build_pathname(changes[n].file))
<1> DEFINE N == Len(changes)
           pattern == build_pathname(file)
           Good(n) == /\ n \in 0 .. N
                      /\ n # 0 => /\ ~Before(build_pathname(changes[n].file), pattern)
                                  /\ ~Before(pattern, build_pathname(changes[n].file))
<1>1. PICK f : /\ \A l \in 1 .. N + 1 : \A r \in 0 .. N : f[<<l, r>>] = SearchBody(f, changes, pattern, <<l, r>>)
               /\ findChange(changes, file) = f[<<1, N>>]
  BY SearchFacts
<1> DEFINE T == {d \in Nat : \A l \in 1 .. N + 1 : \A r \in 0 .. N : r - l < d => Good(f[<<l, r>>])}
<1> HIDE DEF N, pattern
<1>0. N \in Nat
  BY DEF N
<1>2. ASSUME NEW l \in 1 .. N + 1, NEW r \in 0 .. N, l > r PROVE Good(f[<<l, r>>])
  <2>1. f[<<l, r>>] = 0
    BY <1>1, <1>2 DEF SearchBody
  <2> QED BY <1>0, <2>1
<1>3. 0 \in T
  <2>1. \A l \in 1 .. N + 1 : \A r \in 0 .. N : r - l < 0 => l > r
    BY <1>0
  <2> HIDE DEF Good
  <2> QED BY <1>2, <2>1
<1>4. ASSUME NEW d \in Nat, d \in T PROVE d + 1 \in T
  <2> SUFFICES ASSUME NEW l \in 1 .. N + 1, NEW r \in 0 .. N, r - l < d + 1, ~(l > r) PROVE Good(f[<<l, r>>])
    BY <1>2
  <2> DEFINE m == (l + r) \div 2
  <2>1. m \in 1 .. N /\ m + 1 \in 1 .. N + 1 /\ m - 1 \in 0 .. N /\ r - (m + 1) < d /\ (m - 1) - l < d
    BY <1>0, Halves
  <2>2. f[<<l, r>>] = IF Before(build_pathname(changes[m].file), pattern) THEN f[<<m + 1, r>>]
                      ELSE IF Before(pattern, build_pathname(changes[m].file)) THEN f[<<l, m - 1>>] ELSE m
    BY <1>1 DEF SearchBody
  <2> HIDE DEF m
  <2>3. Good(f[<<m + 1, r>>]) /\ Good(f[<<l, m - 1>>])
    <3> HIDE DEF Good
    <3> QED BY <1>4, <2>1
  <2>4. m \in 0 .. N
    BY <1>0, <2>1
  <2> QED BY <2>2, <2>3, <2>4
<1>5. N + 1 \in T
  <2> HIDE DEF T
  <2> QED BY <1>0, <1>3, <1>4, SetInduction
<1>6. Good(f[<<1, N>>])
  <2>1. 1 \in 1 .. N + 1 /\ N \in 0 .. N /\ N - 1 < N + 1
    BY <1>0
  <2> HIDE DEF Good
  <2> QED BY <1>5, <2>1
<1> QED BY <1>1, <1>6 DEF N, pattern

(* The versions that the detectors look for, and the pairs that they make. *)

Oids == Blobs \cup {0}

\* What is found in a commit is a blob, or 0.
LEMMA OidsOfCommit ==
  ASSUME NEW c \in CommitRecords, NEW file
  PROVE  findUpdateOid(c, file) \in Oids /\ findRemovalOid(c, file) \in Oids
<1>1. c.changes \in Seq(Changes)
  BY DEF CommitRecords
<1>2. Len(c.changes) \in Nat /\ DOMAIN c.changes = 1 .. Len(c.changes) /\ \A i \in 1 .. Len(c.changes) : c.changes[i] \in Changes
  BY <1>1, ElementOfSeq, LenProperties
<1> DEFINE n == findChange(c.changes, file)
<1>3. n \in 0 .. Len(c.changes)
  BY <1>2, FoundChange
<1> HIDE DEF n
<1>4. n # 0 => c.changes[n] \in Changes
  BY <1>2, <1>3
<1>5. n # 0 => c.changes[n].oid1 \in Oids /\ c.changes[n].oid2 \in Oids
  BY <1>4 DEF Changes, Oids
<1>6. 0 \in Oids
  BY DEF Oids
<1> QED BY <1>5, <1>6 DEF findUpdateOid, findRemovalOid, n

\* The ends of a set of commits.
LEMMA SomeOf ==
  ASSUME NEW from \in Int, NEW to \in Int, NEW S, S \subseteq from .. to, S # {}
  PROVE  /\ Min(S) \in S /\ Max(S) \in S /\ \A x \in S : Min(S) <= x /\ x <= Max(S)
<1>1. IsFiniteSet(from .. to)
  BY FS_Interval
<1>2. IsFiniteSet(S)
  BY <1>1, FS_Subset
<1>3. S \subseteq Int
  OBVIOUS
<1> QED BY <1>2, <1>3, EndsOf

\* findNextUpdateOid returns the first update from a commit on.
LEMMA NextUpdate ==
  ASSUME NEW cs, NEW from \in Int, Len(cs) \in Nat, NEW file
  PROVE  LET oid == findNextUpdateOid(cs, from, file)
         IN  \/ oid = 0 /\ \A i \in from .. Len(cs) : findUpdateOid(cs[i], file) = 0
             \/ \E m \in from .. Len(cs) : /\ oid = findUpdateOid(cs[m], file) /\ oid # 0
                                           /\ \A i \in from .. Len(cs) : i < m => findUpdateOid(cs[i], file) = 0
<1> DEFINE found == {i \in from .. Len(cs) : findUpdateOid(cs[i], file) # 0}
           oid == findNextUpdateOid(cs, from, file)
<1>1. oid = IF found = {} THEN 0 ELSE findUpdateOid(cs[Min(found)], file)
  BY DEF findNextUpdateOid, FirstFound
<1>2. CASE found = {}
  BY <1>1, <1>2
<1>3. CASE found # {}
  <2>1. Min(found) \in found /\ \A x \in found : Min(found) <= x
    <3>1. found \subseteq from .. Len(cs) /\ from \in Int /\ Len(cs) \in Int
      OBVIOUS
    <3> HIDE DEF found
    <3> QED BY <1>3, <3>1, SomeOf
  <2>2. PICK m \in from .. Len(cs) : m = Min(found) /\ findUpdateOid(cs[m], file) # 0
    BY <2>1
  <2>3. \A i \in from .. Len(cs) : i < m => findUpdateOid(cs[i], file) = 0
    BY <2>1, <2>2
  <2>4. oid = findUpdateOid(cs[m], file)
    BY <1>1, <1>3, <2>2
  <2> HIDE DEF oid, found
  <2> QED BY <2>2, <2>3, <2>4 DEF oid
<1> QED BY <1>2, <1>3

\* findLastUpdateOid returns the last update up to a commit.
LEMMA LastUpdate ==
  ASSUME NEW cs, NEW from \in Int, NEW file
  PROVE  LET oid == findLastUpdateOid(cs, from, file)
         IN  \/ oid = 0 /\ \A i \in 1 .. from : findUpdateOid(cs[i], file) = 0
             \/ \E m \in 1 .. from : /\ oid = findUpdateOid(cs[m], file) /\ oid # 0
                                     /\ \A i \in 1 .. from : i > m => findUpdateOid(cs[i], file) = 0
<1> DEFINE found == {i \in 1 .. from : findUpdateOid(cs[i], file) # 0}
           oid == findLastUpdateOid(cs, from, file)
<1>1. oid = IF found = {} THEN 0 ELSE findUpdateOid(cs[Max(found)], file)
  BY DEF findLastUpdateOid, LastFound
<1>2. CASE found = {}
  BY <1>1, <1>2
<1>3. CASE found # {}
  <2>1. Max(found) \in found /\ \A x \in found : x <= Max(found)
    <3>1. found \subseteq 1 .. from /\ 1 \in Int /\ from \in Int
      OBVIOUS
    <3> HIDE DEF found
    <3> QED BY <1>3, <3>1, SomeOf
  <2>2. PICK m \in 1 .. from : m = Max(found) /\ findUpdateOid(cs[m], file) # 0
    BY <2>1
  <2>3. \A i \in 1 .. from : i > m => findUpdateOid(cs[i], file) = 0
    BY <2>1, <2>2
  <2>4. oid = findUpdateOid(cs[m], file)
    BY <1>1, <1>3, <2>2
  <2> HIDE DEF oid, found
  <2> QED BY <2>2, <2>3, <2>4 DEF oid
<1> QED BY <1>2, <1>3

\* Where findLastRemovalOid begins to look.
RemovalsFrom(from) == IF from - RemovalBack < 1 THEN 1 ELSE from - RemovalBack

\* findLastRemovalOid returns the last removal among the commits that it looks at.
LEMMA LastRemoval ==
  ASSUME NEW cs, NEW from \in Int, NEW file
  PROVE  LET oid == findLastRemovalOid(cs, from, file)
         IN  \/ oid = 0 /\ \A i \in RemovalsFrom(from) .. from : findRemovalOid(cs[i], file) = 0
             \/ \E m \in RemovalsFrom(from) .. from :
                  /\ oid = findRemovalOid(cs[m], file) /\ oid # 0
                  /\ \A i \in RemovalsFrom(from) .. from : i > m => findRemovalOid(cs[i], file) = 0
<1> DEFINE start == RemovalsFrom(from)
           found == {i \in start .. from : findRemovalOid(cs[i], file) # 0}
           oid == findLastRemovalOid(cs, from, file)
<1>0. start \in Int
  BY WindowFacts DEF RemovalsFrom
<1>1. oid = IF found = {} THEN 0 ELSE findRemovalOid(cs[Max(found)], file)
  BY DEF findLastRemovalOid, LastFound, RemovalsFrom
<1> HIDE DEF start
<1>2. CASE found = {}
  BY <1>1, <1>2 DEF start
<1>3. CASE found # {}
  <2>1. Max(found) \in found /\ \A x \in found : x <= Max(found)
    BY <1>0, <1>3, SomeOf
  <2>2. PICK m \in start .. from : m = Max(found) /\ findRemovalOid(cs[m], file) # 0
    BY <2>1
  <2>3. \A i \in start .. from : i > m => findRemovalOid(cs[i], file) = 0
    BY <1>0, <2>1, <2>2
  <2>4. oid = findRemovalOid(cs[m], file)
    BY <1>1, <1>3, <2>2
  <2> HIDE DEF oid, found
  <2> QED BY <2>2, <2>3, <2>4 DEF oid, start
<1> QED BY <1>2, <1>3

\* The searches find blobs.
LEMMA OidsFound ==
  ASSUME NEW cs \in Seq(CommitRecords), NEW file, NEW from \in Int, from <= Len(cs)
  PROVE  /\ findLastUpdateOid(cs, from, file) \in Oids /\ findLastRemovalOid(cs, from, file) \in Oids
         /\ from >= 1 => findNextUpdateOid(cs, from, file) \in Oids
<1>1. Len(cs) \in Nat /\ \A i \in 1 .. Len(cs) : cs[i] \in CommitRecords
  BY ElementOfSeq, LenProperties
<1>2. \A i \in 1 .. Len(cs) : findUpdateOid(cs[i], file) \in Oids /\ findRemovalOid(cs[i], file) \in Oids
  BY <1>1, OidsOfCommit
<1>3. \A i \in 1 .. from : i \in 1 .. Len(cs)
  BY <1>1
<1>4. \A i \in RemovalsFrom(from) .. from : i \in 1 .. Len(cs)
  <2>1. RemovalsFrom(from) \in Int /\ RemovalsFrom(from) >= 1
    BY WindowFacts DEF RemovalsFrom
  <2> QED BY <1>1, <2>1
<1>5. from >= 1 => \A i \in from .. Len(cs) : i \in 1 .. Len(cs)
  BY <1>1
<1>6. 0 \in Oids
  BY DEF Oids
<1>7. findLastUpdateOid(cs, from, file) \in Oids
  BY <1>2, <1>3, <1>6, LastUpdate
<1>8. findLastRemovalOid(cs, from, file) \in Oids
  BY <1>2, <1>4, <1>6, LastRemoval
<1>9. ASSUME from >= 1 PROVE findNextUpdateOid(cs, from, file) \in Oids
  BY <1>1, <1>2, <1>5, <1>6, <1>9, NextUpdate
<1> QED BY <1>7, <1>8, <1>9

\* Of two numbers.
LEMMA EndsOfTwo ==
  ASSUME NEW a \in Int, NEW b \in Int
  PROVE  /\ Min({a, b}) \in {a, b} /\ Max({a, b}) \in {a, b}
         /\ Min({a, b}) <= a /\ Min({a, b}) <= b /\ a <= Max({a, b}) /\ b <= Max({a, b})
<1>1. IsFiniteSet({a} \cup {b})
  BY FS_Singleton, FS_Union, Zenon
<1>2. {a} \cup {b} = {a, b}
  OBVIOUS
<1>3. IsFiniteSet({a, b})
  BY <1>1, <1>2
<1>4. \A x \in {a, b} : Min({a, b}) <= x /\ x <= Max({a, b})
  BY <1>3, EndsOf
<1>5. Min({a, b}) \in {a, b} /\ Max({a, b}) \in {a, b}
  BY <1>3, EndsOf
<1> QED BY <1>4, <1>5

OrderedPairs == {p \in Blobs \X Blobs : p[1] < p[2]}

\* addOidPair puts the smaller hash first.
LEMMA PairsOrdered == ASSUME NEW oid \in Blobs, NEW others \in SUBSET Oids PROVE OidPairs(oid, others) \subseteq OrderedPairs
<1> SUFFICES ASSUME NEW o \in others \ {oid, 0} PROVE <<Min({oid, o}), Max({oid, o})>> \in OrderedPairs
  BY DEF OidPairs
<1>1. o \in Blobs /\ o # oid /\ o \in Int /\ oid \in Int
  BY BlobFacts DEF Oids
<1>3. /\ Min({oid, o}) \in {oid, o} /\ Max({oid, o}) \in {oid, o}
      /\ Min({oid, o}) <= oid /\ Min({oid, o}) <= o /\ oid <= Max({oid, o}) /\ o <= Max({oid, o})
  BY <1>1, EndsOfTwo
<1>4. Min({oid, o}) < Max({oid, o})
  BY <1>1, <1>3
<1> QED BY <1>1, <1>3, <1>4 DEF OrderedPairs

RealChanges == {c \in Changes : c.oid1 # c.oid2}

\* The type of a change says which of its two blobs are there.
LEMMA ChangeTypes ==
  ASSUME NEW c \in RealChanges
  PROVE  /\ type(c) \in {"ADD", "DEL", "MOD"}
         /\ type(c) = "ADD" => c.oid1 = 0 /\ c.oid2 \in Blobs
         /\ type(c) = "DEL" => c.oid1 \in Blobs /\ c.oid2 = 0
         /\ type(c) = "MOD" => c.oid1 \in Blobs /\ c.oid2 \in Blobs
         /\ c.oid1 \in Oids /\ c.oid2 \in Oids
<1>1. c.oid1 \in Blobs \cup {0} /\ c.oid2 \in Blobs \cup {0} /\ c.oid1 # c.oid2
  BY DEF RealChanges, Changes
<1> QED BY <1>1 DEF type, Oids

\* The pairs of DetectorSuccessors are of blobs, the smaller hash first.
LEMMA SuccessorsOrdered ==
  ASSUME NEW cs \in Seq(CommitRecords), NEW at \in 1 .. Len(cs), NEW c \in RealChanges
  PROVE  SuccessorPairs(cs, at, c) \subseteq OrderedPairs
<1>1. CASE type(c) = "MOD"
  <2>1. SuccessorPairs(cs, at, c) = OidPairs(c.oid1, {c.oid2})
    BY <1>1 DEF SuccessorPairs
  <2>2. c.oid1 \in Blobs /\ {c.oid2} \in SUBSET Oids
    BY <1>1, ChangeTypes
  <2> QED BY <2>1, <2>2, PairsOrdered
<1>2. CASE type(c) = "DEL"
  <2> DEFINE from == Max({at - MoveBack, 1})
             next == {findNextUpdateOid(cs, from, f) : f \in MovedTo(c.file)}
  <2>1. SuccessorPairs(cs, at, c) = OidPairs(c.oid1, next)
    BY <1>2 DEF SuccessorPairs
  <2>2. from \in Int /\ from >= 1 /\ from <= Len(cs)
    <3>1. at - MoveBack \in Int /\ at - MoveBack <= at /\ Len(cs) \in Nat
      BY WindowFacts, LenProperties
    <3>0. \A x \in Int : Max({x, 1}) \in {x, 1} /\ 1 <= Max({x, 1})
      <4>1. 1 \in Int
        OBVIOUS
      <4> QED BY <4>1, EndsOfTwo, Zenon
    <3>2. from \in {at - MoveBack, 1} /\ 1 <= from
      BY <3>0, <3>1
    <3> HIDE DEF from
    <3> QED BY <3>1, <3>2
  <2> HIDE DEF from
  <2>3. next \in SUBSET Oids
    BY <2>2, OidsFound
  <2>4. c.oid1 \in Blobs
    BY <1>2, ChangeTypes
  <2> HIDE DEF next
  <2> QED BY <2>1, <2>3, <2>4, PairsOrdered
<1>3. CASE type(c) = "ADD"
  <2> DEFINE last == {findLastUpdateOid(cs, at, f) : f \in CopiedFrom(c.file)}
             removed == findLastRemovalOid(cs, at - 1, c.file)
  <2>1. SuccessorPairs(cs, at, c) = OidPairs(c.oid2, {removed} \cup last)
    BY <1>3 DEF SuccessorPairs
  <2>2. at - 1 \in Int /\ at - 1 <= Len(cs) /\ at \in Int /\ at <= Len(cs)
    BY LenProperties
  <2>3. {removed} \cup last \in SUBSET Oids
    BY <2>2, OidsFound
  <2>4. c.oid2 \in Blobs
    BY <1>3, ChangeTypes
  <2> HIDE DEF last, removed
  <2> QED BY <2>1, <2>3, <2>4, PairsOrdered
<1> QED BY <1>1, <1>2, <1>3, ChangeTypes

\* The pairs of DetectorInterBranch are of blobs, the smaller hash first.
LEMMA BranchesOrdered ==
  ASSUME NEW cs \in Seq(CommitRecords), NEW at \in 1 .. Len(cs), NEW other, TimedBy(other), NEW c \in RealChanges
  PROVE  InterBranchPairs(cs, other, at, c) \subseteq OrderedPairs
<1>1. CASE type(c) = "DEL"
  BY <1>1 DEF InterBranchPairs
<1>2. CASE type(c) # "DEL"
  <2> DEFINE now == findFileOidByTime(other, cs[at].time, c.file)
             later == findFileOidByTime(other, cs[at].time + Later, c.file)
  <2>1. InterBranchPairs(cs, other, at, c) = OidPairs(c.oid2, {now, later})
    BY <1>2 DEF InterBranchPairs
  <2>2. cs[at].time \in Int /\ cs[at].time + Later \in Int
    <3>1. cs[at] \in CommitRecords
      BY ElementOfSeq
    <3>2. cs[at].time \in Nat
      BY <3>1 DEF CommitRecords
    <3>3. Later \in Nat
      BY WindowFacts
    <3> QED BY <3>2, <3>3
  <2>3. ASSUME NEW t \in Int PROVE findFileOidByTime(other, t, c.file) \in Oids
    <3> DEFINE last == lastCommitByTime(other, t)
    <3>1. last \in 0 .. Len(other) /\ Len(other) \in Nat /\ other \in Seq(CommitRecords)
      BY LastCommit, TimedFacts DEF TimedBy
    <3> HIDE DEF last
    <3>2. last \in Int /\ last <= Len(other)
      BY <3>1
    <3>3. findLastUpdateOid(other, last, c.file) \in Oids
      BY <3>1, <3>2, OidsFound
    <3> QED BY <3>3 DEF findFileOidByTime, last
  <2>4. c.oid2 \in Blobs
    BY <1>2, ChangeTypes
  <2>5. {now, later} \in SUBSET Oids
    BY <2>2, <2>3
  <2> HIDE DEF now, later
  <2> QED BY <2>1, <2>4, <2>5, PairsOrdered
<1> QED BY <1>1, <1>2

\* A change with the number of its commit.
Placed == [at : Nat, change : Changes]
PlacedOrder == {r \in Placed \X Placed : r[1].at <= r[2].at}

\* All changes of a list of commits, one commit after the other.
LEMMA AllChanges ==
  ASSUME NEW cs, NEW n \in Nat, DOMAIN cs = 1 .. n, \A i \in 1 .. n : cs[i].changes \in Seq(Changes)
  PROVE  /\ ChangesOf(cs) \in Seq(Placed) /\ Pairwise(ChangesOf(cs), PlacedOrder)
         /\ \A x : x \in Range(ChangesOf(cs)) <=>
              \E i \in 1 .. n : \E j \in DOMAIN cs[i].changes : x = [at |-> i, change |-> cs[i].changes[j]]
<1> DEFINE part(i) == [j \in DOMAIN cs[i].changes |-> [at |-> i, change |-> cs[i].changes[j]]]
           ss == [i \in DOMAIN cs |-> part(i)]
<1>1. ASSUME NEW i \in 1 .. n
      PROVE  /\ part(i) \in Seq(Placed) /\ \A p \in Range(part(i)) : p \in Placed /\ p.at = i
             /\ Range(part(i)) = {[at |-> i, change |-> cs[i].changes[j]] : j \in DOMAIN cs[i].changes}
  <2> DEFINE d == cs[i].changes
  <2>1. d \in Seq(Changes) /\ DOMAIN d = 1 .. Len(d) /\ Len(d) \in Nat
    BY LenProperties
  <2> HIDE DEF d
  <2>2. \A j \in 1 .. Len(d) : d[j] \in Changes
    BY <2>1, ElementOfSeq
  <2>3. \A j \in 1 .. Len(d) : [at |-> i, change |-> d[j]] \in Placed
    BY <2>2 DEF Placed
  <2> DEFINE p == [j \in DOMAIN d |-> [at |-> i, change |-> d[j]]]
  <2>4. p \in [1 .. Len(d) -> Placed]
    BY <2>1, <2>3
  <2>5. Range(p) = {[at |-> i, change |-> d[j]] : j \in DOMAIN d}
    BY DEF Range
  <2>6. \A x \in Range(p) : x \in Placed /\ x.at = i
    <3> HIDE DEF p
    <3> QED BY <2>1, <2>3, <2>5
  <2> HIDE DEF p
  <2>7. p \in Seq(Placed)
    BY <2>1, <2>4, SeqDef
  <2> QED BY <2>5, <2>6, <2>7 DEF p, d
<1> HIDE DEF part
<1>2. ss \in [1 .. n -> Seq(Placed)] /\ DOMAIN ss = 1 .. n /\ \A i \in 1 .. n : ss[i] = part(i)
  BY <1>1
<1>3. ss \in Seq(Seq(Placed))
  <2> HIDE DEF ss
  <2> QED BY <1>2, SeqDef
<1>4. ChangesOf(cs) = FlattenSeq(ss)
  BY DEF ChangesOf, part
<1> HIDE DEF ss
<1>5. ChangesOf(cs) \in Seq(Placed) /\ \A x : x \in Range(ChangesOf(cs)) <=> \E i \in DOMAIN ss : x \in Range(ss[i])
  BY <1>3, <1>4, FlattenElements
<1>6. \A i \in DOMAIN ss : Pairwise(ss[i], PlacedOrder)
  <2> SUFFICES ASSUME NEW i \in 1 .. n PROVE Pairwise(part(i), PlacedOrder)
    BY <1>2
  <2>1. \A j \in DOMAIN part(i) : part(i)[j] \in Placed /\ part(i)[j].at = i
    BY <1>1 DEF Range
  <2> QED BY <2>1 DEF Pairwise, PlacedOrder
<1>7. \A h, i \in DOMAIN ss : h < i => \A x \in Range(ss[h]), y \in Range(ss[i]) : <<x, y>> \in PlacedOrder
  <2> SUFFICES ASSUME NEW h \in 1 .. n, NEW i \in 1 .. n, h < i, NEW x \in Range(part(h)), NEW y \in Range(part(i))
               PROVE  <<x, y>> \in PlacedOrder
    BY <1>2
  <2>1. x \in Placed /\ y \in Placed /\ x.at = h /\ y.at = i
    BY <1>1
  <2> QED BY <2>1 DEF PlacedOrder
<1>8. Pairwise(ChangesOf(cs), PlacedOrder)
  BY <1>3, <1>4, <1>6, <1>7, FlattenPairs
<1>9. \A x : x \in Range(ChangesOf(cs)) <=>
         \E i \in 1 .. n : \E j \in DOMAIN cs[i].changes : x = [at |-> i, change |-> cs[i].changes[j]]
  <2>1. \A x : x \in Range(ChangesOf(cs)) <=> \E i \in 1 .. n : x \in Range(part(i))
    BY <1>2, <1>5
  <2> QED BY <1>1, <2>1
<1> QED BY <1>5, <1>8, <1>9

\* The changes of the commits that were read.
LEMMA ChangesRead ==
  ASSUME ReadInv, NEW r \in Repos, m_commitsInit[r]
  PROVE  /\ ChangesOf(m_commits[r]) \in Seq(Placed)
         /\ \A x \in Range(ChangesOf(m_commits[r])) :
              /\ x.at \in 1 .. Len(m_commits[r]) /\ x.change \in RealChanges
              /\ x.change \in Range(m_commits[r][x.at].changes)
         /\ \A i \in 1 .. Len(m_commits[r]) : \A j \in DOMAIN m_commits[r][i].changes :
              [at |-> i, change |-> m_commits[r][i].changes[j]] \in Range(ChangesOf(m_commits[r]))
<1> DEFINE cs == m_commits[r]
<1>1. cs \in Seq(CommitRecords) /\ Len(cs) = Len(git[r]) /\ git[r] \in Histories[r]
  BY DEF ReadInv
<1>2. \A n \in 1 .. Len(cs) : cs[n] = CommitOf(git[r], n)
  BY DEF ReadInv
<1> HIDE DEF cs
<1>3. Len(cs) \in Nat /\ DOMAIN cs = 1 .. Len(cs) /\ \A i \in 1 .. Len(cs) : cs[i] \in CommitRecords
  BY <1>1, ElementOfSeq, LenProperties
<1>4. \A i \in 1 .. Len(cs) : cs[i].changes \in Seq(Changes)
  BY <1>3 DEF CommitRecords
<1>5. \A i \in 1 .. Len(cs) : \A c \in Range(cs[i].changes) : c \in RealChanges
  <2> SUFFICES ASSUME NEW i \in 1 .. Len(cs) PROVE \A c \in Range(cs[i].changes) : c \in RealChanges
    OBVIOUS
  <2> DEFINE old == IF i = 1 THEN Empty ELSE git[r][i - 1].tree
  <2>1. Rebuilds(cs[i].changes, FilesOf(old), FilesOf(git[r][i].tree))
    BY <1>1, <1>2, CommitOfFacts
  <2>2. \A c \in Range(cs[i].changes) : c.oid1 # c.oid2
    BY <2>1 DEF Rebuilds
  <2>3. \A j \in DOMAIN cs[i].changes : cs[i].changes[j] \in Changes
    BY <1>4, ElementOfSeq, LenProperties
  <2> QED BY <2>2, <2>3 DEF Range, RealChanges
<1>6. /\ ChangesOf(cs) \in Seq(Placed)
      /\ \A x : x \in Range(ChangesOf(cs)) <=>
           \E i \in 1 .. Len(cs) : \E j \in DOMAIN cs[i].changes : x = [at |-> i, change |-> cs[i].changes[j]]
  BY <1>3, <1>4, AllChanges
<1>7. ASSUME NEW x \in Range(ChangesOf(cs))
      PROVE  x.at \in 1 .. Len(cs) /\ x.change \in RealChanges /\ x.change \in Range(cs[x.at].changes)
  <2>1. PICK i \in 1 .. Len(cs) : \E j \in DOMAIN cs[i].changes : x = [at |-> i, change |-> cs[i].changes[j]]
    BY <1>6
  <2>2. PICK j \in DOMAIN cs[i].changes : x = [at |-> i, change |-> cs[i].changes[j]]
    BY <2>1
  <2>3. x.at = i /\ x.change = cs[i].changes[j]
    BY <2>2
  <2>4. x.change \in Range(cs[i].changes)
    BY <2>3 DEF Range
  <2> QED BY <1>5, <2>3, <2>4
<1> QED BY <1>6, <1>7 DEF cs

(* The types: what is read is no longer than the history, and the walk goes through trees with entries. *)
LengthInv == \A r \in Repos : Len(m_commits[r]) <= Len(git[r])

Frames == [tree : Trees \ {Empty}, idx : Nat \ {0}]
WalkInv == walked \in Repos \cup {"none"} /\ oids \in Seq(Blobs) /\ m_stack \in Seq(Frames)

\* No more commits are read than there are.
LEMMA LengthSteps == ASSUME ReadInv, LengthInv, LoaderNext PROVE LengthInv'
<1>1. \A r \in Repos : Len(git[r]) \in Nat /\ m_commits[r] \in Seq(CommitRecords) /\ Len(m_commits[r]) \in Nat
  BY HistoryFacts DEF ReadInv
<1>2. ASSUME NEW r \in Repos, diffCommit(r) PROVE LengthInv'
  <2> DEFINE m == m_commits[r]
             c == CommitOf(git[r], Len(git[r]) - Len(m))
  <2>1. m_commits \in [Repos -> Seq(CommitRecords)] /\ git' = git /\ Len(m) < Len(git[r])
    <3>1. m_commits \in [Repos -> Seq(CommitRecords)]
      BY DEF ReadInv
    <3>2. git' = git /\ Len(git[r]) - Len(m) > 0
      BY <1>2 DEF diffCommit
    <3>3. Len(git[r]) \in Nat /\ Len(m) \in Nat
      BY <1>1
    <3> HIDE DEF m
    <3> QED BY <3>1, <3>2, <3>3
  <2>2. \/ UNCHANGED m_commits
        \/ m_commits' = [m_commits EXCEPT ![r] = Append(m, c)]
    BY <1>2 DEF diffCommit, CommitOf
  <2>3. Len(Append(m, c)) = Len(m) + 1
    BY <1>1
  <2>4. ASSUME NEW q \in Repos PROVE Len(m_commits'[q]) <= Len(git[q])
    <3> HIDE DEF c, m
    <3>1. CASE UNCHANGED m_commits
      BY <3>1 DEF LengthInv
    <3>2. CASE m_commits' = [m_commits EXCEPT ![r] = Append(m, c)] /\ q # r
      BY <2>1, <3>2 DEF LengthInv
    <3>3. CASE m_commits' = [m_commits EXCEPT ![r] = Append(m, c)] /\ q = r
      <4>1. m_commits'[q] = Append(m, c)
        BY <2>1, <3>3
      <4>2. Len(m) \in Nat /\ Len(git[r]) \in Nat
        BY <1>1 DEF m
      <4> QED BY <2>1, <2>3, <3>3, <4>1, <4>2
    <3> QED BY <2>2, <3>1, <3>2, <3>3
  <2> QED BY <2>1, <2>4 DEF LengthInv
<1>3. ASSUME NEW r \in Repos, commitsRead(r) PROVE LengthInv'
  <2> DEFINE m == m_commits[r]
  <2>1. m_commits \in [Repos -> Seq(CommitRecords)] /\ git' = git /\ Len(m) = Len(git[r])
        /\ m_commits' = [m_commits EXCEPT ![r] = Reverse(m)]
    BY <1>3 DEF commitsRead, ReadInv
  <2>2. Len(Reverse(m)) = Len(m)
    <3> HIDE DEF m
    <3>1. Len(m) \in Nat
      BY <1>1 DEF m
    <3> QED BY <3>1 DEF Reverse
  <2> HIDE DEF m
  <2>3. \A q \in Repos : Len(m_commits'[q]) <= Len(git[q])
    BY <1>1, <2>1, <2>2 DEF LengthInv
  <2> QED BY <2>1, <2>3 DEF LengthInv
<1>4. CASE nextTool
  <2>1. ReadInv'
    BY <1>4, ReadAgain
  <2>2. \A r \in Repos : Len(git'[r]) \in Nat
    BY <2>1, HistoryFacts DEF ReadInv
  <2>3. \A r \in Repos : Len(m_commits'[r]) = 0
    BY <1>4 DEF nextTool
  <2> QED BY <2>2, <2>3 DEF LengthInv
<1>5. CASE UNCHANGED <<git, readVars>>
  BY <1>5 DEF LengthInv, readVars
<1> QED BY <1>2, <1>3, <1>4, <1>5, ReadSteps

\* The stack of the walk stays one of trees when the index of its top goes on.
LEMMA NextEntryType ==
  ASSUME NEW s \in Seq(Frames), s # <<>>
  PROVE  NextEntry(s) \in Seq(Frames)
<1>1. Len(s) \in Nat \ {0} /\ s \in [1 .. Len(s) -> Frames]
  BY EmptySeq, LenProperties
<1>2. Len(s) \in 1 .. Len(s) /\ s[Len(s)] \in Frames
  BY <1>1
<1>3. [s[Len(s)] EXCEPT !.idx = @ + 1] \in Frames
  BY <1>2 DEF Frames
<1>4. NextEntry(s) = [s EXCEPT ![Len(s)] = [s[Len(s)] EXCEPT !.idx = @ + 1]]
  BY DEF NextEntry
<1>5. NextEntry(s) \in [1 .. Len(s) -> Frames]
  BY <1>1, <1>3, <1>4
<1> QED BY <1>1, <1>5, SeqDef

\* The stack of the walk stays one of trees when a directory is entered.
LEMMA EnterDirType == ASSUME NEW s \in Seq(Frames), NEW t \in Trees PROVE enterDir(s, t) \in Seq(Frames)
<1>1. t # Empty => [tree |-> t, idx |-> 1] \in Frames
  BY DEF Frames
<1> QED BY <1>1 DEF enterDir

\* The entry that the walk is at.
LEMMA EntryAt ==
  ASSUME WalkInv, NEW k, AtEntry(k)
  PROVE  /\ m_stack # <<>> /\ Top.tree \in Trees /\ k \in DOMAIN Top.tree
         /\ IF IsDir(k) THEN Top.tree[k] \in Trees ELSE Top.tree[k][1] \in Blobs
<1>1. Len(m_stack) \in Nat \ {0} /\ \A i \in 1 .. Len(m_stack) : m_stack[i] \in Frames
  BY EmptySeq, LenProperties, ElementOfSeq DEF WalkInv, AtEntry
<1>2. Top \in Frames
  BY <1>1 DEF Top
<1>3. Top.tree \in Trees /\ Top.idx \in Nat \ {0}
  BY <1>2 DEF Frames
<1> DEFINE e == Entries(Top.tree)
<1>4. e \in Seq(DOMAIN Top.tree) /\ Top.idx <= Len(e) /\ k = e[Top.idx]
  BY <1>3, EntriesFacts DEF AtEntry
<1> HIDE DEF e
<1>5. k \in DOMAIN Top.tree
  <2>1. Len(e) \in Nat /\ \A i \in 1 .. Len(e) : e[i] \in DOMAIN Top.tree
    BY <1>4, ElementOfSeq, LenProperties
  <2> QED BY <1>3, <1>4, <2>1
<1>6. IF IsDir(k) THEN Top.tree[k] \in Trees ELSE Top.tree[k][1] \in Blobs
  BY <1>3, <1>5, TreeFacts DEF Blobs
<1>7. m_stack # <<>>
  BY DEF AtEntry
<1> QED BY <1>3, <1>5, <1>6, <1>7

\* The walk keeps to trees that are not empty, and returns blobs.
LEMMA WalkSteps == ASSUME ReadInv, WalkInv, LoaderNext PROVE WalkInv'
<1>1. ASSUME NEW r \in Repos, getCurrentOids(r) PROVE WalkInv'
  <2> DEFINE h == git[r]
  <2>1. walked' = r /\ oids' = oids /\ m_stack' = enterDir(<<>>, Last(h).tree)
    BY <1>1 DEF getCurrentOids
  <2>2. Len(h) \in 1 .. Len(h) /\ h[Len(h)].tree \in Trees
    BY HistoryFacts DEF ReadInv
  <2>3. <<>> \in Seq(Frames) /\ Last(h).tree \in Trees
    BY <2>2 DEF Last
  <2> HIDE DEF h
  <2> QED BY <2>1, <2>3, EnterDirType DEF WalkInv
<1>2. CASE leaveDir
  <2>1. walked' = walked /\ oids' = oids /\ m_stack # <<>>
        /\ m_stack' = IF Len(m_stack) = 1 THEN <<>> ELSE NextEntry(Front(m_stack))
    BY <1>2 DEF leaveDir
  <2>2. m_stack \in Seq(Frames) /\ Len(m_stack) \in Nat \ {0}
    BY <2>1, EmptySeq, LenProperties DEF WalkInv
  <2>3. CASE Len(m_stack) = 1
    BY <2>1, <2>3 DEF WalkInv
  <2>4. CASE Len(m_stack) # 1
    <3> DEFINE f == Front(m_stack)
    <3>1. f \in Seq(Frames) /\ Len(f) = Len(m_stack) - 1
      <4> DEFINE n == Len(m_stack) - 1
      <4>1. n \in Nat /\ 1 \in Int /\ \A i \in 1 .. n : m_stack[i] \in Frames
        BY <2>2, ElementOfSeq
      <4>2. SubSeq(m_stack, 1, n) \in Seq(Frames) /\ Len(SubSeq(m_stack, 1, n)) = IF 1 <= n THEN n - 1 + 1 ELSE 0
        BY <4>1, SubSeqProperties
      <4>3. f = SubSeq(m_stack, 1, n)
        BY DEF Front
      <4>4. (IF 1 <= n THEN n - 1 + 1 ELSE 0) = n
        <5> HIDE DEF n
        <5> QED BY <4>1
      <4> QED BY <4>2, <4>3, <4>4
    <3> HIDE DEF f
    <3>2. f # <<>>
      BY <2>2, <2>4, <3>1
    <3>3. NextEntry(f) \in Seq(Frames)
      BY <3>1, <3>2, NextEntryType
    <3> QED BY <2>1, <2>4, <3>3 DEF WalkInv, f
  <2> QED BY <2>3, <2>4
<1>3. CASE walkDir
  <2>1. PICK k \in UNION {DOMAIN t : t \in Trees} : AtEntry(k) /\ IsDir(k) /\ m_stack' = enterDir(m_stack, Top.tree[k])
    BY <1>3 DEF walkDir
  <2>2. Top.tree[k] \in Trees
    BY <2>1, EntryAt
  <2>3. UNCHANGED <<walked, oids>>
    BY <1>3 DEF walkDir
  <2> QED BY <2>1, <2>2, <2>3, EnterDirType DEF WalkInv
<1>4. CASE walkBlob
  <2>1. PICK k \in UNION {DOMAIN t : t \in Trees} : /\ AtEntry(k) /\ ~IsDir(k) /\ m_stack' = NextEntry(m_stack)
                                /\ oids' = IF k \in PoNames THEN Append(oids, Top.tree[k][1]) ELSE oids
    BY <1>4 DEF walkBlob
  <2>2. Top.tree[k][1] \in Blobs /\ m_stack # <<>>
    BY <2>1, EntryAt
  <2>3. oids' \in Seq(Blobs)
    BY <2>1, <2>2 DEF WalkInv
  <2>4. walked' = walked
    BY <1>4 DEF walkBlob
  <2>5. NextEntry(m_stack) \in Seq(Frames)
    BY <2>2, NextEntryType DEF WalkInv
  <2> QED BY <2>1, <2>3, <2>4, <2>5 DEF WalkInv
<1>5. ASSUME UNCHANGED walkVars PROVE WalkInv'
  BY <1>5 DEF WalkInv, walkVars
<1>6. CASE Next
  <2>1. detectTransitions \/ doDetect \/ processChange \/ nextDetector => UNCHANGED walkVars
    BY DEF detectTransitions, doDetect, processChange, nextDetector
  <2>2. \A r \in Repos : diffCommit(r) \/ commitsRead(r) => UNCHANGED walkVars
    BY DEF diffCommit, commitsRead
  <2>3. walkEnds => UNCHANGED walkVars
    BY DEF walkEnds
  <2> QED BY <1>1, <1>2, <1>3, <1>4, <1>5, <1>6, <2>1, <2>2, <2>3 DEF Next, WalkStep
<1>7. LoaderNext /\ ~Next => UNCHANGED walkVars
  <2>1. \A b \in Inputs : reviewFile(b) \/ processFile(b) => UNCHANGED walkVars
    BY DEF reviewFile, processFile
  <2>2. \A b \in Inputs : otherRun(b) => UNCHANGED walkVars
    <3>1. \A b \in Inputs : otherRun(b) => UNCHANGED vars
      BY DEF otherRun
    <3> QED BY <3>1 DEF vars, walkVars
  <2>3. searchRepository \/ reviewAgainst \/ diffAgainst \/ nextTool => UNCHANGED walkVars
    BY DEF searchRepository, reviewAgainst, diffAgainst, nextTool
  <2> QED BY <2>1, <2>2, <2>3 DEF LoaderNext
<1> QED BY <1>5, <1>6, <1>7

(* The detectors. *)
DetectInv ==
  /\ reads \subseteq Repos /\ detector \in 0 .. 3
  /\ todo \in Seq(Placed) /\ (todo # <<>> => pc = "detect")
  /\ pc \in {"read", "detect"} => detector \in 1 .. 3 /\ reads = Range(Reads(detector))
  /\ pc = "detect" => /\ \A r \in reads : m_commitsInit[r]
                      /\ Range(todo) \subseteq Range(ChangesOf(m_commits[Reads(detector)[1]]))
  /\ pairs \subseteq OrderedPairs

(* The program that runs, and what it does. *)
ProgramInv ==
  /\ pc \in {"start", "read", "detect", "walk", "done", "failed", "search", "answered"}
  /\ tool \in {"detector"} \cup Tools
  /\ tool = "detector" => pc \notin {"search", "answered"}
  /\ tool \in Tools => pc \in {"start", "done", "failed", "search", "answered"} /\ detector = 0
  /\ repo \in 0 .. 2 /\ (pc = "search" => repo \in 1 .. 2)

\* GitLoader searches the two repositories.
LEMMA RepoFacts == Len(m_repos) = 2 /\ \A i \in 1 .. 2 : m_repos[i] \in Repos
BY DEF m_repos, Repos

\* A detector reads the repository whose changes it goes through; the third one reads both.
LEMMA ReadsFacts ==
  ASSUME NEW d \in 1 .. 3
  PROVE  /\ Reads(d)[1] \in Repos /\ Reads(d)[1] \in Range(Reads(d)) /\ Range(Reads(d)) \subseteq Repos
         /\ d < 3 => Range(Reads(d)) = {Reads(d)[1]}
         /\ d = 3 => Range(Reads(d)) = Repos
<1>1. /\ Reads(1) = <<"trunk">> /\ Reads(2) = <<"stable">> /\ Reads(3) = <<"trunk", "stable">>
  BY DEF Reads
<1>2. /\ Range(<<"trunk">>) = {"trunk"} /\ Range(<<"stable">>) = {"stable"}
  BY DEF Range
<1>3. Range(<<"trunk", "stable">>) = {"trunk", "stable"}
  BY DEF Range
<1> QED BY <1>1, <1>2, <1>3 DEF Repos

\* Neither the detectors nor the walk runs for a tool.
LEMMA ProgramSteps == ASSUME ProgramInv, LoaderNext PROVE ProgramInv'
<1>0. "detector" \notin Tools
  BY DEF Tools
<1>1. CASE Next /\ (pc = "start" => tool = "detector") /\ UNCHANGED loaderVars
  <2>0. tool' = tool /\ repo' = repo
    BY <1>1 DEF loaderVars, toolVars
  <2>1. ASSUME NEW r \in Repos, diffCommit(r) \/ commitsRead(r) PROVE ProgramInv'
    <3>1. (pc' = pc \/ pc' = "failed") /\ detector' = detector
      BY <2>1 DEF diffCommit, commitsRead, detectVars
    <3> QED BY <2>0, <3>1 DEF ProgramInv
  <2>2. ASSUME detectTransitions \/ doDetect \/ processChange \/ nextDetector \/ WalkStep \/ \E r \in Repos : getCurrentOids(r)
        PROVE  pc \in {"start", "read", "detect", "walk"} /\ pc' \in {"read", "detect", "walk", "done"}
    BY <2>2 DEF detectTransitions, doDetect, processChange, nextDetector, WalkStep, leaveDir, walkDir, walkBlob, walkEnds,
                getCurrentOids, AtEntry
  <2>3. ASSUME pc \in {"start", "read", "detect", "walk"}, pc' \in {"read", "detect", "walk", "done"} PROVE ProgramInv'
    BY <1>0, <1>1, <2>0, <2>3 DEF ProgramInv
  <2> QED BY <1>1, <2>1, <2>2, <2>3 DEF Next
<1>2. ASSUME NEW b \in Inputs, reviewFile(b) \/ processFile(b) PROVE ProgramInv'
  <2>1. tool \in Tools /\ tool' = tool /\ detector' = detector
    BY <1>2 DEF reviewFile, processFile, Tools
  <2>2. \/ pc' \in {"failed", "answered"} /\ repo' = repo
        \/ pc' = "search" /\ repo' = 1
    BY <1>2 DEF reviewFile, processFile, findOldestByTphash_oid
  <2> QED BY <1>0, <2>1, <2>2 DEF ProgramInv
<1>3. ASSUME NEW b \in Inputs, otherRun(b) PROVE ProgramInv'
  <2>1. UNCHANGED vars /\ UNCHANGED toolVars
    BY <1>3 DEF otherRun
  <2> QED BY <2>1 DEF ProgramInv, vars, toolVars
<1>4. CASE searchRepository \/ reviewAgainst \/ diffAgainst
  <2>1. pc \in {"search", "answered"} /\ pc' \in {"start", "done", "failed", "search", "answered"} /\ detector' = detector
    BY <1>4 DEF searchRepository, reviewAgainst, diffAgainst, detectVars
  <2>2. tool' = tool
    BY <1>4 DEF searchRepository, reviewAgainst, diffAgainst, loaderVars, toolVars
  <2>3. \/ repo' = repo /\ (pc' = "search" => pc = "search")
        \/ pc = "search" /\ repo < 2 /\ repo' = repo + 1
    BY <1>4, RepoFacts DEF searchRepository, reviewAgainst, diffAgainst, loaderVars, toolVars
  <2> QED BY <1>0, <2>1, <2>2, <2>3 DEF ProgramInv
<1>5. CASE nextTool
  <2>1. tool \in Tools /\ tool' \in Tools /\ pc' = "start" /\ detector' = detector /\ repo' = 0
    BY <1>5 DEF nextTool
  <2> QED BY <1>0, <2>1 DEF ProgramInv
<1> QED BY <1>1, <1>2, <1>3, <1>4, <1>5 DEF LoaderNext

\* The changes that a detector has left are among those that were read.
LEMMA DetectSteps == ASSUME ReadInv, ProgramInv, DetectInv, LoaderNext PROVE DetectInv'
<1>0. "detector" \notin Tools
  BY DEF Tools
<1>1. CASE detectTransitions
  <2>1. pc' = "read" /\ detector' = 1 /\ reads' = Range(Reads(1)) /\ UNCHANGED <<todo, pairs>> /\ pc = "start"
    BY <1>1 DEF detectTransitions
  <2>2. Range(Reads(1)) \subseteq Repos
    BY ReadsFacts
  <2> QED BY <2>1, <2>2 DEF DetectInv
<1>2. CASE doDetect
  <2> DEFINE r == Reads(detector)[1]
  <2>1. pc = "read" /\ pc' = "detect" /\ todo' = ChangesOf(m_commits[r]) /\ UNCHANGED <<readVars, reads, detector, pairs>>
        /\ \A q \in reads : m_commitsInit[q]
    BY <1>2 DEF doDetect
  <2>2. detector \in 1 .. 3 /\ reads = Range(Reads(detector))
    BY <2>1 DEF DetectInv
  <2>3. r \in Repos /\ r \in reads
    BY <2>2, ReadsFacts
  <2>4. ChangesOf(m_commits[r]) \in Seq(Placed)
    <3> HIDE DEF r
    <3> QED BY <2>1, <2>3, ChangesRead
  <2> QED BY <2>1, <2>2, <2>4 DEF DetectInv, readVars
<1>3. CASE processChange
  <2> DEFINE r == Reads(detector)[1]
             cs == m_commits[r]
             x == Head(todo)
             other == m_commits["stable"]
             new == IF detector < 3 THEN SuccessorPairs(cs, x.at, x.change) ELSE InterBranchPairs(cs, other, x.at, x.change)
  <2>1. pc = "detect" /\ todo # <<>> /\ todo' = Tail(todo) /\ pairs' = pairs \cup new
        /\ UNCHANGED <<readVars, pc, reads, detector>>
    BY <1>3 DEF processChange
  <2>2. detector \in 1 .. 3 /\ reads = Range(Reads(detector)) /\ (\A q \in reads : m_commitsInit[q])
        /\ Range(todo) \subseteq Range(ChangesOf(cs)) /\ todo \in Seq(Placed)
    BY <2>1 DEF DetectInv
  <2>3. r \in Repos /\ m_commitsInit[r]
    BY <2>2, ReadsFacts
  <2>4. DOMAIN todo = 1 .. Len(todo) /\ Len(todo) \in Nat \ {0} /\ x = todo[1] /\ Tail(todo) \in Seq(Placed)
        /\ Len(Tail(todo)) = Len(todo) - 1 /\ \A i \in 1 .. Len(Tail(todo)) : Tail(todo)[i] = todo[i + 1]
    BY <2>1, <2>2, EmptySeq, LenProperties, HeadTailProperties
  <2>5. x \in Range(todo) /\ Range(Tail(todo)) \subseteq Range(todo)
    <3>1. x \in Range(todo)
      BY <2>4 DEF Range
    <3>2. \A i \in 1 .. Len(Tail(todo)) : i + 1 \in DOMAIN todo
      BY <2>4
    <3>3. DOMAIN Tail(todo) = 1 .. Len(Tail(todo))
      BY <2>4, LenProperties
    <3> HIDE DEF x
    <3> QED BY <2>4, <3>1, <3>2, <3>3 DEF Range
  <2>6. cs \in Seq(CommitRecords) /\ x.at \in 1 .. Len(cs) /\ x.change \in RealChanges
    <3>1. cs \in Seq(CommitRecords)
      BY <2>3 DEF ReadInv
    <3> HIDE DEF x, r
    <3> QED BY <2>2, <2>3, <2>5, <3>1, ChangesRead
  <2>7. new \subseteq OrderedPairs
    <3>1. CASE detector < 3
      <4> HIDE DEF cs, x
      <4> QED BY <2>6, <3>1, SuccessorsOrdered
    <3>2. CASE ~(detector < 3)
      <4>1. detector = 3
        BY <2>2, <3>2
      <4>2. m_commitsInit["stable"] /\ "stable" \in Repos
        BY <2>2, <4>1, ReadsFacts DEF Repos
      <4>3. TimedBy(other)
        BY <4>2 DEF TimedBy, ReadInv
      <4> HIDE DEF cs, x, other
      <4> QED BY <2>6, <3>2, <4>3, BranchesOrdered
    <3> QED BY <3>1, <3>2
  <2> HIDE DEF new, x
  <2>8. Tail(todo) # <<>> => pc = "detect"
    BY <2>1
  <2>9. pairs' \subseteq OrderedPairs
    BY <2>1, <2>7 DEF DetectInv
  <2>10. UNCHANGED <<m_commits, m_commitsInit>>
    BY <2>1 DEF readVars
  <2> QED BY <2>1, <2>2, <2>4, <2>5, <2>8, <2>9, <2>10 DEF DetectInv
<1>4. CASE nextDetector
  <2>1. pc = "detect" /\ todo = <<>> /\ UNCHANGED <<readVars, todo, pairs>>
        /\ IF detector < 3 THEN detector' = detector + 1 /\ reads' = Range(Reads(detector + 1)) /\ pc' = "read"
                           ELSE pc' = "done" /\ UNCHANGED <<reads, detector>>
    BY <1>4 DEF nextDetector
  <2>2. CASE detector < 3
    <3>1. detector + 1 \in 1 .. 3
      BY <2>2 DEF DetectInv
    <3>2. Range(Reads(detector + 1)) \subseteq Repos
      BY <3>1, ReadsFacts
    <3> QED BY <2>1, <2>2, <3>1, <3>2 DEF DetectInv
  <2>3. CASE ~(detector < 3)
    BY <2>1, <2>3 DEF DetectInv
  <2> QED BY <2>2, <2>3
<1>5. ASSUME NEW r \in Repos, diffCommit(r) \/ commitsRead(r) PROVE DetectInv'
  <2>1. pc \in {"read", "search"} /\ pc' \in {pc, "failed"} /\ UNCHANGED detectVars
    BY <1>5 DEF diffCommit, commitsRead, Reading
  <2> QED BY <2>1 DEF DetectInv, detectVars
<1>6. ASSUME NEW r \in Repos, getCurrentOids(r) PROVE DetectInv'
  <2>1. pc = "start" /\ pc' = "walk" /\ UNCHANGED detectVars
    BY <1>6 DEF getCurrentOids
  <2> QED BY <2>1 DEF DetectInv, detectVars
<1>7. CASE WalkStep
  <2>1. pc = "walk" /\ pc' \in {"walk", "done"} /\ UNCHANGED detectVars
    BY <1>7 DEF WalkStep, leaveDir, walkDir, walkBlob, walkEnds, AtEntry
  <2> QED BY <2>1 DEF DetectInv, detectVars
<1>8. ASSUME NEW b \in Inputs, reviewFile(b) \/ processFile(b) PROVE DetectInv'
  <2>1. pc = "start" /\ UNCHANGED <<detector, todo, pairs>> /\ pc' \in {"failed", "answered", "search"}
    BY <1>8 DEF reviewFile, processFile, findOldestByTphash_oid
  <2>2. reads' = reads \/ reads' = {m_repos[1]}
    BY <1>8 DEF reviewFile, processFile, findOldestByTphash_oid
  <2>3. m_repos[1] \in Repos
    BY DEF m_repos, Repos
  <2> QED BY <2>1, <2>2, <2>3 DEF DetectInv
<1>9. ASSUME NEW b \in Inputs, otherRun(b) PROVE DetectInv'
  <2>1. UNCHANGED vars
    BY <1>9 DEF otherRun
  <2> QED BY <2>1 DEF DetectInv, vars
<1>10. CASE searchRepository
  <2>1. pc = "search" /\ UNCHANGED <<detector, todo, pairs>> /\ pc' \in {"failed", "answered", "search"}
    BY <1>10 DEF searchRepository
  <2>2. reads' = reads \/ (repo < Len(m_repos) /\ reads' = {m_repos[repo + 1]})
    BY <1>10 DEF searchRepository
  <2>3. repo \in 1 .. 2
    BY <2>1 DEF ProgramInv
  <2>4. reads' \subseteq Repos
    BY <2>2, <2>3, RepoFacts DEF DetectInv
  <2> QED BY <2>1, <2>4 DEF DetectInv
<1>11. CASE reviewAgainst \/ diffAgainst
  <2>1. pc = "answered" /\ UNCHANGED detectVars /\ pc' \in {"start", "failed", "done"}
    BY <1>11 DEF reviewAgainst, diffAgainst
  <2> QED BY <2>1 DEF DetectInv, detectVars
<1>12. CASE nextTool
  <2>1. tool \in Tools /\ UNCHANGED <<detector, todo, pairs>> /\ pc' = "start" /\ reads' = {}
    BY <1>12 DEF nextTool
  <2>2. pc # "detect"
    BY <2>1 DEF ProgramInv
  <2> QED BY <2>1, <2>2 DEF DetectInv
<1> QED BY <1>1, <1>2, <1>3, <1>4, <1>5, <1>6, <1>7, <1>8, <1>9, <1>10, <1>11, <1>12 DEF LoaderNext, Next

TypesInv == LengthInv /\ WalkInv /\ ProgramInv /\ DetectInv

\* The types hold at the start.
LEMMA TypesInit == LoaderInit => TypesInv
<1> SUFFICES ASSUME LoaderInit PROVE TypesInv
  OBVIOUS
<1>1. LengthInv
  <2>1. ReadInv
    BY ReadInit
  <2>2. \A r \in Repos : Len(git[r]) \in Nat
    BY <2>1, HistoryFacts DEF ReadInv
  <2>3. \A r \in Repos : Len(m_commits[r]) = 0
    BY DEF LoaderInit, Init
  <2> QED BY <2>2, <2>3 DEF LengthInv
<1>2. WalkInv
  BY DEF LoaderInit, Init, WalkInv
<1>3. ProgramInv
  BY DEF LoaderInit, Init, ProgramInv, Tools
<1>4. DetectInv
  BY DEF LoaderInit, Init, DetectInv
<1> QED BY <1>1, <1>2, <1>3, <1>4 DEF TypesInv

\* The types are inductive together with ReadInv.
LEMMA TypesHold == LoaderSpec => [](ReadInv /\ TypesInv)
<1>1. ASSUME ReadInv, TypesInv, LoaderNext PROVE TypesInv'
  BY <1>1, LengthSteps, WalkSteps, ProgramSteps, DetectSteps DEF TypesInv
<1>2. ASSUME ReadInv, TypesInv, UNCHANGED <<vars, loaderVars>> PROVE TypesInv'
  <2>1. UNCHANGED <<git, m_commits, m_commitsInit, pc, reads, detector, todo, pairs, walked, m_stack, oids, tool, repo>>
    BY <1>2 DEF vars, loaderVars, toolVars
  <2> QED BY <1>2, <2>1 DEF TypesInv, LengthInv, WalkInv, ProgramInv, DetectInv
<1> QED BY <1>1, <1>2, TypesInit, ReadInvHolds, PTL DEF LoaderSpec

\* They are those of TypeOK.
LEMMA TypesGiven == ReadInv /\ TypesInv => TypeOK
<1> SUFFICES ASSUME ReadInv, TypesInv PROVE TypeOK
  OBVIOUS
<1>1. \A r \in Repos : git[r] \in Histories[r] /\ Len(m_commits[r]) <= Len(git[r])
  BY DEF ReadInv, TypesInv, LengthInv
<1>2. \A r \in Repos : m_commitsInit[r] => Len(m_commits[r]) = Len(git[r])
  BY DEF ReadInv
<1>3. pc \in {"start", "read", "detect", "walk", "done", "failed", "search", "answered"}
  BY DEF TypesInv, ProgramInv
<1>4. reads \subseteq Repos /\ detector \in 0 .. 3 /\ (todo # <<>> => pc = "detect")
  BY DEF TypesInv, DetectInv
<1>5. pairs \subseteq Blobs \X Blobs /\ \A p \in pairs : p[1] < p[2]
  BY DEF TypesInv, DetectInv, OrderedPairs
<1>6. walked \in Repos \cup {"none"} /\ oids \in Seq(Blobs)
  BY DEF TypesInv, WalkInv
<1>7. \A i \in DOMAIN m_stack : m_stack[i].tree \in Trees \ {Empty}
  <2>1. m_stack \in Seq(Frames)
    BY DEF TypesInv, WalkInv
  <2>2. \A i \in DOMAIN m_stack : m_stack[i] \in Frames
    BY <2>1, ElementOfSeq, LenProperties
  <2> QED BY <2>2 DEF Frames
<1> QED BY <1>1, <1>2, <1>3, <1>4, <1>5, <1>6, <1>7 DEF TypeOK

---------------------------------------------------------------------------

(* The search for a hash. *)

HasFile(t, tp, oid) == \E f \in FilesOf(t) : Last(f.file) \in PoNames /\ f.oid = oid /\ calculateTpHash[oid] = tp
NotBefore(h, n, tp) == \A m \in 1 .. n - 1 : \A o \in Blobs : ~HasFile(h[m].tree, tp, o)
FirstIn(h, tp, oid) == \E n \in 1 .. Len(h) : HasFile(h[n].tree, tp, oid) /\ NotBefore(h, n, tp)
NoneIn(h, tp) == NotBefore(h, Len(h) + 1, tp)
Brings(c, tp) == Last(c.file) \in PoNames /\ c.oid2 # 0 /\ calculateTpHash[c.oid2] = tp

\* The empty tree has no files, and the files of a tree have a pathname and a blob.
LEMMA FilesFacts == FilesOf(Empty) = {} /\ \A t \in Trees : FilesOf(t) \subseteq FileRecords
<1>1. <<>> \in Seq(Nat)
  OBVIOUS
<1>2. \A t \in Trees : \A x \in FilesOf(t) : \E k \in DOMAIN t : x \in FilePart(t, <<>>, k)
  BY <1>1, FilesBelow DEF FilesOf
<1>3. \A t \in Trees : \A k \in DOMAIN t : \A x \in FilePart(t, <<>>, k) : x \in FileRecords
  BY <1>1, FilesBelow
<1> QED BY <1>2, <1>3, TreeFacts

\* A blob with the hash that is new in a tree is in a change of the commit.
LEMMA NewVersion ==
  ASSUME NEW r \in Repos, NEW h \in Histories[r], NEW n \in 1 .. Len(h), NEW tp, NEW oid \in Blobs,
         HasFile(h[n].tree, tp, oid), NotBefore(h, n, tp)
  PROVE  \E c \in Range(CommitOf(h, n).changes) : Brings(c, tp)
<1> DEFINE old == IF n = 1 THEN Empty ELSE h[n - 1].tree
           d == CommitOf(h, n).changes
<1>1. Rebuilds(d, FilesOf(old), FilesOf(h[n].tree)) /\ old \in Trees /\ h[n].tree \in Trees
  BY CommitOfFacts
<1>2. PICK f \in FilesOf(h[n].tree) : Last(f.file) \in PoNames /\ f.oid = oid /\ calculateTpHash[oid] = tp
  BY DEF HasFile
<1>3. f \notin FilesOf(old)
  <2>1. CASE n = 1
    BY <2>1, FilesFacts
  <2>2. CASE n # 1
    <3>1. n - 1 \in 1 .. n - 1 /\ old = h[n - 1].tree
      BY <2>2, HistoryFacts
    <3> HIDE DEF old
    <3> QED BY <1>2, <3>1 DEF HasFile, NotBefore
  <2> QED BY <2>1, <2>2
<1> HIDE DEF old, d
<1>4. f \in Brought(d)
  BY <1>1, <1>2, <1>3 DEF Rebuilds
<1>5. PICK c \in Range(d) : c.oid2 # 0 /\ f = [file |-> c.file, oid |-> c.oid2]
  BY <1>4 DEF Brought
<1> QED BY <1>2, <1>5 DEF d, Brings

\* What a change brings is in the tree.
LEMMA ChangedVersion ==
  ASSUME NEW r \in Repos, NEW h \in Histories[r], NEW n \in 1 .. Len(h), NEW c \in Range(CommitOf(h, n).changes), c.oid2 # 0
  PROVE  [file |-> c.file, oid |-> c.oid2] \in FilesOf(h[n].tree) /\ c.oid2 \in Blobs
<1> DEFINE old == IF n = 1 THEN Empty ELSE h[n - 1].tree
           d == CommitOf(h, n).changes
           f == [file |-> c.file, oid |-> c.oid2]
<1>1. Rebuilds(d, FilesOf(old), FilesOf(h[n].tree)) /\ h[n].tree \in Trees
  BY CommitOfFacts
<1>2. f \in Brought(d)
  BY DEF Brought
<1>3. f \in FilesOf(h[n].tree)
  <2> HIDE DEF f, d, old
  <2> QED BY <1>1, <1>2 DEF Rebuilds
<1>4. f \in FileRecords
  <2> HIDE DEF f
  <2> QED BY <1>1, <1>3, FilesFacts
<1>5. f.oid \in Blobs
  <2> HIDE DEF f
  <2> QED BY <1>4 DEF FileRecords
<1> QED BY <1>3, <1>5

\* The first commit that has the hash.
LEMMA FirstVersion ==
  ASSUME NEW r \in Repos, NEW h \in Histories[r], NEW tp, NEW k \in 1 .. Len(h), NEW o \in Blobs, HasFile(h[k].tree, tp, o)
  PROVE  \E n \in 1 .. k : (\E oid \in Blobs : HasFile(h[n].tree, tp, oid)) /\ NotBefore(h, n, tp)
<1> DEFINE T == {n \in 1 .. k : \E oid \in Blobs : HasFile(h[n].tree, tp, oid)}
<1>0. Len(h) \in Nat
  BY HistoryFacts
<1>1. T \subseteq Nat /\ k \in T
  BY <1>0
<1>2. PICK n \in T : \A m \in T : n <= m
  <2> HIDE DEF T
  <2> QED BY <1>1, LeastOf
<1>3. ASSUME NEW m \in 1 .. n - 1, NEW oid \in Blobs, HasFile(h[m].tree, tp, oid) PROVE FALSE
  <2>1. m \in 1 .. k /\ m < n
    BY <1>0
  <2>2. m \in T
    BY <1>3, <2>1
  <2> QED BY <1>0, <1>2, <2>1, <2>2
<1>4. NotBefore(h, n, tp)
  BY <1>3 DEF NotBefore
<1> QED BY <1>4

\* A blob with the hash is in a change of its commit or of one before.
LEMMA FirstChange ==
  ASSUME NEW r \in Repos, NEW h \in Histories[r], NEW tp, NEW k \in 1 .. Len(h), NEW o \in Blobs, HasFile(h[k].tree, tp, o)
  PROVE  \E n \in 1 .. Len(h) : n <= k /\ \E c \in Range(CommitOf(h, n).changes) : Brings(c, tp)
<1>1. PICK n \in 1 .. k : (\E x \in Blobs : HasFile(h[n].tree, tp, x)) /\ NotBefore(h, n, tp)
  BY FirstVersion
<1>2. n \in 1 .. Len(h) /\ n <= k
  BY HistoryFacts
<1>3. PICK v \in Blobs : HasFile(h[n].tree, tp, v)
  BY <1>1
<1>4. \E c \in Range(CommitOf(h, n).changes) : Brings(c, tp)
  BY <1>1, <1>2, <1>3, NewVersion
<1> QED BY <1>2, <1>4

\* What the search for a hash finds is the blob of the first commit that has one.
LEMMA FirstHash ==
  ASSUME NEW r \in Repos, NEW h \in Histories[r], NEW cs, DOMAIN cs = 1 .. Len(h),
         \A n \in 1 .. Len(h) : cs[n].changes = CommitOf(h, n).changes, NEW tp
  PROVE  LET oid == FirstWithHash(cs, tp)
         IN  \/ oid = -1
             \/ oid = 0 /\ NoneIn(h, tp)
             \/ oid \in Blobs /\ FirstIn(h, tp, oid)
<1> DEFINE L == ChangesOf(cs)
           c(i) == L[i].change
           stops == {i \in DOMAIN L : \/ Last(c(i).file) \in ShortNames
                                      \/ Brings(c(i), tp)}
           oid == FirstWithHash(cs, tp)
           s == Min(stops)
<1>0. Len(h) \in Nat /\ \A n \in 1 .. Len(h) : cs[n].changes \in Seq(Changes)
  <2>1. Len(h) \in Nat
    BY HistoryFacts
  <2>2. \A n \in 1 .. Len(h) : CommitOf(h, n) \in CommitRecords
    BY CommitOfFacts
  <2>3. \A n \in 1 .. Len(h) : CommitOf(h, n).changes \in Seq(Changes)
    BY <2>2 DEF CommitRecords
  <2> QED BY <2>1, <2>3
<1>1. /\ L \in Seq(Placed) /\ Pairwise(L, PlacedOrder)
      /\ \A x : x \in Range(L) <=> \E i \in 1 .. Len(h) : \E j \in DOMAIN cs[i].changes : x = [at |-> i, change |-> cs[i].changes[j]]
  BY <1>0, AllChanges
<1>2. oid = IF stops = {} THEN 0 ELSE IF Last(c(s).file) \in ShortNames THEN -1 ELSE c(s).oid2
  BY DEF FirstWithHash, Brings
<1> HIDE DEF L, oid
<1>3. DOMAIN L = 1 .. Len(L) /\ Len(L) \in Nat
  BY <1>1, LenProperties
<1>4. \A i \in DOMAIN L : L[i].at \in 1 .. Len(h) /\ L[i].change \in Range(CommitOf(h, L[i].at).changes)
  <2> SUFFICES ASSUME NEW i \in DOMAIN L PROVE L[i].at \in 1 .. Len(h) /\ L[i].change \in Range(CommitOf(h, L[i].at).changes)
    OBVIOUS
  <2>1. L[i] \in Range(L)
    BY DEF Range
  <2>2. PICK n \in 1 .. Len(h) : \E j \in DOMAIN cs[n].changes : L[i] = [at |-> n, change |-> cs[n].changes[j]]
    BY <1>1, <2>1
  <2>3. PICK j \in DOMAIN cs[n].changes : L[i] = [at |-> n, change |-> cs[n].changes[j]]
    BY <2>2
  <2>4. L[i].at = n /\ L[i].change = cs[n].changes[j]
    BY <2>3
  <2> QED BY <2>4 DEF Range
<1>5. \A n \in 1 .. Len(h) : \A x \in Range(CommitOf(h, n).changes) : \E i \in DOMAIN L : L[i].at = n /\ L[i].change = x
  <2> SUFFICES ASSUME NEW n \in 1 .. Len(h), NEW x \in Range(cs[n].changes) PROVE \E i \in DOMAIN L : L[i].at = n /\ L[i].change = x
    OBVIOUS
  <2>1. PICK j \in DOMAIN cs[n].changes : x = cs[n].changes[j]
    BY DEF Range
  <2>2. [at |-> n, change |-> x] \in Range(L)
    BY <1>1, <2>1
  <2>3. PICK i \in DOMAIN L : L[i] = [at |-> n, change |-> x]
    BY <2>2 DEF Range
  <2> QED BY <2>3
<1>6. stops # {} => s \in stops /\ \A x \in stops : s <= x
  <2>1. stops \subseteq 1 .. Len(L)
    BY <1>3
  <2> HIDE DEF stops
  <2>2. 1 \in Int /\ Len(L) \in Int
    BY <1>3
  <2> QED BY <2>1, <2>2, SomeOf
<1>7. \A i, j \in DOMAIN L : i < j => L[i].at <= L[j].at
  BY <1>1 DEF Pairwise, PlacedOrder
<1>8. ASSUME NEW k \in 1 .. Len(h), NEW o \in Blobs, HasFile(h[k].tree, tp, o)
      PROVE  \E i \in stops : L[i].at <= k
  <2>2. PICK n \in 1 .. Len(h) : n <= k /\ \E x \in Range(CommitOf(h, n).changes) : Brings(x, tp)
    BY <1>8, FirstChange
  <2>3. PICK x \in Range(CommitOf(h, n).changes) : Brings(x, tp)
    BY <2>2
  <2>4. PICK i \in DOMAIN L : L[i].at = n /\ L[i].change = x
    BY <1>5, <2>2, <2>3
  <2>5. i \in stops
    BY <2>3, <2>4
  <2> QED BY <2>2, <2>4, <2>5
<1>9. CASE stops = {}
  <2>1. oid = 0
    BY <1>2, <1>9
  <2>2. NoneIn(h, tp)
    BY <1>8, <1>9, <1>0 DEF NoneIn, NotBefore
  <2> QED BY <2>1, <2>2 DEF oid
<1>10. CASE stops # {} /\ Last(c(s).file) \in ShortNames
  <2>1. oid = -1
    <3> HIDE DEF stops, s
    <3> QED BY <1>2, <1>10
  <2> QED BY <2>1 DEF oid
<1>11. CASE stops # {} /\ Last(c(s).file) \notin ShortNames
  <2> DEFINE n == L[s].at
             x == L[s].change
  <2>1. s \in stops /\ s \in DOMAIN L
    BY <1>6, <1>11
  <2>10. s \in Nat
    <3> HIDE DEF s
    <3> QED BY <1>3, <2>1
  <2>2. Last(x.file) \in PoNames /\ x.oid2 # 0 /\ calculateTpHash[x.oid2] = tp
    BY <1>11, <2>1 DEF Brings
  <2>3. oid = x.oid2
    <3> HIDE DEF stops, s
    <3> QED BY <1>2, <1>11
  <2>4. n \in 1 .. Len(h) /\ x \in Range(CommitOf(h, n).changes)
    <3> HIDE DEF s
    <3> QED BY <1>4, <2>1
  <2> HIDE DEF x, n
  <2>5. [file |-> x.file, oid |-> x.oid2] \in FilesOf(h[n].tree) /\ x.oid2 \in Blobs
    BY <2>2, <2>4, ChangedVersion
  <2>6. HasFile(h[n].tree, tp, oid)
    BY <2>2, <2>3, <2>5 DEF HasFile
  <2>7. ASSUME NEW m \in 1 .. n - 1, NEW o \in Blobs, HasFile(h[m].tree, tp, o) PROVE FALSE
    <3>1. m \in 1 .. Len(h) /\ m < n
      BY <1>0, <2>4
    <3>2. PICK i \in stops : L[i].at <= m
      BY <1>8, <2>7, <3>1
    <3>3. i \in DOMAIN L /\ s <= i
      BY <1>6, <1>11, <3>2
    <3>4. L[s].at <= L[i].at
      <4>1. s # i => s < i
        <5> HIDE DEF s, stops
        <5>1. i \in Nat
          BY <1>3, <3>3
        <5> QED BY <2>10, <3>3, <5>1
      <4>2. L[s].at \in Nat
        <5> HIDE DEF s, stops
        <5> QED BY <1>0, <1>4, <2>1
      <4> HIDE DEF s
      <4> QED BY <1>7, <2>1, <3>3, <4>1, <4>2
    <3>5. L[i].at \in Nat
      BY <1>4, <3>3
    <3>6. n <= L[i].at
      BY <3>4 DEF n
    <3> QED BY <2>4, <3>1, <3>2, <3>5, <3>6
  <2>8. FirstIn(h, tp, oid)
    BY <2>4, <2>6, <2>7 DEF FirstIn, NotBefore
  <2>9. oid \in Blobs
    BY <2>3, <2>5
  <2> QED BY <2>8, <2>9 DEF oid
<1> QED BY <1>9, <1>10, <1>11

(* The answers of the search, and the records of them. *)

Hashes == Range(calculateTpHash) \ {0}

\* The oldest blob of the hash in one of the repositories.
Recorded(tp, oid) == tp \in Hashes /\ oid \in Blobs /\ \E r \in Repos : FirstIn(git[r], tp, oid)

(* The records of the file are whole unless one was cut. *)
FileInv ==
  /\ cacheFile \in Seq(Blobs \cup Hashes) /\ cuts \in 0 .. MaxCuts
  /\ cuts = 0 => Len(cacheFile) % 2 = 0
  /\ Len(cacheFile) % 2 = 0 => \A i \in 1 .. Len(cacheFile) \div 2 : Recorded(cacheFile[2 * i - 1], cacheFile[2 * i])

MemoryInv == loaded \in BOOLEAN /\ \A tp \in DOMAIN m_cache : Recorded(tp, m_cache[tp])

(* What is known of the question that is asked. *)
QuestionInv ==
  /\ input \in Inputs \cup {0} /\ answer \in Oids
  /\ tool = "detector" => cacheFile = <<>> /\ input = 0
  /\ pc \in {"search", "answered"} => input \in Inputs /\ calculateTpHash[input] # 0
  /\ pc = "search" => \A i \in 1 .. repo - 1 : NoneIn(git[m_repos[i]], calculateTpHash[input])
  /\ pc = "answered" => IF answer = 0 THEN \A r \in Repos : NoneIn(git[r], calculateTpHash[input])
                                      ELSE Recorded(calculateTpHash[input], answer)

\* The hash that is searched for is one of the hashes.
LEMMA HashOfInput == ASSUME NEW b \in Inputs, calculateTpHash[b] # 0 PROVE calculateTpHash[b] \in Hashes
<1>1. b \in DOMAIN calculateTpHash
  BY LoaderAssumption DEF calculateTpHash
<1>2. calculateTpHash[b] \in Range(calculateTpHash)
  BY <1>1 DEF Range
<1> QED BY <1>2 DEF Hashes

\* With a whole record more, the file has whole records if it had.
LEMMA RecordAppended ==
  ASSUME FileInv, NEW tp, NEW oid, Recorded(tp, oid)
  PROVE  LET f == cacheFile \o <<tp, oid>>
         IN  /\ f \in Seq(Blobs \cup Hashes) /\ (Len(f) % 2 = 0 <=> Len(cacheFile) % 2 = 0)
             /\ Len(f) % 2 = 0 => \A i \in 1 .. Len(f) \div 2 : Recorded(f[2 * i - 1], f[2 * i])
<1> DEFINE f == cacheFile \o <<tp, oid>>
           n == Len(cacheFile)
<1>1. cacheFile \in Seq(Blobs \cup Hashes) /\ n \in Nat /\ tp \in Hashes /\ oid \in Blobs
  BY LenProperties DEF FileInv, Recorded
<1>2. f \in Seq(Blobs \cup Hashes) /\ Len(f) = n + 2
      /\ (\A i \in 1 .. n : f[i] = cacheFile[i]) /\ f[n + 1] = tp /\ f[n + 2] = oid
  BY <1>1
<1> HIDE DEF f, n
<1>3. (n + 2) % 2 = 0 <=> n % 2 = 0
  BY <1>1
<1>4. ASSUME (n + 2) % 2 = 0, NEW i \in 1 .. (n + 2) \div 2 PROVE Recorded(f[2 * i - 1], f[2 * i])
  <2>1. n = 2 * (n \div 2) /\ (n + 2) \div 2 = n \div 2 + 1 /\ n \div 2 \in Nat
    BY <1>1, <1>3, <1>4
  <2> DEFINE k == n \div 2
  <2> HIDE DEF k
  <2>2. n = 2 * k /\ k \in Nat /\ i \in 1 .. k + 1
    BY <2>1 DEF k
  <2>3. CASE i = k + 1
    <3>1. 2 * i - 1 = n + 1 /\ 2 * i = n + 2
      BY <2>2, <2>3
    <3> QED BY <1>2, <3>1
  <2>4. CASE i # k + 1
    <3>1. i \in 1 .. k /\ 2 * i - 1 \in 1 .. n /\ 2 * i \in 1 .. n
      BY <2>2, <2>4
    <3>2. Recorded(cacheFile[2 * i - 1], cacheFile[2 * i])
      BY <1>3, <1>4, <3>1 DEF FileInv, n, k
    <3> QED BY <1>2, <3>1, <3>2
  <2> QED BY <2>3, <2>4
<1> QED BY <1>2, <1>3, <1>4 DEF f, n

\* What a tool reads out of a file of whole records.
LEMMA CacheRead ==
  ASSUME FileInv, Len(cacheFile) % 2 = 0, NEW tp \in DOMAIN CacheOf(cacheFile)
  PROVE  Recorded(tp, CacheOf(cacheFile)[tp])
<1> DEFINE n == Len(cacheFile) \div 2
           S == {i \in 1 .. n : cacheFile[2 * i - 1] = tp}
<1>1. n \in Nat
  <2>1. Len(cacheFile) \in Nat
    BY LenProperties DEF FileInv
  <2> QED BY <2>1
<1>2. tp \in {cacheFile[2 * i - 1] : i \in 1 .. n} /\ CacheOf(cacheFile)[tp] = cacheFile[2 * Max(S)]
  BY DEF CacheOf
<1> HIDE DEF n
<1>3. S # {} /\ S \subseteq 1 .. n
  BY <1>2
<1>4. Max(S) \in S
  <2> HIDE DEF S
  <2>1. 1 \in Int /\ n \in Int
    BY <1>1
  <2> QED BY <1>3, <2>1, SomeOf
<1>5. PICK i \in 1 .. n : i = Max(S) /\ cacheFile[2 * i - 1] = tp
  BY <1>4
<1> HIDE DEF S
<1>6. Recorded(cacheFile[2 * i - 1], cacheFile[2 * i])
  BY DEF FileInv, n
<1> QED BY <1>2, <1>5, <1>6

\* A repository that grows has the same oldest versions.
LEMMA FirstStays ==
  ASSUME NEW r \in Repos, NEW g \in Histories[r], NEW h \in Histories[r], IsPrefix(g, h), NEW tp, NEW oid, FirstIn(g, tp, oid)
  PROVE  FirstIn(h, tp, oid)
<1>1. g \in Seq([tree : Trees, time : Nat]) /\ h \in Seq([tree : Trees, time : Nat]) /\ Len(g) \in Nat /\ Len(h) \in Nat
  BY HistoryFacts
<1>2. Len(g) <= Len(h) /\ \A i \in 1 .. Len(g) : h[i] = g[i]
  BY <1>1 DEF IsPrefix
<1>3. PICK n \in 1 .. Len(g) : HasFile(g[n].tree, tp, oid) /\ NotBefore(g, n, tp)
  BY DEF FirstIn
<1>4. n \in 1 .. Len(h) /\ HasFile(h[n].tree, tp, oid)
  BY <1>1, <1>2, <1>3
<1>5. \A m \in 1 .. n - 1 : h[m] = g[m]
  <2>1. \A m \in 1 .. n - 1 : m \in 1 .. Len(g)
    BY <1>1, <1>3
  <2> QED BY <1>2, <2>1
<1>6. NotBefore(h, n, tp)
  BY <1>3, <1>5 DEF NotBefore
<1> QED BY <1>4, <1>6 DEF FirstIn

CacheInv == FileInv /\ MemoryInv /\ QuestionInv

\* Nothing is recorded at the start.
LEMMA CacheInit == LoaderInit => CacheInv
<1> SUFFICES ASSUME LoaderInit PROVE CacheInv
  OBVIOUS
<1>1. cacheFile = <<>> /\ cuts = 0 /\ loaded = FALSE /\ m_cache = <<>> /\ input = 0 /\ answer = 0 /\ pc = "start"
  BY DEF LoaderInit, Init
<1>2. MaxCuts \in Nat
  BY LoaderAssumption
<1>3. Len(cacheFile) = 0 /\ Len(cacheFile) % 2 = 0 /\ Len(cacheFile) \div 2 = 0 /\ \A i \in 1 .. 0 : FALSE
  BY <1>1
<1>4. FileInv
  BY <1>1, <1>2, <1>3 DEF FileInv
<1>5. MemoryInv
  <2>1. DOMAIN m_cache = {}
    BY <1>1
  <2> QED BY <1>1, <2>1 DEF MemoryInv
<1>6. QuestionInv
  BY <1>1 DEF QuestionInv, Oids
<1> QED BY <1>4, <1>5, <1>6 DEF CacheInv

\* The programs that read the repositories of templates, and the ends of a question.
LEMMA CacheIdle ==
  ASSUME CacheInv, UNCHANGED <<git, loaderVars>>, pc' \in {"search", "answered"} => pc' = pc
  PROVE  CacheInv'
<1>1. UNCHANGED <<git, tool, input, repo, answer, loaded, m_cache, cacheFile, cuts>>
  BY DEF loaderVars, toolVars, fileVars
<1>2. FileInv' /\ MemoryInv'
  BY <1>1 DEF CacheInv, FileInv, MemoryInv, Recorded
<1>3. QuestionInv'
  BY <1>1 DEF CacheInv, QuestionInv, Recorded
<1> QED BY <1>2, <1>3 DEF CacheInv

\* A question is answered out of the cache with a recorded blob, or is searched for.
LEMMA CacheQuestion ==
  ASSUME CacheInv, ProgramInv, NEW b \in Inputs, reviewFile(b) \/ processFile(b)
  PROVE  CacheInv'
<1>0. "detector" \notin Tools
  BY DEF Tools
<1> DEFINE tp == calculateTpHash[b]
           cache == IF loaded THEN m_cache ELSE CacheOf(cacheFile)
<1>1. UNCHANGED <<git, tool, cacheFile, cuts>> /\ input' = b /\ tool # "detector"
  BY DEF reviewFile, processFile, fileVars
<1>2. \/ pc' = "failed" /\ UNCHANGED <<answer, loaded, m_cache>>
      \/ /\ tp # 0 /\ (loaded \/ Len(cacheFile) % 2 = 0) /\ loaded' = TRUE /\ m_cache' = cache
         /\ \/ tp \in DOMAIN cache /\ pc' = "answered" /\ answer' = cache[tp]
            \/ tp \notin DOMAIN cache /\ pc' = "search" /\ repo' = 1 /\ UNCHANGED answer
  BY DEF reviewFile, processFile, findOldestByTphash_oid
<1>3. FileInv'
  BY <1>1 DEF CacheInv, FileInv, Recorded
<1>4. CASE pc' = "failed" /\ UNCHANGED <<answer, loaded, m_cache>>
  BY <1>1, <1>3, <1>4 DEF CacheInv, MemoryInv, QuestionInv, Recorded
<1>5. CASE /\ tp # 0 /\ (loaded \/ Len(cacheFile) % 2 = 0) /\ loaded' = TRUE /\ m_cache' = cache
           /\ \/ tp \in DOMAIN cache /\ pc' = "answered" /\ answer' = cache[tp]
              \/ tp \notin DOMAIN cache /\ pc' = "search" /\ repo' = 1 /\ UNCHANGED answer
  <2>1. \A x \in DOMAIN cache : Recorded(x, cache[x])
    <3>1. CASE loaded
      BY <3>1 DEF CacheInv, MemoryInv
    <3>2. CASE ~loaded
      <4>1. cache = CacheOf(cacheFile) /\ Len(cacheFile) % 2 = 0
        BY <1>5, <3>2
      <4> HIDE DEF cache
      <4> QED BY <4>1, CacheRead DEF CacheInv
    <3> QED BY <3>1, <3>2
  <2> HIDE DEF cache
  <2>2. \A x, y : Recorded(x, y)' = Recorded(x, y)
    BY <1>1 DEF Recorded
  <2>3. MemoryInv'
    BY <1>5, <2>1, <1>1 DEF MemoryInv, Recorded
  <2>4. CASE tp \in DOMAIN cache /\ pc' = "answered" /\ answer' = cache[tp]
    <3>1. Recorded(tp, answer')
      BY <2>1, <2>4
    <3>2. answer' \in Blobs /\ answer' # 0
      BY <3>1, BlobFacts DEF Recorded
    <3> QED BY <1>1, <1>3, <1>5, <2>3, <2>4, <3>1, <3>2 DEF CacheInv, QuestionInv, Recorded, Oids
  <2>5. CASE tp \notin DOMAIN cache /\ pc' = "search" /\ repo' = 1 /\ UNCHANGED answer
    <3>1. \A i \in 1 .. 1 - 1 : FALSE
      OBVIOUS
    <3> QED BY <1>1, <1>3, <1>5, <2>3, <2>5, <3>1 DEF CacheInv, QuestionInv
  <2> QED BY <1>5, <2>4, <2>5
<1> QED BY <1>2, <1>4, <1>5

\* A record is written whole, or it is cut.
LEMMA RecordAdded ==
  ASSUME MaxCuts <= 1, FileInv, MemoryInv, NEW tp, NEW oid, Recorded(tp, oid), addPair(tp, oid), UNCHANGED <<git, loaded>>
  PROVE  FileInv' /\ MemoryInv'
<1>1. m_cache' = [hash \in {tp} \cup DOMAIN m_cache |-> IF hash = tp THEN oid ELSE m_cache[hash]]
  BY DEF addPair
<1>2. \A x \in DOMAIN m_cache' : Recorded(x, m_cache'[x])
  <2>1. DOMAIN m_cache' = {tp} \cup DOMAIN m_cache /\ m_cache'[tp] = oid
        /\ \A x \in DOMAIN m_cache : x # tp => m_cache'[x] = m_cache[x]
    BY <1>1
  <2> QED BY <2>1 DEF MemoryInv
<1>3. MemoryInv'
  BY <1>2 DEF MemoryInv, Recorded
<1>4. CASE cacheFile' = cacheFile \o <<tp, oid>> /\ UNCHANGED cuts
  <2> DEFINE f == cacheFile \o <<tp, oid>>
  <2>1. f \in Seq(Blobs \cup Hashes) /\ (Len(f) % 2 = 0 <=> Len(cacheFile) % 2 = 0)
        /\ (Len(f) % 2 = 0 => \A i \in 1 .. Len(f) \div 2 : Recorded(f[2 * i - 1], f[2 * i]))
    BY RecordAppended
  <2> HIDE DEF f
  <2>2. cacheFile' = f
    BY <1>4 DEF f
  <2>3. FileInv'
    BY <1>4, <2>1, <2>2 DEF FileInv, Recorded
  <2> QED BY <1>3, <2>3
<1>5. CASE cuts < MaxCuts /\ cuts' = cuts + 1 /\ cacheFile' = cacheFile
  <2>1. cuts' \in 0 .. MaxCuts /\ cuts' # 0
    BY <1>5, LoaderAssumption DEF FileInv
  <2>2. FileInv'
    BY <1>5, <2>1 DEF FileInv, Recorded
  <2> QED BY <1>3, <2>2
<1>6. CASE cuts < MaxCuts /\ cuts' = cuts + 1 /\ cacheFile' = Append(cacheFile, tp)
  <2>1. cuts' \in 0 .. MaxCuts /\ cuts' # 0 /\ cuts = 0
    BY <1>6, LoaderAssumption DEF FileInv
  <2>2. Len(cacheFile) % 2 = 0 /\ cacheFile \in Seq(Blobs \cup Hashes) /\ Len(cacheFile) \in Nat /\ tp \in Hashes
    BY <2>1, LenProperties DEF FileInv, Recorded
  <2>3. Append(cacheFile, tp) \in Seq(Blobs \cup Hashes) /\ Len(Append(cacheFile, tp)) = Len(cacheFile) + 1
    BY <2>2
  <2>4. (Len(cacheFile) + 1) % 2 # 0
    BY <2>2
  <2>5. FileInv'
    BY <1>6, <2>1, <2>3, <2>4 DEF FileInv
  <2> QED BY <1>3, <2>5
<1> QED BY <1>4, <1>5, <1>6 DEF addPair

\* The search in one repository more.
LEMMA CacheSearch == ASSUME MaxCuts <= 1, ReadInv, ProgramInv, CacheInv, searchRepository PROVE CacheInv'
<1> DEFINE r   == m_repos[repo]
           tp  == calculateTpHash[input]
           oid == FirstWithHash(m_commits[r], tp)
<1>1. pc = "search" /\ m_commitsInit[r] /\ UNCHANGED <<git, tool, input, loaded>>
  BY DEF searchRepository
<1>2. \/ oid > 0 /\ pc' = "answered" /\ answer' = oid /\ addPair(tp, oid)
      \/ oid = -1 /\ pc' = "failed" /\ UNCHANGED <<answer, m_cache, fileVars>>
      \/ oid = 0 /\ repo < Len(m_repos) /\ repo' = repo + 1 /\ pc' = "search" /\ UNCHANGED <<answer, m_cache, fileVars>>
      \/ oid = 0 /\ repo = Len(m_repos) /\ pc' = "answered" /\ answer' = 0 /\ UNCHANGED <<m_cache, fileVars>>
  BY <1>1 DEF searchRepository
<1>3. repo \in 1 .. 2 /\ r \in Repos /\ tool # "detector"
  BY <1>1, RepoFacts DEF ProgramInv
<1>4. input \in Inputs /\ tp # 0 /\ tp \in Hashes
  BY <1>1, HashOfInput DEF CacheInv, QuestionInv
<1>5. \/ oid = -1
      \/ oid = 0 /\ NoneIn(git[r], tp)
      \/ oid \in Blobs /\ FirstIn(git[r], tp, oid)
  <2>1. git[r] \in Histories[r] /\ m_commits[r] \in Seq(CommitRecords) /\ Len(m_commits[r]) = Len(git[r])
        /\ \A n \in 1 .. Len(git[r]) : m_commits[r][n] = CommitOf(git[r], n)
    BY <1>1, <1>3 DEF ReadInv
  <2>2. DOMAIN m_commits[r] = 1 .. Len(git[r])
    BY <2>1, LenProperties
  <2> HIDE DEF tp, r
  <2> QED BY <1>3, <2>1, <2>2, FirstHash
<1> HIDE DEF oid, tp, r
<1>6. \A x, y : Recorded(x, y)' = Recorded(x, y)
  BY <1>1 DEF Recorded
<1>7. calculateTpHash[input] = tp
  BY DEF tp
<1>8. CASE oid > 0 /\ pc' = "answered" /\ answer' = oid /\ addPair(tp, oid)
  <2>1. oid \in Blobs /\ FirstIn(git[r], tp, oid) /\ oid # 0
    BY <1>5, <1>8
  <2>2. Recorded(tp, oid)
    BY <1>3, <1>4, <2>1 DEF Recorded
  <2>3. FileInv' /\ MemoryInv'
    BY <1>1, <1>8, <2>2, RecordAdded DEF CacheInv
  <2>4. QuestionInv'
    BY <1>1, <1>3, <1>4, <1>6, <1>7, <1>8, <2>1, <2>2 DEF CacheInv, QuestionInv, Oids
  <2> QED BY <2>3, <2>4 DEF CacheInv
<1>9. ASSUME UNCHANGED <<m_cache, fileVars>> PROVE FileInv' /\ MemoryInv'
  BY <1>1, <1>6, <1>9 DEF CacheInv, FileInv, MemoryInv, fileVars
<1>10. CASE oid = -1 /\ pc' = "failed" /\ UNCHANGED <<answer, m_cache, fileVars>>
  <2>1. QuestionInv'
    BY <1>1, <1>3, <1>10 DEF CacheInv, QuestionInv
  <2> QED BY <1>9, <1>10, <2>1 DEF CacheInv
<1>11. CASE oid = 0 /\ repo < Len(m_repos) /\ repo' = repo + 1 /\ pc' = "search" /\ UNCHANGED <<answer, m_cache, fileVars>>
  <2>1. NoneIn(git[r], tp)
    BY <1>5, <1>11, BlobFacts
  <2>2. \A i \in 1 .. repo' - 1 : NoneIn(git[m_repos[i]], tp)
    <3>1. \A i \in 1 .. repo - 1 : NoneIn(git[m_repos[i]], tp)
      BY <1>1, <1>7 DEF CacheInv, QuestionInv
    <3>2. \A i \in 1 .. repo' - 1 : i = repo \/ i \in 1 .. repo - 1
      BY <1>3, <1>11
    <3> QED BY <2>1, <3>1, <3>2 DEF r
  <2>3. QuestionInv'
    BY <1>1, <1>3, <1>4, <1>7, <1>11, <2>2 DEF CacheInv, QuestionInv
  <2> QED BY <1>9, <1>11, <2>3 DEF CacheInv
<1>12. CASE oid = 0 /\ repo = Len(m_repos) /\ pc' = "answered" /\ answer' = 0 /\ UNCHANGED <<m_cache, fileVars>>
  <2>1. NoneIn(git[r], tp)
    BY <1>5, <1>12, BlobFacts
  <2>2. repo = 2 /\ NoneIn(git[m_repos[1]], tp) /\ NoneIn(git[m_repos[2]], tp)
    <3>1. repo = 2
      BY <1>12, RepoFacts
    <3>2. \A i \in 1 .. repo - 1 : NoneIn(git[m_repos[i]], tp)
      BY <1>1, <1>7 DEF CacheInv, QuestionInv
    <3> QED BY <2>1, <3>1, <3>2 DEF r
  <2>3. \A q \in Repos : NoneIn(git[q], tp)
    <3>1. m_repos[1] = "trunk" /\ m_repos[2] = "stable"
      BY DEF m_repos
    <3> QED BY <2>2, <3>1 DEF Repos
  <2>4. QuestionInv'
    BY <1>1, <1>3, <1>4, <1>7, <1>12, <2>3 DEF CacheInv, QuestionInv, Oids
  <2> QED BY <1>9, <1>12, <2>4 DEF CacheInv
<1> QED BY <1>2, <1>8, <1>10, <1>11, <1>12

\* The repositories have grown when the next tool is run, and the file is as it was.
LEMMA CacheNext == ASSUME ReadInv, CacheInv, nextTool PROVE CacheInv'
<1>0. "detector" \notin Tools
  BY DEF Tools
<1>1. tool' \in Tools /\ pc' = "start" /\ input' = 0 /\ answer' = 0 /\ loaded' = FALSE /\ m_cache' = <<>>
      /\ UNCHANGED <<cacheFile, cuts>>
  BY DEF nextTool, fileVars
<1>2. \A r \in Repos : git'[r] \in Histories[r] /\ IsPrefix(git[r], git'[r])
  <2>1. PICK trunk \in Grown("trunk") : \E stable \in Grown("stable") : git' = [trunk |-> trunk, stable |-> stable]
    BY DEF nextTool
  <2>2. PICK stable \in Grown("stable") : git' = [trunk |-> trunk, stable |-> stable]
    BY <2>1
  <2>3. git'["trunk"] = trunk /\ git'["stable"] = stable
    BY <2>2
  <2>4. \A r \in Repos : \A h \in Grown(r) : h \in Histories[r] /\ IsPrefix(git[r], h)
    BY LoaderAssumption DEF Grown
  <2> QED BY <2>3, <2>4 DEF Repos
<1>3. ASSUME NEW tp, NEW oid, Recorded(tp, oid) PROVE Recorded(tp, oid)'
  <2>1. PICK r \in Repos : FirstIn(git[r], tp, oid)
    BY <1>3 DEF Recorded
  <2>2. git[r] \in Histories[r]
    BY DEF ReadInv
  <2>3. FirstIn(git'[r], tp, oid)
    BY <1>2, <2>1, <2>2, FirstStays
  <2> QED BY <1>3, <2>3 DEF Recorded
<1>4. FileInv'
  BY <1>1, <1>3 DEF CacheInv, FileInv
<1>5. MemoryInv'
  <2>1. DOMAIN m_cache' = {}
    BY <1>1
  <2> QED BY <1>1, <2>1 DEF MemoryInv
<1>6. QuestionInv'
  BY <1>0, <1>1 DEF QuestionInv, Oids
<1> QED BY <1>4, <1>5, <1>6 DEF CacheInv

\* The other run has searched the same repositories.
LEMMA CacheOther == ASSUME ReadInv, CacheInv, NEW b \in Inputs, otherRun(b) PROVE CacheInv'
<1> DEFINE tp    == calculateTpHash[b]
           oid(i) == FirstWithHash(CommitsOf(git[m_repos[i]]), tp)
           found == {i \in DOMAIN m_repos : oid(i) # 0}
           k     == Min(found)
<1>0. "detector" \notin Tools
  BY DEF Tools
<1>1. tool \in Tools /\ tp # 0 /\ found # {} /\ oid(k) # -1 /\ cacheFile' = cacheFile \o <<tp, oid(k)>>
      /\ UNCHANGED <<git, pc, tool, input, repo, answer, loaded, m_cache, cuts>>
  BY DEF otherRun, vars, toolVars
<1>2. found \subseteq 1 .. 2 /\ DOMAIN m_repos = 1 .. 2
  BY DEF m_repos
<1>3. k \in found
  <2> HIDE DEF found
  <2>1. 1 \in Int /\ 2 \in Int
    OBVIOUS
  <2> QED BY <1>1, <1>2, <2>1, SomeOf
<1>4. k \in 1 .. 2 /\ oid(k) # 0
  <2> HIDE DEF k
  <2> QED BY <1>2, <1>3
<1> DEFINE r == m_repos[k]
           h == git[r]
           found_oid == oid(k)
<1>5. r \in Repos /\ h \in Histories[r]
  <2> HIDE DEF k
  <2> QED BY <1>4, RepoFacts DEF ReadInv
<1>6. found_oid = FirstWithHash(CommitsOf(h), tp) /\ found_oid # 0 /\ found_oid # -1
  BY <1>1, <1>4
<1>7. cacheFile' = cacheFile \o <<tp, found_oid>>
  BY <1>1
<1> HIDE DEF found_oid, h, r, k, oid, found, tp
<1>8. DOMAIN CommitsOf(h) = 1 .. Len(h) /\ \A n \in 1 .. Len(h) : CommitsOf(h)[n].changes = CommitOf(h, n).changes
  <2>1. DOMAIN h = 1 .. Len(h)
    BY <1>5, HistoryFacts
  <2>2. \A n \in 1 .. Len(h) : CommitsOf(h)[n] = [changes |-> diffTree[<<IF n = 1 THEN Empty ELSE h[n - 1].tree, h[n].tree, <<>>>>]]
    BY <2>1 DEF CommitsOf
  <2>3. \A n \in 1 .. Len(h) : CommitOf(h, n).changes = diffTree[<<IF n = 1 THEN Empty ELSE h[n - 1].tree, h[n].tree, <<>>>>]
    BY <1>5, CommitOfFacts
  <2> QED BY <2>1, <2>2, <2>3 DEF CommitsOf
<1>9. found_oid \in Blobs /\ FirstIn(h, tp, found_oid)
  BY <1>5, <1>6, <1>8, FirstHash
<1>10. tp \in Hashes
  BY <1>1, HashOfInput DEF tp
<1>11. Recorded(tp, found_oid)
  BY <1>5, <1>9, <1>10 DEF Recorded, h
<1>12. \A x, y : Recorded(x, y)' = Recorded(x, y)
  BY <1>1 DEF Recorded
<1>13. FileInv'
  <2> DEFINE f == cacheFile \o <<tp, found_oid>>
  <2>1. f \in Seq(Blobs \cup Hashes) /\ (Len(f) % 2 = 0 <=> Len(cacheFile) % 2 = 0)
        /\ (Len(f) % 2 = 0 => \A i \in 1 .. Len(f) \div 2 : Recorded(f[2 * i - 1], f[2 * i]))
    BY <1>11, RecordAppended DEF CacheInv
  <2> HIDE DEF f
  <2>2. cacheFile' = f
    BY <1>7 DEF f
  <2> QED BY <1>1, <1>12, <2>1, <2>2 DEF CacheInv, FileInv
<1>14. MemoryInv' /\ QuestionInv'
  <2>1. MemoryInv'
    BY <1>1, <1>12 DEF CacheInv, MemoryInv
  <2>2. QuestionInv'
    BY <1>0, <1>1, <1>12 DEF CacheInv, QuestionInv
  <2> QED BY <2>1, <2>2
<1> QED BY <1>13, <1>14 DEF CacheInv

\* CacheInv is inductive, as long as one record at most is cut.
LEMMA CacheSteps == ASSUME MaxCuts <= 1, ReadInv, ProgramInv, CacheInv, LoaderNext PROVE CacheInv'
<1>1. CASE Next /\ (pc = "start" => tool = "detector") /\ UNCHANGED loaderVars
  <2>1. UNCHANGED git
    BY <1>1 DEF Next, detectTransitions, doDetect, processChange, nextDetector, diffCommit, commitsRead, getCurrentOids,
                WalkStep, leaveDir, walkDir, walkBlob, walkEnds
  <2>2. pc' \in {"search", "answered"} => pc' = pc
    BY <1>1 DEF Next, detectTransitions, doDetect, processChange, nextDetector, diffCommit, commitsRead, getCurrentOids,
                WalkStep, leaveDir, walkDir, walkBlob, walkEnds
  <2> QED BY <1>1, <2>1, <2>2, CacheIdle
<1>2. ASSUME NEW b \in Inputs, reviewFile(b) \/ processFile(b) PROVE CacheInv'
  BY <1>2, CacheQuestion
<1>3. ASSUME NEW b \in Inputs, otherRun(b) PROVE CacheInv'
  BY <1>3, CacheOther
<1>4. CASE searchRepository
  BY <1>4, CacheSearch
<1>5. CASE reviewAgainst \/ diffAgainst
  <2>1. UNCHANGED <<git, loaderVars>> /\ pc' \notin {"search", "answered"}
    BY <1>5 DEF reviewAgainst, diffAgainst
  <2> QED BY <2>1, CacheIdle
<1>6. CASE nextTool
  BY <1>6, CacheNext
<1> QED BY <1>1, <1>2, <1>3, <1>4, <1>5, <1>6 DEF LoaderNext

\* With one record that is cut at most, what the tools know and what the file holds are the oldest files of their hashes.
LEMMA CacheHolds == LoaderSpec => [](MaxCuts <= 1 => CacheInv)
<1> DEFINE Cached == MaxCuts <= 1 => CacheInv
<1>0. LoaderInit => Cached
  BY CacheInit
<1>1. Cached /\ ReadInv /\ TypesInv /\ LoaderNext => Cached'
  BY CacheSteps DEF TypesInv
<1>2. Cached /\ UNCHANGED <<vars, loaderVars>> => Cached'
  <2> SUFFICES ASSUME Cached, UNCHANGED <<vars, loaderVars>> PROVE Cached'
    OBVIOUS
  <2>1. UNCHANGED <<git, pc, tool, input, repo, answer, loaded, m_cache, cacheFile, cuts>>
    BY DEF vars, loaderVars, toolVars, fileVars
  <2> QED BY <2>1 DEF CacheInv, FileInv, MemoryInv, QuestionInv, Recorded
<1> HIDE DEF Cached
<1>3. LoaderSpec => []Cached
  BY <1>0, <1>1, <1>2, TypesHold, PTL DEF LoaderSpec
<1> QED BY <1>3 DEF Cached

\* The types of the three programs follow.
LEMMA LoaderTypesGiven == ASSUME ReadInv, TypesInv, CacheInv PROVE LoaderTypeOK
<1>1. TypeOK
  BY TypesGiven
<1>2. tool \in {"detector"} \cup Tools /\ repo \in 0 .. Len(m_repos)
  BY RepoFacts DEF TypesInv, ProgramInv
<1>3. (tool = "detector" => cacheFile = <<>> /\ input = 0) /\ input \in Inputs \cup {0} /\ answer \in Blobs \cup {0}
      /\ loaded \in BOOLEAN /\ cuts \in 0 .. MaxCuts
  BY DEF CacheInv, FileInv, MemoryInv, QuestionInv, Oids
<1>4. DOMAIN m_cache \subseteq Range(calculateTpHash) \ {0} /\ Range(m_cache) \subseteq Blobs
  BY DEF CacheInv, MemoryInv, Recorded, Hashes, Range
<1>5. \A i \in DOMAIN cacheFile : cacheFile[i] \in Blobs \cup (Range(calculateTpHash) \ {0})
  <2>1. cacheFile \in Seq(Blobs \cup Hashes)
    BY DEF CacheInv, FileInv
  <2> QED BY <2>1, LenProperties, ElementOfSeq DEF Hashes
<1> QED BY <1>1, <1>2, <1>3, <1>4, <1>5 DEF LoaderTypeOK

\* All variables of the programs that read the repositories stay in their types, as long as no second record is cut.
THEOREM LoaderTypes == LoaderSpec => [](MaxCuts <= 1 => LoaderTypeOK)
<1>1. ReadInv /\ TypesInv /\ (MaxCuts <= 1 => CacheInv) => (MaxCuts <= 1 => LoaderTypeOK)
  BY LoaderTypesGiven
<1> QED BY <1>1, TypesHold, CacheHolds, PTL

(* The text of a template, and its hash. *)

OnesKept(n, ob, a) == [i \in 1 .. n |-> IF ob[i] THEN <<>> ELSE <<a[i]>>]

\* One element more, at the end.
LEMMA OneMore ==
  ASSUME NEW S, NEW s \in Seq(S), NEW x \in S
  PROVE  LET u == s \o <<x>> IN Len(u) = Len(s) + 1 /\ (\A j \in 1 .. Len(s) : u[j] = s[j]) /\ u[Len(s) + 1] = x
OBVIOUS

\* s and t have what a and b have at the same places, those that are not marked in ob.
KeptPlaces(n, ob, a, b, s, t) ==
  /\ s \in Seq({a[i] : i \in 1 .. n}) /\ Len(s) = Cardinality({i \in 1 .. n : ~ob[i]}) /\ Len(s) \in Nat
  /\ DOMAIN s = 1 .. Len(s) /\ DOMAIN t = 1 .. Len(s) /\ t = [j \in 1 .. Len(s) |-> t[j]]
  /\ \A j \in 1 .. Len(s) : \E i \in 1 .. n : ~ob[i] /\ s[j] = a[i] /\ t[j] = b[i]

\* Of two lists that leave out the same places, the elements that stay have the same numbers.
LEMMA KeptTogether ==
  ASSUME NEW n \in Nat, NEW ob \in [1 .. n -> BOOLEAN], NEW a, NEW b
  PROVE  KeptPlaces(n, ob, a, b, FlattenSeq(OnesKept(n, ob, a)), FlattenSeq(OnesKept(n, ob, b)))
<1> DEFINE Of(c) == {c[i] : i \in 1 .. n}
           Kept(k) == {i \in 1 .. k : ~ob[i]}
<1>1. ASSUME NEW c PROVE OnesKept(n, ob, c) \in Seq(Seq(Of(c))) /\ Len(OnesKept(n, ob, c)) = n
  <2>1. \A i \in 1 .. n : (IF ob[i] THEN <<>> ELSE <<c[i]>>) \in Seq(Of(c))
    <3>1. ASSUME NEW i \in 1 .. n PROVE <<>> \in Seq(Of(c)) /\ <<c[i]>> \in Seq(Of(c))
      <4>1. c[i] \in Of(c)
        OBVIOUS
      <4> HIDE DEF Of
      <4> QED BY <4>1
    <3> HIDE DEF Of
    <3> QED BY <3>1
  <2> HIDE DEF Of
  <2>2. OnesKept(n, ob, c) \in [1 .. n -> Seq(Of(c))]
    BY <2>1 DEF OnesKept
  <2>3. OnesKept(n, ob, c) \in Seq(Seq(Of(c)))
    BY <2>2, SeqDef
  <2>4. DOMAIN OnesKept(n, ob, c) = 1 .. n
    BY <2>2
  <2>5. Len(OnesKept(n, ob, c)) = n
    BY <2>3, <2>4
  <2> QED BY <2>3, <2>5
<1> HIDE DEF Of
<1>2. PICK f : Joins(f, OnesKept(n, ob, a), Of(a)) /\ FlattenSeq(OnesKept(n, ob, a)) = f[n]
  BY <1>1, Flattened
<1>3. PICK g : Joins(g, OnesKept(n, ob, b), Of(b)) /\ FlattenSeq(OnesKept(n, ob, b)) = g[n]
  BY <1>1, Flattened
<1>4. /\ f \in [0 .. n -> Seq(Of(a))] /\ f[0] = <<>> /\ \A k \in 1 .. n : f[k] = f[k - 1] \o (IF ob[k] THEN <<>> ELSE <<a[k]>>)
      /\ g \in [0 .. n -> Seq(Of(b))] /\ g[0] = <<>> /\ \A k \in 1 .. n : g[k] = g[k - 1] \o (IF ob[k] THEN <<>> ELSE <<b[k]>>)
  BY <1>1, <1>2, <1>3 DEF Joins, OnesKept
<1> DEFINE P(k) == /\ Len(f[k]) = Cardinality(Kept(k)) /\ Len(g[k]) = Len(f[k]) /\ IsFiniteSet(Kept(k))
                   /\ \A j \in 1 .. Len(f[k]) : \E i \in 1 .. k : ~ob[i] /\ f[k][j] = a[i] /\ g[k][j] = b[i]
           T == {k \in Nat : k <= n => P(k)}
<1>5. 0 \in T
  <2>1. Kept(0) = {} /\ Len(<<>>) = 0
    OBVIOUS
  <2>2. P(0)
    BY <1>4, <2>1, FS_EmptySet
  <2> QED BY <2>2
<1>6. ASSUME NEW k \in Nat, k \in T PROVE k + 1 \in T
  <2> SUFFICES ASSUME k + 1 <= n PROVE P(k + 1)
    <3> HIDE DEF P
    <3> QED OBVIOUS
  <2>1. P(k)
    <3> HIDE DEF P
    <3> QED BY <1>6
  <2>2. f[k] \in Seq(Of(a)) /\ g[k] \in Seq(Of(b)) /\ (k + 1) - 1 = k /\ k + 1 \in 1 .. n /\ ob[k + 1] \in BOOLEAN
    <3>1. k \in 0 .. n /\ (k + 1) - 1 = k /\ k + 1 \in 1 .. n
      OBVIOUS
    <3> QED BY <1>4, <3>1
  <2>3. CASE ob[k + 1]
    <3>1. f[k + 1] = f[k] \o <<>> /\ g[k + 1] = g[k] \o <<>>
      BY <1>4, <2>2, <2>3
    <3>2. f[k + 1] = f[k] /\ g[k + 1] = g[k]
      BY <2>2, <3>1
    <3>3. Kept(k + 1) = Kept(k)
      BY <2>3
    <3>4. \A i \in 1 .. k : i \in 1 .. k + 1
      OBVIOUS
    <3> QED BY <2>1, <3>2, <3>3, <3>4
  <2>4. CASE ~ob[k + 1]
    <3>1. f[k + 1] = f[k] \o <<a[k + 1]>> /\ g[k + 1] = g[k] \o <<b[k + 1]>>
      BY <1>4, <2>2, <2>4
    <3> DEFINE L == Len(f[k])
    <3>2. L \in Nat /\ Len(g[k]) = L
      BY <2>1, <2>2
    <3>3. Len(f[k + 1]) = L + 1 /\ (\A j \in 1 .. L : f[k + 1][j] = f[k][j]) /\ f[k + 1][L + 1] = a[k + 1]
      <4>1. a[k + 1] \in Of(a)
        BY <2>2 DEF Of
      <4> DEFINE u == f[k]
                 v == f[k + 1]
                 x == a[k + 1]
      <4>2. u \in Seq(Of(a)) /\ v = u \o <<x>> /\ Len(u) = L /\ x \in Of(a)
        BY <2>2, <3>1, <4>1
      <4> HIDE DEF L, u, v, x
      <4>3. Len(v) = L + 1 /\ (\A j \in 1 .. L : v[j] = u[j]) /\ v[L + 1] = x
        BY <4>2, OneMore
      <4> QED BY <4>3 DEF u, v, x
    <3>4. Len(g[k + 1]) = L + 1 /\ (\A j \in 1 .. L : g[k + 1][j] = g[k][j]) /\ g[k + 1][L + 1] = b[k + 1]
      <4>1. b[k + 1] \in Of(b)
        BY <2>2 DEF Of
      <4>2. Len(g[k]) = L
        BY <3>2
      <4> HIDE DEF L
      <4>3. g[k] \in Seq(Of(b)) /\ g[k + 1] = g[k] \o <<b[k + 1]>>
        BY <2>2, <3>1
      <4> DEFINE u == g[k]
                 v == g[k + 1]
                 x == b[k + 1]
      <4>4. u \in Seq(Of(b)) /\ v = u \o <<x>> /\ Len(u) = L /\ x \in Of(b)
        BY <4>1, <4>2, <4>3
      <4> HIDE DEF u, v, x
      <4>5. Len(v) = L + 1 /\ (\A j \in 1 .. L : v[j] = u[j]) /\ v[L + 1] = x
        BY <4>4, OneMore
      <4> QED BY <4>5 DEF u, v, x
    <3>5. Kept(k + 1) = Kept(k) \cup {k + 1} /\ k + 1 \notin Kept(k)
      BY <2>4
    <3>6. IsFiniteSet(Kept(k + 1)) /\ Cardinality(Kept(k + 1)) = L + 1
      <4>1. IsFiniteSet(Kept(k)) /\ Cardinality(Kept(k)) = L
        BY <2>1
      <4> HIDE DEF Kept, L
      <4> QED BY <3>5, <4>1, FS_AddElement
    <3>7. ASSUME NEW j \in 1 .. L + 1 PROVE \E i \in 1 .. k + 1 : ~ob[i] /\ f[k + 1][j] = a[i] /\ g[k + 1][j] = b[i]
      <4>1. CASE j = L + 1
        BY <2>4, <3>3, <3>4, <4>1
      <4>2. CASE j # L + 1
        <5>1. j \in 1 .. L
          BY <3>2, <4>2
        <5>2. PICK i \in 1 .. k : ~ob[i] /\ f[k][j] = a[i] /\ g[k][j] = b[i]
          BY <2>1, <5>1
        <5>3. i \in 1 .. k + 1
          OBVIOUS
        <5> QED BY <3>3, <3>4, <5>1, <5>2, <5>3
      <4> QED BY <4>1, <4>2
    <3> HIDE DEF L, Kept
    <3> QED BY <3>3, <3>4, <3>6, <3>7
  <2> QED BY <2>2, <2>3, <2>4
<1>7. n \in T
  <2> HIDE DEF T
  <2> QED BY <1>5, <1>6, SetInduction
<1>8. P(n) /\ f[n] \in Seq(Of(a)) /\ g[n] \in Seq(Of(b))
  <2>1. n \in 0 .. n
    OBVIOUS
  <2>2. P(n)
    <3> HIDE DEF P
    <3> QED BY <1>7
  <2> QED BY <1>4, <2>1, <2>2
<1>9. Len(f[n]) \in Nat /\ DOMAIN f[n] = 1 .. Len(f[n]) /\ DOMAIN g[n] = 1 .. Len(f[n])
  <2> HIDE DEF Kept
  <2> QED BY <1>8, LenProperties
<1> HIDE DEF Kept
<1>10. g[n] = [j \in 1 .. Len(f[n]) |-> g[n][j]]
  <2>1. g[n] \in [1 .. Len(g[n]) -> Of(b)]
    BY <1>8, LenProperties
  <2>2. DOMAIN g[n] = 1 .. Len(f[n]) /\ g[n] = [j \in DOMAIN g[n] |-> g[n][j]]
    BY <1>9, <2>1
  <2> QED BY <2>2
<1>11. P(n) /\ FlattenSeq(OnesKept(n, ob, a)) = f[n] /\ FlattenSeq(OnesKept(n, ob, b)) = g[n] /\ f[n] \in Seq(Of(a))
  BY <1>2, <1>3, <1>8
<1> DEFINE s == FlattenSeq(OnesKept(n, ob, a))
           t == FlattenSeq(OnesKept(n, ob, b))
<1>12. s = f[n] /\ t = g[n]
  BY <1>11
<1> HIDE DEF s, t
<1>13. s \in Seq({a[i] : i \in 1 .. n}) /\ Len(s) = Cardinality({i \in 1 .. n : ~ob[i]})
  BY <1>11, <1>12 DEF Kept, Of
<1>14. Len(s) \in Nat /\ DOMAIN s = 1 .. Len(s) /\ DOMAIN t = 1 .. Len(s) /\ t = [j \in 1 .. Len(s) |-> t[j]]
  BY <1>9, <1>10, <1>12
<1>15. \A j \in 1 .. Len(s) : \E i \in 1 .. n : ~ob[i] /\ s[j] = a[i] /\ t[j] = b[i]
  BY <1>11, <1>12
<1>16. KeptPlaces(n, ob, a, b, s, t)
  BY <1>13, <1>14, <1>15 DEF KeptPlaces
<1> QED BY <1>16 DEF s, t

TextDump(m) == [orig |-> m.orig, notes |-> m.notes, filepos |-> fileposEntriesAsJson(m.filepos), msgstr |-> <<>>]

\* What the assumption says of the messages of one file.
LEMMA ContentFacts ==
  ASSUME NEW b \in DOMAIN Contents
  PROVE  LET ms == Contents[b].messages
         IN  /\ ms \in Seq(Range(ms)) /\ Len(ms) \in Nat /\ DOMAIN ms = 1 .. Len(ms)
             /\ \A m \in Range(ms) : /\ m.obsolete \in BOOLEAN /\ m.filepos \in Seq(Range(m.filepos))
                                     /\ \A e \in Range(m.filepos) : e = <<e[1], e[2]>>
<1> DEFINE ms == Contents[b].messages
<1>1. ms \in Seq(Range(ms))
  BY ContentsAssumption
<1>2. \A m \in Range(ms) : m.obsolete \in BOOLEAN /\ m.filepos \in Seq(Range(m.filepos)) /\ \A e \in Range(m.filepos) : e = <<e[1], e[2]>>
  BY ContentsAssumption
<1> HIDE DEF ms
<1>3. Len(ms) \in Nat /\ DOMAIN ms = 1 .. Len(ms)
  BY <1>1, LenProperties
<1> QED BY <1>1, <1>2, <1>3 DEF ms

\* The dump of a file has the text of the messages that are in use, and they are as many as get_pot_length says.
LEMMA DumpOfFile ==
  ASSUME NEW b \in DOMAIN Contents, Contents[b].header = "ok"
  PROVE  LET rm == readMessages(b)
             dump == asJson(Contents[b], FALSE)
         IN  /\ dump.thrown = "none" /\ dump.date = Contents[b].date
             /\ rm \in Seq(Range(Contents[b].messages)) /\ DOMAIN rm = 1 .. Len(rm) /\ Len(rm) = get_pot_length(b)
             /\ dump.messages = [j \in 1 .. Len(rm) |-> dump.messages[j]]
             /\ DOMAIN dump.messages = 1 .. Len(rm) /\ \A j \in 1 .. Len(rm) : dump.messages[j] = TextDump(rm[j])
<1> DEFINE ms == Contents[b].messages
           n == Len(ms)
           ob == [i \in 1 .. n |-> ms[i].obsolete]
           txt == [i \in 1 .. n |-> TextDump(ms[i])]
           rm == readMessages(b)
           dump == asJson(Contents[b], FALSE)
<1>1. n \in Nat /\ DOMAIN ms = 1 .. n /\ \A i \in 1 .. n : ms[i] \in Range(ms) /\ ms[i].obsolete \in BOOLEAN
  <2>1. Len(ms) \in Nat /\ DOMAIN ms = 1 .. n /\ \A m \in Range(ms) : m.obsolete \in BOOLEAN
    BY ContentFacts
  <2>2. \A i \in 1 .. n : ms[i] \in Range(ms)
    BY <2>1 DEF Range
  <2> QED BY <2>1, <2>2
<1>2. HeaderException(Contents[b].header) = "none"
  BY DEF HeaderException
<1>3. rm = FlattenSeq(OnesKept(n, ob, ms))
  <2>1. OnesKept(n, ob, ms) = [i \in DOMAIN ms |-> IF ms[i].obsolete THEN <<>> ELSE <<ms[i]>>]
    BY <1>1 DEF OnesKept
  <2> QED BY <2>1 DEF readMessages
<1>4. dump.thrown = "none" /\ dump.date = Contents[b].date /\ dump.messages = FlattenSeq(OnesKept(n, ob, txt))
  <2>1. OnesKept(n, ob, txt) = [i \in DOMAIN ms |-> templateMessageAsString(ms[i], FALSE)]
    BY <1>1 DEF OnesKept, templateMessageAsString, TextDump
  <2> DEFINE tt == [i \in DOMAIN ms |-> templateMessageAsString(ms[i], FALSE)]
             pp == FlattenSeq(tt)
  <2>2. dump = [thrown |-> "none", date |-> Contents[b].date, messages |-> pp]
    BY <1>2 DEF asJson
  <2> HIDE DEF pp, dump
  <2>3. dump.thrown = "none" /\ dump.date = Contents[b].date /\ dump.messages = pp
    BY <2>2
  <2> HIDE DEF tt
  <2> QED BY <2>1, <2>3 DEF pp, tt
<1>5. get_pot_length(b) = Cardinality({i \in 1 .. n : ~ob[i]})
  <2>1. {i \in DOMAIN ms : ~ms[i].obsolete} = {i \in 1 .. n : ~ob[i]}
    BY <1>1
  <2> QED BY <2>1 DEF get_pot_length
<1>6. ob \in [1 .. n -> BOOLEAN]
  BY <1>1
<1>7. \A i \in 1 .. n : txt[i] = TextDump(ms[i])
  OBVIOUS
<1> HIDE DEF ob, txt, rm, dump
<1>8. /\ rm \in Seq({ms[i] : i \in 1 .. n}) /\ Len(rm) = Cardinality({i \in 1 .. n : ~ob[i]}) /\ Len(rm) \in Nat
      /\ DOMAIN rm = 1 .. Len(rm) /\ DOMAIN dump.messages = 1 .. Len(rm)
      /\ dump.messages = [j \in 1 .. Len(rm) |-> dump.messages[j]]
      /\ \A j \in 1 .. Len(rm) : \E i \in 1 .. n : ~ob[i] /\ rm[j] = ms[i] /\ dump.messages[j] = txt[i]
  <2> HIDE DEF ms, n
  <2>1. n \in Nat
    BY <1>1
  <2>2. KeptPlaces(n, ob, ms, txt, rm, dump.messages)
    BY <1>3, <1>4, <1>6, <2>1, KeptTogether
  <2> QED BY <2>2 DEF KeptPlaces
<1>9. {ms[i] : i \in 1 .. n} = Range(ms)
  BY <1>1 DEF Range
<1>10. \A j \in 1 .. Len(rm) : dump.messages[j] = TextDump(rm[j])
  BY <1>7, <1>8
<1> QED BY <1>4, <1>5, <1>8, <1>9, <1>10 DEF rm, dump, ms

\* The text of the file positions tells them apart.
LEMMA SameFilepos ==
  ASSUME NEW p, NEW q, p \in Seq(Range(p)), q \in Seq(Range(q)), \A e \in Range(p) : e = <<e[1], e[2]>>,
         \A e \in Range(q) : e = <<e[1], e[2]>>, fileposEntriesAsJson(p) = fileposEntriesAsJson(q)
  PROVE  p = q
<1>1. DOMAIN p = DOMAIN q
  BY DEF fileposEntriesAsJson
<1>2. ASSUME NEW i \in DOMAIN p PROVE p[i] = q[i]
  <2>1. p[i] = <<p[i][1], p[i][2]>> /\ q[i] = <<q[i][1], q[i][2]>>
    BY <1>1 DEF Range
  <2>2. (IF p[i][2] = -1 THEN <<p[i][1]>> ELSE p[i]) = (IF q[i][2] = -1 THEN <<q[i][1]>> ELSE q[i])
    BY <1>1 DEF fileposEntriesAsJson
  <2>3. \A x, y, z : <<x>> # <<y, z>>
    <3> SUFFICES ASSUME NEW x, NEW y, NEW z, <<x>> = <<y, z>> PROVE FALSE
      OBVIOUS
    <3>1. Len(<<x>>) = 1 /\ Len(<<y, z>>) = 2
      OBVIOUS
    <3> QED BY <3>1
  <2>4. CASE p[i][2] = -1 /\ q[i][2] = -1
    <3>1. <<p[i][1]>> = <<q[i][1]>>
      BY <2>2, <2>4
    <3>2. p[i][1] = q[i][1]
      BY <3>1
    <3> QED BY <2>1, <2>4, <3>2
  <2>5. CASE p[i][2] # -1 /\ q[i][2] # -1
    BY <2>2, <2>5
  <2>6. CASE (p[i][2] = -1) # (q[i][2] = -1)
    BY <2>1, <2>2, <2>3, <2>6
  <2> QED BY <2>4, <2>5, <2>6
<1> QED BY <1>1, <1>2

\* Two messages are dumped alike when their texts are alike.
LEMMA SameText ==
  ASSUME NEW l, NEW m, l.filepos \in Seq(Range(l.filepos)), m.filepos \in Seq(Range(m.filepos)),
         \A e \in Range(l.filepos) : e = <<e[1], e[2]>>, \A e \in Range(m.filepos) : e = <<e[1], e[2]>>
  PROVE  TextDump(l) = TextDump(m) <=> Text(l) = Text(m)
<1>1. ASSUME TextDump(l) = TextDump(m) PROVE Text(l) = Text(m)
  <2>1. TextDump(l).orig = TextDump(m).orig /\ TextDump(l).notes = TextDump(m).notes /\ TextDump(l).filepos = TextDump(m).filepos
    BY <1>1
  <2>2. l.orig = m.orig /\ l.notes = m.notes /\ fileposEntriesAsJson(l.filepos) = fileposEntriesAsJson(m.filepos)
    BY <2>1 DEF TextDump
  <2>3. l.filepos = m.filepos
    BY <2>2, SameFilepos
  <2> QED BY <2>2, <2>3 DEF Text
<1>2. ASSUME Text(l) = Text(m) PROVE TextDump(l) = TextDump(m)
  <2>1. Text(l).orig = Text(m).orig /\ Text(l).notes = Text(m).notes /\ Text(l).filepos = Text(m).filepos
    BY <1>2
  <2>2. l.orig = m.orig /\ l.notes = m.notes /\ l.filepos = m.filepos
    BY <2>1 DEF Text
  <2> QED BY <2>2 DEF TextDump
<1> QED BY <1>1, <1>2

\* The least of a set of natural numbers.
LEMMA MinOf == ASSUME NEW S, S \subseteq Nat, S # {} PROVE Min(S) \in S /\ \A x \in S : Min(S) <= x
<1>1. \E x \in S : \A y \in S : x <= y
  BY LeastOf
<1> QED BY <1>1 DEF Min

DumpOf(b) == asJson(Contents[b], FALSE)

\* The hash of a file is null, or the number of the first file that is dumped alike.
LEMMA HashFacts ==
  ASSUME NEW b \in DOMAIN Contents
  PROVE  /\ Contents[b].header # "ok" => calculateTpHash[b] = 0
         /\ Contents[b].header = "ok" =>
              \E x \in DOMAIN Contents : /\ calculateTpHash[b] = -x /\ x # 0 /\ DumpOf(x) = DumpOf(b)
                                         /\ x = Min({y \in DOMAIN Contents : DumpOf(y) = DumpOf(b)})
<1> DEFINE dump == asJson(Contents[b], FALSE)
           thrown == HeaderException(Contents[b].header)
           S == {y \in DOMAIN Contents : DumpOf(y) = DumpOf(b)}
<1>1. dump.thrown = thrown
  BY DEF asJson
<1>2. calculateTpHash[b] = IF thrown # "none" THEN 0 ELSE sha1_buffer(dump, FALSE)
  BY <1>1 DEF calculateTpHash
<1>3. sha1_buffer(dump, FALSE) = -Min(S)
  BY DEF sha1_buffer, DumpOf
<1>4. CASE Contents[b].header # "ok"
  <2>1. Contents[b].header \in {"noMessages", "corrupt", "noDate"}
    BY <1>4, ContentsAssumption
  <2>2. thrown # "none"
    BY <2>1 DEF HeaderException
  <2> QED BY <1>2, <1>4, <2>2
<1>5. CASE Contents[b].header = "ok"
  <2>1. thrown = "none"
    BY <1>5 DEF HeaderException
  <2>2. S \subseteq Nat /\ b \in S /\ \A y \in S : y \in DOMAIN Contents /\ y # 0 /\ DumpOf(y) = DumpOf(b)
    BY ContentsAssumption
  <2>3. Min(S) \in S
    <3> HIDE DEF S
    <3> QED BY <2>2, MinOf
  <2>4. calculateTpHash[b] = -Min(S)
    <3> HIDE DEF S, dump, thrown
    <3> QED BY <1>2, <1>3, <2>1
  <2> DEFINE x == Min(S)
  <2> HIDE DEF x
  <2>5. x \in DOMAIN Contents /\ x # 0 /\ DumpOf(x) = DumpOf(b) /\ calculateTpHash[b] = -x
    BY <2>2, <2>3, <2>4 DEF x
  <2> QED BY <1>5, <2>5 DEF x
<1> QED BY <1>4, <1>5

\* Two files have one hash when they are dumped alike.
LEMMA HashOfDump ==
  ASSUME NEW a \in DOMAIN Contents, NEW b \in DOMAIN Contents, Contents[a].header = "ok", Contents[b].header = "ok"
  PROVE  calculateTpHash[a] = calculateTpHash[b] <=> DumpOf(a) = DumpOf(b)
<1>1. PICK x \in DOMAIN Contents : /\ calculateTpHash[a] = -x /\ DumpOf(x) = DumpOf(a)
                                   /\ x = Min({y \in DOMAIN Contents : DumpOf(y) = DumpOf(a)})
  BY HashFacts
<1>2. PICK z \in DOMAIN Contents : /\ calculateTpHash[b] = -z /\ DumpOf(z) = DumpOf(b)
                                   /\ z = Min({y \in DOMAIN Contents : DumpOf(y) = DumpOf(b)})
  BY HashFacts
<1>3. x \in Nat /\ z \in Nat
  BY ContentsAssumption
<1>4. calculateTpHash[a] = calculateTpHash[b] => x = z
  BY <1>1, <1>2, <1>3
<1>5. DumpOf(a) = DumpOf(b) => x = z
  BY <1>1, <1>2
<1> QED BY <1>1, <1>2, <1>4, <1>5

\* The hash is that of the template: neither the translations nor the obsolete messages are in it, and all else is.
LEMMA HashOfTemplate ==
  ASSUME NEW a \in DOMAIN Contents, NEW b \in DOMAIN Contents, calculateTpHash[b] # 0
  PROVE  calculateTpHash[a] = calculateTpHash[b] <=> SameTemplate(a, b)
<1>1. Contents[b].header = "ok"
  BY HashFacts
<1>2. CASE Contents[a].header # "ok"
  <2>1. calculateTpHash[a] = 0
    BY <1>2, HashFacts
  <2> QED BY <1>2, <2>1 DEF SameTemplate
<1>3. CASE Contents[a].header = "ok"
  <2> DEFINE s == readMessages(a)
             t == readMessages(b)
             d == asJson(Contents[a], FALSE)
             e == asJson(Contents[b], FALSE)
             x == [i \in DOMAIN s |-> Text(s[i])]
             y == [i \in DOMAIN t |-> Text(t[i])]
  <2>1. /\ d.thrown = "none" /\ d.date = Contents[a].date /\ s \in Seq(Range(Contents[a].messages)) /\ DOMAIN s = 1 .. Len(s)
        /\ DOMAIN d.messages = 1 .. Len(s) /\ \A j \in 1 .. Len(s) : d.messages[j] = TextDump(s[j])
    BY <1>3, DumpOfFile
  <2>2. /\ e.thrown = "none" /\ e.date = Contents[b].date /\ t \in Seq(Range(Contents[b].messages)) /\ DOMAIN t = 1 .. Len(t)
        /\ DOMAIN e.messages = 1 .. Len(t) /\ \A j \in 1 .. Len(t) : e.messages[j] = TextDump(t[j])
    BY <1>1, DumpOfFile
  <2>3. /\ d = [thrown |-> d.thrown, date |-> d.date, messages |-> d.messages]
        /\ e = [thrown |-> e.thrown, date |-> e.date, messages |-> e.messages]
    BY DEF asJson
  <2>4. d.messages = [j \in 1 .. Len(s) |-> d.messages[j]] /\ e.messages = [j \in 1 .. Len(t) |-> e.messages[j]]
    <3>1. d.messages = [j \in 1 .. Len(s) |-> d.messages[j]]
      BY <1>3, DumpOfFile
    <3>2. e.messages = [j \in 1 .. Len(t) |-> e.messages[j]]
      BY <1>1, DumpOfFile
    <3> QED BY <3>1, <3>2
  <2>5. ASSUME NEW j, j \in 1 .. Len(s), j \in 1 .. Len(t) PROVE TextDump(s[j]) = TextDump(t[j]) <=> Text(s[j]) = Text(t[j])
    <3>1. s[j] \in Range(Contents[a].messages) /\ t[j] \in Range(Contents[b].messages)
      <4> HIDE DEF s, t
      <4> QED BY <2>1, <2>2, <2>5, ElementOfSeq
    <3> HIDE DEF s, t
    <3>2. s[j].filepos \in Seq(Range(s[j].filepos)) /\ \A f \in Range(s[j].filepos) : f = <<f[1], f[2]>>
      BY <3>1, ContentFacts
    <3>3. t[j].filepos \in Seq(Range(t[j].filepos)) /\ \A f \in Range(t[j].filepos) : f = <<f[1], f[2]>>
      BY <3>1, ContentFacts
    <3> QED BY <3>2, <3>3, SameText
  <2> HIDE DEF s, t, d, e
  <2>6. ASSUME d = e PROVE Contents[a].date = Contents[b].date /\ x = y
    <3>1. DOMAIN s = DOMAIN t /\ Contents[a].date = Contents[b].date
      BY <2>1, <2>2, <2>6
    <3>2. \A j \in DOMAIN s : TextDump(s[j]) = TextDump(t[j]) /\ j \in 1 .. Len(s) /\ j \in 1 .. Len(t)
      BY <2>1, <2>2, <2>6, <3>1
    <3>3. \A j \in DOMAIN s : Text(s[j]) = Text(t[j])
      BY <2>5, <3>2
    <3> QED BY <3>1, <3>3
  <2>7. ASSUME Contents[a].date = Contents[b].date, x = y PROVE d = e
    <3>1. DOMAIN s = DOMAIN t
      <4>1. DOMAIN x = DOMAIN s /\ DOMAIN y = DOMAIN t
        OBVIOUS
      <4> HIDE DEF x, y
      <4> QED BY <2>7, <4>1
    <3>2. \A j \in DOMAIN s : Text(s[j]) = Text(t[j])
      <4>1. (\A j \in DOMAIN s : x[j] = Text(s[j])) /\ (\A j \in DOMAIN t : y[j] = Text(t[j]))
        OBVIOUS
      <4> HIDE DEF x, y
      <4> QED BY <2>7, <3>1, <4>1
    <3>3. \A j \in DOMAIN s : d.messages[j] = e.messages[j]
      BY <2>1, <2>2, <2>5, <3>1, <3>2
    <3>4. d.messages = e.messages
      BY <2>1, <2>2, <2>4, <3>1, <3>3
    <3> QED BY <2>1, <2>2, <2>3, <2>7, <3>4
  <2>8. d = e <=> Contents[a].date = Contents[b].date /\ x = y
    BY <2>6, <2>7
  <2>9. calculateTpHash[a] = calculateTpHash[b] <=> d = e
    BY <1>1, <1>3, HashOfDump DEF DumpOf, d, e
  <2>10. SameTemplate(a, b) <=> Contents[a].date = Contents[b].date /\ x = y
    <3> HIDE DEF x, y
    <3>1. x = [i \in DOMAIN readMessages(a) |-> Text(readMessages(a)[i])] /\ y = [i \in DOMAIN readMessages(b) |-> Text(readMessages(b)[i])]
      BY DEF x, y, s, t
    <3> QED BY <1>1, <1>3, <3>1 DEF SameTemplate
  <2> QED BY <2>8, <2>9, <2>10
<1> QED BY <1>2, <1>3

\* A tree has a version of the template when it has a file of its hash.
LEMMA VersionHas ==
  ASSUME NEW t \in Trees, NEW b \in DOMAIN Contents, calculateTpHash[b] # 0
  PROVE  /\ (\E f \in {x \in FilesOf(t) : Last(x.file) \in PoNames} : SameTemplate(f.oid, b))
              <=> \E o \in Blobs : HasFile(t, calculateTpHash[b], o)
         /\ \A o : HasFile(t, calculateTpHash[b], o) =>
              o \in Blobs /\ \E f \in {x \in FilesOf(t) : Last(x.file) \in PoNames} : f.oid = o
<1> DEFINE tp == calculateTpHash[b]
<1>1. \A f \in FilesOf(t) : f.oid \in Blobs /\ f.oid \in DOMAIN Contents
  <2>1. \A f \in FilesOf(t) : f \in FileRecords
    BY FilesFacts
  <2>2. \A f \in FileRecords : f.oid \in Blobs
    BY DEF FileRecords
  <2>3. Blobs \subseteq DOMAIN Contents
    BY LoaderAssumption
  <2> QED BY <2>1, <2>2, <2>3
<1>2. \A f \in FilesOf(t) : SameTemplate(f.oid, b) <=> calculateTpHash[f.oid] = tp
  BY <1>1, HashOfTemplate
<1>3. ASSUME NEW f \in FilesOf(t), Last(f.file) \in PoNames, SameTemplate(f.oid, b) PROVE HasFile(t, tp, f.oid) /\ f.oid \in Blobs
  BY <1>1, <1>2, <1>3 DEF HasFile
<1>4. ASSUME NEW o, HasFile(t, tp, o)
      PROVE  \E f \in {x \in FilesOf(t) : Last(x.file) \in PoNames} : f.oid = o /\ SameTemplate(f.oid, b) /\ o \in Blobs
  <2>1. PICK f \in FilesOf(t) : Last(f.file) \in PoNames /\ f.oid = o /\ calculateTpHash[o] = tp
    BY <1>4 DEF HasFile
  <2> QED BY <1>1, <1>2, <2>1
<1> HIDE DEF tp
<1>5. (\E f \in {x \in FilesOf(t) : Last(x.file) \in PoNames} : SameTemplate(f.oid, b)) <=> \E o \in Blobs : HasFile(t, tp, o)
  BY <1>3, <1>4
<1>6. \A o : HasFile(t, tp, o) => o \in Blobs /\ \E f \in {x \in FilesOf(t) : Last(x.file) \in PoNames} : f.oid = o
  BY <1>4
<1> QED BY <1>5, <1>6 DEF tp

\* The messages of two files of a template have the same numbers.
LEMMA SameNumbers ==
  ASSUME NEW a \in DOMAIN Contents, NEW b \in DOMAIN Contents, SameTemplate(a, b)
  PROVE  /\ get_pot_length(a) = Len(readMessages(b))
         /\ \A k \in DOMAIN readMessages(b) : readMessages(a)[k].orig = readMessages(b)[k].orig
<1> DEFINE s == readMessages(a)
           t == readMessages(b)
           x == [i \in DOMAIN s |-> Text(s[i])]
           y == [i \in DOMAIN t |-> Text(t[i])]
<1>1. s \in Seq(Range(Contents[a].messages)) /\ Len(s) = get_pot_length(a)
  BY DumpOfFile DEF SameTemplate
<1>2. t \in Seq(Range(Contents[b].messages))
  BY DumpOfFile DEF SameTemplate
<1>3. x = y
  BY DEF SameTemplate
<1> HIDE DEF s, t
<1>4. DOMAIN s = DOMAIN t
  <2>1. DOMAIN x = DOMAIN s /\ DOMAIN y = DOMAIN t
    OBVIOUS
  <2> HIDE DEF x, y
  <2> QED BY <1>3, <2>1
<1>5. Len(s) = Len(t)
  <2>1. 1 .. Len(s) = 1 .. Len(t) /\ Len(s) \in Nat /\ Len(t) \in Nat
    BY <1>1, <1>2, <1>4, LenProperties
  <2>2. ASSUME NEW m \in Nat, NEW n \in Nat, 1 .. m = 1 .. n PROVE m = n
    <3>1. (m # 0 => m \in 1 .. n) /\ (n # 0 => n \in 1 .. m)
      BY <2>2
    <3> QED BY <3>1
  <2> QED BY <2>1, <2>2
<1>6. ASSUME NEW k \in DOMAIN t PROVE s[k].orig = t[k].orig
  <2>1. x[k] = Text(s[k]) /\ y[k] = Text(t[k])
    BY <1>4
  <2>2. Text(s[k]) = Text(t[k])
    <3> HIDE DEF x, y
    <3> QED BY <1>3, <2>1
  <2>3. Text(s[k]).orig = s[k].orig /\ Text(t[k]).orig = t[k].orig
    BY DEF Text
  <2> QED BY <2>2, <2>3
<1> QED BY <1>1, <1>5, <1>6 DEF s, t

\* The versions of the template in a repository: none, or the first of them is that of the answer.
LEMMA VersionsOf ==
  ASSUME NEW r \in Repos, NEW h \in Histories[r], NEW b \in DOMAIN Contents, calculateTpHash[b] # 0
  PROVE  LET po(n)    == {f \in FilesOf(h[n].tree) : Last(f.file) \in PoNames}
             versions == {n \in DOMAIN h : \E f \in po(n) : SameTemplate(f.oid, b)}
         IN  /\ NoneIn(h, calculateTpHash[b]) => versions = {}
             /\ \A oid : FirstIn(h, calculateTpHash[b], oid) =>
                  versions # {} /\ \E f \in po(Min(versions)) : f.oid = oid
<1> DEFINE po(n)    == {f \in FilesOf(h[n].tree) : Last(f.file) \in PoNames}
           versions == {n \in DOMAIN h : \E f \in po(n) : SameTemplate(f.oid, b)}
           tp       == calculateTpHash[b]
<1>1. DOMAIN h = 1 .. Len(h) /\ Len(h) \in Nat /\ \A n \in 1 .. Len(h) : h[n].tree \in Trees
  BY HistoryFacts
<1>2. \A n \in 1 .. Len(h) : n \in versions <=> \E o \in Blobs : HasFile(h[n].tree, tp, o)
  BY <1>1, VersionHas
<1>3. versions \subseteq Nat /\ versions \subseteq 1 .. Len(h)
  BY <1>1
<1>4. ASSUME NoneIn(h, tp) PROVE versions = {}
  <2>1. \A n \in 1 .. Len(h) : n \in 1 .. (Len(h) + 1) - 1
    BY <1>1
  <2> HIDE DEF versions
  <2> QED BY <1>2, <1>3, <1>4, <2>1 DEF NoneIn, NotBefore
<1>5. ASSUME NEW oid, FirstIn(h, tp, oid) PROVE versions # {} /\ \E f \in po(Min(versions)) : f.oid = oid
  <2>1. PICK n \in 1 .. Len(h) : HasFile(h[n].tree, tp, oid) /\ NotBefore(h, n, tp)
    BY <1>5 DEF FirstIn
  <2>2. oid \in Blobs /\ \E f \in po(n) : f.oid = oid
    BY <1>1, <2>1, VersionHas
  <2> HIDE DEF versions, po
  <2>3. n \in versions
    BY <1>2, <2>1, <2>2
  <2>4. Min(versions) \in versions /\ \A x \in versions : Min(versions) <= x
    BY <1>3, <2>3, MinOf
  <2>5. Min(versions) \in Nat /\ Min(versions) <= n /\ n \in Nat
    BY <1>3, <2>3, <2>4
  <2>6. Min(versions) >= n
    <3>1. SUFFICES ASSUME Min(versions) < n PROVE FALSE
      BY <2>5
    <3>2. Min(versions) \in 1 .. n - 1
      BY <1>3, <2>4, <2>5, <3>1
    <3> QED BY <1>2, <1>3, <2>1, <2>4, <3>2 DEF NotBefore
  <2>7. Min(versions) = n
    BY <2>5, <2>6
  <2> QED BY <2>2, <2>3, <2>7
<1> HIDE DEF tp
<1>6. (NoneIn(h, tp) => versions = {}) /\ \A oid : FirstIn(h, tp, oid) => versions # {} /\ \E f \in po(Min(versions)) : f.oid = oid
  BY <1>4, <1>5
<1> QED BY <1>6 DEF tp

\* A recorded blob is an answer as AnswersAreOldest asks for.
LEMMA AnswersGiven == ASSUME ReadInv, CacheInv PROVE AnswersAreOldest
<1> SUFFICES ASSUME pc = "answered"
             PROVE  LET po(r, n)    == {f \in FilesOf(git[r][n].tree) : Last(f.file) \in PoNames}
                        versions(r) == {n \in DOMAIN git[r] : \E f \in po(r, n) : SameTemplate(f.oid, input)}
                    IN  IF answer = 0 THEN \A r \in Repos : versions(r) = {}
                        ELSE /\ SameTemplate(answer, input)
                             /\ \E r \in Repos : versions(r) # {} /\ \E f \in po(r, Min(versions(r))) : f.oid = answer
                             /\ get_pot_length(answer) = Len(readMessages(input))
                             /\ \A k \in DOMAIN readMessages(input) :
                                  readMessages(answer)[k].orig = readMessages(input)[k].orig
  BY DEF AnswersAreOldest
<1> DEFINE po(r, n)    == {f \in FilesOf(git[r][n].tree) : Last(f.file) \in PoNames}
           versions(r) == {n \in DOMAIN git[r] : \E f \in po(r, n) : SameTemplate(f.oid, input)}
           tp          == calculateTpHash[input]
<1>1. /\ input \in DOMAIN Contents /\ tp # 0
      /\ IF answer = 0 THEN \A r \in Repos : NoneIn(git[r], tp) ELSE Recorded(tp, answer)
  BY LoaderAssumption DEF CacheInv, QuestionInv
<1>2. ASSUME NEW r \in Repos
      PROVE  /\ NoneIn(git[r], tp) => versions(r) = {}
             /\ \A oid : FirstIn(git[r], tp, oid) => versions(r) # {} /\ \E f \in po(r, Min(versions(r))) : f.oid = oid
  <2>1. git[r] \in Histories[r]
    BY DEF ReadInv
  <2> QED BY <1>1, <2>1, VersionsOf
<1>3. CASE answer = 0
  <2> HIDE DEF tp
  <2>1. \A r \in Repos : versions(r) = {}
    BY <1>1, <1>2, <1>3
  <2> QED BY <1>3, <2>1
<1>4. CASE answer # 0
  <2>1. PICK r \in Repos : FirstIn(git[r], tp, answer)
    BY <1>1, <1>4 DEF Recorded
  <2>2. versions(r) # {} /\ \E f \in po(r, Min(versions(r))) : f.oid = answer
    BY <1>2, <2>1
  <2>3. answer \in Blobs /\ answer \in DOMAIN Contents
    BY <1>1, <1>4, LoaderAssumption DEF Recorded
  <2>4. calculateTpHash[answer] = tp
    BY <2>1 DEF FirstIn, HasFile
  <2>5. SameTemplate(answer, input)
    BY <1>1, <2>3, <2>4, HashOfTemplate
  <2>6. /\ get_pot_length(answer) = Len(readMessages(input))
        /\ \A k \in DOMAIN readMessages(input) : readMessages(answer)[k].orig = readMessages(input)[k].orig
    BY <1>1, <2>3, <2>5, SameNumbers
  <2> QED BY <1>4, <2>2, <2>5, <2>6
<1> QED BY <1>3, <1>4

\* As long as no second record is cut: the answer is the first version of the template of the file that is asked for in one
\* of the repositories, and its messages have the numbers of those of the file; no answer means that none has a version.
THEOREM OldestAnswers == LoaderSpec => [](MaxCuts <= 1 => AnswersAreOldest)
<1>1. ReadInv /\ (MaxCuts <= 1 => CacheInv) => (MaxCuts <= 1 => AnswersAreOldest)
  BY AnswersGiven
<1> QED BY <1>1, TypesHold, CacheHolds, PTL

(* The search for a change finds it. *)

\* strcmp tells any two pathnames apart, and one of them comes first.
LEMMA BeforeOnce == ASSUME NEW p \in Seq(Nat), NEW q \in Seq(Nat), Before(p, q), Before(q, p) PROVE FALSE
<1>0. Len(p) \in Nat /\ Len(q) \in Nat /\ (\A i \in 1 .. Len(p) : p[i] \in Nat) /\ (\A i \in 1 .. Len(q) : q[i] \in Nat)
  OBVIOUS
<1>1. PICK i \in 1 .. Len(q) : (\A m \in 1 .. i - 1 : m <= Len(p) /\ p[m] = q[m]) /\ (i > Len(p) \/ p[i] < q[i])
  BY DEF Before
<1>2. PICK j \in 1 .. Len(p) : (\A m \in 1 .. j - 1 : m <= Len(q) /\ q[m] = p[m]) /\ (j > Len(q) \/ q[j] < p[j])
  BY DEF Before
<1>3. CASE i < j
  <2>1. i \in 1 .. j - 1 /\ i \in 1 .. Len(p)
    BY <1>0, <1>3
  <2>2. q[i] = p[i] /\ p[i] < q[i] /\ p[i] \in Nat
    BY <1>0, <1>1, <1>2, <2>1
  <2> QED BY <2>2
<1>4. CASE j < i
  <2>1. j \in 1 .. i - 1 /\ j \in 1 .. Len(q)
    BY <1>0, <1>4
  <2>2. q[j] = p[j] /\ q[j] < p[j] /\ p[j] \in Nat
    BY <1>0, <1>1, <1>2, <2>1
  <2> QED BY <2>2
<1>5. CASE i = j
  <2>1. p[i] < q[i] /\ q[i] < p[i] /\ p[i] \in Nat /\ q[i] \in Nat
    BY <1>0, <1>1, <1>2, <1>5
  <2> QED BY <2>1
<1>6. i \in Nat /\ j \in Nat
  BY <1>0
<1> QED BY <1>3, <1>4, <1>5, <1>6

\* Of two pathnames that differ, one comes before the other.
LEMMA BeforeAny == ASSUME NEW p \in Seq(Nat), NEW q \in Seq(Nat), p # q PROVE Before(p, q) \/ Before(q, p)
<1>0. Len(p) \in Nat /\ Len(q) \in Nat /\ DOMAIN p = 1 .. Len(p) /\ DOMAIN q = 1 .. Len(q)
      /\ (\A i \in 1 .. Len(p) : p[i] \in Nat) /\ (\A i \in 1 .. Len(q) : q[i] \in Nat)
  OBVIOUS
<1> DEFINE D == {i \in Nat : i \in 1 .. Len(p) /\ i \in 1 .. Len(q) /\ p[i] # q[i]}
<1>1. CASE D # {}
  <2>1. PICK i \in D : \A x \in D : i <= x
    <3>1. D \subseteq Nat
      OBVIOUS
    <3> HIDE DEF D
    <3> QED BY <1>1, <3>1, LeastOf
  <2>2. \A m \in 1 .. i - 1 : m <= Len(p) /\ m <= Len(q) /\ p[m] = q[m]
    <3> SUFFICES ASSUME NEW m \in 1 .. i - 1 PROVE m <= Len(p) /\ m <= Len(q) /\ p[m] = q[m]
      OBVIOUS
    <3>1. m \in Nat /\ m \in 1 .. Len(p) /\ m \in 1 .. Len(q) /\ ~(i <= m)
      BY <1>0
    <3>2. m \notin D
      BY <2>1, <3>1
    <3> QED BY <1>0, <3>1, <3>2
  <2>3. p[i] < q[i] \/ q[i] < p[i]
    <3>1. p[i] \in Nat /\ q[i] \in Nat /\ p[i] # q[i]
      BY <1>0
    <3> QED BY <3>1
  <2>4. i \in 1 .. Len(p) /\ i \in 1 .. Len(q)
    OBVIOUS
  <2> HIDE DEF D
  <2> QED BY <2>2, <2>3, <2>4 DEF Before
<1>2. CASE D = {}
  <2>1. \A m \in Nat : m \in 1 .. Len(p) /\ m \in 1 .. Len(q) => p[m] = q[m]
    BY <1>2
  <2>2. CASE Len(p) = Len(q)
    <3>1. \A m \in 1 .. Len(p) : p[m] = q[m]
      BY <1>0, <2>1, <2>2
    <3>2. p = q
      BY <1>0, <2>2, <3>1, SeqEqual
    <3> QED BY <3>2
  <2>3. CASE Len(p) < Len(q)
    <3> DEFINE i == Len(p) + 1
    <3>1. i \in 1 .. Len(q) /\ i > Len(p) /\ \A m \in 1 .. i - 1 : m <= Len(p) /\ p[m] = q[m]
      BY <1>0, <2>1, <2>3
    <3> QED BY <3>1 DEF Before
  <2>4. CASE Len(q) < Len(p)
    <3> DEFINE i == Len(q) + 1
    <3>1. i \in 1 .. Len(p) /\ i > Len(q) /\ \A m \in 1 .. i - 1 : m <= Len(q) /\ q[m] = p[m]
      BY <1>0, <2>1, <2>4
    <3> QED BY <3>1 DEF Before
  <2>5. Len(p) = Len(q) \/ Len(p) < Len(q) \/ Len(q) < Len(p)
    <3>1. Len(p) \in Nat /\ Len(q) \in Nat
      BY <1>0
    <3> QED BY <3>1
  <2> QED BY <2>2, <2>3, <2>4, <2>5
<1> QED BY <1>1, <1>2

\* The binary search comes to the number of the change when it is in its range.
LEMMA SearchFinds ==
  ASSUME NEW changes, Len(changes) \in Nat, NEW file, NEW n \in 1 .. Len(changes),
         \A m \in 1 .. Len(changes) : m < n => Before(build_pathname(changes[m].file), build_pathname(file)),
         \A m \in 1 .. Len(changes) : m >= n => ~Before(build_pathname(changes[m].file), build_pathname(file)),
         \A m \in 1 .. Len(changes) : m > n => Before(build_pathname(file), build_pathname(changes[m].file)),
         ~Before(build_pathname(file), build_pathname(changes[n].file))
  PROVE  findChange(changes, file) = n
<1> DEFINE N == Len(changes)
           pattern == build_pathname(file)
           path(m) == build_pathname(changes[m].file)
<1>1. PICK f : /\ \A l \in 1 .. N + 1 : \A r \in 0 .. N : f[<<l, r>>] = SearchBody(f, changes, pattern, <<l, r>>)
               /\ findChange(changes, file) = f[<<1, N>>]
  BY SearchFacts
<1> DEFINE T == {d \in Nat : \A l \in 1 .. N + 1 : \A r \in 0 .. N : r - l < d /\ l <= n /\ n <= r => f[<<l, r>>] = n}
<1>2. /\ \A m \in 1 .. N : m < n => Before(path(m), pattern)
      /\ \A m \in 1 .. N : m >= n => ~Before(path(m), pattern)
      /\ \A m \in 1 .. N : m > n => Before(pattern, path(m))
      /\ ~Before(pattern, path(n)) /\ n \in 1 .. N
  OBVIOUS
<1>0. N \in Nat
  OBVIOUS
<1>6. \A l \in 1 .. N + 1 : \A r \in 0 .. N : l <= r =>
        LET m == (l + r) \div 2
        IN  f[<<l, r>>] = IF Before(path(m), pattern) THEN f[<<m + 1, r>>] ELSE IF Before(pattern, path(m)) THEN f[<<l, m - 1>>] ELSE m
  <2> SUFFICES ASSUME NEW l \in 1 .. N + 1, NEW r \in 0 .. N, l <= r
               PROVE  LET m == (l + r) \div 2
                      IN  f[<<l, r>>] = IF Before(path(m), pattern) THEN f[<<m + 1, r>>]
                                        ELSE IF Before(pattern, path(m)) THEN f[<<l, m - 1>>] ELSE m
    OBVIOUS
  <2>1. ~(l > r)
    BY <1>0
  <2> HIDE DEF pattern
  <2> QED BY <1>1, <2>1 DEF SearchBody
<1> HIDE DEF N, pattern, path
<1>3. 0 \in T
  BY <1>0
<1>4. ASSUME NEW d \in Nat, d \in T PROVE d + 1 \in T
  <2> SUFFICES ASSUME NEW l \in 1 .. N + 1, NEW r \in 0 .. N, r - l < d + 1, l <= n, n <= r PROVE f[<<l, r>>] = n
    OBVIOUS
  <2> DEFINE m == (l + r) \div 2
  <2>0. l <= r /\ n \in Nat
    BY <1>0, <1>2
  <2>1. m \in 1 .. N /\ m + 1 \in 1 .. N + 1 /\ m - 1 \in 0 .. N /\ r - (m + 1) < d /\ (m - 1) - l < d
    BY <1>0, <2>0, Halves
  <2>2. f[<<l, r>>] = IF Before(path(m), pattern) THEN f[<<m + 1, r>>] ELSE IF Before(pattern, path(m)) THEN f[<<l, m - 1>>] ELSE m
    BY <1>6, <2>0
  <2> HIDE DEF m
  <2>3. CASE m < n
    <3>1. f[<<m + 1, r>>] = n
      <4>1. m + 1 <= n
        BY <2>0, <2>1, <2>3
      <4> QED BY <1>4, <2>1, <4>1
    <3> QED BY <1>2, <2>1, <2>2, <2>3, <3>1
  <2>4. CASE m > n
    <3>1. f[<<l, m - 1>>] = n
      <4>1. n <= m - 1
        BY <2>0, <2>1, <2>4
      <4> QED BY <1>4, <2>1, <4>1
    <3>2. m >= n
      BY <2>0, <2>1, <2>4
    <3> QED BY <1>2, <2>1, <2>2, <2>4, <3>1, <3>2
  <2>5. CASE m = n
    <3>1. m >= n
      BY <2>0, <2>5
    <3> QED BY <1>2, <2>1, <2>2, <2>5, <3>1
  <2> QED BY <2>0, <2>1, <2>3, <2>4, <2>5
<1>5. N + 1 \in T
  <2> HIDE DEF T
  <2> QED BY <1>0, <1>3, <1>4, SetInduction
<1>7. f[<<1, N>>] = n
  <2>1. 1 \in 1 .. N + 1 /\ N \in 0 .. N /\ N - 1 < N + 1 /\ 1 <= n /\ n <= N
    BY <1>0, <1>2
  <2> QED BY <1>5, <2>1
<1> QED BY <1>1, <1>7 DEF N

\* A pathname of two names is not one of one name.
LEMMA LenAbove == ASSUME NEW s \in Seq(Nat), Len(s) > 1 PROVE Len(s) # 1
<1>1. Len(s) \in Nat
  BY LenProperties
<1>2. \A n \in Nat : n > 1 => n # 1
  OBVIOUS
<1> QED BY <1>1, <1>2

\* The changes of a commit that are about files in directories, as findChange sees them.
DeepChanges(d) == d \in Seq(Changes) /\ Pairwise(d, FileOrder) /\ \A c \in Range(d) : Len(c.file) > 1

\* The changes are in the order that findChange searches by.
LEMMA DeepFacts ==
  ASSUME NEW d, DeepChanges(d)
  PROVE  /\ Len(d) \in Nat /\ DOMAIN d = 1 .. Len(d)
         /\ \A n \in 1 .. Len(d) : d[n] \in Changes /\ d[n].file \in Seq(Nat) /\ build_pathname(d[n].file) = d[n].file
         /\ \A m, n \in 1 .. Len(d) : m < n => Before(d[m].file, d[n].file)
<1>1. Len(d) \in Nat /\ DOMAIN d = 1 .. Len(d)
  BY LenProperties DEF DeepChanges
<1>2. \A n \in 1 .. Len(d) : d[n] \in Changes
  BY ElementOfSeq DEF DeepChanges
<1>3. ASSUME NEW n \in 1 .. Len(d) PROVE d[n].file \in Seq(Nat) /\ build_pathname(d[n].file) = d[n].file
  <2>1. d[n].file \in Seq(Nat) /\ d[n] \in Range(d)
    BY <1>1, <1>2 DEF Changes, Range
  <2>2. Len(d[n].file) # 1
    <3>1. Len(d[n].file) > 1
      BY <2>1 DEF DeepChanges
    <3> QED BY <2>1, <3>1, LenAbove
  <2> QED BY <2>1, <2>2 DEF build_pathname
<1>4. \A m, n \in 1 .. Len(d) : m < n => Before(d[m].file, d[n].file)
  BY <1>1 DEF DeepChanges, Pairwise, FileOrder
<1> QED BY <1>1, <1>2, <1>3, <1>4

\* findChange finds the change of a file in a directory if there is one.
LEMMA ChangeFound ==
  ASSUME NEW d, DeepChanges(d), NEW file \in Seq(Nat), Len(file) > 1
  PROVE  LET n == findChange(d, file)
         IN  /\ n \in 0 .. Len(d) /\ (n # 0 => d[n].file = file)
             /\ n = 0 => \A c \in Range(d) : c.file # file
<1> DEFINE n == findChange(d, file)
<1>1. /\ Len(d) \in Nat /\ DOMAIN d = 1 .. Len(d)
      /\ \A m \in 1 .. Len(d) : d[m].file \in Seq(Nat) /\ build_pathname(d[m].file) = d[m].file
      /\ \A l, m \in 1 .. Len(d) : l < m => Before(d[l].file, d[m].file)
  BY DeepFacts
<1>2. build_pathname(file) = file
  <2>1. Len(file) # 1
    BY LenAbove
  <2> QED BY <2>1 DEF build_pathname
<1>3. n \in 0 .. Len(d) /\ (n # 0 => ~Before(build_pathname(d[n].file), file) /\ ~Before(file, build_pathname(d[n].file)))
  BY <1>1, <1>2, FoundChange
<1>4. ASSUME NEW k \in 1 .. Len(d), d[k].file = file PROVE n = k
  <2>1. \A m \in 1 .. Len(d) : m < k => Before(d[m].file, file)
    BY <1>1, <1>4
  <2>2. \A m \in 1 .. Len(d) : m > k => Before(file, d[m].file)
    BY <1>1, <1>4
  <2>3. ~Before(file, file)
    BY BeforeOnce
  <2>4. \A m \in 1 .. Len(d) : m >= k => ~Before(d[m].file, file)
    <3> SUFFICES ASSUME NEW m \in 1 .. Len(d), m >= k, Before(d[m].file, file) PROVE FALSE
      OBVIOUS
    <3>1. m = k \/ m > k
      BY <1>1
    <3> QED BY <1>1, <1>4, <2>2, <2>3, <3>1, BeforeOnce
  <2> HIDE DEF n
  <2>5. findChange(d, file) = k
    <3>1. \A m \in 1 .. Len(d) : m < k => Before(build_pathname(d[m].file), build_pathname(file))
      BY <1>1, <1>2, <2>1
    <3>2. \A m \in 1 .. Len(d) : m >= k => ~Before(build_pathname(d[m].file), build_pathname(file))
      BY <1>1, <1>2, <2>4
    <3>3. \A m \in 1 .. Len(d) : m > k => Before(build_pathname(file), build_pathname(d[m].file))
      BY <1>1, <1>2, <2>2
    <3>4. ~Before(build_pathname(file), build_pathname(d[k].file))
      BY <1>1, <1>2, <1>4, <2>3
    <3>5. Len(d) \in Nat
      BY <1>1
    <3> QED BY <3>1, <3>2, <3>3, <3>4, <3>5, SearchFinds
  <2> QED BY <2>5 DEF n
<1> HIDE DEF n
<1>5. n # 0 => d[n].file = file
  <2> SUFFICES ASSUME n # 0 PROVE d[n].file = file
    OBVIOUS
  <2>1. n \in 1 .. Len(d)
    BY <1>1, <1>3
  <2>2. d[n].file \in Seq(Nat) /\ ~Before(d[n].file, file) /\ ~Before(file, d[n].file)
    BY <1>1, <1>3, <2>1
  <2> QED BY <2>2, BeforeAny
<1>6. n = 0 => \A c \in Range(d) : c.file # file
  <2> SUFFICES ASSUME n = 0, NEW k \in DOMAIN d, d[k].file = file PROVE FALSE
    BY DEF Range
  <2>1. n = k /\ k \in 1 .. Len(d)
    BY <1>1, <1>4
  <2> QED BY <1>1, <2>1
<1> QED BY <1>3, <1>5, <1>6 DEF n

\* Two changes of one file are one change.
LEMMA OneChange ==
  ASSUME NEW d, d \in Seq(Changes), Pairwise(d, FileOrder), NEW b \in Range(d), NEW c \in Range(d), b.file = c.file
  PROVE  b = c
<1>1. PICK i \in DOMAIN d : d[i] = b
  BY DEF Range
<1>2. PICK j \in DOMAIN d : d[j] = c
  BY DEF Range
<1>3. DOMAIN d = 1 .. Len(d) /\ Len(d) \in Nat /\ d[i] \in Changes
  BY LenProperties, ElementOfSeq
<1>4. b.file \in Seq(Nat)
  BY <1>1, <1>3 DEF Changes
<1>5. ASSUME i < j PROVE FALSE
  <2>1. Before(b.file, b.file)
    BY <1>1, <1>2, <1>5 DEF Pairwise, FileOrder
  <2> QED BY <1>4, <2>1, BeforeOnce
<1>6. ASSUME j < i PROVE FALSE
  <2>1. Before(b.file, b.file)
    BY <1>1, <1>2, <1>6 DEF Pairwise, FileOrder
  <2> QED BY <1>4, <2>1, BeforeOnce
<1> QED BY <1>1, <1>2, <1>3, <1>5, <1>6

\* A tree has one file of a pathname.
LEMMA OneFile ==
  ASSUME NEW t \in Trees, NEW f \in FilesOf(t), NEW g \in FilesOf(t), f.file = g.file
  PROVE  f = g
<1> DEFINE d == diffTree[<<Empty, t, <<>>>>]
<1>1. Rebuilds(d, FilesOf(Empty), FilesOf(t))
  <2>1. Empty \in Trees /\ <<>> \in Seq(Nat)
    BY TreeFacts
  <2> QED BY <2>1, DiffRebuilds DEF FilesOf
<1> HIDE DEF d
<1>2. d \in Seq(Changes) /\ Pairwise(d, FileOrder) /\ f \in Brought(d) /\ g \in Brought(d)
  BY <1>1, FilesFacts DEF Rebuilds
<1>3. PICK b \in Range(d) : f = [file |-> b.file, oid |-> b.oid2]
  BY <1>2 DEF Brought
<1>4. PICK c \in Range(d) : g = [file |-> c.file, oid |-> c.oid2]
  BY <1>2 DEF Brought
<1>5. b = c
  BY <1>2, <1>3, <1>4, OneChange
<1> QED BY <1>3, <1>4, <1>5

(* The versions of a file, and what the searches in one commit make of them. *)

\* The blob that a tree has under a pathname, or 0.
TreeOid(t, file) ==
  LET here == {f \in FilesOf(t) : f.file = file} IN IF here = {} THEN 0 ELSE (CHOOSE f \in here : TRUE).oid
TreeAt(h, n) == IF n = 0 THEN Empty ELSE h[n].tree
Version(h, n, file) == TreeOid(TreeAt(h, n), file)

\* A tree has the blob that is in its files, and none where no file is.
LEMMA OidFacts ==
  ASSUME NEW t \in Trees
  PROVE  /\ \A f \in FilesOf(t) : f = [file |-> f.file, oid |-> f.oid] /\ TreeOid(t, f.file) = f.oid /\ f.oid \in Nat \ {0}
         /\ \A file : (\A f \in FilesOf(t) : f.file # file) => TreeOid(t, file) = 0
<1>1. ASSUME NEW f \in FilesOf(t) PROVE f = [file |-> f.file, oid |-> f.oid] /\ TreeOid(t, f.file) = f.oid /\ f.oid \in Nat \ {0}
  <2> DEFINE here == {g \in FilesOf(t) : g.file = f.file}
  <2>1. f \in here
    OBVIOUS
  <2>2. \A g \in here : g = f
    BY OneFile
  <2>3. (CHOOSE g \in here : TRUE) = f
    <3> HIDE DEF here
    <3> QED BY <2>1, <2>2
  <2>4. f \in FileRecords
    BY FilesFacts
  <2>5. f = [file |-> f.file, oid |-> f.oid] /\ f.oid \in Nat \ {0}
    BY <2>4, BlobFacts DEF FileRecords
  <2>6. TreeOid(t, f.file) = IF here = {} THEN 0 ELSE (CHOOSE g \in here : TRUE).oid
    BY DEF TreeOid
  <2> HIDE DEF here
  <2> QED BY <2>1, <2>3, <2>5, <2>6
<1>2. ASSUME NEW file, \A f \in FilesOf(t) : f.file # file PROVE TreeOid(t, file) = 0
  <2>1. {f \in FilesOf(t) : f.file = file} = {}
    BY <1>2
  <2> QED BY <2>1 DEF TreeOid
<1> QED BY <1>1, <1>2

\* Either a tree has no file of the pathname, or the one with its blob.
LEMMA OidCases ==
  ASSUME NEW t \in Trees, NEW file
  PROVE  \/ TreeOid(t, file) = 0 /\ \A f \in FilesOf(t) : f.file # file
         \/ \E f \in FilesOf(t) : f.file = file /\ f.oid = TreeOid(t, file) /\ TreeOid(t, file) # 0
<1>1. CASE \A f \in FilesOf(t) : f.file # file
  BY <1>1, OidFacts
<1>2. CASE \E f \in FilesOf(t) : f.file = file
  <2>1. PICK f \in FilesOf(t) : f.file = file
    BY <1>2
  <2> QED BY <2>1, OidFacts
<1> QED BY <1>1, <1>2

\* A change is from the version of the one tree to that of the other.
LEMMA ChangeOids ==
  ASSUME NEW a \in Trees, NEW b \in Trees, NEW d, Rebuilds(d, FilesOf(a), FilesOf(b)), NEW c \in Range(d)
  PROVE  c.oid1 = TreeOid(a, c.file) /\ c.oid2 = TreeOid(b, c.file)
<1> DEFINE old == [file |-> c.file, oid |-> c.oid1]
           new == [file |-> c.file, oid |-> c.oid2]
<1>0. d \in Seq(Changes) /\ Pairwise(d, FileOrder) /\ c.oid1 # c.oid2
      /\ Gone(d) = FilesOf(a) \ FilesOf(b) /\ Brought(d) = FilesOf(b) \ FilesOf(a)
  BY DEF Rebuilds
<1>1. c.oid1 # 0 => old \in FilesOf(a) /\ old \notin FilesOf(b)
  <2>1. c.oid1 # 0 => old \in Gone(d)
    BY DEF Gone
  <2> HIDE DEF old
  <2> QED BY <1>0, <2>1
<1>2. c.oid2 # 0 => new \in FilesOf(b) /\ new \notin FilesOf(a)
  <2>1. c.oid2 # 0 => new \in Brought(d)
    BY DEF Brought
  <2> HIDE DEF new
  <2> QED BY <1>0, <2>1
<1>3. old.file = c.file /\ new.file = c.file /\ old.oid = c.oid1 /\ new.oid = c.oid2
  OBVIOUS
<1> HIDE DEF old, new
<1>4. ASSUME c.oid1 = 0, NEW f \in FilesOf(a), f.file = c.file PROVE FALSE
  <2>1. c.oid2 # 0
    BY <1>0, <1>4
  <2>2. f \notin FilesOf(b)
    <3> SUFFICES ASSUME f \in FilesOf(b) PROVE FALSE
      OBVIOUS
    <3>1. f = new
      BY <1>2, <1>3, <1>4, <2>1, OneFile
    <3> QED BY <1>2, <1>4, <2>1, <3>1
  <2>3. f \in Gone(d)
    BY <1>0, <1>4, <2>2
  <2>4. PICK x \in Range(d) : x.oid1 # 0 /\ f = [file |-> x.file, oid |-> x.oid1]
    BY <2>3 DEF Gone
  <2>5. x.file = c.file
    BY <1>4, <2>4
  <2>6. x = c
    BY <1>0, <2>5, OneChange
  <2> QED BY <1>4, <2>4, <2>6
<1>5. ASSUME c.oid2 = 0, NEW f \in FilesOf(b), f.file = c.file PROVE FALSE
  <2>1. c.oid1 # 0
    BY <1>0, <1>5
  <2>2. f \notin FilesOf(a)
    <3> SUFFICES ASSUME f \in FilesOf(a) PROVE FALSE
      OBVIOUS
    <3>1. f = old
      BY <1>1, <1>3, <1>5, <2>1, OneFile
    <3> QED BY <1>1, <1>5, <2>1, <3>1
  <2>3. f \in Brought(d)
    BY <1>0, <1>5, <2>2
  <2>4. PICK x \in Range(d) : x.oid2 # 0 /\ f = [file |-> x.file, oid |-> x.oid2]
    BY <2>3 DEF Brought
  <2>5. x.file = c.file
    BY <1>5, <2>4
  <2>6. x = c
    BY <1>0, <2>5, OneChange
  <2> QED BY <1>5, <2>4, <2>6
<1>6. c.oid1 = TreeOid(a, c.file)
  <2>1. CASE c.oid1 = 0
    BY <1>4, <2>1, OidFacts
  <2>2. CASE c.oid1 # 0
    BY <1>1, <1>3, <2>2, OidFacts
  <2> QED BY <2>1, <2>2
<1>7. c.oid2 = TreeOid(b, c.file)
  <2>1. CASE c.oid2 = 0
    BY <1>5, <2>1, OidFacts
  <2>2. CASE c.oid2 # 0
    BY <1>2, <1>3, <2>2, OidFacts
  <2> QED BY <2>1, <2>2
<1> QED BY <1>6, <1>7

\* A file that no change is about is the same in both trees.
LEMMA NoChange ==
  ASSUME NEW a \in Trees, NEW b \in Trees, NEW d, Rebuilds(d, FilesOf(a), FilesOf(b)), NEW file,
         \A c \in Range(d) : c.file # file
  PROVE  TreeOid(a, file) = TreeOid(b, file)
<1>0. Gone(d) = FilesOf(a) \ FilesOf(b) /\ Brought(d) = FilesOf(b) \ FilesOf(a)
  BY DEF Rebuilds
<1>1. ASSUME NEW f \in FilesOf(a), f.file = file PROVE f \in FilesOf(b)
  <2> SUFFICES ASSUME f \notin FilesOf(b) PROVE FALSE
    OBVIOUS
  <2>1. f \in Gone(d)
    BY <1>0
  <2>2. PICK x \in Range(d) : f = [file |-> x.file, oid |-> x.oid1]
    BY <2>1 DEF Gone
  <2>3. x.file = file
    BY <1>1, <2>2
  <2> QED BY <2>3
<1>2. ASSUME NEW f \in FilesOf(b), f.file = file PROVE f \in FilesOf(a)
  <2> SUFFICES ASSUME f \notin FilesOf(a) PROVE FALSE
    OBVIOUS
  <2>1. f \in Brought(d)
    BY <1>0
  <2>2. PICK x \in Range(d) : f = [file |-> x.file, oid |-> x.oid2]
    BY <2>1 DEF Brought
  <2>3. x.file = file
    BY <1>2, <2>2
  <2> QED BY <2>3
<1>3. CASE \E f \in FilesOf(a) : f.file = file
  <2>1. PICK f \in FilesOf(a) : f.file = file
    BY <1>3
  <2>2. f \in FilesOf(b)
    BY <1>1, <2>1
  <2> QED BY <2>1, <2>2, OidFacts
<1>4. CASE \A f \in FilesOf(a) : f.file # file
  <2>1. \A f \in FilesOf(b) : f.file # file
    BY <1>2, <1>4
  <2> QED BY <1>4, <2>1, OidFacts
<1> QED BY <1>3, <1>4

\* The files of a tree that has directories only.
LEMMA DeepFiles ==
  ASSUME NEW t \in Trees, \A k \in DOMAIN t : IsDir(k), NEW f \in FilesOf(t)
  PROVE  f.file \in Seq(Nat) /\ Len(f.file) > 1
<1>1. <<>> \in Seq(Nat) /\ DOMAIN t \subseteq Nat
  BY TreeFacts
<1>2. PICK k \in DOMAIN t : f \in FilePart(t, <<>>, k)
  BY <1>1, FilesBelow DEF FilesOf
<1> DEFINE p == Append(<<>>, k)
<1>3. p \in Seq(Nat) /\ Len(p) = 1
  BY <1>1
<1>4. f \in Range(Files[<<t[k], p>>])
  BY <1>2 DEF FilePart, FileAt
<1>5. t[k] \in Trees
  BY TreeFacts
<1> HIDE DEF p
<1>6. PICK j \in DOMAIN t[k] : f \in FilePart(t[k], p, j)
  BY <1>3, <1>4, <1>5, FilesBelow
<1>7. Under(f.file, p, j)
  BY <1>3, <1>5, <1>6, FilesBelow
<1> QED BY <1>3, <1>7 DEF Under

\* Files are in directories only.
InDirs(h) == \A n \in 1 .. Len(h) : \A k \in DOMAIN h[n].tree : IsDir(k)

\* Each commit of a history changes the tree before it into its own.
LEMMA VersionFacts ==
  ASSUME NEW r \in Repos, NEW h \in Histories[r], NEW n \in 1 .. Len(h)
  PROVE  /\ TreeAt(h, n - 1) \in Trees /\ TreeAt(h, n) \in Trees
         /\ Rebuilds(CommitOf(h, n).changes, FilesOf(TreeAt(h, n - 1)), FilesOf(TreeAt(h, n)))
         /\ \A file : OidAt(h, n, file) = Version(h, n, file)
         /\ \A file : Version(h, 0, file) = 0
<1>1. n - 1 = 0 <=> n = 1
  BY HistoryFacts
<1>2. TreeAt(h, n - 1) = (IF n = 1 THEN Empty ELSE h[n - 1].tree) /\ TreeAt(h, n) = h[n].tree
  BY <1>1, HistoryFacts DEF TreeAt
<1>3. TreeAt(h, n - 1) \in Trees /\ TreeAt(h, n) \in Trees
      /\ Rebuilds(CommitOf(h, n).changes, FilesOf(TreeAt(h, n - 1)), FilesOf(TreeAt(h, n)))
  <2> DEFINE old == IF n = 1 THEN Empty ELSE h[n - 1].tree
  <2>1. /\ old \in Trees /\ h[n].tree \in Trees
        /\ Rebuilds(CommitOf(h, n).changes, FilesOf(old), FilesOf(h[n].tree))
    BY CommitOfFacts
  <2> HIDE DEF old
  <2>2. TreeAt(h, n - 1) = old /\ TreeAt(h, n) = h[n].tree
    BY <1>2 DEF old
  <2> QED BY <2>1, <2>2
<1>4. \A file : OidAt(h, n, file) = Version(h, n, file)
  BY <1>2 DEF OidAt, Version, TreeOid
<1>5. \A file : TreeOid(Empty, file) = 0
  BY FilesFacts, TreeFacts, OidFacts
<1>6. \A file : Version(h, 0, file) = 0
  BY <1>5 DEF Version, TreeAt
<1> QED BY <1>3, <1>4, <1>6

\* What a change does to the version of its file.
LEMMA ChangeVersions ==
  ASSUME NEW r \in Repos, NEW h \in Histories[r], NEW n \in 1 .. Len(h)
  PROVE  /\ \A c \in Range(CommitOf(h, n).changes) :
              c.oid1 = Version(h, n - 1, c.file) /\ c.oid2 = Version(h, n, c.file) /\ c.oid1 # c.oid2
         /\ \A file : (\A c \in Range(CommitOf(h, n).changes) : c.file # file) => Version(h, n - 1, file) = Version(h, n, file)
<1> DEFINE d == CommitOf(h, n).changes
           a == TreeAt(h, n - 1)
           b == TreeAt(h, n)
<1>1. a \in Trees /\ b \in Trees /\ Rebuilds(d, FilesOf(a), FilesOf(b))
  BY VersionFacts
<1> HIDE DEF d, a, b
<1>2. \A c \in Range(d) : c.oid1 = TreeOid(a, c.file) /\ c.oid2 = TreeOid(b, c.file)
  BY <1>1, ChangeOids
<1>3. \A file : (\A c \in Range(d) : c.file # file) => TreeOid(a, file) = TreeOid(b, file)
  BY <1>1, NoChange
<1>4. \A c \in Range(d) : c.oid1 # c.oid2
  BY <1>1 DEF Rebuilds
<1> QED BY <1>2, <1>3, <1>4 DEF Version, d, a, b

\* All changes of such a history are about files in directories.
LEMMA ChangesAreDeep ==
  ASSUME NEW r \in Repos, NEW h \in Histories[r], InDirs(h), NEW n \in 1 .. Len(h)
  PROVE  DeepChanges(CommitOf(h, n).changes)
<1> DEFINE d == CommitOf(h, n).changes
           a == TreeAt(h, n - 1)
           b == TreeAt(h, n)
<1>1. a \in Trees /\ b \in Trees /\ Rebuilds(d, FilesOf(a), FilesOf(b))
  BY VersionFacts
<1>2. \A k \in DOMAIN a : IsDir(k)
  <2>1. CASE n = 1
    BY <2>1, TreeFacts DEF TreeAt
  <2>2. CASE n # 1
    <3>1. n - 1 \in 1 .. Len(h) /\ n - 1 # 0
      BY <2>2, HistoryFacts
    <3> QED BY <3>1 DEF InDirs, TreeAt
  <2> QED BY <2>1, <2>2
<1>3. \A k \in DOMAIN b : IsDir(k)
  <2>1. n # 0
    BY HistoryFacts
  <2> QED BY <2>1 DEF InDirs, TreeAt
<1> HIDE DEF d, a, b
<1>4. ASSUME NEW c \in Range(d) PROVE Len(c.file) > 1
  <2>1. c.oid1 # c.oid2 /\ Gone(d) \subseteq FilesOf(a) /\ Brought(d) \subseteq FilesOf(b)
    BY <1>1 DEF Rebuilds
  <2>2. CASE c.oid1 # 0
    <3> DEFINE f == [file |-> c.file, oid |-> c.oid1]
    <3>1. f \in Gone(d) /\ f.file = c.file
      BY <2>2 DEF Gone
    <3> HIDE DEF f
    <3>2. f \in FilesOf(a)
      BY <2>1, <3>1
    <3> QED BY <1>1, <1>2, <3>1, <3>2, DeepFiles
  <2>3. CASE c.oid2 # 0
    <3> DEFINE f == [file |-> c.file, oid |-> c.oid2]
    <3>1. f \in Brought(d) /\ f.file = c.file
      BY <2>3 DEF Brought
    <3> HIDE DEF f
    <3>2. f \in FilesOf(b)
      BY <2>1, <3>1
    <3> QED BY <1>1, <1>3, <3>1, <3>2, DeepFiles
  <2> QED BY <2>1, <2>2, <2>3
<1> QED BY <1>1, <1>4 DEF DeepChanges, Rebuilds, d

\* What findUpdateOid and findRemovalOid find in a commit.
LEMMA FoundInCommit ==
  ASSUME NEW r \in Repos, NEW h \in Histories[r], InDirs(h), NEW n \in 1 .. Len(h), NEW file \in Seq(Nat), Len(file) > 1
  PROVE  LET c == CommitOf(h, n)
             u == Version(h, n - 1, file)
             v == Version(h, n, file)
         IN  /\ findUpdateOid(c, file) = IF u = v THEN 0 ELSE v
             /\ findRemovalOid(c, file) = IF u # 0 /\ v = 0 THEN u ELSE 0
<1> DEFINE d == CommitOf(h, n).changes
           u == Version(h, n - 1, file)
           v == Version(h, n, file)
           k == findChange(d, file)
<1>1. DeepChanges(d)
  BY ChangesAreDeep
<1>2. /\ \A c \in Range(d) : c.file = file => c.oid1 = u /\ c.oid2 = v /\ u # v
      /\ (\A c \in Range(d) : c.file # file) => u = v
  BY ChangeVersions
<1> HIDE DEF d, u, v
<1>3. /\ k \in 0 .. Len(d) /\ (k # 0 => d[k].file = file)
      /\ k = 0 => \A c \in Range(d) : c.file # file
  BY <1>1, ChangeFound
<1>4. Len(d) \in Nat /\ DOMAIN d = 1 .. Len(d)
  BY <1>1, DeepFacts
<1> HIDE DEF k
<1>5. CASE k = 0
  <2>1. u = v
    BY <1>2, <1>3, <1>5
  <2>2. findUpdateOid(CommitOf(h, n), file) = 0 /\ findRemovalOid(CommitOf(h, n), file) = 0
    BY <1>5 DEF findUpdateOid, findRemovalOid, k, d
  <2>3. (IF u # 0 /\ v = 0 THEN u ELSE 0) = 0
    BY <2>1
  <2> QED BY <2>1, <2>2, <2>3 DEF u, v
<1>6. CASE k # 0
  <2>1. k \in DOMAIN d
    BY <1>3, <1>4, <1>6
  <2>2. d[k] \in Range(d) /\ d[k].file = file
    BY <1>3, <1>6, <2>1 DEF Range
  <2>3. d[k].oid1 = u /\ d[k].oid2 = v /\ u # v
    BY <1>2, <2>2
  <2>4. type(d[k]) = "DEL" <=> u # 0 /\ v = 0
    BY <2>3 DEF type
  <2>5. findUpdateOid(CommitOf(h, n), file) = IF type(d[k]) # "DEL" THEN v ELSE 0
    BY <1>6, <2>3 DEF findUpdateOid, k, d
  <2>6. findRemovalOid(CommitOf(h, n), file) = IF type(d[k]) = "DEL" THEN u ELSE 0
    BY <1>6, <2>3 DEF findRemovalOid, k, d
  <2> QED BY <2>3, <2>4, <2>5, <2>6 DEF u, v
<1> QED BY <1>5, <1>6

PairOf(a, b) == <<Min({a, b}), Max({a, b})>>

\* The commits that were read of a history.
ReadAs(cs, h) == cs \in Seq(CommitRecords) /\ Len(cs) = Len(h) /\ \A n \in 1 .. Len(h) : cs[n] = CommitOf(h, n)

\* The commits before n that have the file.
Had(h, n, file) == {k \in 1 .. n - 1 : Version(h, k, file) # 0}

\* addOidPair makes one pair of two blobs, whichever comes first.
LEMMA PairMade ==
  ASSUME NEW a, NEW b, NEW others, b \in others, b # 0, a # b
  PROVE  PairOf(a, b) \in OidPairs(a, others) /\ PairOf(b, a) \in OidPairs(a, others)
<1>1. {a, b} = {b, a} /\ b \in others \ {a, 0}
  OBVIOUS
<1> QED BY <1>1 DEF PairOf, OidPairs

\* The last removal of a file that was away for a few commits is the one behind the last commit that had it.
LEMMA RemovalFound ==
  ASSUME NEW r \in Repos, NEW h \in Histories[r], InDirs(h), NEW cs, ReadAs(cs, h), NEW n \in 1 .. Len(h),
         NEW file \in Seq(Nat), Len(file) > 1, NEW m \in 1 .. n - 1, m < n - 1, Version(h, m, file) # 0,
         \A i \in 1 .. n - 1 : i > m => Version(h, i, file) = 0, m + 1 >= n - 1 - RemovalBack
  PROVE  findLastRemovalOid(cs, n - 1, file) = Version(h, m, file)
<1> DEFINE oid == findLastRemovalOid(cs, n - 1, file)
           start == RemovalsFrom(n - 1)
           V(i) == Version(h, i, file)
<1>0. Len(h) \in Nat /\ n \in Nat /\ m \in Nat /\ n <= Len(h) /\ RemovalBack \in Nat
  <2>1. Len(h) \in Nat
    BY HistoryFacts
  <2>2. RemovalBack \in Nat
    BY WindowFacts
  <2> QED BY <2>1, <2>2
<1>1. start \in Int /\ start >= 1 /\ m + 1 \in start .. n - 1
  BY <1>0 DEF RemovalsFrom
<1>2. \A i \in 1 .. n - 1 : findRemovalOid(cs[i], file) = IF V(i - 1) # 0 /\ V(i) = 0 THEN V(i - 1) ELSE 0
  <2> SUFFICES ASSUME NEW i \in 1 .. n - 1
               PROVE  findRemovalOid(cs[i], file) = IF V(i - 1) # 0 /\ V(i) = 0 THEN V(i - 1) ELSE 0
    OBVIOUS
  <2>1. i \in 1 .. Len(h)
    BY <1>0
  <2>2. cs[i] = CommitOf(h, i)
    BY <2>1 DEF ReadAs
  <2> QED BY <2>1, <2>2, FoundInCommit
<1>3. \/ oid = 0 /\ \A i \in start .. n - 1 : findRemovalOid(cs[i], file) = 0
      \/ \E j \in start .. n - 1 : /\ oid = findRemovalOid(cs[j], file) /\ oid # 0
                                   /\ \A i \in start .. n - 1 : i > j => findRemovalOid(cs[i], file) = 0
  <2>1. n - 1 \in Int
    BY <1>0
  <2> QED BY <2>1, LastRemoval
<1>4. V(m) # 0 /\ \A i \in 1 .. n - 1 : i > m => V(i) = 0
  OBVIOUS
<1> HIDE DEF start, oid, V
<1>5. findRemovalOid(cs[m + 1], file) = V(m)
  <2>1. m + 1 \in 1 .. n - 1 /\ (m + 1) - 1 = m /\ m + 1 > m
    BY <1>0
  <2>2. V(m + 1) = 0
    BY <1>4, <2>1
  <2> QED BY <1>2, <1>4, <2>1, <2>2
<1>6. PICK j \in start .. n - 1 : /\ oid = findRemovalOid(cs[j], file) /\ oid # 0
                                  /\ \A i \in start .. n - 1 : i > j => findRemovalOid(cs[i], file) = 0
  BY <1>1, <1>3, <1>4, <1>5
<1>7. j \in 1 .. n - 1 /\ ~(m + 1 > j)
  BY <1>0, <1>1, <1>4, <1>5, <1>6
<1>8. j = m + 1
  <2> SUFFICES ASSUME j > m + 1 PROVE FALSE
    BY <1>0, <1>7
  <2>1. j - 1 \in 1 .. n - 1 /\ j - 1 > m
    BY <1>0, <1>7
  <2>2. V(j - 1) = 0
    BY <1>4, <2>1
  <2> QED BY <1>2, <1>6, <1>7, <2>2
<1> QED BY <1>5, <1>6, <1>8 DEF oid, V

\* The pair of a version with the one before it is made for the change that brings it.
LEMMA SuccessorMade ==
  ASSUME NEW r \in Repos, NEW h \in Histories[r], InDirs(h), NEW cs, ReadAs(cs, h), NEW n \in 1 .. Len(h),
         NEW f \in FilesOf(h[n].tree), NEW m \in Had(h, n, f.file), \A k \in Had(h, n, f.file) : k <= m,
         m = n - 1 \/ m + 1 >= n - 1 - RemovalBack
  PROVE  \/ Version(h, m, f.file) = f.oid
         \/ \E c \in Range(CommitOf(h, n).changes) : PairOf(Version(h, m, f.file), f.oid) \in SuccessorPairs(cs, n, c)
<1> DEFINE d == CommitOf(h, n).changes
           file == f.file
           u == Version(h, m, file)
           before == Version(h, n - 1, file)
<1>0. Len(h) \in Nat /\ n \in Nat \ {0} /\ m \in 1 .. n - 1 /\ u # 0 /\ \A i \in 1 .. n - 1 : i > m => Version(h, i, file) = 0
  BY HistoryFacts DEF Had
<1>1. file \in Seq(Nat) /\ Len(file) > 1 /\ f.oid = Version(h, n, file) /\ f.oid \in Nat \ {0}
  <2>1. h[n].tree \in Trees /\ (\A k \in DOMAIN h[n].tree : IsDir(k)) /\ TreeAt(h, n) = h[n].tree
    BY HistoryFacts DEF InDirs, TreeAt
  <2>2. f.file \in Seq(Nat) /\ Len(f.file) > 1
    BY <2>1, DeepFiles
  <2> QED BY <2>1, <2>2, OidFacts DEF Version
<1>2. /\ \A c \in Range(d) : c.file = file => c.oid1 = before /\ c.oid2 = f.oid
      /\ (\A c \in Range(d) : c.file # file) => before = f.oid
  BY <1>1, ChangeVersions
<1>3. CASE m = n - 1
  <2>1. before = u
    BY <1>3
  <2>2. SUFFICES ASSUME u # f.oid PROVE \E c \in Range(d) : PairOf(u, f.oid) \in SuccessorPairs(cs, n, c)
    OBVIOUS
  <2> HIDE DEF u, before, d
  <2>3. PICK c \in Range(d) : c.file = file
    BY <1>2, <2>1, <2>2
  <2>4. c.oid1 = u /\ c.oid2 = f.oid
    BY <1>2, <2>1, <2>3
  <2>5. type(c) = "MOD"
    BY <1>0, <1>1, <2>4 DEF type
  <2>6. SuccessorPairs(cs, n, c) = OidPairs(c.oid1, {c.oid2})
    BY <2>5 DEF SuccessorPairs
  <2>7. PairOf(u, f.oid) \in OidPairs(u, {f.oid})
    BY <1>1, <2>2, PairMade
  <2> QED BY <2>4, <2>6, <2>7
<1>4. CASE m # n - 1
  <2>0. m < n - 1 /\ n - 1 \in 1 .. n - 1 /\ n - 1 > m
    BY <1>0, <1>4
  <2>1. before = 0
    BY <1>0, <2>0
  <2>2. findLastRemovalOid(cs, n - 1, file) = u
    <3>1. m + 1 >= n - 1 - RemovalBack
      BY <1>4
    <3> QED BY <1>0, <1>1, <2>0, <3>1, RemovalFound
  <2>3. SUFFICES ASSUME u # f.oid PROVE \E c \in Range(d) : PairOf(u, f.oid) \in SuccessorPairs(cs, n, c)
    OBVIOUS
  <2> HIDE DEF u, before, d
  <2>4. PICK c \in Range(d) : c.file = file
    BY <1>1, <1>2, <2>1
  <2>5. c.oid1 = 0 /\ c.oid2 = f.oid
    BY <1>2, <2>1, <2>4
  <2>6. type(c) = "ADD"
    BY <2>5 DEF type
  <2> DEFINE others == {findLastRemovalOid(cs, n - 1, c.file)}
                         \cup {findLastUpdateOid(cs, n, x) : x \in CopiedFrom(c.file)}
  <2>7. SuccessorPairs(cs, n, c) = OidPairs(c.oid2, others)
    BY <2>6 DEF SuccessorPairs
  <2>8. u \in others
    BY <2>2, <2>4
  <2> HIDE DEF others
  <2>9. PairOf(u, f.oid) \in OidPairs(f.oid, others)
    BY <1>0, <2>3, <2>8, PairMade
  <2> QED BY <2>5, <2>7, <2>9
<1> QED BY <1>3, <1>4

\* Commits of which none is older than the one before it are in the order of their times.
LEMMA SortedInOrder ==
  ASSUME NEW cs, TimedBy(cs), \A k \in 1 .. Len(cs) - 1 : cs[k].time <= cs[k + 1].time
  PROVE  InOrderBut(cs, 0)
<1> DEFINE T == {d \in Nat : \A i \in 1 .. Len(cs) : i + d <= Len(cs) => cs[i].time <= cs[i + d].time}
<1>0. Len(cs) \in Nat /\ \A i \in 1 .. Len(cs) : cs[i].time \in Nat
  BY TimedFacts
<1>1. 0 \in T
  BY <1>0
<1>2. ASSUME NEW d \in Nat, d \in T PROVE d + 1 \in T
  <2> SUFFICES ASSUME NEW i \in 1 .. Len(cs), i + (d + 1) <= Len(cs) PROVE cs[i].time <= cs[i + (d + 1)].time
    OBVIOUS
  <2>1. /\ i + d \in 1 .. Len(cs) - 1 /\ i + d \in 1 .. Len(cs) /\ i + d <= Len(cs)
        /\ (i + d) + 1 = i + (d + 1) /\ i + (d + 1) \in 1 .. Len(cs)
    BY <1>0
  <2>2. cs[i].time <= cs[i + d].time
    BY <1>2, <2>1
  <2>3. cs[i + d].time <= cs[i + (d + 1)].time
    BY <2>1
  <2>4. cs[i].time \in Nat /\ cs[i + d].time \in Nat /\ cs[i + (d + 1)].time \in Nat
    BY <1>0, <2>1
  <2> QED BY <2>2, <2>3, <2>4
<1>3. \A d \in Nat : d \in T
  <2> HIDE DEF T
  <2> QED BY <1>1, <1>2, SetInduction
<1>4. ASSUME NEW i \in 1 .. Len(cs), NEW j \in 1 .. Len(cs), i < j PROVE cs[i].time <= cs[j].time + 0
  <2>1. j - i \in Nat /\ i + (j - i) = j /\ j <= Len(cs)
    BY <1>0, <1>4
  <2>2. cs[i].time <= cs[j].time
    BY <1>3, <2>1
  <2>3. cs[j].time \in Nat
    BY <1>0
  <2> QED BY <2>2, <2>3
<1> QED BY <1>4 DEF InOrderBut

\* The last update of a file that a commit has is the one that brought its version.
LEMMA UpdateFound ==
  ASSUME NEW r \in Repos, NEW h \in Histories[r], InDirs(h), NEW cs, ReadAs(cs, h), NEW n \in 1 .. Len(h),
         NEW file \in Seq(Nat), Len(file) > 1, Version(h, n, file) # 0
  PROVE  findLastUpdateOid(cs, n, file) = Version(h, n, file)
<1> DEFINE V(i) == Version(h, i, file)
           oid == findLastUpdateOid(cs, n, file)
<1>0. Len(h) \in Nat
  BY HistoryFacts
<1>1. n \in Nat /\ V(0) = 0 /\ V(n) # 0
  BY <1>0, VersionFacts
<1>2. \A i \in 1 .. n : findUpdateOid(cs[i], file) = IF V(i - 1) = V(i) THEN 0 ELSE V(i)
  <2> SUFFICES ASSUME NEW i \in 1 .. n PROVE findUpdateOid(cs[i], file) = IF V(i - 1) = V(i) THEN 0 ELSE V(i)
    OBVIOUS
  <2>1. i \in 1 .. Len(h)
    BY <1>0
  <2>2. cs[i] = CommitOf(h, i)
    BY <2>1 DEF ReadAs
  <2> QED BY <2>1, <2>2, FoundInCommit
<1>3. \/ oid = 0 /\ \A i \in 1 .. n : findUpdateOid(cs[i], file) = 0
      \/ \E m \in 1 .. n : /\ oid = findUpdateOid(cs[m], file) /\ oid # 0
                           /\ \A i \in 1 .. n : i > m => findUpdateOid(cs[i], file) = 0
  BY <1>1, LastUpdate
<1> HIDE DEF V, oid
<1>4. ASSUME NEW m \in 0 .. n, \A i \in 1 .. n : i > m => findUpdateOid(cs[i], file) = 0
      PROVE  V(m) = V(n)
  <2> DEFINE T == {d \in Nat : n - d >= m => V(n - d) = V(n)}
  <2>1. 0 \in T
    BY <1>1
  <2>2. ASSUME NEW d \in Nat, d \in T PROVE d + 1 \in T
    <3> SUFFICES ASSUME n - (d + 1) >= m PROVE V(n - (d + 1)) = V(n)
      OBVIOUS
    <3>1. n - d \in 1 .. n /\ n - d > m /\ n - d >= m /\ (n - d) - 1 = n - (d + 1)
      BY <1>1
    <3>2. V(n - d) = V(n) /\ findUpdateOid(cs[n - d], file) = 0
      BY <1>4, <2>2, <3>1
    <3> QED BY <1>1, <1>2, <3>1, <3>2
  <2>3. n - m \in T
    <3>1. n - m \in Nat
      BY <1>1
    <3> HIDE DEF T
    <3> QED BY <2>1, <2>2, <3>1, SetInduction
  <2>4. n - (n - m) = m /\ m >= m
    BY <1>1
  <2> QED BY <2>3, <2>4
<1>5. ASSUME \A i \in 1 .. n : findUpdateOid(cs[i], file) = 0 PROVE FALSE
  <2>1. 0 \in 0 .. n
    BY <1>1
  <2> QED BY <1>1, <1>4, <1>5, <2>1
<1>6. ASSUME NEW m \in 1 .. n, oid = findUpdateOid(cs[m], file), oid # 0,
             \A i \in 1 .. n : i > m => findUpdateOid(cs[i], file) = 0
      PROVE  oid = V(n)
  <2>1. V(m) = V(n)
    BY <1>1, <1>4, <1>6
  <2> QED BY <1>2, <1>6, <2>1
<1>7. oid = V(n)
  <2>1. CASE \A i \in 1 .. n : findUpdateOid(cs[i], file) = 0
    BY <1>5, <2>1
  <2>2. CASE \E m \in 1 .. n : /\ oid = findUpdateOid(cs[m], file) /\ oid # 0
                               /\ \A i \in 1 .. n : i > m => findUpdateOid(cs[i], file) = 0
    BY <1>6, <2>2
  <2> QED BY <1>3, <2>1, <2>2
<1> QED BY <1>7 DEF oid, V

\* The version that a branch had at a time, when its times are in order.
LEMMA BranchFound ==
  ASSUME NEW r \in Repos, NEW g \in Histories[r], InDirs(g), NEW cs, ReadAs(cs, g), TimedBy(cs), InOrderBut(cs, 0),
         NEW time \in Int, NEW m \in 1 .. Len(g), g[m].time <= time, \A k \in 1 .. Len(g) : k > m => g[k].time > time,
         NEW file \in Seq(Nat), Len(file) > 1, Version(g, m, file) # 0
  PROVE  findFileOidByTime(cs, time, file) = Version(g, m, file)
<1> DEFINE last == lastCommitByTime(cs, time)
<1>1. Len(g) \in Nat /\ Len(cs) = Len(g) /\ \A n \in 1 .. Len(g) : cs[n].time = g[n].time /\ g[n].time \in Nat
  <2>1. \A n \in 1 .. Len(g) : cs[n] = CommitOf(g, n) /\ CommitOf(g, n).time = g[n].time
    BY CommitOfFacts DEF ReadAs
  <2> QED BY <2>1, HistoryFacts DEF ReadAs
<1>2. /\ last \in 0 .. Len(cs)
      /\ \A i \in 1 .. Len(cs) : i > last => cs[i].time > time - 0
      /\ \A i \in 1 .. Len(cs) : i <= last => cs[i].time <= time + 0
  BY LastCommitBut
<1> HIDE DEF last
<1>3. ~(m > last)
  <2> SUFFICES ASSUME m > last PROVE FALSE
    OBVIOUS
  <2>1. cs[m].time > time - 0 /\ cs[m].time = g[m].time
    BY <1>1, <1>2
  <2> QED BY <1>1, <2>1
<1>4. ~(last > m)
  <2> SUFFICES ASSUME last > m PROVE FALSE
    OBVIOUS
  <2>1. last \in 1 .. Len(cs) /\ last <= last
    BY <1>1, <1>2
  <2>2. cs[last].time <= time + 0 /\ cs[last].time = g[last].time /\ g[last].time > time /\ g[last].time \in Nat
    BY <1>1, <1>2, <2>1
  <2> QED BY <2>2
<1>5. last = m
  BY <1>1, <1>2, <1>3, <1>4
<1>6. findLastUpdateOid(cs, m, file) = Version(g, m, file)
  BY UpdateFound
<1> QED BY <1>5, <1>6 DEF findFileOidByTime, last

\* The pair of a new version with the one of the other branch is made for the change that brings it.
LEMMA BranchMade ==
  ASSUME NEW commits, NEW other, NEW n, NEW c, c.oid2 # 0, NEW o, o # 0, o # c.oid2,
         findFileOidByTime(other, commits[n].time, c.file) = o
  PROVE  PairOf(o, c.oid2) \in InterBranchPairs(commits, other, n, c)
<1> DEFINE others == {findFileOidByTime(other, commits[n].time, c.file),
                      findFileOidByTime(other, commits[n].time + Later, c.file)}
<1>1. type(c) # "DEL"
  BY DEF type
<1>2. InterBranchPairs(commits, other, n, c) = OidPairs(c.oid2, others)
  BY <1>1 DEF InterBranchPairs
<1>3. o \in others
  OBVIOUS
<1> HIDE DEF others
<1> QED BY <1>2, <1>3, PairMade

(* What the detectors have done. *)

\* The pairs that a detector makes for a change.
Made(d, x) ==
  IF d < 3 THEN SuccessorPairs(m_commits[Reads(d)[1]], x.at, x.change)
           ELSE InterBranchPairs(m_commits[Reads(d)[1]], m_commits["stable"], x.at, x.change)
WorkOf(d) == Range(ChangesOf(m_commits[Reads(d)[1]]))
Finished(d) == (\A r \in Range(Reads(d)) : m_commitsInit[r]) /\ \A x \in WorkOf(d) : Made(d, x) \subseteq pairs

(* All pairs of the detectors that ended have been made, and of the one at work those of the changes that it is past. *)
DoneInv ==
  /\ pc \in {"start", "walk"} => detector = 0
  /\ \A d \in 1 .. 3 : d < detector \/ (d = detector /\ pc = "done") => Finished(d)
  /\ pc = "detect" => \A x \in WorkOf(detector) : x \in Range(todo) \/ Made(detector, x) \subseteq pairs

\* A repository that has been read stays as it is.
StaysRead == \A r \in Repos : m_commitsInit[r] => m_commits'[r] = m_commits[r] /\ m_commitsInit'[r]

\* No step reads a repository again, but for the start of the next tool.
LEMMA ReadOnce == ASSUME ReadInv, LoaderNext, ~nextTool PROVE StaysRead
<1>1. ASSUME NEW r \in Repos, diffCommit(r) \/ commitsRead(r) PROVE StaysRead
  <2>1. ~m_commitsInit[r]
    BY <1>1 DEF diffCommit, commitsRead, Reading
  <2>2. \A q \in Repos \ {r} : m_commits'[q] = m_commits[q]
    BY <1>1 DEF diffCommit, commitsRead, ReadInv
  <2>3. \A q \in Repos \ {r} : m_commitsInit'[q] = m_commitsInit[q]
    BY <1>1 DEF diffCommit, commitsRead, ReadInv
  <2> QED BY <2>1, <2>2, <2>3 DEF StaysRead
<1>2. CASE UNCHANGED readVars
  BY <1>2 DEF readVars, StaysRead
<1>3. ASSUME Next PROVE StaysRead
  <2>1. ASSUME detectTransitions \/ doDetect \/ processChange \/ nextDetector \/ WalkStep \/ \E r \in Repos : getCurrentOids(r)
        PROVE  UNCHANGED readVars
    BY <2>1 DEF detectTransitions, doDetect, processChange, nextDetector, WalkStep, leaveDir, walkDir, walkBlob, walkEnds, getCurrentOids
  <2> QED BY <1>1, <1>2, <1>3, <2>1 DEF Next
<1>4. ASSUME NEW b \in Inputs, reviewFile(b) \/ processFile(b) PROVE UNCHANGED readVars
  BY <1>4 DEF reviewFile, processFile
<1>5. ASSUME NEW b \in Inputs, otherRun(b) PROVE UNCHANGED readVars
  BY <1>5 DEF otherRun, vars, readVars
<1>6. ASSUME searchRepository \/ reviewAgainst \/ diffAgainst PROVE UNCHANGED readVars
  BY <1>6 DEF searchRepository, reviewAgainst, diffAgainst
<1> QED BY <1>2, <1>3, <1>4, <1>5, <1>6 DEF LoaderNext

\* What a detector has to do stays the same once its repositories have been read.
LEMMA WorkStays ==
  ASSUME StaysRead, NEW d \in 1 .. 3, \A r \in Range(Reads(d)) : m_commitsInit[r]
  PROVE  /\ WorkOf(d)' = WorkOf(d) /\ \A x : Made(d, x)' = Made(d, x)
         /\ \A r \in Range(Reads(d)) : m_commitsInit'[r]
<1>1. Reads(d)[1] \in Range(Reads(d)) /\ Range(Reads(d)) \subseteq Repos /\ (d = 3 => "stable" \in Range(Reads(d)))
  BY ReadsFacts DEF Repos
<1>2. \A r \in Range(Reads(d)) : m_commits'[r] = m_commits[r] /\ m_commitsInit'[r]
  BY <1>1 DEF StaysRead
<1>3. m_commits'[Reads(d)[1]] = m_commits[Reads(d)[1]] /\ (d = 3 => m_commits'["stable"] = m_commits["stable"])
  BY <1>1, <1>2
<1>4. WorkOf(d)' = WorkOf(d)
  BY <1>3 DEF WorkOf
<1>5. \A x : Made(d, x)' = Made(d, x)
  <2>1. d < 3 \/ d = 3
    OBVIOUS
  <2> QED BY <1>3, <2>1 DEF Made
<1> QED BY <1>2, <1>4, <1>5

\* What a detector has done stays done.
LEMMA FinishedStays ==
  ASSUME StaysRead, pairs \subseteq pairs', NEW d \in 1 .. 3, Finished(d)
  PROVE  Finished(d)'
<1>1. \A r \in Range(Reads(d)) : m_commitsInit[r]
  BY DEF Finished
<1>2. WorkOf(d)' = WorkOf(d) /\ (\A x : Made(d, x)' = Made(d, x)) /\ \A r \in Range(Reads(d)) : m_commitsInit'[r]
  BY <1>1, WorkStays
<1>3. \A x \in WorkOf(d) : Made(d, x) \subseteq pairs
  BY DEF Finished
<1>4. \A x \in WorkOf(d)' : Made(d, x)' \subseteq pairs'
  BY <1>2, <1>3
<1> QED BY <1>2, <1>4 DEF Finished

\* A step that takes no detector further.
LEMMA DoneIdle ==
  ASSUME DetectInv, DoneInv, StaysRead, pairs \subseteq pairs', detector' = detector,
         pc' \in {"start", "walk"} => detector = 0, pc' = "done" => pc = "done" \/ detector = 0,
         pc' = "detect" => pc = "detect" /\ todo' = todo
  PROVE  DoneInv'
<1>0. detector \in 0 .. 3
  BY DEF DetectInv
<1>1. ASSUME NEW d \in 1 .. 3, d < detector \/ (d = detector /\ pc' = "done") PROVE Finished(d)'
  <2>1. d < detector \/ (d = detector /\ pc = "done")
    BY <1>1
  <2>2. Finished(d)
    BY <2>1 DEF DoneInv
  <2> QED BY <2>2, FinishedStays
<1>2. ASSUME pc' = "detect" PROVE \A x \in WorkOf(detector)' : x \in Range(todo)' \/ Made(detector, x)' \subseteq pairs'
  <2>1. pc = "detect" /\ todo' = todo
    BY <1>2
  <2>2. detector \in 1 .. 3 /\ \A r \in Range(Reads(detector)) : m_commitsInit[r]
    BY <2>1 DEF DetectInv
  <2>3. \A x \in WorkOf(detector) : x \in Range(todo) \/ Made(detector, x) \subseteq pairs
    BY <2>1 DEF DoneInv
  <2>4. m_commits'[Reads(detector)[1]] = m_commits[Reads(detector)[1]]
        /\ (detector = 3 => m_commits'["stable"] = m_commits["stable"])
    BY <2>2, ReadsFacts DEF StaysRead, Repos
  <2>5. WorkOf(detector)' = WorkOf(detector)
    BY <2>4 DEF WorkOf
  <2>6. \A x : Made(detector, x)' = Made(detector, x)
    <3>1. detector < 3 \/ detector = 3
      BY <2>2
    <3> QED BY <2>4, <3>1 DEF Made
  <2> QED BY <2>1, <2>3, <2>5, <2>6
<1> QED BY <1>1, <1>2 DEF DoneInv

\* DoneInv is kept by every step.
LEMMA DoneSteps == ASSUME ReadInv, ProgramInv, DetectInv, DoneInv, LoaderNext PROVE DoneInv'
<1>0. "detector" \notin Tools
  BY DEF Tools
<1>1. CASE nextTool
  <2>1. detector = 0 /\ detector' = 0 /\ pc' = "start"
    BY <1>1 DEF nextTool, ProgramInv
  <2>2. \A d \in 1 .. 3 : ~(d < 0) /\ d # 0
    OBVIOUS
  <2> QED BY <2>1, <2>2 DEF DoneInv
<1>2. SUFFICES ASSUME ~nextTool PROVE DoneInv'
  BY <1>1
<1>3. StaysRead
  BY <1>2, ReadOnce
<1>4. CASE Next /\ (pc = "start" => tool = "detector") /\ UNCHANGED loaderVars
  <2>1. CASE detectTransitions
    <3>1. pc' = "read" /\ detector' = 1
      BY <2>1 DEF detectTransitions
    <3>2. \A d \in 1 .. 3 : ~(d < 1)
      OBVIOUS
    <3> QED BY <3>1, <3>2 DEF DoneInv
  <2>2. CASE doDetect
    <3>1. pc = "read" /\ pc' = "detect" /\ todo' = ChangesOf(m_commits[Reads(detector)[1]])
          /\ UNCHANGED <<m_commits, m_commitsInit, detector, pairs>>
      BY <2>2 DEF doDetect, readVars
    <3>2. \A x \in WorkOf(detector)' : x \in Range(todo)'
      BY <3>1 DEF WorkOf
    <3>3. ASSUME NEW d \in 1 .. 3, d < detector PROVE Finished(d)'
      <4>1. Finished(d)
        BY <3>3 DEF DoneInv
      <4>2. pairs \subseteq pairs'
        BY <3>1
      <4> QED BY <1>3, <4>1, <4>2, FinishedStays
    <3> QED BY <3>1, <3>2, <3>3 DEF DoneInv
  <2>3. CASE processChange
    <3> DEFINE x == Head(todo)
    <3>1. pc = "detect" /\ pc' = pc /\ todo # <<>> /\ todo' = Tail(todo) /\ UNCHANGED <<m_commits, m_commitsInit, detector>>
      BY <2>3 DEF processChange, readVars
    <3>2. pairs' = pairs \cup Made(detector, x)
      BY <2>3 DEF processChange, Made
    <3>3. Range(todo) \subseteq {x} \cup Range(Tail(todo))
      <4>1. todo \in Seq(Placed)
        BY DEF DetectInv
      <4>2. Len(todo) \in Nat \ {0} /\ x = todo[1] /\ DOMAIN todo = 1 .. Len(todo)
            /\ Tail(todo) \in Seq(Placed) /\ Len(Tail(todo)) = Len(todo) - 1
            /\ \A i \in 1 .. Len(Tail(todo)) : Tail(todo)[i] = todo[i + 1]
        BY <3>1, <4>1, EmptySeq, LenProperties, HeadTailProperties
      <4>3. DOMAIN Tail(todo) = 1 .. Len(Tail(todo))
        BY <4>2, LenProperties
      <4>4. \A i \in DOMAIN todo : i # 1 => i - 1 \in DOMAIN Tail(todo) /\ (i - 1) + 1 = i
        BY <4>2, <4>3
      <4>5. \A i \in DOMAIN todo : i # 1 => todo[i] = Tail(todo)[i - 1]
        BY <4>2, <4>3, <4>4
      <4> HIDE DEF x
      <4> QED BY <4>2, <4>4, <4>5 DEF Range
    <3> HIDE DEF x
    <3>4. WorkOf(detector)' = WorkOf(detector) /\ \A y : Made(detector, y)' = Made(detector, y)
      BY <3>1 DEF WorkOf, Made
    <3>5. \A y \in WorkOf(detector) : y \in Range(todo) \/ Made(detector, y) \subseteq pairs
      BY <3>1 DEF DoneInv
    <3>6. \A y \in WorkOf(detector)' : y \in Range(todo)' \/ Made(detector, y)' \subseteq pairs'
      <4>1. \A y \in WorkOf(detector) : y \in Range(Tail(todo)) \/ Made(detector, y) \subseteq pairs \cup Made(detector, x)
        BY <3>3, <3>5
      <4> QED BY <3>1, <3>2, <3>4, <4>1
    <3>7. ASSUME NEW d \in 1 .. 3, d < detector PROVE Finished(d)'
      <4>1. Finished(d)
        BY <3>7 DEF DoneInv
      <4>2. pairs \subseteq pairs'
        BY <3>2
      <4> QED BY <1>3, <4>1, <4>2, FinishedStays
    <3> QED BY <3>1, <3>6, <3>7 DEF DoneInv
  <2>4. CASE nextDetector
    <3>1. pc = "detect" /\ todo = <<>> /\ UNCHANGED <<m_commits, m_commitsInit, pairs>>
      BY <2>4 DEF nextDetector, readVars
    <3>2. \/ detector < 3 /\ detector' = detector + 1 /\ pc' = "read"
          \/ pc' = "done" /\ detector' = detector
      BY <2>4 DEF nextDetector
    <3>3. detector \in 1 .. 3 /\ \A r \in Range(Reads(detector)) : m_commitsInit[r]
      BY <3>1 DEF DetectInv
    <3>4. Finished(detector)
      <4>1. Range(todo) = {}
        BY <3>1 DEF Range
      <4> QED BY <3>1, <3>3, <4>1 DEF DoneInv, Finished
    <3>5. ASSUME NEW d \in 1 .. 3, d < detector' \/ (d = detector' /\ pc' = "done") PROVE Finished(d)'
      <4>1. d < detector \/ d = detector
        BY <3>2, <3>3, <3>5
      <4>2. Finished(d)
        BY <3>4, <4>1 DEF DoneInv
      <4>3. pairs \subseteq pairs'
        BY <3>1
      <4> QED BY <1>3, <4>2, <4>3, FinishedStays
    <3> QED BY <3>2, <3>5 DEF DoneInv
  <2>5. ASSUME NEW r \in Repos, diffCommit(r) \/ commitsRead(r) PROVE DoneInv'
    <3>1. (pc' = pc \/ pc' = "failed") /\ detector' = detector /\ pairs' = pairs /\ todo' = todo /\ pc \in {"read", "search"}
      BY <2>5 DEF diffCommit, commitsRead, detectVars, Reading
    <3> QED BY <1>3, <3>1, DoneIdle
  <2>6. ASSUME NEW r \in Repos, getCurrentOids(r) PROVE DoneInv'
    <3>1. pc = "start" /\ pc' = "walk" /\ detector' = detector /\ pairs' = pairs
      BY <2>6 DEF getCurrentOids, detectVars
    <3>2. detector = 0
      BY <3>1 DEF DoneInv
    <3> QED BY <1>3, <3>1, <3>2, DoneIdle
  <2>7. CASE WalkStep
    <3>1. pc = "walk" /\ (pc' = pc \/ pc' = "done") /\ detector' = detector /\ pairs' = pairs
      BY <2>7 DEF WalkStep, leaveDir, walkDir, walkBlob, walkEnds, AtEntry, detectVars
    <3>2. detector = 0
      BY <3>1 DEF DoneInv
    <3> QED BY <1>3, <3>1, <3>2, DoneIdle
  <2> QED BY <1>4, <2>1, <2>2, <2>3, <2>4, <2>5, <2>6, <2>7 DEF Next
<1>5. ASSUME NEW b \in Inputs, reviewFile(b) \/ processFile(b) PROVE DoneInv'
  <2>1. pc = "start" /\ pc' \in {"failed", "answered", "search"} /\ detector' = detector /\ pairs' = pairs
    BY <1>5 DEF reviewFile, processFile, findOldestByTphash_oid
  <2> QED BY <1>3, <2>1, DoneIdle
<1>6. ASSUME NEW b \in Inputs, otherRun(b) PROVE DoneInv'
  <2>1. UNCHANGED <<pc, detector, pairs, todo>>
    BY <1>6 DEF otherRun, vars
  <2> QED BY <1>3, <2>1, DoneIdle DEF DoneInv
<1>7. CASE searchRepository \/ reviewAgainst \/ diffAgainst
  <2>1. pc \in {"search", "answered"} /\ tool \in {"detector"} \cup Tools
    BY <1>7 DEF searchRepository, reviewAgainst, diffAgainst, ProgramInv
  <2>2. detector = 0
    BY <1>0, <2>1 DEF ProgramInv
  <2>3. pc' \in {"start", "done", "failed", "search", "answered"} /\ detector' = detector /\ pairs' = pairs
    BY <1>7, <2>1 DEF searchRepository, reviewAgainst, diffAgainst, detectVars
  <2> QED BY <1>3, <2>2, <2>3, DoneIdle
<1> QED BY <1>2, <1>4, <1>5, <1>6, <1>7 DEF LoaderNext

\* DoneInv is inductive, given ReadInv and the types.
LEMMA DoneHolds == LoaderSpec => []DoneInv
<1>1. LoaderInit => DoneInv
  <2> SUFFICES ASSUME LoaderInit PROVE DoneInv
    OBVIOUS
  <2>1. pc = "start" /\ detector = 0
    BY DEF LoaderInit, Init
  <2>2. \A d \in 1 .. 3 : ~(d < 0) /\ d # 0
    OBVIOUS
  <2> QED BY <2>1, <2>2 DEF DoneInv
<1>2. ASSUME ReadInv, TypesInv, DoneInv, LoaderNext PROVE DoneInv'
  BY <1>2, DoneSteps DEF TypesInv
<1>3. ASSUME ReadInv, TypesInv, DoneInv, UNCHANGED <<vars, loaderVars>> PROVE DoneInv'
  <2>1. UNCHANGED <<pc, detector, m_commits, m_commitsInit, pairs, todo>>
    BY <1>3 DEF vars
  <2>2. StaysRead
    BY <2>1 DEF StaysRead
  <2>3. DetectInv
    BY <1>3 DEF TypesInv
  <2> QED BY <1>3, <2>1, <2>2, <2>3, DoneIdle DEF DoneInv
<1> QED BY <1>1, <1>2, <1>3, TypesHold, PTL DEF LoaderSpec

\* The commits that were read of a repository.
LEMMA ReadAsHistory ==
  ASSUME ReadInv, NEW r \in Repos, m_commitsInit[r]
  PROVE  /\ git[r] \in Histories[r] /\ ReadAs(m_commits[r], git[r]) /\ TimedBy(m_commits[r])
         /\ \A n \in 1 .. Len(git[r]) : \A c \in Range(CommitOf(git[r], n).changes) :
              [at |-> n, change |-> c] \in Range(ChangesOf(m_commits[r]))
<1>1. git[r] \in Histories[r] /\ ReadAs(m_commits[r], git[r]) /\ TimedBy(m_commits[r])
  BY DEF ReadInv, ReadAs, TimedBy
<1>2. \A i \in 1 .. Len(m_commits[r]) : \A j \in DOMAIN m_commits[r][i].changes :
        [at |-> i, change |-> m_commits[r][i].changes[j]] \in Range(ChangesOf(m_commits[r]))
  BY ChangesRead
<1>3. ASSUME NEW n \in 1 .. Len(git[r]), NEW c \in Range(CommitOf(git[r], n).changes)
      PROVE  [at |-> n, change |-> c] \in Range(ChangesOf(m_commits[r]))
  <2>1. m_commits[r][n] = CommitOf(git[r], n) /\ n \in 1 .. Len(m_commits[r])
    BY <1>1 DEF ReadAs
  <2>2. PICK j \in DOMAIN m_commits[r][n].changes : c = m_commits[r][n].changes[j]
    BY <2>1 DEF Range
  <2> QED BY <1>2, <2>1, <2>2
<1> QED BY <1>1, <1>3

\* Two blobs are linked by their pair.
LEMMA LinkedPair == ASSUME NEW a, NEW b, a = b \/ PairOf(a, b) \in pairs PROVE Linked(a, b)
BY DEF Linked, PairOf

\* Each version of a file is linked to the one before it.
LEMMA SuccessorsLinked ==
  ASSUME ReadInv, DoneInv, pc = "done", detector = 3, NEW r \in Repos, NoRootFiles(r),
         NEW n \in DOMAIN git[r], NEW f \in FilesOf(git[r][n].tree)
  PROVE  LET had == {k \in 1 .. n - 1 : OidAt(git[r], k, f.file) # 0}
         IN  had # {} /\ (Max(had) = n - 1 \/ Max(had) + 1 >= n - 1 - RemovalBack) =>
               Linked(OidAt(git[r], Max(had), f.file), f.oid)
<1> DEFINE had == {k \in 1 .. n - 1 : OidAt(git[r], k, f.file) # 0}
           m == Max(had)
           h == git[r]
           cs == m_commits[r]
<1> SUFFICES ASSUME had # {}, m = n - 1 \/ m + 1 >= n - 1 - RemovalBack
             PROVE  Linked(OidAt(h, m, f.file), f.oid)
  OBVIOUS
<1> DEFINE d == IF r = "trunk" THEN 1 ELSE 2
<1>1. d \in 1 .. 3 /\ d < detector /\ d < 3 /\ Reads(d)[1] = r /\ r \in Range(Reads(d))
  <2>1. d \in {1, 2} /\ (d = 1 <=> r = "trunk") /\ (d = 2 <=> r = "stable")
    BY DEF Repos
  <2>2. Reads(1)[1] = "trunk" /\ Reads(2)[1] = "stable"
    BY DEF Reads
  <2> HIDE DEF d
  <2>3. d \in 1 .. 3 /\ d < 3 /\ Reads(d)[1] = r
    BY <2>1, <2>2
  <2> QED BY <2>3, ReadsFacts
<1>2. Finished(d)
  <2> HIDE DEF d
  <2> QED BY <1>1 DEF DoneInv
<1>3. m_commitsInit[r]
  <2> HIDE DEF d
  <2> QED BY <1>1, <1>2 DEF Finished
<1>4. h \in Histories[r] /\ ReadAs(cs, h)
      /\ \A i \in 1 .. Len(h) : \A c \in Range(CommitOf(h, i).changes) : [at |-> i, change |-> c] \in Range(ChangesOf(cs))
  BY <1>3, ReadAsHistory
<1>5. n \in 1 .. Len(h) /\ DOMAIN h = 1 .. Len(h) /\ Len(h) \in Nat
  BY <1>4, HistoryFacts
<1>6. InDirs(h)
  BY <1>5 DEF NoRootFiles, InDirs
<1>7. had = Had(h, n, f.file) /\ m \in 1 .. n - 1 /\ m \in had /\ \A k \in had : k <= m
  <2>1. \A k \in 1 .. n - 1 : k \in 1 .. Len(h)
    BY <1>5
  <2>2. \A k \in 1 .. n - 1 : OidAt(h, k, f.file) = Version(h, k, f.file)
    BY <1>4, <2>1, VersionFacts
  <2>3. had = Had(h, n, f.file)
    BY <2>2 DEF Had
  <2>4. had \subseteq 1 .. n - 1 /\ n - 1 \in Int /\ 1 \in Int
    BY <1>5
  <2> HIDE DEF had
  <2>5. m \in had /\ \A k \in had : k <= m
    BY <2>4, SomeOf
  <2> QED BY <2>3, <2>4, <2>5
<1>8. OidAt(h, m, f.file) = Version(h, m, f.file)
  <2>1. m \in 1 .. Len(h)
    <3> HIDE DEF m
    <3> QED BY <1>5, <1>7
  <2> HIDE DEF m, h
  <2> QED BY <1>4, <2>1, VersionFacts
<1>9. \/ Version(h, m, f.file) = f.oid
      \/ \E c \in Range(CommitOf(h, n).changes) : PairOf(Version(h, m, f.file), f.oid) \in SuccessorPairs(cs, n, c)
  <2> HIDE DEF m, h, cs, had
  <2>1. f \in FilesOf(h[n].tree)
    BY DEF h
  <2> QED BY <1>4, <1>5, <1>6, <1>7, <2>1, SuccessorMade
<1>10. ASSUME NEW c \in Range(CommitOf(h, n).changes) PROVE SuccessorPairs(cs, n, c) \subseteq pairs
  <2> DEFINE x == [at |-> n, change |-> c]
  <2>1. x \in WorkOf(d)
    <3> HIDE DEF d
    <3> QED BY <1>1, <1>4, <1>5 DEF WorkOf
  <2>2. x.at = n /\ x.change = c
    OBVIOUS
  <2> HIDE DEF x, d
  <2>3. Made(d, x) = SuccessorPairs(cs, n, c)
    BY <1>1, <2>2 DEF Made
  <2> QED BY <1>2, <2>1, <2>3 DEF Finished
<1> HIDE DEF m, h, cs
<1> QED BY <1>8, <1>9, <1>10, LinkedPair

\* Each new version in trunk is linked to the one that stable had.
LEMMA BranchesLinked ==
  ASSUME ReadInv, DoneInv, pc = "done", detector = 3, \A r \in Repos : NoRootFiles(r),
         \A k \in 1 .. Len(git["stable"]) - 1 : git["stable"][k].time <= git["stable"][k + 1].time,
         NEW n \in DOMAIN git["trunk"], NEW c \in Range(m_commits["trunk"][n].changes)
  PROVE  LET had == {k \in DOMAIN git["stable"] : git["stable"][k].time <= git["trunk"][n].time}
         IN  had # {} /\ c.oid2 # 0 /\ OidAt(git["stable"], Max(had), c.file) # 0 =>
               Linked(OidAt(git["stable"], Max(had), c.file), c.oid2)
<1> DEFINE h == git["trunk"]
           g == git["stable"]
           time == h[n].time
           had == {k \in DOMAIN g : g[k].time <= time}
           m == Max(had)
           cs == m_commits["trunk"]
           other == m_commits["stable"]
           o == OidAt(g, m, c.file)
<1> SUFFICES ASSUME had # {}, c.oid2 # 0, o # 0 PROVE Linked(o, c.oid2)
  OBVIOUS
<1>1. Finished(3)
  BY DEF DoneInv
<1>2. Reads(3)[1] = "trunk" /\ Range(Reads(3)) = Repos
  <2>1. Reads(3) = <<"trunk", "stable">>
    BY DEF Reads
  <2> QED BY <2>1, ReadsFacts
<1>3. "trunk" \in Repos /\ "stable" \in Repos /\ m_commitsInit["trunk"] /\ m_commitsInit["stable"]
  BY <1>1, <1>2 DEF Finished, Repos
<1>4. h \in Histories["trunk"] /\ ReadAs(cs, h)
      /\ \A i \in 1 .. Len(h) : \A y \in Range(CommitOf(h, i).changes) : [at |-> i, change |-> y] \in Range(ChangesOf(cs))
  BY <1>3, ReadAsHistory
<1>5. g \in Histories["stable"] /\ ReadAs(other, g) /\ TimedBy(other)
  BY <1>3, ReadAsHistory
<1>6. n \in 1 .. Len(h) /\ DOMAIN h = 1 .. Len(h)
  BY <1>3, <1>4, HistoryFacts
<1>7. DOMAIN g = 1 .. Len(g) /\ Len(g) \in Nat /\ \A k \in 1 .. Len(g) : g[k].time \in Nat
  BY <1>3, <1>5, HistoryFacts
<1>8. InDirs(h) /\ InDirs(g)
  <2>1. NoRootFiles("trunk") /\ NoRootFiles("stable")
    BY <1>3
  <2> QED BY <1>6, <1>7, <2>1 DEF NoRootFiles, InDirs
<1>9. m \in 1 .. Len(g) /\ g[m].time <= time /\ \A k \in 1 .. Len(g) : k > m => g[k].time > time
  <2>1. had \subseteq 1 .. Len(g) /\ Len(g) \in Int /\ 1 \in Int
    BY <1>7
  <2>2. m \in had /\ \A k \in had : k <= m
    <3> HIDE DEF had
    <3> QED BY <2>1, SomeOf
  <2>3. time \in Nat
    BY <1>3, <1>4, <1>6, HistoryFacts
  <2> HIDE DEF m, time
  <2>4. m \in 1 .. Len(g) /\ g[m].time <= time
    BY <2>1, <2>2
  <2>5. ASSUME NEW k \in 1 .. Len(g), k > m PROVE g[k].time > time
    <3>1. ~(k <= m)
      BY <1>7, <2>4, <2>5
    <3>2. k \notin had
      BY <2>2, <3>1
    <3>3. ~(g[k].time <= time)
      BY <1>7, <3>2
    <3> QED BY <1>7, <2>3, <3>3
  <2> QED BY <2>4, <2>5
<1> HIDE DEF m, had
<1>10. cs[n] = CommitOf(h, n) /\ cs[n].time = time /\ time \in Nat
  <2>1. CommitOf(h, n).time = h[n].time /\ h[n].time \in Nat
    <3>1. CommitOf(h, n).time = h[n].time
      BY <1>3, <1>4, <1>6, CommitOfFacts
    <3>2. h[n].time \in Nat
      BY <1>3, <1>4, <1>6, HistoryFacts
    <3> QED BY <3>1, <3>2
  <2> QED BY <1>4, <1>6, <2>1 DEF ReadAs
<1>11. c.file \in Seq(Nat) /\ Len(c.file) > 1
  <2>1. DeepChanges(CommitOf(h, n).changes)
    BY <1>3, <1>4, <1>6, <1>8, ChangesAreDeep
  <2>2. c \in Range(CommitOf(h, n).changes)
    BY <1>10
  <2>3. Len(c.file) > 1
    BY <2>1, <2>2 DEF DeepChanges
  <2>4. PICK j \in DOMAIN CommitOf(h, n).changes : c = CommitOf(h, n).changes[j]
    BY <2>2 DEF Range
  <2>5. c.file \in Seq(Nat)
    BY <2>1, <2>4, DeepFacts
  <2> QED BY <2>3, <2>5
<1>12. InOrderBut(other, 0)
  <2>1. Len(other) = Len(g) /\ \A k \in 1 .. Len(g) : other[k].time = g[k].time
    <3>1. \A k \in 1 .. Len(g) : other[k] = CommitOf(g, k) /\ CommitOf(g, k).time = g[k].time
      BY <1>3, <1>5, CommitOfFacts DEF ReadAs
    <3> QED BY <1>5, <3>1 DEF ReadAs
  <2>2. \A k \in 1 .. Len(g) - 1 : k \in 1 .. Len(g) /\ k + 1 \in 1 .. Len(g) /\ g[k].time <= g[k + 1].time
    BY <1>7
  <2>3. \A k \in 1 .. Len(other) - 1 : other[k].time <= other[k + 1].time
    BY <2>1, <2>2
  <2> HIDE DEF other
  <2> QED BY <1>5, <2>3, SortedInOrder
<1>13. o = Version(g, m, c.file)
  BY <1>3, <1>5, <1>9, VersionFacts
<1>14. findFileOidByTime(other, time, c.file) = o
  <2> HIDE DEF o, g, other, time
  <2>1. time \in Int /\ Version(g, m, c.file) # 0
    BY <1>10, <1>13
  <2> QED BY <1>3, <1>5, <1>8, <1>9, <1>11, <1>12, <1>13, <2>1, BranchFound
<1>15. InterBranchPairs(cs, other, n, c) \subseteq pairs
  <2> DEFINE x == [at |-> n, change |-> c]
  <2>1. c \in Range(CommitOf(h, n).changes)
    BY <1>10
  <2>2. x \in WorkOf(3)
    BY <1>2, <1>4, <1>6, <2>1 DEF WorkOf
  <2>3. x.at = n /\ x.change = c
    OBVIOUS
  <2> HIDE DEF x
  <2>4. Made(3, x) = InterBranchPairs(cs, other, n, c)
    <3>1. ~(3 < 3)
      OBVIOUS
    <3> QED BY <1>2, <2>3, <3>1 DEF Made
  <2> QED BY <1>1, <2>2, <2>4 DEF Finished
<1>16. o # c.oid2 => PairOf(o, c.oid2) \in InterBranchPairs(cs, other, n, c)
  <2> HIDE DEF o, other, time, cs
  <2> QED BY <1>10, <1>14, BranchMade
<1> HIDE DEF o, cs, other
<1> QED BY <1>15, <1>16, LinkedPair

\* Of all histories: every version of a template is linked to the version before it, and every new version in trunk to
\* the one that stable had at that time.
THEOREM VersionsLinked == LoaderSpec => []VersionsAreLinked
<1>1. ASSUME ReadInv, DoneInv PROVE VersionsAreLinked
  <2>1. ASSUME pc = "done", detector = 3, \A r \in Repos : NoRootFiles(r)
        PROVE  \A r \in Repos : \A n \in DOMAIN git[r] : \A f \in FilesOf(git[r][n].tree) :
                 LET had == {k \in 1 .. n - 1 : OidAt(git[r], k, f.file) # 0}
                 IN  had # {} /\ (Max(had) = n - 1 \/ Max(had) + 1 >= n - 1 - RemovalBack) =>
                       Linked(OidAt(git[r], Max(had), f.file), f.oid)
    BY <1>1, <2>1, SuccessorsLinked
  <2>2. ASSUME pc = "done", detector = 3, \A r \in Repos : NoRootFiles(r),
               \A k \in 1 .. Len(git["stable"]) - 1 : git["stable"][k].time <= git["stable"][k + 1].time
        PROVE  \A n \in DOMAIN git["trunk"] : \A c \in Range(m_commits["trunk"][n].changes) :
                 LET had == {k \in DOMAIN git["stable"] : git["stable"][k].time <= git["trunk"][n].time}
                 IN  had # {} /\ c.oid2 # 0 /\ OidAt(git["stable"], Max(had), c.file) # 0 =>
                       Linked(OidAt(git["stable"], Max(had), c.file), c.oid2)
    BY <1>1, <2>2, BranchesLinked
  <2> QED BY <2>1, <2>2 DEF VersionsAreLinked
<1> QED BY <1>1, ReadInvHolds, DoneHolds, PTL
=============================================================================
