-------------------------- MODULE InductionLemmas --------------------------
(***************************************************************************)
(* Induction over the natural numbers, and the functions defined by it, in *)
(* a form that needs no operator as a parameter: the induction hypothesis  *)
(* is a set of numbers, the body of the recursion a function.              *)
(***************************************************************************)
EXTENDS Integers, Sequences, WellFoundedInduction, TLAPS

\* A set of natural numbers that has one has a least one.
LEMMA LeastOf == \A T : T \subseteq Nat /\ T # {} => \E x \in T : \A y \in T : x <= y
<1> SUFFICES ASSUME NEW T, T \subseteq Nat, T # {} PROVE \E x \in T : \A y \in T : x <= y
  OBVIOUS
<1> DEFINE R == OpToRel(<, Nat)
<1>1. PICK x \in T : \A y \in T : <<y, x>> \notin R
  BY NatLessThanWellFounded, WFMin
<1>2. \A y \in T : ~(y < x)
  BY <1>1, Zenon DEF OpToRel
<1> QED BY <1>2

\* A set with 0, and with n + 1 for every n it has, has every natural number.
LEMMA SetInduction ==
  \A S : 0 \in S /\ (\A n \in Nat : n \in S => n + 1 \in S) => \A n \in Nat : n \in S
<1> SUFFICES ASSUME NEW S, 0 \in S, \A n \in Nat : n \in S => n + 1 \in S,
                    NEW k \in Nat, k \notin S
             PROVE  FALSE
  OBVIOUS
<1> DEFINE T == {n \in Nat : n \notin S}
<1>1. PICK x \in T : \A y \in T : x <= y
  <2>1. T \subseteq Nat /\ T # {}
    OBVIOUS
  <2> QED BY <2>1, LeastOf
<1>2. x # 0 /\ x \in Nat /\ x \notin S
  OBVIOUS
<1>3. x - 1 \in Nat /\ x - 1 \notin T
  BY <1>1, <1>2
<1>4. (x - 1) + 1 \in S
  BY <1>3
<1> QED BY <1>4, <1>2

\* A loop of N turns: the values of its variable, D[n] being what turn n makes of it.
Turns(f, S, x0, N, D) == f \in [0..N -> S] /\ f[0] = x0 /\ \A n \in 1..N : f[n] = D[n][f[n - 1]]

LEMMA Iteration ==
  ASSUME NEW S, NEW x0 \in S, NEW N \in Nat, NEW D \in [1..N -> [S -> S]]
  PROVE  \E f : Turns(f, S, x0, N, D)
<1> DEFINE Run(f, k) == f \in [0..k -> S] /\ f[0] = x0 /\ \A n \in 1..k : f[n] = D[n][f[n - 1]]
           T == {k \in Nat : k <= N => \E f \in [0..k -> S] : Run(f, k)}
<1>1. 0 \in T
  <2>1. Run([i \in 0..0 |-> x0], 0)
    OBVIOUS
  <2> QED BY <2>1
<1>2. ASSUME NEW k \in Nat, k \in T PROVE k + 1 \in T
  <2> SUFFICES ASSUME k + 1 <= N PROVE \E f \in [0..(k + 1) -> S] : Run(f, k + 1)
    OBVIOUS
  <2>1. PICK f \in [0..k -> S] : Run(f, k)
    BY <1>2
  <2> DEFINE g == [i \in 0..(k + 1) |-> IF i <= k THEN f[i] ELSE D[k + 1][f[k]]]
  <2>2. D[k + 1][f[k]] \in S
    OBVIOUS
  <2>3. g \in [0..(k + 1) -> S]
    BY <2>2
  <2>4. g[0] = x0
    BY <2>1
  <2>5. ASSUME NEW n \in 1..(k + 1) PROVE g[n] = D[n][g[n - 1]]
    <3>1. CASE n <= k
      BY <3>1, <2>1
    <3>2. CASE n = k + 1
      BY <3>2
    <3> QED BY <3>1, <3>2
  <2> QED BY <2>3, <2>4, <2>5
<1>3. N \in T
  <2> HIDE DEF T
  <2> QED BY <1>1, <1>2, SetInduction
<1> QED BY <1>3 DEF Turns

\* The numbers that chains of smaller numbers lead down to: from i to r[i], while that is one of 1..(i - 1).
WalksDown(m, r, N) == m = [i \in 0..N |-> IF r[i] \in 1..(i - 1) THEN m[r[i]] ELSE i]

LEMMA WalkExists == ASSUME NEW N \in Nat, NEW r PROVE \E m : WalksDown(m, r, N)
<1> DEFINE Upto(g, n) == \A i \in 0..(n - 1) : g[i] = IF r[i] \in 1..(i - 1) THEN g[r[i]] ELSE i
           S == {n \in Nat : \E g \in [0..(n - 1) -> Nat] : Upto(g, n)}
<1>1. 0 \in S
  <2>1. PICK g : g \in [0..(0 - 1) -> Nat]
    <3>1. [i \in 0..(0 - 1) |-> 0] \in [0..(0 - 1) -> Nat]
      OBVIOUS
    <3> QED BY <3>1
  <2>2. \A i \in 0..(0 - 1) : FALSE
    OBVIOUS
  <2>3. Upto(g, 0)
    BY <2>2
  <2> HIDE DEF Upto
  <2> QED BY <2>1, <2>3
<1>2. ASSUME NEW n \in Nat, n \in S PROVE n + 1 \in S
  <2> SUFFICES \E g \in [0..n -> Nat] : Upto(g, n + 1)
    <3>1. n + 1 \in Nat /\ (n + 1) - 1 = n
      OBVIOUS
    <3> HIDE DEF Upto
    <3> QED BY <3>1
  <2>1. PICK g \in [0..(n - 1) -> Nat] : Upto(g, n)
    BY <1>2
  <2> DEFINE h == [i \in 0..n |-> IF i < n THEN g[i] ELSE IF r[n] \in 1..(n - 1) THEN g[r[n]] ELSE n]
  <2>2. h \in [0..n -> Nat]
    BY <2>1
  <2>3. ASSUME NEW i \in 0..n PROVE h[i] = IF r[i] \in 1..(i - 1) THEN h[r[i]] ELSE i
    <3>1. r[i] \in 1..(i - 1) => r[i] \in 0..(n - 1) /\ h[r[i]] = g[r[i]]
      OBVIOUS
    <3>2. CASE i < n
      BY <2>1, <3>1, <3>2
    <3>3. CASE i = n
      BY <3>1, <3>3
    <3> QED BY <3>2, <3>3
  <2>4. (n + 1) - 1 = n
    OBVIOUS
  <2> HIDE DEF h
  <2> QED BY <2>2, <2>3, <2>4
<1>3. PICK n \in Nat : n - 1 = N /\ n \in S
  <2>1. \A n \in Nat : n \in S
    <3> HIDE DEF S
    <3> QED BY <1>1, <1>2, SetInduction
  <2>2. N + 1 \in Nat /\ (N + 1) - 1 = N
    OBVIOUS
  <2> HIDE DEF S
  <2> QED BY <2>1, <2>2
<1>4. PICK g \in [0..(n - 1) -> Nat] : Upto(g, n)
  BY <1>3
<1>5. WalksDown(g, r, N)
  <2>1. g \in [0..N -> Nat]
    BY <1>3, <1>4
  <2>2. \A i \in 0..N : g[i] = IF r[i] \in 1..(i - 1) THEN g[r[i]] ELSE i
    BY <1>3, <1>4
  <2> QED BY <2>1, <2>2 DEF WalksDown
<1> QED BY <1>5

\* They are not larger; only 0 has 0; and the walk cannot go on from them.
LEMMA WalkFacts ==
  ASSUME NEW N \in Nat, NEW r, NEW m, WalksDown(m, r, N)
  PROVE  /\ m \in [0..N -> 0..N]
         /\ \A i \in 0..N : m[i] = IF r[i] \in 1..(i - 1) THEN m[r[i]] ELSE i
         /\ \A i \in 0..N : m[i] <= i /\ (i # 0 => m[i] # 0) /\ r[m[i]] \notin 1..(m[i] - 1)
<1>1. \A i \in 0..N : m[i] = IF r[i] \in 1..(i - 1) THEN m[r[i]] ELSE i
  BY DEF WalksDown
<1> DEFINE P(i) == m[i] \in 0..N /\ m[i] <= i /\ (i # 0 => m[i] # 0) /\ r[m[i]] \notin 1..(m[i] - 1)
           S == {n \in Nat : \A i \in 0..N : i < n => P(i)}
<1>2. 0 \in S
  OBVIOUS
<1>3. ASSUME NEW n \in Nat, n \in S PROVE n + 1 \in S
  <2> SUFFICES ASSUME NEW i \in 0..N, i < n + 1 PROVE P(i)
    OBVIOUS
  <2>1. CASE i < n
    BY <1>3, <2>1
  <2>2. CASE i = n /\ r[i] \notin 1..(i - 1)
    BY <1>1, <2>2
  <2>3. CASE i = n /\ r[i] \in 1..(i - 1)
    <3>1. PICK j : j = r[i] /\ j \in 1..(i - 1)
      BY <2>3
    <3>2. j \in 0..N /\ j < n /\ m[i] = m[j]
      BY <1>1, <2>3, <3>1
    <3>3. P(j)
      BY <1>3, <3>2
    <3> QED BY <2>3, <3>1, <3>2, <3>3
  <2> QED BY <2>1, <2>2, <2>3
<1>4. N + 1 \in S
  <2>1. \A n \in Nat : n \in S
    <3> HIDE DEF S
    <3> QED BY <1>2, <1>3, SetInduction
  <2> HIDE DEF S
  <2> QED BY <2>1
<1>5. \A i \in 0..N : P(i)
  BY <1>4
<1>6. m \in [0..N -> 0..N]
  <2>1. m = [i \in 0..N |-> m[i]]
    BY DEF WalksDown
  <2> QED BY <1>5, <2>1
<1> QED BY <1>1, <1>5, <1>6
=============================================================================
