----------------------- MODULE TransitionUpdateProofs -----------------------
(***************************************************************************)
(* Proofs about TransitionUpdate, for all repositories and any number of   *)
(* runs that are killed anywhere: only IDs of one text are collapsed; a    *)
(* pair is recorded when all its equal messages are joined, and read again *)
(* unless the file was cut; and which templates make an assertion fail.    *)
(***************************************************************************)
EXTENDS TransitionUpdate, InductionLemmas, FiniteSetTheorems, TLAPS

(* Enumerations, and the minimum that the rows lead to. *)

\* An enumeration in ascending order of a set of numbers.
Enumerates(s, T) ==
  /\ s \in [1 .. Cardinality(T) -> T]
  /\ \A j, k \in 1 .. Cardinality(T) : j < k => s[j] < s[k]

\* There is one for every finite set of numbers.
LEMMA Enumeration == \A T : T \subseteq Nat /\ IsFiniteSet(T) => \E s : Enumerates(s, T)
<1> DEFINE E(T) == \E s : Enumerates(s, T)
           S == {n \in Nat : \A T \in SUBSET Nat : IsFiniteSet(T) /\ Cardinality(T) = n => E(T)}
<1>1. 0 \in S
  <2> SUFFICES ASSUME NEW T \in SUBSET Nat, IsFiniteSet(T), Cardinality(T) = 0 PROVE E(T)
    OBVIOUS
  <2>1. PICK s : s \in [1 .. 0 -> T]
    <3>1. [j \in 1 .. 0 |-> 0] \in [1 .. 0 -> T]
      OBVIOUS
    <3> QED BY <3>1
  <2>2. \A j \in 1 .. 0 : FALSE
    OBVIOUS
  <2>3. Enumerates(s, T)
    BY <2>1, <2>2 DEF Enumerates
  <2> QED BY <2>3
<1>2. ASSUME NEW n \in Nat, n \in S PROVE n + 1 \in S
  <2> SUFFICES ASSUME NEW T \in SUBSET Nat, IsFiniteSet(T), Cardinality(T) = n + 1 PROVE E(T)
    OBVIOUS
  <2>1. T # {}
    BY FS_EmptySet
  <2>2. PICK x \in T : \A y \in T : x <= y
    BY <2>1, LeastOf
  <2>3. IsFiniteSet(T \ {x}) /\ Cardinality(T \ {x}) = n
    BY FS_RemoveElement
  <2>4. PICK s : Enumerates(s, T \ {x})
    BY <1>2, <2>3
  <2>5. s \in [1 .. n -> T \ {x}] /\ \A j, k \in 1 .. n : j < k => s[j] < s[k]
    BY <2>3, <2>4 DEF Enumerates
  <2> DEFINE t == [j \in 1 .. (n + 1) |-> IF j = 1 THEN x ELSE s[j - 1]]
  <2>6. t \in [1 .. (n + 1) -> T]
    <3>1. \A j \in 1 .. (n + 1) : j # 1 => j - 1 \in 1 .. n
      OBVIOUS
    <3> QED BY <2>5, <3>1
  <2>7. ASSUME NEW j \in 1 .. (n + 1), NEW k \in 1 .. (n + 1), j < k PROVE t[j] < t[k]
    <3>1. k - 1 \in 1 .. n /\ t[k] = s[k - 1] /\ s[k - 1] \in T \ {x}
      BY <2>5, <2>7
    <3>2. CASE j = 1
      <4>1. t[j] = x /\ x \in Nat /\ s[k - 1] \in Nat /\ x <= s[k - 1] /\ x # s[k - 1]
        BY <2>2, <3>1, <3>2
      <4> HIDE DEF t
      <4> QED BY <3>1, <4>1
    <3>3. CASE j # 1
      <4>1. j - 1 \in 1 .. n /\ t[j] = s[j - 1] /\ j - 1 < k - 1
        BY <2>7, <3>3
      <4> HIDE DEF t
      <4> QED BY <2>5, <3>1, <4>1
    <3> QED BY <3>2, <3>3
  <2>8. Enumerates(t, T)
    <3> HIDE DEF t
    <3> QED BY <2>6, <2>7 DEF Enumerates
  <2> QED BY <2>8
<1>3. \A n \in Nat : n \in S
  <2> HIDE DEF S
  <2> QED BY <1>1, <1>2, SetInduction
<1> QED BY <1>3, FS_CardinalityType

\* Ascending is one.
LEMMA AscendingEnumerates ==
  ASSUME NEW T, T \subseteq Nat, IsFiniteSet(T)
  PROVE  Enumerates(Ascending(T), T)
<1>1. \E s \in [1 .. Cardinality(T) -> T] : \A j, k \in 1 .. Cardinality(T) : j < k => s[j] < s[k]
  BY Enumeration DEF Enumerates
<1> QED BY <1>1 DEF Ascending, Enumerates

\* The rows lead down: what getRecursiveMinId asserts of them.
Down(r) == r \in [AllIds -> AllIds] /\ \A i \in AllIds : r[i] < i \/ r[i] = 0

\* The equation of getRecursiveMinId.
MinEq(m, r) == m = [i \in AllIds |-> IF r[i] = 0 \/ r[i] >= i THEN i ELSE m[r[i]]]

\* There is a function that solves it, and MinIdIn is one.
LEMMA MinExists == ASSUME NEW r \in [AllIds -> AllIds] PROVE MinEq(MinIdIn(r), r)
<1> DEFINE Upto(g, n) == \A i \in 0 .. (n - 1) : g[i] = IF r[i] = 0 \/ r[i] >= i THEN i ELSE g[r[i]]
           S == {n \in Nat : n <= LastId + 1 => \E g \in [0 .. (n - 1) -> Nat] : Upto(g, n)}
<1>0. LastId \in Nat
  BY UpdateAssumption
<1>1. 0 \in S
  <2>1. PICK g : g \in [0 .. (0 - 1) -> Nat]
    <3>1. [i \in 0 .. (0 - 1) |-> 0] \in [0 .. (0 - 1) -> Nat]
      OBVIOUS
    <3> QED BY <3>1
  <2>2. \A i \in 0 .. (0 - 1) : FALSE
    OBVIOUS
  <2>3. Upto(g, 0)
    BY <2>2
  <2> HIDE DEF Upto
  <2> QED BY <2>1, <2>3
<1>2. ASSUME NEW n \in Nat, n \in S PROVE n + 1 \in S
  <2> SUFFICES ASSUME n + 1 <= LastId + 1 PROVE \E g \in [0 .. n -> Nat] : Upto(g, n + 1)
    OBVIOUS
  <2>1. PICK g \in [0 .. (n - 1) -> Nat] : Upto(g, n)
    BY <1>0, <1>2
  <2>2. n \in AllIds /\ r[n] \in Nat
    BY <1>0 DEF AllIds
  <2> DEFINE h == [i \in 0 .. n |-> IF i < n THEN g[i] ELSE IF r[n] = 0 \/ r[n] >= n THEN n ELSE g[r[n]]]
  <2>3. h \in [0 .. n -> Nat]
    <3>1. ~(r[n] = 0 \/ r[n] >= n) => r[n] \in 0 .. (n - 1)
      BY <2>2
    <3> QED BY <2>1, <3>1
  <2>4. ASSUME NEW i \in 0 .. n PROVE h[i] = IF r[i] = 0 \/ r[i] >= i THEN i ELSE h[r[i]]
    <3>1. r[i] \in Nat
      BY <1>0 DEF AllIds
    <3>2. ~(r[i] = 0 \/ r[i] >= i) => r[i] \in 0 .. (n - 1) /\ h[r[i]] = g[r[i]]
      BY <3>1
    <3>3. CASE i < n
      BY <2>1, <3>1, <3>2, <3>3
    <3>4. CASE i = n
      BY <3>2, <3>4
    <3> QED BY <3>3, <3>4
  <2>5. (n + 1) - 1 = n
    OBVIOUS
  <2> HIDE DEF h
  <2> QED BY <2>3, <2>4, <2>5
<1>3. LastId + 1 \in S
  <2> HIDE DEF S
  <2>1. \A n \in Nat : n \in S
    BY <1>1, <1>2, SetInduction
  <2> QED BY <1>0, <2>1
<1>4. PICK g \in [0 .. LastId -> Nat] : \A i \in 0 .. LastId : g[i] = IF r[i] = 0 \/ r[i] >= i THEN i ELSE g[r[i]]
  <2>1. PICK n \in Nat : n = LastId + 1 /\ n - 1 = LastId
    BY <1>0
  <2>2. PICK g \in [0 .. (n - 1) -> Nat] : Upto(g, n)
    BY <1>3, <2>1
  <2> QED BY <2>1, <2>2
<1>6. MinEq(g, r)
  <2>1. g \in [AllIds -> Nat]
    BY <1>4 DEF AllIds
  <2>2. ASSUME NEW i \in AllIds PROVE g[i] = IF r[i] = 0 \/ r[i] >= i THEN i ELSE g[r[i]]
    BY <1>4, Zenon DEF AllIds
  <2> QED BY <2>1, <2>2 DEF MinEq
<1>7. MinEq(CHOOSE m : MinEq(m, r), r)
  BY <1>6
<1> QED BY <1>7 DEF MinIdIn, MinEq

\* The ID that the rows lead to: it is the smallest, and only 0 has 0.
LEMMA MinFacts ==
  ASSUME NEW r, Down(r)
  PROVE  /\ MinIdIn(r) \in [AllIds -> AllIds]
         /\ \A i \in AllIds : MinIdIn(r)[i] = IF r[i] = 0 THEN i ELSE MinIdIn(r)[r[i]]
         /\ \A i \in AllIds : MinIdIn(r)[i] <= i /\ (i # 0 => MinIdIn(r)[i] # 0)
<1>0. LastId \in Nat /\ AllIds = 0 .. LastId
  BY UpdateAssumption DEF AllIds
<1>1. PICK m : m = MinIdIn(r)
  OBVIOUS
<1>2. m = [i \in AllIds |-> IF r[i] = 0 \/ r[i] >= i THEN i ELSE m[r[i]]]
  BY <1>1, MinExists DEF MinEq, Down
<1>3. \A i \in AllIds : r[i] \in AllIds /\ (r[i] < i \/ r[i] = 0)
  BY DEF Down
<1>4. \A i \in AllIds : m[i] = IF r[i] = 0 THEN i ELSE m[r[i]]
  <2> SUFFICES ASSUME NEW i \in AllIds PROVE m[i] = IF r[i] = 0 THEN i ELSE m[r[i]]
    OBVIOUS
  <2>1. r[i] = 0 \/ r[i] >= i <=> r[i] = 0
    BY <1>0, <1>3
  <2>2. m[i] = IF r[i] = 0 \/ r[i] >= i THEN i ELSE m[r[i]]
    BY <1>2, Zenon
  <2> QED BY <2>1, <2>2
<1> DEFINE P(i) == m[i] \in AllIds /\ m[i] <= i /\ (i # 0 => m[i] # 0)
           S == {n \in Nat : \A i \in AllIds : i < n => P(i)}
<1>5. 0 \in S
  BY <1>0
<1>6. ASSUME NEW n \in Nat, n \in S PROVE n + 1 \in S
  <2> SUFFICES ASSUME NEW i \in AllIds, i < n + 1 PROVE P(i)
    OBVIOUS
  <2>1. CASE i < n
    BY <1>6, <2>1
  <2>2. CASE i = n /\ r[i] = 0
    BY <1>0, <1>4, <2>2
  <2>3. CASE i = n /\ r[i] # 0
    <3>1. r[i] \in AllIds /\ r[i] < n /\ m[i] = m[r[i]]
      BY <1>3, <1>4, <2>3
    <3>2. P(r[i])
      BY <1>6, <3>1
    <3> QED BY <1>0, <2>3, <3>1, <3>2
  <2> QED BY <1>0, <2>1, <2>2, <2>3
<1>7. LastId + 1 \in S
  <2> HIDE DEF S
  <2>1. \A n \in Nat : n \in S
    BY <1>5, <1>6, SetInduction
  <2> QED BY <1>0, <2>1
<1>8. \A i \in AllIds : P(i)
  BY <1>0, <1>7
<1>9. m \in [AllIds -> AllIds]
  <2>1. \A i \in AllIds : m[i] \in AllIds
    BY <1>8
  <2>2. m = [i \in AllIds |-> m[i]]
    BY <1>2
  <2> QED BY <2>1, <2>2
<1> QED BY <1>1, <1>4, <1>8, <1>9

\* What addRow writes: a row leads to the smaller of the two minima, or stays; the rows still lead down.
AddsRow(r, a, b, min) ==
  /\ min \in AllIds /\ min \in {MinIdIn(r)[a], MinIdIn(r)[b]} /\ min <= a /\ min <= b
  /\ Down(AddRow(r, a, b))
  /\ \A i \in AllIds : AddRow(r, a, b)[i] = IF i \in {a, b} \ {min} THEN min ELSE r[i]

LEMMA AddRowFacts ==
  ASSUME NEW r, Down(r), NEW a \in AllIds, NEW b \in AllIds
  PROVE  AddsRow(r, a, b, Smaller(MinIdIn(r)[a], MinIdIn(r)[b]))
<1> PICK min : min = Smaller(MinIdIn(r)[a], MinIdIn(r)[b])
  OBVIOUS
<1>0. LastId \in Nat /\ AllIds = 0 .. LastId
  BY UpdateAssumption DEF AllIds
<1>1. PICK x \in AllIds, y \in AllIds : x = MinIdIn(r)[a] /\ y = MinIdIn(r)[b] /\ x <= a /\ y <= b
  BY MinFacts
<1>2. min \in {x, y} /\ min <= x /\ min <= y
  BY <1>0, <1>1 DEF Smaller
<1>3. min \in AllIds /\ min <= a /\ min <= b
  BY <1>0, <1>1, <1>2
<1>4. r \in [AllIds -> AllIds] /\ \A i \in AllIds : r[i] < i \/ r[i] = 0
  BY DEF Down
<1>5. AddRow(r, a, b) = [r EXCEPT ![a] = IF a # min THEN min ELSE @, ![b] = IF b # min THEN min ELSE @]
  BY DEF AddRow
<1>6. AddRow(r, a, b) \in [AllIds -> AllIds]
  BY <1>3, <1>4, <1>5
<1>7. \A i \in AllIds : AddRow(r, a, b)[i] = IF i \in {a, b} \ {min} THEN min ELSE r[i]
  BY <1>3, <1>4, <1>5
<1>8. \A i \in AllIds : AddRow(r, a, b)[i] < i \/ AddRow(r, a, b)[i] = 0
  <2> SUFFICES ASSUME NEW i \in AllIds PROVE AddRow(r, a, b)[i] < i \/ AddRow(r, a, b)[i] = 0
    OBVIOUS
  <2>1. CASE i \in {a, b} \ {min}
    BY <1>0, <1>3, <1>7, <2>1
  <2>2. CASE i \notin {a, b} \ {min}
    BY <1>4, <1>7, <2>2
  <2> QED BY <2>1, <2>2
<1>9. Down(AddRow(r, a, b))
  BY <1>6, <1>8 DEF Down
<1>10. AddsRow(r, a, b, min)
  BY <1>1, <1>2, <1>3, <1>7, <1>9 DEF AddsRow
<1> QED BY <1>10

---------------------------------------------------------------------------
(* Texts, places and equal messages. *)

\* A blob has finitely many texts.
LEMMA TextsFinite == ASSUME NEW o \in Oids PROVE Texts(o) \subseteq Nat /\ IsFiniteSet(Texts(o))
<1>1. Messages[o] \in Seq(Nat)
  BY UpdateAssumption
<1>2. PICK n \in Nat : n = Len(Messages[o])
  BY <1>1
<1>3. Texts(o) \subseteq Nat
  BY <1>1 DEF Texts
<1> DEFINE f == [i \in 1 .. n |-> Messages[o][i]]
<1>4. f \in Surjection(1 .. n, Texts(o))
  <2>1. Texts(o) = {Messages[o][i] : i \in 1 .. n}
    BY <1>2 DEF Texts
  <2>2. f \in [1 .. n -> Texts(o)] /\ \A t \in Texts(o) : \E i \in 1 .. n : f[i] = t
    BY <2>1
  <2> HIDE DEF f
  <2> QED BY <2>2 DEF Surjection
<1>5. IsFiniteSet(1 .. n)
  BY <1>2, FS_Interval
<1>6. IsFiniteSet(Texts(o))
  <2> HIDE DEF f
  <2> QED BY <1>4, <1>5, FS_Surjection
<1> QED BY <1>3, <1>6

\* Where a message is in a blob.
LEMMA IndexFacts ==
  ASSUME NEW o \in Oids, NEW m \in Texts(o)
  PROVE  IndexOf(o, m) \in 1 .. Len(Messages[o]) /\ Messages[o][IndexOf(o, m)] = m
BY DEF Texts, IndexOf

\* The number of a message: below the number of messages when the template has no IDs.
LEMMA PlaceFacts ==
  ASSUME NEW o \in Oids, TpHash[o] # nil, NEW m \in Texts(o)
  PROVE  /\ Place(o, IndexOf(o, m)) \in AllIds
         /\ Numbered(o) => Place(o, IndexOf(o, m)) # 0
         /\ ~Numbered(o) => Place(o, IndexOf(o, m)) < Len(Messages[o])
<1>1. PICK f \in Nat : f = First[TpHash[o]]
  BY UpdateAssumption
<1>2. PICK n \in Nat : n = Len(Messages[o])
  BY UpdateAssumption
<1>3. PICK i \in 1 .. n : i = IndexOf(o, m)
  BY <1>2, IndexFacts
<1>4. PICK l \in Nat : l = LastId
  BY UpdateAssumption
<1>5. f + n - 1 <= l
  BY <1>1, <1>2, <1>4, UpdateAssumption DEF Place
<1>6. f + i - 1 \in 0 .. l /\ (f # 0 => f + i - 1 # 0) /\ (f = 0 => f + i - 1 < n)
  BY <1>5
<1> QED BY <1>1, <1>2, <1>3, <1>4, <1>6 DEF Place, AllIds, Numbered

\* The equal messages of two blobs: their texts in ascending order, and the two IDs of each.
EqualShape(a, b, e) ==
  \E s : /\ DOMAIN s = 1 .. Len(e)
         /\ \A k \in 1 .. Len(e) :
              /\ s[k] \in Texts(a) \cap Texts(b)
              /\ e[k] = <<Place(a, IndexOf(a, s[k])), Place(b, IndexOf(b, s[k]))>>
         /\ \A j, k \in 1 .. Len(e) : j # k => s[j] # s[k]

\* EqualMessages is such a sequence.
LEMMA EqualFacts ==
  ASSUME NEW a \in Oids, NEW b \in Oids, TpHash[a] # nil, TpHash[b] # nil,
         NEW e, e = EqualMessages(a, b)
  PROVE  e \in Seq(AllIds \X AllIds) /\ EqualShape(a, b, e)
<1> DEFINE T == Texts(a) \cap Texts(b)
<1>1. T \subseteq Nat /\ IsFiniteSet(T)
  BY TextsFinite, FS_Subset
<1>2. PICK s : s = Ascending(T) /\ Enumerates(s, T)
  BY <1>1, AscendingEnumerates
<1>3. PICK n \in Nat : n = Cardinality(T)
  BY <1>1, FS_CardinalityType
<1>4. s \in [1 .. n -> T] /\ \A j, k \in 1 .. n : j < k => s[j] < s[k]
  BY <1>2, <1>3 DEF Enumerates
<1>5. e = [k \in 1 .. n |-> <<Place(a, IndexOf(a, s[k])), Place(b, IndexOf(b, s[k]))>>]
  BY <1>2, <1>4 DEF EqualMessages, get_pot_first_id, Place
<1>6. \A k \in 1 .. n : <<Place(a, IndexOf(a, s[k])), Place(b, IndexOf(b, s[k]))>> \in AllIds \X AllIds
  <2> SUFFICES ASSUME NEW k \in 1 .. n
               PROVE  <<Place(a, IndexOf(a, s[k])), Place(b, IndexOf(b, s[k]))>> \in AllIds \X AllIds
    OBVIOUS
  <2>1. s[k] \in Texts(a) /\ s[k] \in Texts(b)
    BY <1>4
  <2>2. Place(a, IndexOf(a, s[k])) \in AllIds /\ Place(b, IndexOf(b, s[k])) \in AllIds
    BY <2>1, PlaceFacts
  <2> QED BY <2>2
<1>7. e \in Seq(AllIds \X AllIds) /\ Len(e) = n
  <2>1. e \in [1 .. n -> AllIds \X AllIds]
    BY <1>5, <1>6
  <2> QED BY <2>1
<1>8. \A j, k \in 1 .. n : j # k => s[j] # s[k]
  <2> SUFFICES ASSUME NEW j \in 1 .. n, NEW k \in 1 .. n, j # k, s[j] = s[k] PROVE FALSE
    OBVIOUS
  <2>1. s[j] \in Nat
    BY <1>1, <1>4
  <2>2. CASE j < k
    BY <1>4, <2>1, <2>2
  <2>3. CASE k < j
    BY <1>4, <2>1, <2>3
  <2> QED BY <2>2, <2>3
<1>9. EqualShape(a, b, e)
  <2>1. \A k \in 1 .. n : s[k] \in T /\ e[k] = <<Place(a, IndexOf(a, s[k])), Place(b, IndexOf(b, s[k]))>>
    BY <1>4, <1>5
  <2>2. DOMAIN s = 1 .. n
    BY <1>4
  <2> QED BY <1>7, <1>8, <2>1, <2>2 DEF EqualShape
<1> QED BY <1>7, <1>9

\* An ID has the one text that it was given to.
LEMMA OneText ==
  ASSUME NEW o \in Oids, Numbered(o), NEW m \in Texts(o), NEW k, HasText(Place(o, IndexOf(o, m)), k)
  PROVE  k = m
<1>1. PICK u \in Oids : Numbered(u) /\ k \in Texts(u) /\ Place(o, IndexOf(o, m)) = Place(u, IndexOf(u, k))
  BY DEF HasText
<1>2. /\ IndexOf(o, m) \in 1 .. Len(Messages[o]) /\ Messages[o][IndexOf(o, m)] = m
      /\ IndexOf(u, k) \in 1 .. Len(Messages[u]) /\ Messages[u][IndexOf(u, k)] = k
  BY <1>1, IndexFacts
<1>3. CASE TpHash[o] # TpHash[u]
  BY <1>1, <1>2, <1>3, UpdateAssumption
<1>4. CASE TpHash[o] = TpHash[u]
  <2>1. Messages[o] = Messages[u]
    BY <1>4, UpdateAssumption DEF Numbered
  <2>2. PICK i \in Nat, j \in Nat, f \in Nat : i = IndexOf(o, m) /\ j = IndexOf(u, k) /\ f = First[TpHash[o]]
    <3>1. Len(Messages[o]) \in Nat /\ Len(Messages[u]) \in Nat /\ First[TpHash[o]] \in Nat
      BY UpdateAssumption DEF Numbered
    <3>2. IndexOf(o, m) \in Nat /\ IndexOf(u, k) \in Nat
      BY <1>2, <3>1
    <3> QED BY <3>1, <3>2
  <2>3. f + i - 1 = f + j - 1
    BY <1>1, <1>4, <2>2 DEF Place
  <2>4. i = j
    BY <2>3
  <2> QED BY <1>2, <2>1, <2>2, <2>4
<1> QED BY <1>3, <1>4

\* The two IDs of an equal message are the IDs of one text, or one of them was not given.
TextOrTaken(q) == SameText(q[1], q[2]) \/ ~Given(q[1]) \/ ~Given(q[2])

\* So it is for every text that two blobs share.
LEMMA EqualText ==
  ASSUME NEW a \in Oids, NEW b \in Oids, TpHash[a] # nil, TpHash[b] # nil, NEW m \in Texts(a) \cap Texts(b)
  PROVE  TextOrTaken(<<Place(a, IndexOf(a, m)), Place(b, IndexOf(b, m))>>)
<1>1. PICK x \in AllIds : x = Place(a, IndexOf(a, m))
  BY PlaceFacts
<1>2. PICK y \in AllIds : y = Place(b, IndexOf(b, m))
  BY PlaceFacts
<1>3. CASE Numbered(a) /\ Numbered(b)
  <2>1. \A k : HasText(x, k) => k = m
    BY <1>1, <1>3, OneText
  <2>2. \A k : HasText(y, k) => k = m
    BY <1>2, <1>3, OneText
  <2>3. HasText(x, m) /\ HasText(y, m)
    BY <1>1, <1>2, <1>3 DEF HasText
  <2>4. SameText(x, y)
    BY <2>1, <2>2, <2>3 DEF SameText
  <2> QED BY <1>1, <1>2, <2>4 DEF TextOrTaken
<1>4. ASSUME NEW o \in Oids, TpHash[o] # nil, m \in Texts(o), ~Numbered(o), NEW z \in AllIds, z = Place(o, IndexOf(o, m))
      PROVE  ~Given(z)
  <2>1. z < Len(Messages[o])
    BY <1>4, PlaceFacts
  <2>2. z \in Nat /\ Len(Messages[o]) \in Nat
    BY UpdateAssumption DEF AllIds
  <2> QED BY <1>4, <2>1, <2>2 DEF Given
<1>5. CASE ~Numbered(a)
  <2>1. ~Given(x)
    BY <1>1, <1>4, <1>5
  <2> QED BY <1>1, <1>2, <2>1 DEF TextOrTaken
<1>6. CASE ~Numbered(b)
  <2>1. ~Given(y)
    BY <1>2, <1>4, <1>6
  <2> QED BY <1>1, <1>2, <2>1 DEF TextOrTaken
<1> QED BY <1>3, <1>5, <1>6

---------------------------------------------------------------------------
(* What a write to the table does to chains, texts and ties. *)

\* A number above one that was given was given.
LEMMA GivenUp == ASSUME NEW i \in Nat, NEW j \in Nat, i <= j, Given(i) PROVE Given(j)
<1> SUFFICES ASSUME NEW o \in Oids, TpHash[o] # nil, ~Numbered(o) PROVE j >= Len(Messages[o])
  BY DEF Given
<1>1. Len(Messages[o]) \in Nat /\ i >= Len(Messages[o])
  BY UpdateAssumption DEF Given
<1> QED BY <1>1

\* A row that leads to an ID that was given leads to one of the same text.
LinksSameText(r) == \A i \in AllIds : r[i] # 0 /\ Given(r[i]) => SameText(i, r[i])

\* Then the ID that the rows lead to has the text as well.
LEMMA ChainText ==
  ASSUME NEW r, Down(r), LinksSameText(r)
  PROVE  \A i \in AllIds : Given(MinIdIn(r)[i]) => SameText(i, MinIdIn(r)[i])
<1>0. LastId \in Nat /\ AllIds = 0 .. LastId
  BY UpdateAssumption DEF AllIds
<1>1. PICK m : m = MinIdIn(r)
  OBVIOUS
<1>2. /\ m \in [AllIds -> AllIds]
      /\ \A i \in AllIds : m[i] = IF r[i] = 0 THEN i ELSE m[r[i]]
      /\ \A i \in AllIds : m[i] <= i
  BY <1>1, MinFacts
<1> DEFINE P(i) == Given(m[i]) => SameText(i, m[i])
           S == {n \in Nat : \A i \in AllIds : i < n => P(i)}
<1>5. 0 \in S
  BY <1>0
<1>6. ASSUME NEW n \in Nat, n \in S PROVE n + 1 \in S
  <2> SUFFICES ASSUME NEW i \in AllIds, i < n + 1 PROVE P(i)
    OBVIOUS
  <2>1. CASE i < n
    BY <1>6, <2>1
  <2>2. CASE i = n /\ r[i] = 0
    BY <1>2, <2>2 DEF SameText
  <2>3. CASE i = n /\ r[i] # 0
    <3>1. r[i] \in AllIds /\ r[i] < n /\ m[i] = m[r[i]] /\ m[r[i]] <= r[i] /\ m[i] \in AllIds
      BY <1>2, <2>3 DEF Down
    <3>2. P(r[i])
      BY <1>6, <3>1
    <3>3. Given(m[i]) => Given(r[i])
      BY <1>0, <3>1, GivenUp
    <3>4. Given(m[i]) => SameText(i, r[i]) /\ SameText(r[i], m[i])
      BY <2>3, <3>1, <3>2, <3>3 DEF LinksSameText
    <3> QED BY <3>4 DEF SameText
  <2> QED BY <1>0, <2>1, <2>2, <2>3
<1>7. LastId + 1 \in S
  <2> HIDE DEF S
  <2>1. \A n \in Nat : n \in S
    BY <1>5, <1>6, SetInduction
  <2> QED BY <1>0, <2>1
<1> QED BY <1>0, <1>1, <1>7

\* addRow keeps that, for two IDs of one text, or with one that was not given.
LEMMA AddRowText ==
  ASSUME NEW r, Down(r), LinksSameText(r), NEW a \in AllIds, NEW b \in AllIds, TextOrTaken(<<a, b>>)
  PROVE  LinksSameText(AddRow(r, a, b))
<1>0. AllIds \subseteq Nat
  BY DEF AllIds
<1>1. PICK min : AddsRow(r, a, b, min)
  BY AddRowFacts
<1>2. /\ min \in AllIds /\ min \in {MinIdIn(r)[a], MinIdIn(r)[b]}
      /\ min <= a /\ min <= b
      /\ \A i \in AllIds : AddRow(r, a, b)[i] = IF i \in {a, b} \ {min} THEN min ELSE r[i]
  BY <1>1, Zenon DEF AddsRow
<1>3. Given(min) => SameText(a, min) /\ SameText(b, min)
  <2> SUFFICES ASSUME Given(min) PROVE SameText(a, min) /\ SameText(b, min)
    OBVIOUS
  <2>1. Given(a) /\ Given(b)
    BY <1>0, <1>2, GivenUp
  <2>2. SameText(a, b)
    BY <2>1 DEF TextOrTaken
  <2>3. SameText(a, min) \/ SameText(b, min)
    BY <1>2, ChainText
  <2> QED BY <2>2, <2>3 DEF SameText
<1> SUFFICES ASSUME NEW i \in AllIds, AddRow(r, a, b)[i] # 0, Given(AddRow(r, a, b)[i])
             PROVE  SameText(i, AddRow(r, a, b)[i])
  BY DEF LinksSameText
<1>4. CASE i \in {a, b} \ {min}
  BY <1>2, <1>3, <1>4
<1>5. CASE i \notin {a, b} \ {min}
  BY <1>2, <1>5 DEF LinksSameText
<1> QED BY <1>4, <1>5

\* Two IDs whose rows lead to one row, or one to the other.
Tied(r, a, b) == (r[a] = r[b] /\ r[a] # 0) \/ (r[a] = b /\ b # 0) \/ (r[b] = a /\ a # 0)

\* They lead to one ID.
LEMMA TiedJoined ==
  ASSUME NEW r, Down(r), NEW a \in AllIds, NEW b \in AllIds, Tied(r, a, b)
  PROVE  MinIdIn(r)[a] = MinIdIn(r)[b]
<1>1. \A i \in AllIds : MinIdIn(r)[i] = IF r[i] = 0 THEN i ELSE MinIdIn(r)[r[i]]
  BY MinFacts
<1> QED BY <1>1 DEF Tied

\* addRow ties its two IDs, and unties no others.
LEMMA AddRowTies ==
  ASSUME NEW r, Down(r), NEW a \in AllIds, NEW b \in AllIds, a # b, a # 0, b # 0
  PROVE  /\ Tied(AddRow(r, a, b), a, b)
         /\ \A c, d \in AllIds : Tied(r, c, d) /\ {c, d} \cap {a, b} = {} => Tied(AddRow(r, a, b), c, d)
<1>1. PICK min : AddsRow(r, a, b, min)
  BY AddRowFacts
<1>2. /\ min \in AllIds /\ min \in {MinIdIn(r)[a], MinIdIn(r)[b]}
      /\ \A i \in AllIds : AddRow(r, a, b)[i] = IF i \in {a, b} \ {min} THEN min ELSE r[i]
  BY <1>1, Zenon DEF AddsRow
<1>3. min # 0
  BY <1>2, MinFacts
<1>4. Tied(AddRow(r, a, b), a, b)
  BY <1>2, <1>3 DEF Tied
<1>5. \A c, d \in AllIds : Tied(r, c, d) /\ {c, d} \cap {a, b} = {} => Tied(AddRow(r, a, b), c, d)
  BY <1>2 DEF Tied
<1> QED BY <1>4, <1>5

\* The IDs of the equal messages of two numbered blobs are not those of another of their messages.
LEMMA DistinctIds ==
  ASSUME NEW a \in Oids, NEW b \in Oids, Numbered(a), Numbered(b), NEW e, EqualShape(a, b, e),
         NEW j \in 1 .. Len(e), NEW k \in 1 .. Len(e)
  PROVE  /\ e[k][1] \in AllIds /\ e[k][2] \in AllIds /\ e[k][1] # 0 /\ e[k][2] # 0
         /\ j # k => {e[j][1], e[j][2]} \cap {e[k][1], e[k][2]} = {}
<1>1. PICK s : /\ \A i \in 1 .. Len(e) : /\ s[i] \in Texts(a) \cap Texts(b)
                                         /\ e[i] = <<Place(a, IndexOf(a, s[i])), Place(b, IndexOf(b, s[i]))>>
               /\ \A h, i \in 1 .. Len(e) : h # i => s[h] # s[i]
  BY DEF EqualShape
<1>2. /\ s[j] \in Texts(a) /\ s[j] \in Texts(b) /\ s[k] \in Texts(a) /\ s[k] \in Texts(b)
      /\ e[j][1] = Place(a, IndexOf(a, s[j])) /\ e[j][2] = Place(b, IndexOf(b, s[j]))
      /\ e[k][1] = Place(a, IndexOf(a, s[k])) /\ e[k][2] = Place(b, IndexOf(b, s[k]))
  BY <1>1
<1>3. e[k][1] \in AllIds /\ e[k][2] \in AllIds /\ e[k][1] # 0 /\ e[k][2] # 0
  BY <1>2, PlaceFacts DEF Numbered
<1>4. HasText(e[j][1], s[j]) /\ HasText(e[j][2], s[j])
  BY <1>2 DEF HasText
<1>5. \A t : HasText(e[k][1], t) \/ HasText(e[k][2], t) => t = s[k]
  BY <1>2, OneText
<1>6. j # k => s[j] # s[k]
  BY <1>1
<1>7. ASSUME j # k PROVE {e[j][1], e[j][2]} \cap {e[k][1], e[k][2]} = {}
  <2>1. s[j] # s[k]
    BY <1>6, <1>7
  <2> QED BY <1>4, <1>5, <2>1
<1> QED BY <1>3, <1>7

---------------------------------------------------------------------------
(* The file and what is left to do. *)

\* The pairs that detectTransitions returns, with the smaller hash first.
OrderedPairs == {p \in Oids \X Oids : p[1] < p[2]}

\* What is left to do, and what the file is made of.
IInv ==
  /\ commits \in DOMAIN Detected
  /\ cuts \in Nat
  /\ file \in Seq(Oids)
  /\ pairs \subseteq OrderedPairs
  /\ dumped \subseteq OrderedPairs
  /\ cuts = 0 => Len(file) % 2 = 0 /\ Records(file) \subseteq dumped
  /\ pc = "append" => \A p \in pairs : Current(p) => p \in dumped
  /\ abort = "order" => cuts > 0

\* The script is at one pair at a time.
LEMMA OneCurrent ==
  ASSUME pairs \subseteq OrderedPairs, NEW p \in pairs, NEW q \in pairs, Current(p), Current(q)
  PROVE  p = q
<1> SUFFICES ASSUME p # q PROVE FALSE
  OBVIOUS
<1>1. PairLess(p, q) /\ PairLess(q, p)
  BY DEF Current
<1>2. /\ p[1] \in Nat /\ p[2] \in Nat
      /\ q[1] \in Nat /\ q[2] \in Nat
  BY UpdateAssumption DEF OrderedPairs
<1> QED BY <1>1, <1>2 DEF PairLess

\* A pair behind the records of a file is one more record.
LEMMA AppendRecord ==
  ASSUME NEW f \in Seq(Oids), Len(f) % 2 = 0, NEW p \in Oids \X Oids
  PROVE  /\ f \o SubSeq(p, 1, 2) \in Seq(Oids)
         /\ Len(f \o SubSeq(p, 1, 2)) % 2 = 0
         /\ Records(f \o SubSeq(p, 1, 2)) = Records(f) \cup {p}
<1> DEFINE g == f \o SubSeq(p, 1, 2)
<1>1. PICK a \in Oids, b \in Oids : p = <<a, b>>
  OBVIOUS
<1>2. SubSeq(p, 1, 2) = <<a, b>>
  <2>1. <<a, b>> \in Seq(Oids) /\ Len(<<a, b>>) = 2
    OBVIOUS
  <2>2. SubSeq(<<a, b>>, 1, 2) = [i \in 1 .. 2 |-> <<a, b>>[i]]
    BY <2>1
  <2>3. <<a, b>> = [i \in 1 .. 2 |-> <<a, b>>[i]]
    BY <2>1
  <2> QED BY <1>1, <2>2, <2>3
<1>3. /\ g \in Seq(Oids) /\ Len(g) = Len(f) + 2 /\ Len(f) \in Nat
      /\ g[Len(f) + 1] = a /\ g[Len(f) + 2] = b
      /\ \A i \in 1 .. Len(f) : g[i] = f[i]
  <2>0. g = f \o <<a, b>>
    BY <1>2
  <2>1. <<a, b>> \in Seq(Oids) /\ Len(<<a, b>>) = 2
    OBVIOUS
  <2> HIDE DEF g
  <2>2. g \in Seq(Oids) /\ Len(g) = Len(f) + 2
    BY <2>0, <2>1
  <2>3. g[Len(f) + 1] = <<a, b>>[1] /\ g[Len(f) + 2] = <<a, b>>[2]
    BY <2>0, <2>1
  <2>4. \A i \in 1 .. Len(f) : g[i] = f[i]
    BY <2>0, <2>1
  <2> QED BY <2>2, <2>3, <2>4
<1>4. PICK n \in Nat : Len(f) = 2 * n
  <2>1. Len(f) \div 2 \in Nat /\ Len(f) = 2 * (Len(f) \div 2)
    BY <1>3
  <2> QED BY <2>1
<1>5. Len(f) \div 2 = n /\ Len(g) \div 2 = n + 1 /\ Len(g) % 2 = 0
  BY <1>3, <1>4
<1> HIDE DEF g
<1>6. \A k \in 1 .. n : Record(g, k) = Record(f, k)
  <2>1. \A k \in 1 .. n : 2 * k - 1 \in 1 .. Len(f) /\ 2 * k \in 1 .. Len(f)
    BY <1>3, <1>4
  <2> QED BY <1>3, <2>1 DEF Record
<1>7. Record(g, n + 1) = p
  <2>1. 2 * (n + 1) - 1 = Len(f) + 1 /\ 2 * (n + 1) = Len(f) + 2
    BY <1>3, <1>4
  <2> QED BY <1>1, <1>3, <2>1 DEF Record
<1>8. 1 .. (n + 1) = (1 .. n) \cup {n + 1}
  OBVIOUS
<1>9. Records(g) = Records(f) \cup {p}
  BY <1>5, <1>6, <1>7, <1>8 DEF Records
<1> QED BY <1>3, <1>5, <1>9 DEF g

\* Every step of the script, and whatever happens around it, keeps the invariant.
LEMMA AlwaysIInv == Spec => []IInv
<1>1. Init => IInv
  <2>1. Records(<<>>) = {}
    BY DEF Records
  <2> QED BY <2>1, UpdateAssumption DEF Init, IInv
<1>2. IInv /\ [Next]_vars => IInv'
  <2> SUFFICES ASSUME IInv, [Next]_vars PROVE IInv'
    OBVIOUS
  <2>1. ASSUME UNCHANGED <<file, cuts, dumped>>, commits' \in DOMAIN Detected, pairs' \subseteq pairs,
               pc' # "append" \/ (pc = "append" /\ pairs' = pairs), abort' = "order" => abort = "order"
        PROVE  IInv'
    <3>1. pairs' = pairs => \A p \in pairs : Current(p)' <=> Current(p)
      BY DEF Current
    <3> QED BY <2>1, <3>1 DEF IInv
  <2>2. CASE orderAssertFails
    <3>1. cuts = 0 => \A k \in 1 .. Len(file) \div 2 : InOrder(Record(file, k))
      BY DEF IInv, Records, InOrder, OrderedPairs
    <3>2. cuts # 0
      <4>1. CASE MustAssert(file)
        BY <3>1, <4>1 DEF MustAssert, IInv
      <4>2. CASE MayAssert(file)
        <5>1. 1 \in 1 .. Len(file) \div 2
          BY <4>2 DEF MayAssert, IInv
        <5> QED BY <3>1, <4>2, <5>1 DEF MayAssert
      <4> QED BY <2>2, <4>1, <4>2 DEF orderAssertFails
    <3> QED BY <2>2, <3>2 DEF orderAssertFails, End, Unchanged, IInv
  <2>3. CASE detect_transitions_inc
    <3>1. pairs' \subseteq OrderedPairs
      BY <2>3, UpdateAssumption DEF detect_transitions_inc, Filtered, IInv, OrderedPairs
    <3> QED BY <2>3, <3>1 DEF detect_transitions_inc, Unchanged, IInv
  <2>4. CASE dumpEnds
    <3>1. PICK p \in pairs : Current(p) /\ dumped' = dumped \cup {p}
      BY <2>4 DEF dumpEnds
    <3>2. UNCHANGED <<file, cuts, pairs, commits, abort>> /\ p \in OrderedPairs
      BY <2>4 DEF dumpEnds, Unchanged, IInv
    <3>3. \A q \in pairs' : Current(q)' => q = p
      BY <3>1, <3>2, OneCurrent DEF Current, IInv
    <3> QED BY <3>1, <3>2, <3>3 DEF IInv
  <2>5. CASE append_processed_pairs
    <3>1. PICK p \in pairs, n \in 0 .. 2 :
            /\ Current(p) /\ pairs' = pairs \ {p} /\ file' = file \o SubSeq(p, 1, n)
            /\ cuts' = IF n < 2 THEN cuts + 1 ELSE cuts
      BY <2>5 DEF append_processed_pairs
    <3>2. UNCHANGED <<dumped, commits, abort>> /\ pc = "append" /\ pc' = "loop"
      BY <2>5 DEF append_processed_pairs
    <3>3. p \in Oids \X Oids /\ p \in dumped
      BY <3>1, <3>2 DEF IInv, OrderedPairs
    <3>4. file' \in Seq(Oids)
      <4>1. PICK a \in Oids, b \in Oids : p = <<a, b>>
        BY <3>3
      <4>2. p \in Seq(Oids) /\ Len(p) = 2
        BY <4>1
      <4>3. SubSeq(p, 1, n) \in Seq(Oids)
        <5>1. \A S : \A s \in Seq(S) : \A k \in 0 .. Len(s) : SubSeq(s, 1, k) \in Seq(S)
          OBVIOUS
        <5> QED BY <4>2, <5>1
      <4> QED BY <3>1, <4>3 DEF IInv
    <3>5. CASE n = 2
      BY <3>1, <3>2, <3>3, <3>4, <3>5, AppendRecord DEF IInv
    <3>6. CASE n < 2
      <4>1. cuts' \in Nat \ {0} /\ pairs' \subseteq pairs
        BY <3>1, <3>6 DEF IInv
      <4> QED BY <3>2, <3>4, <4>1 DEF IInv
    <3> QED BY <3>1, <3>5, <3>6
  <2>6. CASE start
    BY <2>6, <2>1 DEF start, Unchanged, IInv
  <2>7. CASE noFile \/ finish
    BY <2>7, <2>1 DEF noFile, finish, End, Unchanged, IInv
  <2>8. CASE skipPair
    BY <2>8, <2>1 DEF skipPair, Unchanged, IInv
  <2>9. CASE dump_equal_messages \/ normalize_database \/ normalizeRow
    BY <2>9, <2>1 DEF dump_equal_messages, normalize_database, normalizeRow, Unchanged, IInv
  <2>10. CASE addRow
    BY <2>10, <2>1 DEF addRow, End, Unchanged, IInv
  <2>11. CASE kill
    BY <2>11, <2>1 DEF kill, End, IInv
  <2>12. CASE touch
    BY <2>12, <2>1 DEF touch, IInv
  <2>13. CASE commit
    BY <2>13, <2>1 DEF commit, IInv
  <2>14. CASE UNCHANGED vars
    BY <2>14, <2>1 DEF vars, IInv
  <2> QED BY <2>2, <2>3, <2>4, <2>5, <2>6, <2>7, <2>8, <2>9, <2>10, <2>11, <2>12, <2>13, <2>14 DEF Next, ScriptStep
<1> QED BY <1>1, <1>2, PTL DEF Spec

\* A pair that a later run takes for processed was collapsed to the last message, wherever the
\* scripts were killed, unless a record was cut.
THEOREM RecordedIsDumped == Spec => []RecordedWasDumped
<1>1. IInv => RecordedWasDumped
  BY DEF IInv, RecordedWasDumped
<1> QED BY <1>1, AlwaysIInv, PTL

\* The file can be read: the assertion of operator< on its records fails only after a cut.
THEOREM RecordsAreRead == Spec => [](abort = "order" => cuts > 0)
<1>1. IInv => (abort = "order" => cuts > 0)
  BY DEF IInv
<1> QED BY <1>1, AlwaysIInv, PTL

---------------------------------------------------------------------------
(* Types, texts and ties: the invariant. *)

\* Where the script is among the equal messages of a pair: the ones before are tied together.
DoneUpTo(r, e, l) ==
  /\ Len(l) <= Len(e)
  /\ \A k \in 1 .. Len(l) : l[k] = e[Len(e) - Len(l) + k]
  /\ \A k \in 1 .. Len(e) - Len(l) : Tied(r, e[k][1], e[k][2])

\* The pairs of IDs that are left are those of equal messages.
Pending == \A k \in 1 .. Len(ids) : TextOrTaken(ids[k])

\* While a pair is dumped, the equal messages behind the script are tied.
TiedSoFar ==
  pc \in {"dump", "append"} =>
    \A p \in pairs : Current(p) /\ Numbered(p[1]) /\ Numbered(p[2]) =>
      DoneUpTo(row, EqualMessages(p[1], p[2]), ids)

\* The invariant.
TextInv == LinksSameText(row) /\ Pending /\ TiedSoFar
UInv == IInv /\ TypeOK /\ TextInv

\* The places of the script, and the ways a run ends.
Pcs == {"off", "detect", "loop", "dump", "append", "normalize"}
Aborts == {"none", "noFile", "order", "addRow", "killed"}

\* What IInv leaves of the types.
RestOfTypes ==
  /\ Down(row) /\ fileExists \in BOOLEAN /\ pc \in Pcs /\ ids \in Seq(AllIds \X AllIds)
  /\ scan \in 0 .. LastId + 1 /\ abort \in Aborts /\ kills \in 0 .. MaxKills /\ cuts \in 0 .. MaxCuts
  /\ pc \in {"off", "detect"} => pairs = {}
  /\ pc \in {"dump", "append"} => pairs # {}
  /\ pc # "dump" => ids = <<>>

\* Together with IInv this is the type invariant.
LEMMA TypesOf == IInv => (TypeOK <=> RestOfTypes)
<1>1. OrderedPairs \subseteq Oids \X Oids
  BY DEF OrderedPairs
<1> QED BY <1>1 DEF IInv, TypeOK, RestOfTypes, Down, Pcs, Aborts

\* It holds at the start.
LEMMA TypesAtStart == Init => RestOfTypes
<1> SUFFICES ASSUME Init PROVE RestOfTypes
  OBVIOUS
<1>1. LastId \in Nat /\ AllIds = 0 .. LastId /\ MaxKills \in Nat /\ MaxCuts \in Nat
  BY UpdateAssumption DEF AllIds
<1>2. Down(row)
  BY <1>1 DEF Init, Down
<1>3. 0 \in 0 .. LastId + 1 /\ 0 \in 0 .. MaxKills /\ 0 \in 0 .. MaxCuts
  BY <1>1
<1>4. <<>> \in Seq(AllIds \X AllIds)
  OBVIOUS
<1> QED BY <1>2, <1>3, <1>4 DEF Init, RestOfTypes, Pcs, Aborts

\* The pair that the script dumps: its two blobs have hashes.
LEMMA DumpedPair ==
  ASSUME IInv, NEW p \in pairs, ~Skipped(p)
  PROVE  p[1] \in Oids /\ p[2] \in Oids /\ TpHash[p[1]] # nil /\ TpHash[p[2]] # nil
BY DEF IInv, OrderedPairs, Skipped

\* A step of addRow that does not fail.
AddsPair ==
  LET a == Head(ids)[1]
      b == Head(ids)[2]
  IN  /\ pc = "dump" /\ ids # <<>> /\ AddRowAsserts(row, a, b)
      /\ row' = AddRow(row, a, b) /\ ids' = Tail(ids)
      /\ UNCHANGED <<pc, pairs, scan, abort, file, dumped, fileExists, commits, kills, cuts>>

\* A step that ends the script: the table and the file stay as they are.
EndsEarly(why) ==
  /\ pc # "off" /\ End(why) /\ UNCHANGED <<row, file, dumped, fileExists, commits, cuts>>
  /\ kills' = kills \/ (kills < MaxKills /\ kills' = kills + 1)

\* The steps of Next, those that end the script taken together.
LEMMA Steps ==
  ASSUME Next
  PROVE  \/ start \/ detect_transitions_inc \/ skipPair \/ dump_equal_messages
         \/ AddsPair \/ dumpEnds \/ append_processed_pairs \/ normalize_database \/ normalizeRow \/ touch \/ commit
         \/ \E why \in Aborts : EndsEarly(why)
<1>1. CASE noFile
  BY <1>1 DEF noFile, EndsEarly, Unchanged, Aborts
<1>2. CASE orderAssertFails
  BY <1>2 DEF orderAssertFails, EndsEarly, Unchanged, Aborts
<1>3. CASE finish
  BY <1>3 DEF finish, EndsEarly, Unchanged, Aborts
<1>4. CASE kill
  BY <1>4 DEF kill, EndsEarly, Aborts
<1>5. CASE addRow
  <2>1. CASE AddRowAsserts(row, Head(ids)[1], Head(ids)[2])
    BY <1>5, <2>1 DEF addRow, AddsPair, Unchanged
  <2>2. CASE ~AddRowAsserts(row, Head(ids)[1], Head(ids)[2])
    BY <1>5, <2>2 DEF addRow, EndsEarly, Unchanged, Aborts
  <2> QED BY <2>1, <2>2
<1> QED BY <1>1, <1>2, <1>3, <1>4, <1>5 DEF Next, ScriptStep

\* The first of the pairs of IDs that are left, and the others.
LEMMA HeadIsPair ==
  ASSUME ids \in Seq(AllIds \X AllIds), ids # <<>>
  PROVE  /\ Head(ids)[1] \in AllIds /\ Head(ids)[2] \in AllIds /\ Head(ids) = <<Head(ids)[1], Head(ids)[2]>>
         /\ Tail(ids) \in Seq(AllIds \X AllIds) /\ Head(ids) = ids[1] /\ 1 \in 1 .. Len(ids)
         /\ Len(Tail(ids)) = Len(ids) - 1 /\ \A k \in 1 .. Len(ids) - 1 : Tail(ids)[k] = ids[k + 1]
<1>1. Head(ids) \in AllIds \X AllIds
  OBVIOUS
<1> QED BY <1>1

\* Every step keeps the types; the rows lead down after addRow and after normalizeRow.
LEMMA TypesStay == ASSUME IInv, IInv', RestOfTypes, [Next]_vars PROVE RestOfTypes'
<1>0. LastId \in Nat /\ AllIds = 0 .. LastId /\ MaxKills \in Nat /\ MaxCuts \in Nat /\ FirstRow \in 0 .. LastId + 1
  BY UpdateAssumption DEF AllIds
<1>1. CASE start
  BY <1>1 DEF start, Unchanged, RestOfTypes, Pcs, Aborts
<1>2. CASE detect_transitions_inc
  BY <1>2 DEF detect_transitions_inc, Unchanged, RestOfTypes, Pcs
<1>3. CASE skipPair
  BY <1>3 DEF skipPair, Unchanged, RestOfTypes
<1>4. CASE dump_equal_messages
  <2>1. PICK p \in pairs : Current(p) /\ ~Skipped(p) /\ ids' = EqualMessages(p[1], p[2])
    BY <1>4 DEF dump_equal_messages
  <2>2. ids' \in Seq(AllIds \X AllIds)
    BY <2>1, DumpedPair, EqualFacts
  <2> QED BY <1>4, <2>1, <2>2 DEF dump_equal_messages, Unchanged, RestOfTypes, Pcs
<1>5. CASE AddsPair
  <2>1. Head(ids)[1] \in AllIds /\ Head(ids)[2] \in AllIds /\ Tail(ids) \in Seq(AllIds \X AllIds)
    BY <1>5, HeadIsPair DEF AddsPair, RestOfTypes
  <2>2. Down(row')
    BY <1>5, <2>1, AddRowFacts DEF AddsPair, AddsRow, RestOfTypes
  <2> QED BY <1>5, <2>1, <2>2 DEF AddsPair, RestOfTypes
<1>6. CASE dumpEnds
  BY <1>6 DEF dumpEnds, Unchanged, RestOfTypes, Pcs
<1>7. CASE append_processed_pairs
  <2>1. cuts' \in 0 .. MaxCuts
    BY <1>0, <1>7 DEF append_processed_pairs, RestOfTypes
  <2> QED BY <1>7, <2>1 DEF append_processed_pairs, RestOfTypes, Pcs
<1>8. CASE normalize_database
  BY <1>0, <1>8 DEF normalize_database, Unchanged, RestOfTypes, Pcs
<1>9. CASE normalizeRow
  <2>1. PICK m : m = MinIdIn(row)
    OBVIOUS
  <2>2. /\ m \in [AllIds -> AllIds] /\ \A i \in AllIds : m[i] = IF row[i] = 0 THEN i ELSE m[row[i]]
        /\ \A i \in AllIds : m[i] <= i
    BY <2>1, MinFacts DEF RestOfTypes
  <2>3. scan \in AllIds /\ scan + 1 \in 0 .. LastId + 1
    BY <1>0, <1>9 DEF normalizeRow, RestOfTypes
  <2>4. row' = [row EXCEPT ![scan] = IF @ # 0 THEN m[scan] ELSE 0]
    BY <1>9, <2>1 DEF normalizeRow
  <2>5. row[scan] # 0 => m[scan] < scan
    <3>1. row[scan] # 0 => m[scan] <= row[scan] /\ row[scan] < scan /\ row[scan] \in Nat /\ m[scan] \in Nat
      BY <1>0, <2>2, <2>3 DEF RestOfTypes, Down
    <3> QED BY <1>0, <2>3, <3>1
  <2>6. Down(row')
    <3>1. row' \in [AllIds -> AllIds]
      BY <1>0, <2>2, <2>3, <2>4 DEF RestOfTypes, Down
    <3>2. \A i \in AllIds : row'[i] < i \/ row'[i] = 0
      BY <2>2, <2>3, <2>4, <2>5 DEF RestOfTypes, Down
    <3> QED BY <3>1, <3>2 DEF Down
  <2> QED BY <1>9, <2>3, <2>6 DEF normalizeRow, Unchanged, RestOfTypes
<1>10. CASE touch
  BY <1>10 DEF touch, RestOfTypes
<1>11. CASE commit
  BY <1>11 DEF commit, RestOfTypes
<1>12. ASSUME NEW why \in Aborts, EndsEarly(why) PROVE RestOfTypes'
  <2>1. kills' \in 0 .. MaxKills /\ 0 \in 0 .. LastId + 1
    BY <1>0, <1>12 DEF EndsEarly, RestOfTypes
  <2>2. <<>> \in Seq(AllIds \X AllIds)
    OBVIOUS
  <2> QED BY <1>12, <2>1, <2>2 DEF EndsEarly, End, RestOfTypes, Pcs
<1>13. CASE UNCHANGED vars
  BY <1>13 DEF vars, RestOfTypes
<1> QED BY <1>1, <1>2, <1>3, <1>4, <1>5, <1>6, <1>7, <1>8, <1>9, <1>10, <1>11, <1>12, <1>13, Steps

\* Every step keeps the texts: addRow links equal messages, normalizeRow shortens a chain.
LEMMA LinksStay ==
  ASSUME RestOfTypes, LinksSameText(row), Pending, [Next]_vars
  PROVE  LinksSameText(row)'
<1>1. ASSUME row' = row PROVE LinksSameText(row)'
  BY <1>1 DEF LinksSameText
<1>2. CASE AddsPair
  <2>1. /\ Head(ids)[1] \in AllIds /\ Head(ids)[2] \in AllIds
        /\ Head(ids) = <<Head(ids)[1], Head(ids)[2]>> /\ Head(ids) = ids[1] /\ 1 \in 1 .. Len(ids)
    BY <1>2, HeadIsPair DEF AddsPair, RestOfTypes
  <2>2. TextOrTaken(<<Head(ids)[1], Head(ids)[2]>>)
    BY <2>1 DEF Pending
  <2>3. LinksSameText(AddRow(row, Head(ids)[1], Head(ids)[2]))
    BY <2>1, <2>2, AddRowText DEF RestOfTypes
  <2> QED BY <1>2, <2>3 DEF AddsPair, LinksSameText
<1>3. CASE normalizeRow
  <2>1. PICK m : m = MinIdIn(row)
    OBVIOUS
  <2>2. scan \in AllIds
    BY <1>3, UpdateAssumption DEF normalizeRow, RestOfTypes, AllIds
  <2>3. row' = [row EXCEPT ![scan] = IF @ # 0 THEN m[scan] ELSE 0]
    BY <1>3, <2>1 DEF normalizeRow
  <2>4. \A i \in AllIds : Given(m[i]) => SameText(i, m[i])
    BY <2>1, ChainText DEF RestOfTypes
  <2>5. \A i \in AllIds : row'[i] = row[i] \/ row'[i] = 0 \/ row'[i] = m[i]
    BY <2>2, <2>3 DEF RestOfTypes, Down
  <2> SUFFICES ASSUME NEW i \in AllIds, row'[i] # 0, Given(row'[i]) PROVE SameText(i, row'[i])
    BY DEF LinksSameText
  <2>6. CASE row'[i] = row[i]
    BY <2>6 DEF LinksSameText
  <2>7. CASE row'[i] = m[i]
    BY <2>4, <2>7
  <2> QED BY <2>5, <2>6, <2>7
<1>4. CASE start \/ detect_transitions_inc \/ skipPair \/ dump_equal_messages
  BY <1>1, <1>4 DEF start, detect_transitions_inc, skipPair, dump_equal_messages
<1>5. CASE dumpEnds \/ append_processed_pairs \/ normalize_database
  BY <1>1, <1>5 DEF dumpEnds, append_processed_pairs, normalize_database
<1>6. CASE touch \/ commit \/ UNCHANGED vars
  BY <1>1, <1>6 DEF touch, commit, vars
<1>7. ASSUME NEW why \in Aborts, EndsEarly(why) PROVE LinksSameText(row)'
  BY <1>1, <1>7 DEF EndsEarly
<1> QED BY <1>2, <1>3, <1>4, <1>5, <1>6, <1>7, Steps

\* What is left to dump are the IDs of equal messages.
LEMMA PendingStays ==
  ASSUME IInv, RestOfTypes, RestOfTypes', Pending, [Next]_vars
  PROVE  Pending'
<1>1. ASSUME ids' = ids PROVE Pending'
  BY <1>1 DEF Pending
<1>2. CASE dump_equal_messages
  <2>1. PICK p \in pairs : ~Skipped(p) /\ ids' = EqualMessages(p[1], p[2])
    BY <1>2 DEF dump_equal_messages
  <2>2. p[1] \in Oids /\ p[2] \in Oids /\ TpHash[p[1]] # nil /\ TpHash[p[2]] # nil
    BY <2>1, DumpedPair
  <2>25. PICK e : e = ids'
    OBVIOUS
  <2>26. EqualShape(p[1], p[2], e)
    BY <2>1, <2>2, <2>25, EqualFacts
  <2>3. PICK s : \A k \in 1 .. Len(ids') :
          /\ s[k] \in Texts(p[1]) \cap Texts(p[2])
          /\ ids'[k] = <<Place(p[1], IndexOf(p[1], s[k])), Place(p[2], IndexOf(p[2], s[k]))>>
    BY <2>25, <2>26 DEF EqualShape
  <2>4. \A k \in 1 .. Len(ids') : TextOrTaken(ids'[k])
    BY <2>2, <2>3, EqualText
  <2> QED BY <2>4 DEF Pending
<1>3. CASE AddsPair
  <2>1. /\ Len(Tail(ids)) = Len(ids) - 1 /\ \A k \in 1 .. Len(ids) - 1 : Tail(ids)[k] = ids[k + 1]
        /\ ids' = Tail(ids)
    BY <1>3, HeadIsPair DEF AddsPair, RestOfTypes
  <2>2. PICK n \in Nat : n = Len(ids)
    BY DEF RestOfTypes
  <2>3. \A k \in 1 .. n - 1 : k + 1 \in 1 .. n
    BY <2>2
  <2>4. \A k \in 1 .. Len(ids') : TextOrTaken(ids'[k])
    BY <2>1, <2>2, <2>3 DEF Pending
  <2> QED BY <2>4 DEF Pending
<1>4. CASE start \/ detect_transitions_inc \/ skipPair \/ dumpEnds
  BY <1>1, <1>4 DEF start, detect_transitions_inc, skipPair, dumpEnds
<1>5. CASE append_processed_pairs \/ normalize_database \/ normalizeRow
  BY <1>1, <1>5 DEF append_processed_pairs, normalize_database, normalizeRow
<1>6. CASE touch \/ commit \/ UNCHANGED vars
  BY <1>1, <1>6 DEF touch, commit, vars
<1>7. ASSUME NEW why \in Aborts, EndsEarly(why) PROVE Pending'
  <2>1. ids' = <<>>
    BY <1>7 DEF EndsEarly, End
  <2>2. \A k \in 1 .. Len(ids') : FALSE
    BY <2>1
  <2> QED BY <2>2 DEF Pending
<1> QED BY <1>2, <1>3, <1>4, <1>5, <1>6, <1>7, Steps

\* addRow ties one more equal message of a pair: the IDs of the others are not touched.
LEMMA OneMoreTied ==
  ASSUME NEW a \in Oids, NEW b \in Oids, Numbered(a), Numbered(b), NEW e, e = EqualMessages(a, b),
         NEW r, Down(r), NEW l \in Seq(AllIds \X AllIds), l # <<>>, DoneUpTo(r, e, l),
         Head(l)[1] # Head(l)[2]
  PROVE  DoneUpTo(AddRow(r, Head(l)[1], Head(l)[2]), e, Tail(l))
<1>1. e \in Seq(AllIds \X AllIds) /\ EqualShape(a, b, e)
  BY EqualFacts DEF Numbered
<1>2. PICK n \in Nat : n = Len(e)
  BY <1>1
<1>3. PICK h \in Nat : h = Len(l) /\ h # 0
  <2>1. Len(l) \in Nat /\ Len(l) # 0
    OBVIOUS
  <2> QED BY <2>1
<1>4. /\ h <= n
      /\ \A k \in 1 .. h : l[k] = e[n - h + k]
      /\ \A k \in 1 .. n - h : Tied(r, e[k][1], e[k][2])
  BY <1>2, <1>3 DEF DoneUpTo
<1>5. PICK t : t = Tail(l) /\ Len(t) = h - 1 /\ \A k \in 1 .. h - 1 : t[k] = l[k + 1]
  <2>1. Len(Tail(l)) = Len(l) - 1 /\ \A k \in 1 .. Len(l) - 1 : Tail(l)[k] = l[k + 1]
    OBVIOUS
  <2> QED BY <1>3, <2>1
<1>6. PICK j \in 1 .. n : j = n - h + 1 /\ Head(l) = e[j] /\ j = n - (h - 1)
  <2>1. Head(l) = l[1]
    OBVIOUS
  <2>2. 1 \in 1 .. h /\ n - h + 1 \in 1 .. n /\ n - h + 1 = n - (h - 1)
    BY <1>3, <1>4
  <2>3. l[1] = e[n - h + 1]
    BY <1>4, <2>2
  <2> QED BY <2>1, <2>2, <2>3
<1>7. e[j][1] \in AllIds /\ e[j][2] \in AllIds /\ e[j][1] # 0 /\ e[j][2] # 0
  BY <1>1, <1>2, DistinctIds
<1>8. PICK q : q = AddRow(r, e[j][1], e[j][2])
  OBVIOUS
<1>9. /\ Tied(q, e[j][1], e[j][2])
      /\ \A c, d \in AllIds : Tied(r, c, d) /\ {c, d} \cap {e[j][1], e[j][2]} = {} => Tied(q, c, d)
  BY <1>6, <1>7, <1>8, AddRowTies
<1>10. ASSUME NEW k \in 1 .. n - (h - 1) PROVE Tied(q, e[k][1], e[k][2])
  <2>1. CASE k = j
    BY <1>9, <2>1
  <2>2. CASE k # j
    <3>1. k \in 1 .. n - h /\ k \in 1 .. n
      BY <1>3, <1>4, <1>6, <2>2
    <3>2. e[k][1] \in AllIds /\ e[k][2] \in AllIds
      BY <1>1, <1>2, <3>1, DistinctIds
    <3>3. {e[k][1], e[k][2]} \cap {e[j][1], e[j][2]} = {}
      BY <1>1, <1>2, <2>2, <3>1, DistinctIds
    <3> QED BY <1>4, <1>9, <3>1, <3>2, <3>3
  <2> QED BY <2>1, <2>2
<1>11. \A k \in 1 .. h - 1 : t[k] = e[n - (h - 1) + k]
  <2> SUFFICES ASSUME NEW k \in 1 .. h - 1 PROVE t[k] = e[n - (h - 1) + k]
    OBVIOUS
  <2>1. k + 1 \in 1 .. h /\ n - h + (k + 1) = n - (h - 1) + k
    BY <1>3
  <2> QED BY <1>4, <1>5, <2>1
<1>12. h - 1 <= n
  BY <1>3, <1>4
<1>13. DoneUpTo(q, e, t)
  BY <1>2, <1>5, <1>10, <1>11, <1>12 DEF DoneUpTo
<1> QED BY <1>5, <1>6, <1>8, <1>13

\* Every step keeps the ties of the pair that is dumped.
LEMMA TiedStays ==
  ASSUME IInv, IInv', RestOfTypes, TiedSoFar, [Next]_vars
  PROVE  TiedSoFar'
<1>0. pairs \subseteq OrderedPairs /\ pairs' \subseteq OrderedPairs /\ OrderedPairs \subseteq Oids \X Oids
  BY DEF IInv, OrderedPairs
<1>1. CASE dump_equal_messages
  <2>1. PICK p \in pairs : Current(p) /\ ~Skipped(p) /\ ids' = EqualMessages(p[1], p[2])
    BY <1>1 DEF dump_equal_messages
  <2>2. pairs' = pairs /\ row' = row
    BY <1>1 DEF dump_equal_messages
  <2>3. \A q \in pairs' : Current(q)' => q = p
    BY <1>0, <2>1, <2>2, OneCurrent DEF Current
  <2>4. ids' \in Seq(AllIds \X AllIds)
    BY <2>1, DumpedPair, EqualFacts
  <2>5. PICK n \in Nat : n = Len(ids')
    BY <2>4
  <2>6. n <= n /\ (\A k \in 1 .. n : n - n + k = k) /\ \A k \in 1 .. n - n : FALSE
    BY <2>5
  <2>7. DoneUpTo(row', ids', ids')
    BY <2>5, <2>6 DEF DoneUpTo
  <2> QED BY <2>1, <2>3, <2>7 DEF TiedSoFar, DoneUpTo
<1>2. CASE AddsPair
  <2>1. /\ pc = "dump" /\ ids # <<>> /\ AddRowAsserts(row, Head(ids)[1], Head(ids)[2])
        /\ row' = AddRow(row, Head(ids)[1], Head(ids)[2]) /\ ids' = Tail(ids) /\ pairs' = pairs
    BY <1>2 DEF AddsPair
  <2>2. Head(ids)[1] # Head(ids)[2]
    BY <2>1 DEF AddRowAsserts
  <2>3. Down(row) /\ ids \in Seq(AllIds \X AllIds)
    BY DEF RestOfTypes
  <2> SUFFICES ASSUME NEW p \in pairs, Current(p), Numbered(p[1]), Numbered(p[2])
               PROVE  DoneUpTo(row', EqualMessages(p[1], p[2]), ids')
    BY <2>1 DEF TiedSoFar, Current, DoneUpTo
  <2>4. p[1] \in Oids /\ p[2] \in Oids
    BY <1>0
  <2>5. DoneUpTo(row, EqualMessages(p[1], p[2]), ids)
    BY <2>1 DEF TiedSoFar
  <2>6. DoneUpTo(AddRow(row, Head(ids)[1], Head(ids)[2]), EqualMessages(p[1], p[2]), Tail(ids))
    BY <2>1, <2>2, <2>3, <2>4, <2>5, OneMoreTied
  <2> QED BY <2>1, <2>6
<1>3. CASE dumpEnds
  BY <1>3 DEF dumpEnds, TiedSoFar, Current
<1>4. CASE start \/ detect_transitions_inc \/ skipPair
  BY <1>4 DEF start, detect_transitions_inc, skipPair, TiedSoFar
<1>5. CASE append_processed_pairs \/ normalize_database \/ normalizeRow
  BY <1>5 DEF append_processed_pairs, normalize_database, normalizeRow, TiedSoFar
<1>6. CASE touch \/ commit \/ UNCHANGED vars
  BY <1>6 DEF touch, commit, vars, TiedSoFar, Current
<1>7. ASSUME NEW why \in Aborts, EndsEarly(why) PROVE TiedSoFar'
  BY <1>7 DEF EndsEarly, End, TiedSoFar
<1> QED BY <1>1, <1>2, <1>3, <1>4, <1>5, <1>6, <1>7, Steps

\* The invariant always holds.
LEMMA AlwaysUInv == Spec => []UInv
<1>1. Init /\ IInv => UInv
  <2> SUFFICES ASSUME Init, IInv PROVE UInv
    OBVIOUS
  <2>1. TypeOK
    BY TypesAtStart, TypesOf
  <2>2. LinksSameText(row)
    BY DEF Init, LinksSameText
  <2>3. Pending
    <3>1. \A k \in 1 .. Len(<<>>) : FALSE
      OBVIOUS
    <3> QED BY <3>1 DEF Init, Pending
  <2>4. TiedSoFar
    BY DEF Init, TiedSoFar
  <2> QED BY <2>1, <2>2, <2>3, <2>4 DEF UInv, TextInv
<1>2. UInv /\ IInv' /\ [Next]_vars => UInv'
  <2> SUFFICES ASSUME UInv, IInv', [Next]_vars PROVE UInv'
    OBVIOUS
  <2>1. RestOfTypes /\ IInv
    BY TypesOf DEF UInv
  <2>2. RestOfTypes'
    BY <2>1, TypesStay
  <2>3. TypeOK'
    <3>1. (IInv => (TypeOK <=> RestOfTypes))'
      BY TypesOf, PTL
    <3> QED BY <2>2, <3>1
  <2>4. LinksSameText(row)' /\ Pending' /\ TiedSoFar'
    BY <2>1, <2>2, LinksStay, PendingStays, TiedStays DEF UInv, TextInv
  <2> QED BY <2>3, <2>4 DEF UInv, TextInv
<1> QED BY <1>1, <1>2, AlwaysIInv, PTL DEF Spec

\* The variables keep their types, the rows of the table always lead down, and a script that does
\* not dump has no pairs of IDs left.
THEOREM TypeCorrect == Spec => []TypeOK
<1>1. UInv => TypeOK
  BY DEF UInv
<1> QED BY <1>1, AlwaysUInv, PTL

\* Wherever scripts are killed and whatever they process again, the IDs that lead to one ID have one
\* text, but for numbers that were not given to a message.
THEOREM CollapsedIsEqual == Spec => []SameTextOnly
<1>1. UInv => SameTextOnly
  <2> SUFFICES ASSUME UInv PROVE SameTextOnly
    OBVIOUS
  <2>1. Down(row) /\ LinksSameText(row)
    BY TypesOf DEF UInv, TextInv, RestOfTypes
  <2>2. \A i \in AllIds : Given(MinIdIn(row)[i]) => SameText(i, MinIdIn(row)[i])
    BY <2>1, ChainText
  <2> QED BY <2>2 DEF SameTextOnly, SameText
<1> QED BY <1>1, AlwaysUInv, PTL

\* When a pair is recorded, the two IDs of each of its equal messages lead to one ID.
THEOREM RecordedIsJoined == Spec => RecordedWhenJoined
<1> DEFINE A == pc = "append" /\ pc' = "loop" => \A p \in pairs \ pairs' : Numbered(p[1]) /\ Numbered(p[2]) => Joined(p)
<1>1. UInv /\ [Next]_vars => [A]_vars
  <2> SUFFICES ASSUME UInv, [Next]_vars, pc = "append", pc' = "loop",
                      NEW p \in pairs \ pairs', Numbered(p[1]), Numbered(p[2])
               PROVE  Joined(p)
    OBVIOUS
  <2>1. Current(p)
    BY DEF Next, ScriptStep, start, noFile, detect_transitions_inc, orderAssertFails, skipPair, dump_equal_messages,
       addRow, dumpEnds, append_processed_pairs, normalize_database, normalizeRow, finish, kill, touch, commit, End, vars
  <2>2. RestOfTypes /\ IInv
    BY TypesOf DEF UInv
  <2>3. PICK e : e = EqualMessages(p[1], p[2])
    OBVIOUS
  <2>4. p[1] \in Oids /\ p[2] \in Oids
    BY <2>2 DEF IInv, OrderedPairs
  <2>5. e \in Seq(AllIds \X AllIds)
    BY <2>3, <2>4, EqualFacts DEF Numbered
  <2>6. DoneUpTo(row, e, <<>>)
    BY <2>1, <2>2, <2>3 DEF UInv, TextInv, TiedSoFar, RestOfTypes
  <2>7. \A k \in 1 .. Len(e) : Tied(row, e[k][1], e[k][2])
    <3>1. PICK n \in Nat : n = Len(e)
      BY <2>5
    <3>2. n - 0 = n /\ Len(<<>>) = 0
      BY <3>1
    <3> QED BY <2>6, <3>1, <3>2 DEF DoneUpTo
  <2>8. \A k \in 1 .. Len(e) : MinIdIn(row)[e[k][1]] = MinIdIn(row)[e[k][2]]
    <3> SUFFICES ASSUME NEW k \in 1 .. Len(e) PROVE MinIdIn(row)[e[k][1]] = MinIdIn(row)[e[k][2]]
      OBVIOUS
    <3>1. e[k][1] \in AllIds /\ e[k][2] \in AllIds
      BY <2>5
    <3> QED BY <2>2, <2>7, <3>1, TiedJoined DEF RestOfTypes
  <2> QED BY <2>3, <2>8 DEF Joined
<1> QED BY <1>1, AlwaysUInv, PTL DEF Spec, RecordedWhenJoined

---------------------------------------------------------------------------
(* Where the numbers come from: when addRow fails. *)

\* Blobs of one hash have their messages at the same places.
LEMMA OneIndex ==
  ASSUME NEW o \in Oids, NEW u \in Oids, TpHash[o] = TpHash[u], TpHash[o] # nil, NEW m
  PROVE  IndexOf(o, m) = IndexOf(u, m) /\ Texts(o) = Texts(u)
<1>1. Messages[o] = Messages[u]
  BY UpdateAssumption
<1> QED BY <1>1 DEF IndexOf, Texts

\* Where a number comes from: it was given to the message, or is taken for it in a template without IDs.
Taken(x, m) ==
  \E p \in Seen : \E o \in Unnumbered(p) : o \in Oids /\ m \in Texts(o) /\ x = Place(o, IndexOf(o, m))
Origin(x, m) == IF x >= FirstRow THEN HasText(x, m) ELSE Taken(x, m)

\* A row leads from the ID of a message to a number of the same message.
Traced(r) == \A i \in AllIds : r[i] # 0 => i >= FirstRow /\ \E m : HasText(i, m) /\ Origin(r[i], m)

\* The pairs of IDs that are left belong to a text of two blobs of a pair.
Dumping ==
  pc = "dump" =>
    \A k \in 1 .. Len(ids) : \E p \in pairs : ~Skipped(p) /\ \E m \in Texts(p[1]) \cap Texts(p[2]) :
      ids[k] = <<Place(p[1], IndexOf(p[1], m)), Place(p[2], IndexOf(p[2], m))>>

\* What holds until two templates without IDs meet.
AInv ==
  /\ commits \in Nat /\ pairs \subseteq Seen
  /\ Dumping
  /\ Blocked \/ Traced(row)
  /\ abort = "addRow" => Blocked

\* The numbers of a template with IDs begin behind FirstRow.
LEMMA GivenIds ==
  ASSUME NEW o \in Oids, Numbered(o), NEW m \in Texts(o)
  PROVE  Place(o, IndexOf(o, m)) >= FirstRow /\ HasText(Place(o, IndexOf(o, m)), m)
<1>1. PICK i \in Nat : i = IndexOf(o, m) /\ i >= 1
  <2>1. IndexOf(o, m) \in 1 .. Len(Messages[o]) /\ Len(Messages[o]) \in Nat
    BY IndexFacts, UpdateAssumption
  <2> QED BY <2>1
<1>2. PICK f \in Nat, l \in Nat : f = First[TpHash[o]] /\ l = FirstRow /\ f >= l
  BY UpdateAssumption DEF Numbered
<1>3. f + i - 1 >= l
  BY <1>1, <1>2
<1> QED BY <1>1, <1>2, <1>3 DEF Place, HasText

\* The numbers of a template without IDs are below FirstRow, unless it is too long.
LEMMA TakenIds ==
  ASSUME ~Blocked, NEW p \in Seen, NEW o \in Unnumbered(p), o \in Oids, NEW m \in Texts(o),
         NEW x, x = Place(o, IndexOf(o, m))
  PROVE  x < FirstRow /\ Taken(x, m) /\ x \in AllIds
<1>1. TpHash[o] # nil /\ ~Numbered(o)
  BY DEF Unnumbered
<1>2. x \in AllIds /\ x < Len(Messages[o])
  BY <1>1, PlaceFacts
<1>3. ~(Len(Messages[o]) > FirstRow)
  BY DEF Blocked
<1>4. Len(Messages[o]) \in Nat /\ FirstRow \in Nat /\ AllIds \subseteq Nat
  BY UpdateAssumption DEF AllIds
<1>5. x < FirstRow
  BY <1>2, <1>3, <1>4
<1> QED BY <1>2, <1>5 DEF Taken

\* The ID that the rows lead to is one of the same message.
LEMMA ChainOrigin ==
  ASSUME NEW r, Down(r), Traced(r)
  PROVE  \A i \in AllIds : \A m : HasText(i, m) => Origin(MinIdIn(r)[i], m)
<1>0. LastId \in Nat /\ AllIds = 0 .. LastId /\ FirstRow \in Nat
  BY UpdateAssumption DEF AllIds
<1>1. PICK min : min = MinIdIn(r)
  OBVIOUS
<1>2. \A i \in AllIds : min[i] = IF r[i] = 0 THEN i ELSE min[r[i]]
  BY <1>1, MinFacts
<1>3. \A i \in AllIds : r[i] \in AllIds /\ (r[i] < i \/ r[i] = 0)
  BY DEF Down
<1>4. ASSUME NEW i \in AllIds, NEW m, HasText(i, m), NEW k, HasText(i, k) PROVE k = m
  <2>1. PICK o \in Oids : Numbered(o) /\ m \in Texts(o) /\ i = Place(o, IndexOf(o, m))
    BY <1>4 DEF HasText
  <2> QED BY <1>4, <2>1, OneText
<1> DEFINE P(i) == \A m : HasText(i, m) => Origin(min[i], m)
           S == {n \in Nat : \A i \in AllIds : i < n => P(i)}
<1>5. 0 \in S
  BY <1>0
<1>6. ASSUME NEW n \in Nat, n \in S PROVE n + 1 \in S
  <2> SUFFICES ASSUME NEW i \in AllIds, i < n + 1, NEW m, HasText(i, m) PROVE Origin(min[i], m)
    OBVIOUS
  <2>1. CASE r[i] = 0
    <3>1. i >= FirstRow
      BY GivenIds DEF HasText
    <3> QED BY <1>2, <2>1, <3>1 DEF Origin
  <2>2. CASE r[i] # 0
    <3>1. PICK k : HasText(i, k) /\ Origin(r[i], k)
      BY <2>2 DEF Traced
    <3>2. Origin(r[i], m)
      BY <1>4, <3>1
    <3>3. CASE r[i] >= FirstRow
      <4>1. HasText(r[i], m)
        BY <3>2, <3>3 DEF Origin
      <4>2. r[i] \in AllIds /\ r[i] < n
        BY <1>0, <1>3, <2>2
      <4> QED BY <1>2, <1>6, <2>2, <4>1, <4>2
    <3>4. CASE ~(r[i] >= FirstRow)
      <4>1. r[r[i]] = 0 /\ r[i] \in AllIds
        BY <1>3, <3>4 DEF Traced
      <4>2. min[i] = r[i]
        BY <1>2, <2>2, <4>1
      <4> QED BY <3>2, <4>2
    <3> QED BY <3>3, <3>4
  <2> QED BY <2>1, <2>2
<1>7. LastId + 1 \in S
  <2> HIDE DEF S
  <2>1. \A n \in Nat : n \in S
    BY <1>5, <1>6, SetInduction
  <2> QED BY <1>0, <2>1
<1> QED BY <1>0, <1>1, <1>7

\* One ID of an equal message, and the number that its rows lead to.
LEMMA RootOrigin ==
  ASSUME ~Blocked, NEW r, Down(r), Traced(r), NEW p \in Seen, NEW o \in {p[1], p[2]}, o \in Oids, TpHash[o] # nil,
         NEW m \in Texts(o), NEW x, x = Place(o, IndexOf(o, m))
  PROVE  /\ x \in AllIds /\ Origin(MinIdIn(r)[x], m)
         /\ Numbered(o) => x >= FirstRow /\ HasText(x, m)
         /\ ~Numbered(o) => x < FirstRow /\ MinIdIn(r)[x] = x
<1>0. AllIds \subseteq Nat /\ FirstRow \in Nat
  BY UpdateAssumption DEF AllIds
<1>1. CASE Numbered(o)
  <2>1. x \in AllIds /\ x >= FirstRow /\ HasText(x, m)
    BY <1>1, PlaceFacts, GivenIds
  <2> QED BY <1>1, <2>1, ChainOrigin
<1>2. CASE ~Numbered(o)
  <2>1. o \in Unnumbered(p)
    BY <1>2 DEF Unnumbered
  <2>2. x < FirstRow /\ Taken(x, m) /\ x \in AllIds
    BY <2>1, TakenIds
  <2>25. ~(x >= FirstRow)
    BY <1>0, <2>2
  <2>3. r[x] = 0
    BY <2>2, <2>25, Zenon DEF Traced
  <2>4. MinIdIn(r)[x] = x
    BY <2>2, <2>3, MinFacts
  <2>5. Origin(x, m)
    BY <1>0, <2>2 DEF Origin
  <2> QED BY <1>2, <2>2, <2>4, <2>5
<1> QED BY <1>1, <1>2

\* Until two templates without IDs meet, a message has one number below FirstRow.
LEMMA OneTaken ==
  ASSUME ~Blocked, NEW p \in Seen, NEW o \in Unnumbered(p), o \in Oids, NEW m \in Texts(o),
         NEW x, Taken(x, m)
  PROVE  x = Place(o, IndexOf(o, m))
<1>1. PICK q \in Seen : \E u \in Unnumbered(q) : u \in Oids /\ m \in Texts(u) /\ x = Place(u, IndexOf(u, m))
  BY DEF Taken
<1>2. PICK u \in Unnumbered(q) : u \in Oids /\ m \in Texts(u) /\ x = Place(u, IndexOf(u, m))
  BY <1>1
<1>3. CASE TpHash[o] = TpHash[u]
  <2>1. IndexOf(o, m) = IndexOf(u, m)
    BY <1>2, <1>3, OneIndex DEF Unnumbered
  <2> QED BY <1>2, <1>3, <2>1 DEF Place
<1>4. CASE TpHash[o] # TpHash[u]
  <2>1. Texts(o) \cap Texts(u) # {}
    BY <1>2
  <2> QED BY <1>2, <1>4, <2>1 DEF Blocked
<1> QED BY <1>3, <1>4

\* Until two templates without IDs meet, addRow does not fail, and the rows stay traced.
LEMMA AddRowTraced ==
  ASSUME ~Blocked, NEW r, Down(r), Traced(r), NEW p \in Seen, p[1] \in Oids, p[2] \in Oids, ~Skipped(p),
         NEW m \in Texts(p[1]) \cap Texts(p[2]),
         NEW a, a = Place(p[1], IndexOf(p[1], m)), NEW b, b = Place(p[2], IndexOf(p[2], m))
  PROVE  a \in AllIds /\ b \in AllIds /\ AddRowAsserts(r, a, b) /\ Traced(AddRow(r, a, b))
<1>0. AllIds \subseteq Nat /\ FirstRow \in Nat
  BY UpdateAssumption DEF AllIds
<1>1. /\ TpHash[p[1]] # nil /\ TpHash[p[2]] # nil /\ TpHash[p[1]] # TpHash[p[2]]
      /\ m \in Texts(p[1]) /\ m \in Texts(p[2])
  BY DEF Skipped
<1>2. /\ a \in AllIds /\ Origin(MinIdIn(r)[a], m)
      /\ Numbered(p[1]) => a >= FirstRow /\ HasText(a, m)
      /\ ~Numbered(p[1]) => a < FirstRow /\ MinIdIn(r)[a] = a
  BY <1>1, RootOrigin
<1>3. /\ b \in AllIds /\ Origin(MinIdIn(r)[b], m)
      /\ Numbered(p[2]) => b >= FirstRow /\ HasText(b, m)
      /\ ~Numbered(p[2]) => b < FirstRow /\ MinIdIn(r)[b] = b
  BY <1>1, RootOrigin
<1>4. Numbered(p[1]) \/ Numbered(p[2])
  <2> SUFFICES ASSUME ~Numbered(p[1]), ~Numbered(p[2]) PROVE FALSE
    OBVIOUS
  <2>1. p[1] \in Unnumbered(p) /\ p[2] \in Unnumbered(p)
    BY <1>1 DEF Unnumbered
  <2>2. Texts(p[1]) \cap Texts(p[2]) # {}
    OBVIOUS
  <2> QED BY <1>1, <2>1, <2>2 DEF Blocked
<1>5. a # b
  <2>1. CASE Numbered(p[1]) /\ Numbered(p[2])
    <3>1. IndexOf(p[1], m) \in 1 .. Len(Messages[p[1]]) /\ IndexOf(p[2], m) \in 1 .. Len(Messages[p[2]])
      BY <1>1, IndexFacts
    <3>2. \A i \in 1 .. Len(Messages[p[1]]), j \in 1 .. Len(Messages[p[2]]) : Place(p[1], i) # Place(p[2], j)
      BY <1>1, <2>1, UpdateAssumption, Zenon
    <3> QED BY <3>1, <3>2
  <2>2. CASE ~Numbered(p[1])
    BY <1>0, <1>2, <1>3, <1>4, <2>2
  <2>3. CASE ~Numbered(p[2])
    BY <1>0, <1>2, <1>3, <1>4, <2>3
  <2> QED BY <2>1, <2>2, <2>3
<1>6. PICK min : min = Smaller(MinIdIn(r)[a], MinIdIn(r)[b])
  OBVIOUS
<1>7. AddsRow(r, a, b, min)
  BY <1>2, <1>3, <1>6, AddRowFacts
<1>8. min \in AllIds /\ min <= a /\ min <= b /\ Origin(min, m)
  BY <1>2, <1>3, <1>7 DEF AddsRow
<1>9. a # min => a >= FirstRow
  <2> SUFFICES ASSUME ~(a >= FirstRow) PROVE a = min
    OBVIOUS
  <2>1. ~(min >= FirstRow)
    BY <1>0, <1>2, <1>8
  <2>2. Taken(min, m)
    BY <1>8, <2>1 DEF Origin
  <2>3. p[1] \in Unnumbered(p)
    BY <1>1, <1>2 DEF Unnumbered
  <2> QED BY <1>1, <2>2, <2>3, OneTaken
<1>10. b # min => b >= FirstRow
  <2> SUFFICES ASSUME ~(b >= FirstRow) PROVE b = min
    OBVIOUS
  <2>1. ~(min >= FirstRow)
    BY <1>0, <1>3, <1>8
  <2>2. Taken(min, m)
    BY <1>8, <2>1 DEF Origin
  <2>3. p[2] \in Unnumbered(p)
    BY <1>1, <1>3 DEF Unnumbered
  <2> QED BY <1>1, <2>2, <2>3, OneTaken
<1>11. AddRowAsserts(r, a, b)
  BY <1>5, <1>6, <1>9, <1>10 DEF AddRowAsserts
<1>12. Traced(AddRow(r, a, b))
  <2> SUFFICES ASSUME NEW i \in AllIds, AddRow(r, a, b)[i] # 0
               PROVE  i >= FirstRow /\ \E k : HasText(i, k) /\ Origin(AddRow(r, a, b)[i], k)
    BY DEF Traced
  <2>1. AddRow(r, a, b)[i] = IF i \in {a, b} \ {min} THEN min ELSE r[i]
    BY <1>7 DEF AddsRow
  <2>2. CASE i \in {a, b} \ {min}
    <3>1. i >= FirstRow
      BY <1>9, <1>10, <2>2
    <3>2. HasText(i, m)
      <4>1. CASE i = a
        BY <1>0, <1>2, <3>1, <4>1
      <4>2. CASE i = b
        BY <1>0, <1>3, <3>1, <4>2
      <4> QED BY <2>2, <4>1, <4>2
    <3> QED BY <1>8, <2>1, <2>2, <3>1, <3>2
  <2>3. CASE i \notin {a, b} \ {min}
    BY <2>1, <2>3 DEF Traced
  <2> QED BY <2>2, <2>3
<1> QED BY <1>2, <1>3, <1>11, <1>12

\* Commits add pairs.
LEMMA MoreSeen ==
  ASSUME commits \in Nat, commits' = commits \/ commits' = commits + 1
  PROVE  /\ Seen \subseteq Seen'
         /\ Blocked => Blocked'
         /\ \A x, m : Origin(x, m) => Origin(x, m)'
<1>1. 0 .. commits \subseteq 0 .. commits'
  OBVIOUS
<1>2. Seen \subseteq Seen'
  BY <1>1 DEF Seen
<1>3. Blocked => Blocked'
  BY <1>2 DEF Blocked
<1>4. \A x, m : Taken(x, m) => Taken(x, m)'
  BY <1>2 DEF Taken
<1>5. \A x, m : Origin(x, m) => Origin(x, m)'
  BY <1>4 DEF Origin
<1> QED BY <1>2, <1>3, <1>5

\* Rows stay traced when the repositories go on.
LEMMA TracedStays ==
  ASSUME commits \in Nat, commits' = commits \/ commits' = commits + 1, Traced(row), row' = row
  PROVE  Traced(row)'
<1>1. \A x, m : Origin(x, m) => Origin(x, m)'
  BY MoreSeen
<1> SUFFICES ASSUME NEW i \in AllIds, row'[i] # 0
             PROVE  i >= FirstRow /\ \E m : HasText(i, m) /\ Origin(row[i], m)'
  BY DEF Traced
<1>2. PICK x : x = row[i] /\ x = row'[i]
  OBVIOUS
<1>3. PICK m : i >= FirstRow /\ HasText(i, m) /\ Origin(x, m)
  BY <1>2 DEF Traced
<1>4. Origin(x, m)'
  BY <1>1, <1>3
<1>5. Origin(row[i], m)'
  BY <1>2, <1>4 DEF Origin, Taken
<1> QED BY <1>3, <1>5

\* addRow keeps the invariant.
LEMMA AddsPairAInv == ASSUME IInv, RestOfTypes, AInv, AddsPair PROVE AInv'
<1>1. /\ pc = "dump" /\ ids # <<>> /\ ids' = Tail(ids)
      /\ row' = AddRow(row, Head(ids)[1], Head(ids)[2]) /\ UNCHANGED <<pc, pairs, commits, abort>>
  BY DEF AddsPair
<1>2. Seen' = Seen /\ (Blocked' <=> Blocked) /\ \A x, m : Origin(x, m)' <=> Origin(x, m)
  BY <1>1 DEF Seen, Blocked, Origin, Taken
<1>3. /\ Head(ids) = ids[1] /\ 1 \in 1 .. Len(ids)
      /\ Len(Tail(ids)) = Len(ids) - 1 /\ \A k \in 1 .. Len(ids) - 1 : Tail(ids)[k] = ids[k + 1]
  BY <1>1, HeadIsPair DEF RestOfTypes
<1>4. PICK p \in pairs : ~Skipped(p) /\ \E m \in Texts(p[1]) \cap Texts(p[2]) :
        Head(ids) = <<Place(p[1], IndexOf(p[1], m)), Place(p[2], IndexOf(p[2], m))>>
  BY <1>1, <1>3 DEF AInv, Dumping
<1>5. PICK m \in Texts(p[1]) \cap Texts(p[2]) :
        Head(ids) = <<Place(p[1], IndexOf(p[1], m)), Place(p[2], IndexOf(p[2], m))>>
  BY <1>4
<1>6. p \in Seen /\ p[1] \in Oids /\ p[2] \in Oids
  BY DEF AInv, IInv, OrderedPairs
<1>7. PICK a, b : /\ a = Place(p[1], IndexOf(p[1], m)) /\ b = Place(p[2], IndexOf(p[2], m))
                  /\ Head(ids)[1] = a /\ Head(ids)[2] = b
  BY <1>5
<1>8. ~Blocked => Traced(row')
  <2> SUFFICES ASSUME ~Blocked PROVE Traced(row')
    OBVIOUS
  <2>1. Traced(row) /\ Down(row)
    BY DEF AInv, RestOfTypes
  <2>2. Traced(AddRow(row, a, b))
    BY <1>4, <1>6, <1>7, <2>1, AddRowTraced
  <2> QED BY <1>1, <1>7, <2>2
<1>9. Blocked' \/ Traced(row)'
  <2>1. PICK s : s = row'
    OBVIOUS
  <2>2. ~Blocked' => Traced(s)
    BY <1>2, <1>8, <2>1
  <2>3. Traced(s) => Traced(row)'
    BY <1>2, <2>1 DEF Traced
  <2> QED BY <2>2, <2>3
<1>10. Dumping'
  <2>1. PICK n \in Nat : n = Len(ids)
    BY DEF RestOfTypes
  <2>2. \A k \in 1 .. n - 1 : k + 1 \in 1 .. n
    BY <2>1
  <2>3. \A k \in 1 .. n : \E q \in pairs : ~Skipped(q) /\ \E t \in Texts(q[1]) \cap Texts(q[2]) :
          ids[k] = <<Place(q[1], IndexOf(q[1], t)), Place(q[2], IndexOf(q[2], t))>>
    BY <1>1, <2>1 DEF AInv, Dumping
  <2>4. \A k \in 1 .. n - 1 : \E q \in pairs : ~Skipped(q) /\ \E t \in Texts(q[1]) \cap Texts(q[2]) :
          Tail(ids)[k] = <<Place(q[1], IndexOf(q[1], t)), Place(q[2], IndexOf(q[2], t))>>
    BY <1>3, <2>1, <2>2, <2>3
  <2> QED BY <1>1, <1>3, <2>1, <2>4 DEF Dumping
<1> QED BY <1>1, <1>2, <1>9, <1>10 DEF AInv

\* The step that ends a script in addRow: templates without IDs have met.
LEMMA FailsBlocked ==
  ASSUME IInv, RestOfTypes, AInv, pc = "dump", ids # <<>>, ~AddRowAsserts(row, Head(ids)[1], Head(ids)[2])
  PROVE  Blocked
<1> SUFFICES ASSUME ~Blocked PROVE FALSE
  OBVIOUS
<1>1. Head(ids) = ids[1] /\ 1 \in 1 .. Len(ids)
  BY HeadIsPair DEF RestOfTypes
<1>2. PICK p \in pairs : ~Skipped(p) /\ \E m \in Texts(p[1]) \cap Texts(p[2]) :
        Head(ids) = <<Place(p[1], IndexOf(p[1], m)), Place(p[2], IndexOf(p[2], m))>>
  BY <1>1 DEF AInv, Dumping
<1>3. PICK m \in Texts(p[1]) \cap Texts(p[2]) :
        Head(ids) = <<Place(p[1], IndexOf(p[1], m)), Place(p[2], IndexOf(p[2], m))>>
  BY <1>2
<1>4. p \in Seen /\ p[1] \in Oids /\ p[2] \in Oids /\ Traced(row) /\ Down(row)
  BY DEF AInv, IInv, OrderedPairs, RestOfTypes
<1>5. PICK a, b : /\ a = Place(p[1], IndexOf(p[1], m)) /\ b = Place(p[2], IndexOf(p[2], m))
                  /\ Head(ids)[1] = a /\ Head(ids)[2] = b
  BY <1>3
<1>6. AddRowAsserts(row, a, b)
  BY <1>2, <1>4, <1>5, AddRowTraced
<1> QED BY <1>5, <1>6

\* A normalized row leads to the end of its chain.
LEMMA NormalizeTraced ==
  ASSUME RestOfTypes, AInv, normalizeRow
  PROVE  Blocked' \/ Traced(row)'
<1>1. UNCHANGED commits
  BY DEF normalizeRow, Unchanged
<1>2. (Blocked' <=> Blocked) /\ \A x, m : Origin(x, m)' <=> Origin(x, m)
  BY <1>1 DEF Seen, Blocked, Origin, Taken
<1> SUFFICES ASSUME ~Blocked PROVE Traced(row)'
  BY <1>2
<1>3. Traced(row) /\ Down(row)
  BY DEF AInv, RestOfTypes
<1>4. PICK min : min = MinIdIn(row)
  OBVIOUS
<1>5. scan \in AllIds
  BY UpdateAssumption DEF normalizeRow, RestOfTypes, AllIds
<1>6. row' = [row EXCEPT ![scan] = IF @ # 0 THEN min[scan] ELSE 0]
  BY <1>4 DEF normalizeRow
<1>7. \A i \in AllIds : \A m : HasText(i, m) => Origin(min[i], m)
  BY <1>3, <1>4, ChainOrigin
<1>8. PICK s : s = row'
  OBVIOUS
<1>9. \A i \in AllIds : s[i] = row[i] \/ s[i] = 0 \/ (row[i] # 0 /\ s[i] = min[i])
  BY <1>3, <1>5, <1>6, <1>8 DEF Down
<1>10. \A i \in AllIds : s[i] # 0 => i >= FirstRow /\ \E m : HasText(i, m) /\ Origin(s[i], m)
  <2> SUFFICES ASSUME NEW i \in AllIds, s[i] # 0 PROVE i >= FirstRow /\ \E m : HasText(i, m) /\ Origin(s[i], m)
    OBVIOUS
  <2>1. CASE s[i] = row[i]
    BY <1>3, <2>1 DEF Traced
  <2>2. CASE row[i] # 0 /\ s[i] = min[i]
    BY <1>3, <1>7, <2>2 DEF Traced
  <2> QED BY <1>9, <2>1, <2>2
<1> QED BY <1>2, <1>8, <1>10 DEF Traced

\* So does every step.
LEMMA AInvStays == ASSUME IInv, IInv', RestOfTypes, AInv, [Next]_vars PROVE AInv'
<1>1. ASSUME commits' = commits \/ commits' = commits + 1, row' = row, pairs' \subseteq Seen',
             Dumping', abort' = "addRow" => abort = "addRow"
      PROVE  AInv'
  <2>0. commits \in Nat /\ commits' \in Nat
    BY <1>1 DEF AInv
  <2>1. commits' \in Nat /\ (Blocked => Blocked')
    BY <1>1, <2>0, MoreSeen
  <2>2. Traced(row) => Traced(row)'
    BY <1>1, TracedStays DEF AInv
  <2> QED BY <1>1, <2>1, <2>2 DEF AInv
<1>2. ASSUME commits' = commits, row' = row, pairs' \subseteq pairs, pc' # "dump",
             abort' = "addRow" => abort = "addRow"
      PROVE  AInv'
  <2>1. pairs' \subseteq Seen'
    BY <1>2 DEF AInv, Seen
  <2> QED BY <1>1, <1>2, <2>1 DEF Dumping
<1>3. CASE start
  BY <1>2, <1>3 DEF start, Unchanged
<1>4. CASE detect_transitions_inc
  <2>1. commits \in 0 .. commits
    BY DEF AInv
  <2>2. pairs' \subseteq Seen'
    BY <1>4, <2>1 DEF detect_transitions_inc, Unchanged, Filtered, Seen
  <2> QED BY <1>1, <1>4, <2>2 DEF detect_transitions_inc, Unchanged, Dumping
<1>5. CASE skipPair
  BY <1>2, <1>5 DEF skipPair, Unchanged
<1>6. CASE dump_equal_messages
  <2>1. PICK p \in pairs : ~Skipped(p) /\ ids' = EqualMessages(p[1], p[2])
    BY <1>6 DEF dump_equal_messages
  <2>2. p[1] \in Oids /\ p[2] \in Oids /\ TpHash[p[1]] # nil /\ TpHash[p[2]] # nil
    BY <2>1, DumpedPair
  <2>3. PICK e : e = ids'
    OBVIOUS
  <2>4. EqualShape(p[1], p[2], e)
    BY <2>1, <2>2, <2>3, EqualFacts
  <2>5. PICK s : \A k \in 1 .. Len(e) :
          /\ s[k] \in Texts(p[1]) \cap Texts(p[2])
          /\ e[k] = <<Place(p[1], IndexOf(p[1], s[k])), Place(p[2], IndexOf(p[2], s[k]))>>
    BY <2>4 DEF EqualShape
  <2>6. pairs' = pairs /\ row' = row /\ commits' = commits /\ abort' = abort
    BY <1>6 DEF dump_equal_messages, Unchanged
  <2>7. Dumping'
    BY <2>1, <2>3, <2>5, <2>6 DEF Dumping
  <2>8. pairs' \subseteq Seen'
    BY <2>6 DEF AInv, Seen
  <2> QED BY <1>1, <2>6, <2>7, <2>8
<1>7. CASE AddsPair
  BY <1>7, AddsPairAInv
<1>8. CASE dumpEnds
  BY <1>2, <1>8 DEF dumpEnds, Unchanged
<1>9. CASE append_processed_pairs
  BY <1>2, <1>9 DEF append_processed_pairs
<1>10. CASE normalize_database
  BY <1>2, <1>10 DEF normalize_database, Unchanged
<1>11. CASE normalizeRow
  <2>1. UNCHANGED <<commits, pairs, abort>> /\ pc' # "dump"
    BY <1>11 DEF normalizeRow, Unchanged
  <2>2. pairs' \subseteq Seen' /\ (Blocked' <=> Blocked)
    BY <2>1 DEF AInv, Seen, Blocked
  <2> QED BY <1>11, <2>1, <2>2, NormalizeTraced DEF AInv, Dumping
<1>12. CASE touch
  BY <1>1, <1>12 DEF touch, AInv, Seen, Dumping
<1>13. CASE commit
  <2>1. UNCHANGED <<row, pairs, pc, ids, abort>> /\ commits' = commits + 1
    BY <1>13 DEF commit
  <2>0. commits \in Nat /\ pairs \subseteq Seen
    BY DEF AInv
  <2>4. Seen \subseteq Seen'
    BY <2>0, <2>1, MoreSeen
  <2>2. pairs' \subseteq Seen'
    BY <2>0, <2>1, <2>4
  <2>3. Dumping'
    BY <2>1 DEF AInv, Dumping
  <2> QED BY <1>1, <2>1, <2>2, <2>3
<1>14. CASE addRow /\ ~AddRowAsserts(row, Head(ids)[1], Head(ids)[2])
  <2>1. /\ pc = "dump" /\ ids # <<>> /\ End("addRow")
        /\ UNCHANGED <<row, commits>>
    BY <1>14 DEF addRow, Unchanged
  <2>2. Blocked
    BY <1>14, <2>1, FailsBlocked
  <2>3. Blocked'
    BY <2>1, <2>2 DEF Blocked, Seen
  <2> QED BY <2>1, <2>3 DEF AInv, Dumping, End
<1>15. CASE addRow /\ AddRowAsserts(row, Head(ids)[1], Head(ids)[2])
  <2>1. AddsPair
    BY <1>15 DEF addRow, AddsPair, Unchanged
  <2> QED BY <2>1, <1>7
<1>16. CASE noFile \/ orderAssertFails \/ finish \/ kill
  BY <1>2, <1>16 DEF noFile, orderAssertFails, finish, kill, End, Unchanged
<1>17. CASE UNCHANGED vars
  BY <1>1, <1>17 DEF vars, AInv, Seen, Dumping
<1> QED BY <1>3, <1>4, <1>5, <1>6, <1>8, <1>9, <1>10, <1>11, <1>12, <1>13, <1>14, <1>15, <1>16, <1>17 DEF Next, ScriptStep

\* operator< fails only after a cut; addRow only when two templates without IDs share a message, or
\* one of them has so many that their numbers are IDs.
THEOREM AssertionsFailFor == Spec => []AssertionsHold
<1>1. Init => AInv
  <2> SUFFICES ASSUME Init PROVE AInv
    OBVIOUS
  <2>1. Traced(row)
    BY DEF Init, Traced
  <2> QED BY <2>1 DEF Init, AInv, Dumping
<1>2. UInv /\ IInv' /\ AInv /\ [Next]_vars => AInv'
  BY TypesOf, AInvStays DEF UInv
<1>3. IInv /\ AInv => AssertionsHold
  BY DEF IInv, AInv, AssertionsHold
<1> QED BY <1>1, <1>2, <1>3, AlwaysIInv, AlwaysUInv, PTL DEF Spec
=============================================================================
