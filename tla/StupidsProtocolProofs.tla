------------------------ MODULE StupidsProtocolProofs ------------------------
(***************************************************************************)
(* Proofs about StupidsProtocol, for any number of clients, templates, IDs *)
(* and requests: types, the step that the two ends keep, the refinement of *)
(* IdService, and that no end of a child ends the parent.                  *)
(***************************************************************************)
EXTENDS StupidsProtocol, SequenceTheorems, InductionLemmas

(* ------------------------------ the words of a request -------------- *)

Word == Int \cup Templates

\* What can be asked for: a request, or one with another list of IDs.
Request(r) ==
  /\ r = [cmd |-> r.cmd, hashes |-> r.hashes, ids |-> r.ids]
  /\ r.cmd \in {"minIdArray", "firstId", "firstIdMulti", "minIds", "involved"}
  /\ r.hashes \in Seq(Templates) /\ r.ids \in Seq(Ids)
  /\ r.cmd \in {"minIdArray", "firstId"} => Len(r.hashes) = 1

LEMMA RequestsAre == \A r \in Requests : Request(r)
  BY ProtocolAssumption DEF Request

\* One sequence before another.
LEMMA Joined ==
  \A S : \A s, t \in Seq(S) :
    /\ s \o t \in Seq(S) /\ Len(s \o t) = Len(s) + Len(t)
    /\ \A i \in 1 .. Len(s) : (s \o t)[i] = s[i]
    /\ \A i \in Len(s) + 1 .. Len(s) + Len(t) : (s \o t)[i] = t[i - Len(s)]
  OBVIOUS

LEMMA WordsJoined ==
  ASSUME NEW s \in Seq(Word), NEW t \in Seq(Word), NEW u \in Seq(Word)
  PROVE  s \o (t \o u) = (s \o t) \o u
  BY ConcatAssociative, SMTT(60)

\* The words of a command with two vectors, and where they are.
Vectors(c, x, s, y, t) == <<c>> \o ((<<x>> \o s) \o (<<y>> \o t))
AreVectors(m, c, x, s, y, t) ==
  /\ m \in Seq(Word) /\ Len(m) = 3 + Len(s) + Len(t)
  /\ m[1] = c /\ m[2] = x /\ m[3 + Len(s)] = y
  /\ \A i \in 1 .. Len(s) : m[2 + i] = s[i]
  /\ \A i \in 1 .. Len(t) : m[3 + Len(s) + i] = t[i]

LEMMA TwoVectors ==
  ASSUME NEW c \in Word, NEW x \in Word, NEW y \in Word, NEW s \in Seq(Word), NEW t \in Seq(Word)
  PROVE  AreVectors(Vectors(c, x, s, y, t), c, x, s, y, t)
<1> DEFINE S == Word
<1> HIDE DEF S
<1>0. c \in S /\ x \in S /\ y \in S /\ s \in Seq(S) /\ t \in Seq(S)
  BY DEF S
<1>1. PICK h \in Nat : h = Len(s)
  BY <1>0
<1>2. PICK n \in Nat : n = Len(t)
  BY <1>0
<1>3. PICK a : a = <<x>> \o s
  OBVIOUS
<1>4. PICK b : b = <<y>> \o t
  OBVIOUS
<1>5. PICK d : d = a \o b
  OBVIOUS
<1>6. PICK m : m = <<c>> \o d
  OBVIOUS
<1>7. a \in Seq(S) /\ Len(a) = 1 + h /\ a[1] = x /\ \A i \in 2 .. 1 + h : a[i] = s[i - 1]
  BY <1>0, <1>1, <1>3
<1>8. b \in Seq(S) /\ Len(b) = 1 + n /\ b[1] = y /\ \A i \in 2 .. 1 + n : b[i] = t[i - 1]
  BY <1>0, <1>2, <1>4
<1>9. /\ d \in Seq(S) /\ Len(d) = 2 + h + n
      /\ \A i \in 1 .. 1 + h : d[i] = a[i]
      /\ \A i \in 2 + h .. 2 + h + n : d[i] = b[i - (1 + h)]
  <2>1. /\ d \in Seq(S) /\ Len(d) = Len(a) + Len(b)
        /\ \A i \in 1 .. Len(a) : d[i] = a[i]
        /\ \A i \in Len(a) + 1 .. Len(a) + Len(b) : d[i] = b[i - Len(a)]
    BY <1>5, <1>7, <1>8, Joined, Zenon
  <2> QED BY <2>1, <1>7, <1>8
<1>10. m \in Seq(S) /\ Len(m) = 3 + h + n /\ m[1] = c /\ \A i \in 2 .. 3 + h + n : m[i] = d[i - 1]
  <2>1. PICK e : e = <<c>>
    OBVIOUS
  <2>2. e \in Seq(S) /\ Len(e) = 1 /\ e[1] = c
    BY <1>0, <2>1
  <2>3. /\ m \in Seq(S) /\ Len(m) = Len(e) + Len(d)
        /\ \A i \in 1 .. Len(e) : m[i] = e[i]
        /\ \A i \in Len(e) + 1 .. Len(e) + Len(d) : m[i] = d[i - Len(e)]
    <3>1. m = e \o d /\ e \in Seq(S) /\ d \in Seq(S)
      BY <1>6, <1>9, <2>1, <2>2
    <3> QED BY <3>1, Joined, Zenon
  <2> QED BY <2>2, <2>3, <1>9
<1>11. m[2] = x /\ m[3 + h] = y
  <2>1. m[2] = d[1] /\ d[1] = a[1]
    BY <1>9, <1>10
  <2>2. m[3 + h] = d[2 + h] /\ d[2 + h] = b[1]
    BY <1>9, <1>10
  <2> QED BY <2>1, <2>2, <1>7, <1>8
<1>12. ASSUME NEW i \in 1 .. h PROVE m[2 + i] = s[i]
  <2>1. m[2 + i] = d[1 + i]
    BY <1>10
  <2>2. d[1 + i] = a[1 + i]
    BY <1>9
  <2> QED BY <2>1, <2>2, <1>7
<1>13. ASSUME NEW i \in 1 .. n PROVE m[3 + h + i] = t[i]
  <2>1. m[3 + h + i] = d[2 + h + i]
    BY <1>10
  <2>2. d[2 + h + i] = b[1 + i]
    BY <1>9
  <2> QED BY <2>1, <2>2, <1>8
<1>14. m = Vectors(c, x, s, y, t)
  BY <1>3, <1>4, <1>5, <1>6 DEF Vectors
<1> QED BY <1>1, <1>2, <1>10, <1>11, <1>12, <1>13, <1>14, Zenon DEF AreVectors, S

\* The words of a message, by command.
Shape(r, m) ==
    /\ m \in Seq(Word)
    /\ r.cmd \in {"minIdArray", "firstId"} =>
         Len(m) = 2 /\ m[1] = CmdCode[r.cmd] /\ m[2] = r.hashes[1]
    /\ r.cmd = "firstIdMulti" =>
         /\ Len(m) = 2 + Len(r.hashes) /\ m[1] = 4 /\ m[2] = Len(r.hashes)
         /\ \A i \in 1 .. Len(r.hashes) : m[2 + i] = r.hashes[i]
    /\ r.cmd = "minIds" =>
         /\ Len(m) = 2 + Len(r.ids) /\ m[1] = 5 /\ m[2] = Len(r.ids)
         /\ \A i \in 1 .. Len(r.ids) : m[2 + i] = r.ids[i]
    /\ r.cmd = "involved" =>
         /\ Len(m) = 3 + Len(r.hashes) + Len(r.ids) /\ m[1] = 6 /\ m[2] = Len(r.hashes)
         /\ \A i \in 1 .. Len(r.hashes) : m[2 + i] = r.hashes[i]
         /\ m[3 + Len(r.hashes)] = Len(r.ids)
         /\ \A i \in 1 .. Len(r.ids) : m[3 + Len(r.hashes) + i] = r.ids[i]

LEMMA MessageShape == ASSUME NEW r, Request(r) PROVE Shape(r, Message(r))
<1> DEFINE m == Message(r)
<1>0. Ids \subseteq Nat
  BY ProtocolAssumption
<1>1. r.hashes \in Seq(Word) /\ r.ids \in Seq(Word) /\ Len(r.hashes) \in Nat /\ Len(r.ids) \in Nat
  <2>1. Templates \subseteq Word /\ Ids \subseteq Word
    BY <1>0 DEF Word
  <2> QED BY <2>1, SeqMonotonic DEF Request
<1>2. <<CmdCode[r.cmd]>> \in Seq(Word) /\ <<Len(r.hashes)>> \in Seq(Word) /\ <<Len(r.ids)>> \in Seq(Word)
  BY <1>1 DEF Request, CmdCode, Word
<1>3. CASE r.cmd \in {"minIdArray", "firstId"}
  <2>1. m = <<CmdCode[r.cmd]>> \o r.hashes
    BY <1>3 DEF Message
  <2> QED BY <2>1, <1>1, <1>2, <1>3 DEF Request, Shape
<1>4. CASE r.cmd = "firstIdMulti"
  <2>1. m = <<4>> \o (<<Len(r.hashes)>> \o r.hashes)
    BY <1>4 DEF Message, CmdCode
  <2>2. <<Len(r.hashes)>> \o r.hashes \in Seq(Word) /\ <<4>> \in Seq(Word)
    BY <1>1, <1>2 DEF Word
  <2> QED BY <2>1, <2>2, <1>1, <1>2, <1>4 DEF Shape
<1>5. CASE r.cmd = "minIds"
  <2>1. m = <<5>> \o (<<Len(r.ids)>> \o r.ids)
    BY <1>5 DEF Message, CmdCode
  <2>2. <<Len(r.ids)>> \o r.ids \in Seq(Word) /\ <<5>> \in Seq(Word)
    BY <1>1, <1>2 DEF Word
  <2> QED BY <2>1, <2>2, <1>1, <1>2, <1>5 DEF Shape
<1>6. CASE r.cmd = "involved"
  <2>1. m = Vectors(6, Len(r.hashes), r.hashes, Len(r.ids), r.ids)
    <3> DEFINE a == <<Len(r.hashes)>> \o r.hashes
               b == <<Len(r.ids)>> \o r.ids
    <3>1. m = <<CmdCode[r.cmd]>> \o
                CASE r.cmd \in {"minIdArray", "firstId"} -> r.hashes
                  [] r.cmd = "firstIdMulti"              -> a
                  [] r.cmd = "minIds"                    -> b
                  [] r.cmd = "involved"                  -> a \o b
      BY Zenon DEF Message
    <3>2. m = <<6>> \o (a \o b)
      <4> HIDE DEF a, b
      <4> QED BY <1>6, <3>1 DEF CmdCode
    <3> QED BY <3>2, Zenon DEF Vectors
  <2>2. 6 \in Word /\ Len(r.hashes) \in Word /\ Len(r.ids) \in Word
    BY <1>1 DEF Word
  <2>3. /\ m \in Seq(Word) /\ Len(m) = 3 + Len(r.hashes) + Len(r.ids)
        /\ m[1] = 6 /\ m[2] = Len(r.hashes) /\ m[3 + Len(r.hashes)] = Len(r.ids)
        /\ \A i \in 1 .. Len(r.hashes) : m[2 + i] = r.hashes[i]
        /\ \A i \in 1 .. Len(r.ids) : m[3 + Len(r.hashes) + i] = r.ids[i]
    <3> HIDE DEF m
    <3>1. AreVectors(m, 6, Len(r.hashes), r.hashes, Len(r.ids), r.ids)
      BY <2>1, <2>2, <1>1, TwoVectors
    <3> QED BY <3>1, Zenon DEF AreVectors
  <2> HIDE DEF m
  <2> QED BY <2>3, <1>6 DEF m, Shape
<1> QED BY <1>3, <1>4, <1>5, <1>6 DEF Request

\* How many words of the message are the IDs that one write sends, and how many come before them.
IdsOf(r) == IF r.cmd \in {"minIds", "involved"} THEN Len(r.ids) ELSE 0
Fixed(r) == Len(Message(r)) - IdsOf(r)

\* As much of the message of r as arrived, when its list of IDs was written in pieces.
Arrived(r, w) ==
  /\ w \in Seq(Word) /\ Len(w) <= Len(Message(r))
  /\ \A i \in 1 .. Len(w) :
       IF i <= Fixed(r) THEN w[i] = Message(r)[i] ELSE \E j \in 1 .. Len(r.ids) : w[i] = r.ids[j]

\* Lengths, as constants for the provers.
LEMMA Lengths ==
  ASSUME NEW r, Request(r)
  PROVE  /\ Len(Message(r)) \in Nat /\ IdsOf(r) \in Nat /\ Fixed(r) \in Nat \ {0}
         /\ Len(Message(r)) = Fixed(r) + IdsOf(r)
         /\ Len(r.hashes) \in Nat /\ Len(r.ids) \in Nat
<1>1. Len(r.hashes) \in Nat /\ Len(r.ids) \in Nat
  BY DEF Request
<1>2. Shape(r, Message(r))
  BY MessageShape
<1>3. PICK h, n : h = Len(r.hashes) /\ n = Len(r.ids)
  OBVIOUS
<1>4. PICK l : l = Len(Message(r))
  OBVIOUS
<1>5. /\ r.cmd \in {"minIdArray", "firstId"} => l = 2
      /\ r.cmd = "firstIdMulti" => l = 2 + h
      /\ r.cmd = "minIds" => l = 2 + n
      /\ r.cmd = "involved" => l = 3 + h + n
  BY <1>2, <1>3, <1>4 DEF Shape
<1> QED BY <1>1, <1>3, <1>4, <1>5 DEF Request, IdsOf, Fixed

\* The handler has read enough exactly when the whole message arrived.
LEMMA CompleteWhenAll ==
  ASSUME NEW r, Request(r), NEW w, Arrived(r, w)
  PROVE  Complete(w) <=> Len(w) = Len(Message(r))
<1>0. Len(w) \in Nat /\ Len(w) <= Len(Message(r))
  BY DEF Arrived
<1>1. \A i \in 1 .. Len(w) : i <= Fixed(r) => w[i] = Message(r)[i]
  BY DEF Arrived
<1>2. w # <<>> <=> Len(w) # 0
  BY DEF Arrived
<1>3. PICK h \in Nat : h = Len(r.hashes)
  BY Lengths
<1>4. PICK n \in Nat : n = Len(r.ids)
  BY Lengths
<1>5. PICK l \in Nat : l = Len(w)
  BY <1>0
<1>6. PICK m : m = Message(r)
  OBVIOUS
<1>61. Shape(r, m)
  BY <1>6, MessageShape
<1>7. ASSUME l # 0 PROVE w[1] = m[1]
  BY <1>7, <1>1, <1>5, <1>6, Lengths
<1>8. CASE r.cmd \in {"minIdArray", "firstId"}
  <2>1. Len(m) = 2 /\ m[1] = CmdCode[r.cmd] /\ CmdCode[r.cmd] \in {2, 3}
    BY <1>8, <1>61 DEF CmdCode, Shape
  <2> QED BY <2>1, <1>0, <1>2, <1>5, <1>6, <1>7 DEF Complete
<1>9. CASE r.cmd = "firstIdMulti"
  <2>1. Len(m) = 2 + h /\ m[1] = 4 /\ m[2] = h /\ Fixed(r) = 2 + h
    BY <1>9, <1>6, <1>3, <1>61 DEF Fixed, IdsOf, Shape
  <2>2. l >= 2 => w[2] = m[2]
    BY <2>1, <1>1, <1>5, <1>6
  <2> QED BY <2>1, <2>2, <1>0, <1>2, <1>5, <1>6, <1>7 DEF Complete
<1>10. CASE r.cmd = "minIds"
  <2>1. Len(m) = 2 + n /\ m[1] = 5 /\ m[2] = n /\ Fixed(r) = 2
    BY <1>10, <1>6, <1>4, <1>61 DEF Fixed, IdsOf, Shape
  <2>2. l >= 2 => w[2] = m[2]
    BY <2>1, <1>1, <1>5, <1>6
  <2> QED BY <2>1, <2>2, <1>0, <1>2, <1>5, <1>6, <1>7 DEF Complete
<1>11. CASE r.cmd = "involved"
  <2>1. Len(m) = 3 + h + n /\ m[1] = 6 /\ m[2] = h /\ m[3 + h] = n /\ Fixed(r) = 3 + h
    <3>1. Len(m) = 3 + h + n /\ m[1] = 6 /\ m[2] = h /\ m[3 + h] = n
      BY <1>11, <1>3, <1>4, <1>61 DEF Shape
    <3>2. IdsOf(r) = n
      BY <1>11, <1>4 DEF IdsOf
    <3>3. Fixed(r) = (3 + h + n) - n
      BY <3>1, <3>2, <1>6 DEF Fixed
    <3> QED BY <3>1, <3>3
  <2>2. l >= 2 => w[2] = h
    BY <2>1, <1>1, <1>5, <1>6
  <2>3. l >= 3 + h => w[3 + h] = n
    BY <2>1, <1>1, <1>5, <1>6
  <2> QED BY <2>1, <2>2, <2>3, <1>0, <1>2, <1>5, <1>6, <1>7 DEF Complete
<1> QED BY <1>8, <1>9, <1>10, <1>11 DEF Request

\* A request resembles itself.
LEMMA ResemblesItself == ASSUME NEW r, Request(r) PROVE r \in Promise!Resembling(r)
<1>1. PICK n \in Nat : n = Len(r.ids)
  BY Lengths
<1>2. PICK p : p = [i \in 1 .. n |-> i]
  OBVIOUS
<1>3. p \in [1 .. n -> 1 .. n] /\ [i \in 1 .. n |-> r.ids[p[i]]] = r.ids
  BY <1>1, <1>2 DEF Request
<1>4. [r EXCEPT !.ids = r.ids] = r
  BY DEF Request
<1> QED BY <1>1, <1>3, <1>4 DEF Promise!Resembling

\* What arrived as a whole is the message of a request with IDs of the same list.
LEMMA AnotherList ==
  ASSUME NEW r, Request(r), NEW m, Arrived(r, m), Len(m) = Len(Message(r))
  PROVE  \E q \in Promise!Resembling(r) :
           Request(q) /\ q.cmd = r.cmd /\ q.hashes = r.hashes /\ Len(q.ids) = Len(r.ids) /\ m = Message(q)
<1>1. PICK n \in Nat : n = Len(r.ids)
  BY Lengths
<1>2. PICK k \in Nat \ {0} : k = Fixed(r)
  BY Lengths
<1>3. r.ids \in [1 .. n -> Ids]
  BY <1>1 DEF Request
<1>4. \A p \in [1 .. n -> 1 .. n] :
        LET q == [r EXCEPT !.ids = [i \in 1 .. n |-> r.ids[p[i]]]]
        IN  q \in Promise!Resembling(r)
  BY <1>1 DEF Promise!Resembling
<1>5. ASSUME NEW p \in [1 .. n -> 1 .. n]
      PROVE  LET q == [r EXCEPT !.ids = [i \in 1 .. n |-> r.ids[p[i]]]]
             IN  /\ Request(q) /\ q.cmd = r.cmd /\ q.hashes = r.hashes
                 /\ Len(q.ids) = n /\ \A i \in 1 .. n : q.ids[i] = r.ids[p[i]]
  <2>1. PICK s : s = [i \in 1 .. n |-> r.ids[p[i]]]
    OBVIOUS
  <2>2. s \in Seq(Ids) /\ Len(s) = n /\ \A i \in 1 .. n : s[i] = r.ids[p[i]]
    BY <2>1, <1>3
  <2>3. PICK q : q = [r EXCEPT !.ids = s]
    OBVIOUS
  <2>4. q = [cmd |-> r.cmd, hashes |-> r.hashes, ids |-> s]
    BY <2>3 DEF Request
  <2>5. Request(q) /\ q.cmd = r.cmd /\ q.hashes = r.hashes /\ q.ids = s
    BY <2>2, <2>4 DEF Request
  <2> QED BY <2>1, <2>2, <2>3, <2>5
<1>6. Shape(r, Message(r))
  BY MessageShape
<1>7. CASE r.cmd \in {"minIds", "involved"}
  <2>1. Len(m) = k + n
    BY <1>1, <1>2, <1>7, Lengths DEF IdsOf
  <2>2. \A i \in 1 .. n : \E j \in 1 .. n : m[k + i] = r.ids[j]
    <3> SUFFICES ASSUME NEW i \in 1 .. n PROVE \E j \in 1 .. n : m[k + i] = r.ids[j]
      OBVIOUS
    <3>1. k + i \in 1 .. Len(m) /\ ~(k + i <= k)
      BY <2>1
    <3> QED BY <3>1, <1>1, <1>2 DEF Arrived
  <2>3. PICK p \in [1 .. n -> 1 .. n] : \A i \in 1 .. n : m[k + i] = r.ids[p[i]]
    <3>1. [i \in 1 .. n |-> CHOOSE j \in 1 .. n : m[k + i] = r.ids[j]] \in [1 .. n -> 1 .. n]
      BY <2>2
    <3> QED BY <2>2, <3>1
  <2>4. PICK q : q = [r EXCEPT !.ids = [i \in 1 .. n |-> r.ids[p[i]]]]
    OBVIOUS
  <2>5. /\ q \in Promise!Resembling(r)
        /\ Request(q) /\ q.cmd = r.cmd /\ q.hashes = r.hashes
        /\ Len(q.ids) = n /\ \A i \in 1 .. n : q.ids[i] = m[k + i]
    BY <1>4, <1>5, <2>3, <2>4
  <2>6. Shape(q, Message(q))
    BY <2>5, MessageShape
  <2>7. PICK u : u = Message(q)
    OBVIOUS
  <2>8. PICK v : v = Message(r)
    OBVIOUS
  <2>9. /\ u \in Seq(Word) /\ Len(u) = k + n
        /\ \A i \in 1 .. k : u[i] = v[i]
        /\ \A i \in 1 .. n : u[k + i] = q.ids[i]
    <3>1. CASE r.cmd = "minIds"
      <4>1. k = 2
        BY <3>1, <1>1, <1>2, <1>6 DEF Fixed, IdsOf, Shape
      <4>2. /\ u \in Seq(Word) /\ Len(u) = 2 + n /\ u[1] = 5 /\ u[2] = n
            /\ \A i \in 1 .. n : u[2 + i] = q.ids[i]
        BY <3>1, <2>5, <2>6, <2>7 DEF Shape
      <4>3. v[1] = 5 /\ v[2] = n
        BY <3>1, <1>1, <1>6, <2>8 DEF Shape
      <4> QED BY <4>1, <4>2, <4>3
    <3>2. CASE r.cmd = "involved"
      <4>1. PICK h \in Nat : h = Len(r.hashes)
        BY Lengths
      <4>2. k = 3 + h
        <5>1. Len(Message(r)) = 3 + h + n
          BY <3>2, <1>1, <4>1, <1>6 DEF Shape
        <5>2. IdsOf(r) = n
          BY <3>2, <1>1 DEF IdsOf
        <5>3. k = (3 + h + n) - n
          BY <5>1, <5>2, <1>2 DEF Fixed
        <5> QED BY <5>3
      <4>3. /\ u \in Seq(Word) /\ Len(u) = 3 + h + n /\ u[1] = 6 /\ u[2] = h /\ u[3 + h] = n
            /\ \A i \in 1 .. h : u[2 + i] = r.hashes[i]
            /\ \A i \in 1 .. n : u[3 + h + i] = q.ids[i]
        BY <3>2, <4>1, <2>5, <2>6, <2>7 DEF Shape
      <4>4. /\ v[1] = 6 /\ v[2] = h /\ v[3 + h] = n
            /\ \A i \in 1 .. h : v[2 + i] = r.hashes[i]
        BY <3>2, <1>1, <4>1, <1>6, <2>8 DEF Shape
      <4>5. ASSUME NEW i \in 1 .. k PROVE u[i] = v[i]
        <5>1. CASE i \in {1, 2, 3 + h}
          BY <5>1, <4>3, <4>4
        <5>2. CASE i \in 3 .. 2 + h
          <6>1. i - 2 \in 1 .. h /\ 2 + (i - 2) = i
            BY <5>2
          <6> QED BY <6>1, <4>3, <4>4
        <5> QED BY <5>1, <5>2, <4>2
      <4> QED BY <4>2, <4>3, <4>5
    <3> QED BY <1>7, <3>1, <3>2
  <2>10. m = u
    <3>1. \A i \in 1 .. k : m[i] = v[i]
      BY <1>2, <2>1, <2>8 DEF Arrived
    <3>2. ASSUME NEW i \in 1 .. k + n PROVE m[i] = u[i]
      <4>1. CASE i <= k
        BY <4>1, <3>1, <2>9
      <4>2. CASE i > k
        <5>1. PICK x \in 1 .. n : k + x = i
          <6>1. i - k \in 1 .. n /\ k + (i - k) = i
            BY <4>2
          <6> QED BY <6>1
        <5>2. m[i] = q.ids[x]
          BY <5>1, <2>5
        <5>3. u[i] = q.ids[x]
          BY <5>1, <2>9
        <5> QED BY <5>2, <5>3
      <4> QED BY <4>1, <4>2
    <3>3. m \in Seq(Word)
      BY DEF Arrived
    <3> QED BY <3>2, <3>3, <2>1, <2>9, SeqEqual
  <2> QED BY <2>5, <2>7, <2>10, <1>1
<1>8. CASE r.cmd \notin {"minIds", "involved"}
  <2>1. PICK v : v = Message(r)
    OBVIOUS
  <2>2. v \in Seq(Word)
    BY <1>6, <2>1 DEF Shape
  <2>3. Len(v) = k /\ m \in Seq(Word) /\ Len(m) = k
    BY <1>2, <1>8, <2>1, Lengths DEF IdsOf, Arrived
  <2>4. \A i \in 1 .. k : m[i] = v[i]
    BY <2>3, <1>2, <2>1 DEF Arrived
  <2>5. m = v
    BY <2>2, <2>3, <2>4, SeqEqual
  <2> QED BY <2>1, <2>5, ResemblesItself
<1> QED BY <1>7, <1>8

(* ------------------------------ the answer for a request ------------ *)

\* a lists the numbers of I in ascending order.
Ascending(a, I) ==
  /\ a \in Seq(Int) /\ {a[i] : i \in 1 .. Len(a)} = I
  /\ \A i, j \in 1 .. Len(a) : i < j => a[i] < a[j]

\* One more number, above the others.
LEMMA AscendingAppend ==
  ASSUME NEW a, NEW I, Ascending(a, I), NEW x \in Int, \A y \in I : y < x
  PROVE  Ascending(Append(a, x), I \cup {x})
<1>1. PICK n \in Nat : n = Len(a)
  BY DEF Ascending
<1>2. PICK b : b = Append(a, x)
  OBVIOUS
<1>3. b \in Seq(Int) /\ Len(b) = n + 1 /\ b[n + 1] = x /\ \A i \in 1 .. n : b[i] = a[i]
  BY <1>1, <1>2 DEF Ascending
<1>4. \A i \in 1 .. n : a[i] \in I
  BY <1>1 DEF Ascending
<1>5. \A y \in I : \E i \in 1 .. n : a[i] = y
  BY <1>1 DEF Ascending
<1>6. {b[i] : i \in 1 .. Len(b)} = I \cup {x}
  <2>1. ASSUME NEW i \in 1 .. n + 1 PROVE b[i] \in I \cup {x}
    <3>1. CASE i \in 1 .. n
      BY <3>1, <1>3, <1>4
    <3>2. CASE i = n + 1
      BY <3>2, <1>3
    <3> QED BY <3>1, <3>2
  <2>2. ASSUME NEW y \in I PROVE \E i \in 1 .. n + 1 : b[i] = y
    <3>1. PICK i \in 1 .. n : a[i] = y
      BY <1>5
    <3>2. i \in 1 .. n + 1 /\ b[i] = y
      BY <3>1, <1>3
    <3> QED BY <3>2
  <2>3. n + 1 \in 1 .. n + 1 /\ b[n + 1] = x
    BY <1>3
  <2> QED BY <2>1, <2>2, <2>3, <1>3
<1>7. \A i, j \in 1 .. n : i < j => a[i] < a[j]
  BY <1>1 DEF Ascending
<1>8. ASSUME NEW i \in 1 .. n + 1, NEW j \in 1 .. n + 1, i < j PROVE b[i] < b[j]
  <2>1. i \in 1 .. n /\ b[i] = a[i] /\ a[i] \in I
    BY <1>8, <1>3, <1>4
  <2>2. CASE j \in 1 .. n
    BY <2>1, <2>2, <1>8, <1>7, <1>3
  <2>3. CASE j = n + 1
    BY <2>1, <2>3, <1>3
  <2> QED BY <2>2, <2>3
<1> QED BY <1>2, <1>3, <1>6, <1>8 DEF Ascending

\* f has the lists after each of the N turns of a loop that collects the indices from M.
Collects(f, N, M) ==
  f = [i \in 0 .. N |-> IF i = 0 THEN <<>> ELSE IF i \in M THEN Append(f[i - 1], i - 1) ELSE f[i - 1]]

\* What it has collected.
LEMMA Collected ==
  ASSUME NEW N \in Nat, NEW M, NEW f, Collects(f, N, M)
  PROVE  Ascending(f[N], {i \in 0 .. N - 1 : i + 1 \in M})
<1> DEFINE I(n) == {i \in 0 .. n - 1 : i + 1 \in M}
           T == {n \in Nat : n <= N => Ascending(f[n], I(n))}
<1>1. 0 \in T
  <2>1. f[0] = <<>>
    BY DEF Collects
  <2>2. I(0) = {}
    OBVIOUS
  <2>3. Ascending(<<>>, {})
    BY DEF Ascending
  <2> QED BY <2>1, <2>2, <2>3
<1>2. ASSUME NEW n \in Nat, n \in T PROVE n + 1 \in T
  <2> SUFFICES ASSUME n + 1 <= N PROVE Ascending(f[n + 1], I(n + 1))
    OBVIOUS
  <2>1. Ascending(f[n], I(n))
    BY <1>2
  <2>2. f[n + 1] = IF n + 1 \in M THEN Append(f[n], n) ELSE f[n]
    <3>1. n + 1 \in 0 .. N /\ n + 1 # 0 /\ (n + 1) - 1 = n
      OBVIOUS
    <3> QED BY <3>1 DEF Collects
  <2>3. I(n + 1) = IF n + 1 \in M THEN I(n) \cup {n} ELSE I(n)
    OBVIOUS
  <2>4. \A y \in I(n) : y < n
    OBVIOUS
  <2> HIDE DEF I
  <2>5. CASE n + 1 \in M
    <3>1. Ascending(Append(f[n], n), I(n) \cup {n})
      BY <2>1, <2>4, AscendingAppend
    <3> QED BY <2>5, <3>1, <2>2, <2>3
  <2> QED BY <2>1, <2>2, <2>3, <2>5
<1>3. N \in T
  <2> HIDE DEF T
  <2> QED BY <1>1, <1>2, SetInduction
<1> QED BY <1>3

\* There is such a loop.
LEMMA CollectedExists ==
  ASSUME NEW N \in Nat, NEW M
  PROVE  \E f : Collects(f, N, M)
<1> DEFINE S == Seq(Int)
           D == [i \in 1 .. N |-> [s \in S |-> IF i \in M THEN Append(s, i - 1) ELSE s]]
<1>1. D \in [1 .. N -> [S -> S]]
  OBVIOUS
<1>2. <<>> \in S
  OBVIOUS
<1>3. PICK f : Turns(f, S, <<>>, N, D)
  <2> HIDE DEF D, S
  <2> QED BY <1>1, <1>2, Iteration
<1>31. f \in [0 .. N -> S] /\ f[0] = <<>> /\ \A n \in 1 .. N : f[n] = D[n][f[n - 1]]
  BY <1>3 DEF Turns
<1>4. ASSUME NEW i \in 0 .. N
      PROVE  f[i] = IF i = 0 THEN <<>> ELSE IF i \in M THEN Append(f[i - 1], i - 1) ELSE f[i - 1]
  <2>1. CASE i = 0
    BY <2>1, <1>31
  <2>2. CASE i \in 1 .. N
    <3>1. i - 1 \in 0 .. N /\ f[i - 1] \in S
      BY <2>2, <1>31
    <3> QED BY <2>2, <3>1, <1>31
  <2> QED BY <2>1, <2>2
<1> QED BY <1>4, <1>31 DEF Collects

\* involvedByMinIds finds the templates that meet the IDs, by ascending index from 0.
LEMMA InvolvedAscends ==
  ASSUME NEW q, Request(q), \A t \in {q.hashes[i] : i \in 1 .. Len(q.hashes)} : Promise!Numbered(t)
  PROVE  Ascending(InvolvedByMinIds(q.hashes, q.ids), Promise!InvolvedIndices(q))
<1> DEFINE N == Len(q.hashes)
           mins == {PlainMinIds(q.ids)[j] : j \in 1 .. Len(q.ids)}
           meets(i) == {TphashMinIds(q.hashes[i])[k] : k \in 1 .. Count[q.hashes[i]]} \cap mins # {}
           M == {i \in 1 .. N : meets(i)}
           res == CHOOSE f : f = [i \in 0 .. N |-> IF i = 0 THEN <<>> ELSE IF meets(i) THEN Append(f[i - 1], i - 1) ELSE f[i - 1]]
<1>1. N \in Nat
  BY DEF Request
<1>2. InvolvedByMinIds(q.hashes, q.ids) = res[N]
  BY DEF InvolvedByMinIds
<1>3. Collects(res, N, M)
  <2>1. \E f : Collects(f, N, M)
    <3> HIDE DEF M, N
    <3> QED BY <1>1, CollectedExists
  <2>2. \A i \in 0 .. N : i # 0 => (i \in M <=> meets(i))
    <3>1. \A i \in 0 .. N : i # 0 => i \in 1 .. N
      BY <1>1
    <3> HIDE DEF N, meets
    <3> QED BY <3>1
  <2> HIDE DEF M, N, meets
  <2>3. \E f : f = [i \in 0 .. N |-> IF i = 0 THEN <<>> ELSE IF meets(i) THEN Append(f[i - 1], i - 1) ELSE f[i - 1]]
    <3>1. PICK f : Collects(f, N, M)
      BY <2>1
    <3>2. f = [i \in 0 .. N |-> IF i = 0 THEN <<>> ELSE IF meets(i) THEN Append(f[i - 1], i - 1) ELSE f[i - 1]]
      BY <3>1, <2>2 DEF Collects
    <3> QED BY <3>2
  <2>4. res = [i \in 0 .. N |-> IF i = 0 THEN <<>> ELSE IF meets(i) THEN Append(res[i - 1], i - 1) ELSE res[i - 1]]
    BY <2>3
  <2> HIDE DEF res
  <2> QED BY <2>4, <2>2 DEF Collects
<1>4. Ascending(res[N], {i \in 0 .. N - 1 : i + 1 \in M})
  <2> HIDE DEF res, M, N
  <2> QED BY <1>1, <1>3, Collected
<1>5. {i \in 0 .. N - 1 : i + 1 \in M} = Promise!InvolvedIndices(q)
  <2>1. ASSUME NEW i \in 0 .. N - 1
        PROVE  meets(i + 1) <=> LET t == q.hashes[i + 1]
                                IN  \E k \in 1 .. Count[t] : \E j \in 1 .. Len(q.ids) : MinId[First[t] + k - 1] = MinId[q.ids[j]]
    <3>1. PICK t : t = q.hashes[i + 1]
      OBVIOUS
    <3>2. PICK n : n = Len(q.ids)
      OBVIOUS
    <3>3. PICK l : l = Count[t]
      OBVIOUS
    <3>4. PICK x : x = TphashMinIds(t)
      OBVIOUS
    <3>5. PICK y : y = PlainMinIds(q.ids)
      OBVIOUS
    <3>6. meets(i + 1) <=> {x[k] : k \in 1 .. l} \cap {y[j] : j \in 1 .. n} # {}
      <4>1. (i + 1) - 1 = i
        OBVIOUS
      <4> QED BY <4>1, <3>1, <3>2, <3>3, <3>4, <3>5, ZenonT(60)
    <3>7. meets(i + 1) <=> \E k \in 1 .. l : \E j \in 1 .. n : x[k] = y[j]
      <4> HIDE DEF meets
      <4> QED BY <3>6
    <3>8. \A k \in 1 .. l : x[k] = MinId[First[t] + k - 1]
      BY <3>3, <3>4 DEF TphashMinIds
    <3>9. \A j \in 1 .. n : y[j] = MinId[q.ids[j]]
      BY <3>2, <3>5 DEF PlainMinIds
    <3> HIDE DEF meets
    <3> QED BY <3>1, <3>2, <3>3, <3>7, <3>8, <3>9
  <2>2. \A i \in 0 .. N - 1 : i + 1 \in M <=> meets(i + 1)
    <3>1. \A i \in 0 .. N - 1 : i + 1 \in 1 .. N
      BY <1>1
    <3> HIDE DEF N, meets
    <3> QED BY <3>1
  <2> HIDE DEF M, meets
  <2> QED BY <2>1, <2>2 DEF Promise!InvolvedIndices
<1> QED BY <1>2, <1>4, <1>5

\* The last part of a sequence.
LEMMA LastPart ==
  ASSUME NEW S, NEW T, NEW m \in Seq(S), NEW t \in Seq(T), NEW k \in Nat, NEW n \in Nat, n = Len(t),
         Len(m) = k + n, \A i \in 1 .. n : m[k + i] = t[i]
  PROVE  SubSeq(m, k + 1, k + n) = t
  OBVIOUS

\* What the handler has of the whole message of q: its hashes and its IDs.
LEMMA Parsed ==
  ASSUME NEW q, Request(q), NEW m, m = Message(q)
  PROVE  /\ m[1] = CmdCode[q.cmd] /\ Complete(m) /\ m # <<>>
         /\ q.cmd # "minIds" => RecvOids(m) = q.hashes
         /\ q.cmd = "minIds" => RecvOids(m) = <<>>
         /\ q.cmd \in {"minIds", "involved"} => RecvIds(m) = q.ids
<1>1. Shape(q, m)
  BY MessageShape
<1>2. PICK h \in Nat : h = Len(q.hashes)
  BY Lengths
<1>3. PICK n \in Nat : n = Len(q.ids)
  BY Lengths
<1>4. m \in Seq(Word) /\ Len(m) \in Nat \ {0} /\ m # <<>>
  <2>1. m \in Seq(Word)
    BY <1>1 DEF Shape
  <2> QED BY <2>1, Lengths
<1>5. Complete(m)
  <2>1. Arrived(q, m)
    <3>1. \A i \in 1 .. Len(m) : ~(i <= Fixed(q)) => \E j \in 1 .. Len(q.ids) : m[i] = q.ids[j]
      <4> SUFFICES ASSUME NEW i \in 1 .. Len(m), ~(i <= Fixed(q)) PROVE \E j \in 1 .. n : m[i] = q.ids[j]
        BY <1>3
      <4>1. CASE q.cmd = "minIds"
        <5>1. Len(m) = 2 + n /\ \A j \in 1 .. n : m[2 + j] = q.ids[j]
          BY <4>1, <1>1, <1>3 DEF Shape
        <5>2. IdsOf(q) = n
          BY <4>1, <1>3 DEF IdsOf
        <5>3. Fixed(q) = 2
          BY <5>1, <5>2 DEF Fixed
        <5>4. i - 2 \in 1 .. n /\ 2 + (i - 2) = i
          BY <5>1, <5>3
        <5> QED BY <5>1, <5>4
      <4>2. CASE q.cmd = "involved"
        <5>1. Len(m) = 3 + h + n /\ \A j \in 1 .. n : m[3 + h + j] = q.ids[j]
          BY <4>2, <1>1, <1>2, <1>3 DEF Shape
        <5>2. IdsOf(q) = n
          BY <4>2, <1>3 DEF IdsOf
        <5>3. Fixed(q) = 3 + h
          BY <5>1, <5>2 DEF Fixed
        <5>4. i - (3 + h) \in 1 .. n /\ 3 + h + (i - (3 + h)) = i
          BY <5>1, <5>3
        <5> QED BY <5>1, <5>4
      <4>3. CASE q.cmd \notin {"minIds", "involved"}
        <5>1. Fixed(q) = Len(m)
          BY <4>3, Lengths DEF IdsOf
        <5> QED BY <5>1, <1>4
      <4> QED BY <4>1, <4>2, <4>3
    <3>2. m \in Seq(Word) /\ m = Message(q) /\ Len(m) \in Nat /\ Len(m) <= Len(m)
      BY <1>4
    <3>3. \A i \in 1 .. Len(m) :
            IF i <= Fixed(q) THEN m[i] = m[i] ELSE \E j \in 1 .. Len(q.ids) : m[i] = q.ids[j]
      BY <3>1, Zenon
    <3> QED BY <3>2, <3>3, Zenon DEF Arrived
  <2> QED BY <2>1, CompleteWhenAll
<1>6. CASE q.cmd \in {"minIdArray", "firstId"}
  <2>1. Len(m) = 2 /\ m[1] = CmdCode[q.cmd] /\ m[2] = q.hashes[1]
    BY <1>6, <1>1 DEF Shape
  <2>2. CmdCode[q.cmd] \in {2, 3}
    BY <1>6 DEF CmdCode
  <2>3. RecvOids(m) = SubSeq(m, 2, 2)
    BY <2>1, <2>2 DEF RecvOids
  <2>4. q.hashes \in Seq(Templates) /\ Len(q.hashes) = 1
    BY <1>6 DEF Request
  <2>5. SubSeq(m, 2, 2) = q.hashes
    BY <2>1, <2>4, <1>4
  <2> QED BY <1>6, <2>1, <2>3, <2>5, <1>4, <1>5
<1>7. CASE q.cmd = "firstIdMulti"
  <2>1. Len(m) = 2 + h /\ m[1] = 4 /\ \A i \in 1 .. h : m[2 + i] = q.hashes[i]
    BY <1>7, <1>1, <1>2 DEF Shape
  <2>2. RecvOids(m) = SubSeq(m, 3, 2 + h)
    BY <2>1 DEF RecvOids
  <2>3. q.hashes \in Seq(Templates)
    BY DEF Request
  <2>4. SubSeq(m, 3, 2 + h) = q.hashes
    BY <2>1, <2>3, <1>2, <1>4
  <2> QED BY <1>7, <2>1, <2>2, <2>4, <1>4, <1>5 DEF CmdCode
<1>8. CASE q.cmd = "minIds"
  <2>1. Len(m) = 2 + n /\ m[1] = 5 /\ \A i \in 1 .. n : m[2 + i] = q.ids[i]
    BY <1>8, <1>1, <1>3 DEF Shape
  <2>2. RecvOids(m) = <<>> /\ RecvIds(m) = SubSeq(m, 3, 2 + n)
    BY <2>1 DEF RecvOids, RecvIds
  <2>3. q.ids \in Seq(Ids)
    BY DEF Request
  <2>4. SubSeq(m, 3, 2 + n) = q.ids
    BY <2>1, <2>3, <1>3, <1>4
  <2> QED BY <1>8, <2>1, <2>2, <2>4, <1>4, <1>5 DEF CmdCode
<1>9. CASE q.cmd = "involved"
  <2>1. /\ Len(m) = 3 + h + n /\ m[1] = 6 /\ m[2] = h
        /\ \A i \in 1 .. h : m[2 + i] = q.hashes[i]
        /\ \A i \in 1 .. n : m[3 + h + i] = q.ids[i]
    BY <1>9, <1>1, <1>2, <1>3 DEF Shape
  <2>2. RecvOids(m) = SubSeq(m, 3, 2 + h) /\ RecvIds(m) = SubSeq(m, 4 + h, 3 + h + n)
    BY <2>1 DEF RecvOids, RecvIds
  <2>3. q.ids \in Seq(Ids) /\ q.hashes \in Seq(Templates)
    BY DEF Request
  <2>4. SubSeq(m, 3, 2 + h) = q.hashes
    BY <2>1, <2>3, <1>2, <1>4
  <2>5. SubSeq(m, 4 + h, 3 + h + n) = q.ids
    <3>1. PICK k \in Nat : k = 3 + h
      OBVIOUS
    <3>2. PICK t \in Seq(Ids) : t = q.ids
      BY <2>3
    <3>3. SubSeq(m, k + 1, k + n) = t
      <4>1. Len(m) = k + n /\ \A i \in 1 .. n : m[k + i] = t[i]
        BY <3>1, <3>2, <2>1
      <4>2. n = Len(t) /\ m \in Seq(Word)
        BY <3>2, <1>3, <1>4
      <4> QED BY <4>1, <4>2, LastPart
    <3>4. k + 1 = 4 + h /\ k + n = 3 + h + n
      BY <3>1
    <3> QED BY <3>2, <3>3, <3>4
  <2> QED BY <1>9, <2>1, <2>2, <2>4, <2>5, <1>4, <1>5 DEF CmdCode
<1> QED BY <1>6, <1>7, <1>8, <1>9 DEF Request

\* a is what the answer of r brings on the wire, to the word.
Fits(r, a) == a \in Seq(Int) /\ Expects(r, a) /\ Consumed(r, a) = Len(a)

\* A vector of numbers fits the two calls that read one.
LEMMA VectorFits ==
  ASSUME NEW r, r.cmd \in {"minIdArray", "involved"}, NEW v \in Seq(Int)
  PROVE  Fits(r, SendLongVector(v)) /\ Received(r, SendLongVector(v)) = v
<1>1. PICK n \in Nat : n = Len(v)
  OBVIOUS
<1>2. PICK a : a = SendLongVector(v)
  OBVIOUS
<1>3. a \in Seq(Int) /\ Len(a) = 1 + n /\ a[1] = n /\ \A i \in 1 .. n : a[1 + i] = v[i]
  BY <1>1, <1>2 DEF SendLongVector
<1>4. SubSeq(a, 2, 1 + n) = v
  BY <1>1, <1>3
<1>5. Expects(r, a) /\ Received(r, a) = SubSeq(a, 2, 1 + n)
  <2>1. a # <<>> /\ Len(a) >= 1 + a[1]
    BY <1>3
  <2>2. Expects(r, a) <=> a # <<>> /\ Len(a) >= 1 + a[1]
    BY Zenon DEF Expects
  <2>3. Received(r, a) = SubSeq(a, 2, 1 + a[1])
    BY Zenon DEF Received
  <2> QED BY <2>1, <2>2, <2>3, <1>3
<1>6. Consumed(r, a) = 1 + n
  BY <1>1, <1>4, <1>5 DEF Consumed
<1> QED BY <1>2, <1>3, <1>4, <1>5, <1>6 DEF Fits

\* The buffer of the handler that has the whole message of q, and answers it, is the answer of q.
LEMMA AnswersMessage ==
  ASSUME NEW q, Request(q), NEW m, m = Message(q), ~NotFound(m), \A t \in LookedUp(m) : Parses(t)
  PROVE  LET a == OutputBuffer(m) IN Fits(q, a) /\ Promise!IsAnswer(q, Received(q, a))
<1> DEFINE all == {q.hashes[i] : i \in 1 .. Len(q.hashes)}
           a == OutputBuffer(m)
<1>1. /\ m[1] = CmdCode[q.cmd] /\ Complete(m) /\ m # <<>>
      /\ q.cmd # "minIds" => RecvOids(m) = q.hashes
      /\ q.cmd = "minIds" => RecvOids(m) = <<>>
      /\ q.cmd \in {"minIds", "involved"} => RecvIds(m) = q.ids
  BY Parsed
<1>2. q.cmd # "minIds" => LookedUp(m) = all
  BY <1>1 DEF LookedUp
<1>3. PICK h \in Nat : h = Len(q.hashes)
  BY Lengths
<1>4. PICK n \in Nat : n = Len(q.ids)
  BY Lengths
<1>5. q.hashes \in Seq(Templates) /\ q.ids \in Seq(Ids) /\ Ids \subseteq Nat /\ MinId \in [Ids -> Ids]
  BY ProtocolAssumption DEF Request
<1>6. q.cmd # "minIds" => all \subseteq Recorded
  BY <1>2 DEF Parses, do_GET
<1>7. q.cmd \in {"minIdArray", "involved"} => \A t \in all : Promise!Numbered(t)
  <2>1. q.cmd \in {"minIdArray", "involved"} => m[1] \in {2, 6}
    BY <1>1 DEF CmdCode
  <2> QED BY <2>1, <1>2, <1>6 DEF NotFound, Promise!Numbered
<1>8. /\ First \in [Recorded -> Nat] /\ Count \in [Recorded -> Nat]
      /\ \A t \in Recorded : First[t] # 0 => First[t] .. First[t] + Count[t] - 1 \subseteq Ids
  BY ProtocolAssumption
<1> HIDE DEF a
<1>11. CASE q.cmd = "minIdArray"
  <2>1. PICK t : t = q.hashes[1]
    OBVIOUS
  <2>2. t \in all /\ t \in Recorded /\ Promise!Numbered(t) /\ First[t] # 0
    <3>0. Len(q.hashes) = 1
      BY <1>11 DEF Request
    <3>1. 1 \in 1 .. Len(q.hashes)
      BY <3>0
    <3> QED BY <3>1, <2>1, <1>6, <1>7, <1>11 DEF Promise!Numbered
  <2>3. a = SendLongVector(TphashMinIds(t))
    BY <2>1, <1>1, <1>11 DEF a, OutputBuffer, CmdCode
  <2>4. TphashMinIds(t) \in Seq(Int) /\ TphashMinIds(t) = Promise!MinIdsOf(t)
    <3>1. PICK f, l : f = First[t] /\ l = Count[t]
      OBVIOUS
    <3>2. f \in Nat /\ l \in Nat /\ f .. f + l - 1 \subseteq Ids
      BY <3>1, <2>2, <1>8
    <3>3. \A i \in 1 .. l : MinId[f + i - 1] \in Int
      <4>1. \A i \in 1 .. l : f + i - 1 \in f .. f + l - 1
        BY <3>2
      <4> QED BY <4>1, <3>2, <1>5
    <3>4. TphashMinIds(t) = [i \in 1 .. l |-> MinId[f + i - 1]]
      BY <3>1 DEF TphashMinIds
    <3>5. Promise!MinIdsOf(t) = [i \in 1 .. l |-> MinId[f + i - 1]]
      BY <3>1 DEF Promise!MinIdsOf
    <3> QED BY <3>2, <3>3, <3>4, <3>5
  <2>5. Fits(q, a) /\ Received(q, a) = TphashMinIds(t)
    BY <2>3, <2>4, <1>11, VectorFits
  <2> QED BY <2>1, <2>2, <2>4, <2>5, <1>11 DEF Promise!IsAnswer, a
<1>12. CASE q.cmd = "firstId"
  <2>1. PICK t : t = q.hashes[1]
    OBVIOUS
  <2>2. t \in Recorded /\ First[t] \in Int /\ Count[t] \in Int
    <3>0. Len(q.hashes) = 1
      BY <1>12 DEF Request
    <3>1. 1 \in 1 .. Len(q.hashes)
      BY <3>0
    <3> QED BY <3>1, <2>1, <1>6, <1>8, <1>12
  <2>3. a = <<First[t], Count[t]>>
    BY <2>1, <1>1, <1>12 DEF a, OutputBuffer, CmdCode
  <2>4. a \in Seq(Int) /\ Len(a) = 2 /\ SubSeq(a, 1, 2) = a
    <3>1. a \in Seq(Int) /\ Len(a) = 2
      BY <2>2, <2>3
    <3> QED BY <3>1
  <2>5. Received(q, a) = SubSeq(a, 1, 2) /\ Expects(q, a)
    BY <1>12, <2>4 DEF Received, Expects
  <2>6. Consumed(q, a) = Len(a)
    BY <1>12, <2>4, <2>5 DEF Consumed
  <2> QED BY <2>1, <2>3, <2>4, <2>5, <2>6, <1>6, <1>12 DEF Promise!IsAnswer, a, Fits
<1>13. CASE q.cmd = "firstIdMulti"
  <2>1. a = [k \in 1 .. 2 * h |-> IF k % 2 = 1 THEN First[q.hashes[(k + 1) \div 2]] ELSE Count[q.hashes[k \div 2]]]
    BY <1>1, <1>3, <1>13 DEF a, OutputBuffer, CmdCode
  <2>2. \A i \in 1 .. h : First[q.hashes[i]] \in Int /\ Count[q.hashes[i]] \in Int
    BY <1>3, <1>6, <1>8, <1>13
  <2>3. \A k \in 1 .. 2 * h : (k % 2 = 1 => (k + 1) \div 2 \in 1 .. h) /\ (k % 2 # 1 => k \div 2 \in 1 .. h)
    OBVIOUS
  <2>4. a \in Seq(Int) /\ Len(a) = 2 * h
    BY <2>1, <2>2, <2>3
  <2>5. \A i \in 1 .. h : a[2 * i - 1] = First[q.hashes[i]] /\ a[2 * i] = Count[q.hashes[i]]
    <3> SUFFICES ASSUME NEW i \in 1 .. h PROVE a[2 * i - 1] = First[q.hashes[i]] /\ a[2 * i] = Count[q.hashes[i]]
      OBVIOUS
    <3>1. /\ 2 * i - 1 \in 1 .. 2 * h /\ (2 * i - 1) % 2 = 1 /\ ((2 * i - 1) + 1) \div 2 = i
          /\ 2 * i \in 1 .. 2 * h /\ (2 * i) % 2 # 1 /\ (2 * i) \div 2 = i
      OBVIOUS
    <3> QED BY <2>1, <3>1
  <2>6. SubSeq(a, 1, 2 * h) = a
    BY <2>4
  <2>7. Received(q, a) = a /\ Expects(q, a)
    BY <1>13, <2>4, <2>6, <1>3 DEF Received, Expects
  <2>8. Consumed(q, a) = Len(a)
    BY <1>13, <2>4, <2>7 DEF Consumed
  <2> QED BY <2>4, <2>5, <2>7, <2>8, <1>3, <1>6, <1>13 DEF Promise!IsAnswer, a, Fits
<1>14. CASE q.cmd = "minIds"
  <2>1. a = [i \in 1 .. n |-> MinId[q.ids[i]]]
    BY <1>1, <1>4, <1>14 DEF a, OutputBuffer, CmdCode, PlainMinIds
  <2>2. a \in Seq(Int) /\ Len(a) = n
    <3>1. ASSUME NEW i \in 1 .. n PROVE MinId[q.ids[i]] \in Int
      <4>1. q.ids[i] \in Ids
        BY <1>4, <1>5
      <4> QED BY <4>1, <1>5
    <3> HIDE DEF a
    <3> QED BY <2>1, <3>1
  <2>3. SubSeq(a, 1, n) = a
    BY <2>2
  <2>4. Received(q, a) = a /\ Expects(q, a)
    BY <1>14, <2>2, <2>3, <1>4 DEF Received, Expects
  <2>5. Consumed(q, a) = Len(a)
    BY <1>14, <2>2, <2>4 DEF Consumed
  <2> QED BY <2>1, <2>2, <2>4, <2>5, <1>4, <1>14 DEF Promise!IsAnswer, a, Fits
<1>15. CASE q.cmd = "involved"
  <2>1. PICK v : v = InvolvedByMinIds(q.hashes, q.ids)
    OBVIOUS
  <2>2. Ascending(v, Promise!InvolvedIndices(q))
    BY <2>1, <1>7, <1>15, InvolvedAscends
  <2>3. a = SendLongVector(v)
    BY <2>1, <1>1, <1>15 DEF a, OutputBuffer, CmdCode
  <2>4. v \in Seq(Int)
    BY <2>2 DEF Ascending
  <2>5. Fits(q, a) /\ Received(q, a) = v
    BY <2>3, <2>4, <1>15, VectorFits
  <2> QED BY <2>2, <2>5, <1>7, <1>15 DEF Promise!IsAnswer, a, Ascending
<1> QED BY <1>11, <1>12, <1>13, <1>14, <1>15 DEF Request

(* ------------------------------ what is under way ------------------- *)

\* v is the answer for the request r, or for one that resembles it when its IDs were torn; the
\* words a bring one.
Answers(r, t, v) == \E q \in IF t THEN Promise!Resembling(r) ELSE {r} : Promise!IsAnswer(q, v)
Owed(r, t, a) == Fits(r, a) /\ Answers(r, t, Received(r, a))

\* What is under way to the client (d) and still to be written by the child (o): nothing; the code
\* and the answer; the answer; an error; a code whose answer was lost with the child.
Quiet(d, o) == d = <<>> /\ o \in {<<>>, <<<<>>>>}
Coded(r, t, d, o) == \E a : /\ Owed(r, t, a)
                            /\ \/ o = <<<<0>>, a>> /\ d = <<>>
                               \/ o = <<a>> /\ d = <<0>>
                               \/ o = <<>> /\ d = <<0>> \o a
Bare(r, t, d, o) == \E a : /\ Owed(r, t, a)
                           /\ \/ o = <<a>> /\ d = <<>>
                              \/ o = <<>> /\ d = a
Error(d, o) == \E e \in {1, 2} : \/ o = <<<<e>>>> /\ d = <<>>
                                 \/ o = <<>> /\ d = <<e>>
Cut(d, o) == o = <<>> /\ d = <<0>>

\* u, not served yet, is what was written of the message of r: all but the words `rest`, and the
\* first w of them.
Sending(r, t, rest, w, u) ==
  /\ Len(u) = Len(Message(r)) - Len(rest) + w
  /\ Arrived(r, u)
  /\ ~t => u = SubSeq(Message(r), 1, Len(Message(r)) - Len(rest))

\* The words that are left to write are the last of the message; a write that came back early was
\* one of the list of IDs.
Left(r, t, rest, w) ==
  /\ Len(rest) <= Len(Message(r))
  /\ rest = SubSeq(Message(r), Len(Message(r)) - Len(rest) + 1, Len(Message(r)))
  /\ w # 0 => t /\ IdsOf(r) = Len(rest) /\ w < Len(rest)
  /\ t => Len(rest) <= IdsOf(r)

\* A connection whose child serves, and one whose child is over or about to close it.
LiveShape(s, r, t, rest, w, u, d, o) ==
  CASE s = "idle" -> Quiet(d, o) /\ u = <<>>
    [] s = "send" -> Quiet(d, o) /\ Sending(r, t, rest, w, u)
    [] s = "code" -> \/ Quiet(d, o) /\ Sending(r, t, rest, w, u)
                     \/ Coded(r, t, d, o) /\ u = <<>>
    [] s = "data" -> Bare(r, t, d, o) /\ u = <<>>
EndShape(s, r, t, d, o) ==
  CASE s = "idle" -> Quiet(d, o)
    [] s = "send" -> Quiet(d, o) \/ Error(d, o)
    [] s = "code" -> Quiet(d, o) \/ Error(d, o) \/ Coded(r, t, d, o) \/ Cut(d, o)
    [] s = "data" -> Quiet(d, o) \/ Bare(r, t, d, o)

Busy == {"idle", "send", "code", "data"}

\* When the child ends, what it has not written is lost.
LEMMA ShapeAtEnd ==
  ASSUME NEW s \in Busy, NEW r, NEW t, NEW rest, NEW w, NEW u, NEW d, NEW o,
         LiveShape(s, r, t, rest, w, u, d, o) \/ EndShape(s, r, t, d, o)
  PROVE  EndShape(s, r, t, d, <<>>)
<1>1. Quiet(d, o) => Quiet(d, <<>>)
  BY DEF Quiet
<1>2. Error(d, o) => Quiet(d, <<>>) \/ Error(d, <<>>)
  BY DEF Quiet, Error
<1>3. Coded(r, t, d, o) => Quiet(d, <<>>) \/ Cut(d, <<>>) \/ Coded(r, t, d, <<>>)
  BY DEF Quiet, Coded, Cut
<1>4. Bare(r, t, d, o) => Quiet(d, <<>>) \/ Bare(r, t, d, <<>>)
  BY DEF Quiet, Bare
<1>5. Cut(d, o) => Cut(d, <<>>)
  BY DEF Cut
<1> QED BY <1>1, <1>2, <1>3, <1>4, <1>5 DEF LiveShape, EndShape, Busy

\* A write of the child keeps both shapes.
LEMMA ShapeAfterWrite ==
  ASSUME NEW s \in Busy, NEW r, NEW t, NEW rest, NEW w, NEW u, NEW d, NEW o, o # <<>>
  PROVE  /\ LiveShape(s, r, t, rest, w, u, d, o) => LiveShape(s, r, t, rest, w, u, d \o Head(o), Tail(o))
         /\ EndShape(s, r, t, d, o) => EndShape(s, r, t, d \o Head(o), Tail(o))
<1>0. \A a : Owed(r, t, a) => a \in Seq(Int)
  BY DEF Owed, Fits
<1>1. Quiet(d, o) => Quiet(d \o Head(o), Tail(o))
  <2> SUFFICES ASSUME d = <<>>, o = <<<<>>>> PROVE d \o Head(o) = <<>> /\ Tail(o) = <<>>
    BY DEF Quiet
  <2>1. Head(o) = <<>> /\ Tail(o) = <<>>
    OBVIOUS
  <2>2. <<>> \o <<>> = <<>>
    OBVIOUS
  <2> QED BY <2>1, <2>2
<1>2. Error(d, o) => Error(d \o Head(o), Tail(o))
  <2> SUFFICES ASSUME NEW e \in {1, 2}, o = <<<<e>>>>, d = <<>>
               PROVE  Tail(o) = <<>> /\ d \o Head(o) = <<e>>
    BY DEF Error
  <2> QED OBVIOUS
<1>3. Coded(r, t, d, o) => Coded(r, t, d \o Head(o), Tail(o))
  <2> SUFFICES ASSUME NEW a, Owed(r, t, a),
                      \/ o = <<<< 0 >>, a>> /\ d = <<>>
                      \/ o = <<a>> /\ d = << 0 >>
               PROVE  \/ Tail(o) = <<a>> /\ d \o Head(o) = << 0 >>
                      \/ Tail(o) = <<>> /\ d \o Head(o) = << 0 >> \o a
    BY DEF Coded
  <2>1. CASE o = <<<<0>>, a>> /\ d = <<>>
    BY <2>1
  <2>2. CASE o = <<a>> /\ d = <<0>>
    BY <2>2
  <2> QED BY <2>1, <2>2
<1>4. Bare(r, t, d, o) => Bare(r, t, d \o Head(o), Tail(o))
  <2> SUFFICES ASSUME NEW a, Owed(r, t, a), o = <<a>>, d = <<>>
               PROVE  Tail(o) = <<>> /\ d \o Head(o) = a
    BY DEF Bare
  <2> QED BY <1>0
<1>5. ~Cut(d, o)
  BY DEF Cut
<1> QED BY <1>1, <1>2, <1>3, <1>4, <1>5 DEF LiveShape, EndShape, Busy

\* The client reads the code.
LEMMA ShapeAfterCode ==
  ASSUME NEW r, NEW t, NEW rest, NEW w, NEW u, NEW d, NEW o, d # <<>>,
         NEW s, s = IF Head(d) = 0 THEN "data" ELSE "idle"
  PROVE  /\ LiveShape("code", r, t, rest, w, u, d, o) => LiveShape(s, r, t, rest, w, u, Tail(d), o)
         /\ EndShape("code", r, t, d, o) => EndShape(s, r, t, Tail(d), o)
<1>0. \A a : Owed(r, t, a) => a \in Seq(Int)
  BY DEF Owed, Fits
<1>1. ~Quiet(d, o)
  BY DEF Quiet
<1>2. Error(d, o) => Head(d) # 0 /\ Quiet(Tail(d), o)
  <2> SUFFICES ASSUME NEW e \in {1, 2}, o = <<>>, d = <<e>>
               PROVE  Head(d) # 0 /\ Tail(d) = <<>>
    BY DEF Error, Quiet
  <2> QED OBVIOUS
<1>3. Coded(r, t, d, o) => Head(d) = 0 /\ Bare(r, t, Tail(d), o)
  <2> SUFFICES ASSUME NEW a, Owed(r, t, a),
                      \/ o = <<a>> /\ d = << 0 >>
                      \/ o = <<>> /\ d = << 0 >> \o a
               PROVE  Head(d) = 0 /\ (\/ o = <<a>> /\ Tail(d) = <<>>
                                      \/ o = <<>> /\ Tail(d) = a)
    BY DEF Coded, Bare
  <2>1. a \in Seq(Int)
    BY <1>0
  <2>2. CASE o = <<a>> /\ d = <<0>>
    BY <2>2
  <2>3. CASE o = <<>> /\ d = <<0>> \o a
    BY <2>1, <2>3
  <2> QED BY <2>2, <2>3
<1>4. Cut(d, o) => Head(d) = 0 /\ Quiet(Tail(d), o)
  BY DEF Cut, Quiet
<1> QED BY <1>1, <1>2, <1>3, <1>4 DEF LiveShape, EndShape

\* When no word is expected, the answer is empty.
LEMMA EmptyAnswer ==
  ASSUME NEW r, Request(r), Expects(r, <<>>)
  PROVE  /\ \A a : Fits(r, a) => a = <<>>
         /\ Fits(r, <<>>) /\ Received(r, <<>>) = <<>> /\ Promise!IsAnswer(r, <<>>)
<1>1. PICK h \in Nat : h = Len(r.hashes)
  BY Lengths
<1>2. PICK n \in Nat : n = Len(r.ids)
  BY Lengths
<1>3. Len(<<>>) = 0
  OBVIOUS
<1>4. r.cmd \in {"firstIdMulti", "minIds"}
  <2>1. CASE r.cmd \in {"minIdArray", "involved"}
    <3>1. Expects(r, <<>>) => <<>> # <<>>
      BY <2>1, Zenon DEF Expects
    <3> QED BY <3>1
  <2>2. CASE r.cmd = "firstId"
    BY <1>3, <2>2 DEF Expects
  <2> QED BY <2>1, <2>2 DEF Request
<1>5. CASE r.cmd = "firstIdMulti"
  <2>1. h = 0
    BY <1>1, <1>3, <1>5 DEF Expects
  <2>2. \A a : Received(r, a) = SubSeq(a, 1, 0) /\ Consumed(r, a) = Len(Received(r, a)) + 0
    BY <2>1, <1>1, <1>5 DEF Received, Consumed
  <2>3. \A a : SubSeq(a, 1, 0) = <<>>
    BY SubSeqEmpty
  <2>4. ASSUME NEW a, Fits(r, a) PROVE a = <<>>
    <3>1. a \in Seq(Int) /\ Len(a) = 0
      BY <2>2, <2>3, <2>4, <1>3 DEF Fits
    <3> QED BY <3>1
  <2>5. Promise!IsAnswer(r, <<>>)
    BY <2>1, <1>1, <1>3, <1>5 DEF Promise!IsAnswer
  <2> QED BY <2>2, <2>3, <2>4, <2>5, <1>3 DEF Fits
<1>6. CASE r.cmd = "minIds"
  <2>1. n = 0
    BY <1>2, <1>3, <1>6 DEF Expects
  <2>2. \A a : Received(r, a) = SubSeq(a, 1, 0) /\ Consumed(r, a) = Len(Received(r, a)) + 0
    BY <2>1, <1>2, <1>6 DEF Received, Consumed
  <2>3. \A a : SubSeq(a, 1, 0) = <<>>
    BY SubSeqEmpty
  <2>4. ASSUME NEW a, Fits(r, a) PROVE a = <<>>
    <3>1. a \in Seq(Int) /\ Len(a) = 0
      BY <2>2, <2>3, <2>4, <1>3 DEF Fits
    <3> QED BY <3>1
  <2>5. Promise!IsAnswer(r, <<>>)
    <3>1. [i \in 1 .. n |-> MinId[r.ids[i]]] = <<>>
      BY <2>1
    <3> QED BY <3>1, <1>2, <1>6 DEF Promise!IsAnswer
  <2> QED BY <2>2, <2>3, <2>4, <2>5, <1>3 DEF Fits
<1> QED BY <1>4, <1>5, <1>6

\* The client has read an answer: it is the one it was owed, and nothing is left of it.
LEMMA ShapeAfterAnswer ==
  ASSUME NEW r, Request(r), NEW t \in BOOLEAN, NEW rest, NEW w, NEW u, NEW d, NEW o, Expects(r, d),
         LiveShape("data", r, t, rest, w, u, d, o) \/ EndShape("data", r, t, d, o),
         NEW e, e = SubSeq(d, Consumed(r, d) + 1, Len(d))
  PROVE  /\ Answers(r, t, Received(r, d))
         /\ LiveShape("data", r, t, rest, w, u, d, o) => LiveShape("idle", r, t, rest, w, u, e, o)
         /\ EndShape("data", r, t, d, o) => EndShape("idle", r, t, e, o)
<1>1. CASE Quiet(d, o)
  <2>1. d = <<>>
    BY <1>1 DEF Quiet
  <2>2. Received(r, d) = <<>> /\ Promise!IsAnswer(r, <<>>)
    BY <2>1, EmptyAnswer
  <2>3. e = <<>>
    BY <2>1, EmptyAnswer DEF Fits
  <2>4. Quiet(e, o)
    BY <2>3, <1>1 DEF Quiet
  <2>5. Answers(r, t, Received(r, d))
    BY <2>2, ResemblesItself DEF Answers
  <2> QED BY <2>4, <2>5 DEF LiveShape, EndShape
<1>2. CASE Bare(r, t, d, o)
  <2>1. PICK a : /\ Owed(r, t, a)
                 /\ \/ o = <<a>> /\ d = <<>>
                    \/ o = <<>> /\ d = a
    BY <1>2 DEF Bare
  <2>2. Fits(r, a)
    BY <2>1 DEF Owed
  <2>3. d = a
    BY <2>1, <2>2, EmptyAnswer
  <2>4. e = <<>>
    BY <2>2, <2>3 DEF Fits
  <2>5. Quiet(e, o)
    BY <2>1, <2>3, <2>4 DEF Quiet
  <2>6. Answers(r, t, Received(r, d))
    BY <2>1, <2>3 DEF Owed
  <2> QED BY <2>5, <2>6 DEF LiveShape, EndShape
<1> QED BY <1>1, <1>2 DEF LiveShape, EndShape

\* The last words of a message are its IDs.
LEMMA IdsLast ==
  ASSUME NEW r, Request(r)
  PROVE  \A i \in 1 .. Len(Message(r)) : i > Fixed(r) =>
           i - Fixed(r) \in 1 .. Len(r.ids) /\ Message(r)[i] = r.ids[i - Fixed(r)]
<1>1. PICK n \in Nat : n = Len(r.ids)
  BY Lengths
<1>2. PICK k \in Nat : k = Fixed(r)
  BY Lengths
<1>3. PICK h \in Nat : h = Len(r.hashes)
  BY Lengths
<1>4. PICK m : m = Message(r)
  OBVIOUS
<1>5. Shape(r, m)
  BY <1>4, MessageShape
<1>6. ASSUME NEW i \in 1 .. Len(m), i > k PROVE i - k \in 1 .. n /\ m[i] = r.ids[i - k]
  <2>1. CASE r.cmd = "minIds"
    <3>1. Len(m) = 2 + n /\ \A j \in 1 .. n : m[2 + j] = r.ids[j]
      BY <2>1, <1>5, <1>1 DEF Shape
    <3>2. IdsOf(r) = n
      BY <2>1, <1>1 DEF IdsOf
    <3>3. k = 2
      BY <3>1, <3>2, <1>2, <1>4 DEF Fixed
    <3>4. i - 2 \in 1 .. n /\ 2 + (i - 2) = i
      BY <3>1, <3>3, <1>6
    <3> QED BY <3>1, <3>3, <3>4
  <2>2. CASE r.cmd = "involved"
    <3>1. Len(m) = 3 + h + n /\ \A j \in 1 .. n : m[3 + h + j] = r.ids[j]
      BY <2>2, <1>5, <1>1, <1>3 DEF Shape
    <3>2. IdsOf(r) = n
      BY <2>2, <1>1 DEF IdsOf
    <3>3. k = (3 + h + n) - n
      BY <3>1, <3>2, <1>2, <1>4 DEF Fixed
    <3>4. k = 3 + h
      BY <3>3
    <3>5. i - (3 + h) \in 1 .. n /\ 3 + h + (i - (3 + h)) = i
      BY <3>1, <3>4, <1>6
    <3> QED BY <3>1, <3>4, <3>5
  <2>3. CASE r.cmd \notin {"minIds", "involved"}
    <3>1. Len(m) = k
      BY <2>3, <1>2, <1>4, Lengths DEF IdsOf
    <3> QED BY <3>1, <1>6
  <2> QED BY <2>1, <2>2, <2>3
<1> QED BY <1>1, <1>2, <1>4, <1>6

\* Nothing has arrived yet, and everything is left.
LEMMA ShapeAtBegin ==
  ASSUME NEW r, Request(r)
  PROVE  /\ Left(r, FALSE, Message(r), 0) /\ Sending(r, FALSE, Message(r), 0, <<>>)
         /\ Message(r) \in Seq(Word) /\ Message(r) # <<>>
<1>1. PICK m : m = Message(r)
  OBVIOUS
<1>2. m \in Seq(Word)
  BY <1>1, MessageShape DEF Shape
<1>3. PICK l \in Nat \ {0} : l = Len(m)
  BY <1>1, Lengths
<1>4. m = SubSeq(m, l - l + 1, l) /\ m # <<>>
  BY <1>2, <1>3
<1>5. SubSeq(m, 1, l - l) = <<>> /\ Len(<<>>) = 0
  BY <1>2, <1>3
<1>6. Arrived(r, <<>>)
  BY <1>1, <1>3, <1>5 DEF Arrived
<1> QED BY <1>1, <1>2, <1>3, <1>4, <1>5, <1>6 DEF Left, Sending

\* y is the part of m after a words, b words long.
Part(y, m, a, b) == y \in Seq(Word) /\ Len(y) = b /\ \A i \in 1 .. b : y[i] = m[a + i]

LEMMA PartOf ==
  ASSUME NEW m \in Seq(Word), NEW a \in Nat, NEW b \in Nat, NEW c \in Nat, a + b = c, c <= Len(m)
  PROVE  Part(SubSeq(m, a + 1, c), m, a, b)
<1>1. SubSeq(m, a + 1, c) \in Seq(Word) /\ Len(SubSeq(m, a + 1, c)) = b
  OBVIOUS
<1>2. ASSUME NEW i \in 1 .. b PROVE SubSeq(m, a + 1, c)[i] = m[a + i]
  OBVIOUS
<1> QED BY <1>1, <1>2, Zenon DEF Part

\* What is known of the words left, in terms of their numbers: k of l are left, j are IDs.
Numbers(r, t, rest, m, l, k, f, j) ==
  /\ m = Message(r) /\ m \in Seq(Word) /\ l = Len(m) /\ l \in Nat
  /\ k = Len(rest) /\ k \in Nat \ {0} /\ k <= l
  /\ f = Fixed(r) /\ f \in Nat /\ j = IdsOf(r) /\ j \in Nat /\ l = f + j
  /\ \A i \in 1 .. l : i > f => i - f \in 1 .. Len(r.ids) /\ m[i] = r.ids[i - f]
  /\ \A i \in 1 .. k : rest[i] = m[l - k + i]
  /\ t => k <= j

LEMMA HasNumbers ==
  ASSUME NEW r, Request(r), NEW t, NEW rest \in Seq(Word), rest # <<>>, NEW w, Left(r, t, rest, w)
  PROVE  \E m, l, k, f, j : Numbers(r, t, rest, m, l, k, f, j)
<1>1. PICK m : m = Message(r)
  OBVIOUS
<1>2. PICK l \in Nat : l = Len(m)
  BY <1>1, Lengths
<1>3. PICK k \in Nat \ {0} : k = Len(rest)
  BY EmptySeq
<1>4. PICK f \in Nat : f = Fixed(r)
  BY Lengths
<1>5. PICK j \in Nat : j = IdsOf(r)
  BY Lengths
<1>6. m \in Seq(Word)
  BY <1>1, MessageShape DEF Shape
<1>7. l = f + j
  BY <1>1, <1>2, <1>4, <1>5, Lengths
<1>8. \A i \in 1 .. l : i > f => i - f \in 1 .. Len(r.ids) /\ m[i] = r.ids[i - f]
  BY <1>1, <1>2, <1>4, IdsLast
<1>9. k <= l /\ rest = SubSeq(m, l - k + 1, l)
  BY <1>1, <1>2, <1>3 DEF Left
<1>10. \A i \in 1 .. k : rest[i] = m[l - k + i]
  BY <1>9, <1>6, <1>2
<1>11. t => k <= j
  BY <1>3, <1>5 DEF Left
<1>12. Numbers(r, t, rest, m, l, k, f, j)
  BY <1>1, <1>2, <1>3, <1>4, <1>5, <1>6, <1>7, <1>8, <1>9, <1>10, <1>11, Zenon DEF Numbers
<1> QED BY <1>12

\* Some words u arrived: l - k + w of them.
Came(r, t, m, u, l, k, w, f) ==
  /\ u \in Seq(Word) /\ Len(u) = l - k + w
  /\ \A i \in 1 .. l - k + w : IF i <= f THEN u[i] = m[i] ELSE \E x \in 1 .. Len(r.ids) : u[i] = r.ids[x]
  /\ ~t => u = SubSeq(m, 1, l - k)

LEMMA SendingMeans ==
  ASSUME NEW r, NEW t, NEW rest, NEW w \in Nat, NEW u, NEW m, NEW l \in Nat, NEW k \in Nat, NEW f \in Nat,
         m = Message(r), l = Len(m), k = Len(rest), f = Fixed(r), w <= k, k <= l
  PROVE  Sending(r, t, rest, w, u) <=> Came(r, t, m, u, l, k, w, f)
<1>1. Sending(r, t, rest, w, u) => Came(r, t, m, u, l, k, w, f)
  BY DEF Sending, Arrived, Came
<1>2. Came(r, t, m, u, l, k, w, f) => Sending(r, t, rest, w, u)
  BY DEF Sending, Arrived, Came
<1> QED BY <1>1, <1>2

\* What one write leaves: rest2 and w2, with t2 for whether a write came back early.
Wrote(r, t, rest, w, y, t2, rest2, w2) ==
  /\ y \in Seq(Word) /\ rest2 \in Seq(Word) /\ w2 \in Nat
  /\ Left(r, t2, rest2, w2)
  /\ \A u : Sending(r, t, rest, w, u) => Sending(r, t2, rest2, w2, u \o y)

\* A word that is written by itself.
LEMMA SendOne ==
  ASSUME NEW r, Request(r), NEW t \in BOOLEAN, NEW rest \in Seq(Word), rest # <<>>, Left(r, t, rest, 0),
         Len(rest) # IdsOf(r)
  PROVE  /\ Tail(rest) \in Seq(Word) /\ Left(r, t, Tail(rest), 0)
         /\ \A u : Sending(r, t, rest, 0, u) => Sending(r, t, Tail(rest), 0, u \o <<rest[1]>>)
<1>1. PICK m, l, k, f, j : Numbers(r, t, rest, m, l, k, f, j)
  BY HasNumbers
<1>2. m = Message(r) /\ f = Fixed(r) /\ j = IdsOf(r)
  BY <1>1, Zenon DEF Numbers
<1>3. m \in Seq(Word) /\ l = Len(m) /\ k = Len(rest)
  BY <1>1, Zenon DEF Numbers
<1>4. l \in Nat /\ k \in Nat \ {0} /\ k <= l /\ f \in Nat /\ j \in Nat /\ l = f + j /\ (t => k <= j)
  BY <1>1, Zenon DEF Numbers
<1>5. \A i \in 1 .. l : i > f => i - f \in 1 .. Len(r.ids) /\ m[i] = r.ids[i - f]
  BY <1>1, Zenon DEF Numbers
<1>6. \A i \in 1 .. k : rest[i] = m[l - k + i]
  BY <1>1, Zenon DEF Numbers
<1>7. PICK p \in Nat : p = l - k
  BY <1>4
<1>8. PICK g \in Nat : g = k - 1
  BY <1>4
<1>9. l = p + 1 + g /\ k = g + 1 /\ l - k = p /\ l - g = p + 1
  BY <1>4, <1>7, <1>8
<1>10. PICK b : b = Tail(rest)
  OBVIOUS
<1>11. b \in Seq(Word) /\ Len(b) = g /\ \A i \in 1 .. g : b[i] = rest[i + 1]
  <2>1. rest # <<>>
    OBVIOUS
  <2>2. b \in Seq(Word) /\ Len(b) = Len(rest) - 1 /\ \A i \in 1 .. Len(b) : b[i] = rest[i + 1]
    BY <2>1, <1>10, HeadTailProperties, Zenon
  <2>3. Len(b) = g
    BY <2>2, <1>3, <1>9
  <2> QED BY <2>2, <2>3, Zenon
<1>12. rest[1] = m[p + 1] /\ rest[1] \in Word /\ \A i \in 1 .. g : b[i] = m[p + 1 + i]
  <2>1. rest[1] = m[p + 1] /\ rest[1] \in Word
    BY <1>3, <1>6, <1>9
  <2>2. ASSUME NEW i \in 1 .. g PROVE b[i] = m[p + 1 + i]
    <3>1. b[i] = rest[i + 1]
      BY <1>11
    <3>2. i + 1 \in 1 .. k /\ p + (i + 1) = p + 1 + i
      BY <1>9
    <3>3. rest[i + 1] = m[p + (i + 1)]
      BY <3>2, <1>6, <1>9
    <3> QED BY <3>1, <3>2, <3>3
  <2> QED BY <2>1, <2>2
<1>13. b = SubSeq(m, p + 1 + 1, l)
  <2>1. PICK y : y = SubSeq(m, p + 1 + 1, l)
    OBVIOUS
  <2>2. y \in Seq(Word) /\ Len(y) = g /\ \A i \in 1 .. g : y[i] = m[p + 1 + i]
    <3>1. p + 1 \in Nat /\ (p + 1) + g = l /\ l \in Nat /\ l <= Len(m)
      BY <1>3, <1>4, <1>9
    <3>2. Part(y, m, p + 1, g)
      BY <2>1, <3>1, <1>3, PartOf
    <3> QED BY <3>2, Zenon DEF Part
  <2>3. b = y
    BY <2>2, <1>11, <1>12, SeqEqual
  <2> QED BY <2>1, <2>3
<1>14. Left(r, t, b, 0)
  <2>1. t => g <= j
    BY <1>4, <1>8
  <2>2. g <= l /\ l - g + 1 = p + 1 + 1
    BY <1>9
  <2> QED BY <2>1, <2>2, <1>2, <1>3, <1>11, <1>13 DEF Left
<1>15. ASSUME NEW u, Came(r, t, m, u, l, k, 0, f) PROVE Came(r, t, m, u \o <<rest[1]>>, l, g, 0, f)
  <2>0. l - k + 0 = p
    BY <1>9
  <2>1. /\ u \in Seq(Word) /\ Len(u) = p
        /\ \A i \in 1 .. p : IF i <= f THEN u[i] = m[i] ELSE \E x \in 1 .. Len(r.ids) : u[i] = r.ids[x]
        /\ ~t => u = SubSeq(m, 1, p)
    BY <1>15, <1>9, <2>0 DEF Came
  <2>2. PICK v : v = u \o <<rest[1]>>
    OBVIOUS
  <2>3. v \in Seq(Word) /\ Len(v) = p + 1 /\ v[p + 1] = m[p + 1] /\ \A i \in 1 .. p : v[i] = u[i]
    BY <2>1, <2>2, <1>12
  <2>4. ASSUME NEW i \in 1 .. p + 1
        PROVE  IF i <= f THEN v[i] = m[i] ELSE \E x \in 1 .. Len(r.ids) : v[i] = r.ids[x]
    <3>1. CASE i \in 1 .. p
      BY <3>1, <2>1, <2>3
    <3>2. CASE i = p + 1
      <4>1. i \in 1 .. l /\ v[i] = m[i]
        BY <3>2, <2>3, <1>9
      <4>2. i > f => i - f \in 1 .. Len(r.ids) /\ m[i] = r.ids[i - f]
        BY <4>1, <1>5
      <4> QED BY <4>1, <4>2, <1>4
    <3> QED BY <3>1, <3>2
  <2>5. ASSUME ~t PROVE v = SubSeq(m, 1, p + 1)
    <3>1. PICK y : y = SubSeq(m, 1, p + 1)
      OBVIOUS
    <3>2. y \in Seq(Word) /\ Len(y) = p + 1 /\ \A i \in 1 .. p + 1 : y[i] = m[i]
      <4>1. 0 + (p + 1) = p + 1 /\ p + 1 \in Nat /\ p + 1 <= Len(m) /\ 0 + 1 = 1
        BY <1>3, <1>9
      <4>2. Part(SubSeq(m, 0 + 1, p + 1), m, 0, p + 1)
        BY <4>1, <1>3, PartOf
      <4> QED BY <3>1, <4>1, <4>2 DEF Part
    <3>3. \A i \in 1 .. p : u[i] = m[i]
      BY <2>1, <2>5, <1>3, <1>9
    <3>4. \A i \in 1 .. p + 1 : v[i] = y[i]
      BY <3>2, <3>3, <2>3
    <3>5. v = y
      BY <3>2, <3>4, <2>3, SeqEqual
    <3> QED BY <3>1, <3>5
  <2>6. l - g + 0 = p + 1
    BY <1>9
  <2> QED BY <2>2, <2>3, <2>4, <2>5, <2>6, <1>9 DEF Came
<1>16. ASSUME NEW u, Sending(r, t, rest, 0, u) PROVE Sending(r, t, b, 0, u \o <<rest[1]>>)
  <2>1. 0 \in Nat /\ 0 <= k /\ 0 <= g /\ g <= l /\ k <= l
    BY <1>4, <1>9
  <2>2. Came(r, t, m, u, l, k, 0, f)
    BY <1>2, <1>3, <1>4, <1>16, <2>1, SendingMeans
  <2>3. Came(r, t, m, u \o <<rest[1]>>, l, g, 0, f)
    BY <1>15, <2>2
  <2> QED BY <1>2, <1>3, <1>4, <1>11, <2>1, <2>3, SendingMeans
<1> QED BY <1>10, <1>11, <1>14, <1>16

\* n words of the list of IDs, which one write sends, after w words of earlier attempts.
LEMMA SendIds ==
  ASSUME NEW r, Request(r), NEW t \in BOOLEAN, NEW rest \in Seq(Word), rest # <<>>,
         NEW w \in Nat, NEW n \in Nat \ {0}, Left(r, t, rest, w), w + n <= Len(rest),
         Len(rest) = IdsOf(r)
  PROVE  /\ w + n < Len(rest) => Wrote(r, t, rest, w, SubSeq(rest, 1, n), TRUE, rest, w + n)
         /\ w + n = Len(rest) => \A t2 \in BOOLEAN : (t2 <=> t \/ n < Len(rest)) =>
                                   Wrote(r, t, rest, w, SubSeq(rest, 1, n), t2, <<>>, 0)
<1>1. PICK m, l, k, f, j : Numbers(r, t, rest, m, l, k, f, j)
  BY HasNumbers
<1>2. m = Message(r) /\ f = Fixed(r) /\ j = IdsOf(r)
  BY <1>1, Zenon DEF Numbers
<1>3. m \in Seq(Word) /\ l = Len(m) /\ k = Len(rest)
  BY <1>1, Zenon DEF Numbers
<1>4. l \in Nat /\ k \in Nat \ {0} /\ k <= l /\ f \in Nat /\ j \in Nat /\ l = f + j
  BY <1>1, Zenon DEF Numbers
<1>5. \A i \in 1 .. l : i > f => i - f \in 1 .. Len(r.ids) /\ m[i] = r.ids[i - f]
  BY <1>1, Zenon DEF Numbers
<1>6. \A i \in 1 .. k : rest[i] = m[l - k + i]
  BY <1>1, Zenon DEF Numbers
<1>7. k = j /\ l = f + k /\ l - k = f /\ w + n <= k
  BY <1>2, <1>3, <1>4
<1>8. PICK y : y = SubSeq(rest, 1, n)
  OBVIOUS
<1>9. y \in Seq(Word) /\ Len(y) = n /\ \A i \in 1 .. n : y[i] = m[f + i]
  <2>1. Part(SubSeq(rest, 0 + 1, n), rest, 0, n)
    <3>1. 0 + n = n /\ n <= Len(rest)
      BY <1>3, <1>7
    <3> QED BY <3>1, PartOf
  <2>2. y \in Seq(Word) /\ Len(y) = n /\ \A i \in 1 .. n : y[i] = rest[i]
    BY <2>1, <1>8 DEF Part
  <2>3. ASSUME NEW i \in 1 .. n PROVE y[i] = m[f + i]
    <3>1. i \in 1 .. k
      BY <1>4, <1>7
    <3>2. rest[i] = m[l - k + i]
      BY <3>1, <1>6
    <3> QED BY <2>2, <3>2, <1>7
  <2> QED BY <2>2, <2>3
<1>10. rest = SubSeq(m, l - k + 1, l)
  BY <1>2, <1>3 DEF Left
<1>11. ASSUME NEW u, Came(r, t, m, u, l, k, w, f)
       PROVE  /\ u \o y \in Seq(Word) /\ Len(u \o y) = f + w + n
              /\ \A i \in 1 .. f + w + n :
                   IF i <= f THEN (u \o y)[i] = m[i] ELSE \E x \in 1 .. Len(r.ids) : (u \o y)[i] = r.ids[x]
              /\ ~t /\ n = k => u \o y = m
  <2>1. /\ u \in Seq(Word) /\ Len(u) = f + w
        /\ \A i \in 1 .. f + w : IF i <= f THEN u[i] = m[i] ELSE \E x \in 1 .. Len(r.ids) : u[i] = r.ids[x]
        /\ ~t => u = SubSeq(m, 1, f)
    BY <1>11, <1>7 DEF Came
  <2>2. PICK v : v = u \o y
    OBVIOUS
  <2>3. PICK h \in Nat : h = f + w
    BY <1>4
  <2>4. /\ v \in Seq(Word) /\ Len(v) = h + n
        /\ \A i \in 1 .. h : v[i] = u[i]
        /\ \A i \in h + 1 .. h + n : v[i] = y[i - h]
    <3>1. /\ v \in Seq(Word) /\ Len(v) = Len(u) + Len(y)
          /\ \A i \in 1 .. Len(u) : v[i] = u[i]
          /\ \A i \in Len(u) + 1 .. Len(u) + Len(y) : v[i] = y[i - Len(u)]
      <4>1. u \in Seq(Word) /\ y \in Seq(Word)
        BY <2>1, <1>9
      <4>2. /\ u \o y \in Seq(Word) /\ Len(u \o y) = Len(u) + Len(y)
            /\ \A i \in 1 .. Len(u) : (u \o y)[i] = u[i]
            /\ \A i \in Len(u) + 1 .. Len(u) + Len(y) : (u \o y)[i] = y[i - Len(u)]
        BY <4>1, Joined, Zenon
      <4> QED BY <2>2, <4>2, Zenon
    <3>2. Len(u) = h /\ Len(y) = n
      BY <2>1, <2>3, <1>9
    <3> QED BY <3>1, <3>2
  <2>5. ASSUME NEW i \in 1 .. h + n
        PROVE  IF i <= f THEN v[i] = m[i] ELSE \E x \in 1 .. Len(r.ids) : v[i] = r.ids[x]
    <3>1. CASE i \in 1 .. h
      BY <3>1, <2>1, <2>3, <2>4
    <3>2. CASE i \notin 1 .. h
      <4>1. PICK x : x = i - h
        OBVIOUS
      <4>2. x \in 1 .. n /\ ~(i <= f) /\ i \in h + 1 .. h + n
        BY <4>1, <3>2, <2>3, <1>4
      <4>21. v[i] = y[x]
        BY <4>1, <4>2, <2>4
      <4>3. y[x] = m[f + x] /\ f + x \in 1 .. l /\ f + x > f
        BY <4>2, <1>9, <1>4, <1>7
      <4>4. PICK z : z = f + x
        OBVIOUS
      <4>5. z - f \in 1 .. Len(r.ids) /\ m[z] = r.ids[z - f]
        BY <4>3, <4>4, <1>5
      <4> QED BY <4>2, <4>21, <4>3, <4>4, <4>5
    <3> QED BY <3>1, <3>2
  <2>6. ASSUME ~t, n = k PROVE v = m
    <3>1. w = 0 /\ h = f /\ h + n = l
      BY <2>6, <2>3, <1>4, <1>7
    <3>2. \A i \in 1 .. f : u[i] = m[i]
      BY <2>1, <2>6
    <3>3. ASSUME NEW i \in 1 .. l PROVE v[i] = m[i]
      <4>1. CASE i \in 1 .. h
        BY <4>1, <3>1, <3>2, <2>4
      <4>2. CASE i \notin 1 .. h
        <5>1. i - h \in 1 .. n /\ i \in h + 1 .. h + n /\ f + (i - h) = i
          BY <4>2, <3>1, <1>4
        <5>2. v[i] = y[i - h] /\ y[i - h] = m[f + (i - h)]
          BY <5>1, <2>4, <1>9
        <5> QED BY <5>1, <5>2
      <4> QED BY <4>1, <4>2
    <3> QED BY <3>1, <3>3, <2>4, <1>3, SeqEqual
  <2> QED BY <2>2, <2>3, <2>4, <2>5, <2>6
<1>12. ASSUME NEW u, Sending(r, t, rest, w, u) PROVE Came(r, t, m, u, l, k, w, f)
  <2>1. w <= k
    BY <1>4, <1>7
  <2> QED BY <1>2, <1>3, <1>4, <1>12, <2>1, SendingMeans
<1>13. ASSUME w + n < k
       PROVE  /\ Left(r, TRUE, rest, w + n)
              /\ \A u : Sending(r, t, rest, w, u) => Sending(r, TRUE, rest, w + n, u \o y)
  <2>1. k <= j
    BY <1>4, <1>7
  <2>2. Left(r, TRUE, rest, w + n)
    BY <1>13, <2>1, <1>2, <1>3, <1>4, <1>7, <1>10 DEF Left
  <2>3. ASSUME NEW u, Sending(r, t, rest, w, u) PROVE Sending(r, TRUE, rest, w + n, u \o y)
    <3>1. Came(r, TRUE, m, u \o y, l, k, w + n, f)
      <4>1. l - k + (w + n) = f + w + n
        BY <1>4, <1>7
      <4>2. Came(r, t, m, u, l, k, w, f)
        BY <1>12, <2>3
      <4>3. PICK v : v = u \o y
        OBVIOUS
      <4>4. PICK g : g = f + w + n
        OBVIOUS
      <4>5. /\ v \in Seq(Word) /\ Len(v) = g
            /\ \A i \in 1 .. g : IF i <= f THEN v[i] = m[i] ELSE \E x \in 1 .. Len(r.ids) : v[i] = r.ids[x]
        <5>1. /\ u \o y \in Seq(Word) /\ Len(u \o y) = f + w + n
              /\ \A i \in 1 .. f + w + n :
                   IF i <= f THEN (u \o y)[i] = m[i] ELSE \E x \in 1 .. Len(r.ids) : (u \o y)[i] = r.ids[x]
          BY <4>2, <1>11, Zenon
        <5> QED BY <5>1, <4>3, <4>4, Zenon
      <4>6. Came(r, TRUE, m, v, l, k, w + n, f)
        BY <4>1, <4>4, <4>5, Zenon DEF Came
      <4> QED BY <4>3, <4>6, Zenon
    <3>2. w + n \in Nat /\ w + n <= k
      BY <1>7
    <3> QED BY <3>1, <3>2, <1>2, <1>3, <1>4, SendingMeans
  <2> QED BY <2>2, <2>3
<1>14. ASSUME w + n = k, NEW t2 \in BOOLEAN, t2 <=> t \/ n < k
       PROVE  /\ Left(r, t2, <<>>, 0)
              /\ \A u : Sending(r, t, rest, w, u) => Sending(r, t2, <<>>, 0, u \o y)
  <2>1. Len(<<>>) = 0
    OBVIOUS
  <2>2. Left(r, t2, <<>>, 0)
    <3>1. SubSeq(m, l - 0 + 1, l) = <<>>
      BY <1>4, SubSeqEmpty
    <3>2. Len(<<>>) <= Len(m) /\ <<>> = SubSeq(m, Len(m) - Len(<<>>) + 1, Len(m)) /\ Len(<<>>) <= j
      BY <2>1, <3>1, <1>3, <1>4
    <3> QED BY <3>2, <1>2, Zenon DEF Left
  <2>3. ASSUME NEW u, Sending(r, t, rest, w, u) PROVE Sending(r, t2, <<>>, 0, u \o y)
    <3>1. Came(r, t, m, u, l, k, w, f)
      BY <1>12, <2>3
    <3>2. l - 0 + 0 = f + w + n /\ l - 0 = l
      BY <1>14, <1>4, <1>7
    <3>3. SubSeq(m, 1, l) = m
      BY <1>3, SubSeqFull
    <3>4. ~t2 => u \o y = m
      <4>1. ~t2 => ~t /\ n = k
        BY <1>14, <1>4
      <4> QED BY <4>1, <3>1, <1>11
    <3>5. PICK v : v = u \o y
      OBVIOUS
    <3>6. PICK g \in Nat : g = l
      BY <1>4
    <3>7. v \in Seq(Word) /\ Len(v) = g
      <4>1. u \o y \in Seq(Word) /\ Len(u \o y) = f + w + n
        BY <3>1, <1>11, Zenon
      <4>2. g = f + w + n
        BY <3>2, <3>6, <1>4
      <4> QED BY <4>1, <4>2, <3>5, Zenon
    <3>8. \A i \in 1 .. g : IF i <= f THEN v[i] = m[i] ELSE \E x \in 1 .. Len(r.ids) : v[i] = r.ids[x]
      <4>1. g = f + w + n
        BY <3>2, <3>6, <1>4
      <4>2. \A i \in 1 .. f + w + n :
              IF i <= f THEN (u \o y)[i] = m[i] ELSE \E x \in 1 .. Len(r.ids) : (u \o y)[i] = r.ids[x]
        BY <3>1, <1>11, Zenon
      <4> QED BY <4>1, <4>2, <3>5, Zenon
    <3>9. Arrived(r, v)
      <4>1. Len(v) <= Len(m)
        BY <3>6, <3>7, <1>3
      <4> QED BY <4>1, <3>7, <3>8, <1>2 DEF Arrived
    <3>10. Len(v) = Len(m) - Len(<<>>) + 0 /\ Len(m) - Len(<<>>) = l
      BY <3>6, <3>7, <2>1, <1>3, <1>4
    <3>11. ~t2 => v = SubSeq(m, 1, Len(m) - Len(<<>>))
      BY <3>3, <3>4, <3>5, <3>10
    <3>12. Sending(r, t2, <<>>, 0, v)
      BY <3>9, <3>10, <3>11, <1>2, Zenon DEF Sending
    <3> QED BY <3>5, <3>12
  <2> QED BY <2>2, <2>3
<1>15. ASSUME w + n < k PROVE Wrote(r, t, rest, w, y, TRUE, rest, w + n)
  <2>1. w + n \in Nat
    OBVIOUS
  <2> QED BY <2>1, <1>9, <1>13, <1>15 DEF Wrote
<1>16. ASSUME w + n = k, NEW t2 \in BOOLEAN, t2 <=> t \/ n < k PROVE Wrote(r, t, rest, w, y, t2, <<>>, 0)
  <2>1. <<>> \in Seq(Word) /\ 0 \in Nat
    OBVIOUS
  <2> QED BY <2>1, <1>9, <1>14, <1>16 DEF Wrote
<1> QED BY <1>3, <1>8, <1>15, <1>16

\* The child has read i of a command, and p is under way to it: it answers only when everything
\* arrived, and the answer is the one for the request.
LEMMA ReadyToAnswer ==
  ASSUME NEW r, Request(r), NEW t \in BOOLEAN, NEW s \in Busy, NEW rest \in Seq(Word), NEW w \in Nat,
         s = "send" <=> rest # <<>>, s # "send" => w = 0, s = "send" => Left(r, t, rest, w),
         NEW i \in Seq(Word), NEW p \in Seq(Word), NEW d, i # <<>>,
         LiveShape(s, r, t, rest, w, i \o p, d, <<>>)
  PROVE  /\ s \in {"send", "code"} /\ d = <<>>
         /\ Complete(i) => /\ s = "code" /\ p = <<>> /\ i[1] \in 2 .. 6
                           /\ ~NotFound(i) /\ (\A x \in LookedUp(i) : Parses(x)) => Owed(r, t, OutputBuffer(i))
<1>1. PICK u : u = i \o p
  OBVIOUS
<1>2. u \in Seq(Word) /\ Len(u) = Len(i) + Len(p) /\ \A x \in 1 .. Len(i) : u[x] = i[x]
  BY <1>1
<1>3. Len(i) \in Nat \ {0} /\ Len(p) \in Nat
  BY EmptySeq
<1>4. u # <<>>
  BY <1>2, <1>3
<1>5. s \in {"send", "code"} /\ Quiet(d, <<>>) /\ Sending(r, t, rest, w, u)
  BY <1>1, <1>4 DEF LiveShape, Busy
<1>6. d = <<>>
  BY <1>5 DEF Quiet
<1>7. PICK l \in Nat : l = Len(Message(r))
  BY Lengths
<1>8. PICK k \in Nat : k = Len(rest)
  OBVIOUS
<1>9. Len(u) = l - k + w /\ Arrived(r, u) /\ (~t => u = SubSeq(Message(r), 1, l - k))
  BY <1>5, <1>7, <1>8 DEF Sending
<1>10. (k = 0 /\ w = 0 /\ s = "code") \/ (k > 0 /\ w < k)
  <2>1. CASE s = "send"
    <3>1. k > 0
      BY <2>1, <1>8, EmptySeq
    <3>2. w # 0 => w < k
      BY <2>1, <1>8 DEF Left
    <3> QED BY <3>1, <3>2
  <2>2. CASE s = "code"
    <3>1. rest = <<>> /\ w = 0
      BY <2>2
    <3> QED BY <3>1, <2>2, <1>8
  <2> QED BY <2>1, <2>2, <1>5
<1>11. Arrived(r, i)
  <2>1. \A x \in 1 .. Len(i) : x \in 1 .. Len(u)
    BY <1>2, <1>3
  <2>2. Len(i) <= Len(Message(r))
    BY <1>2, <1>3, <1>7, <1>9 DEF Arrived
  <2> QED BY <2>1, <2>2, <1>2, <1>9 DEF Arrived
<1>12. ASSUME Complete(i)
       PROVE  /\ s = "code" /\ p = <<>> /\ i[1] \in 2 .. 6
              /\ ~NotFound(i) /\ (\A x \in LookedUp(i) : Parses(x)) => Owed(r, t, OutputBuffer(i))
  <2>1. Len(i) = l
    BY <1>11, <1>12, <1>7, CompleteWhenAll
  <2>2. s = "code" /\ k = 0 /\ w = 0 /\ Len(p) = 0
    BY <2>1, <1>2, <1>3, <1>9, <1>10
  <2>3. p = <<>> /\ u = i
    BY <2>2, <1>1
  <2>4. ~t => i = Message(r)
    <3>1. Message(r) \in Seq(Word)
      BY MessageShape DEF Shape
    <3> QED BY <3>1, <2>2, <2>3, <1>7, <1>9, SubSeqFull
  <2>5. PICK q \in Promise!Resembling(r) :
          /\ Request(q) /\ q.cmd = r.cmd /\ q.hashes = r.hashes /\ Len(q.ids) = Len(r.ids) /\ i = Message(q)
          /\ ~t => q = r
    <3>1. CASE t
      BY <3>1, <2>1, <1>7, <1>11, AnotherList
    <3>2. CASE ~t
      BY <3>2, <2>4, ResemblesItself
    <3> QED BY <3>1, <3>2
  <2>6. i[1] \in 2 .. 6
    <3>1. i[1] = CmdCode[q.cmd]
      BY <2>5, Parsed
    <3>2. q.cmd \in {"minIdArray", "firstId", "firstIdMulti", "minIds", "involved"}
      BY <2>5, Zenon DEF Request
    <3>3. PICK x : x = q.cmd
      OBVIOUS
    <3>4. CmdCode[x] \in 2 .. 6
      BY <3>2, <3>3 DEF CmdCode
    <3> QED BY <3>1, <3>3, <3>4, Zenon
  <2>7. ASSUME ~NotFound(i), \A x \in LookedUp(i) : Parses(x) PROVE Owed(r, t, OutputBuffer(i))
    <3>1. PICK a : a = OutputBuffer(i)
      OBVIOUS
    <3>2. Fits(q, a) /\ Promise!IsAnswer(q, Received(q, a))
      BY <3>1, <2>5, <2>7, AnswersMessage
    <3>3. Received(q, a) = Received(r, a) /\ Consumed(q, a) = Consumed(r, a) /\ Expects(q, a) = Expects(r, a)
      BY <2>5 DEF Received, Consumed, Expects
    <3>4. Fits(r, a)
      BY <3>2, <3>3 DEF Fits
    <3>5. q \in IF t THEN Promise!Resembling(r) ELSE {r}
      BY <2>5
    <3>6. Owed(r, t, a)
      BY <3>2, <3>3, <3>4, <3>5 DEF Owed, Answers
    <3> QED BY <3>1, <3>6
  <2> QED BY <2>2, <2>3, <2>6, <2>7
<1> QED BY <1>5, <1>6, <1>12

(* ------------------------------ the invariant ----------------------- *)

\* The types that the proofs need besides TypeOK.
Types ==
  /\ client \in [Clients -> {"idle", "send", "code", "data", "gone"}]
  /\ sockfd \in [Clients -> BOOLEAN]
  /\ call \in [Clients -> Requests]
  /\ written \in [Clients -> Nat] /\ torn \in [Clients -> BOOLEAN]
  /\ parent \in {"up", "down", "childpid", "code"}
  /\ child \in [Clients -> {"none", "backlog", "serve", "flush", "exited"}]
  /\ closing \in [Clients -> BOOLEAN]
  /\ status \in [Clients -> {0, SIGABRT, SIGKILL, SIGPIPE}]
  /\ assertion \in [Clients -> {"none", "closeConnection", "sscanf"}]
  /\ keyOrder \in {"id_count", "first_id"}
  /\ todo \in [Clients -> Seq(Word)] /\ up \in [Clients -> Seq(Word)] /\ in \in [Clients -> Seq(Word)]
  /\ outcome = [c \in Clients |-> outcome[c]]
  /\ down = [c \in Clients |-> down[c]] /\ out = [c \in Clients |-> out[c]]

Live(c) == ~ServerClosed(c) /\ ~closing[c]

\* One connection: what is under way and what each side is about to do fit together.
Session(c) ==
  /\ client[c] # "gone"
  /\ IF Live(c)
     THEN LiveShape(client[c], call[c], torn[c], todo[c], written[c], Unserved(c), down[c], out[c])
     ELSE EndShape(client[c], call[c], torn[c], down[c], out[c])

ClientPart(c) ==
  /\ client[c] \in {"send", "code", "data"} => sockfd[c]
  /\ client[c] = "send" <=> todo[c] # <<>>
  /\ client[c] # "send" => written[c] = 0
  /\ client[c] = "send" => Left(call[c], torn[c], todo[c], written[c])
ChildPart(c) ==
  /\ child[c] # "exited" => status[c] = 0 /\ assertion[c] = "none"
  /\ child[c] \notin {"serve", "flush"} => in[c] = <<>>
  /\ child[c] # "flush" => out[c] = <<>> /\ ~closing[c]
Wire(c) == IF sockfd[c] THEN Session(c) ELSE down[c] = <<>>

Own(c) == ClientPart(c) /\ ChildPart(c) /\ Wire(c)
Inv == Types /\ \A c \in Clients : Own(c)

\* What a step leaves alone of a slot.
Kept(c) ==
  /\ client'[c] = client[c] /\ sockfd'[c] = sockfd[c] /\ call'[c] = call[c] /\ todo'[c] = todo[c]
  /\ written'[c] = written[c] /\ torn'[c] = torn[c] /\ up'[c] = up[c] /\ down'[c] = down[c]
  /\ child'[c] = child[c] /\ in'[c] = in[c] /\ out'[c] = out[c] /\ closing'[c] = closing[c]
  /\ status'[c] = status[c] /\ assertion'[c] = assertion[c]

LEMMA KeptSlot == ASSUME NEW c \in Clients, Own(c), Kept(c) PROVE Own(c)'
<1>1. ClientPart(c)'
  BY DEF Own, ClientPart, Kept
<1>2. ChildPart(c)'
  BY DEF Own, ChildPart, Kept
<1>3. Wire(c)'
  BY DEF Own, Wire, Session, Live, ServerClosed, Unserved, Kept
<1> QED BY <1>1, <1>2, <1>3 DEF Own

LEMMA OneSlot ==
  ASSUME Inv, NEW c \in Clients, Types', \A d \in Clients \ {c} : Kept(d), Own(c)'
  PROVE  Inv'
  BY KeptSlot DEF Inv

LEMMA InitInv == Init => Inv
<1> SUFFICES ASSUME Init PROVE Inv
  OBVIOUS
<1>1. (CHOOSE r \in Requests : TRUE) \in Requests
  BY ProtocolAssumption
<1>2. Types
  BY <1>1 DEF Init, Types
<1>3. ASSUME NEW c \in Clients PROVE Own(c)
  BY <1>3 DEF Init, Own, ClientPart, ChildPart, Wire
<1> QED BY <1>2, <1>3 DEF Inv

\* The client's own end: connect() and the call, or no server.
LEMMA ConnectStep == ASSUME Inv, NEW c \in Clients, NEW r \in Requests, connect(c, r) PROVE Inv'
<1> USE DEF connect, Inv
<1>0. Request(r) /\ Request(call[c])
  BY RequestsAre DEF Types
<1>1. Message(r) \in Seq(Word) /\ Message(r) # <<>>
  BY <1>0, ShapeAtBegin
<1>2. Types'
  <2>1. todo' \in [Clients -> Seq(Word)] /\ up' \in [Clients -> Seq(Word)] /\ in' \in [Clients -> Seq(Word)]
    BY <1>1 DEF Types
  <2>2. outcome' = [d \in Clients |-> outcome'[d]] /\ down' = [d \in Clients |-> down'[d]] /\ out' = [d \in Clients |-> out'[d]]
    BY DEF Types
  <2> QED BY <2>1, <2>2 DEF Types
<1>3. \A d \in Clients \ {c} : Kept(d)
  BY DEF Types, childVars, Kept
<1>4. ClientPart(c)'
  BY <1>0, <1>1, ShapeAtBegin DEF Types, ClientPart, childVars
<1>5. ChildPart(c)'
  BY DEF Types, Own, ChildPart, childVars
<1>6. Wire(c)'
  <2>1. sockfd'[c] /\ client'[c] = "send" /\ call'[c] = r /\ torn'[c] = FALSE
        /\ todo'[c] = Message(r) /\ written'[c] = 0 /\ out'[c] = out[c] /\ closing'[c] = closing[c] /\ in'[c] = in[c]
    BY DEF Types, childVars
  <2>2. Sending(r, FALSE, Message(r), 0, <<>>)
    BY <1>0, ShapeAtBegin
  <2>3. CASE sockfd[c]
    <3>1. up'[c] = up[c] /\ down'[c] = down[c] /\ child'[c] = child[c]
      BY <2>3 DEF Types
    <3>2. Session(c)
      BY <2>3 DEF Own, Wire
    <3>3. CASE Live(c)
      <4>1. Quiet(down[c], out[c]) /\ Unserved(c) = <<>>
        BY <3>2, <3>3 DEF Session, LiveShape
      <4>2. Live(c)' /\ Unserved(c)' = Unserved(c)
        BY <2>1, <3>1, <3>3 DEF Live, ServerClosed, Unserved
      <4> QED BY <4>1, <4>2, <2>1, <2>2, <3>1 DEF Wire, Session, LiveShape
    <3>4. CASE ~Live(c)
      <4>1. Quiet(down[c], out[c])
        BY <3>2, <3>4 DEF Session, EndShape
      <4>2. ~Live(c)'
        BY <2>1, <3>1, <3>4 DEF Live, ServerClosed
      <4> QED BY <4>1, <4>2, <2>1, <3>1 DEF Wire, Session, EndShape
    <3> QED BY <3>3, <3>4
  <2>4. CASE ~sockfd[c]
    <3>1. up'[c] = <<>> /\ down'[c] = <<>> /\ child'[c] = "backlog" /\ child[c] = "none"
      BY <2>4 DEF Types
    <3>2. in[c] = <<>> /\ out[c] = <<>> /\ ~closing[c]
      BY <3>1 DEF Own, ChildPart
    <3>3. Live(c)' /\ Unserved(c)' = <<>>
      BY <2>1, <3>1, <3>2 DEF Live, ServerClosed, Unserved
    <3>4. Quiet(<<>>, <<>>)
      BY DEF Quiet
    <3> QED BY <3>1, <3>2, <3>3, <3>4, <2>1, <2>2 DEF Wire, Session, LiveShape
  <2> QED BY <2>3, <2>4
<1> QED BY <1>2, <1>3, <1>4, <1>5, <1>6, OneSlot DEF Own

LEMMA NoServerStep == ASSUME Inv, NEW c \in Clients, NEW r \in Requests, connectFails(c, r) PROVE Inv'
<1> USE DEF connectFails, Inv
<1>1. Types'
  BY DEF Types, childVars
<1>2. \A d \in Clients \ {c} : Kept(d)
  BY DEF Types, childVars, Kept
<1>3. Own(c)'
  BY DEF Types, Own, ClientPart, ChildPart, Wire, childVars
<1> QED BY <1>1, <1>2, <1>3, OneSlot

\* The process of the client is over: whatever was under way, the slot is consistent.
LEMMA EndClientOwn == ASSUME Inv, NEW c \in Clients, EndClient(c), UNCHANGED childVars PROVE Own(c)'
<1>1. client'[c] = "gone" /\ sockfd'[c] = FALSE /\ down'[c] = <<>> /\ todo'[c] = <<>> /\ written'[c] = 0
  BY DEF EndClient, Inv, Types
<1>2. ChildPart(c)'
  BY DEF Inv, Own, ChildPart, childVars
<1> QED BY <1>1, <1>2 DEF Own, ClientPart, Wire

LEMMA EndClientTypes ==
  ASSUME Inv, NEW c \in Clients, EndClient(c), UNCHANGED childVars, UNCHANGED <<call, outcome, parent, keyOrder>>,
         up' \in [Clients -> Seq(Word)], torn' \in [Clients -> BOOLEAN]
  PROVE  Types'
<1>1. todo' \in [Clients -> Seq(Word)] /\ in' \in [Clients -> Seq(Word)]
  BY DEF Inv, Types, EndClient, childVars
<1>2. outcome' = [d \in Clients |-> outcome'[d]] /\ down' = [d \in Clients |-> down'[d]] /\ out' = [d \in Clients |-> out'[d]]
  BY DEF Inv, Types, EndClient, childVars
<1> QED BY <1>1, <1>2 DEF Inv, Types, EndClient, childVars

\* The next write is the list of IDs, or one word.
LEMMA NextWriteIs ==
  ASSUME NEW r, Request(r), NEW rest \in Seq(Word), rest # <<>>
  PROVE  NextWrite(r, rest) = IF Len(rest) = IdsOf(r) THEN rest ELSE <<Head(rest)>>
<1>1. Len(rest) # 0
  BY EmptySeq
<1> QED BY <1>1 DEF NextWrite, IdsOf

\* The words y go to the server: what it has to serve is what was sent before, and y.
LEMMA AfterSend ==
  ASSUME Inv, NEW c \in Clients, NEW y \in Seq(Word), client[c] = "send",
         up' = IF ServerClosed(c) THEN up ELSE [up EXCEPT ![c] = @ \o y],
         UNCHANGED <<sockfd, call, down, childVars>>, client'[c] \in {"send", "code"},
         \A u : Sending(call[c], torn[c], todo[c], written[c], u)
                  => Sending(call[c], torn'[c], todo'[c], written'[c], u \o y)
  PROVE  Wire(c)'
<1>1. sockfd[c] /\ Session(c)
  BY DEF Inv, Own, ClientPart, Wire
<1>2. /\ sockfd'[c] = sockfd[c] /\ call'[c] = call[c] /\ down'[c] = down[c] /\ child'[c] = child[c] /\ in'[c] = in[c]
      /\ out'[c] = out[c] /\ closing'[c] = closing[c]
  BY DEF childVars
<1>3. Live(c)' = Live(c)
  BY <1>2 DEF Live, ServerClosed
<1>4. CASE Live(c)
  <2>1. Quiet(down[c], out[c]) /\ Sending(call[c], torn[c], todo[c], written[c], Unserved(c))
    BY <1>1, <1>4 DEF Session, LiveShape
  <2>2. Unserved(c)' = Unserved(c) \o y
    <3>1. up'[c] = up[c] \o y
      BY <1>4 DEF Live, Inv, Types
    <3>2. in[c] \o (up[c] \o y) = (in[c] \o up[c]) \o y
      <4>1. in[c] \in Seq(Word) /\ up[c] \in Seq(Word)
        BY DEF Inv, Types
      <4> QED BY <4>1, WordsJoined
    <3> QED BY <3>1, <3>2, <1>2 DEF Unserved
  <2>3. Sending(call[c], torn'[c], todo'[c], written'[c], Unserved(c)')
    BY <2>1, <2>2
  <2> QED BY <2>1, <2>3, <1>1, <1>2, <1>3, <1>4 DEF Wire, Session, LiveShape
<1>5. CASE ~Live(c)
  <2>1. Quiet(down[c], out[c]) \/ Error(down[c], out[c])
    BY <1>1, <1>5 DEF Session, EndShape
  <2> QED BY <2>1, <1>1, <1>2, <1>3, <1>5 DEF Wire, Session, EndShape
<1> QED BY <1>4, <1>5

LEMMA WriteOne ==
  ASSUME NEW r, Request(r), NEW t \in BOOLEAN, NEW rest \in Seq(Word), rest # <<>>, NEW w \in Nat,
         Left(r, t, rest, w), Len(rest) # IdsOf(r)
  PROVE  w = 0 /\ Wrote(r, t, rest, 0, <<Head(rest)>>, t, Tail(rest), 0)
<1>1. w = 0
  BY DEF Left
<1>2. Head(rest) = rest[1] /\ <<Head(rest)>> \in Seq(Word) /\ 0 \in Nat
  BY EmptySeq
<1>3. /\ Tail(rest) \in Seq(Word) /\ Left(r, t, Tail(rest), 0)
      /\ \A u : Sending(r, t, rest, 0, u) => Sending(r, t, Tail(rest), 0, u \o <<rest[1]>>)
  BY <1>1, SendOne
<1> QED BY <1>1, <1>2, <1>3 DEF Wrote

LEMMA SendStep == ASSUME Inv, NEW c \in Clients, sendToServer(c) PROVE Inv'
<1> DEFINE r == call[c]
           rest == todo[c]
           w == written[c]
           data == NextWrite(r, rest)
<1>1. Request(r) /\ rest \in Seq(Word) /\ w \in Nat /\ torn[c] \in BOOLEAN
  BY RequestsAre DEF Inv, Types
<1>2. client[c] = "send" /\ rest # <<>> /\ Left(r, torn[c], rest, w)
  BY DEF sendToServer, Inv, Own, ClientPart
<1>3. data = IF Len(rest) = IdsOf(r) THEN rest ELSE <<Head(rest)>>
  BY <1>1, <1>2, NextWriteIs
<1>4. Head(rest) \in Word /\ Len(rest) \in Nat \ {0}
  BY <1>1, <1>2, EmptySeq
<1>5. data \in Seq(Word) /\ Len(data) \in Nat \ {0}
  BY <1>1, <1>3, <1>4
<1>6. PICK n \in 1 .. Len(data) :
         /\ up' = IF ServerClosed(c) THEN up ELSE [up EXCEPT ![c] = @ \o SubSeq(data, 1, n)]
         /\ torn' = [torn EXCEPT ![c] = @ \/ n < Len(data)]
         /\ IF w + n > Len(data)
            THEN EndClient(c)
            ELSE /\ todo' = IF w + n = Len(data) THEN [todo EXCEPT ![c] = SubSeq(@, Len(data) + 1, Len(@))] ELSE todo
                 /\ written' = [written EXCEPT ![c] = IF w + n = Len(data) THEN 0 ELSE w + n]
                 /\ client' = IF w + n = Len(data) /\ Len(data) = Len(rest) THEN [client EXCEPT ![c] = "code"] ELSE client
                 /\ UNCHANGED <<sockfd, down>>
  <2> HIDE DEF data
  <2>1. (IF ShortWrites THEN 1 .. Len(data) ELSE {Len(data)}) \subseteq 1 .. Len(data)
    BY <1>5
  <2> QED BY <2>1 DEF sendToServer, data
<1>7. UNCHANGED <<call, outcome, parent, childVars, keyOrder>>
  BY DEF sendToServer
<1> HIDE DEF data
<1>8. PICK y : y = SubSeq(data, 1, n)
  OBVIOUS
<1>9. y \in Seq(Word) /\ n \in Nat \ {0}
  BY <1>5, <1>6, <1>8
<1>10. up' \in [Clients -> Seq(Word)]
  <2>1. up[c] \o y \in Seq(Word)
    BY <1>9 DEF Inv, Types
  <2> QED BY <2>1, <1>6, <1>8 DEF Inv, Types
<1>11. torn' \in [Clients -> BOOLEAN] /\ torn'[c] = (torn[c] \/ n < Len(data))
  BY <1>6 DEF Inv, Types
<1>12. \A d \in Clients \ {c} : Kept(d)
  BY <1>6, <1>7 DEF Inv, Types, Kept, EndClient, childVars
<1>13. CASE w + n > Len(data)
  <2>1. EndClient(c)
    BY <1>6, <1>13
  <2>2. Types' /\ Own(c)'
    BY <2>1, <1>7, <1>10, <1>11, EndClientTypes, EndClientOwn
  <2> QED BY <2>2, <1>12, OneSlot
<1>14. CASE ~(w + n > Len(data))
  <2>1. /\ todo' = IF w + n = Len(data) THEN [todo EXCEPT ![c] = SubSeq(@, Len(data) + 1, Len(@))] ELSE todo
        /\ written' = [written EXCEPT ![c] = IF w + n = Len(data) THEN 0 ELSE w + n]
        /\ client' = IF w + n = Len(data) /\ Len(data) = Len(rest) THEN [client EXCEPT ![c] = "code"] ELSE client
        /\ UNCHANGED <<sockfd, down>>
    BY <1>6, <1>14
  <2>2. /\ todo'[c] = IF w + n = Len(data) THEN SubSeq(rest, Len(data) + 1, Len(rest)) ELSE rest
        /\ written'[c] = IF w + n = Len(data) THEN 0 ELSE w + n
        /\ client'[c] = IF w + n = Len(data) /\ Len(data) = Len(rest) THEN "code" ELSE "send"
    BY <2>1, <1>2 DEF Inv, Types
  <2>3. /\ Wrote(r, torn[c], rest, w, y, torn'[c], todo'[c], written'[c])
        /\ client'[c] = "code" => todo'[c] = <<>> /\ written'[c] = 0
        /\ client'[c] = "send" => todo'[c] # <<>>
    <3>1. CASE Len(rest) # IdsOf(r)
      <4>1. data = <<Head(rest)>> /\ Len(data) = 1 /\ n = 1 /\ y = data
        <5>1. data = <<Head(rest)>> /\ Len(data) = 1
          BY <3>1, <1>3
        <5>2. n = 1
          BY <5>1, <1>6
        <5>3. SubSeq(data, 1, 1) = data
          BY <5>1, <1>5, SubSeqFull
        <5> QED BY <5>1, <5>2, <5>3, <1>8
      <4>2. w = 0 /\ Wrote(r, torn[c], rest, 0, <<Head(rest)>>, torn[c], Tail(rest), 0)
        BY <3>1, <1>1, <1>2, WriteOne
      <4>3. SubSeq(rest, Len(data) + 1, Len(rest)) = Tail(rest)
        <5>1. Len(data) + 1 = 2
          BY <4>1
        <5> QED BY <5>1, <1>1, <1>2
      <4>4. todo'[c] = Tail(rest) /\ written'[c] = 0 /\ torn'[c] = torn[c]
        <5>1. w + n = Len(data) /\ ~(n < Len(data))
          BY <4>1, <4>2
        <5>2. torn'[c] = torn[c]
          <6>1. torn'[c] <=> torn[c]
            BY <5>1, <1>11
          <6>2. torn'[c] \in BOOLEAN
            BY <1>11
          <6>3. \A a, b \in BOOLEAN : (a <=> b) => a = b
            OBVIOUS
          <6> QED BY <6>1, <6>2, <6>3, <1>1, Zenon
        <5> QED BY <5>1, <5>2, <4>3, <2>2
      <4>5. Len(Tail(rest)) = Len(rest) - 1 /\ (Tail(rest) = <<>> <=> Len(Tail(rest)) = 0)
        <5>1. Tail(rest) \in Seq(Word) /\ Len(Tail(rest)) = Len(rest) - 1
          BY <1>1, <1>2, HeadTailProperties, Zenon
        <5> QED BY <5>1, EmptySeq
      <4>6. client'[c] = IF Len(rest) = 1 THEN "code" ELSE "send"
        BY <4>1, <4>2, <2>2
      <4> QED BY <4>1, <4>2, <4>4, <4>5, <4>6, <1>4
    <3>2. CASE Len(rest) = IdsOf(r)
      <4>1. data = rest /\ y = SubSeq(rest, 1, n)
        BY <3>2, <1>3, <1>8
      <4>10. w + n <= Len(rest) /\ (w + n < Len(rest) \/ w + n = Len(rest))
        <5>1. PICK k : k = Len(rest)
          OBVIOUS
        <5>2. PICK x : x = w
          OBVIOUS
        <5>3. k \in Nat /\ x \in Nat /\ n \in Nat /\ ~(x + n > k)
          BY <4>1, <5>1, <5>2, <1>1, <1>4, <1>9, <1>14
        <5>4. x + n <= k /\ (x + n < k \/ x + n = k)
          BY <5>3
        <5> QED BY <5>1, <5>2, <5>4
      <4>2. CASE w + n < Len(rest)
        <5>1. n < Len(data) /\ torn'[c] = TRUE
          <6>1. PICK k, x : k = Len(rest) /\ x = w
            OBVIOUS
          <6>2. k \in Nat /\ x \in Nat /\ n \in Nat /\ x + n < k
            BY <4>2, <6>1, <1>1, <1>4, <1>9
          <6>3. n < k
            BY <6>2
          <6> QED BY <4>1, <6>1, <6>3, <1>11
        <5>2. Wrote(r, torn[c], rest, w, y, TRUE, rest, w + n)
          <6>1. w + n <= Len(rest)
            BY <4>10
          <6> QED BY <6>1, <3>2, <4>1, <4>2, <1>1, <1>2, <1>9, SendIds
        <5>3. todo'[c] = rest /\ written'[c] = w + n /\ client'[c] = "send"
          BY <4>1, <4>2, <2>2
        <5> QED BY <5>1, <5>2, <5>3, <1>2
      <4>3. CASE w + n = Len(rest)
        <5>1. torn'[c] <=> torn[c] \/ n < Len(rest)
          BY <4>1, <1>11
        <5>2. torn'[c] \in BOOLEAN
          BY <1>11
        <5>3. Wrote(r, torn[c], rest, w, y, torn'[c], <<>>, 0)
          <6>1. w + n <= Len(rest)
            BY <4>10
          <6>2. PICK t2 \in BOOLEAN : t2 = torn'[c]
            BY <5>2
          <6>3. \A b \in BOOLEAN : (b <=> torn[c] \/ n < Len(rest)) => Wrote(r, torn[c], rest, w, y, b, <<>>, 0)
            <7>1. n \in Nat \ {0} /\ Left(r, torn[c], rest, w) /\ w \in Nat /\ rest \in Seq(Word) /\ rest # <<>>
              BY <1>1, <1>2, <1>9
            <7> QED BY <7>1, <6>1, <3>2, <4>1, <4>3, <1>1, <1>2, SendIds, ZenonT(60)
          <6> QED BY <6>2, <6>3, <5>1, Zenon
        <5>4. SubSeq(rest, Len(rest) + 1, Len(rest)) = <<>>
          BY <1>1, SubSeqEmpty
        <5>5. todo'[c] = <<>> /\ written'[c] = 0 /\ client'[c] = "code"
          BY <4>1, <4>3, <5>4, <2>2
        <5> QED BY <5>3, <5>5
      <4> QED BY <4>2, <4>3, <4>10, Zenon
    <3> QED BY <3>1, <3>2
  <2>4. todo'[c] \in Seq(Word) /\ written'[c] \in Nat /\ Left(r, torn'[c], todo'[c], written'[c])
        /\ \A u : Sending(r, torn[c], rest, w, u) => Sending(r, torn'[c], todo'[c], written'[c], u \o y)
    BY <2>3, Zenon DEF Wrote
  <2>5. Types'
    <3>1. client' \in [Clients -> {"idle", "send", "code", "data", "gone"}] /\ written' \in [Clients -> Nat]
      <4>1. written' = [written EXCEPT ![c] = written'[c]]
        BY <2>1 DEF Inv, Types
      <4> QED BY <4>1, <2>1, <2>4 DEF Inv, Types
    <3>2. todo' \in [Clients -> Seq(Word)]
      <4>1. todo' = [todo EXCEPT ![c] = todo'[c]]
        BY <2>1 DEF Inv, Types
      <4> QED BY <4>1, <2>4 DEF Inv, Types
    <3>3. in' \in [Clients -> Seq(Word)]
      BY <1>7 DEF Inv, Types, childVars
    <3>4. outcome' = [d \in Clients |-> outcome'[d]] /\ down' = [d \in Clients |-> down'[d]] /\ out' = [d \in Clients |-> out'[d]]
      BY <2>1, <1>7 DEF Inv, Types, childVars
    <3> QED BY <3>1, <3>2, <3>3, <3>4, <2>1, <1>7, <1>10, <1>11 DEF Inv, Types, childVars
  <2>6. ClientPart(c)'
    <3>1. client'[c] \in {"send", "code"} /\ sockfd'[c] /\ call'[c] = r
      BY <2>1, <2>2, <1>2, <1>7 DEF Inv, Own, ClientPart
    <3>2. client'[c] = "send" <=> todo'[c] # <<>>
      BY <3>1, <2>3
    <3> QED BY <3>1, <3>2, <2>3, <2>4 DEF ClientPart
  <2>7. ChildPart(c)'
    BY <1>7 DEF Inv, Own, ChildPart, childVars
  <2>8. Wire(c)'
    <3>1. up' = IF ServerClosed(c) THEN up ELSE [up EXCEPT ![c] = @ \o y]
      BY <1>6, <1>8
    <3>2. client'[c] \in {"send", "code"}
      BY <2>2
    <3> QED BY <3>1, <3>2, <2>1, <2>4, <1>2, <1>7, <1>9, AfterSend
  <2> QED BY <2>5, <2>6, <2>7, <2>8, <1>12, OneSlot DEF Own
<1> QED BY <1>13, <1>14, <1>1, <1>5, <1>6

\* The client takes what came: the connection keeps its shape, in the next state of the client.
LEMMA AfterReading ==
  ASSUME Inv, NEW c \in Clients, sockfd[c], UNCHANGED <<sockfd, call, todo, written, torn, up, childVars>>,
         client'[c] \in {"idle", "data"}, client[c] \in {"code", "data"},
         \A u, o : /\ LiveShape(client[c], call[c], torn[c], todo[c], written[c], u, down[c], o)
                        => LiveShape(client'[c], call[c], torn[c], todo[c], written[c], u, down'[c], o)
                   /\ EndShape(client[c], call[c], torn[c], down[c], o)
                        => EndShape(client'[c], call[c], torn[c], down'[c], o)
  PROVE  Own(c)'
<1>1. ClientPart(c)'
  BY DEF Inv, Own, ClientPart
<1>2. ChildPart(c)'
  BY DEF Inv, Own, ChildPart, childVars
<1>3. Session(c)
  BY DEF Inv, Own, Wire
<1>4. Live(c)' = Live(c) /\ Unserved(c)' = Unserved(c) /\ out'[c] = out[c]
  BY DEF Live, ServerClosed, Unserved, childVars
<1>5. Wire(c)'
  BY <1>3, <1>4 DEF Wire, Session
<1> QED BY <1>1, <1>2, <1>5 DEF Own

LEMMA CodeStep == ASSUME Inv, NEW c \in Clients, checkRecvErrorCode(c) PROVE Inv'
<1> USE DEF checkRecvErrorCode
<1>1. Types'
  <2>1. outcome' = [d \in Clients |-> outcome'[d]] /\ down' = [d \in Clients |-> down'[d]] /\ out' = [d \in Clients |-> out'[d]]
    BY DEF Inv, Types, childVars
  <2> QED BY <2>1 DEF Inv, Types, childVars
<1>2. \A d \in Clients \ {c} : Kept(d)
  BY DEF Inv, Types, childVars, Kept
<1>3. PICK s : s = IF Head(down[c]) = 0 THEN "data" ELSE "idle"
  OBVIOUS
<1>4. client'[c] = s /\ down'[c] = Tail(down[c]) /\ down[c] # <<>> /\ client[c] = "code" /\ sockfd[c]
  BY <1>3 DEF Inv, Types, Own, ClientPart
<1>5. \A u, o : /\ LiveShape(client[c], call[c], torn[c], todo[c], written[c], u, down[c], o)
                     => LiveShape(client'[c], call[c], torn[c], todo[c], written[c], u, down'[c], o)
                /\ EndShape(client[c], call[c], torn[c], down[c], o)
                     => EndShape(client'[c], call[c], torn[c], down'[c], o)
  BY <1>3, <1>4, ShapeAfterCode
<1>6. s \in {"idle", "data"}
  BY <1>3
<1>7. Own(c)'
  BY <1>4, <1>5, <1>6, AfterReading
<1> QED BY <1>1, <1>2, <1>7, OneSlot

LEMMA AnswerStep == ASSUME Inv, NEW c \in Clients, recvAnswer(c) PROVE Inv'
<1> USE DEF recvAnswer
<1>1. Types'
  <2>1. outcome' = [d \in Clients |-> outcome'[d]] /\ down' = [d \in Clients |-> down'[d]] /\ out' = [d \in Clients |-> out'[d]]
    BY DEF Inv, Types, childVars
  <2> QED BY <2>1 DEF Inv, Types, childVars
<1>2. \A d \in Clients \ {c} : Kept(d)
  BY DEF Inv, Types, childVars, Kept
<1>3. client'[c] = "idle" /\ down'[c] = SubSeq(down[c], Consumed(call[c], down[c]) + 1, Len(down[c]))
      /\ client[c] = "data" /\ sockfd[c] /\ Expects(call[c], down[c])
  BY DEF Inv, Types, Own, ClientPart
<1>4. Request(call[c]) /\ torn[c] \in BOOLEAN
  BY RequestsAre DEF Inv, Types
<1>5. \A u, o : /\ LiveShape(client[c], call[c], torn[c], todo[c], written[c], u, down[c], o)
                     => LiveShape(client'[c], call[c], torn[c], todo[c], written[c], u, down'[c], o)
                /\ EndShape(client[c], call[c], torn[c], down[c], o)
                     => EndShape(client'[c], call[c], torn[c], down'[c], o)
  <2> SUFFICES ASSUME NEW u, NEW o,
                      \/ LiveShape("data", call[c], torn[c], todo[c], written[c], u, down[c], o)
                      \/ EndShape("data", call[c], torn[c], down[c], o)
               PROVE  /\ LiveShape("data", call[c], torn[c], todo[c], written[c], u, down[c], o)
                           => LiveShape("idle", call[c], torn[c], todo[c], written[c], u, down'[c], o)
                      /\ EndShape("data", call[c], torn[c], down[c], o)
                           => EndShape("idle", call[c], torn[c], down'[c], o)
    BY <1>3
  <2> QED BY <1>3, <1>4, ShapeAfterAnswer
<1>6. Own(c)'
  BY <1>3, <1>5, AfterReading
<1> QED BY <1>1, <1>2, <1>6, OneSlot

LEMMA EndClientStep ==
  ASSUME Inv, NEW c \in Clients, recvFromServerFails(c) \/ writeFails(c) \/ killClient(c)
  PROVE  Inv'
<1>1. EndClient(c) /\ UNCHANGED <<call, torn, outcome, up, parent, childVars, keyOrder>>
  BY DEF recvFromServerFails, writeFails, killClient
<1>2. up' \in [Clients -> Seq(Word)] /\ torn' \in [Clients -> BOOLEAN]
  BY <1>1 DEF Inv, Types
<1>3. Types' /\ Own(c)'
  BY <1>1, <1>2, EndClientTypes, EndClientOwn
<1>4. \A d \in Clients \ {c} : Kept(d)
  BY <1>1 DEF Inv, Types, Kept, EndClient, childVars
<1> QED BY <1>3, <1>4, OneSlot

LEMMA DisconnectStep == ASSUME Inv, NEW c \in Clients, disconnect(c) PROVE Inv'
<1> USE DEF disconnect
<1>1. up' \in [Clients -> Seq(Word)]
  <2>1. Append(up[c], CMD_EXIT) \in Seq(Word)
    BY DEF Inv, Types, Word, CMD_EXIT
  <2> QED BY <2>1 DEF Inv, Types
<1>2. Types'
  <2>1. outcome' = [d \in Clients |-> outcome'[d]] /\ down' = [d \in Clients |-> down'[d]] /\ out' = [d \in Clients |-> out'[d]]
    BY DEF Inv, Types, childVars
  <2> QED BY <1>1, <2>1 DEF Inv, Types, childVars
<1>3. \A d \in Clients \ {c} : Kept(d)
  BY DEF Inv, Types, childVars, Kept
<1>4. Own(c)'
  BY DEF Inv, Types, Own, ClientPart, ChildPart, Wire, childVars
<1> QED BY <1>2, <1>3, <1>4, OneSlot

LEMMA RestartStep == ASSUME Inv, NEW c \in Clients, startClient(c) PROVE Inv'
<1> USE DEF startClient
<1>1. Types'
  <2>1. outcome' = [d \in Clients |-> outcome'[d]] /\ down' = [d \in Clients |-> down'[d]] /\ out' = [d \in Clients |-> out'[d]]
    BY DEF Inv, Types, childVars
  <2> QED BY <2>1 DEF Inv, Types, childVars
<1>2. \A d \in Clients \ {c} : Kept(d)
  BY DEF Inv, Types, childVars, Kept
<1>3. ~sockfd[c]
  BY DEF Inv, Own, Wire, Session
<1>4. Own(c)'
  BY <1>3 DEF Inv, Types, Own, ClientPart, ChildPart, Wire, childVars
<1> QED BY <1>1, <1>2, <1>4, OneSlot

\* A connection that is closed on the server's side, in a step that leaves the client's side alone.
LEMMA AfterClosing ==
  ASSUME Inv, NEW c \in Clients, UNCHANGED <<clientVars, down>>, ~Live(c)', out'[c] = <<>>
  PROVE  ClientPart(c)' /\ Wire(c)'
<1>1. ClientPart(c)'
  BY DEF Inv, Own, ClientPart, clientVars
<1>0. /\ client'[c] = client[c] /\ sockfd'[c] = sockfd[c] /\ call'[c] = call[c] /\ torn'[c] = torn[c]
      /\ down'[c] = down[c]
  BY DEF clientVars
<1>2. CASE sockfd[c]
  <2>1. Session(c)
    BY <1>2 DEF Inv, Own, Wire
  <2>2. client[c] \in Busy
    BY <2>1 DEF Inv, Types, Busy, Session
  <2>3. EndShape(client[c], call[c], torn[c], down[c], <<>>)
    BY <2>1, <2>2, ShapeAtEnd DEF Session
  <2> QED BY <1>0, <1>1, <1>2, <2>1, <2>3 DEF Wire, Session
<1>3. CASE ~sockfd[c]
  BY <1>0, <1>1, <1>3 DEF Inv, Own, Wire
<1> QED BY <1>1, <1>2, <1>3

LEMMA EndChildStep ==
  ASSUME Inv, NEW c \in Clients, NEW s \in {0, SIGABRT, SIGKILL, SIGPIPE}, NEW a \in {"none", "closeConnection", "sscanf"},
         EndChild(c, s, a), UNCHANGED <<clientVars, up, down, parent, keyOrder>>
  PROVE  Inv'
<1>1. Types'
  <2>1. in' \in [Clients -> Seq(Word)]
    BY DEF Inv, Types, EndChild
  <2>2. outcome' = [d \in Clients |-> outcome'[d]] /\ down' = [d \in Clients |-> down'[d]] /\ out' = [d \in Clients |-> out'[d]]
    BY DEF Inv, Types, EndChild, clientVars
  <2> QED BY <2>1, <2>2 DEF Inv, Types, EndChild, clientVars
<1>2. \A d \in Clients \ {c} : Kept(d)
  BY DEF Inv, Types, EndChild, clientVars, Kept
<1>3. child'[c] = "exited" /\ in'[c] = <<>> /\ out'[c] = <<>> /\ ~closing'[c]
  BY DEF Inv, Types, EndChild
<1>4. ClientPart(c)' /\ Wire(c)'
  BY <1>3, AfterClosing DEF Live, ServerClosed
<1> QED BY <1>1, <1>2, <1>3, <1>4, OneSlot DEF Own, ChildPart

\* The child of one slot goes its way: accepted, or closed with the listening socket, or reaped.
LEMMA ChildMoves ==
  ASSUME Inv, NEW c \in Clients, UNCHANGED <<clientVars, up, down, in, out, closing>>,
         \/ child'[c] = child[c] /\ status'[c] = status[c] /\ assertion'[c] = assertion[c]
         \/ /\ child[c] = "backlog" /\ child'[c] \in {"serve", "none"}
            /\ status'[c] = status[c] /\ assertion'[c] = assertion[c]
         \/ child[c] = "exited" /\ child'[c] = "none" /\ status'[c] = 0 /\ assertion'[c] = "none"
  PROVE  Own(c)'
<1>1. ChildPart(c)'
  BY DEF Inv, Own, ChildPart
<1>2. CASE child'[c] = "none"
  <2>1. ~Live(c)'
    BY <1>2 DEF Live, ServerClosed
  <2>2. CASE child[c] \in {"backlog", "exited", "none"}
    <3>1. out'[c] = <<>>
      BY <2>2 DEF Inv, Own, ChildPart
    <3> QED BY <2>1, <3>1, <1>1, AfterClosing DEF Own
  <2> QED BY <2>2, <1>2
<1>3. CASE child'[c] # "none"
  <2>1. ClientPart(c)'
    BY DEF Inv, Own, ClientPart, clientVars
  <2>2. Live(c)' = Live(c) /\ Unserved(c)' = Unserved(c)
    BY <1>3 DEF Live, ServerClosed, Unserved
  <2>3. Wire(c)'
    BY <2>2 DEF Inv, Own, Wire, Session, clientVars
  <2> QED BY <1>1, <2>1, <2>3 DEF Own
<1> QED BY <1>2, <1>3

LEMMA ParentStep ==
  ASSUME Inv,
         \/ \E c \in Clients : accept(c) \/ forkFails(c) \/ sigchild_handler(c)
         \/ killParent \/ startServer
  PROVE  Inv'
<1>1. UNCHANGED <<clientVars, up, down, in, out, closing, keyOrder>>
  BY DEF accept, forkFails, sigchild_handler, killParent, startServer, StopListening, childVars
<1>2. /\ child' \in [Clients -> {"none", "backlog", "serve", "flush", "exited"}]
      /\ parent' \in {"up", "down", "childpid", "code"}
      /\ status' \in [Clients -> {0, SIGABRT, SIGKILL, SIGPIPE}]
      /\ assertion' \in [Clients -> {"none", "closeConnection", "sscanf"}]
      /\ \A c \in Clients :
           \/ child'[c] = child[c] /\ status'[c] = status[c] /\ assertion'[c] = assertion[c]
           \/ /\ child[c] = "backlog" /\ child'[c] \in {"serve", "none"}
              /\ status'[c] = status[c] /\ assertion'[c] = assertion[c]
           \/ child[c] = "exited" /\ child'[c] = "none" /\ status'[c] = 0 /\ assertion'[c] = "none"
  <2>1. ASSUME NEW c \in Clients, accept(c) PROVE <1>2!1 /\ <1>2!2 /\ <1>2!3 /\ <1>2!4 /\ <1>2!5
    BY <2>1 DEF accept, Inv, Types
  <2>2. ASSUME NEW c \in Clients, forkFails(c) PROVE <1>2!1 /\ <1>2!2 /\ <1>2!3 /\ <1>2!4 /\ <1>2!5
    BY <2>2 DEF forkFails, StopListening, Inv, Types
  <2>3. ASSUME NEW c \in Clients, sigchild_handler(c) PROVE <1>2!1 /\ <1>2!2 /\ <1>2!3 /\ <1>2!4 /\ <1>2!5
    BY <2>3 DEF sigchild_handler, Inv, Types
  <2>4. ASSUME killParent PROVE <1>2!1 /\ <1>2!2 /\ <1>2!3 /\ <1>2!4 /\ <1>2!5
    BY <2>4 DEF killParent, StopListening, Inv, Types
  <2>5. ASSUME startServer PROVE <1>2!1 /\ <1>2!2 /\ <1>2!3 /\ <1>2!4 /\ <1>2!5
    BY <2>5 DEF startServer, childVars, Inv, Types
  <2> QED BY <2>1, <2>2, <2>3, <2>4, <2>5
<1>3. Types'
  BY <1>1, <1>2 DEF Inv, Types, clientVars
<1>4. \A c \in Clients : Own(c)'
  BY <1>1, <1>2, ChildMoves
<1> QED BY <1>3, <1>4 DEF Inv

\* The step leaves the client's side, and the parent, alone.
OnlyChild == UNCHANGED <<clientVars, parent, keyOrder>>

LEMMA ReadStep == ASSUME Inv, NEW c \in Clients, recvFromClient(c) PROVE Inv'
<1> USE DEF recvFromClient
<1>1. up[c] \in Seq(Word) /\ in[c] \in Seq(Word) /\ up[c] # <<>> /\ child[c] = "serve"
  BY DEF Inv, Types
<1>2. Head(up[c]) \in Word /\ Tail(up[c]) \in Seq(Word) /\ up[c] = <<Head(up[c])>> \o Tail(up[c])
  BY <1>1
<1>3. in'[c] = Append(in[c], Head(up[c])) /\ up'[c] = Tail(up[c])
  BY DEF Inv, Types
<1>4. in' \in [Clients -> Seq(Word)] /\ up' \in [Clients -> Seq(Word)]
  <2>1. Append(in[c], Head(up[c])) \in Seq(Word)
    BY <1>1, <1>2
  <2> QED BY <1>2, <2>1 DEF Inv, Types
<1>5. Types'
  BY <1>4 DEF Inv, Types, clientVars
<1>6. \A d \in Clients \ {c} : Kept(d)
  BY DEF Inv, Types, clientVars, Kept
<1>7. ClientPart(c)'
  BY DEF Inv, Own, ClientPart, clientVars
<1>8. ChildPart(c)'
  BY DEF Inv, Own, ChildPart
<1>9. in'[c] \o up'[c] = in[c] \o up[c]
  <2>1. Append(in[c], Head(up[c])) = in[c] \o <<Head(up[c])>>
    BY <1>1, <1>2, AppendIsConcat
  <2>2. <<Head(up[c])>> \in Seq(Word)
    BY <1>2
  <2>3. \A a, b, x \in Seq(Word) : a \o (b \o x) = (a \o b) \o x
    BY WordsJoined
  <2>4. PICK a, h, b : a = in[c] /\ h = <<Head(up[c])>> /\ b = Tail(up[c])
    OBVIOUS
  <2>5. a \o (h \o b) = (a \o h) \o b
    BY <1>1, <1>2, <2>2, <2>3, <2>4
  <2>6. in'[c] = a \o h /\ up'[c] = b /\ up[c] = h \o b
    BY <1>2, <1>3, <2>1, <2>4
  <2> QED BY <2>4, <2>5, <2>6
<1>10. Wire(c)'
  <2>1. Live(c)' = Live(c) /\ Unserved(c)' = Unserved(c)
    BY <1>1, <1>9 DEF Live, ServerClosed, Unserved
  <2> QED BY <2>1 DEF Inv, Own, Wire, Session, clientVars
<1> QED BY <1>5, <1>6, <1>7, <1>8, <1>10, OneSlot DEF Own

\* The handler has made an answer; whatever it is, it fits what the client waits for.
LEMMA AfterResponse ==
  ASSUME Inv, NEW c \in Clients, child[c] = "serve", NEW o, NEW z \in BOOLEAN, Respond(c, o, z),
         sockfd[c] => IF z THEN EndShape(client[c], call[c], torn[c], down[c], o)
                      ELSE LiveShape(client[c], call[c], torn[c], todo[c], written[c], up[c], down[c], o)
  PROVE  Inv'
<1> USE DEF Respond
<1>1. Types'
  <2>1. outcome' = [d \in Clients |-> outcome'[d]] /\ down' = [d \in Clients |-> down'[d]] /\ out' = [d \in Clients |-> out'[d]]
    BY DEF Inv, Types, clientVars
  <2> QED BY <2>1 DEF Inv, Types, clientVars
<1>2. \A d \in Clients \ {c} : Kept(d)
  BY DEF Inv, Types, clientVars, Kept
<1>3. child'[c] = "flush" /\ out'[c] = o /\ closing'[c] = z /\ up'[c] = up[c]
  BY DEF Inv, Types
<1>4. ClientPart(c)'
  BY DEF Inv, Own, ClientPart, clientVars
<1>5. ChildPart(c)'
  BY <1>3 DEF Inv, Own, ChildPart
<1>6. Wire(c)'
  <2>1. Live(c)' <=> ~z
    BY <1>3 DEF Live, ServerClosed
  <2>2. Unserved(c)' = up[c]
    BY <1>3 DEF Unserved
  <2> QED BY <1>3, <2>1, <2>2 DEF Inv, Own, Wire, Session, clientVars
<1> QED BY <1>1, <1>2, <1>4, <1>5, <1>6, OneSlot DEF Own

\* The words that the child has of a connected client fit the call.
LEMMA Serving ==
  ASSUME Inv, NEW c \in Clients, child[c] = "serve", sockfd[c], in[c] # <<>>
  PROVE  /\ client[c] \in {"send", "code"} /\ down[c] = <<>>
         /\ Complete(in[c]) =>
              /\ client[c] = "code" /\ up[c] = <<>> /\ in[c][1] \in 2 .. 6
              /\ ~NotFound(in[c]) /\ (\A x \in LookedUp(in[c]) : Parses(x))
                   => Owed(call[c], torn[c], OutputBuffer(in[c]))
<1>1. Session(c) /\ Live(c) /\ Unserved(c) = in[c] \o up[c] /\ out[c] = <<>>
  BY DEF Inv, Own, Wire, ChildPart, Live, ServerClosed, Unserved
<1>2. LiveShape(client[c], call[c], torn[c], todo[c], written[c], in[c] \o up[c], down[c], <<>>)
  BY <1>1 DEF Session
<1>3. client[c] \in Busy
  BY <1>1 DEF Session, Inv, Types, Busy
<1>4. Request(call[c]) /\ torn[c] \in BOOLEAN /\ todo[c] \in Seq(Word) /\ written[c] \in Nat
  BY RequestsAre DEF Inv, Types
<1>5. in[c] \in Seq(Word) /\ up[c] \in Seq(Word)
  BY DEF Inv, Types
<1>6. /\ client[c] = "send" <=> todo[c] # <<>>
      /\ client[c] # "send" => written[c] = 0
      /\ client[c] = "send" => Left(call[c], torn[c], todo[c], written[c])
  BY DEF Inv, Own, ClientPart
<1> QED BY <1>2, <1>3, <1>4, <1>5, <1>6, ReadyToAnswer

LEMMA HandlerStep == ASSUME Inv, NEW c \in Clients, commandHandler(c) PROVE Inv'
<1>1. child[c] = "serve" /\ Complete(in[c]) /\ in[c] # <<>> /\ \A x \in LookedUp(in[c]) : Parses(x)
  BY DEF commandHandler, Complete
<1>2. sockfd[c] => /\ client[c] = "code" /\ up[c] = <<>> /\ down[c] = <<>> /\ in[c][1] \in 2 .. 6
                   /\ ~NotFound(in[c]) => Owed(call[c], torn[c], OutputBuffer(in[c]))
  BY <1>1, Serving
<1>3. CASE in[c][1] \notin 1 .. 6
  <2>1. Respond(c, <<<<1>>>>, TRUE)
    <3>1. ~NotFound(in[c])
      BY <1>3 DEF NotFound
    <3> QED BY <1>3, <3>1 DEF commandHandler
  <2>2. ~sockfd[c]
    BY <1>2, <1>3
  <2> QED BY <1>1, <2>1, <2>2, AfterResponse
<1>4. CASE in[c][1] \in 1 .. 6 /\ NotFound(in[c])
  <2>1. Respond(c, <<<<2>>>>, TRUE)
    BY <1>4 DEF commandHandler
  <2>2. sockfd[c] => EndShape(client[c], call[c], torn[c], down[c], <<<<2>>>>)
    BY <1>2 DEF EndShape, Error
  <2> QED BY <1>1, <2>1, <2>2, AfterResponse
<1>5. CASE in[c][1] \in 1 .. 6 /\ ~NotFound(in[c])
  <2>1. PICK z \in BOOLEAN : z = (in[c][1] = CMD_EXIT)
    OBVIOUS
  <2>2. PICK o : o = <<<<0>>, OutputBuffer(in[c])>>
    OBVIOUS
  <2>3. Respond(c, o, z)
    BY <1>5, <2>1, <2>2 DEF commandHandler
  <2>4. sockfd[c] => ~z
    <3>1. z => in[c][1] = 1
      BY <2>1 DEF CMD_EXIT
    <3> QED BY <3>1, <1>2
  <2>5. sockfd[c] => Coded(call[c], torn[c], down[c], o)
    BY <1>2, <1>5, <2>2 DEF Coded
  <2>6. sockfd[c] => LiveShape(client[c], call[c], torn[c], todo[c], written[c], up[c], down[c], o)
    BY <1>2, <2>5 DEF LiveShape
  <2> QED BY <1>1, <2>3, <2>4, <2>6, AfterResponse
<1> QED BY <1>3, <1>4, <1>5

LEMMA ThrowStep == ASSUME Inv, NEW c \in Clients, lookupThrows(c) PROVE Inv'
<1>1. child[c] = "serve" /\ in[c] # <<>> /\ Respond(c, <<<<2>>>>, TRUE)
  BY DEF lookupThrows, LookedUp
<1>2. sockfd[c] => client[c] \in {"send", "code"} /\ down[c] = <<>>
  BY <1>1, Serving
<1>3. sockfd[c] => EndShape(client[c], call[c], torn[c], down[c], <<<<2>>>>)
  BY <1>2 DEF EndShape, Error
<1> QED BY <1>1, <1>3, AfterResponse

LEMMA WriteStep == ASSUME Inv, NEW c \in Clients, writeToClient(c) PROVE Inv'
<1> USE DEF writeToClient
<1>1. Types'
  <2>1. outcome' = [d \in Clients |-> outcome'[d]] /\ down' = [d \in Clients |-> down'[d]] /\ out' = [d \in Clients |-> out'[d]]
    BY DEF Inv, Types, clientVars
  <2> QED BY <2>1 DEF Inv, Types, clientVars
<1>2. \A d \in Clients \ {c} : Kept(d)
  BY DEF Inv, Types, clientVars, Kept
<1>3. /\ child[c] = "flush" /\ out[c] # <<>> /\ out'[c] = Tail(out[c])
      /\ down'[c] = IF sockfd[c] THEN down[c] \o Head(out[c]) ELSE down[c]
  BY DEF Inv, Types
<1>4. ClientPart(c)'
  BY DEF Inv, Own, ClientPart, clientVars
<1>5. ChildPart(c)'
  BY <1>3 DEF Inv, Own, ChildPart
<1>6. Wire(c)'
  <2>0. /\ client'[c] = client[c] /\ sockfd'[c] = sockfd[c] /\ call'[c] = call[c] /\ torn'[c] = torn[c]
        /\ todo'[c] = todo[c] /\ written'[c] = written[c]
    BY DEF clientVars
  <2>1. CASE ~sockfd[c]
    BY <2>0, <2>1, <1>3 DEF Inv, Own, Wire
  <2>2. CASE sockfd[c]
    <3>1. Session(c) /\ client[c] \in Busy
      BY <2>2 DEF Inv, Own, Wire, Session, Types, Busy
    <3>2. Live(c)' = Live(c) /\ Unserved(c)' = Unserved(c)
      BY <1>3 DEF Live, ServerClosed, Unserved
    <3>3. /\ LiveShape(client[c], call[c], torn[c], todo[c], written[c], Unserved(c), down[c], out[c])
               => LiveShape(client[c], call[c], torn[c], todo[c], written[c], Unserved(c), down'[c], out'[c])
          /\ EndShape(client[c], call[c], torn[c], down[c], out[c])
               => EndShape(client[c], call[c], torn[c], down'[c], out'[c])
      <4>1. out'[c] = Tail(out[c]) /\ down'[c] = down[c] \o Head(out[c]) /\ out[c] # <<>>
        BY <1>3, <2>2
      <4>2. /\ LiveShape(client[c], call[c], torn[c], todo[c], written[c], Unserved(c), down[c], out[c])
                 => LiveShape(client[c], call[c], torn[c], todo[c], written[c], Unserved(c), down[c] \o Head(out[c]), Tail(out[c]))
            /\ EndShape(client[c], call[c], torn[c], down[c], out[c])
                 => EndShape(client[c], call[c], torn[c], down[c] \o Head(out[c]), Tail(out[c]))
        BY <3>1, <4>1, ShapeAfterWrite, Zenon
      <4> QED BY <4>1, <4>2, Zenon
    <3> QED BY <2>0, <2>2, <3>1, <3>2, <3>3 DEF Wire, Session
  <2> QED BY <2>1, <2>2
<1> QED BY <1>1, <1>2, <1>4, <1>5, <1>6, OneSlot DEF Own

LEMMA OpenedStep == ASSUME Inv, NEW c \in Clients, sessionOpened(c) PROVE Inv'
<1>1. CASE closing[c]
  <2>1. EndChild(c, 0, "none") /\ UNCHANGED <<clientVars, up, down, parent, keyOrder>>
    BY <1>1 DEF sessionOpened
  <2> QED BY <2>1, EndChildStep
<1>2. CASE ~closing[c]
  <2>1. /\ child[c] = "flush" /\ out[c] = <<>>
        /\ child' = [child EXCEPT ![c] = "serve"] /\ in' = [in EXCEPT ![c] = <<>>]
        /\ UNCHANGED <<out, closing, status, assertion>> /\ UNCHANGED <<clientVars, up, down, parent, keyOrder>>
    BY <1>2 DEF sessionOpened
  <2>2. Types'
    <3>1. in' \in [Clients -> Seq(Word)]
      BY <2>1 DEF Inv, Types
    <3> QED BY <2>1, <3>1 DEF Inv, Types, clientVars
  <2>3. \A d \in Clients \ {c} : Kept(d)
    BY <2>1 DEF Inv, Types, clientVars, Kept
  <2>4. ClientPart(c)'
    BY <2>1 DEF Inv, Own, ClientPart, clientVars
  <2>5. ChildPart(c)'
    BY <1>2, <2>1 DEF Inv, Types, Own, ChildPart
  <2>6. Wire(c)'
    <3>1. Live(c)' = Live(c)
      BY <2>1 DEF Live, ServerClosed, Inv, Types
    <3>2. Unserved(c)' = Unserved(c)
      <4>1. Unserved(c)' = <<>> \o up[c] /\ Unserved(c) = up[c]
        BY <2>1 DEF Unserved, Inv, Types
      <4>2. up[c] \in Seq(Word)
        BY DEF Inv, Types
      <4> QED BY <4>1, <4>2, ConcatEmptySeq
    <3> QED BY <2>1, <3>1, <3>2 DEF Inv, Own, Wire, Session, clientVars
  <2> QED BY <2>2, <2>3, <2>4, <2>5, <2>6, OneSlot DEF Own
<1> QED BY <1>1, <1>2

LEMMA ResetStep == ASSUME Inv, NEW c \in Clients, reset(c) PROVE Inv'
<1> USE DEF reset
<1>1. Types'
  <2>1. up' \in [Clients -> Seq(Word)]
    BY DEF Inv, Types
  <2>2. down' = [d \in Clients |-> down'[d]]
    BY DEF Inv, Types
  <2> QED BY <2>1, <2>2 DEF Inv, Types, clientVars, childVars
<1>2. \A d \in Clients \ {c} : Kept(d)
  BY DEF Inv, Types, clientVars, childVars, Kept
<1>3. ClientPart(c)' /\ ChildPart(c)'
  BY DEF Inv, Own, ClientPart, ChildPart, clientVars, childVars
<1>4. Wire(c)'
  <2>1. down'[c] = <<>> /\ out'[c] = <<>> /\ sockfd[c] /\ ServerClosed(c)
    BY DEF Inv, Types, Own, ChildPart, childVars, ServerClosed
  <2>2. client[c] \in Busy
    BY <2>1 DEF Inv, Own, Wire, Session, Types, Busy
  <2>3. Quiet(<<>>, <<>>) /\ ~Live(c)'
    BY <2>1 DEF Quiet, Live, ServerClosed, childVars
  <2>4. EndShape(client[c], call[c], torn[c], <<>>, <<>>)
    BY <2>2, <2>3 DEF EndShape, Busy
  <2> QED BY <2>1, <2>2, <2>3, <2>4 DEF Wire, Session, clientVars, Busy
<1> QED BY <1>1, <1>2, <1>3, <1>4, OneSlot DEF Own

\* Every step of the clients, of the children and of the parent keeps the invariant.
LEMMA AlwaysInv == Spec => []Inv
<1>1. Inv /\ [Next]_vars => Inv'
  <2> SUFFICES ASSUME Inv, [Next]_vars PROVE Inv'
    OBVIOUS
  <2>1. ASSUME NEW c \in Clients, NEW r \in Requests, connect(c, r) \/ connectFails(c, r) PROVE Inv'
    BY <2>1, ConnectStep, NoServerStep
  <2>2. ASSUME NEW c \in Clients, ClientStep(c) \/ writeFails(c) \/ killClient(c) PROVE Inv'
    BY <2>2, SendStep, CodeStep, AnswerStep, EndClientStep DEF ClientStep
  <2>3. ASSUME NEW c \in Clients, disconnect(c) \/ startClient(c) PROVE Inv'
    BY <2>3, DisconnectStep, RestartStep
  <2>4. ASSUME NEW c \in Clients, ChildStep(c) \/ killChild(c) \/ reset(c) PROVE Inv'
    <3>1. CASE clientDisconnected(c)
      BY <3>1, EndChildStep DEF clientDisconnected
    <3>2. CASE lookupAsserts(c)
      BY <3>2, EndChildStep DEF lookupAsserts
    <3>3. CASE writeToClientFails(c)
      BY <3>3, EndChildStep DEF writeToClientFails
    <3>4. CASE killChild(c)
      BY <3>4, EndChildStep DEF killChild
    <3> QED BY <2>4, <3>1, <3>2, <3>3, <3>4, ReadStep, HandlerStep, ThrowStep, WriteStep, OpenedStep, ResetStep
            DEF ChildStep
  <2>5. CASE UNCHANGED vars
    <3>1. Types'
      BY <2>5 DEF vars, clientVars, childVars, Inv, Types
    <3>2. \A d \in Clients : Kept(d)
      BY <2>5 DEF vars, clientVars, childVars, Kept
    <3> QED BY <3>1, <3>2, KeptSlot DEF Inv
  <2> QED BY <2>1, <2>2, <2>3, <2>4, <2>5, ParentStep DEF Next
<1> QED BY <1>1, InitInv, PTL DEF Spec

\* All variables stay in their types, and what belongs to a session goes with it.
THEOREM TypeCorrect == Spec => []TypeOK
<1>1. Inv => TypeOK
  BY DEF Inv, Types, Own, ClientPart, ChildPart, TypeOK
<1> QED BY <1>1, AlwaysInv, PTL

(* ------------------------------ the two ends in step ---------------- *)

\* The words of none, one and two writes.
LEMMA FlattenWrites ==
  ASSUME NEW x, NEW y
  PROVE  FlattenSeq(<<>>) = <<>> /\ FlattenSeq(<<x>>) = x /\ FlattenSeq(<<x, y>>) = x \o y
<1>1. FlattenSeq(<<>>) = <<>>
  BY DEF FlattenSeq
<1>2. FlattenSeq(<<x>>) = x
  <2> DEFINE f == CHOOSE g : g = [i \in 1 .. 1 |-> IF i = 1 THEN <<x>>[i] ELSE g[i - 1] \o <<x>>[i]]
  <2>1. FlattenSeq(<<x>>) = f[1]
    BY DEF FlattenSeq
  <2>2. \E g : g = [i \in 1 .. 1 |-> IF i = 1 THEN <<x>>[i] ELSE g[i - 1] \o <<x>>[i]]
    <3>1. [i \in 1 .. 1 |-> x] = [i \in 1 .. 1 |-> IF i = 1 THEN <<x>>[i] ELSE [j \in 1 .. 1 |-> x][i - 1] \o <<x>>[i]]
      OBVIOUS
    <3> QED BY <3>1
  <2>3. f = [i \in 1 .. 1 |-> IF i = 1 THEN <<x>>[i] ELSE f[i - 1] \o <<x>>[i]]
    BY <2>2
  <2> HIDE DEF f
  <2>4. f[1] = x
    BY <2>3
  <2> QED BY <2>1, <2>4
<1>3. FlattenSeq(<<x, y>>) = x \o y
  <2> DEFINE s == <<x, y>>
             f == CHOOSE g : g = [i \in 1 .. 2 |-> IF i = 1 THEN s[i] ELSE g[i - 1] \o s[i]]
             h == [i \in 1 .. 2 |-> IF i = 1 THEN x ELSE x \o y]
  <2>1. FlattenSeq(s) = f[2]
    BY DEF FlattenSeq
  <2>2. \E g : g = [i \in 1 .. 2 |-> IF i = 1 THEN s[i] ELSE g[i - 1] \o s[i]]
    <3>1. h = [i \in 1 .. 2 |-> IF i = 1 THEN s[i] ELSE h[i - 1] \o s[i]]
      OBVIOUS
    <3> QED BY <3>1
  <2>3. f = [i \in 1 .. 2 |-> IF i = 1 THEN s[i] ELSE f[i - 1] \o s[i]]
    BY <2>2
  <2> HIDE DEF f
  <2>4. f[1] = x /\ f[2] = f[1] \o y
    <3>1. s[1] = x /\ s[2] = y
      OBVIOUS
    <3> HIDE DEF s
    <3>2. 1 \in 1 .. 2 /\ 2 \in 1 .. 2 /\ 2 # 1 /\ 2 - 1 = 1
      OBVIOUS
    <3>3. \A i \in 1 .. 2 : f[i] = IF i = 1 THEN s[i] ELSE f[i - 1] \o s[i]
      BY <2>3, Zenon
    <3>4. f[1] = s[1]
      BY <3>2, <3>3, Zenon
    <3>5. f[2] = f[2 - 1] \o s[2]
      BY <3>2, <3>3, Zenon
    <3> QED BY <3>1, <3>2, <3>4, <3>5, Zenon
  <2> QED BY <2>1, <2>4
<1> QED BY <1>1, <1>2, <1>3

LEMMA PendingIs ==
  ASSUME NEW r, NEW t, NEW d, NEW o
  PROVE  /\ Quiet(d, o) => d \o FlattenSeq(o) = <<>>
         /\ Coded(r, t, d, o) => \E a : Fits(r, a) /\ d \o FlattenSeq(o) = <<0>> \o a
         /\ Bare(r, t, d, o) => Fits(r, d \o FlattenSeq(o))
<1>0. \A a \in Seq(Int) : <<>> \o a = a /\ a \o <<>> = a
  BY ConcatEmptySeq
<1>1. ASSUME Quiet(d, o) PROVE d \o FlattenSeq(o) = <<>>
  <2>1. d = <<>> /\ (o = <<>> \/ o = <<<<>>>>)
    BY <1>1 DEF Quiet
  <2>2. FlattenSeq(<<>>) = <<>> /\ FlattenSeq(<<<<>>>>) = <<>>
    BY FlattenWrites
  <2>3. FlattenSeq(o) = <<>>
    BY <2>1, <2>2
  <2>4. <<>> \in Seq(Int)
    OBVIOUS
  <2> QED BY <2>1, <2>3, <2>4, <1>0
<1>2. ASSUME Coded(r, t, d, o) PROVE \E a : Fits(r, a) /\ d \o FlattenSeq(o) = <<0>> \o a
  <2>1. PICK a : /\ Owed(r, t, a)
                 /\ \/ o = <<<<0>>, a>> /\ d = <<>>
                    \/ o = <<a>> /\ d = <<0>>
                    \/ o = <<>> /\ d = <<0>> \o a
    BY <1>2 DEF Coded
  <2>2. Fits(r, a) /\ a \in Seq(Int) /\ <<0>> \o a \in Seq(Int)
    BY <2>1 DEF Owed, Fits
  <2>3. CASE o = <<<<0>>, a>> /\ d = <<>>
    <3>1. FlattenSeq(o) = <<0>> \o a
      BY <2>3, FlattenWrites
    <3>2. d \o (<<0>> \o a) = <<0>> \o a
      BY <2>2, <2>3, <1>0
    <3> QED BY <2>2, <3>1, <3>2, Zenon
  <2>4. CASE o = <<a>> /\ d = <<0>>
    BY <2>2, <2>4, FlattenWrites
  <2>5. CASE o = <<>> /\ d = <<0>> \o a
    <3>1. FlattenSeq(o) = <<>>
      BY <2>5, FlattenWrites
    <3> QED BY <3>1, <2>2, <2>5, <1>0
  <2> QED BY <2>1, <2>3, <2>4, <2>5
<1>3. ASSUME Bare(r, t, d, o) PROVE Fits(r, d \o FlattenSeq(o))
  <2>1. PICK a : /\ Owed(r, t, a)
                 /\ \/ o = <<a>> /\ d = <<>>
                    \/ o = <<>> /\ d = a
    BY <1>3 DEF Bare
  <2>2. Fits(r, a) /\ a \in Seq(Int)
    BY <2>1 DEF Owed, Fits
  <2>3. CASE o = <<a>> /\ d = <<>>
    BY <2>2, <2>3, <1>0, FlattenWrites
  <2>4. CASE o = <<>> /\ d = a
    <3>1. FlattenSeq(o) = <<>>
      BY <2>4, FlattenWrites
    <3> QED BY <3>1, <2>2, <2>4, <1>0
  <2> QED BY <2>1, <2>3, <2>4
<1> QED BY <1>1, <1>2, <1>3

\* What arrived and what is left make up the message.
LEMMA SentAndLeft ==
  ASSUME NEW r, Request(r), NEW t \in BOOLEAN, NEW rest \in Seq(Word), NEW w \in Nat, NEW u, Sending(r, t, rest, w, u),
         Left(r, t, rest, w)
  PROVE  Len(u) + Len(rest) - w = Len(Message(r)) /\ (t \/ u \o rest = Message(r))
<1>1. PICK m : m = Message(r)
  OBVIOUS
<1>2. PICK l \in Nat : l = Len(m)
  BY <1>1, Lengths
<1>3. PICK k \in Nat : k = Len(rest)
  OBVIOUS
<1>4. m \in Seq(Word) /\ k <= l /\ Len(u) = l - k + w
  BY <1>1, <1>2, <1>3, MessageShape DEF Shape, Left, Sending
<1>5. (l - k + w) + k - w = l
  BY <1>2, <1>3
<1>6. ASSUME ~t PROVE u \o rest = m
  <2>1. u = SubSeq(m, 1, l - k) /\ rest = SubSeq(m, l - k + 1, l)
    BY <1>1, <1>2, <1>3, <1>6 DEF Sending, Left
  <2>2. PICK j \in Nat : j = l - k
    <3>1. l - k \in Nat
      BY <1>2, <1>3, <1>4
    <3> QED BY <3>1
  <2>3. j + k = l /\ 0 + j = j /\ j <= Len(m) /\ l <= Len(m)
    BY <2>2, <1>2, <1>3, <1>4
  <2>4. Part(SubSeq(m, 0 + 1, j), m, 0, j) /\ Part(SubSeq(m, j + 1, l), m, j, k)
    BY <2>3, <1>3, <1>4, PartOf
  <2>5. Part(u, m, 0, j) /\ Part(rest, m, j, k)
    BY <2>1, <2>2, <2>4
  <2>6. PICK v : v = u \o rest
    OBVIOUS
  <2>7. /\ v \in Seq(Word) /\ Len(v) = Len(u) + Len(rest)
        /\ \A i \in 1 .. Len(u) : v[i] = u[i]
        /\ \A i \in Len(u) + 1 .. Len(u) + Len(rest) : v[i] = rest[i - Len(u)]
    <3>1. u \in Seq(Word) /\ rest \in Seq(Word)
      BY <2>5 DEF Part
    <3> QED BY <3>1, <2>6, Joined, Zenon
  <2>8. /\ Len(v) = l
        /\ \A i \in 1 .. j : v[i] = u[i]
        /\ \A i \in j + 1 .. l : v[i] = rest[i - j]
    <3>1. Len(u) = j /\ Len(rest) = k
      BY <2>5 DEF Part
    <3> QED BY <3>1, <2>3, <2>7
  <2>9. ASSUME NEW i \in 1 .. l PROVE v[i] = m[i]
    <3>1. CASE i \in 1 .. j
      BY <3>1, <2>5, <2>8 DEF Part
    <3>2. CASE i \in j + 1 .. l
      <4>1. i - j \in 1 .. k /\ j + (i - j) = i
        BY <3>2, <2>3
      <4> QED BY <4>1, <3>2, <2>5, <2>8 DEF Part
    <3> QED BY <3>1, <3>2
  <2> QED BY <2>6, <2>7, <2>8, <2>9, <1>2, <1>4, SeqEqual
<1> QED BY <1>1, <1>2, <1>3, <1>4, <1>5, <1>6

\* The two ends agree on where a request and its answer end: what the child has to serve and what
\* the client has to write are the words of the call, and the answer has the words that the client
\* reads (recvFromClient and recvFromServer take what sendToServer and writeToClient put).
THEOREM StaysInStep == Spec => []InStep
<1>1. ASSUME Inv, NEW c \in Clients, sockfd[c], ~ServerClosed(c), ~closing[c]
      PROVE  LET words  == Message(call[c])
                 unsent == todo[c]
                 asked  == client[c] = "send" \/ (client[c] = "code" /\ Pending(c) = <<>>)
                 fits(w) == Expects(call[c], w) /\ Consumed(call[c], w) = Len(w)
             IN  IF asked
                 THEN /\ Pending(c) = <<>>
                      /\ Len(Unserved(c)) + Len(unsent) - written[c] = Len(words)
                      /\ torn[c] \/ Unserved(c) \o unsent = words
                 ELSE /\ Unserved(c) = <<>>
                      /\ CASE client[c] = "code" -> Head(Pending(c)) = 0 /\ fits(Tail(Pending(c)))
                           [] client[c] = "data" -> fits(Pending(c))
                           [] client[c] = "idle" -> Pending(c) = <<>>
  <2>1. LiveShape(client[c], call[c], torn[c], todo[c], written[c], Unserved(c), down[c], out[c]) /\ client[c] \in Busy
    BY <1>1 DEF Inv, Own, Wire, Session, Live, Types, Busy
  <2>2. /\ Quiet(down[c], out[c]) => Pending(c) = <<>>
        /\ Coded(call[c], torn[c], down[c], out[c]) => \E a : Fits(call[c], a) /\ Pending(c) = <<0>> \o a
        /\ Bare(call[c], torn[c], down[c], out[c]) => Fits(call[c], Pending(c))
    BY PendingIs DEF Pending
  <2>3. Request(call[c]) /\ todo[c] \in Seq(Word) /\ written[c] \in Nat /\ torn[c] \in BOOLEAN
    BY <1>1, RequestsAre DEF Inv, Types
  <2>4. client[c] \in {"send", "code"} => Left(call[c], torn[c], todo[c], written[c])
    <3>1. CASE client[c] = "send"
      BY <3>1, <1>1 DEF Inv, Own, ClientPart
    <3>2. CASE client[c] = "code"
      <4>1. todo[c] = <<>> /\ written[c] = 0
        BY <3>2, <1>1 DEF Inv, Own, ClientPart
      <4>2. PICK m : m = Message(call[c])
        OBVIOUS
      <4>3. PICK l \in Nat : l = Len(m)
        BY <4>2, <2>3, Lengths
      <4>4. SubSeq(m, l - 0 + 1, l) = <<>> /\ Len(<<>>) = 0
        BY <4>3, SubSeqEmpty
      <4>5. 0 <= IdsOf(call[c]) /\ 0 <= l
        BY <4>3, <2>3, Lengths
      <4> QED BY <4>1, <4>2, <4>3, <4>4, <4>5 DEF Left
    <3> QED BY <3>1, <3>2
  <2>5. client[c] \in {"send", "code"} /\ Sending(call[c], torn[c], todo[c], written[c], Unserved(c)) =>
          /\ Len(Unserved(c)) + Len(todo[c]) - written[c] = Len(Message(call[c]))
          /\ torn[c] \/ Unserved(c) \o todo[c] = Message(call[c])
    <3> SUFFICES ASSUME client[c] \in {"send", "code"},
                        Sending(call[c], torn[c], todo[c], written[c], Unserved(c))
                 PROVE  /\ Len(Unserved(c)) + Len(todo[c]) - written[c] = Len(Message(call[c]))
                        /\ torn[c] \/ Unserved(c) \o todo[c] = Message(call[c])
      OBVIOUS
    <3>1. PICK u, r : u = Unserved(c) /\ r = call[c]
      OBVIOUS
    <3>2. PICK w \in Nat : w = written[c]
      BY <2>3
    <3>3. PICK t \in BOOLEAN : t = torn[c]
      BY <2>3
    <3>4. PICK rest \in Seq(Word) : rest = todo[c]
      BY <2>3
    <3>5. Request(r) /\ Sending(r, t, rest, w, u) /\ Left(r, t, rest, w)
      BY <3>1, <3>2, <3>3, <3>4, <2>3, <2>4
    <3>6. Len(u) + Len(rest) - w = Len(Message(r)) /\ (t \/ u \o rest = Message(r))
      BY <3>5, SentAndLeft
    <3> QED BY <3>1, <3>2, <3>3, <3>4, <3>6
  <2>6. \A a \in Seq(Int) : <<0>> \o a # <<>> /\ Head(<<0>> \o a) = 0 /\ Tail(<<0>> \o a) = a
    OBVIOUS
  <2>7. CASE client[c] = "idle"
    BY <2>1, <2>2, <2>7 DEF LiveShape
  <2>8. CASE client[c] = "send"
    BY <2>1, <2>2, <2>5, <2>8 DEF LiveShape
  <2>9. CASE client[c] = "data"
    BY <2>1, <2>2, <2>9 DEF LiveShape, Fits
  <2>10. CASE client[c] = "code"
    <3>1. CASE Quiet(down[c], out[c]) /\ Sending(call[c], torn[c], todo[c], written[c], Unserved(c))
      BY <3>1, <2>2, <2>5, <2>10
    <3>2. CASE Coded(call[c], torn[c], down[c], out[c]) /\ Unserved(c) = <<>>
      <4>1. PICK a : Fits(call[c], a) /\ Pending(c) = <<0>> \o a
        BY <3>2, <2>2
      <4>2. Pending(c) # <<>> /\ Head(Pending(c)) = 0 /\ Tail(Pending(c)) = a
        BY <4>1, <2>6 DEF Fits
      <4> QED BY <3>2, <4>1, <4>2, <2>10 DEF Fits
    <3> QED BY <3>1, <3>2, <2>1, <2>10 DEF LiveShape
  <2> QED BY <2>1, <2>7, <2>8, <2>9, <2>10 DEF Busy
<1>2. Inv => InStep
  BY <1>1 DEF InStep
<1> QED BY <1>2, AlwaysInv, PTL

(* ------------------------------ the promise ------------------------- *)

\* What IdService sees of a client.
StateOf(s) == CASE s = "gone" -> "ended" [] s = "idle" -> "idle" [] OTHER -> "busy"
State == [c \in Clients |-> StateOf(client[c])]

\* A step of the service, or none, with the state of the client named.
Steps ==
  \/ \E c \in Clients :
       \/ Promise!Begin(c) \/ Promise!NoServer(c) \/ Promise!Tear(c) \/ Promise!Answered(c)
       \/ Promise!Refused(c) \/ Promise!End(c) \/ Promise!Restart(c)
  \/ State' = State /\ UNCHANGED <<call, torn, outcome>>

LEMMA StatesMap ==
  /\ [c \in Clients |-> CASE client[c] = "gone" -> "ended" [] client[c] = "idle" -> "idle" [] OTHER -> "busy"] = State
  /\ Steps => [Promise!Next]_Promise!vars
<1>1. [c \in Clients |-> CASE client[c] = "gone" -> "ended" [] client[c] = "idle" -> "idle" [] OTHER -> "busy"] = State
  BY Zenon DEF State, StateOf
<1>2. State' = State /\ UNCHANGED <<call, torn, outcome>> => UNCHANGED Promise!vars
  BY DEF Promise!vars, State, StateOf
<1> QED BY <1>1, <1>2, Zenon DEF Steps, Promise!Next

\* The state of one client changes.
LEMMA StateStep ==
  ASSUME Inv, NEW c \in Clients, NEW s, client' = [client EXCEPT ![c] = s]
  PROVE  State' = [State EXCEPT ![c] = StateOf(s)] /\ State[c] = StateOf(client[c])
<1>1. client \in [Clients -> {"idle", "send", "code", "data", "gone"}]
  BY DEF Inv, Types
<1>2. client'[c] = s /\ \A d \in Clients : d # c => client'[d] = client[d]
  BY <1>1
<1>3. State' = [d \in Clients |-> StateOf(client'[d])]
  BY Zenon DEF State
<1>4. [State EXCEPT ![c] = StateOf(s)] = [d \in Clients |-> IF d = c THEN StateOf(s) ELSE StateOf(client[d])]
  BY DEF State
<1>5. \A d \in Clients : StateOf(client'[d]) = IF d = c THEN StateOf(s) ELSE StateOf(client[d])
  <2> SUFFICES ASSUME NEW d \in Clients
               PROVE  StateOf(client'[d]) = IF d = c THEN StateOf(s) ELSE StateOf(client[d])
    OBVIOUS
  <2>1. CASE d = c
    BY <2>1, <1>2
  <2>2. CASE d # c
    BY <2>2, <1>2
  <2> QED BY <2>1, <2>2
<1>6. [d \in Clients |-> StateOf(client'[d])] = [d \in Clients |-> IF d = c THEN StateOf(s) ELSE StateOf(client[d])]
  BY <1>5, Zenon
<1>7. State[c] = StateOf(client[c])
  BY DEF State
<1> QED BY <1>3, <1>4, <1>6, <1>7, Zenon

LEMMA StatesAre ==
  /\ StateOf("gone") = "ended" /\ StateOf("idle") = "idle"
  /\ StateOf("send") = "busy" /\ StateOf("code") = "busy" /\ StateOf("data") = "busy"
  BY DEF StateOf

LEMMA SameState == ASSUME client' = client PROVE State' = State
  BY DEF State, StateOf

LEMMA SendRefines == ASSUME Inv, NEW c \in Clients, sendToServer(c) PROVE Steps
<1>1. client[c] = "send" /\ outcome' = outcome /\ call' = call
  BY DEF sendToServer
<1>2. PICK b \in BOOLEAN : torn' = [torn EXCEPT ![c] = @ \/ b]
  <2>1. \E n : torn' = [torn EXCEPT ![c] = @ \/ n < Len(NextWrite(call[c], todo[c]))]
    BY DEF sendToServer
  <2>2. PICK n : torn' = [torn EXCEPT ![c] = @ \/ n < Len(NextWrite(call[c], todo[c]))]
    BY <2>1
  <2>3. CASE n < Len(NextWrite(call[c], todo[c]))
    BY <2>2, <2>3
  <2>4. CASE ~(n < Len(NextWrite(call[c], todo[c])))
    BY <2>2, <2>4
  <2> QED BY <2>3, <2>4
<1>3. torn' = torn \/ torn' = [torn EXCEPT ![c] = TRUE]
  <2>1. torn \in [Clients -> BOOLEAN]
    BY DEF Inv, Types
  <2> QED BY <2>1, <1>2
<1>4. \/ client' = [client EXCEPT ![c] = "gone"]
      \/ client' = [client EXCEPT ![c] = "code"]
      \/ client' = client
  BY DEF sendToServer, EndClient
<1>5. CASE client' = [client EXCEPT ![c] = "gone"]
  <2>1. State' = [State EXCEPT ![c] = "ended"] /\ State[c] # "ended"
    BY <1>1, <1>5, StateStep, StatesAre
  <2>2. Promise!End(c)
    BY <2>1, <1>1, <1>3 DEF Promise!End, State, StateOf
  <2> QED BY <2>2 DEF Steps
<1>6. CASE client' = [client EXCEPT ![c] = "code"] \/ client' = client
  <2>1. State' = State /\ State[c] = "busy"
    <3>1. State[c] = "busy"
      BY <1>1 DEF State, StateOf
    <3>2. CASE client' = [client EXCEPT ![c] = "code"]
      <4>1. State' = [State EXCEPT ![c] = "busy"]
        BY <3>2, StateStep, StatesAre
      <4>2. State = [d \in Clients |-> State[d]]
        BY DEF State
      <4> HIDE DEF State
      <4> QED BY <3>1, <4>1, <4>2
    <3> QED BY <3>1, <3>2, <1>6, SameState
  <2>2. CASE torn' = torn
    BY <2>1, <2>2, <1>1 DEF Steps
  <2>3. CASE torn' = [torn EXCEPT ![c] = TRUE]
    <3>1. Promise!Tear(c)
      BY <2>1, <2>3, <1>1 DEF Promise!Tear, State, StateOf
    <3> QED BY <3>1 DEF Steps
  <2> QED BY <2>2, <2>3, <1>3
<1> QED BY <1>4, <1>5, <1>6

LEMMA CodeRefines == ASSUME Inv, NEW c \in Clients, checkRecvErrorCode(c) PROVE Steps
<1>1. client[c] = "code" /\ UNCHANGED <<call, torn>>
  BY DEF checkRecvErrorCode
<1>2. CASE Head(down[c]) = 0
  <2>1. client' = [client EXCEPT ![c] = "data"] /\ outcome' = outcome
    BY <1>2 DEF checkRecvErrorCode
  <2>2. State' = [State EXCEPT ![c] = "busy"] /\ State[c] = "busy"
    <3>1. State' = [State EXCEPT ![c] = StateOf("data")] /\ State[c] = StateOf("code")
      BY <1>1, <2>1, StateStep
    <3> QED BY <3>1, StatesAre
  <2>3. State = [d \in Clients |-> State[d]]
    BY DEF State
  <2>4. State' = State
    <3> HIDE DEF State
    <3> QED BY <2>2, <2>3
  <2> QED BY <1>1, <2>1, <2>4 DEF Steps
<1>3. CASE Head(down[c]) # 0
  <2>1. /\ client' = [client EXCEPT ![c] = "idle"]
        /\ outcome' = [outcome EXCEPT ![c] = [kind |-> "requestFailed", value |-> <<>>]]
    BY <1>3 DEF checkRecvErrorCode, Outcome
  <2>2. State' = [State EXCEPT ![c] = "idle"] /\ State[c] = "busy"
    <3>1. State' = [State EXCEPT ![c] = StateOf("idle")] /\ State[c] = StateOf("code")
      BY <1>1, <2>1, StateStep
    <3> QED BY <3>1, StatesAre
  <2>3. Promise!Refused(c)
    BY <1>1, <2>1, <2>2 DEF Promise!Refused, State, StateOf
  <2> QED BY <2>3 DEF Steps
<1> QED BY <1>2, <1>3

LEMMA AnswerRefines == ASSUME Inv, NEW c \in Clients, recvAnswer(c) PROVE Steps
<1>1. /\ client[c] = "data" /\ Expects(call[c], down[c]) /\ UNCHANGED <<call, torn>>
      /\ client' = [client EXCEPT ![c] = "idle"]
      /\ outcome' = [outcome EXCEPT ![c] = [kind |-> "answer", value |-> Received(call[c], down[c])]]
  BY DEF recvAnswer
<1>2. sockfd[c] /\ Session(c)
  BY <1>1 DEF Inv, Own, ClientPart, Wire
<1>3. \/ LiveShape("data", call[c], torn[c], todo[c], written[c], Unserved(c), down[c], out[c])
      \/ EndShape("data", call[c], torn[c], down[c], out[c])
  BY <1>1, <1>2 DEF Session
<1>4. Request(call[c]) /\ torn[c] \in BOOLEAN /\ outcome = [d \in Clients |-> outcome[d]]
  BY RequestsAre DEF Inv, Types
<1>5. \E q \in IF torn[c] THEN Promise!Resembling(call[c]) ELSE {call[c]} :
         Promise!IsAnswer(q, Received(call[c], down[c]))
  <2>1. PICK e : e = SubSeq(down[c], Consumed(call[c], down[c]) + 1, Len(down[c]))
    OBVIOUS
  <2>2. Answers(call[c], torn[c], Received(call[c], down[c]))
    <3>1. Expects(call[c], down[c])
      BY <1>1
    <3>2. PICK r, t, d, o : r = call[c] /\ t = torn[c] /\ d = down[c] /\ o = out[c]
      OBVIOUS
    <3>3. \/ LiveShape("data", r, t, todo[c], written[c], Unserved(c), d, o)
          \/ EndShape("data", r, t, d, o)
      BY <3>2, <1>3, Zenon
    <3>4. e = SubSeq(d, Consumed(r, d) + 1, Len(d)) /\ Expects(r, d) /\ Request(r) /\ t \in BOOLEAN
      BY <2>1, <3>1, <3>2, <1>4, Zenon
    <3>5. Answers(r, t, Received(r, d))
      BY <3>3, <3>4, ShapeAfterAnswer, ZenonT(60)
    <3> QED BY <3>2, <3>5, Zenon
  <2> QED BY <2>2, Zenon DEF Answers
<1>6. outcome'[c] = [kind |-> "answer", value |-> Received(call[c], down[c])]
  BY <1>1, <1>4
<1>7. State' = [State EXCEPT ![c] = "idle"] /\ State[c] = "busy"
  <2>1. State' = [State EXCEPT ![c] = StateOf("idle")] /\ State[c] = StateOf("data")
    BY <1>1, StateStep
  <2> QED BY <2>1, StatesAre
<1>8. Promise!Answered(c)
  <2>1. outcome'[c].kind = "answer" /\ outcome'[c].value = Received(call[c], down[c])
    BY <1>6
  <2>2. outcome' = [outcome EXCEPT ![c] = outcome'[c]]
    BY <1>1, <1>6
  <2>3. \E q \in IF torn[c] THEN Promise!Resembling(call[c]) ELSE {call[c]} :
           Promise!IsAnswer(q, outcome'[c].value)
    BY <2>1, <1>5
  <2> QED BY <2>1, <2>2, <2>3, <1>1, <1>7 DEF Promise!Answered, State, StateOf
<1> QED BY <1>8 DEF Steps

LEMMA EndRefines ==
  ASSUME Inv, NEW c \in Clients, recvFromServerFails(c) \/ writeFails(c) \/ killClient(c)
  PROVE  Steps
<1>1. client[c] # "gone" /\ EndClient(c) /\ UNCHANGED <<call, torn, outcome>>
  BY DEF recvFromServerFails, writeFails, killClient
<1>2. client' = [client EXCEPT ![c] = "gone"]
  BY <1>1 DEF EndClient
<1>3. State' = [State EXCEPT ![c] = "ended"] /\ State[c] # "ended"
  <2>1. client[c] \in {"idle", "send", "code", "data"}
    BY <1>1 DEF Inv, Types
  <2>2. StateOf(client[c]) # "ended"
    BY <2>1, StatesAre
  <2>3. State' = [State EXCEPT ![c] = StateOf("gone")] /\ State[c] = StateOf(client[c])
    BY <1>2, StateStep
  <2> QED BY <2>2, <2>3, StatesAre
<1>4. Promise!End(c)
  BY <1>1, <1>3 DEF Promise!End, State, StateOf
<1> QED BY <1>4 DEF Steps

LEMMA CallRefines ==
  ASSUME Inv, NEW c \in Clients, NEW r \in Requests, connect(c, r) \/ connectFails(c, r)
  PROVE  Steps
<1>1. CASE connect(c, r)
  <2>1. /\ client[c] = "idle" /\ client' = [client EXCEPT ![c] = "send"]
        /\ call' = [call EXCEPT ![c] = r] /\ torn' = [torn EXCEPT ![c] = FALSE]
        /\ outcome' = [outcome EXCEPT ![c] = [kind |-> "none", value |-> <<>>]]
    BY <1>1 DEF connect, None
  <2>2. State' = [State EXCEPT ![c] = "busy"] /\ State[c] = "idle"
    BY <2>1, StateStep, StatesAre
  <2>3. Promise!Begin(c)
    BY <2>1, <2>2 DEF Promise!Begin, Promise!NotEnded, State, StateOf
  <2> QED BY <2>3 DEF Steps
<1>2. CASE connectFails(c, r)
  <2>1. /\ client[c] = "idle" /\ client' = client
        /\ call' = [call EXCEPT ![c] = r] /\ torn' = [torn EXCEPT ![c] = FALSE]
        /\ outcome' = [outcome EXCEPT ![c] =
             [kind |-> IF r.cmd \in {"firstId", "firstIdMulti"} THEN "unset" ELSE "noConnection", value |-> <<>>]]
    BY <1>2 DEF connectFails, Outcome
  <2>2. State' = State /\ State[c] = "idle"
    BY <2>1, SameState DEF State, StateOf
  <2>3. Promise!NoServer(c)
    BY <2>1, <2>2 DEF Promise!NoServer, State, StateOf
  <2> QED BY <2>3 DEF Steps
<1> QED BY <1>1, <1>2

LEMMA RestartRefines == ASSUME Inv, NEW c \in Clients, startClient(c) PROVE Steps
<1>1. /\ client[c] = "gone" /\ client' = [client EXCEPT ![c] = "idle"] /\ call' = call
      /\ torn' = [torn EXCEPT ![c] = FALSE] /\ outcome' = [outcome EXCEPT ![c] = [kind |-> "none", value |-> <<>>]]
  BY DEF startClient, None
<1>2. State' = [State EXCEPT ![c] = "idle"] /\ State[c] = "ended"
  BY <1>1, StateStep, StatesAre
<1>3. Promise!Restart(c)
  BY <1>1, <1>2 DEF Promise!Restart, Promise!NotEnded, State, StateOf
<1> QED BY <1>3 DEF Steps

\* The session implements IdService, for any clients, requests and tables of IDs: a call that
\* returns an answer returns the one for its request (recvLongArray and its kin read the words
\* that the handler of that very command wrote), after any calls, errors and lost peers before it.
THEOREM ImplementsPromise == Spec => KeepsPromise
<1>1. Init => Promise!Init
  <2>1. (CHOOSE r \in Requests : TRUE) \in Requests
    BY ProtocolAssumption
  <2> QED BY <2>1 DEF Init, Promise!Init, None, Promise!NotEnded
<1>2. Inv /\ [Next]_vars => [Promise!Next]_Promise!vars
  <2> SUFFICES ASSUME Inv, [Next]_vars PROVE Steps
    BY StatesMap
  <2>1. ASSUME NEW c \in Clients, NEW r \in Requests, connect(c, r) \/ connectFails(c, r) PROVE Steps
    BY <2>1, CallRefines
  <2>2. ASSUME NEW c \in Clients, ClientStep(c) \/ writeFails(c) \/ killClient(c) PROVE Steps
    BY <2>2, SendRefines, CodeRefines, AnswerRefines, EndRefines DEF ClientStep
  <2>3. ASSUME NEW c \in Clients, startClient(c) PROVE Steps
    BY <2>3, RestartRefines
  <2>4. ASSUME UNCHANGED <<client, call, torn, outcome>> PROVE Steps
    BY <2>4, SameState DEF Steps
  <2>5. ASSUME NEW c \in Clients, disconnect(c) PROVE Steps
    BY <2>5, <2>4 DEF disconnect
  <2>6. ASSUME NEW c \in Clients, accept(c) \/ forkFails(c) \/ sigchild_handler(c) PROVE Steps
    BY <2>6, <2>4 DEF accept, forkFails, sigchild_handler, StopListening, clientVars
  <2>7. ASSUME NEW c \in Clients, ChildStep(c) PROVE Steps
    BY <2>7, <2>4 DEF ChildStep, recvFromClient, clientDisconnected, commandHandler, lookupThrows, lookupAsserts,
                      writeToClient, writeToClientFails, sessionOpened, Respond, clientVars
  <2>8. ASSUME NEW c \in Clients, killChild(c) \/ reset(c) PROVE Steps
    BY <2>8, <2>4 DEF killChild, reset, clientVars
  <2>9. CASE killParent \/ startServer \/ UNCHANGED vars
    BY <2>9, <2>4 DEF killParent, startServer, StopListening, vars, clientVars
  <2> QED BY <2>1, <2>2, <2>3, <2>5, <2>6, <2>7, <2>8, <2>9 DEF Next
<1> QED BY <1>1, <1>2, AlwaysInv, PTL DEF Spec, KeepsPromise, Promise!Spec

(* ------------------------------ the parent -------------------------- *)

\* The wait statuses of children: they return 0, or a signal ends them.
WaitStatus == {0, SIGABRT, SIGKILL, SIGPIPE}

IInv == status \in [Clients -> WaitStatus] /\ parent \in {"up", "down", "childpid"}

\* A signal is not part of the exit code.
LEMMA SignalsHaveNoCode == \A s \in WaitStatus : ExitCode(s) = 0
  BY DEF WaitStatus, SIGABRT, SIGKILL, SIGPIPE, ExitCode

\* A child that ends has one of these statuses.
LEMMA EndStep ==
  ASSUME IInv, NEW c \in Clients, NEW s \in WaitStatus, NEW a, EndChild(c, s, a)
  PROVE  status' \in [Clients -> WaitStatus]
  BY DEF IInv, EndChild

\* Every step of the clients, of the children and of the parent keeps the invariant.
LEMMA AlwaysIInv == Spec => []IInv
<1>1. Init => IInv
  BY DEF Init, IInv, WaitStatus
<1>2. IInv /\ [Next]_vars => IInv'
  <2> SUFFICES ASSUME IInv, [Next]_vars PROVE IInv'
    OBVIOUS
  <2>0. {0, SIGABRT, SIGKILL, SIGPIPE} = WaitStatus
    BY DEF WaitStatus
  <2>1. ASSUME NEW c \in Clients, ClientStep(c) PROVE IInv'
    BY <2>1 DEF ClientStep, sendToServer, checkRecvErrorCode, recvAnswer, recvFromServerFails, childVars, IInv
  <2>2. ASSUME NEW c \in Clients, NEW r \in Requests, connect(c, r) \/ connectFails(c, r) PROVE IInv'
    BY <2>2 DEF connect, connectFails, childVars, IInv
  <2>3. ASSUME NEW c \in Clients, writeFails(c) \/ killClient(c) \/ disconnect(c) \/ startClient(c) PROVE IInv'
    BY <2>3 DEF writeFails, killClient, disconnect, startClient, childVars, IInv
  <2>4. ASSUME NEW c \in Clients, accept(c) \/ forkFails(c) PROVE IInv'
    BY <2>4 DEF accept, forkFails, StopListening, IInv
  <2>5. ASSUME NEW c \in Clients, sigchild_handler(c) PROVE IInv'
    BY <2>5, <2>0, SignalsHaveNoCode DEF sigchild_handler, IInv
  <2>6. ASSUME NEW c \in Clients, ChildStep(c) PROVE IInv'
    <3>1. CASE recvFromClient(c)
      BY <3>1 DEF recvFromClient, IInv
    <3>2. CASE clientDisconnected(c)
      BY <3>2, <2>0, EndStep DEF clientDisconnected, IInv
    <3>3. CASE commandHandler(c)
      BY <3>3 DEF commandHandler, Respond, IInv
    <3>4. CASE lookupThrows(c)
      BY <3>4 DEF lookupThrows, Respond, IInv
    <3>5. CASE lookupAsserts(c)
      BY <3>5, <2>0, EndStep DEF lookupAsserts, IInv
    <3>6. CASE writeToClient(c)
      BY <3>6 DEF writeToClient, IInv
    <3>7. CASE writeToClientFails(c)
      BY <3>7, <2>0, EndStep DEF writeToClientFails, IInv
    <3>8. CASE sessionOpened(c)
      BY <3>8, <2>0, EndStep DEF sessionOpened, IInv
    <3> QED BY <2>6, <3>1, <3>2, <3>3, <3>4, <3>5, <3>6, <3>7, <3>8 DEF ChildStep
  <2>7. ASSUME NEW c \in Clients, killChild(c) \/ reset(c) PROVE IInv'
    BY <2>7, <2>0, EndStep DEF killChild, reset, childVars, IInv
  <2>8. CASE killParent \/ startServer
    BY <2>8 DEF killParent, startServer, StopListening, childVars, IInv
  <2>9. CASE UNCHANGED vars
    BY <2>9 DEF vars, childVars, IInv
  <2> QED BY <2>1, <2>2, <2>3, <2>4, <2>5, <2>6, <2>7, <2>8, <2>9 DEF Next
<1> QED BY <1>1, <1>2, PTL DEF Spec

\* However children end, also by the signals of their assertions, the assertion of
\* sigchild_handler on their exit code holds and the parent goes on.
THEOREM ParentGoesOn == Spec => []ParentSurvivesChildren
<1>1. IInv => ParentSurvivesChildren
  BY DEF IInv, ParentSurvivesChildren
<1> QED BY <1>1, AlwaysIInv, PTL
=============================================================================
