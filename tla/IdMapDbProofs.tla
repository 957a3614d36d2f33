--------------------------- MODULE IdMapDbProofs ---------------------------
(***************************************************************************)
(* Proofs about IdMapDb, for every value of its constants.  Type           *)
(* correctness and the absence of false collapses hold for any number of   *)
(* updaters; the assertion of getRecursiveMinId, the minimality of plain   *)
(* reads and what addRow promises of its arguments need that updaters do   *)
(* not run at the same time.                                               *)
(***************************************************************************)
EXTENDS IdMapDb, InductionLemmas, TLAPS

OneUpdater == \A v, w \in Writers : v = w

InAddRow == {"walkMsg", "walkMin", "writeMsg", "writeMin"}

\* No row and no cursor of a loop ever leads to a larger ID.
NeverUp ==
  /\ \A i \in Ids : row[i] <= i
  /\ \A w \in Writers :
       /\ pc[w] = "walkMsg" => cur[w] <= msg[w]
       /\ pc[w] = "walkMin" => found[w] <= msg[w] /\ cur[w] <= min[w]
       /\ pc[w] = "writeMsg" => found[w] <= msg[w] /\ found[w] <= min[w]
       /\ pc[w] = "writeMin" => found[w] <= min[w]
       /\ pc[w] \in {"walkScan", "writeScan"} => cur[w] <= scan[w]
  /\ \A r \in Readers : \A i \in Ids : reply[r][i] <= i

\* The pair of a running addRow has been recorded.
PairAsked == \A w \in Writers : pc[w] \in InAddRow => {msg[w], min[w]} \in asked

\* Neither a row, nor a loop of an updater, nor an answer crosses the border of S.
StaysIn(S) ==
  /\ \A i \in Ids : row[i] # 0 => (i \in S <=> row[i] \in S)
  /\ \A w \in Writers :
       /\ pc[w] = "walkMsg" => (msg[w] \in S <=> cur[w] \in S)
       /\ pc[w] = "walkMin" =>
            (msg[w] \in S <=> found[w] \in S) /\ (min[w] \in S <=> cur[w] \in S)
       /\ pc[w] \in {"writeMsg", "writeMin"} =>
            (msg[w] \in S <=> found[w] \in S) /\ (min[w] \in S <=> found[w] \in S)
       /\ pc[w] \in {"walkScan", "writeScan"} => (scan[w] \in S <=> cur[w] \in S)
  /\ \A r \in Readers : \A i \in Ids : (i \in S <=> reply[r][i] \in S)

CutInv == \A S \in SUBSET Ids : Respects(S) => StaysIn(S)

IInv == TypeOK /\ NeverUp /\ PairAsked /\ CutInv

\* With one updater at a time: its mapping covers the whole file, links go strictly down,
\* and the rows that the normalization has passed lead to their minimum in one step.
Flat(i) == row[i] # 0 => row[row[i]] = 0

SoleInv ==
  /\ \A w \in Writers : pc[w] # "closed" => len[w] = fileLen
  /\ \A i \in Ids : row[i] # 0 => row[i] < i
  /\ \A w \in Writers :
       /\ pc[w] # "assertLoop"
       /\ pc[w] \in {"scan", "walkScan", "writeScan"} => \A i \in Ids : i < scan[w] => Flat(i)
       /\ pc[w] = "writeScan" => row[cur[w]] = 0
       /\ pc[w] \in {"walkScan", "writeScan"} => (row[scan[w]] = 0 => cur[w] = scan[w])
  /\ normal => \A i \in Ids : Flat(i)
-----------------------------------------------------------------------------
\* The growth of the file covers the row it is grown for.
LEMMA RoundUpCovers ==
  ASSUME NEW n \in Nat PROVE RoundUp(n) \in Nat /\ n <= RoundUp(n)
<1> DEFINE q == (n + Chunk - 1) \div Chunk
<1>1. Chunk \in Nat /\ Chunk >= 1
  BY ConstantsAssumption
<1>2. q \in Nat /\ Chunk * q <= n + Chunk - 1 /\ n + Chunk - 1 < Chunk * q + Chunk
  BY <1>1, SMTT(30)
<1>3. Chunk * q = q * Chunk /\ q * Chunk \in Nat
  BY <1>1, <1>2, SMTT(30)
<1> HIDE DEF q
<1>4. n <= q * Chunk
  BY <1>1, <1>2, <1>3
<1> QED BY <1>3, <1>4 DEF RoundUp, q

\* What writeRow does: nothing to the rows, or one row set, in a file that covers it.
WriteEffect(w, i, to, then) ==
  /\ \/ row' = row /\ fileLen' = fileLen /\ len' = len /\ normal' = normal
     \/ /\ i # to /\ i >= FirstId
        /\ row' = [row EXCEPT ![i] = to]
        /\ fileLen' \in Nat /\ fileLen <= fileLen' /\ i < fileLen'
        /\ len' \in [Procs -> Nat]
        /\ \A p \in Procs : len[p] <= len'[p] /\ len'[p] <= fileLen'
        /\ \A p \in Procs \ {w} : len'[p] = len[p]
        /\ len[w] = fileLen => len'[w] = fileLen'
        /\ normal' = FALSE
  /\ \/ pc' = [pc EXCEPT ![w] = then]
     \/ pc' = [pc EXCEPT ![w] = "assertRange"]

\* writeRow has that effect, or fails its assertion and has none.
LEMMA WriteRowEffect ==
  ASSUME TypeOK, NEW w \in Writers, NEW i \in Ids, NEW to \in Ids,
         NEW then \in {"writeMin", "idle"}, writeRow(w, i, to, then)
  PROVE  WriteEffect(w, i, to, then)
<1> USE DEF WriteEffect
<1>1. CASE i = to
  BY <1>1 DEF writeRow, fileVars
<1>2. CASE i # to /\ i < FirstId
  BY <1>2 DEF writeRow, fileVars
<1>3. CASE i # to /\ ~(i < FirstId)
  <2> DEFINE m == RoundUp(i + 1)
  <2>1. m \in Nat /\ i + 1 <= m
    BY RoundUpCovers DEF Ids
  <2>2. /\ len' = [len EXCEPT ![w] = IF i < len[w] THEN len[w] ELSE m]
        /\ fileLen' = fileLen + (len'[w] - len[w])
        /\ row' = [row EXCEPT ![i] = to] /\ normal' = FALSE
        /\ pc' = [pc EXCEPT ![w] = then]
    BY <1>3 DEF writeRow
  <2>3. /\ w \in Procs /\ len \in [Procs -> Nat] /\ fileLen \in Nat
        /\ \A p \in Procs : len[p] <= fileLen /\ len[p] \in Nat
    BY DEF TypeOK, Types, Ranges, Procs
  <2> HIDE DEF m
  <2>4. /\ len' \in [Procs -> Nat] /\ len'[w] \in Nat /\ len[w] <= len'[w] /\ i < len'[w]
        /\ \A p \in Procs \ {w} : len'[p] = len[p]
    BY <2>1, <2>2, <2>3 DEF Ids
  <2>5. fileLen' \in Nat /\ fileLen <= fileLen' /\ len'[w] <= fileLen'
    BY <2>2, <2>3, <2>4
  <2>6. i < fileLen' /\ (len[w] = fileLen => len'[w] = fileLen')
    BY <2>2, <2>3, <2>4, <2>5 DEF Ids
  <2>7. \A p \in Procs : len[p] <= len'[p] /\ len'[p] <= fileLen'
    BY <2>3, <2>4, <2>5
  <2>8. i >= FirstId
    BY <1>3, ConstantsAssumption DEF Ids
  <2> QED BY <1>3, <2>2, <2>4, <2>5, <2>6, <2>7, <2>8
<1> QED BY <1>1, <1>2, <1>3
-----------------------------------------------------------------------------
\* What the assumptions on the constants say of the IDs.
LEMMA IdFacts ==
  /\ 0 \in Ids /\ FirstId \in Nat \ {0} /\ LastId \in Nat /\ FirstId <= LastId
  /\ \A i \in Ids : i \in Nat /\ i <= LastId
  /\ \A i \in FirstId..(LastId + 1) : i <= LastId => i \in Ids
  /\ \A i \in ArgIds : i \in Ids
  /\ \A ids \in Requests : ids \in SUBSET Ids
BY ConstantsAssumption DEF Ids

\* A type-correct state stays type-correct, whoever takes the step.
LEMMA TypeStep == TypeOK /\ [Next]_vars => TypeOK'
<1> SUFFICES ASSUME TypeOK, [Next]_vars PROVE TypeOK'
  OBVIOUS
<1> USE IdFacts DEF Procs, TypeOK, States, Busy, Walking, Failed
<1>1. ASSUME NEW p \in Procs, Open(p)
      PROVE TypeOK'
  <2>1. Types'
    BY <1>1 DEF Types, Open, fileVars, writerVars, readerVars, history
  <2>2. Ranges'
    BY <1>1 DEF Types, Ranges, Open, fileVars, writerVars, readerVars, history
  <2> QED BY <2>1, <2>2
<1>2. ASSUME NEW p \in Procs, Exit(p)
      PROVE TypeOK'
  <2>1. Types'
    <3>1. CASE p \in Writers /\ ForgetCall(p) /\ UNCHANGED readerVars
      BY <1>2, <3>1 DEF Types, Exit, ForgetCall, fileVars, readerVars, history
    <3>2. CASE p \in Readers /\ ForgetRequest(p) /\ UNCHANGED writerVars
      BY <1>2, <3>2 DEF Types, Exit, ForgetRequest, fileVars, writerVars, history
    <3> QED BY <1>2, <3>1, <3>2 DEF Exit
  <2>2. Ranges'
    BY <1>2 DEF Types, Ranges, Exit, ForgetCall, ForgetRequest, fileVars, writerVars, readerVars, history
  <2> QED BY <2>1, <2>2
<1>3. ASSUME NEW w \in Writers, NEW a \in ArgIds, NEW b \in ArgIds, addRow(w, a, b)
      PROVE TypeOK'
  <2>1. Types'
    BY <1>3 DEF Types, addRow, fileVars, readerVars
  <2>2. Ranges'
    BY <1>3 DEF Types, Ranges, addRow, fileVars, readerVars
  <2> QED BY <2>1, <2>2
<1>4. ASSUME NEW w \in Writers, getRecursiveMinIdStep(w)
      PROVE TypeOK'
  <2>1. Types'
    BY <1>4 DEF Types, getRecursiveMinIdStep, getRowConst, fileVars, readerVars, history
  <2>2. Ranges'
    BY <1>4 DEF Types, Ranges, getRecursiveMinIdStep, getRowConst, fileVars, readerVars, history
  <2> QED BY <2>1, <2>2
<1>5. ASSUME NEW w \in Writers, getRecursiveMinIdReturn(w)
      PROVE TypeOK'
  <2>1. Types'
    BY <1>5 DEF Types, getRecursiveMinIdReturn, Smaller, fileVars, readerVars, history
  <2>2. Ranges'
    BY <1>5 DEF Types, Ranges, getRecursiveMinIdReturn, Smaller, fileVars, readerVars, history
  <2> QED BY <2>1, <2>2
<1>6. ASSUME NEW w \in Writers, addRowWriteMsg(w)
      PROVE TypeOK'
  <2> msg[w] \in Ids /\ found[w] \in Ids
    BY DEF Types
  <2>0. WriteEffect(w, msg[w], found[w], "writeMin")
    BY <1>6, WriteRowEffect DEF addRowWriteMsg
  <2>1. Types'
    BY <1>6, <2>0 DEF WriteEffect, Types, addRowWriteMsg, writerVars, readerVars
  <2>2. Ranges'
    BY <1>6, <2>0 DEF WriteEffect, Types, Ranges, addRowWriteMsg, writerVars, readerVars
  <2> QED BY <2>1, <2>2
<1>7. ASSUME NEW w \in Writers, addRowWriteMin(w)
      PROVE TypeOK'
  <2> min[w] \in Ids /\ found[w] \in Ids
    BY DEF Types
  <2>0. WriteEffect(w, min[w], found[w], "idle")
    BY <1>7, WriteRowEffect DEF addRowWriteMin
  <2>1. Types'
    <3>1. /\ row' \in [Ids -> Ids] /\ fileLen' \in Nat /\ len' \in [Procs -> Nat]
          /\ pc' \in [Procs -> States] /\ normal' \in BOOLEAN
      BY <2>0 DEF WriteEffect, Types
    <3>2. /\ msg' \in [Writers -> Ids] /\ min' \in [Writers -> Ids]
          /\ cur' \in [Writers -> Ids] /\ found' \in [Writers -> Ids]
          /\ scan' \in [Writers -> FirstId..(LastId + 1)]
      BY <1>7 DEF Types, addRowWriteMin, ForgetCall
    <3> QED BY <1>7, <3>1, <3>2 DEF Types, addRowWriteMin, readerVars
  <2>2. Ranges'
    BY <1>7, <2>0 DEF WriteEffect, Types, Ranges, addRowWriteMin, ForgetCall, readerVars
  <2> QED BY <2>1, <2>2
<1>8. ASSUME NEW w \in Writers, normalizeDatabase(w)
      PROVE TypeOK'
  <2>1. Types'
    BY <1>8 DEF Types, normalizeDatabase, fileVars, readerVars, history
  <2>2. Ranges'
    BY <1>8 DEF Types, Ranges, normalizeDatabase, fileVars, readerVars, history
  <2> QED BY <2>1, <2>2
<1>9. ASSUME NEW w \in Writers, normalizeRow(w)
      PROVE TypeOK'
  <2>1. Types'
    BY <1>9 DEF Types, normalizeRow, InScan, fileVars, readerVars, history
  <2>2. Ranges'
    BY <1>9 DEF Types, Ranges, normalizeRow, InScan, fileVars, readerVars, history
  <2> QED BY <2>1, <2>2
<1>10. ASSUME NEW w \in Writers, normalizeWrite(w)
      PROVE TypeOK'
  <2>0. scan[w] \in Ids /\ scan[w] + 1 \in FirstId..(LastId + 1)
    BY <1>10 DEF Types, Ranges, normalizeWrite
  <2>1. Types'
    BY <1>10, <2>0 DEF Types, normalizeWrite, readerVars
  <2>2. Ranges'
    BY <1>10 DEF Types, Ranges, normalizeWrite, NeedsRewrite, readerVars
  <2> QED BY <2>1, <2>2
<1>11. ASSUME NEW w \in Writers, normalizeEnd(w)
      PROVE TypeOK'
  <2>1. Types'
    BY <1>11 DEF Types, normalizeEnd, ForgetCall, fileVars, readerVars
  <2>2. Ranges'
    BY <1>11 DEF Types, Ranges, normalizeEnd, ForgetCall, fileVars, readerVars
  <2> QED BY <2>1, <2>2
<1>12. ASSUME NEW r \in Readers, NEW ids \in Requests, Request(r, ids)
      PROVE TypeOK'
  <2>1. Types'
    BY <1>12 DEF Types, Request, fileVars, writerVars, history
  <2>2. Ranges'
    BY <1>12 DEF Types, Ranges, Request, fileVars, writerVars, history
  <2> QED BY <2>1, <2>2
<1>13. ASSUME NEW r \in Readers, LookUp(r)
      PROVE TypeOK'
  <2>1. Types'
    BY <1>13 DEF Types, LookUp, getPlainMinId, getRowConst, fileVars, writerVars, history
  <2>2. Ranges'
    BY <1>13 DEF Types, Ranges, LookUp, getPlainMinId, getRowConst, fileVars, writerVars, history
  <2> QED BY <2>1, <2>2
<1>14. ASSUME NEW r \in Readers, Respond(r)
      PROVE TypeOK'
  <2>1. Types'
    BY <1>14 DEF Types, Respond, ForgetRequest, fileVars, writerVars, history
  <2>2. Ranges'
    BY <1>14 DEF Types, Ranges, Respond, ForgetRequest, fileVars, writerVars, history
  <2> QED BY <2>1, <2>2
<1>15. CASE UNCHANGED vars
  BY <1>15 DEF Types, Ranges, vars
<1> QED
  BY <1>1, <1>2, <1>3, <1>4, <1>5, <1>6, <1>7, <1>8, <1>9, <1>10, <1>11, <1>12, <1>13,
     <1>14, <1>15 DEF Next, WriterStep, ReaderStep

\* The variables keep their types, the scan its range, and the rows lie inside the file.
THEOREM TypeCorrect == Spec => []TypeOK
<1>1. Init => TypeOK
  BY ConstantsAssumption DEF Init, TypeOK, Types, Ranges, Ids, Procs, States, Busy, Walking, Failed
<1> QED BY <1>1, TypeStep, PTL DEF Spec
-----------------------------------------------------------------------------
\* No step makes a row or a cursor lead upwards.
LEMMA NeverUpStep == TypeOK /\ NeverUp /\ [Next]_vars => NeverUp'
<1> SUFFICES ASSUME TypeOK, NeverUp, [Next]_vars PROVE NeverUp'
  OBVIOUS
<1> USE IdFacts DEF Procs, TypeOK, Types, NeverUp, Walking
<1>1. ASSUME NEW p \in Procs, Open(p)
      PROVE NeverUp'
  BY <1>1 DEF Open, fileVars, writerVars, readerVars, history
<1>2. ASSUME NEW p \in Procs, Exit(p)
      PROVE NeverUp'
  <2>1. CASE p \in Writers /\ ForgetCall(p) /\ UNCHANGED readerVars
    BY <1>2, <2>1 DEF Exit, ForgetCall, fileVars, readerVars, history
  <2>2. CASE p \in Readers /\ ForgetRequest(p) /\ UNCHANGED writerVars
    BY <1>2, <2>2 DEF Exit, ForgetRequest, fileVars, writerVars, history
  <2> QED BY <1>2, <2>1, <2>2 DEF Exit
<1>3. ASSUME NEW w \in Writers, NEW a \in ArgIds, NEW b \in ArgIds, addRow(w, a, b)
      PROVE NeverUp'
  BY <1>3 DEF addRow, fileVars, readerVars
<1>4. ASSUME NEW w \in Writers, getRecursiveMinIdStep(w)
      PROVE NeverUp'
  BY <1>4 DEF getRecursiveMinIdStep, getRowConst, fileVars, readerVars, history
<1>5. ASSUME NEW w \in Writers, getRecursiveMinIdReturn(w)
      PROVE NeverUp'
  BY <1>5 DEF getRecursiveMinIdReturn, Smaller, fileVars, readerVars, history
<1>6. ASSUME NEW w \in Writers, addRowWriteMsg(w)
      PROVE NeverUp'
  <2>1. WriteEffect(w, msg[w], found[w], "writeMin")
    BY <1>6, WriteRowEffect DEF addRowWriteMsg, TypeOK, Types
  <2>2. \A i \in Ids : row'[i] <= i
    <3>1. found[w] <= msg[w]
      BY <1>6 DEF addRowWriteMsg
    <3>2. row' = row \/ row' = [row EXCEPT ![msg[w]] = found[w]]
      BY <2>1 DEF WriteEffect
    <3> QED BY <3>1, <3>2
  <2>3. /\ pc' \in [Writers \cup Readers -> States]
        /\ pc'[w] \in {"writeMin", "assertRange"}
        /\ \A v \in Writers \ {w} : pc'[v] = pc[v]
    BY <2>1 DEF WriteEffect, States, Busy, Failed
  <2> QED BY <1>6, <2>2, <2>3 DEF addRowWriteMsg, writerVars, readerVars
<1>7. ASSUME NEW w \in Writers, addRowWriteMin(w)
      PROVE NeverUp'
  <2>1. WriteEffect(w, min[w], found[w], "idle")
    BY <1>7, WriteRowEffect DEF addRowWriteMin, TypeOK, Types
  <2>2. \A i \in Ids : row'[i] <= i
    <3>1. found[w] <= min[w]
      BY <1>7 DEF addRowWriteMin
    <3>2. row' = row \/ row' = [row EXCEPT ![min[w]] = found[w]]
      BY <2>1 DEF WriteEffect
    <3> QED BY <3>1, <3>2
  <2>3. /\ pc' \in [Writers \cup Readers -> States]
        /\ pc'[w] \in {"idle", "assertRange"}
        /\ \A v \in Writers \ {w} : pc'[v] = pc[v]
    BY <2>1 DEF WriteEffect, States, Busy, Failed
  <2> QED BY <1>7, <2>2, <2>3 DEF addRowWriteMin, ForgetCall, readerVars
<1>8. ASSUME NEW w \in Writers, normalizeDatabase(w)
      PROVE NeverUp'
  BY <1>8 DEF normalizeDatabase, fileVars, readerVars, history
<1>9. ASSUME NEW w \in Writers, normalizeRow(w)
      PROVE NeverUp'
  BY <1>9 DEF normalizeRow, InScan, fileVars, readerVars, history
<1>10. ASSUME NEW w \in Writers, normalizeWrite(w)
      PROVE NeverUp'
  BY <1>10 DEF normalizeWrite, NeedsRewrite, readerVars
<1>11. ASSUME NEW w \in Writers, normalizeEnd(w)
      PROVE NeverUp'
  BY <1>11 DEF normalizeEnd, ForgetCall, fileVars, readerVars
<1>12. ASSUME NEW r \in Readers, NEW ids \in Requests, Request(r, ids)
      PROVE NeverUp'
  BY <1>12 DEF Request, fileVars, writerVars, history
<1>13. ASSUME NEW r \in Readers, LookUp(r)
      PROVE NeverUp'
  BY <1>13 DEF LookUp, getPlainMinId, getRowConst, fileVars, writerVars, history
<1>14. ASSUME NEW r \in Readers, Respond(r)
      PROVE NeverUp'
  BY <1>14 DEF Respond, ForgetRequest, fileVars, writerVars, history
<1>15. CASE UNCHANGED vars
  BY <1>15 DEF vars
<1> QED
  BY <1>1, <1>2, <1>3, <1>4, <1>5, <1>6, <1>7, <1>8, <1>9, <1>10, <1>11, <1>12, <1>13,
     <1>14, <1>15 DEF Next, WriterStep, ReaderStep

\* A running addRow has recorded its pair, and the record only grows.
LEMMA PairStep == TypeOK /\ PairAsked /\ [Next]_vars => PairAsked' /\ asked \subseteq asked'
<1> SUFFICES ASSUME TypeOK, PairAsked, [Next]_vars PROVE PairAsked' /\ asked \subseteq asked'
  OBVIOUS
<1> USE IdFacts DEF Procs, TypeOK, Types, PairAsked, InAddRow, Walking
<1>1. ASSUME NEW p \in Procs, Open(p)
      PROVE PairAsked' /\ asked \subseteq asked'
  BY <1>1 DEF Open, fileVars, writerVars, readerVars, history
<1>2. ASSUME NEW p \in Procs, Exit(p)
      PROVE PairAsked' /\ asked \subseteq asked'
  BY <1>2 DEF Exit, ForgetCall, ForgetRequest, fileVars, writerVars, readerVars, history
<1>3. ASSUME NEW w \in Writers, NEW a \in ArgIds, NEW b \in ArgIds, addRow(w, a, b)
      PROVE PairAsked' /\ asked \subseteq asked'
  BY <1>3 DEF addRow, fileVars, readerVars
<1>4. ASSUME NEW w \in Writers, getRecursiveMinIdStep(w)
      PROVE PairAsked' /\ asked \subseteq asked'
  BY <1>4 DEF getRecursiveMinIdStep, getRowConst, fileVars, readerVars, history
<1>5. ASSUME NEW w \in Writers, getRecursiveMinIdReturn(w)
      PROVE PairAsked' /\ asked \subseteq asked'
  BY <1>5 DEF getRecursiveMinIdReturn, Smaller, fileVars, readerVars, history
<1>6. ASSUME NEW w \in Writers, addRowWriteMsg(w)
      PROVE PairAsked' /\ asked \subseteq asked'
  <2>1. WriteEffect(w, msg[w], found[w], "writeMin")
    BY <1>6, WriteRowEffect DEF addRowWriteMsg, TypeOK, Types
  <2> QED BY <1>6, <2>1 DEF WriteEffect, addRowWriteMsg, writerVars, readerVars
<1>7. ASSUME NEW w \in Writers, addRowWriteMin(w)
      PROVE PairAsked' /\ asked \subseteq asked'
  <2>1. WriteEffect(w, min[w], found[w], "idle")
    BY <1>7, WriteRowEffect DEF addRowWriteMin, TypeOK, Types
  <2> QED BY <1>7, <2>1 DEF WriteEffect, addRowWriteMin, ForgetCall, readerVars
<1>8. ASSUME NEW w \in Writers, normalizeDatabase(w)
      PROVE PairAsked' /\ asked \subseteq asked'
  BY <1>8 DEF normalizeDatabase, fileVars, readerVars, history
<1>9. ASSUME NEW w \in Writers, normalizeRow(w)
      PROVE PairAsked' /\ asked \subseteq asked'
  BY <1>9 DEF normalizeRow, InScan, fileVars, readerVars, history
<1>10. ASSUME NEW w \in Writers, normalizeWrite(w)
      PROVE PairAsked' /\ asked \subseteq asked'
  BY <1>10 DEF normalizeWrite, NeedsRewrite, readerVars
<1>11. ASSUME NEW w \in Writers, normalizeEnd(w)
      PROVE PairAsked' /\ asked \subseteq asked'
  BY <1>11 DEF normalizeEnd, ForgetCall, fileVars, readerVars
<1>12. ASSUME NEW r \in Readers, NEW ids \in Requests, Request(r, ids)
      PROVE PairAsked' /\ asked \subseteq asked'
  BY <1>12 DEF Request, fileVars, writerVars, history
<1>13. ASSUME NEW r \in Readers, LookUp(r)
      PROVE PairAsked' /\ asked \subseteq asked'
  BY <1>13 DEF LookUp, getPlainMinId, getRowConst, fileVars, writerVars, history
<1>14. ASSUME NEW r \in Readers, Respond(r)
      PROVE PairAsked' /\ asked \subseteq asked'
  BY <1>14 DEF Respond, ForgetRequest, fileVars, writerVars, history
<1>15. CASE UNCHANGED vars
  BY <1>15 DEF vars
<1> QED
  BY <1>1, <1>2, <1>3, <1>4, <1>5, <1>6, <1>7, <1>8, <1>9, <1>10, <1>11, <1>12, <1>13,
     <1>14, <1>15 DEF Next, WriterStep, ReaderStep

\* A set that separates no pair of the next state is left by no row of the next state.
LEMMA StaysInStep ==
  ASSUME TypeOK, PairAsked, [Next]_vars, NEW S \in SUBSET Ids, Respects(S)', StaysIn(S)
  PROVE  StaysIn(S)'
<1> USE IdFacts DEF Procs, TypeOK, Types, StaysIn, Walking
<1>1. ASSUME NEW p \in Procs, Open(p)
      PROVE StaysIn(S)'
  BY <1>1 DEF Open, fileVars, writerVars, readerVars, history
<1>2. ASSUME NEW p \in Procs, Exit(p)
      PROVE StaysIn(S)'
  <2>1. CASE p \in Writers /\ ForgetCall(p) /\ UNCHANGED readerVars
    BY <1>2, <2>1 DEF Exit, ForgetCall, fileVars, readerVars, history
  <2>2. CASE p \in Readers /\ ForgetRequest(p) /\ UNCHANGED writerVars
    BY <1>2, <2>2 DEF Exit, ForgetRequest, fileVars, writerVars, history
  <2> QED BY <1>2, <2>1, <2>2 DEF Exit
<1>3. ASSUME NEW w \in Writers, NEW a \in ArgIds, NEW b \in ArgIds, addRow(w, a, b)
      PROVE StaysIn(S)'
  BY <1>3 DEF addRow, fileVars, readerVars
<1>4. ASSUME NEW w \in Writers, getRecursiveMinIdStep(w)
      PROVE StaysIn(S)'
  BY <1>4 DEF getRecursiveMinIdStep, getRowConst, fileVars, readerVars, history
<1>5. ASSUME NEW w \in Writers, getRecursiveMinIdReturn(w)
      PROVE StaysIn(S)'
  <2>1. CASE pc[w] = "walkMsg"
    BY <1>5, <2>1 DEF getRecursiveMinIdReturn, fileVars, readerVars, history
  <2>2. CASE pc[w] = "walkMin"
    <3>1. msg[w] \in S <=> min[w] \in S
      <4>1. {msg[w], min[w]} \in asked'
        BY <1>5, <2>2 DEF getRecursiveMinIdReturn, history, PairAsked, InAddRow
      <4>2. \A e \in asked' : \A i, j \in e : i \in S <=> j \in S
        BY Zenon DEF Respects
      <4>3. msg[w] \in {msg[w], min[w]} /\ min[w] \in {msg[w], min[w]}
        OBVIOUS
      <4> QED BY <4>1, <4>2, <4>3, Zenon
    <3>2. found'[w] \in {found[w], cur[w]} /\ found' = [found EXCEPT ![w] = found'[w]]
      BY <1>5, <2>2 DEF getRecursiveMinIdReturn, Smaller
    <3>3. pc' = [pc EXCEPT ![w] = "writeMsg"] /\ cur' = cur
      BY <1>5, <2>2 DEF getRecursiveMinIdReturn
    <3> QED BY <1>5, <2>2, <3>1, <3>2, <3>3
         DEF getRecursiveMinIdReturn, fileVars, readerVars, history
  <2>3. CASE pc[w] = "walkScan"
    BY <1>5, <2>3 DEF getRecursiveMinIdReturn, fileVars, readerVars, history
  <2> QED BY <1>5, <2>1, <2>2, <2>3 DEF getRecursiveMinIdReturn
<1>6. ASSUME NEW w \in Writers, addRowWriteMsg(w)
      PROVE StaysIn(S)'
  <2>1. WriteEffect(w, msg[w], found[w], "writeMin")
    BY <1>6, WriteRowEffect DEF addRowWriteMsg, TypeOK, Types
  <2>2. \A i \in Ids : row'[i] # 0 => (i \in S <=> row'[i] \in S)
    BY <1>6, <2>1 DEF WriteEffect, addRowWriteMsg
  <2>3. /\ pc' \in [Writers \cup Readers -> States]
        /\ pc'[w] \in {"writeMin", "assertRange"}
        /\ \A v \in Writers \ {w} : pc'[v] = pc[v]
    BY <2>1 DEF WriteEffect, States, Busy, Failed
  <2> QED BY <1>6, <2>2, <2>3 DEF addRowWriteMsg, writerVars, readerVars
<1>7. ASSUME NEW w \in Writers, addRowWriteMin(w)
      PROVE StaysIn(S)'
  <2>1. WriteEffect(w, min[w], found[w], "idle")
    BY <1>7, WriteRowEffect DEF addRowWriteMin, TypeOK, Types
  <2>2. \A i \in Ids : row'[i] # 0 => (i \in S <=> row'[i] \in S)
    BY <1>7, <2>1 DEF WriteEffect, addRowWriteMin
  <2>3. /\ pc' \in [Writers \cup Readers -> States]
        /\ pc'[w] \in {"idle", "assertRange"}
        /\ \A v \in Writers \ {w} : pc'[v] = pc[v]
    BY <2>1 DEF WriteEffect, States, Busy, Failed
  <2> QED BY <1>7, <2>2, <2>3 DEF addRowWriteMin, ForgetCall, readerVars
<1>8. ASSUME NEW w \in Writers, normalizeDatabase(w)
      PROVE StaysIn(S)'
  BY <1>8 DEF normalizeDatabase, fileVars, readerVars, history
<1>9. ASSUME NEW w \in Writers, normalizeRow(w)
      PROVE StaysIn(S)'
  BY <1>9 DEF normalizeRow, InScan, fileVars, readerVars, history
<1>10. ASSUME NEW w \in Writers, normalizeWrite(w)
      PROVE StaysIn(S)'
  BY <1>10 DEF normalizeWrite, NeedsRewrite, readerVars
<1>11. ASSUME NEW w \in Writers, normalizeEnd(w)
      PROVE StaysIn(S)'
  BY <1>11 DEF normalizeEnd, ForgetCall, fileVars, readerVars
<1>12. ASSUME NEW r \in Readers, NEW ids \in Requests, Request(r, ids)
      PROVE StaysIn(S)'
  BY <1>12 DEF Request, fileVars, writerVars, history
<1>13. ASSUME NEW r \in Readers, LookUp(r)
      PROVE StaysIn(S)'
  BY <1>13 DEF LookUp, getPlainMinId, getRowConst, fileVars, writerVars, history
<1>14. ASSUME NEW r \in Readers, Respond(r)
      PROVE StaysIn(S)'
  BY <1>14 DEF Respond, ForgetRequest, fileVars, writerVars, history
<1>15. CASE UNCHANGED vars
  BY <1>15 DEF vars
<1> QED
  BY <1>1, <1>2, <1>3, <1>4, <1>5, <1>6, <1>7, <1>8, <1>9, <1>10, <1>11, <1>12, <1>13,
     <1>14, <1>15 DEF Next, WriterStep, ReaderStep
-----------------------------------------------------------------------------
\* Everything that holds however many updaters run.
LEMMA AlwaysIInv == Spec => []IInv
<1>1. Init => TypeOK
  BY ConstantsAssumption DEF Init, TypeOK, Types, Ranges, Ids, Procs, States, Busy, Walking, Failed
<1>2. Init => NeverUp /\ PairAsked /\ CutInv
  BY IdFacts DEF Init, NeverUp, PairAsked, CutInv, StaysIn, InAddRow, Procs
<1>3. IInv /\ [Next]_vars => IInv'
  <2> SUFFICES ASSUME IInv, [Next]_vars PROVE IInv'
    OBVIOUS
  <2>1. TypeOK' /\ NeverUp' /\ PairAsked' /\ asked \subseteq asked'
    BY TypeStep, NeverUpStep, PairStep DEF IInv
  <2>2. ASSUME NEW S \in SUBSET Ids, Respects(S)' PROVE StaysIn(S)'
    <3>1. Respects(S)
      BY <2>1, <2>2 DEF Respects
    <3> QED BY <2>2, <3>1, StaysInStep DEF IInv, CutInv
  <2> QED BY <2>1, <2>2 DEF IInv, CutInv
<1> QED BY <1>1, <1>2, <1>3, PTL DEF Spec, IInv

\* No two messages are ever confused, however many updaters run at once and wherever they
\* are killed: rows link an ID only with IDs that addRow was asked to connect it with.
THEOREM LinksAreAsked == Spec => []NoFalseCollapse
<1>1. IInv => NoFalseCollapse
  BY DEF IInv, CutInv, StaysIn, NoFalseCollapse
<1> QED BY <1>1, AlwaysIInv, PTL

\* A server answers each ID with itself or with a smaller ID that the pairs given to addRow
\* connect it with, while any number of updaters write the table it reads.
THEOREM AnswersAreAsked == Spec => []RepliesSound
<1>1. IInv => RepliesSound
  BY DEF IInv, CutInv, StaysIn, NeverUp, RepliesSound
<1> QED BY <1>1, AlwaysIInv, PTL
-----------------------------------------------------------------------------
\* A row that is made to lead downward leaves all of them so.
LEMMA DownwardRow ==
  ASSUME NEW r \in [Ids -> Ids], \A i \in Ids : r[i] # 0 => r[i] < i,
         NEW i \in Ids, NEW to \in Ids, to # i, to <= i
  PROVE  \A j \in Ids : [r EXCEPT ![i] = to][j] # 0 => [r EXCEPT ![i] = to][j] < j
<1>1. i \in Nat /\ to \in Nat
  BY IdFacts
<1>2. to < i
  BY <1>1
<1> QED BY <1>2

\* The only updater keeps the links strictly downward and the scanned rows flat.
LEMMA SoleStep ==
  ASSUME OneUpdater
  PROVE  IInv /\ IInv' /\ SoleInv /\ [Next]_vars => SoleInv'
<1> SUFFICES ASSUME IInv, IInv', SoleInv, [Next]_vars PROVE SoleInv'
  OBVIOUS
<1>0. TypeOK /\ NeverUp /\ OneUpdater
  BY DEF IInv
<1> USE <1>0, IdFacts DEF Procs, TypeOK, Types, OneUpdater, SoleInv, Flat, Walking
<1>1. ASSUME NEW p \in Procs, Open(p)
      PROVE SoleInv'
  BY <1>1 DEF Open, fileVars, writerVars, readerVars, history, NeverUp, Ranges
<1>2. ASSUME NEW p \in Procs, Exit(p)
      PROVE SoleInv'
  <2>1. CASE p \in Writers /\ ForgetCall(p) /\ UNCHANGED readerVars
    BY <1>2, <2>1 DEF Exit, ForgetCall, fileVars, readerVars, history
  <2>2. CASE p \in Readers /\ ForgetRequest(p) /\ UNCHANGED writerVars
    BY <1>2, <2>2 DEF Exit, ForgetRequest, fileVars, writerVars, history
  <2> QED BY <1>2, <2>1, <2>2 DEF Exit
<1>3. ASSUME NEW w \in Writers, NEW a \in ArgIds, NEW b \in ArgIds, addRow(w, a, b)
      PROVE SoleInv'
  BY <1>3 DEF addRow, fileVars, readerVars, NeverUp, Ranges
<1>4. ASSUME NEW w \in Writers, getRecursiveMinIdStep(w)
      PROVE SoleInv'
  BY <1>4 DEF getRecursiveMinIdStep, getRowConst, fileVars, readerVars, history, NeverUp, Ranges
<1>5. ASSUME NEW w \in Writers, getRecursiveMinIdReturn(w)
      PROVE SoleInv'
  BY <1>5 DEF getRecursiveMinIdReturn, getRowConst, fileVars, readerVars, history, NeverUp, Ranges
<1>6. ASSUME NEW w \in Writers, addRowWriteMsg(w)
      PROVE SoleInv'
  <2>1. WriteEffect(w, msg[w], found[w], "writeMin")
    BY <1>6, WriteRowEffect DEF addRowWriteMsg
  <2>2. pc[w] = "writeMsg" /\ len[w] = fileLen /\ found[w] <= msg[w]
    BY <1>6 DEF addRowWriteMsg, NeverUp
  <2>3. len'[w] = fileLen' /\ \A i \in Ids : row'[i] # 0 => row'[i] < i
    <3>1. len'[w] = fileLen'
      BY <2>1, <2>2 DEF WriteEffect
    <3>2. row' = row \/ (msg[w] # found[w] /\ row' = [row EXCEPT ![msg[w]] = found[w]])
      BY <2>1 DEF WriteEffect
    <3>3. /\ row \in [Ids -> Ids] /\ msg[w] \in Ids /\ found[w] \in Ids
          /\ \A i \in Ids : row[i] # 0 => row[i] < i
      OBVIOUS
    <3> HIDE DEF SoleInv, TypeOK, Types
    <3>4. \A i \in Ids : row'[i] # 0 => row'[i] < i
      BY <3>2, <3>3, <2>2, DownwardRow
    <3> QED BY <3>1, <3>4
  <2>4. normal' => \A i \in Ids : row'[i] # 0 => row'[row'[i]] = 0
    BY <2>1 DEF WriteEffect
  <2>5. pc'[w] \in {"writeMin", "assertRange"}
    BY <2>1 DEF WriteEffect
  <2> QED BY <2>3, <2>4, <2>5
<1>7. ASSUME NEW w \in Writers, addRowWriteMin(w)
      PROVE SoleInv'
  <2>1. WriteEffect(w, min[w], found[w], "idle")
    BY <1>7, WriteRowEffect DEF addRowWriteMin
  <2>2. pc[w] = "writeMin" /\ len[w] = fileLen /\ found[w] <= min[w]
    BY <1>7 DEF addRowWriteMin, NeverUp
  <2>3. len'[w] = fileLen' /\ \A i \in Ids : row'[i] # 0 => row'[i] < i
    <3>1. len'[w] = fileLen'
      BY <2>1, <2>2 DEF WriteEffect
    <3>2. row' = row \/ (min[w] # found[w] /\ row' = [row EXCEPT ![min[w]] = found[w]])
      BY <2>1 DEF WriteEffect
    <3>3. /\ row \in [Ids -> Ids] /\ min[w] \in Ids /\ found[w] \in Ids
          /\ \A i \in Ids : row[i] # 0 => row[i] < i
      OBVIOUS
    <3> HIDE DEF SoleInv, TypeOK, Types
    <3>4. \A i \in Ids : row'[i] # 0 => row'[i] < i
      BY <3>2, <3>3, <2>2, DownwardRow
    <3> QED BY <3>1, <3>4
  <2>4. normal' => \A i \in Ids : row'[i] # 0 => row'[row'[i]] = 0
    BY <2>1 DEF WriteEffect
  <2>5. pc'[w] \in {"idle", "assertRange"}
    BY <2>1 DEF WriteEffect
  <2> QED BY <2>3, <2>4, <2>5
<1>8. ASSUME NEW w \in Writers, normalizeDatabase(w)
      PROVE SoleInv'
  BY <1>8 DEF normalizeDatabase, fileVars, readerVars, history, NeverUp, Ranges
<1>9. ASSUME NEW w \in Writers, normalizeRow(w)
      PROVE SoleInv'
  BY <1>9 DEF normalizeRow, InScan, fileVars, readerVars, history, NeverUp, Ranges
<1>10. ASSUME NEW w \in Writers, normalizeWrite(w)
      PROVE SoleInv'
  <2> DEFINE s == scan[w]
             c == cur[w]
  <2>1. /\ s \in Ids /\ c \in Ids /\ c <= s /\ row[c] = 0 /\ len[w] = fileLen
        /\ row[s] = 0 => c = s
        /\ \A i \in Ids : i < s => Flat(i)
    BY <1>10 DEF normalizeWrite, NeverUp, Ranges
  <2>b. s \in Nat /\ c \in Nat /\ Ids \subseteq Nat
    BY <2>1
  <2>c. \A i \in Nat : i < s + 1 => i < s \/ i = s
    BY <2>b
  <2>2. /\ pc'[w] = "scan" /\ scan'[w] = s + 1 /\ UNCHANGED <<fileLen, len>>
        /\ row' = IF NeedsRewrite(w) THEN [row EXCEPT ![s] = c] ELSE row
        /\ normal' = (normal /\ ~NeedsRewrite(w))
    BY <1>10 DEF normalizeWrite
  <2>a. ASSUME NeedsRewrite(w) PROVE c < s /\ row' = [row EXCEPT ![s] = c]
    <3>1. row[s] # 0
      BY <2>a DEF NeedsRewrite
    <3>2. c # s
      BY <2>1, <3>1
    <3>3. \A m, n \in Nat : m <= n /\ m # n => m < n
      OBVIOUS
    <3>4. c < s
      BY <2>1, <2>b, <3>2, <3>3
    <3>5. row' = [row EXCEPT ![s] = c]
      BY <2>2, <2>a
    <3> QED BY <3>4, <3>5
  <2>3. \A i \in Ids : row'[i] # 0 => row'[i] < i
    <3>1. CASE NeedsRewrite(w)
      BY <2>1, <2>a, <3>1
    <3>2. CASE ~NeedsRewrite(w)
      BY <2>2, <3>2
    <3> QED BY <3>1, <3>2
  <2>4. \A i \in Ids : i < s + 1 /\ row'[i] # 0 => row'[row'[i]] = 0
    <3>1. CASE NeedsRewrite(w)
      <4>1. c < s /\ row' = [row EXCEPT ![s] = c]
        BY <2>a, <3>1
      <4>2. \A i \in Ids : i < s /\ row'[i] # 0 => row'[row'[i]] = 0
        BY <2>1, <4>1
      <4>3. row'[s] # 0 => row'[row'[s]] = 0
        BY <2>1, <4>1
      <4>4. \A i \in Ids : i < s + 1 => i < s \/ i = s
        BY <2>b, <2>c
      <4> QED BY <4>2, <4>3, <4>4
    <3>2. CASE ~NeedsRewrite(w)
      BY <2>1, <2>2, <3>2 DEF NeedsRewrite
    <3> QED BY <3>1, <3>2
  <2>5. normal' => \A i \in Ids : row'[i] # 0 => row'[row'[i]] = 0
    BY <2>2
  <2> QED BY <2>1, <2>2, <2>3, <2>4, <2>5
<1>11. ASSUME NEW w \in Writers, normalizeEnd(w)
      PROVE SoleInv'
  BY <1>11 DEF normalizeEnd, InScan, ForgetCall, fileVars, readerVars, NeverUp, Ranges
<1>12. ASSUME NEW r \in Readers, NEW ids \in Requests, Request(r, ids)
      PROVE SoleInv'
  BY <1>12 DEF Request, fileVars, writerVars, history, NeverUp, Ranges
<1>13. ASSUME NEW r \in Readers, LookUp(r)
      PROVE SoleInv'
  BY <1>13 DEF LookUp, fileVars, writerVars, history, NeverUp, Ranges
<1>14. ASSUME NEW r \in Readers, Respond(r)
      PROVE SoleInv'
  BY <1>14 DEF Respond, ForgetRequest, fileVars, writerVars, history, NeverUp, Ranges
<1>15. CASE UNCHANGED vars
  BY <1>15 DEF vars
<1> QED
  BY <1>1, <1>2, <1>3, <1>4, <1>5, <1>6, <1>7, <1>8, <1>9, <1>10, <1>11, <1>12, <1>13,
     <1>14, <1>15 DEF Next, WriterStep, ReaderStep

\* With one updater, both invariants always hold.
LEMMA AlwaysSoleInv == ASSUME OneUpdater PROVE Spec => [](IInv /\ SoleInv)
<1>1. Init => SoleInv
  BY IdFacts DEF Init, SoleInv, Flat, Procs
<1>2. IInv /\ IInv' /\ SoleInv /\ [Next]_vars => SoleInv'
  BY SoleStep
<1> QED BY <1>1, <1>2, AlwaysIInv, PTL DEF Spec

\* As long as updaters do not overlap, the assertion of getRecursiveMinId never fails.
THEOREM LoopAssertion == ASSUME OneUpdater PROVE Spec => []LoopAssertionHolds
<1>1. IInv /\ SoleInv => LoopAssertionHolds
  BY DEF SoleInv, LoopAssertionHolds
<1> QED BY <1>1, AlwaysSoleInv, PTL

\* As long as updaters do not overlap, one read is enough on a normalized table: the answer
\* of getPlainMinId has no smaller ID.
THEOREM PlainReads == ASSUME OneUpdater PROVE Spec => []PlainReadIsMinimal
<1>1. IInv /\ SoleInv => PlainReadIsMinimal
  BY IdFacts DEF IInv, TypeOK, Types, Ranges, SoleInv, Flat, PlainReadIsMinimal, getPlainMinId,
                 getRowConst, Procs
<1> QED BY <1>1, AlwaysSoleInv, PTL
-----------------------------------------------------------------------------
\* The arguments of addRow are IDs of messages: with 0 for an ID, a write would take a link away.
MessageIds == 0 \notin ArgIds

\* Root is the walk down the rows.
LEMMA RootFacts ==
  ASSUME LastId \in Nat
  PROVE  /\ Root \in [Ids -> Ids]
         /\ \A i \in Ids : Root[i] = IF row[i] \in 1..(i - 1) THEN Root[row[i]] ELSE i
         /\ \A i \in Ids : Root[i] <= i /\ (i # 0 => Root[i] # 0) /\ row[Root[i]] \notin 1..(Root[i] - 1)
<1>1. \E m : WalksDown(m, row, LastId)
  BY WalkExists
<1>2. WalksDown(CHOOSE m : WalksDown(m, row, LastId), row, LastId)
  BY <1>1
<1>3. WalksDown(Root, row, LastId)
  BY <1>2 DEF Root, WalksDown, Ids
<1> QED BY <1>3, WalkFacts DEF Ids

\* A row is set to an ID that no row leads on from, no larger than where the row led before:
\* what led to the old end of the row leads to the new one, and nothing else changes.
LEMMA RootOfWrite ==
  ASSUME LastId \in Nat, NEW x \in Ids, NEW y \in Ids, y # 0, y < x, row \in [Ids -> Ids],
         row' = [row EXCEPT ![x] = y], row[y] = 0, y <= Root[x]
  PROVE  /\ \A i \in Ids : Root'[i] = Root[i] \/ (Root[i] = Root[x] /\ Root'[i] = y)
         /\ Root'[x] = y /\ Root'[y] = y
<1>0. Ids = 0..LastId /\ LastId \in Nat
  BY DEF Ids
<1>1. PICK m : m = Root
  OBVIOUS
<1>2. PICK n : n = Root'
  OBVIOUS
<1>3. /\ m \in [Ids -> Ids]
      /\ \A i \in Ids : m[i] = IF row[i] \in 1..(i - 1) THEN m[row[i]] ELSE i
  BY <1>1, RootFacts
<1>4. (LastId \in Nat =>
         /\ Root \in [Ids -> Ids]
         /\ \A i \in Ids : Root[i] = IF row[i] \in 1..(i - 1) THEN Root[row[i]] ELSE i)'
  BY RootFacts, PTL
<1>5. \A i \in Ids : n[i] = IF row'[i] \in 1..(i - 1) THEN n[row'[i]] ELSE i
  BY <1>0, <1>2, <1>4
<1>6. y \in 1..(x - 1) /\ row'[x] = y /\ row'[y] = 0
  BY <1>0
<1>7. n[y] = y /\ n[x] = y
  <2>1. y \in Ids /\ row'[y] \notin 1..(y - 1)
    BY <1>0, <1>6
  <2>2. n[y] = y
    BY <1>5, <2>1
  <2>3. n[x] = n[y]
    BY <1>5, <1>6
  <2> QED BY <2>2, <2>3
<1> DEFINE P(i) == n[i] = m[i] \/ (m[i] = m[x] /\ n[i] = y)
           S == {k \in Nat : \A i \in Ids : i < k => P(i)}
<1>8. 0 \in S
  BY <1>0
<1>9. ASSUME NEW k \in Nat, k \in S PROVE k + 1 \in S
  <2> SUFFICES ASSUME NEW i \in Ids, i < k + 1 PROVE P(i)
    OBVIOUS
  <2>1. CASE i < k
    BY <1>9, <2>1
  <2>2. CASE i = x
    BY <1>7, <2>2
  <2>3. CASE i = k /\ i # x /\ row[i] \notin 1..(i - 1)
    <3>1. row'[i] = row[i]
      BY <2>3
    <3> QED BY <1>3, <1>5, <2>3, <3>1
  <2>4. CASE i = k /\ i # x /\ row[i] \in 1..(i - 1)
    <3>1. row'[i] = row[i] /\ row[i] \in Ids /\ row[i] < k
      BY <1>0, <2>4
    <3>2. n[i] = n[row[i]] /\ m[i] = m[row[i]]
      BY <1>3, <1>5, <2>4, <3>1
    <3>3. P(row[i])
      BY <1>9, <3>1
    <3> QED BY <3>2, <3>3
  <2> QED BY <1>0, <2>1, <2>2, <2>3, <2>4
<1>10. LastId + 1 \in S
  <2>1. \A k \in Nat : k \in S
    <3> HIDE DEF S
    <3> QED BY <1>8, <1>9, SetInduction
  <2> HIDE DEF S
  <2> QED BY <1>0, <2>1
<1>11. \A i \in Ids : P(i)
  BY <1>0, <1>10
<1> QED BY <1>1, <1>2, <1>7, <1>11

\* What the only updater knows of the ends of the chains: none is 0, the cursor of a loop is on the chain
\* it follows, and the row of msg is written before that of min.
WalkOf(w) ==
  /\ pc[w] \in InAddRow => msg[w] # 0 /\ min[w] # 0 /\ msg[w] # min[w]
  /\ pc[w] = "walkMsg" => Root[cur[w]] = Root[msg[w]]
  /\ pc[w] = "walkMin" => found[w] = Root[msg[w]] /\ Root[cur[w]] = Root[min[w]]
  /\ pc[w] = "writeMsg" => /\ found[w] \in {Root[msg[w]], Root[min[w]]}
                           /\ found[w] <= Root[msg[w]] /\ found[w] <= Root[min[w]]
  /\ pc[w] = "writeMin" => /\ found[w] # 0 /\ row[found[w]] = 0 /\ found[w] <= Root[min[w]]
                           /\ msg[w] = found[w] \/ (row[msg[w]] = found[w] /\ found[w] < msg[w])
  /\ pc[w] \in {"walkScan", "writeScan"} => Root[cur[w]] = Root[scan[w]]
WalkInv == \A w \in Writers : WalkOf(w)

SInv == IInv /\ SoleInv

\* The rows of the only updater lead down to an end.
LEMMA Ends ==
  ASSUME SInv
  PROVE  /\ Root \in [Ids -> Ids]
         /\ \A i \in Ids : Root[i] = IF row[i] # 0 THEN Root[row[i]] ELSE i
         /\ \A i \in Ids : Root[i] <= i /\ (i # 0 => Root[i] # 0) /\ row[Root[i]] = 0
<1>1. row \in [Ids -> Ids] /\ \A i \in Ids : row[i] # 0 => row[i] < i
  BY DEF SInv, IInv, TypeOK, Types, SoleInv
<1>2. LastId \in Nat /\ \A i \in Ids : i \in Nat
  BY IdFacts
<1>3. \A i \in Ids : row[i] \in 1..(i - 1) <=> row[i] # 0
  <2> SUFFICES ASSUME NEW i \in Ids PROVE row[i] \in 1..(i - 1) <=> row[i] # 0
    OBVIOUS
  <2>1. PICK x \in Nat, y \in Nat : x = row[i] /\ y = i /\ (x # 0 => x < y)
    BY <1>1, <1>2
  <2> QED BY <2>1
<1>4. PICK m : m = Root
  OBVIOUS
<1>5. /\ m \in [Ids -> Ids]
      /\ \A i \in Ids : m[i] = IF row[i] \in 1..(i - 1) THEN m[row[i]] ELSE i
      /\ \A i \in Ids : m[i] <= i /\ (i # 0 => m[i] # 0) /\ row[m[i]] \notin 1..(m[i] - 1)
  BY <1>2, <1>4, RootFacts
<1>6. \A i \in Ids : m[i] = IF row[i] # 0 THEN m[row[i]] ELSE i
  BY <1>3, <1>5
<1>7. \A i \in Ids : row[m[i]] = 0
  BY <1>3, <1>5
<1> QED BY <1>4, <1>5, <1>6, <1>7

LEMMA SameRoots == row' = row => Root' = Root
BY DEF Root

\* A write of an updater that knows the ends.
LEMMA WriteRoots ==
  ASSUME SInv, NEW w \in Writers, NEW x \in Ids, NEW y \in Ids, NEW then, WriteEffect(w, x, y, then),
         y # 0, row[y] = 0, y <= x, y <= Root[x]
  PROVE  /\ \A i \in Ids : Root'[i] = Root[i] \/ (Root[i] = Root[x] /\ Root'[i] = y)
         /\ row'[y] = 0
         /\ row' # row => row'[x] = y /\ y < x
<1>1. CASE row' = row
  BY <1>1, SameRoots
<1>2. CASE row' # row
  <2>1. row' = [row EXCEPT ![x] = y] /\ x # y /\ row \in [Ids -> Ids] /\ LastId \in Nat
    BY <1>2, IdFacts DEF WriteEffect, SInv, IInv, TypeOK, Types
  <2>2. y < x
    <3>1. PICK a \in Nat, b \in Nat : a = x /\ b = y
      BY IdFacts
    <3> QED BY <2>1, <3>1
  <2>3. \A i \in Ids : Root'[i] = Root[i] \/ (Root[i] = Root[x] /\ Root'[i] = y)
    BY <2>1, <2>2, RootOfWrite
  <2> QED BY <2>1, <2>2, <2>3
<1> QED BY <1>1, <1>2

\* Reading a row gives what the file has in it: the mapping of the only updater covers the file.
LEMMA SoleReads ==
  ASSUME SInv, NEW w \in Writers, pc[w] # "closed", NEW i \in Ids
  PROVE  getRowConst(w, i) = row[i]
<1>1. len[w] = fileLen
  BY DEF SInv, SoleInv
<1>2. row[i] # 0 => i < fileLen
  BY DEF SInv, IInv, TypeOK, Ranges
<1>3. i \in Nat /\ fileLen \in Nat /\ row[i] \in Nat
  BY IdFacts DEF SInv, IInv, TypeOK, Types
<1>4. i >= fileLen => row[i] = 0
  <2>1. PICK a \in Nat, b \in Nat : a = i /\ b = fileLen
    BY <1>3
  <2> QED BY <1>2, <2>1
<1> QED BY <1>1, <1>4 DEF getRowConst

LEMMA WalkStep ==
  ASSUME OneUpdater, MessageIds
  PROVE  SInv /\ SInv' /\ WalkInv /\ [Next]_vars => WalkInv'
<1> SUFFICES ASSUME SInv, SInv', WalkInv, [Next]_vars, NEW w \in Writers PROVE WalkOf(w)'
  BY DEF WalkInv
<1>0. TypeOK /\ NeverUp /\ SoleInv /\ WalkOf(w) /\ (\A v \in Writers : v = w) /\ w \notin Readers /\ w \in Procs
  BY ConstantsAssumption DEF SInv, IInv, WalkInv, OneUpdater, Procs
<1>t. /\ pc \in [Procs -> States] /\ msg \in [Writers -> Ids] /\ min \in [Writers -> Ids] /\ cur \in [Writers -> Ids]
      /\ found \in [Writers -> Ids] /\ scan \in [Writers -> FirstId..(LastId + 1)]
  BY <1>0 DEF TypeOK, Types
<1>e. /\ Root \in [Ids -> Ids]
      /\ \A i \in Ids : Root[i] = IF row[i] # 0 THEN Root[row[i]] ELSE i
      /\ \A i \in Ids : Root[i] <= i /\ (i # 0 => Root[i] # 0) /\ row[Root[i]] = 0
  BY Ends
<1>u. row' = row => Root' = Root
  BY SameRoots
<1>i. ASSUME pc'[w] \notin InAddRow \cup {"walkScan", "writeScan"} PROVE WalkOf(w)'
  BY <1>i, Zenon DEF WalkOf, InAddRow
<1>s. ASSUME UNCHANGED <<row, msg[w], min[w], cur[w], found[w], scan[w], pc[w]>> PROVE WalkOf(w)'
  BY <1>0, <1>s, <1>u, Zenon DEF WalkOf
<1>1. ASSUME NEW p \in Procs, Open(p) PROVE WalkOf(w)'
  <2>1. CASE p = w
    BY <1>1, <1>i, <1>t, <2>1 DEF Open, InAddRow
  <2>2. CASE p # w
    BY <1>0, <1>1, <1>s, <1>t, <2>2 DEF Open, fileVars, writerVars
  <2> QED BY <2>1, <2>2
<1>2. ASSUME NEW p \in Procs, Exit(p) PROVE WalkOf(w)'
  <2>1. CASE p = w
    BY <1>2, <1>i, <1>t, <2>1 DEF Exit, InAddRow
  <2>2. CASE p # w
    <3>1. p \notin Writers
      BY <1>0, <2>2
    <3> QED BY <1>0, <1>2, <1>s, <1>t, <2>2, <3>1 DEF Exit, fileVars, writerVars
  <2> QED BY <2>1, <2>2
<1>3. ASSUME NEW a \in ArgIds, NEW b \in ArgIds, addRow(w, a, b) PROVE WalkOf(w)'
  <2>1. a # 0 /\ b # 0 /\ a \in Ids /\ b \in Ids
    BY IdFacts DEF MessageIds
  <2>2. /\ msg'[w] = a /\ min'[w] = b /\ cur'[w] = a
        /\ pc'[w] = IF a = b THEN "assertArgs" ELSE "walkMsg"
    BY <1>3, <1>t, <1>0 DEF addRow
  <2>3. CASE a = b
    BY <1>i, <2>2, <2>3 DEF InAddRow
  <2>4. CASE a # b
    BY <2>1, <2>2, <2>4, Zenon DEF WalkOf, InAddRow
  <2> QED BY <2>3, <2>4
<1>4. ASSUME getRecursiveMinIdStep(w) PROVE WalkOf(w)'
  <2>1. pc[w] \in Walking /\ pc[w] # "closed" /\ cur[w] \in Ids
    BY <1>4, <1>t DEF getRecursiveMinIdStep, Walking
  <2>2. row[cur[w]] # 0 /\ cur'[w] = row[cur[w]]
    BY <1>4, <1>t, <2>1, SoleReads DEF getRecursiveMinIdStep
  <2>3. UNCHANGED <<row, msg, min, found, scan>> /\ (pc'[w] = pc[w] \/ pc'[w] = "assertLoop")
    BY <1>4, <1>t, <1>0 DEF getRecursiveMinIdStep, fileVars
  <2>4. Root[cur'[w]] = Root[cur[w]] /\ Root' = Root
    BY <1>e, <1>u, <2>1, <2>2, <2>3
  <2>5. CASE pc'[w] = pc[w]
    <3>1. pc'[w] \notin {"writeMsg", "writeMin", "writeScan"}
      BY <2>1, <2>5 DEF Walking
    <3> QED BY <1>0, <2>3, <2>4, <2>5, <3>1, Zenon DEF WalkOf
  <2>6. CASE pc'[w] = "assertLoop"
    BY <1>i, <2>6 DEF InAddRow
  <2> QED BY <2>3, <2>5, <2>6
<1>5. ASSUME getRecursiveMinIdReturn(w) PROVE WalkOf(w)'
  <2>1. pc[w] \in Walking /\ pc[w] # "closed" /\ cur[w] \in Ids
    BY <1>5, <1>t DEF getRecursiveMinIdReturn, Walking
  <2>2. row[cur[w]] = 0 /\ Root[cur[w]] = cur[w] /\ Root' = Root /\ row' = row
    BY <1>5, <1>e, <1>u, <2>1, SoleReads DEF getRecursiveMinIdReturn, fileVars
  <2>3. UNCHANGED <<msg, min, scan>>
    BY <1>5 DEF getRecursiveMinIdReturn
  <2>4. CASE pc[w] = "walkMsg"
    <3>1. found'[w] = cur[w] /\ cur'[w] = min[w] /\ pc'[w] = "walkMin"
      BY <1>5, <1>0, <1>t, <2>4 DEF getRecursiveMinIdReturn
    <3>2. msg[w] # 0 /\ min[w] # 0 /\ msg[w] # min[w] /\ cur[w] = Root[msg[w]]
      BY <1>0, <2>2, <2>4 DEF WalkOf, InAddRow
    <3> QED BY <2>2, <2>3, <3>1, <3>2, Zenon DEF WalkOf
  <2>5. CASE pc[w] = "walkMin"
    <3>1. found'[w] = Smaller(found[w], cur[w]) /\ pc'[w] = "writeMsg"
      BY <1>5, <1>0, <1>t, <2>5 DEF getRecursiveMinIdReturn
    <3>2. msg[w] # 0 /\ min[w] # 0 /\ msg[w] # min[w] /\ cur[w] = Root[min[w]] /\ found[w] = Root[msg[w]]
      BY <1>0, <2>2, <2>5 DEF WalkOf, InAddRow
    <3>3. PICK x \in Nat, y \in Nat : x = Root[msg[w]] /\ y = Root[min[w]]
      BY <1>e, <1>t, IdFacts
    <3>4. Smaller(x, y) \in {x, y} /\ Smaller(x, y) <= x /\ Smaller(x, y) <= y
      BY <3>3 DEF Smaller
    <3> HIDE <3>3
    <3>5. /\ found'[w] \in {Root[msg[w]], Root[min[w]]}
          /\ found'[w] <= Root[msg[w]] /\ found'[w] <= Root[min[w]]
      BY <3>1, <3>2, <3>3, <3>4
    <3> QED BY <2>2, <2>3, <3>1, <3>2, <3>5, Zenon DEF WalkOf
  <2>6. CASE pc[w] = "walkScan"
    <3>1. cur' = cur /\ pc'[w] = "writeScan"
      BY <1>5, <1>0, <1>t, <2>6 DEF getRecursiveMinIdReturn
    <3>2. Root[cur[w]] = Root[scan[w]]
      BY <1>0, <2>6 DEF WalkOf
    <3> QED BY <2>2, <2>3, <3>1, <3>2, Zenon DEF WalkOf, InAddRow
  <2> QED BY <2>1, <2>4, <2>5, <2>6 DEF Walking
<1>6. ASSUME addRowWriteMsg(w) PROVE WalkOf(w)'
  <2>1. pc[w] = "writeMsg" /\ UNCHANGED <<msg, min, cur, found, scan>> /\ writeRow(w, msg[w], found[w], "writeMin")
    BY <1>6 DEF addRowWriteMsg, writerVars
  <2>2. /\ msg[w] # 0 /\ min[w] # 0 /\ msg[w] # min[w] /\ found[w] \in {Root[msg[w]], Root[min[w]]}
        /\ found[w] <= Root[msg[w]] /\ found[w] <= Root[min[w]] /\ found[w] <= msg[w]
    BY <1>0, <2>1 DEF WalkOf, InAddRow, NeverUp
  <2>3. PICK x \in Ids, y \in Ids, z \in Ids : x = msg[w] /\ y = found[w] /\ z = min[w]
    BY <1>t
  <2>4. y # 0 /\ row[y] = 0 /\ y <= x /\ y <= Root[x] /\ y <= Root[z]
    BY <1>e, <2>2, <2>3
  <2>5. WriteEffect(w, x, y, "writeMin")
    BY <1>0, <2>1, <2>3, WriteRowEffect
  <2>6. /\ \A i \in Ids : Root'[i] = Root[i] \/ (Root[i] = Root[x] /\ Root'[i] = y)
        /\ row'[y] = 0
        /\ row' # row => row'[x] = y /\ y < x
    BY <2>4, <2>5, WriteRoots
  <2>7. CASE pc'[w] = "writeMin"
    <3>1. x = y \/ (row'[x] = y /\ y < x)
      <4>1. CASE x # y
        <5>1. ~(x < FirstId)
          BY <1>0, <1>t, <2>1, <2>3, <2>7, <4>1 DEF writeRow
        <5>2. row' = [row EXCEPT ![x] = y] /\ row \in [Ids -> Ids]
          BY <1>0, <2>1, <2>3, <4>1, <5>1 DEF writeRow, TypeOK, Types
        <5>3. y < x
          <6>1. PICK a \in Nat, b \in Nat : a = x /\ b = y
            BY IdFacts
          <6> QED BY <2>4, <4>1, <6>1
        <5> QED BY <5>2, <5>3
      <4> QED BY <4>1
    <3>2. y <= Root'[z]
      <4>1. Root'[z] = Root[z] \/ Root'[z] = y
        BY <2>6
      <4>2. y <= y
        BY IdFacts
      <4> QED BY <2>4, <4>1, <4>2
    <3>3. msg'[w] = x /\ found'[w] = y /\ min'[w] = z
      BY <2>1, <2>3
    <3>4. msg'[w] # 0 /\ min'[w] # 0 /\ msg'[w] # min'[w]
      BY <2>1, <2>2
    <3>5. y # 0 /\ row'[y] = 0 /\ (x = y \/ (row'[x] = y /\ y < x))
      BY <2>4, <2>6, <3>1
    <3> HIDE <2>3, <2>2, <2>1, <2>6
    <3> QED BY <2>7, <3>2, <3>3, <3>4, <3>5, Zenon DEF WalkOf
  <2>8. CASE pc'[w] = "assertRange"
    BY <1>i, <2>8 DEF InAddRow
  <2> QED BY <1>t, <1>0, <2>5, <2>7, <2>8 DEF WriteEffect
<1>7. ASSUME addRowWriteMin(w) PROVE WalkOf(w)'
  <2>1. pc'[w] \in {"idle", "assertRange"}
    BY <1>7, <1>t, <1>0 DEF addRowWriteMin, writeRow
  <2> QED BY <1>i, <2>1 DEF InAddRow
<1>8. ASSUME normalizeRow(w) PROVE WalkOf(w)'
  <2>1. pc'[w] = "walkScan" /\ cur'[w] = scan[w] /\ scan' = scan
    BY <1>8, <1>t, <1>0 DEF normalizeRow
  <2> QED BY <2>1, Zenon DEF WalkOf, InAddRow
<1>9. ASSUME normalizeDatabase(w) \/ normalizeWrite(w) \/ normalizeEnd(w) PROVE WalkOf(w)'
  <2>1. pc'[w] \in {"idle", "scan"}
    BY <1>9, <1>t, <1>0 DEF normalizeDatabase, normalizeWrite, normalizeEnd
  <2> QED BY <1>i, <2>1 DEF InAddRow
<1>10. ASSUME NEW r \in Readers, (\E ids \in Requests : Request(r, ids)) \/ LookUp(r) \/ Respond(r)
       PROVE  WalkOf(w)'
  <2>1. UNCHANGED <<row, msg, min, cur, found, scan>> /\ pc'[w] = pc[w]
    BY <1>10, <1>t, <1>0 DEF Request, LookUp, Respond, fileVars, writerVars
  <2> QED BY <1>s, <2>1
<1>11. CASE UNCHANGED vars
  BY <1>s, <1>11 DEF vars, fileVars, writerVars
<1> QED BY <1>0, <1>1, <1>2, <1>3, <1>4, <1>5, <1>6, <1>7, <1>8, <1>9, <1>10, <1>11 DEF Next, WriterStep, ReaderStep

LEMMA AlwaysWalk ==
  ASSUME OneUpdater, MessageIds
  PROVE  Spec => [](SInv /\ WalkInv)
<1>1. Init => WalkInv
  BY DEF Init, WalkInv, WalkOf, InAddRow, Procs
<1>2. Spec => []SInv
  BY AlwaysSoleInv, PTL DEF SInv
<1>3. SInv /\ SInv' /\ WalkInv /\ [Next]_vars => WalkInv'
  BY WalkStep
<1> QED BY <1>1, <1>2, <1>3, PTL DEF Spec

\* The last write of addRow: only that step leaves "writeMin" for "idle".
LEMMA ReturnsByWrite ==
  ASSUME TypeOK, Next, NEW w \in Writers, pc[w] = "writeMin", pc'[w] = "idle"
  PROVE  addRowWriteMin(w)
<1>0. pc \in [Procs -> States] /\ w \in Procs /\ w \notin Readers
  BY ConstantsAssumption DEF TypeOK, Types, Procs
<1>1. ASSUME NEW p \in Procs, Open(p) \/ Exit(p) PROVE FALSE
  BY <1>0, <1>1 DEF Open, Exit
<1>2. ASSUME NEW v \in Writers, NEW a \in ArgIds, NEW b \in ArgIds, addRow(v, a, b) PROVE FALSE
  BY <1>0, <1>2 DEF addRow
<1>3. ASSUME NEW v \in Writers, normalizeDatabase(v) \/ getRecursiveMinIdStep(v) \/ getRecursiveMinIdReturn(v)
      PROVE  FALSE
  BY <1>0, <1>3 DEF normalizeDatabase, getRecursiveMinIdStep, getRecursiveMinIdReturn, Walking
<1>4. ASSUME NEW v \in Writers, addRowWriteMsg(v) PROVE FALSE
  BY <1>0, <1>4 DEF addRowWriteMsg, writeRow
<1>5. ASSUME NEW v \in Writers, v # w, addRowWriteMin(v) PROVE FALSE
  BY <1>0, <1>5 DEF addRowWriteMin, writeRow
<1>6. ASSUME NEW v \in Writers, normalizeRow(v) \/ normalizeWrite(v) \/ normalizeEnd(v) PROVE FALSE
  BY <1>0, <1>6 DEF normalizeRow, normalizeWrite, normalizeEnd
<1>7. ASSUME NEW r \in Readers, (\E ids \in Requests : Request(r, ids)) \/ LookUp(r) \/ Respond(r)
      PROVE  FALSE
  BY <1>0, <1>7 DEF Request, LookUp, Respond
<1> QED BY <1>1, <1>2, <1>3, <1>4, <1>5, <1>6, <1>7 DEF Next, WriterStep, ReaderStep

\* The part of it about one step of a walk, named so that it can be stated of the next state.
EndFacts == \A i \in Ids : Root[i] = IF row[i] # 0 THEN Root[row[i]] ELSE i

LEMMA EndsOfSole == SInv => EndFacts
BY Ends DEF EndFacts

LEMMA ReturnJoins ==
  ASSUME SInv, SInv', WalkInv, NEW w \in Writers, addRowWriteMin(w), pc'[w] = "idle"
  PROVE  Root'[msg[w]] = Root'[min[w]]
<1>1. PICK x \in Ids, y \in Ids, z \in Ids : x = min[w] /\ y = found[w] /\ z = msg[w]
  BY DEF SInv, IInv, TypeOK, Types
<1>2. pc \in [Procs -> States] /\ row \in [Ids -> Ids] /\ w \in Procs
  BY DEF SInv, IInv, TypeOK, Types, Procs
<1>3. pc[w] = "writeMin" /\ writeRow(w, x, y, "idle")
  BY <1>1 DEF addRowWriteMin
<1>4. /\ z # x /\ y # 0 /\ row[y] = 0 /\ y <= Root[x]
      /\ z = y \/ (row[z] = y /\ y < z)
  BY <1>1, <1>3 DEF WalkInv, WalkOf, InAddRow
<1>5. \/ x = y /\ row' = row
      \/ x # y /\ row' = [row EXCEPT ![x] = y]
  <2>1. CASE x = y
    BY <1>3, <2>1 DEF writeRow, fileVars
  <2>2. CASE x # y
    <3>1. ~(x < FirstId)
      BY <1>2, <1>3, <2>2 DEF writeRow
    <3> QED BY <1>3, <2>2, <3>1 DEF writeRow
  <2> QED BY <2>1, <2>2
<1>6. row'[y] = 0
  BY <1>2, <1>4, <1>5
<1>7. row'[x] = y \/ x = y
  BY <1>2, <1>5
<1>8. row'[z] = y \/ z = y
  BY <1>2, <1>4, <1>5
<1>9. (SInv => EndFacts)'
  BY EndsOfSole, PTL
<1>10. EndFacts'
  BY <1>9
<1> DEFINE n == Root'
<1>11. \A i \in Ids : n[i] = IF row'[i] # 0 THEN n[row'[i]] ELSE i
  BY <1>10, Zenon DEF EndFacts
<1>12. Root'[y] = y /\ Root'[x] = y /\ Root'[z] = y
  BY <1>4, <1>6, <1>7, <1>8, <1>11
<1> QED BY <1>1, <1>12

\* The roots of a single updater whose arguments are IDs of messages: a write of addRow lowers the ends of
\* chains, a write of the normalization replaces a link by the end it leads to.
LEMMA RootsStep ==
  ASSUME OneUpdater, SInv, WalkInv, Next, row' # row, NEW i \in Ids
  PROVE  IF \E w \in Writers : pc[w] = "writeScan" /\ pc'[w] = "scan"
           THEN Root'[i] = Root[i]
           ELSE Root'[i] <= Root[i]
<1>0. /\ TypeOK /\ NeverUp /\ pc \in [Procs -> States] /\ row \in [Ids -> Ids] /\ Writers \subseteq Procs
      /\ \A v, w \in Writers : v = w
      /\ Root \in [Ids -> Ids] /\ \A j \in Ids : Root[j] \in Nat
  BY IdFacts, Ends DEF SInv, IInv, TypeOK, Types, Procs, OneUpdater
<1>e. \A j \in Ids : Root[j] <= j /\ (j # 0 => Root[j] # 0) /\ row[Root[j]] = 0
  BY Ends
<1>d. ASSUME NEW x \in Ids, NEW y \in Ids, y <= Root[x], Root'[i] = Root[i] \/ (Root[i] = Root[x] /\ Root'[i] = y)
      PROVE  Root'[i] <= Root[i]
  <2>1. PICK a \in Nat, b \in Nat : a = Root[i] /\ b = y
    BY <1>0, IdFacts
  <2> QED BY <1>d, <2>1
<1>1. ASSUME NEW p \in Procs, Open(p) \/ Exit(p) PROVE FALSE
  BY <1>1 DEF Open, Exit, fileVars
<1>2. ASSUME NEW v \in Writers, NEW a \in ArgIds, NEW b \in ArgIds, addRow(v, a, b) PROVE FALSE
  BY <1>2 DEF addRow, fileVars
<1>3. ASSUME NEW v \in Writers, normalizeDatabase(v) \/ getRecursiveMinIdStep(v) \/ getRecursiveMinIdReturn(v)
                                \/ normalizeRow(v) \/ normalizeEnd(v)
      PROVE  FALSE
  BY <1>3 DEF normalizeDatabase, getRecursiveMinIdStep, getRecursiveMinIdReturn, normalizeRow, normalizeEnd, fileVars
<1>4. ASSUME NEW r \in Readers, (\E ids \in Requests : Request(r, ids)) \/ LookUp(r) \/ Respond(r)
      PROVE  FALSE
  BY <1>4 DEF Request, LookUp, Respond, fileVars
<1>5. ASSUME NEW v \in Writers, addRowWriteMsg(v) PROVE Root'[i] <= Root[i] /\ pc[v] = "writeMsg"
  <2>1. PICK x \in Ids, y \in Ids, z \in Ids : x = msg[v] /\ y = found[v] /\ z = min[v]
    BY <1>0 DEF TypeOK, Types
  <2>2. pc[v] = "writeMsg" /\ writeRow(v, x, y, "writeMin")
    BY <1>5, <2>1 DEF addRowWriteMsg
  <2>3. x # 0 /\ z # 0 /\ y \in {Root[x], Root[z]} /\ y <= Root[x] /\ y <= x
    BY <1>0, <2>1, <2>2 DEF WalkInv, WalkOf, InAddRow, NeverUp
  <2>4. y # 0 /\ row[y] = 0
    BY <1>e, <2>3
  <2>5. WriteEffect(v, x, y, "writeMin")
    BY <1>0, <2>2, WriteRowEffect
  <2>6. Root'[i] = Root[i] \/ (Root[i] = Root[x] /\ Root'[i] = y)
    BY <2>3, <2>4, <2>5, WriteRoots
  <2> QED BY <1>d, <2>2, <2>3, <2>6
<1>6. ASSUME NEW v \in Writers, addRowWriteMin(v) PROVE Root'[i] <= Root[i] /\ pc[v] = "writeMin"
  <2>1. PICK x \in Ids, y \in Ids : x = min[v] /\ y = found[v]
    BY <1>0 DEF TypeOK, Types
  <2>2. pc[v] = "writeMin" /\ writeRow(v, x, y, "idle")
    BY <1>6, <2>1 DEF addRowWriteMin
  <2>3. y # 0 /\ row[y] = 0 /\ y <= Root[x] /\ y <= x
    BY <1>0, <2>1, <2>2 DEF WalkInv, WalkOf, NeverUp
  <2>5. WriteEffect(v, x, y, "idle")
    BY <1>0, <2>2, WriteRowEffect
  <2>6. Root'[i] = Root[i] \/ (Root[i] = Root[x] /\ Root'[i] = y)
    BY <2>3, <2>5, WriteRoots
  <2> QED BY <1>d, <2>2, <2>3, <2>6
<1>7. ASSUME NEW v \in Writers, normalizeWrite(v) PROVE Root'[i] = Root[i]
  <2>1. /\ pc[v] = "writeScan" /\ row[scan[v]] # 0 /\ row[scan[v]] # cur[v]
        /\ row' = [row EXCEPT ![scan[v]] = cur[v]]
    BY <1>7 DEF normalizeWrite, NeedsRewrite
  <2>2. PICK x \in Ids, y \in Ids : x = scan[v] /\ y = cur[v] /\ x # 0
    <3>1. scan[v] \in FirstId..(LastId + 1) /\ scan[v] <= LastId /\ cur[v] \in Ids
      BY <1>0, <2>1 DEF TypeOK, Types, Ranges
    <3>2. scan[v] \in Ids /\ scan[v] # 0
      BY <3>1, ConstantsAssumption DEF Ids
    <3> QED BY <3>1, <3>2
  <2>3. row[y] = 0 /\ y <= x /\ Root[y] = Root[x]
    BY <1>0, <2>1, <2>2 DEF WalkInv, WalkOf, NeverUp, SInv, SoleInv
  <2>4. Root[y] = y /\ y # 0
    BY <1>e, <2>2, <2>3, Ends
  <2>5. y < x
    <3>1. x # y
      BY <2>1, <2>2, <2>3
    <3>2. PICK a \in Nat, b \in Nat : a = x /\ b = y
      BY IdFacts
    <3> QED BY <2>3, <3>1, <3>2
  <2>6. y <= Root[x] /\ LastId \in Nat
    BY <1>e, <2>3, <2>4, IdFacts
  <2>7. row' = [row EXCEPT ![x] = y]
    BY <2>1, <2>2
  <2>8. Root'[i] = Root[i] \/ (Root[i] = Root[x] /\ Root'[i] = y)
    BY <1>0, <2>3, <2>4, <2>5, <2>6, <2>7, RootOfWrite
  <2> QED BY <2>3, <2>4, <2>8
<1>8. ASSUME NEW v \in Writers, pc[v] # "writeScan", Root'[i] <= Root[i]
      PROVE  IF \E w \in Writers : pc[w] = "writeScan" /\ pc'[w] = "scan"
               THEN Root'[i] = Root[i] ELSE Root'[i] <= Root[i]
  BY <1>0, <1>8
<1>9. ASSUME NEW v \in Writers, normalizeWrite(v)
      PROVE  \E w \in Writers : pc[w] = "writeScan" /\ pc'[w] = "scan"
  BY <1>0, <1>9 DEF normalizeWrite
<1> QED BY <1>1, <1>2, <1>3, <1>4, <1>5, <1>6, <1>7, <1>8, <1>9 DEF Next, WriterStep, ReaderStep

\* When addRow returns, both of its arguments lead to one ID, wherever the chains they were on ended before: as
\* long as no two updaters run at a time, and 0 is not passed as the ID of a message.
THEOREM AddRowJoins == ASSUME OneUpdater, MessageIds PROVE Spec => AddRowCollapses
<1>1. ASSUME SInv, SInv', WalkInv, [Next]_vars
      PROVE  [\A w \in Writers : pc[w] = "writeMin" /\ pc'[w] = "idle" => Root'[msg[w]] = Root'[min[w]]]_vars
  <2> SUFFICES ASSUME Next, NEW w \in Writers, pc[w] = "writeMin", pc'[w] = "idle"
               PROVE  Root'[msg[w]] = Root'[min[w]]
    BY <1>1
  <2>1. addRowWriteMin(w)
    BY <1>1, ReturnsByWrite DEF SInv, IInv
  <2> QED BY <1>1, <2>1, ReturnJoins
<1>2. Spec => [](SInv /\ WalkInv)
  BY AlwaysWalk
<1> QED BY <1>1, <1>2, PTL DEF Spec, AddRowCollapses

\* An ID that was handed out leads to itself or to a smaller one, write by write, and the normalization changes
\* where none of them leads to: under the same two conditions.
THEOREM RootsGoDown == ASSUME OneUpdater, MessageIds PROVE Spec => RootsNeverGrow
<1>1. ASSUME SInv, WalkInv, [Next]_vars
      PROVE  [\A i \in Ids :
                IF \E w \in Writers : pc[w] = "writeScan" /\ pc'[w] = "scan"
                  THEN Root'[i] = Root[i]
                  ELSE Root'[i] <= Root[i]]_row
  <2> SUFFICES ASSUME Next, row' # row, NEW i \in Ids
               PROVE  IF \E w \in Writers : pc[w] = "writeScan" /\ pc'[w] = "scan"
                        THEN Root'[i] = Root[i] ELSE Root'[i] <= Root[i]
    BY <1>1 DEF vars, fileVars
  <2> QED BY <1>1, RootsStep
<1>2. Spec => [](SInv /\ WalkInv)
  BY AlwaysWalk
<1> QED BY <1>1, <1>2, PTL DEF Spec, RootsNeverGrow
=============================================================================
