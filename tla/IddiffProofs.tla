---------------------------- MODULE IddiffProofs ----------------------------
(***************************************************************************)
(* Proofs about Iddiff, for every set of messages and translations: the    *)
(* object and the file keep their types, no sequence of calls makes their  *)
(* sections contradict each other, and a file that was written is read     *)
(* again as it was; and Iddiff implements ReviewContract.                  *)
(***************************************************************************)
EXTENDS Iddiff, WellFoundedInduction, SequenceTheorems, TLAPS

\* The sections of one message, SectionsConsistent for one change.
Sound(c) ==
  /\ Len(c.added) <= 1
  /\ Range(c.added) \cap Range(c.removed) = {}
  /\ \A j, k \in DOMAIN c.removed : c.removed[j] = c.removed[k] => j = k

\* The objects that the calls work on.
Object(d) ==
  /\ d \in Diff
  /\ d.null \subseteq d.keys
  /\ \A i \in Ids : i \in d.null \/ i \notin d.keys => d.item[i] = NoChange
  /\ \A i \in Ids : Sound(d.item[i])

\* The empty object is one of them.
LEMMA EmptyObject == Object(EmptyDiff)
  BY DEF Object, EmptyDiff, Diff, Change, NoChange, Sound, Range

\* A longer section: its translations are those there were and the new one.
LEMMA AppendSection ==
  ASSUME NEW s \in Seq(Msgs), NEW m \in Msgs
  PROVE  /\ Append(s, m) \in Seq(Msgs)
         /\ Len(Append(s, m)) = Len(s) + 1
         /\ Range(Append(s, m)) = Range(s) \cup {m}
         /\ m \notin Range(s) /\ (\A j, k \in DOMAIN s : s[j] = s[k] => j = k)
              => \A j, k \in DOMAIN Append(s, m) :
                   Append(s, m)[j] = Append(s, m)[k] => j = k
  BY DEF Range

\* A set of indices has a least one.
LEMMA LeastNat == ASSUME NEW T \in SUBSET Nat, T # {} PROVE Min(T) \in T
<1> DEFINE R == OpToRel(<, Nat)
<1>1. PICK x \in T : \A y \in T : <<y, x>> \notin R
  BY NatLessThanWellFounded, WFMin
<1>2. \A y \in T : ~(y < x)
  BY <1>1, Zenon DEF OpToRel
<1>3. \A y \in T : x <= y
  BY <1>2
<1> QED BY <1>3 DEF Min

\* A shorter section: without one element, the others in their order.
LEMMA RemoveSection ==
  ASSUME NEW s \in Seq(Msgs), NEW m \in Range(s)
  PROVE  /\ RemoveFirst(s, m) \in Seq(Msgs)
         /\ Len(RemoveFirst(s, m)) = Len(s) - 1
         /\ Range(RemoveFirst(s, m)) \subseteq Range(s)
         /\ Range(s) \subseteq Range(RemoveFirst(s, m)) \cup {m}
         /\ (\A j, k \in DOMAIN s : s[j] = s[k] => j = k)
              => /\ m \notin Range(RemoveFirst(s, m))
                 /\ \A j, k \in DOMAIN RemoveFirst(s, m) :
                      RemoveFirst(s, m)[j] = RemoveFirst(s, m)[k] => j = k
<1> DEFINE I == {j \in 1..Len(s) : s[j] = m}
           i == SelectInSeq(s, LAMBDA v : v = m)
<1>1. I # {} /\ I \subseteq Nat
  BY DEF Range
<1>2. i = Min(I)
  BY <1>1 DEF SelectInSeq
<1>3. i \in 1..Len(s) /\ s[i] = m
  BY <1>1, <1>2, LeastNat
<1> HIDE DEF i, I
<1>4. RemoveFirst(s, m) = SubSeq(s, 1, i - 1) \o SubSeq(s, i + 1, Len(s))
  BY <1>3 DEF RemoveFirst, RemoveAt, i
<1> DEFINE r == RemoveFirst(s, m)
           front == SubSeq(s, 1, i - 1)
           back == SubSeq(s, i + 1, Len(s))
<1>41. /\ front \in Seq(Msgs) /\ Len(front) = i - 1
      /\ \A j \in 1..(i - 1) : front[j] = s[j]
  BY <1>3, SubSeqProperties
<1>42. /\ back \in Seq(Msgs) /\ Len(back) = Len(s) - i
      /\ \A j \in 1..(Len(s) - i) : back[j] = s[i + j]
  BY <1>3, SubSeqProperties
<1>43. r = front \o back
  BY <1>4
<1> HIDE DEF front, back, r
<1>44. /\ r \in Seq(Msgs) /\ Len(r) = Len(front) + Len(back)
      /\ \A j \in 1..(Len(front) + Len(back)) :
           r[j] = IF j <= Len(front) THEN front[j] ELSE back[j - Len(front)]
  BY <1>41, <1>42, <1>43, ConcatProperties
<1>5. r \in Seq(Msgs) /\ Len(r) = Len(s) - 1
  BY <1>3, <1>41, <1>42, <1>44
<1>6. \A j \in 1..Len(r) : r[j] = IF j < i THEN s[j] ELSE s[j + 1]
  <2> SUFFICES ASSUME NEW j \in 1..(Len(s) - 1)
               PROVE  r[j] = IF j < i THEN s[j] ELSE s[j + 1]
    BY <1>5
  <2>0. /\ i \in Nat /\ Len(s) \in Nat /\ Len(front) = i - 1
        /\ Len(front) + Len(back) = Len(s) - 1
    BY <1>3, <1>41, <1>42
  <2>01. r[j] = IF j <= Len(front) THEN front[j] ELSE back[j - Len(front)]
    BY <2>0, <1>44
  <2>1. CASE j < i
    <3>1. j \in 1..(i - 1) /\ j <= Len(front)
      BY <2>1, <2>0
    <3> QED BY <2>1, <3>1, <2>01, <1>41
  <2>2. CASE ~(j < i)
    <3>1. j - (i - 1) \in 1..(Len(s) - i) /\ i + (j - (i - 1)) = j + 1
      BY <2>2, <1>3
    <3>2. r[j] = back[j - (i - 1)]
      BY <2>2, <2>0, <2>01
    <3> QED BY <2>2, <3>1, <3>2, <1>42
  <2> QED BY <2>1, <2>2
<1>7. Range(r) \subseteq Range(s)
  BY <1>3, <1>5, <1>6 DEF Range
<1>71. Range(s) \subseteq Range(r) \cup {m}
  <2> SUFFICES ASSUME NEW k \in 1..Len(s), s[k] # m PROVE \E j \in 1..Len(r) : r[j] = s[k]
    BY <1>5 DEF Range
  <2>1. k # i /\ Len(s) \in Nat /\ Len(r) = Len(s) - 1 /\ i \in 1..Len(s)
    BY <1>3, <1>5
  <2>2. CASE k < i
    <3>1. k \in 1..Len(r)
      BY <2>1, <2>2
    <3> QED BY <3>1, <2>2, <1>6
  <2>3. CASE i < k
    <3>1. k - 1 \in 1..Len(r) /\ ~(k - 1 < i) /\ (k - 1) + 1 = k
      BY <2>1, <2>3
    <3> QED BY <3>1, <1>6
  <2> QED BY <2>1, <2>2, <2>3
<1>8. ASSUME \A j, k \in DOMAIN s : s[j] = s[k] => j = k
      PROVE  /\ m \notin Range(r)
             /\ \A j, k \in DOMAIN r : r[j] = r[k] => j = k
  <2>1. \A j \in 1..Len(r) : r[j] # m
    BY <1>3, <1>5, <1>6, <1>8
  <2>2. ASSUME NEW j \in 1..Len(r), NEW k \in 1..Len(r), r[j] = r[k] PROVE j = k
    <3>1. PICK x : x = IF j < i THEN j ELSE j + 1
      OBVIOUS
    <3>2. PICK y : y = IF k < i THEN k ELSE k + 1
      OBVIOUS
    <3>3. x \in DOMAIN s /\ y \in DOMAIN s /\ r[j] = s[x] /\ r[k] = s[y]
      BY <3>1, <3>2, <1>3, <1>5, <1>6
    <3>4. x = y
      BY <2>2, <3>3, <1>8
    <3> QED BY <3>1, <3>2, <3>4, <1>3, <1>5
  <2> QED BY <1>5, <2>1, <2>2 DEF Range
<1> QED BY <1>5, <1>7, <1>71, <1>8 DEF r
-----------------------------------------------------------------------------
\* The operations on m_items keep an object an object.
LEMMA PutObject ==
  ASSUME NEW d, Object(d), NEW id \in Ids, NEW c \in Change, Sound(c)
  PROVE  Object(Put(d, id, c))
  BY DEF Object, Put, Diff

\* clearEmptyMessageData and the removal of a key give an object again.
LEMMA ClearObject ==
  ASSUME NEW d, d \in Diff, NEW id \in Ids, d.null \subseteq d.keys,
         \A i \in Ids : i \in d.null \/ i \notin d.keys => d.item[i] = NoChange,
         \A i \in Ids : Sound(d.item[i])
  PROVE  /\ Object(clearEmptyMessageData(d, id))
         /\ Object(Drop(d, id))
<1>1. NoChange \in Change /\ Sound(NoChange)
  BY DEF NoChange, Change, Sound, Range
<1> QED BY <1>1 DEF Object, clearEmptyMessageData, Drop, Diff

\* insertRemoved, its assertion satisfied, gives an object again.
LEMMA AddToRemovedObject ==
  ASSUME NEW d, Object(d), NEW id \in Ids, NEW m \in Msgs, MayRemove(d, id, m)
  PROVE  Object(AddToRemoved(d, id, m))
<1>1. CASE InRemoved(d, id, m)
  BY <1>1 DEF AddToRemoved
<1>2. CASE ~InRemoved(d, id, m)
  <2> DEFINE c == d.item[id]
             e == [c EXCEPT !.removed = Append(@, m)]
  <2>1. c \in Change /\ Sound(c) /\ m \notin Range(c.removed) /\ m \notin Range(c.added)
    BY <1>2 DEF Object, Diff, MayRemove, InRemoved, InAdded
  <2>3. c.removed \in Seq(Msgs) /\ c.added \in Seq(Msgs)
    BY <2>1 DEF Change
  <2>31. Append(c.removed, m) \in Seq(Msgs)
    BY <2>3
  <2>2. /\ e \in Change /\ e.added = c.added /\ e.removed = Append(c.removed, m)
    BY <2>1, <2>31 DEF Change
  <2>4. /\ Range(Append(c.removed, m)) = Range(c.removed) \cup {m}
        /\ \A j, k \in DOMAIN Append(c.removed, m) :
             Append(c.removed, m)[j] = Append(c.removed, m)[k] => j = k
    BY <2>1, <2>3, AppendSection DEF Sound
  <2>5. AddToRemoved(d, id, m) = Put(d, id, e)
    BY <1>2 DEF AddToRemoved
  <2> HIDE DEF e
  <2>6. Sound(e)
    BY <2>1, <2>2, <2>4 DEF Sound
  <2> QED BY <2>2, <2>5, <2>6, PutObject
<1> QED BY <1>1, <1>2

\* insertAdded, its assertions satisfied, gives an object again.
LEMMA AddToAddedObject ==
  ASSUME NEW d, Object(d), NEW id \in Ids, NEW m \in Msgs, MayAdd(d, id, m)
  PROVE  Object(AddToAdded(d, id, m))
<1>1. CASE InAdded(d, id, m)
  BY <1>1 DEF AddToAdded
<1>2. CASE ~InAdded(d, id, m)
  <2> DEFINE c == d.item[id]
             e == [c EXCEPT !.added = Append(@, m)]
  <2>1. /\ c \in Change /\ Sound(c) /\ m \notin Range(c.removed)
        /\ m \notin Range(c.added) /\ \A n \in Range(c.added) : n = m
    BY <1>2 DEF Object, Diff, MayAdd, InRemoved, InAdded
  <2>3. c.removed \in Seq(Msgs) /\ c.added \in Seq(Msgs)
    BY <2>1 DEF Change
  <2>31. Append(c.added, m) \in Seq(Msgs)
    BY <2>3
  <2>2. /\ e \in Change /\ e.removed = c.removed /\ e.added = Append(c.added, m)
    BY <2>1, <2>31 DEF Change
  <2>4. Len(c.added) = 0
    <3>1. \A j \in 1..Len(c.added) : c.added[j] \in Range(c.added)
      BY <2>3 DEF Range
    <3>2. \A j \in 1..Len(c.added) : FALSE
      BY <2>1, <3>1
    <3> QED BY <2>3, <3>2
  <2>5. Range(Append(c.added, m)) = Range(c.added) \cup {m} /\ Len(Append(c.added, m)) = 1
    BY <2>3, <2>4, AppendSection
  <2>6. AddToAdded(d, id, m) = Put(d, id, e)
    BY <1>2 DEF AddToAdded
  <2> HIDE DEF e
  <2>7. Sound(e)
    BY <2>1, <2>2, <2>5 DEF Sound
  <2> QED BY <2>2, <2>6, <2>7, PutObject
<1> QED BY <1>1, <1>2

\* Erasing a translation frees it for the other section.
LEMMA EraseRemovedObject ==
  ASSUME NEW d, Object(d), NEW id \in Ids, NEW m \in Msgs, InRemoved(d, id, m)
  PROVE  Object(eraseRemoved(d, id, m))
<1> DEFINE c == d.item[id]
           r == RemoveFirst(c.removed, m)
           e == [d EXCEPT !.item[id].removed = r]
<1>1. c \in Change /\ Sound(c) /\ m \in Range(c.removed) /\ c # NoChange
  BY DEF Object, Diff, InRemoved, NoChange, Range
<1>2. c.removed \in Seq(Msgs) /\ r \in Seq(Msgs) /\ Range(r) \subseteq Range(c.removed)
      /\ \A j, k \in DOMAIN r : r[j] = r[k] => j = k
  BY <1>1, RemoveSection DEF Change, Sound
<1> HIDE DEF r
<1>3. e \in Diff /\ e.null = d.null /\ e.keys = d.keys /\ id \in d.keys /\ id \notin d.null
  BY <1>1, <1>2 DEF Object, Diff, Change
<1>4. /\ \A i \in Ids \ {id} : e.item[i] = d.item[i]
      /\ e.item[id].removed = r /\ e.item[id].added = c.added
  BY <1>1 DEF Object, Diff, Change
<1>5. Sound(e.item[id])
  BY <1>1, <1>2, <1>4 DEF Sound
<1>6. \A i \in Ids : Sound(e.item[i])
  BY <1>4, <1>5 DEF Object
<1>7. \A i \in Ids : i \in e.null \/ i \notin e.keys => e.item[i] = NoChange
  BY <1>3, <1>4 DEF Object
<1>8. eraseRemoved(d, id, m) = clearEmptyMessageData(e, id)
  BY DEF eraseRemoved, r
<1> HIDE DEF e
<1>9. e.null \subseteq e.keys
  BY <1>3 DEF Object
<1> QED BY <1>3, <1>6, <1>7, <1>8, <1>9, ClearObject

\* eraseAdded gives an object again, without the translation.
LEMMA EraseAddedObject ==
  ASSUME NEW d, Object(d), NEW id \in Ids, NEW m \in Msgs, InAdded(d, id, m)
  PROVE  /\ Object(eraseAdded(d, id, m))
         /\ ~InAdded(eraseAdded(d, id, m), id, m)
<1> DEFINE c == d.item[id]
           r == RemoveFirst(c.added, m)
           e == [d EXCEPT !.item[id].added = r]
<1>1. c \in Change /\ Sound(c) /\ m \in Range(c.added) /\ c # NoChange
  BY DEF Object, Diff, InAdded, NoChange, Range
<1>2. c.added \in Seq(Msgs) /\ r \in Seq(Msgs) /\ Len(r) = Len(c.added) - 1
      /\ Range(r) \subseteq Range(c.added)
  BY <1>1, RemoveSection DEF Change
<1> HIDE DEF r
<1>21. Len(c.added) <= 1 /\ Len(c.added) \in Nat
  BY <1>1, <1>2 DEF Sound
<1>22. Len(r) = 0 /\ Range(r) = {}
  <2>0. Len(r) \in Nat
    BY <1>2
  <2>01. \A a, b \in Nat : a <= 1 /\ b = a - 1 => b = 0
    OBVIOUS
  <2>1. Len(r) = 0
    BY <2>0, <2>01, <1>2, <1>21
  <2>2. DOMAIN r = {}
    BY <1>2, <2>1
  <2> QED BY <2>1, <2>2 DEF Range
<1>3. e \in Diff /\ e.null = d.null /\ e.keys = d.keys /\ id \in d.keys /\ id \notin d.null
  BY <1>1, <1>2 DEF Object, Diff, Change
<1>4. /\ \A i \in Ids \ {id} : e.item[i] = d.item[i]
      /\ e.item[id].added = r /\ e.item[id].removed = c.removed
  BY <1>1 DEF Object, Diff, Change
<1>5. Sound(e.item[id])
  BY <1>1, <1>22, <1>4 DEF Sound
<1>6. \A i \in Ids : Sound(e.item[i])
  BY <1>4, <1>5 DEF Object
<1>7. \A i \in Ids : i \in e.null \/ i \notin e.keys => e.item[i] = NoChange
  BY <1>3, <1>4 DEF Object
<1>8. eraseAdded(d, id, m) = clearEmptyMessageData(e, id)
  BY DEF eraseAdded, r
<1>9. e.null \subseteq e.keys
  BY <1>3 DEF Object
<1>10. ~InAdded(clearEmptyMessageData(e, id), id, m)
  <2>1. Range(NoChange.added) = {}
    BY DEF NoChange, Range
  <2> QED BY <1>3, <1>22, <1>4, <2>1 DEF clearEmptyMessageData, Drop, InAdded, Diff
<1> HIDE DEF e
<1> QED BY <1>3, <1>6, <1>7, <1>8, <1>9, <1>10, ClearObject
-----------------------------------------------------------------------------
\* The object, the object a running call started from and the file are all sound.
IInv ==
  /\ Object(diff)
  /\ Object(call.base)
  /\ call \in [op : Calls, base : Diff, tasks : SUBSET Task]
  /\ todo \subseteq Task
  /\ pc \in {"ready", "loop", "writing", "assert", "segv"}
  /\ pc = "loop" <=> todo # {}
  /\ file \in File
  /\ \A i \in Ids : Sound(file.item[i])

\* The beginning, the turn and the failure of a call.
LEMMA BeginStep ==
  ASSUME IInv, NEW op \in Calls, NEW d, Object(d), NEW tasks \in SUBSET Task,
         Begin(op, d, tasks)
  PROVE  IInv'
<1>1. NoCall \in [op : Calls, base : Diff, tasks : SUBSET Task] /\ Object(NoCall.base)
  BY EmptyObject DEF NoCall, Calls, Object
<1>2. d \in Diff
  BY DEF Object
<1>3. call' \in [op : Calls, base : Diff, tasks : SUBSET Task] /\ Object(call'.base)
  BY <1>1, <1>2 DEF Begin
<1> QED BY <1>3 DEF Begin, IInv

\* A task that ends with an object keeps the invariant.
LEMMA DoneStep ==
  ASSUME IInv, NEW t, Current(t), NEW d, Object(d), Done(t, d)
  PROVE  IInv'
<1>1. NoCall \in [op : Calls, base : Diff, tasks : SUBSET Task] /\ Object(NoCall.base)
  BY EmptyObject DEF NoCall, Calls, Object
<1>2. call' \in [op : Calls, base : Diff, tasks : SUBSET Task] /\ Object(call'.base)
  BY <1>1 DEF Done, IInv
<1>3. pc' = "loop" <=> todo' # {}
  BY DEF Done, Current
<1> QED BY <1>2, <1>3 DEF Done, IInv

\* A failure keeps the invariant.
LEMMA FailStep ==
  ASSUME IInv, NEW how \in {"assert", "segv"}, Fail(how)
  PROVE  IInv'
  BY DEF Fail, IInv

\* A call that ends at once with an object keeps the invariant.
LEMMA SetStep ==
  ASSUME IInv, NEW d, Object(d), Set(d)
  PROVE  IInv'
  BY DEF Set, IInv

\* The tasks of a call are tasks.
LEMMA TasksAreTasks ==
  /\ \A J \in SUBSET Ids : \A a, b \in [J -> PoMsg] : DiffTasks(a, b) \subseteq Task
  /\ \A item \in [Ids -> Change], order \in {MergeOrder, LoadOrder} :
       ItemTasks(item, order) \subseteq Task
<1>1. ASSUME NEW J \in SUBSET Ids, NEW a \in [J -> PoMsg], NEW b \in [J -> PoMsg]
      PROVE  DiffTasks(a, b) \subseteq Task
  <2>1. \A j \in J : a[j].str \in Msgs \cup {Untranslated} /\ b[j].str \in Msgs \cup {Untranslated}
    BY DEF PoMsg
  <2>2. ASSUME NEW j \in J, needRemoved(a[j], b[j])
        PROVE  [op |-> "removed", id |-> j, rank |-> 1, k |-> 1, msg |-> a[j].str] \in Task
    BY <2>1, <2>2 DEF needRemoved, Task
  <2>3. ASSUME NEW j \in J, needAdded(a[j], b[j])
        PROVE  [op |-> "added", id |-> j, rank |-> 2, k |-> 1, msg |-> b[j].str] \in Task
    BY <2>1, <2>3 DEF needAdded, Task
  <2> HIDE DEF Task
  <2> QED BY <2>2, <2>3 DEF DiffTasks
<1>2. ASSUME NEW item \in [Ids -> Change], NEW order \in {MergeOrder, LoadOrder}
      PROVE  ItemTasks(item, order) \subseteq Task
  <2>1. ASSUME NEW i \in Ids, NEW rank \in {1, 2}
        PROVE  /\ SectionTasks("removed", i, rank, item[i].removed) \subseteq Task
               /\ SectionTasks("added", i, rank, item[i].added) \subseteq Task
    <3>1. item[i].removed \in Seq(Msgs) /\ item[i].added \in Seq(Msgs)
      BY DEF Change
    <3> QED BY <3>1 DEF SectionTasks, Task
  <2>2. ASSUME NEW i \in Ids
        PROVE  [op |-> "review", id |-> i, rank |-> 3, k |-> 1, msg |-> Untranslated] \in Task
    BY DEF Task
  <2>3. order.removed \in {1, 2} /\ order.added \in {1, 2}
    BY DEF MergeOrder, LoadOrder
  <2>4. ASSUME NEW t \in ItemTasks(item, order)
        PROVE  \/ \E i \in Ids : t \in SectionTasks("removed", i, order.removed, item[i].removed)
               \/ \E i \in Ids : t \in SectionTasks("added", i, order.added, item[i].added)
               \/ \E i \in Ids : t = [op |-> "review", id |-> i, rank |-> 3, k |-> 1,
                                      msg |-> Untranslated]
    BY <2>4 DEF ItemTasks
  <2> QED BY <2>1, <2>2, <2>3, <2>4
<1> QED BY <1>1, <1>2

\* One turn of a loop.
LEMMA LoopStep == IInv /\ Loop => IInv'
<1> SUFFICES ASSUME IInv, NEW t \in todo,
                    \/ insertRemoved(t) \/ insertAdded(t)
                    \/ insertReview(t) \/ substituteMsgId(t)
             PROVE  IInv'
  BY DEF Loop
<1>0. /\ t \in Task /\ t.id \in Ids /\ Object(diff)
      /\ t.op \in {"removed", "added"} => t.msg \in Msgs
  BY DEF IInv, Task
<1>1. CASE Fail("segv") \/ Fail("assert")
  BY <1>1, FailStep
<1>2. CASE insertRemoved(t) /\ ~(Fail("segv") \/ Fail("assert"))
  <2>1. /\ Current(t) /\ t.op = "removed" /\ MayRemove(diff, t.id, t.msg)
        /\ Done(t, AddToRemoved(diff, t.id, t.msg))
    BY <1>2 DEF insertRemoved
  <2>2. Object(AddToRemoved(diff, t.id, t.msg))
    BY <1>0, <2>1, AddToRemovedObject
  <2> QED BY <2>1, <2>2, DoneStep
<1>3. CASE insertAdded(t) /\ ~(Fail("segv") \/ Fail("assert"))
  <2>1. /\ Current(t) /\ t.op = "added" /\ MayAdd(diff, t.id, t.msg)
        /\ Done(t, AddToAdded(diff, t.id, t.msg))
    BY <1>3 DEF insertAdded
  <2>2. Object(AddToAdded(diff, t.id, t.msg))
    BY <1>0, <2>1, AddToAddedObject
  <2> QED BY <2>1, <2>2, DoneStep
<1>4. CASE insertReview(t) /\ ~(Fail("segv") \/ Fail("assert"))
  <2> DEFINE c == [diff.item[t.id] EXCEPT !.review = TRUE]
  <2>1. Current(t) /\ Done(t, Put(diff, t.id, c))
    BY <1>4 DEF insertReview
  <2>2. diff.item[t.id] \in Change /\ Sound(diff.item[t.id])
    BY <1>0 DEF Object, Diff
  <2>3. c \in Change /\ c.added = diff.item[t.id].added /\ c.removed = diff.item[t.id].removed
    BY <2>2 DEF Change
  <2> HIDE DEF c
  <2>4. Sound(c)
    BY <2>2, <2>3 DEF Sound
  <2> QED BY <1>0, <2>1, <2>3, <2>4, PutObject, DoneStep
<1>5. CASE substituteMsgId(t) /\ ~(Fail("segv") \/ Fail("assert"))
  <2> DEFINE old == t.id
             new == MinId[t.id]
             d == clearEmptyMessageData(clearEmptyMessageData(diff, old), new)
             e == IF old \in d.keys THEN Drop(Put(d, new, d.item[old]), old) ELSE d
  <2>1. Current(t) /\ (Done(t, diff) \/ Done(t, e))
    BY <1>5 DEF substituteMsgId
  <2>2. new \in Ids
    BY <1>0, ConstantsAssumption
  <2>3. Object(clearEmptyMessageData(diff, old))
    BY <1>0, ClearObject DEF Object
  <2>4. Object(d)
    BY <2>2, <2>3, ClearObject DEF Object
  <2> HIDE DEF d
  <2>5. d.item[old] \in Change /\ Sound(d.item[old])
    BY <1>0, <2>4 DEF Object, Diff
  <2>6. Object(Put(d, new, d.item[old]))
    BY <2>2, <2>4, <2>5, PutObject
  <2>7. Object(Drop(Put(d, new, d.item[old]), old))
    BY <1>0, <2>6, ClearObject DEF Object
  <2> QED BY <1>0, <2>1, <2>4, <2>7, DoneStep
<1> QED BY <1>1, <1>2, <1>3, <1>4, <1>5

\* The calls that begin a loop.
LEMMA CallStep ==
  ASSUME IInv,
         \/ \E id \in Ids : \E a, b \in [{id} -> PoMsg] : diffFiles(a, b) \/ merge(a, b)
         \/ mergeFile \/ loadIddiff \/ filterTrustedIddiff \/ minimizeIds
         \/ \E op \in {"removed", "added", "review"}, id \in Ids, m \in Msgs : insert(op, id, m)
  PROVE  IInv'
<1> USE DEF Calls
<1>0. Object(diff) /\ diff.item \in [Ids -> Change] /\ file.item \in [Ids -> Change]
  BY DEF IInv, Object, Diff, File
<1>1. ASSUME NEW id \in Ids, NEW a \in [{id} -> PoMsg], NEW b \in [{id} -> PoMsg],
             diffFiles(a, b) \/ merge(a, b)
      PROVE  IInv'
  <2>1. DiffTasks(a, b) \subseteq Task
    BY TasksAreTasks
  <2> QED BY <1>0, <1>1, <2>1, EmptyObject, BeginStep DEF diffFiles, merge
<1>2. CASE mergeFile
  BY <1>0, <1>2, TasksAreTasks, BeginStep DEF mergeFile
<1>3. CASE loadIddiff
  BY <1>0, <1>3, TasksAreTasks, BeginStep, FailStep DEF loadIddiff
<1>4. CASE filterTrustedIddiff
  <2> DEFINE T == {t \in ItemTasks(diff.item, MergeOrder) :
                     IF t.op = "removed"
                       THEN t.msg \notin Range(file.item[t.id].removed)
                       ELSE t.msg \notin Range(file.item[t.id].added)}
  <2>1. Fail("segv") \/ Fail("assert") \/ Begin("filter", EmptyDiff, T)
    BY <1>4 DEF filterTrustedIddiff
  <2>2. T \in SUBSET Task
    BY <1>0, TasksAreTasks
  <2> HIDE DEF T
  <2> QED BY <2>1, <2>2, EmptyObject, BeginStep, FailStep
<1>5. CASE minimizeIds
  <2> DEFINE T == {[op |-> "move", id |-> i, rank |-> 1, k |-> 1, msg |-> Untranslated] :
                     i \in diff.keys}
  <2>1. diff.keys \subseteq Ids
    BY <1>0 DEF Object, Diff
  <2>2. T \in SUBSET Task
    BY <2>1 DEF Task
  <2>3. Begin("minimize", diff, T)
    BY <1>5 DEF minimizeIds
  <2> HIDE DEF T
  <2> QED BY <1>0, <2>2, <2>3, BeginStep
<1>6. ASSUME NEW op \in {"removed", "added", "review"}, NEW id \in Ids, NEW m \in Msgs,
             insert(op, id, m)
      PROVE  IInv'
  <2> DEFINE T == {[op |-> op, id |-> id, rank |-> 1, k |-> 1,
                    msg |-> IF op = "review" THEN Untranslated ELSE m]}
  <2>1. T \in SUBSET Task
    BY DEF Task
  <2>2. Begin("insert", diff, T)
    BY <1>6 DEF insert
  <2> HIDE DEF T
  <2> QED BY <1>0, <2>1, <2>2, BeginStep
<1> QED BY <1>1, <1>2, <1>3, <1>4, <1>5, <1>6

\* The calls that a reviewer makes, done in one step.
LEMMA VerdictStep ==
  ASSUME IInv, NEW id \in Ids, NEW m \in Msgs,
         acceptTranslation(id, m) \/ rejectTranslation(id, m)
  PROVE  IInv'
<1>0. Object(diff)
  BY DEF IInv
<1>1. CASE Fail("segv") \/ Fail("assert")
  BY <1>1, FailStep
<1>2. CASE acceptTranslation(id, m) /\ ~(Fail("segv") \/ Fail("assert"))
  <2> DEFINE d == IF InRemoved(diff, id, m) THEN eraseRemoved(diff, id, m) ELSE diff
  <2>1. MayAdd(d, id, m) /\ Set(AddToAdded(d, id, m))
    BY <1>2 DEF acceptTranslation
  <2>2. Object(d)
    BY <1>0, EraseRemovedObject
  <2> HIDE DEF d
  <2> QED BY <2>1, <2>2, AddToAddedObject, SetStep
<1>3. CASE rejectTranslation(id, m) /\ ~(Fail("segv") \/ Fail("assert"))
  <2> DEFINE d == IF InAdded(diff, id, m) THEN eraseAdded(diff, id, m) ELSE diff
  <2>1. Set(AddToRemoved(d, id, m))
    BY <1>3 DEF rejectTranslation
  <2>2. Object(d) /\ ~InAdded(d, id, m)
    BY <1>0, EraseAddedObject
  <2> HIDE DEF d
  <2> QED BY <2>1, <2>2, AddToRemovedObject, SetStep DEF MayRemove
<1> QED BY <1>1, <1>2, <1>3

\* The calls about review comments keep the invariant.
LEMMA CommentStep ==
  ASSUME IInv,
         \/ \E id \in Ids : clearReviewComment(id) \/ reviewCommentText(id)
         \/ clearReviewComments
  PROVE  IInv'
<1>0. Object(diff)
  BY DEF IInv
<1>1. \A c \in Change : /\ [c EXCEPT !.review = FALSE] \in Change
                        /\ Sound(c) => Sound([c EXCEPT !.review = FALSE])
  BY DEF Change, Sound
<1>2. [NoChange EXCEPT !.review = FALSE] = NoChange
  <2>1. NoChange \in Change /\ NoChange.review = FALSE
    BY DEF NoChange, Change
  <2>2. \A c \in Change : c.review = FALSE => [c EXCEPT !.review = FALSE] = c
    BY DEF Change
  <2> QED BY <2>1, <2>2
<1>3. ASSUME NEW id \in Ids
      PROVE  /\ Object([diff EXCEPT !.item[id].review = FALSE])
             /\ id \notin diff.keys =>
                  Object([diff EXCEPT !.keys = @ \cup {id}, !.null = @ \cup {id}])
  BY <1>0, <1>1, <1>2 DEF Object, Diff
<1>4. Object([diff EXCEPT !.item = [i \in Ids |-> [diff.item[i] EXCEPT !.review = FALSE]]])
  BY <1>0, <1>1, <1>2 DEF Object, Diff
<1>5. ASSUME NEW id \in Ids, clearReviewComment(id) PROVE IInv'
  BY <1>3, <1>5, SetStep DEF clearReviewComment
<1>6. ASSUME NEW id \in Ids, reviewCommentText(id) PROVE IInv'
  BY <1>3, <1>6, SetStep DEF reviewCommentText
<1>7. CASE clearReviewComments
  BY <1>4, <1>7, SetStep, FailStep DEF clearReviewComments
<1> QED BY <1>5, <1>6, <1>7

\* Writing the file, and starting another process, keep the invariant.
LEMMA FileStep ==
  ASSUME IInv, writeToFile \/ closeFile \/ NewProcess
  PROVE  IInv'
<1>0. /\ EmptyDiff.item \in [Ids -> Change] /\ \A i \in Ids : Sound(EmptyDiff.item[i])
      /\ diff.item \in [Ids -> Change] /\ \A i \in Ids : Sound(diff.item[i])
  BY EmptyObject DEF IInv, Object, Diff
<1>1. CASE writeToFile
  BY <1>0, <1>1, FailStep DEF writeToFile, IInv, File
<1>2. CASE closeFile
  BY <1>0, <1>2 DEF closeFile, generateIddiffText, IInv, File
<1>3. CASE NewProcess
  <2>1. NoCall \in [op : Calls, base : Diff, tasks : SUBSET Task] /\ Object(NoCall.base)
    BY EmptyObject DEF NoCall, Calls, Object
  <2> QED BY <1>3, <2>1, EmptyObject DEF NewProcess, IInv
<1> QED BY <1>1, <1>2, <1>3

\* The invariant holds in every reachable state.
LEMMA AlwaysIInv == Spec => []IInv
<1>1. Init => IInv
  <2>1. NoCall \in [op : Calls, base : Diff, tasks : SUBSET Task] /\ Object(NoCall.base)
    BY EmptyObject DEF NoCall, Calls, Object
  <2>2. EmptyDiff.item \in [Ids -> Change] /\ \A i \in Ids : Sound(EmptyDiff.item[i])
    BY EmptyObject DEF Object, Diff
  <2> QED BY <2>1, <2>2, EmptyObject DEF Init, IInv, File
<1>2. IInv /\ [Next]_vars => IInv'
  <2>1. IInv /\ UNCHANGED vars => IInv'
    BY DEF IInv, vars
  <2> QED BY <2>1, LoopStep, CallStep, VerdictStep, CommentStep, FileStep DEF Next, Review
<1> QED BY <1>1, <1>2, PTL DEF Spec

\* The object, the running call and the file have their types, and a null pointer or an
\* absent key of m_items has no decisions.
THEOREM TypeCorrect == Spec => []TypeOK
<1>1. IInv => TypeOK
  BY DEF IInv, TypeOK, Object
<1> QED BY <1>1, AlwaysIInv, PTL

\* Whatever is called, in whatever order, with whatever failures: no message ever has two
\* translations to add, one that is also to be removed, or one to be removed twice.
THEOREM Consistent == Spec => []NeverContradictory
<1>1. IInv => NeverContradictory
  BY DEF IInv, Object, Sound, NeverContradictory, SectionsConsistent
<1> QED BY <1>1, AlwaysIInv, PTL
-----------------------------------------------------------------------------
\* The numbers of the tasks that are left of one section of one message.
Left(T, op, i) == {t.k : t \in {u \in T : u.op = op /\ u.id = i}}

\* A section is read in its order, up to decision n.
ReadSoFar(T, op, i, s, f) ==
  \E n \in 0..Len(f) : s = SubSeq(f, 1, n) /\ Left(T, op, i) = (n + 1)..Len(f)

\* Object d has what tasks T leave of a file with the changes item.
LoadedSoFar(d, T, item) ==
  /\ T \subseteq ItemTasks(item, LoadOrder)
  /\ d.null = {}
  /\ \A i \in Ids :
       /\ ReadSoFar(T, "removed", i, d.item[i].removed, item[i].removed)
       /\ ReadSoFar(T, "added", i, d.item[i].added, item[i].added)
       /\ Left(T, "review", i) = (IF item[i].review /\ ~d.item[i].review THEN {1} ELSE {})
       /\ d.item[i].review => item[i].review

\* A call that loads a file into an empty object, on its way.
LoadInv ==
  pc = "loop" /\ call.op = "load" /\ call.base = EmptyDiff => LoadedSoFar(diff, todo, file.item)

\* The tasks of a file that is loaded.
TaskOf(t, item) ==
  /\ t.id \in Ids /\ t.op \in {"removed", "added", "review"}
  /\ t.op = "removed" =>
       /\ t.k \in 1..Len(item[t.id].removed)
       /\ t = [op |-> "removed", id |-> t.id, rank |-> 2, k |-> t.k, msg |-> item[t.id].removed[t.k]]
  /\ t.op = "added" =>
       /\ t.k \in 1..Len(item[t.id].added)
       /\ t = [op |-> "added", id |-> t.id, rank |-> 1, k |-> t.k, msg |-> item[t.id].added[t.k]]
  /\ t.op = "review" =>
       /\ t.k = 1 /\ item[t.id].review
       /\ t = [op |-> "review", id |-> t.id, rank |-> 3, k |-> 1, msg |-> Untranslated]

\* There are no others.
LEMMA TasksOfFile ==
  ASSUME NEW item \in [Ids -> Change], NEW t \in ItemTasks(item, LoadOrder)
  PROVE  TaskOf(t, item)
<1>0. \A i \in Ids : item[i].removed \in Seq(Msgs) /\ item[i].added \in Seq(Msgs)
  BY DEF Change
<1>1. CASE \E i \in Ids : t \in SectionTasks("removed", i, 2, item[i].removed)
  BY <1>0, <1>1 DEF SectionTasks, TaskOf
<1>2. CASE \E i \in Ids : t \in SectionTasks("added", i, 1, item[i].added)
  BY <1>0, <1>2 DEF SectionTasks, TaskOf
<1>3. CASE \E i \in Ids : item[i].review /\ t = [op |-> "review", id |-> i, rank |-> 3, k |-> 1, msg |-> Untranslated]
  BY <1>3 DEF TaskOf
<1>4. \/ \E i \in Ids : t \in SectionTasks("removed", i, 2, item[i].removed)
      \/ \E i \in Ids : t \in SectionTasks("added", i, 1, item[i].added)
      \/ \E i \in Ids : item[i].review /\ t = [op |-> "review", id |-> i, rank |-> 3, k |-> 1, msg |-> Untranslated]
  BY DEF ItemTasks, LoadOrder
<1> QED BY <1>1, <1>2, <1>3, <1>4

\* What one turn leaves: its own task is done, and no other.
LEMMA LeftAfter ==
  ASSUME NEW item \in [Ids -> Change], NEW T, T \subseteq ItemTasks(item, LoadOrder), NEW t \in T
  PROVE  Left(T \ {t}, t.op, t.id) = Left(T, t.op, t.id) \ {t.k}
<1>1. ASSUME NEW u \in T, u.op = t.op, u.id = t.id, u.k = t.k PROVE u = t
  <2>1. TaskOf(u, item) /\ TaskOf(t, item)
    BY TasksOfFile
  <2> QED BY <1>1, <2>1 DEF TaskOf
<1> QED BY <1>1 DEF Left

\* When the loop begins, all is left.
LEMMA AllLeft ==
  ASSUME NEW item \in [Ids -> Change], NEW i \in Ids
  PROVE  /\ Left(ItemTasks(item, LoadOrder), "removed", i) = 1..Len(item[i].removed)
         /\ Left(ItemTasks(item, LoadOrder), "added", i) = 1..Len(item[i].added)
         /\ Left(ItemTasks(item, LoadOrder), "review", i) = IF item[i].review THEN {1} ELSE {}
<1> DEFINE T == ItemTasks(item, LoadOrder)
<1>0. item[i].removed \in Seq(Msgs) /\ item[i].added \in Seq(Msgs) /\ item[i].review \in BOOLEAN
  BY DEF Change
<1>1. \A t \in T : TaskOf(t, item)
  BY TasksOfFile
<1>2. ASSUME NEW k \in 1..Len(item[i].removed) PROVE k \in Left(T, "removed", i)
  <2> DEFINE t == [op |-> "removed", id |-> i, rank |-> 2, k |-> k, msg |-> item[i].removed[k]]
  <2>1. t \in SectionTasks("removed", i, 2, item[i].removed)
    BY <1>0 DEF SectionTasks
  <2>2. t \in T
    BY <2>1 DEF ItemTasks, LoadOrder
  <2>3. t.op = "removed" /\ t.id = i /\ t.k = k
    OBVIOUS
  <2> HIDE DEF T, t
  <2> QED BY <2>2, <2>3 DEF Left
<1>3. ASSUME NEW k \in 1..Len(item[i].added) PROVE k \in Left(T, "added", i)
  <2> DEFINE t == [op |-> "added", id |-> i, rank |-> 1, k |-> k, msg |-> item[i].added[k]]
  <2>1. t \in SectionTasks("added", i, 1, item[i].added)
    BY <1>0 DEF SectionTasks
  <2>2. t \in T
    BY <2>1 DEF ItemTasks, LoadOrder
  <2>3. t.op = "added" /\ t.id = i /\ t.k = k
    OBVIOUS
  <2> HIDE DEF T, t
  <2> QED BY <2>2, <2>3 DEF Left
<1>4. ASSUME item[i].review PROVE 1 \in Left(T, "review", i)
  <2> DEFINE t == [op |-> "review", id |-> i, rank |-> 3, k |-> 1, msg |-> Untranslated]
  <2>2. t \in T
    BY <1>4 DEF ItemTasks
  <2>3. t.op = "review" /\ t.id = i /\ t.k = 1
    OBVIOUS
  <2> HIDE DEF T, t
  <2> QED BY <2>2, <2>3 DEF Left
<1> HIDE DEF T
<1>5. Left(T, "removed", i) \subseteq 1..Len(item[i].removed) /\ Left(T, "added", i) \subseteq 1..Len(item[i].added)
  BY <1>1 DEF Left, TaskOf
<1>6. Left(T, "review", i) \subseteq IF item[i].review THEN {1} ELSE {}
  BY <1>1 DEF Left, TaskOf
<1> QED BY <1>2, <1>3, <1>4, <1>5, <1>6 DEF T

\* Nothing has been read when the loop begins.
LEMMA LoadBegins ==
  ASSUME NEW item \in [Ids -> Change]
  PROVE  LoadedSoFar(EmptyDiff, ItemTasks(item, LoadOrder), item)
<1> DEFINE T == ItemTasks(item, LoadOrder)
<1>1. ASSUME NEW i \in Ids
      PROVE  /\ ReadSoFar(T, "removed", i, EmptyDiff.item[i].removed, item[i].removed)
             /\ ReadSoFar(T, "added", i, EmptyDiff.item[i].added, item[i].added)
             /\ Left(T, "review", i) = (IF item[i].review /\ ~EmptyDiff.item[i].review THEN {1} ELSE {})
             /\ ~EmptyDiff.item[i].review
  <2>1. /\ EmptyDiff.item[i].removed = <<>> /\ EmptyDiff.item[i].added = <<>> /\ EmptyDiff.item[i].review = FALSE
    BY DEF EmptyDiff, NoChange
  <2>2. item[i].removed \in Seq(Msgs) /\ item[i].added \in Seq(Msgs)
    BY DEF Change
  <2>3. \A f \in Seq(Msgs) : 0 \in 0..Len(f) /\ SubSeq(f, 1, 0) = <<>> /\ 1..Len(f) = (0 + 1)..Len(f)
    OBVIOUS
  <2> HIDE DEF T
  <2>4. \A s, f, op : f \in Seq(Msgs) /\ s = <<>> /\ Left(T, op, i) = 1..Len(f) => ReadSoFar(T, op, i, s, f)
    BY <2>3 DEF ReadSoFar
  <2> USE DEF T
  <2> QED BY <2>1, <2>2, <2>4, AllLeft
<1> HIDE DEF T
<1>2. EmptyDiff.null = {}
  BY DEF EmptyDiff
<1> QED BY <1>1, <1>2 DEF LoadedSoFar, T

\* The task that is done is the next decision of its section.
LEMMA ReadOn ==
  ASSUME NEW item \in [Ids -> Change], NEW T, T \subseteq ItemTasks(item, LoadOrder), NEW t \in T,
         \A u \in T : ~Before(u, t), NEW f \in Seq(Msgs), NEW s, ReadSoFar(T, t.op, t.id, s, f)
  PROVE  \E n \in Nat : /\ n + 1 \in 1..Len(f) /\ t.k = n + 1 /\ s = SubSeq(f, 1, n)
                        /\ ReadSoFar(T \ {t}, t.op, t.id, Append(s, f[t.k]), f)
<1>1. PICK n \in 0..Len(f) : s = SubSeq(f, 1, n) /\ Left(T, t.op, t.id) = (n + 1)..Len(f)
  BY DEF ReadSoFar
<1>2. PICK k : k = t.k
  OBVIOUS
<1>3. k \in (n + 1)..Len(f)
  BY <1>1, <1>2 DEF Left
<1>4. PICK u \in T : u.op = t.op /\ u.id = t.id /\ u.k = n + 1
  <2>1. n + 1 \in Left(T, t.op, t.id)
    BY <1>1, <1>3
  <2> QED BY <2>1 DEF Left
<1>5. u.rank = t.rank
  <2>1. TaskOf(u, item) /\ TaskOf(t, item)
    BY TasksOfFile
  <2> QED BY <1>4, <2>1 DEF TaskOf
<1>6. ~(n + 1 < k)
  BY <1>2, <1>4, <1>5 DEF Before
<1>7. k = n + 1 /\ n \in Nat /\ n + 1 \in 1..Len(f)
  BY <1>3, <1>6
<1>8. Left(T \ {t}, t.op, t.id) = (n + 2)..Len(f)
  <2>1. Left(T \ {t}, t.op, t.id) = Left(T, t.op, t.id) \ {t.k}
    BY LeftAfter, Zenon
  <2>2. PICK l \in Nat : l = Len(f)
    OBVIOUS
  <2>3. ((n + 1)..l) \ {n + 1} = (n + 2)..l
    BY <1>7
  <2> QED BY <1>1, <1>2, <1>7, <2>1, <2>2, <2>3
<1>9. Append(s, f[k]) = SubSeq(f, 1, n + 1)
  BY <1>1, <1>7
<1>10. ReadSoFar(T \ {t}, t.op, t.id, Append(s, f[k]), f)
  <2>1. n + 1 \in 0..Len(f) /\ (n + 1) + 1 = n + 2
    BY <1>7
  <2> QED BY <1>8, <1>9, <2>1 DEF ReadSoFar
<1> QED BY <1>1, <1>2, <1>7, <1>10

\* Sections that the turn does not touch.
LEMMA ReadElsewhere ==
  ASSUME NEW item \in [Ids -> Change], NEW T, T \subseteq ItemTasks(item, LoadOrder), NEW t \in T,
         NEW op, NEW i, ~(op = t.op /\ i = t.id)
  PROVE  /\ \A s, f : ReadSoFar(T, op, i, s, f) => ReadSoFar(T \ {t}, op, i, s, f)
         /\ Left(T \ {t}, op, i) = Left(T, op, i)
<1>1. Left(T \ {t}, op, i) = Left(T, op, i)
  BY DEF Left
<1> QED BY <1>1 DEF ReadSoFar

\* The translations of a part of a section are of the section.
LEMMA PartOfSection ==
  ASSUME NEW f \in Seq(Msgs), NEW n \in 0..Len(f)
  PROVE  /\ \A m \in Range(SubSeq(f, 1, n)) : \E j \in 1..n : m = f[j]
         /\ Range(SubSeq(f, 1, n)) \subseteq Range(f)
BY DEF Range

\* One turn of the loop of loadIddiff: no assertion fails.
LEMMA LoadRemoved ==
  ASSUME NEW item \in [Ids -> Change], \A i \in Ids : Sound(item[i]), NEW d, Object(d), NEW T,
         LoadedSoFar(d, T, item), NEW t \in T, \A u \in T : ~Before(u, t), t.op = "removed"
  PROVE  MayRemove(d, t.id, t.msg) /\ LoadedSoFar(AddToRemoved(d, t.id, t.msg), T \ {t}, item)
<1>1. T \subseteq ItemTasks(item, LoadOrder) /\ d.null = {} /\ d \in Diff
  BY DEF LoadedSoFar, Object
<1>2. TaskOf(t, item)
  BY <1>1, TasksOfFile
<1>3. PICK id \in Ids, m \in {t.msg} : id = t.id /\ m = t.msg
  BY <1>2 DEF TaskOf
<1> DEFINE r == item[id].removed
           a == item[id].added
<1>4. r \in Seq(Msgs) /\ a \in Seq(Msgs) /\ m = r[t.k] /\ t.k \in 1..Len(r) /\ m \in Msgs
  <2>1. r \in Seq(Msgs) /\ a \in Seq(Msgs)
    BY DEF Change
  <2>2. t.k \in 1..Len(r) /\ t.msg = r[t.k]
    BY <1>2, <1>3 DEF TaskOf
  <2> QED BY <1>3, <2>1, <2>2
<1>5. PICK n \in Nat : /\ n + 1 \in 1..Len(r) /\ t.k = n + 1 /\ d.item[id].removed = SubSeq(r, 1, n)
                       /\ ReadSoFar(T \ {t}, "removed", id, Append(d.item[id].removed, r[t.k]), r)
  <2>1. ReadSoFar(T, t.op, t.id, d.item[id].removed, r)
    BY <1>3 DEF LoadedSoFar
  <2> HIDE DEF r, a
  <2> DEFINE s == d.item[id].removed
  <2> HIDE DEF s
  <2>2. \A u \in T : ~Before(u, t)
    OBVIOUS
  <2>3. \E n \in Nat : /\ n + 1 \in 1..Len(r) /\ t.k = n + 1 /\ s = SubSeq(r, 1, n)
                       /\ ReadSoFar(T \ {t}, t.op, t.id, Append(s, r[t.k]), r)
    BY <1>1, <1>4, <2>1, <2>2, ReadOn, Zenon DEF s
  <2> QED BY <1>3, <2>3 DEF s
<1>6. PICK n2 \in 0..Len(a) : d.item[id].added = SubSeq(a, 1, n2)
  BY DEF LoadedSoFar, ReadSoFar
<1>7. ~InRemoved(d, id, m)
  <2>1. \A j \in 1..n : r[j] # m
    <3>1. \A j, k \in DOMAIN r : r[j] = r[k] => j = k
      BY DEF Sound
    <3> QED BY <1>4, <1>5, <3>1
  <2>2. n \in 0..Len(r)
    BY <1>4, <1>5
  <2>3. \A x \in Range(SubSeq(r, 1, n)) : \E j \in 1..n : x = r[j]
    <3> HIDE DEF r
    <3> QED BY <1>4, <2>2, PartOfSection
  <2>4. m \notin Range(SubSeq(r, 1, n))
    <3> HIDE DEF r
    <3> QED BY <2>1, <2>3
  <2> QED BY <1>5, <2>4 DEF InRemoved
<1>8. ~InAdded(d, id, m)
  <2>1. m \in Range(r)
    BY <1>4 DEF Range
  <2>2. m \notin Range(a)
    BY <2>1 DEF Sound
  <2> QED BY <1>4, <1>6, <2>2, PartOfSection DEF InAdded
<1> DEFINE c == [d.item[id] EXCEPT !.removed = Append(@, m)]
           e == AddToRemoved(d, id, m)
<1>9. e = Put(d, id, c)
  BY <1>7 DEF AddToRemoved
<1>10. /\ c.removed = Append(d.item[id].removed, m) /\ c.added = d.item[id].added /\ c.review = d.item[id].review
  BY <1>1 DEF Diff, Change
<1> HIDE DEF c
<1>11. e.null = {} /\ e.item[id] = c /\ \A i \in Ids : i # id => e.item[i] = d.item[i]
  BY <1>1, <1>9 DEF Put, Diff
<1> HIDE DEF e
<1>12. ASSUME NEW i \in Ids
       PROVE  /\ ReadSoFar(T \ {t}, "removed", i, e.item[i].removed, item[i].removed)
              /\ ReadSoFar(T \ {t}, "added", i, e.item[i].added, item[i].added)
              /\ Left(T \ {t}, "review", i) = (IF item[i].review /\ ~e.item[i].review THEN {1} ELSE {})
              /\ e.item[i].review => item[i].review
  <2>1. e.item[i].added = d.item[i].added /\ e.item[i].review = d.item[i].review
    BY <1>10, <1>11
  <2>2. /\ ReadSoFar(T, "removed", i, d.item[i].removed, item[i].removed)
        /\ ReadSoFar(T, "added", i, d.item[i].added, item[i].added)
        /\ Left(T, "review", i) = (IF item[i].review /\ ~d.item[i].review THEN {1} ELSE {})
        /\ d.item[i].review => item[i].review
    BY DEF LoadedSoFar
  <2>3. ReadSoFar(T \ {t}, "removed", i, e.item[i].removed, item[i].removed)
    <3>1. CASE i = id
      BY <1>4, <1>5, <1>10, <1>11, <3>1
    <3>2. CASE i # id
      BY <1>1, <1>3, <1>11, <2>2, <3>2, ReadElsewhere
    <3> QED BY <3>1, <3>2
  <2>4. ReadSoFar(T \ {t}, "added", i, e.item[i].added, item[i].added)
    BY <1>1, <2>1, <2>2, ReadElsewhere
  <2>5. Left(T \ {t}, "review", i) = Left(T, "review", i)
    <3>1. "review" # t.op
      OBVIOUS
    <3> QED BY <3>1 DEF Left
  <2> QED BY <2>1, <2>2, <2>3, <2>4, <2>5
<1>13. T \ {t} \subseteq ItemTasks(item, LoadOrder)
  BY <1>1
<1>14. LoadedSoFar(e, T \ {t}, item)
  BY <1>11, <1>12, <1>13 DEF LoadedSoFar
<1> QED BY <1>3, <1>7, <1>8, <1>14 DEF MayRemove, e

\* The same for a translation to add: there is at most one.
LEMMA LoadAdded ==
  ASSUME NEW item \in [Ids -> Change], \A i \in Ids : Sound(item[i]), NEW d, Object(d), NEW T,
         LoadedSoFar(d, T, item), NEW t \in T, \A u \in T : ~Before(u, t), t.op = "added"
  PROVE  MayAdd(d, t.id, t.msg) /\ LoadedSoFar(AddToAdded(d, t.id, t.msg), T \ {t}, item)
<1>1. T \subseteq ItemTasks(item, LoadOrder) /\ d.null = {} /\ d \in Diff
  BY DEF LoadedSoFar, Object
<1>2. TaskOf(t, item)
  BY <1>1, TasksOfFile
<1>3. PICK id \in Ids, m \in {t.msg} : id = t.id /\ m = t.msg
  BY <1>2 DEF TaskOf
<1> DEFINE r == item[id].removed
           a == item[id].added
<1>4. r \in Seq(Msgs) /\ a \in Seq(Msgs) /\ m = a[t.k] /\ t.k \in 1..Len(a) /\ m \in Msgs
  <2>1. r \in Seq(Msgs) /\ a \in Seq(Msgs)
    BY DEF Change
  <2>2. t.k \in 1..Len(a) /\ t.msg = a[t.k]
    BY <1>2, <1>3 DEF TaskOf
  <2> QED BY <1>3, <2>1, <2>2
<1>5. PICK n \in Nat : /\ n + 1 \in 1..Len(a) /\ t.k = n + 1 /\ d.item[id].added = SubSeq(a, 1, n)
                       /\ ReadSoFar(T \ {t}, "added", id, Append(d.item[id].added, a[t.k]), a)
  <2>1. ReadSoFar(T, t.op, t.id, d.item[id].added, a)
    BY <1>3 DEF LoadedSoFar
  <2> HIDE DEF r, a
  <2> DEFINE s == d.item[id].added
  <2> HIDE DEF s
  <2>2. \A u \in T : ~Before(u, t)
    OBVIOUS
  <2>3. \E n \in Nat : /\ n + 1 \in 1..Len(a) /\ t.k = n + 1 /\ s = SubSeq(a, 1, n)
                       /\ ReadSoFar(T \ {t}, t.op, t.id, Append(s, a[t.k]), a)
    BY <1>1, <1>4, <2>1, <2>2, ReadOn, Zenon DEF s
  <2> QED BY <1>3, <2>3 DEF s
<1>6. PICK n2 \in 0..Len(r) : d.item[id].removed = SubSeq(r, 1, n2)
  BY DEF LoadedSoFar, ReadSoFar
<1>7. \A v : v \notin Range(d.item[id].added)
  <2>1. Len(a) <= 1
    BY DEF Sound
  <2>2. n = 0
    BY <1>4, <1>5, <2>1
  <2>3. \A v \in Range(SubSeq(a, 1, n)) : \E j \in 1..n : v = a[j]
    <3> HIDE DEF a
    <3>1. n \in 0..Len(a)
      BY <1>4, <1>5
    <3> QED BY <1>4, <3>1, PartOfSection
  <2> QED BY <1>5, <2>2, <2>3
<1>8. ~InRemoved(d, id, m)
  <2>1. m \in Range(a)
    BY <1>4 DEF Range
  <2>2. m \notin Range(r)
    BY <2>1 DEF Sound
  <2> QED BY <1>4, <1>6, <2>2, PartOfSection DEF InRemoved
<1> DEFINE c == [d.item[id] EXCEPT !.added = Append(@, m)]
           e == AddToAdded(d, id, m)
<1>9. e = Put(d, id, c)
  BY <1>7 DEF AddToAdded, InAdded
<1>10. /\ c.added = Append(d.item[id].added, m) /\ c.removed = d.item[id].removed /\ c.review = d.item[id].review
  BY <1>1 DEF Diff, Change
<1> HIDE DEF c
<1>11. e.null = {} /\ e.item[id] = c /\ \A i \in Ids : i # id => e.item[i] = d.item[i]
  BY <1>1, <1>9 DEF Put, Diff
<1> HIDE DEF e
<1>12. ASSUME NEW i \in Ids
       PROVE  /\ ReadSoFar(T \ {t}, "removed", i, e.item[i].removed, item[i].removed)
              /\ ReadSoFar(T \ {t}, "added", i, e.item[i].added, item[i].added)
              /\ Left(T \ {t}, "review", i) = (IF item[i].review /\ ~e.item[i].review THEN {1} ELSE {})
              /\ e.item[i].review => item[i].review
  <2>1. e.item[i].removed = d.item[i].removed /\ e.item[i].review = d.item[i].review
    BY <1>10, <1>11
  <2>2. /\ ReadSoFar(T, "removed", i, d.item[i].removed, item[i].removed)
        /\ ReadSoFar(T, "added", i, d.item[i].added, item[i].added)
        /\ Left(T, "review", i) = (IF item[i].review /\ ~d.item[i].review THEN {1} ELSE {})
        /\ d.item[i].review => item[i].review
    BY DEF LoadedSoFar
  <2>3. ReadSoFar(T \ {t}, "added", i, e.item[i].added, item[i].added)
    <3>1. CASE i = id
      BY <1>4, <1>5, <1>10, <1>11, <3>1
    <3>2. CASE i # id
      BY <1>1, <1>3, <1>11, <2>2, <3>2, ReadElsewhere
    <3> QED BY <3>1, <3>2
  <2>4. ReadSoFar(T \ {t}, "removed", i, e.item[i].removed, item[i].removed)
    BY <1>1, <2>1, <2>2, ReadElsewhere
  <2>5. Left(T \ {t}, "review", i) = Left(T, "review", i)
    <3>1. "review" # t.op
      OBVIOUS
    <3> QED BY <3>1 DEF Left
  <2> QED BY <2>1, <2>2, <2>3, <2>4, <2>5
<1>13. T \ {t} \subseteq ItemTasks(item, LoadOrder)
  BY <1>1
<1>14. LoadedSoFar(e, T \ {t}, item)
  BY <1>11, <1>12, <1>13 DEF LoadedSoFar
<1> QED BY <1>3, <1>7, <1>8, <1>14 DEF MayAdd, e

\* The same for a comment.
LEMMA LoadReview ==
  ASSUME NEW item \in [Ids -> Change], NEW d, Object(d), NEW T,
         LoadedSoFar(d, T, item), NEW t \in T, t.op = "review"
  PROVE  /\ ~d.item[t.id].review
         /\ LoadedSoFar(Put(d, t.id, [d.item[t.id] EXCEPT !.review = TRUE]), T \ {t}, item)
<1>1. T \subseteq ItemTasks(item, LoadOrder) /\ d.null = {} /\ d \in Diff
  BY DEF LoadedSoFar, Object
<1>2. TaskOf(t, item)
  BY <1>1, TasksOfFile
<1>3. PICK id \in Ids : id = t.id
  BY <1>2 DEF TaskOf
<1>4. item[id].review /\ t.k = 1
  BY <1>2, <1>3 DEF TaskOf
<1>5. ~d.item[id].review /\ Left(T, "review", id) = {1}
  <2>1. 1 \in Left(T, "review", id)
    BY <1>3, <1>4 DEF Left
  <2> QED BY <1>4, <2>1 DEF LoadedSoFar
<1> DEFINE c == [d.item[id] EXCEPT !.review = TRUE]
           e == Put(d, id, c)
<1>10. c.removed = d.item[id].removed /\ c.added = d.item[id].added /\ c.review = TRUE
  BY <1>1 DEF Diff, Change
<1> HIDE DEF c
<1>11. e.null = {} /\ e.item[id] = c /\ \A i \in Ids : i # id => e.item[i] = d.item[i]
  BY <1>1 DEF Put, Diff
<1> HIDE DEF e
<1>12. ASSUME NEW i \in Ids
       PROVE  /\ ReadSoFar(T \ {t}, "removed", i, e.item[i].removed, item[i].removed)
              /\ ReadSoFar(T \ {t}, "added", i, e.item[i].added, item[i].added)
              /\ Left(T \ {t}, "review", i) = (IF item[i].review /\ ~e.item[i].review THEN {1} ELSE {})
              /\ e.item[i].review => item[i].review
  <2>1. e.item[i].removed = d.item[i].removed /\ e.item[i].added = d.item[i].added
    BY <1>10, <1>11
  <2>2. /\ ReadSoFar(T, "removed", i, d.item[i].removed, item[i].removed)
        /\ ReadSoFar(T, "added", i, d.item[i].added, item[i].added)
        /\ Left(T, "review", i) = (IF item[i].review /\ ~d.item[i].review THEN {1} ELSE {})
        /\ d.item[i].review => item[i].review
    BY DEF LoadedSoFar
  <2>3. /\ ReadSoFar(T \ {t}, "removed", i, e.item[i].removed, item[i].removed)
        /\ ReadSoFar(T \ {t}, "added", i, e.item[i].added, item[i].added)
    BY <1>1, <2>1, <2>2, ReadElsewhere
  <2>4. CASE i = id
    <3>1. Left(T \ {t}, t.op, t.id) = Left(T, t.op, t.id) \ {t.k}
      BY <1>1, LeftAfter, Zenon
    <3>2. Left(T \ {t}, "review", i) = {}
      BY <1>3, <1>4, <1>5, <2>4, <3>1
    <3> QED BY <1>4, <1>10, <1>11, <2>3, <2>4, <3>2
  <2>5. CASE i # id
    <3>1. Left(T \ {t}, "review", i) = Left(T, "review", i)
      BY <1>3, <2>5 DEF Left
    <3> QED BY <1>11, <2>2, <2>3, <2>5, <3>1
  <2> QED BY <2>4, <2>5
<1>13. T \ {t} \subseteq ItemTasks(item, LoadOrder)
  BY <1>1
<1>14. LoadedSoFar(e, T \ {t}, item)
  BY <1>11, <1>12, <1>13 DEF LoadedSoFar
<1> QED BY <1>3, <1>5, <1>14 DEF e, c

\* When no task is left, the object is what the file has.
LEMMA LoadEnds ==
  ASSUME NEW item \in [Ids -> Change], NEW d, Object(d), LoadedSoFar(d, {}, item)
  PROVE  d.item = item
<1>1. \A op, i : Left({}, op, i) = {}
  BY DEF Left
<1>2. \A f \in Seq(Msgs) : \A s, op, i : ReadSoFar({}, op, i, s, f) => s = f
  <2> SUFFICES ASSUME NEW f \in Seq(Msgs), NEW s, NEW op, NEW i, ReadSoFar({}, op, i, s, f) PROVE s = f
    OBVIOUS
  <2>1. PICK n \in 0..Len(f) : s = SubSeq(f, 1, n) /\ (n + 1)..Len(f) = {}
    BY <1>1 DEF ReadSoFar
  <2>2. PICK l \in Nat : l = Len(f)
    OBVIOUS
  <2>3. n = l
    <3>1. n < l => n + 1 \in (n + 1)..l
      BY <2>2
    <3> QED BY <2>1, <2>2, <3>1
  <2> QED BY <2>1, <2>2, <2>3
<1>3. ASSUME NEW i \in Ids PROVE d.item[i] = item[i]
  <2>1. d.item[i] \in Change /\ item[i] \in Change
    BY DEF Object, Diff
  <2>2. d.item[i].removed = item[i].removed /\ d.item[i].added = item[i].added
    BY <1>2, <2>1 DEF LoadedSoFar, Change
  <2>3. d.item[i].review = item[i].review
    BY <1>1, <2>1 DEF LoadedSoFar, Change
  <2>4. \A x \in Change : x = [removed |-> x.removed, added |-> x.added, review |-> x.review]
    BY DEF Change
  <2> QED BY <2>1, <2>2, <2>3, <2>4
<1>4. d.item \in [Ids -> Change]
  BY DEF Object, Diff
<1> QED BY <1>3, <1>4

\* A turn of the loop that loads a file into an empty object.
LEMMA LoadTurn ==
  ASSUME IInv, LoadInv, NEW t \in todo, call.op = "load", call.base = EmptyDiff,
         insertRemoved(t) \/ insertAdded(t) \/ insertReview(t) \/ substituteMsgId(t)
  PROVE  /\ todo' = todo \ {t} /\ LoadedSoFar(diff', todo', file.item) /\ UNCHANGED file
         /\ IF todo' = {} THEN pc' = "ready" ELSE pc' = "loop" /\ call' = call
<1>1. Current(t) /\ pc = "loop" /\ \A u \in todo : ~Before(u, t)
  BY DEF insertRemoved, insertAdded, insertReview, substituteMsgId, Current
<1>2. /\ file.item \in [Ids -> Change] /\ (\A i \in Ids : Sound(file.item[i]))
      /\ Object(diff) /\ LoadedSoFar(diff, todo, file.item)
  BY <1>1 DEF IInv, LoadInv, File
<1>3. TaskOf(t, file.item) /\ diff.null = {}
  BY <1>2, TasksOfFile DEF LoadedSoFar
<1>4. \E d : Done(t, d) /\ LoadedSoFar(d, todo \ {t}, file.item)
  <2>1. CASE t.op = "removed"
    <3>1. insertRemoved(t)
      BY <2>1 DEF insertAdded, insertReview, substituteMsgId
    <3>2. MayRemove(diff, t.id, t.msg) /\ LoadedSoFar(AddToRemoved(diff, t.id, t.msg), todo \ {t}, file.item)
      BY <1>1, <1>2, <2>1, LoadRemoved
    <3> QED BY <1>3, <3>1, <3>2 DEF insertRemoved
  <2>2. CASE t.op = "added"
    <3>1. insertAdded(t)
      BY <2>2 DEF insertRemoved, insertReview, substituteMsgId
    <3>2. MayAdd(diff, t.id, t.msg) /\ LoadedSoFar(AddToAdded(diff, t.id, t.msg), todo \ {t}, file.item)
      BY <1>1, <1>2, <2>2, LoadAdded
    <3> QED BY <1>3, <3>1, <3>2 DEF insertAdded
  <2>3. CASE t.op = "review"
    <3>1. insertReview(t)
      BY <2>3 DEF insertRemoved, insertAdded, substituteMsgId
    <3>2. /\ ~diff.item[t.id].review
          /\ LoadedSoFar(Put(diff, t.id, [diff.item[t.id] EXCEPT !.review = TRUE]), todo \ {t}, file.item)
      BY <1>2, <2>3, LoadReview
    <3> QED BY <3>1, <3>2 DEF insertReview
  <2> QED BY <1>3, <2>1, <2>2, <2>3 DEF TaskOf
<1>5. PICK d : Done(t, d) /\ LoadedSoFar(d, todo \ {t}, file.item)
  BY <1>4
<1> QED BY <1>5 DEF Done

\* With it, a call that has ended is forgotten.
LInv == LoadInv /\ (pc \in {"ready", "writing"} => call = NoCall)

\* One turn of any loop.
LEMMA LoadLoop ==
  ASSUME IInv, LInv, NEW t \in todo,
         insertRemoved(t) \/ insertAdded(t) \/ insertReview(t) \/ substituteMsgId(t)
  PROVE  LInv' /\ (call.op = "load" /\ call.base = EmptyDiff /\ todo' = {} => pc' = "ready" /\ diff'.item = file.item)
<1>1. CASE call.op = "load" /\ call.base = EmptyDiff
  <2>1. /\ todo' = todo \ {t} /\ LoadedSoFar(diff', todo', file.item) /\ UNCHANGED file
        /\ IF todo' = {} THEN pc' = "ready" ELSE pc' = "loop" /\ call' = call
    BY <1>1, LoadTurn DEF LInv
  <2>2. todo' = {} => call' = NoCall
    BY <1>1, <2>1 DEF insertRemoved, insertAdded, insertReview, substituteMsgId, Done, Fail
  <2>3. Object(diff') /\ file.item \in [Ids -> Change]
    <3>1. IInv'
      BY LoopStep DEF Loop
    <3> QED BY <3>1 DEF IInv, File
  <2>4. todo' = {} => diff'.item = file.item
    BY <2>1, <2>3, LoadEnds
  <2> QED BY <2>1, <2>2, <2>4 DEF LInv, LoadInv, NoCall
<1>2. CASE ~(call.op = "load" /\ call.base = EmptyDiff)
  <2>1. (\E how \in {"assert", "segv"} : Fail(how)) \/ (\E d : Done(t, d))
    BY DEF insertRemoved, insertAdded, insertReview, substituteMsgId
  <2>2. CASE \E how \in {"assert", "segv"} : Fail(how)
    BY <1>2, <2>2 DEF Fail, LInv, LoadInv
  <2>3. CASE \E d : Done(t, d)
    BY <1>2, <2>3 DEF Done, LInv, LoadInv, NoCall
  <2> QED BY <2>1, <2>2, <2>3
<1> QED BY <1>1, <1>2

\* The other steps: a call begins, one that does not loop is made, or the process ends.
LEMMA LoadElse ==
  ASSUME IInv, LInv, Next, ~Loop
  PROVE  LInv' /\ (call.op = "load" /\ todo' = {} /\ pc' # pc => pc' = "ready" /\ diff' = EmptyDiff)
<1> DEFINE Safe == LInv' /\ (call.op = "load" /\ todo' = {} /\ pc' # pc => pc' = "ready" /\ diff' = EmptyDiff)
<1>0. pc \in {"ready", "writing"} => call.op = "none"
  BY DEF LInv, NoCall
<1>1. ASSUME NEW op, op # "load", NEW d, NEW tasks, pc = "ready", Begin(op, d, tasks) PROVE Safe
  BY <1>0, <1>1 DEF Begin, LInv, LoadInv, NoCall
<1>2. ASSUME pc = "ready", Begin("load", diff, ItemTasks(file.item, LoadOrder)) PROVE Safe
  <2>1. file.item \in [Ids -> Change]
    BY DEF IInv, File
  <2>2. LoadedSoFar(EmptyDiff, ItemTasks(file.item, LoadOrder), file.item)
    BY <2>1, LoadBegins
  <2> QED BY <1>0, <1>2, <2>2 DEF Begin, LInv, LoadInv, NoCall
<1>3. ASSUME pc = "ready", NEW how \in {"assert", "segv"}, Fail(how) PROVE Safe
  BY <1>0, <1>3 DEF Fail, LInv, LoadInv
<1>4. ASSUME pc = "ready", NEW d, Set(d) PROVE Safe
  BY <1>0, <1>4 DEF Set, LInv, LoadInv
<1> HIDE DEF Safe
<1>5. ASSUME NEW id \in Ids, clearReviewComment(id) \/ reviewCommentText(id) PROVE Safe
  BY <1>4, <1>5 DEF clearReviewComment, reviewCommentText
<1>6. ASSUME NEW id \in Ids, NEW m \in Msgs, acceptTranslation(id, m) \/ rejectTranslation(id, m) PROVE Safe
  BY <1>3, <1>4, <1>6 DEF acceptTranslation, rejectTranslation
<1>7. ASSUME NEW op \in {"removed", "added", "review"}, NEW id \in Ids, NEW m \in Msgs, insert(op, id, m) PROVE Safe
  BY <1>1, <1>7 DEF insert
<1>8. ASSUME clearReviewComments PROVE Safe
  BY <1>3, <1>4, <1>8 DEF clearReviewComments
<1>9. ASSUME NEW id \in Ids, NEW a \in [{id} -> PoMsg], NEW b \in [{id} -> PoMsg], diffFiles(a, b) \/ merge(a, b)
      PROVE  Safe
  BY <1>1, <1>9 DEF diffFiles, merge
<1>10. ASSUME mergeFile \/ minimizeIds PROVE Safe
  BY <1>1, <1>10 DEF mergeFile, minimizeIds
<1>11. ASSUME loadIddiff PROVE Safe
  BY <1>2, <1>3, <1>11 DEF loadIddiff
<1>12. ASSUME filterTrustedIddiff PROVE Safe
  BY <1>1, <1>3, <1>12 DEF filterTrustedIddiff
<1>13. ASSUME writeToFile \/ closeFile PROVE Safe
  <2>1. CASE \E how \in {"assert", "segv"} : pc = "ready" /\ Fail(how)
    BY <1>3, <2>1
  <2>2. CASE ~\E how \in {"assert", "segv"} : pc = "ready" /\ Fail(how)
    BY <1>0, <1>13, <2>2 DEF writeToFile, closeFile, LInv, LoadInv, Safe
  <2> QED BY <2>1, <2>2
<1>14. ASSUME NewProcess PROVE Safe
  BY <1>14 DEF NewProcess, LInv, LoadInv, Safe
<1> QED BY <1>5, <1>6, <1>7, <1>8, <1>9, <1>10, <1>11, <1>12, <1>13, <1>14 DEF Next, Review, Safe

\* Whatever the program wrote, it can read again: a file with at least one decision or comment in it loads into
\* an empty object without a failed assertion of insertRemoved, insertAdded or insertReview, and the object has
\* what the file has, in its order.
THEOREM OwnFilesLoad == Spec => LoadsOwnFiles
<1>1. Init => LInv
  BY DEF Init, LInv, LoadInv
<1>2. ASSUME IInv, LInv, [Next]_vars PROVE LInv'
  <2>1. CASE UNCHANGED vars
    BY <1>2, <2>1 DEF vars, LInv, LoadInv
  <2>2. CASE Loop
    BY <1>2, <2>2, LoadLoop DEF Loop
  <2>3. CASE Next /\ ~Loop
    BY <1>2, <2>3, LoadElse
  <2> QED BY <1>2, <2>1, <2>2, <2>3
<1>3. ASSUME IInv, LInv, [Next]_vars
      PROVE  [call.op = "load" /\ call.base = EmptyDiff /\ todo' = {} /\ pc' # pc =>
                pc' = "ready" /\ diff'.item \in {file.item, EmptyDiff.item}]_vars
  <2>2. CASE Loop
    BY <1>3, <2>2, LoadLoop DEF Loop
  <2>3. CASE Next /\ ~Loop
    BY <1>3, <2>3, LoadElse
  <2> QED BY <1>3, <2>2, <2>3
<1> QED BY <1>1, <1>2, <1>3, AlwaysIInv, PTL DEF Spec, LoadsOwnFiles

---------------------------------------------------------------------------

(* Iddiff implements ReviewContract: whatever a call does on the way, what *)
(* its user sees of it is a step of the contract, or none.                 *)

\* The decisions of an object, as the contract sees them.
Accepted(d) == [i \in Ids |-> Range(d.item[i].added)]
Rejected(d) == [i \in Ids |-> Range(d.item[i].removed)]

MoveTask(i) == [op |-> "move", id |-> i, rank |-> 1, k |-> 1, msg |-> Untranslated]
Pending == {i \in Ids : MoveTask(i) \in todo}

\* A call of minimizeIds has moved the decisions b of the messages outside P, which come first, and
\* they are now in f under their minimized IDs; those of P are where they were.
Moved(f, b, P) ==
  /\ \A j \in P : f[j] = b[j]
  /\ \A j \in Ids \ P : \A m \in Msgs : m \in f[j] <=> \E k \in Ids \ P : MinId[k] = j /\ m \in b[k]
  /\ \A k \in Ids \ P : (\A p \in P : k < p) \/ b[k] = {}

\* No two messages that were moved had decisions under one minimized ID.
Apart(b, P) ==
  \A i, k \in Ids \ P : MinId[i] = MinId[k] /\ i # k => b[i] = {} \/ b[k] = {}

Both(d) == [i \in Ids |-> Accepted(d)[i] \cup Rejected(d)[i]]

\* A call of minimizeIds on its way.
Moving ==
  /\ todo \subseteq {MoveTask(i) : i \in Ids} /\ call.tasks \subseteq {MoveTask(i) : i \in Ids}
  /\ Moved(Accepted(diff), Accepted(call.base), Pending)
  /\ Moved(Rejected(diff), Rejected(call.base), Pending)
  /\ Apart(Both(call.base), Pending)

\* Any other call on its way: of its decisions, those that were done are merged, and no other.
Growing ==
  /\ todo \subseteq call.tasks
  /\ \A t \in call.tasks : t.op # "move"
  /\ \A i \in Ids :
       /\ Accepted(diff)[i] = Accepted(call.base)[i] \cup Patch(call.tasks \ todo).accepted[i]
       /\ Rejected(diff)[i] = Rejected(call.base)[i] \cup Patch(call.tasks \ todo).rejected[i]

\* A call that has begun, and what it has done so far.
CInv ==
  /\ pc \in {"ready", "writing"} => call = NoCall
  /\ pc = "loop" => call # NoCall /\ IF call.op = "minimize" THEN Moving ELSE Growing
-----------------------------------------------------------------------------
\* The sections of an object are sets of translations that do not contradict each other.
LEMMA Sections ==
  ASSUME NEW d, Object(d)
  PROVE  \A i \in Ids : /\ Accepted(d)[i] \subseteq Msgs /\ Rejected(d)[i] \subseteq Msgs
                        /\ Accepted(d)[i] \cap Rejected(d)[i] = {}
                        /\ \A m, n \in Accepted(d)[i] : m = n
<1> SUFFICES ASSUME NEW i \in Ids
             PROVE  /\ Accepted(d)[i] \subseteq Msgs /\ Rejected(d)[i] \subseteq Msgs
                    /\ Accepted(d)[i] \cap Rejected(d)[i] = {}
                    /\ \A m, n \in Accepted(d)[i] : m = n
  OBVIOUS
<1>1. d.item[i] \in Change /\ Sound(d.item[i])
  BY DEF Object, Diff
<1>2. d.item[i].added \in Seq(Msgs) /\ d.item[i].removed \in Seq(Msgs)
  BY <1>1 DEF Change
<1>3. Accepted(d)[i] = Range(d.item[i].added) /\ Rejected(d)[i] = Range(d.item[i].removed)
  BY DEF Accepted, Rejected
<1>4. \A m, n \in Range(d.item[i].added) : m = n
  <2> DEFINE s == d.item[i].added
  <2>1. s \in Seq(Msgs) /\ Len(s) <= 1
    BY <1>1, <1>2 DEF Sound
  <2> HIDE DEF s
  <2>2. \A j, k \in DOMAIN s : j = k
    BY <2>1
  <2>3. \A m, n \in Range(s) : m = n
    BY <2>2 DEF Range
  <2> QED BY <2>3 DEF s
<1>5. Range(d.item[i].added) \subseteq Msgs /\ Range(d.item[i].removed) \subseteq Msgs
  BY <1>2 DEF Range
<1>6. Range(d.item[i].added) \cap Range(d.item[i].removed) = {}
  BY <1>1 DEF Sound
<1> QED BY <1>3, <1>4, <1>5, <1>6

\* A message without a change has no decisions.
LEMMA NoDecisions ==
  ASSUME NEW d, NEW i \in Ids, d.item[i] = NoChange
  PROVE  Accepted(d)[i] = {} /\ Rejected(d)[i] = {}
<1>1. Range(<<>>) = {}
  BY DEF Range
<1> QED BY <1>1 DEF Accepted, Rejected, NoChange

\* What a list of tasks is to merge: nothing, one decision more, and always a patch.
LEMMA PatchTasks ==
  /\ Patch({}) = Contract!NoDecisions
  /\ \A T : (\A t \in T : t.op = "move") => Patch(T) = Contract!NoDecisions
  /\ \A T \in SUBSET Task : Patch(T) \in Contract!Patches
  /\ \A T, t : \A i \in Ids :
       /\ Patch(T \cup {t}).accepted[i] =
            Patch(T).accepted[i] \cup (IF t.op = "added" /\ t.id = i THEN {t.msg} ELSE {})
       /\ Patch(T \cup {t}).rejected[i] =
            Patch(T).rejected[i] \cup (IF t.op = "removed" /\ t.id = i THEN {t.msg} ELSE {})
<1>1. ASSUME NEW T, \A t \in T : t.op = "move" PROVE Patch(T) = Contract!NoDecisions
  <2>1. \A i \in Ids : TaskDecisions("added", T)[i] = {} /\ TaskDecisions("removed", T)[i] = {}
    BY <1>1 DEF TaskDecisions
  <2>2. /\ TaskDecisions("added", T) = [i \in Ids |-> {}]
        /\ TaskDecisions("removed", T) = [i \in Ids |-> {}]
    BY <2>1 DEF TaskDecisions
  <2> QED BY <2>2 DEF Patch, Contract!NoDecisions, Contract!Undecided
<1>2. ASSUME NEW T \in SUBSET Task PROVE Patch(T) \in Contract!Patches
  <2>1. \A t \in T : t.op \in {"added", "removed"} => t.msg \in Msgs
    BY DEF Task
  <2>2. /\ TaskDecisions("added", T) \in [Ids -> SUBSET Msgs]
        /\ TaskDecisions("removed", T) \in [Ids -> SUBSET Msgs]
    BY <2>1 DEF TaskDecisions
  <2> QED BY <2>2 DEF Patch, Contract!Patches
<1>3. ASSUME NEW T, NEW t, NEW i \in Ids
      PROVE  /\ Patch(T \cup {t}).accepted[i] =
                  Patch(T).accepted[i] \cup (IF t.op = "added" /\ t.id = i THEN {t.msg} ELSE {})
             /\ Patch(T \cup {t}).rejected[i] =
                  Patch(T).rejected[i] \cup (IF t.op = "removed" /\ t.id = i THEN {t.msg} ELSE {})
  <2>1. ASSUME NEW op
        PROVE  TaskDecisions(op, T \cup {t})[i] =
                 TaskDecisions(op, T)[i] \cup (IF t.op = op /\ t.id = i THEN {t.msg} ELSE {})
    BY DEF TaskDecisions
  <2> QED BY <2>1 DEF Patch
<1>4. Patch({}) = Contract!NoDecisions
  BY <1>1
<1> QED BY <1>1, <1>2, <1>3, <1>4

\* A step that leaves the file alone, and does not stop between two writes to it.
Idle == pc # "writing" /\ pc' # "writing" /\ file' = file

\* No call is running, before and after the step.
Quiet == Idle /\ call = NoCall /\ call' = NoCall

LEMMA QuietStep == ASSUME Quiet PROVE Contract!Quiet
  BY PatchTasks DEF Quiet, Idle, NoCall, Contract!Quiet

\* What the user does not see is no step of the contract.
LEMMA UnseenStep ==
  ASSUME UNCHANGED settled, Idle, Patch(call'.tasks) = Patch(call.tasks)
  PROVE  UNCHANGED Contract!vars
  BY DEF Contract!vars, Idle

\* The contract's variables, in terms of the object that the user sees.
LEMMA UserSees ==
  ASSUME NEW d, NEW e, settled = d, settled' = e, Idle
  PROVE  /\ /\ Accepted(d) = Accepted(e) /\ Rejected(d) = Rejected(e)
            /\ Patch(call'.tasks) = Patch(call.tasks)
            => UNCHANGED Contract!vars
         /\ /\ \/ Accepted(e) = Accepted(d) /\ Rejected(e) = Rejected(d)
               \/ \A i \in Ids : Accepted(e)[i] = {} /\ Rejected(e)[i] = {}
            /\ call = NoCall /\ call'.tasks \subseteq Task
            => Contract!Begin
         /\ /\ \A i \in Ids : /\ Accepted(e)[i] = Accepted(d)[i] \cup Patch(call.tasks).accepted[i]
                              /\ Rejected(e)[i] = Rejected(d)[i] \cup Patch(call.tasks).rejected[i]
            /\ Object(e) /\ call' = NoCall
            => Contract!Combine
<1>1. Accepted(d) = Accepted(e) /\ Rejected(d) = Rejected(e) /\ Patch(call'.tasks) = Patch(call.tasks)
        => UNCHANGED Contract!vars
  BY DEF Contract!vars, Accepted, Rejected, Idle
<1>2. ASSUME \/ Accepted(e) = Accepted(d) /\ Rejected(e) = Rejected(d)
             \/ \A i \in Ids : Accepted(e)[i] = {} /\ Rejected(e)[i] = {},
             call = NoCall, call'.tasks \subseteq Task
      PROVE  Contract!Begin
  <2>1. Patch(call.tasks) = Contract!NoDecisions /\ Patch(call'.tasks) \in Contract!Patches
    BY <1>2, PatchTasks DEF NoCall
  <2>2. \/ Accepted(settled') = Accepted(settled) /\ Rejected(settled') = Rejected(settled)
        \/ Accepted(settled') = Contract!Undecided /\ Rejected(settled') = Contract!Undecided
    BY <1>2 DEF Accepted, Rejected, Contract!Undecided
  <2> QED BY <2>1, <2>2 DEF Contract!Begin, Accepted, Rejected, Idle
<1>3. ASSUME \A i \in Ids : /\ Accepted(e)[i] = Accepted(d)[i] \cup Patch(call.tasks).accepted[i]
                            /\ Rejected(e)[i] = Rejected(d)[i] \cup Patch(call.tasks).rejected[i],
             Object(e), call' = NoCall
      PROVE  Contract!Combine
  <2>1. \A i \in Ids : /\ Accepted(e)[i] \cap Rejected(e)[i] = {}
                       /\ \A m, n \in Accepted(e)[i] : m = n
    BY <1>3, Sections
  <2>2. Contract!Consistent'
    BY <2>1 DEF Contract!Consistent, Accepted, Rejected
  <2>3. /\ Accepted(settled') = [i \in Ids |-> Accepted(settled)[i] \cup Patch(call.tasks).accepted[i]]
        /\ Rejected(settled') = [i \in Ids |-> Rejected(settled)[i] \cup Patch(call.tasks).rejected[i]]
    BY <1>3 DEF Accepted, Rejected
  <2>4. Patch(call'.tasks) = Contract!NoDecisions
    BY <1>3, PatchTasks DEF NoCall
  <2> QED BY <2>2, <2>3, <2>4 DEF Contract!Combine, Accepted, Rejected, Idle
<1> QED BY <1>1, <1>2, <1>3
-----------------------------------------------------------------------------
\* insertRemoved and insertAdded: one decision more, and no other message is touched.
LEMMA AddDecision ==
  ASSUME NEW d, Object(d), NEW id \in Ids, NEW m \in Msgs
  PROVE  /\ Accepted(AddToRemoved(d, id, m)) = Accepted(d)
         /\ Rejected(AddToRemoved(d, id, m)) = [Rejected(d) EXCEPT ![id] = @ \cup {m}]
         /\ Accepted(AddToAdded(d, id, m)) = [Accepted(d) EXCEPT ![id] = @ \cup {m}]
         /\ Rejected(AddToAdded(d, id, m)) = Rejected(d)
<1> DEFINE c == d.item[id]
           r == [c EXCEPT !.removed = Append(@, m)]
           a == [c EXCEPT !.added = Append(@, m)]
<1>1. c \in Change /\ d.item \in [Ids -> Change] /\ c.removed \in Seq(Msgs) /\ c.added \in Seq(Msgs)
  BY DEF Object, Diff, Change
<1>2. /\ r.added = c.added /\ Range(r.removed) = Range(c.removed) \cup {m}
      /\ a.removed = c.removed /\ Range(a.added) = Range(c.added) \cup {m}
  BY <1>1, AppendSection DEF Change
<1>3. /\ AddToRemoved(d, id, m) = IF m \in Range(c.removed) THEN d ELSE Put(d, id, r)
      /\ AddToAdded(d, id, m) = IF m \in Range(c.added) THEN d ELSE Put(d, id, a)
  BY DEF AddToRemoved, AddToAdded, InRemoved, InAdded
<1> HIDE DEF r, a, c
<1>4. /\ Put(d, id, r).item = [d.item EXCEPT ![id] = r]
      /\ Put(d, id, a).item = [d.item EXCEPT ![id] = a]
  BY DEF Put
<1>5. c = d.item[id]
  BY DEF c
<1>6. /\ Accepted(Put(d, id, r)) = Accepted(d)
      /\ Rejected(Put(d, id, r)) = [Rejected(d) EXCEPT ![id] = @ \cup {m}]
  BY <1>1, <1>2, <1>4, <1>5 DEF Accepted, Rejected
<1>7. /\ Accepted(Put(d, id, a)) = [Accepted(d) EXCEPT ![id] = @ \cup {m}]
      /\ Rejected(Put(d, id, a)) = Rejected(d)
  BY <1>1, <1>2, <1>4, <1>5 DEF Accepted, Rejected
<1>8. m \in Range(c.removed) => Rejected(d) = [Rejected(d) EXCEPT ![id] = @ \cup {m}]
  BY <1>5 DEF Rejected
<1>9. m \in Range(c.added) => Accepted(d) = [Accepted(d) EXCEPT ![id] = @ \cup {m}]
  BY <1>5 DEF Accepted
<1> QED BY <1>3, <1>6, <1>7, <1>8, <1>9

\* A change that is cleared has no decisions.
LEMMA ClearDecisions ==
  ASSUME NEW d, d.item \in [Ids -> Change], NEW id \in Ids
  PROVE  /\ clearEmptyMessageData(d, id).item = d.item
         /\ Drop(d, id).item = [d.item EXCEPT ![id] = NoChange]
  BY DEF clearEmptyMessageData, Drop

\* Erasing a translation from a section takes away that one, and nothing else.
LEMMA EraseDecision ==
  ASSUME NEW d, Object(d), NEW id \in Ids, NEW m \in Msgs
  PROVE  /\ InRemoved(d, id, m) =>
              /\ Accepted(eraseRemoved(d, id, m)) = Accepted(d)
              /\ Rejected(eraseRemoved(d, id, m)) = [Rejected(d) EXCEPT ![id] = @ \ {m}]
         /\ InAdded(d, id, m) =>
              /\ Accepted(eraseAdded(d, id, m)) = [Accepted(d) EXCEPT ![id] = @ \ {m}]
              /\ Rejected(eraseAdded(d, id, m)) = Rejected(d)
<1> DEFINE c == d.item[id]
           r == RemoveFirst(c.removed, m)
           a == RemoveFirst(c.added, m)
<1>1. /\ c \in Change /\ d.item \in [Ids -> Change] /\ Sound(c)
      /\ c.removed \in Seq(Msgs) /\ c.added \in Seq(Msgs)
  BY DEF Object, Diff, Change
<1>2. ASSUME InRemoved(d, id, m)
      PROVE  /\ Accepted(eraseRemoved(d, id, m)) = Accepted(d)
             /\ Rejected(eraseRemoved(d, id, m)) = [Rejected(d) EXCEPT ![id] = @ \ {m}]
  <2>1. r \in Seq(Msgs) /\ Range(r) = Range(c.removed) \ {m}
    BY <1>1, <1>2, RemoveSection DEF InRemoved, Sound
  <2> DEFINE e == [d EXCEPT !.item[id].removed = r]
             x == [c EXCEPT !.removed = r]
  <2>2. x \in Change /\ x.added = c.added /\ x.removed = r
    BY <1>1, <2>1 DEF Change
  <2>3. e.item = [d.item EXCEPT ![id] = x] /\ c = d.item[id]
    BY DEF Object, Diff
  <2>4. eraseRemoved(d, id, m) = clearEmptyMessageData(e, id)
    BY DEF eraseRemoved
  <2> HIDE DEF e, x, r, c
  <2>5. e.item \in [Ids -> Change]
    BY <1>1, <2>2, <2>3
  <2>6. eraseRemoved(d, id, m).item = [d.item EXCEPT ![id] = x]
    <3>1. clearEmptyMessageData(e, id).item = e.item
      BY <2>5, ClearDecisions
    <3> QED BY <2>3, <2>4, <3>1, Zenon
  <2> QED BY <1>1, <2>1, <2>2, <2>3, <2>6 DEF Accepted, Rejected
<1>3. ASSUME InAdded(d, id, m)
      PROVE  /\ Accepted(eraseAdded(d, id, m)) = [Accepted(d) EXCEPT ![id] = @ \ {m}]
             /\ Rejected(eraseAdded(d, id, m)) = Rejected(d)
  <2>1. a \in Seq(Msgs) /\ Range(a) = Range(c.added) \ {m}
    <3>1. m \in Range(c.added)
      BY <1>3 DEF InAdded
    <3>2. \A j, k \in DOMAIN c.added : c.added[j] = c.added[k] => j = k
      BY <1>1 DEF Sound
    <3> QED BY <1>1, <3>1, <3>2, RemoveSection
  <2> DEFINE e == [d EXCEPT !.item[id].added = a]
             x == [c EXCEPT !.added = a]
  <2>2. x \in Change /\ x.removed = c.removed /\ x.added = a
    BY <1>1, <2>1 DEF Change
  <2>3. e.item = [d.item EXCEPT ![id] = x] /\ c = d.item[id]
    BY DEF Object, Diff
  <2>4. eraseAdded(d, id, m) = clearEmptyMessageData(e, id)
    BY DEF eraseAdded
  <2> HIDE DEF e, x, a, c
  <2>5. e.item \in [Ids -> Change]
    BY <1>1, <2>2, <2>3
  <2>6. eraseAdded(d, id, m).item = [d.item EXCEPT ![id] = x]
    <3>1. clearEmptyMessageData(e, id).item = e.item
      BY <2>5, ClearDecisions
    <3> QED BY <2>3, <2>4, <3>1, Zenon
  <2> QED BY <1>1, <2>1, <2>2, <2>3, <2>6 DEF Accepted, Rejected
<1> QED BY <1>2, <1>3
-----------------------------------------------------------------------------
\* A failure shows nothing: the decisions of the running call are not merged any more.
LEMMA FailRefines ==
  ASSUME CInv, pc # "writing", NEW how \in {"assert", "segv"}, Fail(how)
  PROVE  CInv' /\ UNCHANGED Contract!vars
<1>1. CInv' /\ UNCHANGED settled /\ Idle /\ call' = call
  BY DEF Fail, CInv, settled, Idle
<1> QED BY <1>1, UnseenStep

\* A call without a loop shows its object, and no call is running then.
LEMMA SetRefines ==
  ASSUME CInv, pc = "ready", NEW d, Set(d)
  PROVE  CInv' /\ settled = diff /\ settled' = d /\ Quiet
  BY DEF Set, CInv, settled, Quiet, Idle

\* A verdict is the contract's.
LEMMA VerdictRefines ==
  ASSUME IInv, CInv, NEW id \in Ids, NEW m \in Msgs,
         acceptTranslation(id, m) \/ rejectTranslation(id, m)
  PROVE  CInv' /\ [Contract!Next]_(Contract!vars)
<1>0. Object(diff)
  BY DEF IInv
<1>1. CASE Fail("segv") \/ Fail("assert")
  BY <1>1, FailRefines DEF acceptTranslation, rejectTranslation
<1>2. CASE acceptTranslation(id, m) /\ ~(Fail("segv") \/ Fail("assert"))
  <2> DEFINE d == IF InRemoved(diff, id, m) THEN eraseRemoved(diff, id, m) ELSE diff
             e == AddToAdded(d, id, m)
  <2>1. pc = "ready" /\ MayAdd(d, id, m) /\ Set(e)
    BY <1>2 DEF acceptTranslation
  <2>2. CInv' /\ settled = diff /\ settled' = e /\ Quiet
    BY <2>1, SetRefines
  <2>3. /\ Accepted(d) = Accepted(diff) /\ Rejected(d) = [Rejected(diff) EXCEPT ![id] = @ \ {m}]
        /\ Object(d)
    <3>1. CASE InRemoved(diff, id, m)
      BY <1>0, <3>1, EraseDecision, EraseRemovedObject
    <3>2. CASE ~InRemoved(diff, id, m)
      <4>1. Rejected(diff)[id] = Rejected(diff)[id] \ {m}
        BY <3>2 DEF InRemoved, Rejected
      <4>2. Rejected(diff) = [Rejected(diff) EXCEPT ![id] = @ \ {m}]
        BY <4>1 DEF Rejected
      <4> QED BY <1>0, <3>2, <4>2
    <3> QED BY <3>1, <3>2
  <2>4. \A n \in Accepted(d)[id] : n = m
    BY <2>1 DEF MayAdd, Accepted
  <2> HIDE DEF d
  <2>5. Accepted(e) = [Accepted(d) EXCEPT ![id] = @ \cup {m}] /\ Rejected(e) = Rejected(d)
    BY <2>3, AddDecision
  <2>6. /\ Accepted(e) = [Accepted(diff) EXCEPT ![id] = {m}]
        /\ Rejected(e) = [Rejected(diff) EXCEPT ![id] = (@ \cup Accepted(diff)[id]) \ {m}]
    BY <2>3, <2>4, <2>5 DEF Accepted, Rejected
  <2> HIDE DEF e
  <2>7. Contract!Accept(id, m)
    BY <2>2, <2>6, QuietStep DEF Contract!Accept, Accepted, Rejected
  <2> QED BY <2>2, <2>7 DEF Contract!Next
<1>3. CASE rejectTranslation(id, m) /\ ~(Fail("segv") \/ Fail("assert"))
  <2> DEFINE d == IF InAdded(diff, id, m) THEN eraseAdded(diff, id, m) ELSE diff
             e == AddToRemoved(d, id, m)
  <2>1. pc = "ready" /\ Set(e)
    BY <1>3 DEF rejectTranslation
  <2>2. CInv' /\ settled = diff /\ settled' = e /\ Quiet
    BY <2>1, SetRefines
  <2>3. /\ Accepted(d) = [Accepted(diff) EXCEPT ![id] = @ \ {m}] /\ Rejected(d) = Rejected(diff)
        /\ Object(d)
    <3>1. CASE InAdded(diff, id, m)
      BY <1>0, <3>1, EraseDecision, EraseAddedObject
    <3>2. CASE ~InAdded(diff, id, m)
      <4>1. Accepted(diff)[id] = Accepted(diff)[id] \ {m}
        BY <3>2 DEF InAdded, Accepted
      <4>2. Accepted(diff) = [Accepted(diff) EXCEPT ![id] = @ \ {m}]
        BY <4>1 DEF Accepted
      <4> QED BY <1>0, <3>2, <4>2
    <3> QED BY <3>1, <3>2
  <2> HIDE DEF d
  <2>4. Accepted(e) = Accepted(d) /\ Rejected(e) = [Rejected(d) EXCEPT ![id] = @ \cup {m}]
    BY <2>3, AddDecision
  <2> HIDE DEF e
  <2>5. Contract!Reject(id, m)
    <3>1. Accepted(settled') = [Accepted(settled) EXCEPT ![id] = @ \ {m}]
      BY <2>2, <2>3, <2>4
    <3>2. Rejected(settled') = [Rejected(settled) EXCEPT ![id] = @ \cup {m}]
      BY <2>2, <2>3, <2>4
    <3> QED BY <2>2, <3>1, <3>2, QuietStep DEF Contract!Reject, Accepted, Rejected
  <2> QED BY <2>2, <2>5 DEF Contract!Next
<1> QED BY <1>1, <1>2, <1>3

\* The calls about comments change no decision.
LEMMA CommentRefines ==
  ASSUME IInv, CInv,
         \/ \E id \in Ids : clearReviewComment(id) \/ reviewCommentText(id)
         \/ clearReviewComments
  PROVE  CInv' /\ [Contract!Next]_(Contract!vars)
<1>0. diff.item \in [Ids -> Change]
  BY DEF IInv, Object, Diff
<1>1. ASSUME NEW d, Set(d), pc = "ready", Accepted(d) = Accepted(diff), Rejected(d) = Rejected(diff)
      PROVE  CInv' /\ UNCHANGED Contract!vars
  BY <1>1, SetRefines, UserSees DEF Quiet
<1>2. ASSUME NEW id \in Ids
      PROVE  LET d == [diff EXCEPT !.item[id].review = FALSE]
                 n == [diff EXCEPT !.keys = @ \cup {id}, !.null = @ \cup {id}]
             IN  /\ Accepted(d) = Accepted(diff) /\ Rejected(d) = Rejected(diff)
                 /\ Accepted(n) = Accepted(diff) /\ Rejected(n) = Rejected(diff)
  <2>1. diff \in Diff /\ \A i \in Ids : diff.item[i] \in Change
    BY <1>0 DEF IInv, Object
  <2> QED BY <2>1 DEF Accepted, Rejected, Diff, Change
<1>3. LET d == [diff EXCEPT !.item = [i \in Ids |-> [diff.item[i] EXCEPT !.review = FALSE]]]
      IN  Accepted(d) = Accepted(diff) /\ Rejected(d) = Rejected(diff)
  <2>1. diff \in Diff /\ \A i \in Ids : diff.item[i] \in Change
    BY <1>0 DEF IInv, Object
  <2> QED BY <2>1 DEF Accepted, Rejected, Diff, Change
<1>4. ASSUME NEW id \in Ids, clearReviewComment(id) \/ reviewCommentText(id)
      PROVE  CInv' /\ UNCHANGED Contract!vars
  BY <1>1, <1>2, <1>4 DEF clearReviewComment, reviewCommentText
<1>5. CASE clearReviewComments
  BY <1>1, <1>3, <1>5, FailRefines DEF clearReviewComments
<1> QED BY <1>4, <1>5

\* The file is erased and stored; another process has forgotten everything else.
LEMMA FileRefines ==
  ASSUME CInv, writeToFile \/ closeFile \/ NewProcess
  PROVE  CInv' /\ [Contract!Next]_(Contract!vars)
<1>0. Patch(NoCall.tasks) = Contract!NoDecisions /\ Decisions(EmptyDiff.item) = Contract!NoDecisions
  <2>1. \A i \in Ids : Range(EmptyDiff.item[i].added) = {} /\ Range(EmptyDiff.item[i].removed) = {}
    BY DEF EmptyDiff, NoChange, Range
  <2>2. Decisions(EmptyDiff.item) = Contract!NoDecisions
    BY <2>1 DEF Decisions, Contract!NoDecisions, Contract!Undecided
  <2> QED BY <2>2, PatchTasks DEF NoCall
<1>1. CASE writeToFile
  <2>1. CASE Fail("segv")
    BY <1>1, <2>1, FailRefines DEF writeToFile
  <2>2. CASE ~Fail("segv")
    <3>1. /\ CInv' /\ UNCHANGED settled /\ call = NoCall /\ call' = NoCall
          /\ pc = "ready" /\ pc' = "writing" /\ file'.item = EmptyDiff.item
      BY <1>1, <2>2 DEF writeToFile, CInv, settled
    <3> QED BY <1>0, <3>1 DEF Contract!Next, Contract!Erase
  <2> QED BY <2>1, <2>2
<1>2. CASE closeFile
  <2>1. /\ CInv' /\ settled = diff /\ settled' = diff /\ call = NoCall /\ call' = NoCall
        /\ pc = "writing" /\ pc' = "ready" /\ file'.item = diff.item
    BY <1>2 DEF closeFile, CInv, settled, generateIddiffText
  <2> QED BY <2>1 DEF Contract!Next, Contract!Store, Decisions
<1>3. CASE NewProcess
  <2>1. /\ CInv' /\ settled' = EmptyDiff /\ call' = NoCall /\ pc' = "ready" /\ file' = file
    BY <1>3 DEF NewProcess, CInv, settled
  <2>2. \A i \in Ids : Range(EmptyDiff.item[i].added) = {} /\ Range(EmptyDiff.item[i].removed) = {}
    BY DEF EmptyDiff, NoChange, Range
  <2>3. /\ [i \in Ids |-> Range(settled'.item[i].added)] = Contract!Undecided
        /\ [i \in Ids |-> Range(settled'.item[i].removed)] = Contract!Undecided
    BY <2>1, <2>2 DEF Contract!Undecided
  <2> QED BY <1>0, <2>1, <2>3 DEF Contract!Next, Contract!Forget
<1> QED BY <1>1, <1>2, <1>3
-----------------------------------------------------------------------------
\* A call begins with the object that the user sees, or has forgotten it.
LEMMA BeginRefines ==
  ASSUME IInv, CInv, pc = "ready", NEW op \in Calls \ {"none"}, NEW d \in {diff, EmptyDiff},
         NEW tasks, Begin(op, d, tasks),
         IInv', IF op = "minimize" THEN d = diff /\ tasks = {MoveTask(i) : i \in diff.keys}
                                   ELSE \A t \in tasks : t.op # "move"
  PROVE  CInv' /\ [Contract!Next]_(Contract!vars)
<1>1. settled = diff
  BY DEF CInv, settled
<1>2. [op |-> op, base |-> d, tasks |-> tasks] # NoCall
  BY DEF NoCall
<1>3. settled' = d
  BY <1>2 DEF Begin, settled
<1>4. [Contract!Next]_(Contract!vars)
  <2>1. \A i \in Ids : Accepted(EmptyDiff)[i] = {} /\ Rejected(EmptyDiff)[i] = {}
    BY NoDecisions DEF EmptyDiff
  <2>2. call = NoCall /\ Idle
    BY DEF Begin, CInv, Idle
  <2>3. call'.tasks \subseteq Task
    BY DEF IInv, TypeOK, Begin, NoCall
  <2> QED BY <1>1, <1>3, <2>1, <2>2, <2>3, UserSees DEF Contract!Next
<1>5. CInv'
  <2>1. CASE tasks = {}
    BY <2>1 DEF Begin, CInv
  <2>2. CASE tasks # {} /\ op # "minimize"
    <3>1. /\ diff' = d /\ call'.base = d /\ call'.tasks = tasks /\ todo' = tasks
      BY <2>2 DEF Begin
    <3>2. \A i \in Ids : Patch({}).accepted[i] = {} /\ Patch({}).rejected[i] = {}
      BY PatchTasks DEF Contract!NoDecisions, Contract!Undecided
    <3>3. Growing'
      <4>1. call'.tasks \ todo' = {}
        BY <3>1
      <4> QED BY <2>2, <3>1, <3>2, <4>1 DEF Growing
    <3> QED BY <1>2, <2>2, <3>3 DEF Begin, CInv
  <2>3. CASE tasks # {} /\ op = "minimize"
    <3>1. /\ diff' = diff /\ call'.base = diff /\ call'.op = "minimize" /\ call'.tasks = todo'
          /\ todo' = {MoveTask(i) : i \in diff.keys} /\ pc' = "loop" /\ call' # NoCall
      BY <1>2, <2>3 DEF Begin
    <3>2. diff.keys \subseteq Ids /\ \A k \in Ids \ diff.keys : diff.item[k] = NoChange
      BY DEF IInv, Object, Diff
    <3>3. Pending' = diff.keys
      BY <3>1, <3>2 DEF Pending, MoveTask
    <3>4. \A k \in Ids \ diff.keys : Accepted(diff)[k] = {} /\ Rejected(diff)[k] = {}
      BY <3>2, NoDecisions
    <3>5. \A k \in Ids \ diff.keys : Both(diff)[k] = {}
      BY <3>4 DEF Both
    <3>6. /\ Moved(Accepted(diff), Accepted(diff), diff.keys)
          /\ Moved(Rejected(diff), Rejected(diff), diff.keys)
          /\ Apart(Both(diff), diff.keys)
      BY <3>4, <3>5 DEF Moved, Apart
    <3>7. Moving'
      BY <3>1, <3>2, <3>3, <3>6 DEF Moving
    <3> QED BY <3>1, <3>7 DEF CInv
  <2> QED BY <2>1, <2>2, <2>3
<1> QED BY <1>4, <1>5

\* The tasks of a patch move nothing.
LEMMA NoMoves ==
  /\ \A a, b : \A t \in DiffTasks(a, b) : t.op # "move"
  /\ \A item, order : \A t \in ItemTasks(item, order) : t.op # "move"
<1>1. ASSUME NEW a, NEW b, NEW t \in DiffTasks(a, b) PROVE t.op # "move"
  BY DEF DiffTasks
<1>2. ASSUME NEW item, NEW order, NEW t \in ItemTasks(item, order) PROVE t.op # "move"
  <2>1. ASSUME NEW op, NEW i, NEW rank, NEW section, NEW u \in SectionTasks(op, i, rank, section)
        PROVE  u.op = op
    BY DEF SectionTasks
  <2>2. \/ \E i \in Ids : t \in SectionTasks("removed", i, order.removed, item[i].removed)
        \/ \E i \in Ids : t \in SectionTasks("added", i, order.added, item[i].added)
        \/ t.op = "review"
    BY DEF ItemTasks
  <2> QED BY <2>1, <2>2
<1> QED BY <1>1, <1>2

\* The calls that loop begin like that.
LEMMA CallRefines ==
  ASSUME IInv, IInv', CInv,
         \/ \E id \in Ids : \E a, b \in [{id} -> PoMsg] : diffFiles(a, b) \/ merge(a, b)
         \/ mergeFile \/ loadIddiff \/ filterTrustedIddiff \/ minimizeIds
         \/ \E op \in {"removed", "added", "review"}, id \in Ids, m \in Msgs : insert(op, id, m)
  PROVE  CInv' /\ [Contract!Next]_(Contract!vars)
<1>0. {"diff", "merge", "load", "filter", "minimize", "insert"} \subseteq Calls \ {"none"}
  BY DEF Calls
<1>1. CASE Fail("segv") \/ Fail("assert")
  <2>1. pc = "ready"
    BY DEF diffFiles, merge, mergeFile, loadIddiff, filterTrustedIddiff, minimizeIds, insert
  <2> QED BY <1>1, <2>1, FailRefines
<1>2. ASSUME NEW id \in Ids, NEW a \in [{id} -> PoMsg], NEW b \in [{id} -> PoMsg],
             diffFiles(a, b) \/ merge(a, b)
      PROVE  CInv' /\ [Contract!Next]_(Contract!vars)
  BY <1>0, <1>2, NoMoves, BeginRefines DEF diffFiles, merge
<1>3. CASE mergeFile
  BY <1>0, <1>3, NoMoves, BeginRefines DEF mergeFile
<1>4. CASE loadIddiff /\ ~(Fail("segv") \/ Fail("assert"))
  BY <1>0, <1>4, NoMoves, BeginRefines DEF loadIddiff
<1>5. CASE filterTrustedIddiff /\ ~(Fail("segv") \/ Fail("assert"))
  <2> DEFINE T == {t \in ItemTasks(diff.item, MergeOrder) :
                     IF t.op = "removed"
                       THEN t.msg \notin Range(file.item[t.id].removed)
                       ELSE t.msg \notin Range(file.item[t.id].added)}
  <2>1. pc = "ready" /\ Begin("filter", EmptyDiff, T)
    BY <1>5 DEF filterTrustedIddiff
  <2>2. \A t \in T : t.op # "move"
    BY NoMoves
  <2> HIDE DEF T
  <2> QED BY <1>0, <2>1, <2>2, BeginRefines
<1>6. CASE minimizeIds
  BY <1>0, <1>6, BeginRefines DEF minimizeIds, MoveTask
<1>7. ASSUME NEW op \in {"removed", "added", "review"}, NEW id \in Ids, NEW m \in Msgs,
             insert(op, id, m)
      PROVE  CInv' /\ [Contract!Next]_(Contract!vars)
  <2> DEFINE T == {[op |-> op, id |-> id, rank |-> 1, k |-> 1,
                    msg |-> IF op = "review" THEN Untranslated ELSE m]}
  <2>1. pc = "ready" /\ Begin("insert", diff, T)
    BY <1>7 DEF insert
  <2>2. \A t \in T : t.op # "move"
    OBVIOUS
  <2> HIDE DEF T
  <2> QED BY <1>0, <2>1, <2>2, BeginRefines
<1> QED BY <1>1, <1>2, <1>3, <1>4, <1>5, <1>6, <1>7
-----------------------------------------------------------------------------
\* One turn of a loop that is not the last shows nothing; the last shows the object.
LEMMA TurnShows ==
  ASSUME CInv, pc = "loop", NEW t \in todo, NEW e, Done(t, e)
  PROVE  /\ settled = call.base /\ Idle
         /\ todo' # {} => pc' = "loop" /\ call' = call /\ UNCHANGED settled
         /\ todo' = {} => CInv' /\ settled' = e /\ call' = NoCall
<1>1. settled = call.base /\ call # NoCall /\ Idle
  BY DEF CInv, settled, Idle, Done
<1>2. CASE todo = {t}
  BY <1>1, <1>2 DEF Done, CInv, settled
<1>3. CASE todo # {t}
  BY <1>1, <1>3 DEF Done, CInv, settled
<1> QED BY <1>2, <1>3

\* A patch: one decision after the other is merged, and when all are, the user sees it.
LEMMA GrowRefines ==
  ASSUME IInv, IInv', CInv, Growing, pc = "loop", call.op # "minimize", NEW t \in todo,
         insertRemoved(t) \/ insertAdded(t) \/ insertReview(t) \/ substituteMsgId(t)
  PROVE  CInv' /\ [Contract!Next]_(Contract!vars)
<1>0. Object(diff) /\ t \in Task /\ t.id \in Ids /\ t.op # "move" /\ Object(diff')
  BY DEF IInv, TypeOK, Task, Growing
<1>1. \A id \in Ids, m \in Msgs :
        /\ Accepted(AddToRemoved(diff, id, m)) = Accepted(diff)
        /\ Rejected(AddToRemoved(diff, id, m)) = [Rejected(diff) EXCEPT ![id] = @ \cup {m}]
        /\ Accepted(AddToAdded(diff, id, m)) = [Accepted(diff) EXCEPT ![id] = @ \cup {m}]
        /\ Rejected(AddToAdded(diff, id, m)) = Rejected(diff)
  BY <1>0, AddDecision
<1>2. CASE Fail("segv") \/ Fail("assert")
  BY <1>2, FailRefines
<1>3. CASE ~(Fail("segv") \/ Fail("assert"))
  <2>1. /\ Done(t, diff')
        /\ \A i \in Ids :
             /\ Accepted(diff')[i] =
                  Accepted(diff)[i] \cup (IF t.op = "added" /\ t.id = i THEN {t.msg} ELSE {})
             /\ Rejected(diff')[i] =
                  Rejected(diff)[i] \cup (IF t.op = "removed" /\ t.id = i THEN {t.msg} ELSE {})
    <3>1. CASE insertRemoved(t)
      <4> DEFINE e == AddToRemoved(diff, t.id, t.msg)
      <4>1. Done(t, e) /\ t.msg \in Msgs /\ t.op = "removed"
        BY <1>0, <1>3, <3>1 DEF insertRemoved, Task
      <4>2. /\ Accepted(e) = Accepted(diff)
            /\ Rejected(e) = [Rejected(diff) EXCEPT ![t.id] = @ \cup {t.msg}]
        BY <1>0, <1>1, <4>1
      <4> HIDE DEF e
      <4>3. diff' = e /\ Done(t, diff')
        BY <4>1 DEF Done
      <4> QED BY <4>1, <4>2, <4>3 DEF Accepted, Rejected
    <3>2. CASE insertAdded(t)
      <4> DEFINE e == AddToAdded(diff, t.id, t.msg)
      <4>1. Done(t, e) /\ t.msg \in Msgs /\ t.op = "added"
        BY <1>0, <1>3, <3>2 DEF insertAdded, Task
      <4>2. /\ Accepted(e) = [Accepted(diff) EXCEPT ![t.id] = @ \cup {t.msg}]
            /\ Rejected(e) = Rejected(diff)
        BY <1>0, <1>1, <4>1
      <4> HIDE DEF e
      <4>3. diff' = e /\ Done(t, diff')
        BY <4>1 DEF Done
      <4> QED BY <4>1, <4>2, <4>3 DEF Accepted, Rejected
    <3>3. CASE insertReview(t)
      <4> DEFINE c == [diff.item[t.id] EXCEPT !.review = TRUE]
      <4>1. Done(t, Put(diff, t.id, c)) /\ t.op = "review"
        BY <1>3, <3>3 DEF insertReview
      <4>2. diff' = Put(diff, t.id, c) /\ Done(t, diff')
        BY <4>1 DEF Done
      <4>3. c.added = diff.item[t.id].added /\ c.removed = diff.item[t.id].removed
        BY <1>0 DEF Object, Diff, Change
      <4> HIDE DEF c
      <4>4. diff'.item = [diff.item EXCEPT ![t.id] = c] /\ diff.item \in [Ids -> Change]
        BY <1>0, <4>2 DEF Put, Object, Diff
      <4> QED BY <1>0, <4>1, <4>2, <4>3, <4>4 DEF Accepted, Rejected
    <3> QED BY <1>0, <3>1, <3>2, <3>3 DEF substituteMsgId
  <2>2. \A i \in Ids :
          /\ Accepted(diff')[i] = Accepted(call.base)[i] \cup Patch(call.tasks \ todo').accepted[i]
          /\ Rejected(diff')[i] = Rejected(call.base)[i] \cup Patch(call.tasks \ todo').rejected[i]
    <3>1. call.tasks \ todo' = (call.tasks \ todo) \cup {t}
      BY <2>1 DEF Growing, Done
    <3>2. \A i \in Ids :
            /\ Patch(call.tasks \ todo').accepted[i] = Patch(call.tasks \ todo).accepted[i]
                 \cup (IF t.op = "added" /\ t.id = i THEN {t.msg} ELSE {})
            /\ Patch(call.tasks \ todo').rejected[i] = Patch(call.tasks \ todo).rejected[i]
                 \cup (IF t.op = "removed" /\ t.id = i THEN {t.msg} ELSE {})
      <4> DEFINE T == call.tasks \ todo
      <4>1. \A i \in Ids :
              /\ Patch(T \cup {t}).accepted[i] = Patch(T).accepted[i]
                   \cup (IF t.op = "added" /\ t.id = i THEN {t.msg} ELSE {})
              /\ Patch(T \cup {t}).rejected[i] = Patch(T).rejected[i]
                   \cup (IF t.op = "removed" /\ t.id = i THEN {t.msg} ELSE {})
        <5> HIDE DEF T
        <5> QED BY PatchTasks
      <4>2. Patch(call.tasks \ todo') = Patch(T \cup {t})
        BY <3>1
      <4> QED BY <4>1, <4>2
    <3> QED BY <2>1, <3>2 DEF Growing
  <2>3. CASE todo' = {}
    <3>1. CInv' /\ settled = call.base /\ settled' = diff' /\ call' = NoCall /\ Idle
      BY <2>1, <2>3, TurnShows
    <3>2. call.tasks \ todo' = call.tasks
      BY <2>3
    <3>3. Contract!Combine
      BY <1>0, <2>2, <3>1, <3>2, UserSees
    <3> QED BY <3>1, <3>3 DEF Contract!Next
  <2>4. CASE todo' # {}
    <3>1. UNCHANGED settled /\ pc' = "loop" /\ call' = call /\ Idle
      BY <2>1, <2>4, TurnShows
    <3>2. Growing'
      BY <2>1, <2>2, <3>1 DEF Growing, Done
    <3> QED BY <3>1, <3>2, UnseenStep DEF CInv
  <2> QED BY <2>3, <2>4
<1> QED BY <1>2, <1>3

\* The decisions of one more message move, or stay where they belong.
LEMMA MoveOne ==
  ASSUME NEW P \in SUBSET Ids, NEW old \in P, \A p \in P : old <= p,
         NEW f, NEW g, NEW b, Moved(f, b, P), f[old] \subseteq Msgs,
         IF MinId[old] = old THEN g = f
         ELSE /\ f[MinId[old]] = {}
              /\ g[old] = {} /\ g[MinId[old]] = f[old]
              /\ \A j \in Ids \ {old, MinId[old]} : g[j] = f[j]
  PROVE  Moved(g, b, P \ {old})
<1> DEFINE Q == P \ {old}
           new == MinId[old]
<1>01. new \in Ids /\ new <= old /\ Ids \subseteq Nat
  BY ConstantsAssumption
<1>02. new # old => new \notin P
  <2>1. new \in Nat /\ old \in Nat
    BY <1>01
  <2> QED BY <1>01, <2>1
<1>0. /\ new \in Ids /\ new <= old /\ Ids \subseteq Nat /\ f[old] = b[old]
      /\ new # old => new \notin P
  BY <1>01, <1>02 DEF Moved
<1>1. ASSUME NEW j \in Q PROVE g[j] = b[j]
  <2>1. j # old /\ j # new /\ j \in P
    BY <1>0, <1>1
  <2> QED BY <2>1 DEF Moved
<1>2. ASSUME NEW k \in Ids \ Q PROVE (\A p \in Q : k < p) \/ b[k] = {}
  <2>1. CASE k = old
    <3>1. \A p \in Q : old <= p /\ p # old /\ p \in Nat /\ old \in Nat
      BY <1>0
    <3> QED BY <2>1, <3>1
  <2>2. CASE k # old
    BY <1>2, <2>2 DEF Moved
  <2> QED BY <2>1, <2>2
<1>3. ASSUME NEW k \in Ids \ P, MinId[k] = old PROVE b[k] = {}
  <2>1. ~(k < old)
    BY <1>0, <1>3, ConstantsAssumption
  <2> QED BY <2>1 DEF Moved
<1>4. ASSUME NEW j \in Ids \ Q, NEW m \in Msgs
      PROVE  m \in g[j] <=> \E k \in Ids \ Q : MinId[k] = j /\ m \in b[k]
  <2>1. /\ (\E k \in Ids \ Q : MinId[k] = j /\ m \in b[k])
             <=> (\E k \in Ids \ P : MinId[k] = j /\ m \in b[k]) \/ (new = j /\ m \in b[old])
    OBVIOUS
  <2>2. CASE j = old
    <3>1. ~\E k \in Ids \ P : MinId[k] = j /\ m \in b[k]
      BY <1>3, <2>2
    <3> QED BY <1>0, <2>1, <2>2, <3>1
  <2>3. CASE j # old
    <3>1. m \in f[j] <=> \E k \in Ids \ P : MinId[k] = j /\ m \in b[k]
      BY <1>4, <2>3 DEF Moved
    <3>2. CASE j = new
      BY <1>0, <2>1, <2>3, <3>1, <3>2
    <3>3. CASE j # new
      BY <2>1, <2>3, <3>1, <3>3
    <3> QED BY <3>2, <3>3
  <2> QED BY <2>2, <2>3
<1> QED BY <1>1, <1>2, <1>4 DEF Moved

\* substituteMsgId without a failure: the change of the message is moved to the minimized ID,
\* under which there was none.
LEMMA MovedChange ==
  ASSUME Object(diff), NEW t, t.id \in Ids, substituteMsgId(t), ~Fail("segv"), ~Fail("assert")
  PROVE  /\ Done(t, diff')
         /\ IF MinId[t.id] = t.id THEN diff' = diff
            ELSE /\ diff.item[MinId[t.id]] = NoChange
                 /\ diff'.item[t.id] = NoChange /\ diff'.item[MinId[t.id]] = diff.item[t.id]
                 /\ \A j \in Ids \ {t.id, MinId[t.id]} : diff'.item[j] = diff.item[j]
<1> DEFINE old == t.id
           new == MinId[t.id]
           d1 == clearEmptyMessageData(diff, old)
           d == clearEmptyMessageData(d1, new)
           e == IF old \in d.keys THEN Drop(Put(d, new, d.item[old]), old) ELSE d
<1>1. CASE new = old
  BY <1>1 DEF substituteMsgId, Done
<1>2. CASE new # old
  <2>1. new \notin d.keys /\ Done(t, e)
    BY <1>2 DEF substituteMsgId
  <2>2. new \in Ids /\ diff.item \in [Ids -> Change]
    BY ConstantsAssumption DEF Object, Diff
  <2>3. Object(d1) /\ d1.item = diff.item
    BY <2>2, ClearObject, ClearDecisions DEF Object
  <2>4. Object(d) /\ d.item = diff.item
    BY <2>2, <2>3, ClearObject, ClearDecisions DEF Object
  <2> HIDE DEF d
  <2>5. d.item[new] = NoChange
    BY <2>1, <2>2, <2>4 DEF Object
  <2>6. old \notin d.keys => d.item[old] = NoChange
    BY <2>4 DEF Object
  <2>7. Put(d, new, d.item[old]).item = [d.item EXCEPT ![new] = d.item[old]]
    BY DEF Put
  <2>8. Drop(Put(d, new, d.item[old]), old).item = [d.item EXCEPT ![new] = d.item[old], ![old] = NoChange]
    BY <2>7 DEF Drop
  <2>9. /\ e.item[old] = NoChange /\ e.item[new] = diff.item[old]
        /\ \A j \in Ids \ {old, new} : e.item[j] = diff.item[j]
    BY <1>2, <2>2, <2>4, <2>5, <2>6, <2>8
  <2> HIDE DEF e
  <2>10. diff' = e /\ Done(t, diff')
    BY <2>1 DEF Done
  <2> QED BY <1>2, <2>4, <2>5, <2>9, <2>10
<1> QED BY <1>1, <1>2

\* One more message is moved away from all others.
LEMMA ApartOne ==
  ASSUME NEW P \in SUBSET Ids, NEW old \in P,
         NEW b, Apart(b, P),
         \A k \in Ids \ P : MinId[k] = MinId[old] => b[k] = {} \/ b[old] = {}
  PROVE  Apart(b, P \ {old})
  BY DEF Apart

\* All messages are moved: that is the contract's renaming.
LEMMA AllMoved ==
  ASSUME NEW d, Object(d), NEW e, Object(e), settled = d, settled' = e,
         Moved(Accepted(e), Accepted(d), {}), Moved(Rejected(e), Rejected(d), {}),
         Apart(Both(d), {}), Contract!Quiet
  PROVE  Contract!Rename
<1>1. ASSUME NEW f, NEW b, \A j \in Ids : f[j] \subseteq Msgs /\ b[j] \subseteq Msgs, Moved(f, b, {})
      PROVE  \A j \in Ids : f[j] = UNION {b[i] : i \in {k \in Ids : MinId[k] = j}}
  <2> SUFFICES ASSUME NEW j \in Ids
               PROVE  f[j] = UNION {b[i] : i \in {k \in Ids : MinId[k] = j}}
    OBVIOUS
  <2>1. \A m \in Msgs : m \in f[j] <=> \E k \in Ids : MinId[k] = j /\ m \in b[k]
    BY <1>1 DEF Moved
  <2> QED BY <1>1, <2>1
<1>2. \A j \in Ids : /\ Accepted(e)[j] \subseteq Msgs /\ Accepted(d)[j] \subseteq Msgs
                    /\ Rejected(e)[j] \subseteq Msgs /\ Rejected(d)[j] \subseteq Msgs
  BY Sections
<1>3. \A j \in Ids : Accepted(e)[j] = UNION {Accepted(d)[i] : i \in {k \in Ids : MinId[k] = j}}
  BY <1>1, <1>2
<1>4. \A j \in Ids : Rejected(e)[j] = UNION {Rejected(d)[i] : i \in {k \in Ids : MinId[k] = j}}
  BY <1>1, <1>2
<1>5. /\ Accepted(e) = [j \in Ids |-> UNION {Accepted(d)[i] : i \in {k \in Ids : MinId[k] = j}}]
      /\ Rejected(e) = [j \in Ids |-> UNION {Rejected(d)[i] : i \in {k \in Ids : MinId[k] = j}}]
  BY <1>3, <1>4 DEF Accepted, Rejected
<1>6. \A i, k \in Ids : MinId[i] = MinId[k] /\ i # k =>
        Accepted(d)[i] \cup Rejected(d)[i] = {} \/ Accepted(d)[k] \cup Rejected(d)[k] = {}
  BY DEF Apart, Both
<1>7. /\ Accepted(settled') = [j \in Ids |-> UNION {Accepted(settled)[i] : i \in {k \in Ids : MinId[k] = j}}]
      /\ Rejected(settled') = [j \in Ids |-> UNION {Rejected(settled)[i] : i \in {k \in Ids : MinId[k] = j}}]
      /\ \A i, k \in Ids : MinId[i] = MinId[k] /\ i # k =>
           Accepted(settled)[i] \cup Rejected(settled)[i] = {} \/ Accepted(settled)[k] \cup Rejected(settled)[k] = {}
  BY <1>5, <1>6
<1>8. Contract!Quiet
  OBVIOUS
<1> QED BY ONLY <1>7, <1>8 DEF Contract!Rename, Accepted, Rejected

\* A call of minimizeIds: renamed as a whole, or not at all.
LEMMA MoveRefines ==
  ASSUME IInv, IInv', CInv, Moving, pc = "loop", call.op = "minimize", NEW t \in todo,
         insertRemoved(t) \/ insertAdded(t) \/ insertReview(t) \/ substituteMsgId(t)
  PROVE  CInv' /\ [Contract!Next]_(Contract!vars)
<1> DEFINE old == t.id
           new == MinId[t.id]
           P == Pending
           Q == Pending \ {old}
           base == call.base
<1>0. Object(diff) /\ Object(diff') /\ Object(base)
  BY DEF IInv
<1>1. /\ t = MoveTask(old) /\ old \in P /\ substituteMsgId(t) /\ Current(t)
      /\ new \in Ids /\ new <= old /\ P \subseteq Ids /\ Ids \subseteq Nat
  <2>1. PICK i \in Ids : t = MoveTask(i)
    BY DEF Moving
  <2>2. t.op = "move" /\ t.id = i
    BY <2>1 DEF MoveTask
  <2> QED BY <2>1, <2>2, ConstantsAssumption DEF Pending, insertRemoved, insertAdded, insertReview, substituteMsgId
<1>2. \A p \in P : old <= p
  <2> SUFFICES ASSUME NEW p \in P PROVE old <= p
    OBVIOUS
  <2>1. MoveTask(p) \in todo /\ MoveTask(p).id = p
    BY DEF Pending, MoveTask
  <2>2. ~(p < old)
    BY <1>1, <2>1 DEF Current, Before
  <2>3. p \in Nat /\ old \in Nat
    BY <1>1
  <2> QED BY <2>2, <2>3
<1>3. CASE Fail("segv") \/ Fail("assert")
  BY <1>3, FailRefines
<1>4. CASE ~(Fail("segv") \/ Fail("assert"))
  <2>1. /\ Done(t, diff')
        /\ IF new = old THEN diff' = diff
           ELSE /\ diff.item[new] = NoChange
                /\ diff'.item[old] = NoChange /\ diff'.item[new] = diff.item[old]
                /\ \A j \in Ids \ {old, new} : diff'.item[j] = diff.item[j]
    BY <1>0, <1>1, <1>4, MovedChange
  <2>2. /\ IF new = old THEN Accepted(diff') = Accepted(diff)
           ELSE /\ Accepted(diff)[new] = {}
                /\ Accepted(diff')[old] = {} /\ Accepted(diff')[new] = Accepted(diff)[old]
                /\ \A j \in Ids \ {old, new} : Accepted(diff')[j] = Accepted(diff)[j]
        /\ IF new = old THEN Rejected(diff') = Rejected(diff)
           ELSE /\ Rejected(diff)[new] = {}
                /\ Rejected(diff')[old] = {} /\ Rejected(diff')[new] = Rejected(diff)[old]
                /\ \A j \in Ids \ {old, new} : Rejected(diff')[j] = Rejected(diff)[j]
    <3>1. old \in Ids
      BY <1>1
    <3>2. \A d : \A i \in Ids : d.item[i] = NoChange => Accepted(d)[i] = {} /\ Rejected(d)[i] = {}
      BY NoDecisions
    <3> QED BY <1>1, <2>1, <3>1, <3>2 DEF Accepted, Rejected
  <2>3. Accepted(diff)[old] \subseteq Msgs /\ Rejected(diff)[old] \subseteq Msgs
    BY <1>0, <1>1, Sections
  <2>4. Moved(Accepted(diff'), Accepted(base), Q)
    BY <1>1, <1>2, <2>2, <2>3, MoveOne DEF Moving
  <2>5. Moved(Rejected(diff'), Rejected(base), Q)
    BY <1>1, <1>2, <2>2, <2>3, MoveOne DEF Moving
  <2>6. ASSUME NEW k \in Ids \ P, MinId[k] = new
        PROVE  Both(base)[k] = {} \/ Both(base)[old] = {}
    <3>1. /\ \A m \in Msgs : m \in Accepted(diff)[new] <=> \E i \in Ids \ P : MinId[i] = new /\ m \in Accepted(base)[i]
          /\ \A m \in Msgs : m \in Rejected(diff)[new] <=> \E i \in Ids \ P : MinId[i] = new /\ m \in Rejected(base)[i]
          \/ new = old
      <4>1. new # old => new \notin P
        <5>1. new \in Nat /\ old \in Nat
          BY <1>1
        <5> QED BY <1>1, <1>2, <5>1
      <4> QED BY <1>1, <4>1 DEF Moving, Moved
    <3>2. Accepted(base)[k] \subseteq Msgs /\ Rejected(base)[k] \subseteq Msgs
      BY <1>0, Sections
    <3>3. CASE new # old
      <4>1. Accepted(base)[k] = {} /\ Rejected(base)[k] = {}
        BY <2>2, <2>6, <3>1, <3>2, <3>3
      <4> QED BY <4>1 DEF Both
    <3>4. CASE new = old
      <4>1. ~(k < old)
        <5>1. MinId[k] <= k /\ MinId[k] = old
          BY <2>6, <3>4, ConstantsAssumption
        <5>2. k \in Nat /\ old \in Nat
          BY <1>1, <2>6, ConstantsAssumption
        <5> HIDE DEF old
        <5> QED BY <5>1, <5>2
      <4>2. Accepted(base)[k] = {} /\ Rejected(base)[k] = {}
        BY <1>1, <4>1 DEF Moving, Moved
      <4> QED BY <4>2 DEF Both
    <3> QED BY <3>3, <3>4
  <2>7. Apart(Both(base), Q)
    BY <1>1, <2>6, ApartOne DEF Moving
  <2>8. Pending' = Q /\ todo' \subseteq {MoveTask(i) : i \in Ids}
    BY <1>1, <2>1 DEF Done, Pending, MoveTask, Moving
  <2>9. CASE todo' = {}
    <3>1. CInv' /\ settled = base /\ settled' = diff' /\ call' = NoCall /\ Idle
      BY <2>1, <2>9, TurnShows
    <3>2. Q = {}
      BY <2>8, <2>9 DEF Pending
    <3>3. Contract!Quiet
      <4>1. \A u \in call.tasks : u.op = "move"
        BY DEF Moving, MoveTask
      <4>2. Patch(call.tasks) = Contract!NoDecisions /\ Patch(call'.tasks) = Contract!NoDecisions
        BY <3>1, <4>1, PatchTasks DEF NoCall
      <4> QED BY <3>1, <4>2 DEF Contract!Quiet, Idle
    <3>4. Contract!Rename
      BY <1>0, <2>4, <2>5, <2>7, <3>1, <3>2, <3>3, AllMoved
    <3> QED BY <3>1, <3>4 DEF Contract!Next
  <2>10. CASE todo' # {}
    <3>1. UNCHANGED settled /\ pc' = "loop" /\ call' = call /\ Idle
      BY <2>1, <2>10, TurnShows
    <3>2. Moving'
      BY <2>4, <2>5, <2>7, <2>8, <3>1 DEF Moving
    <3> QED BY <3>1, <3>2, UnseenStep DEF CInv
  <2> QED BY <2>9, <2>10
<1> QED BY <1>3, <1>4
-----------------------------------------------------------------------------
\* Every sequence of calls is a sequence of steps of the contract: when a call that merges has
\* ended, the decisions are those of before and those it had to merge, no more and no less, and
\* when an assertion fails half way none of them is ever seen; minimizeIds renames without losing
\* or confusing a decision; nothing else changes one but a verdict; and the file loses its
\* decisions only to a writeToFile that has the text to put in their place.
THEOREM ImplementsContract == Spec => RefinesContract
<1>1. Init => Contract!Init /\ CInv
  <2>1. ASSUME Init
        PROVE  settled = EmptyDiff /\ CInv /\ call = NoCall /\ file.item = EmptyDiff.item /\ pc = "ready"
    BY <2>1 DEF Init, settled, CInv
  <2>2. \A i \in Ids : Accepted(EmptyDiff)[i] = {} /\ Rejected(EmptyDiff)[i] = {}
    BY NoDecisions DEF EmptyDiff
  <2>3. /\ Accepted(EmptyDiff) = Contract!Undecided /\ Rejected(EmptyDiff) = Contract!Undecided
        /\ Decisions(EmptyDiff.item) = Contract!NoDecisions
    BY <2>2 DEF Contract!NoDecisions, Contract!Undecided, Decisions, Accepted, Rejected
  <2>4. Patch(NoCall.tasks) = Contract!NoDecisions
    BY PatchTasks DEF NoCall
  <2> QED BY <2>1, <2>3, <2>4 DEF Contract!Init, Accepted, Rejected
<1>2. IInv /\ IInv' /\ CInv /\ [Next]_vars => CInv' /\ [Contract!Next]_(Contract!vars)
  <2> SUFFICES ASSUME IInv, IInv', CInv, [Next]_vars
               PROVE  CInv' /\ [Contract!Next]_(Contract!vars)
    OBVIOUS
  <2>1. CASE UNCHANGED vars
    <3>1. CInv' /\ UNCHANGED <<settled, call, pc, file>>
      BY <2>1 DEF vars, CInv, settled, Moving, Growing, Pending
    <3> QED BY <3>1 DEF Contract!vars
  <2>2. CASE Loop
    <3>1. PICK t \in todo : insertRemoved(t) \/ insertAdded(t) \/ insertReview(t) \/ substituteMsgId(t)
      BY <2>2 DEF Loop
    <3>2. pc = "loop"
      BY DEF IInv
    <3>3. IF call.op = "minimize" THEN Moving ELSE Growing
      BY <3>2 DEF CInv
    <3> QED BY <3>1, <3>2, <3>3, GrowRefines, MoveRefines
  <2> QED BY <2>1, <2>2, CallRefines, VerdictRefines, CommentRefines, FileRefines DEF Next, Review
<1> QED BY <1>1, <1>2, AlwaysIInv, PTL DEF Spec, RefinesContract, Contract!Spec
=============================================================================
