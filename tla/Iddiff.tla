------------------------------- MODULE Iddiff -------------------------------
(***************************************************************************)
(* A set of review decisions about translated messages, class Iddiff of    *)
(* gettextpo-helper/gtpo/iddiff.cpp, and the .iddiff file it is kept in.   *)
(*                                                                         *)
(* m_items maps a message ID to the translations to remove, the one to add *)
(* and a review comment.  One process at a time works on one object; it    *)
(* may be killed at any point, a failed assert() ("assert") or a null      *)
(* pointer ("segv") ends it too, and the file is what stays.  A call that  *)
(* loops over decisions (merge, loadIddiff, minimizeIds...) is a set of    *)
(* tasks, done one at a time in the order of the code.                     *)
(*                                                                         *)
(* Translations are compared by msgstr alone (equalMsgstr), so they are    *)
(* atoms here; headers (subject, authors, date) are left out.              *)
(***************************************************************************)
EXTENDS Integers, SequencesExt

CONSTANTS
  Ids,            \* the message IDs involved
  Msgs,           \* the translations (lists of msgstr) of a message
  Untranslated,   \* the empty msgstr
  MinId           \* MinId[i]: what the server answers for i to GET_MIN_IDS

ASSUME ConstantsAssumption ==
  /\ Ids \subseteq Nat \ {0}
  /\ Untranslated \notin Msgs
  /\ MinId \in [Ids -> Ids]
  /\ \A i \in Ids : MinId[i] <= i

VARIABLES
  diff,   \* the Iddiff object: m_items
  pc,     \* where the process is
  todo,   \* the tasks left to do in the running call
  call,   \* the running call: the object it started from and all of its tasks
  file    \* the .iddiff file

vars == <<diff, pc, todo, call, file>>

Change == [removed : Seq(Msgs), added : Seq(Msgs), review : BOOLEAN]
NoChange == [removed |-> <<>>, added |-> <<>>, review |-> FALSE]

\* The keys of m_items, those of them that map to a null pointer, and the changes.
Diff == [keys : SUBSET Ids, null : SUBSET Ids, item : [Ids -> Change]]
EmptyDiff == [keys |-> {}, null |-> {}, item |-> [i \in Ids |-> NoChange]]

\* A step of a loop: what to do to message id; rank and k order the tasks of one message.
Task ==
  [op : {"removed", "added"}, id : Ids, rank : 1..3, k : Nat, msg : Msgs] \cup
  [op : {"review", "move"}, id : Ids, rank : 1..3, k : Nat, msg : {Untranslated}]

Calls == {"none", "diff", "merge", "load", "filter", "minimize", "insert"}
NoCall == [op |-> "none", base |-> EmptyDiff, tasks |-> {}]

\* The file: missing, just truncated, an object without members, or a list of messages.
File == [kind : {"missing", "truncated", "braces", "messages"}, item : [Ids -> Change]]

Init ==
  /\ diff = EmptyDiff
  /\ pc = "ready"
  /\ todo = {}
  /\ call = NoCall
  /\ file = [kind |-> "missing", item |-> EmptyDiff.item]
-----------------------------------------------------------------------------
\* findRemoved(id, item) # NULL, and the same for the ADDED section
InRemoved(d, id, m) == m \in Range(d.item[id].removed)
InAdded(d, id, m) == m \in Range(d.item[id].added)

Put(d, id, change) ==
  [keys |-> d.keys \cup {id}, null |-> d.null \ {id}, item |-> [d.item EXCEPT ![id] = change]]

\* Mutant: the key is erased, and the change stays reachable.
DropKeyOnly(d, id) == [d EXCEPT !.keys = @ \ {id}]

Drop(d, id) ==
  [keys |-> d.keys \ {id}, null |-> d.null \ {id}, item |-> [d.item EXCEPT ![id] = NoChange]]

\* Its callers have dereferenced the pointer before: the key does not map to null.
clearEmptyMessageData(d, id) == IF d.item[id] = NoChange THEN Drop(d, id) ELSE d

\* insertRemoved, its assertion aside: a duplicate is not inserted again.
AddToRemoved(d, id, m) ==
  IF InRemoved(d, id, m)
    THEN d
    ELSE Put(d, id, [d.item[id] EXCEPT !.removed = Append(@, m)])

AddToAdded(d, id, m) ==
  IF InAdded(d, id, m)
    THEN d
    ELSE Put(d, id, [d.item[id] EXCEPT !.added = Append(@, m)])

eraseRemoved(d, id, m) ==
  clearEmptyMessageData([d EXCEPT !.item[id].removed = RemoveFirst(@, m)], id)

eraseAdded(d, id, m) ==
  clearEmptyMessageData([d EXCEPT !.item[id].added = RemoveFirst(@, m)], id)

\* Mutant: a second, different translation may be added.
MayAddAnother(d, id, m) == ~InRemoved(d, id, m)

\* The assertions of insertRemoved and insertAdded
MayRemove(d, id, m) == InRemoved(d, id, m) \/ ~InAdded(d, id, m)
MayAdd(d, id, m) == ~InRemoved(d, id, m) /\ \A n \in Range(d.item[id].added) : n = m

-----------------------------------------------------------------------------
Fail(how) ==
  /\ pc' = how
  /\ todo' = {}
  /\ UNCHANGED <<diff, call, file>>

\* A call starts: object d is what its tasks work on.
Begin(op, d, tasks) ==
  /\ diff' = d
  /\ todo' = tasks
  /\ pc' = IF tasks = {} THEN "ready" ELSE "loop"
  /\ call' = IF tasks = {} THEN NoCall ELSE [op |-> op, base |-> d, tasks |-> tasks]
  /\ UNCHANGED file

\* Mutant: the translations of a section are inserted in any order.
BeforeAnyOrder(u, t) == u.id < t.id \/ (u.id = t.id /\ u.rank < t.rank)

\* The loops go through the messages by ID; the tasks of different messages touch
\* different changes, so merge's order (section by section) gives the same.
Before(u, t) ==
  \/ u.id < t.id
  \/ u.id = t.id /\ u.rank < t.rank
  \/ u.id = t.id /\ u.rank = t.rank /\ u.k < t.k

Current(t) == pc = "loop" /\ t \in todo /\ \A u \in todo : ~Before(u, t)

Done(t, d) ==
  /\ diff' = d
  /\ todo' = todo \ {t}
  /\ pc' = IF todo = {t} THEN "ready" ELSE "loop"
  /\ call' = IF todo = {t} THEN NoCall ELSE call
  /\ UNCHANGED file

insertRemoved(t) ==
  /\ Current(t)
  /\ t.op = "removed"
  /\ IF t.id \in diff.null THEN Fail("segv")
     ELSE IF ~MayRemove(diff, t.id, t.msg) THEN Fail("assert")
     ELSE Done(t, AddToRemoved(diff, t.id, t.msg))

\* Mutant: a decision that contradicts another one is left out, and the loop goes on.
insertAddedSkipping(t) ==
  /\ Current(t)
  /\ t.op = "added"
  /\ IF t.id \in diff.null THEN Fail("segv")
     ELSE Done(t, IF MayAdd(diff, t.id, t.msg) THEN AddToAdded(diff, t.id, t.msg) ELSE diff)

insertAdded(t) ==
  /\ Current(t)
  /\ t.op = "added"
  /\ IF t.id \in diff.null THEN Fail("segv")
     ELSE IF ~MayAdd(diff, t.id, t.msg) THEN Fail("assert")
     ELSE Done(t, AddToAdded(diff, t.id, t.msg))

insertReview(t) ==
  /\ Current(t)
  /\ t.op = "review"
  /\ IF diff.item[t.id].review THEN Fail("assert")
     ELSE Done(t, Put(diff, t.id, [diff.item[t.id] EXCEPT !.review = TRUE]))

\* Mutant: the check that IDs do not collide is dropped.
substituteMsgIdUnchecked(t) ==
  LET old == t.id
      new == MinId[t.id]
      d == clearEmptyMessageData(clearEmptyMessageData(diff, old), new)
  IN  /\ Current(t)
      /\ t.op = "move"
      /\ IF old = new THEN Done(t, diff)
         ELSE IF {old, new} \cap diff.null # {} THEN Fail("segv")
         ELSE Done(t, IF old \in d.keys THEN Drop(Put(d, new, d.item[old]), old) ELSE d)

substituteMsgId(t) ==
  LET old == t.id
      new == MinId[t.id]
      d == clearEmptyMessageData(clearEmptyMessageData(diff, old), new)
  IN  /\ Current(t)
      /\ t.op = "move"
      /\ IF old = new THEN Done(t, diff)
         ELSE IF {old, new} \cap diff.null # {} THEN Fail("segv")
         ELSE IF new \in d.keys THEN Fail("assert")
         ELSE Done(t, IF old \in d.keys THEN Drop(Put(d, new, d.item[old]), old) ELSE d)
-----------------------------------------------------------------------------
\* A message of a .po file; an untranslated one is never fuzzy.
PoMsg == {p \in [str : Msgs \cup {Untranslated}, fuzzy : BOOLEAN] :
            p.str = Untranslated => ~p.fuzzy}

needAdded(a, b) ==
  /\ b.str # Untranslated /\ ~b.fuzzy
  /\ a.str # b.str \/ a.fuzzy

needRemoved(a, b) ==
  /\ a.str # Untranslated
  /\ IF a.str = b.str THEN ~a.fuzzy /\ b.fuzzy ELSE ~(a.fuzzy /\ b.fuzzy)

\* The difference of two .po files made from one template, at the messages that differ.
DiffTasks(a, b) ==
  {[op |-> "removed", id |-> i, rank |-> 1, k |-> 1, msg |-> a[i].str] :
     i \in {j \in DOMAIN a : needRemoved(a[j], b[j])}}
  \cup
  {[op |-> "added", id |-> i, rank |-> 2, k |-> 1, msg |-> b[i].str] :
     i \in {j \in DOMAIN a : needAdded(a[j], b[j])}}

\* The decisions of one section of message i
SectionTasks(op, i, rank, section) ==
  {[op |-> op, id |-> i, rank |-> rank, k |-> k, msg |-> section[k]] : k \in DOMAIN section}

\* The section that is inserted first: merge and loadIddiff differ.
MergeOrder == [removed |-> 1, added |-> 2]
LoadOrder == [removed |-> 2, added |-> 1]

\* The decisions of a list of messages
ItemTasks(item, order) ==
  (UNION {SectionTasks("removed", i, order.removed, item[i].removed) : i \in Ids})
  \cup (UNION {SectionTasks("added", i, order.added, item[i].added) : i \in Ids})
  \cup {[op |-> "review", id |-> i, rank |-> 3, k |-> 1, msg |-> Untranslated] :
          i \in {j \in Ids : item[j].review}}
-----------------------------------------------------------------------------
diffFiles(a, b) ==
  /\ pc = "ready"
  /\ Begin("diff", EmptyDiff, DiffTasks(a, b))

\* iddiff-git and iddiff-repo: the difference of two files is merged into the object.
merge(a, b) ==
  /\ pc = "ready"
  /\ Begin("merge", diff, DiffTasks(a, b))

\* iddiff-merge: the file, loaded into an object of its own, is merged into this one.
mergeFile ==
  /\ pc = "ready"
  /\ file.kind = "messages"
  /\ Begin("merge", diff, ItemTasks(file.item, MergeOrder))

\* A file without content is no file for loadIddiff; one without messages fails an assertion.
loadIddiff ==
  /\ pc = "ready"
  /\ file.kind \notin {"missing", "truncated"}
  /\ IF file.kind = "braces"
       THEN Fail("assert")
       ELSE Begin("load", diff, ItemTasks(file.item, LoadOrder))

\* rerere-trusted-filter: the decisions of this object that the file does not have.
filterTrustedIddiff ==
  /\ pc = "ready"
  /\ file.kind = "messages"
  /\ IF diff.null # {} THEN Fail("segv")
     ELSE IF \E i \in Ids : diff.item[i].review THEN Fail("assert")
     ELSE Begin("filter", EmptyDiff,
                {t \in ItemTasks(diff.item, MergeOrder) :
                   IF t.op = "removed"
                     THEN t.msg \notin Range(file.item[t.id].removed)
                     ELSE t.msg \notin Range(file.item[t.id].added)})

minimizeIds ==
  /\ pc = "ready"
  /\ Begin("minimize", diff,
           {[op |-> "move", id |-> i, rank |-> 1, k |-> 1, msg |-> Untranslated] :
              i \in diff.keys})

\* One of insertRemoved, insertAdded and insertReview, called by itself.
insert(op, id, m) ==
  /\ pc = "ready"
  /\ Begin("insert", diff,
           {[op |-> op, id |-> id, rank |-> 1, k |-> 1,
             msg |-> IF op = "review" THEN Untranslated ELSE m]})

\* A call that does not loop ends with object d.
Set(d) ==
  /\ diff' = d
  /\ UNCHANGED <<pc, todo, call, file>>

acceptTranslation(id, m) ==
  LET d == IF InRemoved(diff, id, m) THEN eraseRemoved(diff, id, m) ELSE diff
  IN  /\ pc = "ready"
      /\ IF id \in diff.null THEN Fail("segv")
         ELSE IF ~MayAdd(d, id, m) THEN Fail("assert")
         ELSE Set(AddToAdded(d, id, m))

rejectTranslation(id, m) ==
  LET d == IF InAdded(diff, id, m) THEN eraseAdded(diff, id, m) ELSE diff
  IN  /\ pc = "ready"
      /\ IF id \in diff.null THEN Fail("segv")
         ELSE Set(AddToRemoved(d, id, m))

\* m_items[msg_id] puts a null pointer under an ID that was not there.
clearReviewComment(id) ==
  /\ pc = "ready"
  /\ Set(IF id \in diff.keys
           THEN [diff EXCEPT !.item[id].review = FALSE]
           ELSE [diff EXCEPT !.keys = @ \cup {id}, !.null = @ \cup {id}])

reviewCommentText(id) ==
  /\ pc = "ready"
  /\ id \notin diff.keys
  /\ Set([diff EXCEPT !.keys = @ \cup {id}, !.null = @ \cup {id}])

clearReviewComments ==
  /\ pc = "ready"
  /\ IF diff.null # {} THEN Fail("segv")
     ELSE Set([diff EXCEPT !.item = [i \in Ids |-> [diff.item[i] EXCEPT !.review = FALSE]]])

\* Mutant: the file is opened before the text is generated.
writeToFileOpensFirst ==
  /\ pc = "ready"
  /\ pc' = IF diff.null # {} THEN "segv" ELSE "writing"
  /\ file' = [kind |-> "truncated", item |-> EmptyDiff.item]
  /\ UNCHANGED <<diff, todo, call>>

\* writeToFile opens the file, which truncates it, after the text has been generated.
writeToFile ==
  /\ pc = "ready"
  /\ IF diff.null # {}
       THEN Fail("segv")
       ELSE /\ pc' = "writing"
            /\ file' = [kind |-> "truncated", item |-> EmptyDiff.item]
            /\ UNCHANGED <<diff, todo, call>>

generateIddiffText ==
  IF diff.item = EmptyDiff.item
    THEN [kind |-> "braces", item |-> diff.item]
    ELSE [kind |-> "messages", item |-> diff.item]

closeFile ==
  /\ pc = "writing"
  /\ file' = generateIddiffText
  /\ pc' = "ready"
  /\ UNCHANGED <<diff, todo, call>>

\* The process ends, by itself or killed, and another one begins with an empty object.
NewProcess ==
  /\ diff' = EmptyDiff
  /\ pc' = "ready"
  /\ todo' = {}
  /\ call' = NoCall
  /\ UNCHANGED file
-----------------------------------------------------------------------------
Loop == \E t \in todo : insertRemoved(t) \/ insertAdded(t) \/ insertReview(t) \/ substituteMsgId(t)

Review ==
  \/ \E id \in Ids : clearReviewComment(id) \/ reviewCommentText(id)
  \/ \E id \in Ids, m \in Msgs : acceptTranslation(id, m) \/ rejectTranslation(id, m)
  \/ \E op \in {"removed", "added", "review"}, id \in Ids, m \in Msgs : insert(op, id, m)
  \/ clearReviewComments

Next ==
  \/ Loop \/ Review
  \/ \E id \in Ids : \E a, b \in [{id} -> PoMsg] : diffFiles(a, b) \/ merge(a, b)
  \/ mergeFile \/ loadIddiff \/ filterTrustedIddiff \/ minimizeIds
  \/ writeToFile \/ closeFile \/ NewProcess

Spec == Init /\ [][Next]_vars
-----------------------------------------------------------------------------
TypeOK ==
  /\ diff \in Diff
  /\ diff.null \subseteq diff.keys
  /\ \A i \in Ids : i \in diff.null \/ i \notin diff.keys => diff.item[i] = NoChange
  /\ pc \in {"ready", "loop", "writing", "assert", "segv"}
  /\ todo \subseteq Task
  /\ call \in [op : Calls, base : Diff, tasks : SUBSET Task]
  /\ file \in File
  /\ pc = "loop" <=> todo # {}

\* The sections of a message never contradict each other: at most one translation to add,
\* which is not one to remove, and none to remove twice.  What findAddedSingle asserts.
SectionsConsistent(item) ==
  \A i \in Ids :
    /\ Len(item[i].added) <= 1
    /\ Range(item[i].added) \cap Range(item[i].removed) = {}
    /\ \A j, k \in DOMAIN item[i].removed :
         item[i].removed[j] = item[i].removed[k] => j = k

\* No sequence of calls, failures and restarts makes an object or a file contradictory.
NeverContradictory ==
  SectionsConsistent(diff.item) /\ SectionsConsistent(call.base.item) /\ SectionsConsistent(file.item)

\* A file that the program wrote with a decision or a comment in it can be loaded again,
\* and gives the same object: no assertion fails, and the order of REMOVED is kept.
LoadsOwnFiles ==
  [][call.op = "load" /\ call.base = EmptyDiff /\ todo' = {} /\ pc' # pc =>
       pc' = "ready" /\ diff'.item \in {file.item, EmptyDiff.item}]_vars

\* The object as its user sees it: a call that loops takes effect when it ends.
settled == IF call = NoCall THEN diff ELSE call.base

\* The decisions that a call has to merge, and those of a list of messages.
TaskDecisions(op, tasks) ==
  [i \in Ids |-> {t.msg : t \in {u \in tasks : u.op = op /\ u.id = i}}]
Patch(tasks) ==
  [accepted |-> TaskDecisions("added", tasks), rejected |-> TaskDecisions("removed", tasks)]
Decisions(item) ==
  [accepted |-> [i \in Ids |-> Range(item[i].added)],
   rejected |-> [i \in Ids |-> Range(item[i].removed)]]

Contract == INSTANCE ReviewContract WITH
  accepted <- [i \in Ids |-> Range(settled.item[i].added)],
  rejected <- [i \in Ids |-> Range(settled.item[i].removed)],
  patch <- Patch(call.tasks),
  stored <- Decisions(file.item),
  storing <- pc = "writing"

\* Every sequence of calls does what ReviewContract promises: of the decisions that a call
\* has to merge, all are merged, or none when one of them contradicts another (then the
\* assertion ends the process, and what was merged goes with it); minimizeIds renames
\* without losing or confusing a decision; nothing else changes a decision but an explicit
\* verdict; and the file keeps the decisions of an earlier process until a writeToFile that
\* has generated its text opens it, and then has all of the present ones or, if the process
\* is killed before they are written, none.
RefinesContract == Contract!Spec

\* The comment of acceptTranslation: other translations of the message that were in ADDED
\* move to REMOVED, and the accepted one is in ADDED when the call has ended.
AcceptMovesOthers ==
  [][\A id \in Ids, m \in Msgs :
       id \notin diff.null /\ acceptTranslation(id, m) => InAdded(diff', id, m)]_vars
=============================================================================
