---------------------------- MODULE PatchProofs ----------------------------
(***************************************************************************)
(* Proofs about Patch, for every set of files, messages and decisions:     *)
(* a run of a tool takes nothing away that no decision removes, but for    *)
(* one file that it was writing when it died; no file is written before    *)
(* all decisions are applied; and a review shows every message.            *)
(***************************************************************************)
EXTENDS Patch, FiniteSetTheorems, WellFoundedInduction, TLAPS

\* What the file said of m when it was read still decides whether it was untranslated.
Unedited(m) == m.untranslated <=> m.text = Blank

\* A decision edits a message to a message.
LEMMA ApplyTypes ==
  ASSUME NEW m \in Read, NEW id \in DOMAIN m_items, m_items[id] \in Item
  PROVE  Apply(m, id) \in Read
<1>1. Added(id) \in Entry /\ m_items[id].removed \in SUBSET Texts
  BY DEF Added, Item
<1>2. HasAdded(id) => Added(id).text \in Texts
  BY <1>1 DEF Entry, HasAdded
<1>3. ASSUME HasAdded(id), NEW n \in Read PROVE editMsgstr(n, Added(id).text) \in Read
  BY <1>2, <1>3 DEF editMsgstr, Read
<1>4. ASSUME NEW n \in Read, NEW f \in BOOLEAN PROVE editFuzzy(n, f) \in Read
  BY DEF editFuzzy, Read
<1>5. ASSUME NEW n \in Read, NEW s \in SUBSET Texts PROVE editMsgcomments(n, s) \in Read
  BY DEF editMsgcomments, Read
<1>6. applyToMessage(m, id) \in Read
  BY <1>3, <1>4 DEF applyToMessage
<1>7. applyToMessageComments(m, id) \in Read
  <2>1. (m.comments \ m_items[id].removed) \cup (IF HasAdded(id) THEN {Added(id).text} ELSE {}) \in SUBSET Texts
    BY <1>1, <1>2 DEF Read
  <2> QED BY <2>1, <1>5 DEF applyToMessageComments
<1> QED BY <1>6, <1>7 DEF Apply

\* The comment of a message after a decision: its lines, less the REMOVED, plus the ADDED.
LEMMA CommentLines ==
  ASSUME NEW m \in Read, NEW id
  PROVE  applyToMessageComments(m, id).comments =
           (m.comments \ m_items[id].removed) \cup (IF HasAdded(id) THEN {Added(id).text} ELSE {})
  BY DEF applyToMessageComments, editMsgcomments, Read

\* A decision takes no translation away that it does not remove, and no line of a comment.
LEMMA ApplyKeeps ==
  ASSUME NEW m \in Read, NEW id \in DOMAIN m_items, Unedited(m)
  PROVE  Keeps(m, Apply(m, id), id)
<1>1. CASE tool = "comments"
  <2>1. LET n == applyToMessageComments(m, id) IN n.text = m.text /\ n.fuzzy = m.fuzzy
    BY DEF applyToMessageComments, editMsgcomments, Read
  <2> QED BY <1>1, <2>1, CommentLines DEF Keeps, Apply
<1>2. CASE tool # "comments"
  BY <1>2 DEF Keeps, Apply, applyToMessage, canDropMessage, Unedited, Read, editMsgstr, editFuzzy
<1> QED BY <1>1, <1>2

\* A decision that does not fail leaves the message as it wants it.
LEMMA ApplyDecides ==
  ASSUME NEW m \in Read, NEW id \in DOMAIN m_items, m_items[id] \in Item, ~Fails(m, id)
  PROVE  Decided(Apply(m, id), id)
<1>1. Added(id) \in Entry
  BY DEF Added, Item
<1>2. CASE tool = "comments"
  BY <1>2, CommentLines DEF Decided, Apply
<1>3. CASE tool # "comments"
  <2> DEFINE n == applyToMessage(m, id)
  <2>1. Apply(m, id) = n /\ ~Rejects(m, id)
    BY <1>3 DEF Apply, Fails
  <2>2. CASE ~canDropMessage(m, id)
    <3>1. n = m /\ ~m.fuzzy /\ m.text \notin m_items[id].removed
      BY <2>2 DEF applyToMessage, canDropMessage
    <3>2. HasAdded(id) => m.text = Added(id).text
      BY <2>1, <2>2, <1>1 DEF Rejects, Entry
    <3> QED BY <1>3, <2>1, <3>1, <3>2 DEF Decided
  <2>3. CASE canDropMessage(m, id) /\ HasAdded(id)
    <3>1. n.text = Added(id).text /\ n.fuzzy = FALSE
      BY <2>3 DEF applyToMessage, editMsgstr, editFuzzy, Read
    <3> QED BY <1>3, <2>1, <2>3, <3>1 DEF Decided
  <2>4. CASE canDropMessage(m, id) /\ ~HasAdded(id)
    <3>1. n.fuzzy = TRUE
      BY <2>4 DEF applyToMessage, editFuzzy, Read
    <3> QED BY <1>3, <2>1, <2>4, <3>1 DEF Decided
  <2> QED BY <2>2, <2>3, <2>4
<1> QED BY <1>2, <1>3
-----------------------------------------------------------------------------
\* Types, and what is left to do at each point of a run.
TInv ==
  /\ TypeOK
  /\ disk = [c \in Contents |-> disk[c]] /\ saved = [c \in Contents |-> saved[c]]
  /\ chosen \in Seq(Contents)
  /\ pc \in {"load", "minimize", "collect", "read", "involve"} => todo = {} /\ m_ids = {} /\ chosen = <<>>
  /\ pc = "apply" => todo \subseteq DOMAIN m_items
  /\ pc \in {"write", "opened", "writing"} => todo \subseteq Contents
  /\ pc \in {"read", "apply", "write", "opened", "writing"} => tool # "review"
  /\ pc \in {"involve", "choose", "review"} => tool = "review"
  /\ pc \in {"opened", "writing"} =>
       \A c \in todo : Current(c) => opened \in [DOMAIN IdsOf[c] -> PoMessage]

\* The run will still write c, from the template.
Pending(c) ==
  /\ source[c] = "template"
  /\ c \in Involved
  /\ pc \in {"write", "opened", "writing"} => c \in todo
  /\ ~(pc = "writing" /\ Current(c))

\* Where the file of each content was found is known to the run: what was found is still
\* there, and what was not found is still missing or was saved when the run could not see it.
\* Only files that the decisions name are written.
SInv ==
  /\ pc \in {"write", "opened", "writing"} => todo \subseteq Involved
  /\ pc \in {"read", "apply", "write", "opened", "writing"} =>
       \A c \in Contents :
         /\ source[c] = "po" => disk[c] # NoFile
         /\ Pending(c) => disk[c] = NoFile \/ c \in late

\* A run that writes has found no cut file, and leaves at most the one that it writes.
\* The others have what was saved, and what writeToFile holds is what was saved too.
KInv ==
  /\ \A c \in Contents \ late : disk[c] = CutFile \/ disk[c] = saved[c] \/ saved[c] = NoFile
  /\ \A c, d \in Cut : c = d
  /\ pc = "read" => \A c \in Cut : source[c] = "po"
  /\ pc \in {"apply", "write", "opened"} \/ (pc = "done" /\ tool # "review") => Cut = {}
  /\ pc = "writing" => \A c \in Cut : Current(c)
  /\ pc = "opened" => \A c \in todo : Current(c) /\ c \notin late => opened = disk[c] \/ disk[c] = NoFile
  /\ pc = "writing" => \A c \in todo :
       Current(c) /\ c \notin late => disk[c] # CutFile \/ opened = saved[c] \/ saved[c] = NoFile

IInv == TInv /\ SInv /\ KInv

\* A cut file is neither a missing nor a whole one.
LEMMA CutIsNoFile ==
  ASSUME NEW c \in Contents
  PROVE  CutFile # NoFile /\ CutFile \notin [DOMAIN IdsOf[c] -> PoMessage]
<1>1. DOMAIN CutFile = {0} /\ DOMAIN NoFile = {}
  BY DEF CutFile, NoFile
<1>2. 0 \notin DOMAIN IdsOf[c]
  BY PatchAssumption
<1> QED BY <1>1, <1>2

\* A whole file is not a missing one.
LEMMA FileIsThere ==
  ASSUME NEW c \in Contents, NEW f \in [DOMAIN IdsOf[c] -> PoMessage]
  PROVE  f # NoFile /\ f # CutFile
<1>1. IdsOf[c] \in Seq(Range(MinId)) /\ IdsOf[c] # <<>>
  BY PatchAssumption
<1>2. 1 \in DOMAIN IdsOf[c]
  BY <1>1
<1>3. 1 \in DOMAIN f
  BY <1>2
<1> QED BY <1>3, CutIsNoFile DEF NoFile

\* A file that is read, from disk or from the template, has the messages of its template.
LEMMA ReadTypes ==
  ASSUME TInv, NEW c \in Contents, source[c] = "po" => disk[c] \notin {NoFile, CutFile}
  PROVE  poFileRead(c) \in [DOMAIN IdsOf[c] -> PoMessage]
<1>1. Template(c) \in [DOMAIN IdsOf[c] -> PoMessage]
  BY DEF Template, PoMessage
<1>2. source[c] = "po" => disk[c] \in [DOMAIN IdsOf[c] -> PoMessage]
  BY DEF TInv, TypeOK
<1> QED BY <1>1, <1>2 DEF poFileRead

\* The messages of a file as they are read: none is edited.
LEMMA MessageTypes ==
  ASSUME NEW p \in PoMessage
  PROVE  Message(p) \in Read /\ Unedited(Message(p)) /\ ~Message(p).edited
<1>1. Message(p) \in Read
  BY DEF Message, Read, PoMessage
<1>2. Unedited(Message(p)) /\ ~Message(p).edited
  BY DEF Message, Unedited
<1> QED BY <1>1, <1>2

\* A run that ends, by a failed assertion, a signal or an exception.
LEMMA AbortStep == ASSUME IInv, Abort PROVE IInv'
<1>1. /\ pc' = "dead"
      /\ UNCHANGED <<tool, m_items, source, messages, todo, opened, m_ids, chosen, disk, saved, late, saves>>
  BY DEF Abort, Goto, toolVars, diskVars
<1>2. Cut' = Cut
  BY <1>1 DEF Cut
<1>3. TInv'
  BY <1>1 DEF IInv, TInv, TypeOK
<1>4. SInv' /\ KInv'
  BY <1>1, <1>2 DEF IInv, SInv, KInv
<1> QED BY <1>3, <1>4 DEF IInv

\* A step that leaves the files alone and does not lead to the writing of one.
LEMMA KeepFiles ==
  ASSUME KInv, UNCHANGED <<disk, saved, late>>, pc' \notin {"read", "opened", "writing"},
         pc' \in {"apply", "write"} \/ (pc' = "done" /\ tool' # "review") => Cut = {}
  PROVE  KInv'
<1>1. Cut' = Cut
  BY DEF Cut
<1> QED BY <1>1 DEF KInv

\* The decisions are loaded, and their IDs replaced by minimized ones.
LEMMA LoadStep ==
  ASSUME IInv, (\E d \in Diffs : loadIddiff(d)) \/ minimizeIds
  PROVE  IInv'
<1>1. ASSUME NEW d \in Diffs, loadIddiff(d) PROVE IInv'
  <2>1. DOMAIN d \subseteq DOMAIN MinId /\ Range(d) \subseteq Item
    BY PatchAssumption
  <2>2. /\ m_items' = d
        /\ UNCHANGED <<tool, source, messages, todo, opened, m_ids, chosen, disk, saved, late, saves>>
        /\ pc = "load" /\ pc' = "minimize"
    BY <1>1 DEF loadIddiff, Goto, diskVars
  <2>3. TypeOK'
    BY <2>1, <2>2 DEF IInv, TInv, TypeOK
  <2>4. TInv' /\ SInv'
    BY <2>2, <2>3 DEF IInv, TInv, SInv
  <2> QED BY <2>2, <2>4, KeepFiles DEF IInv
<1>2. CASE minimizeIds
  <2>1. CASE Abort BY <2>1, AbortStep
  <2>2. CASE ~Abort
    <3> DEFINE items == [n \in {MinId[i] : i \in DOMAIN m_items} |->
                           m_items[CHOOSE i \in DOMAIN m_items : MinId[i] = n]]
    <3>1. /\ m_items' = items
          /\ UNCHANGED <<tool, source, messages, todo, opened, m_ids, chosen, disk, saved, late, saves>>
          /\ pc = "minimize" /\ pc' = IF tool = "review" THEN "involve" ELSE "collect"
      BY <1>2, <2>2 DEF minimizeIds, Goto, diskVars
    <3>2. DOMAIN items \subseteq DOMAIN MinId
      BY PatchAssumption DEF IInv, TInv, TypeOK
    <3>3. Range(items) \subseteq Item
      BY DEF Range, IInv, TInv, TypeOK
    <3> HIDE DEF items
    <3>4. TInv' /\ SInv'
      BY <3>1, <3>2, <3>3 DEF IInv, TInv, SInv, TypeOK
    <3> QED BY <3>1, <3>4, KeepFiles DEF IInv
  <2> QED BY <2>1, <2>2
<1> QED BY <1>1, <1>2

\* The collector looks for the files, and the messages of those that the decisions name are
\* read, if no file is cut.
LEMMA CollectStep ==
  ASSUME IInv, insertPoDirOrTemplate \/ getMessagesByIds
  PROVE  IInv'
<1>1. CASE insertPoDirOrTemplate
  <2>1. /\ source' = [c \in Contents |-> insertPoOrTemplate(c)]
        /\ UNCHANGED <<tool, m_items, messages, todo, opened, m_ids, chosen, disk, saved, late, saves>>
        /\ pc = "collect" /\ pc' = IF tool = "review" THEN "load" ELSE "read"
    BY <1>1 DEF insertPoDirOrTemplate, Goto, diskVars
  <2>2. \A c \in Contents : source'[c] = IF disk[c] # NoFile THEN "po" ELSE "template"
    BY <2>1 DEF insertPoOrTemplate
  <2>3. TInv'
    BY <2>1, <2>2 DEF IInv, TInv, TypeOK
  <2>4. SInv'
    BY <2>1, <2>2 DEF SInv, Pending
  <2>5. Cut' = Cut /\ \A c \in Cut' : source'[c] = "po"
    BY <2>1, <2>2, CutIsNoFile DEF Cut
  <2>6. KInv'
    BY <2>1, <2>5 DEF IInv, KInv
  <2> QED BY <2>3, <2>4, <2>6 DEF IInv
<1>2. CASE getMessagesByIds
  <2>0. CASE Abort BY <2>0, AbortStep
  <2>1. CASE ~Abort
    <3>1. /\ ~CannotRead
          /\ messages' = [c \in Contents |-> IF c \in Involved THEN readMessages(c) ELSE <<>>]
          /\ todo' = DOMAIN m_items
          /\ UNCHANGED <<tool, m_items, source, opened, m_ids, chosen, disk, saved, late, saves>>
          /\ pc = "read" /\ pc' = "apply"
      BY <1>2, <2>1 DEF getMessagesByIds, Goto, diskVars
    <3>0. Cut = {}
      BY <3>1 DEF IInv, KInv, Cut, CannotRead
    <3>2. ASSUME NEW c \in Contents PROVE readMessages(c) \in [DOMAIN IdsOf[c] -> Read]
      <4>1. poFileRead(c) \in [DOMAIN IdsOf[c] -> PoMessage]
        BY <3>1, <3>0, ReadTypes DEF IInv, SInv, Cut
      <4> QED BY <4>1, MessageTypes DEF readMessages
    <3>3. TInv'
      BY <3>1, <3>2 DEF IInv, TInv, TypeOK
    <3>4. SInv'
      BY <3>1 DEF IInv, SInv, Pending, Involved
    <3> QED BY <3>1, <3>3, <3>4, <3>0, KeepFiles DEF IInv
  <2> QED BY <2>0, <2>1
<1> QED BY <1>1, <1>2

\* The decisions are applied to the messages that were read.
LEMMA ApplyStep ==
  ASSUME IInv, applyIddiff \/ applied
  PROVE  IInv'
<1>1. CASE applyIddiff
  <2>1. CASE Abort BY <2>1, AbortStep
  <2>2. CASE ~Abort
    <3>1. PICK id \in todo :
            /\ messages' = [c \in Contents |->
                 [k \in DOMAIN messages[c] |->
                    IF IdsOf[c][k] = id THEN Apply(messages[c][k], id) ELSE messages[c][k]]]
            /\ todo' = todo \ {id}
            /\ UNCHANGED <<tool, m_items, source, opened, m_ids, chosen, disk, saved, late, saves>>
            /\ pc = "apply" /\ pc' = "apply"
      BY <1>1, <2>2 DEF applyIddiff, Goto, diskVars
    <3>2. id \in DOMAIN m_items /\ m_items[id] \in Item
      BY <3>1 DEF IInv, TInv, TypeOK, Range
    <3>3. ASSUME NEW c \in Contents PROVE messages'[c] \in {<<>>} \cup [DOMAIN IdsOf[c] -> Read]
      <4>1. CASE messages[c] = <<>>
        <5>1. messages'[c] = [k \in {} |-> IF IdsOf[c][k] = id THEN Apply(messages[c][k], id) ELSE messages[c][k]]
          BY <3>1, <4>1
        <5> QED BY <5>1
      <4>2. CASE messages[c] \in [DOMAIN IdsOf[c] -> Read]
        BY <3>1, <3>2, <4>2, ApplyTypes
      <4> QED BY <4>1, <4>2 DEF IInv, TInv, TypeOK
    <3>4. TInv'
      BY <3>1, <3>3 DEF IInv, TInv, TypeOK
    <3>5. SInv'
      BY <3>1 DEF IInv, SInv, Pending, Involved
    <3>6. Cut = {}
      BY <3>1 DEF IInv, KInv
    <3> QED BY <3>1, <3>4, <3>5, <3>6, KeepFiles DEF IInv
  <2> QED BY <2>1, <2>2
<1>2. CASE applied
  <2>1. /\ todo' = Involved /\ Involved \subseteq Contents
        /\ UNCHANGED <<tool, m_items, source, messages, opened, m_ids, chosen, disk, saved, late, saves>>
        /\ pc = "apply" /\ pc' \in {"done", "write"}
    BY <1>2 DEF applied, Goto, diskVars, Involved
  <2>2. TInv'
    BY <2>1 DEF IInv, TInv, TypeOK
  <2>3. SInv'
    BY <2>1 DEF IInv, SInv, Pending, Involved
  <2>4. Cut = {}
    BY <2>1 DEF IInv, KInv
  <2> QED BY <2>1, <2>2, <2>3, <2>4, KeepFiles DEF IInv
<1> QED BY <1>1, <1>2

\* Two contents that are both at the front of the list are one.
LEMMA OneCurrent ==
  ASSUME TInv, pc \in {"write", "opened", "writing"}, NEW c \in todo, NEW d \in todo, Current(c), Current(d)
  PROVE  c \in Contents /\ c = d
<1>1. c \in Nat /\ d \in Nat /\ c \in Contents
  BY PatchAssumption DEF TInv
<1>2. c <= d /\ d <= c
  BY DEF Current
<1> QED BY <1>1, <1>2

\* What writeToFile writes is what it opened: no message that it reads again is edited.
LEMMA WrittenIsOpened ==
  ASSUME IInv, pc = "opened", NEW c \in todo, Current(c)
  PROVE  Written(c) = opened /\ opened \in [DOMAIN IdsOf[c] -> PoMessage]
<1>1. c \in Contents /\ opened \in [DOMAIN IdsOf[c] -> PoMessage]
  BY DEF IInv, TInv
<1>2. poFileRead(c) \in [DOMAIN IdsOf[c] -> PoMessage]
  BY <1>1, ReadTypes DEF IInv, SInv, KInv, Cut
<1>3. \A k \in DOMAIN opened : ~readMessages(c)[k].edited
  BY <1>1, <1>2, MessageTypes DEF readMessages
<1>4. Written(c) = [k \in DOMAIN opened |-> opened[k]]
  BY <1>3 DEF Written
<1> QED BY <1>1, <1>4

\* A file is opened.
LEMMA OpenStep ==
  ASSUME IInv, openFile
  PROVE  IInv'
<1>1. PICK c \in todo : Current(c) /\ opened' = poFileRead(c)
  BY DEF openFile
<1>2. /\ UNCHANGED <<tool, m_items, source, messages, todo, m_ids, chosen, disk, saved, late, saves>>
      /\ pc = "write" /\ pc' = "opened"
  BY DEF openFile, Goto, diskVars
<1>3. c \in Contents /\ poFileRead(c) \in [DOMAIN IdsOf[c] -> PoMessage]
  BY <1>1, <1>2, ReadTypes DEF IInv, TInv, SInv, KInv, Cut
<1>4. \A d \in todo' : Current(d)' => d = c
  BY <1>1, <1>2, OneCurrent DEF IInv, Current
<1>5. TInv'
  BY <1>1, <1>2, <1>3, <1>4 DEF IInv, TInv, TypeOK
<1>6. SInv'
  BY <1>2 DEF IInv, SInv, Pending, Involved
<1>7. c \notin late => opened' = disk[c] \/ disk[c] = NoFile
  <2>1. CASE source[c] = "po"
    BY <1>1, <2>1 DEF poFileRead
  <2>2. CASE source[c] = "template"
    <3>1. c \in Involved
      BY <1>1, <1>2 DEF IInv, SInv
    <3>2. Pending(c)
      BY <1>1, <1>2, <2>2, <3>1 DEF Pending
    <3> QED BY <1>2, <1>3, <3>2 DEF IInv, SInv
  <2> QED BY <1>3, <2>1, <2>2 DEF IInv, TInv, TypeOK
<1>8. Cut' = Cut /\ Cut = {}
  BY <1>2 DEF Cut, IInv, KInv
<1>9. KInv'
  BY <1>2, <1>4, <1>7, <1>8 DEF IInv, KInv
<1> QED BY <1>5, <1>6, <1>9 DEF IInv

\* A file is emptied, by the run that has opened it: no other one is cut.
LEMMA EmptyStep ==
  ASSUME IInv, po_file_write
  PROVE  IInv'
<1>1. PICK c \in todo : Current(c) /\ opened' = Written(c) /\ disk' = [disk EXCEPT ![c] = CutFile]
  BY DEF po_file_write
<1>2. /\ UNCHANGED <<tool, m_items, source, messages, todo, m_ids, chosen, saved, late, saves>>
      /\ pc = "opened" /\ pc' = "writing"
  BY DEF po_file_write
<1>3. opened' = opened /\ c \in Contents /\ opened \in [DOMAIN IdsOf[c] -> PoMessage]
  BY <1>1, <1>2, WrittenIsOpened DEF IInv, TInv
<1>4. disk = [d \in Contents |-> disk[d]]
  BY DEF IInv, TInv
<1>5. disk'[c] = CutFile /\ (\A d \in Contents \ {c} : disk'[d] = disk[d])
      /\ disk' = [d \in Contents |-> disk'[d]]
  BY <1>1, <1>3, <1>4
<1>6. \A d \in todo' : Current(d)' => d = c
  BY <1>1, <1>2, OneCurrent DEF IInv, Current
<1>7. Current(c)'
  BY <1>1, <1>2 DEF Current
<1>8. TInv'
  BY <1>2, <1>3, <1>5, <1>6 DEF IInv, TInv, TypeOK
<1>9. SInv'
  <2>1. ASSUME NEW d \in Contents \ {c}, Pending(d)' PROVE Pending(d)
    BY <1>2, <2>1 DEF Pending, Involved
  <2>2. ~Pending(c)'
    BY <1>2, <1>7 DEF Pending
  <2> QED BY <1>2, <1>5, <2>1, <2>2, CutIsNoFile DEF IInv, SInv, Involved
<1>10. Cut' = {c}
  <2>1. Cut = {}
    BY <1>2 DEF IInv, KInv
  <2> QED BY <1>3, <1>5, <2>1 DEF Cut
<1>11. c \notin late => opened' = saved[c] \/ saved[c] = NoFile
  <2>1. disk[c] # CutFile
    BY <1>2, <1>3 DEF IInv, KInv, Cut
  <2> QED BY <1>1, <1>2, <1>3, <2>1 DEF IInv, KInv
<1>12. KInv'
  BY <1>2, <1>5, <1>6, <1>7, <1>10, <1>11 DEF IInv, KInv
<1> QED BY <1>8, <1>9, <1>12 DEF IInv

\* A file is whole again, unless an editor replaced it.
LEMMA CloseStep ==
  ASSUME IInv, closeFile
  PROVE  IInv'
<1>1. PICK c \in todo :
        /\ Current(c)
        /\ disk' = IF disk[c] = CutFile THEN [disk EXCEPT ![c] = opened] ELSE disk
        /\ todo' = todo \ {c}
        /\ pc' \in {"done", "write"}
  BY DEF closeFile
<1>2. /\ UNCHANGED <<tool, m_items, source, messages, m_ids, chosen, saved, late, saves>>
      /\ pc = "writing" /\ opened' = <<>>
  BY DEF closeFile
<1>3. c \in Contents /\ opened \in [DOMAIN IdsOf[c] -> PoMessage]
  BY <1>1, <1>2 DEF IInv, TInv
<1>4. disk = [d \in Contents |-> disk[d]]
  BY DEF IInv, TInv
<1>5. /\ disk'[c] = IF disk[c] = CutFile THEN opened ELSE disk[c]
      /\ \A d \in Contents \ {c} : disk'[d] = disk[d]
      /\ disk' = [d \in Contents |-> disk'[d]]
  BY <1>1, <1>3, <1>4
<1>6. TInv'
  BY <1>1, <1>2, <1>3, <1>5 DEF IInv, TInv, TypeOK
<1>7. SInv'
  <2>1. ASSUME NEW d \in Contents, pc' = "write", Pending(d)' PROVE Pending(d) /\ d # c
    <3>1. source[d] = "template" /\ d \in Involved /\ d \in todo /\ d # c
      BY <1>1, <1>2, <2>1 DEF Pending, Involved
    <3>2. ~Current(d)
      BY <1>1, <1>2, <3>1, OneCurrent DEF IInv
    <3> QED BY <3>1, <3>2 DEF Pending
  <2>2. opened # NoFile
    BY <1>3, FileIsThere
  <2> QED BY <1>1, <1>2, <1>3, <1>5, <2>1, <2>2 DEF IInv, SInv, Involved
<1>8. \A d \in Cut : d = c
  BY <1>1, <1>2, OneCurrent DEF IInv, KInv, Current
<1>9. Cut' = {}
  <2>1. disk'[c] # CutFile
    BY <1>3, <1>5, FileIsThere
  <2> QED BY <1>5, <1>8, <2>1 DEF Cut
<1>10. KInv'
  BY <1>1, <1>2, <1>3, <1>5, <1>9 DEF IInv, KInv
<1> QED BY <1>6, <1>7, <1>10 DEF IInv

\* A review goes from one file to the next.
LEMMA ReviewStep ==
  ASSUME IInv, involvedByMinIds \/ (\E c \in Contents : nextContent(c)) \/ allCovered \/ applyToContent
  PROVE  IInv'
<1>1. CASE involvedByMinIds
  <2>1. CASE Abort BY <2>1, AbortStep
  <2>2. CASE ~Abort
    <3>1. /\ m_ids' = DOMAIN m_items /\ pc = "involve" /\ pc' = "choose"
          /\ UNCHANGED <<tool, m_items, source, messages, todo, opened, chosen, disk, saved, late, saves>>
      BY <1>1, <2>2 DEF involvedByMinIds, Goto, diskVars
    <3>2. TInv' /\ SInv'
      BY <3>1 DEF IInv, TInv, SInv, TypeOK
    <3> QED BY <3>1, <3>2, KeepFiles DEF IInv
  <2> QED BY <2>1, <2>2
<1>2. ASSUME NEW c \in Contents, nextContent(c) PROVE IInv'
  <2>1. /\ m_ids' = m_ids \ Range(IdsOf[c]) /\ chosen' = Append(chosen, c) /\ pc = "choose" /\ pc' = "review"
        /\ UNCHANGED <<tool, m_items, source, messages, todo, opened, disk, saved, late, saves>>
    BY <1>2 DEF nextContent, Goto, diskVars
  <2>2. chosen' \in Seq(Contents) /\ Range(chosen') \subseteq Contents
    BY <2>1 DEF IInv, TInv, Range
  <2>3. TInv' /\ SInv'
    BY <2>1, <2>2 DEF IInv, TInv, SInv, TypeOK
  <2> QED BY <2>1, <2>3, KeepFiles DEF IInv
<1>3. ASSUME UNCHANGED <<tool, toolVars, diskVars>>, pc \in {"choose", "review"}, pc' \in {"choose", "done"}
      PROVE  IInv'
  <2>1. UNCHANGED <<tool, m_items, source, messages, todo, opened, m_ids, chosen, disk, saved, late, saves>>
    BY <1>3 DEF toolVars, diskVars
  <2>2. TInv' /\ SInv'
    BY <1>3, <2>1 DEF IInv, TInv, SInv, TypeOK
  <2>3. tool = "review"
    BY <1>3 DEF IInv, TInv
  <2> QED BY <1>3, <2>1, <2>2, <2>3, KeepFiles DEF IInv
<1>4. CASE allCovered
  BY <1>3, <1>4 DEF allCovered, Goto
<1>5. CASE applyToContent
  <2>1. CASE Abort BY <2>1, AbortStep
  <2>2. CASE ~Abort
    BY <1>3, <1>5, <2>2 DEF applyToContent, Goto
  <2> QED BY <2>1, <2>2
<1> QED BY <1>1, <1>2, <1>4, <1>5

\* A translator saves a file.
LEMMA SaveStep ==
  ASSUME IInv, NEW c \in Contents, NEW v \in Versions[c], save(c, v)
  PROVE  IInv'
<1>1. /\ disk' = [disk EXCEPT ![c] = v] /\ saved' = [saved EXCEPT ![c] = v]
      /\ late' = IF Unseen(c) THEN late \cup {c} ELSE late \ {c}
      /\ saves < MaxSaves /\ saves' = saves + 1 /\ v # NoFile
      /\ UNCHANGED <<tool, pc, m_items, source, messages, todo, opened, m_ids, chosen>>
  BY DEF save, toolVars
<1>2. v \in [DOMAIN IdsOf[c] -> PoMessage] /\ MaxSaves \in Nat
  BY <1>1, PatchAssumption
<1>3. disk = [d \in Contents |-> disk[d]] /\ saved = [d \in Contents |-> saved[d]]
  BY DEF IInv, TInv
<1>4. /\ disk'[c] = v /\ (\A d \in Contents \ {c} : disk'[d] = disk[d])
      /\ saved'[c] = v /\ (\A d \in Contents \ {c} : saved'[d] = saved[d])
      /\ disk' = [d \in Contents |-> disk'[d]] /\ saved' = [d \in Contents |-> saved'[d]]
  BY <1>1, <1>3
<1>5. late' \subseteq Contents /\ saves' \in 0..MaxSaves
  BY <1>1, <1>2 DEF IInv, TInv, TypeOK
<1>6. TInv'
  BY <1>1, <1>2, <1>4, <1>5 DEF IInv, TInv, TypeOK, Current
<1>7. /\ \A d \in todo : Current(d)' <=> Current(d)
      /\ \A d \in Contents \ {c} : d \in late' <=> d \in late
      /\ Unseen(c) => c \in late'
      /\ \A d \in Contents : Pending(d)' <=> Pending(d)
  BY <1>1 DEF Current, Pending, Involved
<1>8. SInv'
  <2>1. ASSUME pc \in {"read", "apply", "write", "opened", "writing"}, Pending(c) PROVE c \in late'
    BY <1>7, <2>1 DEF Unseen, Pending, Running, IInv, TInv
  <2> QED BY <1>1, <1>4, <1>7, <2>1 DEF IInv, SInv, Involved
<1>9. Cut' = Cut \ {c}
  BY <1>2, <1>4, FileIsThere DEF Cut
<1>10. KInv'
  <2>1. pc = "opened" /\ Current(c) => c \in late'
    <3>1. pc = "opened" /\ Current(c) => c \in Involved /\ tool # "review"
      BY DEF IInv, TInv, SInv, Current
    <3> QED BY <1>7, <3>1 DEF Unseen, Running
  <2>2. v # CutFile
    BY <1>2, FileIsThere
  <2>3. pc \in {"opened", "writing"} => todo \subseteq Contents
    BY DEF IInv, TInv
  <2>4. \A d \in Contents \ late' : disk'[d] = CutFile \/ disk'[d] = saved'[d] \/ saved'[d] = NoFile
    BY <1>4, <1>7 DEF IInv, KInv
  <2>5. /\ \A d, e \in Cut' : d = e
        /\ pc' = "read" => \A d \in Cut' : source'[d] = "po"
        /\ pc' \in {"apply", "write", "opened"} \/ (pc' = "done" /\ tool' # "review") => Cut' = {}
    BY <1>1, <1>9 DEF IInv, KInv
  <2>6. pc' = "writing" => \A d \in Cut' : Current(d)'
    BY <1>1, <1>9 DEF IInv, KInv, Current
  <2>7. pc' = "opened" => \A d \in todo' :
          Current(d)' /\ d \notin late' => opened' = disk'[d] \/ disk'[d] = NoFile
    BY <1>1, <1>4, <1>7, <2>1, <2>3 DEF IInv, KInv
  <2>8. pc' = "writing" => \A d \in todo' :
          Current(d)' /\ d \notin late' => disk'[d] # CutFile \/ opened' = saved'[d] \/ saved'[d] = NoFile
    BY <1>1, <1>4, <1>7, <2>2, <2>3 DEF IInv, KInv
  <2> QED BY <2>4, <2>5, <2>6, <2>7, <2>8 DEF KInv
<1> QED BY <1>6, <1>8, <1>10 DEF IInv

\* The invariant holds in every reachable state.
LEMMA AlwaysIInv == Spec => []IInv
<1>1. Init => IInv
  <2> SUFFICES ASSUME Init PROVE IInv
    OBVIOUS
  <2>1. saved = [c \in Contents |-> saved[c]] /\ \A c \in Contents : saved[c] \in Versions[c]
    BY DEF Init
  <2>2. \A c \in Contents : saved[c] \in [DOMAIN IdsOf[c] -> PoMessage] \cup {NoFile}
    BY <2>1, PatchAssumption
  <2>3. disk = saved \/ \E c \in Contents : disk = [saved EXCEPT ![c] = CutFile]
    BY DEF Init
  <2>4. /\ disk = [c \in Contents |-> disk[c]]
        /\ \A c \in Contents : disk[c] = saved[c] \/ disk[c] = CutFile
    BY <2>1, <2>3
  <2>5. \A c, d \in Cut : c = d
    <3>1. \A c \in Contents : saved[c] # CutFile
      BY <2>2, FileIsThere, CutIsNoFile
    <3> QED BY <2>1, <2>3, <3>1 DEF Cut
  <2>6. <<>> \in Seq(Contents) /\ Range(<<>>) = {} /\ DOMAIN <<>> = {}
    BY DEF Range
  <2>7. MaxSaves \in Nat BY PatchAssumption
  <2>8. TInv
    BY <2>1, <2>2, <2>4, <2>6, <2>7 DEF Init, TInv, TypeOK
  <2>9. SInv
    BY DEF Init, SInv
  <2>10. KInv
    BY <2>4, <2>5 DEF Init, KInv
  <2> QED BY <2>8, <2>9, <2>10 DEF IInv
<1>2. IInv /\ [Next]_vars => IInv'
  <2>1. IInv /\ UNCHANGED vars => IInv'
    <3> SUFFICES ASSUME IInv, UNCHANGED vars PROVE IInv' OBVIOUS
    <3>1. UNCHANGED <<tool, pc, m_items, source, messages, todo, opened, m_ids, chosen, disk, saved, late, saves>>
      BY DEF vars, toolVars, diskVars
    <3>2. TypeOK'
      BY <3>1 DEF IInv, TInv, TypeOK
    <3>3. /\ \A c \in todo : Current(c)' <=> Current(c)
          /\ \A c \in Contents : (Pending(c)' <=> Pending(c)) /\ (Current(c)' <=> Current(c))
          /\ Cut' = Cut /\ Involved' = Involved
      BY <3>1 DEF Current, Pending, Involved, Cut
    <3>4. TInv'
      BY <3>1, <3>2, <3>3 DEF IInv, TInv
    <3>5. SInv'
      BY <3>1, <3>3 DEF IInv, SInv
    <3>6. KInv'
      BY <3>1, <3>3 DEF IInv, KInv, Cut
    <3> QED BY <3>4, <3>5, <3>6 DEF IInv
  <2>2. IInv /\ die => IInv'
    BY AbortStep DEF die
  <2>3. IInv /\ ToolStep => IInv'
    BY LoadStep, CollectStep, ApplyStep, OpenStep, EmptyStep, CloseStep, ReviewStep DEF ToolStep
  <2> QED BY <2>1, <2>2, <2>3, SaveStep DEF Next
<1> QED BY <1>1, <1>2, PTL DEF Spec

\* Every variable keeps its type, with any number of files, messages and decisions.
THEOREM TypeCorrect == Spec => []TypeOK
<1>1. IInv => TypeOK
  BY DEF IInv, TInv
<1> QED BY <1>1, AlwaysIInv, PTL
-----------------------------------------------------------------------------
\* Decision id was applied, to every copy of its message.
Applied(id) ==
  /\ HasAdded(id) \/ Found(id) # {}
  /\ \A at \in Found(id) : Decided(messages[at[1]][at[2]], id)

\* The messages were read, and the decisions are being applied or have been.
Editing == pc \in {"apply", "write", "opened", "writing"} \/ (pc = "done" /\ tool # "review")

\* A message is edited once: it is as it was read as long as its ID is to be applied, and as
\* the decisions want it from then on.
EInv ==
  /\ pc = "apply" => \A c \in Contents : \A k \in DOMAIN messages[c] :
                       IdsOf[c][k] \in todo => Unedited(messages[c][k])
  /\ Editing => \A id \in DOMAIN m_items : (pc = "apply" /\ id \in todo) \/ Applied(id)

\* One ID is applied: what happens to each message.
LEMMA ApplyOne ==
  ASSUME IInv, EInv, applyIddiff, ~Abort
  PROVE  \E id \in todo :
           /\ id \in DOMAIN m_items /\ m_items[id] \in Item /\ todo' = todo \ {id}
           /\ HasAdded(id) \/ Found(id) # {}
           /\ pc = "apply" /\ pc' = "apply" /\ UNCHANGED <<tool, m_items, diskVars>>
           /\ \A c \in Contents : DOMAIN messages'[c] = DOMAIN messages[c]
           /\ \A c \in Contents : \A k \in DOMAIN messages[c] :
                IF IdsOf[c][k] = id
                  THEN /\ messages[c][k] \in Read /\ Unedited(messages[c][k]) /\ ~Fails(messages[c][k], id)
                       /\ messages'[c][k] = Apply(messages[c][k], id)
                  ELSE messages'[c][k] = messages[c][k]
<1>1. PICK id \in todo :
        /\ HasAdded(id) \/ Found(id) # {}
        /\ \A at \in Found(id) : ~Fails(messages[at[1]][at[2]], id)
        /\ messages' = [c \in Contents |->
             [k \in DOMAIN messages[c] |->
                IF IdsOf[c][k] = id THEN Apply(messages[c][k], id) ELSE messages[c][k]]]
        /\ todo' = todo \ {id}
        /\ pc = "apply" /\ pc' = "apply" /\ UNCHANGED <<tool, m_items, diskVars>>
  BY DEF applyIddiff, Goto
<1>2. id \in DOMAIN m_items /\ m_items[id] \in Item
  BY <1>1 DEF IInv, TInv, TypeOK, Range
<1>3. ASSUME NEW c \in Contents, NEW k \in DOMAIN messages[c], IdsOf[c][k] = id
      PROVE  messages[c][k] \in Read /\ Unedited(messages[c][k]) /\ ~Fails(messages[c][k], id)
  <2>1. <<c, k>> \in Found(id)
    BY <1>3 DEF Found
  <2>2. messages[c] # <<>>
    BY <1>3
  <2>3. messages[c][k] \in Read
    BY <2>2 DEF IInv, TInv, TypeOK
  <2> QED BY <1>1, <1>3, <2>1, <2>3 DEF EInv
<1>4. \A c \in Contents : DOMAIN messages'[c] = DOMAIN messages[c]
  BY <1>1
<1>5. \A c \in Contents : \A k \in DOMAIN messages[c] :
        messages'[c][k] = IF IdsOf[c][k] = id THEN Apply(messages[c][k], id) ELSE messages[c][k]
  BY <1>1
<1> QED BY <1>1, <1>2, <1>3, <1>4, <1>5

\* Where a message was found does not depend on its edits.
LEMMA FoundAgain ==
  ASSUME \A c \in Contents : DOMAIN messages'[c] = DOMAIN messages[c], NEW id
  PROVE  Found(id)' = Found(id)
<1>1. UNION {DOMAIN messages[c] : c \in Contents} = UNION {DOMAIN messages'[c] : c \in Contents}
  OBVIOUS
<1> QED BY <1>1 DEF Found

\* Applying an ID keeps the invariant: its messages are decided, the others are as they were.
LEMMA EditStep ==
  ASSUME IInv, EInv, applyIddiff
  PROVE  EInv'
<1>1. CASE Abort
  BY <1>1 DEF Abort, Goto, EInv, Editing
<1>2. CASE ~Abort
  <2>1. PICK id \in todo :
           /\ id \in DOMAIN m_items /\ m_items[id] \in Item /\ todo' = todo \ {id}
           /\ HasAdded(id) \/ Found(id) # {}
           /\ pc = "apply" /\ pc' = "apply" /\ UNCHANGED <<tool, m_items, diskVars>>
           /\ \A c \in Contents : DOMAIN messages'[c] = DOMAIN messages[c]
           /\ \A c \in Contents : \A k \in DOMAIN messages[c] :
                IF IdsOf[c][k] = id
                  THEN /\ messages[c][k] \in Read /\ Unedited(messages[c][k]) /\ ~Fails(messages[c][k], id)
                       /\ messages'[c][k] = Apply(messages[c][k], id)
                  ELSE messages'[c][k] = messages[c][k]
    BY <1>2, ApplyOne
  <2>2. (\A c \in Contents : \A k \in DOMAIN messages[c] : IdsOf[c][k] \in todo => Unedited(messages[c][k]))'
    BY <2>1 DEF EInv, Unedited
  <2>3. ASSUME NEW n \in DOMAIN m_items, n \notin todo' PROVE Applied(n)'
    <3>1. Found(n)' = Found(n) /\ (HasAdded(n)' <=> HasAdded(n)) /\ Added(n)' = Added(n)
      BY <2>1, FoundAgain DEF HasAdded, Added
    <3>2. \A at \in Found(n) : at[1] \in Contents /\ at[2] \in DOMAIN messages[at[1]] /\ IdsOf[at[1]][at[2]] = n
      BY DEF Found
    <3>3. \A m : Decided(m, n)' <=> Decided(m, n)
      BY <2>1, <3>1 DEF Decided
    <3>4. \A at \in Found(n) : Decided(messages'[at[1]][at[2]], n)
      <4>1. CASE n = id
        BY <2>1, <3>2, <4>1, ApplyDecides
      <4>2. CASE n # id
        BY <2>1, <2>3, <3>2, <4>2 DEF EInv, Editing, Applied
      <4> QED BY <4>1, <4>2
    <3>5. HasAdded(n) \/ Found(n) # {}
      BY <2>1, <2>3 DEF EInv, Editing, Applied
    <3>6. \A at \in Found(n) : Decided(messages[at[1]][at[2]], n)'
      BY <2>1, <3>1, <3>4 DEF Decided
    <3> QED BY <3>1, <3>5, <3>6 DEF Applied
  <2> QED BY <2>1, <2>2, <2>3 DEF EInv
<1> QED BY <1>1, <1>2

\* The other steps edit no message, and begin with messages as they were read.
LEMMA AlwaysEInv == Spec => []EInv
<1>1. Init => EInv
  BY DEF Init, EInv, Editing
<1>2. IInv /\ IInv' /\ EInv /\ [Next]_vars => EInv'
  <2> SUFFICES ASSUME IInv, IInv', EInv, [Next]_vars PROVE EInv'
    OBVIOUS
  <2>1. ASSUME UNCHANGED <<tool, m_items, messages>>,
               Editing' => Editing,
               pc' = "apply" => pc = "apply" /\ todo' = todo,
               pc = "apply" /\ pc' # "apply" => todo = {}
        PROVE  EInv'
    <3>1. \A id \in DOMAIN m_items : Applied(id)' <=> Applied(id)
      BY <2>1 DEF Applied, Found, Decided, HasAdded, Added
    <3> QED BY <2>1, <3>1 DEF EInv, Unedited
  <2>2. CASE getMessagesByIds
    <3>1. CASE Abort
      BY <3>1 DEF Abort, Goto, EInv, Editing
    <3>2. CASE ~Abort
      <4>1. /\ messages' = [c \in Contents |-> IF c \in Involved THEN readMessages(c) ELSE <<>>]
            /\ ~CannotRead /\ todo' = DOMAIN m_items /\ m_items' = m_items /\ pc' = "apply" /\ pc = "read"
        BY <2>2, <3>2 DEF getMessagesByIds, Goto
      <4>2. ASSUME NEW c \in Contents, NEW k \in DOMAIN messages'[c] PROVE Unedited(messages'[c][k])
        <5>1. c \in Involved
          BY <4>1, <4>2
        <5>2. poFileRead(c) \in [DOMAIN IdsOf[c] -> PoMessage]
          BY <4>1, ReadTypes DEF IInv, SInv, CannotRead
        <5> QED BY <4>1, <4>2, <5>1, <5>2, MessageTypes DEF readMessages
      <4> QED BY <4>1, <4>2 DEF EInv, Unedited
    <3> QED BY <3>1, <3>2
  <2>3. CASE applyIddiff BY <2>3, EditStep
  <2>4. CASE \E d \in Diffs : loadIddiff(d)
    BY <2>4 DEF loadIddiff, Goto, EInv, Editing
  <2>5. CASE minimizeIds
    BY <2>5 DEF minimizeIds, Abort, Goto, EInv, Editing
  <2>6. CASE insertPoDirOrTemplate
    BY <2>6, <2>1 DEF insertPoDirOrTemplate, Goto, Editing
  <2>7. CASE applied
    BY <2>7, <2>1 DEF applied, Goto, Editing
  <2>8. CASE openFile \/ po_file_write \/ closeFile
    BY <2>8, <2>1 DEF openFile, po_file_write, closeFile, Goto, Editing
  <2>9. CASE involvedByMinIds \/ (\E c \in Contents : nextContent(c)) \/ allCovered \/ applyToContent \/ die
    <3>1. pc' \in {"choose", "review", "dead"} \/ (pc' = "done" /\ tool' = "review")
      BY <2>9 DEF involvedByMinIds, nextContent, allCovered, applyToContent, die, Abort, Goto, IInv, TInv
    <3> QED BY <3>1 DEF EInv, Editing
  <2>10. CASE \E c \in Contents : \E v \in Versions[c] : save(c, v)
    BY <2>10, <2>1 DEF save, toolVars, Editing
  <2>11. CASE UNCHANGED vars
    BY <2>11, <2>1 DEF vars, toolVars, Editing
  <2> QED BY <2>2, <2>3, <2>4, <2>5, <2>6, <2>7, <2>8, <2>9, <2>10, <2>11 DEF Next, ToolStep
<1> QED BY <1>1, <1>2, AlwaysIInv, PTL DEF Spec

\* No file is opened for writing before every decision could be applied, to every copy of
\* its message in every file that was read.
THEOREM NothingIsHalfApplied == Spec => []AllOrNothing
<1>1. EInv => AllOrNothing
  BY DEF EInv, Editing, Applied, AllOrNothing
<1> QED BY <1>1, AlwaysEInv, PTL

\* A file that is whole and was not saved behind the back of a run has what was saved.
LEMMA WholeIsKept ==
  ASSUME IInv
  PROVE  FilesKept
<1>1. ASSUME NEW c \in Contents \ (late \cup Cut) PROVE FileKeeps(c)
  <2>1. disk[c] = saved[c] \/ saved[c] = NoFile
    BY DEF IInv, KInv, Cut
  <2>2. DOMAIN NoFile = {}
    BY DEF NoFile
  <2> QED BY <2>1, <2>2 DEF FileKeeps, Keeps
<1> QED BY <1>1 DEF IInv, KInv, FilesKept

\* No step of applyIddiff takes away what a translator wrote and no decision REMOVEs, and
\* each file has what was saved last: except one file, which a run was writing when it died,
\* and files that were saved after the run had read them for the last time.
THEOREM TranslationsAreKept == Spec => NothingLost
<1>1. ASSUME IInv, EInv, [Next]_vars PROVE EditsKeep
  <2>1. \A p, id : Keeps(p, p, id)
    BY DEF Keeps
  <2>2. ASSUME pc = "apply" => UNCHANGED messages PROVE EditsKeep
    BY <2>1, <2>2 DEF EditsKeep
  <2>3. CASE applyIddiff
    <3>1. CASE Abort BY <3>1, <2>2 DEF Abort, toolVars
    <3>2. CASE ~Abort
      <4>1. PICK id \in todo :
               /\ id \in DOMAIN m_items
               /\ \A c \in Contents : \A k \in DOMAIN messages[c] :
                    IF IdsOf[c][k] = id
                      THEN /\ messages[c][k] \in Read /\ Unedited(messages[c][k])
                           /\ messages'[c][k] = Apply(messages[c][k], id)
                      ELSE messages'[c][k] = messages[c][k]
        BY <2>3, <3>2, <1>1, ApplyOne
      <4> QED BY <4>1, <2>1, ApplyKeeps DEF EditsKeep
    <3> QED BY <3>1, <3>2
  <2>4. CASE applied \/ openFile \/ po_file_write \/ closeFile
    BY <2>4, <2>2 DEF applied, openFile, po_file_write, closeFile
  <2>5. CASE getMessagesByIds \/ insertPoDirOrTemplate \/ (\E d \in Diffs : loadIddiff(d))
    BY <2>5, <2>2 DEF getMessagesByIds, insertPoDirOrTemplate, loadIddiff
  <2>6. CASE minimizeIds \/ die
    BY <2>6, <2>2 DEF minimizeIds, die, Abort, toolVars
  <2>7. CASE involvedByMinIds \/ (\E c \in Contents : nextContent(c)) \/ allCovered \/ applyToContent
    BY <2>7, <2>2 DEF involvedByMinIds, nextContent, allCovered, applyToContent, Abort, toolVars
  <2>8. CASE (\E c \in Contents : \E v \in Versions[c] : save(c, v)) \/ UNCHANGED vars
    BY <2>8, <2>2 DEF save, vars, toolVars
  <2> QED BY <1>1, <2>3, <2>4, <2>5, <2>6, <2>7, <2>8 DEF Next, ToolStep
<1>2. IInv => FilesKept
  BY WholeIsKept
<1>3. IInv /\ EInv /\ [Next]_vars => EditsKeep
  BY <1>1
<1> QED BY <1>2, <1>3, AlwaysIInv, AlwaysEInv, PTL DEF Spec, NothingLost
-----------------------------------------------------------------------------
\* A content covers something when one of its messages is among the IDs that are left.
LEMMA CoveredCount ==
  ASSUME NEW c \in Contents
  PROVE  covered(c) \in Nat /\ (covered(c) > 0 <=> Range(IdsOf[c]) \cap m_ids # {})
<1> DEFINE K == {k \in DOMAIN IdsOf[c] : IdsOf[c][k] \in m_ids}
<1>1. IdsOf[c] \in Seq(Range(MinId))
  BY PatchAssumption
<1>2. PICK n \in Nat : DOMAIN IdsOf[c] = 1..n
  BY <1>1
<1>3. IsFiniteSet(K)
  <2>1. IsFiniteSet(1..n)
    BY FS_Interval
  <2> QED BY <1>2, <2>1, FS_Subset
<1>4. Cardinality(K) \in Nat /\ (Cardinality(K) = 0 <=> K = {})
  BY <1>3, FS_CardinalityType, FS_EmptySet
<1>5. K # {} <=> Range(IdsOf[c]) \cap m_ids # {}
  BY DEF Range
<1> QED BY <1>4, <1>5 DEF covered

\* Of finitely many files, one covers most, and of those that do one is the first.
LEMMA BestExists ==
  ASSUME NEW e \in Candidates, covered(e) > 0
  PROVE  \E c \in Contents : Best(c)
<1> DEFINE better(c) == {d \in Candidates : covered(d) > covered(c)}
           sets == {better(c) : c \in Candidates}
           R == StrictSubsetOrdering(Contents)
<1>0. Candidates \subseteq Contents /\ \A c \in Candidates : covered(c) \in Nat
  BY CoveredCount DEF Candidates, Involved
<1>1. PICK c \in Candidates : \A d \in Candidates : <<better(d), better(c)>> \notin R
  <2>1. sets \subseteq FiniteSubsetsOf(Contents)
    <3>1. IsFiniteSet(Contents) BY PatchAssumption
    <3>2. \A d \in Candidates : better(d) \subseteq Contents
      BY <1>0
    <3>3. \A d \in Candidates : IsFiniteSet(better(d))
      BY <3>1, <3>2, FS_Subset
    <3> QED BY <3>2, <3>3 DEF FiniteSubsetsOf
  <2>2. sets # {} OBVIOUS
  <2>3. \E x \in sets : \A y \in sets : ~(<<y, x>> \in R)
    <3> HIDE DEF sets, R
    <3>1. IsWellFoundedOn(R, FiniteSubsetsOf(Contents))
      BY FS_StrictSubsetOrderingWellFounded DEF R
    <3> QED BY <2>1, <2>2, <3>1, WFMin
  <2> QED BY <2>3
<1>2. \A d \in Candidates : covered(d) <= covered(c)
  <2> SUFFICES ASSUME NEW d \in Candidates, covered(d) > covered(c) PROVE FALSE
    BY <1>0
  <2>1. better(d) \subseteq better(c) /\ d \in better(c) /\ d \notin better(d)
    BY <1>0
  <2>2. better(c) \subseteq Contents
    BY <1>0
  <2> HIDE DEF better
  <2>3. <<better(d), better(c)>> \in R
    BY <2>1, <2>2 DEF StrictSubsetOrdering
  <2> QED BY <1>1, <2>3
<1> DEFINE T == {d \in Candidates : covered(d) = covered(c)}
<1>3. PICK f \in T : \A d \in T : f <= d
  <2>1. T \subseteq Nat /\ T # {}
    BY <1>0, PatchAssumption
  <2> HIDE DEF T
  <2>2. PICK f \in T : \A y \in T : ~(<<y, f>> \in OpToRel(<, Nat))
    BY <2>1, NatLessThanWellFounded, WFMin
  <2>3. \A y \in T : ~(y < f)
    BY <2>1, <2>2, Zenon DEF OpToRel
  <2>4. \A y \in T : f <= y
    BY <2>1, <2>3
  <2> QED BY <2>4
<1>4. covered(f) = covered(c) /\ covered(f) > 0 /\ f \in Candidates /\ f \in Contents
  BY <1>0, <1>2, <1>3
<1> QED BY <1>2, <1>3, <1>4 DEF Best

\* The IDs that are left are those that no chosen file has.
RInv ==
  /\ pc \in {"choose", "review"} => m_ids = DOMAIN m_items \ IdsIn(Range(chosen))
  /\ ReviewCoversAll

\* A file is chosen: it has an ID that was left.
LEMMA ChooseStep ==
  ASSUME IInv, RInv, NEW c \in Contents, nextContent(c)
  PROVE  RInv'
<1>1. /\ Best(c) /\ m_ids' = m_ids \ Range(IdsOf[c]) /\ chosen' = Append(chosen, c)
      /\ pc = "choose" /\ pc' = "review" /\ UNCHANGED <<tool, m_items>>
  BY DEF nextContent, Goto
<1>2. chosen \in Seq(Contents)
  BY DEF IInv, TInv
<1>3. /\ DOMAIN chosen' = 1..(Len(chosen) + 1) /\ DOMAIN chosen = 1..Len(chosen) /\ Len(chosen) \in Nat
      /\ chosen'[Len(chosen) + 1] = c /\ \A i \in 1..Len(chosen) : chosen'[i] = chosen[i]
  BY <1>1, <1>2
<1>4. Range(chosen') = Range(chosen) \cup {c}
  BY <1>3 DEF Range
<1>5. m_ids' = DOMAIN m_items' \ IdsIn(Range(chosen'))
  BY <1>1, <1>4 DEF RInv, IdsIn
<1>6. Range(IdsOf[c]) \cap m_ids # {}
  BY <1>1, CoveredCount DEF Best
<1>7. ASSUME NEW i \in DOMAIN chosen'
      PROVE  DOMAIN m_items \cap (Range(IdsOf[chosen'[i]]) \ IdsIn({chosen'[j] : j \in 1..(i - 1)})) # {}
  <2>0. i \in 1..Len(chosen) \/ i = Len(chosen) + 1
    BY <1>3
  <2>1. CASE i \in 1..Len(chosen)
    <3>1. {chosen'[j] : j \in 1..(i - 1)} = {chosen[j] : j \in 1..(i - 1)}
      BY <1>3, <2>1
    <3> QED BY <1>3, <2>1, <3>1 DEF RInv, ReviewCoversAll
  <2>2. CASE i = Len(chosen) + 1
    <3>1. {chosen'[j] : j \in 1..(i - 1)} = Range(chosen)
      BY <1>3, <2>2 DEF Range
    <3>2. m_ids = DOMAIN m_items \ IdsIn(Range(chosen))
      BY <1>1 DEF RInv
    <3> QED BY <1>3, <1>6, <2>2, <3>1, <3>2
  <2> QED BY <2>0, <2>1, <2>2
<1> QED BY <1>1, <1>5, <1>7 DEF RInv, ReviewCoversAll

\* Nothing is left to choose: every message that is named is in a chosen file.
LEMMA CoveredStep ==
  ASSUME IInv, RInv, allCovered
  PROVE  RInv'
<1>1. pc = "choose" /\ pc' = "done" /\ UNCHANGED <<tool, m_items, chosen>> /\ \A c \in Contents : ~Best(c)
  BY DEF allCovered, Goto, toolVars
<1>2. ASSUME NEW c \in Contents, NEW id \in Range(IdsOf[c]), id \in DOMAIN m_items
      PROVE  id \in IdsIn(Range(chosen))
  <2>1. CASE c \in Range(chosen)
    BY <2>1 DEF IdsIn
  <2>2. CASE c \notin Range(chosen)
    <3>1. c \in Candidates
      BY <1>2, <2>2 DEF Candidates, Involved
    <3>2. id \notin m_ids
      BY <1>1, <3>1, CoveredCount, BestExists
    <3> QED BY <1>1, <1>2, <3>2 DEF RInv
  <2> QED BY <2>1, <2>2
<1>3. DOMAIN m_items \cap IdsIn(Contents) \subseteq IdsIn(Range(chosen))
  BY <1>2 DEF IdsIn
<1> QED BY <1>1, <1>3 DEF RInv, ReviewCoversAll

\* A review opens only files with something new, and in the end every message was shown.
THEOREM ReviewIsComplete == Spec => []ReviewCoversAll
<1>1. Init => RInv
  BY DEF Init, RInv, ReviewCoversAll
<1>2. IInv /\ IInv' /\ RInv /\ [Next]_vars => RInv'
  <2> SUFFICES ASSUME IInv, IInv', RInv, [Next]_vars PROVE RInv'
    OBVIOUS
  <2>1. ASSUME UNCHANGED <<tool, m_items, m_ids, chosen>>,
               pc' \in {"choose", "review"} => pc \in {"choose", "review"},
               pc' = "done" => pc = "done" \/ tool # "review"
        PROVE  RInv'
    <3>1. pc' \in {"choose", "review"} => m_ids' = DOMAIN m_items' \ IdsIn(Range(chosen'))
      BY <2>1 DEF RInv
    <3>2. tool' = "review" /\ pc' = "done" =>
            DOMAIN m_items' \cap IdsIn(Contents) \subseteq IdsIn(Range(chosen'))
      BY <2>1 DEF RInv, ReviewCoversAll
    <3>3. \A i \in DOMAIN chosen' :
            DOMAIN m_items' \cap (Range(IdsOf[chosen'[i]]) \ IdsIn({chosen'[j] : j \in 1..(i - 1)})) # {}
      <4>1. \A i \in DOMAIN chosen :
              DOMAIN m_items \cap (Range(IdsOf[chosen[i]]) \ IdsIn({chosen[j] : j \in 1..(i - 1)})) # {}
        BY Zenon DEF RInv, ReviewCoversAll
      <4>2. chosen' = chosen /\ m_items' = m_items
        BY <2>1
      <4> QED BY <4>1, <4>2, Zenon
    <3> QED BY <3>1, <3>2, <3>3 DEF RInv, ReviewCoversAll
  <2>2. ASSUME chosen = <<>>, chosen' = <<>>, pc' \notin {"choose", "review", "done"} PROVE RInv'
    BY <2>2 DEF RInv, ReviewCoversAll
  <2>3. CASE involvedByMinIds /\ ~Abort
    <3>1. m_ids' = DOMAIN m_items /\ chosen' = <<>> /\ pc' = "choose" /\ m_items' = m_items
      BY <2>3 DEF involvedByMinIds, Goto, IInv, TInv
    <3>2. IdsIn(Range(<<>>)) = {}
      BY DEF IdsIn, Range
    <3> QED BY <3>1, <3>2 DEF RInv, ReviewCoversAll
  <2>4. CASE \E c \in Contents : nextContent(c) BY <2>4, ChooseStep
  <2>5. CASE allCovered BY <2>5, CoveredStep
  <2>6. CASE applyToContent
    BY <2>6, <2>1 DEF applyToContent, Abort, Goto, toolVars
  <2>7. CASE \E d \in Diffs : loadIddiff(d)
    BY <2>7, <2>2 DEF loadIddiff, Goto, IInv, TInv
  <2>8. CASE minimizeIds
    BY <2>8, <2>2 DEF minimizeIds, Abort, Goto, toolVars, IInv, TInv
  <2>9. CASE insertPoDirOrTemplate \/ getMessagesByIds
    BY <2>9, <2>1 DEF insertPoDirOrTemplate, getMessagesByIds, Abort, Goto, toolVars
  <2>10. CASE applyIddiff \/ applied \/ openFile \/ po_file_write \/ closeFile
    BY <2>10, <2>1 DEF applyIddiff, applied, openFile, po_file_write, closeFile, Abort, Goto, toolVars, IInv, TInv
  <2>11. CASE die \/ Abort
    BY <2>11, <2>1 DEF die, Abort, Goto, toolVars
  <2>12. CASE \E c \in Contents : \E v \in Versions[c] : save(c, v)
    BY <2>12, <2>1 DEF save, toolVars
  <2>13. CASE UNCHANGED vars
    BY <2>13, <2>1 DEF vars, toolVars
  <2> QED BY <2>3, <2>4, <2>5, <2>6, <2>7, <2>8, <2>9, <2>10, <2>11, <2>12, <2>13 DEF Next, ToolStep
<1>3. RInv => ReviewCoversAll
  BY DEF RInv
<1> QED BY <1>1, <1>2, <1>3, AlwaysIInv, PTL DEF Spec
=============================================================================
