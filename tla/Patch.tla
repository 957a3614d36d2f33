------------------------------- MODULE Patch -------------------------------
(***************************************************************************)
(* Applying a set of review decisions to the translations on disk: the     *)
(* tools idpatch (mode "messages" or "comments") and                       *)
(* lokalize-review-iddiff of src/tools/impl, with applyIddiff and          *)
(* applyToContent of iddiff.cpp, the collector of .po files and the        *)
(* reading and writing of TranslationContent.                              *)
(*                                                                         *)
(* One run of a tool works while a translator saves files.  A file is read *)
(* anew for every question that is asked about it, by writeToFile too, and *)
(* a translation that does not exist is its template under the name of the *)
(* .po file.  Texts are atoms; a comment is a set of lines; the files      *)
(* keep the messages of their template, so that the IDs the server answers *)
(* for the template name them.  po_file_write opens the file that it       *)
(* replaces, which empties it; a run that is killed, or finds the disk     *)
(* full, before the last byte is written leaves a file that no parser      *)
(* accepts or whose hash the server does not know, and nothing else is     *)
(* told of what is in it.  An editor is taken to save by renaming (it is   *)
(* not part of the repository), so that a save never mixes with a write.   *)
(* Of an .iddiff the decisions that can be loaded are kept (module Iddiff  *)
(* says which); the files that the review hands to Lokalize are copies of  *)
(* what is read, and are left out.                                         *)
(***************************************************************************)
EXTENDS Integers, FiniteSetsExt, SequencesExt

CONSTANTS
  Contents,   \* the files of the collector, by their place in m_contents
  IdsOf,      \* IdsOf[c]: the minimized IDs of the messages of c
  MinId,      \* MinId[i]: what the server answers for i to GET_MIN_IDS
  Texts,      \* what a msgstr or a line of a comment can be
  Blank,      \* the empty msgstr
  Forms,      \* Forms[t]: the number of plural forms that t has
  Diffs,      \* the contents of an .iddiff, by the IDs it was made with
  Versions,   \* Versions[c]: what a translator may save as c
  MaxSaves    \* the saves of translators in a run

NoEntry == [text |-> Blank, fuzzy |-> FALSE]
NoFile == <<>>

\* What is left of a file whose writing was cut off: at best its header, none of its messages.
CutFile == [k \in {0} |-> [text |-> Blank, fuzzy |-> FALSE, comments |-> {}]]
Entry == [text : Texts, fuzzy : BOOLEAN] \cup {NoEntry}
Item == [added : Entry, removed : SUBSET Texts]
PoMessage == [text : Texts \cup {Blank}, fuzzy : BOOLEAN, comments : SUBSET Texts]

ASSUME PatchAssumption ==
  /\ IsFiniteSet(Contents) /\ Contents \subseteq Nat
  /\ Blank \notin Texts
  /\ MinId \in [DOMAIN MinId -> DOMAIN MinId]
  /\ \A i \in DOMAIN MinId : MinId[MinId[i]] = MinId[i]
  /\ \A c \in Contents : IdsOf[c] \in Seq(Range(MinId)) /\ IdsOf[c] # <<>>
  /\ \A d \in Diffs : DOMAIN d \subseteq DOMAIN MinId /\ Range(d) \subseteq Item
  /\ \A c \in Contents : Versions[c] \subseteq [DOMAIN IdsOf[c] -> PoMessage] \cup {NoFile}
  /\ MaxSaves \in Nat

VARIABLES
  tool,        \* "messages" or "comments" (idpatch), or "review"
  pc,          \* what the run does next
  m_items,     \* the Iddiff object: the change of each ID
  source,      \* source[c]: the file that was found for c, "po" or "template"
  messages,    \* the MessageGroups that getMessagesByIds read, none for other contents
  todo,        \* the IDs that are left to apply, then the contents that are left to write
  opened,      \* writeToFile: the file as it was opened, then as it is to be
  m_ids,       \* GreedyIddiffCoverage: the IDs that are not covered yet
  chosen,      \* the contents that nextContent returned
  disk,        \* the .po files
  saved,       \* history: what the translator saved last, before or during the run
  late,        \* history: files saved when the run could not see it any more
  saves        \* counts the saves

toolVars == <<m_items, source, messages, todo, opened, m_ids, chosen>>
diskVars == <<disk, saved, late, saves>>
vars == <<tool, pc, toolVars, diskVars>>
-----------------------------------------------------------------------------
\* Mutant: the header of the file is taken for a message.
TemplateWithHeader(c) ==
  [k \in 0..Len(IdsOf[c]) |-> [text |-> Blank, fuzzy |-> FALSE, comments |-> {}]]

\* The template that belongs to c: nothing is translated.
Template(c) == [k \in DOMAIN IdsOf[c] |-> [text |-> Blank, fuzzy |-> FALSE, comments |-> {}]]

poFileRead(c) == IF source[c] = "po" THEN disk[c] ELSE Template(c)

\* A Message: what the file says, whether it was untranslated, and whether it was edited.
\* The parser ends every line of a comment, the last one too.
Message(p) ==
  [text |-> p.text, fuzzy |-> p.fuzzy, comments |-> p.comments, newline |-> p.comments # {},
   untranslated |-> p.text = Blank, edited |-> FALSE]

readMessages(c) == [k \in DOMAIN IdsOf[c] |-> Message(poFileRead(c)[k])]

editMsgstr(m, t) == IF m.text = t THEN m ELSE [m EXCEPT !.text = t, !.edited = TRUE]
editFuzzy(m, f) == IF m.fuzzy = f THEN m ELSE [m EXCEPT !.fuzzy = f, !.edited = TRUE]
\* s is what join_strings returns: no newline at its end, so that a comment that was read
\* from a file is edited even when no line of it changes.
editMsgcomments(m, s) ==
  IF m.comments = s /\ ~m.newline THEN m
  ELSE [m EXCEPT !.comments = s, !.newline = FALSE, !.edited = TRUE]
-----------------------------------------------------------------------------
Added(id) == m_items[id].added
HasAdded(id) == Added(id) # NoEntry

\* Mutant: the translations that the decisions REMOVE are not looked at.
CanDropUnreviewed(m, id) == m.fuzzy \/ m.untranslated \/ HasAdded(id)

\* Whether the translation of m may give way, and when the patch does not apply.
canDropMessage(m, id) == m.fuzzy \/ m.untranslated \/ m.text \in m_items[id].removed

\* The assertions of applyToMessage: another number of plural forms, or a conflict with
\* a translation that is not REMOVED.
Rejects(m, id) ==
  /\ HasAdded(id)
  /\ IF canDropMessage(m, id)
       THEN Forms[Added(id).text] # Forms[m.text]
       ELSE Added(id) # [text |-> m.text, fuzzy |-> m.fuzzy]

\* Mutant: the new text stays fuzzy.
ApplyFuzzy(m, id) ==
  IF ~canDropMessage(m, id) THEN m
  ELSE IF HasAdded(id) THEN editMsgstr(m, Added(id).text)
  ELSE editFuzzy(m, TRUE)

applyToMessage(m, id) ==
  IF ~canDropMessage(m, id) THEN m
  ELSE IF HasAdded(id) THEN editFuzzy(editMsgstr(m, Added(id).text), FALSE)
  ELSE editFuzzy(m, TRUE)

\* set_of_lines, less what is REMOVED, plus what is ADDED
applyToMessageComments(m, id) ==
  LET added == IF HasAdded(id) THEN {Added(id).text} ELSE {}
  IN  editMsgcomments(m, (m.comments \ m_items[id].removed) \cup added)

Apply(m, id) ==
  IF tool = "comments" THEN applyToMessageComments(m, id) ELSE applyToMessage(m, id)

\* The assertion of findRemovedSingle, or those of applyToMessage
Fails(m, id) ==
  IF tool = "comments" THEN Cardinality(m_items[id].removed) > 1 ELSE Rejects(m, id)
-----------------------------------------------------------------------------
Init ==
  /\ tool \in {"messages", "comments", "review"}
  /\ pc = IF tool = "review" THEN "collect" ELSE "load"
  /\ m_items = <<>>
  /\ source = [c \in Contents |-> "po"]
  /\ messages = [c \in Contents |-> <<>>]
  /\ todo = {}
  /\ opened = <<>>
  /\ m_ids = {}
  /\ chosen = <<>>
  /\ saved \in {d \in [Contents -> UNION Range(Versions)] : \A c \in Contents : d[c] \in Versions[c]}
  /\ disk \in {saved} \cup {[saved EXCEPT ![c] = CutFile] : c \in Contents}
  /\ late = {}
  /\ saves = 0

Goto(where) == pc' = where /\ UNCHANGED <<tool, diskVars>>

\* A failed assertion, a null pointer or an exception
Abort == Goto("dead") /\ UNCHANGED toolVars

\* idpatch opens the file that is called like its mode (argv[1]): any decisions can be in it.
loadIddiff(d) ==
  /\ pc = "load"
  /\ m_items' = d
  /\ Goto("minimize")
  /\ UNCHANGED <<source, messages, todo, opened, m_ids, chosen>>

\* substituteMsgId for every ID in increasing order: two that are the same message collide.
minimizeIds ==
  /\ pc = "minimize"
  /\ IF \E i, j \in DOMAIN m_items : i # j /\ MinId[i] = MinId[j]
       THEN Abort
       ELSE /\ m_items' = [n \in {MinId[i] : i \in DOMAIN m_items} |->
                             m_items[CHOOSE i \in DOMAIN m_items : MinId[i] = n]]
            /\ Goto(IF tool = "review" THEN "involve" ELSE "collect")
            /\ UNCHANGED <<source, messages, todo, opened, m_ids, chosen>>

insertPoOrTemplate(c) == IF disk[c] # NoFile THEN "po" ELSE "template"

insertPoDirOrTemplate ==
  /\ pc = "collect"
  /\ source' = [c \in Contents |-> insertPoOrTemplate(c)]
  /\ Goto(IF tool = "review" THEN "load" ELSE "read")
  /\ UNCHANGED <<m_items, messages, todo, opened, m_ids, chosen>>

\* The parser throws, or the server does not know the hash of what is left of the file.
CannotRead == \E c \in Contents : source[c] = "po" /\ disk[c] = CutFile

\* The server's answer: the contents with a message that the decisions name.
Involved == {c \in Contents : Range(IdsOf[c]) \cap DOMAIN m_items # {}}

\* Both lists are gone through in increasing order.
Current(x) == x \in todo /\ \A y \in todo : x <= y

\* The hashes of all files are sent to the server, then those with a message are read.
getMessagesByIds ==
  /\ pc = "read"
  /\ IF CannotRead THEN Abort
     ELSE /\ messages' = [c \in Contents |-> IF c \in Involved THEN readMessages(c) ELSE <<>>]
          /\ todo' = DOMAIN m_items
          /\ Goto("apply")
          /\ UNCHANGED <<m_items, source, opened, m_ids, chosen>>
-----------------------------------------------------------------------------
\* Where message id is: the groups that getMessagesByIds found
Found(id) ==
  {at \in Contents \X UNION {DOMAIN messages[c] : c \in Contents} :
     at[2] \in DOMAIN messages[at[1]] /\ IdsOf[at[1]][at[2]] = id}

\* Mutant: a conflict is passed over.
SkipConflicts ==
  /\ pc = "apply"
  /\ \E id \in todo :
       /\ Current(id)
       /\ messages' = [c \in Contents |->
             [k \in DOMAIN messages[c] |->
                IF IdsOf[c][k] = id /\ ~Fails(messages[c][k], id)
                  THEN Apply(messages[c][k], id) ELSE messages[c][k]]]
       /\ todo' = todo \ {id}
  /\ Goto("apply")
  /\ UNCHANGED <<m_items, source, opened, m_ids, chosen>>

\* applyIddiff, one ID: to every copy of the message, or none of it is written.
applyIddiff ==
  /\ pc = "apply"
  /\ \E id \in todo :
       /\ Current(id)
       /\ IF \/ \E at \in Found(id) : Fails(messages[at[1]][at[2]], id)
             \/ Found(id) = {} /\ ~HasAdded(id)   \* the message of a null pointer is printed
           THEN Abort
           ELSE /\ messages' = [c \in Contents |->
                     [k \in DOMAIN messages[c] |->
                        IF IdsOf[c][k] = id THEN Apply(messages[c][k], id) ELSE messages[c][k]]]
                /\ todo' = todo \ {id}
                /\ Goto("apply")
                /\ UNCHANGED <<m_items, source, opened, m_ids, chosen>>

applied ==
  /\ pc = "apply"
  /\ todo = {}
  /\ todo' = Involved
  /\ Goto(IF Involved = {} THEN "done" ELSE "write")
  /\ UNCHANGED <<m_items, source, messages, opened, m_ids, chosen>>

\* writeToFile, up to the parsing of the file
openFile ==
  /\ pc = "write"
  /\ \E c \in todo : Current(c) /\ opened' = poFileRead(c)
  /\ Goto("opened")
  /\ UNCHANGED <<m_items, source, messages, todo, m_ids, chosen>>

\* Mutant: the messages that were read before are written, whether edited or not.
WrittenFromMemory(c) ==
  [k \in DOMAIN opened |->
     [text |-> messages[c][k].text, fuzzy |-> messages[c][k].fuzzy,
      comments |-> messages[c][k].comments]]

\* The opened file with the messages that were edited, of those that readMessages
\* reads at this moment.
Written(c) ==
  LET read == readMessages(c)
  IN  [k \in DOMAIN opened |->
         IF read[k].edited
           THEN [text |-> read[k].text, fuzzy |-> read[k].fuzzy, comments |-> read[k].comments]
           ELSE opened[k]]

\* The rest of writeToFile: the write is forced, and opening the file empties it.
po_file_write ==
  /\ pc = "opened"
  /\ \E c \in todo :
       /\ Current(c)
       /\ opened' = Written(c)
       /\ disk' = [disk EXCEPT ![c] = CutFile]
  /\ pc' = "writing"
  /\ UNCHANGED <<tool, m_items, source, messages, todo, m_ids, chosen, saved, late, saves>>

\* The last byte is written: to nobody's file if an editor replaced it in the meantime.
closeFile ==
  /\ pc = "writing"
  /\ \E c \in todo :
       /\ Current(c)
       /\ disk' = IF disk[c] = CutFile THEN [disk EXCEPT ![c] = opened] ELSE disk
       /\ todo' = todo \ {c}
       /\ pc' = IF todo = {c} THEN "done" ELSE "write"
  /\ opened' = <<>>
  /\ UNCHANGED <<tool, m_items, source, messages, m_ids, chosen, saved, late, saves>>
-----------------------------------------------------------------------------
\* The constructor of GreedyIddiffCoverage
involvedByMinIds ==
  /\ pc = "involve"
  /\ IF CannotRead THEN Abort
     ELSE /\ m_ids' = DOMAIN m_items
          /\ Goto("choose")
          /\ UNCHANGED <<m_items, source, messages, todo, opened, chosen>>

Candidates == Involved \ Range(chosen)
covered(c) == Cardinality({k \in DOMAIN IdsOf[c] : IdsOf[c][k] \in m_ids})

\* Mutant: a content that covers nothing new may be returned.
BestOrNone(c) ==
  /\ c \in Candidates
  /\ \A e \in Candidates : covered(e) <= covered(c) /\ (covered(e) = covered(c) => c <= e)

\* The first content of those that cover most.
Best(c) ==
  /\ c \in Candidates
  /\ covered(c) > 0
  /\ \A e \in Candidates : covered(e) <= covered(c) /\ (covered(e) = covered(c) => c <= e)

nextContent(c) ==
  /\ pc = "choose"
  /\ Best(c)
  /\ m_ids' = m_ids \ Range(IdsOf[c])
  /\ chosen' = Append(chosen, c)
  /\ Goto("review")
  /\ UNCHANGED <<m_items, source, messages, todo, opened>>

allCovered ==
  /\ pc = "choose"
  /\ \A c \in Contents : ~Best(c)
  /\ Goto("done")
  /\ UNCHANGED toolVars

\* The edits are made to messages that nobody keeps; what can happen is a conflict.
applyToContent ==
  /\ pc = "review"
  /\ LET c == Last(chosen)
     IN  IF \E k \in DOMAIN IdsOf[c] :
              IdsOf[c][k] \in DOMAIN m_items /\ Rejects(readMessages(c)[k], IdsOf[c][k])
           THEN Abort
           ELSE Goto("choose") /\ UNCHANGED toolVars
-----------------------------------------------------------------------------
Running == pc \notin {"done", "dead"}

\* The run is killed, the disk is full, or the server does not answer: the exception ends the tool.
die ==
  /\ Running
  /\ Abort

\* The run has yet to empty and write c, and cannot see what is saved as c from here on:
\* it takes the template, or it has parsed the file.
Unseen(c) ==
  /\ Running
  /\ tool # "review"
  /\ c \in Involved
  /\ \/ /\ source[c] = "template"
        /\ pc \in {"write", "opened", "writing"} => c \in todo
        /\ ~(pc = "writing" /\ Current(c))
     \/ pc = "opened" /\ Current(c)

\* A translator saves a file.
save(c, v) ==
  /\ saves < MaxSaves
  /\ v # NoFile
  /\ disk' = [disk EXCEPT ![c] = v]
  /\ saved' = [saved EXCEPT ![c] = v]
  /\ late' = IF Unseen(c) THEN late \cup {c} ELSE late \ {c}
  /\ saves' = saves + 1
  /\ UNCHANGED <<tool, pc, toolVars>>

ToolStep ==
  \/ \E d \in Diffs : loadIddiff(d)
  \/ minimizeIds
  \/ insertPoDirOrTemplate
  \/ getMessagesByIds
  \/ applyIddiff
  \/ applied
  \/ openFile
  \/ po_file_write
  \/ closeFile
  \/ involvedByMinIds
  \/ \E c \in Contents : nextContent(c)
  \/ allCovered
  \/ applyToContent

Next ==
  \/ ToolStep
  \/ die
  \/ \E c \in Contents : \E v \in Versions[c] : save(c, v)

Spec == Init /\ [][Next]_vars
-----------------------------------------------------------------------------
Read == [text : Texts \cup {Blank}, fuzzy : BOOLEAN, comments : SUBSET Texts, newline : BOOLEAN,
         untranslated : BOOLEAN, edited : BOOLEAN]

\* Every variable has its type.
TypeOK ==
  /\ tool \in {"messages", "comments", "review"}
  /\ pc \in {"load", "minimize", "collect", "read", "apply", "write", "opened", "writing",
             "involve", "choose", "review", "done", "dead"}
  /\ DOMAIN m_items \subseteq DOMAIN MinId /\ Range(m_items) \subseteq Item
  /\ source \in [Contents -> {"po", "template"}]
  /\ \A c \in Contents : messages[c] \in {<<>>} \cup [DOMAIN IdsOf[c] -> Read]
  /\ todo \subseteq Contents \cup DOMAIN m_items
  /\ opened = <<>> \/ \E c \in Contents : opened \in [DOMAIN IdsOf[c] -> PoMessage]
  /\ m_ids \subseteq DOMAIN m_items
  /\ Range(chosen) \subseteq Contents
  /\ \A c \in Contents :
       /\ saved[c] \in [DOMAIN IdsOf[c] -> PoMessage] \cup {NoFile}
       /\ disk[c] \in [DOMAIN IdsOf[c] -> PoMessage] \cup {NoFile, CutFile}
  /\ late \subseteq Contents
  /\ saves \in 0..MaxSaves

\* From p to q, message id keeps its translation, unless the decisions REMOVE it, and the
\* lines of its comment that they do not REMOVE.
Keeps(p, q, id) ==
  LET removed == IF id \in DOMAIN m_items THEN m_items[id].removed ELSE {}
  IN  /\ p.text # Blank /\ ~p.fuzzy /\ p.text \notin removed => q.text = p.text /\ ~q.fuzzy
      /\ p.comments \ removed \subseteq q.comments

\* The files of which only a part is on disk.
Cut == {c \in Contents : disk[c] = CutFile}

\* What a translator saved last is in the file, but for what the decisions REMOVE.
FileKeeps(c) == \A k \in DOMAIN saved[c] : Keeps(saved[c][k], disk[c][k], IdsOf[c][k])

FilesKept ==
  /\ \A c \in Contents \ (late \cup Cut) : FileKeeps(c)
  /\ \A c, d \in Cut : c = d
  /\ pc \in {"apply", "write", "opened"} \/ (pc = "done" /\ tool # "review") => Cut = {}

EditsKeep ==
  pc = "apply" =>
    \A c \in Contents : \A k \in DOMAIN messages[c] :
      Keeps(messages[c][k], messages'[c][k], IdsOf[c][k])

\* Nobody's work is lost: no step of applyIddiff takes away what a translator wrote and no
\* decision REMOVEs, and after every step each file still has what its translator saved
\* last, however many runs wrote it by force.  There are two exceptions.  A file that was
\* saved when the run could not see it any more (after writeToFile parsed it, or when it
\* did not exist as the collector looked) may be overwritten.  And a run that dies while it
\* writes leaves the file cut, and the translations in it are gone: but only that one file,
\* since no later run writes anything before the cut file is replaced, and a run that
\* goes on or finishes leaves none.
NothingLost == [][EditsKeep /\ FilesKept']_vars

\* Message m is as the decisions on id want it: it has what they ADD and is not fuzzy, or,
\* when they only REMOVE what it has, it is fuzzy; of a comment no line is left that they
\* REMOVE.
Decided(m, id) ==
  IF tool = "comments"
    THEN /\ HasAdded(id) => Added(id).text \in m.comments
         /\ \A line \in m.comments \cap m_items[id].removed : HasAdded(id) /\ line = Added(id).text
    ELSE IF HasAdded(id) THEN m.text = Added(id).text /\ ~m.fuzzy
         ELSE m.text \in m_items[id].removed => m.fuzzy

\* All decisions or none: no file is opened for writing unless every decision could be
\* applied, to every copy of its message in every file.  One conflict, in one copy of one
\* message, or one message to REMOVE that no file has, ends the run before any file
\* is written.
AllOrNothing ==
  pc \in {"write", "opened", "writing"} \/ (pc = "done" /\ tool # "review") =>
    \A id \in DOMAIN m_items :
      /\ HasAdded(id) \/ Found(id) # {}
      /\ \A at \in Found(id) : Decided(messages[at[1]][at[2]], id)

\* When idpatch has finished and nobody saved in between, every copy of a message that a
\* file has is on disk as the decisions want it: the changes are written to the files
\* (iddiff.cpp:868).  They are not: writeToFile parses the file again for every message,
\* and no edited one is among those.
ChangesAreWritten ==
  pc = "done" /\ tool = "messages" /\ saves = 0 =>
    \A id \in DOMAIN m_items : \A at \in Found(id) :
      HasAdded(id) => disk[at[1]][at[2]].text = Added(id).text

IdsIn(S) == UNION {Range(IdsOf[c]) : c \in S}

\* GreedyIddiffCoverage: a file that is opened for review shows a message that none before
\* it showed, so that no two files of one blob share a directory, and in the end every
\* message that the decisions name and a file has was shown.
ReviewCoversAll ==
  /\ \A i \in DOMAIN chosen :
       DOMAIN m_items \cap (Range(IdsOf[chosen[i]]) \ IdsIn({chosen[j] : j \in 1..(i - 1)})) # {}
  /\ tool = "review" /\ pc = "done" =>
       DOMAIN m_items \cap IdsIn(Contents) \subseteq IdsIn(Range(chosen))
=============================================================================
