-------------------------- MODULE TransitionUpdate --------------------------
(***************************************************************************)
(* The transition detector at work (update-database.rb): pairs of template *)
(* versions that follow each other are filtered through the file of pairs  *)
(* that were processed, the IDs of their equal messages are collapsed, the *)
(* pair is recorded, and at last the table of IDs is normalized. The       *)
(* script may be killed anywhere; the file is a sequence of 20-byte hashes *)
(* and may be cut within a record of two.                                  *)
(***************************************************************************)
EXTENDS Integers, Sequences, FiniteSets, SequencesExt

CONSTANTS
  Oids,       \* blobs of templates, in the order of their hashes
  TpHash,     \* TpHash[o], or nil: what the table TphashPotsha says
  nil,
  First,      \* first ID of each template-part hash, 0 when first_ids.txt lacks it
  Messages,   \* the messages of each blob, by the rank of their msgid
  FirstRow,   \* smallest row that may be written (100 in the code)
  LastId,
  Detected,   \* Detected[k]: the pairs that detectTransitions returns after k commits
              \* (with the smaller hash first, as CommitHistory has them)
  MaxKills, MaxCuts   \* bounds on the faults

(* A template with IDs: they are the numbers from First on, one for each message. *)
Numbered(o) == TpHash[o] # nil /\ First[TpHash[o]] # 0
Place(o, i) == First[TpHash[o]] + i - 1

ASSUME UpdateAssumption ==
  /\ Oids \subseteq Nat
  /\ Messages \in [Oids -> Seq(Nat)]
  /\ FirstRow \in Nat \ {0} /\ LastId \in Nat /\ FirstRow <= LastId + 1
  /\ First \in [{TpHash[o] : o \in Oids} \ {nil} -> Nat]
  /\ \A o \in Oids : TpHash[o] # nil => Place(o, Len(Messages[o])) <= LastId
  \* A hash stands for the messages; an ID is given once, to a message of one hash (IdAllocation).
  /\ \A o, u \in Oids : TpHash[o] = TpHash[u] /\ TpHash[o] # nil => Messages[o] = Messages[u]
  /\ \A o \in Oids : Numbered(o) => First[TpHash[o]] >= FirstRow
  /\ \A o, u \in Oids : Numbered(o) /\ Numbered(u) /\ TpHash[o] # TpHash[u] =>
       \A i \in 1 .. Len(Messages[o]), j \in 1 .. Len(Messages[u]) : Place(o, i) # Place(u, j)
  /\ 0 \in DOMAIN Detected
  /\ \A k \in DOMAIN Detected : Detected[k] \subseteq {p \in Oids \X Oids : p[1] < p[2]}
  /\ MaxKills \in Nat /\ MaxCuts \in Nat

AllIds == 0 .. LastId

VARIABLES
  row,       \* row[i]: the ID that i is collapsed with, 0 for none
  file,      \* the hashes in processed-sha1-pairs.dat
  fileExists,
  commits,   \* how many commits the repositories have
  pc,        \* "off", "detect", "loop", "dump", "append", "normalize"
  pairs,     \* the pairs that are left, a sorted list: the smallest is next
  ids,       \* the pairs of IDs of the current pair that are left
  scan,      \* the row that is normalized next
  abort,     \* the assertion or exception that ended the last script, if any
  kills, cuts,
  dumped     \* history: the pairs that were collapsed to the end

vars == <<row, file, fileExists, commits, pc, pairs, ids, scan, abort, kills, cuts, dumped>>

(* Mutant of Smaller: the larger of the two IDs becomes the representative. *)
Larger(a, b) == IF a < b THEN b ELSE a

Smaller(a, b) == IF a < b THEN a ELSE b

(* getRecursiveMinId; the rows lead down. *)
MinIdIn(r) ==
  LET min[i \in AllIds] == IF r[i] = 0 \/ r[i] >= i THEN i ELSE min[r[i]]
  IN  min

(* Mutant of AddRow: only the row of the first ID is written. *)
AddFirstRow(r, a, b) ==
  LET min == Smaller(MinIdIn(r)[a], MinIdIn(r)[b])
  IN  [r EXCEPT ![a] = IF a # min THEN min ELSE @]

(* addRow, as IdMapDb has it step by step. *)
AddRow(r, a, b) ==
  LET min == Smaller(MinIdIn(r)[a], MinIdIn(r)[b])
  IN  [r EXCEPT ![a] = IF a # min THEN min ELSE @, ![b] = IF b # min THEN min ELSE @]

(* Its assertions: the IDs differ, and no row below FirstRow is written. *)
AddRowAsserts(r, a, b) ==
  LET min == Smaller(MinIdIn(r)[a], MinIdIn(r)[b])
  IN  a # b /\ (a # min => a >= FirstRow) /\ (b # min => b >= FirstRow)

(* FiledbFirstIds::getFirstId, of which the script takes the first component. *)
get_pot_first_id(h) == First[h]

(* The position of a message in a blob. *)
IndexOf(o, m) == CHOOSE i \in 1 .. Len(Messages[o]) : Messages[o][i] = m
Texts(o) == {Messages[o][i] : i \in 1 .. Len(Messages[o])}

(* The elements of a finite set of numbers, the smallest first. *)
Ascending(T) ==
  CHOOSE s \in [1 .. Cardinality(T) -> T] : \A j, k \in 1 .. Cardinality(T) : j < k => s[j] < s[k]

(* Mutant of EqualMessages: the header of the second file counts as a message. *)
EqualMessagesWithHeader(a, b) ==
  LET common == Ascending(Texts(a) \cap Texts(b))
  IN  [k \in DOMAIN common |->
        <<get_pot_first_id(TpHash[a]) + IndexOf(a, common[k]) - 1, get_pot_first_id(TpHash[b]) + IndexOf(b, common[k])>>]

(* list_equal_messages_ids: the IDs of the messages that both files have, in the order of msgids. *)
EqualMessages(a, b) ==
  LET id(o, m) == get_pot_first_id(TpHash[o]) + IndexOf(o, m) - 1
      common   == Ascending(Texts(a) \cap Texts(b))
  IN  [k \in DOMAIN common |-> <<id(a, common[k]), id(b, common[k])>>]

(* Mutant of Record: the two hashes are read in the wrong order. *)
RecordSwapped(f, k) == <<f[2 * k], f[2 * k - 1]>>

(* The records of the file: a hash that has no partner at the end is not read. *)
Record(f, k) == <<f[2 * k - 1], f[2 * k]>>
Records(f) == {Record(f, k) : k \in 1 .. Len(f) \div 2}

(* GitOidPair::operator< asserts that the hashes of a record are in order. It sees every record *)
(* that is inserted into a set with elements, the first one only as it happens.                 *)
InOrder(p) == p[1] < p[2]
MustAssert(f) == \E k \in 2 .. Len(f) \div 2 : ~InOrder(Record(f, k))
MayAssert(f) == Len(f) >= 2 /\ ~InOrder(Record(f, 1))

(* The order of sort() in detectTransitions, and the pair that the script is at. *)
PairLess(p, q) == p[1] < q[1] \/ (p[1] = q[1] /\ p[2] < q[2])
Current(p) == p \in pairs /\ \A q \in pairs \ {p} : PairLess(p, q)

(* Mutant of Filtered: the run goes on behind the last pair that was recorded. *)
FilteredFromLast(f, found) ==
  LET n == Len(f) \div 2
  IN  {p \in found : n = 0 \/ PairLess(Record(f, n), p)}

(* filterProcessedTransitions: the set difference of two sorted lists. *)
Filtered(f, found) == found \ Records(f)

Unchanged == UNCHANGED <<fileExists, commits, kills, cuts>>

Init ==
  /\ row = [i \in AllIds |-> 0]
  /\ file = <<>> /\ fileExists = FALSE
  /\ commits = 0
  /\ pc = "off" /\ pairs = {} /\ ids = <<>> /\ scan = 0 /\ abort = "none"
  /\ kills = 0 /\ cuts = 0
  /\ dumped = {}

start ==
  /\ pc = "off"
  /\ pc' = "detect" /\ abort' = "none"
  /\ UNCHANGED <<row, file, pairs, ids, scan, dumped>> /\ Unchanged

(* The script ends: by itself, by a failed assertion, or by a signal. *)
End(why) ==
  /\ pc' = "off" /\ abort' = why
  /\ pairs' = {} /\ ids' = <<>> /\ scan' = 0

(* detect_transitions_inc: filterProcessedTransitions throws when there is no file. *)
noFile ==
  /\ pc = "detect" /\ ~fileExists
  /\ End("noFile")
  /\ UNCHANGED <<row, file, dumped>> /\ Unchanged

detect_transitions_inc ==
  /\ pc = "detect" /\ fileExists
  /\ ~MustAssert(file)
  /\ pc' = "loop"
  /\ pairs' = Filtered(file, Detected[commits])
  /\ UNCHANGED <<row, file, ids, scan, abort, dumped>> /\ Unchanged

orderAssertFails ==
  /\ pc = "detect" /\ fileExists
  /\ MustAssert(file) \/ MayAssert(file)
  /\ End("order")
  /\ UNCHANGED <<row, file, dumped>> /\ Unchanged

(* The pairs that the loop of the script passes over. *)
Skipped(p) == TpHash[p[1]] = TpHash[p[2]] \/ TpHash[p[1]] = nil \/ TpHash[p[2]] = nil

skipPair ==
  /\ pc = "loop"
  /\ \E p \in pairs : Current(p) /\ Skipped(p) /\ pairs' = pairs \ {p}
  /\ UNCHANGED <<row, file, pc, ids, scan, abort, dumped>> /\ Unchanged

dump_equal_messages ==
  /\ pc = "loop"
  /\ \E p \in pairs : Current(p) /\ ~Skipped(p) /\ ids' = EqualMessages(p[1], p[2])
  /\ pc' = "dump"
  /\ UNCHANGED <<row, file, pairs, scan, abort, dumped>> /\ Unchanged

addRow ==
  /\ pc = "dump" /\ ids # <<>>
  /\ LET a == Head(ids)[1]
         b == Head(ids)[2]
     IN  IF AddRowAsserts(row, a, b)
         THEN row' = AddRow(row, a, b) /\ ids' = Tail(ids) /\ UNCHANGED <<pc, pairs, scan, abort>>
         ELSE End("addRow") /\ UNCHANGED row
  /\ UNCHANGED <<file, dumped>> /\ Unchanged

dumpEnds ==
  /\ pc = "dump" /\ ids = <<>>
  /\ pc' = "append"
  /\ \E p \in pairs : Current(p) /\ dumped' = dumped \cup {p}
  /\ UNCHANGED <<row, file, pairs, ids, scan, abort>> /\ Unchanged

(* Mutant of append_processed_pairs: all the pairs of the run are recorded with the first. *)
appendAllPairs ==
  /\ pc = "append"
  /\ pc' = "loop"
  /\ \E p \in pairs : Current(p) /\ pairs' = pairs \ {p}
  /\ file' = file \o FlattenSeq(SetToSortSeq(pairs, PairLess))
  /\ UNCHANGED <<row, ids, scan, abort, dumped, cuts, fileExists, commits, kills>>

(* The buffer is written when the file is closed, and nobody looks at the result. *)
append_processed_pairs ==
  /\ pc = "append"
  /\ pc' = "loop"
  /\ \E p \in pairs, n \in IF cuts < MaxCuts THEN 0 .. 2 ELSE {2} :
       /\ Current(p)
       /\ pairs' = pairs \ {p}
       /\ file' = file \o SubSeq(p, 1, n)
       /\ cuts' = IF n < 2 THEN cuts + 1 ELSE cuts
  /\ UNCHANGED <<row, ids, scan, abort, dumped, fileExists, commits, kills>>

normalize_database ==
  /\ pc = "loop" /\ pairs = {}
  /\ pc' = "normalize" /\ scan' = FirstRow
  /\ UNCHANGED <<row, file, pairs, ids, abort, dumped>> /\ Unchanged

normalizeRow ==
  /\ pc = "normalize" /\ scan <= LastId
  /\ row' = [row EXCEPT ![scan] = IF @ # 0 THEN MinIdIn(row)[scan] ELSE 0]
  /\ scan' = scan + 1
  /\ UNCHANGED <<file, pc, pairs, ids, abort, dumped>> /\ Unchanged

finish ==
  /\ pc = "normalize" /\ scan > LastId
  /\ End("none")
  /\ UNCHANGED <<row, file, dumped>> /\ Unchanged

kill ==
  /\ pc # "off" /\ kills < MaxKills
  /\ kills' = kills + 1
  /\ End("killed")
  /\ UNCHANGED <<row, file, fileExists, commits, cuts, dumped>>

(* Somebody makes the file that the first run asks for. *)
touch ==
  /\ ~fileExists /\ fileExists' = TRUE
  /\ UNCHANGED <<row, file, commits, pc, pairs, ids, scan, abort, kills, cuts, dumped>>

(* The repositories of templates go on. *)
commit ==
  /\ commits + 1 \in DOMAIN Detected /\ commits' = commits + 1
  /\ UNCHANGED <<row, file, fileExists, pc, pairs, ids, scan, abort, kills, cuts, dumped>>

ScriptStep ==
  \/ noFile \/ detect_transitions_inc \/ orderAssertFails
  \/ skipPair \/ dump_equal_messages \/ addRow \/ dumpEnds \/ append_processed_pairs
  \/ normalize_database \/ normalizeRow \/ finish

Next == start \/ ScriptStep \/ kill \/ touch \/ commit

Spec == Init /\ [][Next]_vars

(* The script is run again and again (by hand, or by cron), the file is made, commits arrive. *)
FairSpec == Spec /\ WF_vars(start) /\ WF_vars(ScriptStep) /\ WF_vars(touch)

---------------------------------------------------------------------------

(* All variables stay in their types; rows lead down, and only a running script has work left. *)
TypeOK ==
  /\ row \in [AllIds -> AllIds] /\ \A i \in AllIds : row[i] < i \/ row[i] = 0
  /\ file \in Seq(Oids) /\ fileExists \in BOOLEAN
  /\ pc \in {"off", "detect", "loop", "dump", "append", "normalize"}
  /\ pairs \in SUBSET (Oids \X Oids) /\ ids \in Seq(AllIds \X AllIds)
  /\ scan \in 0 .. LastId + 1
  /\ abort \in {"none", "noFile", "order", "addRow", "killed"}
  /\ kills \in 0 .. MaxKills /\ cuts \in 0 .. MaxCuts
  /\ dumped \in SUBSET (Oids \X Oids)
  /\ pc \in {"off", "detect"} => pairs = {}
  /\ pc \in {"dump", "append"} => pairs # {}
  /\ pc # "dump" => ids = <<>>

(* The text of the message that an ID was given to. *)
HasText(i, m) == \E o \in Oids : Numbered(o) /\ m \in Texts(o) /\ i = Place(o, IndexOf(o, m))
SameText(i, j) == \A m \in UNION {Texts(o) : o \in Oids} : HasText(i, m) <=> HasText(j, m)

(* The messages of a template without a first ID are taken to have the numbers from 0 on           *)
(* (update-database.rb:22); a number behind them all is one that was given.                        *)
Given(i) == \A o \in Oids : TpHash[o] # nil /\ ~Numbered(o) => i >= Len(Messages[o])

(* Messages of different text are never collapsed with each other, whatever the script is killed  *)
(* in and processes again, except by way of a number that was not given to a message.             *)
SameTextOnly ==
  LET min == MinIdIn(row) IN
  \A i, j \in AllIds : min[i] = min[j] /\ Given(min[i]) => SameText(i, j)

(* What the next run takes for processed was collapsed by an earlier one, to the last message: a   *)
(* script that is killed leaves nothing out (the pair is recorded after it was dumped).            *)
RecordedWasDumped == cuts = 0 => Records(file) \subseteq dumped

(* A pair is recorded when the IDs of each of its equal messages lead to one: no later message of  *)
(* the pair has taken a link of an earlier one away. Pairs with a template without IDs excepted.   *)
Joined(p) ==
  LET min == MinIdIn(row)
      e   == EqualMessages(p[1], p[2])
  IN  \A k \in 1 .. Len(e) : min[e[k][1]] = min[e[k][2]]
RecordedWhenJoined ==
  [][pc = "append" /\ pc' = "loop" =>
       \A p \in pairs \ pairs' : Numbered(p[1]) /\ Numbered(p[2]) => Joined(p)]_vars

(* Two templates without IDs have a message in common. Its two numbers, both below FirstRow, are   *)
(* then collapsed with each other, or with one ID: addRow is going to fail an assertion. It may     *)
(* also fail when such a template has so many messages that their numbers are IDs of other ones.    *)
Unnumbered(p) == {o \in {p[1], p[2]} : TpHash[o] # nil /\ ~Numbered(o)}
Seen == UNION {Detected[k] : k \in 0 .. commits}
Blocked ==
  \E p, q \in Seen : \E o \in Unnumbered(p), u \in Unnumbered(q) :
    \/ TpHash[o] # TpHash[u] /\ Texts(o) \cap Texts(u) # {}
    \/ Len(Messages[o]) > FirstRow

(* The live assertions of operator< and addRow hold as long as no record was cut, and the templates *)
(* without IDs are short and share no message.                                                      *)
AssertionsHold ==
  /\ abort = "order" => cuts > 0
  /\ abort = "addRow" => Blocked

(* Every pair that has IDs to collapse is collapsed and recorded in the end, whatever the script is *)
(* killed in, unless a record was cut, or templates without IDs make every run fail in a pair before it. *)
AllRecorded ==
  \A p \in UNION {Detected[k] : k \in DOMAIN Detected} :
    [](p \in Detected[commits] /\ ~Skipped(p) => <>(p \in Records(file) \/ cuts > 0 \/ Blocked))
=============================================================================
