------------------------------ MODULE IdMapDb ------------------------------
(***************************************************************************)
(* The memory-mapped table of collapsed message IDs (idmap.mmapdb),        *)
(* gettextpo-helper/gtpo/mappedfile.cpp.                                   *)
(*                                                                         *)
(* Row i of the file holds a smaller ID that i was collapsed with, or 0.   *)
(* An updater (transition-detector/update-database.rb) collapses pairs of  *)
(* IDs with addRow and then normalizes the table; the ID server maps the   *)
(* same file MAP_SHARED when it starts, and answers from it with plain     *)
(* reads while an updater is at work.  Every access to a row another       *)
(* process can see is a step of its own.  Each assert() of the code is     *)
(* live in its build: a failed one ends the process in an "assert" state.  *)
(***************************************************************************)
EXTENDS Integers, FiniteSets

CONSTANTS
  FirstId,   \* the smallest ID given to a message, 100 in the code
  LastId,    \* bound: the largest ID of the model (100*1000*1000 - 1 in the code)
  ArgIds,    \* the IDs an updater passes to addRow
  Chunk,     \* rows per megabyte: the file grows to a multiple of this
  Writers,   \* updater processes
  Readers,   \* server processes
  Requests   \* the sets of IDs a client asks a server about

Ids == 0..LastId

ASSUME ConstantsAssumption ==
  /\ FirstId \in Nat \ {0}
  /\ LastId \in Nat
  /\ FirstId <= LastId
  /\ ArgIds \subseteq Ids
  /\ Chunk \in Nat \ {0}
  /\ Writers \cap Readers = {}
  /\ Requests \subseteq SUBSET Ids

VARIABLES
  row,       \* row[i]: the contents of row i, 0 when i has no link
  fileLen,   \* rows in the file on disk
  len,       \* len[p]: rows in the mapping of process p, fixed but for ptr()
  pc,        \* pc[p]: where process p is
  msg, min,  \* msg[w], min[w]: the arguments of the addRow call of w
  cur,       \* cur[w]: prev_id of the loop of getRecursiveMinId
  found,     \* found[w]: the minimum already found for msg[w], then global_min
  scan,      \* scan[w]: msg_id of the loop of normalizeDatabase
  todo,      \* todo[r]: the IDs of the request r has still to look up
  reply,     \* reply[r][i]: the answer for ID i, i itself until it is looked up
  asked,     \* history: the pairs handed to addRow
  normal     \* history: a normalization has ended and no row was written since

fileVars == <<row, fileLen>>
writerVars == <<msg, min, cur, found, scan>>
readerVars == <<todo, reply>>
history == <<asked, normal>>
vars == <<row, fileLen, len, pc, msg, min, cur, found, scan, todo, reply,
          asked, normal>>

Walking == {"walkMsg", "walkMin", "walkScan"}
Busy == Walking \cup {"writeMsg", "writeMin", "writeScan", "scan"}
Failed == {"assertLoop", "assertArgs", "assertRange"}
States == {"closed", "idle", "serve"} \cup Busy \cup Failed
Procs == Writers \cup Readers

\* Mutant: min_id is taken to be on the smaller side.
SmallerSecond(a, b) == b
Smaller(a, b) == IF a < b THEN a ELSE b

Init ==
  /\ row = [i \in Ids |-> 0]
  /\ fileLen = 0
  /\ len = [p \in Procs |-> 0]
  /\ pc = [p \in Procs |-> "closed"]
  /\ msg = [w \in Writers |-> 0]
  /\ min = [w \in Writers |-> 0]
  /\ cur = [w \in Writers |-> 0]
  /\ found = [w \in Writers |-> 0]
  /\ scan = [w \in Writers |-> FirstId]
  /\ todo = [r \in Readers |-> {}]
  /\ reply = [r \in Readers |-> [i \in Ids |-> i]]
  /\ asked = {}
  /\ normal = TRUE
-----------------------------------------------------------------------------
\* Mutant: the row is read one record too far.
getRowConstOffByOne(p, i) == IF i + 1 >= len[p] \/ i = LastId THEN 0 ELSE row[i + 1]

\* The row a process sees: zero beyond the mapping it made when it opened the file.
getRowConst(p, i) == IF i >= len[p] THEN 0 ELSE row[i]

RoundUp(n) == ((n + Chunk - 1) \div Chunk) * Chunk

\* The constructor: the length of the file at this moment is the length of the mapping.
Open(p) ==
  /\ pc[p] = "closed"
  /\ pc' = [pc EXCEPT ![p] = "idle"]
  /\ len' = [len EXCEPT ![p] = fileLen]
  /\ UNCHANGED <<fileVars, writerVars, readerVars, history>>

\* The locals of a call go out of scope when it returns.
ForgetCall(w) ==
  /\ msg' = [msg EXCEPT ![w] = 0]
  /\ min' = [min EXCEPT ![w] = 0]
  /\ cur' = [cur EXCEPT ![w] = 0]
  /\ found' = [found EXCEPT ![w] = 0]
  /\ scan' = [scan EXCEPT ![w] = FirstId]

ForgetRequest(r) ==
  /\ todo' = [todo EXCEPT ![r] = {}]
  /\ reply' = [reply EXCEPT ![r] = [i \in Ids |-> i]]

\* The process ends or is killed, at any point: the rows it wrote stay in the file.
Exit(p) ==
  /\ pc[p] # "closed"
  /\ pc' = [pc EXCEPT ![p] = "closed"]
  /\ \/ p \in Writers /\ ForgetCall(p) /\ UNCHANGED readerVars
     \/ p \in Readers /\ ForgetRequest(p) /\ UNCHANGED writerVars
  /\ UNCHANGED <<fileVars, len, history>>

addRow(w, a, b) ==
  /\ pc[w] = "idle"
  /\ msg' = [msg EXCEPT ![w] = a]
  /\ min' = [min EXCEPT ![w] = b]
  /\ cur' = [cur EXCEPT ![w] = a]
  /\ pc' = [pc EXCEPT ![w] = IF a = b THEN "assertArgs" ELSE "walkMsg"]
  /\ asked' = IF a = b THEN asked ELSE asked \cup {{a, b}}
  /\ UNCHANGED <<fileVars, len, found, scan, readerVars, normal>>

\* Mutant: prev_id is not advanced.
getRecursiveMinIdStepStuck(w) ==
  /\ pc[w] \in Walking
  /\ getRowConst(w, cur[w]) # 0
  /\ UNCHANGED vars

\* One turn of the loop of getRecursiveMinId, with its assertion.
getRecursiveMinIdStep(w) ==
  LET next == getRowConst(w, cur[w]) IN
  /\ pc[w] \in Walking
  /\ next # 0
  /\ cur' = [cur EXCEPT ![w] = next]
  /\ pc' = IF next < cur[w] THEN pc ELSE [pc EXCEPT ![w] = "assertLoop"]
  /\ UNCHANGED <<fileVars, len, msg, min, found, scan, readerVars, history>>

\* The loop ends at a row without a link, and the caller goes on with that ID.
getRecursiveMinIdReturn(w) ==
  /\ pc[w] \in Walking
  /\ getRowConst(w, cur[w]) = 0
  /\ \/ /\ pc[w] = "walkMsg"
        /\ found' = [found EXCEPT ![w] = cur[w]]
        /\ cur' = [cur EXCEPT ![w] = min[w]]
        /\ pc' = [pc EXCEPT ![w] = "walkMin"]
     \/ /\ pc[w] = "walkMin"
        /\ found' = [found EXCEPT ![w] = Smaller(found[w], cur[w])]
        /\ pc' = [pc EXCEPT ![w] = "writeMsg"]
        /\ UNCHANGED cur
     \/ /\ pc[w] = "walkScan"
        /\ pc' = [pc EXCEPT ![w] = "writeScan"]
        /\ UNCHANGED <<found, cur>>
  /\ UNCHANGED <<fileVars, len, msg, min, scan, readerVars, history>>

\* writeRow(i, to) of process w, or nothing when i is the minimum itself; then w goes to
\* `then`.  ptr() grows the file, and the mapping of w alone, to a whole number of chunks.
writeRow(w, i, to, then) ==
  IF i = to
    THEN /\ pc' = [pc EXCEPT ![w] = then]
         /\ UNCHANGED <<fileVars, len, normal>>
    ELSE IF i < FirstId
      THEN /\ pc' = [pc EXCEPT ![w] = "assertRange"]
           /\ UNCHANGED <<fileVars, len, normal>>
      ELSE /\ row' = [row EXCEPT ![i] = to]
           /\ len' = [len EXCEPT ![w] = IF i < @ THEN @ ELSE RoundUp(i + 1)]
           /\ fileLen' = fileLen + (len'[w] - len[w])
           /\ normal' = FALSE
           /\ pc' = [pc EXCEPT ![w] = then]

addRowWriteMsg(w) ==
  /\ pc[w] = "writeMsg"
  /\ writeRow(w, msg[w], found[w], "writeMin")
  /\ UNCHANGED <<writerVars, readerVars, asked>>

addRowWriteMin(w) ==
  /\ pc[w] = "writeMin"
  /\ writeRow(w, min[w], found[w], "idle")
  /\ ForgetCall(w)
  /\ UNCHANGED <<readerVars, asked>>

\* normalizeDatabase: rows FirstId .. row_count - 1, where row_count is the mapping's length.
normalizeDatabase(w) ==
  /\ pc[w] = "idle"
  /\ pc' = [pc EXCEPT ![w] = "scan"]
  /\ scan' = [scan EXCEPT ![w] = FirstId]
  /\ UNCHANGED <<fileVars, len, msg, min, cur, found, readerVars, history>>

\* Mutant: the loop runs up to row_count itself.
InScanTooFar(w) == scan[w] <= len[w] /\ scan[w] <= LastId

\* Mutant: the last row of the file is left out.
InScanShort(w) == scan[w] < len[w] - 1 /\ scan[w] <= LastId

InScan(w) == scan[w] < len[w] /\ scan[w] <= LastId

normalizeRow(w) ==
  /\ pc[w] = "scan"
  /\ InScan(w)
  /\ pc' = [pc EXCEPT ![w] = "walkScan"]
  /\ cur' = [cur EXCEPT ![w] = scan[w]]
  /\ UNCHANGED <<fileVars, len, msg, min, found, scan, readerVars, history>>

\* Mutant: rows without a link are not skipped.
NeedsRewriteUnlinked(w) == row[scan[w]] # cur[w]

NeedsRewrite(w) == row[scan[w]] # 0 /\ row[scan[w]] # cur[w]

normalizeWrite(w) ==
  /\ pc[w] = "writeScan"
  /\ row' = IF NeedsRewrite(w) THEN [row EXCEPT ![scan[w]] = cur[w]] ELSE row
  /\ normal' = (normal /\ ~NeedsRewrite(w))
  /\ scan' = [scan EXCEPT ![w] = @ + 1]
  /\ pc' = [pc EXCEPT ![w] = "scan"]
  /\ UNCHANGED <<fileLen, len, msg, min, cur, found, readerVars, asked>>

normalizeEnd(w) ==
  /\ pc[w] = "scan"
  /\ ~InScan(w)
  /\ pc' = [pc EXCEPT ![w] = "idle"]
  /\ normal' = TRUE
  /\ ForgetCall(w)
  /\ UNCHANGED <<fileVars, len, readerVars, asked>>
-----------------------------------------------------------------------------
\* Mutant: an ID without a link gets the contents of its row.
getPlainMinIdRaw(p, i) == getRowConst(p, i)

getPlainMinId(p, i) == IF getRowConst(p, i) # 0 THEN getRowConst(p, i) ELSE i

\* A request of a client of the server: GET_MIN_IDS, or the IDs of one template.
Request(r, ids) ==
  /\ pc[r] = "idle"
  /\ pc' = [pc EXCEPT ![r] = "serve"]
  /\ todo' = [todo EXCEPT ![r] = ids]
  /\ reply' = [reply EXCEPT ![r] = [i \in Ids |-> i]]
  /\ UNCHANGED <<fileVars, len, writerVars, history>>

LookUp(r) ==
  /\ pc[r] = "serve"
  /\ \E i \in todo[r] :
       /\ reply' = [reply EXCEPT ![r][i] = getPlainMinId(r, i)]
       /\ todo' = [todo EXCEPT ![r] = @ \ {i}]
  /\ UNCHANGED <<fileVars, len, pc, writerVars, history>>

Respond(r) ==
  /\ pc[r] = "serve"
  /\ todo[r] = {}
  /\ pc' = [pc EXCEPT ![r] = "idle"]
  /\ ForgetRequest(r)
  /\ UNCHANGED <<fileVars, len, writerVars, history>>
-----------------------------------------------------------------------------
WriterStep(w) ==
  \/ getRecursiveMinIdStep(w) \/ getRecursiveMinIdReturn(w)
  \/ addRowWriteMsg(w) \/ addRowWriteMin(w)
  \/ normalizeRow(w) \/ normalizeWrite(w) \/ normalizeEnd(w)

ReaderStep(r) == LookUp(r) \/ Respond(r)

Next ==
  \/ \E p \in Procs : Open(p) \/ Exit(p)
  \/ \E w \in Writers :
       \/ \E a, b \in ArgIds : addRow(w, a, b)
       \/ normalizeDatabase(w)
       \/ WriterStep(w)
  \/ \E r \in Readers :
       \/ \E ids \in Requests : Request(r, ids)
       \/ ReaderStep(r)

Spec == Init /\ [][Next]_vars

\* A process that runs goes on running until it ends: the scheduler is fair to it.
FairSpec ==
  /\ Spec
  /\ \A w \in Writers : WF_vars(WriterStep(w))
  /\ \A r \in Readers : WF_vars(ReaderStep(r))
-----------------------------------------------------------------------------
\* The types of the variables, with the ranges the loops keep to: a row that is
\* normalized lies inside the mapping of its process, and no row beyond the end
\* of the file has been written.
Types ==
  /\ row \in [Ids -> Ids]
  /\ fileLen \in Nat
  /\ len \in [Procs -> Nat]
  /\ pc \in [Procs -> States]
  /\ msg \in [Writers -> Ids]
  /\ min \in [Writers -> Ids]
  /\ cur \in [Writers -> Ids]
  /\ found \in [Writers -> Ids]
  /\ scan \in [Writers -> FirstId..(LastId + 1)]
  /\ todo \in [Readers -> SUBSET Ids]
  /\ reply \in [Readers -> [Ids -> Ids]]
  /\ asked \subseteq SUBSET Ids
  /\ normal \in BOOLEAN

Ranges ==
  /\ \A p \in Procs : len[p] <= fileLen
  /\ \A i \in Ids : row[i] # 0 => i >= FirstId /\ i < fileLen
  /\ \A w \in Writers :
       pc[w] \in {"walkScan", "writeScan"} => scan[w] <= LastId /\ scan[w] < len[w]

TypeOK == Types /\ Ranges

\* The assertion of getRecursiveMinId ("avoiding infinite loop") holds whatever an
\* updater collapsed and wherever an earlier one was killed: no chain of rows ever
\* comes back to where it has been.  It takes a single updater.
LoopAssertionHolds == \A w \in Writers : pc[w] # "assertLoop"

\* S separates nothing an updater asked to collapse.
Respects(S) == \A pair \in asked : pair \subseteq S \/ pair \cap S = {}

\* No two messages are confused: an ID is linked only to an ID that the pairs given to
\* addRow connect it with.  Stated by cuts: a set of IDs that no pair leaves is a set
\* that no row leaves.
NoFalseCollapse ==
  \A S \in SUBSET Ids :
    Respects(S) => \A i \in Ids : row[i] # 0 => (i \in S <=> row[i] \in S)

\* What the server answers while an updater writes the rows under it, from a mapping that
\* may be shorter than the file, is never the ID of an unrelated message, nor a larger one.
RepliesSound ==
  \A r \in Readers : \A i \in Ids :
    /\ reply[r][i] <= i
    /\ \A S \in SUBSET Ids : Respects(S) => (i \in S <=> reply[r][i] \in S)

\* After normalizeDatabase the plain read of the server (one row, getPlainMinId) gives an
\* ID that is collapsed with no smaller one, as the recursive read would, in every process
\* that mapped the file at its full length.
PlainReadIsMinimal ==
  normal =>
    \A p \in Procs :
      len[p] = fileLen => \A i \in Ids : row[getPlainMinId(p, i)] = 0

\* The ID that the rows lead to from each ID: getRecursiveMinId on an unchanging table.
Root ==
  LET root[i \in Ids] == IF row[i] \in 1..(i - 1) THEN root[row[i]] ELSE i
  IN  root

\* When addRow returns, both of its arguments lead to one ID.
AddRowCollapses ==
  [][\A w \in Writers :
       pc[w] = "writeMin" /\ pc'[w] = "idle" => Root'[msg[w]] = Root'[min[w]]]_vars

\* Write by write, the ID an ID leads to never grows, and a normalization changes no such
\* ID at all: an identifier that was handed out stays valid or is replaced by a smaller one.
RootsNeverGrow ==
  [][\A i \in Ids :
       IF \E w \in Writers : pc[w] = "writeScan" /\ pc'[w] = "scan"
         THEN Root'[i] = Root[i]
         ELSE Root'[i] <= Root[i]]_row

\* What addRow's comments promise ("'Collapse' two IDs") and getRecursiveMinId's ("Find the
\* minimum ID from those that are collapsed with 'msg_id'"): once two IDs lead to one ID they
\* still do after a further write.
CollapsedStayCollapsed ==
  [][\A a, b \in Ids : Root[a] = Root[b] => Root'[a] = Root'[b]]_row

\* Every call of an updater and every request of a server ends: it returns, a failed
\* assertion ends its process, or the process is killed.
CallsEnd ==
  \A p \in Procs : pc[p] \in Busy \cup {"serve"} ~> pc[p] \notin Busy \cup {"serve"}
=============================================================================
