# stupid-ids: a verification project in TLA+

stupid-ids gives every message of every translation template a permanent integer ID, finds the
messages that are the same in different templates and collapses their IDs, and lets translators
exchange review decisions ("iddiffs") that name messages by ID instead of by file. This directory
models the parts of that system where its correctness is decided: who gets which ID, what an ID is
collapsed with, and what happens to the decisions made about it.

Each part below has a module, a run of TLC, and, where proofs help, a module of proofs
(`InductionLemmas` has the induction that four of them need):

| part | modules | code | TLC | TLAPS |
|---|---|---|---|---|
| table of collapsed IDs | `IdMapDb` | `gettextpo-helper/gtpo/mappedfile.cpp`, `stupids-server/server.cpp` | `idmap`, `idmap_lost_collapse`, `idmap_two_updaters` | `IdMapDbProofs` |
| review decisions | `Iddiff`, `ReviewContract` | `gettextpo-helper/gtpo/iddiff.cpp`, `iddiffchange.cpp` | `iddiff`, `iddiff_accept` | `IddiffProofs` |
| applying decisions to files | `Patch` | `iddiff.cpp`, `translationcontent.cpp`, `message.cpp`, `translation-collector.cpp`, `tools/impl/idpatch.cpp`, `lokalizereviewiddiff.cpp` | `patch`, `patch_unwritten` | `PatchProofs` |
| allocation of IDs | `IdAllocation` | `stupid-id-filler/sif-lib.rb`, `calcserver-ruby/app/apis/version1.rb` | `alloc`, `alloc_race` | `IdAllocationProofs` |
| ID server and its clients | `StupidsProtocol`, `IdService` | `stupids-server/tcpcommandserver.cpp`, `server.cpp`, `gtpo/stupids-client.cpp`, `lw-server` | `session` | `StupidsProtocolProofs` |
| transition detector | `TransitionUpdate` | `transition-detector/update-database.rb`, `ruby-ext/globals.cpp`, `gtpo/gettextpo-helper.cpp` | `transition` | `TransitionUpdateProofs` |
| Git history, template hashes | `GitHistory`, `CommitHistory`, `TemplateHash`, `OldestByTphash` | `gtpo/repository.cpp`, `commit.cpp`, `detector.cpp`, `translationcontent.cpp`, `gitloader.cpp`, `oidmapcache.cpp` | `history` | `HistoryProofs` |

`PROJECT.json` lists, per definition, the lines it stands for.

## 1. Inventory

How an ID travels: *filler scripts* walk the Git history of a template repository and post each new
template to the *calculation server*, which stores it in MongoDB with the next free range of IDs.
The *transition detector* finds pairs of template versions that follow each other, compares them
message by message, and collapses the IDs of equal messages in a memory-mapped table. The *ID
server* answers clients with first IDs (which it asks *lw-server* for) and with minimized IDs (which
it reads from the table). Tools on the translator's side use those answers to make, merge, minimize
and apply *iddiffs*.

| part | state | operations | interaction | what makes it correct |
|---|---|---|---|---|
| ID table (`mappedfile.cpp`) | rows of a shared file; the length of each mapping | `addRow`, `normalizeDatabase`, `getPlainMinId`, growth | shared memory between the updater and every server process | chains never loop; only IDs that were asked for are linked; answers are sound while the table changes |
| Iddiff (`iddiff.cpp`) | ID -> removed, added, review; a file | diff, merge, load, write, filter, minimize, verdicts | files passed between tools; asks the ID server for minimized IDs | sections never contradict each other; of a patch all is merged, or nothing and the process ends; the file keeps its decisions until new ones are there to be written; a file can be read back |
| allocation (`sif-lib.rb`, `version1.rb`) | template documents in MongoDB; three collections in Redis | walk commits, test a file, post, record | HTTP; two databases that are written one after the other | ranges disjoint, gapless, permanent; no file lost |
| ID server (`stupids-server`) and `StupidsClient` | a connection per child process, an output buffer | six commands | TCP, one forked child per client | request and answer stay in step; a lost client ends only its child |
| PO messages, translation files | message text, fuzzy flag, edited flag, cached IDs | edit, apply, write | read and written by tools | decisions are applied everywhere or nothing is written; no translation is lost; an applied decision reaches the file (it does not) |
| transition detector | file of processed pairs | detect, collapse, record, normalize | calls the Git reader and the ID table | every pair is collapsed in the end, and collapsing twice is harmless |
| Git reader (`repository.cpp`, `commit.cpp`) | lists of commits and changes | tree difference, search by time, blob iterator | libgit2 | agrees with the definition of a difference; terminates |
| `GitLoader`, `OidMapCache` | answers in memory and in a file that all runs append to | search the history by template hash, remember | reads repositories that grow between runs | an answer is the oldest version of the right template, remembered or not |
| collector, review tools | maps from ID to messages, IDs not covered yet | collect, cover, choose | asks the ID server which files are involved | every involved message is found and shown once |
| Python helpers, Ruby bindings, GUI, D-Bus | little | wrappers | | |

Where it is hard: the ID table is read while it is written, without a lock, from mappings of
different lengths, and its writers can be killed between two writes; allocation is spread over two
databases and several scripts and server threads without a transaction; the iddiff code keeps its
invariants with live `assert()`s that end the process in the middle of an operation, and reads
null entries that other calls leave behind; a server child, its client and the parent of the child can
each end in the middle of a command; a file of translations is read anew for every question while a
translator saves it; the history is searched by halves although commit times are not in order. The
full list, each at its line, is `hazards` in
`PROJECT.json`.

## 2. What the modules say

### IdMapDb

`row[i]` is the ID stored for `i`, 0 for none; `fileLen` the length of the file; `len[p]` that of the
mapping of process `p`, taken when it opens the file (`Open`) and changed only by its own growth
(`writeRow`, the `ptr` of the code). An updater is a process of `Writers`; `pc`, `msg`, `min`, `cur`,
`found` and `scan` are the locals of `addRow`, `getRecursiveMinId` and `normalizeDatabase`. One turn
of the loop of `getRecursiveMinId` is one step, and so is each row written; `Exit` ends a process
between any two of them. A failed `assert` is a state of its own: `assertLoop` for the one of the
loop, `assertArgs` and `assertRange` for those on the arguments. A server is a process of
`Readers`: it opens the file once, and looks IDs up one row at a time.
`asked` and `normal` are history variables. 32-bit rows are written in one access on the platforms
the code is built for, so a row is never torn.

`CollapsedStayCollapsed` (violated, see section 5) is what the comments promise; `RootsNeverGrow`
and `AddRowCollapses` are what the code does keep: an ID only ever leads to smaller IDs as time goes
by, and at the return of `addRow` its own two arguments lead to one.

### Iddiff and ReviewContract

`diff` is `m_items`: its keys, the keys that map to a null pointer, and per message the two sections
as sequences (their order is written to the file) and whether there is a comment. A call that loops
over decisions is a set of tasks that run in the order of the code, one step each; `call` remembers
the object the call started from. `assert` and `segv` are final states of the process; only
`NewProcess` leaves them, with an empty object, and the file as it was. `writeToFile` truncates the
file in one step and fills it in another.

Translations are atoms, since the code compares them with `equalMsgstr` only. Abstracted: subject,
authors, date, and the text of the comment. The diff of two `.po` files is taken at one message at a
time; the messages of a diff are independent of each other, so a longer diff is a sequence of such
merges up to where it can fail, and longer merges are covered by `mergeFile`, which merges a whole
file.

`ReviewContract` is the abstract specification. Its state is the accepted and rejected translations
per message, the patch that is being merged, and the decisions in the file. `Begin` takes a patch,
and `Combine` merges exactly the decisions of it, all at once, if they contradict none; there is no
step that merges some of them. `Erase` takes the stored decisions out of the file and `Store` puts the
present ones in their place. `Iddiff` implements it under a mapping: `settled` is the object as it was
when the running call began, `Patch(call.tasks)` what that call has to merge, so that a merge
that fails an assertion half way has shown nothing, and the restart after it forgets; and the file is
that of `Iddiff`, so that nothing but a `writeToFile` whose text is complete touches the decisions of
an earlier process. That a process can be killed between `Erase` and `Store`, and the stored decisions
are gone then, is in the contract because the code does it.

### IdAllocation

`firstId[t]` is the document of template `t` in MongoDB; `known`, `broken`, `processed` are the
collections of Redis. A filler script goes through `commit`, `pot`, `add`, `wait`, `store`: each
access to Redis is a step. `request[s]` is what a thread of the server works on, in the stages
`exists`, `next`, `insert`, `done`: each call of MongoDB is a step. A script can be killed anywhere
(`Kill`), after which the server goes on with its request; a call of MongoDB can fail, with or
without its effect (`mongoFails`); the server can be restarted. The lists of Redis are sets here:
nothing reads their order or their multiplicity. The list of commits a script has left comes from
`git log`, which is taken to be in the order of `Commits`. `have_info_for_pot_hash?` is always false,
because nothing in the repository writes `tphash_to_idrange`, and skips only what `add` skips too.

### StupidsProtocol and IdService

A slot `c` is a client process with its connection and the child that serves it. `up[c]` and
`down[c]` are the words under way on the wire; a 32-bit number or a hash is one word, and a read takes
one word. A short write stops between two words; the code can stop at any byte, and what a server that
reads the parts of two words as numbers does then is left out, so that the answers after a resend
are fewer than in the code. `todo` holds the `write()` calls a request is made of, `written` is the local of
`sendToServer`, `in[c]` what the child has read of the current command and `out[c]` the writes that are left of its
answer. A command is complete when the `recv*` calls of its handler have what they ask for
(`Complete`), so that both ends decide from the stream alone where a request ends. The child ends by
itself, by a signal, or by a live assertion, with a wait status that the parent's `sigchild_handler`
takes apart. The parent can be killed, or fail to fork; a server side that closes with unread input
resets the connection, which can lose what is under way. lw-server is an input: whether
it can be reached, whether it knows a template, and which key it writes first (the `sscanf` of
`stupidsdatabase.cpp:51` wants one of the two orders). The table of minimized IDs is constant; how it
changes under a read is the subject of `IdMapDb`.

`IdService` is the abstract specification: a call begins, and it ends with the answer for its request,
a refusal, or the end of the process. `StupidsProtocol` implements it under the mapping `Promise`,
which sees of a client only whether it is idle, in a call, or gone. The one weakening is `torn`: a
`write()` that returned early is followed by one from the start of the buffer, and the answer is then
one for another list of IDs of the same length.

### TransitionUpdate

One script at a time, in the steps of `update-database.rb`: `start`, `detect_transitions_inc`
(which reads the file of processed pairs and subtracts it), then per pair `skipPair` or
`dump_equal_messages`, one `addRow` per equal message, `append_processed_pairs`, and at last
`normalize_database`. `kill` ends it between any two of them. The file is a sequence of hashes;
`append_processed_pairs` can write none, one or two of a record when the disk is full (`cuts`), since
nobody looks at the result of closing the file. `addRow` is one step here, because `IdMapDb`
has its single writes. `Detected[k]` is what the detector finds after `k` commits; how it finds it is
`CommitHistory`. `dumped` is a history variable.

What the script is given is what the other parts make: the messages that a hash stands for
(`TemplateHash`), and first IDs that number the messages of different hashes differently
(`IdAllocation`); `UpdateAssumption` says so. A template without IDs has no first ID, and its messages
are taken to have the numbers from 0 on. `SameTextOnly` excepts the numbers that such a template may
take (`Given`), and `AssertionsHold` the runs in which one of them is at work (`Blocked`): two that
share a message, or one with more messages than `FirstRow`, whose numbers are then IDs of others.

### GitHistory, CommitHistory, TemplateHash and OldestByTphash

`GitHistory` has the pure parts as recursive functions: the difference of two trees, the binary
search for a change, the searches back and forth for a version of a file, the loose binary search by
time, and the search for a relevant template. A name is a number in the order that Git sorts entries by,
odd for a directory; a tree is a function of its names.

`CommitHistory` has the programs over them: repositories are read from HEAD to the root, one commit
per step, and reversed; the two detectors of successors and the one between branches go through all
changes, one per step, and add pairs; the blob iterator is a stack of trees, one entry per step.
Failed assertions (a change of mode, times that are too far out of order, a repository with one commit)
end in `failed`.

`TemplateHash` says which parts of a file the dump has that a template is identified by, which
exceptions a broken header raises, and how messages are numbered. Files of which `calculateTpHash`
does not return are left out: those the parser refuses, a header without a newline behind its date
(the assertion at `translationcontent.cpp:134`), and a second header (`runtime_error` at `:212`). A hash is the negated number of the first file
with that dump: it differs for different dumps, 0 is the null hash.

`OldestByTphash` adds to the detector the two tools that look for the oldest translation of a
template. `cacheFile` is `oidmapcache-lang_ru_oldest_oid.dat`: all runs append to it, none looks at
the result, and it is read at the first question of a run, where an odd number of hashes fails an
assertion. `nextTool` begins another run on repositories that may have grown; `otherRun` is a
run that ends its search while this one is at work.

### Patch

One run of `idpatch` or `lokalize-review-iddiff` while a translator saves files. A step of the tool is
a call that reads or writes a file: `insertPoDirOrTemplate` looks for files, `getMessagesByIds` reads
messages, `applyIddiff` edits the copies of one message. `TranslationContent::writeToFile` has three
steps: `openFile` parses the file, `po_file_write` reads the messages anew and opens the file that it
replaces, which empties it, and `closeFile` is the last byte. In between the file is `CutFile`: a run
that dies there (`die`: killed, or the disk is full) leaves it so, and `Init` has files that an
earlier run left so. No question about a cut file gets an answer (`CannotRead`: the parser throws, or the
server does not know its hash); left out is a file that is cut within its last message in a way
that parses and keeps its hash. A comment has its lines and whether its last line ends in a newline,
as the parser leaves it and `join_strings` does not: `editMsgcomments` compares both, so that a comment that is
not empty is edited even when no line of it changes. `nextContent` is the greedy choice of the next file to review. `save` puts a version of a file on disk between any two steps; `saved` and
`late` are history variables, `late` for files that were saved when the run could not see it any
more. `die` ends the run anywhere. The decisions an .iddiff can hold are those that `Iddiff` can load.

## 3. Runs

| run | instance | what it shows |
|---|---|---|
| `idmap` (about 950 000 states) | IDs 0..4 with `FirstId` 2, so that row 1 is one the code refuses; one updater, one server, a chunk of four rows | with both processes ended and restarted anywhere: `LoopAssertionHolds`, `NoFalseCollapse`, `RepliesSound`, `PlainReadIsMinimal`, `AddRowCollapses`, `RootsNeverGrow`, and `CallsEnd` under fairness |
| `idmap_lost_collapse` | IDs 2..4, one updater | counterexample to `CollapsedStayCollapsed` |
| `idmap_two_updaters` | IDs 2..4, two updaters | counterexample to `LoopAssertionHolds` |
| `iddiff` (about 2 950 000 states) | two messages with one minimized ID, two translations | `NeverContradictory`, `LoadsOwnFiles`, refinement of `ReviewContract` |
| `iddiff_accept` | the same | counterexample to `AcceptMovesOthers` |
| `alloc` (about 780 000 states) | four templates, one of them empty, five files, one of them broken, two commits, two scripts, two server threads | `KnownHasIds`, `ProcessedIsDone`, `RangesDisjointUnlessRaced`, `NoGaps`, `IdsAreForever` |
| `alloc_race` | the same with no empty template | counterexample to `RangesDisjoint` |
| `session` (10 472 states) | one slot, six requests of all five kinds, three templates: with IDs, recorded without IDs, not recorded | each end can go away at any word, writes may be short: `InStep`, `ParentSurvivesChildren`, refinement of `IdService` (`KeepsPromise`), `CallsEnd` and `ChildrenEnd` under fairness |
| `transition` (18 132 states) | six blobs, two of them without IDs, three stages of the history, two kills, one cut | `SameTextOnly`, `RecordedWasDumped`, `AssertionsHold`, `RecordedWhenJoined`, and `AllRecorded` under fairness |
| `history` (155 915 states) | two repositories: every history of four commits over four trees, one of five commits with every accepted clock, and shorter and longer ones; four inputs for the tools, two records of other runs, one cut | `ChangesRebuildTrees`, `SearchesMissOnlyTheSkew`, `VersionsAreLinked`, `AnswersAreOldest`, `WalkReturnsAll` |
| `patch` (278 426 states) | three files that share messages, one of which may be missing or cut; ten sets of decisions; two saves | `AllOrNothing`, `NothingLost`, `ReviewCoversAll` |
| `patch_unwritten` | the same | counterexample to `ChangesAreWritten` |

Why these bounds are enough to be interesting. `idmap`: three IDs that can be linked are what a chain
of two links, a normalization that shortens it, and a link overwritten need; a chunk of four rows
makes the file grow twice, once beyond a server's mapping; the last ID is the first row of the second
chunk. `LastId` also caps the scan of `normalizeDatabase`, which in the code goes on over
empty rows to the end of the chunk. `iddiff`: two translations make every conflict between sections,
two messages with one minimized ID make the collision of `minimizeIds`; nothing in the code relates
three messages. `alloc`: two requests are what a race needs; an empty template between others makes
the tie of `get_next_id`, whose documents then share a first ID, and a template longer than one makes
the numbering visible. `Slots` bounds the requests at work at a time; sections reached only with
three of them are covered by the proofs, which have no such bound.

`session`: sessions share nothing but the parent, so one slot shows what can happen
within a session; that the parent outlives any number of them is proved. The slot is used again by
later processes, so that leftovers of one session would meet the next. `transition`: the six blobs make
chains (1-2-4), the same template under two hashes, and two templates without IDs whose numbers
collide, which is a case in which every later run fails (`Blocked`); two kills let a run be killed,
repeated, and killed again. `history`: the windows of the code (394 s, 5000 s, 10, 20 and 5 commits,
3 hours, 14 days) are the constants `Skew`, `Later`, `RemovalBack`, `MoveBack`, `Margin`, `Back`,
`Ahead`, scaled down so that histories of four to six commits reach over their ends on both sides. With
`MaxCuts` = 2 `AnswersAreOldest` does not hold: two cut records make the file even again, and a hash is
then read as the blob of another template; `MaxRecords` bounds what the other runs append. `patch`:
three files are needed for a choice between two that leaves a third, two saves for one before and one
after the run has read a file.

Symmetry: scripts and server threads in `alloc`, translations in the `iddiff` runs. No run with
symmetry checks liveness. Deadlock is checked in every run but those of `history` and `Patch`, where the
program comes to its end. An idle process of the others can always begin something.

Fairness. `idmap` (`FairSpec`): weak fairness of the steps of an updater and of a server that are
within a call. They are ordinary running processes that never block on each other (there is no
lock), so the scheduler keeps running them. Nothing is assumed of the start of calls or of the ends
of processes. A call that stops in an assertion has ended, so a chain that came back to where it was
would end a call in `assertLoop`, which `LoopAssertionHolds` excludes, and not violate `CallsEnd`. `session`: weak
fairness of the steps of each client and of each child, of the parent taking a pending connection (or
failing to fork), and of its signal handler; nothing is assumed of calls, kills, failures of
lw-server, or resets. `transition`: the script is run again and again, its steps are taken,
and the file that it asks for is made; nothing is assumed of kills, cuts or commits, of which the
first two are bounded. `history`: a walk goes on.

Each property of a passing run has a mutant in `PROJECT.json`: a variation of a definition of the
model that a plausible bug would cause, next to the original in the module, with which TLC finds the
property violated.

## 4. Proofs

Every theorem holds for every value of the constants that satisfies the named assumption of its
module (`ConstantsAssumption`, `PatchAssumption`, `UpdateAssumption`...), and under its own hypotheses
where it has some, which are named below. TLC evaluates each assumption in the run of the module.

**InductionLemmas.** The library's induction theorems take an operator as a parameter, which the provers
here cannot instantiate. So the hypothesis of an induction is a *set* of numbers (`SetInduction`, from the
library's least element of a well-founded order), the body of a loop a function (`Iteration`: a loop of
N turns has a trace), and the end of a chain of ever smaller numbers an equation (`WalksDown`) that has a
solution (`WalkExists`) and whose solutions are ends (`WalkFacts`). With these three, facts about
recursive *functions* of numbers and of sequences are proved for all inputs.

**IdMapDbProofs.** `IInv` is the inductive invariant: types and ranges; `NeverUp`, no row and no
cursor leads to a larger ID; `PairAsked`, the pair of a running `addRow` is recorded; and `CutInv`. The
last one carries the argument that IDs are never confused: instead of paths, which would need
induction, it takes the sets of IDs that no requested pair leaves, and says that no row, no cursor
and no answer leaves such a set either. It holds for any number of updaters and servers:
`TypeCorrect`, `LinksAreAsked`, `AnswersAreAsked`. `LoopAssertion` and `PlainReads` need the
hypothesis `OneUpdater` (at most one updater, as the run with two shows), and `SoleInv`: the only
updater maps the whole file, links go strictly down, and the part of the table that the scan has
passed is flat. The step of `addRow` that keeps it is that a cursor that stopped at a row without a
link stays at one, since nobody else writes.

`AddRowJoins` and `RootsGoDown` speak of the ID that a chain ends in (`Root`), so they need a recursive
function and what one write does to it (`RootOfWrite`: a row is set to an ID without a link that is not
above the end the row led to; then whatever led to the old end leads there or to the new one, and
nothing else changes). `WalkInv` says which ends the updater knows at each place of `addRow`: that of
`msg` while it walks from `min`, the smaller of both before the writes, and between the writes that `msg`
is that end or has just been linked to it. They need `OneUpdater`, and `MessageIds`: 0 is not passed to
`addRow` for an ID (the IDs of messages start at 100). With 0, the "smaller minimum" is 0, and the write
takes the link of the other argument away, which raises the end of its chain.

**IddiffProofs.** The invariant is that every object the calls work on (the current one, the one the
call started from, the one in the file) is an `Object`: well typed, its null entries without
decisions, and its sections sound. One lemma per helper says that it gives an object again; the
lemmas on `Append` and `RemoveFirst` rest on the library's facts about sequences and well-founded
orders. `TypeCorrect`, `Consistent`. For `OwnFilesLoad` the invariant is `LoadedSoFar`: while a file is
loaded into an empty object, each section of the object is the section of the file up to some decision,
and the tasks that are left are the ones behind it. The order of the tasks makes the next one the next
decision of its section; that the file is sound (it was written by the program) is what keeps the
assertions of `insertRemoved` and `insertAdded` from failing.

`ImplementsContract`, in the same module: the object as its user sees it (`settled`: a call that
loops takes effect when it ends) and the file implement `ReviewContract`. Given that all objects are sound,
what must be known of a running call is one of two things. It is `Growing`, a merge or a load, and its
object has the decisions it started with and those of the tasks that are done (`Patch` of them), so that
its last turn is a `Combine` of the whole patch. Or it is `Moving`, a
call of `minimizeIds` that goes from the smallest ID up: the decisions of the messages it has passed
are under their minimized IDs, those of the others are where they were, and of the messages it has
passed no two with the same minimized ID had any. That `MinId` never leads up is what keeps the two kinds apart, and when no message is
left the three facts are `Rename`. A call that fails shows nothing, since `settled` is still its `base`.

**IdAllocationProofs.** Five invariants, each inductive relative to the ones before: `TInv` (types,
and a script waits for exactly one request, about the first file of its list), `GInv` (`NoGaps`, and
all IDs below the one a request has chosen are in use), `KInv` (a successful answer, or a script
that has received it, is about a template with a document), `CInv` (each file of the current commit
is done or still on the list), `RInv` (as long as two requests were never between choosing
and inserting, a chosen ID is behind all ranges). From them `TypeCorrect`, `Gapless`,
`DatabasesAgree`, `NothingLost`, `IdsUnique`, and the action property `Permanent`. The gapless
numbering needs no exclusion: of two racing requests both choose an ID behind used ones.

**PatchProofs.** `IInv` is `TInv` (types, and what is left to do at each point of a run) and `SInv`
(what the run knows of each file: one that was found is still there; one that was not is missing still,
or late; the file that is open is the one on disk unless it was saved since). From it `TypeCorrect`
and the action property `TranslationsAreKept`: `writeToFile` reads the file again and finds no
message edited, so it writes what it opened; at most the file at work is cut, and a cut file at the
start keeps the run from writing. `EInv` says that a message is as it was read until its ID is
applied, and as the decisions want it from then on; with all IDs applied before the first file is
opened, that gives `NothingIsHalfApplied` (`AllOrNothing`).
`RInv`, the IDs not covered are those no chosen file has, gives `ReviewIsComplete`; that there is a
best file whenever any file covers something (`BestExists`) goes by well-founded orders, without induction over
data.

**TransitionUpdateProofs.** `IInv` ties the file to what was dumped: as long as nothing was cut, its
length is even, its records were dumped, and the current pair was dumped before it is appended.
`AppendRecord` says what the records are after an append. `RecordedIsDumped`, for any number of
kills; `RecordsAreRead`, the assertion of `operator<` on records fails only after a cut.

`UInv` adds the table: its rows lead down (`Down`, a part of `TypeOK`), so that a chain has an end
(`MinFacts`); a row that leads to a number that was given leads to one of the same text
(`LinksSameText`); and the equal messages of the current pair that were dumped are tied (`TiedSoFar`: two
rows lead to one row, or one to the other). A tie says more than that both lead to one end, and must: a
later `addRow` writes rows in the middle of chains. It is kept because the IDs of the equal
messages of two templates are all different. From `UInv`: `TypeCorrect`, `CollapsedIsEqual`
(`SameTextOnly`) and `RecordedIsJoined` (`RecordedWhenJoined`). The step from a link of equal texts to
an end with that text (`ChainText`) is an induction over IDs; `Enumeration` and `EqualFacts` say of
`EqualMessages` that it lists each shared text once.

`AssertionsFailFor` (`AssertionsHold`) goes by `AInv`: as long as not `Blocked`, each row with a link is
that of an ID of some message, and the number it leads to is one of that message, given or taken
in a template that was seen (`Traced`). So the two ends that `addRow` compares belong to one message; of
templates without IDs only one can have it, and the row below `FirstRow` that they may share is the minimum,
which is not written.

**StupidsProtocolProofs.** The invariant `Inv` describes each connection by itself (`Own`): the types
(`Types`), what the client has left to send of the message of its call (`Left`), and for the
words on the wire and in the child one of a few shapes (`Session`). While the child serves
(`LiveShape`), what it has not served yet is the part of the message that was written (`Sending`), or
the answer is complete between the child's writes and the wire (`Coded`, `Bare`); when it is over
(`EndShape`), what is on the wire is a prefix of that, an error, or nothing. A message is a sequence of
words, and that its handler finds it complete exactly when all of it has come (`Complete`) is proved from the
shapes of the messages; a short write that is repeated leaves a message with another list of IDs of the
same length (`Arrived`). From `Inv`: `TypeCorrect`; `StaysInStep` (`InStep`): no stray word is left
for the next call; `ImplementsPromise` (`KeepsPromise`): every step is a step of `IdService` or none. That the
answers of the child are what `IdService` calls an answer needs the loops that collect messages and IDs
(`Collects`, by `Iteration`). There is no bound on clients, lists or requests in it. `ParentGoesOn`: wait statuses
of children are 0 or a signal, and the exit code of each is 0 or 1.

**HistoryProofs.** The operators of `GitHistory`, `CommitHistory` and `TemplateHash` are recursive
functions of trees, of ranges of a search, and of lists. That each is defined by its equation is proved
first: by induction over the height of trees (`PairInduction`, from `TreesUpTo` in `HistoryAssumption`,
which says that trees are finite and none is below itself) for `diffTree` and `Files`, over the
length of a range for the two searches by halves (`LooseExists`, `SearchExists`), and over the length of a
list for `FlattenSeq`. `Sorted` counts the elements below, so its order is that of ranks (`RankOrder`).

`DiffRebuilds` is the fact about the difference of two trees: its changes are in the order of
their pathnames, one per file, and lead from the files of the one tree to those of the other. With
`ReadInv` (what was read is the commits of the history, backward until the list is reversed) it gives
`ChangesRebuild` (`ChangesRebuildTrees`). `SearchesMissLittle` (`SearchesMissOnlyTheSkew`) needs no more of
the times than the two checks of `readRepositoryCommits`: they put every two commits in order but for the
skew (`NearlyInOrder`), whatever their distance, and a search that is misled by less than that ends
within it (`LastCommitBut`).

`VersionsLinked` (`VersionsAreLinked`) puts three things together. The binary search of `findChange` finds
the change of a file whenever there is one (`ChangeFound`), as `strcmp` orders the changes when no
file is in the root; so what a search finds in a commit is decided by the versions before and after it
(`FoundInCommit`). Going back from a commit, the last removal in reach is the one behind the last
version (`RemovalFound`), and the last update is the one that brought the version that is there
(`UpdateFound`). And `DoneInv` says that a detector that has ended has made the pairs of every change,
and one at work those of every change that is not in `todo` any more.

For the tools, `TypesInv` has the types, and `CacheInv` says what is recorded: a hash leads to the oldest
blob of a repository that has it (`FirstHash`), which stays so when the history grows (`FirstStays`); the
same holds of every whole record of the cache file, of what a run has loaded from it, and of an answer.
A file with a cut record has an odd length, or lost the record as a whole; runs that come later append behind
it, and the assertion on the length keeps it from being read. A second cut makes the length even with the
records misplaced, so `CacheInv` needs `MaxCuts <= 1`, and with it `LoaderTypes` (`LoaderTypeOK`) and
`OldestAnswers` (`AnswersAreOldest`). The latter also needs that files with one hash have the same
messages at the same numbers, although the hash is one of the dump, which leaves obsolete messages out of a list
that `readMessages` counts otherwise (`KeptTogether`, `HashOfTemplate`).

Assumed of the constants: that trees and histories are what Git gives (`HistoryAssumption`,
`HistoriesAssumption`), that messages have the fields that the parser fills (`ContentsAssumption`), that
inputs and blobs have contents and the repositories of translations are among the histories
(`LoaderAssumption`).

Left to TLC: all liveness (`CallsEnd`, `ChildrenEnd`, `AllRecorded`, `WalkReturnsAll`), which is out
of the prover's reach. Every other property of a passing run is a theorem. The runs with a counterexample
say what must not be proved: `CollapsedStayCollapsed` fails with one updater, `LoopAssertionHolds` with two,
`RangesDisjoint` with two requests, and so `OneUpdater` and `RangesDisjointUnlessRaced` are as weak as they can be.

## 5. Where the code and its comments disagree

* `mappedfile.cpp:162`: `addRow` writes the rows of its two arguments only. After `addRow(4, 3)` and
  `addRow(4, 2)` the IDs 3 and 4 are no longer collapsed, although the comment at line 137 speaks of
  the minimum of *those that are collapsed*. Writing the rows of the two ends of the chains would
  keep them together.
* `mappedfile.cpp:142`: the assertion "avoiding infinite loop" holds with one updater, and fails with
  two, which nothing excludes: a row that `normalizeDatabase` found without a link, and that the
  other updater links before line 190 tests it again, is written to lead to itself.
* `iddiff.cpp:1226`: `acceptTranslation` inserts before it moves the other translation, and so fails
  the assertion of `insertAdded` in exactly the case that the comment at line 1205 describes.
* `version1.rb:107`: choosing an ID and inserting the document are two calls; the guard of `Sif`
  ("only one instance ... to prevent conflicting changes", `sif-lib.rb:36`) is per process.
* `translationcontent.cpp:549`: `writeToFile` parses the file again for every message and cannot see
  the edits, so that `idpatch` changes no translation, although the call at `iddiff.cpp:868` is there
  "for writing all changes to .po files".

The runs of these five end in a counterexample. Others are part of what the passing runs explore; the
action or property that shows them is in parentheses:

* `iddiff.cpp:61`, `:1197`: asking for a comment inserts a null entry. `involvedIds` returns its ID
  against its documentation (`iddiff.h:62`), and the next loop over the entries dereferences it
  (`clearReviewComment`, `reviewCommentText`).
* `tcpcommandserver.cpp:29`: when a client is lost within a command, the handler of the exception
  answers on a connection that is marked as closing, and the child aborts (`clientDisconnected`).
* `stupids-client.cpp:124`: a short write is continued from the start of the buffer (`sendToServer`,
  `torn`).
* `stupidsdatabase.cpp:51`: the assertion on the answer of lw-server fails for a template that it does
  not know, and for one order of the keys (`lookupAsserts`).
* `repository.cpp:412`: the search by halves can return an older commit than the last one before the
  time (`SearchesMissOnlyTheSkew` says by how much); `repository.cpp:434`: a file that was removed is
  found (`findFileOidByTime`).
* `commit.cpp:66`: with files in the root of a repository the changes are not in the order
  `findChange` searches by (`VersionsAreLinked` leaves such repositories out).
* `idpatch.cpp:25`: `idpatch` loads the file that is named like its mode (`loadIddiff` of `Patch`).
* `iddiff.cpp:323`: `set_difference` is given `b.begin()` twice and subtracts nothing.
* `iddiffrepo.cpp:100`: the pointer is used before it is tested (`diffAgainst`).
* `gitloader.cpp:98`: the oldest version is that of one repository, and the answer is kept when an
  older one arrives (`AnswersAreOldest` states what holds).

## 6. Not modelled

What is left of the repository, and why:

* `GraphCondenser` is reached from `clusterStats` only, whose call, like that of `generateGraphviz`, is
  commented out, and `dumpOids` from there; so are the call of `getCurrentIdsVector` and the whole body
  of `copyTranslationsFrom`, so that the part of `iddiff-repo` that fills a template is left out.
* The comments of messages when two files are diffed or merged (`diffTrComments*`,
  `mergeTrComments`), subject, authors and dates of an .iddiff: sets of lines and texts that no
  other decision depends on. What `idpatch` does with comments is in `Patch`.
* `try-fill-tr` writes two fixed messages to a prototype of a database (`TrDb`) and reads them back.
  `initTransConfl` of the collector joins messages in a map to list those that differ; it keeps nothing.
* The Python helpers: a second, unfinished implementation of diffing and of the client.
* Vendored SHA-1, the exact text of the JSON export, plural forms, parsing of dates and
  configuration: pure functions of a text. A hash is an atom, equal for equal dumps only.
* The graphical front ends and the D-Bus bridge: no state that a property could be about.

What would be worth adding to what is here: two tools at work on one .iddiff file, and the parts of
`WalkReturnsAll` that are not liveness.
