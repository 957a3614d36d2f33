---------------------------- MODULE IdAllocation ----------------------------
(***************************************************************************)
(* How templates get their message IDs: the filler scripts                 *)
(* (stupid-id-filler/sif-lib.rb, update.rb) walk the commits of template   *)
(* repositories and post every new template to the calculation server      *)
(* (calcserver-ruby), which gives it the range of IDs after the last one.  *)
(*                                                                         *)
(* The templates are documents of MongoDB; what has been posted, what is   *)
(* broken and which commits are finished is in Redis.  Each access to a    *)
(* database is a step: the server runs its requests on several threads,    *)
(* several scripts may run, and any of them can stop between two steps.    *)
(***************************************************************************)
EXTENDS Integers, Sequences

CONSTANTS
  FirstId,     \* the first ID of the first template, 100 in the code
  Templates,   \* template-part hashes
  NoHash,      \* what calculate_tp_hash gives for a file that cannot be parsed
  NoClient,    \* the client of a request whose script has gone
  PotLen,      \* PotLen[t]: the number of messages of template t, the header aside
  Pots,        \* .pot files, by the hash of their contents
  TpHash,      \* TpHash[p]: the template-part hash of file p
  Broken,      \* the files that is_virgin_pot refuses
  ByHand,      \* the files that somebody adds with sif-add.rb
  Repos,       \* Git repositories of templates
  Commits,     \* commits, numbered in the order in which they were made
  CommitsOf,   \* CommitsOf[r]: the commits of repository r
  Contents,    \* Contents[c]: the .pot files that commit c added or modified
  Fillers,     \* running scripts
  Slots        \* bound: the requests that the server works on at a time

ASSUME ConstantsAssumption ==
  /\ FirstId \in Nat \ {0}
  /\ NoHash \notin Templates
  /\ NoClient \notin Fillers
  /\ PotLen \in [Templates -> Nat]
  /\ TpHash \in [Pots -> Templates \cup {NoHash}]
  /\ Broken \subseteq Pots
  /\ ByHand \subseteq Pots
  /\ \A p \in Pots : TpHash[p] = NoHash => p \in Broken
  /\ Commits \subseteq Nat
  /\ CommitsOf \in [Repos -> SUBSET Commits]
  /\ Contents \in [Commits -> Seq(Pots)]

VARIABLES
  firstId,     \* MongoDB: firstId[t] of template t, 0 when it has no document
  known,       \* Redis, pot_to_tohash: the files whose template has been posted
  broken,      \* Redis, known_broken_pots
  processed,   \* Redis, processed_templates_git_commits
  pc,          \* pc[f]: where script f is
  todo,        \* todo[f]: the commits it has left, the current one included
  pots,        \* pots[f]: the files of the current commit it has left
  request,     \* request[s]: the request on thread s of the server
  raced        \* history: two requests had chosen their IDs and not inserted them

redis == <<known, broken, processed>>
script == <<pc, todo, pots>>
vars == <<firstId, redis, script, request, raced>>

Request == [stage : {"free", "exists", "next", "insert", "done"},
            client : Fillers \cup {NoClient}, tmpl : Templates \cup {NoHash},
            next : Nat, status : {0, 201, 422, 500}]

Free == [stage |-> "free", client |-> NoClient, tmpl |-> NoHash, next |-> 0, status |-> 0]

Init ==
  /\ firstId = [t \in Templates |-> 0]
  /\ known = {} /\ broken = {} /\ processed = {}
  /\ pc = [f \in Fillers |-> "idle"]
  /\ todo = [f \in Fillers |-> {}]
  /\ pots = [f \in Fillers |-> <<>>]
  /\ request = [s \in Slots |-> Free]
  /\ raced = FALSE
-----------------------------------------------------------------------------
\* tp_hash_exists?
Exists(t) == firstId[t] # 0

\* Mutant: the ID after that is taken.
EndPlusOne(t) == firstId[t] + PotLen[t] + 1

\* The ID after the last one of template t
End(t) == firstId[t] + PotLen[t]

\* A script that ends, or is stopped, keeps nothing.
Leave(f) ==
  /\ pc' = [pc EXCEPT ![f] = "idle"]
  /\ todo' = [todo EXCEPT ![f] = {}]
  /\ pots' = [pots EXCEPT ![f] = <<>>]

\* add_templates_from_repo: the commits that are not on the processed list.
addTemplatesFromRepo(f, r) ==
  /\ pc[f] = "idle"
  /\ pc' = [pc EXCEPT ![f] = "commit"]
  /\ todo' = [todo EXCEPT ![f] = CommitsOf[r] \ processed]
  /\ UNCHANGED <<firstId, redis, pots, request, raced>>

\* sif-add.rb: one file, which is not tested with is_virgin_pot.
sifAdd(f, p) ==
  /\ pc[f] = "idle"
  /\ pc' = [pc EXCEPT ![f] = "add"]
  /\ pots' = [pots EXCEPT ![f] = <<p>>]
  /\ UNCHANGED <<firstId, redis, todo, request, raced>>

Current(f, c) == c \in todo[f] /\ \A d \in todo[f] : c <= d

nextCommit(f) ==
  /\ pc[f] = "commit"
  /\ \/ /\ todo[f] = {}
        /\ Leave(f)
     \/ \E c \in Commits :
          /\ Current(f, c)
          /\ pots' = [pots EXCEPT ![f] = Contents[c]]
          /\ pc' = [pc EXCEPT ![f] = "pot"]
          /\ UNCHANGED todo
  /\ UNCHANGED <<firstId, redis, request, raced>>

\* The script goes on behind the first file of its list.
NextPot(f) ==
  /\ pots' = [pots EXCEPT ![f] = Tail(@)]
  /\ pc' = [pc EXCEPT ![f] = IF todo[f] = {} THEN "idle" ELSE "pot"]
  /\ UNCHANGED todo

\* The list of broken files in the script's memory only saves testing a file again, and
\* have_info_for_pot_hash? only skips files that add skips.
checkPot(f) ==
  LET p == Head(pots[f]) IN
  /\ pc[f] = "pot"
  /\ pots[f] # <<>>
  /\ IF p \in Broken
       THEN broken' = broken \cup {p} /\ NextPot(f)
       ELSE pc' = [pc EXCEPT ![f] = "add"] /\ UNCHANGED <<broken, todo, pots>>
  /\ UNCHANGED <<firstId, known, processed, request, raced>>

\* add: the file has already been added.
addKnown(f) ==
  /\ pc[f] = "add"
  /\ Head(pots[f]) \in known
  /\ NextPot(f)
  /\ UNCHANGED <<firstId, redis, request, raced>>

\* add raises for a file without a hash, and posts any other.
addTemplate(f) ==
  LET p == Head(pots[f]) IN
  /\ pc[f] = "add"
  /\ p \notin known
  /\ \/ /\ TpHash[p] = NoHash
        /\ Leave(f)
        /\ UNCHANGED request
     \/ /\ TpHash[p] # NoHash
        /\ \E s \in Slots :
             /\ request[s] = Free
             /\ request' = [request EXCEPT ![s] =
                  [stage |-> "exists", client |-> f, tmpl |-> TpHash[p], next |-> 0, status |-> 0]]
        /\ pc' = [pc EXCEPT ![f] = "wait"]
        /\ UNCHANGED <<todo, pots>>
  /\ UNCHANGED <<firstId, redis, raced>>

\* add, when the server has answered
hset(f) ==
  /\ pc[f] = "store"
  /\ known' = known \cup {Head(pots[f])}
  /\ NextPot(f)
  /\ UNCHANGED <<firstId, broken, processed, request, raced>>

\* Mutant: the commit is put on the list before its last file is done.
addToProcessedListEarly(f) ==
  /\ pc[f] = "pot"
  /\ Len(pots[f]) <= 1
  /\ \E c \in Commits :
       /\ Current(f, c)
       /\ processed' = processed \cup {c}
       /\ todo' = [todo EXCEPT ![f] = @ \ {c}]
  /\ pc' = [pc EXCEPT ![f] = "commit"]
  /\ pots' = [pots EXCEPT ![f] = <<>>]
  /\ UNCHANGED <<firstId, known, broken, request, raced>>

addToProcessedList(f) ==
  /\ pc[f] = "pot"
  /\ pots[f] = <<>>
  /\ \E c \in Commits :
       /\ Current(f, c)
       /\ processed' = processed \cup {c}
       /\ todo' = [todo EXCEPT ![f] = @ \ {c}]
  /\ pc' = [pc EXCEPT ![f] = "commit"]
  /\ UNCHANGED <<firstId, known, broken, pots, request, raced>>

\* Mutant: the request stays the script's.
KillAttached(f) ==
  /\ pc[f] # "idle"
  /\ Leave(f)
  /\ UNCHANGED <<firstId, redis, request, raced>>

\* A script can be killed, or fail to reach a database, at any point; the server goes on
\* with the request it had sent.
Kill(f) ==
  /\ pc[f] # "idle"
  /\ Leave(f)
  /\ request' = [s \in Slots |->
       IF request[s].client = f THEN [request[s] EXCEPT !.client = NoClient] ELSE request[s]]
  /\ UNCHANGED <<firstId, redis, raced>>
-----------------------------------------------------------------------------
\* The request is answered.
Answer(s, status) ==
  request' = [request EXCEPT ![s] = [stage |-> "done", client |-> @.client, tmpl |-> @.tmpl,
                                     next |-> 0, status |-> status]]

checkExists(s) ==
  /\ request[s].stage = "exists"
  /\ IF Exists(request[s].tmpl)
       THEN Answer(s, 422)
       ELSE request' = [request EXCEPT ![s].stage = "next"]
  /\ UNCHANGED <<firstId, redis, script, raced>>

\* Mutant: the templates are sorted the other way round.
NextIdAscending(n) ==
  \/ n = FirstId /\ \A t \in Templates : ~Exists(t)
  \/ \E t \in Templates :
       /\ Exists(t)
       /\ \A u \in Templates : Exists(u) => firstId[t] <= firstId[u]
       /\ n = End(t)

\* get_next_id: after the template with the largest first_id; of several, any may be it.
NextId(n) ==
  \/ n = FirstId /\ \A t \in Templates : ~Exists(t)
  \/ \E t \in Templates :
       /\ Exists(t)
       /\ \A u \in Templates : firstId[u] <= firstId[t]
       /\ n = End(t)

getNextId(s) ==
  /\ request[s].stage = "next"
  /\ \E n \in {FirstId} \cup {End(t) : t \in Templates} :
       /\ NextId(n)
       /\ request' = [request EXCEPT ![s] = [stage |-> "insert", client |-> @.client,
                                            tmpl |-> @.tmpl, next |-> n, status |-> 0]]
  /\ raced' = (raced \/ \E o \in Slots : request[o].stage = "insert")
  /\ UNCHANGED <<firstId, redis, script>>

\* Mutant: the document of a template is replaced instead of refused.
insertUpsert(s) ==
  /\ request[s].stage = "insert"
  /\ Answer(s, 201)
  /\ firstId' = [firstId EXCEPT ![request[s].tmpl] = request[s].next]
  /\ UNCHANGED <<redis, script, raced>>

\* The hash is the key of the document: a second document is refused, and the request fails.
insert(s) ==
  LET t == request[s].tmpl IN
  /\ request[s].stage = "insert"
  /\ \/ Exists(t) /\ Answer(s, 500) /\ UNCHANGED firstId
     \/ ~Exists(t) /\ Answer(s, 201) /\ firstId' = [firstId EXCEPT ![t] = request[s].next]
  /\ UNCHANGED <<redis, script, raced>>

\* A call of MongoDB raises; an insertion may have been done all the same.
mongoFails(s) ==
  LET t == request[s].tmpl IN
  /\ request[s].stage \in {"exists", "next", "insert"}
  /\ Answer(s, 500)
  /\ \/ UNCHANGED firstId
     \/ /\ request[s].stage = "insert"
        /\ ~Exists(t)
        /\ firstId' = [firstId EXCEPT ![t] = request[s].next]
  /\ UNCHANGED <<redis, script, raced>>

\* Mutant: the script takes every answer for a success.
SuccessAny == {201, 422, 500}

\* The answers after which the file counts as added
Success == {201, 422}

\* The answer reaches the script, which raises if it is an error; or nobody waits for it.
respond(s) ==
  LET f == request[s].client IN
  /\ request[s].stage = "done"
  /\ request' = [request EXCEPT ![s] = Free]
  /\ IF f = NoClient THEN UNCHANGED script
     ELSE IF request[s].status \in Success
       THEN pc' = [pc EXCEPT ![f] = "store"] /\ UNCHANGED <<todo, pots>>
       ELSE Leave(f)
  /\ UNCHANGED <<firstId, redis, raced>>

\* The server stops, with the requests it has, and is started again: Faraday raises in
\* the scripts that wait.
restartServer ==
  /\ \E s \in Slots : request[s] # Free
  /\ request' = [s \in Slots |-> Free]
  /\ pc' = [f \in Fillers |-> IF pc[f] = "wait" THEN "idle" ELSE pc[f]]
  /\ todo' = [f \in Fillers |-> IF pc[f] = "wait" THEN {} ELSE todo[f]]
  /\ pots' = [f \in Fillers |-> IF pc[f] = "wait" THEN <<>> ELSE pots[f]]
  /\ UNCHANGED <<firstId, redis, raced>>
-----------------------------------------------------------------------------
ScriptStep(f) ==
  nextCommit(f) \/ checkPot(f) \/ addKnown(f) \/ hset(f) \/ addToProcessedList(f)

ServerStep(s) == checkExists(s) \/ getNextId(s) \/ insert(s) \/ mongoFails(s) \/ respond(s)

Next ==
  \/ \E f \in Fillers :
       \/ \E r \in Repos : addTemplatesFromRepo(f, r)
       \/ \E p \in ByHand : sifAdd(f, p)
       \/ ScriptStep(f) \/ addTemplate(f) \/ Kill(f)
  \/ \E s \in Slots : ServerStep(s)
  \/ restartServer

Spec == Init /\ [][Next]_vars
-----------------------------------------------------------------------------
TypeOK ==
  /\ firstId \in [Templates -> Nat]
  /\ known \subseteq Pots /\ broken \subseteq Pots /\ processed \subseteq Commits
  /\ pc \in [Fillers -> {"idle", "commit", "pot", "add", "wait", "store"}]
  /\ todo \in [Fillers -> SUBSET Commits]
  /\ pots \in [Fillers -> Seq(Pots)]
  /\ request \in [Slots -> Request]
  /\ raced \in BOOLEAN
  /\ \A f \in Fillers : pc[f] \in {"add", "wait", "store"} => pots[f] # <<>>
  /\ \A s \in Slots : request[s].stage # "free" => request[s].tmpl \in Templates

\* The two databases agree: a file that Redis calls known, and will therefore never be
\* posted again, belongs to a template that has its IDs in MongoDB.
KnownHasIds == \A p \in known : TpHash[p] \in Templates /\ Exists(TpHash[p])

\* A commit on the processed list is never looked at again, and none of its files is lost,
\* wherever a script or the server stopped: each is known or broken.
ProcessedIsDone ==
  \A c \in processed : \A k \in DOMAIN Contents[c] : Contents[c][k] \in known \cup broken

IdsOf(t) == firstId[t]..(firstId[t] + PotLen[t] - 1)

\* No two messages get one ID.  Sif forbids a second instance of itself "to prevent
\* conflicting changes".
RangesDisjoint ==
  \A t, u \in Templates : t # u /\ Exists(t) /\ Exists(u) => IdsOf(t) \cap IdsOf(u) = {}

\* No two messages get one ID, as long as no two requests were between choosing an ID and
\* inserting the document at a time, and every template has a message.
RangesDisjointUnlessRaced ==
  ~raced /\ (\A t \in Templates : Exists(t) => PotLen[t] > 0) => RangesDisjoint

\* The IDs are used without gaps, so that the table indexed with them has no holes, whatever
\* requests fail or race.
NoGaps ==
  \A t \in Templates :
    Exists(t) =>
      /\ FirstId <= firstId[t]
      /\ \A n \in FirstId..(firstId[t] + PotLen[t] - 1) : \E u \in Templates : Exists(u) /\ n \in IdsOf(u)

\* A template keeps its IDs: retries and racing requests for one template never renumber it.
IdsAreForever == [][\A t \in Templates : Exists(t) => firstId'[t] = firstId[t]]_firstId
=============================================================================
