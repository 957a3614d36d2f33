------------------------- MODULE IdAllocationProofs -------------------------
(***************************************************************************)
(* Proofs about IdAllocation, for any number of templates, files, commits, *)
(* scripts and server threads: nothing is lost between the two databases,  *)
(* and IDs are unique, gapless and permanent as far as the code makes them *)
(* so.                                                                     *)
(***************************************************************************)
EXTENDS IdAllocation, TLAPS

\* A request that a script waits for is the only one of that script, and is about the
\* first file of its list.
Attached ==
  /\ \A s \in Slots :
       LET f == request[s].client IN
       f # NoClient => pc[f] = "wait" /\ request[s].tmpl = TpHash[Head(pots[f])]
  /\ \A s, o \in Slots : request[s].client = request[o].client => s = o \/ request[s].client = NoClient

TInv == TypeOK /\ Attached

\* An ID that some template uses
Used(n) == \E u \in Templates : Exists(u) /\ n \in IdsOf(u)

\* The ID a request has chosen comes right behind IDs that are used.
NumberedGapless ==
  \A s \in Slots :
    request[s].stage = "insert" =>
      /\ FirstId <= request[s].next
      /\ \A n \in FirstId..(request[s].next - 1) : Used(n)

GInv == NoGaps /\ NumberedGapless

\* A template that was found or inserted has IDs, on its way to the script and in it.
Acknowledged ==
  /\ \A s \in Slots :
       request[s].status \in Success => request[s].tmpl \in Templates /\ Exists(request[s].tmpl)
  /\ \A f \in Fillers :
       pc[f] = "store" => TpHash[Head(pots[f])] \in Templates /\ Exists(TpHash[Head(pots[f])])

KInv == Acknowledged /\ KnownHasIds

\* The files of the current commit are done or still on the list.
FilesLeft ==
  \A f \in Fillers, c \in Commits :
    pc[f] \in {"pot", "add", "wait", "store"} /\ Current(f, c) =>
      \A k \in DOMAIN Contents[c] :
        \/ Contents[c][k] \in known \cup broken
        \/ \E j \in DOMAIN pots[f] : pots[f][j] = Contents[c][k]

CInv ==
  /\ FilesLeft
  /\ ProcessedIsDone
  /\ \A f \in Fillers : pc[f] = "idle" => todo[f] = {}

NoneEmpty == \A t \in Templates : Exists(t) => PotLen[t] > 0

\* One request at a time chooses an ID, behind those of all templates.
NumberedBehind ==
  /\ \A s, o \in Slots : request[s].stage = "insert" /\ request[o].stage = "insert" => s = o
  /\ NoneEmpty =>
       \A s \in Slots :
         request[s].stage = "insert" => \A t \in Templates : Exists(t) => End(t) <= request[s].next

RInv == RangesDisjointUnlessRaced /\ (~raced => NumberedBehind)

-----------------------------------------------------------------------------
\* The rest of a non-empty list: Tail keeps everything but the first element.
LEMMA TailKeeps ==
  ASSUME NEW S, NEW s \in Seq(S), s # <<>>
  PROVE  /\ Tail(s) \in Seq(S)
         /\ Head(s) \in S
         /\ \A j \in DOMAIN s : s[j] = Head(s) \/ \E i \in DOMAIN Tail(s) : Tail(s)[i] = s[j]
<1>1. Len(s) \in Nat /\ Len(s) > 0 /\ DOMAIN s = 1..Len(s)
  OBVIOUS
<1>2. Tail(s) \in Seq(S) /\ Head(s) \in S /\ Head(s) = s[1]
  OBVIOUS
<1>3. DOMAIN Tail(s) = 1..(Len(s) - 1) /\ \A i \in 1..(Len(s) - 1) : Tail(s)[i] = s[i + 1]
  OBVIOUS
<1>4. ASSUME NEW j \in DOMAIN s, s[j] # Head(s)
      PROVE  \E i \in DOMAIN Tail(s) : Tail(s)[i] = s[j]
  <2>1. j \in 2..Len(s)
    BY <1>1, <1>2, <1>4
  <2>2. (j - 1) \in DOMAIN Tail(s) /\ Tail(s)[j - 1] = s[(j - 1) + 1] /\ (j - 1) + 1 = j
    BY <1>1, <1>3, <2>1
  <2> QED  BY <2>2
<1> QED  BY <1>2, <1>4

\* The constants, as the steps use them
LEMMA Constants ==
  /\ FirstId \in Nat /\ FirstId > 0
  /\ PotLen \in [Templates -> Nat]
  /\ \A p \in Pots : TpHash[p] \in Templates \cup {NoHash}
  /\ \A c \in Commits : Contents[c] \in Seq(Pots)
  /\ NoClient \notin Fillers /\ NoHash \notin Templates
  /\ Free \in Request
BY ConstantsAssumption DEF ConstantsAssumption, Free, Request

-----------------------------------------------------------------------------
\* A script that does not wait for the server moves on.
LEMMA ScriptMoves ==
  ASSUME TInv, NEW f \in Fillers, pc[f] # "wait",
         NEW x \in {"idle", "commit", "pot", "add", "store"},
         NEW q \in Seq(Pots), x \in {"add", "store"} => q # <<>>,
         NEW d \in SUBSET Commits,
         pc' = [pc EXCEPT ![f] = x], pots' = [pots EXCEPT ![f] = q],
         todo' = [todo EXCEPT ![f] = d],
         known' \subseteq Pots, broken' \subseteq Pots, processed' \subseteq Commits,
         UNCHANGED <<firstId, request, raced>>
  PROVE  TInv'
<1>1. TypeOK'
  BY DEF TInv, TypeOK
<1>2. Attached'
  BY DEF TInv, TypeOK, Attached
<1> QED  BY <1>1, <1>2 DEF TInv

\* The server works on a request of its own.
LEMMA ServerMoves ==
  ASSUME TInv, NEW s \in Slots, request[s].stage # "free",
         request' \in [Slots -> Request],
         \A o \in Slots \ {s} : request'[o] = request[o],
         request'[s].client = request[s].client, request'[s].tmpl = request[s].tmpl,
         firstId' \in [Templates -> Nat], raced' \in BOOLEAN,
         UNCHANGED <<redis, script>>
  PROVE  TInv'
<1>1. \A o \in Slots : request'[o].client = request[o].client /\ request'[o].tmpl = request[o].tmpl
  OBVIOUS
<1>2. \A o \in Slots : request'[o].stage # "free" => request[o].stage # "free"
  OBVIOUS
<1>3. TypeOK'
  BY <1>1, <1>2 DEF TInv, TypeOK, redis, script
<1>4. Attached'
  BY <1>1 DEF TInv, Attached, script
<1> QED  BY <1>3, <1>4 DEF TInv

\* What Answer does to a request
LEMMA Answered ==
  ASSUME TypeOK, NEW s \in Slots, NEW status \in {0, 201, 422, 500}, Answer(s, status)
  PROVE  /\ request' \in [Slots -> Request]
         /\ \A o \in Slots \ {s} : request'[o] = request[o]
         /\ request'[s].client = request[s].client /\ request'[s].tmpl = request[s].tmpl
         /\ request'[s].stage = "done" /\ request'[s].status = status
<1> DEFINE r == [stage |-> "done", client |-> request[s].client, tmpl |-> request[s].tmpl,
                 next |-> 0, status |-> status]
<1>1. request \in [Slots -> Request] /\ request[s] \in Request
  BY DEF TypeOK
<1>2. r \in Request
  BY <1>1 DEF Request
<1>3. request' = [request EXCEPT ![s] = r]
  BY DEF Answer
<1>4. r.client = request[s].client /\ r.tmpl = request[s].tmpl /\ r.stage = "done" /\ r.status = status
  OBVIOUS
<1> HIDE DEF r
<1> QED  BY <1>1, <1>2, <1>3, <1>4
-----------------------------------------------------------------------------
\* Types, and who waits for what
LEMMA T_Script ==
  ASSUME TInv, NEW f \in Fillers,
         \/ \E r \in Repos : addTemplatesFromRepo(f, r)
         \/ \E p \in Pots : sifAdd(f, p)
         \/ ScriptStep(f)
  PROVE  TInv'
<1> USE DEF redis, script
<1>0. /\ pc[f] \in {"idle", "commit", "pot", "add", "wait", "store"} /\ pots[f] \in Seq(Pots)
      /\ todo[f] \in SUBSET Commits
      /\ known \subseteq Pots /\ broken \subseteq Pots /\ processed \subseteq Commits
      /\ pc[f] \in {"add", "wait", "store"} => pots[f] # <<>>
      /\ pc = [pc EXCEPT ![f] = pc[f]] /\ pots = [pots EXCEPT ![f] = pots[f]]
      /\ todo = [todo EXCEPT ![f] = todo[f]]
      /\ <<>> \in Seq(Pots)
  BY DEF TInv, TypeOK
<1>1. ASSUME NEW r \in Repos, addTemplatesFromRepo(f, r) PROVE TInv'
  <2>1. CommitsOf[r] \ processed \in SUBSET Commits
    BY ConstantsAssumption DEF ConstantsAssumption
  <2> DEFINE d == CommitsOf[r] \ processed
  <2>2. d \in SUBSET Commits /\ todo' = [todo EXCEPT ![f] = d]
    BY <1>1, <2>1 DEF addTemplatesFromRepo
  <2> HIDE DEF d
  <2> QED  BY <1>0, <1>1, <2>2, ScriptMoves DEF addTemplatesFromRepo
<1>2. ASSUME NEW p \in Pots, sifAdd(f, p) PROVE TInv'
  <2>1. <<p>> \in Seq(Pots) /\ <<p>> # <<>>
    OBVIOUS
  <2> QED  BY <1>0, <1>2, <2>1, ScriptMoves DEF sifAdd
<1>3. ASSUME nextCommit(f) PROVE TInv'
  <2>1. CASE todo[f] = {} /\ Leave(f)
    BY <1>0, <1>3, <2>1, ScriptMoves DEF nextCommit, Leave
  <2>2. ASSUME NEW c \in Commits, pots' = [pots EXCEPT ![f] = Contents[c]],
               pc' = [pc EXCEPT ![f] = "pot"], UNCHANGED todo
        PROVE  TInv'
    <3>1. Contents[c] \in Seq(Pots)
      BY Constants
    <3> QED  BY <1>0, <1>3, <2>2, <3>1, ScriptMoves DEF nextCommit
  <2> QED  BY <1>3, <2>1, <2>2 DEF nextCommit
<1>4. ASSUME NextPot(f), pots[f] # <<>>, pc[f] # "wait",
             known' \subseteq Pots, broken' \subseteq Pots,
             UNCHANGED <<firstId, processed, request, raced>>
      PROVE  TInv'
  <2>1. Tail(pots[f]) \in Seq(Pots) /\ pots' = [pots EXCEPT ![f] = Tail(pots[f])]
    BY <1>0, <1>4, TailKeeps DEF NextPot
  <2>2. PICK x \in {"idle", "pot"} : pc' = [pc EXCEPT ![f] = x]
    BY <1>4 DEF NextPot
  <2>3. UNCHANGED todo /\ processed' \subseteq Commits
    BY <1>0, <1>4 DEF NextPot
  <2> HIDE DEF redis, script
  <2> QED  BY <1>0, <1>4, <2>1, <2>2, <2>3, ScriptMoves
<1>5. ASSUME checkPot(f) PROVE TInv'
  <2>1. pots[f] # <<>> /\ pc[f] = "pot" /\ UNCHANGED <<firstId, known, processed, request, raced>>
    BY <1>5 DEF checkPot
  <2>2. Head(pots[f]) \in Pots
    BY <1>0, <2>1, TailKeeps
  <2>3. CASE Head(pots[f]) \in Broken
    <3>1. broken' \subseteq Pots /\ NextPot(f)
      BY <1>0, <1>5, <2>2, <2>3 DEF checkPot
    <3> QED  BY <1>0, <1>4, <2>1, <3>1
  <2>4. CASE Head(pots[f]) \notin Broken
    <3>1. pc' = [pc EXCEPT ![f] = "add"] /\ UNCHANGED <<broken, todo, pots>>
      BY <1>5, <2>4 DEF checkPot
    <3> QED  BY <1>0, <2>1, <3>1, ScriptMoves
  <2> QED  BY <2>3, <2>4
<1>6. ASSUME addKnown(f) PROVE TInv'
  <2>1. pc[f] = "add" /\ NextPot(f) /\ UNCHANGED <<firstId, known, broken, processed, request, raced>>
    BY <1>6 DEF addKnown
  <2> QED  BY <1>0, <1>4, <2>1
<1>7. ASSUME hset(f) PROVE TInv'
  <2>1. /\ pc[f] = "store" /\ NextPot(f) /\ UNCHANGED <<firstId, broken, processed, request, raced>>
        /\ known' = known \cup {Head(pots[f])}
    BY <1>7 DEF hset
  <2>2. known' \subseteq Pots
    BY <1>0, <2>1, TailKeeps
  <2> QED  BY <1>0, <1>4, <2>1, <2>2
<1>8. ASSUME addToProcessedList(f) PROVE TInv'
  <2>1. PICK c \in Commits : processed' = processed \cup {c} /\ todo' = [todo EXCEPT ![f] = @ \ {c}]
    BY <1>8 DEF addToProcessedList
  <2> DEFINE d == todo[f] \ {c}
  <2>2. d \in SUBSET Commits /\ todo' = [todo EXCEPT ![f] = d] /\ processed' \subseteq Commits
    BY <1>0, <2>1
  <2> HIDE DEF d
  <2> QED  BY <1>0, <1>8, <2>2, ScriptMoves DEF addToProcessedList
<1> QED  BY <1>1, <1>2, <1>3, <1>5, <1>6, <1>7, <1>8 DEF ScriptStep

\* addTemplate keeps the types, and attaches one request to its script.
LEMMA T_addTemplate ==
  ASSUME TInv, NEW f \in Fillers, addTemplate(f)
  PROVE  TInv'
<1>1. pc[f] = "add" /\ pots[f] \in Seq(Pots) /\ pots[f] # <<>> /\ Head(pots[f]) \in Pots
  BY TailKeeps DEF addTemplate, TInv, TypeOK
<1>2. CASE Leave(f) /\ UNCHANGED request
  <2>1. <<>> \in Seq(Pots) /\ {} \in SUBSET Commits
    OBVIOUS
  <2>2. known' \subseteq Pots /\ broken' \subseteq Pots /\ processed' \subseteq Commits
    BY DEF addTemplate, redis, TInv, TypeOK
  <2> QED  BY <1>1, <1>2, <2>1, <2>2, ScriptMoves DEF addTemplate, Leave, redis
<1>3. ASSUME NEW s \in Slots, request[s] = Free, TpHash[Head(pots[f])] # NoHash,
             request' = [request EXCEPT ![s] = [stage |-> "exists", client |-> f,
                           tmpl |-> TpHash[Head(pots[f])], next |-> 0, status |-> 0]],
             pc' = [pc EXCEPT ![f] = "wait"], UNCHANGED <<todo, pots>>
      PROVE  TInv'
  <2> DEFINE r == [stage |-> "exists", client |-> f, tmpl |-> TpHash[Head(pots[f])],
                   next |-> 0, status |-> 0]
  <2>1. TpHash[Head(pots[f])] \in Templates
    BY <1>1, <1>3, Constants
  <2>2. r \in Request /\ r.client = f /\ r.tmpl = TpHash[Head(pots[f])]
    BY <2>1 DEF Request
  <2>3. request' = [request EXCEPT ![s] = r]
    BY <1>3
  <2> HIDE DEF r
  <2>4. request \in [Slots -> Request] /\ pc \in [Fillers -> {"idle", "commit", "pot", "add", "wait", "store"}]
    BY DEF TInv, TypeOK
  <2>5. TypeOK'
    BY <1>1, <1>3, <2>1, <2>2, <2>3 DEF TInv, TypeOK, addTemplate, redis
  <2>6. \A o \in Slots : request[o].client # f
    BY <1>1, Constants DEF TInv, Attached
  <2>7. Attached'
    BY <1>1, <1>3, <2>2, <2>3, <2>4, <2>6, Constants DEF TInv, Attached
  <2> QED  BY <2>5, <2>7 DEF TInv
<1> QED  BY <1>2, <1>3 DEF addTemplate

\* Kill detaches the request of the script.
LEMMA T_Kill ==
  ASSUME TInv, NEW f \in Fillers, Kill(f)
  PROVE  TInv'
<1>0. \A r \in Request : [r EXCEPT !.client = NoClient] \in Request
  BY DEF Request
<1>1. \A s \in Slots : [request[s] EXCEPT !.client = NoClient] \in Request
  BY <1>0 DEF TInv, TypeOK
<1>2. \A s \in Slots :
        /\ [request[s] EXCEPT !.client = NoClient].client = NoClient
        /\ [request[s] EXCEPT !.client = NoClient].tmpl = request[s].tmpl
        /\ [request[s] EXCEPT !.client = NoClient].stage = request[s].stage
  BY DEF TInv, TypeOK, Request
<1>3. /\ request' \in [Slots -> Request]
      /\ \A s \in Slots :
           /\ request'[s].tmpl = request[s].tmpl /\ request'[s].stage = request[s].stage
           /\ request'[s].client # f
           /\ request'[s].client \in {request[s].client, NoClient}
  BY <1>1, <1>2, Constants DEF Kill, TInv, TypeOK
<1>4. TypeOK'
  BY <1>3 DEF Kill, Leave, TInv, TypeOK, redis
<1>5. Attached'
  BY <1>3 DEF Kill, Leave, TInv, TypeOK, Attached
<1> QED  BY <1>4, <1>5 DEF TInv

\* The steps of a request on the server keep the types and the attachment.
LEMMA T_Server ==
  ASSUME TInv, NEW s \in Slots, checkExists(s) \/ getNextId(s) \/ insert(s) \/ mongoFails(s)
  PROVE  TInv'
<1>0. /\ request \in [Slots -> Request] /\ request[s] \in Request /\ raced \in BOOLEAN
      /\ firstId \in [Templates -> Nat] /\ request[s].next \in Nat
      /\ request[s].stage # "free" => request[s].tmpl \in Templates
  BY DEF TInv, TypeOK, Request
<1>1. ASSUME NEW status \in {0, 201, 422, 500}, Answer(s, status), request[s].stage # "free",
             firstId' \in [Templates -> Nat], UNCHANGED <<redis, script, raced>>
      PROVE  TInv'
  <2>1. TypeOK /\ raced' \in BOOLEAN
    BY <1>0, <1>1 DEF TInv
  <2> QED  BY <1>1, <2>1, Answered, ServerMoves
<1>2. ASSUME NEW r \in Request, r.client = request[s].client, r.tmpl = request[s].tmpl,
             request' = [request EXCEPT ![s] = r], request[s].stage # "free",
             firstId' = firstId, raced' \in BOOLEAN, UNCHANGED <<redis, script>>
      PROVE  TInv'
  BY <1>0, <1>2, ServerMoves
<1>3. ASSUME checkExists(s) PROVE TInv'
  <2>1. CASE Exists(request[s].tmpl)
    <3>1. Answer(s, 422) /\ request[s].stage # "free" /\ firstId' = firstId /\ UNCHANGED <<redis, script, raced>>
      BY <1>3, <2>1 DEF checkExists
    <3> QED  BY <1>0, <1>1, <3>1
  <2>2. CASE ~Exists(request[s].tmpl)
    <3> DEFINE r == [request[s] EXCEPT !.stage = "next"]
    <3>1. r \in Request /\ r.client = request[s].client /\ r.tmpl = request[s].tmpl
      BY <1>0 DEF Request
    <3>2. request' = [request EXCEPT ![s] = r]
      BY <1>3, <2>2 DEF checkExists
    <3> HIDE DEF r
    <3> QED  BY <1>0, <1>2, <1>3, <3>1, <3>2 DEF checkExists
  <2> QED  BY <2>1, <2>2
<1>4. ASSUME getNextId(s) PROVE TInv'
  <2>1. PICK n \in {FirstId} \cup {End(t) : t \in Templates} :
          request' = [request EXCEPT ![s] = [stage |-> "insert", client |-> @.client,
                                               tmpl |-> @.tmpl, next |-> n, status |-> 0]]
    BY <1>4 DEF getNextId
  <2>2. n \in Nat
    BY <1>0, Constants DEF End
  <2> DEFINE r == [stage |-> "insert", client |-> request[s].client, tmpl |-> request[s].tmpl,
                   next |-> n, status |-> 0]
  <2>3. r \in Request /\ r.client = request[s].client /\ r.tmpl = request[s].tmpl
    BY <1>0, <2>2 DEF Request
  <2>4. request' = [request EXCEPT ![s] = r]
    BY <2>1
  <2>5. raced' \in BOOLEAN
    BY <1>0, <1>4 DEF getNextId
  <2> HIDE DEF r
  <2> QED  BY <1>0, <1>2, <1>4, <2>3, <2>4, <2>5 DEF getNextId
<1>5. ASSUME insert(s) \/ mongoFails(s) PROVE TInv'
  <2>1. /\ \E status \in {0, 201, 422, 500} : Answer(s, status)
        /\ request[s].stage # "free"
        /\ UNCHANGED <<redis, script, raced>>
    BY <1>5 DEF insert, mongoFails
  <2>2. firstId' \in [Templates -> Nat]
    BY <1>0, <1>5 DEF insert, mongoFails
  <2> QED  BY <1>1, <2>1, <2>2
<1> QED  BY <1>3, <1>4, <1>5

\* respond frees the request that its script waited for.
LEMMA T_respond ==
  ASSUME TInv, NEW s \in Slots, respond(s)
  PROVE  TInv'
<1> DEFINE f == request[s].client
<1>1. request' \in [Slots -> Request] /\ \A o \in Slots \ {s} : request'[o] = request[o]
  BY Constants DEF respond, TInv, TypeOK
<1>2. request'[s].client = NoClient /\ request'[s].stage = "free"
  BY DEF respond, TInv, TypeOK, Free
<1>3. CASE f = NoClient
  <2>1. UNCHANGED script
    BY <1>3 DEF respond
  <2>2. TypeOK'
    BY <1>1, <1>2, <2>1 DEF respond, TInv, TypeOK, redis, script
  <2>3. Attached'
    BY <1>1, <1>2, <2>1 DEF TInv, Attached, script
  <2> QED  BY <2>2, <2>3 DEF TInv
<1>4. CASE f # NoClient
  <2>1. f \in Fillers /\ pc[f] = "wait" /\ pots[f] # <<>>
    BY <1>4 DEF TInv, TypeOK, Attached, Request
  <2>2. \A o \in Slots \ {s} : request'[o].client # f
    BY <1>1, <1>4 DEF TInv, Attached
  <2>3. \/ pc' = [pc EXCEPT ![f] = "store"] /\ UNCHANGED <<todo, pots>>
        \/ Leave(f)
    BY <1>4 DEF respond
  <2> HIDE DEF f
  <2>4. TypeOK'
    <3>0. UNCHANGED <<firstId, redis, raced>>
      BY DEF respond
    <3>1. \A o \in Slots : request'[o].stage # "free" => request'[o].tmpl \in Templates
      BY <1>1, <1>2 DEF TInv, TypeOK
    <3>2. <<>> \in Seq(Pots)
      OBVIOUS
    <3>3. CASE pc' = [pc EXCEPT ![f] = "store"] /\ UNCHANGED <<todo, pots>>
      BY <1>1, <2>1, <3>0, <3>1, <3>3 DEF TInv, TypeOK, redis
    <3>4. CASE Leave(f)
      BY <1>1, <2>1, <3>0, <3>1, <3>2, <3>4 DEF Leave, TInv, TypeOK, redis
    <3> QED  BY <2>3, <3>3, <3>4
  <2>5. \A g \in Fillers \ {f} : pc'[g] = pc[g] /\ pots'[g] = pots[g]
    BY <2>3 DEF Leave, TInv, TypeOK
  <2>6. \A o \in Slots : request'[o].client # NoClient =>
          /\ o # s /\ request'[o] = request[o]
          /\ request[o].client \in Fillers \ {f}
    BY <1>1, <1>2, <2>2 DEF TInv, TypeOK, Request
  <2>7. Attached'
    BY <2>5, <2>6 DEF TInv, Attached
  <2> QED  BY <2>4, <2>7 DEF TInv
<1> QED  BY <1>3, <1>4

\* restartServer leaves no request and no script that waits.
LEMMA T_restartServer ==
  ASSUME TInv, restartServer
  PROVE  TInv'
<1>1. /\ request' \in [Slots -> Request]
      /\ \A s \in Slots : request'[s].client = NoClient /\ request'[s].stage = "free"
  BY Constants DEF restartServer, Free
<1>2. TypeOK'
  BY <1>1 DEF restartServer, TInv, TypeOK, redis
<1>3. Attached'
  BY <1>1 DEF Attached
<1> QED  BY <1>2, <1>3 DEF TInv

\* Every step keeps types and attachment.
LEMMA T_Step == TInv /\ [Next]_vars => TInv'
<1> SUFFICES ASSUME TInv, [Next]_vars PROVE TInv'
  OBVIOUS
<1>1. CASE UNCHANGED vars
  BY <1>1 DEF vars, redis, script, TInv, TypeOK, Attached
<1>2. ASSUME NEW f \in Fillers,
             \/ \E r \in Repos : addTemplatesFromRepo(f, r)
             \/ \E p \in ByHand : sifAdd(f, p)
             \/ ScriptStep(f) \/ addTemplate(f) \/ Kill(f)
      PROVE  TInv'
  <2>1. ByHand \subseteq Pots
    BY ConstantsAssumption DEF ConstantsAssumption
  <2> QED  BY <1>2, <2>1, T_Script, T_addTemplate, T_Kill
<1>3. ASSUME NEW s \in Slots, ServerStep(s) PROVE TInv'
  BY <1>3, T_Server, T_respond DEF ServerStep
<1> QED  BY <1>1, <1>2, <1>3, T_restartServer DEF Next

\* Types and attachment hold initially.
LEMMA T_Init == Init => TInv
<1> SUFFICES ASSUME Init PROVE TInv
  OBVIOUS
<1>1. request \in [Slots -> Request] /\ \A s \in Slots : request[s] = Free
  BY Constants DEF Init
<1>2. Free.client = NoClient /\ Free.stage = "free"
  BY DEF Free
<1>3. <<>> \in Seq(Pots)
  OBVIOUS
<1>4. TypeOK
  BY <1>1, <1>2, <1>3 DEF Init, TypeOK
<1>5. Attached
  BY <1>1, <1>2 DEF Attached
<1> QED  BY <1>4, <1>5 DEF TInv
-----------------------------------------------------------------------------
\* The three kinds of steps, as far as the numbering of templates is concerned.
Unnumbered ==
  /\ UNCHANGED <<firstId, raced>>
  /\ \A s \in Slots :
       request'[s].stage = "insert" =>
         request[s].stage = "insert" /\ request'[s].next = request[s].next
         /\ request'[s].tmpl = request[s].tmpl

Chooses(s, n) ==
  /\ NextId(n)
  /\ n \in {FirstId} \cup {End(t) : t \in Templates}
  /\ request[s].stage = "next"
  /\ request'[s].stage = "insert" /\ request'[s].next = n
  /\ \A o \in Slots \ {s} : request'[o] = request[o]
  /\ raced' = (raced \/ \E o \in Slots : request[o].stage = "insert")
  /\ UNCHANGED firstId

Inserts(s) ==
  /\ request[s].stage = "insert"
  /\ request[s].tmpl \in Templates
  /\ ~Exists(request[s].tmpl)
  /\ firstId' = [firstId EXCEPT ![request[s].tmpl] = request[s].next]
  /\ request'[s].stage # "insert"
  /\ \A o \in Slots \ {s} : request'[o] = request[o]
  /\ UNCHANGED raced

\* The steps that matter for the numbering: getNextId chooses an ID, insert and
\* mongoFails write one document, and every other step leaves the documents and the
\* chosen IDs alone.
LEMMA NumberingSteps ==
  ASSUME TInv, [Next]_vars
  PROVE  \/ Unnumbered
         \/ \E s \in Slots : Inserts(s) \/ \E n : Chooses(s, n)
<1>1. ASSUME NEW s \in Slots, NEW status \in {0, 201, 422, 500}, Answer(s, status),
             UNCHANGED <<firstId, raced>>
      PROVE  Unnumbered
  BY <1>1, Answered DEF Unnumbered, TInv
<1>2. ASSUME NEW s \in Slots, Answer(s, 201) \/ Answer(s, 500), request[s].stage = "insert",
             ~Exists(request[s].tmpl), UNCHANGED raced,
             firstId' = [firstId EXCEPT ![request[s].tmpl] = request[s].next]
      PROVE  Inserts(s)
  <2>1. request[s].tmpl \in Templates
    BY <1>2 DEF TInv, TypeOK
  <2>2. request'[s].stage = "done" /\ \A o \in Slots \ {s} : request'[o] = request[o]
    BY <1>2, Answered DEF TInv
  <2> QED  BY <1>2, <2>1, <2>2 DEF Inserts
<1>3. ASSUME UNCHANGED <<firstId, request, raced>> PROVE Unnumbered
  BY <1>3 DEF Unnumbered
<1>4. ASSUME NEW f \in Fillers,
             \/ \E r \in Repos : addTemplatesFromRepo(f, r)
             \/ \E p \in ByHand : sifAdd(f, p)
             \/ ScriptStep(f)
      PROVE  Unnumbered
  BY <1>3, <1>4 DEF addTemplatesFromRepo, sifAdd, ScriptStep, nextCommit, checkPot, addKnown,
                    hset, addToProcessedList
<1>5. ASSUME NEW f \in Fillers, addTemplate(f) PROVE Unnumbered
  <2>1. CASE UNCHANGED request
    BY <1>3, <1>5, <2>1 DEF addTemplate
  <2>2. ASSUME NEW s \in Slots,
               request' = [request EXCEPT ![s] = [stage |-> "exists", client |-> f,
                             tmpl |-> TpHash[Head(pots[f])], next |-> 0, status |-> 0]]
        PROVE  Unnumbered
    <3>1. request'[s].stage = "exists" /\ \A o \in Slots \ {s} : request'[o] = request[o]
      BY <2>2 DEF TInv, TypeOK
    <3> QED  BY <1>5, <3>1 DEF Unnumbered, addTemplate
  <2> QED  BY <1>5, <2>1, <2>2 DEF addTemplate
<1>6. ASSUME NEW f \in Fillers, Kill(f) PROVE Unnumbered
  <2>1. \A r \in Request :
          LET k == [r EXCEPT !.client = NoClient]
          IN  k.stage = r.stage /\ k.next = r.next /\ k.tmpl = r.tmpl
    BY DEF Request
  <2> QED  BY <1>6, <2>1 DEF Kill, Unnumbered, TInv, TypeOK
<1>7. ASSUME NEW s \in Slots, ServerStep(s)
      PROVE  Unnumbered \/ Inserts(s) \/ \E n : Chooses(s, n)
  <2>1. CASE checkExists(s)
    <3>1. CASE Exists(request[s].tmpl)
      BY <1>1, <2>1, <3>1 DEF checkExists
    <3>2. CASE ~Exists(request[s].tmpl)
      <4>1. request'[s].stage = "next" /\ \A o \in Slots \ {s} : request'[o] = request[o]
        BY <2>1, <3>2 DEF checkExists, TInv, TypeOK, Request
      <4> QED  BY <2>1, <4>1 DEF Unnumbered, checkExists
    <3> QED  BY <3>1, <3>2
  <2>2. CASE getNextId(s)
    <3>1. PICK n \in {FirstId} \cup {End(t) : t \in Templates} :
            /\ NextId(n)
            /\ request' = [request EXCEPT ![s] = [stage |-> "insert", client |-> @.client,
                                                 tmpl |-> @.tmpl, next |-> n, status |-> 0]]
      BY <2>2 DEF getNextId
    <3>2. request'[s].stage = "insert" /\ request'[s].next = n
          /\ \A o \in Slots \ {s} : request'[o] = request[o]
      BY <3>1 DEF TInv, TypeOK, Request
    <3>3. Chooses(s, n)
      BY <2>2, <3>1, <3>2 DEF Chooses, getNextId
    <3> QED  BY <3>3
  <2>3. CASE insert(s)
    BY <1>1, <1>2, <2>3 DEF insert
  <2>4. CASE mongoFails(s)
    BY <1>1, <1>2, <2>4 DEF mongoFails
  <2>5. CASE respond(s)
    <3>1. request'[s].stage = "free" /\ \A o \in Slots \ {s} : request'[o] = request[o]
      BY <2>5 DEF respond, Free, TInv, TypeOK
    <3> QED  BY <2>5, <3>1 DEF Unnumbered, respond
  <2> QED  BY <1>7, <2>1, <2>2, <2>3, <2>4, <2>5 DEF ServerStep
<1>8. ASSUME restartServer PROVE Unnumbered
  BY <1>8 DEF restartServer, Unnumbered, Free
<1>9. CASE UNCHANGED vars
  BY <1>3, <1>9 DEF vars
<1> QED  BY <1>4, <1>5, <1>6, <1>7, <1>8, <1>9 DEF Next

-----------------------------------------------------------------------------
\* IDs without gaps
LEMMA G_Step == TInv /\ GInv /\ [Next]_vars => GInv'
<1> SUFFICES ASSUME TInv, GInv, [Next]_vars PROVE GInv'
  OBVIOUS
<1>1. /\ FirstId \in Nat /\ FirstId > 0
      /\ firstId \in [Templates -> Nat] /\ PotLen \in [Templates -> Nat]
      /\ \A s \in Slots : request[s].next \in Nat
  BY Constants DEF TInv, TypeOK, Request
<1>2. CASE Unnumbered
  <2>1. \A n : Used(n) <=> Used(n)'
    BY <1>2 DEF Unnumbered, Used, Exists, IdsOf
  <2>2. NoGaps'
    BY <1>2 DEF Unnumbered, GInv, NoGaps, Exists, IdsOf
  <2>3. NumberedGapless'
    BY <1>2, <2>1 DEF Unnumbered, GInv, NumberedGapless
  <2> QED  BY <2>2, <2>3 DEF GInv
<1>3. ASSUME NEW s \in Slots, NEW n, Chooses(s, n) PROVE GInv'
  <2>1. \A m : Used(m) <=> Used(m)'
    BY <1>3 DEF Chooses, Used, Exists, IdsOf
  <2>2. NoGaps'
    BY <1>3 DEF Chooses, GInv, NoGaps, Exists, IdsOf
  <2>3. FirstId <= n /\ \A m \in FirstId..(n - 1) : Used(m)
    <3>1. CASE n = FirstId
      BY <1>1, <3>1
    <3>2. ASSUME NEW t \in Templates, Exists(t), n = firstId[t] + PotLen[t]
          PROVE  FirstId <= n /\ \A m \in FirstId..(n - 1) : Used(m)
      BY <1>1, <3>2 DEF GInv, NoGaps, Used
    <3> QED  BY <1>3, <3>1, <3>2 DEF Chooses, NextId, End
  <2>4. NumberedGapless'
    BY <1>3, <2>1, <2>3 DEF Chooses, GInv, NumberedGapless
  <2> QED  BY <2>2, <2>4 DEF GInv
<1>4. ASSUME NEW s \in Slots, Inserts(s) PROVE GInv'
  <2> DEFINE t == request[s].tmpl
             m == request[s].next
  <2>1. t \in Templates /\ m \in Nat /\ firstId' = [firstId EXCEPT ![t] = m] /\ firstId[t] = 0
    BY <1>1, <1>4 DEF Inserts, Exists
  <2>2. m >= FirstId /\ \A k \in FirstId..(m - 1) : Used(k)
    BY <1>4 DEF Inserts, GInv, NumberedGapless
  <2> HIDE DEF t, m
  <2>3. \A u \in Templates \ {t} : firstId'[u] = firstId[u]
    BY <1>1, <2>1
  <2>4. firstId'[t] = m
    BY <1>1, <2>1
  <2>5. \A k : Used(k) => Used(k)'
    BY <2>1, <2>3 DEF Used, Exists, IdsOf
  <2>6. \A k \in m..(m + PotLen[t] - 1) : Used(k)'
    BY <1>1, <2>1, <2>2, <2>4 DEF Used, Exists, IdsOf
  <2>7. ASSUME NEW u \in Templates, Exists(u)'
        PROVE  /\ FirstId <= firstId'[u]
               /\ \A k \in FirstId..(firstId'[u] + PotLen[u] - 1) : Used(k)'
    <3>1. CASE u = t
      <4>1. \A k \in FirstId..(m + PotLen[t] - 1) : k \in FirstId..(m - 1) \/ k \in m..(m + PotLen[t] - 1)
        BY <1>1, <2>1
      <4> QED  BY <2>2, <2>4, <2>5, <2>6, <3>1, <4>1
    <3>2. CASE u # t
      <4>1. firstId'[u] = firstId[u] /\ Exists(u)
        BY <2>3, <2>7, <3>2 DEF Exists
      <4> QED  BY <2>5, <4>1 DEF GInv, NoGaps, Used
    <3> QED  BY <3>1, <3>2
  <2>8. NoGaps'
    BY <2>7 DEF NoGaps, Used
  <2>9. NumberedGapless'
    BY <1>4, <2>5 DEF Inserts, GInv, NumberedGapless
  <2> QED  BY <2>8, <2>9 DEF GInv
<1> QED  BY <1>2, <1>3, <1>4, NumberingSteps

\* The invariant of the gapless numbering holds initially.
LEMMA G_Init == Init => GInv
<1> SUFFICES ASSUME Init PROVE GInv
  OBVIOUS
<1>1. \A s \in Slots : request[s].stage # "insert"
  BY DEF Init, Free
<1> QED  BY <1>1 DEF Init, GInv, NoGaps, NumberedGapless, Exists
-----------------------------------------------------------------------------
\* A template that has IDs keeps them.
LEMMA IdsKept ==
  ASSUME TInv, GInv, [Next]_vars
  PROVE  \A t \in Templates : Exists(t) => firstId'[t] = firstId[t] /\ Exists(t)'
<1>1. ASSUME NEW s \in Slots, Inserts(s), NEW t \in Templates, Exists(t)
      PROVE  firstId'[t] = firstId[t]
  BY <1>1 DEF Inserts, TInv, TypeOK
<1>2. ASSUME NEW t \in Templates, Exists(t) PROVE firstId'[t] = firstId[t]
  BY <1>1, <1>2, NumberingSteps DEF Unnumbered, Chooses
<1> QED  BY <1>2 DEF Exists

\* A template whose document has just been written exists.
LEMMA InsertedExists ==
  ASSUME TInv, GInv, NEW s \in Slots, Inserts(s), NEW t \in Templates, t = request[s].tmpl
  PROVE  Exists(t)'
BY Constants DEF Inserts, Exists, TInv, TypeOK, Request, GInv, NumberedGapless

\* Redis and MongoDB agree.
LEMMA K_Step == TInv /\ GInv /\ KInv /\ [Next]_vars => KInv'
<1> SUFFICES ASSUME TInv, GInv, KInv, [Next]_vars PROVE KInv'
  OBVIOUS
<1> USE DEF Success
<1>0. /\ \A t \in Templates : Exists(t) => Exists(t)'
      /\ \A f \in Fillers : pots[f] \in Seq(Pots)
      /\ \A f \in Fillers : pc[f] \in {"add", "wait", "store"} => pots[f] # <<>>
      /\ known \subseteq Pots
      /\ request \in [Slots -> Request]
      /\ \A s \in Slots : request[s].stage # "free" => request[s].tmpl \in Templates
  BY IdsKept DEF TInv, TypeOK
<1> DEFINE
      Requests ==
        \A s \in Slots :
          request[s].status \in {201, 422} => request[s].tmpl \in Templates /\ Exists(request[s].tmpl)
      Stored ==
        \A f \in Fillers :
          pc[f] = "store" => TpHash[Head(pots[f])] \in Templates /\ Exists(TpHash[Head(pots[f])])
<1>1. Requests /\ Stored /\ KnownHasIds
  BY DEF KInv, Acknowledged
<1>2. ASSUME \A s \in Slots :
               request'[s].status \in {201, 422} =>
                 request'[s].status = request[s].status /\ request'[s].tmpl = request[s].tmpl
      PROVE  Requests'
  BY <1>0, <1>1, <1>2 DEF Exists
<1>3. ASSUME \A f \in Fillers : pc'[f] = "store" => pc[f] = "store" /\ pots'[f] = pots[f]
      PROVE  Stored'
  BY <1>0, <1>1, <1>3 DEF Exists
<1>4. ASSUME UNCHANGED known PROVE KnownHasIds'
  BY <1>0, <1>1, <1>4 DEF KnownHasIds, Exists
<1>5. Requests' /\ Stored' /\ KnownHasIds' => KInv'
  BY DEF KInv, Acknowledged
<1> HIDE DEF Requests, Stored
<1>6. ASSUME NEW f \in Fillers,
             \/ \E r \in Repos : addTemplatesFromRepo(f, r)
             \/ \E p \in ByHand : sifAdd(f, p)
             \/ nextCommit(f) \/ checkPot(f) \/ addKnown(f) \/ addToProcessedList(f)
      PROVE  KInv'
  <2>1. UNCHANGED request /\ UNCHANGED known
    BY <1>6 DEF addTemplatesFromRepo, sifAdd, nextCommit, checkPot, addKnown, addToProcessedList,
                redis
  <2>2. pc'[f] # "store" /\ \A g \in Fillers \ {f} : pc'[g] = pc[g] /\ pots'[g] = pots[g]
    BY <1>6 DEF addTemplatesFromRepo, sifAdd, nextCommit, checkPot, addKnown, addToProcessedList,
                NextPot, Leave, TInv, TypeOK
  <2> QED  BY <1>2, <1>3, <1>4, <1>5, <2>1, <2>2
<1>7. ASSUME NEW f \in Fillers, hset(f) PROVE KInv'
  <2>1. UNCHANGED request /\ known' = known \cup {Head(pots[f])} /\ pc[f] = "store"
    BY <1>7 DEF hset
  <2>2. pc'[f] # "store" /\ \A g \in Fillers \ {f} : pc'[g] = pc[g] /\ pots'[g] = pots[g]
    BY <1>7 DEF hset, NextPot, TInv, TypeOK
  <2>3. KnownHasIds'
    BY <1>0, <1>1, <2>1 DEF Stored, KnownHasIds, Exists
  <2> QED  BY <1>2, <1>3, <1>5, <2>1, <2>2, <2>3
<1>8. ASSUME NEW f \in Fillers, addTemplate(f) PROVE KInv'
  <2>1. UNCHANGED known
    BY <1>8 DEF addTemplate, redis
  <2>2. pc'[f] # "store" /\ \A g \in Fillers \ {f} : pc'[g] = pc[g] /\ pots'[g] = pots[g]
    BY <1>8 DEF addTemplate, Leave, TInv, TypeOK
  <2>3. \A s \in Slots : request'[s] = request[s] \/ request'[s].status = 0
    BY <1>0, <1>8 DEF addTemplate
  <2> QED  BY <1>2, <1>3, <1>4, <1>5, <2>1, <2>2, <2>3
<1>9. ASSUME NEW f \in Fillers, Kill(f) PROVE KInv'
  <2>1. UNCHANGED known
    BY <1>9 DEF Kill, redis
  <2>2. pc'[f] # "store" /\ \A g \in Fillers \ {f} : pc'[g] = pc[g] /\ pots'[g] = pots[g]
    BY <1>9 DEF Kill, Leave, TInv, TypeOK
  <2>3. \A r \in Request :
          LET k == [r EXCEPT !.client = NoClient] IN k.status = r.status /\ k.tmpl = r.tmpl
    BY DEF Request
  <2>4. \A s \in Slots : request'[s].status = request[s].status /\ request'[s].tmpl = request[s].tmpl
    BY <1>0, <1>9, <2>3 DEF Kill
  <2> QED  BY <1>2, <1>3, <1>4, <1>5, <2>1, <2>2, <2>4
<1>10. ASSUME NEW s \in Slots, checkExists(s) \/ getNextId(s) \/ insert(s) \/ mongoFails(s)
       PROVE  KInv'
  <2>1. UNCHANGED known /\ UNCHANGED pc /\ UNCHANGED pots
    BY <1>10 DEF checkExists, getNextId, insert, mongoFails, redis, script
  <2>2. request[s].stage # "free" /\ request[s].tmpl \in Templates
    BY <1>0, <1>10 DEF checkExists, getNextId, insert, mongoFails
  <2>3. ASSUME NEW status \in {201, 422, 500}, Answer(s, status),
               status # 500 => Exists(request[s].tmpl) \/ Inserts(s)
        PROVE  Requests'
    <3>1. \A o \in Slots \ {s} : request'[o] = request[o]
      BY <2>3, Answered DEF TInv
    <3>2. request'[s].tmpl = request[s].tmpl /\ request'[s].status = status
      BY <2>3, Answered DEF TInv
    <3>3. status # 500 => firstId'[request[s].tmpl] # 0
      <4>1. CASE Exists(request[s].tmpl)
        BY <1>0, <2>2, <4>1 DEF Exists
      <4>2. CASE Inserts(s)
        BY <2>2, <4>2, InsertedExists DEF Exists
      <4> QED  BY <2>3, <4>1, <4>2
    <3> QED  BY <1>0, <1>1, <2>2, <3>1, <3>2, <3>3 DEF Requests, Exists
  <2>4. CASE checkExists(s)
    <3>1. CASE Exists(request[s].tmpl)
      BY <1>3, <1>4, <1>5, <2>1, <2>3, <2>4, <3>1 DEF checkExists
    <3>2. CASE ~Exists(request[s].tmpl)
      <4>1. request'[s].status = request[s].status /\ request'[s].tmpl = request[s].tmpl
            /\ \A o \in Slots \ {s} : request'[o] = request[o]
        BY <1>0, <2>4, <3>2 DEF checkExists, Request
      <4> QED  BY <1>2, <1>3, <1>4, <1>5, <2>1, <4>1
    <3> QED  BY <3>1, <3>2
  <2>5. CASE getNextId(s)
    <3>1. request'[s].status = 0 /\ \A o \in Slots \ {s} : request'[o] = request[o]
      BY <1>0, <2>5 DEF getNextId
    <3> QED  BY <1>2, <1>3, <1>4, <1>5, <2>1, <3>1
  <2>6. CASE insert(s)
    <3>1. CASE Answer(s, 500)
      BY <1>3, <1>4, <1>5, <2>1, <2>3, <3>1
    <3>2. CASE /\ ~Exists(request[s].tmpl) /\ Answer(s, 201)
               /\ firstId' = [firstId EXCEPT ![request[s].tmpl] = request[s].next]
      <4>1. request'[s].stage = "done" /\ \A o \in Slots \ {s} : request'[o] = request[o]
        BY <3>2, Answered DEF TInv
      <4>2. Inserts(s)
        BY <2>2, <2>6, <3>2, <4>1 DEF insert, Inserts
      <4> QED  BY <1>3, <1>4, <1>5, <2>1, <2>3, <3>2, <4>2
    <3> QED  BY <2>6, <3>1, <3>2 DEF insert
  <2>7. CASE mongoFails(s)
    BY <1>3, <1>4, <1>5, <2>1, <2>3, <2>7 DEF mongoFails
  <2> QED  BY <1>10, <2>4, <2>5, <2>6, <2>7
<1>11. ASSUME NEW s \in Slots, respond(s) PROVE KInv'
  <2> DEFINE f == request[s].client
  <2>1. UNCHANGED known
    BY <1>11 DEF respond, redis
  <2>2. \A o \in Slots : request'[o] = request[o] \/ request'[o].status = 0
    BY <1>0, <1>11 DEF respond, Free
  <2>3. Stored'
    <3>1. CASE pc' = pc /\ pots' = pots
      BY <1>3, <3>1
    <3>2. CASE f # NoClient /\ Leave(f)
      BY <1>3, <3>2 DEF Leave, TInv, TypeOK
    <3>3. CASE f # NoClient /\ request[s].status \in {201, 422}
               /\ pc' = [pc EXCEPT ![f] = "store"] /\ UNCHANGED <<todo, pots>>
      <4>1. request[s].tmpl = TpHash[Head(pots[f])] /\ firstId' = firstId
        BY <1>11, <3>3 DEF respond, TInv, Attached
      <4>2. TpHash[Head(pots[f])] \in Templates /\ Exists(TpHash[Head(pots[f])])
        BY <1>1, <3>3, <4>1 DEF Requests
      <4>3. \A g \in Fillers : g # f => pc'[g] = pc[g] /\ pots'[g] = pots[g]
        BY <3>3 DEF TInv, TypeOK
      <4> HIDE DEF f
      <4> QED  BY <1>1, <3>3, <4>1, <4>2, <4>3 DEF Stored, Exists
    <3> QED  BY <1>11, <3>1, <3>2, <3>3 DEF respond, script
  <2> QED  BY <1>2, <1>4, <1>5, <2>1, <2>2, <2>3
<1>12. ASSUME restartServer PROVE KInv'
  <2>1. UNCHANGED known /\ \A s \in Slots : request'[s].status = 0
    BY <1>12 DEF restartServer, redis, Free
  <2>2. \A f \in Fillers : pc'[f] = "store" => pc[f] = "store" /\ pots'[f] = pots[f]
    BY <1>12 DEF restartServer
  <2> QED  BY <1>2, <1>3, <1>4, <1>5, <2>1, <2>2
<1>13. CASE UNCHANGED vars
  BY <1>2, <1>3, <1>4, <1>5, <1>13 DEF vars, redis, script
<1> QED
  BY <1>6, <1>7, <1>8, <1>9, <1>10, <1>11, <1>12, <1>13 DEF Next, ScriptStep, ServerStep

\* The invariant of the two databases holds initially.
LEMMA K_Init == Init => KInv
<1> SUFFICES ASSUME Init PROVE KInv
  OBVIOUS
<1>1. \A s \in Slots : request[s].status = 0
  BY DEF Init, Free
<1> QED  BY <1>1 DEF Init, KInv, Acknowledged, KnownHasIds, Success
-----------------------------------------------------------------------------
\* No file of a commit is lost.
LEMMA C_Step == TInv /\ CInv /\ [Next]_vars => CInv'
<1> SUFFICES ASSUME TInv, CInv, [Next]_vars PROVE CInv'
  OBVIOUS
<1> DEFINE
      InCommit == {"pot", "add", "wait", "store"}
      Left(f) ==
        \A c \in Commits :
          pc[f] \in InCommit /\ Current(f, c) =>
            \A k \in DOMAIN Contents[c] :
              \/ Contents[c][k] \in known \cup broken
              \/ \E j \in DOMAIN pots[f] : pots[f][j] = Contents[c][k]
      Idle(f) == pc[f] = "idle" => todo[f] = {}
<1>0. /\ pc \in [Fillers -> {"idle", "commit", "pot", "add", "wait", "store"}]
      /\ todo \in [Fillers -> SUBSET Commits]
      /\ pots \in [Fillers -> Seq(Pots)]
      /\ \A f \in Fillers : pc[f] \in {"add", "wait", "store"} => pots[f] # <<>>
  BY DEF TInv, TypeOK
<1>1. (\A f \in Fillers : Left(f) /\ Idle(f)) /\ ProcessedIsDone
  BY DEF CInv, FilesLeft
<1>2. ASSUME \A f \in Fillers : Left(f)' /\ Idle(f)', ProcessedIsDone' PROVE CInv'
  BY <1>2 DEF CInv, FilesLeft
<1>3. ASSUME NEW f \in Fillers, known \subseteq known', broken \subseteq broken',
             \/ pc'[f] = pc[f] /\ todo'[f] = todo[f] /\ pots'[f] = pots[f]
             \/ pc'[f] = "idle" /\ todo'[f] = {}
             \/ pc[f] \in InCommit /\ pc'[f] \in InCommit /\ todo'[f] = todo[f] /\ pots'[f] = pots[f]
      PROVE  Left(f)' /\ Idle(f)'
  BY <1>1, <1>3 DEF Current
<1>4. ASSUME known \subseteq known', broken \subseteq broken', UNCHANGED processed
      PROVE  ProcessedIsDone'
  BY <1>1, <1>4 DEF ProcessedIsDone
<1>5. ASSUME NEW f \in Fillers, NextPot(f), pots[f] # <<>>, pc[f] \in InCommit,
             known \subseteq known', broken \subseteq broken',
             Head(pots[f]) \in known' \cup broken'
      PROVE  Left(f)' /\ Idle(f)'
  <2>1. pots'[f] = Tail(pots[f]) /\ todo'[f] = todo[f]
        /\ pc'[f] = IF todo[f] = {} THEN "idle" ELSE "pot"
    BY <1>0, <1>5 DEF NextPot
  <2>2. \A j \in DOMAIN pots[f] :
          pots[f][j] = Head(pots[f]) \/ \E i \in DOMAIN Tail(pots[f]) : Tail(pots[f])[i] = pots[f][j]
    BY <1>0, <1>5, TailKeeps
  <2>3. Idle(f)'
    BY <2>1
  <2>4. ASSUME NEW c \in Commits, Current(f, c)', NEW k \in DOMAIN Contents[c]
        PROVE  \/ Contents[c][k] \in known' \cup broken'
               \/ \E j \in DOMAIN pots'[f] : pots'[f][j] = Contents[c][k]
    <3>1. Current(f, c)
      BY <2>1, <2>4 DEF Current
    <3>2. \/ Contents[c][k] \in known \cup broken
          \/ \E j \in DOMAIN pots[f] : pots[f][j] = Contents[c][k]
      BY <1>1, <1>5, <3>1
    <3> QED  BY <1>5, <2>1, <2>2, <3>2
  <2> QED  BY <2>3, <2>4
<1>6. ASSUME NEW f \in Fillers, \A g \in Fillers \ {f} : pc'[g] = pc[g] /\ todo'[g] = todo[g]
                                                        /\ pots'[g] = pots[g],
             Left(f)' /\ Idle(f)', known \subseteq known', broken \subseteq broken',
             UNCHANGED processed
      PROVE  CInv'
  <2> HIDE DEF InCommit, Left, Idle
  <2> QED  BY <1>2, <1>3, <1>4, <1>6
<1>7. ASSUME NEW f \in Fillers, NextPot(f) \/ Leave(f)
      PROVE  \A g \in Fillers \ {f} : pc'[g] = pc[g] /\ todo'[g] = todo[g] /\ pots'[g] = pots[g]
  BY <1>0, <1>7 DEF NextPot, Leave
<1>8. ASSUME NEW f \in Fillers, NEW r \in Repos, addTemplatesFromRepo(f, r) PROVE CInv'
  <2>1. /\ UNCHANGED <<known, broken, processed, pots>> /\ pc'[f] = "commit"
        /\ \A g \in Fillers \ {f} : pc'[g] = pc[g] /\ todo'[g] = todo[g]
    BY <1>0, <1>8 DEF addTemplatesFromRepo, redis
  <2>2. Left(f)' /\ Idle(f)'
    BY <2>1
  <2> HIDE DEF InCommit, Left, Idle
  <2> QED  BY <1>6, <2>1, <2>2
<1>9. ASSUME NEW f \in Fillers, NEW p \in Pots, sifAdd(f, p) PROVE CInv'
  <2>1. /\ UNCHANGED <<known, broken, processed, todo>> /\ pc[f] = "idle" /\ pc'[f] = "add"
        /\ \A g \in Fillers \ {f} : pc'[g] = pc[g] /\ pots'[g] = pots[g]
    BY <1>0, <1>9 DEF sifAdd, redis
  <2>2. Left(f)' /\ Idle(f)'
    BY <1>1, <2>1 DEF Current
  <2> HIDE DEF InCommit, Left, Idle
  <2> QED  BY <1>6, <2>1, <2>2
<1>10. ASSUME NEW f \in Fillers, nextCommit(f) PROVE CInv'
  <2>0. UNCHANGED <<known, broken, processed>>
    BY <1>10 DEF nextCommit, redis
  <2>1. CASE Leave(f)
    <3>1. pc'[f] = "idle" /\ todo'[f] = {}
      BY <1>0, <2>1 DEF Leave
    <3> HIDE DEF InCommit, Left, Idle
    <3> QED  BY <1>3, <1>6, <1>7, <2>0, <2>1, <3>1
  <2>2. ASSUME NEW c \in Commits, Current(f, c), pots' = [pots EXCEPT ![f] = Contents[c]],
               pc' = [pc EXCEPT ![f] = "pot"], UNCHANGED todo
        PROVE  CInv'
    <3>1. \A d \in Commits : Current(f, d)' => d = c
      BY <1>0, <2>2, ConstantsAssumption DEF ConstantsAssumption, Current
    <3>2. pots'[f] = Contents[c] /\ pc'[f] = "pot"
      BY <1>0, <2>2
    <3>3. Left(f)' /\ Idle(f)'
      BY <3>1, <3>2
    <3>4. \A g \in Fillers \ {f} : pc'[g] = pc[g] /\ todo'[g] = todo[g] /\ pots'[g] = pots[g]
      BY <1>0, <2>2
    <3> HIDE DEF InCommit, Left, Idle
    <3> QED  BY <1>6, <2>0, <3>3, <3>4
  <2> QED  BY <1>10, <2>1, <2>2 DEF nextCommit
<1>11. ASSUME NEW f \in Fillers, checkPot(f) \/ addKnown(f) \/ hset(f) PROVE CInv'
  <2>1. /\ pots[f] # <<>> /\ pc[f] \in InCommit /\ UNCHANGED processed
        /\ known \subseteq known' /\ broken \subseteq broken'
    BY <1>0, <1>11 DEF checkPot, addKnown, hset, NextPot, redis
  <2>2. CASE NextPot(f)
    <3>1. \/ Head(pots[f]) \in known' \cup broken'
          \/ pc[f] = "pot" /\ UNCHANGED pots
      <4>1. CASE checkPot(f)
        BY <4>1 DEF checkPot
      <4>2. CASE addKnown(f)
        BY <4>2 DEF addKnown, redis
      <4>3. CASE hset(f)
        BY <4>3 DEF hset
      <4> QED  BY <1>11, <4>1, <4>2, <4>3
    <3>2. CASE Head(pots[f]) \in known' \cup broken'
      <4>1. Left(f)' /\ Idle(f)'
        BY <1>5, <2>1, <2>2, <3>2
      <4> HIDE DEF InCommit, Left, Idle
      <4> QED  BY <1>6, <1>7, <2>1, <2>2, <4>1
    <3>3. CASE pc[f] = "pot" /\ UNCHANGED pots
      <4>1. pots'[f] = Tail(pots[f]) /\ Tail(pots[f]) # pots[f]
        BY <1>0, <2>1, <2>2 DEF NextPot
      <4> QED  BY <3>3, <4>1
    <3> QED  BY <3>1, <3>2, <3>3
  <2>3. CASE pc[f] = "pot" /\ pc' = [pc EXCEPT ![f] = "add"] /\ UNCHANGED <<todo, pots>>
    <3>1. Left(f)' /\ Idle(f)'
      BY <1>0, <1>3, <2>1, <2>3
    <3>2. \A g \in Fillers \ {f} : pc'[g] = pc[g] /\ todo'[g] = todo[g] /\ pots'[g] = pots[g]
      BY <1>0, <2>3
    <3> HIDE DEF InCommit, Left, Idle
    <3> QED  BY <1>6, <2>1, <3>1, <3>2
  <2> QED  BY <1>11, <2>2, <2>3 DEF checkPot, addKnown, hset
<1>12. ASSUME NEW f \in Fillers, addTemplate(f) PROVE CInv'
  <2>1. UNCHANGED <<known, broken, processed>> /\ pc[f] = "add"
    BY <1>12 DEF addTemplate, redis
  <2>2. CASE Leave(f)
    <3>1. pc'[f] = "idle" /\ todo'[f] = {}
      BY <1>0, <2>2 DEF Leave
    <3> HIDE DEF InCommit, Left, Idle
    <3> QED  BY <1>3, <1>6, <1>7, <2>1, <2>2, <3>1
  <2>3. CASE pc' = [pc EXCEPT ![f] = "wait"] /\ UNCHANGED <<todo, pots>>
    <3>1. Left(f)' /\ Idle(f)'
      BY <1>0, <1>3, <2>1, <2>3
    <3>2. \A g \in Fillers \ {f} : pc'[g] = pc[g] /\ todo'[g] = todo[g] /\ pots'[g] = pots[g]
      BY <1>0, <2>3
    <3> HIDE DEF InCommit, Left, Idle
    <3> QED  BY <1>6, <2>1, <3>1, <3>2
  <2> QED  BY <1>12, <2>2, <2>3 DEF addTemplate
<1>13. ASSUME NEW f \in Fillers, addToProcessedList(f) PROVE CInv'
  <2>1. PICK c \in Commits :
          /\ Current(f, c)
          /\ processed' = processed \cup {c}
          /\ todo' = [todo EXCEPT ![f] = @ \ {c}]
    BY <1>13 DEF addToProcessedList
  <2>2. /\ pc[f] = "pot" /\ pots[f] = <<>> /\ UNCHANGED <<known, broken, pots>>
        /\ pc'[f] = "commit" /\ \A g \in Fillers \ {f} : pc'[g] = pc[g]
    BY <1>0, <1>13 DEF addToProcessedList
  <2>3. \A k \in DOMAIN Contents[c] : Contents[c][k] \in known \cup broken
    BY <1>1, <2>1, <2>2
  <2>4. ProcessedIsDone'
    BY <1>1, <2>1, <2>2, <2>3 DEF ProcessedIsDone
  <2>5. Left(f)' /\ Idle(f)'
    BY <2>2
  <2>6. \A g \in Fillers \ {f} : pc'[g] = pc[g] /\ todo'[g] = todo[g] /\ pots'[g] = pots[g]
    BY <1>0, <2>1, <2>2
  <2>7. known \subseteq known' /\ broken \subseteq broken'
    BY <2>2
  <2> HIDE DEF InCommit, Left, Idle
  <2>8. \A g \in Fillers : Left(g)' /\ Idle(g)'
    BY <1>3, <2>5, <2>6, <2>7
  <2> QED  BY <1>2, <2>4, <2>8
<1>14. ASSUME NEW f \in Fillers, Kill(f) PROVE CInv'
  <2>1. pc'[f] = "idle" /\ todo'[f] = {} /\ UNCHANGED <<known, broken, processed>> /\ Leave(f)
    BY <1>0, <1>14 DEF Kill, Leave, redis
  <2> HIDE DEF InCommit, Left, Idle
  <2> QED  BY <1>3, <1>6, <1>7, <2>1
<1>15. ASSUME NEW s \in Slots, ServerStep(s) PROVE CInv'
  <2> DEFINE f == request[s].client
  <2>1. UNCHANGED <<known, broken, processed>>
    BY <1>15 DEF ServerStep, checkExists, getNextId, insert, mongoFails, respond, redis
  <2>2. \/ UNCHANGED <<pc, todo, pots>>
        \/ f # NoClient /\ Leave(f)
        \/ f # NoClient /\ pc' = [pc EXCEPT ![f] = "store"] /\ UNCHANGED <<todo, pots>>
    <3>1. CASE respond(s)
      <4>1. CASE f = NoClient
        BY <3>1, <4>1 DEF respond, script
      <4>2. CASE f # NoClient
        BY <3>1, <4>2 DEF respond
      <4> QED  BY <4>1, <4>2
    <3>2. CASE checkExists(s) \/ getNextId(s) \/ insert(s) \/ mongoFails(s)
      BY <3>2 DEF checkExists, getNextId, insert, mongoFails, script
    <3> QED  BY <1>15, <3>1, <3>2 DEF ServerStep
  <2>3. \A g \in Fillers : Left(g)' /\ Idle(g)'
    <3>1. f # NoClient => f \in Fillers /\ pc[f] = "wait"
      BY DEF TInv, TypeOK, Attached, Request
    <3> HIDE DEF f
    <3>2. CASE UNCHANGED <<pc, todo, pots>>
      <4> HIDE DEF InCommit, Left, Idle
      <4> QED  BY <1>3, <2>1, <3>2
    <3>3. CASE f \in Fillers /\ Leave(f)
      <4>1. pc'[f] = "idle" /\ todo'[f] = {}
        BY <1>0, <3>3 DEF Leave
      <4> HIDE DEF InCommit, Left, Idle
      <4> QED  BY <1>3, <1>7, <2>1, <3>3, <4>1
    <3>4. CASE f \in Fillers /\ pc[f] = "wait" /\ pc' = [pc EXCEPT ![f] = "store"] /\ UNCHANGED <<todo, pots>>
      <4>1. \A g \in Fillers :
              \/ pc'[g] = pc[g] /\ todo'[g] = todo[g] /\ pots'[g] = pots[g]
              \/ pc[g] \in InCommit /\ pc'[g] \in InCommit /\ todo'[g] = todo[g] /\ pots'[g] = pots[g]
        BY <1>0, <3>4
      <4> HIDE DEF InCommit, Left, Idle
      <4> QED  BY <1>3, <2>1, <4>1
    <3> QED  BY <2>2, <3>1, <3>2, <3>3, <3>4
  <2> HIDE DEF InCommit, Left, Idle
  <2> QED  BY <1>2, <1>4, <2>1, <2>3
<1>16. ASSUME restartServer PROVE CInv'
  <2>1. UNCHANGED <<known, broken, processed>>
    BY <1>16 DEF restartServer, redis
  <2>2. \A g \in Fillers :
          \/ pc'[g] = pc[g] /\ todo'[g] = todo[g] /\ pots'[g] = pots[g]
          \/ pc'[g] = "idle" /\ todo'[g] = {}
    BY <1>16 DEF restartServer
  <2> HIDE DEF InCommit, Left, Idle
  <2> QED  BY <1>2, <1>3, <1>4, <2>1, <2>2
<1>17. CASE UNCHANGED vars
  <2>1. UNCHANGED <<known, broken, processed>> /\ UNCHANGED <<pc, todo, pots>>
    BY <1>17 DEF vars, redis, script
  <2> HIDE DEF InCommit, Left, Idle
  <2> QED  BY <1>2, <1>3, <1>4, <2>1
<1>18. ByHand \subseteq Pots
  BY ConstantsAssumption DEF ConstantsAssumption
<1> HIDE DEF InCommit, Left, Idle
<1> QED
  BY <1>8, <1>9, <1>10, <1>11, <1>12, <1>13, <1>14, <1>15, <1>16, <1>17, <1>18
     DEF Next, ScriptStep

\* The invariant of the processed commits holds initially.
LEMMA C_Init == Init => CInv
BY DEF Init, CInv, FilesLeft, ProcessedIsDone
-----------------------------------------------------------------------------
\* Unique IDs
LEMMA R_Step == TInv /\ GInv /\ RInv /\ [Next]_vars => RInv'
<1> SUFFICES ASSUME TInv, GInv, RInv, [Next]_vars PROVE RInv'
  OBVIOUS
<1>0. /\ firstId \in [Templates -> Nat] /\ PotLen \in [Templates -> Nat]
      /\ \A s \in Slots : request[s].next \in Nat
      /\ FirstId \in Nat
  BY Constants DEF TInv, TypeOK, Request
<1>1. CASE Unnumbered
  <2>1. RangesDisjointUnlessRaced'
    BY <1>1 DEF Unnumbered, RInv, RangesDisjointUnlessRaced, RangesDisjoint, Exists, IdsOf
  <2>2. ~raced' => NumberedBehind'
    BY <1>1 DEF Unnumbered, RInv, NumberedBehind, NoneEmpty, Exists, End
  <2> QED  BY <2>1, <2>2 DEF RInv
<1>2. ASSUME NEW s \in Slots, NEW n, Chooses(s, n) PROVE RInv'
  <2>0. firstId' = firstId /\ (raced => raced')
    BY <1>2 DEF Chooses
  <2>1. RangesDisjointUnlessRaced'
    BY <2>0 DEF RInv, RangesDisjointUnlessRaced, RangesDisjoint, Exists, IdsOf
  <2>2. ASSUME ~raced', NoneEmpty, NEW t \in Templates, Exists(t) PROVE End(t) <= n
    <3>1. RangesDisjoint
      BY <2>0, <2>2 DEF RInv, RangesDisjointUnlessRaced, NoneEmpty
    <3>2. PICK u \in Templates : Exists(u) /\ firstId[t] <= firstId[u] /\ n = End(u)
      BY <1>2, <2>2 DEF Chooses, NextId
    <3>3. CASE t = u
      BY <1>0, <3>2, <3>3 DEF End
    <3>4. CASE t # u
      <4>1. PotLen[u] > 0
        BY <2>2, <3>2 DEF NoneEmpty
      <4>2. firstId[u] \in firstId[u]..(firstId[u] + PotLen[u] - 1)
        BY <1>0, <4>1
      <4>3. firstId[u] \notin firstId[t]..(firstId[t] + PotLen[t] - 1)
        BY <2>2, <3>1, <3>2, <3>4, <4>2 DEF RangesDisjoint, IdsOf
      <4>4. firstId[t] + PotLen[t] <= firstId[u]
        BY <1>0, <3>2, <4>3
      <4> QED  BY <1>0, <3>2, <4>4 DEF End
    <3> QED  BY <3>3, <3>4
  <2>3. ASSUME ~raced' PROVE NumberedBehind'
    <3>1. \A o \in Slots : request[o].stage # "insert"
      BY <1>2, <2>3 DEF Chooses
    <3>2. \A o \in Slots : request'[o].stage = "insert" => o = s
      BY <1>2, <3>1 DEF Chooses
    <3>3. request'[s].next = n
      BY <1>2 DEF Chooses
    <3>4. NoneEmpty' => NoneEmpty
      BY <2>0 DEF NoneEmpty, Exists
    <3>5. ASSUME NoneEmpty', NEW t \in Templates, Exists(t)' PROVE End(t)' <= n
      BY <2>0, <2>2, <2>3, <3>4, <3>5 DEF Exists, End
    <3> QED  BY <3>2, <3>3, <3>5 DEF NumberedBehind
  <2> QED  BY <2>1, <2>3 DEF RInv
<1>3. ASSUME NEW s \in Slots, Inserts(s) PROVE RInv'
  <2>0. PICK t \in Templates, m \in Nat : t = request[s].tmpl /\ m = request[s].next
    BY <1>0, <1>3 DEF Inserts
  <2>1. /\ t \in Templates /\ m \in Nat /\ firstId[t] = 0 /\ raced' = raced
        /\ firstId' = [firstId EXCEPT ![t] = m]
    BY <1>0, <1>3, <2>0 DEF Inserts, Exists
  <2>2. ASSUME ~raced PROVE \A o \in Slots : request'[o].stage # "insert"
    BY <1>3, <2>2 DEF Inserts, RInv, NumberedBehind
  <2>3. ASSUME ~raced, NoneEmpty PROVE \A u \in Templates : Exists(u) => End(u) <= m
    BY <1>3, <2>0, <2>3 DEF Inserts, RInv, NumberedBehind
  <2>4. firstId'[t] = m /\ \A u \in Templates \ {t} : firstId'[u] = firstId[u]
    BY <1>0, <2>1
  <2>5. NoneEmpty' => NoneEmpty
    BY <2>1, <2>4 DEF NoneEmpty, Exists
  <2>6. ASSUME ~raced, NoneEmpty' PROVE RangesDisjoint'
    <3>1. RangesDisjoint
      BY <2>5, <2>6 DEF RInv, RangesDisjointUnlessRaced, NoneEmpty
    <3>2. ASSUME NEW u \in Templates, u # t, Exists(u)'
          PROVE  IdsOf(t)' \cap IdsOf(u)' = {}
      <4>1. firstId'[u] = firstId[u] /\ Exists(u)
        BY <2>4, <3>2 DEF Exists
      <4>2. firstId[u] + PotLen[u] <= m
        BY <2>3, <2>5, <2>6, <4>1 DEF End
      <4>3. (m..(m + PotLen[t] - 1)) \cap (firstId[u]..(firstId[u] + PotLen[u] - 1)) = {}
        BY <1>0, <2>1, <4>2
      <4> QED  BY <2>4, <4>1, <4>3 DEF IdsOf
    <3>3. ASSUME NEW u \in Templates, NEW v \in Templates, u # v, Exists(u)', Exists(v)'
          PROVE  IdsOf(u)' \cap IdsOf(v)' = {}
      <4>1. CASE u = t
        BY <3>2, <3>3, <4>1
      <4>2. CASE v = t
        BY <3>2, <3>3, <4>2
      <4>3. CASE u # t /\ v # t
        BY <2>4, <3>1, <3>3, <4>3 DEF RangesDisjoint, Exists, IdsOf
      <4> QED  BY <4>1, <4>2, <4>3
    <3> QED  BY <3>3 DEF RangesDisjoint
  <2>7. RangesDisjointUnlessRaced'
    BY <2>1, <2>6 DEF RangesDisjointUnlessRaced, NoneEmpty
  <2>8. ~raced' => NumberedBehind'
    BY <2>1, <2>2 DEF NumberedBehind
  <2> QED  BY <2>7, <2>8 DEF RInv
<1> QED  BY <1>1, <1>2, <1>3, NumberingSteps

\* The invariant of the disjoint ranges holds initially.
LEMMA R_Init == Init => RInv
<1> SUFFICES ASSUME Init PROVE RInv
  OBVIOUS
<1>1. \A s \in Slots : request[s].stage # "insert"
  BY DEF Init, Free
<1>2. RangesDisjointUnlessRaced
  BY DEF Init, RangesDisjointUnlessRaced, RangesDisjoint, Exists
<1>3. NumberedBehind
  BY <1>1 DEF NumberedBehind
<1> QED  BY <1>2, <1>3 DEF RInv
-----------------------------------------------------------------------------
IInv == TInv /\ GInv /\ KInv /\ CInv /\ RInv

\* The conjunction of the invariants is one of the specification.
LEMMA Inductive == Spec => []IInv
<1>1. Init => IInv
  BY T_Init, G_Init, K_Init, C_Init, R_Init DEF IInv
<1>2. IInv /\ [Next]_vars => IInv'
  BY T_Step, G_Step, K_Step, C_Step, R_Step DEF IInv
<1> QED  BY <1>1, <1>2, PTL DEF Spec

\* The variables keep their types, with any number of scripts and server threads.
THEOREM TypeCorrect == Spec => []TypeOK
<1>1. IInv => TypeOK
  BY DEF IInv, TInv
<1> QED  BY <1>1, Inductive, PTL

\* A file that Redis calls known belongs to a template that has its IDs in MongoDB, wherever
\* scripts, requests or the server stopped.
THEOREM DatabasesAgree == Spec => []KnownHasIds
<1>1. IInv => KnownHasIds
  BY DEF IInv, KInv
<1> QED  BY <1>1, Inductive, PTL

\* No file of a commit that is never looked at again has been lost.
THEOREM NothingLost == Spec => []ProcessedIsDone
<1>1. IInv => ProcessedIsDone
  BY DEF IInv, CInv
<1> QED  BY <1>1, Inductive, PTL

\* Without a race between requests and without empty templates, get_next_id makes IDs unique.
THEOREM IdsUnique == Spec => []RangesDisjointUnlessRaced
<1>1. IInv => RangesDisjointUnlessRaced
  BY DEF IInv, RInv
<1> QED  BY <1>1, Inductive, PTL

\* Races and failures leave no hole in the numbering.
THEOREM Gapless == Spec => []NoGaps
<1>1. IInv => NoGaps
  BY DEF IInv, GInv
<1> QED  BY <1>1, Inductive, PTL

\* Races, failures and retries never renumber a template.
THEOREM Permanent == Spec => IdsAreForever
<1>1. IInv /\ [Next]_vars =>
        [\A t \in Templates : Exists(t) => firstId'[t] = firstId[t]]_firstId
  BY IdsKept DEF IInv
<1> QED  BY <1>1, Inductive, PTL DEF Spec, IdsAreForever
=============================================================================
