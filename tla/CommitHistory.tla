---------------------------- MODULE CommitHistory ----------------------------
(***************************************************************************)
(* The detection of transitions (detectTransitions) and the walk over the  *)
(* blobs of a branch (getCurrentOids), on the repositories of templates:   *)
(* trunk and stable. Each repository is read from HEAD to the root, one    *)
(* commit at a time; then the detectors go through its changes one by one. *)
(***************************************************************************)
EXTENDS GitHistory

CONSTANTS
  Histories,   \* Histories[r]: what the repository may hold, [tree, time] from the root to HEAD
  PoNames      \* the names that end with ".po"

Repos == {"trunk", "stable"}

ASSUME HistoriesAssumption ==
  \A r \in Repos : \A h \in Histories[r] : h # <<>> /\ h \in Seq([tree : Trees, time : Nat])

VARIABLES
  git,          \* git[r]: the commits of the repository, fixed once it is opened
  m_commits,    \* m_commits[r]: the commits that were read, with their changes
  m_commitsInit,
  pc,           \* "start", "read", "detect", "walk", "done", "failed"; GitLoader: "search", "answered"
  reads,        \* the repositories that the program has to read now
  detector,     \* the detector that is at work: 1 and 2 for successors, 3 for both branches
  todo,         \* the changes that it has left: [at, change]
  pairs,        \* what addOidPair took
  walked,       \* the repository that is walked, or "none"
  m_stack,      \* the trees that the walk is in: [tree, idx]
  oids          \* the blobs that the walk came to

vars == <<git, m_commits, m_commitsInit, pc, reads, detector, todo, pairs, walked, m_stack, oids>>
readVars == <<m_commits, m_commitsInit>>
detectVars == <<reads, detector, todo, pairs>>
walkVars == <<walked, m_stack, oids>>

Init ==
  /\ git \in [Repos -> UNION {Histories[r] : r \in Repos}] /\ \A r \in Repos : git[r] \in Histories[r]
  /\ m_commits = [r \in Repos |-> <<>>]
  /\ m_commitsInit = [r \in Repos |-> FALSE]
  /\ pc = "start" /\ reads = {}
  /\ detector = 0 /\ todo = <<>> /\ pairs = {}
  /\ walked = "none" /\ m_stack = <<>> /\ oids = <<>>

(* The repositories that a detector reads; it goes through the changes of the first. *)
Reads(d) == <<<<"trunk">>, <<"stable">>, <<"trunk", "stable">>>>[d]

detectTransitions ==
  /\ pc = "start" /\ pc' = "read" /\ detector' = 1 /\ reads' = Range(Reads(1))
  /\ UNCHANGED <<git, readVars, todo, pairs, walkVars>>

(* readRepositoryCommits returns at once when the repository has been read. *)
Reading(r) == pc \in {"read", "search"} /\ r \in reads /\ ~m_commitsInit[r]

(* diffCommit: the next commit on the way to the root, against its parent. *)
diffCommit(r) ==
  LET n       == Len(git[r]) - Len(m_commits[r])
      parent  == IF n = 1 THEN Empty ELSE git[r][n - 1].tree
      changes == diffTree[<<parent, git[r][n].tree, <<>>>>]
  IN  /\ Reading(r) /\ n > 0
      /\ IF \E i \in DOMAIN changes : AttributesChange(changes[i])
         THEN pc' = "failed" /\ UNCHANGED m_commits
         ELSE /\ m_commits' = [m_commits EXCEPT ![r] = Append(@, [time |-> git[r][n].time, changes |-> changes])]
              /\ UNCHANGED pc
      /\ UNCHANGED <<git, m_commitsInit, detectVars, walkVars>>

(* The list is reversed and the times are checked. With a single commit, size() - 2 wraps round *)
(* and the check runs off the end of the vector.                                                *)
commitsRead(r) ==
  /\ Reading(r) /\ Len(m_commits[r]) = Len(git[r])
  /\ m_commits' = [m_commits EXCEPT ![r] = Reverse(@)]
  /\ IF Len(git[r]) > 1 /\ TimesInOrder(Reverse(m_commits[r]))
     THEN m_commitsInit' = [m_commitsInit EXCEPT ![r] = TRUE] /\ UNCHANGED pc
     ELSE pc' = "failed" /\ UNCHANGED m_commitsInit
  /\ UNCHANGED <<git, detectVars, walkVars>>

(* doDetect *)
ChangesOf(commits) ==
  FlattenSeq([i \in DOMAIN commits |->
    [j \in DOMAIN commits[i].changes |-> [at |-> i, change |-> commits[i].changes[j]]]])

doDetect ==
  /\ pc = "read" /\ \A r \in reads : m_commitsInit[r]
  /\ pc' = "detect" /\ todo' = ChangesOf(m_commits[Reads(detector)[1]])
  /\ UNCHANGED <<git, readVars, reads, detector, pairs, walkVars>>

(* Mutant of OidPairs: the older version goes first. *)
OidPairsByAge(oid, others) == {<<oid, o>> : o \in others \ {oid, 0}}

(* addOidPair: the smaller hash goes first; no pair of a blob with itself. 0 is no blob. *)
OidPairs(oid, others) ==
  {<<Min({oid, o}), Max({oid, o})>> : o \in others \ {oid, 0}}

(* findByOrigin, findByDestination *)
MovedTo(file) == {e.dest : e \in {x \in Transitions : x.cmd \in {"move", "merge"} /\ x.orig = file}}
CopiedFrom(file) == {e.orig : e \in {x \in Transitions : x.cmd = "copy" /\ x.dest = file}}

(* DetectorSuccessors::processChange *)
SuccessorPairs(commits, at, c) ==
  CASE type(c) = "MOD" -> OidPairs(c.oid1, {c.oid2})
    [] type(c) = "DEL" ->
         OidPairs(c.oid1, {findNextUpdateOid(commits, Max({at - MoveBack, 1}), f) : f \in MovedTo(c.file)})
    [] OTHER ->
         OidPairs(c.oid2, {findLastRemovalOid(commits, at - 1, c.file)}
                          \cup {findLastUpdateOid(commits, at, f) : f \in CopiedFrom(c.file)})

(* DetectorInterBranch::processChange *)
InterBranchPairs(commits, other, at, c) ==
  IF type(c) = "DEL" THEN {}
  ELSE OidPairs(c.oid2, {findFileOidByTime(other, commits[at].time, c.file),
                         findFileOidByTime(other, commits[at].time + Later, c.file)})

processChange ==
  /\ pc = "detect" /\ todo # <<>>
  /\ LET commits == m_commits[Reads(detector)[1]]
         at      == Head(todo).at
         c       == Head(todo).change
     IN  pairs' = pairs \cup IF detector < 3 THEN SuccessorPairs(commits, at, c)
                                             ELSE InterBranchPairs(commits, m_commits["stable"], at, c)
  /\ todo' = Tail(todo)
  /\ UNCHANGED <<git, readVars, pc, reads, detector, walkVars>>

nextDetector ==
  /\ pc = "detect" /\ todo = <<>>
  /\ IF detector < 3 THEN detector' = detector + 1 /\ reads' = Range(Reads(detector + 1)) /\ pc' = "read"
                     ELSE pc' = "done" /\ UNCHANGED <<reads, detector>>
  /\ UNCHANGED <<git, readVars, todo, pairs, walkVars>>

---------------------------------------------------------------------------

(* Repository::getCurrentOids and its blob_iterator *)

Entries(tree) == Sorted(DOMAIN tree, <)

NextEntry(stack) == [stack EXCEPT ![Len(stack)].idx = @ + 1]

(* Mutant of enterDir: the directory is passed when it is entered, and once more when it is left. *)
enterDirAndPass(stack, tree) ==
  Append(IF stack = <<>> THEN stack ELSE NextEntry(stack), [tree |-> tree, idx |-> 1])

(* enterDir: an empty tree is not entered. *)
enterDir(stack, tree) == IF tree = Empty THEN stack ELSE Append(stack, [tree |-> tree, idx |-> 1])

getCurrentOids(r) ==
  /\ pc = "start" /\ pc' = "walk" /\ walked' = r
  /\ m_stack' = enterDir(<<>>, Last(git[r]).tree)
  /\ UNCHANGED <<git, readVars, detectVars, oids>>

Top == m_stack[Len(m_stack)]

(* The directory ends: the walk goes on with the next entry of the one above. *)
leaveDir ==
  /\ pc = "walk" /\ m_stack # <<>> /\ Top.idx > Len(Entries(Top.tree))
  /\ m_stack' = IF Len(m_stack) = 1 THEN <<>> ELSE NextEntry(Front(m_stack))
  /\ UNCHANGED <<git, readVars, detectVars, pc, walked, oids>>

AtEntry(k) == pc = "walk" /\ m_stack # <<>> /\ Top.idx <= Len(Entries(Top.tree)) /\ k = Entries(Top.tree)[Top.idx]

walkDir ==
  \E k \in UNION {DOMAIN t : t \in Trees} :
    /\ AtEntry(k) /\ IsDir(k)
    /\ m_stack' = enterDir(m_stack, Top.tree[k])
    /\ UNCHANGED <<git, readVars, detectVars, pc, walked, oids>>

walkBlob ==
  \E k \in UNION {DOMAIN t : t \in Trees} :
    /\ AtEntry(k) /\ ~IsDir(k)
    /\ oids' = IF k \in PoNames THEN Append(oids, Top.tree[k][1]) ELSE oids
    /\ m_stack' = NextEntry(m_stack)
    /\ UNCHANGED <<git, readVars, detectVars, pc, walked>>

walkEnds ==
  /\ pc = "walk" /\ m_stack = <<>>
  /\ pc' = "done"
  /\ UNCHANGED <<git, readVars, detectVars, walkVars>>

WalkStep == leaveDir \/ walkDir \/ walkBlob \/ walkEnds

Next ==
  \/ detectTransitions \/ doDetect \/ processChange \/ nextDetector
  \/ \E r \in Repos : diffCommit(r) \/ commitsRead(r) \/ getCurrentOids(r)
  \/ WalkStep

(* A program that walks goes on. *)
Spec == Init /\ [][Next]_vars /\ WF_vars(WalkStep)

---------------------------------------------------------------------------

Blobs == UNION {{t[k][1] : k \in {n \in DOMAIN t : ~IsDir(n)}} : t \in Trees}

(* All variables stay in their types; the hashes of a pair are in order, as operator< asserts. *)
TypeOK ==
  /\ \A r \in Repos : git[r] \in Histories[r] /\ Len(m_commits[r]) <= Len(git[r])
  /\ \A r \in Repos : m_commitsInit[r] => Len(m_commits[r]) = Len(git[r])
  /\ pc \in {"start", "read", "detect", "walk", "done", "failed", "search", "answered"}
  /\ reads \subseteq Repos /\ detector \in 0 .. 3 /\ (todo # <<>> => pc = "detect")
  /\ pairs \subseteq Blobs \X Blobs /\ \A p \in pairs : p[1] < p[2]
  /\ walked \in Repos \cup {"none"} /\ oids \in Seq(Blobs)
  /\ \A i \in DOMAIN m_stack : m_stack[i].tree \in Trees \ {Empty}

(* The files of a tree, in the order of their names. *)
Files ==
  LET files[at \in Trees \X Seq(Nat)] ==
        LET t        == at[1]
            path     == at[2]
            below(k) == IF IsDir(k) THEN files[<<t[k], Append(path, k)>>]
                        ELSE <<[file |-> Append(path, k), oid |-> t[k][1]]>>
        IN  FlattenSeq([i \in DOMAIN Entries(t) |-> below(Entries(t)[i])])
  IN  files
FilesOf(t) == Range(Files[<<t, <<>>>>])

(* The changes that were read rebuild each tree from the one before: none is missing, none is of a  *)
(* file that was not there, and none comes twice, however the two trees differ.                     *)
ChangesRebuildTrees ==
  \A r \in Repos : m_commitsInit[r] => \A n \in DOMAIN git[r] :
    LET changes == m_commits[r][n].changes
        old     == IF n = 1 THEN {} ELSE FilesOf(git[r][n - 1].tree)
        gone    == {[file |-> c.file, oid |-> c.oid1] : c \in {x \in Range(changes) : x.oid1 # 0}}
        new     == {[file |-> c.file, oid |-> c.oid2] : c \in {x \in Range(changes) : x.oid2 # 0}}
    IN  /\ gone \subseteq old
        /\ FilesOf(git[r][n].tree) = (old \ gone) \cup new
        /\ IsInjective([i \in DOMAIN changes |-> changes[i].file])

TimeOf(c) == c.time
Times == 0 .. 1 + Max({TimeOf(c) : c \in Range(git["trunk"]) \cup Range(git["stable"])})

(* Among commits whose times are out of order, the searches miss a commit only where its time is    *)
(* within the skew of the time asked for: lastCommitByTime never fails its assertion and returns    *)
(* no commit that is too new, listCommitsBetweenDates loses none from within the window although it *)
(* looks at a few commits beyond the ends only, and findRelevantPot finds every version of the      *)
(* template that is not that close to an end of its two windows.                                    *)
SearchesMissOnlyTheSkew ==
  pc = "done" => \A r \in Repos : m_commitsInit[r] =>
    LET commits == m_commits[r] IN
    \A t \in Times :
      LET last == lastCommitByTime(commits, t)
      IN  /\ last # -1 /\ (last # 0 => commits[last].time <= t)
          /\ \A i \in last + 1 .. Len(commits) : commits[i].time <= t => commits[i].time > t - Skew
          /\ \A u \in t .. Max(Times) : \A i \in DOMAIN commits :
               t + Skew < commits[i].time /\ commits[i].time <= u - Skew =>
                 i \in Range(listCommitsBetweenDates(commits, t, u))
          /\ \A n \in PoNames : findRelevantPot(commits, n, t) = 0 =>
               \A i \in DOMAIN commits : findUpdateOidsByBasename(commits[i], n) # <<>> =>
                 \E end \in {0, t - Back, t + Ahead} :
                   commits[i].time > t + Ahead \/ commits[i].time \in end - Skew .. end + Skew

(* What is in the history of a file, by its trees. *)
OidAt(commits, n, file) ==
  LET here == {f \in FilesOf(commits[n].tree) : f.file = file}
  IN  IF here = {} THEN 0 ELSE (CHOOSE f \in here : TRUE).oid
Linked(a, b) == a = b \/ <<Min({a, b}), Max({a, b})>> \in pairs

(* A file in the root of a repository breaks the order that findChange searches by. *)
NoRootFiles(r) == \A n \in DOMAIN git[r] : \A k \in DOMAIN git[r][n].tree : IsDir(k)

(* Every version of a template is linked to the version before it, even when the file was away for  *)
(* a few commits; and every new version in trunk is linked to the one that stable had at that time, *)
(* as long as the times of stable are in order.                                                     *)
VersionsAreLinked ==
  pc = "done" /\ detector = 3 /\ (\A r \in Repos : NoRootFiles(r)) =>
    /\ \A r \in Repos : \A n \in DOMAIN git[r] : \A f \in FilesOf(git[r][n].tree) :
         LET had == {k \in 1 .. n - 1 : OidAt(git[r], k, f.file) # 0}
         IN  had # {} /\ (Max(had) = n - 1 \/ Max(had) + 1 >= n - 1 - RemovalBack) =>
               Linked(OidAt(git[r], Max(had), f.file), f.oid)
    /\ (\A k \in 1 .. Len(git["stable"]) - 1 : git["stable"][k].time <= git["stable"][k + 1].time) =>
         \A n \in DOMAIN git["trunk"] : \A c \in Range(m_commits["trunk"][n].changes) :
           LET had == {k \in DOMAIN git["stable"] : git["stable"][k].time <= git["trunk"][n].time}
           IN  had # {} /\ c.oid2 # 0 /\ OidAt(git["stable"], Max(had), c.file) # 0 =>
                 Linked(OidAt(git["stable"], Max(had), c.file), c.oid2)

(* The walk comes to an end, and has then returned every .po file of HEAD, once and in order. *)
WalkReturnsAll ==
  pc = "walk" ~> /\ pc = "done" /\ walked \in Repos
                 /\ oids = LET po == SelectSeq(Files[<<Last(git[walked]).tree, <<>>>>], LAMBDA f : Last(f.file) \in PoNames)
                           IN  [i \in DOMAIN po |-> po[i].oid]
=============================================================================
