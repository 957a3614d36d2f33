----------------------------- MODULE GitHistory -----------------------------
(***************************************************************************)
(* What Repository, Commit and ProcessOrphansTxt compute: the changes of a *)
(* commit out of two trees, the search for a change by pathname, the       *)
(* searches for an older or a newer version of a file, and the searches by *)
(* time among commits whose times are not quite in order.                  *)
(*                                                                         *)
(* A name is a number: an odd one is a directory, an even one a file, and  *)
(* the numbers are in the order of git_tree_entry_namecmp (the "/" behind  *)
(* the name of a directory counts). A tree is a function from its names; a *)
(* file has <<blob, mode>>, a directory has its tree. A pathname is the    *)
(* sequence of names from the root; 0 stands for no blob.                  *)
(***************************************************************************)
EXTENDS Integers, Sequences, FiniteSets, SequencesExt, FiniteSetsExt

CONSTANTS
  Trees,        \* all trees, with the empty one and with every subtree
  Transitions,  \* the entries of process_orphans.txt: [cmd, orig, dest]
  Skew,         \* how far a commit may be older than its parent (394 seconds in the code)
  Later,        \* how far DetectorInterBranch looks ahead (5000 seconds)
  RemovalBack,  \* commits that findLastRemovalOid looks back (10)
  MoveBack,     \* commits that the search for a moved file starts before the move (20)
  Margin,       \* commits that listCommitsBetweenDates adds to both ends (5)
  Back, Ahead   \* the window of findRelevantPot around a date (3 hours, 14 days)

Empty == [k \in {} |-> 0]

IsDir(k) == k % 2 = 1

(* The trees that are at most n directories deep. *)
TreesUpTo ==
  LET upTo[n \in 0 .. Cardinality(Trees)] ==
        LET below == upTo[n - 1]
        IN  IF n = 0 THEN {} ELSE {t \in Trees : \A k \in DOMAIN t : IsDir(k) => t[k] \in below}
  IN  upTo

(* Trees are finite, no tree is below itself, and a file in one has a blob. *)
ASSUME HistoryAssumption ==
  /\ IsFiniteSet(Trees) /\ Empty \in Trees /\ TreesUpTo[Cardinality(Trees)] = Trees
  /\ \A t \in Trees : IsFiniteSet(DOMAIN t) /\ DOMAIN t \subseteq Nat \ {0}
  /\ \A t \in Trees : \A k \in DOMAIN t : IF IsDir(k) THEN t[k] \in Trees ELSE t[k][1] \in Nat \ {0}
  /\ {Skew, Later, RemovalBack, MoveBack, Margin, Back, Ahead} \subseteq Nat

(* The elements of a set in an order, as SetToSortSeq without its search among all sequences. *)
Sorted(S, less(_, _)) ==
  [i \in 1 .. Cardinality(S) |-> CHOOSE x \in S : Cardinality({y \in S : less(y, x)}) = i - 1]

---------------------------------------------------------------------------

(* The changes between two trees *)

Subtree(t, k) == IF k \in DOMAIN t THEN t[k] ELSE Empty
Blob(t, k) == IF k \in DOMAIN t THEN t[k][1] ELSE 0
Mode(t, k) == IF k \in DOMAIN t THEN t[k][2] ELSE "none"

(* Mutant of Names: the merge of the entries stops at the end of the newer tree. *)
NamesToNewEnd(a, b) ==
  Sorted({k \in DOMAIN a \cup DOMAIN b : \E n \in DOMAIN b : k <= n}, <)

Names(a, b) == Sorted(DOMAIN a \cup DOMAIN b, <)

(* diffTree: the entries of both trees are merged by name, and directories are gone into. *)
diffTree ==
  LET diff[at \in Trees \X Trees \X Seq(Nat)] ==
        LET a    == at[1]
            b    == at[2]
            path == at[3]
            changes(k) ==
              IF IsDir(k) THEN diff[<<Subtree(a, k), Subtree(b, k), Append(path, k)>>]
              ELSE IF Blob(a, k) = Blob(b, k) THEN <<>>
              ELSE <<[file |-> Append(path, k), oid1 |-> Blob(a, k), oid2 |-> Blob(b, k),
                      mode1 |-> Mode(a, k), mode2 |-> Mode(b, k)]>>
        IN  IF a = b THEN <<>> ELSE FlattenSeq([i \in DOMAIN Names(a, b) |-> changes(Names(a, b)[i])])
  IN  diff

type(c) == IF c.oid1 = 0 THEN "ADD" ELSE IF c.oid2 = 0 THEN "DEL" ELSE "MOD"

(* A file that is changed and becomes executable, or a link, fails an assertion. *)
AttributesChange(c) ==
  type(c) = "MOD" /\ c.mode1 # c.mode2 /\ <<c.mode1, c.mode2>> # <<"exec", "plain">>

---------------------------------------------------------------------------

(* The search for a change *)

(* build_pathname: a file in the root has an empty path, and "/" goes before any name. *)
build_pathname(file) == IF Len(file) = 1 THEN <<0>> \o file ELSE file

(* strcmp of two pathnames *)
Before(p, q) ==
  \E i \in 1 .. Len(q) :
    /\ \A j \in 1 .. i - 1 : j <= Len(p) /\ p[j] = q[j]
    /\ i > Len(p) \/ p[i] < q[i]

(* Commit::findChange, a binary search; the number of the change, or 0. *)
findChange(changes, file) ==
  LET pattern == build_pathname(file)
      search[range \in (1 .. Len(changes) + 1) \X (0 .. Len(changes))] ==
        LET mid      == (range[1] + range[2]) \div 2
            fullname == build_pathname(changes[mid].file)
        IN  IF range[1] > range[2] THEN 0
            ELSE IF Before(fullname, pattern) THEN search[<<mid + 1, range[2]>>]
            ELSE IF Before(pattern, fullname) THEN search[<<range[1], mid - 1>>]
            ELSE mid
  IN  search[<<1, Len(changes)>>]

(* Commit::findRemovalOid, findUpdateOid *)
findRemovalOid(c, file) ==
  LET n == findChange(c.changes, file)
  IN  IF n # 0 /\ type(c.changes[n]) = "DEL" THEN c.changes[n].oid1 ELSE 0

findUpdateOid(c, file) ==
  LET n == findChange(c.changes, file)
  IN  IF n # 0 /\ type(c.changes[n]) # "DEL" THEN c.changes[n].oid2 ELSE 0

(* Commit::findUpdateOidsByBasename: the name is that of the file, whatever its directory. *)
findUpdateOidsByBasename(c, name) ==
  LET named == Sorted({i \in DOMAIN c.changes : Last(c.changes[i].file) = name /\ type(c.changes[i]) # "DEL"}, <)
  IN  [i \in DOMAIN named |-> c.changes[named[i]].oid2]

(* The blob that the first of the commits has that has one at all. *)
FirstFound(oid(_), from, to) ==
  LET found == {i \in from .. to : oid(i) # 0} IN IF found = {} THEN 0 ELSE oid(Min(found))
LastFound(oid(_), from, to) ==
  LET found == {i \in from .. to : oid(i) # 0} IN IF found = {} THEN 0 ELSE oid(Max(found))

(* Mutant of findLastRemovalOid: only the last commit is looked at. *)
removalInLastCommit(commits, from, file) ==
  IF from = 0 THEN 0 ELSE findRemovalOid(commits[from], file)

(* Repository::findLastRemovalOid, findNextUpdateOid, findLastUpdateOid. The commits are *)
(* numbered from 1 here, from 0 in the code.                                             *)
findLastRemovalOid(commits, from, file) ==
  LastFound(LAMBDA i : findRemovalOid(commits[i], file),
            IF from - RemovalBack < 1 THEN 1 ELSE from - RemovalBack, from)

findNextUpdateOid(commits, from, file) ==
  FirstFound(LAMBDA i : findUpdateOid(commits[i], file), from, Len(commits))

findLastUpdateOid(commits, from, file) ==
  LastFound(LAMBDA i : findUpdateOid(commits[i], file), 1, from)

---------------------------------------------------------------------------

(* The search by time *)

(* The two checks at the end of readRepositoryCommits. *)
TimesInOrder(commits) ==
  /\ \A i \in 1 .. Len(commits) - 1 : commits[i].time <= commits[i + 1].time + Skew
  /\ \A i \in 1 .. Len(commits) - 2 : commits[i].time < commits[i + 2].time

(* Mutant of lastCommitByTime: the commits that are left are not looked at from the last on. *)
lastCommitUnchecked(commits, time) ==
  LET n == Len(commits)
      loose[range \in (1 .. n) \X (1 .. n)] ==
        LET l == range[1]
            r == range[2]
            m == (l + r) \div 2
        IN  IF r - l > 2 THEN loose[IF time < commits[m].time THEN <<l, m>> ELSE <<m, r>>] ELSE r
  IN  IF n = 0 \/ time < commits[1].time THEN 0 ELSE loose[<<1, n>>]

(* lastCommitByTime; 0 for no commit, -1 where the assertion at the end fails. *)
lastCommitByTime(commits, time) ==
  LET n == Len(commits)
      loose[range \in (1 .. n) \X (1 .. n)] ==
        LET l == range[1]
            r == range[2]
            m == (l + r) \div 2
        IN  IF r - l > 2 THEN loose[IF time < commits[m].time THEN <<l, m>> ELSE <<m, r>>]
            ELSE Max({i \in l .. r : time >= commits[i].time} \cup {-1})
  IN  IF n = 0 \/ time < commits[1].time THEN 0 ELSE loose[<<1, n>>]

(* findFileOidByTime: the last version before the time; that it was removed since is not seen. *)
findFileOidByTime(commits, time, file) ==
  findLastUpdateOid(commits, lastCommitByTime(commits, time), file)

(* nearestCommitByTime *)
nearestCommitByTime(commits, time) == Max({lastCommitByTime(commits, time), 1})

(* isBetween: the dates may come in either order. *)
isBetween(t, a, b) == (a <= t /\ t <= b) \/ (b <= t /\ t <= a)

(* listCommitsBetweenDates: backward in time when date_b is the earlier one. (The sort leaves *)
(* the order of commits of one second open.)                                                *)
listCommitsBetweenDates(commits, a, b) ==
  LET backward == b < a
      less     == nearestCommitByTime(commits, IF backward THEN b ELSE a)
      more     == nearestCommitByTime(commits, IF backward THEN a ELSE b)
      listed   == {i \in less - Margin .. more + Margin :
                     i \in 1 .. Len(commits) /\ isBetween(commits[i].time, a, b)}
      older(i, j) == commits[i].time < commits[j].time \/ (commits[i].time = commits[j].time /\ i < j)
  IN  Sorted(listed, LAMBDA i, j : IF backward THEN older(j, i) ELSE older(i, j))

(* findRelevantPot: the first version in the window, else the last one before it; 0 when there *)
(* is none, -1 where a commit changes two files of the name and the assertion fails.           *)
findRelevantPot(commits, name, date) ==
  LET listed  == listCommitsBetweenDates(commits, date - Back, date + Ahead)
                   \o listCommitsBetweenDates(commits, date - Back - 1, 0)
      oids(i) == findUpdateOidsByBasename(commits[listed[i]], name)
      found   == {i \in DOMAIN listed : oids(i) # <<>>}
      best    == oids(Min(found))
  IN  IF found = {} THEN 0 ELSE IF Len(best) > 1 THEN -1 ELSE best[1]
=============================================================================
