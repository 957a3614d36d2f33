--------------------------- MODULE OldestByTphash ---------------------------
(***************************************************************************)
(* GitLoader::findOldestByTphash and the tools that call it: the oldest    *)
(* file in the repositories of translations that was made from the same    *)
(* template as a given file. Answers are kept in m_cache and in a file     *)
(* that every run of a tool reads (OidMapCache), while commits arrive.     *)
(* The program of CommitHistory, which reads the repositories of           *)
(* templates, is the third one that runs here.                             *)
(***************************************************************************)
EXTENDS CommitHistory, TemplateHash

CONSTANTS
  Translations,  \* Translations[r]: the histories of the repository that the tools are run on
  Inputs,        \* the files that the tools are given
  ShortNames,    \* the names of fewer than three letters
  MaxRecords,    \* bound: other runs append to the cache file up to this many records
  MaxCuts        \* bound: records that are cut because the disk is full

ASSUME LoaderAssumption ==
  /\ Inputs \cup Blobs \subseteq DOMAIN Contents /\ \A r \in Repos : Translations[r] \subseteq Histories[r]
  /\ MaxRecords \in Nat /\ MaxCuts \in Nat

Tools == {"lokalize-review-file", "iddiff-repo"}

VARIABLES
  tool,       \* the program that runs: "detector" or one of Tools
  input,      \* the file whose oldest version is asked for
  repo,       \* the index in m_repos that the search is at
  answer,     \* the blob that was found, or 0
  loaded,     \* OidMapCacheManager has an instance
  m_cache,
  cacheFile,  \* oidmapcache-lang_ru_oldest_oid.dat: hash, blob, hash, blob...
  cuts        \* the records that were cut so far

toolVars == <<tool, input, repo, answer, loaded, m_cache>>
fileVars == <<cacheFile, cuts>>
loaderVars == <<toolVars, fileVars>>

(* addRepository, in the order of both tools *)
m_repos == <<"trunk", "stable">>

LoaderInit ==
  /\ Init /\ tool \in {"detector"} \cup Tools
  /\ tool # "detector" => \A r \in Repos : git[r] \in Translations[r]
  /\ input = 0 /\ repo = 0 /\ answer = 0
  /\ loaded = FALSE /\ m_cache = <<>> /\ cacheFile = <<>> /\ cuts = 0

(* loadCache: of two records of one hash, the later one stays. *)
CacheOf(file) ==
  [tp \in {file[2 * i - 1] : i \in 1 .. Len(file) \div 2} |->
    file[2 * Max({i \in 1 .. Len(file) \div 2 : file[2 * i - 1] = tp})]]

(* The answer comes out of the cache, or the search begins with the first repository. The first     *)
(* question loads the cache, whose file must have a whole number of records.                        *)
findOldestByTphash_oid(tp) ==
  LET cache == IF loaded THEN m_cache ELSE CacheOf(cacheFile)
  IN  IF ~loaded /\ Len(cacheFile) % 2 # 0
      THEN pc' = "failed" /\ UNCHANGED <<reads, repo, answer, loaded, m_cache>>
      ELSE /\ loaded' = TRUE /\ m_cache' = cache
           /\ IF tp \in DOMAIN cache
              THEN pc' = "answered" /\ answer' = cache[tp] /\ UNCHANGED <<reads, repo>>
              ELSE pc' = "search" /\ repo' = 1 /\ reads' = {m_repos[1]} /\ UNCHANGED answer

(* toolLokalizeReviewfile asserts that its file has a hash. *)
reviewFile(b) ==
  /\ pc = "start" /\ tool = "lokalize-review-file" /\ input' = b
  /\ IF calculateTpHash[b] # 0 THEN findOldestByTphash_oid(calculateTpHash[b])
     ELSE pc' = "failed" /\ UNCHANGED <<reads, repo, answer, loaded, m_cache>>
  /\ UNCHANGED <<git, readVars, detector, todo, pairs, walkVars, tool, fileVars>>

(* iddiff-repo passes over a file that has none, and over those of templates without IDs. *)
processFile(b) ==
  /\ pc = "start" /\ tool = "iddiff-repo" /\ calculateTpHash[b] # 0 /\ input' = b
  /\ findOldestByTphash_oid(calculateTpHash[b])
  /\ UNCHANGED <<git, readVars, detector, todo, pairs, walkVars, tool, fileVars>>

(* The first change of the list that adds or modifies a .po file with the hash; 0 when none does,   *)
(* -1 when a file comes before it whose name is too short to be cut at its last three letters.      *)
FirstWithHash(commits, tp) ==
  LET changes  == ChangesOf(commits)
      c(i)     == changes[i].change
      stops    == {i \in DOMAIN changes :
                    \/ Last(c(i).file) \in ShortNames
                    \/ /\ Last(c(i).file) \in PoNames /\ c(i).oid2 # 0 /\ calculateTpHash[c(i).oid2] = tp}
      first    == c(Min(stops))
  IN  IF stops = {} THEN 0 ELSE IF Last(first.file) \in ShortNames THEN -1 ELSE first.oid2

(* addPair: both halves of the record are in the buffer of stdio; when the disk is full, what is *)
(* behind the end of it is lost, and nobody sees that.                                           *)
addPair(tp, oid) ==
  /\ m_cache' = [hash \in {tp} \cup DOMAIN m_cache |-> IF hash = tp THEN oid ELSE m_cache[hash]]
  /\ \/ cacheFile' = cacheFile \o <<tp, oid>> /\ UNCHANGED cuts
     \/ /\ cuts < MaxCuts /\ cuts' = cuts + 1
        /\ cacheFile' \in {cacheFile, Append(cacheFile, tp)}

(* One round of the loop over m_repos, when the commits of the repository have been read. *)
searchRepository ==
  /\ pc = "search" /\ m_commitsInit[m_repos[repo]]
  /\ LET tp  == calculateTpHash[input]
         oid == FirstWithHash(m_commits[m_repos[repo]], tp)
     IN  \/ /\ oid > 0 /\ pc' = "answered" /\ answer' = oid
            /\ addPair(tp, oid) /\ UNCHANGED <<reads, repo>>
         \/ /\ oid = -1 /\ pc' = "failed"
            /\ UNCHANGED <<reads, repo, answer, m_cache, fileVars>>
         \/ /\ oid = 0 /\ repo < Len(m_repos)
            /\ repo' = repo + 1 /\ reads' = {m_repos[repo + 1]}
            /\ UNCHANGED <<pc, answer, m_cache, fileVars>>
         \/ /\ oid = 0 /\ repo = Len(m_repos)
            /\ pc' = "answered" /\ answer' = 0
            /\ UNCHANGED <<reads, repo, m_cache, fileVars>>
  /\ UNCHANGED <<git, readVars, detector, todo, pairs, walkVars, tool, input, loaded>>

(* toolLokalizeReviewfile pairs the messages of both files by their numbers, once it has asserted *)
(* that there are as many.                                                                        *)
reviewAgainst ==
  /\ pc = "answered" /\ tool = "lokalize-review-file"
  /\ pc' = IF answer # 0 /\ Len(readMessages(answer)) # Len(readMessages(input)) THEN "failed" ELSE "done"
  /\ UNCHANGED <<git, readVars, detectVars, walkVars, loaderVars>>

(* processFile uses the pointer before it looks whether there is a file, and the loop goes on. *)
diffAgainst ==
  /\ pc = "answered" /\ tool = "iddiff-repo"
  /\ pc' = IF answer = 0 THEN "failed" ELSE "start"
  /\ UNCHANGED <<git, readVars, detectVars, walkVars, loaderVars>>

Grown(r) == {h \in Translations[r] : IsPrefix(git[r], h)}

(* A tool is run on the repositories as they are then, whatever became of the one before. *)
nextTool ==
  /\ tool \in Tools /\ tool' \in Tools
  /\ \E trunk \in Grown("trunk"), stable \in Grown("stable") : git' = [trunk |-> trunk, stable |-> stable]
  /\ m_commits' = [r \in Repos |-> <<>>] /\ m_commitsInit' = [r \in Repos |-> FALSE]
  /\ pc' = "start" /\ reads' = {} /\ input' = 0 /\ repo' = 0 /\ answer' = 0
  /\ loaded' = FALSE /\ m_cache' = <<>>
  /\ UNCHANGED <<detector, todo, pairs, walkVars, fileVars>>

(* Another run that had loaded the cache before this moment comes to the end of its search. *)
CommitsOf(history) ==
  [n \in DOMAIN history |->
    [changes |-> diffTree[<<IF n = 1 THEN Empty ELSE history[n - 1].tree, history[n].tree, <<>>>>]]]

otherRun(b) ==
  /\ tool \in Tools /\ calculateTpHash[b] # 0 /\ Len(cacheFile) < 2 * MaxRecords
  /\ LET tp      == calculateTpHash[b]
         oid(i)  == FirstWithHash(CommitsOf(git[m_repos[i]]), tp)
         found   == {i \in DOMAIN m_repos : oid(i) # 0}
     IN  /\ found # {} /\ oid(Min(found)) # -1
         /\ cacheFile' = cacheFile \o <<tp, oid(Min(found))>>
  /\ UNCHANGED <<vars, toolVars, cuts>>

LoaderNext ==
  \/ Next /\ (pc = "start" => tool = "detector") /\ UNCHANGED loaderVars
  \/ \E b \in Inputs : reviewFile(b) \/ processFile(b) \/ otherRun(b)
  \/ searchRepository \/ reviewAgainst \/ diffAgainst \/ nextTool

LoaderSpec == LoaderInit /\ [][LoaderNext]_<<vars, loaderVars>> /\ WF_vars(WalkStep)

---------------------------------------------------------------------------

(* All variables of the three programs stay in their types. *)
LoaderTypeOK ==
  /\ TypeOK
  /\ tool \in {"detector"} \cup Tools /\ (tool = "detector" => cacheFile = <<>> /\ input = 0)
  /\ input \in Inputs \cup {0} /\ repo \in 0 .. Len(m_repos) /\ answer \in Blobs \cup {0}
  /\ loaded \in BOOLEAN /\ cuts \in 0 .. MaxCuts
  /\ DOMAIN m_cache \subseteq Range(calculateTpHash) \ {0} /\ Range(m_cache) \subseteq Blobs
  /\ \A i \in DOMAIN cacheFile : cacheFile[i] \in Blobs \cup (Range(calculateTpHash) \ {0})

(* Two files have one template: its date, and the messages that are in use, but for the translations. *)
Text(m) == [orig |-> m.orig, notes |-> m.notes, filepos |-> m.filepos]
SameTemplate(a, b) ==
  /\ Contents[a].header = "ok" /\ Contents[b].header = "ok" /\ Contents[a].date = Contents[b].date
  /\ [i \in DOMAIN readMessages(a) |-> Text(readMessages(a)[i])]
       = [i \in DOMAIN readMessages(b) |-> Text(readMessages(b)[i])]

(* Whether it is searched for or comes out of the cache file, which may be older than the last      *)
(* commits, have records of several runs, and end in a record that was cut: the answer is a version *)
(* of the template that was given, the oldest one of its repository; its messages have the numbers  *)
(* that those of the input have, and are as many as the ID range of the template. No answer is      *)
(* given only when no repository has one.  A second cut record makes the file even again, and a     *)
(* hash is then read as a blob: it does not hold with MaxCuts = 2.                                  *)
AnswersAreOldest ==
  pc = "answered" =>
    LET po(r, n)    == {f \in FilesOf(git[r][n].tree) : Last(f.file) \in PoNames}
        versions(r) == {n \in DOMAIN git[r] : \E f \in po(r, n) : SameTemplate(f.oid, input)}
    IN  IF answer = 0 THEN \A r \in Repos : versions(r) = {}
        ELSE /\ SameTemplate(answer, input)
             /\ \E r \in Repos : versions(r) # {} /\ \E f \in po(r, Min(versions(r))) : f.oid = answer
             /\ get_pot_length(answer) = Len(readMessages(input))
             /\ \A k \in DOMAIN readMessages(input) :
                  readMessages(answer)[k].orig = readMessages(input)[k].orig
=============================================================================
