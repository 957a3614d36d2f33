--------------------------- MODULE ReviewContract ---------------------------
(***************************************************************************)
(* What a set of review decisions promises, whatever its representation:   *)
(* a message has at most one accepted translation, never one that is also  *)
(* rejected; a patch is merged as a whole or not at all; once made,        *)
(* decisions are only changed by an explicit verdict, renamed, or          *)
(* forgotten all at once; and the stored ones stay until the present ones  *)
(* are stored in their place, which first takes them out of the file.      *)
(***************************************************************************)
EXTENDS FiniteSets, Integers

CONSTANTS
  Ids,     \* message IDs
  Msgs,    \* translations
  MinId    \* MinId[i]: the minimized ID of message i

VARIABLES
  accepted,   \* accepted[i]: the accepted translations of message i
  rejected,   \* rejected[i]: its rejected translations
  patch,      \* the decisions that are being merged
  stored,     \* the decisions in the file
  storing     \* whether the file is being written

vars == <<accepted, rejected, patch, stored, storing>>

Undecided == [i \in Ids |-> {}]
NoDecisions == [accepted |-> Undecided, rejected |-> Undecided]
Patches == [accepted : [Ids -> SUBSET Msgs], rejected : [Ids -> SUBSET Msgs]]

Consistent ==
  \A i \in Ids :
    /\ \A m, n \in accepted[i] : m = n
    /\ accepted[i] \cap rejected[i] = {}

Init ==
  /\ accepted = Undecided /\ rejected = Undecided
  /\ patch = NoDecisions
  /\ stored = NoDecisions
  /\ storing = FALSE

\* Nothing is merged or stored at the moment, and the step leaves it so.
Quiet ==
  /\ patch = NoDecisions /\ patch' = NoDecisions
  /\ ~storing /\ storing' = FALSE
  /\ stored' = stored

\* The merging of a patch begins, into what is decided or into nothing.
Begin ==
  /\ patch = NoDecisions /\ patch' \in Patches
  /\ \/ accepted' = accepted /\ rejected' = rejected
     \/ accepted' = Undecided /\ rejected' = Undecided
  /\ ~storing /\ storing' = FALSE
  /\ stored' = stored

\* All of the patch is merged and nothing else, if it contradicts no decision.  One that does
\* is never merged, in part neither.
Combine ==
  /\ accepted' = [i \in Ids |-> accepted[i] \cup patch.accepted[i]]
  /\ rejected' = [i \in Ids |-> rejected[i] \cup patch.rejected[i]]
  /\ Consistent'
  /\ patch' = NoDecisions
  /\ ~storing /\ storing' = FALSE
  /\ stored' = stored

\* The translation is the one accepted; another one that was accepted becomes rejected.
Accept(i, m) ==
  /\ accepted' = [accepted EXCEPT ![i] = {m}]
  /\ rejected' = [rejected EXCEPT ![i] = (@ \cup accepted[i]) \ {m}]
  /\ Quiet

Reject(i, m) ==
  /\ accepted' = [accepted EXCEPT ![i] = @ \ {m}]
  /\ rejected' = [rejected EXCEPT ![i] = @ \cup {m}]
  /\ Quiet

\* Every decision moves to the minimized ID of its message, and no two messages are merged.
Rename ==
  /\ accepted' = [j \in Ids |-> UNION {accepted[i] : i \in {k \in Ids : MinId[k] = j}}]
  /\ rejected' = [j \in Ids |-> UNION {rejected[i] : i \in {k \in Ids : MinId[k] = j}}]
  /\ \A i, k \in Ids :
       MinId[i] = MinId[k] /\ i # k =>
         accepted[i] \cup rejected[i] = {} \/ accepted[k] \cup rejected[k] = {}
  /\ Quiet

\* The old decisions are taken out of the file only to store the present ones.
Erase ==
  /\ ~storing /\ storing' = TRUE
  /\ stored' = NoDecisions
  /\ patch = NoDecisions
  /\ UNCHANGED <<accepted, rejected, patch>>

Store ==
  /\ storing /\ storing' = FALSE
  /\ stored' = [accepted |-> accepted, rejected |-> rejected]
  /\ UNCHANGED <<accepted, rejected, patch>>

\* The process ends, perhaps before it has merged or stored all.
Forget ==
  /\ accepted' = Undecided /\ rejected' = Undecided
  /\ patch' = NoDecisions
  /\ storing' = FALSE
  /\ stored' = stored

Next ==
  \/ Begin \/ Combine \/ Rename \/ Erase \/ Store \/ Forget
  \/ \E i \in Ids, m \in Msgs : Accept(i, m) \/ Reject(i, m)

Spec == Init /\ [][Next]_vars
=============================================================================
