----------------------------- MODULE IdService -----------------------------
(***************************************************************************)
(* What the callers of StupidsClient are promised: a call ends with the    *)
(* answer for its request, or it is refused, or the calling process ends.  *)
(* An answer is defined here on the request, as the comments of            *)
(* stupids-client.h have it, and not on the words that travel.             *)
(***************************************************************************)
EXTENDS Integers, Sequences, FiniteSets

CONSTANTS Clients,    \* client processes
          Templates,  \* template-part hashes
          Recorded,   \* the templates that lw-server finds in Redis
          First,      \* first ID of a recorded template, 0 for "unknown"
          Count,      \* number of its messages
          Ids,        \* message IDs
          MinId,      \* the table of minimized IDs, as a plain read sees it
          Requests    \* the calls that are made

VARIABLES state,    \* state[c]: "idle", "busy" in a call, "ended" process
          call,     \* call[c]: the request of the latest call
          torn,     \* torn[c]: its list of IDs was not written in one piece
          outcome   \* outcome[c]: how that call ended

vars == <<state, call, torn, outcome>>

(* A template that has IDs. *)
Numbered(t) == t \in Recorded /\ First[t] # 0

(* The minimized IDs of a template: as many as it has messages. *)
MinIdsOf(t) == [i \in 1 .. Count[t] |-> MinId[First[t] + i - 1]]

(* The templates, by index from 0, that have a message of one of the IDs after minimization. *)
InvolvedIndices(r) ==
  {i \in 0 .. Len(r.hashes) - 1 :
     LET t == r.hashes[i + 1]
     IN  \E k \in 1 .. Count[t] : \E j \in 1 .. Len(r.ids) :
           MinId[First[t] + k - 1] = MinId[r.ids[j]]}

(* The answer a = <<value, ...>> is the one for request r. *)
IsAnswer(r, a) ==
  LET all == {r.hashes[i] : i \in 1 .. Len(r.hashes)}
  IN  CASE r.cmd = "minIdArray"   -> Numbered(r.hashes[1]) /\ a = MinIdsOf(r.hashes[1])
        [] r.cmd = "firstId"      -> all \subseteq Recorded /\ a = <<First[r.hashes[1]], Count[r.hashes[1]]>>
        [] r.cmd = "firstIdMulti" ->
             /\ all \subseteq Recorded
             /\ Len(a) = 2 * Len(r.hashes)
             /\ \A i \in 1 .. Len(r.hashes) : a[2 * i - 1] = First[r.hashes[i]] /\ a[2 * i] = Count[r.hashes[i]]
        [] r.cmd = "minIds"       -> a = [i \in 1 .. Len(r.ids) |-> MinId[r.ids[i]]]
        [] r.cmd = "involved"     ->
             /\ \A t \in all : Numbered(t)
             /\ {a[i] : i \in 1 .. Len(a)} = InvolvedIndices(r)
             /\ \A i, j \in 1 .. Len(a) : i < j => a[i] < a[j]

(* The requests whose answer r may get when its list of IDs was written in pieces: *)
(* the list keeps its length, and has no IDs that r did not have.                  *)
Resembling(r) ==
  {[r EXCEPT !.ids = [i \in 1 .. Len(r.ids) |-> r.ids[p[i]]]] : p \in [1 .. Len(r.ids) -> 1 .. Len(r.ids)]}

NotEnded == [kind |-> "none", value |-> <<>>]

Init ==
  /\ state = [c \in Clients |-> "idle"]
  /\ call \in [Clients -> Requests]
  /\ torn = [c \in Clients |-> FALSE]
  /\ outcome = [c \in Clients |-> NotEnded]

(* A call begins. *)
Begin(c) ==
  /\ state[c] = "idle"
  /\ \E r \in Requests : call' = [call EXCEPT ![c] = r]
  /\ state' = [state EXCEPT ![c] = "busy"]
  /\ torn' = [torn EXCEPT ![c] = FALSE]
  /\ outcome' = [outcome EXCEPT ![c] = NotEnded]

(* There is no server: first IDs are reported as -1, everything else is an exception. *)
NoServer(c) ==
  /\ state[c] = "idle"
  /\ \E r \in Requests :
       /\ call' = [call EXCEPT ![c] = r]
       /\ outcome' = [outcome EXCEPT ![c] =
            [kind |-> IF r.cmd \in {"firstId", "firstIdMulti"} THEN "unset" ELSE "noConnection", value |-> <<>>]]
  /\ torn' = [torn EXCEPT ![c] = FALSE]
  /\ UNCHANGED state

(* The list of IDs was written in pieces. *)
Tear(c) ==
  /\ state[c] = "busy"
  /\ torn' = [torn EXCEPT ![c] = TRUE]
  /\ UNCHANGED <<state, call, outcome>>

Answered(c) ==
  /\ state[c] = "busy"
  /\ outcome'[c].kind = "answer"
  /\ \E r \in IF torn[c] THEN Resembling(call[c]) ELSE {call[c]} : IsAnswer(r, outcome'[c].value)
  /\ outcome' = [outcome EXCEPT ![c] = outcome'[c]]
  /\ state' = [state EXCEPT ![c] = "idle"]
  /\ UNCHANGED <<call, torn>>

Refused(c) ==
  /\ state[c] = "busy"
  /\ outcome' = [outcome EXCEPT ![c] = [kind |-> "requestFailed", value |-> <<>>]]
  /\ state' = [state EXCEPT ![c] = "idle"]
  /\ UNCHANGED <<call, torn>>

End(c) ==
  /\ state[c] # "ended"
  /\ state' = [state EXCEPT ![c] = "ended"]
  /\ torn' \in {torn, [torn EXCEPT ![c] = TRUE]}
  /\ UNCHANGED <<call, outcome>>

Restart(c) ==
  /\ state[c] = "ended"
  /\ state' = [state EXCEPT ![c] = "idle"]
  /\ torn' = [torn EXCEPT ![c] = FALSE]
  /\ outcome' = [outcome EXCEPT ![c] = NotEnded]
  /\ UNCHANGED call

Next == \E c \in Clients :
  Begin(c) \/ NoServer(c) \/ Tear(c) \/ Answered(c) \/ Refused(c) \/ End(c) \/ Restart(c)

Spec == Init /\ [][Next]_vars
=============================================================================
