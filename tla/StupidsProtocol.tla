-------------------------- MODULE StupidsProtocol --------------------------
(***************************************************************************)
(* stupids-server and its clients over TCP (tcpcommandserver.cpp,          *)
(* server.cpp, stupids-client.cpp), down to the words on the wire: a       *)
(* 32-bit number or a 20-byte hash is one word.  The parent accepts and    *)
(* forks, a child serves one connection, lw-server looks templates up.     *)
(* A slot c is a client process with its connection and its child.  A      *)
(* write that returns early does so between two words: what a server that  *)
(* reads on behind a part of a word takes for numbers is left out.         *)
(***************************************************************************)
EXTENDS Integers, Sequences, FiniteSets, SequencesExt

CONSTANTS Clients, Templates, Recorded, First, Count, Ids, MinId, Requests,
          ShortWrites   \* whether write() may return before all is written

ASSUME ProtocolAssumption ==
  /\ ShortWrites \in BOOLEAN
  /\ Ids \subseteq Nat
  /\ Recorded \subseteq Templates
  /\ First \in [Recorded -> Nat] /\ Count \in [Recorded -> Nat]
  /\ \A t \in Recorded : First[t] # 0 => First[t] .. First[t] + Count[t] - 1 \subseteq Ids
  /\ MinId \in [Ids -> Ids]
  /\ Requests # {}
  /\ \A r \in Requests :
       /\ r = [cmd |-> r.cmd, hashes |-> r.hashes, ids |-> r.ids]
       /\ r.cmd \in {"minIdArray", "firstId", "firstIdMulti", "minIds", "involved"}
       /\ r.hashes \in Seq(Templates) /\ r.ids \in Seq(Ids)
       /\ r.cmd \in {"minIdArray", "firstId"} => Len(r.hashes) = 1

VARIABLES
  client,    \* "idle", "send", "code", "data" within a call; "gone"
  sockfd,    \* m_sockfd >= 0
  call, todo, written, torn, outcome,  \* the call, what is left to write of it
  up, down,  \* words under way to the server, to the client
  parent,    \* "up", "down", or the assertion that ended it: "childpid", "code"
  child,     \* "none", "backlog" (not accepted yet), "serve", "flush", "exited"
  in,        \* what the child has read of the current command
  out,       \* the writes that are left of its answer
  closing,   \* m_closeConnection
  status,    \* wait status of an exited child
  assertion, \* the assertion that ended it, if any
  keyOrder   \* the key that json.dumps of lw-server writes first

clientVars == <<client, sockfd, call, todo, written, torn, outcome>>
childVars == <<child, in, out, closing, status, assertion>>
vars == <<clientVars, up, down, parent, childVars, keyOrder>>

SIGABRT == 6
SIGKILL == 9
SIGPIPE == 13

(* CMD_EXIT is the only command that no call of the class sends by itself. *)
CMD_EXIT == 1
CmdCode == [minIdArray |-> 2, firstId |-> 3, firstIdMulti |-> 4, minIds |-> 5, involved |-> 6]

None == [kind |-> "none", value |-> <<>>]
Outcome(k) == [kind |-> k, value |-> <<>>]

(* The words of a request; an array of hashes comes with its size, but for the one of two calls. *)
Message(r) ==
  LET oidVector  == <<Len(r.hashes)>> \o r.hashes
      longVector == <<Len(r.ids)>> \o r.ids
  IN  <<CmdCode[r.cmd]>> \o
      CASE r.cmd \in {"minIdArray", "firstId"} -> r.hashes
        [] r.cmd = "firstIdMulti"              -> oidVector
        [] r.cmd = "minIds"                    -> longVector
        [] r.cmd = "involved"                  -> oidVector \o longVector

(* The next write when the words w are left of a request: the list of IDs is written as a whole,  *)
(* every other word by itself.                                                                    *)
NextWrite(r, w) == IF r.cmd \in {"minIds", "involved"} /\ Len(w) = Len(r.ids) THEN w ELSE <<Head(w)>>

(* The words of an answer: a vector comes with its size, an array without. *)
Expects(r, w) ==
  CASE r.cmd \in {"minIdArray", "involved"} -> w # <<>> /\ Len(w) >= 1 + w[1]
    [] r.cmd = "firstId"                    -> Len(w) >= 2
    [] r.cmd = "firstIdMulti"               -> Len(w) >= 2 * Len(r.hashes)
    [] r.cmd = "minIds"                     -> Len(w) >= Len(r.ids)

Received(r, w) ==
  CASE r.cmd \in {"minIdArray", "involved"} -> SubSeq(w, 2, 1 + w[1])
    [] r.cmd = "firstId"                    -> SubSeq(w, 1, 2)
    [] r.cmd = "firstIdMulti"               -> SubSeq(w, 1, 2 * Len(r.hashes))
    [] r.cmd = "minIds"                     -> SubSeq(w, 1, Len(r.ids))

Consumed(r, w) == Len(Received(r, w)) + (IF r.cmd \in {"minIdArray", "involved"} THEN 1 ELSE 0)

(* ------------------------------ server side ---------------------------- *)

(* Mutant of Complete: GET_MIN_IDS reads one word too many. *)
CompleteOneMore(m) ==
  /\ m # <<>>
  /\ CASE m[1] \in {2, 3} -> Len(m) = 2
       [] m[1] = 4        -> Len(m) >= 2 /\ Len(m) = 2 + m[2]
       [] m[1] = 5        -> Len(m) >= 2 /\ Len(m) = 3 + m[2]
       [] m[1] = 6        -> Len(m) >= 2 /\ Len(m) >= 3 + m[2] /\ Len(m) = 3 + m[2] + m[3 + m[2]]
       [] OTHER           -> TRUE

(* The handler has read all that it reads for the command m. *)
Complete(m) ==
  /\ m # <<>>
  /\ CASE m[1] \in {2, 3} -> Len(m) = 2
       [] m[1] \in {4, 5} -> Len(m) >= 2 /\ Len(m) = 2 + m[2]
       [] m[1] = 6        -> /\ Len(m) >= 2 /\ Len(m) >= 3 + m[2]
                             /\ Len(m) = 3 + m[2] + m[3 + m[2]]
       [] OTHER           -> TRUE

(* The hashes and the IDs of a command as far as they were read. *)
RecvOids(m) ==
  CASE m[1] \in {2, 3} -> SubSeq(m, 2, Len(m))
    [] m[1] = 4        -> SubSeq(m, 3, Len(m))
    [] m[1] = 6        -> IF Len(m) < 2 THEN <<>>
                          ELSE SubSeq(m, 3, IF Len(m) < 2 + m[2] THEN Len(m) ELSE 2 + m[2])
    [] OTHER           -> <<>>
RecvIds(m) == IF m[1] = 5 THEN SubSeq(m, 3, Len(m)) ELSE SubSeq(m, 4 + m[2], Len(m))

(* The templates whose first ID the handler asks for now, or has asked for: handleGetFirstIdMulti  *)
(* asks as it reads, the others when they have read everything.                                    *)
LookedUp(m) ==
  IF m = <<>> \/ (m[1] # 4 /\ ~Complete(m)) THEN {}
  ELSE {RecvOids(m)[i] : i \in 1 .. Len(RecvOids(m))}

(* What the body of the answer of lw-server begins with: the pair as JSON for a template that is *)
(* in Redis, nothing (a bare 404) for any other.                                                *)
do_GET(t) == IF t \in Recorded THEN keyOrder ELSE "nothing"

(* The sscanf in the assertion of StupidsDatabase::getFirstId matches. *)
Parses(t) == do_GET(t) = "id_count"

TphashMinIds(t) == [i \in 1 .. Count[t] |-> MinId[First[t] + i - 1]]
PlainMinIds(ids) == [i \in 1 .. Len(ids) |-> MinId[ids[i]]]
SendLongVector(v) == <<Len(v)>> \o v

(* Mutant of InvolvedByMinIds: indices from 1. *)
InvolvedFromOne(oids, ids) ==
  LET mins     == {PlainMinIds(ids)[j] : j \in 1 .. Len(ids)}
      meets(i) == {TphashMinIds(oids[i])[k] : k \in 1 .. Count[oids[i]]} \cap mins # {}
      res[i \in 0 .. Len(oids)] ==
        IF i = 0 THEN <<>> ELSE IF meets(i) THEN Append(res[i - 1], i) ELSE res[i - 1]
  IN  res[Len(oids)]

(* Indices of the templates whose sorted minimized IDs meet the sorted minimized IDs asked for; *)
(* res[i] is the list after i turns of the loop.                                                *)
InvolvedByMinIds(oids, ids) ==
  LET mins     == {PlainMinIds(ids)[j] : j \in 1 .. Len(ids)}
      meets(i) == {TphashMinIds(oids[i])[k] : k \in 1 .. Count[oids[i]]} \cap mins # {}
      res[i \in 0 .. Len(oids)] ==
        IF i = 0 THEN <<>> ELSE IF meets(i) THEN Append(res[i - 1], i - 1) ELSE res[i - 1]
  IN  res[Len(oids)]

(* getTphashMinIds throws ExceptionTpHashNotFound. *)
NotFound(m) == m[1] \in {2, 6} /\ \E t \in LookedUp(m) : First[t] = 0

(* Mutant of OutputBuffer: GET_MIN_IDS sends a vector, with its size. *)
OutputBufferOfVectors(m) ==
  LET oids == RecvOids(m)
  IN  CASE m[1] = 2 -> SendLongVector(TphashMinIds(oids[1]))
        [] m[1] = 3 -> <<First[oids[1]], Count[oids[1]]>>
        [] m[1] = 4 -> [k \in 1 .. 2 * Len(oids) |-> IF k % 2 = 1 THEN First[oids[(k + 1) \div 2]] ELSE Count[oids[k \div 2]]]
        [] m[1] = 5 -> SendLongVector(PlainMinIds(RecvIds(m)))
        [] m[1] = 6 -> SendLongVector(InvolvedByMinIds(oids, RecvIds(m)))
        [] OTHER    -> <<>>

(* m_outputBuffer after the handler of a complete command. *)
OutputBuffer(m) ==
  LET oids == RecvOids(m)
  IN  CASE m[1] = 2 -> SendLongVector(TphashMinIds(oids[1]))
        [] m[1] = 3 -> <<First[oids[1]], Count[oids[1]]>>
        [] m[1] = 4 -> [k \in 1 .. 2 * Len(oids) |-> IF k % 2 = 1 THEN First[oids[(k + 1) \div 2]] ELSE Count[oids[k \div 2]]]
        [] m[1] = 5 -> PlainMinIds(RecvIds(m))
        [] m[1] = 6 -> SendLongVector(InvolvedByMinIds(oids, RecvIds(m)))
        [] OTHER    -> <<>>

ServerClosed(c) == child[c] \in {"none", "exited"}

Init ==
  /\ client = [c \in Clients |-> "idle"]
  /\ sockfd = [c \in Clients |-> FALSE]
  /\ call \in [Clients -> {CHOOSE r \in Requests : TRUE}]
  /\ todo = [c \in Clients |-> <<>>] /\ written = [c \in Clients |-> 0]
  /\ torn = [c \in Clients |-> FALSE] /\ outcome = [c \in Clients |-> None]
  /\ up = [c \in Clients |-> <<>>] /\ down = [c \in Clients |-> <<>>]
  /\ parent = "up"
  /\ child = [c \in Clients |-> "none"]
  /\ in = [c \in Clients |-> <<>>] /\ out = [c \in Clients |-> <<>>]
  /\ closing = [c \in Clients |-> FALSE] /\ status = [c \in Clients |-> 0]
  /\ assertion = [c \in Clients |-> "none"]
  /\ keyOrder \in {"id_count", "first_id"}

(* ------------------------------ client --------------------------------- *)

(* A call: connect() unless there is a connection, whatever has become of it. *)
connect(c, r) ==
  /\ client[c] = "idle"
  /\ sockfd[c] \/ (parent = "up" /\ child[c] = "none")
  /\ sockfd' = [sockfd EXCEPT ![c] = TRUE]
  /\ child' = IF sockfd[c] THEN child ELSE [child EXCEPT ![c] = "backlog"]
  /\ client' = [client EXCEPT ![c] = "send"]
  /\ call' = [call EXCEPT ![c] = r]
  /\ todo' = [todo EXCEPT ![c] = Message(r)]
  /\ written' = [written EXCEPT ![c] = 0]
  /\ torn' = [torn EXCEPT ![c] = FALSE]
  /\ outcome' = [outcome EXCEPT ![c] = None]
  /\ up' = IF sockfd[c] THEN up ELSE [up EXCEPT ![c] = <<>>]
  /\ down' = IF sockfd[c] THEN down ELSE [down EXCEPT ![c] = <<>>]
  /\ UNCHANGED <<parent, in, out, closing, status, assertion, keyOrder>>

(* ExceptionConnectionFailed, which the two calls for first IDs turn into -1 or an empty vector. *)
connectFails(c, r) ==
  /\ client[c] = "idle" /\ ~sockfd[c] /\ parent # "up"
  /\ call' = [call EXCEPT ![c] = r]
  /\ outcome' = [outcome EXCEPT ![c] =
       Outcome(IF r.cmd \in {"firstId", "firstIdMulti"} THEN "unset" ELSE "noConnection")]
  /\ torn' = [torn EXCEPT ![c] = FALSE]
  /\ UNCHANGED <<client, sockfd, todo, written, up, down, parent, childVars, keyOrder>>

(* The process is over: by the assertion on read() or write(), by SIGPIPE, or from outside. *)
EndClient(c) ==
  /\ client' = [client EXCEPT ![c] = "gone"]
  /\ sockfd' = [sockfd EXCEPT ![c] = FALSE]
  /\ down' = [down EXCEPT ![c] = <<>>]
  /\ todo' = [todo EXCEPT ![c] = <<>>]
  /\ written' = [written EXCEPT ![c] = 0]

(* sendToServer: a write that returns early is followed by one that starts again at the beginning *)
(* of the buffer; the assertion after the loop fails when more than the buffer was written.       *)
sendToServer(c) ==
  /\ client[c] = "send"
  /\ LET data == NextWrite(call[c], todo[c]) IN
     \E n \in IF ShortWrites THEN 1 .. Len(data) ELSE {Len(data)} :
       LET total == written[c] + n IN
       /\ up' = IF ServerClosed(c) THEN up ELSE [up EXCEPT ![c] = @ \o SubSeq(data, 1, n)]
       /\ torn' = [torn EXCEPT ![c] = @ \/ n < Len(data)]
       /\ IF total > Len(data)
          THEN EndClient(c)
          ELSE LET done == total = Len(data) IN
               /\ todo' = IF done THEN [todo EXCEPT ![c] = SubSeq(@, Len(data) + 1, Len(@))] ELSE todo
               /\ written' = [written EXCEPT ![c] = IF done THEN 0 ELSE total]
               /\ client' = IF done /\ Len(data) = Len(todo[c]) THEN [client EXCEPT ![c] = "code"] ELSE client
               /\ UNCHANGED <<sockfd, down>>
  /\ UNCHANGED <<call, outcome, parent, childVars, keyOrder>>

(* checkRecvErrorCode: an error is an exception, and the connection stays open on this side. *)
checkRecvErrorCode(c) ==
  /\ client[c] = "code" /\ down[c] # <<>>
  /\ down' = [down EXCEPT ![c] = Tail(@)]
  /\ LET ok == Head(down[c]) = 0 IN
     /\ client' = [client EXCEPT ![c] = IF ok THEN "data" ELSE "idle"]
     /\ outcome' = IF ok THEN outcome ELSE [outcome EXCEPT ![c] = Outcome("requestFailed")]
  /\ UNCHANGED <<sockfd, call, todo, written, torn, up, parent, childVars, keyOrder>>

(* recvLongVector, recvLongArray, or pairs of recvLong, and the return of the call. *)
recvAnswer(c) ==
  /\ client[c] = "data" /\ Expects(call[c], down[c])
  /\ outcome' = [outcome EXCEPT ![c] = [kind |-> "answer", value |-> Received(call[c], down[c])]]
  /\ down' = [down EXCEPT ![c] = SubSeq(@, Consumed(call[c], @) + 1, Len(@))]
  /\ client' = [client EXCEPT ![c] = "idle"]
  /\ UNCHANGED <<sockfd, call, todo, written, torn, up, parent, childVars, keyOrder>>

recvFromServerFails(c) ==
  /\ ServerClosed(c)
  /\ \/ client[c] = "code" /\ down[c] = <<>>
     \/ client[c] = "data" /\ ~Expects(call[c], down[c])
  /\ EndClient(c) /\ UNCHANGED <<call, torn, outcome, up, parent, childVars, keyOrder>>

writeFails(c) ==
  /\ client[c] = "send" /\ ServerClosed(c)
  /\ EndClient(c) /\ UNCHANGED <<call, torn, outcome, up, parent, childVars, keyOrder>>

killClient(c) ==
  /\ client[c] # "gone"
  /\ EndClient(c) /\ UNCHANGED <<call, torn, outcome, up, parent, childVars, keyOrder>>

(* disconnect(): sends CMD_EXIT and closes without waiting for the answer. *)
disconnect(c) ==
  /\ client[c] = "idle" /\ sockfd[c]
  /\ up' = IF ServerClosed(c) THEN up ELSE [up EXCEPT ![c] = Append(@, CMD_EXIT)]
  /\ sockfd' = [sockfd EXCEPT ![c] = FALSE]
  /\ down' = [down EXCEPT ![c] = <<>>]
  /\ UNCHANGED <<client, call, todo, written, torn, outcome, parent, childVars, keyOrder>>

(* Another process takes the place, once the connection of the last one has been cleared away. *)
startClient(c) ==
  /\ client[c] = "gone" /\ child[c] = "none"
  /\ client' = [client EXCEPT ![c] = "idle"]
  /\ torn' = [torn EXCEPT ![c] = FALSE] /\ outcome' = [outcome EXCEPT ![c] = None]
  /\ up' = [up EXCEPT ![c] = <<>>]
  /\ UNCHANGED <<sockfd, call, todo, written, down, parent, childVars, keyOrder>>

(* ------------------------------ server: parent ------------------------- *)

accept(c) ==
  /\ parent = "up" /\ child[c] = "backlog"
  /\ child' = [child EXCEPT ![c] = "serve"]
  /\ UNCHANGED <<clientVars, up, down, parent, in, out, closing, status, assertion, keyOrder>>

(* The listening socket closes, and with it the connections that were not accepted. *)
StopListening(how) ==
  /\ parent' = how
  /\ child' = [c \in Clients |-> IF child[c] = "backlog" THEN "none" ELSE child[c]]
  /\ UNCHANGED <<clientVars, up, down, in, out, closing, status, assertion, keyOrder>>

forkFails(c) ==
  /\ parent = "up" /\ child[c] = "backlog"
  /\ StopListening("childpid")

killParent == parent = "up" /\ StopListening("down")

startServer ==
  /\ parent # "up"
  /\ parent' = "up"
  /\ UNCHANGED <<clientVars, up, down, childVars, keyOrder>>

(* Mutant of ExitCode: the wait status itself. *)
RawStatus(s) == s

(* WEXITSTATUS: the signal that ended a child is not part of it. *)
ExitCode(s) == (s \div 256) % 256

(* One turn of the loop of sigchild_handler; without a parent, init reaps. *)
sigchild_handler(c) ==
  /\ child[c] = "exited"
  /\ LET ok == parent # "up" \/ ExitCode(status[c]) \in {0, 1} IN
     /\ parent' = IF ok THEN parent ELSE "code"
     /\ child' = [d \in Clients |-> IF d = c \/ (~ok /\ child[d] = "backlog") THEN "none" ELSE child[d]]
  /\ status' = [status EXCEPT ![c] = 0] /\ assertion' = [assertion EXCEPT ![c] = "none"]
  /\ UNCHANGED <<clientVars, up, down, in, out, closing, keyOrder>>

(* ------------------------------ server: child -------------------------- *)

(* Mutant of EndChild: what was read of the last command stays for the next session. *)
EndChildDirty(c, s, a) ==
  /\ child' = [child EXCEPT ![c] = "exited"]
  /\ status' = [status EXCEPT ![c] = s] /\ assertion' = [assertion EXCEPT ![c] = a]
  /\ closing' = [closing EXCEPT ![c] = FALSE]
  /\ UNCHANGED <<in, out>>

EndChild(c, s, a) ==
  /\ child' = [child EXCEPT ![c] = "exited"]
  /\ status' = [status EXCEPT ![c] = s] /\ assertion' = [assertion EXCEPT ![c] = a]
  /\ in' = [in EXCEPT ![c] = <<>>] /\ out' = [out EXCEPT ![c] = <<>>]
  /\ closing' = [closing EXCEPT ![c] = FALSE]

(* One word of recvFromClient. The answer of an earlier lookup must have been fine. *)
recvFromClient(c) ==
  /\ child[c] = "serve" /\ up[c] # <<>>
  /\ ~Complete(in[c]) /\ \A t \in LookedUp(in[c]) : Parses(t)
  /\ in' = [in EXCEPT ![c] = Append(@, Head(up[c]))]
  /\ up' = [up EXCEPT ![c] = Tail(@)]
  /\ UNCHANGED <<clientVars, down, parent, child, out, closing, status, assertion, keyOrder>>

(* Mutant of clientDisconnected: the end of the stream is noticed between two commands only. *)
clientDisconnectedBetween(c) ==
  /\ child[c] = "serve" /\ up[c] = <<>> /\ ~sockfd[c] /\ in[c] = <<>>
  /\ EndChild(c, 0, "none")
  /\ UNCHANGED <<clientVars, up, down, parent, keyOrder>>

(* The other side is closed. Between two commands the child is done; within one, the exception is *)
(* caught in commandHandler, which answers with an error: writeToClient asserts !m_closeConnection. *)
clientDisconnected(c) ==
  /\ child[c] = "serve" /\ up[c] = <<>> /\ ~sockfd[c]
  /\ ~Complete(in[c]) /\ \A t \in LookedUp(in[c]) : Parses(t)
  /\ IF in[c] = <<>> THEN EndChild(c, 0, "none") ELSE EndChild(c, SIGABRT, "closeConnection")
  /\ UNCHANGED <<clientVars, up, down, parent, keyOrder>>

(* The answer of commandHandler: the code, then the buffer; after an error, or CMD_EXIT, the  *)
(* connection is closed.                                                                      *)
Respond(c, writes, close) ==
  /\ out' = [out EXCEPT ![c] = writes]
  /\ child' = [child EXCEPT ![c] = "flush"]
  /\ closing' = [closing EXCEPT ![c] = close]
  /\ UNCHANGED <<clientVars, up, down, parent, in, status, assertion, keyOrder>>

commandHandler(c) ==
  /\ child[c] = "serve" /\ Complete(in[c])
  /\ \A t \in LookedUp(in[c]) : Parses(t)
  /\ CASE in[c][1] \notin 1 .. 6 -> Respond(c, <<<<1>>>>, TRUE)
       [] NotFound(in[c])        -> Respond(c, <<<<2>>>>, TRUE)
       [] OTHER                  -> Respond(c, <<<<0>>, OutputBuffer(in[c])>>, in[c][1] = CMD_EXIT)

(* lw-server cannot be reached: an exception of the HTTP client. *)
lookupThrows(c) ==
  /\ child[c] = "serve" /\ LookedUp(in[c]) # {}
  /\ Respond(c, <<<<2>>>>, TRUE)

(* lw-server answers with something else than the pattern of getFirstId. *)
lookupAsserts(c) ==
  /\ child[c] = "serve" /\ \E t \in LookedUp(in[c]) : ~Parses(t)
  /\ EndChild(c, SIGABRT, "sscanf")
  /\ UNCHANGED <<clientVars, up, down, parent, keyOrder>>

(* One writeToClient of flushToClient or flushErrorToClient. *)
writeToClient(c) ==
  /\ child[c] = "flush" /\ out[c] # <<>>
  /\ out' = [out EXCEPT ![c] = Tail(@)]
  /\ down' = IF sockfd[c] THEN [down EXCEPT ![c] = @ \o Head(out[c])] ELSE down
  /\ UNCHANGED <<clientVars, up, parent, child, in, closing, status, assertion, keyOrder>>

writeToClientFails(c) ==
  /\ child[c] = "flush" /\ out[c] # <<>> /\ ~sockfd[c]
  /\ EndChild(c, SIGPIPE, "none")
  /\ UNCHANGED <<clientVars, up, down, parent, keyOrder>>

(* sessionOpened: the next command, or the end of the child. *)
sessionOpened(c) ==
  /\ child[c] = "flush" /\ out[c] = <<>>
  /\ IF closing[c]
     THEN EndChild(c, 0, "none")
     ELSE /\ child' = [child EXCEPT ![c] = "serve"]
          /\ in' = [in EXCEPT ![c] = <<>>]
          /\ UNCHANGED <<out, closing, status, assertion>>
  /\ UNCHANGED <<clientVars, up, down, parent, keyOrder>>

killChild(c) ==
  /\ child[c] \in {"serve", "flush"}
  /\ EndChild(c, SIGKILL, "none")
  /\ UNCHANGED <<clientVars, up, down, parent, keyOrder>>

(* A server side that closed before it read everything resets the connection: what was under *)
(* way to the client may be lost.                                                            *)
reset(c) ==
  /\ ServerClosed(c) /\ sockfd[c] /\ up[c] # <<>>
  /\ up' = [up EXCEPT ![c] = <<>>] /\ down' = [down EXCEPT ![c] = <<>>]
  /\ UNCHANGED <<clientVars, parent, childVars, keyOrder>>

ClientStep(c) == sendToServer(c) \/ checkRecvErrorCode(c) \/ recvAnswer(c) \/ recvFromServerFails(c)
ChildStep(c) ==
  \/ recvFromClient(c) \/ clientDisconnected(c) \/ commandHandler(c) \/ lookupThrows(c) \/ lookupAsserts(c)
  \/ writeToClient(c) \/ writeToClientFails(c) \/ sessionOpened(c)

Next ==
  \/ \E c \in Clients :
       \/ \E r \in Requests : connect(c, r) \/ connectFails(c, r)
       \/ ClientStep(c) \/ writeFails(c) \/ killClient(c) \/ disconnect(c) \/ startClient(c)
       \/ accept(c) \/ forkFails(c) \/ sigchild_handler(c)
       \/ ChildStep(c) \/ killChild(c) \/ reset(c)
  \/ killParent \/ startServer

Spec == Init /\ [][Next]_vars

(* Client and server are running processes, and a pending connection is accepted by a running      *)
(* parent, or ends it; a child that ended raises SIGCHLD. Nothing is assumed of calls being made,  *)
(* of processes being killed, or of the failures of lw-server.                                      *)
FairSpec == Spec /\ \A c \in Clients :
  /\ WF_vars(ClientStep(c)) /\ WF_vars(ChildStep(c))
  /\ WF_vars(accept(c) \/ forkFails(c)) /\ WF_vars(sigchild_handler(c))

---------------------------------------------------------------------------

(* All variables stay in their types, and what belongs to a session goes with it. *)
TypeOK ==
  /\ client \in [Clients -> {"idle", "send", "code", "data", "gone"}]
  /\ sockfd \in [Clients -> BOOLEAN]
  /\ call \in [Clients -> Requests]
  /\ written \in [Clients -> Nat] /\ torn \in [Clients -> BOOLEAN]
  /\ parent \in {"up", "down", "childpid", "code"}
  /\ child \in [Clients -> {"none", "backlog", "serve", "flush", "exited"}]
  /\ closing \in [Clients -> BOOLEAN]
  /\ status \in [Clients -> {0, SIGABRT, SIGKILL, SIGPIPE}]
  /\ assertion \in [Clients -> {"none", "closeConnection", "sscanf"}]
  /\ keyOrder \in {"id_count", "first_id"}
  /\ \A c \in Clients :
       /\ client[c] \in {"send", "code", "data"} => sockfd[c]
       /\ client[c] = "send" <=> todo[c] # <<>>
       /\ client[c] # "send" => written[c] = 0
       /\ child[c] # "exited" => status[c] = 0 /\ assertion[c] = "none"
       /\ child[c] \notin {"serve", "flush"} => in[c] = <<>> /\ out[c] = <<>> /\ ~closing[c]

(* What is under way to the client, and what the child has still to serve. *)
Pending(c) == down[c] \o FlattenSeq(out[c])
Unserved(c) == IF child[c] = "flush" THEN up[c] ELSE in[c] \o up[c]

(* The two ends agree on where a request and its answer end (the recv* calls of each side take     *)
(* what the send* calls of the other side put): until there is an answer, what the child has to    *)
(* serve and what the client has to write are the words of the call; the answer has the words that *)
(* the client reads, and when it has read them, nothing is left of either.                         *)
InStep == \A c \in Clients : sockfd[c] /\ ~ServerClosed(c) /\ ~closing[c] =>
  LET words  == Message(call[c])
      unsent == todo[c]
      asked  == client[c] = "send" \/ (client[c] = "code" /\ Pending(c) = <<>>)
      fits(w) == Expects(call[c], w) /\ Consumed(call[c], w) = Len(w)
  IN  IF asked
      THEN /\ Pending(c) = <<>>
           /\ Len(Unserved(c)) + Len(unsent) - written[c] = Len(words)
           /\ torn[c] \/ Unserved(c) \o unsent = words
      ELSE /\ Unserved(c) = <<>>
           /\ CASE client[c] = "code" -> Head(Pending(c)) = 0 /\ fits(Tail(Pending(c)))
                [] client[c] = "data" -> fits(Pending(c))
                [] client[c] = "idle" -> Pending(c) = <<>>

(* The parent outlives its children: however a child ends, also by the signal of a failed          *)
(* assertion, the assertion of sigchild_handler on its exit code holds.                            *)
ParentSurvivesChildren == parent # "code"

(* Every call ends, with an answer, an exception or the end of the process, whatever ends first    *)
(* on the other side (the loops of recvFromServer and recvFromClient never wait for each other).   *)
CallsEnd == \A c \in Clients :
  client[c] \in {"send", "code", "data"} ~> client[c] \in {"idle", "gone"}

(* A child whose client has gone ends, and is reaped: no process stays behind a closed connection. *)
ChildrenEnd == \A c \in Clients :
  child[c] \in {"serve", "flush", "exited"} /\ ~sockfd[c] ~> child[c] = "none"

Promise == INSTANCE IdService WITH
  state <- [c \in Clients |-> CASE client[c] = "gone" -> "ended" [] client[c] = "idle" -> "idle" [] OTHER -> "busy"]

(* The session implements IdService: a call that returns an answer returns the one for its        *)
(* request, after any number of other calls, errors and lost peers before it. Only a write of IDs *)
(* that came back early, and is then started again, can make it the answer for another list.      *)
KeepsPromise == Promise!Spec
=============================================================================
