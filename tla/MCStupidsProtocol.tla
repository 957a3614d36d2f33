------------------------- MODULE MCStupidsProtocol -------------------------
(* Three templates: of two messages, recorded as unknown, and not recorded at all. *)
EXTENDS StupidsProtocol

CONSTANTS known, unset, missing

MCRecorded == {known, unset}
MCFirst == [t \in MCRecorded |-> IF t = known THEN 1 ELSE 0]
MCCount == [t \in MCRecorded |-> IF t = known THEN 2 ELSE 0]
MCMinId == <<1, 1, 3>>
Req(cmd, hashes, ids) == [cmd |-> cmd, hashes |-> hashes, ids |-> ids]
MCRequests == {Req("minIdArray", <<known>>, <<>>), Req("minIdArray", <<unset>>, <<>>),
               Req("firstId", <<missing>>, <<>>), Req("firstIdMulti", <<known, unset>>, <<>>),
               Req("minIds", <<>>, <<3, 2>>), Req("involved", <<known>>, <<2, 3>>)}
=============================================================================
