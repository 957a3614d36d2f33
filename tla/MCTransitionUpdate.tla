------------------------- MODULE MCTransitionUpdate -------------------------
(* Six blobs: 1, 2, 4 and 5 have IDs (5 has the template of 1), 3 and 6 have none. *)
(* The last commit brings 6, whose last message is the last of 3: their numbers are *)
(* both collapsed with the ID that the message has in 2, and an assertion fails.    *)
EXTENDS TransitionUpdate

MCOids == 1 .. 6
MCTpHash == <<"a", "b", "c", "d", "a", "e">>
MCFirst == [h \in {"a", "b", "c", "d", "e"} |->
  CASE h = "a" -> 3 [] h = "b" -> 4 [] h = "d" -> 6 [] OTHER -> 0]
MCMessages == <<<<1>>, <<1, 2>>, <<2, 1>>, <<2, 1>>, <<1>>, <<3, 4, 1>>>>
MCDetected == <<{<<1, 2>>, <<2, 4>>}, {<<1, 2>>, <<1, 4>>, <<2, 3>>, <<2, 4>>, <<1, 5>>, <<3, 4>>},
  {<<1, 2>>, <<1, 4>>, <<2, 3>>, <<2, 4>>, <<1, 5>>, <<3, 4>>, <<2, 6>>}>>
DetectedAt == [k \in 0 .. 2 |-> MCDetected[k + 1]]
=============================================================================
