------------------------------- MODULE MCPatch -------------------------------
(* The instance of Patch that TLC checks: three files that share messages, one *)
(* of which may have no translation yet, and decisions that collide, conflict, *)
(* name a message nobody has, or were made with an ID that is not minimized.   *)
EXTENDS Patch

MCMinId == <<1, 2, 3, 1, 5>>
MCIdsOf == <<<<1, 2>>, <<1>>, <<3, 2>>>>
MCForms == [t \in Texts \cup {Blank} |-> IF t = "plural" THEN 2 ELSE 1]

Po(t) == [text |-> t, fuzzy |-> FALSE, comments |-> {}]
Fuzzy(t) == [text |-> t, fuzzy |-> TRUE, comments |-> {"a", "b"}]
Noted(t) == [text |-> t, fuzzy |-> FALSE, comments |-> {"a"}]

MCVersions ==
  << {<<Po("a"), Po(Blank)>>, <<Fuzzy("b"), Noted("b")>>, <<Noted("b"), Fuzzy("a")>>},
     {NoFile, <<Po("a")>>, <<Noted("b")>>, <<Fuzzy("a")>>},
     {<<Po(Blank), Po("a")>>, <<Fuzzy("a"), Noted("b")>>} >>

Add(t, removed) == [added |-> [text |-> t, fuzzy |-> FALSE], removed |-> removed]
AddFuzzy(t) == [added |-> [text |-> t, fuzzy |-> TRUE], removed |-> {}]
Reject(removed) == [added |-> NoEntry, removed |-> removed]
On(i, item) == i :> item

MCDiffs ==
  { On(1, Add("a", {"b"})), On(4, Add("b", {"a"})), On(1, Reject({"a", "b"})),
    On(2, Add("b", {"a"})) @@ On(3, Add("a", {})), On(3, Reject({"a"})) @@ On(1, Reject({})),
    On(1, Add("a", {})) @@ On(4, Add("b", {})), On(2, AddFuzzy("b")),
    On(2, Add("plural", {"a", "b"})), On(5, Reject({"a"})), On(5, Add("a", {})) @@ On(2, Reject({"b"})) }
=============================================================================
