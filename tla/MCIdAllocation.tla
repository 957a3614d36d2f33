--------------------------- MODULE MCIdAllocation ---------------------------
(* The instance of IdAllocation that TLC checks: the files of three ordinary  *)
(* templates and of an empty one, and a file that cannot be parsed, in two   *)
(* commits of one repository.                                                *)
EXTENDS IdAllocation, TLC

CONSTANTS ta, tb, tc, te, p1, p2, p3, pe, px, r1

MCTemplates == {ta, tb, tc, te}
MCPotLen == [t \in Templates |-> CASE t = ta -> 2 [] t \in {tb, tc} -> 1 [] t = te -> 0]
MCNoneEmpty == [t \in Templates |-> 2]
MCPots == {p1, p2, p3, pe, px}
MCTpHash ==
  [p \in Pots |-> CASE p = p1 -> ta [] p = p2 -> tb [] p = p3 -> tc
                     [] p = pe -> te [] p = px -> NoHash]
MCCommitsOf == [r \in Repos |-> Commits]
MCContents == [c \in Commits |-> IF c = 1 THEN <<p1, px>> ELSE <<p2, p3, pe>>]

Interchangeable == Permutations(Fillers) \cup Permutations(Slots)
=============================================================================
