-------------------------- MODULE MCCommitHistory --------------------------
(* Two directories, 1 and 3, with the files 2 and 4; 6 is a file in the root with a short name that is no .po file. *)
EXTENDS OldestByTphash

Plain(oid) == <<oid, "plain">>
D0 == 2 :> Plain(10)
D1 == 2 :> Plain(11)
D2 == (2 :> Plain(12)) @@ (4 :> Plain(13))
D3 == 4 :> <<14, "exec">>
T0 == 1 :> D0
T1 == (1 :> D1) @@ (3 :> D0)
T2 == 3 :> D2
T3 == (1 :> D0) @@ (3 :> D3)
T4 == (3 :> D1) @@ (6 :> Plain(15))
MCTrees == {Empty, D0, D1, D2, D3, T0, T1, T2, T3, T4}

MCTransitions == {
  [cmd |-> "move", orig |-> <<1, 2>>, dest |-> <<3, 4>>],
  [cmd |-> "copy", orig |-> <<1, 2>>, dest |-> <<3, 2>>],
  [cmd |-> "mergekeep", orig |-> <<3, 2>>, dest |-> <<1, 2>>]}

At(trees, times) == [n \in DOMAIN trees |-> [tree |-> trees[n], time |-> times[n]]]

(* Every history of four commits in order of time, and shorter ones. *)
InOrder == {At(trees, <<2, 3, 5, 7>>) : trees \in [1 .. 4 -> {T0, T1, T2, T3}]}
           \cup {At(trees, <<2, 3>>) : trees \in {<<T0>>, <<T1, T3>>}}

(* Every history of five commits with times that are accepted, one that is not, and two clocks that take turns. *)
Skewed == LET Accepted == {clock \in [1 .. 5 -> 1 .. 6] :
                /\ \A i \in 1 .. 4 : clock[i] <= clock[i + 1] + 2
                /\ \A i \in 1 .. 3 : clock[i] < clock[i + 2]}
          IN  {At(<<T0, T1, T0, T2, T1>>, clock) : clock \in Accepted \cup {<<1, 2, 3, 6, 3>>}}
              \cup {At(<<T0, T1, T0, T2, T0, T1>>, clock) : clock \in {<<3, 1, 5, 3, 7, 5>>, <<3, 2, 5, 4, 7, 6>>}}
InStable == {At(<<T1, T2, T3>>, times) : times \in {<<2, 4, 6>>, <<1, 4, 3>>}}
            \cup {At(<<T0, T4, T1>>, <<3, 4, 5>>), At(<<T2, T0>>, <<5, 6>>), At(<<T0, T2>>, <<1, 4>>)}
MCHistories == [trunk |-> InOrder \cup Skewed, stable |-> InStable]
MCPoNames == {2, 4}

(* Two templates, a and b, and a third one that no repository has. 10, 11, 14 and 20 have the messages *)
(* of a: 11 with an obsolete one before them, 14 with another position of the first one.              *)
Msg(orig, line, trans) == [orig |-> orig, notes |-> "", filepos |-> <<<<"c", line>>>>, trans |-> trans, obsolete |-> FALSE]
Obsolete(orig) == [Msg(orig, -1, "t0") EXCEPT !.obsolete = TRUE]
Po(header, messages) == [header |-> header, date |-> 1, messages |-> messages]
MCContents ==
  (10 :> Po("ok", <<Msg("a1", 5, ""), Msg("a2", -1, "t1")>>)) @@
  (11 :> Po("ok", <<Obsolete("b1"), Msg("a1", 5, "t2"), Msg("a2", -1, "t1")>>)) @@
  (12 :> Po("ok", <<Msg("b1", 5, "t1")>>)) @@ (13 :> Po("noDate", <<Msg("b1", 5, "t1")>>)) @@
  (14 :> Po("ok", <<Msg("a1", 6, "t1"), Msg("a2", -1, "t1")>>)) @@ (15 :> Po("noMessages", <<>>)) @@
  (20 :> Po("ok", <<Msg("a1", 5, "t3"), Msg("a2", -1, "t3"), Obsolete("c1")>>)) @@
  (21 :> Po("ok", <<Msg("b1", 5, "")>>)) @@ (22 :> Po("ok", <<Msg("c1", 5, "")>>)) @@
  (23 :> Po("corrupt", <<>>))
MCInputs == {20, 21, 22, 23}

(* Repositories that grow: the first two commits of trunk may be all there is. *)
MCTranslations == [trunk |-> {h \in InOrder : IsPrefix(At(<<T1, T3>>, <<2, 3>>), h)
                                               /\ \A n \in 3 .. Len(h) : h[n].tree = <<T0, T1, T0, T2>>[n]},
                   stable |-> {h \in InStable : Len(h) = 2 \/ h[2].tree = T4}]
MCShortNames == {6}
=============================================================================
