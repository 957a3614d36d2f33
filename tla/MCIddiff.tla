------------------------------ MODULE MCIddiff ------------------------------
(* The instance of Iddiff that TLC checks: two messages that were collapsed *)
(* with each other, so that minimizing their IDs can collide.               *)
EXTENDS Iddiff, TLC

MCMinId == [i \in Ids |-> 1]

Interchangeable == Permutations(Msgs)
=============================================================================
