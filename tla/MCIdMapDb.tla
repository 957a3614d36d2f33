---------------------------- MODULE MCIdMapDb ----------------------------
(* Finite instances of IdMapDb: one updater and one server; message IDs start at FirstId,
   and ID 1 stands for the IDs below it that no row may be written for. *)
EXTENDS IdMapDb, TLC

MCRequests == {{LastId - 1, LastId}}
=============================================================================
