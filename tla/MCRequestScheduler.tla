--------------------------- MODULE MCRequestScheduler ---------------------------
(***************************************************************************)
(* RequestScheduler for TLC.  Connections are interchangeable.             *)
(***************************************************************************)
EXTENDS RequestScheduler, TLC

Symmetry == Permutations(Requests) \cup Permutations(Groups)
=============================================================================
