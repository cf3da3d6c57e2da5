---------------------------- MODULE MCMpmcQueue ----------------------------
(* An instance of MpmcQueue for TLC. *)
EXTENDS MpmcQueue, TLC

Symmetry == Permutations(Callers) \cup Permutations(Data)
=============================================================================
