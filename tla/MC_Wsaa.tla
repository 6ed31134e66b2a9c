------------------------------- MODULE MC_Wsaa -------------------------------
(* Instances of Wsaa for TLC. *)
EXTENDS Wsaa, TLC

Interchangeable == Permutations(Callers) \cup Permutations(Services)
=============================================================================
