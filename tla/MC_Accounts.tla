---------------------------- MODULE MC_Accounts ----------------------------
(* Instances of Accounts for TLC. *)
EXTENDS Accounts, TLC

Interchangeable == Permutations(Calls)
=============================================================================
