---------------------------- MODULE MC_CuitCerts ----------------------------
(* Instances of CuitCerts for TLC. *)
EXTENDS CuitCerts, TLC

AllOps == CreateOps \cup Uploads
V1Ops == AllOps \ PosOps

Interchangeable == Permutations(Calls) \cup Permutations(Accounts)
=============================================================================
