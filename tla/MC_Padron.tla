----------------------------- MODULE MC_Padron -----------------------------
(* Instances of Padron for TLC. *)
EXTENDS Padron

\* Every kind of tax, a state that counts as active and one that does not.
SomeItems == [id: {20, 30, 32, 33, 34, NaN}, state: {"INACTIVO", "BAJA"}]
=============================================================================
