---------------------------- MODULE MC_Invoicing ----------------------------
(***************************************************************************)
(* Instances of Invoicing for TLC.                                         *)
(***************************************************************************)
EXTENDS Invoicing, TLC

\* Every series belongs to the same issuer.
OneIssuer == [s \in Series |-> CHOOSE c \in Cuits : TRUE]

\* Every series belongs to an issuer of its own.
OwnIssuers == CHOOSE f \in [Series -> Cuits] :
                \A s, t \in Series : s # t => f[s] # f[t]

Interchangeable == Permutations(Requests)
=============================================================================
