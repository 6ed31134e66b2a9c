-------------------------------- MODULE Sums --------------------------------
(***************************************************************************)
(* The sum over the lines of an invoice: what ARCA checks is stated with   *)
(* it.  A recursive function, not a RECURSIVE operator, so that it can be  *)
(* reasoned about.                                                         *)
(***************************************************************************)
EXTENDS Integers

\* f[1] + ... + f[n]
SumTo(n, f) == LET S[k \in 0 .. n] == IF k = 0 THEN 0 ELSE S[k - 1] + f[k] IN S[n]
=============================================================================
