----------------------------- MODULE MC_Amounts -----------------------------
(* Instances of Amounts for TLC. *)
EXTENDS Amounts

Named(word, loose, rate, date) ==
  [moneda |-> word, loose |-> loose, cotizacion |-> rate, fecha |-> date]

\* The peso by no name, by an alias and a loose one; other currencies by code,
\* alias and nothing but blanks; the least rate, a tie, one of six decimals,
\* and none.
SomeTerms ==
  {Named("", FALSE, 0, "none"), Named("ARS", TRUE, 10, "valid"),
   Named("USD", FALSE, 0, "none"), Named("DOLARES", TRUE, 10, "invalid"),
   Named("EUR", FALSE, 12345675, "none"), Named("", TRUE, 15, "none")}

\* Without and with a date, and with one that is none.
SomeDates == {Named("", FALSE, 0, d) : d \in {"none", "valid", "invalid"}}
=============================================================================
