------------------------------ MODULE Amounts ------------------------------
(***************************************************************************)
(* What the two issuing endpoints make of the amounts, the currency and    *)
(* the date they are sent, before they ask ARCA for a CAE.  (Numbers and   *)
(* tickets are the module Invoicing.)                                      *)
(*                                                                         *)
(*   POS  validate-transaction: one turn of its loop for every tax, the    *)
(*        VAT computed from the base, the total summed up;                 *)
(*   v1   AfipInvoiceService.issue: every amount is the client's.          *)
(*                                                                         *)
(* Amounts come in tenths of a cent and leave in cents; a percentage is in *)
(* tenths of a point.  A rate of exchange comes in tenths of a millionth   *)
(* and leaves in millionths.  Math.round takes a tie upwards, but a tie in *)
(* decimals is seldom one in binary: it may go either way.  Sums of cents  *)
(* are rounded again, which makes them exact.                              *)
(***************************************************************************)
EXTENDS Integers, Sequences, Sums

CONSTANTS
  Sent,     \* amounts that may be sent, in tenths of a cent
  Rates,    \* percentages that may be sent, in tenths of a point
  Totals,   \* totals that may be sent; 0 for none
  Terms,    \* currency, rate of exchange and date that may be sent
  MaxTaxes, \* bound: taxes of a POS transaction
  MaxIvas   \* bound: VAT lines of a v1 invoice

ASSUME SentAreAmounts == Sent \subseteq Nat /\ 0 \in Sent
ASSUME RatesAreNatural == Rates \subseteq Nat /\ 0 \in Rates
ASSUME TotalsAreAmounts == Totals \subseteq Nat

\* What is left of the name of a currency without the blanks around it, in
\* upper case; `loose' says that it was not sent like that.  The DTO lets no
\* rate below a millionth pass; 0 stands for none.
Words == {"", "PES", "ARS", "PESOS", "DOL", "USD", "DOLAR", "DOLARES", "EUR"}
Rate == {0} \cup {x \in Nat : x >= 10}
ASSUME TermsAreTerms ==
  Terms \subseteq [moneda: Words, loose: BOOLEAN, cotizacion: Rate,
                  fecha: {"none", "valid", "invalid"}]
ASSUME BoundsAreNatural == MaxTaxes \in Nat /\ MaxIvas \in Nat

VARIABLES
  pc,     \* "idle", "taxes" (inside the POS loop), "sent" or "refused"
  order,  \* the body of the request
  lines,  \* aliCuotaIVA
  neto, iva, \* impneto and impIVA of the POS loop
  detail  \* FECAEDetRequest

vars == <<pc, order, lines, neto, iva, detail>>
-----------------------------------------------------------------------------
SeqsUpTo(S, max) == UNION {[1 .. k -> S] : k \in 0 .. max}

\* A transaction of the POS; the percentage stands in the tax or beside it.
Taxes == [taxBase: Sent, ofTax: Rates, beside: Rates]
Transactions ==
  [kind: {"pos"}, mono: BOOLEAN, letterC: BOOLEAN, exempt: Sent, totalPrice: Sent,
   taxes: SeqsUpTo(Taxes, MaxTaxes)]

\* An invoice of v1.
Ivas == [baseImp: Sent, importe: Sent]
Invoices ==
  [kind: {"v1"}, mono: BOOLEAN, neto: Sent, iva: Sent, exento: Sent, noGravado: Sent,
   total: Totals, ivas: SeqsUpTo(Ivas, MaxIvas), terms: Terms]

One == 1000 * 1000  \* the rate of the peso, in millionths

NoOrder == [kind |-> "none"]
NoDetail == [ImpNeto |-> 0, ImpTotConc |-> 0, ImpIVA |-> 0, ImpOpEx |-> 0, ImpTotal |-> 0,
             Iva |-> << >>, MonId |-> "PES", MonCotiz |-> One, CbteFch |-> "today"]

Init ==
  /\ pc = "idle"
  /\ order = NoOrder
  /\ lines = << >>
  /\ neto = 0
  /\ iva = 0
  /\ detail = NoDetail

\* x / d rounded to a whole number.
RoundedBy(x, d) == {c \in {x \div d, (x \div d) + 1} : 2 * (d * c - x) \in -d .. d}
Cents(x) == RoundedBy(x, 10)

\* A request comes in.
Take ==
  /\ pc = "idle"
  /\ order' \in Transactions \cup Invoices
  /\ pc' = "taxes"
  /\ UNCHANGED <<lines, neto, iva, detail>>
-----------------------------------------------------------------------------
(* The POS. *)

Percentage(t) == IF t.ofTax # 0 THEN t.ofTax ELSE t.beside

\* Mutated form: the VAT is computed from the base as it was sent.
LineFromSent(t) ==
  {[BaseImp |-> b, Importe |-> m] : b \in Cents(t.taxBase),
                                    m \in RoundedBy(t.taxBase * Percentage(t), 10000)}

\* A line is computed from the rounded base.
Line(t) ==
  UNION {{[BaseImp |-> b, Importe |-> m] : m \in RoundedBy(b * Percentage(t), 1000)} :
           b \in Cents(t.taxBase)}

\* One turn of the loop; an invoice C has no taxes.
AddTax ==
  /\ pc = "taxes" /\ order.kind = "pos" /\ ~ order.letterC
  /\ Len(lines) < Len(order.taxes)
  /\ \E line \in Line(order.taxes[Len(lines) + 1]) :
       /\ lines' = Append(lines, line)
       /\ neto' = neto + line.BaseImp
       /\ iva' = iva + line.Importe
  /\ UNCHANGED <<pc, order, detail>>

\* Mutated form: the total is the price of the transaction.
PriceAsTotal(o, d) == Cents(o.totalPrice)

\* The total is summed up from the parts.
PosTotal(o, d) == {d.ImpNeto + d.ImpTotConc + d.ImpIVA + d.ImpOpEx}

ClosePos ==
  /\ pc = "taxes" /\ order.kind = "pos"
  /\ order.letterC \/ Len(lines) = Len(order.taxes)
  /\ \E n \in (IF order.letterC THEN Cents(order.totalPrice) ELSE {neto}),
        x \in (IF order.letterC \/ order.mono THEN {0} ELSE Cents(order.exempt)) :
       LET d == [NoDetail EXCEPT !.ImpNeto = n, !.ImpIVA = iva, !.ImpOpEx = x,
                                 !.Iva = IF order.mono THEN << >> ELSE lines] IN
       \E t \in PosTotal(order, d) : detail' = [d EXCEPT !.ImpTotal = t]
  /\ pc' = "sent"
  /\ UNCHANGED <<order, lines, neto, iva>>
-----------------------------------------------------------------------------
(* v1. *)

Raw(t) == IF t.moneda = "" /\ ~ t.loose THEN "PES" ELSE t.moneda

\* Mutated form: the aliases are not known.
MonedaAsSent(t) == Raw(t)

\* normalizeMoneda: no name is the peso, which a name of blanks is not; an
\* alias becomes its code, and any other name stays as it is.
Moneda(t) ==
  CASE Raw(t) \in {"ARS", "PESOS"} -> "PES"
    [] Raw(t) \in {"USD", "DOLAR", "DOLARES"} -> "DOL"
    [] OTHER -> Raw(t)

RateIsMissing(t) == Moneda(t) # "PES" /\ t.cotizacion = 0

\* Mutated form: a rate is rounded like an amount.
CotizacionInCents(t) ==
  IF Moneda(t) = "PES" THEN {One} ELSE {10000 * c : c \in RoundedBy(t.cotizacion, 100000)}

\* What resolveCotizacion makes of a rate that is there.
Cotizacion(t) == IF Moneda(t) = "PES" THEN {One} ELSE RoundedBy(t.cotizacion, 10)

\* parseFecha, or today.
Fecha(t) == IF t.fecha = "valid" THEN "given" ELSE "today"

RefuseV1 ==
  /\ pc = "taxes" /\ order.kind = "v1"
  /\ RateIsMissing(order.terms)
  /\ pc' = "refused"
  /\ UNCHANGED <<order, lines, neto, iva, detail>>

\* A monotributista sends no exempt amount.
Exempt(o) == IF o.mono THEN {0} ELSE Cents(o.exento)

\* Mutated form: what is not taxed is left out of the sum.
V1TotalOfTaxed(o, d) ==
  IF o.total # 0 THEN Cents(o.total) ELSE {d.ImpNeto + d.ImpIVA + d.ImpOpEx}

\* The client's total, if it has sent one.
V1Total(o, d) ==
  IF o.total # 0 THEN Cents(o.total)
                 ELSE {d.ImpNeto + d.ImpTotConc + d.ImpIVA + d.ImpOpEx}

\* Mutated form: the two columns of a line are taken for one another.
V1LinesSwapped(o) ==
  {s \in [1 .. Len(o.ivas) -> [BaseImp: UNION {Cents(x) : x \in Sent},
                               Importe: UNION {Cents(x) : x \in Sent}]] :
     \A k \in 1 .. Len(o.ivas) :
       s[k].BaseImp \in Cents(o.ivas[k].importe) /\ s[k].Importe \in Cents(o.ivas[k].baseImp)}

\* The lines, rounded one by one.
V1Lines(o) ==
  {s \in [1 .. Len(o.ivas) -> [BaseImp: UNION {Cents(x) : x \in Sent},
                               Importe: UNION {Cents(x) : x \in Sent}]] :
     \A k \in 1 .. Len(o.ivas) :
       s[k].BaseImp \in Cents(o.ivas[k].baseImp) /\ s[k].Importe \in Cents(o.ivas[k].importe)}

CloseV1 ==
  /\ pc = "taxes" /\ order.kind = "v1"
  /\ ~ RateIsMissing(order.terms)
  /\ \E n \in Cents(order.neto), v \in Cents(order.iva), x \in Exempt(order),
        g \in Cents(order.noGravado), s \in V1Lines(order), m \in Cotizacion(order.terms) :
       LET d == [ImpNeto |-> n, ImpTotConc |-> g, ImpIVA |-> v, ImpOpEx |-> x, ImpTotal |-> 0,
                 Iva |-> IF order.mono THEN << >> ELSE s,
                 MonId |-> Moneda(order.terms),
                 MonCotiz |-> m,
                 CbteFch |-> Fecha(order.terms)] IN
       \E t \in V1Total(order, d) : detail' = [d EXCEPT !.ImpTotal = t]
  /\ pc' = "sent"
  /\ UNCHANGED <<order, lines, neto, iva>>

Next == Take \/ AddTax \/ ClosePos \/ RefuseV1 \/ CloseV1

Spec == Init /\ [][Next]_vars
-----------------------------------------------------------------------------
(* Properties. *)

Aliases == {"ARS", "PESOS", "USD", "DOLAR", "DOLARES"}

\* The type of every variable; no alias goes out for a currency.
TypeOK ==
  /\ pc \in {"idle", "taxes", "sent", "refused"}
  /\ order \in Transactions \cup Invoices \cup {NoOrder}
  /\ lines \in Seq([BaseImp: Nat, Importe: Nat])
  /\ neto \in Nat /\ iva \in Nat
  /\ detail \in [ImpNeto: Nat, ImpTotConc: Nat, ImpIVA: Nat, ImpOpEx: Nat, ImpTotal: Nat,
                 Iva: Seq([BaseImp: Nat, Importe: Nat]), MonId: Words \ Aliases,
                 MonCotiz: Nat, CbteFch: {"given", "today"}]

Parts(d) == d.ImpNeto + d.ImpTotConc + d.ImpIVA + d.ImpOpEx

Bases(s) == SumTo(Len(s), [k \in 1 .. Len(s) |-> s[k].BaseImp])
Importes(s) == SumTo(Len(s), [k \in 1 .. Len(s) |-> s[k].Importe])

\* What ARCA checks of a detail: the parts make the total, and the VAT lines,
\* where there are some, the net amount and the VAT.
AddsUp(d) ==
  /\ d.ImpTotal = Parts(d)
  /\ d.Iva # << >> => d.ImpNeto = Bases(d.Iva) /\ d.ImpIVA = Importes(d.Iva)

\* "... para que AFIP lo valide correctamente": whatever the POS sends and
\* however its amounts are rounded, the detail adds up to the cent.
PosAddsUp == pc = "sent" /\ order.kind = "pos" => AddsUp(detail)

\* The VAT of a POS invoice is that of the bases it sends, to half a cent a
\* line, though it is summed up from rounded lines.
PosVatIsOfItsBases ==
  pc = "sent" /\ order.kind = "pos" =>
    LET vat == SumTo(Len(lines), [k \in 1 .. Len(lines) |->
                                    lines[k].BaseImp * Percentage(order.taxes[k])])
    IN  2 * (1000 * detail.ImpIVA - vat) \in -1000 * Len(lines) .. 1000 * Len(lines)

SentParts(o) == o.neto + o.noGravado + o.iva + o.exento
InCents(o) ==
  /\ \A x \in {o.neto, o.noGravado, o.iva, o.exento, o.total} : x % 10 = 0
  /\ \A k \in 1 .. Len(o.ivas) : o.ivas[k].baseImp % 10 = 0 /\ o.ivas[k].importe % 10 = 0

\* The lines of a v1 invoice make its net amount and its VAT as they are sent.
LinesAddUp(o) ==
  o.ivas # << >> =>
    /\ o.neto = SumTo(Len(o.ivas), [k \in 1 .. Len(o.ivas) |-> o.ivas[k].baseImp])
    /\ o.iva = SumTo(Len(o.ivas), [k \in 1 .. Len(o.ivas) |-> o.ivas[k].importe])

\* A v1 invoice in whole cents whose total and lines add up still does when it
\* is sent, with or without the total; but for the exempt amount that is
\* dropped for a monotributista.
V1AddsUp ==
  pc = "sent" /\ order.kind = "v1" /\ InCents(order) /\ order.total \in {0, SentParts(order)}
  /\ (order.mono => order.exento = 0) /\ LinesAddUp(order)
  => AddsUp(detail)

\* Lines that added up before the rounding are off the net amount and the VAT
\* by half a cent a line, and half a cent more, at most: no line is computed
\* from another.
V1LinesAreNear ==
  pc = "sent" /\ order.kind = "v1" /\ LinesAddUp(order) /\ detail.Iva # << >> =>
    LET off == Len(detail.Iva) + 1 IN
    /\ 2 * (detail.ImpNeto - Bases(detail.Iva)) \in -off .. off
    /\ 2 * (detail.ImpIVA - Importes(detail.Iva)) \in -off .. off

\* The total of a v1 invoice that was right before the rounding is at most two
\* cents off its parts, and exact if the amounts were whole cents.
V1IsNear ==
  pc = "sent" /\ order.kind = "v1" /\ order.total \in {0, SentParts(order)}
  /\ (order.mono => order.exento = 0)
  => detail.ImpTotal - Parts(detail) \in IF InCents(order) THEN {0} ELSE -2 .. 2

InPesos(t) == t.moneda \in {"PES", "ARS", "PESOS"} \/ (t.moneda = "" /\ ~ t.loose)

\* "En PES se ignora y va 1": an invoice in pesos, by any of their names and
\* whatever rate comes with it, goes out in PES at the rate 1.  One in another
\* currency goes out in none of that name, within half a millionth of the rate
\* that was sent; the least rate the DTO lets pass is not rounded away.
RateIsNear ==
  pc = "sent" /\ order.kind = "v1" =>
    IF InPesos(order.terms)
    THEN detail.MonId = "PES" /\ detail.MonCotiz = One
    ELSE /\ detail.MonId # "PES" /\ detail.MonCotiz > 0
         /\ 2 * (10 * detail.MonCotiz - order.terms.cotizacion) \in -10 .. 10
-----------------------------------------------------------------------------
(* What the repository says and the code does not keep. *)

\* "Si no va, usa hoy (AR)": the date of today is used for a date that is not
\* sent, not for one that is.
TodayOnlyWithoutDate ==
  pc = "sent" /\ order.kind = "v1" /\ detail.CbteFch = "today" => order.terms.fecha = "none"

\* "6 = monotributista (no informa IVA)": an invoice of a monotributista tells
\* no VAT, neither its lines nor its sum.
NoVatOfMono ==
  pc = "sent" /\ order.kind = "v1" /\ order.mono => detail.Iva = << >> /\ detail.ImpIVA = 0
=============================================================================
