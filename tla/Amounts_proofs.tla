--------------------------- MODULE Amounts_proofs ---------------------------
(***************************************************************************)
(* What holds of the amounts that are sent, for all amounts, percentages   *)
(* and numbers of taxes and lines.  AmountsInv is about one amount at a    *)
(* time; LoopInv, about the sums over the lines, stands on it.             *)
(***************************************************************************)
EXTENDS Amounts, Sums_proofs, SequenceTheorems, TLAPS

LEMMA RoundedAmounts ==
  ASSUME NEW x \in Nat, NEW d \in {10, 1000}, NEW c \in RoundedBy(x, d)
  PROVE  c \in Nat /\ 2 * (d * c - x) \in -d .. d
<1>1. CASE d = 10
  BY <1>1 DEF RoundedBy
<1>2. CASE d = 1000
  BY <1>2 DEF RoundedBy
<1> QED
  BY <1>1, <1>2

LEMMA RoundedVat ==
  ASSUME NEW x \in Nat, NEW c \in RoundedBy(x, 1000)
  PROVE  c \in Nat /\ 2 * (1000 * c - x) \in -1000 .. 1000
BY RoundedAmounts

LEMMA CentsOfAmounts ==
  ASSUME NEW x \in Nat, NEW c \in Cents(x)
  PROVE  c \in Nat /\ 10 * c - x \in -5 .. 5
<1>1. c \in Nat /\ 2 * (10 * c - x) \in -10 .. 10
  BY RoundedAmounts DEF Cents
<1> QED
  BY <1>1

\* A whole number of cents is left as it is.
LEMMA CentsOfWholeCents ==
  ASSUME NEW x \in Nat, x % 10 = 0, NEW c \in Cents(x)
  PROVE  10 * c = x
<1>1. c \in Nat /\ 10 * c - x \in -5 .. 5 /\ (c = x \div 10 \/ c = (x \div 10) + 1)
  BY CentsOfAmounts DEF Cents, RoundedBy
<1>2. x = 10 * (x \div 10)
  OBVIOUS
<1> QED
  BY <1>1, <1>2

\* Five amounts rounded one by one: the sum of four is off the fifth by two
\* cents at most, if they added up.
LEMMA FiveRoundings ==
  ASSUME NEW a \in Nat, NEW b \in Nat, NEW c \in Nat, NEW d \in Nat,
         NEW p \in Cents(a), NEW q \in Cents(b), NEW r \in Cents(c), NEW s \in Cents(d),
         NEW t \in Cents(a + b + c + d)
  PROVE  t - (p + q + r + s) \in -2 .. 2
<1>1. /\ p \in Nat /\ 10 * p - a \in -5 .. 5
      /\ q \in Nat /\ 10 * q - b \in -5 .. 5
      /\ r \in Nat /\ 10 * r - c \in -5 .. 5
      /\ s \in Nat /\ 10 * s - d \in -5 .. 5
  BY CentsOfAmounts
<1>2. t \in Nat /\ 10 * t - (a + b + c + d) \in -5 .. 5
  <2>1. a + b + c + d \in Nat
    OBVIOUS
  <2> QED
    BY <2>1, CentsOfAmounts
<1> QED
  BY <1>1, <1>2

\* A sum of whole cents is rounded to their number.
LEMMA RoundingOfWholeCents ==
  ASSUME NEW p \in Nat, NEW t \in Cents(10 * p)
  PROVE  t - p = 0
<1>1. 10 * p \in Nat
  OBVIOUS
<1>2. t \in Nat /\ 10 * t - 10 * p \in -5 .. 5
  BY <1>1, CentsOfAmounts
<1> QED
  BY <1>2
-----------------------------------------------------------------------------
LEMMA ShortSequences ==
  ASSUME NEW S, NEW max \in Nat, NEW s \in SeqsUpTo(S, max)
  PROVE  s \in Seq(S)
<1>1. PICK k \in 0 .. max : s \in [1 .. k -> S]
  BY DEF SeqsUpTo
<1>2. k \in Nat
  BY <1>1
<1> QED
  BY <1>1, <1>2, SeqDef

LEMMA Bodies ==
  ASSUME NEW o \in Transactions \cup Invoices \cup {NoOrder}
  PROVE  /\ o.kind = "pos" =>
              /\ o \in Transactions /\ o.taxes \in Seq(Taxes)
              /\ o.exempt \in Nat /\ o.totalPrice \in Nat
         /\ o.kind = "v1" =>
              /\ o \in Invoices /\ o.ivas \in Seq(Ivas) /\ o.terms \in Terms
              /\ o.neto \in Nat /\ o.iva \in Nat /\ o.exento \in Nat /\ o.noGravado \in Nat
              /\ o.total \in Nat /\ o.mono \in BOOLEAN
<1>1. CASE o \in Transactions
  BY <1>1, ShortSequences, BoundsAreNatural, SentAreAmounts DEF Transactions
<1>2. CASE o \in Invoices
  BY <1>2, ShortSequences, BoundsAreNatural, SentAreAmounts, TotalsAreAmounts DEF Invoices
<1>3. CASE o = NoOrder
  BY <1>3 DEF NoOrder
<1> QED
  BY <1>1, <1>2, <1>3

LEMMA OneIsPositive == One \in Nat /\ One > 0
BY SMT DEF One

\* A name of the peso becomes PES and no other one does; a rate that is there
\* is off by half a millionth at most, and never lost.
LEMMA Currencies ==
  ASSUME NEW t \in Terms, ~ RateIsMissing(t), NEW m \in Cotizacion(t)
  PROVE  /\ Moneda(t) \in Words \ Aliases /\ m \in Nat
         /\ InPesos(t) => Moneda(t) = "PES" /\ m = One
         /\ ~ InPesos(t) => /\ Moneda(t) # "PES" /\ m > 0
                            /\ 2 * (10 * m - t.cotizacion) \in -10 .. 10
<1>1. t.moneda \in Words /\ t.loose \in BOOLEAN /\ t.cotizacion \in Rate
  BY TermsAreTerms
<1>2. /\ Moneda(t) \in Words \ Aliases
      /\ InPesos(t) <=> Moneda(t) = "PES"
  BY <1>1 DEF Moneda, Raw, Words, Aliases, InPesos
<1>3. CASE InPesos(t)
  BY <1>2, <1>3, OneIsPositive DEF Cotizacion
<1>4. CASE ~ InPesos(t)
  <2>1. t.cotizacion \in Nat /\ t.cotizacion >= 10 /\ m \in RoundedBy(t.cotizacion, 10)
    BY <1>1, <1>2, <1>4 DEF RateIsMissing, Cotizacion, Rate
  <2>2. m \in Nat /\ 2 * (10 * m - t.cotizacion) \in -10 .. 10
    BY <2>1, RoundedAmounts
  <2>3. m > 0
    BY <2>1, <2>2
  <2> QED
    BY <1>2, <1>4, <2>2, <2>3
<1> QED
  BY <1>3, <1>4

AmountsInv == TypeOK /\ RateIsNear /\ V1IsNear

LEMMA AmountsInit == Init => AmountsInv
BY EmptySeq, OneIsPositive DEF Init, AmountsInv, TypeOK, RateIsNear, V1IsNear, NoDetail, Words, Aliases

Details == [ImpNeto: Nat, ImpTotConc: Nat, ImpIVA: Nat, ImpOpEx: Nat, ImpTotal: Nat,
            Iva: Seq([BaseImp: Nat, Importe: Nat]), MonId: Words \ Aliases,
            MonCotiz: Nat, CbteFch: {"given", "today"}]

LEMMA AmountsAddTax ==
  ASSUME AmountsInv, AddTax
  PROVE  AmountsInv'
<1>1. /\ TypeOK /\ pc = "taxes" /\ order.kind = "pos" /\ UNCHANGED <<pc, order, detail>>
      /\ Len(lines) < Len(order.taxes) /\ Len(lines) \in Nat
  BY DEF AddTax, AmountsInv, TypeOK
<1>2. order.taxes \in Seq(Taxes)
  BY <1>1, Bodies DEF TypeOK
<1>3. PICK line \in Line(order.taxes[Len(lines) + 1]) :
        /\ lines' = Append(lines, line)
        /\ neto' = neto + line.BaseImp
        /\ iva' = iva + line.Importe
  BY DEF AddTax
<1>4. line \in [BaseImp: Nat, Importe: Nat]
  <2> DEFINE t == order.taxes[Len(lines) + 1]
  <2>1. t \in Taxes
    BY <1>1, <1>2
  <2>2. t.taxBase \in Nat /\ Percentage(t) \in Nat
    BY <2>1, SentAreAmounts, RatesAreNatural DEF Taxes, Percentage
  <2>3. PICK b \in Cents(t.taxBase) :
          \E m \in RoundedBy(b * Percentage(t), 1000) : line = [BaseImp |-> b, Importe |-> m]
    BY <1>3 DEF Line
  <2>4. b \in Nat
    BY <2>2, CentsOfAmounts
  <2>5. b * Percentage(t) \in Nat
    BY <2>2, <2>4
  <2> QED
    BY <2>3, <2>4, <2>5, RoundedAmounts
<1>5. lines' \in Seq([BaseImp: Nat, Importe: Nat])
  <2>1. lines \in Seq([BaseImp: Nat, Importe: Nat])
    BY <1>1 DEF TypeOK
  <2> QED
    BY <1>3, <1>4, <2>1, AppendProperties
<1>6. neto' \in Nat /\ iva' \in Nat
  <2>1. line.BaseImp \in Nat /\ line.Importe \in Nat
    BY <1>4
  <2>2. neto \in Nat /\ iva \in Nat
    BY <1>1 DEF TypeOK
  <2> QED
    BY <1>3, <2>1, <2>2
<1>7. TypeOK'
  BY <1>1, <1>5, <1>6 DEF TypeOK
<1> QED
  BY <1>1, <1>7 DEF AmountsInv, RateIsNear, V1IsNear

LEMMA AmountsClosePos ==
  ASSUME AmountsInv, ClosePos
  PROVE  AmountsInv'
<1>1. /\ TypeOK /\ order.kind = "pos" /\ pc' = "sent" /\ UNCHANGED <<order, lines, neto, iva>>
  BY DEF ClosePos, AmountsInv
<1>2. PICK n \in (IF order.letterC THEN Cents(order.totalPrice) ELSE {neto}),
           x \in (IF order.letterC \/ order.mono THEN {0} ELSE Cents(order.exempt)) :
        LET d == [NoDetail EXCEPT !.ImpNeto = n, !.ImpIVA = iva, !.ImpOpEx = x,
                                  !.Iva = IF order.mono THEN << >> ELSE lines] IN
        \E t \in PosTotal(order, d) : detail' = [d EXCEPT !.ImpTotal = t]
  BY DEF ClosePos
<1> DEFINE d == [NoDetail EXCEPT !.ImpNeto = n, !.ImpIVA = iva, !.ImpOpEx = x,
                                 !.Iva = IF order.mono THEN << >> ELSE lines]
<1>3. n \in Nat /\ x \in Nat
  BY <1>1, Bodies, CentsOfAmounts DEF TypeOK
<1>4. d \in Details
  BY <1>1, <1>3, EmptySeq, OneIsPositive DEF TypeOK, NoDetail, Details, Words, Aliases
<1>5. PICK t \in PosTotal(order, d) : detail' = [d EXCEPT !.ImpTotal = t]
  BY <1>2
<1>6. t \in Nat
  <2>1. t = d.ImpNeto + d.ImpTotConc + d.ImpIVA + d.ImpOpEx
    BY <1>5 DEF PosTotal
  <2>2. d.ImpNeto \in Nat /\ d.ImpTotConc \in Nat /\ d.ImpIVA \in Nat /\ d.ImpOpEx \in Nat
    BY <1>4 DEF Details
  <2> HIDE DEF d
  <2> QED
    BY <2>1, <2>2
<1>7. detail' \in Details
  BY <1>4, <1>5, <1>6 DEF Details
<1> QED
  BY <1>1, <1>7 DEF AmountsInv, TypeOK, Details, RateIsNear, V1IsNear

LEMMA AmountsCloseV1 ==
  ASSUME AmountsInv, CloseV1
  PROVE  AmountsInv'
<1>1. /\ TypeOK /\ order.kind = "v1" /\ pc' = "sent" /\ UNCHANGED <<order, lines, neto, iva>>
      /\ ~ RateIsMissing(order.terms)
  BY DEF CloseV1, AmountsInv
<1>2. /\ order.ivas \in Seq(Ivas) /\ order.terms \in Terms /\ order.mono \in BOOLEAN
      /\ order.neto \in Nat /\ order.iva \in Nat /\ order.exento \in Nat /\ order.noGravado \in Nat
      /\ order.total \in Nat
  BY <1>1, Bodies DEF TypeOK
<1>3. PICK n \in Cents(order.neto), v \in Cents(order.iva), x \in Exempt(order),
           g \in Cents(order.noGravado), s \in V1Lines(order), m \in Cotizacion(order.terms) :
        LET d == [ImpNeto |-> n, ImpTotConc |-> g, ImpIVA |-> v, ImpOpEx |-> x, ImpTotal |-> 0,
                  Iva |-> IF order.mono THEN << >> ELSE s,
                  MonId |-> Moneda(order.terms),
                  MonCotiz |-> m,
                  CbteFch |-> Fecha(order.terms)] IN
        \E t \in V1Total(order, d) : detail' = [d EXCEPT !.ImpTotal = t]
  BY DEF CloseV1
<1> DEFINE d == [ImpNeto |-> n, ImpTotConc |-> g, ImpIVA |-> v, ImpOpEx |-> x, ImpTotal |-> 0,
                 Iva |-> IF order.mono THEN << >> ELSE s,
                 MonId |-> Moneda(order.terms),
                 MonCotiz |-> m,
                 CbteFch |-> Fecha(order.terms)]
<1>4. n \in Nat /\ v \in Nat /\ g \in Nat /\ x \in Nat
  BY <1>2, CentsOfAmounts DEF Exempt
<1>5. s \in Seq([BaseImp: Nat, Importe: Nat])
  <2>1. s \in [1 .. Len(order.ivas) -> [BaseImp: UNION {Cents(y) : y \in Sent},
                                        Importe: UNION {Cents(y) : y \in Sent}]]
    BY <1>3 DEF V1Lines
  <2>2. UNION {Cents(y) : y \in Sent} \subseteq Nat
    <3> SUFFICES ASSUME NEW c \in UNION {Cents(y) : y \in Sent} PROVE c \in Nat
      OBVIOUS
    <3>1. PICK y \in Sent : c \in Cents(y)
      OBVIOUS
    <3> QED
      BY <3>1, SentAreAmounts, CentsOfAmounts
  <2>3. Len(order.ivas) \in Nat
    BY <1>2
  <2> DEFINE C == UNION {Cents(y) : y \in Sent}
  <2>4. C \subseteq Nat /\ s \in [1 .. Len(order.ivas) -> [BaseImp: C, Importe: C]]
    BY <2>1, <2>2
  <2> HIDE DEF C
  <2>5. s \in [1 .. Len(order.ivas) -> [BaseImp: Nat, Importe: Nat]]
    <3>1. [BaseImp: C, Importe: C] \subseteq [BaseImp: Nat, Importe: Nat]
      BY <2>4
    <3> QED
      BY <2>4, <3>1
  <2> DEFINE l == Len(order.ivas)
             E == [BaseImp: Nat, Importe: Nat]
  <2>6. l \in Nat /\ s \in [1 .. l -> E]
    BY <2>3, <2>5
  <2> HIDE DEF l, E
  <2>7. s \in Seq(E)
    BY <2>6, SeqDef
  <2> QED
    BY <2>7 DEF E
<1>6. /\ Moneda(order.terms) \in Words \ Aliases /\ m \in Nat
      /\ Fecha(order.terms) \in {"given", "today"}
  BY <1>1, <1>2, <1>3, Currencies DEF Fecha
<1>7. d \in Details
  BY <1>4, <1>5, <1>6, EmptySeq DEF Details
<1>8. PICK t \in V1Total(order, d) : detail' = [d EXCEPT !.ImpTotal = t]
  BY <1>3
<1>9. t \in Nat
  BY <1>2, <1>4, <1>8, CentsOfAmounts DEF V1Total
<1>10. detail' \in Details
  BY <1>7, <1>8, <1>9 DEF Details
<1>11. TypeOK'
  BY <1>1, <1>10 DEF TypeOK, Details
<1>12. RateIsNear'
  <2>1. detail'.MonId = Moneda(order.terms) /\ detail'.MonCotiz = m
    BY <1>8
  <2> QED
    BY <1>1, <1>2, <1>3, <2>1, Currencies DEF RateIsNear
<1>13. V1IsNear'
  <2> SUFFICES ASSUME order.total \in {0, SentParts(order)}, order.mono => order.exento = 0
               PROVE  t - (n + g + v + x) \in IF InCents(order) THEN {0} ELSE -2 .. 2
    BY <1>1, <1>4, <1>8 DEF V1IsNear, Parts
  <2>1. x \in Cents(order.exento)
    <3>1. 0 \in Cents(0)
      BY DEF Cents, RoundedBy
    <3>2. x \in (IF order.mono THEN {0} ELSE Cents(order.exento))
      BY <1>3 DEF Exempt
    <3> QED
      BY <1>2, <3>1, <3>2
  <2>2. CASE order.total = 0
    BY <1>4, <1>8, <2>2 DEF V1Total
  <2>3. CASE order.total # 0
    <3>1. t \in Cents(order.neto + order.noGravado + order.iva + order.exento)
      BY <1>8, <2>3 DEF V1Total, SentParts
    <3>2. n \in Cents(order.neto) /\ v \in Cents(order.iva) /\ g \in Cents(order.noGravado)
      BY <1>3
    <3>3. t - (n + g + v + x) \in -2 .. 2
      BY <1>2, <2>1, <3>1, <3>2, FiveRoundings
    <3>4. ASSUME InCents(order) PROVE t - (n + g + v + x) = 0
      <4>1. /\ order.neto = 10 * n /\ order.noGravado = 10 * g
            /\ order.iva = 10 * v /\ order.exento = 10 * x
        BY <1>2, <2>1, <3>2, <3>4, CentsOfWholeCents DEF InCents
      <4>2. order.neto + order.noGravado + order.iva + order.exento = 10 * (n + g + v + x)
        BY <1>4, <4>1
      <4>3. t \in Cents(10 * (n + g + v + x))
        BY <3>1, <4>2
      <4>4. n + g + v + x \in Nat
        BY <1>4
      <4> QED
        BY <4>3, <4>4, RoundingOfWholeCents
    <3> QED
      BY <3>3, <3>4
  <2> QED
    BY <2>2, <2>3
<1> QED
  BY <1>11, <1>12, <1>13 DEF AmountsInv

LEMMA AmountsNext == AmountsInv /\ [Next]_vars => AmountsInv'
<1> SUFFICES ASSUME AmountsInv, [Next]_vars PROVE AmountsInv'
  OBVIOUS
<1>1. CASE Take
  BY <1>1 DEF Take, AmountsInv, TypeOK, RateIsNear, V1IsNear
<1>2. CASE RefuseV1
  BY <1>2 DEF RefuseV1, AmountsInv, TypeOK, RateIsNear, V1IsNear
<1>3. CASE UNCHANGED vars
  BY <1>3 DEF vars, AmountsInv, TypeOK, RateIsNear, V1IsNear
<1> QED
  BY <1>1, <1>2, <1>3, AmountsAddTax, AmountsClosePos, AmountsCloseV1 DEF Next

LEMMA AmountsAlways == Spec => []AmountsInv
BY AmountsInit, AmountsNext, PTL DEF Spec

-----------------------------------------------------------------------------
(* The sums over the lines.  What the POS adds up turn by turn is the sum   *)
(* over the lines it has, and off the VAT of their bases by half a cent for *)
(* each at most.                                                            *)

VatOfBases == [k \in 1 .. Len(lines) |-> lines[k].BaseImp * Percentage(order.taxes[k])]

LoopInv ==
  /\ neto = Bases(lines) /\ iva = Importes(lines)
  /\ pc = "idle" => lines = << >>
  /\ pc # "idle" /\ order.kind = "pos" =>
       /\ Len(lines) <= Len(order.taxes)
       /\ order.letterC => lines = << >>
       /\ LET vat == SumTo(Len(lines), VatOfBases) IN
            /\ vat \in Nat
            /\ 2 * (1000 * iva - vat) \in -1000 * Len(lines) .. 1000 * Len(lines)

SumsHold == PosAddsUp /\ PosVatIsOfItsBases /\ V1AddsUp /\ V1LinesAreNear

LEMMA NoLines == Bases(<< >>) = 0 /\ Importes(<< >>) = 0
<1>1. Len(<< >>) = 0
  BY EmptySeq
<1> QED
  BY <1>1, SumOfNone DEF Bases, Importes

LEMMA LoopInit == Init => LoopInv /\ SumsHold
BY NoLines DEF Init, LoopInv, SumsHold,
   PosAddsUp, PosVatIsOfItsBases, V1AddsUp, V1LinesAreNear

\* The sums over the columns of one more line.
LEMMA OneMoreLine ==
  ASSUME NEW s \in Seq([BaseImp: Nat, Importe: Nat]), NEW x \in [BaseImp: Nat, Importe: Nat]
  PROVE  /\ Bases(Append(s, x)) = Bases(s) + x.BaseImp
         /\ Importes(Append(s, x)) = Importes(s) + x.Importe
<1> DEFINE t == Append(s, x)
<1>1. /\ Len(s) \in Nat /\ Len(t) = Len(s) + 1 /\ t[Len(s) + 1] = x
      /\ \A k \in 1 .. Len(s) : t[k] = s[k]
  BY AppendProperties
<1> HIDE DEF t
<1>2. Bases(t) = Bases(s) + x.BaseImp
  <2> DEFINE e == [k \in 1 .. Len(s) |-> s[k].BaseImp]
             f == [k \in 1 .. Len(t) |-> t[k].BaseImp]
  <2>1. ASSUME NEW k \in 1 .. Len(s) PROVE e[k] = f[k]
    <3>1. k \in 1 .. Len(t)
      BY <1>1
    <3>2. e[k] = s[k].BaseImp /\ f[k] = t[k].BaseImp
      BY <3>1
    <3> QED
      BY <1>1, <3>2
  <2>2. f[Len(s) + 1] = x.BaseImp
    <3>1. Len(s) + 1 \in 1 .. Len(t)
      BY <1>1
    <3>2. f[Len(s) + 1] = t[Len(s) + 1].BaseImp
      BY <3>1
    <3> QED
      BY <1>1, <3>2
  <2>3. Bases(t) = SumTo(Len(s) + 1, f) /\ Bases(s) = SumTo(Len(s), e)
    BY <1>1 DEF Bases
  <2> HIDE DEF e, f
  <2>4. SumTo(Len(s) + 1, f) = SumTo(Len(s), e) + f[Len(s) + 1]
    BY <1>1, <2>1, SumOfOneMore
  <2> QED
    BY <2>2, <2>3, <2>4
<1>3. Importes(t) = Importes(s) + x.Importe
  <2> DEFINE e == [k \in 1 .. Len(s) |-> s[k].Importe]
             f == [k \in 1 .. Len(t) |-> t[k].Importe]
  <2>1. ASSUME NEW k \in 1 .. Len(s) PROVE e[k] = f[k]
    <3>1. k \in 1 .. Len(t)
      BY <1>1
    <3>2. e[k] = s[k].Importe /\ f[k] = t[k].Importe
      BY <3>1
    <3> QED
      BY <1>1, <3>2
  <2>2. f[Len(s) + 1] = x.Importe
    <3>1. Len(s) + 1 \in 1 .. Len(t)
      BY <1>1
    <3>2. f[Len(s) + 1] = t[Len(s) + 1].Importe
      BY <3>1
    <3> QED
      BY <1>1, <3>2
  <2>3. Importes(t) = SumTo(Len(s) + 1, f) /\ Importes(s) = SumTo(Len(s), e)
    BY <1>1 DEF Importes
  <2> HIDE DEF e, f
  <2>4. SumTo(Len(s) + 1, f) = SumTo(Len(s), e) + f[Len(s) + 1]
    BY <1>1, <2>1, SumOfOneMore
  <2> QED
    BY <2>2, <2>3, <2>4
<1> QED
  BY <1>2, <1>3 DEF t

LEMMA LoopAddTax ==
  ASSUME AmountsInv, LoopInv, SumsHold, AddTax
  PROVE  LoopInv' /\ SumsHold'
<1>1. /\ TypeOK /\ pc = "taxes" /\ order.kind = "pos" /\ UNCHANGED <<pc, order, detail>>
      /\ Len(lines) < Len(order.taxes) /\ Len(lines) \in Nat /\ ~ order.letterC
      /\ lines \in Seq([BaseImp: Nat, Importe: Nat]) /\ neto \in Nat /\ iva \in Nat
  BY DEF AddTax, AmountsInv, TypeOK
<1>2. order.taxes \in Seq(Taxes) /\ Len(order.taxes) \in Nat
  BY <1>1, Bodies DEF TypeOK
<1> DEFINE m == Len(lines)
           t == order.taxes[m + 1]
<1>3. PICK line \in Line(t) :
        /\ lines' = Append(lines, line)
        /\ neto' = neto + line.BaseImp
        /\ iva' = iva + line.Importe
  BY DEF AddTax
<1> DEFINE p == line.BaseImp * Percentage(t)
<1>4. /\ line \in [BaseImp: Nat, Importe: Nat]
      /\ p \in Nat /\ 2 * (1000 * line.Importe - p) \in -1000 .. 1000
  <2>1. t \in Taxes
    BY <1>1, <1>2
  <2>2. t.taxBase \in Nat /\ Percentage(t) \in Nat
    BY <2>1, SentAreAmounts, RatesAreNatural DEF Taxes, Percentage
  <2>3. PICK b \in Cents(t.taxBase) :
          \E i \in RoundedBy(b * Percentage(t), 1000) : line = [BaseImp |-> b, Importe |-> i]
    BY <1>3 DEF Line
  <2>4. PICK i \in RoundedBy(b * Percentage(t), 1000) : line = [BaseImp |-> b, Importe |-> i]
    BY <2>3
  <2>5. b \in Nat
    BY <2>2, CentsOfAmounts
  <2>6. b * Percentage(t) \in Nat
    BY <2>2, <2>5
  <2>7. p = b * Percentage(t) /\ line.Importe = i
    BY <2>4
  <2>8. i \in RoundedBy(p, 1000) /\ p \in Nat
    BY <2>4, <2>6, <2>7
  <2> HIDE DEF p
  <2>9. i \in Nat /\ 2 * (1000 * i - p) \in -1000 .. 1000
    BY <2>8, RoundedVat
  <2>10. line \in [BaseImp: Nat, Importe: Nat]
    BY <2>4, <2>5, <2>9
  <2>11. 2 * (1000 * line.Importe - p) \in -1000 .. 1000
    BY <2>7, <2>9
  <2> QED
    BY <2>8, <2>10, <2>11
<1> HIDE DEF p
<1>5. /\ Len(lines') = m + 1 /\ lines'[m + 1] = line
      /\ \A k \in 1 .. m : lines'[k] = lines[k]
  BY <1>1, <1>3, <1>4, AppendProperties
<1>6. neto' = Bases(lines') /\ iva' = Importes(lines')
  <2>1. neto = Bases(lines) /\ iva = Importes(lines)
    BY DEF LoopInv
  <2>2. /\ Bases(Append(lines, line)) = Bases(lines) + line.BaseImp
        /\ Importes(Append(lines, line)) = Importes(lines) + line.Importe
    BY <1>1, <1>4, OneMoreLine
  <2> QED
    BY <1>3, <2>1, <2>2
<1>7. SumTo(m + 1, VatOfBases') = SumTo(m, VatOfBases) + p
  <2> DEFINE e == VatOfBases
             f == VatOfBases'
  <2>1. f = [k \in 1 .. m + 1 |-> lines'[k].BaseImp * Percentage(order.taxes[k])]
    BY <1>1, <1>5 DEF VatOfBases, Percentage
  <2>2. \A k \in 1 .. m : e[k] = f[k]
    BY <1>1, <1>5, <2>1 DEF VatOfBases
  <2>3. f[m + 1] = p
    BY <1>1, <1>5, <2>1 DEF p
  <2> HIDE DEF e, f
  <2>4. SumTo(m + 1, f) = SumTo(m, e) + f[m + 1]
    BY <1>1, <2>2, SumOfOneMore
  <2> QED
    BY <2>3, <2>4 DEF e, f
<1>8. LET vat == SumTo(Len(lines'), VatOfBases') IN
        /\ vat \in Nat
        /\ 2 * (1000 * iva' - vat) \in -1000 * Len(lines') .. 1000 * Len(lines')
  <2> DEFINE v == SumTo(m, VatOfBases)
             y == line.Importe
  <2>1. v \in Nat /\ 2 * (1000 * iva - v) \in -1000 * m .. 1000 * m
    BY <1>1, SMTT(30) DEF LoopInv
  <2>2. SumTo(Len(lines'), VatOfBases') = v + p /\ Len(lines') = m + 1
    BY <1>5, <1>7
  <2>3. p \in Nat /\ y \in Nat /\ 2 * (1000 * y - p) \in -1000 .. 1000
    BY <1>4
  <2>4. iva' = iva + y /\ iva \in Nat /\ m \in Nat
    BY <1>1, <1>3
  <2> HIDE DEF v, m, y
  <2>5. v + p \in Nat
    BY <2>1, <2>3
  <2>6. 2 * (1000 * (iva + y) - (v + p)) \in -1000 * (m + 1) .. 1000 * (m + 1)
    BY <2>1, <2>3, <2>4
  <2> QED
    BY <2>2, <2>4, <2>5, <2>6
<1>9. LoopInv'
  <2>1. pc' # "idle" /\ Len(lines') <= Len(order'.taxes) /\ ~ order'.letterC
    BY <1>1, <1>2, <1>5
  <2> QED
    BY <1>6, <1>8, <2>1 DEF LoopInv
<1> QED
  BY <1>1, <1>9 DEF SumsHold, PosAddsUp, PosVatIsOfItsBases, V1AddsUp, V1LinesAreNear

LEMMA LoopClosePos ==
  ASSUME AmountsInv, LoopInv, ClosePos
  PROVE  LoopInv' /\ SumsHold'
<1>1. /\ TypeOK /\ pc = "taxes" /\ order.kind = "pos" /\ pc' = "sent"
      /\ UNCHANGED <<order, lines, neto, iva>>
      /\ neto \in Nat /\ iva \in Nat /\ Len(lines) \in Nat
  BY DEF ClosePos, AmountsInv, TypeOK
<1>2. PICK n \in (IF order.letterC THEN Cents(order.totalPrice) ELSE {neto}),
           x \in (IF order.letterC \/ order.mono THEN {0} ELSE Cents(order.exempt)) :
        LET d == [NoDetail EXCEPT !.ImpNeto = n, !.ImpIVA = iva, !.ImpOpEx = x,
                                  !.Iva = IF order.mono THEN << >> ELSE lines] IN
        \E t \in PosTotal(order, d) : detail' = [d EXCEPT !.ImpTotal = t]
  BY DEF ClosePos
<1>3. /\ detail'.ImpNeto = n /\ detail'.ImpTotConc = 0 /\ detail'.ImpIVA = iva
      /\ detail'.ImpOpEx = x /\ detail'.ImpTotal = n + 0 + iva + x
      /\ detail'.Iva = IF order.mono THEN << >> ELSE lines
  BY <1>2 DEF PosTotal, NoDetail
<1>4. LoopInv'
  BY <1>1 DEF LoopInv, VatOfBases, Percentage
<1>5. PosAddsUp'
  <2>1. detail'.ImpTotal = Parts(detail')
    BY <1>3 DEF Parts
  <2>2. ASSUME detail'.Iva # << >>
        PROVE  detail'.ImpNeto = Bases(detail'.Iva) /\ detail'.ImpIVA = Importes(detail'.Iva)
    <3>1. detail'.Iva = lines /\ lines # << >>
      BY <1>3, <2>2
    <3>2. /\ neto = Bases(lines) /\ iva = Importes(lines)
          /\ order.letterC => lines = << >>
      BY <1>1 DEF LoopInv
    <3>3. n = neto
      BY <1>2, <3>1, <3>2
    <3> QED
      BY <1>3, <3>1, <3>2, <3>3
  <2> QED
    BY <1>1, <2>1, <2>2 DEF PosAddsUp, AddsUp
<1>6. PosVatIsOfItsBases'
  <2>1. 2 * (1000 * iva - SumTo(Len(lines), VatOfBases)) \in -1000 * Len(lines) .. 1000 * Len(lines)
    BY <1>1 DEF LoopInv
  <2>2. detail'.ImpIVA = iva /\ lines' = lines /\ order' = order
    BY <1>1, <1>3
  <2> QED
    BY <2>1, <2>2 DEF PosVatIsOfItsBases, VatOfBases, Percentage
<1> QED
  BY <1>1, <1>4, <1>5, <1>6 DEF SumsHold, V1AddsUp, V1LinesAreNear

\* What CloseV1 makes of its amounts.
LEMMA V1Sends ==
  ASSUME AmountsInv, CloseV1
  PROVE  /\ detail'.ImpNeto \in Cents(order.neto)
         /\ detail'.ImpIVA \in Cents(order.iva)
         /\ detail'.Iva = << >> \/ detail'.Iva \in V1Lines(order)
<1>1. PICK n \in Cents(order.neto), v \in Cents(order.iva), x \in Exempt(order),
           g \in Cents(order.noGravado), s \in V1Lines(order), m \in Cotizacion(order.terms) :
        LET d == [ImpNeto |-> n, ImpTotConc |-> g, ImpIVA |-> v, ImpOpEx |-> x, ImpTotal |-> 0,
                  Iva |-> IF order.mono THEN << >> ELSE s,
                  MonId |-> Moneda(order.terms),
                  MonCotiz |-> m,
                  CbteFch |-> Fecha(order.terms)] IN
        \E t \in V1Total(order, d) : detail' = [d EXCEPT !.ImpTotal = t]
  BY DEF CloseV1
<1>2. detail'.ImpNeto = n /\ detail'.ImpIVA = v /\ detail'.Iva = IF order.mono THEN << >> ELSE s
  BY <1>1
<1> QED
  BY <1>1, <1>2

\* The columns of the lines that are sent, beside those of the lines as they
\* came: off by half a cent a line, by nothing in whole cents.
LEMMA ColumnsAreNear ==
  ASSUME NEW o \in Invoices, NEW s \in V1Lines(o), NEW b \in {0, 5}, b = 0 => InCents(o)
  PROVE  LET m == Len(o.ivas) IN
         /\ m \in Nat /\ Len(s) = m
         /\ Bases(s) \in Nat /\ Importes(s) \in Nat
         /\ 10 * Bases(s) - SumTo(m, [k \in 1 .. m |-> o.ivas[k].baseImp]) \in -(b * m) .. b * m
         /\ 10 * Importes(s) - SumTo(m, [k \in 1 .. m |-> o.ivas[k].importe]) \in -(b * m) .. b * m
<1> DEFINE m == Len(o.ivas)
           base == [k \in 1 .. m |-> o.ivas[k].baseImp]
           importe == [k \in 1 .. m |-> o.ivas[k].importe]
           bases == [k \in 1 .. m |-> s[k].BaseImp]
           importes == [k \in 1 .. m |-> s[k].Importe]
<1>1. o.ivas \in Seq(Ivas) /\ m \in Nat
  BY ShortSequences, BoundsAreNatural DEF Invoices
<1>2. Len(s) = m
  BY <1>1 DEF V1Lines
<1>3. ASSUME NEW k \in 1 .. m
      PROVE  /\ base[k] \in Nat /\ bases[k] \in Nat /\ 10 * bases[k] - base[k] \in -b .. b
             /\ importe[k] \in Nat /\ importes[k] \in Nat /\ 10 * importes[k] - importe[k] \in -b .. b
  <2>1. o.ivas[k] \in Ivas
    BY <1>1
  <2>2. o.ivas[k].baseImp \in Nat /\ o.ivas[k].importe \in Nat
    BY <2>1, SentAreAmounts DEF Ivas
  <2>3. s[k].BaseImp \in Cents(o.ivas[k].baseImp) /\ s[k].Importe \in Cents(o.ivas[k].importe)
    BY DEF V1Lines
  <2>4. /\ s[k].BaseImp \in Nat /\ 10 * s[k].BaseImp - o.ivas[k].baseImp \in -5 .. 5
        /\ s[k].Importe \in Nat /\ 10 * s[k].Importe - o.ivas[k].importe \in -5 .. 5
    BY <2>2, <2>3, CentsOfAmounts
  <2>5. ASSUME b = 0
        PROVE  10 * s[k].BaseImp = o.ivas[k].baseImp /\ 10 * s[k].Importe = o.ivas[k].importe
    <3>1. o.ivas[k].baseImp % 10 = 0 /\ o.ivas[k].importe % 10 = 0
      BY <2>5 DEF InCents
    <3> QED
      BY <2>2, <2>3, <3>1, CentsOfWholeCents
  <2>6. /\ base[k] = o.ivas[k].baseImp /\ importe[k] = o.ivas[k].importe
        /\ bases[k] = s[k].BaseImp /\ importes[k] = s[k].Importe
    OBVIOUS
  <2> HIDE DEF base, importe, bases, importes
  <2>7. /\ base[k] \in Nat /\ bases[k] \in Nat /\ 10 * bases[k] - base[k] \in -5 .. 5
        /\ importe[k] \in Nat /\ importes[k] \in Nat /\ 10 * importes[k] - importe[k] \in -5 .. 5
    BY <2>2, <2>4, <2>6
  <2>8. CASE b = 0
    <3>1. 10 * bases[k] = base[k] /\ 10 * importes[k] = importe[k]
      BY <2>5, <2>6, <2>8
    <3> QED
      BY <2>7, <2>8, <3>1
  <2>9. CASE b = 5
    BY <2>7, <2>9
  <2> QED
    BY <2>8, <2>9
<1>4. Bases(s) = SumTo(m, bases) /\ Importes(s) = SumTo(m, importes)
  BY <1>2 DEF Bases, Importes
<1> HIDE DEF base, importe, bases, importes, m
<1>5. SumTo(m, bases) \in Nat /\ SumTo(m, importes) \in Nat
  BY <1>1, <1>3, SumOfNumbers
<1>6. 10 * SumTo(m, bases) - SumTo(m, base) \in -(b * m) .. b * m
  BY <1>1, <1>3, SumsAreNear
<1>7. 10 * SumTo(m, importes) - SumTo(m, importe) \in -(b * m) .. b * m
  BY <1>1, <1>3, SumsAreNear
<1> QED
  BY <1>1, <1>2, <1>4, <1>5, <1>6, <1>7 DEF base, importe, m

LEMMA LoopCloseV1 ==
  ASSUME AmountsInv, LoopInv, CloseV1, V1IsNear'
  PROVE  LoopInv' /\ SumsHold'
<1>1. /\ TypeOK /\ order.kind = "v1" /\ pc' = "sent" /\ UNCHANGED <<order, lines, neto, iva>>
  BY DEF CloseV1, AmountsInv
<1>2. /\ order \in Invoices /\ order.neto \in Nat /\ order.iva \in Nat
  BY <1>1, Bodies DEF TypeOK
<1> DEFINE s == detail'.Iva
           m == Len(order.ivas)
           n == detail'.ImpNeto
           v == detail'.ImpIVA
<1>3. n \in Cents(order.neto) /\ v \in Cents(order.iva) /\ (s = << >> \/ s \in V1Lines(order))
  BY V1Sends
<1>4. /\ n \in Nat /\ 10 * n - order.neto \in -5 .. 5
      /\ v \in Nat /\ 10 * v - order.iva \in -5 .. 5
  BY <1>2, <1>3, CentsOfAmounts
<1>5. LoopInv'
  BY <1>1 DEF LoopInv
<1>6. ASSUME LinesAddUp(order), s # << >>, NEW b \in {0, 5}, b = 0 => InCents(order)
      PROVE  /\ m \in Nat /\ Len(s) = m /\ Bases(s) \in Nat /\ Importes(s) \in Nat
             /\ 10 * Bases(s) - order.neto \in -(b * m) .. b * m
             /\ 10 * Importes(s) - order.iva \in -(b * m) .. b * m
  <2>1. s \in V1Lines(order)
    BY <1>3, <1>6
  <2>2. /\ m \in Nat /\ Len(s) = m /\ Bases(s) \in Nat /\ Importes(s) \in Nat
        /\ 10 * Bases(s) - SumTo(m, [k \in 1 .. m |-> order.ivas[k].baseImp])
             \in -(b * m) .. b * m
        /\ 10 * Importes(s) - SumTo(m, [k \in 1 .. m |-> order.ivas[k].importe])
             \in -(b * m) .. b * m
    BY <1>2, <1>6, <2>1, ColumnsAreNear
  <2>3. order.ivas # << >>
    <3> SUFFICES ASSUME order.ivas = << >> PROVE s = << >>
      BY <1>6
    <3>1. m = 0
      BY EmptySeq
    <3>2. s \in [1 .. 0 -> [BaseImp: UNION {Cents(x) : x \in Sent},
                            Importe: UNION {Cents(x) : x \in Sent}]]
      BY <2>1, <3>1 DEF V1Lines
    <3> QED
      BY <3>2, SeqDef, EmptySeq
  <2>4. /\ order.neto = SumTo(m, [k \in 1 .. m |-> order.ivas[k].baseImp])
        /\ order.iva = SumTo(m, [k \in 1 .. m |-> order.ivas[k].importe])
    BY <1>6, <2>3 DEF LinesAddUp
  <2> QED
    BY <2>2, <2>4
<1>7. V1LinesAreNear'
  <2> SUFFICES ASSUME LinesAddUp(order), s # << >>
               PROVE  /\ 2 * (n - Bases(s)) \in -(Len(s) + 1) .. Len(s) + 1
                      /\ 2 * (v - Importes(s)) \in -(Len(s) + 1) .. Len(s) + 1
    BY <1>1 DEF V1LinesAreNear, LinesAddUp
  <2>1. /\ m \in Nat /\ Len(s) = m /\ Bases(s) \in Nat /\ Importes(s) \in Nat
        /\ 10 * Bases(s) - order.neto \in -(5 * m) .. 5 * m
        /\ 10 * Importes(s) - order.iva \in -(5 * m) .. 5 * m
    BY <1>6
  <2> DEFINE bs == Bases(s)
             is == Importes(s)
             e == order.neto
             i == order.iva
  <2>2. m \in Nat /\ bs \in Nat /\ is \in Nat /\ e \in Nat /\ i \in Nat /\ n \in Nat /\ v \in Nat
    BY <1>2, <1>4, <2>1
  <2>3. 10 * bs - e \in -(5 * m) .. 5 * m /\ 10 * is - i \in -(5 * m) .. 5 * m
    BY <2>1
  <2>4. 10 * n - e \in -5 .. 5 /\ 10 * v - i \in -5 .. 5
    BY <1>4
  <2>5. Len(s) = m
    BY <2>1
  <2> HIDE DEF s, m, n, v, bs, is, e, i
  <2>6. 2 * (n - bs) \in -(m + 1) .. m + 1
    BY <2>2, <2>3, <2>4
  <2>7. 2 * (v - is) \in -(m + 1) .. m + 1
    BY <2>2, <2>3, <2>4
  <2> QED
    BY <2>5, <2>6, <2>7 DEF bs, is
<1>8. V1AddsUp'
  <2> SUFFICES ASSUME InCents(order), order.total \in {0, SentParts(order)},
                      order.mono => order.exento = 0, LinesAddUp(order)
               PROVE  AddsUp(detail')
    BY <1>1 DEF V1AddsUp, InCents, SentParts, LinesAddUp
  <2>1. detail'.ImpTotal = Parts(detail')
    <3>1. detail'.ImpTotal - Parts(detail') \in {0}
      BY <1>1 DEF V1IsNear, InCents, SentParts
    <3>2. detail'.ImpTotal \in Nat /\ Parts(detail') \in Nat
      <4>1. TypeOK'
        BY AmountsCloseV1 DEF AmountsInv
      <4> QED
        BY <4>1 DEF TypeOK, Parts
    <3> QED
      BY <3>1, <3>2
  <2>2. ASSUME s # << >> PROVE n = Bases(s) /\ v = Importes(s)
    <3>1. /\ m \in Nat /\ Bases(s) \in Nat /\ Importes(s) \in Nat
          /\ 10 * Bases(s) - order.neto \in -(0 * m) .. 0 * m
          /\ 10 * Importes(s) - order.iva \in -(0 * m) .. 0 * m
      BY <1>6, <2>2
    <3>2. 10 * n = order.neto /\ 10 * v = order.iva
      BY <1>2, <1>3, CentsOfWholeCents DEF InCents
    <3> DEFINE bs == Bases(s)
               is == Importes(s)
               e == order.neto
               i == order.iva
    <3>3. bs \in Nat /\ is \in Nat /\ e \in Nat /\ i \in Nat /\ n \in Nat /\ v \in Nat
      BY <1>2, <1>4, <3>1
    <3>4. 0 * m = 0
      BY <3>1
    <3>5. 10 * bs - e \in 0 .. 0 /\ 10 * is - i \in 0 .. 0
      BY <3>1, <3>4
    <3>6. 10 * n = e /\ 10 * v = i
      BY <3>2
    <3> HIDE DEF s, m, n, v, bs, is, e, i
    <3>7. n = bs /\ v = is
      BY <3>3, <3>5, <3>6
    <3> QED
      BY <3>7 DEF bs, is
  <2> QED
    BY <2>1, <2>2 DEF AddsUp
<1> QED
  BY <1>1, <1>5, <1>7, <1>8 DEF SumsHold, PosAddsUp, PosVatIsOfItsBases

LoopAndSums == AmountsInv /\ LoopInv /\ SumsHold

LEMMA LoopNext == LoopAndSums /\ [Next]_vars => LoopAndSums'
<1> SUFFICES ASSUME AmountsInv, LoopInv, SumsHold, [Next]_vars
             PROVE  AmountsInv' /\ LoopInv' /\ SumsHold'
  BY DEF LoopAndSums
<1>1. AmountsInv'
  BY AmountsNext
<1>2. CASE Take
  <2>1. pc = "idle" /\ pc' = "taxes" /\ UNCHANGED <<lines, neto, iva, detail>>
    BY <1>2 DEF Take
  <2>2. lines = << >> /\ Len(lines) = 0 /\ neto = 0 /\ iva = 0
    BY <2>1, EmptySeq, NoLines DEF LoopInv
  <2>3. SumTo(Len(lines'), VatOfBases') = 0
    BY <2>1, <2>2, SumOfNone
  <2>4. order'.kind = "pos" => Len(order'.taxes) \in Nat
    <3>1. order' \in Transactions \cup Invoices \cup {NoOrder}
      BY <1>2 DEF Take
    <3> QED
      BY <3>1, Bodies
  <2>5. LoopInv'
    BY <2>1, <2>2, <2>3, <2>4 DEF LoopInv
  <2> QED
    BY <1>1, <2>1, <2>5 DEF SumsHold, PosAddsUp, PosVatIsOfItsBases, V1AddsUp, V1LinesAreNear
<1>3. CASE AddTax
  BY <1>1, <1>3, LoopAddTax
<1>4. CASE ClosePos
  BY <1>1, <1>4, LoopClosePos
<1>5. CASE RefuseV1
  <2>1. /\ pc # "idle" /\ order.kind = "v1" /\ pc' = "refused"
        /\ UNCHANGED <<order, lines, neto, iva, detail>>
    BY <1>5 DEF RefuseV1
  <2> QED
    BY <1>1, <2>1 DEF LoopInv, SumsHold, PosAddsUp, PosVatIsOfItsBases, V1AddsUp, V1LinesAreNear
<1>6. CASE CloseV1
  BY <1>1, <1>6, LoopCloseV1 DEF AmountsInv
<1>7. CASE UNCHANGED vars
  BY <1>1, <1>7 DEF vars, LoopInv, SumsHold, VatOfBases, Percentage, PosAddsUp, PosVatIsOfItsBases,
                    V1AddsUp, V1LinesAreNear, LinesAddUp, SentParts, InCents, AddsUp, Parts,
                    Bases, Importes
<1> QED
  BY <1>2, <1>3, <1>4, <1>5, <1>6, <1>7 DEF Next

LEMMA SumsAlways == Spec => []LoopAndSums
<1>1. Init => LoopAndSums
  BY AmountsInit, LoopInit DEF LoopAndSums
<1> QED
  BY <1>1, LoopNext, PTL DEF Spec
-----------------------------------------------------------------------------
\* Every variable keeps its type.
THEOREM AmountTypesAreKept == Spec => []TypeOK
<1>1. AmountsInv => TypeOK
  BY DEF AmountsInv
<1> QED
  BY <1>1, AmountsAlways, PTL

\* However the five amounts of a v1 invoice are rounded, the total is at most
\* two cents off its parts, and exact for whole cents.
THEOREM TotalsAreNear == Spec => []V1IsNear
<1>1. AmountsInv => V1IsNear
  BY DEF AmountsInv
<1> QED
  BY <1>1, AmountsAlways, PTL

\* Pesos go out in PES at the rate 1 by whatever name, and other currencies
\* within half a millionth of the rate that was sent, never at none.
THEOREM RatesAreNear == Spec => []RateIsNear
<1>1. AmountsInv => RateIsNear
  BY DEF AmountsInv
<1> QED
  BY <1>1, AmountsAlways, PTL

\* Whatever the POS sends, however its amounts are rounded and however many
\* taxes it has, the total is the sum of the parts, and the VAT lines make the
\* net amount and the VAT.
THEOREM PosTotalsAddUp == Spec => []PosAddsUp
<1>1. LoopAndSums => PosAddsUp
  BY DEF LoopAndSums, SumsHold
<1> QED
  BY <1>1, SumsAlways, PTL

\* The VAT of a POS invoice is that of its bases, to half a cent a line.
THEOREM PosVatIsNear == Spec => []PosVatIsOfItsBases
<1>1. LoopAndSums => PosVatIsOfItsBases
  BY DEF LoopAndSums, SumsHold
<1> QED
  BY <1>1, SumsAlways, PTL

\* A v1 invoice in whole cents that adds up still does when it is sent.
THEOREM V1TotalsAddUp == Spec => []V1AddsUp
<1>1. LoopAndSums => V1AddsUp
  BY DEF LoopAndSums, SumsHold
<1> QED
  BY <1>1, SumsAlways, PTL

\* The lines of a v1 invoice that added up are off the net amount and the VAT
\* by half a cent a line, and half a cent more, at most.
THEOREM LinesAreNear == Spec => []V1LinesAreNear
<1>1. LoopAndSums => V1LinesAreNear
  BY DEF LoopAndSums, SumsHold
<1> QED
  BY <1>1, SumsAlways, PTL
=============================================================================
