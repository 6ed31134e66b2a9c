\* A monotributista whose invoice names an amount of VAT.
\* A model of one request stops when it has been handled.
SPECIFICATION Spec
CHECK_DEADLOCK FALSE
CONSTANTS
  Sent = {0, 100}
  Rates = {0}
  Totals = {0, 200}
  Terms <- SomeDates
  MaxTaxes = 0
  MaxIvas = 1
INVARIANT NoVatOfMono
