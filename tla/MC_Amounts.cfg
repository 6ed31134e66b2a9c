\* Ties, parts of a cent and whole cents; two taxes or lines; 10.5% and 21%.
\* A model of one request stops when it has been handled.
SPECIFICATION Spec
CHECK_DEADLOCK FALSE
CONSTANTS
  Sent = {0, 25, 50}
  Rates = {0, 105, 210}
  Totals = {0, 75, 100, 150}
  Terms <- SomeTerms
  MaxTaxes = 2
  MaxIvas = 2
INVARIANTS TypeOK PosAddsUp PosVatIsOfItsBases V1AddsUp V1LinesAreNear V1IsNear RateIsNear
