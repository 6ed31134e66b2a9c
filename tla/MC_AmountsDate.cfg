\* An invoice with a date that is none.
\* A model of one request stops when it has been handled.
SPECIFICATION Spec
CHECK_DEADLOCK FALSE
CONSTANTS
  Sent = {0, 50, 100}
  Rates = {0}
  Totals = {0}
  Terms <- SomeDates
  MaxTaxes = 0
  MaxIvas = 0
INVARIANT TodayOnlyWithoutDate
