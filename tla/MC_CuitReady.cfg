\* One account, one call at a time, one failure: a ready CUIT loses its certificate.
\* A model of finitely many calls stops when they have ended.
SPECIFICATION Spec
CHECK_DEADLOCK FALSE
CONSTANTS
  Calls = {q1, q2, q3}
  Cuits = {c1}
  Accounts = {a1}
  NoAccount = NoAccount
  Ops <- V1Ops
  MaxOpen = 1
  MaxFailures = 1
  MaxCrashes = 0
SYMMETRY Interchangeable
INVARIANT ReadyHasCrt
