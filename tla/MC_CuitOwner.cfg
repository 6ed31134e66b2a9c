\* Two calls at a time: a CUIT that has an owner is given to another account.
\* A model of finitely many calls stops when they have ended.
SPECIFICATION Spec
CHECK_DEADLOCK FALSE
CONSTANTS
  Calls = {q1, q2}
  Cuits = {c1}
  Accounts = {a1, a2}
  NoAccount = NoAccount
  Ops <- AllOps
  MaxOpen = 2
  MaxFailures = 0
  MaxCrashes = 0
SYMMETRY Interchangeable
PROPERTY CuitKeepsItsOwner
