\* Three calls of every kind, by two accounts, with failures and a restart.
\* A model of finitely many calls stops when they have ended.
SPECIFICATION Spec
CHECK_DEADLOCK FALSE
CONSTANTS
  Calls = {q1, q2, q3}
  Cuits = {c1}
  Accounts = {a1, a2}
  NoAccount = NoAccount
  Ops <- AllOps
  MaxOpen = 3
  MaxFailures = 1
  MaxCrashes = 1
SYMMETRY Interchangeable
INVARIANTS TypeOK PendingHasCsr OnlyOwnersChange ReadyIsPaired
PROPERTY OwnerIsSettled
