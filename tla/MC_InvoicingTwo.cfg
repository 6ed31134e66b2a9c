SPECIFICATION Spec
CONSTANTS
  Requests = {r1, r2}
  Series = {s1, s2}
  Cuits = {c1, c2}
  CuitOf <- OwnIssuers
  Accounts = {a1, a2}
  NoAccount = NoAccount
  MaxPeriod = 1
  MaxCrashes = 0
  MaxWrites = 1
SYMMETRY Interchangeable
INVARIANTS
  OneInvoicePerRequest
  IssuedUnderReadyCuit
PROPERTY KeepsTheBook
\* the service may come to rest with every request answered
CHECK_DEADLOCK FALSE
