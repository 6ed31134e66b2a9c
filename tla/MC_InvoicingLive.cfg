SPECIFICATION FairSpec
CONSTANTS
  Requests = {r1, r2}
  Series = {s1}
  Cuits = {c1}
  CuitOf <- OneIssuer
  Accounts = {a1}
  NoAccount = NoAccount
  MaxPeriod = 2
  MaxCrashes = 1
  MaxWrites = 0
PROPERTY Answered
\* the service may come to rest with every request answered
CHECK_DEADLOCK FALSE
