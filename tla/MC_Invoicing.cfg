SPECIFICATION Spec
CONSTANTS
  Requests = {r1, r2, r3}
  Series = {s1}
  Cuits = {c1}
  CuitOf <- OneIssuer
  Accounts = {a1}
  NoAccount = NoAccount
  MaxPeriod = 2
  MaxCrashes = 1
  MaxWrites = 0
SYMMETRY Interchangeable
INVARIANTS
  TypeOK
  RejectedNumberTaken
  OkIsAuthorised
  RefusalIsFinal
  UsageIsExact
  EventsAreCounted
  OkIsBilled
\* the service may come to rest with every request answered
CHECK_DEADLOCK FALSE
