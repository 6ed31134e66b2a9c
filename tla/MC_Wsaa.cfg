\* Three callers of two services: two of them always share their files.
\* A model of finitely many calls stops when they have ended.
SPECIFICATION Spec
CHECK_DEADLOCK FALSE
CONSTANTS
  Callers = {p1, p2, p3}
  NoCaller = noCaller
  Cuits = {c1}
  Services = {wsfe, padron}
  Life = 1
  MaxTime = 2
  MaxCrashes = 1
SYMMETRY Interchangeable
INVARIANTS TypeOK TicketIsGenuine FailsOnlyIfDisturbed FreshUnlessOverdue
