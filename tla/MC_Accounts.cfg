\* Four calls of one account, with a failure of Firebase and a restart.
\* A model of finitely many calls stops when they have ended.
SPECIFICATION Spec
CHECK_DEADLOCK FALSE
CONSTANTS
  Calls = {q1, q2, q3, q4}
  MaxFailures = 1
  MaxCrashes = 1
SYMMETRY Interchangeable
INVARIANTS TypeOK DeadKeysStayDead ToldKeyIsHeldOrDead RotationIsTold OwnersAreLetIn
PROPERTIES SettledAccountKeepsAKey KeepsTheKeyRing
