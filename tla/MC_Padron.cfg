\* Replies of up to three entries, repeated and overlapping in every way.
SPECIFICATION Spec
CONSTANTS
  Items <- SomeItems
  NaN = NaN
  MaxItems = 3
INVARIANTS TypeOK ImpuestosAreTheFirst ConditionFollowsFromReply
