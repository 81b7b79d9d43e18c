SPECIFICATION Spec
CONSTANTS
  MaxResets = 1
  MaxCuts = 1
  Bare = Bare
  Items = {i1}
  MaxRenewals = 1
INVARIANTS
  QueueIsCurrent
PROPERTIES
  CanaryIsRight
  Recovers
  ListedInTheEnd
CHECK_DEADLOCK FALSE
