SPECIFICATION Spec
CONSTANTS
  PartyA = "A"
  PartyB = "B"
  Operator = "operator"
  Scheduler = "scheduler"
  Threshold <- MCThreshold
  Mta = 2
  Rounding = 3
  Exposures <- MCExposures
  Amounts <- MCAmounts
  KeepMarks = TRUE
  MaxMarks = 3
  MaxDisputes = 2
  MaxPledge = 3
INVARIANTS
  DisputeConsistency
  NoOverdraw
  CallsAreUndisputed
  CallIsCurable
PROPERTIES
  KeepsPromise
CHECK_DEADLOCK FALSE
