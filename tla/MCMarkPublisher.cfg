SPECIFICATION ServiceSpec
CONSTANTS
  PartyA = "A"
  PartyB = "B"
  Operator = "operator"
  Scheduler = "scheduler"
  Threshold <- MCThreshold
  Mta = 2
  Rounding = 3
  Exposures <- MCExposures
  Amounts <- MCAmounts
  KeepMarks = FALSE
  MaxMarks = 1
  MaxDisputes = 1
  MaxPledge = 3
  Service = "service"
  Stray = "stray"
  MaxMoves = 3
  MaxFaults = 1
INVARIANTS
  NoStaleAssessment
  SkipIsSound
PROPERTIES
  EventuallyAssessed
