SPECIFICATION ClientsSpec
CONSTANTS
  PartyA = "A"
  PartyB = "B"
  Operator = "operator"
  Scheduler = "scheduler"
  Threshold <- MCThreshold
  Mta = 1
  Rounding = 1
  Exposures = {3}
  Amounts = {3}
  KeepMarks = FALSE
  MaxMarks = 1
  MaxDisputes = 2
  MaxPledge = 3
  Users = {"B", "operator"}
  Attempts = 4
  MaxClicks = 1
  MaxOthers = 3
INVARIANTS
  ReportsAreTrue
PROPERTIES
  ActsOnWhatItShowed
CHECK_DEADLOCK FALSE
