SPECIFICATION Spec
CONSTANTS
  Tabs = {t1, t2}
  MaxLogins = 2
  MaxRotations = 1
  MaxFaults = 1
  MaxAsks = 1
INVARIANTS
  NoDeadCookie
PROPERTIES
  DeadSessionsEnd
CHECK_DEADLOCK FALSE
