SPECIFICATION Spec
CONSTANTS
  PartyA = "A"
  PartyB = "B"
  Swaps <- MCSwaps
  Reversed <- MCReversed
  Coupon <- MCCoupon
  PayDays <- MCPayDays
  Maturity <- MCMaturity
  Fpml <- MCFpml
  Buyout = 1
  ShowsIds = TRUE
  LastDay = 2
  Service = "service"
  Stray = "stray"
  MaxDisturbances = 1
INVARIANTS
  PaidOnce
  OneEffectPerCoupon
  AuditTrail
PROPERTIES
  EndIsFinal
  EventuallyEnds
CHECK_DEADLOCK FALSE
