SPECIFICATION Spec
CONSTANTS
  PartyA = "A"
  PartyB = "B"
  Marked <- MCMarked
  Agreed <- MCAgreed
  Trades <- MCTrades
  MarketOn <- MCMarketOn
INVARIANTS
  CallIsExact
  TsMirrorsDamlOffTies
  EachDayAccruesOnce
  ValuesFollowPayments
  MarkedAsShown
CHECK_DEADLOCK FALSE
