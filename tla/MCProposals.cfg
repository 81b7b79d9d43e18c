SPECIFICATION Spec
CONSTANTS
  Currencies = {"USD", "EUR"}
  DefaultCurrency = "USD"
  Scheduled <- MCScheduled
  FirstPeriod <- MCFirstPeriod
  IndexCurrency <- MCIndexCurrency
  Slots = {p1, p2}
  Acks = {a1, a2}
  Drafts <- MCDrafts
  Traders = {"A", "B"}
  Policied = {"IRS", "FX"}
  MaxFlips = 2
  Nobody = Nobody
INVARIANTS
  SameTradeOnce
  ProposedIsAcceptable
  PreviewRebuilds
  AsEntered
PROPERTIES
  KeepsPromise
CHECK_DEADLOCK FALSE
