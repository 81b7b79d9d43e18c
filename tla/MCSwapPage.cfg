SPECIFICATION Spec
CONSTANTS
  s1 = s1
  s2 = s2
  Swaps = {s1, s2}
  Notional <- MCNotional
  ByMe = {s2}
  Xccy = {s2}
  DefaultNotional = 1
  None = None
  MaxAsked = 3
  MaxUnwinds = 1
  Together <- MCTogether
INVARIANTS
  ShowsWhatItActsOn
  StaysWithItsSwap
  RestsOnItsSwap
