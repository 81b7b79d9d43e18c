CONSTANTS
  Debounce = 2
  Period = 7
  Base = 8
  Cap = 20
  Loops = {l1, l2}
  MaxCreates = 3
SPECIFICATION TriggerSpec
INVARIANTS OneChainUntilStop PushReachesTick
PROPERTIES ServesRequests EventuallySeen
