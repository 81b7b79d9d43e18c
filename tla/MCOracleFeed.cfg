SPECIFICATION Spec
CONSTANTS
  i1 = i1
  i2 = i2
  Indices <- MCIndices
  Stubbed <- MCStubbed
  Provided <- MCProvided
  Rates = {r1}
  Runs = {daily}
  Requests = {request}
  Attempts = 2
  WindowDays = 2
  MaxDay = 2
  MaxPosted = 1
  Nobody = Nobody
INVARIANTS
  HealthIsTruthful
  WindowOnce
