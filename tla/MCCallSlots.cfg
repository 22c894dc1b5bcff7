SPECIFICATION Spec
CONSTANTS
  Call = {c1, c2}
  Provider = {p}
  ProviderOf <- OneProvider
  Capacity = 2
  MaxCallsPerProvider = 1
  MaxRestarts = 0
INVARIANT AdmittedCallsReleaseTheirSlot
CHECK_DEADLOCK FALSE
