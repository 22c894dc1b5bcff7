SPECIFICATION FairSpec
CONSTANTS
  Call = {c1, c2}
  Provider = {p}
  ProviderOf <- OneProvider
  Capacity = 2
  MaxCallsPerProvider = 1
  MaxRestarts = 1
INVARIANTS AbandonedCallsAreKept CallRuntimeInv SlotsAreReservations ProviderCeiling
PROPERTY SetupConcludes
CHECK_DEADLOCK FALSE
