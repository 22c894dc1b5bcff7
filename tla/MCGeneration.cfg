SPECIFICATION FairSpec
CONSTANTS
  t1 = t1
  u1 = u1
  s1 = s1
  Task <- MCTask
  Session = {s1}
  SessionOf <- MCSessionOf
  Unsheddable = {u1}
  MaxConcurrent = 1
  Threshold = 1
  MaxQueued = 1
  MaxAttempts = 2
  MaxFallbackHops = 1
  FailureThreshold = 1
  MinimumRequests = 1
  HalfOpenProbes = 1
  SuccessesToClose = 1
  MaxObservations = 1
INVARIANT GenerationInv NoSlotIsLost NoTrialPlaceIsLost CleanDrainMissesOnlyLatecomers
PROPERTY GenerationsEnd
CHECK_DEADLOCK FALSE
