SPECIFICATION Spec
CONSTANTS
  Call = {c1, c2, c3}
  Challenge = {r1}
  Nobody = Nobody
  maxOtpAttempts = 2
  MaxRequests = 1
  MaxFailures = 2
  Window = 2
  Lockout = 1
  OtpLifetime = 1
  MaxClock = 3
SYMMETRY Symmetry
INVARIANTS OneSessionPerChallenge AttemptsAreNotLost CountedWhileInWindow StandingLockWasReported RetryAtIsExact OtpInv
CHECK_DEADLOCK FALSE
