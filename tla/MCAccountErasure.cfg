SPECIFICATION Spec
CONSTANTS
  SignIn = {s1}
  SignInCode = {k1}
  DeletionCode = {x1}
  Deletion = {d1, d2}
  Confirmation = {c1}
  Refresh = {f1}
  MaxClock = 2
SYMMETRY Symmetry
INVARIANTS DoneMeansErased FenceHolds ErasureInv BothDeletionsSucceed
PROPERTIES OnlyTheCurrentTokenErases
CHECK_DEADLOCK FALSE
