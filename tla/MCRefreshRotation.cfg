SPECIFICATION Spec
CONSTANTS
  Call = {c1, c2, c3}
  Token = {t1, t2, t3, t4}
  Foreign = Foreign
SYMMETRY Symmetry
INVARIANTS SingleUse ReuseEndsTheFamily RotationInv
PROPERTIES NothingReleasedAfterTheEnd ImplementsFamily
CHECK_DEADLOCK FALSE
