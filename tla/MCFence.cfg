SPECIFICATION FenceSpec
CONSTANTS
  Proc = {p1, p2}
  Server = {s1, s2}
  Interval = 2
  Timeout = 1
  MaxClock = 400
  Free = Free
  Orphan = Orphan
  NoServer = NoServer
SYMMETRY Symmetry
INVARIANTS MutualExclusion FenceInv
PROPERTY NoLateRevival
VIEW View
