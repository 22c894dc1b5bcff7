SPECIFICATION Spec
CONSTANTS
  Plan = {p, q}
  Task = {p1, p2, p3, q1, q2}
  Key = {book, tell}
  p = p q = q book = book tell = tell p3 = p3 p1 = p1 p2 = p2 q1 = q1 q2 = q2
  None = None
  PlanOf <- MCPlanOf
  KeyOf <- MCKeyOf
  ClassOf <- MCClassOf
  Before <- MCBefore
  Instead <- MCInstead
  Optional = {}
  Irreversible = {tell}
  MayEnd = {q}
  MaxConcurrent = 2
  MaxQueued <- MCMaxQueued
  StarvationRatio = 1
  MaxEntries = 1
  MaxSlots = 1
  MaxAttempts = 2
  MaxRounds = 2
SYMMETRY Symmetry
INVARIANTS LedgerInv SecondRunIsExplained ReplaysAreTrue FailedPlansAreUndone NoStandstill
CHECK_DEADLOCK FALSE
