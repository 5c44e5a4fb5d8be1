SPECIFICATION Spec
CONSTANTS
  p1 = p1
  p2 = p2
  PCs = {p1, p2}
  Regs = {r1}
  Scripts = {0, 1}
  Options <- MCOptions
  Tables <- MCTables
  Budget = 2
  Awake = 2
  Idle = 2
  Burst = 2
  MaxCount = 2
INVARIANTS OnlyParked BreakHonoured ExitTruthful
PROPERTY RunEnds
CHECK_DEADLOCK FALSE
