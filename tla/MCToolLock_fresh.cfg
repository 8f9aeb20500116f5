SPECIFICATION Spec
CONSTANTS
  Procs = {p1, p2}
  None = None
  MaxDeaths = 0
  MaxAgings = 0
INVARIANTS
  MutualExclusion
CHECK_DEADLOCK FALSE
