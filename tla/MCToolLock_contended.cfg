SPECIFICATION Spec
CONSTANTS
  Procs = {p1, p2, p3}
  None = None
  MaxDeaths = 1
  MaxAgings = 1
INVARIANTS
  ExclusiveUnlessSwept
  LastOneOutCleansUp
PROPERTIES
  EveryCallEnds
CHECK_DEADLOCK FALSE
