SPECIFICATION Spec
CONSTANTS
  Task = {t1, t2}
  InPlace = {t2}
  Call = {c1, c2}
  None = None
  MaxTurns = 2
  MaxRuns = 3
  MaxLosses = 2
CONSTRAINT Bounded
INVARIANTS
  RunningIsOwned
  NoWorkLost
  LostIsResumable
PROPERTIES
  FinishedNeverResumed
  RunsEnd
CHECK_DEADLOCK FALSE
