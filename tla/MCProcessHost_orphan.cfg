SPECIFICATION Spec
CONSTANTS
  Leader = leader
  Descendants = {child}
  None = None
  Limit = 1
  MaxWritten = 0
PROPERTIES
  FiniteCleanup
CHECK_DEADLOCK FALSE
