SPECIFICATION Spec
CONSTANTS
  Leader = leader
  Descendants = {child}
  None = None
  Limit = 1
  MaxWritten = 3
INVARIANTS
  OutcomeTruthful
  CaptureTruthful
PROPERTIES
  EndsUnlessOutputHeld
CHECK_DEADLOCK FALSE
