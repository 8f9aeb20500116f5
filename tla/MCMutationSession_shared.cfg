SPECIFICATION Spec
SYMMETRY CallSymmetry
CONSTANTS
  Calls = {c1, c2, c3, c4, c5}
  N = 3
  MaxOutside = 2
  None = None
INVARIANTS
  SoleOwner
  OneDispatch
  ClosedMeansNoWrite
  DispositionTruthful
  ValidatesApprovedBytes
PROPERTIES
  ProtectedWrites
  StrongLabelEarned
CHECK_DEADLOCK FALSE
