\* Two executions of one review, after or beside a session that may die
\* anywhere; faults, a damaged blob and changes by other programs.
SPECIFICATION Spec
CONSTANTS
  review1 = review1  review2 = review2  exec1 = exec1  exec2 = exec2
  None = None
  Kind <- MCKind
  Reviews = {review1}
  Executions = {exec1, exec2}
  MaxOutside = 2
  MaxDamage = 1
  MaxFaults = 1
INVARIANTS
  MutationIsCovered
  RecordTruthful
  OneExecutionPerAuthorization
  UndisturbedRecoveryUndoes
PROPERTIES
  OverwritesWhatItSaw
CHECK_DEADLOCK FALSE
