\* Another program writes between the fresh observation and the restore.
SPECIFICATION Spec
CONSTANTS
  review1 = review1  review2 = review2  exec1 = exec1  exec2 = exec2
  None = None
  Kind <- MCKind
  Reviews = {review1}
  Executions = {exec1}
  MaxOutside = 2
  MaxDamage = 0
  MaxFaults = 0
PROPERTIES
  NoSilentOverwrite
CHECK_DEADLOCK FALSE
