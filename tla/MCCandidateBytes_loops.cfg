\* The loops over a storage that may lose the end of a candidate.
SPECIFICATION LoopSpec
CONSTANTS
  zero = zero  one = one
  Byte = {zero, one}
  MaxLen = 4
  LosesTail = TRUE
INVARIANTS ConfirmedIsApproved
PROPERTY LoopsEnd
CHECK_DEADLOCK FALSE
