\* Two executions that share changes and authorizations, while other programs
\* change the files.
SPECIFICATION PlanSpec
SYMMETRY Interchangeable
CONSTANTS
  pX = pX  pY = pY
  modX = modX  newX = newX  modY = modY
  aModX = aModX  aModX2 = aModX2  aNewX = aNewX  aModY = aModY
  old = old  new = new  exec1 = exec1  exec2 = exec2
  Paths = {pX, pY}
  Bytes = {old, new}
  Changes = {modX, newX, modY}
  Auths = {aModX, aModX2, aNewX, aModY}
  Executions = {exec1, exec2}
  Absent = Absent
  None = None
  Calls <- MCCalls
  Action <- MCAction
  Target <- MCTarget
  After <- MCAfter
  Before <- MCBefore
  Size <- MCSize
  For <- MCFor
  Offered <- MCOffered
  MinFiles = 2
  MaxFiles = 2
  MaxFileBytes = 2
  MaxTotalBytes = 3
  MaxOutside = 2
INVARIANTS
  StatusTruthful
  ApprovalPublishedOnce
CHECK_DEADLOCK FALSE
