\* Two calls of one process, of either kind, race for one path; others
\* interfere too, twice when only one call is made.
SPECIFICATION Spec
SYMMETRY InodeSymmetry
CONSTRAINT Bounded
CONSTANTS
  p1 = p1  c1 = c1  c2 = c2  modA = modA  modB = modB  newA = newA  newB = newB
  a1 = a1  a2 = a2  x = x  y = y
  Paths = {p1}
  Temps = {c1, c2}
  Alias = Alias
  Inodes = {i1, i2, i3}
  Bytes = {x, y}
  Torn = Torn
  Absent = Absent
  None = None
  Outsider = Outsider
  Changes = {modA, newB}
  Auths = {a1, a2}
  Action <- MCAction
  Target <- MCTarget
  After <- MCAfter
  MaxOutside = 2
INVARIANTS
  TypeOK
  NothingWrittenUnlessAllowed
  NeverTorn
  DurableSuccess
  OneCallPerAuthorization
PROPERTIES
  NoBlindOverwrite
  ImplementsContract
CHECK_DEADLOCK FALSE
