SPECIFICATION Spec
CONSTANTS
  Deploys = {d1, d2}
  Built = {d1}
  Releases = {r1, r2}
  Vars = {v1, v2}
  Calls = {c1, c2}
  Other = Other
  None = None
  MaxOutside = 1
SYMMETRY Interchangeable
CONSTRAINT Bounded
INVARIANTS
  EffectsAskedOnce
  SubmittedConfigured
  DeploymentTruthful
  CompletedWasServed
  ServingTruthful
PROPERTIES
  ImplementsLedger
CHECK_DEADLOCK FALSE
