CONSTANTS
  Attempts = {g1, g2, g3, f1}
  Forced = {f1}
  Deadlined = {g3}
  FailureThreshold = 2
  Orphan = Orphan
  None = None
SPECIFICATION FairSpec
INVARIANTS
  TypeOK
  ProbeIsOwned
  ClosedBelowThreshold
PROPERTIES
  Recovers
