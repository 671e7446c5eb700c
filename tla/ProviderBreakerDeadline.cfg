CONSTANTS
  Attempts = {g1, g2, f1}
  Forced = {f1}
  Deadlined = {g1}
  FailureThreshold = 2
  Orphan = Orphan
  None = None
SPECIFICATION Spec
INVARIANT ProbeHasOwner
