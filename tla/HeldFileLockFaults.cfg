CONSTANTS
  Calls = {k, c1, c2}
  Killable = {k}
  Stalling = {}
  Faulty = {c1, c2}
  Empty = Empty
  None = None
SPECIFICATION FairSpec
CHECK_DEADLOCK FALSE
PROPERTIES
  OrphanIsBroken
