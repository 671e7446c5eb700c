CONSTANTS
  Calls = {s1, c1, c2}
  Killable = {s1}
  Stalling = {s1, c1}
  Faulty = {}
  Empty = Empty
  None = None
SPECIFICATION Spec
CHECK_DEADLOCK FALSE
PROPERTIES
  OnlyStaleDestroyed
