CONSTANTS
  k = k
  a1 = a1
  a2 = a2
  b = b
  d = d
  Calls = {k, a1, b, d}
  Killable = {k}
  Stalling = {}
  Faulty = {}
  Empty = Empty
  None = None
  Proc <- MCProc
SPECIFICATION MetaSpec
CHECK_DEADLOCK FALSE
INVARIANTS
  NoLostUpdate
