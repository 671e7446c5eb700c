CONSTANTS
  k1 = k1
  k2 = k2
  u1 = u1
  u3 = u3
  wa = wa
  wb = wb
  key1 = key1
  key2 = key2
  None = None
  Callers = {k1, k2, u1}
  Work <- MCWork
  KeyOf <- MCKeyOf
  Slots = 1
  HardLimit = 3
\* The system stops when every caller has been served.
CHECK_DEADLOCK FALSE
SPECIFICATION FairSpec
INVARIANTS
  TypeOK
  QuotaIsExact
  OneFlightPerWork
  RegisteredIsCurrent
  NoPhantomSuccess
  SlotsAreUsed
  AbandonedIsCancelled
PROPERTIES
  CallersEnd
