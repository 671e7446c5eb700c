CONSTANTS
  t1 = t1
  f1 = f1
  da = da
  db = db
  dc = dc
  ka = ka
  kb = kb
  kc = kc
  Tasks = {t1, da}
  KeyOf <- MCKeyOf
  Front = {}
  Recurring = {t1, da}
  Reservers = {ka}
  Concurrency = 2
  DrainTask <- MCDrainTask
  Rank <- MCRank
  PageLimit = 3
  ScanFactor = 1
  Capturing = {ka}
  MaxTurns = 1
  RetryBase = 1
  RetryMax = 2
  Disturbances = {"stop", "breaker", "queue", "io", "denial"}
SPECIFICATION FairSpec
INVARIANTS
  TypeOK
  ClaimFenced
PROPERTIES
  StopSettles
