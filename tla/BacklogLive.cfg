CONSTANTS
  t1 = t1
  f1 = f1
  da = da
  db = db
  dc = dc
  ka = ka
  kb = kb
  kc = kc
  Tasks = {da, db, dc}
  KeyOf <- MCKeyOf
  Front = {}
  Recurring = {da, db, dc}
  Reservers = {ka, kb, kc}
  Concurrency = 1
  DrainTask <- MCDrainTask
  Rank <- MCRank
  PageLimit = 2
  ScanFactor = 1
  Capturing = {kc}
  MaxTurns = 1
  RetryBase = 1
  RetryMax = 1
  Disturbances = {}
SPECIFICATION FairSpec
PROPERTIES
  ClaimsAreAttempted
