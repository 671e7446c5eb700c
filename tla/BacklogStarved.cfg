CONSTANTS
  t1 = t1
  f1 = f1
  da = da
  db = db
  dc = dc
  ka = ka
  kb = kb
  kc = kc
  Tasks = {da, db}
  KeyOf <- MCKeyOf
  Front = {}
  Recurring = {da, db}
  Reservers = {ka, kb}
  Concurrency = 1
  DrainTask <- MCDrainTask
  Rank <- MCRank
  PageLimit = 4
  ScanFactor = 8
  Capturing = {}
  MaxTurns = 1
  RetryBase = 2
  RetryMax = 4
  Disturbances = {}
SPECIFICATION FairSpec
PROPERTIES
  ClaimsAreNeverStarved
