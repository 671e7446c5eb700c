CONSTANTS
  t1 = t1
  f1 = f1
  da = da
  db = db
  dc = dc
  ka = ka
  kb = kb
  kc = kc
  Tasks = {da}
  KeyOf <- MCKeyOf
  Front = {}
  Recurring = {da}
  Reservers = {ka}
  Concurrency = 1
  DrainTask <- MCDrainTask
  Rank <- MCRank
  PageLimit = 2
  ScanFactor = 1
  Capturing = {ka}
  MaxTurns = 1
  RetryBase = 1
  RetryMax = 4
  Disturbances = {"stop", "breaker", "io", "denial"}
SPECIFICATION Spec
PROPERTIES
  DenialWaitsMax
