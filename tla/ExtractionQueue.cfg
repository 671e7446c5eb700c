CONSTANTS
  t1 = t1
  t2 = t2
  u1 = u1
  u2 = u2
  f1 = f1
  ka = ka
  kb = kb
  Tasks = {t1, t2, u1, f1}
  KeyOf <- MCKeyOf
  Front = {f1}
  Recurring = {t1, u1}
  Reservers = {ka, kb}
  Concurrency = 2
SPECIFICATION QueueFairSpec
INVARIANTS
  QueueTypeOK
  OneTaskPerKey
  ReservationFences
  NotStranded
  DrainedIsIdle
PROPERTIES
  AcceptedTasksRun
  ShutdownCompletes
