SPECIFICATION FairSpec
CONSTANTS
  t1 = t1
  t2 = t2
  t3 = t3
  t4 = t4
  m1 = m1
  m2 = m2
  c1 = c1
  c2 = c2
  Threads = {t1, t2, t3, t4}
  Mutexes = {m1, m2}
  Conds = {c1, c2}
  NULL = NULL
  Buckets = {0, 1}
  Clients <- MCClients
INVARIANTS
  MutualExclusion
  NoMissedWakeup
  UnparkedOnce
PROPERTIES
  ImplementsMonitor
  CallsReturn
CHECK_DEADLOCK FALSE
