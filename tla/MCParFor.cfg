SPECIFICATION FairSpec
CONSTANTS
  k1 = k1
  k2 = k2
  c1 = c1
  c2 = c2
  j1 = j1
  j2 = j2
  NULL = NULL
  Clients = {k1, k2}
  Calls = {c1, c2}
  Jobs = {j1, j2}
  Sems = {}
  MAX_THREADS = 3
  DEFAULT_THREADS = 2
  ThreadRequests <- MCThreadRequests
  MaxRequests = 1
  MaxShutdowns = 1
  Task <- MCTask
  CallOf <- MCCallOf
  CallJobs <- MCCallJobs
  CallParent <- MCCallParent
  Body <- MCBody
  Program <- MCProgram
  SemInit <- MCSemInit
  MayFail = {j1}
INVARIANTS
  TypeOK
  StackHoldsPendingJobs
  ActiveWorkersCounted
  SleepersCounted
PROPERTIES
  CallsReturn
  ShutdownEnds
