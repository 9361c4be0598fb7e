SPECIFICATION FairSpec
CONSTANTS
  app = app
  top = top
  outer = outer
  ready = ready
  mid = mid
  inner = inner
  fork = fork
  prod = prod
  cons = cons
  made = made
  NULL = NULL
  Clients = {app}
  Calls = {top, mid, fork}
  Jobs = {outer, inner, prod, cons}
  Sems = {ready, made}
  MAX_THREADS = 2
  DEFAULT_THREADS = 2
  ThreadRequests = {}
  MaxRequests = 0
  MaxShutdowns = 0
  Task <- MCTask
  CallOf <- MCCallOf
  CallJobs <- MCCallJobs
  CallParent <- MCCallParent
  Body <- MCBody
  Program <- MCProgram
  SemInit <- MCSemInit
  MayFail = {prod, inner}
INVARIANTS
  NoDanglingJob
  ReservationsBalanced
  ThreadsNotOverCommitted
PROPERTIES
  ReturnedWorkIsDone
  CallsReturn
