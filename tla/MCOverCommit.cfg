SPECIFICATION Spec
CONSTANTS
  app = app
  top = top
  outer = outer
  d1 = d1
  inner1 = inner1
  d2 = d2
  inner2 = inner2
  NULL = NULL
  Clients = {app}
  Calls = {top, d1, d2}
  Jobs = {outer, inner1, inner2}
  Sems = {}
  MAX_THREADS = 5
  DEFAULT_THREADS = 5
  ThreadRequests = {}
  MaxRequests = 0
  MaxShutdowns = 0
  Task <- MCTask
  CallOf <- MCCallOf
  CallJobs <- MCCallJobs
  CallParent <- MCCallParent
  Body <- MCBody
  Program <- MCProgram
  SemInit <- MCSemInit
  MayFail = {}
INVARIANT ThreadsNotOverCommitted
