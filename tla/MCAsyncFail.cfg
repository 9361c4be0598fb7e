SPECIFICATION FairSpec
CHECK_DEADLOCK FALSE
CONSTANTS
  app = app
  fork = fork
  prod = prod
  side = side
  cons = cons
  made = made
  more = more
  fold = fold
  NULL = NULL
  Clients = {app}
  Calls = {fork}
  Jobs = {prod, side, cons}
  Sems = {made, more, fold}
  MAX_THREADS = 2
  DEFAULT_THREADS = 3
  ThreadRequests = {}
  MaxRequests = 0
  MaxShutdowns = 0
  Task <- MCTask
  CallOf <- MCCallOf
  CallJobs <- MCCallJobs
  CallParent <- MCCallParent
  Body <- MCBody
  Program <- MCProgram
  SemInit <- MCSemInit
  MayFail = {cons}
PROPERTIES
  CallsReturn
