CONSTANTS
  Callers = {c1, c2}
  blur = blur
  sharpen = sharpen
  Names = {blur, sharpen}
  num_funcs <- MCnum_funcs
  Workloads <- MCWorkloads
  Failures = 1
  NULL = NULL
SPECIFICATION Spec
INVARIANTS TypeOK StatsListed BilledWhileRunning PeakExact Sampled
PROPERTY ShutdownReturns
