SPECIFICATION Spec
CONSTANTS
  ka = ka
  kb = kb
  kc = kc
  NULL = NULL
  Application = Application
  Clients = {app1, app2}
  Keys = {ka, kb, kc}
  Entries = {e1, e2, e3}
  Blocks = {b1, b2, b3, b4}
  Buckets = {1, 2}
  Hash <- MCHash
  TupleCount <- MCTupleCount
  Bytes <- MCBytes
  DefaultSize = 3
  Workloads <- TwoPruned
SYMMETRY Symmetry
INVARIANTS
  ValidCache
