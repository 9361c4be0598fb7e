CONSTANTS
  Objects = {o1, o2, o3}
  Interfaces = {cuda, opencl}
  Allocations = {1, 2}
  Handles = {1, 2}
  Native = native
  RefCounts = {1, 2, 3, 4, 5, 6}
  MaxUses = 4
  NULL = NULL
  Programs <- MCPrograms
SYMMETRY Symmetric
SPECIFICATION Spec
INVARIANTS
  NoDanglingMemory
  CountsExact
  ModuleKept
  DirtyBitsTruthful
CHECK_DEADLOCK FALSE
