SPECIFICATION Spec
CONSTANTS
  MaxTasks = 4
  MaxExtent = 2
  UNINIT = UNINIT
INVARIANT ZeroExtentSkipped
