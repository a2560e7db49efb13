SPECIFICATION Spec
CONSTANTS
  Machines <- ResetBase
  U64_MAX = 7
  MHZ = 1
  TICK_NS = 1
  SECOND = 2
  TSS_ADDR <- KernelTss
INVARIANT DoubleFaultUsesIst1
CHECK_DEADLOCK FALSE
