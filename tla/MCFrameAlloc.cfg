SPECIFICATION Spec
CONSTANTS
  PAGE_SIZE = 4
  MAX_FREE_FRAMES = 2
  U64_MAX = 31
  MemMaps <- MCMemMaps
INVARIANTS
  TypeOK
  NoDoubleAllocation
  FramesUsable
  AlignUpFits
  NoneOnlyWhenExhausted
PROPERTY
  ImplementsPool
CHECK_DEADLOCK FALSE
