SPECIFICATION FairSpec
CONSTANTS
  Cpus = {c1, c2}
  NoCpu = NoCpu
  Frames = {1, 2, 3, 4}
  BootTables = {11, 12, 13, 14}
  BootRoot = 14
  BootMem <- MCBootMem
  BootLevel <- MCBootLevel
  p1 = p1
  PhysPages = {p1}
  NullAddr = 0
  KAS = KAS
  MAX_ADDRESS_SPACES = 2
  ENTRY_COUNT = 2
  KERNEL_PML4_START = 1
  Pages <- UserAndKernel
  FlagSets <- OneFlagSet
  NxeEnabled = TRUE
VIEW TablesInUse
ACTION_CONSTRAINT LowestFrame
INVARIANTS TypeOK TableForest NoStaleWalk KernelHalfShared
PROPERTIES   UsesAllocator NoLeak OperationsReturn
