SPECIFICATION Spec
CONSTANTS
  Cpus = {c1}
  NoCpu = NoCpu
  Frames = {1, 2, 3, 4}
  BootTables = {11, 12, 13, 14}
  BootRoot = 14
  BootMem <- MCBootMem
  BootLevel <- MCBootLevel
  p1 = p1
  PhysPages = {p1}
  NullAddr = 0
  KAS = KAS
  MAX_ADDRESS_SPACES = 1
  ENTRY_COUNT = 2
  KERNEL_PML4_START = 1
  Pages <- InLarge
  FlagSets <- OneFlagSet
  NxeEnabled = TRUE
INVARIANT EnsureReturnsTable
