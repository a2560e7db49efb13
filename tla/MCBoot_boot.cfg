SPECIFICATION FairSpec
CONSTANTS
  Machines <- ResetBase
  U64_MAX = 7
  MHZ = 1
  TICK_NS = 1
  SECOND = 2
  TSS_ADDR <- KernelTss
INVARIANTS TypeOK SelectorsDescribed FeaturesAgree InterruptsOnlyWhenReady OneTickOutstanding
PROPERTIES TicksGoOn LateFaultsAbort
CHECK_DEADLOCK FALSE
