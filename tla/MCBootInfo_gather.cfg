SPECIFICATION Spec
CONSTANTS
  a = a
  b = b
  NUL = NUL
  SPACE = SPACE
  Uninit = Uninit
  None = None
  Memory <- SmallMemory
  Requests <- SmallRequests
  NonUtf8 = {b}
  AddrLimit = 64
  MAX_MEMMAP = 2
  STRBUF_SIZE = 6
  ALIGN = 2
  MAX_STR_BYTES = 5
  MEMBUF = 40
  STRBUF = 50
INVARIANTS TypeOK StringsDelivered SpansDisjoint MapFaithful StartsOrPanics
CHECK_DEADLOCK FALSE
