SPECIFICATION FairSpec
CONSTANTS
  c1 = c1
  c2 = c2
  Cpus = {c1, c2}
  Bsp = c1
  ApicId <- BootIdZero
  MAX_CPUS = 2
  KAS = KAS
  Spaces = {KAS}
  Pages = {k}
  KernelPages = {k}
  Entry = {e1, g1}
  Global = {g1}
  None = None
PROPERTY StaleGoes
