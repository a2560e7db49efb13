SPECIFICATION Spec
CONSTANTS
  c1 = c1
  c2 = c2
  Cpus = {c1, c2}
  Bsp = c1
  ApicId <- BootIdZero
  MAX_CPUS = 2
  KAS = KAS
  Spaces = {KAS, s1}
  Pages = {u}
  KernelPages = {}
  Entry = {e1, e2}
  Global = {}
  None = None
INVARIANTS TypeOK ShootdownReaches CurrentIsActive
