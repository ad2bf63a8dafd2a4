SPECIFICATION Spec
CONSTANTS
  sda = sda
  sdb = sdb
  sda1 = sda1
  loop0 = loop0
  slow = slow
  fast = fast
  silent = silent
  badUnit = badUnit
  NoDisk = NoDisk
  None = None
  Names = {sda, sdb, loop0, sda1}
  Actions = {slow, fast, silent}
  Callers = {}
  MaxBlocks = 0
  BlockSizes = {512}
  Directions = {"read"}
  Kind <- MCKind
  UnitIsValid <- MCUnitIsValid
  TimerInterval <- MCTimerInterval
  FloatExact = 16777216
  TimeModulus = 1073741824
INVARIANTS NoDuplicateDisks OnlyPhysicalDisks ScanIsComplete TimerServesActions
PROPERTY ImplementsDiskWatch
