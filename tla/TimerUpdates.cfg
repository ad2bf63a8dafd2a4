SPECIFICATION Spec
CONSTANTS
  sda = sda
  sdb = sdb
  sda1 = sda1
  loop0 = loop0
  slow = slow
  fast = fast
  silent = silent
  badUnit = badUnit
  NoDisk = NoDisk
  None = None
  Names = {sda}
  Actions = {fast}
  Callers = {}
  MaxBlocks = 1
  BlockSizes = {512, 4096}
  Directions = {"read"}
  Kind <- MCKind
  UnitIsValid <- MCUnitIsValid
  TimerInterval <- MCTimerInterval
  FloatExact = 16777216
  TimeModulus = 1073741824
PROPERTY TimerUpdatesDisks
