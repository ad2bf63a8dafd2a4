SPECIFICATION FairSpec
CONSTANTS
  sda = sda
  sdb = sdb
  sda1 = sda1
  loop0 = loop0
  slow = slow
  fast = fast
  silent = silent
  badUnit = badUnit
  NoDisk = NoDisk
  None = None
  Names = {sda, sdb}
  Actions = {fast, slow, badUnit}
  Callers = {caller}
  MaxBlocks = 1
  BlockSizes = {512}
  Directions = {"read"}
  Kind <- MCKind
  UnitIsValid <- MCUnitIsValid
  TimerInterval <- MCTimerInterval
  FloatExact = 16777216
  TimeModulus = 1073741824
INVARIANTS TypeOK ReportsWatchedDisks
PROPERTIES EntriesStay ConstructorEnds CallEnds DisksAreSampled
