SPECIFICATION Spec
CONSTANTS
  Directions = {"read", "write"}
  FloatExact = 64
  TimeModulus = 4
  BlockSize = 2
  SectorBytes = 2
  MaxBlocks = 2
  MaxMs = 5
  MaxCycle = 4
  Unknown = Unknown
  Kilo = 4
  Second = 4
  NoUnit = NoUnit
  Refused = Refused
INVARIANTS TypeOK RowsTellTheSpeed
PROPERTY MeasuresTrueSpeed
