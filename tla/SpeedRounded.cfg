SPECIFICATION Spec
CONSTANTS
  Directions = {"read"}
  FloatExact = 8
  TimeModulus = 4
  BlockSize = 2
  SectorBytes = 2
  MaxBlocks = 24
  MaxMs = 2
  MaxCycle = 4
  Unknown = Unknown
  Kilo = 4
  Second = 4
  NoUnit = NoUnit
  Refused = Refused
PROPERTY RoundingIsBounded
