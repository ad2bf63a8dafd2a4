SPECIFICATION Spec
CONSTANTS
  Devices <- MCDevices
  Major <- MCMajor
  Minor <- MCMinor
  Whole <- MCWhole
  ExtMajor = 259
  Padding = 2
  Printings = {17}
  IntModulus = 4
  MaxIo = 3
  Paths <- MCPaths
  Failed = Failed
PROPERTY LoadIsFaithful
