SPECIFICATION Spec
CONSTANTS
  Loads = {0, 100, 5000}
  CoreCounts = {1, 2}
  MinutesValues = {5}
  MemTotal = 20
  SwapTotals = {20}
  StatesOf <- MCStatesOf
PROPERTY LoadIsAsDocumented
