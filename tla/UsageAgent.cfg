SPECIFICATION FairSpec
CONSTANTS
  Loads = {0, 5000, 8000, 9500, 25000}
  CoreCounts = {0, 1, 2}
  MinutesValues = {1, 2, 5, 15, 261}
  MemTotal = 20
  SwapTotals = {0, 20}
  StatesOf <- MCStatesOf
INVARIANTS TypeOK StateIsOfInterval
PROPERTIES WorseIsNotBetter ValueFollows
