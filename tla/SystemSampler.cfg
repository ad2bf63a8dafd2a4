SPECIFICATION Spec
CONSTANTS
  ULongModulus = 8
  ULongLongModulus = 64
  Garbage = {0, 9}
  Absent = Absent
  Refused = Refused
  Undefined = Undefined
  Active = {"user", "idle", "iowait", "guest"}
  Uptimes = {0, 6}
  Printings = {8, 10}
  MaxTicks = 3
  Sysinfos <- MCSysinfos
INVARIANTS TypeOK TotalIsOfColumns SharesAreTrue RunningIsUsageLessIdle FailureLeavesZeros FieldsAgree InfoKeepsShares
