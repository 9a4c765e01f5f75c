SPECIFICATION FairSpec
CONSTANTS
  r = r
  w = w
  Session = {r, w}
  Addr = {1, 2, 3}
  InitRows = {1, 2}
  Default = "RC"
  Levels <- AnyMaySerialize
  Claims <- OnlyWClaims
  WriteLevels = {"RU", "RC", "RR", "SI", "SER"}
  Truncators = {}
  Abandoners = {w}
  BeginsFirst = TRUE
  MaxTxn = 3
  MaxStmt <- Once
INVARIANTS LocksHaveOwners SerialGate
PROPERTIES StagedIsLeftAlone WaitEnds
