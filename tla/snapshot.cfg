SPECIFICATION Spec
CONSTANTS
  r = r
  w = w
  Session = {r, w}
  Addr = {1, 2}
  InitRows = {1}
  Default = "RC"
  Levels <- RMaySnapshot
  Claims <- OnlyWClaims
  WriteLevels = {"RU", "RC", "RR", "SI", "SER"}
  Truncators = {}
  Abandoners = {}
  BeginsFirst = TRUE
  MaxTxn = 2
  MaxStmt <- WTwice
INVARIANT SnapshotIsOld
