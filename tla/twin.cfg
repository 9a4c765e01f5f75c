SPECIFICATION Spec
CONSTANTS
  r = r
  w = w
  Session = {r, w}
  Addr = {1, 2, 3}
  InitRows = {1}
  Default = "RC"
  Levels <- NoLevels
  Claims <- AllClaim
  WriteLevels = {"RU", "RC", "RR", "SI", "SER"}
  Truncators = {}
  Abandoners = {}
  BeginsFirst = TRUE
  MaxTxn = 2
  MaxStmt <- Once
INVARIANT OneCurrentVersion
