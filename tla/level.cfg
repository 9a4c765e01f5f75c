SPECIFICATION Spec
CONSTANTS
  r = r
  w = w
  Session = {r, w}
  Addr = {1, 2}
  InitRows = {1}
  Default = "RC"
  Levels <- MaySerialize
  Claims <- AllClaim
  WriteLevels = {"RU", "RC", "RR", "SI", "SER"}
  Truncators = {}
  Abandoners = {}
  BeginsFirst = FALSE
  MaxTxn = 3
  MaxStmt <- Once
PROPERTY LevelLasts
