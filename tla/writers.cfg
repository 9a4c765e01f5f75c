SPECIFICATION Spec
CONSTANTS
  r = r
  w = w
  Session = {r, w}
  Addr = {1, 2, 3, 4}
  InitRows = {1, 2}
  Default = "RC"
  Levels <- NoLevels
  Claims <- ClaimsApart
  WriteLevels = {"RU", "RC", "RR", "SI", "SER"}
  Truncators = {w}
  Abandoners = {}
  BeginsFirst = TRUE
  MaxTxn = 3
  MaxStmt <- Once
INVARIANTS OneCurrentVersion StampsReach
PROPERTIES CommittedStays
