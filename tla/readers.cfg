SPECIFICATION Spec
CONSTANTS
  r = r
  w = w
  Session = {r, w}
  Addr = {1, 2, 3}
  InitRows = {2}
  Default = "RC"
  Levels <- RMaySnapshot
  Claims <- OnlyWClaims
  WriteLevels = {"RU", "RC", "RR", "SI", "SER"}
  Truncators = {}
  Abandoners = {}
  BeginsFirst = TRUE
  MaxTxn = 3
  MaxStmt <- WTwice
INVARIANTS TypeOK DeliveredIsDue
PROPERTIES NothingDueIsSkipped NoRowTwice NothingFromTheFuture NothingUnborn
