SPECIFICATION Spec
CONSTANTS
  r = r
  w = w
  Session = {r, w}
  Addr = {1, 2, 3}
  InitRows = {1}
  Default = "RC"
  Levels <- MaySerialize
  Claims <- AllClaim
  WriteLevels = {"SER"}
  Truncators = {}
  Abandoners = {}
  BeginsFirst = TRUE
  MaxTxn = 3
  MaxStmt <- Once
INVARIANTS OneCurrentVersion SerialGate
PROPERTIES CommittedStays
