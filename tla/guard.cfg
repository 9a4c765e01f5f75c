SPECIFICATION FairSpec
CONSTANTS
  r = r
  w = w
  b = b
  Thread = {r, w, b}
  Kinds <- EachItsKind
  MaxDepth <- Depths
  Standdowns = 2
INVARIANTS GuardsCovered ReadersSeeWrites SleepersHaveWriter
PROPERTIES NamesAreALock WritersGetIn GateOpens
