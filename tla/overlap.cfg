SPECIFICATION Spec
CONSTANTS
  index = index
  bulk = bulk
  cells = cells
  s1 = s1
  s2 = s2
  freeKey = freeKey
  noKey = noKey
  Key = {cells}
  Raw = {}
  Updated = {cells}
  Truncated = {cells}
  Session = {s1}
  Size <- Sizes
  CONTROL_COUNT = 2
  PageChunks = 18
  MaxPages = 1
  FREE = freeKey
  NONE = noKey
INVARIANTS SpansApart
