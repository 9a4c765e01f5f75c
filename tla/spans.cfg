SPECIFICATION Spec
CONSTANTS
  index = index
  bulk = bulk
  cells = cells
  s1 = s1
  s2 = s2
  freeKey = freeKey
  noKey = noKey
  Key = {index, bulk, cells}
  Raw = {index}
  Updated = {cells}
  Truncated = {bulk}
  Session = {s1, s2}
  Size <- Sizes
  CONTROL_COUNT = 2
  PageChunks = 11
  MaxPages = 2
  FREE = freeKey
  NONE = noKey
SYMMETRY Symmetry
INVARIANTS SpansApart RowsAreFound RunsAreWhole PagesComeBack
PROPERTIES RestartFindsAll
