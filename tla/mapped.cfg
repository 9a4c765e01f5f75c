SPECIFICATION Spec
CONSTANTS
  w = w
  r = r
  q = q
  Writer = w
  Reader = {r}
  Byte = {0, 1}
  RESERVE = 1
  CHUNK = 2
  MaxLength = 4
  MaxCall = 2
  Addressed = TRUE
INVARIANT InBounds
PROPERTY KeepsFile
