SPECIFICATION Spec
CONSTANTS
  Key <- Ends
  Bases <- Trees
  MinDegree = 2
  MaxDegree = 4
  Bounds = {8}
  MaxOps = 2
INVARIANTS Searchable Balanced WalkExact
