SPECIFICATION Spec
CONSTANTS
  NodeB = {n1}
  Slice = {default, s1}
  DefaultSlice = default
  Shares <- MCShares
  MaxOfSlices = 16
  LastId = 3
  MaxId = 4
  MaxInFlight = 1
INVARIANT DeletedNodeBRunsNothing
