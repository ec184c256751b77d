SPECIFICATION Spec
CONSTANTS
  NodeB = {n1, n2}
  Slice = {default}
  DefaultSlice = default
  Shares <- MCShares
  MaxOfSlices = 16
  LastId = 1
  MaxId = 1
  MaxInFlight = 2
INVARIANTS TypeOK OnlyHolderConfigures RunsTheRegistry
PROPERTIES ImplementsRegistry 
