SPECIFICATION Spec
CONSTANTS
  NodeB = {n1}
  Ue = {u1}
  Slice = {default, s1}
  DefaultSlice = default
  NoSlice = NoSlice
  Shares <- MCShares
  MaxOfSlices = 1
INVARIANT DeletedNodeBUnconfigured
