SPECIFICATION Spec
CONSTANTS
  NodeB = {n1, n2}
  Ue = {u1, u2}
  Slice = {default, s1}
  DefaultSlice = default
  NoSlice = NoSlice
  Shares <- MCShares
  MaxOfSlices = 16
SYMMETRY MCSymmetry
INVARIANTS TypeOK NoDanglingUe NoOrphanConfig ToldShareCurrent NoOrphanUeBinding
PROPERTY ImplementsMembership
