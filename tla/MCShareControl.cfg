SPECIFICATION Spec
CONSTANTS
  Slice = {default, s1}
  DefaultSlice = default
  Shares = {0}
  Traffic <- MCTraffic
  Judged <- MCJudged
  Threshold = 6
  Period = 1
  ThrottleShare = 100
  MaxTime = 2
  MaxReports = 3
CHECK_DEADLOCK FALSE
SYMMETRY MCSymmetry
INVARIANTS TypeOK TotalIsQueued 
PROPERTIES ThrottleFollowsTraffic ShareReturns
