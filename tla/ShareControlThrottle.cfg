SPECIFICATION Spec
CONSTANTS
  Slice = {default, s1}
  DefaultSlice = default
  Shares = {512}
  Traffic <- MCTraffic
  Judged <- MCJudged
  Threshold = 6
  Period = 1
  ThrottleShare = 100
  MaxTime = 3
  MaxReports = 3
CHECK_DEADLOCK FALSE
PROPERTY SavedShareSurvives
