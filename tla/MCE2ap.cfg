SPECIFICATION Spec
CONSTANTS
  NodeB = {n1}
  MaxId = 3
  Unreliable = TRUE
  StrayOutcomes = {"ignored"}
CHECK_DEADLOCK FALSE
INVARIANTS TypeOK RegisteredBeforeAnswered RecordedIsLive  LockOrder
PROPERTY  RestReturns RmrReturns
