SPECIFICATION Spec
CONSTANTS
  NodeB = {n1}
  MaxId = 2
  Unreliable = FALSE
  StrayOutcomes = {"ignored"}
CHECK_DEADLOCK FALSE
INVARIANT DeletedNodeBUnsubscribed
