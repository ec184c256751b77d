SPECIFICATION Spec
CONSTANTS
  NodeB = {n1}
  MaxId = 2
  Unreliable = FALSE
  StrayOutcomes = {"ignored", "crashed"}
CHECK_DEADLOCK FALSE
INVARIANT StrayIndicationIgnored
