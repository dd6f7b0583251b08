CONSTANTS
  Runs = {"cli"}
  Scenarios = 3
SPECIFICATION Spec
INVARIANT ChildrenStopped
CHECK_DEADLOCK FALSE
