CONSTANTS
  Runs = {"dashboard", "cli"}
  Scenarios = 3
SPECIFICATION Spec
INVARIANTS
  TypeOK
  NoOrphan
  SeparateRunsAreServedByTheirOwn
PROPERTY RunsEnd
CHECK_DEADLOCK FALSE
