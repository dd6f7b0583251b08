CONSTANTS
  JobIds = {"JOB-1", "JOB-2", "JOB-3"}
  None = None
SPECIFICATION Spec
INVARIANTS
  TypeOK
  LiveResultIsCompleted
  IdlePageIsUsable
PROPERTIES
  FailureKeepsResult
  LiveRunEnds
