CONSTANTS
  MAX_FINISHED_JOBS = 2
  MaxJobs = 3
  Outcomes = {"PATCH_VERIFIED", "INCONCLUSIVE"}
  None = None
SPECIFICATION Spec
INVARIANTS
  TypeOK
  OneActiveJob
  BoundedHistory
  RecentJobIsKnown
  CompletedIsRegistered
  ShutdownIsFinal
PROPERTIES
  PollsNeverGoBack
  EveryJobFinishes
  ShutdownReturns
  ImplementsSlot
CHECK_DEADLOCK FALSE
