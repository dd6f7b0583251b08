CONSTANTS
  cli1 = cli1
  cli2 = cli2
  cli3 = cli3
  Publishers <- MCPublishers
  Outcomes = {"PATCH_VERIFIED", "INCONCLUSIVE"}
  None = None
SYMMETRY MCSymmetry
SPECIFICATION Spec
INVARIANTS
  TypeOK
  BundleSurvives
  DestinationRestored
  ServedIsVerified
CHECK_DEADLOCK FALSE
