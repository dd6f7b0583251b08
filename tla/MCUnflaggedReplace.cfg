CONSTANTS
  cli1 = cli1
  cli2 = cli2
  cli3 = cli3
  Publishers <- MCPublishers
  Outcomes = {"PATCH_VERIFIED"}
  None = None
SYMMETRY MCSymmetry
SPECIFICATION Spec
INVARIANT NoReplaceWithoutFlag
CHECK_DEADLOCK FALSE
