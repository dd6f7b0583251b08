CONSTANTS
  TrustedKey = TrustedKey
  UntrustedKey = UntrustedKey
  NoKey = NoKey
  None = None
  EmptyDoc = EmptyDoc
  Garbage = Garbage
  Requests = {"VULNERABLE", "PATCHED", "POSITIVE_CONTROL"}
  Packages <- MCPackages
  PatchedBuilds = {"signer_trust"}
  KeyFiles = {TrustedKey}
  OtherKey = OtherKey
  Exiting = {}
  MaxLog = 5
SPECIFICATION Spec
INVARIANT BadObservationIsInconclusive
CHECK_DEADLOCK FALSE
