CONSTANTS
  TrustedKey = TrustedKey
  UntrustedKey = UntrustedKey
  NoKey = NoKey
  None = None
  EmptyDoc = EmptyDoc
  Requests <- MCRequests
  Packages <- MCPackages
  PatchedBuilds = {"signer_trust", "checksum_only"}
  KeyFiles = {TrustedKey, UntrustedKey, NoKey}
  Exiting = {"PATCHED"}
  MaxLog = 10
  Repeat = 2
SPECIFICATION Spec
INVARIANT ExitTellsTheTruth
PROPERTY DemoEnds
CHECK_DEADLOCK FALSE
