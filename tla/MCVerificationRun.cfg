CONSTANTS
  TrustedKey = TrustedKey
  UntrustedKey = UntrustedKey
  NoKey = NoKey
  None = None
  EmptyDoc = EmptyDoc
  Garbage = Garbage
  Requests = {"VULNERABLE", "PATCHED", "POSITIVE_CONTROL"}
  Packages <- MCPackages
  PatchedBuilds = {"signer_trust", "checksum_only"}
  KeyFiles = {TrustedKey, UntrustedKey, NoKey, OtherKey}
  OtherKey = OtherKey
  Exiting = {"PATCHED"}
  MaxLog = 5
SPECIFICATION Spec
INVARIANTS
  TypeOK
  ConclusiveIsObserved
  OutcomeMatchesBuild
  VerifiedUnderBundledKey
  PublishedIsVerified
PROPERTY RunTerminates
CHECK_DEADLOCK FALSE
