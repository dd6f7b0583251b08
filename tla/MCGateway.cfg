CONSTANTS
  TrustedKey = TrustedKey
  UntrustedKey = UntrustedKey
  NoKey = NoKey
  None = None
  EmptyDoc = EmptyDoc
  Requests = {r1, r2}
  r1 = r1
  r2 = r2
  Packages <- MCPackages
  PatchedBuilds = {"signer_trust"}
  KeyFiles = {NoKey, UntrustedKey}
  Exiting = {"device"}
  MaxLog = 2
SPECIFICATION GatewaySpec
INVARIANTS
  GatewayTypeOK
  NoLostUpdate
  AnswerTellsTheTruth
  PatchedAppliesOnlyAuthentic
PROPERTY EveryRequestAnswered
CHECK_DEADLOCK FALSE
