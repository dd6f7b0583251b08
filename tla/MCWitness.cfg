CONSTANTS
  TrustedKey = TrustedKey
  UntrustedKey = UntrustedKey
  NoKey = NoKey
  None = None
  Garbage = Garbage
  Bundles <- MCBundles
  COOLDOWN_SECONDS = 3
  MaxTime = 8
SPECIFICATION Spec
INVARIANTS
  TypeOK
  SignalsAreBounded
  SignalsAreWarranted
  AcceptedIsSupported
CHECK_DEADLOCK FALSE
