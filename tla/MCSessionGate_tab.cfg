\* Two sign-ins, two logouts at once.
SPECIFICATION Spec
VIEW Observed
CONSTANTS
  Logins = {alice, bob}
  NoLogin = NoLogin
  Unknown = Unknown
  MaxLogouts = 2
INVARIANTS
  GateTypeOK
  CacheAgreesWithCookies
PROPERTIES
  SpinnerEnds
