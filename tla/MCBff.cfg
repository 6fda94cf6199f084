\* Two users of one browser, two pairs, two requests in flight.
SPECIFICATION BffSpec
CONSTANTS
  Users = {alice, bob}
  Pairs = {p1, p2}
  Reqs = {r1, r2}
  NoUser = NoUser
  NoPair = NoPair
  Kinds = {"me", "get", "logout", "post"}
  Faults = {"failed", "lost"}
SYMMETRY Symmetry
VIEW Account
INVARIANTS
  BffTypeOK
  ServedAsSender
  AtMostOnce
  SessionSurvives
PROPERTIES
  NoSpuriousSignOut
