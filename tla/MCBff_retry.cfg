\* One user, requests one at a time.
SPECIFICATION BffSpec
CONSTANTS
  Users = {alice}
  Pairs = {p1, p2, p3}
  Reqs = {r1}
  NoUser = NoUser
  NoPair = NoPair
  Kinds = {"me", "refresh", "logout", "get", "post", "delete"}
  Faults = {"failed", "lost"}
SYMMETRY Symmetry
INVARIANTS
  SilentRefreshKeepsSession
