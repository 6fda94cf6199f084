\* Two users, three pairs, requests one at a time.
SPECIFICATION Spec
CONSTANTS
  Users = {alice, bob}
  Pairs = {p1, p2, p3}
  Reqs = {r1}
  NoUser = NoUser
  NoPair = NoPair
SYMMETRY Symmetry
PROPERTIES
  FamilyRevocationIsComplete
  ImplementsSessions
