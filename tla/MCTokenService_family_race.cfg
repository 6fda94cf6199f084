\* A reuse detected while a pair is being issued.
SPECIFICATION Spec
CONSTANTS
  Users = {alice}
  Pairs = {p1, p2, p3}
  Reqs = {r1, r2}
  NoUser = NoUser
  NoPair = NoPair
SYMMETRY Symmetry
PROPERTIES
  FamilyRevocationIsComplete
