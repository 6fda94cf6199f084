\* One user, three pairs, two requests in flight.
SPECIFICATION Spec
CONSTANTS
  Users = {alice}
  Pairs = {p1, p2, p3}
  Reqs = {r1, r2}
  NoUser = NoUser
  NoPair = NoPair
SYMMETRY Symmetry
INVARIANTS
  TypeOK
  LoggedOutPairsAreDead
  DoomedPairsAreDead
  RotatedPairsAreDead
PROPERTIES
  NoAdmissionOnDeadPair
