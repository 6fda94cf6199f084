\* Two parents, two tutors, one case, two documents, requests one at a time.
SPECIFICATION DocSpec
CONSTANTS
  Parents = {mum, dad}
  Tutors = {t1, t2}
  Cases = {c1}
  Reqs = {r1}
  Docs = {d1, d2}
  NoOne = NoOne
SYMMETRY Symmetry
INVARIANTS
  ListAgreesWithView
  ShownToEntitled
PROPERTIES
  ChangedByOwnerOnly
  ImplementsContract
  UploadsAreStillAllowed
