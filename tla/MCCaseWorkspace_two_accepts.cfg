\* Two accepts of different tutors in flight.
SPECIFICATION Spec
CONSTANTS
  Parents = {mum}
  Tutors = {t1, t2}
  Cases = {c1}
  Reqs = {r1, r2}
  NoOne = NoOne
SYMMETRY Symmetry
PROPERTIES
  MatchIsFinal
