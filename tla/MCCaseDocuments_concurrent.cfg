\* One parent, two tutors, one case, one document, two requests in flight.
SPECIFICATION DocSpec
CONSTANTS
  Parents = {mum}
  Tutors = {t1, t2}
  Cases = {c1}
  Reqs = {r1, r2}
  Docs = {d1}
  NoOne = NoOne
SYMMETRY Symmetry
VIEW Observed
INVARIANTS
  DocTypeOK
  MatchedWasInvited
  RowsHaveObjects
  UploadedByParticipant
PROPERTIES
  DeletedByUploader
