\* Three accounts, three names, two registrations in flight, pages of two.
SPECIFICATION Spec
CONSTANTS
  Emails = {e1, e2, e3}
  Names = {1, 2, 3}
  Reqs = {r1, r2}
  PageSize = 2
  Null = Null
SYMMETRY Symmetry
VIEW Observed
INVARIANTS
  AccountsTypeOK
  CreatedMeansStored
  SavedProfileKept
  PagingMissesNobody
