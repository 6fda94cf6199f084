\* One page at a time: a case with two tutors, two cases in pages of one,
\* three files, three tutors to suggest two of.
SPECIFICATION PagesSpec
CONSTANTS
  Tutors = {t1, t2}
  NoTutor = NoTutor
  NoData = NoData
  MaxPresses = 2
  MaxFaults = 1
  Cases = {1, 2}
  Statuses = {"OPEN", "CLOSED"}
  Filters = {"", "OPEN"}
  PageSize = 1
  MaxChanges = 1
  MaxFlights = 2
  Files <- SomeFiles
  NoFile = NoFile
  NoList = NoList
  MaxBatches = 2
  MaxLosses = 2
  Ranked = {1, 2, 3}
  Tokens = {"maths"}
  Names = {1, 2}
  MaxRecommendations = 2
SYMMETRY Symmetry
CONSTRAINT Bound
INVARIANTS
  PagesTypeOK
  EmptyPageIsFirst
  UploadsReported
  SelectionIsSent
  ShownIsCurrent
  OffersAreHonoured
  MatchedStaysInvited
  SuggestionsAreBest
\* The bounds on events stop it.
CHECK_DEADLOCK FALSE
