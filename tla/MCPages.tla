------------------------------- MODULE MCPages ------------------------------
(* Instance of the signed-in pages for TLC.  A tab shows one of them at a   *)
(* time and their queries have different keys, so a behaviour is one of     *)
(* CaseBoard, CaseList, Uploads or Recommendations while the others rest.   *)
EXTENDS CaseBoard, TLC

CONSTANTS
  Cases, Statuses, Filters, PageSize, MaxChanges, MaxFlights,  \* CaseList
  Files, NoFile, NoList, MaxBatches, MaxLosses,                \* Uploads
  Ranked, Tokens, Names, MaxRecommendations                    \* Recommendations

VARIABLES
  shown,  \* the module at work
  listed, filter, pageNumber, cache, last, missing, flights, changes, lost, jumped,
  mode, stored, told, requests, batch, entries, busy, picked, file, list, listFailed,
  fetch, waiting, removal, listDrift, gone, losses,
  profiles, brief, invites, answer, edited

listVars == <<listed, filter, pageNumber, cache, last, missing, flights, changes, lost, jumped>>
upVars   == <<mode, stored, told, requests, batch, entries, busy, picked, file, list,
              listFailed, fetch, waiting, removal, listDrift, gone, losses>>
recsVars == <<profiles, brief, invites, answer, edited>>

List == INSTANCE CaseList WITH page <- pageNumber, failed <- missing
Up   == INSTANCE Uploads WITH
          failed <- listFailed, drift <- listDrift, faults <- losses, MaxFaults <- MaxLosses
Recs == INSTANCE Recommendations WITH Tutors <- Ranked, invited <- invites

ASSUME PagesConstants ==
  /\ CaseBoardConstants /\ List!CaseListConstants
  /\ Up!UploadsConstants /\ Recs!RecommendationsConstants

(* Of the pages that are not shown one initial state is enough. *)
ListRests  == listed = [c \in Cases |-> "hidden"] /\ List!Init
UpRests    == mode = "case" /\ stored = {} /\ Up!Init
BoardRests == invited = {} /\ Init /\ data["cases"] = NoData
RecsRest   == profiles = << >> /\ brief = [subject |-> {}, text |-> {}] /\ Recs!Init

PagesInit ==
  \/ shown = "list"            /\ List!Init /\ UpRests  /\ BoardRests /\ RecsRest
  \/ shown = "documents"       /\ ListRests /\ Up!Init  /\ BoardRests /\ RecsRest
  \/ shown = "case"            /\ ListRests /\ UpRests  /\ Init       /\ RecsRest
  \/ shown = "recommendations" /\ ListRests /\ UpRests  /\ BoardRests /\ Recs!Init

PagesNext ==
  /\ UNCHANGED shown
  /\ \/ shown = "list" /\ List!Next /\ UNCHANGED <<upVars, vars, recsVars>>
     \/ shown = "documents" /\ Up!Next /\ UNCHANGED <<listVars, vars, recsVars>>
     \/ shown = "case" /\ Next /\ UNCHANGED <<listVars, upVars, recsVars>>
     \/ shown = "recommendations" /\ Recs!Next /\ UNCHANGED <<listVars, upVars, vars>>

PagesSpec == PagesInit /\ [][PagesNext]_<<shown, listVars, upVars, vars, recsVars>>

(* Requests of the list on their way at once. *)
Bound == List!Bound

F(ext, magic, size) == [ext |-> ext, magic |-> magic, size |-> size]
SomeFiles == {F(TRUE, TRUE, "limit"), F(TRUE, FALSE, "small"), F(FALSE, TRUE, "small")}

Symmetry == Permutations(Tutors)

-----------------------------------------------------------------------------
(* Every variable has its type, and a cached answer belongs to its key.     *)
PagesTypeOK ==
  /\ CaseBoardTypeOK /\ List!CaseListTypeOK
  /\ Up!UploadsTypeOK /\ Recs!RecommendationsTypeOK

(* The properties of the list, the documents section and the suggestions,   *)
(* for what each says see their modules.                                    *)
EmptyPageIsFirst   == List!EmptyPageIsFirst
UploadsReported    == Up!UploadsReported
SelectionIsSent    == Up!SelectionIsSent
SuggestionsAreBest == Recs!SuggestionsAreBest

(* A section at rest shows what the server has: the documents, and every    *)
(* query of the page of a case and of the list, but for what was deleted or *)
(* revoked.                                                                 *)
ShownIsCurrent == Up!ListIsCurrent /\ PageIsCurrent

=============================================================================
