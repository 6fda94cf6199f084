-------------------------- MODULE MCCaseDocuments ---------------------------
(* Instances of CaseDocuments for TLC. *)
EXTENDS CaseDocuments, TLC

(* What the rest of a request depends on, by the await it is at: the        *)
(* snapshot matters until it has been checked, the tutor unless the request *)
(* is an update.                                                            *)
OwnerPart(j) ==
  CASE j.at = "idle"        -> <<>>
    [] j.at = "update"      -> <<j.at, j.user, j.case>>
    [] j.at = "accept"      -> <<j>>
    [] OTHER                -> <<j.at, j.user, j.case, j.tutor>>

DocPart(j) ==
  CASE j.at = "idle"        -> <<>>
    [] j.at = "inviteRead"  -> <<j>>
    [] OTHER                -> <<j.at, j.goal, j.user, j.place, j.doc>>

Observed ==
  <<tables, everInvited, docTables,
    [r \in Reqs |-> <<OwnerPart(job[r]), DocPart(djob[r])>>]>>

Symmetry == Permutations(Parents) \union Permutations(Tutors)
              \union Permutations(Cases) \union Permutations(Reqs)
              \union Permutations(Docs)

=============================================================================
