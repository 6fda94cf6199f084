------------------------ MODULE CaseDocumentsProofs -------------------------
(***************************************************************************)
(* Results about documents, for every number of users, cases, documents    *)
(* and concurrent requests: rows never lack their object, documents of a   *)
(* case come from its participants, and only their uploaders delete them.  *)
(***************************************************************************)
EXTENDS CaseDocuments, CaseWorkspaceProofs

Users == Parents \union Tutors

(* The part of the types that requests for documents change. *)
DocJobTypeOK ==
  /\ djob     \in [Reqs -> DocJobs \union {Idle}]
  /\ profiles \subseteq Tutors
  /\ objects  \subseteq Docs
  /\ row      \in [Docs -> {"none", "live", "deleted"}]
  /\ place    \in [Docs -> Places \union {NoOne}]
  /\ uploader \in [Docs -> Parents \union Tutors \union {NoOne}]

(* What a request is about at each of its steps. *)
GoalInv ==
  \A r \in Reqs : djob[r] # Idle =>
    /\ djob[r].at \in {"caseRead", "inviteRead"} => djob[r].place \in Cases
    /\ djob[r].at = "docRead" => djob[r].goal = "delete"
    /\ djob[r].at \in {"put", "insert"} => djob[r].goal = "upload"
    /\ djob[r].goal = "delete" => djob[r].doc \in Docs

Participant(u, c) == u = owner[c] \/ <<c, u>> \in everInvited

(* What an upload in flight may rely on: its key is its own and has no row, *)
(* and past the checks its user is one who may put it there.                *)
UploadInv ==
  \A r \in Reqs : djob[r] # Idle /\ djob[r].goal = "upload" =>
    /\ djob[r].doc \in Docs /\ row[djob[r].doc] = "none"
    /\ djob[r].at \in {"caseRead", "inviteRead", "put", "insert"}
    /\ djob[r].at = "insert" => djob[r].doc \in objects
    /\ djob[r].place \in Tutors => djob[r].user = djob[r].place
    /\ djob[r].at \in {"put", "insert"} /\ djob[r].place \in Cases
         => Participant(djob[r].user, djob[r].place)
    /\ \A q \in Reqs \ {r} : djob[q] # Idle /\ djob[q].goal = "upload"
         => djob[q].doc # djob[r].doc

(* A delete about to write was found to be the uploader's. *)
DeleteInv ==
  \A r \in Reqs : djob[r].at = "softDelete" =>
    /\ djob[r].goal = "delete" /\ row[djob[r].doc] # "none"
    /\ uploader[djob[r].doc] = djob[r].user

(* What a row says of itself. *)
RowInv ==
  \A d \in Docs :
    IF row[d] = "none" THEN place[d] = NoOne
    ELSE /\ d \in objects /\ uploader[d] \in Users /\ place[d] \in Places
         /\ place[d] \in Tutors => uploader[d] = place[d]
         /\ place[d] \in Cases  => Participant(uploader[d], place[d])

DocInv ==
  /\ DocTypeOK /\ JobInv /\ InviteInv /\ MatchedWasInvited
  /\ GoalInv /\ UploadInv /\ DeleteInv /\ RowInv

-----------------------------------------------------------------------------
(* What the type says of a request in flight. *)
LEMMA InFlight ==
  ASSUME DocTypeOK, NEW r \in Reqs, djob[r] # Idle
  PROVE  /\ djob[r] \in DocJobs
         /\ djob[r].at \in DocSteps /\ djob[r].goal \in Goals
         /\ djob[r].user \in Users /\ djob[r].place \in Places
         /\ djob[r].doc \in Docs \union {NoOne}
<1>1. djob[r] \in DocJobs
  BY DEF DocTypeOK
<1> QED
  BY <1>1 DEF DocJobs, Users

(* Requests for documents respect the types. *)
LEMMA DocJobStep ==
  ASSUME DocInv, NEW r \in Reqs, DocStep(r), UNCHANGED vars
  PROVE  DocJobTypeOK'
<1> USE DEF DocInv, DocTypeOK, DocJobTypeOK, GoalInv, UploadInv, RowInv, DocJobs, DocSteps,
        Goals, Places, CaseStatus, Idle, docTables
<1>1. ASSUME NEW u \in Parents \union Tutors, NEW c \in Cases, NEW g \in Goals,
          NEW d \in Docs \union {NoOne}, BeginCase(r, u, c, g, d)
     PROVE DocJobTypeOK'
  BY <1>1 DEF BeginCase, Free, Unused, Goals
<1>2. ASSUME CaseRead(r) PROVE DocJobTypeOK'
  BY <1>2 DEF CaseRead, Granted, Advance, DocDone
<1>3. ASSUME InviteRead(r) PROVE DocJobTypeOK'
  BY <1>3 DEF InviteRead, Granted, Advance, DocDone
<1>4. ASSUME Respond(r) PROVE DocJobTypeOK'
  BY <1>4 DEF Respond, DocDone
<1>5. ASSUME NEW t \in Tutors, NEW d \in Docs, BeginProfileUpload(r, t, d)
     PROVE DocJobTypeOK'
  BY <1>5 DEF BeginProfileUpload, Free, Unused
<1>6. ASSUME Put(r) PROVE DocJobTypeOK'
  BY <1>6 DEF Put, Advance
<1>7. ASSUME Insert(r) PROVE DocJobTypeOK'
  BY <1>7 DEF Insert, DocDone
<1>8. ASSUME DocRead(r) PROVE DocJobTypeOK'
  BY <1>8 DEF DocRead, Advance, DocDone
<1>9. ASSUME NEW t \in Tutors, NEW d \in Docs, BeginProfileDelete(r, t, d)
     PROVE DocJobTypeOK'
  BY <1>9 DEF BeginProfileDelete, Free
<1>10. ASSUME SoftDelete(r) PROVE DocJobTypeOK'
  BY <1>10 DEF SoftDelete, DocDone
<1>11. ASSUME NEW u \in Parents \union Tutors, NEW d \in Docs, BeginDownload(r, u, d)
     PROVE DocJobTypeOK'
  BY <1>11 DEF BeginDownload, Free
<1>12. ASSUME Presign(r) PROVE DocJobTypeOK'
  BY <1>12 DEF Presign, DocDone
<1>13. ASSUME NEW t \in Tutors, UpsertProfile(r, t) PROVE DocJobTypeOK'
  BY <1>13 DEF UpsertProfile, Free
<1>14. ASSUME DocFail(r) PROVE DocJobTypeOK'
  BY <1>14 DEF DocFail, DocDone
<1> QED
  BY <1>1, <1>2, <1>3, <1>4, <1>5, <1>6, <1>7, <1>8, <1>9, <1>10, <1>11, <1>12, <1>13, <1>14
     DEF DocStep

(* A request goes on as its goal says. *)
LEMMA GoalStep ==
  ASSUME DocInv, NEW r \in Reqs, DocStep(r), UNCHANGED vars
  PROVE  GoalInv'
<1> USE DEF DocInv, DocTypeOK, GoalInv, DocJobs, DocSteps, Goals, Idle, docTables
<1>1. ASSUME NEW u \in Parents \union Tutors, NEW c \in Cases, NEW g \in Goals,
          NEW d \in Docs \union {NoOne}, BeginCase(r, u, c, g, d)
     PROVE GoalInv'
  BY <1>1 DEF BeginCase, Free, Unused, Goals
<1>2. ASSUME CaseRead(r) PROVE GoalInv'
  BY <1>2 DEF CaseRead, Granted, Advance, DocDone
<1>3. ASSUME InviteRead(r) PROVE GoalInv'
  BY <1>3 DEF InviteRead, Granted, Advance, DocDone
<1>4. ASSUME Respond(r) PROVE GoalInv'
  BY <1>4 DEF Respond, DocDone
<1>5. ASSUME NEW t \in Tutors, NEW d \in Docs, BeginProfileUpload(r, t, d)
     PROVE GoalInv'
  BY <1>5 DEF BeginProfileUpload, Free, Unused
<1>6. ASSUME Put(r) PROVE GoalInv'
  BY <1>6 DEF Put, Advance
<1>7. ASSUME Insert(r) PROVE GoalInv'
  BY <1>7 DEF Insert, DocDone
<1>8. ASSUME DocRead(r) PROVE GoalInv'
  BY <1>8 DEF DocRead, Advance, DocDone
<1>9. ASSUME NEW t \in Tutors, NEW d \in Docs, BeginProfileDelete(r, t, d)
     PROVE GoalInv'
  BY <1>9 DEF BeginProfileDelete, Free
<1>10. ASSUME SoftDelete(r) PROVE GoalInv'
  BY <1>10 DEF SoftDelete, DocDone
<1>11. ASSUME NEW u \in Parents \union Tutors, NEW d \in Docs, BeginDownload(r, u, d)
     PROVE GoalInv'
  BY <1>11 DEF BeginDownload, Free
<1>12. ASSUME Presign(r) PROVE GoalInv'
  BY <1>12 DEF Presign, DocDone
<1>13. ASSUME NEW t \in Tutors, UpsertProfile(r, t) PROVE GoalInv'
  BY <1>13 DEF UpsertProfile, Free
<1>14. ASSUME DocFail(r) PROVE GoalInv'
  BY <1>14 DEF DocFail, DocDone
<1> QED
  BY <1>1, <1>2, <1>3, <1>4, <1>5, <1>6, <1>7, <1>8, <1>9, <1>10, <1>11, <1>12, <1>13, <1>14
     DEF DocStep

(* An upload keeps its key to itself and is a participant's. *)
LEMMA UploadStep ==
  ASSUME DocInv, NEW r \in Reqs, DocStep(r), UNCHANGED vars
  PROVE  UploadInv'
<1> USE PlacesAreDistinct DEF DocInv, DocTypeOK, GoalInv, UploadInv, DeleteInv,
        InviteInv, Participant, DocJobs, DocSteps, Goals, Idle, docTables, vars, tables
<1>1. ASSUME NEW u \in Parents \union Tutors, NEW c \in Cases, NEW g \in Goals,
          NEW d \in Docs \union {NoOne}, BeginCase(r, u, c, g, d)
     PROVE UploadInv'
  <2>1. CASE g = "upload"
    BY <1>1, <2>1 DEF BeginCase, Free, Unused
  <2>2. CASE g # "upload"
    BY <1>1, <2>2 DEF BeginCase, Free, Goals
  <2> QED
    BY <2>1, <2>2
<1>2. ASSUME CaseRead(r) PROVE UploadInv'
  BY <1>2 DEF CaseRead, Granted, Advance, DocDone
<1>3. ASSUME InviteRead(r) PROVE UploadInv'
  BY <1>3 DEF InviteRead, Granted, Advance, DocDone
<1>4. ASSUME Respond(r) PROVE UploadInv'
  BY <1>4 DEF Respond, DocDone
<1>5. ASSUME NEW t \in Tutors, NEW d \in Docs, BeginProfileUpload(r, t, d)
     PROVE UploadInv'
  BY <1>5 DEF BeginProfileUpload, Free, Unused
<1>6. ASSUME Put(r) PROVE UploadInv'
  BY <1>6 DEF Put, Advance
<1>7. ASSUME Insert(r) PROVE UploadInv'
  BY <1>7 DEF Insert, DocDone
<1>8. ASSUME DocRead(r) PROVE UploadInv'
  BY <1>8 DEF DocRead, Advance, DocDone
<1>9. ASSUME NEW t \in Tutors, NEW d \in Docs, BeginProfileDelete(r, t, d)
     PROVE UploadInv'
  BY <1>9 DEF BeginProfileDelete, Free
<1>10. ASSUME SoftDelete(r) PROVE UploadInv'
  BY <1>10 DEF SoftDelete, DocDone
<1>11. ASSUME NEW u \in Parents \union Tutors, NEW d \in Docs, BeginDownload(r, u, d)
     PROVE UploadInv'
  BY <1>11 DEF BeginDownload, Free
<1>12. ASSUME Presign(r) PROVE UploadInv'
  BY <1>12 DEF Presign, DocDone
<1>13. ASSUME NEW t \in Tutors, UpsertProfile(r, t) PROVE UploadInv'
  BY <1>13 DEF UpsertProfile, Free
<1>14. ASSUME DocFail(r) PROVE UploadInv'
  BY <1>14 DEF DocFail, DocDone
<1> QED
  BY <1>1, <1>2, <1>3, <1>4, <1>5, <1>6, <1>7, <1>8, <1>9, <1>10, <1>11, <1>12, <1>13, <1>14
     DEF DocStep

(* A delete is the uploader's. *)
LEMMA DeleteStep ==
  ASSUME DocInv, NEW r \in Reqs, DocStep(r), UNCHANGED vars
  PROVE  DeleteInv'
<1> USE DEF DocInv, DocTypeOK, GoalInv, UploadInv, DeleteInv, RowInv, DocJobs, DocSteps, Goals,
        Idle, docTables
<1>1. ASSUME NEW u \in Parents \union Tutors, NEW c \in Cases, NEW g \in Goals,
          NEW d \in Docs \union {NoOne}, BeginCase(r, u, c, g, d)
     PROVE DeleteInv'
  BY <1>1 DEF BeginCase, Free, Unused, Goals
<1>2. ASSUME CaseRead(r) PROVE DeleteInv'
  BY <1>2 DEF CaseRead, Granted, Advance, DocDone
<1>3. ASSUME InviteRead(r) PROVE DeleteInv'
  BY <1>3 DEF InviteRead, Granted, Advance, DocDone
<1>4. ASSUME Respond(r) PROVE DeleteInv'
  BY <1>4 DEF Respond, DocDone
<1>5. ASSUME NEW t \in Tutors, NEW d \in Docs, BeginProfileUpload(r, t, d)
     PROVE DeleteInv'
  BY <1>5 DEF BeginProfileUpload, Free, Unused
<1>6. ASSUME Put(r) PROVE DeleteInv'
  BY <1>6 DEF Put, Advance
<1>7. ASSUME Insert(r) PROVE DeleteInv'
  BY <1>7 DEF Insert, DocDone
<1>8. ASSUME DocRead(r) PROVE DeleteInv'
  BY <1>8 DEF DocRead, Advance, DocDone
<1>9. ASSUME NEW t \in Tutors, NEW d \in Docs, BeginProfileDelete(r, t, d)
     PROVE DeleteInv'
  BY <1>9 DEF BeginProfileDelete, Free
<1>10. ASSUME SoftDelete(r) PROVE DeleteInv'
  BY <1>10 DEF SoftDelete, DocDone
<1>11. ASSUME NEW u \in Parents \union Tutors, NEW d \in Docs, BeginDownload(r, u, d)
     PROVE DeleteInv'
  BY <1>11 DEF BeginDownload, Free
<1>12. ASSUME Presign(r) PROVE DeleteInv'
  BY <1>12 DEF Presign, DocDone
<1>13. ASSUME NEW t \in Tutors, UpsertProfile(r, t) PROVE DeleteInv'
  BY <1>13 DEF UpsertProfile, Free
<1>14. ASSUME DocFail(r) PROVE DeleteInv'
  BY <1>14 DEF DocFail, DocDone
<1> QED
  BY <1>1, <1>2, <1>3, <1>4, <1>5, <1>6, <1>7, <1>8, <1>9, <1>10, <1>11, <1>12, <1>13, <1>14
     DEF DocStep

(* A row has its object and comes from a participant. *)
LEMMA RowStep ==
  ASSUME DocInv, NEW r \in Reqs, DocStep(r), UNCHANGED vars
  PROVE  RowInv'
<1> USE PlacesAreDistinct DEF DocInv, DocTypeOK, RowInv, UploadInv, DeleteInv,
        Participant, DocJobs, DocSteps, Goals, Idle, Users, docTables, vars, tables
<1>1. ASSUME NEW u \in Parents \union Tutors, NEW c \in Cases, NEW g \in Goals,
          NEW d \in Docs \union {NoOne}, BeginCase(r, u, c, g, d)
     PROVE RowInv'
  BY <1>1 DEF BeginCase, Free, Unused, Goals
<1>2. ASSUME CaseRead(r) PROVE RowInv'
  BY <1>2 DEF CaseRead, Granted, Advance, DocDone
<1>3. ASSUME InviteRead(r) PROVE RowInv'
  BY <1>3 DEF InviteRead, Granted, Advance, DocDone
<1>4. ASSUME Respond(r) PROVE RowInv'
  BY <1>4 DEF Respond, DocDone
<1>5. ASSUME NEW t \in Tutors, NEW d \in Docs, BeginProfileUpload(r, t, d)
     PROVE RowInv'
  BY <1>5 DEF BeginProfileUpload, Free, Unused
<1>6. ASSUME Put(r) PROVE RowInv'
  BY <1>6 DEF Put, Advance
<1>7. ASSUME Insert(r) PROVE RowInv'
  <2> SUFFICES ASSUME NEW d \in Docs PROVE RowInv!(d)'
    OBVIOUS
  <2>1. CASE d = djob[r].doc
    BY <1>7, <2>1, InFlight DEF Insert, GoalInv
  <2>2. CASE d # djob[r].doc
    BY <1>7, <2>2 DEF Insert
  <2> QED
    BY <2>1, <2>2
<1>8. ASSUME DocRead(r) PROVE RowInv'
  BY <1>8 DEF DocRead, Advance, DocDone
<1>9. ASSUME NEW t \in Tutors, NEW d \in Docs, BeginProfileDelete(r, t, d)
     PROVE RowInv'
  BY <1>9 DEF BeginProfileDelete, Free
<1>10. ASSUME SoftDelete(r) PROVE RowInv'
  BY <1>10 DEF SoftDelete, DocDone
<1>11. ASSUME NEW u \in Parents \union Tutors, NEW d \in Docs, BeginDownload(r, u, d)
     PROVE RowInv'
  BY <1>11 DEF BeginDownload, Free
<1>12. ASSUME Presign(r) PROVE RowInv'
  BY <1>12 DEF Presign, DocDone
<1>13. ASSUME NEW t \in Tutors, UpsertProfile(r, t) PROVE RowInv'
  BY <1>13 DEF UpsertProfile, Free
<1>14. ASSUME DocFail(r) PROVE RowInv'
  BY <1>14 DEF DocFail, DocDone
<1> HIDE DEF DocInv, DocTypeOK, RowInv, UploadInv, DeleteInv
<1> QED
  BY <1>1, <1>2, <1>3, <1>4, <1>5, <1>6, <1>7, <1>8, <1>9, <1>10, <1>11, <1>12, <1>13, <1>14
     DEF DocStep

-----------------------------------------------------------------------------
(* Nobody who ever took part in a case stops having taken part. *)
LEMMA ParticipantsStay ==
  ASSUME TypeOK, JobInv, [Next]_vars, NEW u \in Users, NEW c \in Cases, Participant(u, c)
  PROVE  Participant(u, c)'
<1> USE DEF TypeOK, tables, Users
<1>1. everInvited \subseteq everInvited'
  BY DEF vars, Next, OwnerStep, Create, Begin, Update, Invite, RevokeInvite,
     AcceptRefuse, AcceptCheck, AcceptWrite, Fail
<1>2. owner[c] # NoOne => owner'[c] = owner[c]
  BY DEF vars, Next, OwnerStep, Create, Begin, Update, Invite, RevokeInvite,
     AcceptRefuse, AcceptCheck, AcceptWrite, Fail
<1> QED
  BY <1>1, <1>2, WorkspaceConstants DEF Participant

(* The owner's requests leave what documents rely on alone. *)
LEMMA OwnerKeeps ==
  ASSUME DocInv, [Next]_vars, UNCHANGED docVars
  PROVE  DocJobTypeOK' /\ GoalInv' /\ UploadInv' /\ DeleteInv' /\ RowInv'
<1> USE DEF DocInv, docVars, docTables
<1>1. DocJobTypeOK' /\ GoalInv' /\ DeleteInv'
  BY DEF DocTypeOK, DocJobTypeOK, GoalInv, DeleteInv
<1>2. ASSUME NEW r \in Reqs, djob[r] # Idle, djob[r].place \in Cases,
             Participant(djob[r].user, djob[r].place)
      PROVE  Participant(djob[r].user, djob[r].place)'
  <2>1. Participant(djob[r].user, djob[r].place)' <=> Participant(djob[r].user, djob[r].place)'
    OBVIOUS
  <2>2. djob[r].user \in Users
    BY <1>2, InFlight
  <2>3. \A u \in Users, c \in Cases :
          Participant(u, c) => u = owner'[c] \/ <<c, u>> \in everInvited'
    BY ParticipantsStay DEF DocTypeOK, Participant
  <2> QED
    BY <1>2, <2>2, <2>3 DEF Participant
<1>3. UploadInv'
  BY <1>2 DEF UploadInv
<1>4. ASSUME NEW d \in Docs, row[d] # "none", place[d] \in Cases
      PROVE  Participant(uploader[d], place[d])'
  <2>1. uploader[d] \in Users /\ Participant(uploader[d], place[d])
    BY <1>4 DEF RowInv
  <2>2. \A u \in Users, c \in Cases :
          Participant(u, c) => u = owner'[c] \/ <<c, u>> \in everInvited'
    BY ParticipantsStay DEF DocTypeOK, Participant
  <2> QED
    BY <1>4, <2>1, <2>2 DEF Participant
<1>5. RowInv'
  BY <1>4 DEF RowInv
<1> QED
  BY <1>1, <1>3, <1>5

(* Every step, of the owner or for a document, keeps the invariant. *)
LEMMA DocInvStep ==
  ASSUME DocInv, [DocNext]_allVars
  PROVE  DocInv'
<1>1. [Next]_vars
  BY DEF DocNext, Next, allVars
<1>2. TypeOK' /\ JobInv' /\ InviteInv' /\ MatchedWasInvited'
  BY <1>1, TypeStep, JobStep, InviteStep, MatchStep DEF DocInv, DocTypeOK, IndInv
<1>3. entitled' \in [Reqs -> BOOLEAN]
  <2>1. CASE UNCHANGED allVars
    BY <2>1 DEF allVars, DocInv, DocTypeOK
  <2>2. CASE DocNext
    BY <2>2 DEF DocNext
  <2> QED
    BY <2>1, <2>2
<1>4. DocJobTypeOK' /\ GoalInv' /\ UploadInv' /\ DeleteInv' /\ RowInv'
  <2>1. ASSUME NEW r \in Reqs, DocStep(r), UNCHANGED vars
        PROVE  DocJobTypeOK' /\ GoalInv' /\ UploadInv' /\ DeleteInv' /\ RowInv'
    BY <2>1, DocJobStep, GoalStep, UploadStep, DeleteStep, RowStep
  <2>2. CASE UNCHANGED docVars
    BY <1>1, <2>2, OwnerKeeps
  <2> QED
    BY <2>1, <2>2 DEF DocNext, allVars
<1> QED
  BY <1>2, <1>3, <1>4 DEF DocInv, DocTypeOK, DocJobTypeOK

(* Requests for documents do not disturb the tables of cases: what is proved *)
(* of the owner's operations alone holds next to them.                      *)
THEOREM DocumentsKeepWorkspace == DocSpec => Spec
<1>1. DocInit => Init
  BY DEF DocInit
<1>2. [DocNext]_allVars => [Next]_vars
  BY DEF DocNext, Next, allVars
<1> QED
  BY <1>1, <1>2, PTL DEF DocSpec, Spec

(* The invariant holds of every behaviour in which requests for documents   *)
(* and requests of owners overlap in any way.  UploadInv says what an upload *)
(* may rely on between its checks, its object and its row; DeleteInv that   *)
(* nobody can come between the two steps of a delete.                       *)
THEOREM DocInvariance == DocSpec => []DocInv
<1>1. DocInit => DocInv
  BY DEF DocInit, Init, DocInv, DocTypeOK, TypeOK, JobInv, InviteInv, MatchedWasInvited,
     GoalInv, UploadInv, DeleteInv, RowInv, CaseStatus, Idle
<1>2. DocInv /\ [DocNext]_allVars => DocInv'
  BY DocInvStep
<1> QED
  BY <1>1, <1>2, PTL DEF DocSpec

(* Every variable keeps its type. *)
THEOREM DocTypesCorrect == DocSpec => []DocTypeOK
<1>1. DocInv => DocTypeOK
  BY DEF DocInv
<1> QED
  BY <1>1, DocInvariance, PTL

(* No row ever lacks its object, whichever steps of whichever uploads fail. *)
THEOREM ObjectsExist == DocSpec => []RowsHaveObjects
<1>1. DocInv => RowsHaveObjects
  BY DEF DocInv, RowInv, RowsHaveObjects
<1> QED
  BY <1>1, DocInvariance, PTL

(* A document of a case was put there by somebody who took part in the case. *)
THEOREM UploadersParticipate == DocSpec => []UploadedByParticipant
<1>1. DocInv => UploadedByParticipant
  BY PlacesAreDistinct DEF DocInv, RowInv, Participant, UploadedByParticipant
<1> QED
  BY <1>1, DocInvariance, PTL

(* A document is deleted by a request of its uploader only. *)
THEOREM OnlyUploadersDelete == DocSpec => DeletedByUploader
<1> DEFINE ByUploader ==
             \A d \in Docs : row[d] # row'[d] /\ row'[d] = "deleted" =>
               \E r \in Reqs : djob[r].at = "softDelete" /\ djob[r].doc = d
                                 /\ djob[r].user = uploader[d]
<1>1. DocInv /\ [DocNext]_allVars => ByUploader
  <2> SUFFICES ASSUME DocInv, [DocNext]_allVars, NEW d \in Docs,
                      row[d] # row'[d], row'[d] = "deleted"
               PROVE  \E r \in Reqs : djob[r].at = "softDelete" /\ djob[r].doc = d
                                        /\ djob[r].user = uploader[d]
    OBVIOUS
  <2>1. PICK r \in Reqs : DocStep(r)
    BY DEF DocNext, allVars, docVars, docTables
  <2>2. Insert(r) \/ SoftDelete(r)
    BY <2>1 DEF DocStep, BeginCase, CaseRead, InviteRead, Respond, BeginProfileUpload,
       Put, DocRead, BeginProfileDelete, BeginDownload, Presign, UpsertProfile,
       DocFail, docTables
  <2>3. SoftDelete(r) /\ djob[r].doc = d
    BY <2>2 DEF Insert, SoftDelete, DocInv, DocTypeOK
  <2> QED
    BY <2>3 DEF SoftDelete, DocInv, DeleteInv
<1> QED
  BY <1>1, DocInvariance, PTL DEF DocSpec, DeletedByUploader

-----------------------------------------------------------------------------
(* What more holds when requests do not overlap: the case a request has read *)
(* is still as it was read when the request goes on.                        *)
SerialInv ==
  \A r \in Reqs : djob[r] # Idle /\ djob[r].place \in Cases =>
    /\ djob[r].at = "inviteRead" =>
         /\ djob[r].user \in Tutors /\ owner[djob[r].place] # NoOne
         /\ djob[r].foundStatus = status[djob[r].place]
         /\ djob[r].foundMatched = matched[djob[r].place]
    /\ djob[r].at \in {"put", "insert"} =>
         /\ MayView(djob[r].user, djob[r].place)
         /\ status[djob[r].place] # "CLOSED"


(* Alone, a request finds its case as it read it. *)
LEMMA SerialStep ==
  ASSUME \A q, s \in Reqs : q = s, DocInv, SerialInv,
         NEW r \in Reqs, DocStep(r), UNCHANGED vars
  PROVE  SerialInv'
<1> USE WorkspaceConstants, PlacesAreDistinct DEF DocInv, DocTypeOK, GoalInv, SerialInv,
        MayView, MayUpload, DocJobs, DocSteps, Goals, Idle, docTables, vars, tables
<1>1. ASSUME NEW u \in Parents \union Tutors, NEW c \in Cases, NEW g \in Goals,
          NEW d \in Docs \union {NoOne}, BeginCase(r, u, c, g, d)
     PROVE SerialInv'
  BY <1>1 DEF BeginCase, Free, Unused, Goals
<1>2. ASSUME CaseRead(r) PROVE SerialInv'
  BY <1>2 DEF CaseRead, Granted, Advance, DocDone
<1>3. ASSUME InviteRead(r) PROVE SerialInv'
  BY <1>3 DEF InviteRead, Granted, Advance, DocDone
<1>4. ASSUME Respond(r) PROVE SerialInv'
  BY <1>4 DEF Respond, DocDone
<1>5. ASSUME NEW t \in Tutors, NEW d \in Docs, BeginProfileUpload(r, t, d)
     PROVE SerialInv'
  BY <1>5 DEF BeginProfileUpload, Free, Unused
<1>6. ASSUME Put(r) PROVE SerialInv'
  BY <1>6 DEF Put, Advance
<1>7. ASSUME Insert(r) PROVE SerialInv'
  BY <1>7 DEF Insert, DocDone
<1>8. ASSUME DocRead(r) PROVE SerialInv'
  BY <1>8 DEF DocRead, Advance, DocDone
<1>9. ASSUME NEW t \in Tutors, NEW d \in Docs, BeginProfileDelete(r, t, d)
     PROVE SerialInv'
  BY <1>9 DEF BeginProfileDelete, Free
<1>10. ASSUME SoftDelete(r) PROVE SerialInv'
  BY <1>10 DEF SoftDelete, DocDone
<1>11. ASSUME NEW u \in Parents \union Tutors, NEW d \in Docs, BeginDownload(r, u, d)
     PROVE SerialInv'
  BY <1>11 DEF BeginDownload, Free
<1>12. ASSUME Presign(r) PROVE SerialInv'
  BY <1>12 DEF Presign, DocDone
<1>13. ASSUME NEW t \in Tutors, UpsertProfile(r, t) PROVE SerialInv'
  BY <1>13 DEF UpsertProfile, Free
<1>14. ASSUME DocFail(r) PROVE SerialInv'
  BY <1>14 DEF DocFail, DocDone
<1> HIDE DEF DocInv, DocTypeOK, SerialInv
<1> QED
  BY <1>1, <1>2, <1>3, <1>4, <1>5, <1>6, <1>7, <1>8, <1>9, <1>10, <1>11, <1>12, <1>13, <1>14
     DEF DocStep

(* Alone, a request shows its case only when it is one that the user views. *)
LEMMA EntitledStep ==
  ASSUME \A q, s \in Reqs : q = s, DocInv, SerialInv, ShownToEntitled, [DocNext]_allVars
  PROVE  ShownToEntitled'
<1>1. CASE UNCHANGED allVars
  BY <1>1 DEF allVars, docVars, ShownToEntitled
<1>2. CASE DocNext
  <2> DEFINE Shown(r) ==
               djob[r].at \in {"respond", "put", "insert", "docRead", "softDelete", "presign"}
                 /\ djob[r].place \in Cases
  <2>1. PICK r \in Reqs : \/ djob[r] = Idle /\ UNCHANGED docVars
                          \/ DocStep(r) /\ UNCHANGED vars
    BY <1>2 DEF DocNext
  <2>2. ASSUME Shown(r)' PROVE djob'[r] # Idle
    BY <2>2 DEF Idle
  <2>3. CASE djob[r] = Idle /\ UNCHANGED docVars
    BY <2>1, <2>3 DEF ShownToEntitled, docVars, Idle
  <2>4. CASE DocStep(r) /\ UNCHANGED vars
    <3> DEFINE Allowed == Shown(r)' => entitled[r] \/ NowEntitled(r)'
    <3> USE <2>4, WorkspaceConstants, PlacesAreDistinct DEF DocInv, DocTypeOK, SerialInv,
            ShownToEntitled, NowEntitled, MayView, DocJobs, DocSteps, Goals, Idle,
            docTables, vars, tables
    <3>1. ASSUME NEW u \in Parents \union Tutors, NEW c \in Cases, NEW g \in Goals,
               NEW d \in Docs \union {NoOne}, BeginCase(r, u, c, g, d)
          PROVE Allowed
      BY <3>1 DEF BeginCase, Free, Unused, Goals
    <3>2. ASSUME CaseRead(r) PROVE Allowed
      BY <3>2 DEF CaseRead, Granted, Advance, DocDone
    <3>3. ASSUME InviteRead(r) PROVE Allowed
      BY <3>3 DEF InviteRead, Granted, Advance, DocDone
    <3>4. ASSUME Respond(r) PROVE Allowed
      BY <3>4 DEF Respond, DocDone
    <3>5. ASSUME NEW t \in Tutors, NEW d \in Docs, BeginProfileUpload(r, t, d)
          PROVE Allowed
      BY <3>5 DEF BeginProfileUpload, Free, Unused
    <3>6. ASSUME Put(r) PROVE Allowed
      BY <3>6 DEF Put, Advance
    <3>7. ASSUME Insert(r) PROVE Allowed
      BY <3>7 DEF Insert, DocDone
    <3>8. ASSUME DocRead(r) PROVE Allowed
      BY <3>8 DEF DocRead, Advance, DocDone
    <3>9. ASSUME NEW t \in Tutors, NEW d \in Docs, BeginProfileDelete(r, t, d)
          PROVE Allowed
      BY <3>9 DEF BeginProfileDelete, Free
    <3>10. ASSUME SoftDelete(r) PROVE Allowed
      BY <3>10 DEF SoftDelete, DocDone
    <3>11. ASSUME NEW u \in Parents \union Tutors, NEW d \in Docs, BeginDownload(r, u, d)
          PROVE Allowed
      BY <3>11 DEF BeginDownload, Free
    <3>12. ASSUME Presign(r) PROVE Allowed
      BY <3>12 DEF Presign, DocDone
    <3>13. ASSUME NEW t \in Tutors, UpsertProfile(r, t) PROVE Allowed
      BY <3>13 DEF UpsertProfile, Free
    <3>14. ASSUME DocFail(r) PROVE Allowed
      BY <3>14 DEF DocFail, DocDone
    <3>15. Allowed
      <4> HIDE DEF Allowed
      <4> QED
        BY <3>1, <3>2, <3>3, <3>4, <3>5, <3>6, <3>7, <3>8, <3>9, <3>10, <3>11, <3>12, <3>13,
           <3>14 DEF DocStep
    <3>16. entitled'[r] <=> djob'[r] # Idle /\ (entitled[r] \/ NowEntitled(r)')
      BY <1>2 DEF DocNext
    <3> QED
      BY <2>2, <3>15, <3>16
  <2> QED
    BY <2>1, <2>3, <2>4
<1> QED
  BY <1>1, <1>2

(* When no two requests overlap, what they were allowed is still allowed     *)
(* when they show a case or put a document on it.                            *)
LEMMA SerialInvariance ==
  ASSUME \A q, s \in Reqs : q = s
  PROVE  DocSpec => [](DocInv /\ SerialInv /\ ShownToEntitled)
<1>1. DocInit => SerialInv /\ ShownToEntitled
  BY DEF DocInit, SerialInv, ShownToEntitled, Idle
<1>2. DocInv /\ SerialInv /\ [DocNext]_allVars => SerialInv'
  <2> SUFFICES ASSUME DocInv, SerialInv, [DocNext]_allVars PROVE SerialInv'
    OBVIOUS
  <2>1. ASSUME NEW r \in Reqs, DocStep(r), UNCHANGED vars PROVE SerialInv'
    BY <2>1, SerialStep
  <2>2. ASSUME NEW r \in Reqs, djob[r] = Idle, UNCHANGED docVars PROVE SerialInv'
    BY <2>2 DEF SerialInv, docVars
  <2>3. CASE UNCHANGED allVars
    BY <2>3 DEF allVars, docVars, vars, tables, SerialInv, MayView
  <2> QED
    BY <2>1, <2>2, <2>3 DEF DocNext
<1>3. DocInv /\ SerialInv /\ ShownToEntitled /\ [DocNext]_allVars => ShownToEntitled'
  BY EntitledStep
<1> QED
  BY <1>1, <1>2, <1>3, DocInvariance, PTL DEF DocSpec

(* Alone, a request never shows or touches a case its user may not view.     *)
THEOREM SerialRequestsShowToEntitled ==
  ASSUME \A q, s \in Reqs : q = s
  PROVE  DocSpec => []ShownToEntitled
BY SerialInvariance, PTL

(* Alone, an upload lands on a case that is not closed and that its uploader *)
(* may view.                                                                 *)
THEOREM SerialUploadsAreAllowed ==
  ASSUME \A q, s \in Reqs : q = s
  PROVE  DocSpec => UploadsAreStillAllowed
<1> DEFINE Allowed ==
             \A d \in Docs : row[d] = "none" /\ row'[d] = "live" /\ place'[d] \in Cases =>
               /\ MayView(uploader'[d], place'[d])
               /\ status[place'[d]] # "CLOSED"
<1>1. DocInv /\ SerialInv /\ [DocNext]_allVars => Allowed
  <2> SUFFICES ASSUME DocInv, SerialInv, [DocNext]_allVars, NEW d \in Docs,
                      row[d] = "none", row'[d] = "live", place'[d] \in Cases
               PROVE  /\ MayView(uploader'[d], place'[d])
                      /\ status[place'[d]] # "CLOSED"
    OBVIOUS
  <2>1. PICK r \in Reqs : DocStep(r)
    BY DEF DocNext, allVars, docVars, docTables
  <2>2. Insert(r) \/ SoftDelete(r)
    BY <2>1 DEF DocStep, BeginCase, CaseRead, InviteRead, Respond, BeginProfileUpload,
       Put, DocRead, BeginProfileDelete, BeginDownload, Presign, UpsertProfile,
       DocFail, docTables
  <2>3. Insert(r) /\ djob[r].doc = d
    BY <2>2 DEF Insert, SoftDelete, DocInv, DocTypeOK
  <2>4. place'[d] = djob[r].place /\ uploader'[d] = djob[r].user /\ djob[r] # Idle
    BY <2>3 DEF Insert, DocInv, DocTypeOK, Idle
  <2> QED
    BY <2>3, <2>4 DEF Insert, SerialInv
<1> QED
  BY <1>1, SerialInvariance, PTL DEF DocSpec, UploadsAreStillAllowed

=============================================================================
