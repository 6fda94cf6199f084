--------------------------- MODULE CaseDocuments ----------------------------
(***************************************************************************)
(* Documents on cases and tutor profiles (backend/src/documents), composed *)
(* with the owner operations of CaseWorkspace that run next to them: every *)
(* document request of a tutor checks the case row, then the invite row,   *)
(* then acts, while the owner may change both tables.  Files live in an    *)
(* object store outside the database; an upload writes first there, then   *)
(* the row, and there is no transaction over the two.                      *)
(*                                                                         *)
(* An element of Docs stands for one upload: its document id, its storage  *)
(* key and its object.  A tutor stands for his profile too.                *)
(***************************************************************************)
EXTENDS CaseWorkspace

CONSTANT Docs   \* uploads that can be made; bounds the number of documents

ASSUME PlacesAreDistinct == Cases \intersect Tutors = {} /\ NoOne \notin Cases

VARIABLES
  djob,      \* what each document request in flight is doing
  profiles,  \* the tutors who have a tutor_profile row
  objects,   \* keys stored in the bucket
  row,       \* document: no row, a live one, or one with deletedAt set
  place,     \* document.caseId or document.tutorProfileId
  uploader,  \* document.uploadedById
  entitled   \* ghost: MayView held at some moment since the request began

docTables == <<profiles, objects, row, place, uploader>>
docVars   == <<djob, docTables>>
allVars   == <<vars, docVars, entitled>>

Places == Cases \union Tutors

(* The ends a document request is after once getViewableCase lets it pass.  *)
Goals == {"view", "upload", "delete", "download"}

DocSteps == {"caseRead", "inviteRead", "respond", "put", "insert", "docRead",
             "softDelete", "presign"}

DocJobs == [at : DocSteps, goal : Goals, user : Parents \union Tutors,
            place : Places, doc : Docs \union {NoOne},
            foundStatus : CaseStatus, foundMatched : Tutors \union {NoOne}]

DocInit ==
  /\ Init
  /\ djob     = [r \in Reqs |-> Idle]
  /\ profiles = {}
  /\ objects  = {}
  /\ row      = [d \in Docs |-> "none"]
  /\ place    = [d \in Docs |-> NoOne]
  /\ uploader = [d \in Docs |-> NoOne]
  /\ entitled = [r \in Reqs |-> FALSE]

-----------------------------------------------------------------------------
Free(r)      == job[r] = Idle /\ djob[r] = Idle
DocDone(r)   == djob' = [djob EXCEPT ![r] = Idle]
Advance(r,s) == djob' = [djob EXCEPT ![r].at = s]

(* Keys are fresh random UUIDs. *)
Unused(d) ==
  /\ d \notin objects
  /\ row[d] = "none"
  /\ \A r \in Reqs : djob[r] # Idle => djob[r].doc # d

(* Where a request goes on once the case is known to be viewable. *)
Granted(goal) ==
  CASE goal = "view"     -> "respond"
    [] goal = "upload"   -> "put"
    [] goal = "delete"   -> "docRead"
    [] goal = "download" -> "presign"

(* A new request to a case: findOne and listForCase want the view alone.    *)
BeginCase(r, u, c, goal, d) ==
  /\ Free(r)
  /\ goal \in {"view", "upload", "delete"}
  /\ CASE goal = "view"   -> d = NoOne
       [] goal = "upload" -> d # NoOne /\ Unused(d)
       [] goal = "delete" -> d # NoOne
  /\ djob' = [djob EXCEPT ![r] =
       [at |-> "caseRead", goal |-> goal, user |-> u, place |-> c, doc |-> d,
        foundStatus |-> "OPEN", foundMatched |-> NoOne]]
  /\ UNCHANGED docTables

(* A bug the properties must notice: the matrix lets the owner of a closed  *)
(* case through.                                                            *)
MayUploadUnlessPicked(u, s, m) == u \in Parents \/ s = "OPEN" \/ m = u

(* The upload matrix of getUploadableCase, on the snapshot of the case row. *)
MayUpload(u, s, m) ==
  /\ s # "CLOSED"
  /\ u \in Parents \/ s = "OPEN" \/ m = u

(* getViewableCase, first read: the case row.  A parent who owns it passes, *)
(* a tutor goes on to the invite; 404 for anyone else, 403 on an upload the *)
(* matrix refuses.                                                          *)
CaseRead(r) ==
  LET u == djob[r].user
      c == djob[r].place
      passes == u \in Parents /\ owner[c] = u
                  /\ (djob[r].goal = "upload" => MayUpload(u, status[c], matched[c]))
  IN /\ djob[r].at = "caseRead"
     /\ CASE passes -> Advance(r, Granted(djob[r].goal))
          [] u \in Tutors /\ owner[c] # NoOne ->
               djob' = [djob EXCEPT ![r].at = "inviteRead",
                                    ![r].foundStatus = status[c],
                                    ![r].foundMatched = matched[c]]
          [] OTHER -> DocDone(r)
     /\ UNCHANGED docTables

(* A bug the properties must notice: the invite is not required.            *)
InviteSkipped(r) ==
  LET j == djob[r] IN
  /\ j.at = "inviteRead"
  /\ IF /\ j.foundStatus = "OPEN" \/ j.foundMatched = j.user
        /\ j.goal = "upload" => MayUpload(j.user, j.foundStatus, j.foundMatched)
       THEN Advance(r, Granted(j.goal))
       ELSE DocDone(r)
  /\ UNCHANGED docTables

(* getViewableCase, second read, tutors only: the invite row, then the      *)
(* status and matchedTutorId of the snapshot; 404, or 403 by the matrix.    *)
InviteRead(r) ==
  LET j == djob[r] IN
  /\ j.at = "inviteRead"
  /\ IF /\ <<j.place, j.user>> \in invites
        /\ j.foundStatus = "OPEN" \/ j.foundMatched = j.user
        /\ j.goal = "upload" => MayUpload(j.user, j.foundStatus, j.foundMatched)
       THEN Advance(r, Granted(j.goal))
       ELSE DocDone(r)
  /\ UNCHANGED docTables

(* findOne answers with the case, listForCase with its live documents.      *)
Respond(r) ==
  /\ djob[r].at = "respond"
  /\ DocDone(r)
  /\ UNCHANGED docTables

(* uploadToOwnProfile: the profile must exist. *)
BeginProfileUpload(r, t, d) ==
  /\ Free(r)
  /\ t \in profiles
  /\ Unused(d)
  /\ djob' = [djob EXCEPT ![r] =
       [at |-> "put", goal |-> "upload", user |-> t, place |-> t, doc |-> d,
        foundStatus |-> "OPEN", foundMatched |-> NoOne]]
  /\ UNCHANGED docTables

(* A bug the properties must notice: the object is not awaited.             *)
SkipPut(r) ==
  /\ djob[r].at = "put"
  /\ Advance(r, "insert")
  /\ UNCHANGED docTables

(* validateAndStore: the file has an allowed type and size (415 and 413     *)
(* otherwise, without a write) and is put under its key.                    *)
Put(r) ==
  /\ djob[r].at = "put"
  /\ objects' = objects \union {djob[r].doc}
  /\ Advance(r, "insert")
  /\ UNCHANGED <<profiles, row, place, uploader>>

(* document.create: neither the case nor the invite is read again.          *)
Insert(r) ==
  /\ djob[r].at = "insert"
  /\ row'      = [row EXCEPT ![djob[r].doc] = "live"]
  /\ place'    = [place EXCEPT ![djob[r].doc] = djob[r].place]
  /\ uploader' = [uploader EXCEPT ![djob[r].doc] = djob[r].user]
  /\ DocDone(r)
  /\ UNCHANGED <<profiles, objects>>

(* A bug the properties must notice: uploadedById is not compared.          *)
DeleteAnyones(r) ==
  LET j == djob[r] IN
  /\ j.at = "docRead"
  /\ IF row[j.doc] = "live" /\ place[j.doc] = j.place
       THEN Advance(r, "softDelete")
       ELSE DocDone(r)
  /\ UNCHANGED docTables

(* deleteForCase: the row must be live, of this case and the caller's own;  *)
(* 404 or 403 otherwise.                                                    *)
DocRead(r) ==
  LET j == djob[r] IN
  /\ j.at = "docRead"
  /\ IF row[j.doc] = "live" /\ place[j.doc] = j.place /\ uploader[j.doc] = j.user
       THEN Advance(r, "softDelete")
       ELSE DocDone(r)
  /\ UNCHANGED docTables

(* deleteOwnProfileDocument: a live document of the caller's own profile.   *)
(* The profile row, read next, never changes hands.                         *)
BeginProfileDelete(r, t, d) ==
  /\ Free(r)
  /\ row[d] = "live"
  /\ place[d] = t
  /\ djob' = [djob EXCEPT ![r] =
       [at |-> "softDelete", goal |-> "delete", user |-> t, place |-> t, doc |-> d,
        foundStatus |-> "OPEN", foundMatched |-> NoOne]]
  /\ UNCHANGED docTables

(* Both deletes end in update({deletedAt: now}); the object stays.          *)
SoftDelete(r) ==
  /\ djob[r].at = "softDelete"
  /\ row' = [row EXCEPT ![djob[r].doc] = "deleted"]
  /\ DocDone(r)
  /\ UNCHANGED <<profiles, objects, place, uploader>>

(* getDownloadUrl: the row must be live.  A case document asks              *)
(* getViewableCase next, a profile document assertCanViewProfile: parents   *)
(* see any profile, tutors their own.                                       *)
BeginDownload(r, u, d) ==
  /\ Free(r)
  /\ row[d] = "live"
  /\ place[d] \in Cases \/ u \in Parents \/ u = place[d]
  /\ djob' = [djob EXCEPT ![r] =
       [at |-> IF place[d] \in Cases THEN "caseRead" ELSE "presign",
        goal |-> "download", user |-> u, place |-> place[d], doc |-> d,
        foundStatus |-> "OPEN", foundMatched |-> NoOne]]
  /\ UNCHANGED docTables

(* The URL for the object is signed and returned. *)
Presign(r) ==
  /\ djob[r].at = "presign"
  /\ DocDone(r)
  /\ UNCHANGED docTables

(* upsertOwn: one upsert. *)
UpsertProfile(r, t) ==
  /\ Free(r)
  /\ profiles' = profiles \union {t}
  /\ UNCHANGED <<djob, objects, row, place, uploader>>

(* A query or the object store throws, or the process goes down.  An upload *)
(* past Put leaves its object behind.                                       *)
DocFail(r) ==
  /\ djob[r] # Idle
  /\ DocDone(r)
  /\ UNCHANGED docTables

DocStep(r) ==
  \/ \E u \in Parents \union Tutors, c \in Cases, g \in Goals,
        d \in Docs \union {NoOne} : BeginCase(r, u, c, g, d)
  \/ CaseRead(r)
  \/ InviteRead(r)
  \/ Respond(r)
  \/ \E t \in Tutors, d \in Docs : BeginProfileUpload(r, t, d)
  \/ Put(r)
  \/ Insert(r)
  \/ DocRead(r)
  \/ \E t \in Tutors, d \in Docs : BeginProfileDelete(r, t, d)
  \/ SoftDelete(r)
  \/ \E u \in Parents \union Tutors, d \in Docs : BeginDownload(r, u, d)
  \/ Presign(r)
  \/ \E t \in Tutors : UpsertProfile(r, t)
  \/ DocFail(r)

(* Whether the request's user may view its case in the current state. *)
NowEntitled(r) ==
  djob[r] # Idle /\ djob[r].place \in Cases /\ MayView(djob[r].user, djob[r].place)

DocNext ==
  /\ \E r \in Reqs :
       \/ djob[r] = Idle /\ OwnerStep(r) /\ UNCHANGED docVars
       \/ DocStep(r) /\ UNCHANGED vars
  /\ entitled' = [r \in Reqs |-> /\ djob'[r] # Idle
                                 /\ entitled[r] \/ NowEntitled(r)']

DocSpec == DocInit /\ [][DocNext]_allVars

-----------------------------------------------------------------------------
(* Every variable has the type the schema gives it. *)
DocTypeOK ==
  /\ TypeOK
  /\ djob     \in [Reqs -> DocJobs \union {Idle}]
  /\ profiles \subseteq Tutors
  /\ objects  \subseteq Docs
  /\ row      \in [Docs -> {"none", "live", "deleted"}]
  /\ place    \in [Docs -> Places \union {NoOne}]
  /\ uploader \in [Docs -> Parents \union Tutors \union {NoOne}]
  /\ entitled \in [Reqs -> BOOLEAN]

(* Every document row, live or deleted, has its object in the store,        *)
(* whichever uploads failed half way: a signed URL never dangles.           *)
RowsHaveObjects == \A d \in Docs : row[d] # "none" => d \in objects

(* A document is on a case only if its uploader owned the case or was       *)
(* invited to it at some time, however the upload interleaved with the      *)
(* owner's operations.                                                      *)
UploadedByParticipant ==
  \A d \in Docs : place[d] \in Cases =>
    uploader[d] = owner[place[d]] \/ <<place[d], uploader[d]>> \in everInvited

(* A document disappears only by a request of its own uploader, and the row *)
(* that the delete read is still the row that it writes.                    *)
DeletedByUploader ==
  [][\A d \in Docs : row[d] # row'[d] /\ row'[d] = "deleted" =>
       \E r \in Reqs : djob[r].at = "softDelete" /\ djob[r].doc = d
                         /\ djob[r].user = uploader[d]]_allVars

(* When a document is put on a case the case is not closed ("CLOSED: nobody *)
(* may upload, including the owner") and its uploader may view it: what the *)
(* upload matrix checked still holds when the row is written.  True of      *)
(* requests that do not overlap, false of an upload that is on its way to   *)
(* the object store while the case is closed.  The matrix is that of        *)
(* case-access.service.ts; documents.service.ts:53 says of the same method  *)
(* "Allowed for anyone who can view the case", which on a closed case the   *)
(* code does not do.                                                        *)
UploadsAreStillAllowed ==
  [][\A d \in Docs : row[d] = "none" /\ row'[d] = "live" /\ place'[d] \in Cases =>
       /\ MayView(uploader'[d], place'[d])
       /\ status[place'[d]] # "CLOSED"]_allVars

(* A user who is shown a case, or acts on it, was entitled to view it at    *)
(* some moment of the request.  True of requests that do not overlap, false *)
(* of the two reads of getViewableCase: the row may be read before the case *)
(* leaves OPEN and the invite after it was given.                           *)
ShownToEntitled ==
  \A r \in Reqs :
    djob[r].at \in {"respond", "put", "insert", "docRead", "softDelete", "presign"}
      /\ djob[r].place \in Cases => entitled[r]

=============================================================================
