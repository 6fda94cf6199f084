--------------------------- MODULE CaseWorkspace ----------------------------
(***************************************************************************)
(* The tables case and case_invite and the operations of their owner       *)
(* (backend/src/cases): create, update, invite, revokeInvite and           *)
(* acceptTutor.  Each begins with getEditableCase, which reads the case    *)
(* row, and decides later writes on that snapshot; between two awaits any  *)
(* other request may run.  RolesGuard admits parents only.                 *)
(***************************************************************************)
CONSTANTS
  Parents, Tutors,   \* user rows by role; roles never change
  Cases,             \* case ids that can be created
  Reqs,              \* slots for requests in flight; bounds the concurrency
  NoOne              \* null

ASSUME WorkspaceConstants ==
  /\ NoOne \notin Parents \union Tutors
  /\ Parents \intersect Tutors = {}

VARIABLES
  owner,        \* case.ownerId, NoOne when there is no row
  status,       \* case.status
  matched,      \* case.matchedTutorId
  invites,      \* case_invite rows: (case, tutor) pairs, unique by schema
  job,          \* what each request in flight is doing
  everInvited   \* ghost: the pairs that ever had an invite row

tables == <<owner, status, matched, invites>>
vars   == <<tables, job, everInvited>>

CaseStatus == {"OPEN", "MATCHED", "CLOSED"}
OwnerOps   == {"update", "invite", "revokeInvite", "accept"}
JobSteps   == OwnerOps \union {"acceptWrite"}

(* A request past getEditableCase: the caller, the case, the tutor argument *)
(* and what the case row said (found).                                      *)
Jobs == [at : JobSteps, user : Parents, case : Cases, tutor : Tutors,
         foundStatus : CaseStatus, foundMatched : Tutors \union {NoOne}]

Idle == [at |-> "idle"]

Init ==
  /\ owner       = [c \in Cases |-> NoOne]
  /\ status      = [c \in Cases |-> "OPEN"]
  /\ matched     = [c \in Cases |-> NoOne]
  /\ invites     = {}
  /\ job         = [r \in Reqs |-> Idle]
  /\ everInvited = {}

-----------------------------------------------------------------------------
(* Authorization, as a question about the tables.  getViewableCase asks it  *)
(* in one or two reads; list asks it in its where clause.                   *)
MayView(u, c) ==
  /\ owner[c] # NoOne
  /\ \/ u \in Parents /\ owner[c] = u
     \/ /\ u \in Tutors /\ <<c, u>> \in invites
        /\ status[c] = "OPEN" \/ matched[c] = u

(* A bug the properties must notice: list forgets to exclude the tutors who *)
(* were not picked.                                                         *)
InviteesOf(u) ==
  {c \in Cases : owner[c] # NoOne /\ (owner[c] = u \/ <<c, u>> \in invites)}

(* cases.service list, without its search filters.  The where clause of a   *)
(* tutor reads invites through a join, that of a parent the owner alone.    *)
Listed(u) ==
  IF u \in Parents
    THEN {c \in Cases : owner[c] = u}
    ELSE {c \in Cases : /\ <<c, u>> \in invites
                        /\ status[c] = "OPEN" \/ matched[c] = u}

Done(r) == job' = [job EXCEPT ![r] = Idle]

(* create: one insert, status OPEN by default.                              *)
Create(r, u, c) ==
  /\ job[r] = Idle
  /\ owner[c] = NoOne
  /\ owner' = [owner EXCEPT ![c] = u]
  /\ UNCHANGED <<status, matched, invites, job, everInvited>>

(* A bug the properties must notice: only visibility is required to edit,   *)
(* so an owner check that compares nothing lets any parent through.         *)
BeginUnchecked(r, u, c, t, op) ==
  /\ job[r] = Idle
  /\ owner[c] # NoOne
  /\ job' = [job EXCEPT ![r] =
       [at |-> op, user |-> u, case |-> c, tutor |-> t,
        foundStatus |-> status[c], foundMatched |-> matched[c]]]
  /\ UNCHANGED <<tables, everInvited>>

(* A bug the properties must notice: matchedTutorId is not selected, so the *)
(* snapshot never shows a match.                                            *)
BeginWithoutMatch(r, u, c, t, op) ==
  /\ job[r] = Idle
  /\ owner[c] = u
  /\ job' = [job EXCEPT ![r] =
       [at |-> op, user |-> u, case |-> c, tutor |-> t,
        foundStatus |-> status[c], foundMatched |-> NoOne]]
  /\ UNCHANGED <<tables, everInvited>>

(* getEditableCase: a parent reads the case and must own it; anything else  *)
(* is answered 404 without a write and has no action.  The tutor argument   *)
(* is looked up by invite only; rows of user are constant.                  *)
Begin(r, u, c, t, op) ==
  /\ job[r] = Idle
  /\ owner[c] = u
  /\ job' = [job EXCEPT ![r] =
       [at |-> op, user |-> u, case |-> c, tutor |-> t,
        foundStatus |-> status[c], foundMatched |-> matched[c]]]
  /\ UNCHANGED <<tables, everInvited>>

(* update: the dto carries any status, or none.                             *)
Update(r) ==
  /\ job[r].at = "update"
  /\ \E s \in CaseStatus :
       status' = [status EXCEPT ![job[r].case] = s]
  /\ Done(r)
  /\ UNCHANGED <<owner, matched, invites, everInvited>>

(* invite: upsert, so a second invite returns the row of the first.         *)
Invite(r) ==
  /\ job[r].at = "invite"
  /\ invites'     = invites \union {<<job[r].case, job[r].tutor>>}
  /\ everInvited' = everInvited \union {<<job[r].case, job[r].tutor>>}
  /\ Done(r)
  /\ UNCHANGED <<owner, status, matched>>

(* revokeInvite: deleteMany; 404 when it deleted nothing.                   *)
RevokeInvite(r) ==
  /\ job[r].at = "revokeInvite"
  /\ invites' = invites \ {<<job[r].case, job[r].tutor>>}
  /\ Done(r)
  /\ UNCHANGED <<owner, status, matched, everInvited>>

(* acceptTutor, the invite read and the checks against the snapshot: 400,   *)
(* 409, or the already matched case returned unchanged.                     *)
AcceptRefuse(r) ==
  /\ job[r].at = "accept"
  /\ \/ <<job[r].case, job[r].tutor>> \notin invites
     \/ job[r].foundMatched \notin {NoOne, job[r].tutor}
     \/ job[r].foundMatched = job[r].tutor /\ job[r].foundStatus = "MATCHED"
  /\ Done(r)
  /\ UNCHANGED <<tables, everInvited>>

(* A bug the properties must notice: the invite is not looked up.           *)
AcceptAnyTutor(r) ==
  /\ job[r].at = "accept"
  /\ job[r].foundMatched \in {NoOne, job[r].tutor}
  /\ job' = [job EXCEPT ![r].at = "acceptWrite"]
  /\ UNCHANGED <<tables, everInvited>>

AcceptCheck(r) ==
  /\ job[r].at = "accept"
  /\ <<job[r].case, job[r].tutor>> \in invites
  /\ job[r].foundMatched \in {NoOne, job[r].tutor}
  /\ ~(job[r].foundMatched = job[r].tutor /\ job[r].foundStatus = "MATCHED")
  /\ job' = [job EXCEPT ![r].at = "acceptWrite"]
  /\ UNCHANGED <<tables, everInvited>>

(* A bug the properties must notice: the caller's id is stored, not the     *)
(* tutor's.                                                                 *)
AcceptCaller(r) ==
  /\ job[r].at = "acceptWrite"
  /\ matched' = [matched EXCEPT ![job[r].case] = job[r].user]
  /\ status'  = [status EXCEPT ![job[r].case] = "MATCHED"]
  /\ Done(r)
  /\ UNCHANGED <<owner, invites, everInvited>>

(* acceptTutor, the write: unconditional on what the row says by now.       *)
AcceptWrite(r) ==
  /\ job[r].at = "acceptWrite"
  /\ matched' = [matched EXCEPT ![job[r].case] = job[r].tutor]
  /\ status'  = [status EXCEPT ![job[r].case] = "MATCHED"]
  /\ Done(r)
  /\ UNCHANGED <<owner, invites, everInvited>>

(* A query that throws, or the process going down.                          *)
Fail(r) ==
  /\ job[r] # Idle
  /\ Done(r)
  /\ UNCHANGED <<tables, everInvited>>

OwnerStep(r) ==
  \/ \E u \in Parents, c \in Cases : Create(r, u, c)
  \/ \E u \in Parents, c \in Cases, t \in Tutors, op \in OwnerOps :
       Begin(r, u, c, t, op)
  \/ Update(r)
  \/ Invite(r)
  \/ RevokeInvite(r)
  \/ AcceptRefuse(r)
  \/ AcceptCheck(r)
  \/ AcceptWrite(r)
  \/ Fail(r)

Next == \E r \in Reqs : OwnerStep(r)

Spec == Init /\ [][Next]_vars

-----------------------------------------------------------------------------
(* Every variable has the type the schema gives it. *)
TypeOK ==
  /\ owner       \in [Cases -> Parents \union {NoOne}]
  /\ status      \in [Cases -> CaseStatus]
  /\ matched     \in [Cases -> Tutors \union {NoOne}]
  /\ invites     \subseteq Cases \X Tutors
  /\ job         \in [Reqs -> Jobs \union {Idle}]
  /\ everInvited \subseteq Cases \X Tutors

(* However accepts, invites and revocations interleave, the tutor a case is *)
(* matched to was invited to that very case by its owner at some time.      *)
MatchedWasInvited ==
  \A c \in Cases : matched[c] # NoOne => <<c, matched[c]>> \in everInvited

(* What list returns is what findOne would show, for every user and case,   *)
(* in every state: two translations of the visibility rules of D8.          *)
ListAgreesWithView ==
  \A u \in Parents \union Tutors : Listed(u) = {c \in Cases : MayView(u, c)}

(* The inductive invariant: what an authorized request may rely on while    *)
(* the others write, and where invites come from.                           *)
JobInv ==
  \A r \in Reqs : job[r] # Idle =>
    /\ owner[job[r].case] = job[r].user
    /\ job[r].at = "acceptWrite" => <<job[r].case, job[r].tutor>> \in everInvited

InviteInv ==
  /\ invites \subseteq everInvited
  /\ \A c \in Cases, t \in Tutors :
       <<c, t>> \in everInvited => owner[c] # NoOne

IndInv == TypeOK /\ JobInv /\ InviteInv /\ MatchedWasInvited

(* What more holds when requests do not overlap: the snapshot a request     *)
(* decides on is still what the tables say when it writes.                  *)
SnapshotIsCurrent ==
  \A r \in Reqs : job[r] # Idle =>
    /\ job[r].foundStatus = status[job[r].case]
    /\ job[r].foundMatched = matched[job[r].case]
    /\ job[r].at = "acceptWrite" =>
         /\ <<job[r].case, job[r].tutor>> \in invites
         /\ job[r].foundMatched \in {NoOne, job[r].tutor}

(* A case row and its invites are changed only by a request of the owner,   *)
(* even when the change lands long after its authorization was checked.     *)
ChangedByOwnerOnly ==
  [][\A c \in Cases :
       \/ owner[c] = NoOne
       \/ /\ <<owner[c], status[c], matched[c]>> = <<owner[c], status[c], matched[c]>>'
          /\ \A t \in Tutors : <<c, t>> \in invites <=> <<c, t>> \in invites'
       \/ \E r \in Reqs : job[r] # Idle /\ job[r].user = owner[c]
                            /\ owner'[c] = owner[c]]_vars

(* One tutor per case (D10): a match is never replaced by another tutor.    *)
(* True of requests that do not overlap, false of two accepts that do.      *)
MatchIsFinal ==
  [][\A c \in Cases : matched[c] # NoOne => matched'[c] = matched[c]]_vars

Contract == INSTANCE CaseContract

(* When requests do not overlap, the endpoints implement the contract.      *)
ImplementsContract == Contract!Spec

=============================================================================
