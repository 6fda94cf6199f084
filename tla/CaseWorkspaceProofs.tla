------------------------ MODULE CaseWorkspaceProofs -------------------------
(***************************************************************************)
(* Results about the owner's operations on cases, for every number of      *)
(* parents, tutors, cases and concurrent requests; and, for requests that  *)
(* do not overlap, that they implement the contract of CaseContract.       *)
(***************************************************************************)
EXTENDS CaseWorkspace, TLAPS

(* Every step respects the types. *)
LEMMA TypeStep == TypeOK /\ [Next]_vars => TypeOK'
<1> SUFFICES ASSUME TypeOK, [Next]_vars PROVE TypeOK'
  OBVIOUS
<1> USE DEF TypeOK, tables, Done, Jobs, JobSteps, OwnerOps, CaseStatus, Idle
<1>1. ASSUME NEW r \in Reqs, NEW u \in Parents, NEW c \in Cases, Create(r, u, c) PROVE TypeOK'
  BY <1>1 DEF Create
<1>2. ASSUME NEW r \in Reqs, NEW u \in Parents, NEW c \in Cases,
          NEW t \in Tutors, NEW op \in OwnerOps,
          Begin(r, u, c, t, op)
     PROVE TypeOK'
  BY <1>2 DEF Begin, OwnerOps
<1>3. ASSUME NEW r \in Reqs, Update(r) PROVE TypeOK'
  BY <1>3 DEF Update
<1>4. ASSUME NEW r \in Reqs, Invite(r) PROVE TypeOK'
  BY <1>4 DEF Invite
<1>5. ASSUME NEW r \in Reqs, RevokeInvite(r) PROVE TypeOK'
  BY <1>5 DEF RevokeInvite
<1>6. ASSUME NEW r \in Reqs, AcceptRefuse(r) PROVE TypeOK'
  BY <1>6 DEF AcceptRefuse
<1>7. ASSUME NEW r \in Reqs, AcceptCheck(r) PROVE TypeOK'
  BY <1>7 DEF AcceptCheck
<1>8. ASSUME NEW r \in Reqs, AcceptWrite(r) PROVE TypeOK'
  BY <1>8 DEF AcceptWrite
<1>9. ASSUME NEW r \in Reqs, Fail(r) PROVE TypeOK'
  BY <1>9 DEF Fail
<1>10. CASE UNCHANGED vars
  BY <1>10 DEF vars
<1> QED
  BY <1>1, <1>2, <1>3, <1>4, <1>5, <1>6, <1>7, <1>8, <1>9, <1>10 DEF Next, OwnerStep

(* An authorized request stays authorized: owners never change. *)
LEMMA JobStep ==
  ASSUME TypeOK, JobInv, InviteInv, [Next]_vars
  PROVE  JobInv'
<1> USE WorkspaceConstants DEF TypeOK, JobInv, InviteInv, tables, Done, Jobs,
        JobSteps, Idle
<1>1. ASSUME NEW r \in Reqs, NEW u \in Parents, NEW c \in Cases, Create(r, u, c) PROVE JobInv'
  BY <1>1 DEF Create
<1>2. ASSUME NEW r \in Reqs, NEW u \in Parents, NEW c \in Cases,
          NEW t \in Tutors, NEW op \in OwnerOps,
          Begin(r, u, c, t, op)
     PROVE JobInv'
  BY <1>2 DEF Begin, OwnerOps
<1>3. ASSUME NEW r \in Reqs, Update(r) PROVE JobInv'
  BY <1>3 DEF Update
<1>4. ASSUME NEW r \in Reqs, Invite(r) PROVE JobInv'
  BY <1>4 DEF Invite
<1>5. ASSUME NEW r \in Reqs, RevokeInvite(r) PROVE JobInv'
  BY <1>5 DEF RevokeInvite
<1>6. ASSUME NEW r \in Reqs, AcceptRefuse(r) PROVE JobInv'
  BY <1>6 DEF AcceptRefuse
<1>7. ASSUME NEW r \in Reqs, AcceptCheck(r) PROVE JobInv'
  BY <1>7 DEF AcceptCheck
<1>8. ASSUME NEW r \in Reqs, AcceptWrite(r) PROVE JobInv'
  BY <1>8 DEF AcceptWrite
<1>9. ASSUME NEW r \in Reqs, Fail(r) PROVE JobInv'
  BY <1>9 DEF Fail
<1>10. CASE UNCHANGED vars
  BY <1>10 DEF vars
<1> QED
  BY <1>1, <1>2, <1>3, <1>4, <1>5, <1>6, <1>7, <1>8, <1>9, <1>10 DEF Next, OwnerStep

(* Invites are created by owners of existing cases only. *)
LEMMA InviteStep ==
  ASSUME TypeOK, JobInv, InviteInv, [Next]_vars
  PROVE  InviteInv'
<1> USE WorkspaceConstants DEF TypeOK, JobInv, InviteInv, tables, Done, Jobs,
        JobSteps, Idle
<1>1. ASSUME NEW r \in Reqs, NEW u \in Parents, NEW c \in Cases, Create(r, u, c) PROVE InviteInv'
  BY <1>1 DEF Create
<1>2. ASSUME NEW r \in Reqs, NEW u \in Parents, NEW c \in Cases,
          NEW t \in Tutors, NEW op \in OwnerOps,
          Begin(r, u, c, t, op)
     PROVE InviteInv'
  BY <1>2 DEF Begin, OwnerOps
<1>3. ASSUME NEW r \in Reqs, Update(r) PROVE InviteInv'
  BY <1>3 DEF Update
<1>4. ASSUME NEW r \in Reqs, Invite(r) PROVE InviteInv'
  BY <1>4 DEF Invite
<1>5. ASSUME NEW r \in Reqs, RevokeInvite(r) PROVE InviteInv'
  BY <1>5 DEF RevokeInvite
<1>6. ASSUME NEW r \in Reqs, AcceptRefuse(r) PROVE InviteInv'
  BY <1>6 DEF AcceptRefuse
<1>7. ASSUME NEW r \in Reqs, AcceptCheck(r) PROVE InviteInv'
  BY <1>7 DEF AcceptCheck
<1>8. ASSUME NEW r \in Reqs, AcceptWrite(r) PROVE InviteInv'
  BY <1>8 DEF AcceptWrite
<1>9. ASSUME NEW r \in Reqs, Fail(r) PROVE InviteInv'
  BY <1>9 DEF Fail
<1>10. CASE UNCHANGED vars
  BY <1>10 DEF vars
<1> QED
  BY <1>1, <1>2, <1>3, <1>4, <1>5, <1>6, <1>7, <1>8, <1>9, <1>10 DEF Next, OwnerStep

(* An accept writes a tutor whose invite it has seen. *)
LEMMA MatchStep ==
  ASSUME IndInv, [Next]_vars
  PROVE  MatchedWasInvited'
<1> USE WorkspaceConstants DEF IndInv, TypeOK, JobInv, MatchedWasInvited, tables,
        Done, Jobs, JobSteps, Idle
<1>1. ASSUME NEW r \in Reqs, NEW u \in Parents, NEW c \in Cases, Create(r, u, c) PROVE MatchedWasInvited'
  BY <1>1 DEF Create
<1>2. ASSUME NEW r \in Reqs, NEW u \in Parents, NEW c \in Cases,
          NEW t \in Tutors, NEW op \in OwnerOps,
          Begin(r, u, c, t, op)
     PROVE MatchedWasInvited'
  BY <1>2 DEF Begin, OwnerOps
<1>3. ASSUME NEW r \in Reqs, Update(r) PROVE MatchedWasInvited'
  BY <1>3 DEF Update
<1>4. ASSUME NEW r \in Reqs, Invite(r) PROVE MatchedWasInvited'
  BY <1>4 DEF Invite
<1>5. ASSUME NEW r \in Reqs, RevokeInvite(r) PROVE MatchedWasInvited'
  BY <1>5 DEF RevokeInvite
<1>6. ASSUME NEW r \in Reqs, AcceptRefuse(r) PROVE MatchedWasInvited'
  BY <1>6 DEF AcceptRefuse
<1>7. ASSUME NEW r \in Reqs, AcceptCheck(r) PROVE MatchedWasInvited'
  BY <1>7 DEF AcceptCheck
<1>8. ASSUME NEW r \in Reqs, AcceptWrite(r) PROVE MatchedWasInvited'
  BY <1>8 DEF AcceptWrite
<1>9. ASSUME NEW r \in Reqs, Fail(r) PROVE MatchedWasInvited'
  BY <1>9 DEF Fail
<1>10. CASE UNCHANGED vars
  BY <1>10 DEF vars
<1> QED
  BY <1>1, <1>2, <1>3, <1>4, <1>5, <1>6, <1>7, <1>8, <1>9, <1>10 DEF Next, OwnerStep

(* The invariant holds of every behaviour.  MatchedWasInvited alone is not   *)
(* inductive: JobInv says that an accept between its check and its write     *)
(* holds a tutor who was invited.                                            *)
THEOREM Invariance == Spec => []IndInv
<1>1. Init => IndInv
  BY DEF Init, IndInv, TypeOK, JobInv, InviteInv, MatchedWasInvited, CaseStatus
<1>2. IndInv /\ [Next]_vars => IndInv'
  BY TypeStep, JobStep, InviteStep, MatchStep DEF IndInv
<1> QED
  BY <1>1, <1>2, PTL DEF Spec

(* Every variable keeps its type. *)
THEOREM TypeCorrect == Spec => []TypeOK
<1>1. IndInv => TypeOK
  BY DEF IndInv
<1> QED
  BY <1>1, Invariance, PTL

(* The matched tutor of a case was invited to it, at any concurrency. *)
THEOREM MatchesComeFromInvites == Spec => []MatchedWasInvited
<1>1. IndInv => MatchedWasInvited
  BY DEF IndInv
<1> QED
  BY <1>1, Invariance, PTL

(* The list endpoint and the detail endpoint agree on what a user sees. *)
THEOREM ListAndViewAgree == Spec => []ListAgreesWithView
<1>1. IndInv => ListAgreesWithView
  BY WorkspaceConstants DEF IndInv, TypeOK, InviteInv, ListAgreesWithView, Listed,
     MayView
<1> QED
  BY <1>1, Invariance, PTL

-----------------------------------------------------------------------------
(* A case row and its invites change only by requests of the case's owner.   *)
THEOREM OnlyOwnersChangeCases == Spec => ChangedByOwnerOnly
<1> DEFINE OwnerOnly ==
             \A c \in Cases :
               \/ owner[c] = NoOne
               \/ /\ <<owner[c], status[c], matched[c]>>
                        = <<owner[c], status[c], matched[c]>>'
                  /\ \A t \in Tutors : <<c, t>> \in invites <=> <<c, t>> \in invites'
               \/ \E r \in Reqs : job[r] # Idle /\ job[r].user = owner[c]
                                    /\ owner'[c] = owner[c]
           Kept(c) ==
             /\ <<owner[c], status[c], matched[c]>> = <<owner[c], status[c], matched[c]>>'
             /\ \A t \in Tutors : <<c, t>> \in invites <=> <<c, t>> \in invites'
           ByOwner(c) ==
             \E r \in Reqs : job[r] # Idle /\ job[r].user = owner[c]
                                /\ owner'[c] = owner[c]
<1>1. IndInv /\ [Next]_vars => OwnerOnly
  <2> SUFFICES ASSUME IndInv, [Next]_vars, NEW c \in Cases, owner[c] # NoOne
               PROVE  Kept(c) \/ ByOwner(c)
    OBVIOUS
  <2> USE DEF IndInv, TypeOK, JobInv, tables, Done, Jobs, Idle
  <2>1. ASSUME NEW r \in Reqs, NEW u \in Parents, NEW d \in Cases, Create(r, u, d)
        PROVE  Kept(c)
    BY <2>1 DEF Create
  <2>2. ASSUME NEW r \in Reqs, NEW u \in Parents, NEW d \in Cases,
               NEW t \in Tutors, NEW op \in OwnerOps, Begin(r, u, d, t, op)
        PROVE  Kept(c)
    BY <2>2 DEF Begin
  <2>3. ASSUME NEW r \in Reqs, Update(r) PROVE Kept(c) \/ ByOwner(c)
    <3>1. CASE job[r].case = c
      <4>1. owner' = owner /\ job[r] # Idle
        BY <2>3 DEF Update
      <4>2. ByOwner(c)
        BY <3>1, <4>1
      <4> QED
        BY <4>2
    <3>2. CASE job[r].case # c
      BY <2>3, <3>2 DEF Update
    <3> QED
      BY <3>1, <3>2
  <2>4. ASSUME NEW r \in Reqs, Invite(r) PROVE Kept(c) \/ ByOwner(c)
    <3>1. CASE job[r].case = c
      BY <2>4, <3>1 DEF Invite
    <3>2. CASE job[r].case # c
      BY <2>4, <3>2 DEF Invite
    <3> QED
      BY <3>1, <3>2
  <2>5. ASSUME NEW r \in Reqs, RevokeInvite(r) PROVE Kept(c) \/ ByOwner(c)
    <3>1. CASE job[r].case = c
      BY <2>5, <3>1 DEF RevokeInvite
    <3>2. CASE job[r].case # c
      BY <2>5, <3>2 DEF RevokeInvite
    <3> QED
      BY <3>1, <3>2
  <2>6. ASSUME NEW r \in Reqs, AcceptRefuse(r) \/ AcceptCheck(r) \/ Fail(r)
        PROVE  Kept(c)
    BY <2>6 DEF AcceptRefuse, AcceptCheck, Fail
  <2>7. ASSUME NEW r \in Reqs, AcceptWrite(r) PROVE Kept(c) \/ ByOwner(c)
    <3>1. CASE job[r].case = c
      <4>1. owner' = owner /\ job[r] # Idle
        BY <2>7 DEF AcceptWrite
      <4>2. ByOwner(c)
        BY <3>1, <4>1
      <4> QED
        BY <4>2
    <3>2. CASE job[r].case # c
      BY <2>7, <3>2 DEF AcceptWrite
    <3> QED
      BY <3>1, <3>2
  <2>8. CASE UNCHANGED vars
    BY <2>8 DEF vars
  <2> QED
    BY <2>1, <2>2, <2>3, <2>4, <2>5, <2>6, <2>7, <2>8 DEF Next, OwnerStep
<1> QED
  BY <1>1, Invariance, PTL DEF Spec, ChangedByOwnerOnly

(* When no two requests overlap, every snapshot is current at every await.   *)
LEMMA SnapshotStep ==
  ASSUME \A r, s \in Reqs : r = s, IndInv, SnapshotIsCurrent, [Next]_vars
  PROVE  SnapshotIsCurrent'
<1> USE DEF IndInv, TypeOK, SnapshotIsCurrent, tables, Done, Jobs, JobSteps, Idle
<1>1. ASSUME NEW r \in Reqs, NEW u \in Parents, NEW c \in Cases, Create(r, u, c) PROVE SnapshotIsCurrent'
  BY <1>1 DEF Create
<1>2. ASSUME NEW r \in Reqs, NEW u \in Parents, NEW c \in Cases,
          NEW t \in Tutors, NEW op \in OwnerOps,
          Begin(r, u, c, t, op)
     PROVE SnapshotIsCurrent'
  BY <1>2 DEF Begin, OwnerOps
<1>3. ASSUME NEW r \in Reqs, Update(r) PROVE SnapshotIsCurrent'
  BY <1>3 DEF Update
<1>4. ASSUME NEW r \in Reqs, Invite(r) PROVE SnapshotIsCurrent'
  BY <1>4 DEF Invite
<1>5. ASSUME NEW r \in Reqs, RevokeInvite(r) PROVE SnapshotIsCurrent'
  BY <1>5 DEF RevokeInvite
<1>6. ASSUME NEW r \in Reqs, AcceptRefuse(r) PROVE SnapshotIsCurrent'
  BY <1>6 DEF AcceptRefuse
<1>7. ASSUME NEW r \in Reqs, AcceptCheck(r) PROVE SnapshotIsCurrent'
  BY <1>7 DEF AcceptCheck
<1>8. ASSUME NEW r \in Reqs, AcceptWrite(r) PROVE SnapshotIsCurrent'
  BY <1>8 DEF AcceptWrite
<1>9. ASSUME NEW r \in Reqs, Fail(r) PROVE SnapshotIsCurrent'
  BY <1>9 DEF Fail
<1>10. CASE UNCHANGED vars
  BY <1>10 DEF vars
<1> QED
  BY <1>1, <1>2, <1>3, <1>4, <1>5, <1>6, <1>7, <1>8, <1>9, <1>10 DEF Next, OwnerStep

(* When no two requests overlap, the endpoints implement their contract: one *)
(* tutor per case, accepted only while invited, for every number of parents, *)
(* tutors and cases.                                                         *)
THEOREM SerialRequestsImplementContract ==
  ASSUME \A r, s \in Reqs : r = s
  PROVE  Spec => ImplementsContract
<1>1. Init => Contract!Init
  BY DEF Init, Contract!Init
<1>2. Init => SnapshotIsCurrent
  BY DEF Init, SnapshotIsCurrent
<1>3. IndInv /\ SnapshotIsCurrent /\ [Next]_vars => SnapshotIsCurrent'
  BY SnapshotStep
<1>4. IndInv /\ SnapshotIsCurrent /\ [Next]_vars => [Contract!Next]_(Contract!vars)
  <2> SUFFICES ASSUME IndInv, SnapshotIsCurrent, [Next]_vars
               PROVE  Contract!Next \/ UNCHANGED tables
    BY DEF Contract!vars, tables
  <2> USE DEF IndInv, TypeOK, JobInv, tables, Idle
  <2>0. ASSUME NEW r \in Reqs, job[r] # Idle
        PROVE  /\ job[r].case \in Cases /\ job[r].tutor \in Tutors
               /\ owner[job[r].case] # NoOne
    <3>1. job[r] \in Jobs
      BY <2>0
    <3>2. job[r].case \in Cases /\ job[r].tutor \in Tutors /\ job[r].user \in Parents
      BY <3>1 DEF Jobs
    <3> QED
      BY <2>0, <3>2, WorkspaceConstants
  <2>1. ASSUME NEW r \in Reqs, NEW u \in Parents, NEW c \in Cases, Create(r, u, c)
        PROVE  Contract!Next
    BY <2>1 DEF Create, Contract!Create, Contract!Next
  <2>2. ASSUME NEW r \in Reqs, NEW u \in Parents, NEW c \in Cases,
               NEW t \in Tutors, NEW op \in OwnerOps, Begin(r, u, c, t, op)
        PROVE  UNCHANGED tables
    BY <2>2 DEF Begin
  <2>3. ASSUME NEW r \in Reqs, Update(r) PROVE Contract!Next
    <3>1. PICK s \in CaseStatus : status' = [status EXCEPT ![job[r].case] = s]
      BY <2>3 DEF Update
    <3>2. owner[job[r].case] # NoOne
      BY <2>0, <2>3 DEF Update
    <3>3. Contract!Update(job[r].case, s)
      BY <2>3, <3>1, <3>2 DEF Update, Contract!Update
    <3> QED
      BY <2>0, <2>3, <3>3 DEF Update, Contract!Next, CaseStatus, Contract!CaseStatus
  <2>4. ASSUME NEW r \in Reqs, Invite(r) PROVE Contract!Next
    <3>1. Contract!Invite(job[r].case, job[r].tutor)
      BY <2>0, <2>4 DEF Invite, Contract!Invite
    <3> QED
      BY <2>0, <2>4, <3>1 DEF Invite, Contract!Next
  <2>5. ASSUME NEW r \in Reqs, RevokeInvite(r)
        PROVE  Contract!Next \/ UNCHANGED tables
    <3>1. CASE <<job[r].case, job[r].tutor>> \in invites
      <4>1. Contract!RevokeInvite(job[r].case, job[r].tutor)
        BY <2>5, <3>1 DEF RevokeInvite, Contract!RevokeInvite
      <4> QED
        BY <2>0, <2>5, <4>1 DEF RevokeInvite, Contract!Next
    <3>2. CASE <<job[r].case, job[r].tutor>> \notin invites
      BY <2>5, <3>2 DEF RevokeInvite
    <3> QED
      BY <3>1, <3>2
  <2>6. ASSUME NEW r \in Reqs, AcceptRefuse(r) \/ AcceptCheck(r) \/ Fail(r)
        PROVE  UNCHANGED tables
    BY <2>6 DEF AcceptRefuse, AcceptCheck, Fail
  <2>7. ASSUME NEW r \in Reqs, AcceptWrite(r) PROVE Contract!Next
    <3>1. Contract!Accept(job[r].case, job[r].tutor)
      BY <2>0, <2>7 DEF AcceptWrite, SnapshotIsCurrent, Contract!Accept
    <3> QED
      BY <2>0, <2>7, <3>1 DEF AcceptWrite, Contract!Next
  <2>8. CASE UNCHANGED vars
    BY <2>8 DEF vars
  <2> QED
    BY <2>1, <2>2, <2>3, <2>4, <2>5, <2>6, <2>7, <2>8 DEF Next, OwnerStep
<1> QED
  BY <1>1, <1>2, <1>3, <1>4, Invariance, PTL
     DEF Spec, ImplementsContract, Contract!Spec

=============================================================================
