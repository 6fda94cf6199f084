---------------------------- MODULE CaseContract ----------------------------
(***************************************************************************)
(* What the case endpoints promise their owner (docs/decision.md D8, D10), *)
(* each as one atomic step: only an invited tutor is accepted, a case gets *)
(* at most one tutor ever, and an update changes the status alone.         *)
(***************************************************************************)
CONSTANTS Parents, Tutors, Cases, NoOne

VARIABLES
  owner,    \* the parent a case belongs to, NoOne before it is created
  status,   \* OPEN, MATCHED or CLOSED
  matched,  \* matchedTutorId
  invites   \* the (case, tutor) invite rows

vars == <<owner, status, matched, invites>>

CaseStatus == {"OPEN", "MATCHED", "CLOSED"}

Init ==
  /\ owner   = [c \in Cases |-> NoOne]
  /\ status  = [c \in Cases |-> "OPEN"]
  /\ matched = [c \in Cases |-> NoOne]
  /\ invites = {}

Create(u, c) ==
  /\ owner[c] = NoOne
  /\ owner' = [owner EXCEPT ![c] = u]
  /\ UNCHANGED <<status, matched, invites>>

Update(c, s) ==
  /\ owner[c] # NoOne
  /\ status' = [status EXCEPT ![c] = s]
  /\ UNCHANGED <<owner, matched, invites>>

Invite(c, t) ==
  /\ owner[c] # NoOne
  /\ invites' = invites \union {<<c, t>>}
  /\ UNCHANGED <<owner, status, matched>>

RevokeInvite(c, t) ==
  /\ <<c, t>> \in invites
  /\ invites' = invites \ {<<c, t>>}
  /\ UNCHANGED <<owner, status, matched>>

Accept(c, t) ==
  /\ <<c, t>> \in invites
  /\ matched[c] \in {NoOne, t}
  /\ matched' = [matched EXCEPT ![c] = t]
  /\ status'  = [status EXCEPT ![c] = "MATCHED"]
  /\ UNCHANGED <<owner, invites>>

Next ==
  \E c \in Cases :
    \/ \E u \in Parents : Create(u, c)
    \/ \E s \in CaseStatus : Update(c, s)
    \/ \E t \in Tutors : Invite(c, t) \/ RevokeInvite(c, t) \/ Accept(c, t)

Spec == Init /\ [][Next]_vars

=============================================================================
