------------------------- MODULE TokenServiceProofs -------------------------
(***************************************************************************)
(* The token service keeps its promises about dead pairs for every number  *)
(* of users, pairs and concurrent requests, and under every failure.       *)
(***************************************************************************)
EXTENDS TokenService, FiniteSetTheorems, TLAPS

(* The initial state, with both tables empty, satisfies the invariant. *)
LEMMA InitInd == Init => IndInv
BY TokenConstants
DEF Init, IndInv, TypeOK, RowsInv, RequestInv, FreshInv, LoggedOutPairsAreDead,
    DoomedPairsAreDead, RotatedPairsAreDead, RefreshDiesWithAccess, Dead,
    RowStates, Steps

(* Every step of the service respects the types. *)
LEMMA TypeStep == TypeOK /\ RowsInv /\ RequestInv /\ [Next]_vars => TypeOK'
<1> SUFFICES ASSUME TypeOK, RowsInv, RequestInv, [Next]_vars PROVE TypeOK'
  OBVIOUS
<1> USE TokenConstants DEF TypeOK, rows, expiry, history, Goto, Answer, RowStates,
        Steps, Revoke, RevokeAccessTokenById, RefreshRevoked, RowsOf
<1>1. ASSUME NEW r \in Reqs, NEW u \in Users, Login(r, u) PROVE TypeOK'
  BY <1>1 DEF Login
<1>2. ASSUME NEW r \in Reqs, NEW p \in Pairs, IssueAccess(r, p) PROVE TypeOK'
  BY <1>2 DEF IssueAccess
<1>3. ASSUME NEW r \in Reqs, IssueRefresh(r) PROVE TypeOK'
  BY <1>3 DEF IssueRefresh, RequestInv
<1>4. ASSUME NEW r \in Reqs, NEW p \in Pairs, RotateReuse(r, p) PROVE TypeOK'
  BY <1>4 DEF RotateReuse, RowsInv
<1>5. ASSUME NEW r \in Reqs, NEW p \in Pairs, RotateAccept(r, p) PROVE TypeOK'
  BY <1>5 DEF RotateAccept, RowsInv
<1>6. ASSUME NEW r \in Reqs, RotateRevoke(r) PROVE TypeOK'
  BY <1>6 DEF RotateRevoke
<1>7. ASSUME NEW r \in Reqs, FamilyRead(r) PROVE TypeOK'
  BY <1>7 DEF FamilyRead
<1>8. ASSUME NEW r \in Reqs, FamilyRevoke(r) PROVE TypeOK'
  BY <1>8 DEF FamilyRevoke
<1>9. ASSUME NEW r \in Reqs, NEW p \in Pairs, VerifyAccess(r, p) PROVE TypeOK'
  BY <1>9 DEF VerifyAccess, RowsInv
<1>10. ASSUME NEW r \in Reqs, Serve(r) PROVE TypeOK'
  BY <1>10 DEF Serve
<1>11. ASSUME NEW r \in Reqs, LogoutRead(r) PROVE TypeOK'
  BY <1>11 DEF LogoutRead
<1>12. ASSUME NEW r \in Reqs, LogoutRevoke(r) PROVE TypeOK'
  BY <1>12 DEF LogoutRevoke, RequestInv
<1>13. ASSUME NEW r \in Reqs, Fail(r) PROVE TypeOK'
  BY <1>13 DEF Fail
<1>14. ASSUME NEW p \in Pairs, ExpireAccess(p) PROVE TypeOK'
  BY <1>14 DEF ExpireAccess, locals
<1>15. ASSUME NEW p \in Pairs, ExpireRefresh(p) PROVE TypeOK'
  BY <1>15 DEF ExpireRefresh, locals
<1>16. CASE UNCHANGED vars
  BY <1>16 DEF vars, locals
<1> QED
  BY <1>1, <1>2, <1>3, <1>4, <1>5, <1>6, <1>7, <1>8, <1>9, <1>10, <1>11, <1>12,
     <1>13, <1>14, <1>15, <1>16 DEF Next, ReqStep

(* Rows only move forward: an owner is never changed, a revoked row never    *)
(* comes back, an issued pair stays issued.                                  *)
LEMMA RowsMoveForward ==
  ASSUME TypeOK, RowsInv, RequestInv, [Next]_vars, NEW x \in Pairs
  PROVE  /\ owner[x] # NoUser => owner'[x] = owner[x]
         /\ access[x] = "revoked" => access'[x] = "revoked"
         /\ refresh[x] = "revoked" => refresh'[x] = "revoked"
         /\ x \in issued => x \in issued'
<1> DEFINE Forward ==
      /\ owner[x] # NoUser => owner'[x] = owner[x]
      /\ access[x] = "revoked" => access'[x] = "revoked"
      /\ refresh[x] = "revoked" => refresh'[x] = "revoked"
      /\ x \in issued => x \in issued'
<1> SUFFICES Forward
  OBVIOUS
<1> USE TokenConstants DEF TypeOK, RowsInv, rows, history, Revoke,
        RevokeAccessTokenById, RefreshRevoked
<1>1. ASSUME NEW r \in Reqs, NEW u \in Users, Login(r, u) PROVE Forward
  BY <1>1 DEF Login
<1>2. ASSUME NEW r \in Reqs, NEW p \in Pairs, IssueAccess(r, p) PROVE Forward
  BY <1>2 DEF IssueAccess
<1>3. ASSUME NEW r \in Reqs, IssueRefresh(r) PROVE Forward
  BY <1>3 DEF IssueRefresh, RequestInv
<1>4. ASSUME NEW r \in Reqs, NEW p \in Pairs, RotateReuse(r, p) PROVE Forward
  BY <1>4 DEF RotateReuse
<1>5. ASSUME NEW r \in Reqs, NEW p \in Pairs, RotateAccept(r, p) PROVE Forward
  BY <1>5 DEF RotateAccept
<1>6. ASSUME NEW r \in Reqs, RotateRevoke(r) PROVE Forward
  BY <1>6 DEF RotateRevoke
<1>7. ASSUME NEW r \in Reqs, FamilyRead(r) PROVE Forward
  BY <1>7 DEF FamilyRead
<1>8. ASSUME NEW r \in Reqs, FamilyRevoke(r) PROVE Forward
  BY <1>8 DEF FamilyRevoke
<1>9. ASSUME NEW r \in Reqs, NEW p \in Pairs, VerifyAccess(r, p) PROVE Forward
  BY <1>9 DEF VerifyAccess
<1>10. ASSUME NEW r \in Reqs, Serve(r) PROVE Forward
  BY <1>10 DEF Serve
<1>11. ASSUME NEW r \in Reqs, LogoutRead(r) PROVE Forward
  BY <1>11 DEF LogoutRead
<1>12. ASSUME NEW r \in Reqs, LogoutRevoke(r) PROVE Forward
  BY <1>12 DEF LogoutRevoke
<1>13. ASSUME NEW r \in Reqs, Fail(r) PROVE Forward
  BY <1>13 DEF Fail
<1>14. ASSUME NEW q \in Pairs, ExpireAccess(q) PROVE Forward
  BY <1>14 DEF ExpireAccess
<1>15. ASSUME NEW q \in Pairs, ExpireRefresh(q) PROVE Forward
  BY <1>15 DEF ExpireRefresh
<1>16. CASE UNCHANGED vars
  BY <1>16 DEF vars
<1> QED
  BY <1>1, <1>2, <1>3, <1>4, <1>5, <1>6, <1>7, <1>8, <1>9, <1>10, <1>11, <1>12, <1>13, <1>14, <1>15, <1>16 DEF Next, ReqStep

(* Which rows exist is kept by every step. *)
LEMMA RowsStep ==
  ASSUME TypeOK, RowsInv, RequestInv, [Next]_vars
  PROVE  RowsInv'
<1> USE TokenConstants DEF TypeOK, RowsInv, rows, history, Revoke,
        RevokeAccessTokenById, RefreshRevoked, RowsOf
<1>1. ASSUME NEW r \in Reqs, NEW u \in Users, Login(r, u) PROVE RowsInv'
  BY <1>1 DEF Login
<1>2. ASSUME NEW r \in Reqs, NEW p \in Pairs, IssueAccess(r, p) PROVE RowsInv'
  BY <1>2 DEF IssueAccess
<1>3. ASSUME NEW r \in Reqs, IssueRefresh(r) PROVE RowsInv'
  BY <1>3 DEF IssueRefresh, RequestInv
<1>4. ASSUME NEW r \in Reqs, NEW p \in Pairs, RotateReuse(r, p) PROVE RowsInv'
  BY <1>4 DEF RotateReuse
<1>5. ASSUME NEW r \in Reqs, NEW p \in Pairs, RotateAccept(r, p) PROVE RowsInv'
  BY <1>5 DEF RotateAccept
<1>6. ASSUME NEW r \in Reqs, RotateRevoke(r) PROVE RowsInv'
  BY <1>6 DEF RotateRevoke, RequestInv
<1>7. ASSUME NEW r \in Reqs, FamilyRead(r) PROVE RowsInv'
  BY <1>7 DEF FamilyRead
<1>8. ASSUME NEW r \in Reqs, FamilyRevoke(r) PROVE RowsInv'
  BY <1>8 DEF FamilyRevoke, RequestInv
<1>9. ASSUME NEW r \in Reqs, NEW p \in Pairs, VerifyAccess(r, p) PROVE RowsInv'
  BY <1>9 DEF VerifyAccess
<1>10. ASSUME NEW r \in Reqs, Serve(r) PROVE RowsInv'
  BY <1>10 DEF Serve
<1>11. ASSUME NEW r \in Reqs, LogoutRead(r) PROVE RowsInv'
  BY <1>11 DEF LogoutRead
<1>12. ASSUME NEW r \in Reqs, LogoutRevoke(r) PROVE RowsInv'
  BY <1>12 DEF LogoutRevoke, RequestInv
<1>13. ASSUME NEW r \in Reqs, Fail(r) PROVE RowsInv'
  BY <1>13 DEF Fail
<1>14. ASSUME NEW q \in Pairs, ExpireAccess(q) PROVE RowsInv'
  BY <1>14 DEF ExpireAccess
<1>15. ASSUME NEW q \in Pairs, ExpireRefresh(q) PROVE RowsInv'
  BY <1>15 DEF ExpireRefresh
<1>16. CASE UNCHANGED vars
  BY <1>16 DEF vars
<1> QED
  BY <1>1, <1>2, <1>3, <1>4, <1>5, <1>6, <1>7, <1>8, <1>9, <1>10, <1>11, <1>12, <1>13, <1>14, <1>15, <1>16 DEF Next, ReqStep

(* What a request relies on at each await is not disturbed by the others:    *)
(* they only move rows forward, and never touch its locals.                  *)
LEMMA RequestStep ==
  ASSUME TypeOK, RowsInv, RequestInv, FreshInv, [Next]_vars
  PROVE  RequestInv'
<1> USE TokenConstants, RowsMoveForward DEF TypeOK, RowsInv, RequestInv, FreshInv,
        rows, history, locals, Goto, Answer, Revoke, RevokeAccessTokenById,
        RefreshRevoked, RowsOf, Dead
<1>1. ASSUME NEW r \in Reqs, NEW u \in Users, Login(r, u) PROVE RequestInv'
  BY <1>1 DEF Login
<1>2. ASSUME NEW r \in Reqs, NEW p \in Pairs, IssueAccess(r, p) PROVE RequestInv'
  BY <1>2 DEF IssueAccess
<1>3. ASSUME NEW r \in Reqs, IssueRefresh(r) PROVE RequestInv'
  BY <1>3 DEF IssueRefresh
<1>4. ASSUME NEW r \in Reqs, NEW p \in Pairs, RotateReuse(r, p) PROVE RequestInv'
  BY <1>4 DEF RotateReuse
<1>5. ASSUME NEW r \in Reqs, NEW p \in Pairs, RotateAccept(r, p) PROVE RequestInv'
  BY <1>5 DEF RotateAccept
<1>6. ASSUME NEW r \in Reqs, RotateRevoke(r) PROVE RequestInv'
  BY <1>6 DEF RotateRevoke
<1>7. ASSUME NEW r \in Reqs, FamilyRead(r) PROVE RequestInv'
  BY <1>7 DEF FamilyRead
<1>8. ASSUME NEW r \in Reqs, FamilyRevoke(r) PROVE RequestInv'
  BY <1>8 DEF FamilyRevoke
<1>9. ASSUME NEW r \in Reqs, NEW p \in Pairs, VerifyAccess(r, p) PROVE RequestInv'
  BY <1>9 DEF VerifyAccess
<1>10. ASSUME NEW r \in Reqs, Serve(r) PROVE RequestInv'
  BY <1>10 DEF Serve
<1>11. ASSUME NEW r \in Reqs, LogoutRead(r) PROVE RequestInv'
  BY <1>11 DEF LogoutRead
<1>12. ASSUME NEW r \in Reqs, LogoutRevoke(r) PROVE RequestInv'
  BY <1>12 DEF LogoutRevoke
<1>13. ASSUME NEW r \in Reqs, Fail(r) PROVE RequestInv'
  BY <1>13 DEF Fail
<1>14. ASSUME NEW q \in Pairs, ExpireAccess(q) PROVE RequestInv'
  BY <1>14 DEF ExpireAccess
<1>15. ASSUME NEW q \in Pairs, ExpireRefresh(q) PROVE RequestInv'
  BY <1>15 DEF ExpireRefresh
<1>16. CASE UNCHANGED vars
  BY <1>16 DEF vars
<1> QED
  BY <1>1, <1>2, <1>3, <1>4, <1>5, <1>6, <1>7, <1>8, <1>9, <1>10, <1>11, <1>12,
     <1>13, <1>14, <1>15, <1>16 DEF Next, ReqStep

(* Two requests never issue one pair. *)
LEMMA FreshStep ==
  ASSUME TypeOK, RowsInv, RequestInv, FreshInv, [Next]_vars
  PROVE  FreshInv'
<1> USE TokenConstants DEF TypeOK, RequestInv, FreshInv, locals, Goto, Answer
<1>1. ASSUME NEW r \in Reqs, NEW u \in Users, Login(r, u) PROVE FreshInv'
  BY <1>1 DEF Login
<1>2. ASSUME NEW r \in Reqs, NEW p \in Pairs, IssueAccess(r, p) PROVE FreshInv'
  BY <1>2 DEF IssueAccess
<1>3. ASSUME NEW r \in Reqs, IssueRefresh(r) PROVE FreshInv'
  BY <1>3 DEF IssueRefresh
<1>4. ASSUME NEW r \in Reqs, NEW p \in Pairs, RotateReuse(r, p) PROVE FreshInv'
  BY <1>4 DEF RotateReuse
<1>5. ASSUME NEW r \in Reqs, NEW p \in Pairs, RotateAccept(r, p) PROVE FreshInv'
  BY <1>5 DEF RotateAccept
<1>6. ASSUME NEW r \in Reqs, RotateRevoke(r) PROVE FreshInv'
  BY <1>6 DEF RotateRevoke
<1>7. ASSUME NEW r \in Reqs, FamilyRead(r) PROVE FreshInv'
  BY <1>7 DEF FamilyRead
<1>8. ASSUME NEW r \in Reqs, FamilyRevoke(r) PROVE FreshInv'
  BY <1>8 DEF FamilyRevoke
<1>9. ASSUME NEW r \in Reqs, NEW p \in Pairs, VerifyAccess(r, p) PROVE FreshInv'
  BY <1>9 DEF VerifyAccess
<1>10. ASSUME NEW r \in Reqs, Serve(r) PROVE FreshInv'
  BY <1>10 DEF Serve
<1>11. ASSUME NEW r \in Reqs, LogoutRead(r) PROVE FreshInv'
  BY <1>11 DEF LogoutRead
<1>12. ASSUME NEW r \in Reqs, LogoutRevoke(r) PROVE FreshInv'
  BY <1>12 DEF LogoutRevoke
<1>13. ASSUME NEW r \in Reqs, Fail(r) PROVE FreshInv'
  BY <1>13 DEF Fail
<1>14. ASSUME NEW q \in Pairs, ExpireAccess(q) PROVE FreshInv'
  BY <1>14 DEF ExpireAccess
<1>15. ASSUME NEW q \in Pairs, ExpireRefresh(q) PROVE FreshInv'
  BY <1>15 DEF ExpireRefresh
<1>16. CASE UNCHANGED vars
  BY <1>16 DEF vars
<1> QED
  BY <1>1, <1>2, <1>3, <1>4, <1>5, <1>6, <1>7, <1>8, <1>9, <1>10, <1>11, <1>12,
     <1>13, <1>14, <1>15, <1>16 DEF Next, ReqStep

(* A pair that died stays dead, and the steps that answer a logout, a family *)
(* revocation or a rotation have killed the pairs they answer for.           *)
LEMMA DeadStep ==
  ASSUME IndInv, [Next]_vars
  PROVE  /\ LoggedOutPairsAreDead'
         /\ DoomedPairsAreDead'
         /\ RotatedPairsAreDead'
<1> DEFINE Promises == /\ LoggedOutPairsAreDead'
                       /\ DoomedPairsAreDead'
                       /\ RotatedPairsAreDead'
<1> SUFFICES Promises
  OBVIOUS
<1> USE TokenConstants, RowsMoveForward DEF IndInv, TypeOK, RowsInv, RequestInv,
        LoggedOutPairsAreDead, DoomedPairsAreDead, RotatedPairsAreDead, Dead,
        rows, history, Revoke, RevokeAccessTokenById, RefreshRevoked, RowsOf
<1>1. ASSUME NEW r \in Reqs, NEW u \in Users, Login(r, u) PROVE Promises
  BY <1>1 DEF Login
<1>2. ASSUME NEW r \in Reqs, NEW p \in Pairs, IssueAccess(r, p) PROVE Promises
  BY <1>2 DEF IssueAccess
<1>3. ASSUME NEW r \in Reqs, IssueRefresh(r) PROVE Promises
  BY <1>3 DEF IssueRefresh
<1>4. ASSUME NEW r \in Reqs, NEW p \in Pairs, RotateReuse(r, p) PROVE Promises
  BY <1>4 DEF RotateReuse
<1>5. ASSUME NEW r \in Reqs, NEW p \in Pairs, RotateAccept(r, p) PROVE Promises
  BY <1>5 DEF RotateAccept
<1>6. ASSUME NEW r \in Reqs, RotateRevoke(r) PROVE Promises
  BY <1>6 DEF RotateRevoke
<1>7. ASSUME NEW r \in Reqs, FamilyRead(r) PROVE Promises
  BY <1>7 DEF FamilyRead
<1>8. ASSUME NEW r \in Reqs, FamilyRevoke(r) PROVE Promises
  BY <1>8 DEF FamilyRevoke
<1>9. ASSUME NEW r \in Reqs, NEW p \in Pairs, VerifyAccess(r, p) PROVE Promises
  BY <1>9 DEF VerifyAccess
<1>10. ASSUME NEW r \in Reqs, Serve(r) PROVE Promises
  BY <1>10 DEF Serve
<1>11. ASSUME NEW r \in Reqs, LogoutRead(r) PROVE Promises
  BY <1>11 DEF LogoutRead
<1>12. ASSUME NEW r \in Reqs, LogoutRevoke(r) PROVE Promises
  BY <1>12 DEF LogoutRevoke
<1>13. ASSUME NEW r \in Reqs, Fail(r) PROVE Promises
  BY <1>13 DEF Fail
<1>14. ASSUME NEW q \in Pairs, ExpireAccess(q) PROVE Promises
  BY <1>14 DEF ExpireAccess
<1>15. ASSUME NEW q \in Pairs, ExpireRefresh(q) PROVE Promises
  BY <1>15 DEF ExpireRefresh
<1>16. CASE UNCHANGED vars
  BY <1>16 DEF vars
<1> QED
  BY <1>1, <1>2, <1>3, <1>4, <1>5, <1>6, <1>7, <1>8, <1>9, <1>10, <1>11, <1>12,
     <1>13, <1>14, <1>15, <1>16 DEF Next, ReqStep

(* No step revokes a refresh row and leaves its access row live. *)
LEMMA RefreshDiesStep ==
  ASSUME IndInv, [Next]_vars
  PROVE  RefreshDiesWithAccess'
<1> USE TokenConstants, RowsMoveForward DEF IndInv, TypeOK, RowsInv, RequestInv,
        RefreshDiesWithAccess, rows, Revoke, RevokeAccessTokenById,
        RefreshRevoked, RowsOf
<1>1. ASSUME NEW r \in Reqs, NEW u \in Users, Login(r, u) PROVE RefreshDiesWithAccess'
  BY <1>1 DEF Login
<1>2. ASSUME NEW r \in Reqs, NEW p \in Pairs, IssueAccess(r, p) PROVE RefreshDiesWithAccess'
  BY <1>2 DEF IssueAccess
<1>3. ASSUME NEW r \in Reqs, IssueRefresh(r) PROVE RefreshDiesWithAccess'
  BY <1>3 DEF IssueRefresh
<1>4. ASSUME NEW r \in Reqs, NEW p \in Pairs, RotateReuse(r, p) PROVE RefreshDiesWithAccess'
  BY <1>4 DEF RotateReuse
<1>5. ASSUME NEW r \in Reqs, NEW p \in Pairs, RotateAccept(r, p) PROVE RefreshDiesWithAccess'
  BY <1>5 DEF RotateAccept
<1>6. ASSUME NEW r \in Reqs, RotateRevoke(r) PROVE RefreshDiesWithAccess'
  BY <1>6 DEF RotateRevoke
<1>7. ASSUME NEW r \in Reqs, FamilyRead(r) PROVE RefreshDiesWithAccess'
  BY <1>7 DEF FamilyRead
<1>8. ASSUME NEW r \in Reqs, FamilyRevoke(r) PROVE RefreshDiesWithAccess'
  BY <1>8 DEF FamilyRevoke
<1>9. ASSUME NEW r \in Reqs, NEW p \in Pairs, VerifyAccess(r, p) PROVE RefreshDiesWithAccess'
  BY <1>9 DEF VerifyAccess
<1>10. ASSUME NEW r \in Reqs, Serve(r) PROVE RefreshDiesWithAccess'
  BY <1>10 DEF Serve
<1>11. ASSUME NEW r \in Reqs, LogoutRead(r) PROVE RefreshDiesWithAccess'
  BY <1>11 DEF LogoutRead
<1>12. ASSUME NEW r \in Reqs, LogoutRevoke(r) PROVE RefreshDiesWithAccess'
  BY <1>12 DEF LogoutRevoke
<1>13. ASSUME NEW r \in Reqs, Fail(r) PROVE RefreshDiesWithAccess'
  BY <1>13 DEF Fail
<1>14. ASSUME NEW q \in Pairs, ExpireAccess(q) PROVE RefreshDiesWithAccess'
  BY <1>14 DEF ExpireAccess
<1>15. ASSUME NEW q \in Pairs, ExpireRefresh(q) PROVE RefreshDiesWithAccess'
  BY <1>15 DEF ExpireRefresh
<1>16. CASE UNCHANGED vars
  BY <1>16 DEF vars
<1> QED
  BY <1>1, <1>2, <1>3, <1>4, <1>5, <1>6, <1>7, <1>8, <1>9, <1>10, <1>11, <1>12,
     <1>13, <1>14, <1>15, <1>16 DEF Next, ReqStep

-----------------------------------------------------------------------------
(* The invariant is inductive. *)
LEMMA IndStep == IndInv /\ [Next]_vars => IndInv'
<1> SUFFICES ASSUME IndInv, [Next]_vars PROVE IndInv'
  OBVIOUS
<1>1. TypeOK' /\ RowsInv' /\ RequestInv' /\ FreshInv'
  BY TypeStep, RowsStep, RequestStep, FreshStep DEF IndInv
<1> QED
  BY <1>1, DeadStep, RefreshDiesStep DEF IndInv

(* The invariant that carries the results holds of every behaviour.          *)
THEOREM Invariance == Spec => []IndInv
BY InitInd, IndStep, PTL DEF Spec

(* Every variable keeps its type, for any number of users, pairs, requests.  *)
THEOREM TypeCorrect == Spec => []TypeOK
<1>1. IndInv => TypeOK
  BY DEF IndInv
<1> QED
  BY <1>1, Invariance, PTL

(* Logout is final: once it is answered 204 both halves of the pair are dead *)
(* and stay dead, whatever runs concurrently and whatever fails.             *)
THEOREM LogoutIsFinal == Spec => []LoggedOutPairsAreDead
<1>1. IndInv => LoggedOutPairsAreDead
  BY DEF IndInv
<1> QED
  BY <1>1, Invariance, PTL

(* Reuse detection kills every pair the user's clients held at its start.    *)
THEOREM ReuseKillsIssuedPairs == Spec => []DoomedPairsAreDead
<1>1. IndInv => DoomedPairsAreDead
  BY DEF IndInv
<1> QED
  BY <1>1, Invariance, PTL

(* No new pair is handed out while its predecessor is still usable.          *)
THEOREM RotationKillsPredecessor == Spec => []RotatedPairsAreDead
<1>1. IndInv => RotatedPairsAreDead
  BY DEF IndInv
<1> QED
  BY <1>1, Invariance, PTL

(* A revoked refresh token never leaves a usable access token behind.        *)
THEOREM RefreshNeverDiesAlone == Spec => []RefreshDiesWithAccess
<1>1. IndInv => RefreshDiesWithAccess
  BY DEF IndInv
<1> QED
  BY <1>1, Invariance, PTL

(* No request is admitted on a pair that was logged out, swept by a family   *)
(* revocation or rotated away: the guard's database check is enough, at any  *)
(* concurrency.                                                              *)
THEOREM DeadPairsAdmitNothing == Spec => NoAdmissionOnDeadPair
<1> DEFINE Refused ==
      \A r \in Reqs :
        pc[r] = "idle" /\ pc'[r] = "admitted" =>
          /\ reqPair'[r] \notin loggedOut \union doomed
          /\ \A q \in issued : parent[q] # reqPair'[r]
<1>1. IndInv /\ [Next]_vars => Refused
  <2> SUFFICES ASSUME IndInv, [Next]_vars, NEW r \in Reqs,
                      pc[r] = "idle", pc'[r] = "admitted"
               PROVE  /\ reqPair'[r] \notin loggedOut \union doomed
                      /\ \A q \in issued : parent[q] # reqPair'[r]
    OBVIOUS
  <2>1. PICK p \in Pairs : VerifyAccess(r, p)
    <3>1. PICK t \in Reqs : ReqStep(t)
      BY DEF Next, vars, locals, ExpireAccess, ExpireRefresh
    <3>2. \/ \E p \in Pairs : VerifyAccess(t, p)
          \/ \E step \in Steps \ {"admitted"} : pc' = [pc EXCEPT ![t] = step]
      BY <3>1 DEF ReqStep, Goto, Answer, Steps, Login, IssueAccess, IssueRefresh,
                  RotateReuse, RotateAccept, RotateRevoke, FamilyRead,
                  FamilyRevoke, Serve, LogoutRead, LogoutRevoke, Fail
    <3> QED
      BY <3>1, <3>2 DEF IndInv, TypeOK, VerifyAccess, Goto
  <2>2. reqPair'[r] = p /\ ~Dead(p)
    BY <2>1 DEF VerifyAccess, Goto, IndInv, TypeOK, Dead
  <2>3. p # NoPair
    BY TokenConstants
  <2> QED
    BY <2>2, <2>3 DEF IndInv, LoggedOutPairsAreDead, DoomedPairsAreDead,
                      RotatedPairsAreDead
<1> QED
  BY <1>1, Invariance, PTL DEF Spec, NoAdmissionOnDeadPair

(* A user's tokens are revoked only by a request that acts for that user.    *)
THEOREM OnlyOwnRequestsRevoke == Spec => RevokedByOwnRequest
<1> DEFINE Own ==
      \A p \in Pairs :
        (access[p] # access'[p] \/ refresh[p] # refresh'[p])
           /\ "revoked" \in {access'[p], refresh'[p]} =>
          \E r \in Reqs : pc[r] # "idle" /\ reqUser[r] = owner[p]
<1>1. IndInv /\ [Next]_vars => Own
  <2> SUFFICES ASSUME IndInv, [Next]_vars, NEW p \in Pairs,
                      access[p] # access'[p] \/ refresh[p] # refresh'[p],
                      access'[p] = "revoked" \/ refresh'[p] = "revoked"
               PROVE  \E r \in Reqs : pc[r] # "idle" /\ reqUser[r] = owner[p]
    OBVIOUS
  <2>1. PICK r \in Reqs : RotateRevoke(r) \/ FamilyRevoke(r) \/ LogoutRevoke(r)
                             \/ IssueRefresh(r) \/ \E q \in Pairs : IssueAccess(r, q)
    BY DEF IndInv, TypeOK, Next, ReqStep, vars, rows, Login, RotateReuse,
           RotateAccept, FamilyRead, VerifyAccess, Serve, LogoutRead, Fail,
           ExpireAccess, ExpireRefresh
  <2>2. CASE RotateRevoke(r) \/ LogoutRevoke(r)
    BY <2>2 DEF IndInv, TypeOK, RequestInv, RotateRevoke, LogoutRevoke,
                RevokeAccessTokenById, Revoke, RefreshRevoked
  <2>3. CASE FamilyRevoke(r)
    BY <2>3 DEF IndInv, TypeOK, RequestInv, FamilyRevoke, Revoke,
                RefreshRevoked, RowsOf
  <2>4. CASE IssueRefresh(r)
    BY <2>4 DEF IndInv, TypeOK, RequestInv, RefreshDiesWithAccess, RowsInv, IssueRefresh
  <2>5. CASE \E q \in Pairs : IssueAccess(r, q)
    BY <2>5, TokenConstants DEF IndInv, TypeOK, RowsInv, IssueAccess
  <2> QED
    BY <2>1, <2>2, <2>3, <2>4, <2>5
<1> QED
  BY <1>1, Invariance, PTL DEF Spec, RevokedByOwnRequest

-----------------------------------------------------------------------------
(* Without overlap what a request has read of the rows is still so: a pair  *)
(* to be traded or logged out is live, one that was reused is dead, and the *)
(* family is all of the user's rows.                                        *)
ReadsAreCurrent ==
  \A r \in Reqs :
    /\ pc[r] \in {"rotateRevoke", "admitted", "logoutRevoke"} => refresh[reqPair[r]] = "live"
    /\ pc[r] \in {"familyRead", "familyRevoke"} => refresh[reqPair[r]] = "revoked"
    /\ pc[r] = "familyRevoke" => reqIds[r] = RowsOf(reqUser[r])

(* It is kept by every step when there is one slot for requests.            *)
LEMMA ReadsStep ==
  ASSUME \A r, s \in Reqs : r = s, IndInv, ReadsAreCurrent, [Next]_vars
  PROVE  ReadsAreCurrent'
<1> USE TokenConstants DEF IndInv, TypeOK, ReadsAreCurrent, RowsInv, rows, history, expiry, locals,
        Goto, Answer, RowsOf
<1>1. ASSUME NEW r \in Reqs, NEW u \in Users, Login(r, u) PROVE ReadsAreCurrent'
  BY <1>1 DEF Login
<1>2. ASSUME NEW r \in Reqs, NEW p \in Pairs, IssueAccess(r, p) PROVE ReadsAreCurrent'
  BY <1>2 DEF IssueAccess
<1>3. ASSUME NEW r \in Reqs, IssueRefresh(r) PROVE ReadsAreCurrent'
  BY <1>3 DEF IssueRefresh
<1>4. ASSUME NEW r \in Reqs, NEW p \in Pairs, RotateReuse(r, p) PROVE ReadsAreCurrent'
  BY <1>4 DEF RotateReuse
<1>5. ASSUME NEW r \in Reqs, NEW p \in Pairs, RotateAccept(r, p) PROVE ReadsAreCurrent'
  BY <1>5 DEF RotateAccept, RowStates
<1>6. ASSUME NEW r \in Reqs, RotateRevoke(r) PROVE ReadsAreCurrent'
  BY <1>6 DEF RotateRevoke
<1>7. ASSUME NEW r \in Reqs, FamilyRead(r) PROVE ReadsAreCurrent'
  BY <1>7 DEF FamilyRead
<1>8. ASSUME NEW r \in Reqs, FamilyRevoke(r) PROVE ReadsAreCurrent'
  BY <1>8 DEF FamilyRevoke
<1>9. ASSUME NEW r \in Reqs, NEW p \in Pairs, VerifyAccess(r, p) PROVE ReadsAreCurrent'
  BY <1>9 DEF VerifyAccess, RefreshDiesWithAccess, RowStates
<1>10. ASSUME NEW r \in Reqs, Serve(r) PROVE ReadsAreCurrent'
  BY <1>10 DEF Serve
<1>11. ASSUME NEW r \in Reqs, LogoutRead(r) PROVE ReadsAreCurrent'
  BY <1>11 DEF LogoutRead
<1>12. ASSUME NEW r \in Reqs, LogoutRevoke(r) PROVE ReadsAreCurrent'
  BY <1>12 DEF LogoutRevoke
<1>13. ASSUME NEW r \in Reqs, Fail(r) PROVE ReadsAreCurrent'
  BY <1>13 DEF Fail
<1>14. ASSUME NEW p \in Pairs, ExpireAccess(p) PROVE ReadsAreCurrent'
  BY <1>14 DEF ExpireAccess
<1>15. ASSUME NEW p \in Pairs, ExpireRefresh(p) PROVE ReadsAreCurrent'
  BY <1>15 DEF ExpireRefresh
<1>16. CASE UNCHANGED vars
  BY <1>16 DEF vars
<1> QED
  BY <1>1, <1>2, <1>3, <1>4, <1>5, <1>6, <1>7, <1>8, <1>9, <1>10, <1>11, <1>12,
     <1>13, <1>14, <1>15, <1>16 DEF Next, ReqStep

(* FamiliesDieWhole: the transaction of revokeFamily leaves no half of any  *)
(* pair of its user alive when requests do not overlap.                     *)
THEOREM FamiliesDieWhole ==
  ASSUME \A r, s \in Reqs : r = s
  PROVE  Spec => FamilyRevocationIsComplete
<1> DEFINE Complete ==
      \A r \in Reqs : FamilyRevoke(r) =>
        \A p \in RowsOf(reqUser[r]) : "live" \notin {access'[p], refresh'[p]}
<1>1. Init => ReadsAreCurrent
  BY DEF Init, ReadsAreCurrent
<1>2. IndInv /\ ReadsAreCurrent /\ [Next]_vars => ReadsAreCurrent'
  BY ReadsStep
<1>3. ReadsAreCurrent => Complete
  BY DEF ReadsAreCurrent, FamilyRevoke, Revoke, RefreshRevoked, RowsOf
<1> QED
  BY <1>1, <1>2, <1>3, Invariance, PTL DEF Spec, FamilyRevocationIsComplete

-----------------------------------------------------------------------------
(* The owed pairs of a user, with one slot: one or none.                    *)
LEMMA OneIsOwed ==
  ASSUME \A r, s \in Reqs : r = s, NEW T \in SUBSET Reqs
  PROVE  Cardinality(T) = IF T = {} THEN 0 ELSE 1
<1>1. CASE T = {}
  BY <1>1, FS_EmptySet
<1>2. CASE T # {}
  <2>1. PICK r \in T : T = {r}
    BY <1>2
  <2> QED
    BY <2>1, FS_Singleton, <1>2
<1> QED
  BY <1>1, <1>2

(* What Sessions sees of a state: pairs, their holders and what is owed.    *)
Seen   == [p \in Pairs |-> PairState(p)]
Held   == [p \in Pairs |-> IF p \in issued THEN owner[p] ELSE NoUser]
Due    == [u \in Users |-> Cardinality(Entitled(u))]

(* A request is owed a pair from its login or its revocation on.            *)
Owing(step) == step \in {"issueAccess", "issueRefresh"}

(* What a step of the only request does to what is owed.                    *)
LEMMA DueIs ==
  ASSUME \A r, s \in Reqs : r = s, NEW r \in Reqs
  PROVE  /\ Due = [u \in Users |-> IF Owing(pc[r]) /\ reqUser[r] = u THEN 1 ELSE 0]
         /\ Due' = [u \in Users |-> IF Owing(pc'[r]) /\ reqUser'[r] = u THEN 1 ELSE 0]
<1>1. ASSUME NEW u \in Users
      PROVE  /\ Cardinality(Entitled(u)) = IF Owing(pc[r]) /\ reqUser[r] = u THEN 1 ELSE 0
             /\ Cardinality(Entitled(u)') = IF Owing(pc'[r]) /\ reqUser'[r] = u THEN 1 ELSE 0
  <2>1. Entitled(u) \in SUBSET Reqs /\ Entitled(u)' \in SUBSET Reqs
    BY DEF Entitled
  <2>2. /\ Entitled(u) = {} <=> ~(Owing(pc[r]) /\ reqUser[r] = u)
        /\ Entitled(u)' = {} <=> ~(Owing(pc'[r]) /\ reqUser'[r] = u)
    BY DEF Entitled, Owing
  <2>3. /\ Cardinality(Entitled(u)) = IF Entitled(u) = {} THEN 0 ELSE 1
        /\ Cardinality(Entitled(u)') = IF Entitled(u)' = {} THEN 0 ELSE 1
    BY <2>1, OneIsOwed
  <2> QED
    BY <2>2, <2>3
<1>2. Due' = [u \in Users |-> Cardinality(Entitled(u)')]
  BY DEF Due
<1> QED
  BY <1>1, <1>2 DEF Due

(* Sessions in terms of Seen, Held and Due. *)
LEMMA SessionsAre ==
  /\ S!vars = <<Seen, Held, Due>>
  /\ S!Init <=> /\ Seen = [p \in Pairs |-> "unused"]
                /\ Held = [p \in Pairs |-> NoUser]
                /\ Due = [u \in Users |-> 0]
BY DEF S!vars, S!Init, Seen, Held, Due

(* Nothing that Sessions sees has moved. *)
Unseen == UNCHANGED <<Seen, Held, Due>>

(* What Sessions sees of a pair, before and after a step.                   *)
LEMMA SeenIs ==
  /\ Seen = [p \in Pairs |-> IF p \notin issued THEN "unused"
                             ELSE IF refresh[p] = "live" THEN "live" ELSE "dead"]
  /\ Seen' = [p \in Pairs |-> IF p \notin issued' THEN "unused"
                              ELSE IF refresh'[p] = "live" THEN "live" ELSE "dead"]
<1>1. ASSUME NEW p \in Pairs
      PROVE  /\ PairState(p) = IF p \notin issued THEN "unused"
                               ELSE IF refresh[p] = "live" THEN "live" ELSE "dead"
             /\ PairState(p)' = IF p \notin issued' THEN "unused"
                                ELSE IF refresh'[p] = "live" THEN "live" ELSE "dead"
  <2>1. /\ p \notin issued => PairState(p) = "unused"
        /\ p \in issued /\ refresh[p] = "live" => PairState(p) = "live"
        /\ p \in issued /\ refresh[p] # "live" => PairState(p) = "dead"
    BY DEF PairState
  <2>2. /\ p \notin issued' => PairState(p)' = "unused"
        /\ p \in issued' /\ refresh'[p] = "live" => PairState(p)' = "live"
        /\ p \in issued' /\ refresh'[p] # "live" => PairState(p)' = "dead"
    BY DEF PairState
  <2> QED
    BY <2>1, <2>2
<1>2. Seen' = [p \in Pairs |-> PairState(p)']
  BY DEF Seen
<1> QED
  BY <1>1, <1>2 DEF Seen

(* Init maps to the initial state of Sessions. *)
LEMMA SessionsInitially ==
  ASSUME \A r, s \in Reqs : r = s, Init
  PROVE  S!Init
<1>1. Seen = [p \in Pairs |-> "unused"] /\ Held = [p \in Pairs |-> NoUser]
  BY SeenIs DEF Init, Held
<1>2. ASSUME NEW u \in Users PROVE Cardinality(Entitled(u)) = 0
  <2>1. Entitled(u) = {}
    BY DEF Init, Entitled
  <2> QED
    BY <2>1, FS_EmptySet
<1> QED
  BY <1>1, <1>2, SessionsAre DEF Due

(* Every step of the only request is a step of Sessions, or unseen.         *)
LEMMA SessionsStep ==
  ASSUME \A r, s \in Reqs : r = s, IndInv, ReadsAreCurrent, [Next]_vars
  PROVE  [S!Next]_(S!vars)
<1> SUFFICES S!Next \/ Unseen
  BY DEF Unseen, S!vars, Seen, Held, Due
<1> USE DEF IndInv, TypeOK, Goto, Answer
<1>0. \A p \in Pairs : p # NoPair
  BY TokenConstants
<1>1. ASSUME NEW r \in Reqs, NEW u \in Users, Login(r, u) PROVE S!SignIn(u)
  <2>1. Seen' = Seen /\ Held' = Held
    BY <1>1, SeenIs DEF Login, rows, history, Held
  <2>2. Due' = [Due EXCEPT ![u] = @ + 1]
    BY <1>1, DueIs DEF Login, Owing
  <2> QED
    BY <2>1, <2>2 DEF S!SignIn, Seen, Held, Due
<1>2. ASSUME NEW r \in Reqs, NEW p \in Pairs, IssueAccess(r, p) PROVE Unseen
  <2>1. Seen' = Seen /\ Held' = Held
    BY <1>2, TokenConstants, SeenIs DEF IssueAccess, RowsInv, Held
  <2>2. Due' = Due
    BY <1>2, DueIs DEF IssueAccess, Owing
  <2> QED
    BY <2>1, <2>2 DEF Unseen
<1>3. ASSUME NEW r \in Reqs, IssueRefresh(r)
      PROVE  \E u \in Users, p \in Pairs : S!Grant(u, p)
  <2>1. PICK u \in Users, p \in Pairs \ issued :
          reqUser[r] = u /\ reqPair[r] = p /\ owner[p] = u
    BY <1>3 DEF IssueRefresh, RequestInv
  <2>2. /\ Seen[p] = "unused"
        /\ Seen' = [Seen EXCEPT ![p] = "live"]
        /\ Held' = [Held EXCEPT ![p] = u]
    BY <1>3, <2>1, SeenIs DEF IssueRefresh, Held
  <2>3. Due[u] > 0 /\ Due' = [Due EXCEPT ![u] = @ - 1]
    BY <1>3, <2>1, DueIs DEF IssueRefresh, Owing
  <2>4. S!Grant(u, p)
    BY <2>2, <2>3 DEF S!Grant, Seen, Held, Due
  <2> QED
    BY <2>4
<1>4. ASSUME NEW r \in Reqs,
             (\E p \in Pairs : RotateReuse(r, p) \/ RotateAccept(r, p) \/ VerifyAccess(r, p))
               \/ FamilyRead(r) \/ Serve(r) \/ LogoutRead(r)
      PROVE  Unseen
  <2>1. Seen' = Seen /\ Held' = Held
    BY <1>4, SeenIs DEF RotateReuse, RotateAccept, VerifyAccess, FamilyRead, Serve, LogoutRead,
                rows, history, Held
  <2>2. ~Owing(pc[r]) /\ ~Owing(pc'[r])
    BY <1>4 DEF RotateReuse, RotateAccept, VerifyAccess, FamilyRead, Serve, LogoutRead, Owing
  <2> QED
    BY <2>1, <2>2, DueIs DEF Unseen
<1>5. ASSUME NEW r \in Reqs, RotateRevoke(r) PROVE S!Spend(reqPair[r])
  <2>1. /\ reqPair[r] \in issued /\ refresh[reqPair[r]] = "live" /\ reqUser[r] \in Users
        /\ owner[reqPair[r]] = reqUser[r] /\ Held[reqPair[r]] = reqUser[r]
    BY <1>5 DEF RotateRevoke, RequestInv, ReadsAreCurrent, Held
  <2>2. /\ Seen[reqPair[r]] = "live" /\ Held' = Held
        /\ Seen' = [Seen EXCEPT ![reqPair[r]] = "dead"]
    BY <1>5, <2>1, SeenIs DEF RotateRevoke, RevokeAccessTokenById, Revoke, RefreshRevoked, history,
                      Held
  <2>3. Due' = [Due EXCEPT ![reqUser[r]] = @ + 1]
    BY <1>5, <2>1, DueIs DEF RotateRevoke, Owing
  <2> QED
    BY <2>1, <2>2, <2>3 DEF S!Spend, Seen, Held, Due
<1>6. ASSUME NEW r \in Reqs, LogoutRevoke(r) PROVE S!Logout(reqPair[r])
  <2>1. reqPair[r] \in issued /\ refresh[reqPair[r]] = "live"
    BY <1>6 DEF LogoutRevoke, RequestInv, ReadsAreCurrent
  <2>2. /\ Seen[reqPair[r]] = "live" /\ Held' = Held
        /\ Seen' = [Seen EXCEPT ![reqPair[r]] = "dead"]
    BY <1>6, <2>1, SeenIs DEF LogoutRevoke, RevokeAccessTokenById, Revoke, RefreshRevoked,
                      Held
  <2>3. Due' = Due
    BY <1>6, DueIs DEF LogoutRevoke, Owing
  <2> QED
    BY <2>2, <2>3 DEF S!Logout, Seen, Held, Due
<1>7. ASSUME NEW r \in Reqs, FamilyRevoke(r) PROVE S!PunishReuse(reqPair[r])
  <2>1. /\ reqPair[r] \in issued /\ refresh[reqPair[r]] = "revoked"
        /\ owner[reqPair[r]] = reqUser[r] /\ reqIds[r] = {p \in Pairs : owner[p] = reqUser[r]}
    BY <1>7 DEF FamilyRevoke, RequestInv, ReadsAreCurrent, RowsOf
  <2>2. Seen[reqPair[r]] = "dead" /\ Held[reqPair[r]] = reqUser[r] /\ Held' = Held
    BY <1>7, <2>1, SeenIs DEF FamilyRevoke, Held
  <2>3. ASSUME NEW q \in Pairs
        PROVE  Seen'[q] = IF Held[q] = reqUser[r] /\ Seen[q] = "live" THEN "dead" ELSE Seen[q]
    <3>1. Seen'[q] = IF q \notin issued THEN "unused"
                     ELSE IF refresh'[q] = "live" THEN "live" ELSE "dead"
      BY <1>7, SeenIs DEF FamilyRevoke
    <3>2. refresh'[q] = IF owner[q] = reqUser[r] /\ refresh[q] # "absent" THEN "revoked"
                        ELSE refresh[q]
      BY <1>7, <2>1 DEF FamilyRevoke, Revoke, RefreshRevoked
    <3>3. reqUser[r] # NoUser
      BY <1>7, TokenConstants DEF FamilyRevoke
    <3> QED
      BY <3>1, <3>2, <3>3, SeenIs DEF RowsInv, Held
  <2>4. Seen' = [q \in Pairs |-> IF Held[q] = Held[reqPair[r]] /\ Seen[q] = "live"
                                 THEN "dead" ELSE Seen[q]]
    BY <2>2, <2>3, SeenIs
  <2>5. Due' = Due
    BY <1>7, DueIs DEF FamilyRevoke, Owing
  <2> QED
    BY <2>2, <2>4, <2>5 DEF S!PunishReuse, Seen, Held, Due
<1>8. ASSUME NEW r \in Reqs, Fail(r) PROVE S!Forfeit(reqUser[r]) \/ Unseen
  <2>1. Seen' = Seen /\ Held' = Held
    BY <1>8, SeenIs DEF Fail, rows, history, Held
  <2>2. CASE Owing(pc[r])
    <3>1. Due[reqUser[r]] > 0 /\ Due' = [Due EXCEPT ![reqUser[r]] = @ - 1]
      BY <1>8, <2>2, DueIs DEF Fail, Owing
    <3> QED
      BY <2>1, <3>1 DEF S!Forfeit, Seen, Held, Due
  <2>3. CASE ~Owing(pc[r])
    BY <1>8, <2>1, <2>3, DueIs DEF Fail, Owing, Unseen
  <2> QED
    BY <2>2, <2>3
<1>9. ASSUME NEW p \in Pairs, ExpireAccess(p) \/ ExpireRefresh(p) PROVE Unseen
  BY <1>9, SeenIs DEF ExpireAccess, ExpireRefresh, rows, locals, history, Unseen, Held, Due, Entitled
<1>10. CASE UNCHANGED vars
  BY <1>10, SeenIs DEF vars, rows, locals, history, Unseen, Held, Due, Entitled
<1>11. ASSUME NEW r \in Reqs, pc[r] # "idle" PROVE reqUser[r] \in Users
  BY <1>11
<1>12. ASSUME NEW r \in Reqs, pc[r] \in {"rotateRevoke", "logoutRevoke", "familyRevoke"}
       PROVE  reqPair[r] \in Pairs
  BY <1>12 DEF RequestInv
<1>13. ASSUME NEW r \in Reqs, ReqStep(r) PROVE S!Next \/ Unseen
  <2>1. CASE \E u \in Users : Login(r, u)
    BY <2>1, <1>1 DEF S!Next
  <2>2. CASE IssueRefresh(r)
    BY <2>2, <1>3 DEF S!Next
  <2>3. CASE RotateRevoke(r)
    <3>1. reqPair[r] \in Pairs
      BY <2>3, <1>12 DEF RotateRevoke
    <3> QED
      BY <2>3, <3>1, <1>5 DEF S!Next
  <2>4. CASE LogoutRevoke(r)
    <3>1. reqPair[r] \in Pairs
      BY <2>4, <1>12 DEF LogoutRevoke
    <3> QED
      BY <2>4, <3>1, <1>6 DEF S!Next
  <2>5. CASE FamilyRevoke(r)
    <3>1. reqPair[r] \in Pairs
      BY <2>5, <1>12 DEF FamilyRevoke
    <3> QED
      BY <2>5, <3>1, <1>7 DEF S!Next
  <2>6. CASE Fail(r)
    <3>1. reqUser[r] \in Users
      BY <2>6, <1>11 DEF Fail
    <3> QED
      BY <2>6, <3>1, <1>8 DEF S!Next
  <2> QED
    BY <1>2, <1>4, <1>13, <2>1, <2>2, <2>3, <2>4, <2>5, <2>6 DEF ReqStep
<1> QED
  BY <1>9, <1>10, <1>13 DEF Next

(* SerialRequestsImplementSessions: when no two requests overlap, the token *)
(* service implements Sessions: a live pair is traded for one pair, and a   *)
(* reuse kills the family, for any number of users and pairs.               *)
THEOREM SerialRequestsImplementSessions ==
  ASSUME \A r, s \in Reqs : r = s
  PROVE  Spec => ImplementsSessions
<1>1. Init => S!Init
  BY SessionsInitially
<1>2. Init => ReadsAreCurrent
  BY DEF Init, ReadsAreCurrent
<1>3. IndInv /\ ReadsAreCurrent /\ [Next]_vars => ReadsAreCurrent'
  BY ReadsStep
<1>4. IndInv /\ ReadsAreCurrent /\ [Next]_vars => [S!Next]_(S!vars)
  BY SessionsStep
<1> QED
  BY <1>1, <1>2, <1>3, <1>4, Invariance, PTL DEF Spec, ImplementsSessions, S!Spec

=============================================================================
