------------------------------ MODULE BffProofs ------------------------------
(***************************************************************************)
(* Results about the BFF, for every number of users, token pairs and       *)
(* concurrent requests of the browser, with failed calls and lost answers: *)
(* nobody is served as another user, nothing runs twice, and a browser     *)
(* whose requests neither overlap nor fail stays signed in.                *)
(***************************************************************************)
EXTENDS Bff, TokenServiceProofs

(* What the cookies say of a session: pairs that were issued, the same one  *)
(* in both unless one of them has gone.                                     *)
IsJar(a, b) ==
  /\ a \in issued \union {NoPair} /\ b \in issued \union {NoPair}
  /\ a = NoPair \/ b = NoPair \/ a = b

(* A request of the browser knows pairs that were issued only. *)
CookieOK(r) ==
  call[r] # NoCall =>
    /\ IsJar(call[r].access, call[r].refresh)
    /\ call[r].effect \in {"keep", "clear"} \union issued

(* Which backend request runs at each stage of a handler, and for whom. *)
StageOK(r) ==
  /\ call[r] = NoCall => pc[r] = "idle"
  /\ call[r].at \in {"first", "rotate", "retry", "reply"} => pc[r] = "idle"
  /\ call[r].at = "login" => pc[r] \in {"issueAccess", "issueRefresh"}
  /\ call[r].at = "serving" =>
       /\ pc[r] \in {"admitted", "logoutRevoke"} /\ reqPair[r] = call[r].access
       /\ pc[r] = "logoutRevoke" => call[r].kind = "logout"
  /\ call[r].at = "rotating" =>
       /\ pc[r] \in {"rotateRevoke", "issueAccess", "issueRefresh"}
       /\ call[r].refresh \in issued /\ owner[call[r].refresh] = reqUser[r]
  /\ call[r].at = "punishing" => pc[r] \in {"familyRead", "familyRevoke"}
  /\ call[r].at \in {"retry", "retrying"} =>
       /\ call[r].effect \in issued /\ call[r].refresh \in issued
       /\ owner[call[r].effect] = owner[call[r].refresh]
       /\ call[r].kind \in {"me", "get", "delete"}
  /\ call[r].at = "retrying" => pc[r] = "admitted" /\ reqPair[r] = call[r].effect

(* What kinds of requests get to a stage, and how often the handler ran. *)
KindOK(r) ==
  call[r] # NoCall =>
    /\ call[r].at = "login" => call[r].kind = "login"
    /\ call[r].kind = "logout" => call[r].at \in {"first", "serving", "reply"}
    /\ call[r].at \in {"login", "first", "rotate", "rotating", "punishing", "retry"}
         => call[r].runs = 0
    /\ call[r].runs \in {0, 1}

HandlerInv ==
  /\ IsJar(access_cookie, refresh_cookie)
  /\ \A r \in Reqs : CookieOK(r) /\ StageOK(r) /\ KindOK(r)

(* A token that was never issued has not expired. *)
ExpiryInv == \A p \in aExpired : access[p] # "absent"

BffInv == IndInv /\ BffTypeOK /\ HandlerInv /\ ExpiryInv

(* What a request that is alone and unharmed finds and brings: until it     *)
(* rotates, the refresh cookie it carried is live and in the jar; what it   *)
(* answers with is live, and it signs out only where nothing is left.       *)
SoundCall(r) ==
  /\ call[r].at \in {"first", "rotate"} \/ (call[r].at = "serving" /\ call[r].kind # "logout") =>
       /\ refresh_cookie \in {call[r].refresh, NoPair}
       /\ call[r].refresh # NoPair => refresh[call[r].refresh] = "live"
  /\ call[r].at # "punishing"
  /\ pc[r] = "issueRefresh" => access[reqPair[r]] = "live" /\ reqPair[r] \notin aExpired
  /\ call[r].at \in {"retry", "retrying"} => refresh[call[r].effect] = "live"
  /\ call[r].at = "retry" => Valid(call[r].effect)
  /\ call[r].at = "reply" =>
       /\ call[r].effect = "keep" /\ refresh_cookie # NoPair => refresh[refresh_cookie] = "live"
       /\ call[r].effect \in Pairs => refresh[call[r].effect] = "live"
       /\ call[r].effect = "clear" /\ call[r].kind # "logout" /\ refresh_cookie # NoPair
            => refresh_cookie \in rExpired

SessionInv ==
  mishaps = {} =>
    /\ \A r, t \in Reqs : call[r] # NoCall /\ call[t] # NoCall => r = t
    /\ Quiet /\ refresh_cookie # NoPair => refresh[refresh_cookie] = "live"
    /\ \A r \in Reqs : call[r] # NoCall => SoundCall(r)

-----------------------------------------------------------------------------
(* One step of a request of the browser. *)
Step(r) ==
  \/ \E k \in Kinds : Send(r, k)
  \/ \E u \in Users : SendLogin(r, u)
  \/ Handler(r)
  \/ Receive(r)
  \/ Lose(r)

(* What the type says of a request in flight. *)
LEMMA CallFacts ==
  ASSUME BffInv, NEW r \in Reqs, call[r] # NoCall
  PROVE  /\ call[r] \in Calls
         /\ call[r].at \in Stages /\ call[r].kind \in AllKinds \union {"login"}
         /\ call[r].access \in Pairs \union {NoPair} /\ call[r].refresh \in Pairs \union {NoPair}
         /\ call[r].effect \in Effects /\ call[r].runs \in {0, 1}
<1>1. call[r] \in Calls
  BY DEF BffInv, BffTypeOK
<1> QED
  BY <1>1 DEF Calls, BffInv, HandlerInv, KindOK

(* A pair is issued to a login or to a request that rotates. *)
LEMMA PairFacts ==
  ASSUME BffInv, NEW r \in Reqs, pc[r] = "issueRefresh"
  PROVE  /\ call[r] \in Calls /\ call[r].at \in {"login", "rotating"}
         /\ call[r].kind \in {"login", "refresh", "me", "get", "delete", "post"}
         /\ reqPair[r] \in Pairs
<1>1. call[r] # NoCall
  BY DEF BffInv, HandlerInv, StageOK
<1>2. call[r].at \in {"login", "rotating"}
  BY <1>1, CallFacts DEF BffInv, HandlerInv, StageOK, Stages
<1>3. call[r].kind # "logout"
  BY <1>1, <1>2 DEF BffInv, HandlerInv, KindOK
<1> QED
  BY <1>1, <1>2, <1>3, CallFacts DEF AllKinds, BffInv, IndInv, RequestInv

(* The three ways a handler goes on keep the type of its record. *)
LEMMA ReplyType ==
  ASSUME BffInv, NEW r \in Reqs, call[r] # NoCall, NEW e \in Effects, Reply(r, e)
  PROVE  call'[r] \in Calls
<1>1. call[r] \in Calls /\ call'[r] = [call[r] EXCEPT !.at = "reply", !.effect = e]
  BY CallFacts DEF Reply, BffInv, BffTypeOK
<1> QED
  BY <1>1 DEF Calls, Stages

(* ... when it makes its next call, ... *)
LEMMA ProceedType ==
  ASSUME BffInv, NEW r \in Reqs, call[r] # NoCall, NEW s \in Stages, Proceed(r, s)
  PROVE  call'[r] \in Calls
<1>1. call[r] \in Calls /\ call'[r] = [call[r] EXCEPT !.at = s]
  BY CallFacts DEF Proceed, BffInv, BffTypeOK
<1> QED
  BY <1>1 DEF Calls

(* ... and when the guard admits it, which has happened at most once before. *)
LEMMA AdmittedType ==
  ASSUME BffInv, NEW r \in Reqs, call[r] # NoCall, NEW s \in Stages, Admitted(r, s)
  PROVE  call'[r] \in Calls
<1>1. call[r] \in Calls /\ call'[r] = [call[r] EXCEPT !.at = s, !.runs = @ + 1]
  BY CallFacts DEF Admitted, BffInv, BffTypeOK
<1>2. call[r].runs + 1 \in 0..2
  BY CallFacts
<1> QED
  BY <1>1, <1>2 DEF Calls

(* Where the answer of the refresh takes each kind of request. *)
LEMMA PairReply ==
  ASSUME BffInv, NEW r \in Reqs, PairReceived(r)
  PROVE  /\ call[r].kind \in {"login", "refresh"} =>
              call'[r] = [call[r] EXCEPT !.at = "reply", !.effect = reqPair[r]]
         /\ call[r].kind \in {"me", "get", "delete"} =>
              call'[r] = [call[r] EXCEPT !.at = "retry", !.effect = reqPair[r]]
         /\ call[r].kind = "post" =>
              call'[r] = [call[r] EXCEPT !.at = "reply", !.effect = "keep"]
BY DEF PairReceived, Reply, BffInv, BffTypeOK

(* The same, of the fields a property looks at. *)
LEMMA PairReplyFields ==
  ASSUME BffInv, NEW r \in Reqs, PairReceived(r)
  PROVE  /\ call[r].kind \in {"login", "refresh"} =>
              call'[r].at = "reply" /\ call'[r].effect = reqPair[r] /\ call'[r] # NoCall
         /\ call[r].kind \in {"me", "get", "delete"} =>
              call'[r].at = "retry" /\ call'[r].effect = reqPair[r] /\ call'[r] # NoCall
<1>1. call[r] \in Calls
  BY PairFacts DEF PairReceived, IssueRefresh
<1>2. \A c : c.at \in {"reply", "retry"} => c # NoCall
  BY DEF NoCall
<1>3. call[r].kind \in {"login", "refresh"} =>
        call'[r].at = "reply" /\ call'[r].effect = reqPair[r]
  BY <1>1, PairReply DEF Calls
<1>4. call[r].kind \in {"me", "get", "delete"} =>
        call'[r].at = "retry" /\ call'[r].effect = reqPair[r]
  BY <1>1, PairReply DEF Calls
<1> QED
  BY <1>2, <1>3, <1>4

(* A logout that was served clears the cookies. *)
LEMMA LogoutReply ==
  ASSUME BffInv, NEW r \in Reqs, LogoutServed(r)
  PROVE  /\ call'[r].at = "reply" /\ call'[r].effect = "clear" /\ call'[r].kind = "logout"
         /\ call'[r] # NoCall /\ pc'[r] = "idle"
<1>1. pc[r] = "logoutRevoke" /\ pc'[r] = "idle" /\ call[r].at = "serving"
  BY DEF LogoutServed, LogoutRevoke, Answer, At, BffInv, IndInv, TypeOK
<1>2. call[r] # NoCall
  BY <1>1 DEF NoCall
<1>3. call[r] \in Calls /\ call[r].kind = "logout"
  BY <1>1, <1>2, CallFacts DEF BffInv, HandlerInv, StageOK
<1>4. call'[r] = [call[r] EXCEPT !.at = "reply", !.effect = "clear"]
  BY DEF LogoutServed, Reply, BffInv, BffTypeOK
<1>5. call'[r].at = "reply" /\ call'[r].effect = "clear" /\ call'[r].kind = "logout"
  BY <1>3, <1>4 DEF Calls
<1> QED
  BY <1>1, <1>5 DEF NoCall

(* What the BFF makes the backend do is what the backend can do. *)
LEMMA TokenStep ==
  ASSUME IndInv, NEW r \in Reqs, Step(r)
  PROVE  UNCHANGED vars \/ ReqStep(r)
<1> USE DEF IndInv, TypeOK, ReqStep
<1>1. ASSUME NEW k \in Kinds, Send(r, k) PROVE UNCHANGED vars \/ ReqStep(r)
  BY <1>1 DEF Send
<1>2. ASSUME NEW u \in Users, SendLogin(r, u) PROVE UNCHANGED vars \/ ReqStep(r)
  BY <1>2 DEF SendLogin
<1>3. ASSUME FirstAdmitted(r) PROVE UNCHANGED vars \/ ReqStep(r)
  BY <1>3 DEF FirstAdmitted, VerifyAccess
<1>4. ASSUME FirstRefused(r) PROVE UNCHANGED vars \/ ReqStep(r)
  BY <1>4 DEF FirstRefused
<1>5. ASSUME FirstServed(r) PROVE UNCHANGED vars \/ ReqStep(r)
  BY <1>5 DEF FirstServed, Rebuilt
<1>6. ASSUME LogoutFinds(r) PROVE UNCHANGED vars \/ ReqStep(r)
  BY <1>6 DEF LogoutFinds
<1>7. ASSUME LogoutServed(r) PROVE UNCHANGED vars \/ ReqStep(r)
  BY <1>7 DEF LogoutServed
<1>8. ASSUME RefreshAccepted(r) PROVE UNCHANGED vars \/ ReqStep(r)
  BY <1>8 DEF RefreshAccepted, RotateAccept
<1>9. ASSUME RefreshReused(r) PROVE UNCHANGED vars \/ ReqStep(r)
  BY <1>9 DEF RefreshReused, RotateReuse
<1>10. ASSUME RefreshRefused(r) PROVE UNCHANGED vars \/ ReqStep(r)
  BY <1>10 DEF RefreshRefused
<1>11. ASSUME RefreshRevokes(r) PROVE UNCHANGED vars \/ ReqStep(r)
  BY <1>11 DEF RefreshRevokes
<1>12. ASSUME FamilyFound(r) PROVE UNCHANGED vars \/ ReqStep(r)
  BY <1>12 DEF FamilyFound
<1>13. ASSUME FamilyRevoked(r) PROVE UNCHANGED vars \/ ReqStep(r)
  BY <1>13 DEF FamilyRevoked
<1>14. ASSUME NEW p \in Pairs, PairWritten(r, p) PROVE UNCHANGED vars \/ ReqStep(r)
  BY <1>14 DEF PairWritten
<1>15. ASSUME PairReceived(r) PROVE UNCHANGED vars \/ ReqStep(r)
  BY <1>15 DEF PairReceived
<1>16. ASSUME RetryAdmitted(r) PROVE UNCHANGED vars \/ ReqStep(r)
  BY <1>16 DEF RetryAdmitted, VerifyAccess
<1>17. ASSUME RetryRefused(r) PROVE UNCHANGED vars \/ ReqStep(r)
  BY <1>17 DEF RetryRefused
<1>18. ASSUME RetryServed(r) PROVE UNCHANGED vars \/ ReqStep(r)
  BY <1>18 DEF RetryServed, Rebuilt
<1>19. ASSUME Failed(r) PROVE UNCHANGED vars \/ ReqStep(r)
  BY <1>19 DEF Failed
<1>20. ASSUME Receive(r) PROVE UNCHANGED vars \/ ReqStep(r)
  BY <1>20 DEF Receive
<1>21. ASSUME Lose(r) PROVE UNCHANGED vars \/ ReqStep(r)
  BY <1>21 DEF Lose
<1> QED
  BY <1>1, <1>2, <1>3, <1>4, <1>5, <1>6, <1>7, <1>8, <1>9, <1>10, <1>11, <1>12, <1>13,
     <1>14, <1>15, <1>16, <1>17, <1>18, <1>19, <1>20, <1>21
     DEF Step, Handler

(* What a request of the browser has to itself. *)
Local(t) == <<call[t], pc[t], reqUser[t], reqPair[t]>>

(* A step of one request leaves the others where they are. *)
LEMMA LocalStep ==
  ASSUME BffInv, NEW r \in Reqs, Step(r), NEW t \in Reqs \ {r}
  PROVE  UNCHANGED Local(t)
<1> USE DEF Local, BffInv, IndInv, TypeOK, BffTypeOK, vars, locals
<1>1. ASSUME NEW k \in Kinds, Send(r, k) PROVE UNCHANGED Local(t)
  BY <1>1 DEF Send
<1>2. ASSUME NEW u \in Users, SendLogin(r, u) PROVE UNCHANGED Local(t)
  BY <1>2 DEF SendLogin, Login, Goto
<1>3. ASSUME FirstAdmitted(r) PROVE UNCHANGED Local(t)
  BY <1>3 DEF FirstAdmitted, VerifyAccess, Goto, Admitted
<1>4. ASSUME FirstRefused(r) PROVE UNCHANGED Local(t)
  BY <1>4 DEF FirstRefused, Proceed, Reply
<1>5. ASSUME FirstServed(r) PROVE UNCHANGED Local(t)
  BY <1>5 DEF FirstServed, Rebuilt, Serve, Answer, Reply
<1>6. ASSUME LogoutFinds(r) PROVE UNCHANGED Local(t)
  BY <1>6 DEF LogoutFinds, LogoutRead, Goto, bffVars
<1>7. ASSUME LogoutServed(r) PROVE UNCHANGED Local(t)
  BY <1>7 DEF LogoutServed, LogoutRevoke, Answer, Reply
<1>8. ASSUME RefreshAccepted(r) PROVE UNCHANGED Local(t)
  BY <1>8 DEF RefreshAccepted, RotateAccept, Goto, Proceed
<1>9. ASSUME RefreshReused(r) PROVE UNCHANGED Local(t)
  BY <1>9 DEF RefreshReused, RotateReuse, Goto, Proceed
<1>10. ASSUME RefreshRefused(r) PROVE UNCHANGED Local(t)
  BY <1>10 DEF RefreshRefused, Reply
<1>11. ASSUME RefreshRevokes(r) PROVE UNCHANGED Local(t)
  BY <1>11 DEF RefreshRevokes, RotateRevoke, Goto, bffVars
<1>12. ASSUME FamilyFound(r) PROVE UNCHANGED Local(t)
  BY <1>12 DEF FamilyFound, FamilyRead, bffVars
<1>13. ASSUME FamilyRevoked(r) PROVE UNCHANGED Local(t)
  BY <1>13 DEF FamilyRevoked, FamilyRevoke, Answer, Reply
<1>14. ASSUME NEW p \in Pairs, PairWritten(r, p) PROVE UNCHANGED Local(t)
  BY <1>14 DEF PairWritten, IssueAccess, Goto, bffVars
<1>15. ASSUME PairReceived(r) PROVE UNCHANGED Local(t)
  <2>1. CASE call[r].kind \in {"login", "refresh"}
    BY <1>15, <2>1 DEF PairReceived, IssueRefresh, Answer, Reply
  <2>2. CASE call[r].kind \in {"me", "get", "delete"}
    BY <1>15, <2>2 DEF PairReceived, IssueRefresh, Answer, Reply
  <2>3. CASE call[r].kind = "post"
    BY <1>15, <2>3 DEF PairReceived, IssueRefresh, Answer, Reply
  <2>4. call[r].kind \in {"login", "refresh", "me", "get", "delete", "post"}
    BY <1>15, PairFacts DEF PairReceived, IssueRefresh
  <2> QED
    BY <2>1, <2>2, <2>3, <2>4
<1>16. ASSUME RetryAdmitted(r) PROVE UNCHANGED Local(t)
  BY <1>16 DEF RetryAdmitted, VerifyAccess, Goto, Admitted
<1>17. ASSUME RetryRefused(r) PROVE UNCHANGED Local(t)
  BY <1>17 DEF RetryRefused, Reply
<1>18. ASSUME RetryServed(r) PROVE UNCHANGED Local(t)
  BY <1>18 DEF RetryServed, Rebuilt, Serve, Answer, Reply
<1>19. ASSUME Failed(r) PROVE UNCHANGED Local(t)
  BY <1>19 DEF Failed, Fail, Answer, Reply, OnError, OnThrow
<1>20. ASSUME Receive(r) PROVE UNCHANGED Local(t)
  BY <1>20 DEF Receive
<1>21. ASSUME Lose(r) PROVE UNCHANGED Local(t)
  BY <1>21 DEF Lose
<1> QED
  BY <1>1, <1>2, <1>3, <1>4, <1>5, <1>6, <1>7, <1>8, <1>9, <1>10, <1>11, <1>12, <1>13,
     <1>14, <1>15, <1>16, <1>17, <1>18, <1>19, <1>20, <1>21
     DEF Step, Handler

(* Tokens of the past stay what they were. *)
LEMMA IssuedStay ==
  ASSUME IndInv, [Next]_vars
  PROVE  /\ issued \subseteq issued'
         /\ \A p \in issued : owner'[p] = owner[p]
BY RowsMoveForward, TokenConstants DEF IndInv, TypeOK, RowsInv

(* What is known of a request and of the cookies. *)
Known(r) ==
  /\ CookieOK(r) /\ StageOK(r) /\ KindOK(r)
  /\ IsJar(access_cookie, refresh_cookie)

(* A step of a request keeps what is known of it and of the cookies. *)
LEMMA CallStep ==
  ASSUME BffInv, NEW r \in Reqs, Step(r), issued \subseteq issued',
         \A p \in issued : owner'[p] = owner[p]
  PROVE  Known(r)'
<1> USE TokenConstants, BffConstants
        DEF Known, BffInv, HandlerInv, IndInv, TypeOK, RequestInv, BffTypeOK, CookieOK,
            StageOK, KindOK, IsJar, At, Calls, NoCall, Effects, vars, locals, rows, history,
            jar
<1>1. ASSUME NEW k \in Kinds, Send(r, k) PROVE Known(r)'
  BY <1>1 DEF Send
<1>2. ASSUME NEW u \in Users, SendLogin(r, u) PROVE Known(r)'
  BY <1>2 DEF SendLogin, Login, Goto
<1>3. ASSUME FirstAdmitted(r) PROVE Known(r)'
  BY <1>3 DEF FirstAdmitted, VerifyAccess, Goto, Admitted
<1>4. ASSUME FirstRefused(r) PROVE Known(r)'
  BY <1>4 DEF FirstRefused, Proceed, Reply
<1>5. ASSUME FirstServed(r) PROVE Known(r)'
  BY <1>5 DEF FirstServed, Rebuilt, Serve, Answer, Reply
<1>6. ASSUME LogoutFinds(r) PROVE Known(r)'
  BY <1>6 DEF LogoutFinds, LogoutRead, Goto, bffVars
<1>7. ASSUME LogoutServed(r) PROVE Known(r)'
  BY <1>7 DEF LogoutServed, LogoutRevoke, Answer, Reply
<1>8. ASSUME RefreshAccepted(r) PROVE Known(r)'
  BY <1>8 DEF RefreshAccepted, RotateAccept, Goto, Proceed
<1>9. ASSUME RefreshReused(r) PROVE Known(r)'
  BY <1>9 DEF RefreshReused, RotateReuse, Goto, Proceed
<1>10. ASSUME RefreshRefused(r) PROVE Known(r)'
  BY <1>10 DEF RefreshRefused, Reply
<1>11. ASSUME RefreshRevokes(r) PROVE Known(r)'
  BY <1>11 DEF RefreshRevokes, RotateRevoke, Goto, bffVars
<1>12. ASSUME FamilyFound(r) PROVE Known(r)'
  BY <1>12 DEF FamilyFound, FamilyRead, bffVars
<1>13. ASSUME FamilyRevoked(r) PROVE Known(r)'
  BY <1>13 DEF FamilyRevoked, FamilyRevoke, Answer, Reply
<1>14. ASSUME NEW p \in Pairs, PairWritten(r, p) PROVE Known(r)'
  BY <1>14 DEF PairWritten, IssueAccess, Goto, bffVars
<1>15. ASSUME PairReceived(r)
      PROVE Known(r)'
  <2>0. /\ call[r] \in Calls /\ call[r].at \in {"login", "rotating"} /\ reqPair[r] \in Pairs
        /\ issued' = issued \union {reqPair[r]} /\ pc'[r] = "idle"
        /\ owner[reqPair[r]] = reqUser[r] /\ UNCHANGED <<owner, jar>>
    BY <1>15, PairFacts DEF PairReceived, IssueRefresh, Answer
  <2>1. CASE call[r].kind \in {"login", "refresh"}
    <3>1. call'[r] = [call[r] EXCEPT !.at = "reply", !.effect = reqPair[r]]
      BY <1>15, <2>1, PairReply
    <3> QED
      BY <2>0, <3>1
  <2>2. CASE call[r].kind \in {"me", "get", "delete"}
    <3>1. call'[r] = [call[r] EXCEPT !.at = "retry", !.effect = reqPair[r]]
      BY <1>15, <2>2, PairReply
    <3>2. call[r].at = "rotating"
      BY <2>0, <2>2
    <3> QED
      BY <2>0, <2>2, <3>1, <3>2
  <2>3. CASE call[r].kind = "post"
    <3>1. call'[r] = [call[r] EXCEPT !.at = "reply", !.effect = "keep"]
      BY <1>15, <2>3, PairReply
    <3> QED
      BY <2>0, <3>1
  <2> QED
    BY <1>15, <2>1, <2>2, <2>3, PairFacts DEF PairReceived, IssueRefresh
<1>16. ASSUME RetryAdmitted(r) PROVE Known(r)'
  BY <1>16 DEF RetryAdmitted, VerifyAccess, Goto, Admitted
<1>17. ASSUME RetryRefused(r) PROVE Known(r)'
  BY <1>17 DEF RetryRefused, Reply
<1>18. ASSUME RetryServed(r) PROVE Known(r)'
  BY <1>18 DEF RetryServed, Rebuilt, Serve, Answer, Reply
<1>19. ASSUME Failed(r) PROVE Known(r)'
  BY <1>19 DEF Failed, Fail, Answer, Reply, OnError, OnThrow
<1>20. ASSUME Receive(r) PROVE Known(r)'
  BY <1>20 DEF Receive
<1>21. ASSUME Lose(r) PROVE Known(r)'
  BY <1>21 DEF Lose
<1> QED
  BY <1>1, <1>2, <1>3, <1>4, <1>5, <1>6, <1>7, <1>8, <1>9, <1>10, <1>11, <1>12, <1>13,
     <1>14, <1>15, <1>16, <1>17, <1>18, <1>19, <1>20, <1>21
     DEF Step, Handler

(* A request in flight keeps its type. *)
LEMMA CallTypeStep ==
  ASSUME BffInv, NEW r \in Reqs, Step(r)
  PROVE  call'[r] \in Calls \union {NoCall}
<1> USE CallFacts DEF At, NoCall, Effects, Stages, bffVars
<1>1. ASSUME NEW k \in Kinds, Send(r, k) PROVE call'[r] \in Calls \union {NoCall}
  BY <1>1, BffConstants DEF Send, BffInv, HandlerInv, BffTypeOK, Calls, AllKinds
<1>2. ASSUME NEW u \in Users, SendLogin(r, u) PROVE call'[r] \in Calls \union {NoCall}
  BY <1>2, BffConstants DEF SendLogin, BffInv, HandlerInv, BffTypeOK, Calls, AllKinds
<1>3. ASSUME FirstAdmitted(r) PROVE call'[r] \in Calls \union {NoCall}
  BY <1>3, ReplyType, ProceedType, AdmittedType DEF FirstAdmitted, VerifyAccess
<1>4. ASSUME FirstRefused(r) PROVE call'[r] \in Calls \union {NoCall}
  BY <1>4, ReplyType, ProceedType, AdmittedType DEF FirstRefused
<1>5. ASSUME FirstServed(r) PROVE call'[r] \in Calls \union {NoCall}
  BY <1>5, ReplyType, ProceedType, AdmittedType DEF FirstServed, Rebuilt, Serve
<1>6. ASSUME LogoutFinds(r) PROVE call'[r] \in Calls \union {NoCall}
  BY <1>6 DEF LogoutFinds, BffInv, BffTypeOK
<1>7. ASSUME LogoutServed(r) PROVE call'[r] \in Calls \union {NoCall}
  BY <1>7, ReplyType, ProceedType, AdmittedType DEF LogoutServed, LogoutRevoke
<1>8. ASSUME RefreshAccepted(r) PROVE call'[r] \in Calls \union {NoCall}
  BY <1>8, ReplyType, ProceedType, AdmittedType DEF RefreshAccepted, RotateAccept
<1>9. ASSUME RefreshReused(r) PROVE call'[r] \in Calls \union {NoCall}
  BY <1>9, ReplyType, ProceedType, AdmittedType DEF RefreshReused, RotateReuse
<1>10. ASSUME RefreshRefused(r) PROVE call'[r] \in Calls \union {NoCall}
  BY <1>10, ReplyType, ProceedType, AdmittedType DEF RefreshRefused
<1>11. ASSUME RefreshRevokes(r) PROVE call'[r] \in Calls \union {NoCall}
  BY <1>11 DEF RefreshRevokes, BffInv, BffTypeOK
<1>12. ASSUME FamilyFound(r) PROVE call'[r] \in Calls \union {NoCall}
  BY <1>12 DEF FamilyFound, BffInv, BffTypeOK
<1>13. ASSUME FamilyRevoked(r) PROVE call'[r] \in Calls \union {NoCall}
  BY <1>13, ReplyType, ProceedType, AdmittedType DEF FamilyRevoked, FamilyRevoke
<1>14. ASSUME NEW p \in Pairs, PairWritten(r, p) PROVE call'[r] \in Calls \union {NoCall}
  BY <1>14 DEF PairWritten, BffInv, BffTypeOK
<1>15. ASSUME PairReceived(r) PROVE call'[r] \in Calls \union {NoCall}
  <2>0. call[r] \in Calls /\ call[r] # NoCall /\ reqPair[r] \in Effects
    BY <1>15, PairFacts DEF PairReceived, IssueRefresh
  <2>1. CASE call[r].kind \in {"login", "refresh"}
    <3>1. Reply(r, reqPair[r])
      BY <1>15, <2>1 DEF PairReceived
    <3> QED
      BY <2>0, <3>1, ReplyType
  <2>2. CASE call[r].kind \in {"me", "get", "delete"}
    <3>1. call' = [call EXCEPT ![r].at = "retry", ![r].effect = reqPair[r]]
      BY <1>15, <2>2 DEF PairReceived
    <3>2. call'[r] = [call[r] EXCEPT !.at = "retry", !.effect = reqPair[r]]
      BY <3>1 DEF BffInv, BffTypeOK
    <3> QED
      BY <2>0, <3>2 DEF Calls
  <2>3. CASE call[r].kind = "post"
    BY <1>15, <2>0, <2>3, ReplyType DEF PairReceived
  <2> QED
    BY <1>15, <2>1, <2>2, <2>3, PairFacts DEF PairReceived, IssueRefresh
<1>16. ASSUME RetryAdmitted(r) PROVE call'[r] \in Calls \union {NoCall}
  BY <1>16, ReplyType, ProceedType, AdmittedType DEF RetryAdmitted, VerifyAccess
<1>17. ASSUME RetryRefused(r) PROVE call'[r] \in Calls \union {NoCall}
  <2>1. CASE call[r].kind = "me"
    BY <1>17, <2>1, ReplyType DEF RetryRefused
  <2>2. CASE call[r].kind # "me"
    <3>1. Reply(r, call[r].effect)
      BY <1>17, <2>2 DEF RetryRefused
    <3>2. call[r] # NoCall /\ call[r].effect \in Effects
      BY <1>17, CallFacts DEF RetryRefused
    <3> QED
      BY <3>1, <3>2, ReplyType
  <2> QED
    BY <2>1, <2>2
<1>18. ASSUME RetryServed(r) PROVE call'[r] \in Calls \union {NoCall}
  <2>1. CASE call[r].kind = "delete"
    BY <1>18, <2>1, ReplyType DEF RetryServed, Rebuilt
  <2>2. CASE call[r].kind # "delete"
    <3>1. Reply(r, call[r].effect)
      BY <1>18, <2>2 DEF RetryServed, Rebuilt
    <3>2. call[r] # NoCall /\ call[r].effect \in Effects
      BY <1>18, CallFacts DEF RetryServed, Rebuilt
    <3> QED
      BY <3>1, <3>2, ReplyType
  <2> QED
    BY <2>1, <2>2
<1>19. ASSUME Failed(r) PROVE call'[r] \in Calls \union {NoCall}
  BY <1>19, ReplyType, ProceedType, AdmittedType DEF Failed, Fail, OnError, OnThrow
<1>20. ASSUME Receive(r) PROVE call'[r] \in Calls \union {NoCall}
  BY <1>20 DEF Receive, BffInv, BffTypeOK
<1>21. ASSUME Lose(r) PROVE call'[r] \in Calls \union {NoCall}
  BY <1>21 DEF Lose, BffInv, BffTypeOK
<1> QED
  BY <1>1, <1>2, <1>3, <1>4, <1>5, <1>6, <1>7, <1>8, <1>9, <1>10, <1>11, <1>12, <1>13,
     <1>14, <1>15, <1>16, <1>17, <1>18, <1>19, <1>20, <1>21
     DEF Step, Handler

(* The rest keeps its own. *)
LEMMA RestTypeStep ==
  ASSUME BffInv, NEW r \in Reqs, Step(r)
  PROVE  mishaps' \subseteq Mishaps /\ call' = [call EXCEPT ![r] = call'[r]]
<1> USE DEF BffInv, BffTypeOK, IndInv, TypeOK, Note, Overlaps, Mishaps, bffVars
<1>1. ASSUME NEW k \in Kinds, Send(r, k)
      PROVE mishaps' \subseteq Mishaps /\ call' = [call EXCEPT ![r] = call'[r]]
  BY <1>1 DEF Send
<1>2. ASSUME NEW u \in Users, SendLogin(r, u)
      PROVE mishaps' \subseteq Mishaps /\ call' = [call EXCEPT ![r] = call'[r]]
  <2>1. CASE Overlaps(r) = {}
    BY <1>2, <2>1 DEF SendLogin
  <2>2. CASE Overlaps(r) # {}
    BY <1>2, <2>2 DEF SendLogin
  <2> QED
    BY <2>1, <2>2
<1>3. ASSUME FirstAdmitted(r)
      PROVE mishaps' \subseteq Mishaps /\ call' = [call EXCEPT ![r] = call'[r]]
  BY <1>3 DEF FirstAdmitted, VerifyAccess, Goto, Admitted
<1>4. ASSUME FirstRefused(r)
      PROVE mishaps' \subseteq Mishaps /\ call' = [call EXCEPT ![r] = call'[r]]
  BY <1>4 DEF FirstRefused, Proceed, Reply
<1>5. ASSUME FirstServed(r)
      PROVE mishaps' \subseteq Mishaps /\ call' = [call EXCEPT ![r] = call'[r]]
  BY <1>5 DEF FirstServed, Rebuilt, Serve, Answer, Reply
<1>6. ASSUME LogoutFinds(r)
      PROVE mishaps' \subseteq Mishaps /\ call' = [call EXCEPT ![r] = call'[r]]
  BY <1>6 DEF LogoutFinds, LogoutRead, Goto, bffVars
<1>7. ASSUME LogoutServed(r)
      PROVE mishaps' \subseteq Mishaps /\ call' = [call EXCEPT ![r] = call'[r]]
  BY <1>7 DEF LogoutServed, LogoutRevoke, Answer, Reply
<1>8. ASSUME RefreshAccepted(r)
      PROVE mishaps' \subseteq Mishaps /\ call' = [call EXCEPT ![r] = call'[r]]
  BY <1>8 DEF RefreshAccepted, RotateAccept, Goto, Proceed
<1>9. ASSUME RefreshReused(r)
      PROVE mishaps' \subseteq Mishaps /\ call' = [call EXCEPT ![r] = call'[r]]
  BY <1>9 DEF RefreshReused, RotateReuse, Goto, Proceed
<1>10. ASSUME RefreshRefused(r)
      PROVE mishaps' \subseteq Mishaps /\ call' = [call EXCEPT ![r] = call'[r]]
  BY <1>10 DEF RefreshRefused, Reply
<1>11. ASSUME RefreshRevokes(r)
      PROVE mishaps' \subseteq Mishaps /\ call' = [call EXCEPT ![r] = call'[r]]
  BY <1>11 DEF RefreshRevokes, RotateRevoke, Goto, bffVars
<1>12. ASSUME FamilyFound(r)
      PROVE mishaps' \subseteq Mishaps /\ call' = [call EXCEPT ![r] = call'[r]]
  BY <1>12 DEF FamilyFound, FamilyRead, bffVars
<1>13. ASSUME FamilyRevoked(r)
      PROVE mishaps' \subseteq Mishaps /\ call' = [call EXCEPT ![r] = call'[r]]
  BY <1>13 DEF FamilyRevoked, FamilyRevoke, Answer, Reply
<1>14. ASSUME NEW p \in Pairs, PairWritten(r, p)
      PROVE mishaps' \subseteq Mishaps /\ call' = [call EXCEPT ![r] = call'[r]]
  BY <1>14 DEF PairWritten, IssueAccess, Goto, bffVars
<1>15. ASSUME PairReceived(r)
      PROVE mishaps' \subseteq Mishaps /\ call' = [call EXCEPT ![r] = call'[r]]
  <2>1. CASE call[r].kind \in {"login", "refresh"}
    BY <1>15, <2>1, PairFacts DEF PairReceived, IssueRefresh, Answer, Reply
  <2>2. CASE call[r].kind \in {"me", "get", "delete"}
    BY <1>15, <2>2, PairFacts DEF PairReceived, IssueRefresh, Answer, Reply
  <2>3. CASE call[r].kind = "post"
    BY <1>15, <2>3, PairFacts DEF PairReceived, IssueRefresh, Answer, Reply
  <2>4. call[r].kind \in {"login", "refresh", "me", "get", "delete", "post"}
    BY <1>15, PairFacts DEF PairReceived, IssueRefresh
  <2> QED
    BY <2>1, <2>2, <2>3, <2>4
<1>16. ASSUME RetryAdmitted(r)
      PROVE mishaps' \subseteq Mishaps /\ call' = [call EXCEPT ![r] = call'[r]]
  BY <1>16 DEF RetryAdmitted, VerifyAccess, Goto, Admitted
<1>17. ASSUME RetryRefused(r)
      PROVE mishaps' \subseteq Mishaps /\ call' = [call EXCEPT ![r] = call'[r]]
  BY <1>17 DEF RetryRefused, Reply
<1>18. ASSUME RetryServed(r)
      PROVE mishaps' \subseteq Mishaps /\ call' = [call EXCEPT ![r] = call'[r]]
  BY <1>18 DEF RetryServed, Rebuilt, Serve, Answer, Reply
<1>19. ASSUME Failed(r) PROVE mishaps' \subseteq Mishaps /\ call' = [call EXCEPT ![r] = call'[r]]
  BY <1>19 DEF Failed, Fail, Answer, Reply, OnError, OnThrow
<1>20. ASSUME Receive(r) PROVE mishaps' \subseteq Mishaps /\ call' = [call EXCEPT ![r] = call'[r]]
  BY <1>20 DEF Receive
<1>21. ASSUME Lose(r) PROVE mishaps' \subseteq Mishaps /\ call' = [call EXCEPT ![r] = call'[r]]
  BY <1>21 DEF Lose
<1> QED
  BY <1>1, <1>2, <1>3, <1>4, <1>5, <1>6, <1>7, <1>8, <1>9, <1>10, <1>11, <1>12, <1>13,
     <1>14, <1>15, <1>16, <1>17, <1>18, <1>19, <1>20, <1>21
     DEF Step, Handler

(* A token that expires has a row, and rows stay. *)
LEMMA ExpiryStep ==
  ASSUME IndInv, ExpiryInv, [Next]_vars
  PROVE  ExpiryInv'
<1>1. \A p \in aExpired' : p \in aExpired \/ access[p] # "absent"
  BY DEF Next, ReqStep, Login, IssueAccess, IssueRefresh, RotateReuse, RotateAccept, RotateRevoke,
     FamilyRead, FamilyRevoke, VerifyAccess, Serve, LogoutRead, LogoutRevoke, Fail, ExpireAccess,
     ExpireRefresh, vars, expiry
<1>2. ASSUME NEW p \in Pairs, access[p] # "absent" PROVE access'[p] # "absent"
  <2>1. owner[p] # NoUser /\ owner'[p] = owner[p]
    BY <1>2, RowsMoveForward DEF IndInv, RowsInv
  <2>2. RowsInv'
    BY RowsStep DEF IndInv
  <2> QED
    BY <2>1, <2>2 DEF RowsInv
<1>3. TypeOK'
  BY TypeStep DEF IndInv
<1> QED
  BY <1>1, <1>2, <1>3 DEF ExpiryInv, IndInv, TypeOK

(* Every step of the BFF is a step of the token service or leaves it alone. *)
LEMMA TokenNext == BffInv /\ [BffNext]_allVars => [Next]_vars
<1> SUFFICES ASSUME BffInv, [BffNext]_allVars PROVE [Next]_vars
  OBVIOUS
<1>1. ASSUME NEW r \in Reqs, Step(r) PROVE [Next]_vars
  BY <1>1, TokenStep DEF BffInv, Next
<1>2. CASE DropRefreshCookie
  BY <1>2 DEF DropRefreshCookie
<1>3. ASSUME NEW p \in Pairs, Expire(p) PROVE [Next]_vars
  BY <1>3 DEF Expire, Next
<1>4. CASE UNCHANGED allVars
  BY <1>4 DEF allVars
<1> QED
  BY <1>1, <1>2, <1>3, <1>4 DEF BffNext, Step

(* A step of one request keeps what is known of all. *)
LEMMA HandlerStep ==
  ASSUME BffInv, [Next]_vars, NEW r \in Reqs, Step(r)
  PROVE  HandlerInv'
<1>1. issued \subseteq issued' /\ \A p \in issued : owner'[p] = owner[p]
  BY IssuedStay DEF BffInv
<1>2. Known(r)'
  BY <1>1, CallStep
<1>3. ASSUME NEW t \in Reqs \ {r} PROVE CookieOK(t)' /\ StageOK(t)' /\ KindOK(t)'
  <2>1. /\ call'[t] = call[t] /\ pc'[t] = pc[t]
        /\ reqUser'[t] = reqUser[t] /\ reqPair'[t] = reqPair[t]
    BY LocalStep DEF Local
  <2>2. CookieOK(t) /\ StageOK(t) /\ KindOK(t)
    BY DEF BffInv, HandlerInv
  <2>3. CookieOK(t)'
    BY <1>1, <2>1, <2>2 DEF CookieOK, IsJar
  <2>4. StageOK(t)'
    BY <1>1, <2>1, <2>2 DEF StageOK
  <2>5. KindOK(t)'
    BY <2>1, <2>2 DEF KindOK
  <2> QED
    BY <2>3, <2>4, <2>5
<1> QED
  BY <1>2, <1>3 DEF HandlerInv, Known

(* Every step of the BFF keeps the invariant. *)
LEMMA BffInvStep == BffInv /\ [BffNext]_allVars => BffInv'
<1> SUFFICES ASSUME BffInv, [BffNext]_allVars PROVE BffInv'
  OBVIOUS
<1>1. [Next]_vars
  BY TokenNext
<1>2. IndInv' /\ ExpiryInv'
  BY <1>1, IndStep, ExpiryStep DEF BffInv
<1>3. ASSUME NEW r \in Reqs, Step(r) PROVE HandlerInv' /\ BffTypeOK'
  <2>1. HandlerInv'
    BY <1>1, <1>3, HandlerStep
  <2>2. call' \in [Reqs -> Calls \union {NoCall}]
    BY <1>3, CallTypeStep, RestTypeStep DEF BffInv, BffTypeOK
  <2>3. access_cookie' \in Pairs \union {NoPair} /\ refresh_cookie' \in Pairs \union {NoPair}
    BY <2>1, <1>2 DEF HandlerInv, IsJar, IndInv, TypeOK
  <2> QED
    BY <1>2, <1>3, <2>1, <2>2, <2>3, RestTypeStep DEF BffTypeOK, IndInv
<1>4. ASSUME ~ \E r \in Reqs : Step(r) PROVE HandlerInv' /\ BffTypeOK'
  <2>1. UNCHANGED <<issued, owner, pc, reqUser, reqPair, call>>
    BY <1>4 DEF BffNext, Step, DropRefreshCookie, Expire, ExpireAccess, ExpireRefresh, allVars,
       bffVars, vars, rows, locals, history
  <2>2. /\ access_cookie' \in {access_cookie, NoPair}
        /\ refresh_cookie' \in {refresh_cookie, NoPair}
        /\ mishaps' \subseteq mishaps \union {"slow"}
    BY <1>4 DEF BffNext, Step, DropRefreshCookie, Expire, Note, allVars, bffVars, jar
  <2>3. HandlerInv'
    BY <2>1, <2>2 DEF BffInv, HandlerInv, CookieOK, StageOK, KindOK, IsJar
  <2>4. BffTypeOK'
    BY <1>2, <2>1, <2>2 DEF BffInv, BffTypeOK, IndInv, Mishaps
  <2> QED
    BY <2>3, <2>4
<1> QED
  BY <1>2, <1>3, <1>4 DEF BffInv

(* The invariant holds of every behaviour.  HandlerInv says what a handler  *)
(* may rely on between two calls of the backend while other answers rewrite *)
(* the cookies: which backend request is its own, and for whom it acts.     *)
THEOREM BffInvariance == BffSpec => []BffInv
<1>1. BffInit => BffInv
  <2> SUFFICES ASSUME BffInit PROVE BffInv
    OBVIOUS
  <2>1. IndInv
    BY InitInd DEF BffInit
  <2>2. HandlerInv
    BY DEF BffInit, Init, HandlerInv, IsJar, CookieOK, StageOK, KindOK, NoCall
  <2>3. BffTypeOK /\ ExpiryInv
    BY <2>1 DEF BffInit, Init, BffTypeOK, IndInv, ExpiryInv
  <2> QED
    BY <2>1, <2>2, <2>3 DEF BffInv
<1> QED
  BY <1>1, BffInvStep, PTL DEF BffSpec

(* The token service behind the BFF is the token service: its theorems hold *)
(* of the two together.                                                     *)
THEOREM BffKeepsTokenService == BffSpec => Spec
<1>1. BffInit => Init
  BY DEF BffInit
<1> QED
  BY <1>1, TokenNext, BffInvariance, PTL DEF BffSpec, Spec

(* Every variable keeps its type. *)
THEOREM BffTypesCorrect == BffSpec => []BffTypeOK
<1>1. BffInv => BffTypeOK
  BY DEF BffInv
<1> QED
  BY <1>1, BffInvariance, PTL

(* Nobody is served as somebody else, whatever happens to the jar. *)
THEOREM NobodyIsServedAsAnother == BffSpec => []ServedAsSender
<1>1. BffInv => ServedAsSender
  <2> SUFFICES ASSUME BffInv, NEW r \in Reqs, pc[r] = "admitted",
                      NEW p \in {call[r].access, call[r].refresh} \ {NoPair}
               PROVE  owner[p] = reqUser[r]
    BY DEF ServedAsSender
  <2>1. StageOK(r) /\ CookieOK(r) /\ owner[reqPair[r]] = reqUser[r]
    BY DEF BffInv, HandlerInv, IndInv, RequestInv
  <2>2. call[r] # NoCall
    BY <2>1 DEF StageOK
  <2>3. call[r].at \in {"serving", "retrying"}
    BY <2>1, <2>2, CallFacts DEF StageOK, Stages
  <2>4. reqPair[r] \in issued /\ NoPair \notin issued
    BY TokenConstants DEF BffInv, IndInv, RequestInv, TypeOK
  <2>5. CASE call[r].at = "serving"
    BY <2>1, <2>2, <2>4, <2>5 DEF StageOK, CookieOK, IsJar
  <2>6. CASE call[r].at = "retrying"
    BY <2>1, <2>2, <2>4, <2>6 DEF StageOK, CookieOK, IsJar
  <2> QED
    BY <2>3, <2>5, <2>6
<1> QED
  BY <1>1, BffInvariance, PTL

(* No request of the browser runs a handler of the backend twice. *)
THEOREM NothingRunsTwice == BffSpec => []AtMostOnce
<1>1. BffInv => AtMostOnce
  BY DEF BffInv, HandlerInv, KindOK, AtMostOnce
<1> QED
  BY <1>1, BffInvariance, PTL

-----------------------------------------------------------------------------
(* The session survives. *)

(* A browser without mishaps has one request in flight, unless it has just  *)
(* begun to sign in.                                                        *)
LEMMA AloneStep ==
  ASSUME BffInv, SessionInv, NEW r \in Reqs, Step(r), mishaps' = {}
  PROVE  /\ \A t \in Reqs \ {r} : call[t] = NoCall
         /\ mishaps = {} \/ \E u \in Users : SendLogin(r, u)
<1> USE DEF Note
<1>1. ASSUME NEW k \in Kinds, Send(r, k) PROVE mishaps = {} /\ Overlaps(r) = {}
  BY <1>1 DEF Send
<1>2. ASSUME NEW u \in Users, SendLogin(r, u) PROVE Overlaps(r) = {}
  BY <1>2 DEF SendLogin
<1>3. ASSUME Handler(r) \/ Receive(r) \/ Lose(r)
      PROVE  mishaps = {} /\ call[r] # NoCall
  <2>1. mishaps = {}
    <3>1. CASE PairReceived(r)
      BY <3>1, PairFacts DEF PairReceived, IssueRefresh
    <3>2. CASE RetryServed(r)
      BY <3>2 DEF RetryServed, Rebuilt
    <3>3. CASE ~PairReceived(r) /\ ~RetryServed(r)
      BY <1>3, <3>3 DEF Handler, Receive, Lose, FirstAdmitted, FirstRefused, FirstServed,
         LogoutFinds, LogoutServed, RefreshAccepted, RefreshReused, RefreshRefused, RefreshRevokes,
         FamilyFound, FamilyRevoked, PairWritten, RetryAdmitted, RetryRefused, Failed, bffVars
    <3> QED
      BY <3>1, <3>2, <3>3
  <2>2. pc[r] # "idle" \/ call[r].at \in Stages => call[r] # NoCall
    BY DEF BffInv, HandlerInv, StageOK, NoCall, Stages
  <2>3. pc[r] # "idle" \/ call[r].at \in Stages \/ call[r] # NoCall
    BY <1>3 DEF Handler, Receive, Lose, FirstAdmitted, FirstRefused, FirstServed, LogoutFinds,
       LogoutServed, RefreshAccepted, RefreshReused, RefreshRefused, RefreshRevokes, FamilyFound,
       FamilyRevoked, PairWritten, PairReceived, RetryAdmitted, RetryRefused, RetryServed, Failed,
       RotateRevoke, FamilyRead, IssueAccess, IssueRefresh, At, Stages
  <2> QED
    BY <2>1, <2>2, <2>3
<1>4. ASSUME Overlaps(r) = {} PROVE \A t \in Reqs \ {r} : call[t] = NoCall
  BY <1>4 DEF Overlaps
<1>5. ASSUME mishaps = {}, call[r] # NoCall PROVE \A t \in Reqs \ {r} : call[t] = NoCall
  BY <1>5 DEF SessionInv
<1> QED
  BY <1>1, <1>2, <1>3, <1>4, <1>5 DEF Step

(* What such a request leaves behind. *)
Left(r) ==
  /\ call[r] # NoCall => SoundCall(r)
  /\ call[r] = NoCall /\ refresh_cookie # NoPair => refresh[refresh_cookie] = "live"

(* ... is sound, if what it found was. *)
LEMMA LeftStep ==
  ASSUME BffInv, BffInv', SessionInv, NEW r \in Reqs, Step(r), mishaps' = {}, mishaps = {},
         \A t \in Reqs \ {r} : call[t] = NoCall
  PROVE  Left(r)'
<1> USE TokenConstants, BffConstants
        DEF Left, SoundCall, SessionInv, BffInv, HandlerInv, IndInv, TypeOK, RequestInv,
        BffTypeOK, RowsInv, CookieOK, StageOK, KindOK, IsJar, At, Calls, NoCall, Valid, Quiet,
        Note, vars, rows, expiry, locals, history, jar, Revoke, RevokeAccessTokenById,
        RefreshRevoked
<1>1. ASSUME NEW k \in Kinds, Send(r, k) PROVE Left(r)'
  BY <1>1 DEF Send
<1>2. ASSUME NEW u \in Users, SendLogin(r, u) PROVE Left(r)'
  BY <1>2 DEF SendLogin, Login, Goto
<1>3. ASSUME FirstAdmitted(r) PROVE Left(r)'
  BY <1>3 DEF FirstAdmitted, VerifyAccess, Goto, Admitted
<1>4. ASSUME FirstRefused(r) PROVE Left(r)'
  BY <1>4 DEF FirstRefused, Proceed, Reply
<1>5. ASSUME FirstServed(r) PROVE Left(r)'
  BY <1>5 DEF FirstServed, Rebuilt, Serve, Answer, Reply
<1>6. ASSUME LogoutFinds(r) PROVE Left(r)'
  BY <1>6 DEF LogoutFinds, LogoutRead, Goto, bffVars
<1>7. ASSUME LogoutServed(r) PROVE Left(r)'
  BY <1>7, LogoutReply
<1>8. ASSUME RefreshAccepted(r) PROVE Left(r)'
  BY <1>8 DEF RefreshAccepted, RotateAccept, Goto, Proceed
<1>9. ASSUME RefreshReused(r) PROVE Left(r)'
  BY <1>9 DEF RefreshReused, RotateReuse, Goto, Proceed
<1>10. ASSUME RefreshRefused(r) PROVE Left(r)'
  BY <1>10 DEF RefreshRefused, Reply
<1>11. ASSUME RefreshRevokes(r) PROVE Left(r)'
  BY <1>11 DEF RefreshRevokes, RotateRevoke, Goto, bffVars
<1>12. ASSUME FamilyFound(r) PROVE Left(r)'
  BY <1>12 DEF FamilyFound, FamilyRead, bffVars
<1>13. ASSUME FamilyRevoked(r) PROVE Left(r)'
  BY <1>13 DEF FamilyRevoked, FamilyRevoke, Answer, Reply
<1>14. ASSUME NEW p \in Pairs, PairWritten(r, p) PROVE Left(r)'
  BY <1>14 DEF PairWritten, IssueAccess, Goto, bffVars, ExpiryInv
<1>15. ASSUME PairReceived(r) PROVE Left(r)'
  <2>0. /\ call[r] \in Calls /\ reqPair[r] \in Pairs /\ pc'[r] = "idle"
        /\ refresh'[reqPair[r]] = "live" /\ issued' = issued \union {reqPair[r]}
        /\ access[reqPair[r]] = "live" /\ reqPair[r] \notin aExpired
        /\ UNCHANGED <<access, aExpired>>
    <3>1. call[r] # NoCall /\ pc[r] = "issueRefresh"
      BY <1>15 DEF PairReceived, IssueRefresh
    <3>2. SoundCall(r)
      BY <3>1 DEF SessionInv
    <3> QED
      BY <1>15, <3>1, <3>2, PairFacts DEF PairReceived, IssueRefresh, Answer
  <2>1. CASE call[r].kind \in {"login", "refresh"}
    <3>1. call'[r].at = "reply" /\ call'[r].effect = reqPair[r] /\ call'[r] # NoCall
      BY <1>15, <2>1, PairReplyFields
    <3> QED
      BY <2>0, <3>1
  <2>2. CASE call[r].kind \in {"me", "get", "delete"}
    <3>1. call'[r].at = "retry" /\ call'[r].effect = reqPair[r] /\ call'[r] # NoCall
      BY <1>15, <2>2, PairReplyFields
    <3> QED
      BY <2>0, <3>1
  <2>3. CASE call[r].kind = "post"
    <3>1. "retryThrew" \in mishaps'
      BY <1>15, <2>3 DEF PairReceived
    <3> QED
      BY <3>1
  <2> QED
    BY <1>15, <2>1, <2>2, <2>3, PairFacts DEF PairReceived, IssueRefresh
<1>16. ASSUME RetryAdmitted(r) PROVE Left(r)'
  BY <1>16 DEF RetryAdmitted, VerifyAccess, Goto, Admitted
<1>17. ASSUME RetryRefused(r) PROVE Left(r)'
  BY <1>17 DEF RetryRefused, Reply
<1>18. ASSUME RetryServed(r) PROVE Left(r)'
  <2>1. call[r].kind # "delete"
    BY <1>18 DEF RetryServed
  <2>2. /\ Reply(r, call[r].effect) /\ At(r, "retrying") /\ Serve(r)
        /\ UNCHANGED jar
    BY <1>18, <2>1 DEF RetryServed, Rebuilt
  <2>3. call'[r] = [call[r] EXCEPT !.at = "reply", !.effect = call[r].effect]
    BY <2>2 DEF Reply
  <2>4. /\ call'[r].at = "reply" /\ call'[r].effect = call[r].effect
        /\ call'[r].kind = call[r].kind
    BY <2>3
  <2>5. refresh' = refresh /\ refresh_cookie' = refresh_cookie /\ rExpired' = rExpired
        /\ pc'[r] = "idle"
    BY <2>2 DEF Serve, Answer
  <2> QED
    BY <2>2, <2>4, <2>5
<1>19. ASSUME Failed(r) PROVE Left(r)'
  BY <1>19 DEF Failed, Fail, Answer, Reply, OnError, OnThrow
<1>20. ASSUME Receive(r) PROVE Left(r)'
  BY <1>20 DEF Receive
<1>21. ASSUME Lose(r) PROVE Left(r)'
  <2>1. "lost" \in mishaps'
    BY <1>21 DEF Lose
  <2> QED
    BY <2>1
<1> QED
  BY <1>1, <1>2, <1>3, <1>4, <1>5, <1>6, <1>7, <1>8, <1>9, <1>10, <1>11, <1>12, <1>13,
     <1>14, <1>15, <1>16, <1>17, <1>18, <1>19, <1>20, <1>21
     DEF Step, Handler

(* Every step keeps what is known of a browser without mishaps: one of the  *)
(* request in flight by LeftStep, and nothing else spoils what it brings.   *)
LEMMA SessionStep == BffInv /\ SessionInv /\ [BffNext]_allVars => SessionInv'
<1> SUFFICES ASSUME BffInv, SessionInv, [BffNext]_allVars, mishaps' = {} PROVE SessionInv'
  BY DEF SessionInv
<1>1. BffInv'
  BY BffInvStep
<1>2. ASSUME NEW r \in Reqs, Step(r) PROVE SessionInv'
  <2>1. \A t \in Reqs \ {r} : call[t] = NoCall /\ call'[t] = NoCall
    BY <1>2, AloneStep, LocalStep DEF Local
  <2>2. ASSUME NEW u \in Users, SendLogin(r, u) PROVE Left(r)'
    <3>1. call'[r].at = "login" /\ call'[r] # NoCall /\ pc'[r] = "issueAccess"
      BY <2>2 DEF SendLogin, Login, Goto, BffInv, BffTypeOK, IndInv, TypeOK, NoCall
    <3> QED
      BY <3>1 DEF Left, SoundCall
  <2>3. ASSUME mishaps = {} PROVE Left(r)'
    BY <1>1, <1>2, <2>1, <2>3, LeftStep
  <2>4. Left(r)'
    BY <1>2, <2>2, <2>3, AloneStep
  <2> QED
    BY <2>1, <2>4 DEF SessionInv, Left, Quiet
<1>3. ASSUME ~ \E r \in Reqs : Step(r) PROVE SessionInv'
  <2>1. UNCHANGED <<access, refresh, pc, reqPair, call, issued>> /\ mishaps = {}
    BY <1>3 DEF BffNext, Step, DropRefreshCookie, Expire, ExpireAccess, ExpireRefresh, Note,
       allVars, bffVars, vars, rows, locals, history
  <2>2. rExpired \subseteq rExpired' /\ refresh_cookie' \in {refresh_cookie, NoPair}
    BY <1>3 DEF BffNext, Step, DropRefreshCookie, Expire, ExpireAccess, ExpireRefresh, allVars,
       bffVars, vars, expiry, jar
  <2>3. \A p \in aExpired' : p \in aExpired \/ ~OnItsWay(p)
    BY <1>3 DEF BffNext, Step, DropRefreshCookie, Expire, ExpireAccess, ExpireRefresh, Note,
       allVars, vars, expiry
  <2>4. ASSUME NEW r \in Reqs, call[r] # NoCall, SoundCall(r) PROVE SoundCall(r)'
    <3>1. \A p : call[r].effect = p \/ (pc[r] = "issueRefresh" /\ reqPair[r] = p) => OnItsWay(p)
      BY <2>4 DEF OnItsWay
    <3> QED
      BY <2>1, <2>2, <2>3, <2>4, <3>1 DEF SoundCall, Valid
  <2> QED
    BY <2>1, <2>2, <2>4 DEF SessionInv, Quiet
<1> QED
  BY <1>2, <1>3

(* SessionInv is not implied by BffInv and needs it: that the one request in *)
(* flight brings back something live rests on what a handler may rely on.   *)
LEMMA SessionInvariance == BffSpec => [](BffInv /\ SessionInv)
<1>1. BffInit => SessionInv
  BY DEF BffInit, SessionInv, NoCall
<1> QED
  BY <1>1, SessionStep, BffInvariance, PTL DEF BffSpec

(* A browser whose requests neither overlap nor fail keeps a session that    *)
(* works, through any number of silent refreshes.                           *)
THEOREM SilentRefreshIsSafe == BffSpec => []SessionSurvives
<1>1. SessionInv => SessionSurvives
  BY DEF SessionInv, SessionSurvives
<1> QED
  BY <1>1, SessionInvariance, PTL

(* ... and is signed out only by a logout or when the refresh token expired. *)
THEOREM NobodyIsSignedOut == BffSpec => NoSpuriousSignOut
<1> DEFINE Kept ==
             refresh_cookie # NoPair /\ refresh_cookie' = NoPair /\ mishaps = {} =>
               \/ refresh_cookie \in rExpired
               \/ \E r \in Reqs : call[r] # NoCall /\ call[r].kind = "logout"
<1>1. BffInv /\ SessionInv /\ [BffNext]_allVars => Kept
  <2> SUFFICES ASSUME BffInv, SessionInv, [BffNext]_allVars, refresh_cookie # NoPair,
                      refresh_cookie' = NoPair, mishaps = {}
               PROVE  \/ refresh_cookie \in rExpired
                      \/ \E r \in Reqs : call[r] # NoCall /\ call[r].kind = "logout"
    OBVIOUS
  <2>1. DropRefreshCookie \/ \E r \in Reqs : Receive(r)
    <3>1. ASSUME NEW r \in Reqs, Step(r) PROVE Receive(r)
      <4>1. CASE PairReceived(r)
        BY <4>1 DEF PairReceived, jar
      <4>2. CASE ~PairReceived(r)
        BY <3>1, <4>2 DEF Step, Send, SendLogin, Lose, Handler, FirstAdmitted, FirstRefused,
           FirstServed, LogoutFinds, LogoutServed, RefreshAccepted, RefreshReused, RefreshRefused,
           RefreshRevokes, FamilyFound, FamilyRevoked, PairWritten, RetryAdmitted, RetryRefused,
           RetryServed, Failed, bffVars, jar
      <4> QED
        BY <4>1, <4>2
    <3> QED
      BY <3>1 DEF BffNext, Step, Expire, allVars, bffVars, jar
  <2>2. CASE DropRefreshCookie
    BY <2>2 DEF DropRefreshCookie
  <2>3. ASSUME NEW r \in Reqs, Receive(r)
        PROVE  \/ refresh_cookie \in rExpired
               \/ call[r] # NoCall /\ call[r].kind = "logout"
    <3>1. call[r].at = "reply" /\ call[r] # NoCall
      BY <2>3 DEF Receive, At, NoCall
    <3>2. call[r].effect \in {"keep", "clear"} \union issued /\ issued \subseteq Pairs
      BY <3>1 DEF BffInv, HandlerInv, CookieOK, IndInv, TypeOK
    <3>3. call[r].effect = "clear"
      BY <2>3, <3>2, TokenConstants DEF Receive
    <3>4. SoundCall(r)
      BY <3>1 DEF SessionInv
    <3> QED
      BY <3>1, <3>3, <3>4 DEF SoundCall
  <2> QED
    BY <2>1, <2>2, <2>3
<1> QED
  BY <1>1, SessionInvariance, PTL DEF BffSpec, NoSpuriousSignOut

=============================================================================
