-------------------------------- MODULE Bff ---------------------------------
(***************************************************************************)
(* The backend-for-frontend: Next.js route handlers that keep the token    *)
(* pair in two cookies of one browser and call the backend for it          *)
(* (frontend/src/app/api), composed with TokenService.  A handler has at   *)
(* most one backend call outstanding, so request r of the browser and      *)
(* request r of the backend share the slot r of Reqs.                      *)
(*                                                                         *)
(* The browser sends the cookies it has when a request leaves and applies  *)
(* Set-Cookie headers in the order responses arrive; a response may never  *)
(* arrive.  Handlers keep nothing between requests and do not coordinate.  *)
(***************************************************************************)
EXTENDS TokenService, Naturals

VARIABLES
  access_cookie,    \* tuition_access: a pair or NoPair
  refresh_cookie,   \* tuition_refresh: a pair or NoPair
  call,             \* what the handler of each request in flight is doing
  mishaps           \* ghost: what went wrong since the browser signed in

jar     == <<access_cookie, refresh_cookie>>
bffVars == <<jar, call, mishaps>>
allVars == <<vars, bffVars>>

(* Requests of the browser: the routes under api/auth but register, and the *)
(* proxy, by how the retry treats the request: a body is read once, and a   *)
(* 204 answer cannot be built with the text of the upstream.                *)
AllKinds == {"me", "refresh", "logout", "get", "post", "delete"}

CONSTANTS
  Kinds,   \* those of them the browser sends
  Faults   \* what may go wrong: backend calls "failed", answers "lost"

ASSUME BffConstants ==
  /\ Kinds \subseteq AllKinds
  /\ Faults \subseteq {"failed", "lost"}
  /\ {"keep", "clear"} \intersect Pairs = {}

Stages == {"login", "first", "serving", "rotate", "rotating", "punishing",
           "retry", "retrying", "reply"}

(* What a response does to the cookies: nothing, clear both, or set a pair. *)
Effects == {"keep", "clear"} \union Pairs

Calls == [at : Stages, kind : AllKinds \union {"login"},
          access : Pairs \union {NoPair}, refresh : Pairs \union {NoPair},
          effect : Effects, runs : 0..2]

NoCall == [at |-> "none"]

(* A pair that expires before it reaches the browser was slower than its    *)
(* lifetime; that counts as a mishap too.                                   *)
Mishaps == {"overlap", "lost", "failed", "retryThrew", "slow"}

BffInit ==
  /\ Init
  /\ access_cookie  = NoPair
  /\ refresh_cookie = NoPair
  /\ call           = [r \in Reqs |-> NoCall]
  /\ mishaps        = {}

-----------------------------------------------------------------------------
At(r, stage)     == call[r].at = stage
Proceed(r, stage) == call' = [call EXCEPT ![r].at = stage]
Reply(r, effect) ==
  call' = [call EXCEPT ![r].at = "reply", ![r].effect = effect]

(* The guard admitted the call: its handler runs.                           *)
Admitted(r, stage) ==
  call' = [call EXCEPT ![r].at = stage, ![r].runs = @ + 1]

Note(what) == mishaps' = mishaps \union what

Overlaps(r) ==
  IF \E t \in Reqs \ {r} : call[t] # NoCall THEN {"overlap"} ELSE {}

(* verifyAccess would accept the pair; NoPair is a call without a bearer.   *)
Valid(p) == p \in issued /\ p \notin aExpired /\ access[p] = "live"

(* A request leaves with the cookies of that moment.                        *)
Send(r, k) ==
  /\ call[r] = NoCall
  /\ call' = [call EXCEPT ![r] =
       [at |-> IF k = "refresh" THEN "rotate" ELSE "first", kind |-> k,
        access |-> access_cookie, refresh |-> refresh_cookie,
        effect |-> "keep", runs |-> 0]]
  /\ Note(Overlaps(r))
  /\ UNCHANGED <<vars, jar>>

(* POST api/auth/login with the right password.  With a wrong one nothing   *)
(* changes.  A sign-in while nothing else is in flight starts a new account *)
(* of mishaps.                                                              *)
SendLogin(r, u) ==
  /\ call[r] = NoCall
  /\ Login(r, u)
  /\ call' = [call EXCEPT ![r] =
       [at |-> "login", kind |-> "login", access |-> access_cookie,
        refresh |-> refresh_cookie, effect |-> "keep", runs |-> 0]]
  /\ IF Overlaps(r) = {} THEN mishaps' = {} ELSE Note(Overlaps(r))
  /\ UNCHANGED jar

(* A bug the properties must notice: the handlers share a variable with the *)
(* access token, which is the browser's of this moment.                     *)
FirstWithSharedToken(r) ==
  /\ At(r, "first")
  /\ VerifyAccess(r, access_cookie)
  /\ Admitted(r, "serving")
  /\ UNCHANGED <<jar, mishaps>>

(* The first backend call, with the access cookie as bearer.                *)
FirstAdmitted(r) ==
  /\ At(r, "first")
  /\ VerifyAccess(r, call[r].access)
  /\ Admitted(r, "serving")
  /\ UNCHANGED <<jar, mishaps>>

(* A bug the properties must notice: a 401 signs out without a refresh.     *)
SignOutOn401(r) ==
  /\ At(r, "first")
  /\ ~Valid(call[r].access)
  /\ Reply(r, "clear")
  /\ UNCHANGED <<vars, jar, mishaps>>

(* ... answered 401 (or, by me, not made for want of an access cookie): the *)
(* silent refresh follows if there is a refresh cookie.  logout ignores it. *)
FirstRefused(r) ==
  /\ At(r, "first")
  /\ ~Valid(call[r].access)
  /\ IF call[r].kind # "logout" /\ call[r].refresh # NoPair
       THEN Proceed(r, "rotate")
       ELSE Reply(r, "clear")
  /\ UNCHANGED <<vars, jar, mishaps>>

(* The proxy builds its response of the backend's text and status.  The     *)
(* status of a DELETE is 204, for which NextResponse throws when it is      *)
(* given a text, at the first call and at the retry alike: the browser gets *)
(* a 500 that sets no cookie.                                               *)
Rebuilt(r, e) == Reply(r, IF call[r].kind = "delete" THEN "keep" ELSE e)

(* The handler answers, with anything but 401. *)
FirstServed(r) ==
  /\ At(r, "serving")
  /\ call[r].kind # "logout"
  /\ Serve(r)
  /\ Rebuilt(r, "keep")
  /\ UNCHANGED <<jar, mishaps>>

LogoutFinds(r) ==
  /\ At(r, "serving")
  /\ call[r].kind = "logout"
  /\ LogoutRead(r)
  /\ UNCHANGED bffVars

LogoutServed(r) ==
  /\ At(r, "serving")
  /\ LogoutRevoke(r)
  /\ Reply(r, "clear")
  /\ UNCHANGED <<jar, mishaps>>

-----------------------------------------------------------------------------
(* POST /auth/refresh with the refresh cookie.                              *)
RefreshAccepted(r) ==
  /\ At(r, "rotate")
  /\ RotateAccept(r, call[r].refresh)
  /\ Proceed(r, "rotating")
  /\ UNCHANGED <<jar, mishaps>>

RefreshReused(r) ==
  /\ At(r, "rotate")
  /\ RotateReuse(r, call[r].refresh)
  /\ Proceed(r, "punishing")
  /\ UNCHANGED <<jar, mishaps>>

(* A bug the properties must notice: rr.ok is not looked at, and cookies    *)
(* are set from fields an error does not have.                              *)
RefreshUnchecked(r) ==
  /\ At(r, "rotate")
  /\ \/ call[r].refresh = NoPair
     \/ call[r].refresh \in rExpired /\ refresh[call[r].refresh] # "revoked"
  /\ Reply(r, NoPair)
  /\ UNCHANGED <<vars, jar, mishaps>>

(* No cookie, or a row past its expiresAt: 401.                             *)
RefreshRefused(r) ==
  /\ At(r, "rotate")
  /\ \/ call[r].refresh = NoPair
     \/ call[r].refresh \in rExpired /\ refresh[call[r].refresh] # "revoked"
  /\ Reply(r, "clear")
  /\ UNCHANGED <<vars, jar, mishaps>>

RefreshRevokes(r) == RotateRevoke(r) /\ UNCHANGED bffVars

FamilyFound(r) == FamilyRead(r) /\ UNCHANGED bffVars

FamilyRevoked(r) ==
  /\ At(r, "punishing")
  /\ FamilyRevoke(r)
  /\ Reply(r, "clear")
  /\ UNCHANGED <<jar, mishaps>>

PairWritten(r, p) == IssueAccess(r, p) /\ UNCHANGED bffVars

(* The new pair arrives at the handler: api/auth/login and api/auth/refresh *)
(* answer with it, me and the proxy retry the first call.  The proxy reads  *)
(* the body of the request a second time, which throws; the new pair is     *)
(* then in no cookie.                                                       *)
PairReceived(r) ==
  /\ IssueRefresh(r)
  /\ CASE call[r].kind \in {"login", "refresh"} ->
            Reply(r, reqPair[r]) /\ UNCHANGED mishaps
       [] call[r].kind \in {"me", "get", "delete"} ->
            /\ call' = [call EXCEPT ![r].at = "retry", ![r].effect = reqPair[r]]
            /\ UNCHANGED mishaps
       [] call[r].kind = "post" ->
            Reply(r, "keep") /\ Note({"retryThrew"})
  /\ UNCHANGED jar

(* The second backend call, with the new pair.                              *)
RetryAdmitted(r) ==
  /\ At(r, "retry")
  /\ VerifyAccess(r, call[r].effect)
  /\ Admitted(r, "retrying")
  /\ UNCHANGED <<jar, mishaps>>

RetryRefused(r) ==
  /\ At(r, "retry")
  /\ ~Valid(call[r].effect)
  /\ Reply(r, IF call[r].kind = "me" THEN "clear" ELSE call[r].effect)
  /\ UNCHANGED <<vars, jar, mishaps>>

(* A bug the properties must notice: the answer of the retry is passed on   *)
(* without the new cookies.                                                 *)
RetryForgetsCookies(r) ==
  /\ At(r, "retrying")
  /\ Serve(r)
  /\ Reply(r, "keep")
  /\ UNCHANGED <<jar, mishaps>>

(* The answer goes to the browser with the new cookies, which are lost with *)
(* the answer to a DELETE.                                                  *)
RetryServed(r) ==
  /\ At(r, "retrying")
  /\ Serve(r)
  /\ Rebuilt(r, call[r].effect)
  /\ IF call[r].kind = "delete" THEN Note({"retryThrew"}) ELSE UNCHANGED mishaps
  /\ UNCHANGED jar

-----------------------------------------------------------------------------
(* The cookies of an answer to a backend call that is not ok and not 401,   *)
(* by the stage the handler is at.                                          *)
OnError(r) ==
  CASE call[r].kind = "logout"                            -> "clear"
    [] call[r].at \in {"rotate", "rotating", "punishing"} -> "clear"
    [] call[r].at \in {"retry", "retrying"} /\ call[r].kind = "me"  -> "clear"
    [] call[r].at \in {"retry", "retrying"} /\ call[r].kind # "me"  -> call[r].effect
    [] call[r].at \in {"login", "first", "serving"}       -> "keep"

(* ... and of a backend call that throws: the handler dies, except logout,  *)
(* which catches.                                                           *)
OnThrow(r) == IF call[r].kind = "logout" THEN "clear" ELSE "keep"

(* A bug the properties must notice: any failure of the first call is       *)
(* retried, one after its handler ran included.                             *)
FailedRetries(r) ==
  /\ "failed" \in Faults
  /\ call[r] # NoCall /\ ~At(r, "reply")
  /\ IF pc[r] # "idle" THEN Fail(r) ELSE UNCHANGED vars
  /\ IF call[r].at \in {"first", "serving"} /\ call[r].kind # "logout"
       THEN Proceed(r, "rotate")
       ELSE Reply(r, OnError(r))
  /\ Note({"failed"})
  /\ UNCHANGED jar

(* A backend call fails at any stage, before or after it changed a row: a   *)
(* 5xx or 429 answer, or none.                                              *)
Failed(r) ==
  /\ "failed" \in Faults
  /\ call[r] # NoCall /\ ~At(r, "reply")
  /\ IF pc[r] # "idle" THEN Fail(r) ELSE UNCHANGED vars
  /\ \E e \in {OnError(r), OnThrow(r)} : Reply(r, e)
  /\ Note({"failed"})
  /\ UNCHANGED jar

(* The response arrives: setTokenCookies and clearTokenCookies write both   *)
(* cookies.                                                                 *)
Receive(r) ==
  LET e == call[r].effect IN
  /\ At(r, "reply")
  /\ access_cookie'  = CASE e = "keep" -> access_cookie
                         [] e = "clear" -> NoPair
                         [] OTHER -> e
  /\ refresh_cookie' = CASE e = "keep" -> refresh_cookie
                         [] e = "clear" -> NoPair
                         [] OTHER -> e
  /\ call' = [call EXCEPT ![r] = NoCall]
  /\ UNCHANGED <<vars, mishaps>>

(* The page is left, or the connection breaks, before the response arrives. *)
Lose(r) ==
  /\ "lost" \in Faults
  /\ At(r, "reply")
  /\ call' = [call EXCEPT ![r] = NoCall]
  /\ Note({"lost"})
  /\ UNCHANGED <<vars, jar>>

(* The access cookie has the lifetime of its token (maxAge is expiresIn).   *)
(* The refresh cookie lasts the default lifetime of a refresh token, which  *)
(* the backend's settings may shorten.                                      *)
DropRefreshCookie ==
  /\ refresh_cookie \in rExpired
  /\ refresh_cookie' = NoPair
  /\ UNCHANGED <<vars, access_cookie, call, mishaps>>

(* A pair that a handler of the backend or of the BFF has and the browser   *)
(* has not.                                                                 *)
OnItsWay(p) ==
  \E r \in Reqs :
    \/ call[r] # NoCall /\ call[r].effect = p
    \/ pc[r] = "issueRefresh" /\ reqPair[r] = p

(* The expiry of a revoked token that is in no cookie is left out: nobody   *)
(* can tell.                                                                *)
Expire(p) ==
  /\ \/ /\ access[p] = "live" \/ access_cookie = p
        /\ ExpireAccess(p)
        /\ access_cookie' = IF access_cookie = p THEN NoPair ELSE access_cookie
     \/ /\ refresh[p] = "live" \/ refresh_cookie = p
        /\ ExpireRefresh(p)
        /\ UNCHANGED access_cookie
  /\ Note(IF OnItsWay(p) THEN {"slow"} ELSE {})
  /\ UNCHANGED <<refresh_cookie, call>>

Handler(r) ==
  \/ FirstAdmitted(r) \/ FirstRefused(r) \/ FirstServed(r)
  \/ LogoutFinds(r) \/ LogoutServed(r)
  \/ RefreshAccepted(r) \/ RefreshReused(r) \/ RefreshRefused(r)
  \/ RefreshRevokes(r) \/ FamilyFound(r) \/ FamilyRevoked(r)
  \/ \E p \in Pairs : PairWritten(r, p)
  \/ PairReceived(r)
  \/ RetryAdmitted(r) \/ RetryRefused(r) \/ RetryServed(r)
  \/ Failed(r)

BffNext ==
  \/ \E r \in Reqs :
       \/ \E k \in Kinds : Send(r, k)
       \/ \E u \in Users : SendLogin(r, u)
       \/ Handler(r)
       \/ Receive(r)
       \/ Lose(r)
  \/ DropRefreshCookie
  \/ \E p \in Pairs : Expire(p)

BffSpec == BffInit /\ [][BffNext]_allVars

-----------------------------------------------------------------------------
(* Every variable has the type the code gives it. *)
BffTypeOK ==
  /\ TypeOK
  /\ access_cookie  \in Pairs \union {NoPair}
  /\ refresh_cookie \in Pairs \union {NoPair}
  /\ call           \in [Reqs -> Calls \union {NoCall}]
  /\ mishaps        \subseteq Mishaps

(* The backend never acts for a user other than the one whose cookies the   *)
(* browser sent, whatever other requests, a sign-in as someone else         *)
(* included, do to the jar while this one is refreshed and retried.         *)
ServedAsSender ==
  \A r \in Reqs : pc[r] = "admitted" =>
    \A p \in {call[r].access, call[r].refresh} \ {NoPair} : owner[p] = reqUser[r]

(* One request of the browser runs one handler of the backend at most: what *)
(* is retried had been refused before it had any effect.                    *)
AtMostOnce == \A r \in Reqs : call[r] # NoCall => call[r].runs <= 1

(* The browser is between requests and its requests since it signed in did  *)
(* not overlap, fail or lose an answer: then the refresh cookie it holds,   *)
(* through any number of silent refreshes, is still good.                   *)
Quiet == \A r \in Reqs : call[r] = NoCall

SessionSurvives ==
  Quiet /\ mishaps = {} /\ refresh_cookie # NoPair =>
    refresh[refresh_cookie] = "live"

(* Under the same condition the cookies go only by a logout or when the     *)
(* refresh token has expired: expiry of the access token alone never signs  *)
(* a user out.                                                              *)
NoSpuriousSignOut ==
  [][refresh_cookie # NoPair /\ refresh_cookie' = NoPair /\ mishaps = {} =>
       \/ refresh_cookie \in rExpired
       \/ \E r \in Reqs : call[r] # NoCall /\ call[r].kind = "logout"]_allVars

(* The proxy's comment: on a 401 it performs one silent refresh (rotating   *)
(* the cookies) and retries; JSON bodies are forwarded.  A browser whose    *)
(* requests neither overlapped nor failed keeps its session through that.   *)
(* False: the retry of a request with a body, and the answer of a DELETE    *)
(* that was retried, throw after the rotation.                              *)
SilentRefreshKeepsSession ==
  Quiet /\ mishaps \subseteq {"retryThrew"} /\ refresh_cookie # NoPair =>
    refresh[refresh_cookie] = "live"

=============================================================================
