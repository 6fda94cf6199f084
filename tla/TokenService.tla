---------------------------- MODULE TokenService ----------------------------
(***************************************************************************)
(* The backend's token service (backend/src/auth/token.service.ts): an     *)
(* access token is a signed JWT whose jti has a row in oauth_access_token, *)
(* a refresh token is an opaque string with a row in oauth_refresh_token   *)
(* that points to its access row.  The two are issued together, so one     *)
(* value of Pairs stands for the jti, the refresh string and both rows.    *)
(*                                                                         *)
(* Every statement that awaits the database is one action; between two of  *)
(* them any other request may run, and a request may die (Fail: a query    *)
(* that throws, or the process going down) at any await.  An array         *)
(* $transaction is one action.  Requests are served concurrently, at most  *)
(* one per element of Reqs at a time.                                      *)
(***************************************************************************)
EXTENDS FiniteSets

CONSTANTS
  Users,    \* user rows
  Pairs,    \* token pairs that can be issued; bounds the number of logins
  Reqs,     \* slots for requests in flight; bounds the concurrency
  NoUser,   \* "no row": owner of a pair that has not been issued
  NoPair    \* "none": predecessor of a pair issued by a login

ASSUME TokenConstants == NoUser \notin Users /\ NoPair \notin Pairs

VARIABLES
  owner,      \* oauth_access_token.userId, NoUser when there is no row
  access,     \* oauth_access_token.revokedAt: absent, live or revoked row
  refresh,    \* oauth_refresh_token.revokedAt, likewise
  aExpired,   \* pairs whose access JWT and row are past expiresAt
  rExpired,   \* pairs whose refresh row is past expiresAt
  pc,         \* where each request is
  reqUser,    \* the user the request acts for
  reqPair,    \* the pair it presented, then the pair it is issuing
  reqIds,     \* revokeFamily's ids: the access rows its findMany returned
  parent,     \* ghost: the pair whose rotation issued this one
  issued,     \* ghost: pairs whose issuePair returned; a client may hold them
  condemned,  \* ghost: pairs issued to the user when revokeFamily was entered
  doomed,     \* ghost: condemned pairs of the revokeFamily calls that returned
  loggedOut   \* ghost: pairs whose logout returned 204

rows    == <<owner, access, refresh>>
expiry  == <<aExpired, rExpired>>
locals  == <<pc, reqUser, reqPair, reqIds, condemned>>
history == <<parent, issued, doomed, loggedOut>>
vars    == <<rows, expiry, locals, history>>

RowStates == {"absent", "live", "revoked"}
Steps     == {"idle", "issueAccess", "issueRefresh", "rotateRevoke",
              "familyRead", "familyRevoke", "admitted", "logoutRevoke"}

(* No user has logged in yet: both token tables are empty. *)
Init ==
  /\ owner     = [p \in Pairs |-> NoUser]
  /\ access    = [p \in Pairs |-> "absent"]
  /\ refresh   = [p \in Pairs |-> "absent"]
  /\ aExpired  = {}
  /\ rExpired  = {}
  /\ pc        = [r \in Reqs |-> "idle"]
  /\ reqUser   = [r \in Reqs |-> NoUser]
  /\ reqPair   = [r \in Reqs |-> NoPair]
  /\ reqIds    = [r \in Reqs |-> {}]
  /\ condemned = [r \in Reqs |-> {}]
  /\ parent    = [p \in Pairs |-> NoPair]
  /\ issued    = {}
  /\ doomed    = {}
  /\ loggedOut = {}

-----------------------------------------------------------------------------
(* The local state of a request that goes on, and of one that is answered. *)
Goto(r, step, u, p) ==
  /\ pc'      = [pc EXCEPT ![r] = step]
  /\ reqUser' = [reqUser EXCEPT ![r] = u]
  /\ reqPair' = [reqPair EXCEPT ![r] = p]
  /\ UNCHANGED <<reqIds, condemned>>

Answer(r) ==
  /\ pc'        = [pc EXCEPT ![r] = "idle"]
  /\ reqUser'   = [reqUser EXCEPT ![r] = NoUser]
  /\ reqPair'   = [reqPair EXCEPT ![r] = NoPair]
  /\ reqIds'    = [reqIds EXCEPT ![r] = {}]
  /\ condemned' = [condemned EXCEPT ![r] = {}]

(* The pairs of the user that have an access row: findMany({userId}). *)
RowsOf(u) == {p \in Pairs : owner[p] = u}

(* updateMany({revokedAt}) on the refresh rows of a set of pairs. *)
RefreshRevoked(S) ==
  [p \in Pairs |-> IF p \in S /\ refresh[p] # "absent" THEN "revoked"
                                                       ELSE refresh[p]]

(* A bug the properties must notice: the access half alone is revoked. *)
RevokeAccessOnly(S, T) ==
  /\ access'  = [p \in Pairs |-> IF p \in S THEN "revoked" ELSE access[p]]
  /\ refresh' = refresh

(* A bug the properties must notice: the refresh half alone is revoked. *)
RevokeRefreshOnly(S, T) ==
  /\ access'  = access
  /\ refresh' = RefreshRevoked(T)

(* A bug the properties must notice: updateMany without its where clause. *)
RevokeEveryone(S, T) ==
  /\ access'  = [p \in Pairs |-> IF owner[p] # NoUser THEN "revoked"
                                                      ELSE access[p]]
  /\ refresh' = RefreshRevoked(Pairs)

(* The $transaction both revocations end in: the access rows of S and the   *)
(* refresh rows of T.                                                       *)
Revoke(S, T) ==
  /\ access'  = [p \in Pairs |-> IF p \in S THEN "revoked" ELSE access[p]]
  /\ refresh' = RefreshRevoked(T)

RevokeAccessTokenById(p) == Revoke({p}, {p})

-----------------------------------------------------------------------------
(* auth.service login: the user row is read and the password compared; on a *)
(* match issuePair is entered.                                              *)
Login(r, u) ==
  /\ pc[r] = "idle"
  /\ Goto(r, "issueAccess", u, NoPair)
  /\ UNCHANGED <<rows, expiry, history>>

(* A bug the properties must notice: the pair is returned without waiting   *)
(* for its refresh row.                                                     *)
ReturnPairEarly(r, p) ==
  /\ pc[r] = "issueAccess"
  /\ owner[p] = NoUser
  /\ owner'  = [owner EXCEPT ![p] = reqUser[r]]
  /\ access' = [access EXCEPT ![p] = "live"]
  /\ parent' = [parent EXCEPT ![p] = reqPair[r]]
  /\ issued' = issued \union {p}
  /\ Goto(r, "issueRefresh", reqUser[r], p)
  /\ UNCHANGED <<refresh, expiry, doomed, loggedOut>>

(* issuePair, first write: a fresh jti gets its access row. *)
IssueAccess(r, p) ==
  /\ pc[r] = "issueAccess"
  /\ owner[p] = NoUser
  /\ owner'  = [owner EXCEPT ![p] = reqUser[r]]
  /\ access' = [access EXCEPT ![p] = "live"]
  /\ parent' = [parent EXCEPT ![p] = reqPair[r]]
  /\ Goto(r, "issueRefresh", reqUser[r], p)
  /\ UNCHANGED <<refresh, expiry, issued, doomed, loggedOut>>

(* issuePair, second write: the refresh row; the pair is returned. *)
IssueRefresh(r) ==
  /\ pc[r] = "issueRefresh"
  /\ refresh' = [refresh EXCEPT ![reqPair[r]] = "live"]
  /\ issued'  = issued \union {reqPair[r]}
  /\ Answer(r)
  /\ UNCHANGED <<owner, access, expiry, parent, doomed, loggedOut>>

(* rotate, the read: the row decides between reuse, expiry and rotation. An *)
(* unknown token (401 without a write) changes nothing and has no action.   *)
RotateReuse(r, p) ==
  /\ pc[r] = "idle" /\ p \in issued
  /\ refresh[p] = "revoked"
  /\ Goto(r, "familyRead", owner[p], p)
  /\ UNCHANGED <<rows, expiry, history>>

(* A bug the properties must notice: the !row test is dropped, and the user *)
(* of a row that was not found is used.                                     *)
RotateMissingRow(r, p) ==
  /\ pc[r] = "idle"
  /\ p \notin rExpired
  /\ Goto(r, "rotateRevoke", owner[p], p)
  /\ UNCHANGED <<rows, expiry, history>>

RotateAccept(r, p) ==
  /\ pc[r] = "idle" /\ p \in issued
  /\ refresh[p] # "revoked"
  /\ p \notin rExpired
  /\ Goto(r, "rotateRevoke", owner[p], p)
  /\ UNCHANGED <<rows, expiry, history>>

(* rotate, the write: the presented pair is revoked, then issuePair.  The   *)
(* row is not read again.                                                   *)
RotateRevoke(r) ==
  /\ pc[r] = "rotateRevoke"
  /\ RevokeAccessTokenById(reqPair[r])
  /\ Goto(r, "issueAccess", reqUser[r], reqPair[r])
  /\ UNCHANGED <<owner, expiry, history>>

(* A bug the properties must notice: findMany filters on the presented jti  *)
(* instead of on its user.                                                  *)
FamilyReadPresented(r) ==
  /\ pc[r] = "familyRead"
  /\ pc'        = [pc EXCEPT ![r] = "familyRevoke"]
  /\ reqIds'    = [reqIds EXCEPT ![r] = {reqPair[r]}]
  /\ condemned' = [condemned EXCEPT ![r] = issued \intersect RowsOf(reqUser[r])]
  /\ UNCHANGED <<rows, expiry, reqUser, reqPair, history>>

(* revokeFamily, the read: the ids of the user's access rows. *)
FamilyRead(r) ==
  /\ pc[r] = "familyRead"
  /\ pc'        = [pc EXCEPT ![r] = "familyRevoke"]
  /\ reqIds'    = [reqIds EXCEPT ![r] = RowsOf(reqUser[r])]
  /\ condemned' = [condemned EXCEPT ![r] = issued \intersect RowsOf(reqUser[r])]
  /\ UNCHANGED <<rows, expiry, reqUser, reqPair, history>>

(* revokeFamily, the write: access rows by userId, refresh rows by the ids  *)
(* read before; then the 401.                                               *)
FamilyRevoke(r) ==
  /\ pc[r] = "familyRevoke"
  /\ Revoke(RowsOf(reqUser[r]), reqIds[r])
  /\ doomed' = doomed \union condemned[r]
  /\ Answer(r)
  /\ UNCHANGED <<owner, expiry, parent, issued, loggedOut>>

(* A bug the properties must notice: the guard checks signature and exp but *)
(* not the row's revokedAt.                                                 *)
VerifySignatureOnly(r, p) ==
  /\ pc[r] = "idle" /\ p \in issued
  /\ p \notin aExpired
  /\ Goto(r, "admitted", owner[p], p)
  /\ UNCHANGED <<rows, expiry, history>>

(* JwtAuthGuard: verifyAccess accepts the bearer token, the handler runs. A *)
(* refused token changes nothing and has no action.                         *)
VerifyAccess(r, p) ==
  /\ pc[r] = "idle" /\ p \in issued
  /\ p \notin aExpired
  /\ access[p] = "live"
  /\ Goto(r, "admitted", owner[p], p)
  /\ UNCHANGED <<rows, expiry, history>>

(* Any authenticated handler but logout ends. *)
Serve(r) ==
  /\ pc[r] = "admitted"
  /\ Answer(r)
  /\ UNCHANGED <<rows, expiry, history>>

(* logout: revokeByAccessJti finds the row (rows are never deleted) ...     *)
LogoutRead(r) ==
  /\ pc[r] = "admitted"
  /\ Goto(r, "logoutRevoke", reqUser[r], reqPair[r])
  /\ UNCHANGED <<rows, expiry, history>>

(* ... and revokes the pair; 204.                                           *)
LogoutRevoke(r) ==
  /\ pc[r] = "logoutRevoke"
  /\ RevokeAccessTokenById(reqPair[r])
  /\ loggedOut' = loggedOut \union {reqPair[r]}
  /\ Answer(r)
  /\ UNCHANGED <<owner, expiry, parent, issued, doomed>>

(* A database error, or the process going down, at any await. *)
Fail(r) ==
  /\ pc[r] # "idle"
  /\ Answer(r)
  /\ UNCHANGED <<rows, expiry, history>>

(* Time passes expiresAt.  The two lifetimes are independent settings. *)
ExpireAccess(p) ==
  /\ access[p] # "absent"
  /\ aExpired' = aExpired \union {p}
  /\ UNCHANGED <<rows, rExpired, locals, history>>

ExpireRefresh(p) ==
  /\ refresh[p] # "absent"
  /\ rExpired' = rExpired \union {p}
  /\ UNCHANGED <<rows, aExpired, locals, history>>

ReqStep(r) ==
  \/ \E u \in Users : Login(r, u)
  \/ \E p \in Pairs : IssueAccess(r, p)
  \/ IssueRefresh(r)
  \/ \E p \in Pairs : RotateReuse(r, p)
  \/ \E p \in Pairs : RotateAccept(r, p)
  \/ RotateRevoke(r)
  \/ FamilyRead(r)
  \/ FamilyRevoke(r)
  \/ \E p \in Pairs : VerifyAccess(r, p)
  \/ Serve(r)
  \/ LogoutRead(r)
  \/ LogoutRevoke(r)
  \/ Fail(r)

Next ==
  \/ \E r \in Reqs : ReqStep(r)
  \/ \E p \in Pairs : ExpireAccess(p) \/ ExpireRefresh(p)

Spec == Init /\ [][Next]_vars

-----------------------------------------------------------------------------
(* Every variable has the type the code gives it. *)
TypeOK ==
  /\ owner     \in [Pairs -> Users \union {NoUser}]
  /\ access    \in [Pairs -> RowStates]
  /\ refresh   \in [Pairs -> RowStates]
  /\ aExpired  \subseteq Pairs
  /\ rExpired  \subseteq Pairs
  /\ pc        \in [Reqs -> Steps]
  /\ reqUser   \in [Reqs -> Users \union {NoUser}]
  /\ reqPair   \in [Reqs -> Pairs \union {NoPair}]
  /\ reqIds    \in [Reqs -> SUBSET Pairs]
  /\ condemned \in [Reqs -> SUBSET Pairs]
  /\ parent    \in [Pairs -> Pairs \union {NoPair}]
  /\ issued    \subseteq Pairs
  /\ doomed    \subseteq Pairs
  /\ loggedOut \subseteq Pairs
  /\ \A r \in Reqs : pc[r] # "idle" => reqUser[r] \in Users

Dead(p) == access[p] = "revoked" /\ refresh[p] = "revoked"

(* A client that has been answered 204 by logout, from whatever request and *)
(* however it interleaves with others, leaves neither half of that pair     *)
(* usable: "Token is dead immediately" (docs/decision.md D3).               *)
LoggedOutPairsAreDead == \A p \in loggedOut : Dead(p)

(* When revokeFamily has returned, every pair a client of that user held    *)
(* when it was entered is dead in both halves.  Pairs still being issued at *)
(* that moment are not covered: see FamilyRevocationIsComplete.             *)
DoomedPairsAreDead == \A p \in doomed : Dead(p)

(* A rotation that hands out a new pair has killed both halves of the pair  *)
(* that was presented, whatever else ran between its read and its writes.   *)
RotatedPairsAreDead == \A p \in issued : parent[p] # NoPair => Dead(parent[p])

(* No revocation leaves the access half of a pair usable after its refresh  *)
(* half was revoked, so that a session cannot outlive its own renewal.      *)
RefreshDiesWithAccess ==
  \A p \in Pairs : refresh[p] = "revoked" => access[p] = "revoked"

(* Which rows exist: a pair has an access row once it has an owner, and a   *)
(* refresh row once issuePair returned it.                                  *)
RowsInv ==
  \A p \in Pairs :
    /\ owner[p] = NoUser <=> access[p] = "absent"
    /\ p \in issued <=> refresh[p] # "absent"
    /\ p \in issued => owner[p] \in Users

(* What a request may rely on at each await. *)
RequestInv ==
  \A r \in Reqs :
    /\ pc[r] \in {"rotateRevoke", "familyRead", "familyRevoke", "admitted",
                 "logoutRevoke"} =>
         reqPair[r] \in issued /\ owner[reqPair[r]] = reqUser[r]
    /\ pc[r] = "familyRevoke" =>
         /\ reqIds[r] \subseteq RowsOf(reqUser[r])
         /\ condemned[r] \subseteq issued \intersect reqIds[r]
    /\ pc[r] = "issueAccess" /\ reqPair[r] # NoPair => Dead(reqPair[r])
    /\ pc[r] = "issueRefresh" =>
         /\ reqPair[r] \in Pairs \ issued
         /\ owner[reqPair[r]] = reqUser[r]
         /\ parent[reqPair[r]] # NoPair => Dead(parent[reqPair[r]])

(* Two requests never issue the same pair: jtis are fresh. *)
FreshInv ==
  \A r, t \in Reqs :
    pc[r] = "issueRefresh" /\ pc[t] = "issueRefresh" /\ reqPair[r] = reqPair[t]
      => r = t

(* The inductive invariant behind the theorems: the promises about dead     *)
(* pairs hold because every request in flight keeps to RequestInv while the *)
(* others write the same rows.                                              *)
IndInv ==
  /\ TypeOK
  /\ RowsInv
  /\ RequestInv
  /\ FreshInv
  /\ LoggedOutPairsAreDead
  /\ DoomedPairsAreDead
  /\ RotatedPairsAreDead
  /\ RefreshDiesWithAccess

(* JwtAuthGuard admits no request on a pair whose logout or family          *)
(* revocation had already been answered, or that was rotated away.          *)
NoAdmissionOnDeadPair ==
  [][\A r \in Reqs :
       pc[r] = "idle" /\ pc'[r] = "admitted" =>
         /\ reqPair'[r] \notin loggedOut \union doomed
         /\ \A q \in issued : parent[q] # reqPair'[r]]_vars

(* Tokens of a user are revoked only by a request of that same user: a      *)
(* reuse detected for one user never signs another out.                     *)
RevokedByOwnRequest ==
  [][\A p \in Pairs :
       (access[p] # access'[p] \/ refresh[p] # refresh'[p])
          /\ "revoked" \in {access'[p], refresh'[p]} =>
         \E r \in Reqs : pc[r] # "idle" /\ reqUser[r] = owner[p]]_vars

(* token.service.ts says of revokeFamily that it revokes every access and   *)
(* refresh token belonging to the user.  True of requests that do not       *)
(* overlap; a pair whose refresh row is created between the read of the ids *)
(* and the transaction keeps a live refresh token.                          *)
FamilyRevocationIsComplete ==
  [][\A r \in Reqs : FamilyRevoke(r) =>
       \A p \in RowsOf(reqUser[r]) : "live" \notin {access'[p], refresh'[p]}]_vars

-----------------------------------------------------------------------------
(* The refinement mapping to Sessions. *)
PairState(p) ==
  CASE p \notin issued                      -> "unused"
    [] p \in issued /\ refresh[p] = "live"  -> "live"
    [] p \in issued /\ refresh[p] # "live"  -> "dead"

Entitled(u) ==
  {r \in Reqs : pc[r] \in {"issueAccess", "issueRefresh"} /\ reqUser[r] = u}

S == INSTANCE Sessions WITH
       state  <- [p \in Pairs |-> PairState(p)],
       holder <- [p \in Pairs |-> IF p \in issued THEN owner[p] ELSE NoUser],
       owed   <- [u \in Users |-> Cardinality(Entitled(u))]

(* When requests do not overlap the token service implements Sessions:      *)
(* whatever the order of logins, rotations, logouts, reuses and failures,   *)
(* one pair is traded for one pair and a reuse kills the family.            *)
ImplementsSessions == S!Spec

=============================================================================
