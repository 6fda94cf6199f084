---------------------------- MODULE SessionGate -----------------------------
(***************************************************************************)
(* One browser tab between middleware.ts, which only sees whether cookies  *)
(* are present, AuthGate, which only sees the cached answer of             *)
(* /api/auth/me, and the BFF, whose answers set and clear the cookies.     *)
(* The three must agree, or the page is left on its spinner.               *)
(*                                                                         *)
(* The backend is abstracted to the set of sessions it still accepts: the  *)
(* modules TokenService and Bff model what happens behind it.  A sign-in,  *)
(* its user and its cookies are one value of Logins.                       *)
(***************************************************************************)
EXTENDS Naturals

CONSTANTS
  Logins,    \* sign-ins that can happen; bounds their number
  NoLogin,   \* no cookies; the cached session null
  Unknown,   \* the cached session undefined: nothing fetched yet
  MaxLogouts \* bound: logouts on their way at once

ASSUME GateConstants ==
  /\ NoLogin \notin Logins /\ Unknown \notin Logins \union {NoLogin}
  /\ MaxLogouts \in Nat

VARIABLES
  cookies,    \* whose cookies the browser holds
  live,       \* sign-ins the backend accepts
  spent,      \* ghost: sign-ins that have happened
  page,       \* usePathname, up to the classes of Pages
  nav,        \* the navigation on its way through the middleware
  visited,    \* pages of this document, reachable with Back and Forward
  due,        \* a redirect effect has dependencies that changed
  session,    \* data of the query AUTH_ME_KEY
  signingIn,  \* the sign-ins that wait for invalidateQueries
  inflight,   \* requests of the tab to /api/auth
  mishaps     \* ghost: what went wrong since the tab was loaded

browser == <<cookies, live, spent>>
router  == <<page, nav, visited>>
vars    == <<browser, router, due, session, signingIn, inflight, mishaps>>

(* "/", the pages /login and /signup, and every page that needs a session. *)
Pages  == {"home", "login", "cases"}
Public == {"home", "login"}

(* A me request whose result the cache no longer waits for is an orphan     *)
(* (two orphans alike in all are one: the first to arrive changes nothing,  *)
(* or has crossed a sign-in, and so does the second).  A login is held by   *)
(* the form that sent it, and a logout by the useMutation of AuthGate, as   *)
(* long as no later one is; nr tells apart the logouts.                     *)
Kinds    == {"me", "orphan", "login", "logout"}
Answers  == {"none", "ok", "rotated", "refused", "error"}
Requests == [kind : Kinds, who : Logins \union {NoLogin}, answer : Answers,
             held : BOOLEAN, nr : 0..MaxLogouts]
Request(kind, who) == [kind |-> kind, who |-> who, answer |-> "none",
                       held |-> kind \in {"login", "logout"}, nr |-> 0]

(* A sign-in that waits, held by the form; the fetch it first awaited may   *)
(* have been given up for another.                                          *)
Waits == [held : BOOLEAN, moved : BOOLEAN]

Released(kind) == {IF m.kind = kind THEN [m EXCEPT !.held = FALSE] ELSE m : m \in inflight}

Pending(kind) == \E m \in inflight : m.kind = kind
Loading == session = Unknown /\ Pending("me")
Viewer  == IF session = Unknown THEN NoLogin ELSE session

(* The page shows a spinner and nothing to click: AuthGate without a user,  *)
(* the landing page while it loads or has one.                              *)
Spinner ==
  \/ page = "cases" /\ (Loading \/ Viewer = NoLogin)
  \/ page = "home"  /\ (Loading \/ Viewer # NoLogin)

(* A tab is not followed past a mishap until it is loaded anew: no property *)
(* speaks of it.                                                            *)
Calm == mishaps = {} /\ mishaps' = {}

(* What the two redirect effects depend on. *)
Watched  == <<page, Loading, Viewer>>
Rerender == due' = (due \/ Watched' # Watched)

(* The redirects of the middleware. *)
Gate(p, c) ==
  CASE p = "login" /\ c # NoLogin -> "cases"
    [] p = "cases" /\ c = NoLogin -> "login"
    [] OTHER                      -> p

Init ==
  /\ cookies = NoLogin /\ live = {} /\ spent = {}
  /\ page \in Public
  /\ nav = "none" /\ visited = {page}
  /\ due = TRUE
  /\ session = Unknown
  /\ signingIn = {}
  /\ inflight = {Request("me", NoLogin)}
  /\ mishaps = {}

-----------------------------------------------------------------------------
(* The address bar or a reload: the document and its cache start anew.  A   *)
(* user who keeps reloading a spinner is left out.                          *)
Open(p) ==
  /\ ~Spinner \/ mishaps # {}
  /\ page' = Gate(p, cookies)
  /\ nav' = "none" /\ visited' = {page'}
  /\ due' = TRUE
  /\ session' = Unknown
  /\ signingIn' = {}
  /\ inflight' = {Request("me", cookies)}
  /\ mishaps' = {}
  /\ UNCHANGED browser

(* Links lead from the landing page to the sign-in pages, between those,    *)
(* and between pages that need a session.                                   *)
Click ==
  /\ ~Spinner
  /\ nav' = IF page = "cases" THEN "cases" ELSE "login"
  /\ UNCHANGED <<browser, page, visited, due, session, signingIn, inflight>> /\ Calm

(* The sign-in form unmounts and forgets what it waits for; its signIn goes *)
(* on.  A page of the same class may be another page, or not.               *)
FormUnmounts ==
  /\ inflight' = Released("login")
  /\ signingIn' = {[w EXCEPT !.held = FALSE] : w \in signingIn}

FormMayUnmount == FormUnmounts \/ (page' = page /\ UNCHANGED <<inflight, signingIn>>)

(* Back and Forward restore a page of this document without a request, and  *)
(* discard a navigation on its way.                                         *)
Back(p) ==
  /\ p \in visited \ {page}
  /\ page' = p /\ nav' = "none"
  /\ FormUnmounts
  /\ UNCHANGED <<browser, visited, session>> /\ Calm
  /\ Rerender

(* The middleware answers a navigation; one that is bounced to the page it  *)
(* started from changes nothing there.                                      *)
Navigate ==
  /\ nav # "none"
  /\ page' = Gate(nav, cookies)
  /\ nav' = "none" /\ visited' = visited \union {page'}
  /\ FormMayUnmount
  /\ UNCHANGED <<browser, session>> /\ Calm
  /\ Rerender

(* The useEffect of AuthGate and of the landing page, run when one of their *)
(* dependencies changed and not otherwise.                                  *)
RunEffects ==
  /\ due
  /\ due' = FALSE
  /\ nav' = CASE page = "cases" /\ ~Loading /\ Viewer = NoLogin -> "login"
              [] page = "home" /\ ~Loading /\ Viewer # NoLogin  -> "cases"
              [] OTHER                                          -> nav
  /\ UNCHANGED <<browser, page, visited, session, signingIn, inflight>> /\ Calm

-----------------------------------------------------------------------------
(* A bug the properties must notice: every component fetches the session    *)
(* for itself.                                                              *)
RefetchUnshared ==
  /\ inflight' = inflight \union {Request("me", cookies)}
  /\ UNCHANGED <<browser, router, session, signingIn>> /\ Calm
  /\ Rerender

(* A component that uses the session mounts, or the window gets the focus,  *)
(* and the data is older than staleTime, as it may be at any time.          *)
Refetch ==
  /\ ~Pending("me")
  /\ inflight' = inflight \union {Request("me", cookies)}
  /\ UNCHANGED <<browser, router, session, signingIn>> /\ Calm
  /\ Rerender

(* The sign-in form is submitted: its button waits for its own login only,  *)
(* not for that of a form that was left.                                    *)
SubmitLogin(u) ==
  /\ page = "login"
  /\ \A m \in inflight : m.kind = "login" => ~m.held
  /\ \A w \in signingIn : ~w.held
  /\ u \notin spent
  /\ spent' = spent \union {u}
  /\ inflight' = inflight \union {Request("login", u)}
  /\ UNCHANGED <<cookies, live, router, due, session, signingIn>> /\ Calm

(* The button of the dashboard, which is never disabled; the latest mutate  *)
(* takes over the callback.                                                 *)
SubmitLogout(i) ==
  /\ page = "cases" /\ ~Spinner
  /\ \A m \in inflight : m.kind = "logout" => m.nr # i
  /\ inflight' = Released("logout") \union {[Request("logout", cookies) EXCEPT !.nr = i]}
  /\ UNCHANGED <<browser, router, due, session, signingIn>> /\ Calm

(* A cookie reaches its maxAge, or the backend drops the session. *)
Expire ==
  /\ \/ cookies' = NoLogin /\ live' = live
     \/ cookies \in live /\ live' = live \ {cookies} /\ cookies' = cookies
  /\ UNCHANGED <<spent, router, due, session, signingIn, inflight>> /\ Calm

-----------------------------------------------------------------------------
(* The server's answer a to request m, which may leave live as l. *)
Answered(m, a, l) ==
  /\ m.answer = "none"
  /\ inflight' = (inflight \ {m}) \union {[m EXCEPT !.answer = a]}
  /\ live' = l
  /\ UNCHANGED <<cookies, spent, router, due, session, signingIn>>

(* GET /api/auth/me: the user of the cookies it carries, with a rotated     *)
(* pair when the access token had expired, or a 401.                        *)
AnswerMe(m) ==
  /\ m.kind \in {"me", "orphan"}
  /\ \E a \in IF m.who \in live THEN {"ok", "rotated"} ELSE {"refused"} :
       Answered(m, a, live)
  /\ Calm

(* POST /api/auth/logout: best effort at the backend. *)
AnswerLogout(m) ==
  /\ m.kind = "logout"
  /\ \E l \in {live, live \ {m.who}} : Answered(m, "ok", l)
  /\ Calm

(* The backend fails: me answers 502, or 401 when its refresh or its retry  *)
(* failed.  (To a login it is a refusal, and logout ignores it.)            *)
AnswerFailed(m) ==
  /\ m.kind \in {"me", "orphan"}
  /\ \E a \in {"error"} \union IF m.who \in live THEN {"refused"} ELSE {} :
       Answered(m, a, live)
  /\ mishaps = {} /\ mishaps' = {"failed"}

(* A bug the properties must notice: unauthorized() leaves the cookies. *)
CookiesKeptOn401(m) ==
  CASE m.answer = "rotated" -> m.who
    [] m.kind = "logout"    -> NoLogin
    [] OTHER                -> cookies

(* The cookies after an answer of me or logout: a 401 clears them. *)
CookiesAfter(m) ==
  CASE m.answer = "rotated"                        -> m.who
    [] m.kind = "logout" \/ m.answer = "refused"   -> NoLogin
    [] OTHER                                       -> cookies

(* An answer lands in the browser.  One of me that overwrites cookies of    *)
(* another sign-in than the one it was asked with has crossed it.           *)
Arrive(m) ==
  /\ m \in inflight /\ m.answer # "none"
  /\ cookies' = CookiesAfter(m)
  /\ mishaps = {}
  /\ mishaps' = IF m.kind # "logout" /\ cookies' # cookies /\ cookies # m.who
                  THEN {"crossed"} ELSE {}
  /\ UNCHANGED <<live, spent>>

(* The query settles; the sign-ins that waited for it go on to /cases, even *)
(* when their form has been left.                                           *)
Settle ==
  /\ signingIn' = {}
  /\ nav' = IF signingIn # {} THEN "cases" ELSE nav
  /\ UNCHANGED <<page, visited>>

ReceiveMe(m) ==
  /\ m.kind = "me"
  /\ Arrive(m)
  /\ session' = CASE m.answer = "refused" -> NoLogin
                  [] m.answer = "error"   -> session
                  [] OTHER                -> m.who
  /\ inflight' = inflight \ {m}
  /\ Settle
  /\ Rerender

ReceiveOrphan(m) ==
  /\ m.kind = "orphan"
  /\ Arrive(m)
  /\ inflight' = inflight \ {m}
  /\ UNCHANGED <<router, due, session, signingIn>>

(* A bug the properties must notice: the session query is not invalidated   *)
(* by a sign-in.                                                            *)
ReceiveLoginOnly(m) ==
  /\ m.kind = "login"
  /\ cookies' = m.who /\ live' = live \union {m.who}
  /\ nav' = "cases"
  /\ inflight' = inflight \ {m}
  /\ UNCHANGED <<spent, page, visited, due, session, signingIn>> /\ Calm

(* invalidateQueries after a login: it joins a me that is on its way when   *)
(* there is no data yet, and otherwise gives up for a new one what is on    *)
(* its way.  Who awaited that awaits the new one; given up a second time he *)
(* is let go, as React Query does.                                          *)
Join(m) ==
  /\ Loading
  /\ inflight' = inflight \ {m}
  /\ signingIn' = signingIn \union {[held |-> m.held, moved |-> TRUE]}
  /\ UNCHANGED router

AskAnew(m) ==
  /\ ~Loading
  /\ inflight' = {IF n.kind = "me" THEN [n EXCEPT !.kind = "orphan"] ELSE n :
                    n \in inflight \ {m}} \union {Request("me", m.who)}
  /\ signingIn' = {[w EXCEPT !.moved = TRUE] : w \in {w \in signingIn : ~w.moved}}
                  \union {[held |-> m.held, moved |-> FALSE]}
  /\ nav' = IF \E w \in signingIn : w.moved THEN "cases" ELSE nav
  /\ UNCHANGED <<page, visited>>

(* POST /api/auth/login succeeds: its answer sets the cookies.  The         *)
(* server's part is not a step of its own: nobody holds the new pair before *)
(* this answer arrives.                                                     *)
ReceiveLogin(m) ==
  /\ m.kind = "login"
  /\ cookies' = m.who /\ live' = live \union {m.who}
  /\ Join(m) \/ AskAnew(m)
  /\ UNCHANGED <<spent, session>> /\ Calm
  /\ Rerender

(* A wrong password or a failing backend: the form shows its error. *)
ReceiveLoginRefusal(m) ==
  /\ m.kind = "login"
  /\ inflight' = inflight \ {m}
  /\ UNCHANGED <<browser, router, due, session, signingIn>> /\ Calm

(* setQueryData(null), which cancels nothing, for every logout, then        *)
(* router.replace for the latest.                                           *)
ReceiveLogout(m) ==
  /\ m.kind = "logout"
  /\ Arrive(m)
  /\ session' = NoLogin
  /\ inflight' = inflight \ {m}
  /\ nav' = IF m.held THEN "login" ELSE nav
  /\ UNCHANGED <<page, visited, signingIn>>
  /\ Rerender

(* The connection fails: fetch rejects, whatever the server did. *)
Lose(m) ==
  /\ inflight' = inflight \ {m}
  /\ mishaps = {} /\ mishaps' = {"failed"}
  /\ IF m.kind = "me" THEN Settle ELSE UNCHANGED <<router, signingIn>>
  /\ UNCHANGED <<browser, session>>
  /\ Rerender

AnswerTo(m) == AnswerMe(m) \/ AnswerLogout(m) \/ AnswerFailed(m)

Receive(m) ==
  \/ ReceiveMe(m)
  \/ ReceiveOrphan(m)
  \/ ReceiveLogin(m)
  \/ ReceiveLoginRefusal(m)
  \/ ReceiveLogout(m)

Next ==
  \/ \E p \in Pages : Open(p) \/ Back(p)
  \/ Click
  \/ Navigate
  \/ RunEffects
  \/ Refetch
  \/ \E u \in Logins : SubmitLogin(u)
  \/ \E i \in 1..MaxLogouts : SubmitLogout(i)
  \/ Expire
  \/ \E m \in inflight : AnswerTo(m) \/ Receive(m) \/ Lose(m)

(* The browser runs effects and navigations, the BFF answers what it was    *)
(* asked and the answer arrives; users, clocks and failures are free.       *)
Fairness ==
  /\ WF_vars(Navigate)
  /\ WF_vars(RunEffects)
  /\ WF_vars(\E m \in inflight : m.kind = "me" /\ AnswerTo(m))
  /\ WF_vars(\E m \in inflight : ReceiveMe(m))

Spec == Init /\ [][Next]_vars /\ Fairness

-----------------------------------------------------------------------------
(* Every variable has the type the code gives it, the query has one me on   *)
(* its way at most, and one login and one logout at most still have a       *)
(* caller that listens.                                                     *)
GateTypeOK ==
  /\ cookies \in Logins \union {NoLogin}
  /\ live \subseteq spent /\ spent \subseteq Logins
  /\ page \in Pages /\ nav \in Pages \union {"none"} /\ page \in visited
  /\ visited \subseteq Pages
  /\ due \in BOOLEAN
  /\ session \in Logins \union {NoLogin, Unknown}
  /\ signingIn \subseteq Waits /\ (signingIn # {} => Pending("me"))
  /\ inflight \subseteq Requests
  /\ \A m, n \in inflight :
       m.kind = n.kind /\ (m.kind = "me" \/ (m.held /\ n.held)) => m = n
  /\ mishaps \subseteq {"failed", "crossed"}

(* When no me is on its way, the cached session and the cookies do not name *)
(* different users, and cookies are not held by a tab that believes it is   *)
(* signed out: whatever sign-ins, logouts, expiries and late answers of me  *)
(* came before.  Not claimed once a request failed, or once an answer of me *)
(* overwrote the cookies of another sign-in.                                *)
CacheAgreesWithCookies ==
  ~Pending("me") /\ mishaps = {} => cookies \in {NoLogin, Viewer}

(* The spinner ends.  The middleware sends a tab with cookies away from     *)
(* /login and AuthGate sends one without a user to it, so a tab where the   *)
(* two disagree would stay between them: none does, unless a request failed *)
(* or crossed another sign-in.                                              *)
SpinnerEnds ==
  (Spinner /\ mishaps = {}) ~> (~Spinner \/ mishaps # {})

=============================================================================
