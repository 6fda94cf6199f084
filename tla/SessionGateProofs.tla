------------------------- MODULE SessionGateProofs --------------------------
(***************************************************************************)
(* Results about the tab, for every set of sign-ins.                       *)
(***************************************************************************)
EXTENDS SessionGate, TLAPS

(* A login on its way has been submitted, a logout is not answered like a   *)
(* me, a me that carried no cookies is not granted a session, and only a    *)
(* form and a button hold what they sent.                                   *)
RequestsInv ==
  \A m \in inflight :
    /\ m.held => m.kind \in {"login", "logout"}
    /\ m.kind = "login"  => m.who \in spent
    /\ m.kind = "logout" => m.answer \in {"none", "ok"}
    /\ m.kind \in {"me", "orphan"} /\ m.answer \in {"ok", "rotated"} => m.who \in Logins

(* The document waits for its first answer, which its cookies decide: the   *)
(* spinner has kept the user from everything else.                          *)
Fresh(m) ==
  /\ inflight = {m} /\ cookies \in {NoLogin, m.who}
  /\ page # "login" /\ nav = "none" /\ visited = {page}

(* What is known of the first me of a document, of a later one, and when    *)
(* none is on its way.                                                      *)
CacheInv ==
  mishaps = {} =>
    /\ session = Unknown => \E m \in inflight : m.kind = "me" /\ (m.who = NoLogin \/ Fresh(m))
    /\ session # Unknown =>
         /\ \A m \in inflight : m.kind = "me" => cookies \in {NoLogin, m.who}
         /\ ~Pending("me") => cookies \in {NoLogin, session}
    /\ \A m \in inflight : m.answer # "error"

GateInv == GateTypeOK /\ RequestsInv /\ CacheInv

(* A request and an answer to one are requests. *)
LEMMA RequestTypes ==
  /\ \A k \in Kinds, w \in Logins \union {NoLogin} :
       /\ Request(k, w) \in Requests
       /\ Request(k, w).kind = k /\ Request(k, w).who = w /\ Request(k, w).answer = "none"
       /\ Request(k, w).held => k \in {"login", "logout"}
  /\ \A m \in Requests, a \in Answers :
       LET n == [m EXCEPT !.answer = a]
       IN  n \in Requests /\ n.kind = m.kind /\ n.who = m.who /\ n.answer = a /\ n.held = m.held
<1>1. ASSUME NEW k \in Kinds, NEW w \in Logins \union {NoLogin}
      PROVE  /\ Request(k, w) \in Requests
             /\ Request(k, w).kind = k /\ Request(k, w).who = w /\ Request(k, w).answer = "none"
             /\ Request(k, w).held => k \in {"login", "logout"}
  <2>1. 0 \in 0..MaxLogouts
    BY GateConstants
  <2>2. CASE k \in {"login", "logout"}
    <3>1. Request(k, w) = [kind |-> k, who |-> w, answer |-> "none", held |-> TRUE, nr |-> 0]
      BY <2>2, Zenon DEF Request
    <3> QED
      BY <2>1, <2>2, <3>1 DEF Requests, Answers
  <2>3. CASE k \notin {"login", "logout"}
    <3>1. Request(k, w) = [kind |-> k, who |-> w, answer |-> "none", held |-> FALSE, nr |-> 0]
      <4>1. (k \in {"login", "logout"}) = FALSE
        BY <2>3
      <4> QED
        BY <4>1, Zenon DEF Request
    <3> QED
      BY <2>1, <3>1 DEF Requests, Answers
  <2> QED
    BY <2>2, <2>3
<1>2. \A m \in Requests, a \in Answers :
       LET n == [m EXCEPT !.answer = a]
       IN  n \in Requests /\ n.kind = m.kind /\ n.who = m.who /\ n.answer = a /\ n.held = m.held
  BY DEF Requests
<1> QED
  BY <1>1, <1>2

(* n is one of the requests, or one that its sender has let go of.          *)
Kept(n) ==
  \/ n \in inflight
  \/ /\ n \in Requests /\ ~n.held /\ n.kind # "me"
     /\ \E o \in inflight :
          /\ o.kind = n.kind \/ (o.kind = "me" /\ n.kind = "orphan")
          /\ o.who = n.who /\ o.answer = n.answer

(* The query has one me, and a form or a button one that it holds.          *)
Single(S) == \A m, n \in S :
               m.kind = n.kind /\ (m.kind = "me" \/ (m.held /\ n.held)) => m = n

(* What is left of the requests keeps their types. *)
LEMMA FewerRequests ==
  ASSUME GateTypeOK, RequestsInv, \A n \in inflight' : Kept(n), spent' = spent
  PROVE  inflight' \subseteq Requests /\ RequestsInv' /\ Single(inflight')
<1>1. inflight' \subseteq Requests
  BY DEF GateTypeOK, Kept
<1>2. RequestsInv'
  BY DEF RequestsInv, Kept
<1>3. Single(inflight')
  BY DEF GateTypeOK, Kept, Single
<1> QED
  BY <1>1, <1>2, <1>3

(* To let go of the requests of a kind leaves the others, the mes too.      *)
LEMMA ReleasedRequests ==
  ASSUME GateTypeOK, NEW k \in {"login", "logout"}
  PROVE  /\ \A n \in Released(k) : Kept(n) /\ (n.kind = k => ~n.held)
         /\ \A n : n \in Released(k) /\ n.kind # k <=> n \in inflight /\ n.kind # k
         /\ \A n \in Released(k) : \E o \in inflight :
              n.kind = o.kind /\ n.answer = o.answer /\ n.nr = o.nr
<1> DEFINE R(m) == IF m.kind = k THEN [m EXCEPT !.held = FALSE] ELSE m
<1>1. Released(k) = {R(m) : m \in inflight}
  BY DEF Released
<1>2. \A m \in inflight :
        /\ R(m) \in Requests /\ R(m).kind = m.kind /\ R(m).who = m.who
        /\ R(m).answer = m.answer /\ R(m).nr = m.nr
        /\ m.kind = k => ~R(m).held
        /\ m.kind # k => R(m) = m
  BY DEF GateTypeOK, Requests
<1> HIDE DEF R
<1> QED
  BY <1>1, <1>2 DEF Kept

(* Who waits when the form is left, or when his fetch is given up, is one   *)
(* who waited.                                                              *)
LEMMA WaitTypes ==
  /\ \A w \in Waits : [w EXCEPT !.held = FALSE] \in Waits /\ [w EXCEPT !.moved = TRUE] \in Waits
  /\ \A h, v \in BOOLEAN : [held |-> h, moved |-> v] \in Waits
BY DEF Waits

(* So do they with one more that no other of its kind is held with.         *)
LEMMA OneMoreRequest ==
  ASSUME GateTypeOK, RequestsInv, spent \subseteq spent',
         NEW S, \A n \in S : Kept(n),
         NEW q \in Requests, q.answer = "none", q.held => q.kind \in {"login", "logout"},
         q.kind = "login" => q.who \in spent',
         \A n \in S : n.kind = q.kind => ~n.held /\ n.kind # "me",
         inflight' = S \union {q}
  PROVE  inflight' \subseteq Requests /\ RequestsInv' /\ Single(inflight')
<1>1. inflight' \subseteq Requests
  BY DEF GateTypeOK, Kept
<1>2. RequestsInv'
  BY DEF RequestsInv, Kept
<1>3. Single(S)
  BY DEF GateTypeOK, Kept, Single
<1>4. Single(inflight')
  BY <1>3 DEF Single
<1> QED
  BY <1>1, <1>2, <1>4

(* And with the answer to one of them. *)
LEMMA OneAnswer ==
  ASSUME GateTypeOK, RequestsInv, spent' = spent,
         NEW m \in inflight, NEW a \in Answers,
         m.kind = "logout" => a = "ok",
         m.kind \in {"me", "orphan"} /\ a \in {"ok", "rotated"} => m.who \in Logins,
         inflight' = (inflight \ {m}) \union {[m EXCEPT !.answer = a]}
  PROVE  /\ inflight' \subseteq Requests /\ RequestsInv' /\ Single(inflight')
         /\ Pending("me") => Pending("me")'
<1> DEFINE b == [m EXCEPT !.answer = a]
<1>1. b \in Requests /\ b.kind = m.kind /\ b.who = m.who /\ b.answer = a /\ b.held = m.held
  BY RequestTypes DEF GateTypeOK
<1> HIDE DEF b
<1>2. inflight' = (inflight \ {m}) \union {b}
  BY DEF b
<1>3. RequestsInv'
  BY <1>1, <1>2 DEF RequestsInv
<1>4. Single(inflight')
  BY <1>1, <1>2 DEF GateTypeOK, Single
<1>5. Pending("me") => Pending("me")'
  BY <1>1, <1>2 DEF Pending
<1> QED
  BY <1>1, <1>2, <1>3, <1>4, <1>5 DEF GateTypeOK

-----------------------------------------------------------------------------
(* Every step keeps the types and RequestsInv. *)
LEMMA TypeStep ==
  ASSUME GateTypeOK, RequestsInv, Next
  PROVE  GateTypeOK' /\ RequestsInv'
<1> DEFINE Goal == GateTypeOK' /\ RequestsInv'
<1> USE DEF GateTypeOK, browser, router
<1>0. ASSUME UNCHANGED <<inflight, spent>>
      PROVE  inflight' \subseteq Requests /\ RequestsInv' /\ Single(inflight')
  BY <1>0, FewerRequests DEF Kept
<1>a. ASSUME NEW m \in inflight, inflight' \subseteq inflight, spent' = spent
      PROVE  inflight' \subseteq Requests /\ RequestsInv' /\ Single(inflight')
  BY <1>a, FewerRequests DEF Kept
<1>b. ASSUME FormUnmounts, spent' = spent
      PROVE  /\ inflight' \subseteq Requests /\ RequestsInv' /\ Single(inflight')
             /\ signingIn' \subseteq Waits /\ (signingIn' # {} => Pending("me")')
  <2>1. inflight' = Released("login")
    BY <1>b DEF FormUnmounts
  <2>2. Pending("me") => Pending("me")'
    BY <2>1, ReleasedRequests DEF Pending
  <2>3. signingIn' \subseteq Waits /\ (signingIn' # {} => signingIn # {})
    BY <1>b, WaitTypes DEF FormUnmounts
  <2> QED
    BY <1>b, <2>1, <2>2, <2>3, FewerRequests, ReleasedRequests
<1>1. ASSUME NEW p \in Pages, Open(p) PROVE Goal
  <2>1. Request("me", cookies) \in Requests /\ Request("me", cookies).kind = "me"
        /\ Request("me", cookies).answer = "none"
    BY RequestTypes DEF Kinds
  <2>2. Gate(p, cookies) \in Pages
    BY DEF Gate, Pages
  <2>3. ~Request("me", cookies).held
    BY RequestTypes DEF Kinds
  <2> QED
    BY <1>1, <2>1, <2>2, <2>3 DEF Open, RequestsInv
<1>2. ASSUME NEW p \in Pages, Back(p) PROVE Goal
  BY <1>2, <1>b DEF Back, Calm, Rerender, Single
<1>3. CASE Click
  BY <1>3, <1>0 DEF Click, Calm, Pages, Pending, Single
<1>4. CASE Navigate
  <2>1. /\ inflight' \subseteq Requests /\ RequestsInv' /\ Single(inflight')
        /\ signingIn' \subseteq Waits /\ (signingIn' # {} => Pending("me")')
    BY <1>4, <1>0, <1>b DEF Navigate, FormMayUnmount, Pending
  <2> QED
    BY <1>4, <2>1 DEF Navigate, Calm, Rerender, Gate, Pages, Single
<1>5. CASE RunEffects
  BY <1>5, <1>0 DEF RunEffects, Calm, Pages, Pending, Single
<1>6. CASE Refetch
  <2>1. /\ Request("me", cookies) \in Requests /\ Request("me", cookies).kind = "me"
        /\ Request("me", cookies).answer = "none" /\ ~Request("me", cookies).held
    BY RequestTypes DEF Kinds
  <2>2. inflight' \subseteq Requests /\ RequestsInv' /\ Single(inflight')
    BY <1>6, <2>1, OneMoreRequest DEF Refetch, Pending, Kept
  <2> QED
    BY <1>6, <2>2 DEF Refetch, Calm, Rerender, Pending, Single
<1>7. ASSUME NEW u \in Logins, SubmitLogin(u) PROVE Goal
  <2> PICK q : q = Request("login", u)
    OBVIOUS
  <2>1. q \in Requests /\ q.kind = "login" /\ q.answer = "none" /\ q.who = u
    BY RequestTypes DEF Kinds
  <2>2. inflight' \subseteq Requests /\ RequestsInv' /\ Single(inflight')
    <3>1. /\ inflight' = inflight \union {q}
          /\ spent \subseteq spent' /\ u \in spent'
          /\ \A n \in inflight : n.kind = "login" => ~n.held
      BY <1>7 DEF SubmitLogin
    <3>2. \A n \in inflight : Kept(n)
      BY DEF Kept
    <3>3. \A n \in inflight : n.kind = q.kind => ~n.held /\ n.kind # "me"
      BY <2>1, <3>1
    <3>4. q.held => q.kind \in {"login", "logout"}
      BY <2>1
    <3>5. q.kind = "login" => q.who \in spent'
      BY <2>1, <3>1
    <3> HIDE DEF GateTypeOK
    <3> QED
      BY <2>1, <3>1, <3>2, <3>3, <3>4, <3>5, OneMoreRequest
  <2> QED
    BY <1>7, <2>2 DEF SubmitLogin, Calm, Pending, Single
<1>8. ASSUME NEW i \in 1..MaxLogouts, SubmitLogout(i) PROVE Goal
  <2> PICK q : q = [Request("logout", cookies) EXCEPT !.nr = i]
    OBVIOUS
  <2>1. q \in Requests /\ q.kind = "logout" /\ q.answer = "none"
    <3>1. i \in 0..MaxLogouts
      BY GateConstants
    <3>2. Request("logout", cookies) \in Requests /\ Request("logout", cookies).kind = "logout"
          /\ Request("logout", cookies).answer = "none"
      BY RequestTypes DEF Kinds
    <3> QED
      BY <3>1, <3>2 DEF Requests
  <2>2. inflight' = Released("logout") \union {q}
    BY <1>8 DEF SubmitLogout
  <2>3. inflight' \subseteq Requests /\ RequestsInv' /\ Single(inflight')
    <3> PICK S : S = Released("logout")
      OBVIOUS
    <3>1. \A n \in S : Kept(n) /\ (n.kind = "logout" => ~n.held)
      BY ReleasedRequests
    <3>2. spent' = spent
      BY <1>8 DEF SubmitLogout
    <3> QED
      BY <2>1, <2>2, <3>1, <3>2, OneMoreRequest
  <2>4. Pending("me") => Pending("me")'
    BY <2>2, ReleasedRequests DEF Pending
  <2> QED
    BY <1>8, <2>3, <2>4 DEF SubmitLogout, Calm, Single
<1>9. CASE Expire
  BY <1>9, <1>0 DEF Expire, Calm, Pending, Single
<1>10. ASSUME NEW m \in inflight, AnswerTo(m) PROVE Goal
  <2> DEFINE Good(a, l) ==
        /\ a \in Answers /\ Answered(m, a, l) /\ l \subseteq live
        /\ m.kind = "logout" => a = "ok"
        /\ m.kind \in {"me", "orphan"} /\ a \in {"ok", "rotated"} => m.who \in Logins
  <2>1. \E a, l : Good(a, l)
    BY <1>10 DEF AnswerTo, AnswerMe, AnswerLogout, AnswerFailed, Answers
  <2>2. PICK a, l : Good(a, l)
    BY <2>1
  <2>3. mishaps' \subseteq {"failed", "crossed"}
    BY <1>10 DEF AnswerTo, AnswerMe, AnswerLogout, AnswerFailed, Calm
  <2>4. /\ inflight' \subseteq Requests /\ RequestsInv' /\ Single(inflight')
        /\ Pending("me") => Pending("me")'
    BY <2>2, OneAnswer DEF Answered
  <2> QED
    BY <2>2, <2>3, <2>4 DEF Answered, Single
<1>11. ASSUME NEW m \in inflight, Receive(m) PROVE Goal
  <2>1. m.who \in Logins \union {NoLogin} /\ m \in Requests
    BY DEF Requests
  <2>2. CookiesAfter(m) \in Logins \union {NoLogin}
    BY <2>1 DEF CookiesAfter
  <2>3. CASE ReceiveMe(m)
    BY <2>1, <2>2, <2>3, <1>a DEF ReceiveMe, Arrive, Settle, Rerender, Pages, Single
  <2>4. CASE ReceiveOrphan(m)
    <3>1. Pending("me") => Pending("me")'
      BY <2>4 DEF ReceiveOrphan, Pending
    <3> QED
      BY <2>2, <2>4, <3>1, <1>a DEF ReceiveOrphan, Arrive, Single
  <2>5. CASE ReceiveLogin(m)
    <3>1. m.who \in spent
      BY <2>5 DEF ReceiveLogin, RequestsInv
    <3>2. CASE Join(m)
      <4>1. inflight' \subseteq inflight /\ Pending("me")' /\ spent' = spent
        BY <2>5, <3>2 DEF ReceiveLogin, Join, Loading, Pending
      <4>2. signingIn' \subseteq Waits
        <5>1. m.held \in BOOLEAN
          BY <2>1 DEF Requests
        <5> QED
          BY <3>2, <5>1, WaitTypes DEF Join
      <4> QED
        BY <2>5, <3>1, <3>2, <4>1, <4>2, <1>a DEF ReceiveLogin, Join, Calm, Rerender, Single
    <3>3. CASE AskAnew(m)
      <4> DEFINE O(n) == IF n.kind = "me" THEN [n EXCEPT !.kind = "orphan"] ELSE n
      <4> PICK q : q = Request("me", m.who)
        OBVIOUS
      <4>1. q \in Requests /\ q.kind = "me" /\ q.answer = "none" /\ ~q.held
        BY <2>1, RequestTypes DEF Kinds
      <4> PICK S : S = {O(n) : n \in inflight \ {m}}
        OBVIOUS
      <4>2. inflight' = S \union {q}
        BY <3>3 DEF AskAnew
      <4>3. ASSUME NEW n \in S PROVE Kept(n) /\ n.kind # "me"
        <5>1. PICK o \in inflight : n = O(o)
          OBVIOUS
        <5>2. o \in Requests
          OBVIOUS
        <5>3. CASE o.kind # "me"
          BY <5>1, <5>3 DEF Kept
        <5>4. CASE o.kind = "me"
          <6>1. n \in Requests /\ n.kind = "orphan" /\ n.who = o.who /\ n.answer = o.answer
                /\ n.held = o.held
            BY <5>1, <5>2, <5>4 DEF Requests, Kinds
          <6>2. ~o.held
            BY <5>4 DEF RequestsInv
          <6> QED
            BY <5>4, <6>1, <6>2 DEF Kept
        <5> QED
          BY <5>3, <5>4
      <4> HIDE DEF O
      <4>4. spent' = spent
        BY <2>5 DEF ReceiveLogin
      <4>5. inflight' \subseteq Requests /\ RequestsInv' /\ Single(inflight')
        <5>1. \A n \in S : Kept(n) /\ n.kind # "me"
          BY <4>3
        <5>2. \A n \in S : n.kind = q.kind => ~n.held /\ n.kind # "me"
          BY <4>1, <5>1
        <5>3. q.held => q.kind \in {"login", "logout"}
          BY <4>1
        <5>4. q.kind # "login"
          BY <4>1
        <5> HIDE DEF GateTypeOK
        <5> QED
          BY <4>1, <4>2, <4>4, <5>1, <5>2, <5>3, <5>4, OneMoreRequest
      <4>6. Pending("me")'
        BY <4>1, <4>2 DEF Pending
      <4>7. signingIn' \subseteq Waits /\ nav' \in Pages \union {"none"}
        <5>1. m.held \in BOOLEAN
          BY <2>1 DEF Requests
        <5> QED
          BY <3>3, <5>1, WaitTypes DEF AskAnew, Pages
      <4> QED
        BY <2>5, <3>1, <3>3, <4>5, <4>6, <4>7 DEF ReceiveLogin, AskAnew, Calm, Rerender, Single
    <3> QED
      BY <2>5, <3>2, <3>3 DEF ReceiveLogin
  <2>6. CASE ReceiveLoginRefusal(m)
    <3>1. Pending("me") => Pending("me")'
      BY <2>6 DEF ReceiveLoginRefusal, Pending
    <3> QED
      BY <2>6, <3>1, <1>a DEF ReceiveLoginRefusal, Calm, Single
  <2>7. CASE ReceiveLogout(m)
    <3>1. Pending("me") => Pending("me")'
      BY <2>7 DEF ReceiveLogout, Pending
    <3> QED
      BY <2>2, <2>7, <3>1, <1>a DEF ReceiveLogout, Arrive, Rerender, Pages, Single
  <2> QED
    BY <1>11, <2>3, <2>4, <2>5, <2>6, <2>7 DEF Receive
<1>12. ASSUME NEW m \in inflight, Lose(m) PROVE Goal
  <2>1. m.kind # "me" /\ Pending("me") => Pending("me")'
    BY <1>12 DEF Lose, Pending
  <2>2. inflight' \subseteq Requests /\ RequestsInv' /\ Single(inflight')
    BY <1>12, <1>a DEF Lose
  <2>3. /\ page' = page /\ visited' = visited /\ nav' \in Pages \union {"none"}
        /\ signingIn' \subseteq signingIn /\ (signingIn' # {} => m.kind # "me")
    BY <1>12 DEF Lose, Settle, Pages
  <2>4. due' \in BOOLEAN
    BY <1>12 DEF Lose, Rerender
  <2>5. mishaps' \subseteq {"failed", "crossed"} /\ session' = session
        /\ cookies' = cookies /\ live' = live /\ spent' = spent
    BY <1>12 DEF Lose
  <2> QED
    BY <2>1, <2>2, <2>3, <2>4, <2>5 DEF Single
<1> QED
  BY <1>1, <1>2, <1>3, <1>4, <1>5, <1>6, <1>7, <1>8, <1>9, <1>10, <1>11, <1>12 DEF Next

-----------------------------------------------------------------------------
(* An answer that arrives and has not crossed another sign-in leaves the    *)
(* cookies as they are, or clears them, or is that of the cookies it was    *)
(* asked with.                                                              *)
LEMMA CookiesKept ==
  ASSUME RequestsInv, NEW m \in inflight, m.kind # "login", Arrive(m), mishaps' = {}
  PROVE  /\ cookies' \in {NoLogin, cookies}
         /\ m.kind = "logout" => cookies' = NoLogin
         /\ m.answer = "refused" => cookies' = NoLogin
BY DEF Arrive, CookiesAfter, RequestsInv

(* Every step keeps CacheInv. *)
LEMMA CacheStep ==
  ASSUME GateTypeOK, RequestsInv, CacheInv, Next
  PROVE  CacheInv'
<1> SUFFICES ASSUME mishaps' = {} PROVE CacheInv'
  BY DEF CacheInv
<1> DEFINE Awaits == session = Unknown =>
                       \E m \in inflight : m.kind = "me" /\ (m.who = NoLogin \/ Fresh(m))
           Agrees == session # Unknown =>
                       /\ \A m \in inflight : m.kind = "me" => cookies \in {NoLogin, m.who}
                       /\ ~Pending("me") => cookies \in {NoLogin, session}
           NoError == \A m \in inflight : m.answer # "error"
<1>1. mishaps = {} => Awaits /\ Agrees /\ NoError
  BY DEF CacheInv
<1>2. Awaits' /\ Agrees' /\ NoError' => CacheInv'
  BY DEF CacheInv
<1>3. session = Unknown => Viewer = NoLogin
  BY DEF Viewer
<1>4. ASSUME NEW p \in Pages, Open(p) PROVE CacheInv'
  <2> DEFINE q == Request("me", cookies)
  <2>1. q.kind = "me" /\ q.who = cookies /\ q.answer = "none"
    BY RequestTypes DEF GateTypeOK, Kinds
  <2>2. /\ inflight' = {q} /\ cookies' = cookies /\ session' = Unknown
        /\ page' = Gate(p, cookies) /\ nav' = "none" /\ visited' = {page'}
    BY <1>4 DEF Open, browser
  <2>3. page' = "login" => cookies = NoLogin
    BY <2>2 DEF Gate
  <2> HIDE DEF q
  <2>4. Awaits'
    BY <2>1, <2>2, <2>3 DEF Fresh
  <2> QED
    BY <1>2, <2>1, <2>2, <2>4
(* The user and the router do nothing to a fresh document. *)
<1>5. ASSUME mishaps = {}, UNCHANGED <<browser, session>>,
             inflight' = inflight \/ inflight' = Released("login"),
             \A m \in inflight : Fresh(m) /\ Loading => UNCHANGED <<router, inflight>>
      PROVE CacheInv'
  <2>1. /\ \A n : n \in inflight' /\ n.kind = "me" <=> n \in inflight /\ n.kind = "me"
        /\ \A n \in inflight' : \E o \in inflight : n.answer = o.answer
    BY <1>5, ReleasedRequests
  <2>2. Awaits'
    BY <1>1, <1>5, <2>1 DEF Fresh, browser, router, Loading, Pending
  <2>3. Agrees'
    BY <1>1, <1>5, <2>1 DEF browser, Pending
  <2>4. NoError'
    BY <1>1, <1>5, <2>1
  <2> QED
    BY <1>2, <2>2, <2>3, <2>4
<1>6. ASSUME NEW p \in Pages, Back(p) PROVE CacheInv'
  BY <1>5, <1>6 DEF Back, FormUnmounts, Calm, Fresh
<1>7. CASE Click
  BY <1>5, <1>7 DEF Click, Calm, Fresh, Spinner, router, GateTypeOK, Pages
<1>8. CASE Navigate
  BY <1>5, <1>8 DEF Navigate, FormUnmounts, FormMayUnmount, Calm, Fresh
<1>9. CASE RunEffects
  BY <1>5, <1>9 DEF RunEffects, Calm, Fresh, router
<1>10. CASE Refetch
  BY <1>1, <1>2, <1>10, RequestTypes DEF Refetch, Calm, Pending, Kinds, browser, GateTypeOK
<1>11. ASSUME NEW u \in Logins, SubmitLogin(u) PROVE CacheInv'
  <2>1. Request("login", u).kind = "login" /\ Request("login", u).answer = "none"
    BY RequestTypes DEF Kinds
  <2> QED
    BY <1>1, <1>2, <1>11, <2>1 DEF SubmitLogin, Calm, Fresh, Pending
<1>12. ASSUME NEW i \in 1..MaxLogouts, SubmitLogout(i) PROVE CacheInv'
  <2> PICK q : q = [Request("logout", cookies) EXCEPT !.nr = i]
    OBVIOUS
  <2>1. q.kind = "logout" /\ q.answer = "none"
    BY DEF Request
  <2>2. session # Unknown /\ mishaps = {}
    BY <1>1, <1>12 DEF SubmitLogout, Calm, Spinner, Loading, Pending
  <2>3. inflight' = Released("logout") \union {q} /\ session' = session /\ cookies' = cookies
    BY <1>12 DEF SubmitLogout, browser
  <2>4. /\ \A n : n \in inflight' /\ n.kind = "me" <=> n \in inflight /\ n.kind = "me"
        /\ \A n \in inflight' : n = q \/ \E o \in inflight : n.answer = o.answer
    BY <2>1, <2>3, ReleasedRequests
  <2>5. Agrees'
    BY <1>1, <2>2, <2>3, <2>4 DEF Pending
  <2> QED
    BY <1>1, <1>2, <2>1, <2>2, <2>3, <2>4, <2>5
<1>13. CASE Expire
  BY <1>1, <1>2, <1>13 DEF Expire, Calm, Fresh, Pending, router
<1>14. ASSUME NEW m \in inflight, AnswerTo(m) PROVE CacheInv'
  <2> PICK a \in Answers : a # "error" /\ \E l : Answered(m, a, l)
    BY <1>14 DEF AnswerTo, AnswerMe, AnswerLogout, AnswerFailed, Answers
  <2> PICK l : Answered(m, a, l)
    OBVIOUS
  <2> DEFINE b == [m EXCEPT !.answer = a]
  <2>1. b.kind = m.kind /\ b.who = m.who /\ b.answer = a
    BY RequestTypes DEF GateTypeOK
  <2>2. inflight' = (inflight \ {m}) \union {b} /\ mishaps = {}
    BY <1>14 DEF Answered, AnswerTo, AnswerMe, AnswerLogout, AnswerFailed, Calm
  <2> HIDE DEF b
  <2>3. NoError'
    BY <1>1, <2>1, <2>2
  <2>4. Awaits'
    BY <1>1, <2>1, <2>2 DEF Answered, Fresh, router
  <2>5. Agrees'
    BY <1>1, <2>1, <2>2 DEF Answered, Pending
  <2> QED
    BY <1>2, <2>3, <2>4, <2>5
<1>15. ASSUME NEW m \in inflight, Receive(m) PROVE CacheInv'
  <2>1. mishaps = {} /\ Awaits /\ Agrees /\ NoError
    BY <1>1, <1>15 DEF Receive, ReceiveMe, ReceiveOrphan, ReceiveLogin, ReceiveLoginRefusal,
       ReceiveLogout, Arrive, Calm
  <2>2. CASE ReceiveMe(m)
    <3>1. \A n \in inflight : n.kind = "me" => n = m
      BY <2>2 DEF ReceiveMe, GateTypeOK
    <3>2. ~Pending("me")' /\ NoError' /\ inflight' \subseteq inflight
      BY <2>1, <2>2, <3>1 DEF ReceiveMe, Pending
    <3>3. m.answer \in {"ok", "rotated", "refused"} /\ m.who \in Logins \union {NoLogin}
      BY <2>1, <2>2 DEF ReceiveMe, Arrive, GateTypeOK, Requests, Answers
    <3>4. session' # Unknown
      BY <2>2, <3>3, GateConstants DEF ReceiveMe
    <3>5. m.answer = "refused" => cookies' = NoLogin
      BY <2>2, CookiesKept DEF ReceiveMe
    <3>6. m.answer # "refused" => session' = m.who /\ m.who # NoLogin
      BY <2>2, <3>3, GateConstants DEF ReceiveMe, RequestsInv
    <3>7. cookies \in {NoLogin, m.who} \/ m.answer = "refused"
      BY <2>1, <2>2, <3>1, <3>6 DEF ReceiveMe, Fresh
    <3>8. cookies' \in {NoLogin, session'}
      BY <2>2, <3>5, <3>6, <3>7, CookiesKept DEF ReceiveMe
    <3> QED
      BY <1>2, <3>2, <3>4, <3>8 DEF Pending
  <2>3. CASE ReceiveOrphan(m)
    <3>1. cookies' \in {NoLogin, cookies}
      BY <2>3, CookiesKept DEF ReceiveOrphan
    <3> QED
      BY <1>2, <2>1, <2>3, <3>1 DEF ReceiveOrphan, Fresh, Pending, router
  <2>4. CASE ReceiveLogin(m)
    <3>1. m.who \in Logins
      BY <2>4 DEF ReceiveLogin, RequestsInv, GateTypeOK
    <3>2. CASE Join(m)
      BY <1>2, <2>1, <2>4, <3>2 DEF ReceiveLogin, Join, Loading, Fresh
    <3>3. CASE AskAnew(m)
      <4> DEFINE q == Request("me", m.who)
                 O(n) == IF n.kind = "me" THEN [n EXCEPT !.kind = "orphan"] ELSE n
      <4>1. q.kind = "me" /\ q.who = m.who /\ q.answer = "none"
        BY <3>1, RequestTypes DEF Kinds
      <4>2. session' # Unknown /\ cookies' = m.who
        BY <2>1, <2>4, <3>3 DEF ReceiveLogin, AskAnew, Loading, Pending
      <4>3. inflight' = {O(n) : n \in inflight \ {m}} \union {q}
        BY <3>3 DEF AskAnew
      <4>4. ASSUME NEW n \in inflight' PROVE n.answer # "error" /\ (n.kind = "me" => n = q)
        <5> SUFFICES ASSUME n # q PROVE n.answer # "error" /\ n.kind # "me"
          BY <4>1
        <5>1. PICK o \in inflight : n = O(o)
          BY <4>3
        <5>2. o \in Requests /\ o.answer # "error"
          BY <2>1 DEF GateTypeOK
        <5>3. CASE o.kind # "me"
          BY <5>1, <5>2, <5>3
        <5>4. CASE o.kind = "me"
          BY <5>1, <5>2, <5>4 DEF Requests, Kinds
        <5> QED
          BY <5>3, <5>4
      <4>5. q \in inflight'
        BY <4>3
      <4> HIDE DEF q
      <4> QED
        BY <1>2, <4>1, <4>2, <4>4, <4>5 DEF Pending
    <3> QED
      BY <2>4, <3>2, <3>3 DEF ReceiveLogin
  <2>5. CASE ReceiveLoginRefusal(m)
    BY <1>2, <2>1, <2>5 DEF ReceiveLoginRefusal, Fresh, Pending, router, browser
  <2>6. CASE ReceiveLogout(m)
    <3>1. cookies' = NoLogin
      BY <2>6, CookiesKept DEF ReceiveLogout
    <3> QED
      BY <1>2, <2>1, <2>6, <3>1, GateConstants DEF ReceiveLogout
  <2> QED
    BY <1>15, <2>2, <2>3, <2>4, <2>5, <2>6 DEF Receive
<1>16. ASSUME NEW m \in inflight, Lose(m) PROVE CacheInv'
  BY <1>16 DEF Lose
<1> QED
  BY <1>4, <1>6, <1>7, <1>8, <1>9, <1>10, <1>11, <1>12, <1>13, <1>14, <1>15, <1>16 DEF Next

-----------------------------------------------------------------------------
(* A tab that is opened. *)
LEMMA Initially == Init => GateInv
<1> SUFFICES ASSUME Init PROVE GateInv
  OBVIOUS
<1> DEFINE q == Request("me", NoLogin)
<1>1. q \in Requests /\ q.kind = "me" /\ q.who = NoLogin /\ q.answer = "none" /\ ~q.held
  BY RequestTypes DEF Kinds
<1>2. inflight = {q}
  BY DEF Init
<1> HIDE DEF q
<1> QED
  BY <1>1, <1>2, RequestTypes DEF Init, GateInv, GateTypeOK, RequestsInv, CacheInv, Public, Pages, Pending

(* The invariant holds of every behaviour. *)
THEOREM GateInvariance == Spec => []GateInv
<1>1. GateInv /\ [Next]_vars => GateInv'
  <2> SUFFICES ASSUME GateInv, [Next]_vars PROVE GateInv'
    OBVIOUS
  <2>1. CASE Next
    BY <2>1, TypeStep, CacheStep DEF GateInv
  <2>2. CASE UNCHANGED vars
    BY <2>2 DEF vars, browser, router, GateInv, GateTypeOK, RequestsInv, CacheInv, Fresh, Pending
  <2> QED
    BY <2>1, <2>2
<1> QED
  BY <1>1, Initially, PTL DEF Spec

(* Every variable of a tab has its type, its session query is asked once at *)
(* a time, and however often "Log out" is pressed and the form is left and  *)
(* sent anew, one login and one logout at most still have a caller that     *)
(* listens.                                                                 *)
THEOREM GateTypesCorrect == Spec => []GateTypeOK
<1>1. GateInv => GateTypeOK
  BY DEF GateInv
<1> QED
  BY <1>1, GateInvariance, PTL

(* A tab that waits for no answer believes what the cookies say: no order   *)
(* of sign-ins, logouts, expiries and late answers leaves it with another   *)
(* user's session, or with cookies it does not know of.                     *)
THEOREM CacheFollowsCookies == Spec => []CacheAgreesWithCookies
<1>1. GateInv => CacheAgreesWithCookies
  <2> SUFFICES ASSUME CacheInv, ~Pending("me"), mishaps = {} PROVE cookies \in {NoLogin, Viewer}
    BY DEF GateInv, CacheAgreesWithCookies
  <2>1. session # Unknown
    BY DEF CacheInv, Pending
  <2> QED
    BY <2>1 DEF CacheInv, Viewer
<1> QED
  BY <1>1, GateInvariance, PTL
=============================================================================
