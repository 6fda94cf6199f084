------------------------------ MODULE CaseBoard -----------------------------
(***************************************************************************)
(* The owner of one case in one tab: the page of the case with the panels  *)
(* InviteTutor and RecommendationPanel, the list of cases, the queries     *)
(* React Query keeps for them, and the mutations of use-cases.ts, which    *)
(* invalidate those queries one after the other.  The endpoints run one    *)
(* request at a time here; CaseWorkspace models them in detail.            *)
(*                                                                         *)
(* Documents are in Uploads.  The directory search finds every tutor.      *)
(***************************************************************************)
EXTENDS Naturals, Sequences, FiniteSets

CONSTANTS
  Tutors,
  NoTutor,       \* matchedTutorId null
  NoData,        \* a query without data
  MaxPresses,    \* bound: buttons pressed
  MaxFaults      \* bound: links followed, refetches and failures

CaseBoardConstants == NoTutor \notin Tutors /\ MaxPresses \in Nat /\ MaxFaults \in Nat

VARIABLES
  status, matched, invited,  \* the case and its invites at the server
  page,      \* "case" or "list"
  data,      \* query key -> its data
  flight,    \* query key -> its fetch
  stale,     \* keys invalidated since their data arrived
  failed,    \* keys whose last fetch ended in an error
  muts,      \* mutations in progress
  presses,   \* bounds what the user does
  faults,    \* bounds what goes wrong, or elsewhere
  drift,     \* ghost: keys behind a change this tab was not told of, or shown
             \* again with data invalidated meanwhile, until they are fetched
  hasty      \* ghost: a revoke was served that the user was not sure of

server  == <<status, matched, invited>>
queries == <<data, flight, stale, failed, drift>>
bounds  == <<presses, faults>>
vars    == <<server, page, queries, muts, bounds, hasty>>

Keys     == {"case", "invites", "recommendations", "cases"}
CaseKeys == Keys \ {"cases"}
Kinds    == {"suggest", "invite", "revoke", "accept", "close"}
Stages   == {"sent", "late", "ok", "refused", "thrown", "settling"}
NoFetch  == [stage |-> "none", value |-> NoData, clean |-> TRUE]
Asked    == [NoFetch EXCEPT !.stage = "sent"]

Server(k) ==
  CASE k = "case"  -> [status |-> status, matched |-> matched]
    [] k = "cases" -> status
    [] OTHER       -> invited

(* What is mounted with the data d and errors f: an error of the case hides *)
(* everything else, the suggestions are there while it is OPEN.             *)
Mounted(p, d, f) ==
  IF p = "list" THEN {"cases"}
  ELSE {"case"} \union
       (IF d["case"] = NoData \/ "case" \in f THEN {}
        ELSE {"invites"} \union (IF d["case"].status = "OPEN" THEN {"recommendations"} ELSE {}))
Active   == Mounted(page, data, failed)
Unlocked == "recommendations" \in Active

(* An observer that mounts fetches what has no data or was invalidated.     *)
Mount(p, d, s, f, fl) ==
  [k \in Keys |->
    IF k \in Mounted(p, d, f) \ Active /\ (d[k] = NoData \/ k \in s) /\ fl[k].stage = "none"
    THEN Asked ELSE fl[k]]

(* Ghost: of what mounts, the queries whose data was invalidated meanwhile. *)
Outdated(p, d, s, f) == {k \in Mounted(p, d, f) \ Active : d[k] # NoData /\ k \in s}

Unclean(ks, fl) == [k \in Keys |-> IF k \in ks THEN [fl[k] EXCEPT !.clean = FALSE] ELSE fl[k]]

(* The page of the case is opened, by its address or from the list. *)
Init ==
  /\ status = "OPEN" /\ matched = NoTutor /\ invited \in SUBSET Tutors
  /\ page = "case"
  /\ data \in {[k \in Keys |-> NoData], [k \in Keys |-> IF k = "cases" THEN status ELSE NoData]}
  /\ flight = [k \in Keys |-> IF k = "case" THEN Asked ELSE NoFetch]
  /\ stale = {} /\ failed = {}
  /\ muts = {} /\ presses = 0 /\ faults = 0 /\ drift = {} /\ hasty = FALSE

-----------------------------------------------------------------------------
(* invalidateQueries and refetchQueries of the keys ks: what is mounted is  *)
(* fetched anew, and a fetch on its way given up.  A first fetch is joined  *)
(* instead, and one of a page that was left goes on: its answer may be from *)
(* before the change, and counts as new.                                    *)
Missed(ks) == {k \in ks : flight[k].stage # "none" /\ (k \notin Active \/ data[k] = NoData)}

Invalidate(ks) ==
  /\ stale' = stale \union ks
  /\ flight' = [k \in Keys |->
       IF k \in Missed(ks) THEN [flight[k] EXCEPT !.clean = FALSE]
       ELSE IF k \in ks \intersect Active THEN Asked ELSE flight[k]]
  /\ drift' = drift \union Missed(ks)
  /\ UNCHANGED <<data, failed>>

(* A bug the properties must notice: the list of cases is forgotten. *)
RoundsWithoutList(kind) ==
  CASE kind = "close"  -> <<Keys>>
    [] kind = "accept" -> <<CaseKeys, {"invites"}, {"recommendations"}, {"invites"}>>
    [] OTHER           -> <<CaseKeys, {"invites"}, {"recommendations"}, {"invites"}>>

(* onSuccess of each mutation: the keys it invalidates and awaits in turn.  *)
(* The update awaits nothing; a revoke never gets there (Outcome).          *)
Rounds(kind) ==
  CASE kind = "close"  -> <<Keys>>
    [] kind = "accept" -> <<CaseKeys, {"invites"}, {"recommendations"}, {"cases"}, {"invites"}>>
    [] OTHER           -> <<CaseKeys, {"invites"}, {"recommendations"}, {"invites"}>>

(* The keys whose answers a request of each kind changes. *)
Changes(kind) ==
  IF kind \in {"accept", "close"} THEN {"case", "cases"} ELSE {"invites", "recommendations"}

(* The changes of a request whose success the tab does not learn of. *)
Untold(ks) ==
  /\ drift' = drift \union ks
  /\ flight' = Unclean(ks, flight)
  /\ UNCHANGED <<data, stale, failed>>

-----------------------------------------------------------------------------
Fault == faults < MaxFaults /\ faults' = faults + 1

Pending(kind) == \E m \in muts : m.kind = kind /\ m.held

(* A bug the properties must notice: the locked panel revokes. *)
OfferedWhenLocked(kind, t) ==
  CASE kind = "suggest" -> Unlocked /\ data["recommendations"] # NoData
                           /\ t \notin data["recommendations"]
    [] kind = "invite"  -> Unlocked /\ (data["invites"] # NoData => t \notin data["invites"])
    [] kind = "close"   -> "invites" \in Active /\ data["case"].status # "CLOSED" /\ t = NoTutor
    [] kind = "revoke"  -> "invites" \in Active /\ data["invites"] # NoData /\ t \in data["invites"]
    [] OTHER            -> Unlocked /\ data["invites"] # NoData /\ t \in data["invites"]

(* The buttons, as the data of the page enables them.                       *)
Offered(kind, t) ==
  CASE kind = "suggest" -> Unlocked /\ data["recommendations"] # NoData
                           /\ t \notin data["recommendations"]
    [] kind = "invite"  -> Unlocked /\ (data["invites"] # NoData => t \notin data["invites"])
    [] kind = "close"   -> "invites" \in Active /\ data["case"].status # "CLOSED" /\ t = NoTutor
    [] OTHER            -> Unlocked /\ data["invites"] # NoData /\ t \in data["invites"]

(* The user is sure of a button when nothing else is in progress and the    *)
(* page neither failed to load, nor missed a change, nor shows data that    *)
(* was invalidated while another page was shown.                            *)
Sure == muts = {} /\ drift = {} /\ failed = {}

(* A bug the properties must notice: the buttons stay enabled. *)
PressAgain(kind, t) ==
  /\ Offered(kind, t)
  /\ presses < MaxPresses /\ presses' = presses + 1
  /\ muts' = {[m EXCEPT !.sure = FALSE] : m \in muts} \union
       {[kind |-> kind, tutor |-> t, stage |-> "sent", round |-> 0, held |-> TRUE, sure |-> Sure]}
  /\ UNCHANGED <<server, page, queries, faults, hasty>>

Press(kind, t) ==
  /\ Offered(kind, t) /\ ~Pending(kind)
  /\ presses < MaxPresses /\ presses' = presses + 1
  /\ muts' = {[m EXCEPT !.sure = FALSE] : m \in muts} \union
       {[kind |-> kind, tutor |-> t, stage |-> "sent", round |-> 0, held |-> TRUE, sure |-> Sure]}
  /\ UNCHANGED <<server, page, queries, faults, hasty>>

(* The endpoints: invite and close take any state of the case, revoke wants *)
(* the invite, accept the invite and no other tutor.                        *)
Refuses(m) ==
  \/ m.kind = "revoke" /\ m.tutor \notin invited
  \/ m.kind = "accept" /\ (m.tutor \notin invited \/ matched \notin {NoTutor, m.tutor})

Apply(m) ==
  /\ invited' = CASE m.kind \in {"suggest", "invite"} -> invited \union {m.tutor}
                  [] m.kind = "revoke"                -> invited \ {m.tutor}
                  [] OTHER                            -> invited
  /\ matched' = IF m.kind = "accept" THEN m.tutor ELSE matched
  /\ status' = CASE m.kind = "accept" -> "MATCHED"
                 [] m.kind = "close"  -> "CLOSED"
                 [] OTHER             -> status

(* What the tab is told.  A revoke that was done is answered 204, and the   *)
(* proxy throws when it rebuilds a 204 with a text: an error of its own.    *)
Outcome(m) ==
  CASE Refuses(m)                         -> "refused"
    [] ~Refuses(m) /\ m.kind = "revoke" -> "thrown"
    [] OTHER                              -> "ok"

Serve(m) ==
  /\ m.stage \in {"sent", "late"}
  /\ IF Refuses(m) THEN UNCHANGED server ELSE Apply(m)
  /\ hasty' = (hasty \/ (m.kind = "revoke" /\ ~m.sure))
  /\ muts' = (muts \ {m}) \union
              (IF m.stage = "sent" THEN {[m EXCEPT !.stage = Outcome(m)]} ELSE {})
  /\ IF Refuses(m) \/ (m.stage = "sent" /\ Outcome(m) = "ok")
     THEN UNCHANGED queries
     ELSE Untold(Changes(m.kind))
  /\ UNCHANGED <<page, bounds>>

(* A bug the properties must notice: no query is awaited. *)
AnsweredIsOver(m) ==
  /\ m.stage = "ok"
  /\ muts' = muts \ {m}
  /\ Invalidate(Keys)
  /\ UNCHANGED <<server, page, bounds, hasty>>

(* The answer runs the first round; the update is over with it for the      *)
(* buttons, the others stay pending through all their rounds.               *)
Answered(m) ==
  /\ m.stage = "ok"
  /\ muts' = (muts \ {m}) \union
             {[m EXCEPT !.stage = "settling", !.round = 1, !.held = m.held /\ m.kind # "close"]}
  /\ Invalidate(Rounds(m.kind)[1])
  /\ UNCHANGED <<server, page, bounds, hasty>>

NextRound(m) ==
  /\ m.stage = "settling"
  /\ \A k \in Rounds(m.kind)[m.round] : flight[k].stage = "none"
  /\ IF m.round < Len(Rounds(m.kind))
     THEN /\ muts' = (muts \ {m}) \union {[m EXCEPT !.round = @ + 1]}
          /\ Invalidate(Rounds(m.kind)[m.round + 1])
     ELSE muts' = muts \ {m} /\ UNCHANGED queries
  /\ UNCHANGED <<server, page, bounds, hasty>>

(* An error for the tab: no onSuccess, nothing is invalidated. *)
Rejected(m) ==
  /\ m.stage \in {"refused", "thrown"}
  /\ muts' = muts \ {m}
  /\ UNCHANGED <<server, page, queries, bounds, hasty>>

(* The connection is lost: an error for the tab; the server has run the     *)
(* request, or may still do so.                                             *)
Lost(m) ==
  /\ m.stage \in {"sent", "ok"} /\ Fault
  /\ IF m.stage = "sent"
     THEN /\ muts' = (muts \ {m}) \union {[m EXCEPT !.stage = "late", !.held = FALSE]}
          /\ UNCHANGED queries
     ELSE muts' = muts \ {m} /\ Untold(Changes(m.kind))
  /\ UNCHANGED <<server, page, presses, hasty>>

-----------------------------------------------------------------------------
Read(k) ==
  /\ flight[k].stage = "sent"
  /\ flight' = [flight EXCEPT ![k].stage = "read", ![k].value = Server(k)]
  /\ UNCHANGED <<server, page, data, stale, failed, muts, bounds, drift, hasty>>

(* A fetch ends; the case decides what else is mounted. *)
Ends(k, d, s, f) ==
  /\ data' = d /\ stale' = s /\ failed' = f
  /\ flight' = Mount(page, d, s, f, [flight EXCEPT ![k] = NoFetch])
  /\ UNCHANGED <<server, page, muts, presses, hasty>>

Receive(k) ==
  /\ flight[k].stage = "read"
  /\ Ends(k, [data EXCEPT ![k] = flight[k].value], stale \ {k}, failed \ {k})
  /\ drift' = (IF flight[k].clean THEN drift \ {k} ELSE drift)
               \union Outdated(page, data', stale', failed')
  /\ UNCHANGED faults

FetchFails(k) ==
  /\ flight[k].stage # "none" /\ Fault
  /\ Ends(k, data, stale, failed \union {k})
  /\ UNCHANGED drift

(* Focus, reconnect, data older than staleTime, or Retry. *)
Refetch(k) ==
  /\ k \in Active /\ flight[k].stage = "none" /\ Fault
  /\ flight' = [flight EXCEPT ![k] = Asked]
  /\ UNCHANGED <<server, page, data, stale, failed, muts, presses, drift, hasty>>

(* A link leads to the other page: the mutations of the page left go on,    *)
(* but no button of the next one is disabled by them.                       *)
Follow(p) ==
  /\ p # page /\ Fault
  /\ page' = p
  /\ muts' = {[m EXCEPT !.held = FALSE] : m \in muts}
  /\ flight' = Mount(p, data, stale, failed, flight)
  /\ drift' = drift \union Outdated(p, data, stale, failed)
  /\ UNCHANGED <<server, data, stale, failed, presses, hasty>>

Next ==
  \/ \E kind \in Kinds, t \in Tutors \union {NoTutor} : (t = NoTutor <=> kind = "close") /\ Press(kind, t)
  \/ \E m \in muts : Serve(m) \/ Answered(m) \/ NextRound(m) \/ Rejected(m) \/ Lost(m)
  \/ \E k \in Keys : Read(k) \/ Receive(k) \/ FetchFails(k) \/ Refetch(k)
  \/ \E p \in {"case", "list"} : Follow(p)

BoardSpec == Init /\ [][Next]_vars

-----------------------------------------------------------------------------
CaseBoardTypeOK ==
  /\ status \in {"OPEN", "MATCHED", "CLOSED"}
  /\ matched \in Tutors \union {NoTutor} /\ invited \subseteq Tutors
  /\ page \in {"case", "list"}
  /\ DOMAIN data = Keys /\ DOMAIN flight = Keys
  /\ stale \union failed \union drift \subseteq Keys
  /\ \A m \in muts : m.kind \in Kinds /\ m.stage \in Stages /\ m.round \in 0..Len(Rounds(m.kind))
  /\ \A m1, m2 \in muts : m1.held /\ m2.held /\ m1.kind = m2.kind => m1 = m2
  /\ presses \in 0..MaxPresses /\ faults \in 0..MaxFaults /\ hasty \in BOOLEAN

(* PageIsCurrent: when no mutation is past the server and no fetch on its   *)
(* way, what is shown is what the server has: every mutation that succeeds  *)
(* invalidates all the queries it changes, those of the other page as well. *)
(* Excused: every revoke (its row stays, although the tests of invite-tutor *)
(* have it disappear: see Outcome) and changes whose answer was lost,       *)
(* fetches an invalidation has missed, and what is shown again with         *)
(* invalidated data until it is fetched.                                    *)
PageIsCurrent ==
  (\A m \in muts : m.stage \notin {"ok", "settling"}) =>
    \A k \in Active \ (failed \union drift) :
      flight[k].stage = "none" /\ data[k] # NoData => data[k] = Server(k)

(* OffersAreHonoured: what is pressed when it is Sure, with nothing else in *)
(* progress until the answer, is not refused: the buttons come back only    *)
(* with the data that decides about them.  Not so after a revoke, whose     *)
(* tutor stays listed, nor for a page that is back from the list: its       *)
(* buttons work on invalidated data while it loads.                         *)
OffersAreHonoured == \A m \in muts : m.sure => m.stage # "refused"

(* MatchedStaysInvited: the tutor of a matched case keeps his invite, which *)
(* the locked panel needs to name him: the endpoint would revoke it, the    *)
(* page offers no revoke once it knows of the match.  Excused: a revoke     *)
(* that was not Sure when pressed, or no longer so when it was served.      *)
MatchedStaysInvited == ~hasty => matched \in invited \union {NoTutor}
=============================================================================
