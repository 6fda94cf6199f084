--------------------------- MODULE MCSessionGate ----------------------------
(* An instance of SessionGate for TLC.  Sets are not symmetric here: the    *)
(* run checks liveness.                                                     *)
EXTENDS SessionGate, FiniteSets

(* What tells states apart.  Past a mishap only Open is possible, and it    *)
(* looks at the browser alone.  An orphan that was answered "ok" will       *)
(* change nothing.  Whether the backend accepts a sign-in matters while the *)
(* browser holds its cookies, or a me that has yet to be answered or that   *)
(* brings them anew; to a logout only that matters, and once it is answered *)
(* not even that.  The numbers of logouts matter only in that they differ.  *)
Awaited == {m \in inflight : m.kind # "orphan" \/ m.answer # "ok"}
Usable  == live \intersect ({cookies} \union
             {m.who : m \in {n \in Awaited : n.kind \in {"me", "orphan"} /\ n.answer \in {"none", "rotated"}}})
Seen(m) ==
  IF m.kind # "logout" THEN m
  ELSE [m EXCEPT !.nr = 0,
                 !.who = IF m.answer = "none" /\ m.who \in Usable THEN m.who ELSE NoLogin]
Tab == <<router, due, session, signingIn, {Seen(m) : m \in Awaited}, Cardinality(Awaited)>>
Observed ==
  IF mishaps = {} THEN <<cookies, Usable, spent, Tab>>
                  ELSE <<cookies, live \intersect {cookies}, spent>>

=============================================================================
