------------------------------ MODULE Sessions ------------------------------
(***************************************************************************)
(* What the token service promises (docs/decision.md D3): a sign-in or the *)
(* spending of a live pair entitles its user to one new pair; a pair that  *)
(* died never comes back; presenting a dead pair kills every live pair of  *)
(* its user at once.  Expiry, which only refuses, is left out.             *)
(***************************************************************************)
EXTENDS Naturals

CONSTANTS Users, Pairs, NoUser

VARIABLES
  state,   \* unused, live (in a client's hands, not revoked) or dead
  holder,  \* the user a pair was granted to
  owed     \* how many pairs a user is entitled to and has not received

vars == <<state, holder, owed>>

Init ==
  /\ state  = [p \in Pairs |-> "unused"]
  /\ holder = [p \in Pairs |-> NoUser]
  /\ owed   = [u \in Users |-> 0]

SignIn(u) ==
  /\ owed' = [owed EXCEPT ![u] = @ + 1]
  /\ UNCHANGED <<state, holder>>

Grant(u, p) ==
  /\ owed[u] > 0
  /\ state[p] = "unused"
  /\ state'  = [state EXCEPT ![p] = "live"]
  /\ holder' = [holder EXCEPT ![p] = u]
  /\ owed'   = [owed EXCEPT ![u] = @ - 1]

(* A request that dies forfeits the pair it was about to hand out. *)
Forfeit(u) ==
  /\ owed[u] > 0
  /\ owed' = [owed EXCEPT ![u] = @ - 1]
  /\ UNCHANGED <<state, holder>>

(* Rotation trades a live pair for the right to a new one. *)
Spend(p) ==
  /\ state[p] = "live"
  /\ state' = [state EXCEPT ![p] = "dead"]
  /\ owed'  = [owed EXCEPT ![holder[p]] = @ + 1]
  /\ UNCHANGED holder

Logout(p) ==
  /\ state[p] = "live"
  /\ state' = [state EXCEPT ![p] = "dead"]
  /\ UNCHANGED <<holder, owed>>

PunishReuse(p) ==
  /\ state[p] = "dead"
  /\ state' = [q \in Pairs |-> IF holder[q] = holder[p] /\ state[q] = "live"
                                 THEN "dead" ELSE state[q]]
  /\ UNCHANGED <<holder, owed>>

Next ==
  \/ \E u \in Users : SignIn(u) \/ Forfeit(u)
  \/ \E u \in Users, p \in Pairs : Grant(u, p)
  \/ \E p \in Pairs : Spend(p) \/ Logout(p) \/ PunishReuse(p)

Spec == Init /\ [][Next]_vars

=============================================================================
