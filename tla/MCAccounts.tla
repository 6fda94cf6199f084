----------------------------- MODULE MCAccounts -----------------------------
(* Instances of Accounts for TLC. *)
EXTENDS Accounts, TLC

Symmetry == Permutations(Emails) \union Permutations(Reqs)

(* What the rest of the behaviour depends on: register ignores the name of  *)
(* a parent, and a tour that has ended only awaits its end.                 *)
Observed ==
  <<tables, created, saved,
    [r \in Reqs |-> IF reg[r] # Idle /\ reg[r].role = "PARENT"
                      THEN <<reg[r].at, reg[r].email>> ELSE reg[r]],
    IF tour.at = "done" THEN <<tour.steady /\ ~(tour.owed \subseteq tour.seen)>>
                        ELSE tour>>

=============================================================================
