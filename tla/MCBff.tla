------------------------------- MODULE MCBff --------------------------------
(* Instances of Bff for TLC. *)
EXTENDS Bff, TLC

(* What tells states apart: the history of TokenService decides nothing and *)
(* no property looks at it; of the mishaps only whether there were any.     *)
Tokens   == <<rows, expiry, pc, reqUser, reqPair, reqIds>>
Observed == <<Tokens, jar, call>>
Account  == <<Observed, mishaps = {}>>

Symmetry == Permutations(Pairs) \union Permutations(Reqs) \union Permutations(Users)

=============================================================================
