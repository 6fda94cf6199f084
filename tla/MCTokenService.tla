--------------------------- MODULE MCTokenService ---------------------------
(* Instances of TokenService for TLC. *)
EXTENDS TokenService, TLC

Symmetry == Permutations(Pairs) \union Permutations(Reqs) \union Permutations(Users)

=============================================================================
