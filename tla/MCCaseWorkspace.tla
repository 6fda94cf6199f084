-------------------------- MODULE MCCaseWorkspace ---------------------------
(* Instances of CaseWorkspace for TLC. *)
EXTENDS CaseWorkspace, TLC

Symmetry == Permutations(Parents) \union Permutations(Tutors)
              \union Permutations(Cases) \union Permutations(Reqs)

=============================================================================
