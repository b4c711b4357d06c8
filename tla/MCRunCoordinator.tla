-------------------------- MODULE MCRunCoordinator --------------------------
(* The run coordinator with one or more services of one tenant.           *)
EXTENDS RunCoordinator, TLC

CONSTANTS Acme, Services

MCTargets == {Acme} \X Services

Symmetry == Permutations(Runs) \cup Permutations(Workers) \cup Permutations(Handlers)
              \cup Permutations(Services)
=============================================================================
