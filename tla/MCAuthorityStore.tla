-------------------------- MODULE MCAuthorityStore --------------------------
(* The authority store with three callers, three leases and two times      *)
(* around one lease duration.                                              *)
EXTENDS AuthorityStore, TLC

MCTimes == {0, 1, 2}

Symmetry == Permutations(Callers) \cup Permutations(Leases)
=============================================================================
