------------------------ MODULE MCRepoPatchAuthority ------------------------
(* The authority service for model checking.                              *)
EXTENDS RepoPatchAuthority, TLC

Symmetry ==
    Permutations(Clients) \cup Permutations(Procs) \cup Permutations(Keys) \cup Permutations(Gates)
=============================================================================
