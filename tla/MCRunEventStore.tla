--------------------------- MODULE MCRunEventStore ---------------------------
(* One run of the file-backed store with a few threads and subscribers.    *)
EXTENDS RunEventStore

Symmetry == Permutations(Threads)
=============================================================================
