------------------------- MODULE MCDeferredRechecks -------------------------
(* Two processes on one state directory.                                   *)
EXTENDS DeferredRechecks
=============================================================================
