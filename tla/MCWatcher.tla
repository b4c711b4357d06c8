----------------------------- MODULE MCWatcher -----------------------------
(* One target, a watcher that may be left with two threads.                *)
EXTENDS Watcher
=============================================================================
