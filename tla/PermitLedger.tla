---------------------------- MODULE PermitLedger ----------------------------
(***************************************************************************)
(* The value-level part of shared/mesh_runtime/repo_patch_permits: one     *)
(* execution permit and the ledger transitions it may make.  The ledger is *)
(* one locked JSON file, so each operator below is one critical section.   *)
(*                                                                         *)
(* A permit binds the gate decision it was issued under and the content of *)
(* the target before and after the patch.  A digest of a file identifies   *)
(* its content, so contents stand for their digests.                       *)
(***************************************************************************)
CONSTANTS
    GateDigests,   \* hsai_decision_digest values
    NoGate,
    Contents,      \* what the target file can hold
    NoContent

TerminalStates == {"committed", "aborted", "recovery_required"}

MutationStates == {"prepared", "claimed", "applying", "applied", "verifying"}

PermitStates == {"none", "issued"} \cup MutationStates \cup TerminalStates

AllowedTransitions ==
    [issued    |-> {"prepared"},
     prepared  |-> {"claimed", "aborted", "recovery_required"},
     claimed   |-> {"applying", "aborted", "recovery_required"},
     applying  |-> {"applied", "aborted", "recovery_required"},
     applied   |-> {"verifying", "aborted", "recovery_required"},
     verifying |-> {"committed", "aborted", "recovery_required"}]

Permits == [state    : PermitStates,
            gate     : GateDigests \cup {NoGate},
            pre      : Contents \cup {NoContent},
            post     : Contents \cup {NoContent},
            consumed : BOOLEAN]      \* its authority nonce is in consumed_nonces

NoPermit == [state |-> "none", gate |-> NoGate, pre |-> NoContent, post |-> NoContent,
             consumed |-> FALSE]

NewPermit(gate, pre, post) ==
    [state |-> "issued", gate |-> gate, pre |-> pre, post |-> post, consumed |-> FALSE]

CanTransition(r, expected, new) ==
    /\ new \in AllowedTransitions[expected]
    /\ r.state = expected

(* Mutant: an aborted permit is dropped so that its key can be used again. *)
TransitionDropsAborted(r, new) ==
    IF new = "aborted" THEN NoPermit ELSE [r EXCEPT !.state = new]

Transition(r, new) == [r EXCEPT !.state = new]

(* consume: the single use of the permit's nonce. *)
CanConsume(r) == r.state = "prepared" /\ ~r.consumed

Consume(r) == [r EXCEPT !.state = "claimed", !.consumed = TRUE]

(* Mutant: a restored patch counts as done. *)
ResultStatusOfAborted(r) == IF r.state = "recovery_required" THEN "failed" ELSE "succeeded"

(* The status of the stored terminal result. *)
ResultStatus(r) == IF r.state = "committed" THEN "succeeded" ELSE "failed"
=============================================================================
