-------------------------- MODULE AuthorityRecord --------------------------
(***************************************************************************)
(* The value-level part of shared/mesh_runtime/repo_patch_authority_store: *)
(* one authority record, the four compare-and-set transitions it can make  *)
(* and the hash-chained event receipt each transition produces.            *)
(*                                                                         *)
(* Both back ends of the store (a locked JSON file, a Postgres row taken   *)
(* FOR UPDATE) run these same transitions inside one critical section, so  *)
(* they are pure operators here and the modules that own the state apply   *)
(* them atomically.                                                        *)
(*                                                                         *)
(* A digest is modelled by what it identifies: the digest of an event      *)
(* covers its body and the previous digest, so it identifies the whole     *)
(* chain up to that event, and is the sequence of bodies hashed so far.    *)
(***************************************************************************)
EXTENDS Integers, Sequences

CONSTANTS
    Leases,       \* lease ids: authority_lease_<random 256 bits>
    NoLease,      \* lease_id is None
    Bindings,     \* canonical digests of an action binding
    NoBinding,    \* the record does not exist yet
    Results,      \* terminal_result payloads
    NoResult,     \* terminal_result is None
    LeaseSeconds  \* lease duration of lease_for_dispatch

ASSUME RecordAssumption ==
    /\ NoLease \notin Leases
    /\ NoBinding \notin Bindings
    /\ NoResult \notin Results
    /\ LeaseSeconds \in Nat \ {0}

LifecycleStates == {"absent", "issued", "leased", "dispatched", "terminal"}

TerminalOutcomes == {"succeeded", "failed", "rejected", "unknown"}

EventTypes == {"issued", "leased_for_dispatch", "expired_pre_dispatch_lease_reclaimed",
               "marked_dispatched", "terminal_completed"}

EventBodies == [type : EventTypes, version : Nat, lease : Leases \cup {NoLease}]

Digests == Seq(EventBodies)

GenesisDigest == << >>

Events == [sequence : Nat, body : EventBodies, previous : Digests]

Records == [state    : LifecycleStates,
            version  : Nat,
            binding  : Bindings \cup {NoBinding},
            lease    : Leases \cup {NoLease},
            expires  : Nat,
            outcome  : TerminalOutcomes \cup {"none"},
            result   : Results \cup {NoResult},
            sequence : Nat,
            digest   : Digests]

\* No record is stored under the authority id.
AbsentRecord == [state |-> "absent", version |-> 0, binding |-> NoBinding, lease |-> NoLease,
                 expires |-> 0, outcome |-> "none", result |-> NoResult,
                 sequence |-> 0, digest |-> GenesisDigest]

----------------------------------------------------------------------------
(* The event a transition to record r appends, and the record with its     *)
(* event cursor advanced.                                                  *)

EventOf(r, type, lease) ==
    [sequence |-> r.sequence + 1,
     body     |-> [type |-> type, version |-> r.version, lease |-> lease],
     previous |-> r.digest]

EventDigest(e) == Append(e.previous, e.body)

(* Mutant: the record forgets the digest of its last event. *)
WithEventNumberOnly(r, type, lease) ==
    [r EXCEPT !.sequence = EventOf(r, type, lease).sequence]

WithEvent(r, type, lease) ==
    [r EXCEPT !.sequence = EventOf(r, type, lease).sequence,
              !.digest   = EventDigest(EventOf(r, type, lease))]

----------------------------------------------------------------------------
(* Compare-and-set: the caller names the version it read.                  *)

RequireTransition(r, expectedVersion, allowed) ==
    /\ r.version = expectedVersion
    /\ r.state \in allowed

(* issue_or_get on an unused authority id. *)
IssuedBody(b) ==
    [AbsentRecord EXCEPT !.state = "issued", !.version = 1, !.binding = b]

NewIssue(b) == WithEvent(IssuedBody(b), "issued", NoLease)

NewIssueEvent(b) == EventOf(IssuedBody(b), "issued", NoLease)

(* Mutant: a dispatched record whose lease ran out can be reclaimed too. *)
CanLeaseDispatched(r, expectedVersion, lease, now) ==
    /\ RequireTransition(r, expectedVersion, {"issued", "leased", "dispatched"})
    /\ r.state # "issued" => now > r.expires /\ r.lease # lease

(* lease_for_dispatch: a fresh record, or one whose lease ran out before   *)
(* dispatch, which needs a new lease id.                                   *)
CanLease(r, expectedVersion, lease, now) ==
    /\ RequireTransition(r, expectedVersion, {"issued", "leased"})
    /\ r.state = "leased" => now > r.expires /\ r.lease # lease

(* Mutants: the lease ends before it starts; leasing keeps the version. *)
LeasedBodyBackwards(r, expectedVersion, lease, now) ==
    [r EXCEPT !.state = "leased", !.version = expectedVersion + 1,
              !.lease = lease, !.expires = now - LeaseSeconds]

LeasedBodySameVersion(r, expectedVersion, lease, now) ==
    [r EXCEPT !.state = "leased", !.lease = lease, !.expires = now + LeaseSeconds]

LeasedBody(r, expectedVersion, lease, now) ==
    [r EXCEPT !.state = "leased", !.version = expectedVersion + 1,
              !.lease = lease, !.expires = now + LeaseSeconds]

LeaseEventType(r) ==
    IF r.state = "leased" THEN "expired_pre_dispatch_lease_reclaimed" ELSE "leased_for_dispatch"

LeaseTransition(r, expectedVersion, lease, now) ==
    WithEvent(LeasedBody(r, expectedVersion, lease, now), LeaseEventType(r), lease)

LeaseEvent(r, expectedVersion, lease, now) ==
    EventOf(LeasedBody(r, expectedVersion, lease, now), LeaseEventType(r), lease)

(* mark_dispatched: the holder of the current lease, before it runs out.   *)
CanDispatch(r, expectedVersion, lease, now) ==
    /\ RequireTransition(r, expectedVersion, {"leased"})
    /\ r.lease = lease
    /\ now <= r.expires

DispatchedBody(r, expectedVersion) ==
    [r EXCEPT !.state = "dispatched", !.version = expectedVersion + 1]

DispatchTransition(r, expectedVersion) ==
    WithEvent(DispatchedBody(r, expectedVersion), "marked_dispatched", r.lease)

DispatchEvent(r, expectedVersion) ==
    EventOf(DispatchedBody(r, expectedVersion), "marked_dispatched", r.lease)

(* Mutants: any outcome before dispatch; a closed record completes again. *)
CanCompleteEarly(r, expectedVersion, lease, outcome) ==
    /\ RequireTransition(r, expectedVersion, {"leased", "dispatched"})
    /\ r.lease = lease
    /\ outcome \in TerminalOutcomes

CanCompleteAgain(r, expectedVersion, lease, outcome) ==
    /\ RequireTransition(r, expectedVersion, {"leased", "dispatched", "terminal"})
    /\ r.lease = lease
    /\ outcome \in TerminalOutcomes
    /\ r.state = "leased" => outcome \in {"failed", "rejected"}

(* complete_terminal: before dispatch only a failure or a rejection.       *)
CanComplete(r, expectedVersion, lease, outcome) ==
    /\ RequireTransition(r, expectedVersion, {"leased", "dispatched"})
    /\ r.lease = lease
    /\ outcome \in TerminalOutcomes
    /\ r.state = "leased" => outcome \in {"failed", "rejected"}

(* Mutant: the record is answered but not closed. *)
TerminalBodyStaysOpen(r, expectedVersion, outcome, result) ==
    [r EXCEPT !.version = expectedVersion + 1, !.outcome = outcome, !.result = result]

TerminalBody(r, expectedVersion, outcome, result) ==
    [r EXCEPT !.state = "terminal", !.version = expectedVersion + 1,
              !.outcome = outcome, !.result = result]

TerminalTransition(r, expectedVersion, outcome, result) ==
    WithEvent(TerminalBody(r, expectedVersion, outcome, result), "terminal_completed", r.lease)

TerminalEvent(r, expectedVersion, outcome, result) ==
    EventOf(TerminalBody(r, expectedVersion, outcome, result), "terminal_completed", r.lease)

(* read_for_reconciliation: the receipts form one unbroken chain that ends *)
(* in the record.                                                          *)
ChainTip(events) ==
    IF events = << >> THEN GenesisDigest ELSE EventDigest(events[Len(events)])

EventChainValid(r, events) ==
    /\ \A i \in 1..Len(events) :
          /\ events[i].sequence = i
          /\ events[i].body.version = i
          /\ events[i].previous =
                IF i = 1 THEN GenesisDigest ELSE EventDigest(events[i - 1])
    /\ r.sequence = Len(events)
    /\ r.digest = ChainTip(events)
    /\ r.version = Len(events)
=============================================================================
