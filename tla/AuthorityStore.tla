--------------------------- MODULE AuthorityStore ---------------------------
(***************************************************************************)
(* The durable repo-patch authority store against arbitrary callers.       *)
(*                                                                         *)
(* A caller (one request being handled by one authority service process)   *)
(* keeps the records it was handed and may act on any of them later, when  *)
(* they may be stale: the store's only defence is the compare-and-set on   *)
(* the version, the lease id and the state.  Nothing is assumed of clocks: *)
(* every call reads some time, so a caller with a fast, slow or stepped    *)
(* clock is covered.                                                       *)
(***************************************************************************)
EXTENDS AuthorityRecord

CONSTANTS
    Authorities,  \* authority ids; idempotency key and nonce are derived from the same identity
    Callers,
    Times         \* what a clock can read

ASSUME StoreAssumption == Times \subseteq Nat

VARIABLES
    store,     \* authority id -> its record
    log,       \* authority id -> its event receipts
    snapshot,  \* caller, authority id -> the record that caller will act on
    spent,     \* lease ids already drawn: 256 random bits never repeat
    granted,   \* observation: authority id -> the (caller, lease) pairs told "dispatched"
    told       \* observation: authority id -> the terminal answers handed to callers

vars == << store, log, snapshot, spent, granted, told >>

Answers == [outcome : TerminalOutcomes, result : Results]

(* The types of the records, the receipts and what callers hold and were   *)
(* told by the store.                                                      *)
TypeOK ==
    /\ store \in [Authorities -> Records]
    /\ log \in [Authorities -> Seq(Events)]
    /\ snapshot \in [Callers -> [Authorities -> Records]]
    /\ spent \subseteq Leases
    /\ granted \in [Authorities -> SUBSET (Callers \X Leases)]
    /\ told \in [Authorities -> SUBSET Answers]

Init ==
    /\ store = [a \in Authorities |-> AbsentRecord]
    /\ log = [a \in Authorities |-> << >>]
    /\ snapshot = [c \in Callers |-> [a \in Authorities |-> AbsentRecord]]
    /\ spent = {}
    /\ granted = [a \in Authorities |-> {}]
    /\ told = [a \in Authorities |-> {}]

----------------------------------------------------------------------------
Keep(c, a, r) == snapshot' = [snapshot EXCEPT ![c][a] = r]

Answer(r) == [outcome |-> r.outcome, result |-> r.result]

Save(a, r, e) ==
    /\ store' = [store EXCEPT ![a] = r]
    /\ log' = [log EXCEPT ![a] = Append(@, e)]

(* issue_or_get on an unused id stores and returns a new record.           *)
Issue(c, a, b) ==
    /\ store[a].state = "absent"
    /\ Save(a, NewIssue(b), NewIssueEvent(b))
    /\ Keep(c, a, NewIssue(b))
    /\ UNCHANGED << spent, granted, told >>

(* issue_or_get on a used id returns the record when the whole binding is  *)
(* the same; the caller of a terminal record replays its answer.           *)
Get(c, a, b) ==
    /\ store[a].state # "absent"
    /\ store[a].binding = b
    /\ Keep(c, a, store[a])
    /\ told' = IF store[a].state = "terminal"
                 THEN [told EXCEPT ![a] = @ \cup {Answer(store[a])}]
                 ELSE told
    /\ UNCHANGED << store, log, spent, granted >>

LeaseForDispatch(c, a, lease, now) ==
    LET expected == snapshot[c][a].version
        updated  == LeaseTransition(store[a], expected, lease, now)
    IN  /\ lease \notin spent
        /\ CanLease(store[a], expected, lease, now)
        /\ Save(a, updated, LeaseEvent(store[a], expected, lease, now))
        /\ Keep(c, a, updated)
        /\ spent' = spent \cup {lease}
        /\ UNCHANGED << granted, told >>

(* The handler keeps both the leased and the dispatched record: its error  *)
(* paths go on with the leased one, its normal path with the other.        *)
MarkDispatched(c, a, now) ==
    LET mine    == snapshot[c][a]
        updated == DispatchTransition(store[a], mine.version)
    IN  /\ CanDispatch(store[a], mine.version, mine.lease, now)
        /\ Save(a, updated, DispatchEvent(store[a], mine.version))
        /\ \E kept \in {mine, updated} : Keep(c, a, kept)
        /\ granted' = [granted EXCEPT ![a] = @ \cup {<< c, mine.lease >>}]
        /\ UNCHANGED << spent, told >>

(* Completing uses the lease id in the record the caller holds: its own,   *)
(* or, when it reconciles a dispatched record, the dispatcher's.           *)
CompleteTerminal(c, a, outcome, result) ==
    LET mine    == snapshot[c][a]
        updated == TerminalTransition(store[a], mine.version, outcome, result)
    IN  /\ CanComplete(store[a], mine.version, mine.lease, outcome)
        /\ Save(a, updated, TerminalEvent(store[a], mine.version, outcome, result))
        /\ Keep(c, a, updated)
        /\ told' = [told EXCEPT ![a] = @ \cup {Answer(updated)}]
        /\ UNCHANGED << spent, granted >>

Next ==
    \E c \in Callers, a \in Authorities :
        \/ \E b \in Bindings : Issue(c, a, b) \/ Get(c, a, b)
        \/ \E lease \in Leases, now \in Times : LeaseForDispatch(c, a, lease, now)
        \/ \E now \in Times : MarkDispatched(c, a, now)
        \/ \E outcome \in TerminalOutcomes, result \in Results :
              CompleteTerminal(c, a, outcome, result)

Spec == Init /\ [][Next]_vars

----------------------------------------------------------------------------
(* An authority is dispatched by one caller under one lease in its whole   *)
(* life, however many callers leased, lost and reclaimed it: of a caller   *)
(* whose lease ran out and the one that reclaimed it, only one is told to  *)
(* go ahead (_dispatch_transition, _lease_transition).                     *)
SingleDispatch ==
    \A a \in Authorities : \A g, h \in granted[a] : g = h

(* Every caller that is given a terminal answer for an authority is given  *)
(* the same one, whether it completed the authority or replays it          *)
(* (complete_terminal, issue_or_get), and it is the stored one.            *)
AnswersAgree ==
    \A a \in Authorities : \A t \in told[a] :
        store[a].state = "terminal" /\ t = Answer(store[a])

(* A success, or an outcome nobody knows, is recorded only for an action   *)
(* that a caller was allowed to start under the lease in the record        *)
(* (_terminal_transition).                                                 *)
OutcomeFollowsDispatch ==
    \A a \in Authorities :
        store[a].outcome \in {"succeeded", "unknown"} =>
            \E c \in Callers : << c, store[a].lease >> \in granted[a]

(* read_for_reconciliation never refuses a record this store wrote.        *)
ReconciliationAccepts ==
    \A a \in Authorities : EventChainValid(store[a], log[a])

Rank(r) == CASE r.state = "absent" -> 0
             [] r.state = "issued" -> 1
             [] r.state = "leased" -> 2
             [] r.state = "dispatched" -> 3
             [] r.state = "terminal" -> 4

(* The life of a record goes one way: every change raises its version by   *)
(* exactly one, never moves it to an earlier state, keeps the receipts     *)
(* already written and the binding, and leaves a terminal record alone.    *)
LifecycleMonotone ==
    [][\A a \in Authorities :
          store'[a] # store[a] =>
             /\ store[a].state # "terminal"
             /\ store'[a].version = store[a].version + 1
             /\ Rank(store'[a]) >= Rank(store[a])
             /\ store[a].state # "absent" => store'[a].binding = store[a].binding
             /\ SubSeq(log'[a], 1, Len(log[a])) = log[a]]_vars

----------------------------------------------------------------------------
PhaseOf(r) == CASE r.state = "terminal" -> "closed"
                [] r.state = "dispatched" -> "started"
                [] OTHER -> "open"

AtMostOnce == INSTANCE AtMostOnceAction WITH
    Actions <- Authorities,
    Actors <- Callers \X Leases,
    Outcomes <- TerminalOutcomes,
    Payloads <- Results,
    PreStartOutcomes <- {"failed", "rejected"},
    phase <- [a \in Authorities |-> PhaseOf(store[a])],
    starter <- granted,
    answer <- told

(* The store, with its versions, leases and reclaims, implements the       *)
(* at-most-once action its clients rely on: leasing, reclaiming, reading   *)
(* and replaying are invisible steps.                                      *)
ImplementsAtMostOnce == AtMostOnce!Spec
=============================================================================
