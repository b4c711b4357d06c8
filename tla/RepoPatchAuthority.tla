------------------------- MODULE RepoPatchAuthority -------------------------
(***************************************************************************)
(* The out-of-process repo-patch authority service                         *)
(* (services/actuators/repo_patch_authority_service.py) over its three     *)
(* durable stores: the authority lifecycle store, the execution-permit     *)
(* ledger with its immutable backups, and the Git repository whose one     *)
(* target file it promotes.                                                *)
(*                                                                         *)
(* A process serves one connection at a time.  Each step below is one      *)
(* locked store call or one file operation of the handler; a process may   *)
(* crash between any two of them, an I/O error may end the handler at any  *)
(* of them, and people may edit or commit the repository meanwhile.  A     *)
(* client may send a request again at any time.                            *)
(***************************************************************************)
EXTENDS Integers, FiniteSets

CONSTANTS
    Clients,       \* pinned client key ids
    Keys,          \* idempotency keys <decision>:<action>, one patch each
    Procs,         \* authority processes configured with the same socket and state directory
    Gates,         \* digests of HSAI gate decisions (each evaluation stamps its own created_at)
    NoGate, NoContent, NoLease, NoBinding, NoResult, NoKey, NoClient, NoProc,
    Edit,          \* a foreign change to the target file
    Times,         \* what the clock can read
    LeaseSeconds,
    MaxCrashes     \* bound: crashes in a behaviour

ASSUME ServiceAssumption ==
    /\ Times \subseteq Nat
    /\ LeaseSeconds \in Nat \ {0}
    /\ MaxCrashes \in Nat
    /\ Edit \notin Keys
    /\ NoKey \notin Keys
    /\ NoProc \notin Procs

Ops == {"preflight", "execute"}

(* The identity of an authority covers the client; a permit's does not.    *)
Auths == Clients \X Keys \X Ops

(* The target file is the set of changes it contains; a patch finds its    *)
(* anchor as long as it was not applied yet.  A replacement that contains  *)
(* its own anchor is left out.                                             *)
Contents == SUBSET (Keys \cup {Edit})

AnchorFound(k, c) == k \notin c

Patched(k, c) == c \cup {k}

Bindings == [gate : Gates \cup {NoGate}, base : Contents \cup {NoContent}]

Leases == Procs \X Nat

Result(kind, base) == [kind |-> kind, base |-> base]

Results == [kind : {"preflighted", "promoted", "failed", "rejected", "unknown"},
            base : Contents \cup {NoContent}]

ASSUME MarkerAssumption == (\A c \in Contents : c # NoContent) /\ (\A r \in Results : r # NoResult)

INSTANCE PermitLedger WITH GateDigests <- Gates

INSTANCE AuthorityRecord

VARIABLES
    auth,      \* lifecycle records, by client, key and operation
    permit,    \* permit ledger, by key
    fenced,    \* the repository root is in fenced_roots
    backup,    \* backup files, by key
    target,    \* content of the target file
    head,      \* its content at HEAD
    socket,    \* the listener the socket path leads to, if the path exists
    proc,      \* local state of each process
    crashes,
    promoted,  \* observation: how often each client's request replaced the target
    replies    \* observation: the terminal answers sent

vars == << auth, permit, fenced, backup, target, head, socket, proc, crashes, promoted, replies >>

stores == << auth, permit, fenced, backup, target, head, socket >>

observed == << promoted, replies >>

HandlerSteps == {"lease", "admit", "dispatch", "preflight", "replay", "prepare", "issue",
                 "backup", "record_prepared", "consume", "record_applying", "promote", "replace",
                 "record_applied", "verify", "commit", "complete", "reconcile"}

RestoreSteps == {"inspect", "restore", "record_aborted", "fence"}

Steps == {"down", "recover", "idle"} \cup HandlerSteps \cup RestoreSteps

Locals ==
    [pc       : Steps,
     client   : Clients \cup {NoClient},
     key      : Keys \cup {NoKey},
     op       : Ops,
     gate     : Gates \cup {NoGate},        \* the client's gate
     base     : Contents \cup {NoContent},  \* the client's preflight receipt
     version  : Nat,                        \* of the record last returned by issue or lease
     lease    : Leases \cup {NoLease},
     final    : Nat,                        \* version the completion will name
     outcome  : TerminalOutcomes \cup {"none"},
     result   : Results \cup {NoResult},
     agate    : Gates \cup {NoGate},        \* the authority's own gate
     prep     : Contents \cup {NoContent},  \* PreparedRepoPatch.original_bytes and base tree
     from     : PermitStates,               \* expected_state of the restoration
     recovers : BOOLEAN,                    \* start() has not finished recovery
     todo     : SUBSET (Keys \X MutationStates)]

Resting == [pc |-> "idle", client |-> NoClient, key |-> NoKey, op |-> "preflight", gate |-> NoGate, base |-> NoContent,
            version |-> 0, lease |-> NoLease, final |-> 0, outcome |-> "none", result |-> NoResult,
            agate |-> NoGate, prep |-> NoContent, from |-> "none", recovers |-> FALSE, todo |-> {}]

Down == [Resting EXCEPT !.pc = "down"]

(* The types of the stores, the file and the processes.                    *)
TypeOK ==
    /\ auth \in [Auths -> Records]
    /\ permit \in [Keys -> Permits]
    /\ fenced \in BOOLEAN
    /\ backup \in [Keys -> Contents \cup {NoContent}]
    /\ target \in Contents
    /\ head \in Contents
    /\ socket \in Procs \cup {NoProc}
    /\ proc \in [Procs -> Locals]
    /\ crashes \in Nat
    /\ promoted \in [Clients \X Keys -> Nat]
    /\ replies \in [Auths -> SUBSET [outcome : TerminalOutcomes, result : Results]]

Init ==
    /\ auth = [a \in Auths |-> AbsentRecord]
    /\ permit = [k \in Keys |-> NoPermit]
    /\ fenced = FALSE
    /\ backup = [k \in Keys |-> NoContent]
    /\ target = {}
    /\ head = {}
    /\ socket = NoProc
    /\ proc = [p \in Procs |-> Down]
    /\ crashes = 0
    /\ promoted = [a \in Clients \X Keys |-> 0]
    /\ replies = [a \in Auths |-> {}]

----------------------------------------------------------------------------
At(p, step) == proc[p].pc = step

Become(p, local) == proc' = [proc EXCEPT ![p] = local]

Goto(p, step) == Become(p, [proc[p] EXCEPT !.pc = step])

ThisAuth(p) == << proc[p].client, proc[p].key, proc[p].op >>

ThisPermit(p) == permit[proc[p].key]

(* Once dispatched, the normal path completes with the dispatched record.  *)
DispatchedVersion(p) == proc[p].version + 1

Completing(p, version, outcome, result) ==
    [proc[p] EXCEPT !.pc = "complete", !.final = version, !.outcome = outcome, !.result = result]

Finish(p, outcome, result) == Become(p, Completing(p, DispatchedVersion(p), outcome, result))

(* Mutant: the exception handler reads the record again before it          *)
(* completes.                                                              *)
RaisedWithCurrentVersion(p, outcome) ==
    Completing(p, auth[ThisAuth(p)].version, outcome, Result("rejected", NoContent))

(* An exception leaves _handle_leased_request: handle_request completes    *)
(* with the leased record it still holds, whatever happened since.         *)
Raised(p, outcome) == Completing(p, proc[p].version, outcome, Result("rejected", NoContent))

SendReply(a, r) ==
    replies' = [replies EXCEPT ![a] = @ \cup {[outcome |-> r.outcome, result |-> r.result]}]

----------------------------------------------------------------------------
(* handle_request up to the lease.                                         *)

Request(c, k, op, g, b) ==
    [Resting EXCEPT !.client = c, !.key = k, !.op = op, !.gate = g, !.base = b]

(* issue_or_get, then the branch on the state of the returned record.      *)
Receive(p, c, k, op, g, b) ==
    LET a   == << c, k, op >>
        r   == IF auth[a].state = "absent" THEN IssuedBody([gate |-> g, base |-> b]) ELSE auth[a]
        req == [Request(c, k, op, g, b) EXCEPT !.version = r.version, !.lease = r.lease]
    IN  /\ At(p, "idle") /\ socket = p
        /\ r.binding = [gate |-> g, base |-> b]
        /\ auth' = [auth EXCEPT ![a] = r]
        /\ CASE r.state = "terminal" ->
                  /\ SendReply(a, r)
                  /\ UNCHANGED proc
             [] r.state = "dispatched" /\ op = "execute" ->
                  /\ Become(p, [req EXCEPT !.pc = "reconcile"])
                  /\ UNCHANGED replies
             [] r.state = "dispatched" /\ op = "preflight" ->
                  /\ Become(p, [req EXCEPT !.pc = "complete", !.final = r.version,
                                  !.outcome = "unknown", !.result = Result("unknown", NoContent)])
                  /\ UNCHANGED replies
             [] OTHER ->
                  /\ Become(p, [req EXCEPT !.pc = "lease"])
                  /\ UNCHANGED replies
        /\ UNCHANGED << permit, fenced, backup, target, head, socket, crashes, promoted >>

ReceivePreflight(p, c, k) == Receive(p, c, k, "preflight", NoGate, NoContent)

(* The client executes with the receipt a successful preflight gave it.    *)
ReceiveExecute(p, c, k, g) ==
    LET receipt == auth[<< c, k, "preflight" >>]
    IN  /\ receipt.outcome = "succeeded"
        /\ Receive(p, c, k, "execute", g, receipt.result.base)

(* lease_for_dispatch with a random lease id; a conflict ends the request. *)
Lease(p, now) ==
    LET a     == ThisAuth(p)
        v     == proc[p].version
        lease == << p, v + 1 >>
    IN  /\ At(p, "lease")
        /\ IF CanLease(auth[a], v, lease, now)
             THEN /\ auth' = [auth EXCEPT ![a] = LeasedBody(@, v, lease, now)]
                  /\ Become(p, [proc[p] EXCEPT
                         !.pc = IF proc[p].op = "execute" THEN "admit" ELSE "dispatch",
                         !.version = v + 1, !.lease = lease])
             ELSE Become(p, Resting) /\ UNCHANGED auth
        /\ UNCHANGED << permit, fenced, backup, target, head, socket, crashes, observed >>

StoredResult(r) ==
    Result(IF r.state = "committed" THEN "promoted" ELSE "failed", NoContent)

(* The reconciliation of a dispatched execute: the permit's stored result  *)
(* under the gate of this request, or unknown.                             *)
Reconcile(p) ==
    LET k == proc[p].key
        done == permit[k].state \in TerminalStates
    IN  /\ At(p, "reconcile")
        /\ IF done /\ permit[k].gate # proc[p].gate
             THEN Become(p, Resting)
             ELSE Become(p, Completing(p, proc[p].version,
                              IF done THEN ResultStatus(permit[k]) ELSE "unknown",
                              IF done THEN StoredResult(permit[k])
                                      ELSE Result("unknown", NoContent)))
        /\ UNCHANGED << stores, crashes, observed >>

----------------------------------------------------------------------------
(* _handle_leased_request.                                                 *)

(* The authority evaluates its own HSAI gate: an unavailable or            *)
(* ineligible adapter, a denial, a mismatch with the client's gate or an   *)
(* exception ends the request before dispatch.                             *)
Admit(p) ==
    /\ At(p, "admit")
    /\ \/ \E g \in Gates : Become(p, [proc[p] EXCEPT !.pc = "dispatch", !.agate = g])
       \/ \E o \in {"rejected", "failed"} : Become(p, Raised(p, o))
    /\ UNCHANGED << stores, crashes, observed >>

(* mark_dispatched; a refused dispatch raises.                             *)
Dispatch(p, now) ==
    LET a == ThisAuth(p)
        v == proc[p].version
    IN  /\ At(p, "dispatch")
        /\ IF CanDispatch(auth[a], v, proc[p].lease, now)
             THEN /\ auth' = [auth EXCEPT ![a] = DispatchedBody(@, v)]
                  /\ Goto(p, IF proc[p].op = "execute" THEN "replay" ELSE "preflight")
             ELSE Become(p, Raised(p, "rejected")) /\ UNCHANGED auth
        /\ UNCHANGED << permit, fenced, backup, target, head, socket, crashes, observed >>

(* prepare() needs a clean tree and the anchor, and the verifier's tests.  *)
Preparable(k) == target = head /\ AnchorFound(k, target)

Preflight(p) ==
    /\ At(p, "preflight")
    /\ \/ /\ Preparable(proc[p].key)
          /\ Finish(p, "succeeded", Result("preflighted", target))
       \/ Finish(p, "rejected", Result("rejected", NoContent))
    /\ UNCHANGED << stores, crashes, observed >>

(* terminal_result_for_replay before any work is done.                     *)
Replay(p) ==
    LET r == ThisPermit(p)
    IN  /\ At(p, "replay")
        /\ IF r.state \notin TerminalStates
             THEN Goto(p, "prepare")
             ELSE IF r.gate # proc[p].agate
                    THEN Become(p, Raised(p, "rejected"))
                    ELSE Finish(p, ResultStatus(r), StoredResult(r))
        /\ UNCHANGED << stores, crashes, observed >>

Prepare(p) ==
    /\ At(p, "prepare")
    /\ \/ /\ Preparable(proc[p].key)
          /\ target = proc[p].base
          /\ Become(p, [proc[p] EXCEPT !.pc = "issue", !.prep = target])
       \/ Finish(p, "rejected", Result("rejected", NoContent))
    /\ UNCHANGED << stores, crashes, observed >>

----------------------------------------------------------------------------
(* _promote_verified_patch.                                                *)

SetPermit(k, r) == permit' = [permit EXCEPT ![k] = r]

(* Mutant: the fence is not looked at. *)
IssueDespiteFence(p) ==
    LET k == proc[p].key
    IN  /\ At(p, "issue")
        /\ AnchorFound(k, target)
        /\ IF permit[k].state = "none"
             THEN SetPermit(k, NewPermit(proc[p].agate, target, Patched(k, target)))
             ELSE UNCHANGED permit
        /\ Goto(p, "backup")
        /\ UNCHANGED << auth, fenced, backup, target, head, socket, crashes, observed >>

(* issue: refused on a fenced root or without the anchor; a permit already *)
(* issued under the key is returned as it is.                              *)
Issue(p) ==
    LET k == proc[p].key
    IN  /\ At(p, "issue")
        /\ IF fenced \/ ~AnchorFound(k, target)
             THEN Become(p, Raised(p, "rejected")) /\ UNCHANGED permit
             ELSE /\ IF permit[k].state = "none"
                       THEN SetPermit(k, NewPermit(proc[p].agate, target, Patched(k, target)))
                       ELSE UNCHANGED permit
                  /\ Goto(p, "backup")
        /\ UNCHANGED << auth, fenced, backup, target, head, socket, crashes, observed >>

(* Mutant: the transaction goes on without a backup. *)
BackupSkipped(p) ==
    /\ At(p, "backup")
    /\ Goto(p, "record_prepared")
    /\ UNCHANGED << stores, crashes, observed >>

(* write_immutable_backup keeps the bytes read when the patch was          *)
(* prepared, after checking the target against the permit.                 *)
Backup(p) ==
    LET k == proc[p].key
    IN  /\ At(p, "backup")
        /\ IF target = permit[k].pre /\ backup[k] \in {NoContent, proc[p].prep}
             THEN /\ backup' = [backup EXCEPT ![k] = proc[p].prep]
                  /\ Goto(p, "record_prepared")
             ELSE Become(p, Raised(p, "rejected")) /\ UNCHANGED backup
        /\ UNCHANGED << auth, permit, fenced, target, head, socket, crashes, observed >>

(* record_transition: the ledger refuses when the state is not the         *)
(* expected one.                                                           *)
Record(p, expected, new, next) ==
    LET k == proc[p].key
    IN  /\ IF CanTransition(permit[k], expected, new)
             THEN SetPermit(k, Transition(permit[k], new)) /\ Goto(p, next)
             ELSE Become(p, Raised(p, "rejected")) /\ UNCHANGED permit
        /\ UNCHANGED << auth, fenced, backup, target, head, socket, crashes, observed >>

RecordPrepared(p) == At(p, "record_prepared") /\ Record(p, "issued", "prepared", "consume")

Restoring(p, state) == [proc[p] EXCEPT !.pc = "inspect", !.from = state]

(* consume: the permit must be unexpired, prepared and unused, and the     *)
(* target still the one it binds; otherwise the handler restores.          *)
ConsumePermit(p) ==
    LET k == proc[p].key
    IN  /\ At(p, "consume")
        /\ \/ /\ CanConsume(permit[k]) /\ target = permit[k].pre
              /\ SetPermit(k, Consume(permit[k]))
              /\ Goto(p, "record_applying")
           \/ Become(p, Restoring(p, "prepared")) /\ UNCHANGED permit
        /\ UNCHANGED << auth, fenced, backup, target, head, socket, crashes, observed >>

RecordApplying(p) == At(p, "record_applying") /\ Record(p, "claimed", "applying", "promote")

(* promote() checks HEAD, the target and the tree, stages the new bytes    *)
(* and replaces the file: two steps, since the check and os.replace are    *)
(* not one.  Another dirty file, git or the staging may fail a target that *)
(* is as it was.                                                           *)
PromoteCheck(p) ==
    LET clean == head = proc[p].prep /\ target = proc[p].prep
    IN  /\ At(p, "promote")
        /\ \/ clean /\ Goto(p, "replace")
           \/ Become(p, Restoring(p, "applying"))
        /\ UNCHANGED << stores, crashes, observed >>

(* os.replace; a failed fsync afterwards still raises.                     *)
PromoteReplace(p) ==
    LET k == proc[p].key
    IN  /\ At(p, "replace")
        /\ target' = Patched(k, proc[p].prep)
        /\ promoted' = [promoted EXCEPT ![<< proc[p].client, k >>] = @ + 1]
        /\ \/ Goto(p, "record_applied")
           \/ Become(p, Restoring(p, "applying"))
        /\ UNCHANGED << auth, permit, fenced, backup, head, socket, crashes, replies >>

RecordApplied(p) == At(p, "record_applied") /\ Record(p, "applying", "applied", "verify")

Verify(p) ==
    /\ At(p, "verify")
    /\ IF target = ThisPermit(p).post
         THEN Record(p, "applied", "verifying", "commit")
         ELSE Become(p, Restoring(p, "applied")) /\ UNCHANGED << stores, crashes, observed >>

Commit(p) ==
    LET k == proc[p].key
    IN  /\ At(p, "commit")
        /\ IF CanTransition(permit[k], "verifying", "committed")
             THEN /\ SetPermit(k, Transition(permit[k], "committed"))
                  /\ Finish(p, "succeeded", Result("promoted", NoContent))
             ELSE Become(p, Raised(p, "rejected")) /\ UNCHANGED permit
        /\ UNCHANGED << auth, fenced, backup, target, head, socket, crashes, observed >>

----------------------------------------------------------------------------
(* abort_with_restoration, and the body of recover_incomplete_actions: the *)
(* same steps, except that recovery trusts the state it read when it       *)
(* started.                                                                *)

Inspect(p) ==
    LET k  == proc[p].key
        ok == /\ proc[p].recovers \/ permit[k].state = proc[p].from
              /\ backup[k] = permit[k].pre
              /\ target \in {permit[k].pre, permit[k].post}
    IN  /\ At(p, "inspect")
        /\ \/ ok /\ Goto(p, "restore")
           \/ Goto(p, "fence")
        /\ UNCHANGED << stores, crashes, observed >>

(* Mutant: the restoration forgets to write the backup. *)
RestoreWithoutWrite(p) ==
    /\ At(p, "restore")
    /\ Goto(p, "record_aborted")
    /\ UNCHANGED << stores, crashes, observed >>

(* Replacing the target, syncing or reading it back may fail.              *)
Restore(p) ==
    /\ At(p, "restore")
    /\ \/ /\ target' = backup[proc[p].key]
          /\ \E next \in {"record_aborted", "fence"} : Goto(p, next)
       \/ Goto(p, "fence") /\ UNCHANGED target
    /\ UNCHANGED << auth, permit, fenced, backup, head, socket, crashes, observed >>

(* The end of a restoration: the terminal permit state is recorded when    *)
(* the ledger still has the expected state.                                *)
Settle(p, new) ==
    LET k == proc[p].key
    IN  /\ CanTransition(permit[k], proc[p].from, new)
        /\ SetPermit(k, Transition(permit[k], new))
        /\ fenced' = (fenced \/ new = "recovery_required")
        /\ IF proc[p].recovers
             THEN Goto(p, "recover")
             ELSE Finish(p, "failed", Result("failed", NoContent))
        /\ UNCHANGED << auth, backup, target, head, socket, crashes, observed >>

RecordAborted(p) == At(p, "record_aborted") /\ Settle(p, "aborted")

Fence(p) == At(p, "fence") /\ Settle(p, "recovery_required")

(* Otherwise the ledger raises, which fails a request and ends a starting  *)
(* process: main() closes the service, and so unlinks the socket path.     *)
StaleRestoration(p) ==
    /\ proc[p].pc \in {"record_aborted", "fence"}
    /\ permit[proc[p].key].state # proc[p].from
    /\ IF proc[p].recovers
         THEN Become(p, Down) /\ socket' = NoProc
         ELSE Become(p, Raised(p, "rejected")) /\ UNCHANGED socket
    /\ UNCHANGED << auth, permit, fenced, backup, target, head, crashes, observed >>

----------------------------------------------------------------------------
(* complete_terminal.                                                      *)
Complete(p) ==
    LET a == ThisAuth(p)
        r == TerminalBody(auth[a], proc[p].final, proc[p].outcome, proc[p].result)
    IN  /\ At(p, "complete")
        /\ CanComplete(auth[a], proc[p].final, proc[p].lease, proc[p].outcome)
        /\ auth' = [auth EXCEPT ![a] = r]
        /\ SendReply(a, r)
        /\ Become(p, Resting)
        /\ UNCHANGED << permit, fenced, backup, target, head, socket, crashes, promoted >>

(* A completion that the store refuses, or cannot write, changes nothing:  *)
(* the client is only told that completion failed.                         *)
CompletionFails(p) ==
    /\ At(p, "complete")
    /\ Become(p, Resting)
    /\ UNCHANGED << stores, crashes, observed >>

(* An I/O error, a Git timeout or any other exception in a dispatched      *)
(* handler outside the calls that catch it.                                *)
Raise(p) ==
    /\ proc[p].pc \in {"preflight", "replay", "prepare", "issue", "backup", "record_prepared",
                       "record_applying", "promote", "record_applied", "verify", "commit",
                       "record_aborted", "fence"}
    /\ ~proc[p].recovers
    /\ \E o \in {"rejected", "failed"} : Become(p, Raised(p, o))
    /\ UNCHANGED << stores, crashes, observed >>

----------------------------------------------------------------------------
(* start(): recovery first, then the socket.                               *)

(* Mutant: recovery leaves aside transactions that did not reach the file. *)
StartWithoutClaimed(p) ==
    /\ At(p, "down")
    /\ Become(p, [Resting EXCEPT !.pc = "recover", !.recovers = TRUE,
                    !.todo = {<< k, permit[k].state >> : k \in
                                 {x \in Keys : permit[x].state \in {"applying", "applied", "verifying"}}}])
    /\ UNCHANGED << stores, crashes, observed >>

Start(p) ==
    /\ At(p, "down")
    /\ Become(p, [Resting EXCEPT !.pc = "recover", !.recovers = TRUE,
                    !.todo = {<< k, permit[k].state >> : k \in
                                 {x \in Keys : permit[x].state \in MutationStates}}])
    /\ UNCHANGED << stores, crashes, observed >>

RecoverNext(p) ==
    /\ At(p, "recover")
    /\ \E t \in proc[p].todo :
          Become(p, [proc[p] EXCEPT !.pc = "inspect", !.key = t[1], !.from = t[2],
                                    !.todo = @ \ {t}])
    /\ UNCHANGED << stores, crashes, observed >>

Listen(p) ==
    /\ At(p, "recover") /\ proc[p].todo = {}
    /\ socket = NoProc
    /\ socket' = p
    /\ Become(p, Resting)
    /\ UNCHANGED << auth, permit, fenced, backup, target, head, crashes, observed >>

(* The path exists: it was left by a crash, or a process is serving on it. *)
(* start() raises and main() closes the service, which unlinks the path.   *)
ListenRefused(p) ==
    /\ At(p, "recover") /\ proc[p].todo = {}
    /\ socket # NoProc
    /\ socket' = NoProc
    /\ Become(p, Down)
    /\ UNCHANGED << auth, permit, fenced, backup, target, head, crashes, observed >>

(* A kill leaves the socket path behind; an interrupt, or an error in      *)
(* start(), runs close().                                                  *)
Crash(p) ==
    /\ ~At(p, "down")
    /\ crashes < MaxCrashes
    /\ crashes' = crashes + 1
    /\ socket' \in {socket, NoProc}
    /\ Become(p, Down)
    /\ UNCHANGED << auth, permit, fenced, backup, target, head, observed >>

----------------------------------------------------------------------------
(* People working in the repository.                                       *)

EditTarget ==
    /\ Edit \notin target
    /\ target' = target \cup {Edit}
    /\ UNCHANGED << auth, permit, fenced, backup, head, socket, proc, crashes, observed >>

CommitTarget ==
    /\ head # target
    /\ head' = target
    /\ UNCHANGED << auth, permit, fenced, backup, target, socket, proc, crashes, observed >>

Step(p) ==
    \/ \E c \in Clients, k \in Keys :
          ReceivePreflight(p, c, k) \/ \E g \in Gates : ReceiveExecute(p, c, k, g)
    \/ \E now \in Times : Lease(p, now) \/ Dispatch(p, now)
    \/ Reconcile(p) \/ Admit(p) \/ Preflight(p) \/ Replay(p) \/ Prepare(p)
    \/ Issue(p) \/ Backup(p) \/ RecordPrepared(p) \/ ConsumePermit(p) \/ RecordApplying(p)
    \/ PromoteCheck(p) \/ PromoteReplace(p) \/ RecordApplied(p) \/ Verify(p) \/ Commit(p)
    \/ Inspect(p) \/ Restore(p) \/ RecordAborted(p) \/ Fence(p) \/ StaleRestoration(p)
    \/ Complete(p) \/ CompletionFails(p) \/ Raise(p)
    \/ Start(p) \/ RecoverNext(p) \/ Listen(p) \/ ListenRefused(p) \/ Crash(p)

Next == (\E p \in Procs : Step(p)) \/ EditTarget \/ CommitTarget

Spec == Init /\ [][Next]_vars

----------------------------------------------------------------------------
(* The patch of a key replaces the target at most once, whichever clients  *)
(* ask for it, however often, and wherever processes crash: the lifecycle  *)
(* store keeps a client's retry from running twice, the permit's           *)
(* single-use nonce keeps two clients' requests from both running.         *)
AtMostOncePromotion ==
    \A k \in Keys, c, d \in Clients :
        /\ promoted[<< c, k >>] <= 1
        /\ promoted[<< c, k >>] + promoted[<< d, k >>] = 2 => c = d

(* An execute that is recorded, and so answered, as succeeded has a        *)
(* committed permit; one recorded as failed by the permit has a permit     *)
(* that can no longer commit.                                              *)
OutcomeMatchesPermit ==
    \A c \in Clients, k \in Keys :
        LET r == auth[<< c, k, "execute" >>]
        IN  /\ r.outcome = "succeeded" => permit[k].state = "committed"
            /\ r.outcome = "failed" /\ r.result.kind = "failed" =>
                  permit[k].state \in {"aborted", "recovery_required"}

(* A request that is answered as rejected never touched the repository     *)
(* file, although an exception can interrupt it after the replacement:     *)
(* the exception handler completes with the leased record, which the store *)
(* refuses once the action is dispatched.                                  *)
RejectedMeansUntouched ==
    \A c \in Clients, k \in Keys :
        auth[<< c, k, "execute" >>].result \in {Result("rejected", NoContent)} =>
            promoted[<< c, k >>] = 0

(* The ledger tells the truth about the file: a committed patch is in it   *)
(* and an aborted one is not.                                              *)
LedgerMatchesTarget ==
    \A k \in Keys :
        /\ permit[k].state = "committed" => k \in target
        /\ permit[k].state = "aborted" => k \notin target

(* No patch touches the file unless its original bytes are in a backup and *)
(* the ledger names a state that recovery restores or a terminal one.      *)
PatchIsRecoverable ==
    \A k \in Keys :
        k \in target =>
            /\ backup[k] # NoContent
            /\ permit[k].state \in {"applying", "applied", "verifying"} \cup TerminalStates

(* Whatever is answered for an authority, every answer is the same.        *)
RepliesAgree ==
    \A a \in Auths : \A r, s \in replies[a] : r = s

(* A process that begins to serve has settled every interrupted            *)
(* transaction.                                                            *)
ServesRecovered ==
    [][\A p \in Procs : proc[p].recovers /\ proc'[p].pc = "idle" =>
          \A k \in Keys : permit'[k].state \notin MutationStates]_vars

(* A terminal permit never changes, and a fenced repository stays fenced   *)
(* and gets no new permit.                                                 *)
LedgerSettles ==
    [][/\ \A k \in Keys : permit[k].state \in TerminalStates => permit'[k] = permit[k]
       /\ fenced => fenced' /\ \A k \in Keys : permit[k].state = "none" => permit'[k] = permit[k]
      ]_vars
=============================================================================
