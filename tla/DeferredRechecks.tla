-------------------------- MODULE DeferredRechecks --------------------------
(***************************************************************************)
(* Deferred rechecks: a run that decides to wait leaves a record behind,   *)
(* and the recheck loop of a process claims the records that are due,      *)
(* starts a run for each with the signal the record holds, and marks it.   *)
(* The processes share the state directory, and each may crash.            *)
(*                                                                         *)
(* A run leaves at most one record, which goes by the name of the run.     *)
(***************************************************************************)
EXTENDS Naturals, FiniteSets

CONSTANTS
    Runs,
    Processes,
    NoRun,
    Limit,        \* claims of one round
    MaxSignals,   \* bound: runs that are not rechecks
    MaxFaults     \* bound: crashes of processes and of loops

ASSUME RechecksAssumption ==
    /\ NoRun \notin Runs
    /\ Limit \in Nat \ {0} /\ {MaxSignals, MaxFaults} \subseteq Nat

RunSteps == {"working", "deferring", "ended", "waiting"}

RunStates == [pc    : RunSteps,
              probe : BOOLEAN]          \* its signal shows a probe failure and no crash

RecordStatuses == {"none", "pending", "claimed", "spawned", "failed"}

Loops == [pc     : {"idle", "spawn", "mark", "raised", "dead"},
          batch  : SUBSET Runs,         \* claimed records still to be spawned
          record : Runs \cup {NoRun},
          child  : Runs \cup {NoRun}]

VARIABLES
    run,
    record,     \* deferred_runs.json: source run -> status
    loop,       \* the recheck loops
    signals, faults,
    spawns      \* observation: rechecks started for the record, 2 for more than one

bounds == << signals, faults >>
vars == << run, record, loop, bounds, spawns >>

Ended == [pc |-> "ended", probe |-> FALSE]
IdleLoop == [pc |-> "idle", batch |-> {}, record |-> NoRun, child |-> NoRun]

(* Every variable has its type.                                            *)
TypeOK ==
    /\ run \in [Runs -> RunStates]
    /\ record \in [Runs -> RecordStatuses]
    /\ loop \in [Processes -> Loops]
    /\ signals \in 0 .. MaxSignals /\ faults \in 0 .. MaxFaults
    /\ spawns \in [Runs -> 0 .. 2]

Init ==
    /\ run = [r \in Runs |-> Ended]
    /\ record = [r \in Runs |-> "none"]
    /\ loop = [p \in Processes |-> IdleLoop]
    /\ signals = 0 /\ faults = 0
    /\ spawns = [r \in Runs |-> 0]

----------------------------------------------------------------------------
(* The records a loop has claimed and not yet marked.                      *)
Hand(p) == loop[p].batch \cup ({loop[p].record} \ {NoRun})

(* A claimed record no loop knows of.                                      *)
Lost(r) == record[r] = "claimed" /\ \A p \in Processes : r \notin Hand(p)

(* The runs, records and counts become rs, ds and cs; of an ended run with *)
(* a closed record nothing is kept.                                        *)
Store(rs, ds, cs) ==
    LET over == {r \in Runs : rs[r].pc = "ended" /\ ds[r] \in {"none", "spawned", "failed"}}
    IN  /\ run' = [r \in Runs |-> IF r \in over THEN Ended ELSE rs[r]]
        /\ record' = [r \in Runs |-> IF r \in over THEN "none" ELSE ds[r]]
        /\ spawns' = [r \in Runs |-> IF r \in over THEN 0 ELSE cs[r]]

(* The names nobody needs any more.                                        *)
Available ==
    {r \in Runs : /\ run[r].pc = "ended"
                  /\ record[r] = "none" \/ Lost(r)
                  /\ \A p \in Processes : r # loop[p].child}

NewName == CHOOSE r \in Available : TRUE

(* create_run: admission may refuse the run, which is then created failed. *)
NewRun(probe, counts) ==
    \E pc \in {"working", "ended"} :
        Store([run EXCEPT ![NewName] = [pc |-> pc, probe |-> probe]],
              [record EXCEPT ![NewName] = "none"],
              [counts EXCEPT ![NewName] = 0])

Submit ==
    /\ Available # {}
    /\ signals < MaxSignals /\ signals' = signals + 1
    /\ \E probe \in BOOLEAN : NewRun(probe, spawns)
    /\ UNCHANGED << loop, faults >>

----------------------------------------------------------------------------
(* _execute_run.                                                           *)

Go(r, pc, status) ==
    /\ Store([run EXCEPT ![r].pc = pc], [record EXCEPT ![r] = status], spawns)
    /\ UNCHANGED << loop, bounds >>

(* A probe failure without a crash is always deferred; whether the run is  *)
(* itself a recheck does not count.                                        *)
Decide(r) ==
    /\ run[r].pc = "working"
    /\ IF run[r].probe THEN Go(r, "deferring", "pending") ELSE Go(r, "ended", "none")

(* Any other signal may make the run wait for an operator.                 *)
Escalate(r) ==
    /\ run[r].pc = "working" /\ ~run[r].probe
    /\ Go(r, "waiting", "none")

OperatorAnswers(r) ==
    /\ run[r].pc = "waiting"
    /\ Go(r, "ended", "none")

(* The deferred run is completed; the record is already on disk.           *)
CompleteDeferred(r) ==
    /\ run[r].pc = "deferring"
    /\ Go(r, "ended", record[r])

(* An exception before or after the record is written fails the run.       *)
RunRaises(r) ==
    /\ run[r].pc \in {"working", "deferring"}
    /\ Go(r, "ended", record[r])

----------------------------------------------------------------------------
(* _deferred_recheck_loop.                                                 *)

Set(p, local) == loop' = [loop EXCEPT ![p] = local]

(* Mutant: a claimed record is due again, as if its claim had expired. *)
PendingOrClaimed == {r \in Runs : record[r] \in {"pending", "claimed"}}

Pending == {r \in Runs : record[r] = "pending"}

(* claim_due reads and rewrites the file under its lock.                   *)
ClaimDue(p, due) ==
    /\ loop[p].pc = "idle"
    /\ due # {} /\ Cardinality(due) <= Limit
    /\ due \subseteq Pending
    /\ record' = [r \in Runs |-> IF r \in due THEN "claimed" ELSE record[r]]
    /\ Set(p, [IdleLoop EXCEPT !.pc = "spawn", !.batch = due])
    /\ UNCHANGED << run, bounds, spawns >>

(* _spawn_deferred_recheck: the recheck gets the signal as it was then.    *)
Spawn(p, d) ==
    /\ loop[p].pc = "spawn" /\ d \in loop[p].batch
    /\ Available # {}
    /\ NewRun(run[d].probe, [spawns EXCEPT ![d] = IF @ < 2 THEN @ + 1 ELSE @])
    /\ Set(p, [pc |-> "mark", batch |-> loop[p].batch \ {d}, record |-> d, child |-> NewName])
    /\ UNCHANGED bounds

(* create_run raises: the store fails, or the process is shutting down.    *)
SpawnRaises(p, d) ==
    /\ loop[p].pc = "spawn" /\ d \in loop[p].batch
    /\ Set(p, [IdleLoop EXCEPT !.pc = "raised", !.batch = loop[p].batch \ {d}, !.record = d])
    /\ UNCHANGED << run, record, bounds, spawns >>

(* The record is marked and the loop goes on with the batch.               *)
Mark(p, status) ==
    /\ Store(run, [record EXCEPT ![loop[p].record] = status], spawns)
    /\ Set(p, [IdleLoop EXCEPT !.batch = loop[p].batch,
                               !.pc = IF loop[p].batch = {} THEN "idle" ELSE "spawn"])
    /\ UNCHANGED bounds

MarkSpawned(p) == loop[p].pc = "mark" /\ Mark(p, "spawned")

(* mark_spawned raises, and the record is marked as failed.                *)
MarkRaises(p) ==
    /\ loop[p].pc = "mark"
    /\ Set(p, [loop[p] EXCEPT !.pc = "raised", !.child = NoRun])
    /\ UNCHANGED << run, record, bounds, spawns >>

(* Mutant: a recheck that raised is due again. *)
MarkPending(p) == loop[p].pc = "raised" /\ Mark(p, "pending")

(* Mutant: a recheck that raised is only logged. *)
MarkNothing(p) == loop[p].pc = "raised" /\ Mark(p, "claimed")

MarkFailed(p) == loop[p].pc = "raised" /\ Mark(p, "failed")

(* claim_due or mark_failed raises, which nobody catches: the thread ends, *)
(* and the process goes on without it.                                     *)
LoopDies(p) ==
    /\ loop[p].pc \in {"idle", "raised"}
    /\ faults < MaxFaults /\ faults' = faults + 1
    /\ Set(p, [IdleLoop EXCEPT !.pc = "dead"])
    /\ UNCHANGED << run, record, signals, spawns >>

(* A process stops and is started again.  Its claims are forgotten, and    *)
(* nobody goes on with the runs it was working on.                         *)
Crash(p) ==
    /\ faults < MaxFaults /\ faults' = faults + 1
    /\ Set(p, IdleLoop)
    /\ \E dead \in SUBSET {r \in Runs : run[r].pc # "ended"} :
          Store([r \in Runs |-> [run[r] EXCEPT !.pc = IF r \in dead THEN "ended" ELSE @]],
                record, spawns)
    /\ UNCHANGED signals

----------------------------------------------------------------------------
RunStep(r) == Decide(r) \/ Escalate(r) \/ CompleteDeferred(r) \/ RunRaises(r)

LoopStep(p) ==
    \/ \E d \in Runs : Spawn(p, d) \/ SpawnRaises(p, d)
    \/ MarkSpawned(p) \/ MarkRaises(p) \/ MarkFailed(p)

Next ==
    \/ Submit
    \/ \E r \in Runs : RunStep(r) \/ OperatorAnswers(r)
    \/ \E p \in Processes :
          \/ LoopStep(p) \/ LoopDies(p) \/ Crash(p)
          \/ \E due \in SUBSET Pending : ClaimDue(p, due)

Spec == Init /\ [][Next]_vars

(* Runs and loops are scheduled.  The file is scanned from its oldest      *)
(* record, so that a record that is due is claimed after finitely many.    *)
Fairness ==
    /\ \A r \in Runs : WF_vars(RunStep(r))
    /\ \A p \in Processes : WF_vars(LoopStep(p))
    /\ \A r \in Runs : SF_vars(\E p \in Processes, due \in SUBSET Pending : r \in due /\ ClaimDue(p, due))

FairSpec == Spec /\ Fairness

----------------------------------------------------------------------------
(* A claimed record is in the hand of one loop, however many processes     *)
(* look for due records at the same time, and gets lost only in a fault.   *)
OneClaimant ==
    \A r \in Runs :
        /\ \A p \in Processes : r \in Hand(p) => record[r] = "claimed"
        /\ \A p, q \in Processes : r \in Hand(p) /\ r \in Hand(q) => p = q
        /\ Lost(r) => faults > 0

(* No deferral is rechecked twice, and the file says of a recheck only     *)
(* what happened: a pending record has none, a spawned record has one.     *)
RecheckedOnce ==
    \A r \in Runs :
        /\ spawns[r] <= 1
        /\ record[r] = "pending" => spawns[r] = 0
        /\ record[r] = "spawned" => spawns[r] = 1

(* Every deferral is rechecked or marked as failed and then forgotten,     *)
(* unless the loop that claimed it was lost, or all loops are.             *)
RechecksSettle ==
    \A r \in Runs :
        record[r] = "pending" ~> \/ record[r] \notin {"pending", "claimed"}
                                 \/ Lost(r) /\ faults > 0
                                 \/ \A p \in Processes : loop[p].pc = "dead"

=============================================================================
