--------------------------- MODULE RunCoordinator ---------------------------
(***************************************************************************)
(* The run coordinator of services/control_plane.py: HTTP handlers that    *)
(* create runs through admission, a pool of workers that carry them from   *)
(* ingest to execution and feedback, operators that steer them, and the    *)
(* kill switch.                                                            *)
(*                                                                         *)
(* A step is one critical section of the coordinator's lock or of a run's  *)
(* condition, one store call, or one call of the runtime engine.  What the *)
(* engine decides (trigger, decision, evaluation) is chosen freely; a      *)
(* decision is the number of times it was made or overridden.              *)
(***************************************************************************)
EXTENDS Integers, Sequences, FiniteSets

CONSTANTS
    Runs,
    Handlers,         \* HTTP threads that create runs
    Workers,          \* the run worker pool
    Operators,        \* HTTP threads that steer runs
    Targets,          \* target lock keys << tenant, service >>
    NoRun, NoTarget, NoControl,
    Live,             \* kubernetes_live_execution_enabled at start
    QueueSize,        \* run_queue_size
    Quota,            \* tenant_active_run_quota, 0 for none
    MaxRetries,       \* max_transient_retries
    Commands,         \* the steering commands operators send
    Pauses,           \* the pause points requests ask for
    LockRequests,     \* what requests may say in require_target_lock
    KillSwitches,     \* whether the kill switch is used
    Shutdowns,        \* whether the coordinator is shut down
    MaxCommands,      \* bound: steering commands sent
    MaxRunFaults,     \* bound: exceptions in _execute_run
    MaxCreateFaults   \* bound: exceptions in create_run

(* decision_ready is a legal pause point too, at which no run ever waits.   *)
PauseableStages == {"trigger_ready", "evaluation_ready", "feedback_ready"}

(* approve stands for resume too, override for both kinds of override.     *)
SteeringCommands ==
    {"approve", "cancel", "auto_on", "auto_off", "override", "pause_evaluation", "note", "handoff"}

ASSUME CoordinatorAssumption ==
    /\ NoRun \notin Runs
    /\ Handlers \cap Workers = {}
    /\ {Live, KillSwitches, Shutdowns} \subseteq BOOLEAN
    /\ {QueueSize, Quota, MaxRetries, MaxCommands, MaxRunFaults, MaxCreateFaults} \subseteq Nat
    /\ Commands \subseteq SteeringCommands
    /\ Pauses \subseteq PauseableStages
    /\ LockRequests \subseteq BOOLEAN

ASSUME ThreadsAssumption == IsFiniteSet(Handlers) /\ IsFiniteSet(Workers)

TerminalStages == {"completed", "failed", "cancelled", "no_trigger", "recovery_spawned"}

(* evidence_pack_ready stands for the stages of the investigation.          *)
Stages == {"none", "queued", "ingesting", "evidence_pack_ready", "decision_ready",
           "awaiting_operator", "executing"} \cup PauseableStages \cup TerminalStages

Threads == Handlers \cup Workers

Tenant(target) == target[1]

Sessions == [stage   : Stages,
             pending : PauseableStages \cup {"none"},   \* pending_pause_stage
             auto    : BOOLEAN,                         \* steering_mode = interruptible_auto
             pauses  : SUBSET PauseableStages]

Controls == [auto : BOOLEAN, pauses : SUBSET PauseableStages, commands : Seq(SteeringCommands)]

Inputs == [target : Targets \cup {NoTarget},
           retry  : Nat,                  \* retry_index of a recovery run
           locked : BOOLEAN]              \* target_lock_enabled

Creations == [pc : {"none", "admit", "register", "enqueue", "overflow", "close"}, run : Runs \cup {NoRun}]

WorkerSteps == {"off", "idle", "detect", "gate", "wait", "sleep", "investigate", "decide",
                "evaluate", "recovery", "spawn", "execute", "executing", "complete", "tail", "finalize"}

Locals == [pc        : WorkerSteps,
           run       : Runs \cup {NoRun},
           at        : PauseableStages,   \* where it gates or waits
           decision  : Nat,
           evaluated : Nat,               \* the decision the evaluation is of
           passed    : BOOLEAN]           \* it passed and recommends "execute"

Steerings == [pc   : {"idle", "deliver", "record", "release", "append"},
              run  : Runs \cup {NoRun},
              cmd  : SteeringCommands,
              snap : Sessions]            \* the session as read

VARIABLES
    session,   \* stored sessions
    input,     \* the signal a run was created for
    control,   \* controls
    admitted,  \* the runs in _run_tenants and _run_target_locks
    locks,     \* _active_target_locks
    queue,     \* _run_queue
    live,      \* config.kubernetes_live_execution_enabled
    forced,    \* config.force_approval_gate
    killing,   \* apply_kill_switch has set the flag and not yet reached the controls
    stopping,  \* _run_worker_stop
    creator,   \* create_run in each thread
    worker,    \* _execute_run in each worker
    steering,  \* steer_run in each operator thread
    used,      \* bounds: commands, run faults, create faults so far
    executed,  \* observation: run -> the executions started for it
    consent,   \* observation: runs an operator approved or switched to auto
    stopped,   \* observation: runs for which a cancel was accepted
    gated,     \* observation: runs the kill switch found registered, before the gate
    abandoned  \* observation: runs whose create_run raised

config == << live, forced, killing, stopping >>
coordinator == << control, admitted, locks, queue, config >>
observed == << executed, consent, stopped, gated, abandoned >>
vars == << session, input, coordinator, creator, worker, steering, used, observed >>

ASSUME ControlAssumption == NoControl \notin Controls   \* controls.get(run_id) is None

NewSession == [stage |-> "none", pending |-> "none", auto |-> FALSE, pauses |-> {}]
NoInput == [target |-> NoTarget, retry |-> 0, locked |-> FALSE]
NoCreation == [pc |-> "none", run |-> NoRun]
IdleWorker == [pc |-> "idle", run |-> NoRun, at |-> "trigger_ready",
               decision |-> 0, evaluated |-> 0, passed |-> FALSE]
NoSteering == [pc |-> "idle", run |-> NoRun, cmd |-> "note", snap |-> NewSession]

(* The types of the stored sessions, the tables of the coordinator and the *)
(* locals of its threads; the queue keeps its bound.                       *)
TypeOK ==
    /\ session \in [Runs -> Sessions]
    /\ input \in [Runs -> Inputs]
    /\ \A r \in Runs : control[r] # NoControl => control[r] \in Controls
    /\ admitted \subseteq Runs
    /\ locks \in [Targets -> Runs \cup {NoRun}]
    /\ queue \in Seq(Runs) /\ Len(queue) <= QueueSize
    /\ {live, forced, killing, stopping} \subseteq BOOLEAN
    /\ creator \in [Threads -> Creations]
    /\ worker \in [Workers -> Locals]
    /\ steering \in [Operators -> Steerings]

Init ==
    /\ session = [r \in Runs |-> NewSession]
    /\ input = [r \in Runs |-> NoInput]
    /\ control = [r \in Runs |-> NoControl]
    /\ admitted = {}
    /\ locks = [k \in Targets |-> NoRun]
    /\ queue = << >>
    /\ live = Live
    /\ forced = FALSE
    /\ killing = FALSE
    /\ stopping = FALSE
    /\ creator = [t \in Threads |-> NoCreation]
    /\ worker = [w \in Workers |-> IdleWorker]
    /\ steering = [o \in Operators |-> NoSteering]
    /\ used = [commands |-> 0, runFaults |-> 0, createFaults |-> 0]
    /\ executed = [r \in Runs |-> {}]
    /\ consent = {}
    /\ stopped = {}
    /\ gated = {}
    /\ abandoned = {}

----------------------------------------------------------------------------
(* The store keeps the stage of a final session (_preserve_final_lifecycle,*)
(* modelled in RunEventStore).                                             *)
Merged(candidate, current) ==
    IF current.stage \in TerminalStages /\ candidate.stage \notin TerminalStages
      THEN [candidate EXCEPT !.stage = current.stage, !.pending = current.pending]
      ELSE candidate

SaveSession(r, candidate) == session' = [session EXCEPT ![r] = Merged(candidate, @)]

UpdateSession(r, stage, pending) ==
    SaveSession(r, [session[r] EXCEPT !.stage = stage, !.pending = pending])

(* _release_run_admission.                                                 *)
ReleaseRunAdmission(r) ==
    /\ admitted' = admitted \ {r}
    /\ locks' = IF r \in admitted
                  THEN [k \in Targets |-> IF k = input[r].target /\ locks[k] = r
                                            THEN NoRun ELSE locks[k]]
                  ELSE locks

(* Mutant: the lock of the run is forgotten. *)
FinalizeKeepsLock(r) ==
    /\ control' = [control EXCEPT ![r] = NoControl]
    /\ admitted' = admitted \ {r}
    /\ UNCHANGED locks

(* _finalize_run.                                                          *)
FinalizeRun(r) ==
    /\ control' = [control EXCEPT ![r] = NoControl]
    /\ ReleaseRunAdmission(r)

----------------------------------------------------------------------------
(* create_run.                                                             *)

Become(t, c) == creator' = [creator EXCEPT ![t] = c]

Goto(t, step) == Become(t, [creator[t] EXCEPT !.pc = step])

(* A coordinator that is stopping raises.  The forced gate is read first;  *)
(* then the session is created.                                            *)
BeginCreate(t, r, auto, pauses, in) ==
    /\ ~stopping
    /\ session[r].stage = "none"
    /\ session' = [session EXCEPT ![r] = [stage |-> "queued", pending |-> "none",
                                          auto |-> auto /\ ~forced, pauses |-> pauses]]
    /\ input' = [input EXCEPT ![r] = in]
    /\ Become(t, [pc |-> "admit", run |-> r])
    /\ UNCHANGED << coordinator, steering, used, observed >>

CreateRun(h, r, auto, pauses, target, required) ==
    /\ creator[h].pc = "none"
    /\ BeginCreate(h, r, auto, pauses,
                   [NoInput EXCEPT !.target = target, !.locked = required])
    /\ UNCHANGED worker

ActiveRuns(tenant) == {r \in admitted : Tenant(input[r].target) = tenant}

(* build_run_admission: what blocks a run.                                 *)
Blocked(target, locked) ==
    \/ Len(queue) >= QueueSize
    \/ Quota > 0 /\ Cardinality(ActiveRuns(Tenant(target))) >= Quota
    \/ locked /\ locks[target] # NoRun

(* _build_run_admission reads the tables under the lock, and releases it.  *)
AdmitRun(t) ==
    LET r      == creator[t].run
        target == input[r].target
        locked == live \/ input[r].locked
    IN  /\ creator[t].pc = "admit"
        /\ input' = [input EXCEPT ![r].locked = locked]
        /\ IF Blocked(target, locked)
             THEN /\ UpdateSession(r, "failed", "none")
                  /\ Become(t, NoCreation)
             ELSE Goto(t, "register") /\ UNCHANGED session
        /\ UNCHANGED << coordinator, worker, steering, used, observed >>

(* The control, the tenant slot and the target lock, in a second critical  *)
(* section.                                                                *)
RegisterRun(t) ==
    LET r == creator[t].run
    IN  /\ creator[t].pc = "register"
        /\ control' = [control EXCEPT ![r] = [auto |-> session[r].auto,
                                              pauses |-> session[r].pauses, commands |-> << >>]]
        /\ admitted' = admitted \cup {r}
        /\ locks' = IF input[r].locked THEN [locks EXCEPT ![input[r].target] = r] ELSE locks
        /\ Goto(t, "enqueue")
        /\ UNCHANGED << session, input, queue, config, worker, steering, used, observed >>


(* put_nowait; when the queue filled up meanwhile the admission is given   *)
(* back at once.                                                           *)
EnqueueRun(t) ==
    LET r == creator[t].run
    IN  /\ creator[t].pc = "enqueue"
        /\ IF Len(queue) < QueueSize
             THEN /\ queue' = Append(queue, r)
                  /\ Become(t, NoCreation)
                  /\ UNCHANGED << admitted, locks >>
             ELSE /\ ReleaseRunAdmission(r)
                  /\ Goto(t, "overflow")
                  /\ UNCHANGED queue
        /\ UNCHANGED << session, input, control, config, worker, steering, used, observed >>

(* ... the session is failed,                                              *)
FailOverflow(t) ==
    /\ creator[t].pc = "overflow"
    /\ UpdateSession(creator[t].run, "failed", "none")
    /\ Goto(t, "close")
    /\ UNCHANGED << input, coordinator, worker, steering, used, observed >>

(* Mutant: nothing more is done. *)
CloseUnfinalized(t) ==
    /\ creator[t].pc = "close"
    /\ Become(t, NoCreation)
    /\ UNCHANGED << session, input, coordinator, worker, steering, used, observed >>

(* ... and the run is finalized.                                           *)
CloseOverflow(t) ==
    /\ creator[t].pc = "close"
    /\ FinalizeRun(creator[t].run)
    /\ Become(t, NoCreation)
    /\ UNCHANGED << session, input, queue, config, worker, steering, used, observed >>

----------------------------------------------------------------------------
(* _run_worker_loop and _execute_run.                                      *)

Run(w) == worker[w].run

Set(w, local) == worker' = [worker EXCEPT ![w] = local]

Step(w, pc) == Set(w, [worker[w] EXCEPT !.pc = pc])

GateAt(w, stage) == Set(w, [worker[w] EXCEPT !.pc = "gate", !.at = stage])

At(w, pc) == worker[w].pc = pc

(* A terminal stage is stored and the run is about to be finalized.        *)
End(w, stage) == UpdateSession(Run(w), stage, "none") /\ Step(w, "finalize")

(* A terminal stage is stored; the records that follow it may still raise. *)
Conclude(w, stage) == UpdateSession(Run(w), stage, "none") /\ Step(w, "tail")

TakeRun(w) ==
    /\ At(w, "idle") /\ queue # << >>
    /\ queue' = Tail(queue)
    /\ Set(w, [IdleWorker EXCEPT !.pc = "detect", !.run = Head(queue)])
    /\ UpdateSession(Head(queue), "ingesting", session[Head(queue)].pending)
    /\ UNCHANGED << input, control, admitted, locks, config, creator, steering, used, observed >>

(* A worker leaves when nothing is queued and no other worker is busy      *)
(* (unfinished_tasks).                                                     *)
LeavePool(w) ==
    /\ At(w, "idle") /\ stopping
    /\ queue = << >> /\ \A v \in Workers : worker[v].pc \in {"idle", "off"}
    /\ Step(w, "off")
    /\ UNCHANGED << session, input, coordinator, creator, steering, used, observed >>

Detect(w) ==
    /\ At(w, "detect")
    /\ \/ Conclude(w, "no_trigger")
       \/ /\ UpdateSession(Run(w), "trigger_ready", session[Run(w)].pending)
          /\ GateAt(w, "trigger_ready")
    /\ UNCHANGED << input, coordinator, creator, steering, used, observed >>

Investigate(w) ==
    /\ At(w, "investigate")
    /\ UpdateSession(Run(w), "evidence_pack_ready", session[Run(w)].pending)
    /\ Step(w, "decide")
    /\ UNCHANGED << input, coordinator, creator, steering, used, observed >>

(* The first decision, or the one an override makes of it, is recorded.    *)
Decide(w) ==
    /\ At(w, "decide")
    /\ UpdateSession(Run(w), "decision_ready", session[Run(w)].pending)
    /\ Set(w, [worker[w] EXCEPT !.pc = "evaluate", !.decision = @ + 1])
    /\ UNCHANGED << input, coordinator, creator, steering, used, observed >>

(* _record_decision_and_evaluation; recovery is considered the first time. *)
Evaluate(w) ==
    /\ At(w, "evaluate")
    /\ \E passed \in BOOLEAN :
          Set(w, [worker[w] EXCEPT !.evaluated = worker[w].decision, !.passed = passed,
                                   !.pc = IF worker[w].decision = 1 THEN "recovery" ELSE "gate",
                                   !.at = "evaluation_ready"])
    /\ UpdateSession(Run(w), "evaluation_ready", session[Run(w)].pending)
    /\ UNCHANGED << input, coordinator, creator, steering, used, observed >>

(* The conditions of _maybe_launch_recovery_run.                           *)
MayRecover(w) ==
    LET r == Run(w)
    IN  /\ At(w, "recovery")
        /\ control[r] # NoControl /\ control[r].auto /\ ~worker[w].passed
        /\ input[r].retry < MaxRetries

(* The worker itself creates the child.                                    *)
LaunchRecovery(w, child) ==
    LET r == Run(w)
    IN  /\ MayRecover(w)
        /\ BeginCreate(w, child, session[r].auto, session[r].pauses,
                       [target |-> input[r].target, retry |-> input[r].retry + 1, locked |-> FALSE])
        /\ Step(w, "spawn")

(* create_run raises in a coordinator that is stopping, and the run fails. *)
RecoveryRefused(w) ==
    /\ MayRecover(w) /\ stopping
    /\ End(w, "failed")
    /\ UNCHANGED << input, coordinator, creator, steering, used, observed >>

RecoverySpawned(w) ==
    /\ At(w, "spawn") /\ creator[w].pc = "none"
    /\ Conclude(w, "recovery_spawned")
    /\ UNCHANGED << input, coordinator, creator, steering, used, observed >>

(* No recovery: a deferred decision ends the run, any other goes to the    *)
(* approval gate.                                                          *)
SkipRecovery(w) ==
    /\ At(w, "recovery")
    /\ \/ Conclude(w, "completed")
       \/ Step(w, "gate") /\ UNCHANGED session
    /\ UNCHANGED << input, coordinator, creator, steering, used, observed >>

----------------------------------------------------------------------------
(* _wait_if_needed.                                                        *)

(* Where a run goes on after each of its three gates.                      *)
After(stage) == CASE stage = "trigger_ready" -> "investigate"
                  [] stage = "evaluation_ready" -> "execute"
                  [] stage = "feedback_ready" -> "complete"

AutoContinues(w) ==
    worker[w].at = "evaluation_ready" /\ control[Run(w)].auto /\ worker[w].passed

(* Neither pausing nor needing an operator.                                *)
PassesGate(w) ==
    LET c == control[Run(w)]
    IN  /\ worker[w].at \notin c.pauses
        /\ worker[w].at = "evaluation_ready" => AutoContinues(w)

(* Mutant: the stage and the pause stage are swapped. *)
GateSwapped(w) ==
    /\ At(w, "gate")
    /\ IF control[Run(w)] # NoControl /\ PassesGate(w)
         THEN Step(w, After(worker[w].at)) /\ UNCHANGED session
         ELSE Step(w, "wait") /\ UpdateSession(Run(w), worker[w].at, "awaiting_operator")
    /\ UNCHANGED << input, coordinator, creator, steering, used, observed >>

Gate(w) ==
    /\ At(w, "gate")
    /\ IF control[Run(w)] = NoControl
         THEN End(w, "cancelled")
         ELSE IF PassesGate(w)
                THEN Step(w, After(worker[w].at)) /\ UNCHANGED session
                ELSE Step(w, "wait") /\ UpdateSession(Run(w), "awaiting_operator", worker[w].at)
    /\ UNCHANGED << input, coordinator, creator, steering, used, observed >>

(* The operator lets the run go on.                                        *)
Continue(w) ==
    /\ UpdateSession(Run(w), worker[w].at, "none")
    /\ Step(w, After(worker[w].at))

FallAsleep(w) ==
    /\ At(w, "wait") /\ control[Run(w)].commands = << >>
    /\ Step(w, "sleep")
    /\ UNCHANGED << session, input, coordinator, creator, steering, used, observed >>

(* Woken by a command or after half a second: before it looks at the       *)
(* commands, a run that is over ends and an automatic one goes on.  Waking *)
(* up for nothing is a stuttering step.                                    *)
WakeUp(w) ==
    /\ At(w, "sleep")
    /\ IF session[Run(w)].stage \in {"cancelled", "failed"}
         THEN End(w, "cancelled")
         ELSE IF AutoContinues(w)
                THEN Continue(w)
                ELSE control[Run(w)].commands # << >> /\ Step(w, "wait") /\ UNCHANGED session
    /\ UNCHANGED << input, coordinator, creator, steering, used, observed >>

(* The next command, and the control once it is taken from the queue.      *)
Command(w) == Head(control[Run(w)].commands)

Popped(w) == [control[Run(w)] EXCEPT !.commands = Tail(@)]

SetControl(w, c) == control' = [control EXCEPT ![Run(w)] = c]

Takes(w, commands) ==
    /\ At(w, "wait") /\ control[Run(w)].commands # << >>
    /\ Command(w) \in commands
    /\ UNCHANGED << input, admitted, locks, queue, config, creator, steering, used, observed >>

(* An approval does not let a decision pass that failed its evaluation.    *)
TakeApproval(w) ==
    /\ Takes(w, {"approve"})
    /\ SetControl(w, Popped(w))
    /\ IF worker[w].at = "evaluation_ready" /\ ~worker[w].passed
         THEN UNCHANGED << session, worker >>
         ELSE Continue(w)

TakeCancel(w) ==
    /\ Takes(w, {"cancel"})
    /\ SetControl(w, Popped(w))
    /\ End(w, "cancelled")

TakeAutoMode(w) ==
    /\ Takes(w, {"auto_on", "auto_off"})
    /\ SetControl(w, [Popped(w) EXCEPT !.auto = Command(w) = "auto_on"])
    /\ IF Command(w) = "auto_on" /\ worker[w].at = "evaluation_ready" /\ worker[w].passed
         THEN Continue(w)
         ELSE UNCHANGED << session, worker >>

TakePausePoint(w) ==
    /\ Takes(w, {"pause_evaluation"})
    /\ SetControl(w, [Popped(w) EXCEPT !.pauses = @ \cup {"evaluation_ready"}])
    /\ SaveSession(Run(w), [session[Run(w)] EXCEPT
                              !.pauses = control[Run(w)].pauses \cup {"evaluation_ready"}])
    /\ UNCHANGED worker

(* A command the loop has no branch for is dropped.                        *)
TakeOther(w) ==
    /\ Takes(w, {"handoff"})
    /\ SetControl(w, Popped(w))
    /\ UNCHANGED << session, worker >>

(* Mutants: the old evaluation is kept for the new decision; an override   *)
(* after execution is applied too.                                         *)
TakeOverrideUnevaluated(w) ==
    /\ Takes(w, {"override"})
    /\ SetControl(w, Popped(w))
    /\ UpdateSession(Run(w), "awaiting_operator", session[Run(w)].pending)
    /\ Set(w, IF worker[w].at = "evaluation_ready"
                THEN [worker[w] EXCEPT !.pc = "gate", !.decision = @ + 1]
                ELSE [worker[w] EXCEPT !.pc = "gate"])

TakeOverrideAnywhere(w) ==
    /\ Takes(w, {"override"})
    /\ SetControl(w, Popped(w))
    /\ UpdateSession(Run(w), "awaiting_operator", session[Run(w)].pending)
    /\ Step(w, "decide")

(* At the evaluation gate an override makes a new decision, to be          *)
(* evaluated again; at the other gates it is rejected and the run waits    *)
(* again.                                                                  *)
TakeOverride(w) ==
    /\ Takes(w, {"override"})
    /\ SetControl(w, Popped(w))
    /\ UpdateSession(Run(w), "awaiting_operator", session[Run(w)].pending)
    /\ Step(w, IF worker[w].at = "evaluation_ready" THEN "decide" ELSE "gate")

----------------------------------------------------------------------------
(* Execution and the end of a run.                                         *)

BeginExecution(w) ==
    /\ At(w, "execute")
    /\ UpdateSession(Run(w), "executing", "none")
    /\ Step(w, "executing")
    /\ executed' = [executed EXCEPT ![Run(w)] =
                       @ \cup {[decision |-> worker[w].decision, evaluated |-> worker[w].evaluated,
                                passed |-> worker[w].passed]}]
    /\ UNCHANGED << input, coordinator, creator, steering, used,
                    consent, stopped, gated, abandoned >>

EndExecution(w) ==
    /\ At(w, "executing")
    /\ UpdateSession(Run(w), "feedback_ready", "none")
    /\ GateAt(w, "feedback_ready")
    /\ UNCHANGED << input, coordinator, creator, steering, used, observed >>

Complete(w) ==
    /\ At(w, "complete")
    /\ Conclude(w, "completed")
    /\ UNCHANGED << input, coordinator, creator, steering, used, observed >>

(* The benchmark record and, for a run that executed, learning and memory. *)
RecordTail(w) ==
    /\ At(w, "tail")
    /\ Step(w, "finalize")
    /\ UNCHANGED << session, input, coordinator, creator, steering, used, observed >>

(* An exception in _execute_run.                                           *)
RunRaises(w) ==
    /\ worker[w].pc \notin {"off", "idle", "finalize"} /\ creator[w].pc = "none"
    /\ used.runFaults < MaxRunFaults
    /\ used' = [used EXCEPT !.runFaults = @ + 1]
    /\ End(w, "failed")
    /\ UNCHANGED << input, coordinator, creator, steering, observed >>

(* The store fails again, and the failure is not recorded either.          *)
FailureIsLost(w) ==
    /\ worker[w].pc \notin {"off", "idle", "finalize"} /\ creator[w].pc = "none"
    /\ used.runFaults + 1 < MaxRunFaults
    /\ used' = [used EXCEPT !.runFaults = @ + 2]
    /\ Step(w, "finalize")
    /\ UNCHANGED << session, input, coordinator, creator, steering, observed >>

(* A store error leaves create_run with whatever it had registered; in a   *)
(* worker it ends the run that wanted a recovery run.                      *)
CreateRaises(t) ==
    /\ creator[t].pc # "none"
    /\ used.createFaults < MaxCreateFaults
    /\ used' = [used EXCEPT !.createFaults = @ + 1]
    /\ abandoned' = abandoned \cup {creator[t].run}
    /\ Become(t, NoCreation)
    /\ IF t \in Workers THEN End(t, "failed") ELSE UNCHANGED << session, worker >>
    /\ UNCHANGED << input, coordinator, steering, executed, consent, stopped, gated >>

Finalize(w) ==
    /\ At(w, "finalize")
    /\ FinalizeRun(Run(w))
    /\ Set(w, IdleWorker)
    /\ UNCHANGED << session, input, queue, config, creator, steering, used, observed >>

----------------------------------------------------------------------------
(* steer_run.                                                              *)

Effective(s) == IF s.pending # "none" THEN s.pending ELSE s.stage

(* _validate_steering_command.                                             *)
CommandAllowed(s, cmd) ==
    /\ s.stage \in TerminalStages => cmd = "note"
    /\ cmd = "override" =>
          /\ Effective(s) \notin {"ingesting", "trigger_ready", "feedback_ready"}
          /\ s.stage \notin {"executing", "feedback_ready"}

Steer(o, r, cmd) ==
    /\ steering[o].pc = "idle"
    /\ used.commands < MaxCommands
    /\ session[r].stage # "none"
    /\ CommandAllowed(session[r], cmd)
    /\ steering' = [steering EXCEPT ![o] = [pc |-> "deliver", run |-> r, cmd |-> cmd,
                                            snap |-> session[r]]]
    /\ used' = [used EXCEPT !.commands = @ + 1]
    /\ UNCHANGED << session, input, coordinator, creator, worker, observed >>

Delivering(o, commands) == steering[o].pc = "deliver" /\ steering[o].cmd \in commands

(* attach_note saves the session it read for the validation.               *)
AttachNote(o) ==
    /\ Delivering(o, {"note"})
    /\ SaveSession(steering[o].run, steering[o].snap)
    /\ steering' = [steering EXCEPT ![o] = NoSteering]
    /\ UNCHANGED << input, coordinator, creator, worker, used, observed >>

(* The run has no control: it is not registered yet, or already finalized. *)
RunIsGone(o) ==
    /\ Delivering(o, SteeringCommands \ {"note"})
    /\ control[steering[o].run] = NoControl
    /\ steering' = [steering EXCEPT ![o] = NoSteering]
    /\ UNCHANGED << session, input, coordinator, creator, worker, used, observed >>

(* append_run_event, record_approval and _record_operator_handoff read the *)
(* session again,                                                          *)
Deliver(o) ==
    /\ Delivering(o, SteeringCommands \ {"note"})
    /\ control[steering[o].run] # NoControl
    /\ steering' = [steering EXCEPT ![o] = [steering[o] EXCEPT !.pc = "record",
                                                               !.snap = session[steering[o].run]]]
    /\ UNCHANGED << session, input, coordinator, creator, worker, used, observed >>

(* ... and save what they read.                                            *)
SaveRecord(o) ==
    /\ steering[o].pc = "record"
    /\ SaveSession(steering[o].run, steering[o].snap)
    /\ steering' = [steering EXCEPT ![o].pc = IF steering[o].cmd = "cancel" THEN "release" ELSE "append"]
    /\ UNCHANGED << input, coordinator, creator, worker, used, observed >>

(* A cancel gives up the run's admission at once.                          *)
ReleaseForCancel(o) ==
    /\ steering[o].pc = "release" /\ steering[o].cmd = "cancel"
    /\ ReleaseRunAdmission(steering[o].run)
    /\ steering' = [steering EXCEPT ![o].pc = "append"]
    /\ UNCHANGED << session, input, control, queue, config, creator, worker, used, observed >>

(* The command is queued; a control that was finalized meanwhile is not    *)
(* read any more.                                                          *)
AppendCommand(o) ==
    LET r   == steering[o].run
        cmd == steering[o].cmd
    IN  /\ steering[o].pc = "append"
        /\ control' = IF control[r] = NoControl THEN control
                        ELSE [control EXCEPT ![r].commands = Append(@, cmd)]
        /\ consent' = IF cmd \in {"approve", "auto_on"} THEN consent \cup {r} ELSE consent
        /\ stopped' = IF cmd = "cancel" THEN stopped \cup {r} ELSE stopped
        /\ steering' = [steering EXCEPT ![o] = NoSteering]
        /\ UNCHANGED << session, input, admitted, locks, queue, config, creator, worker, used,
                        executed, gated, abandoned >>

----------------------------------------------------------------------------
(* apply_kill_switch with force_approval_gate: first the flags, then, under *)
(* the lock, every registered control.                                     *)
KillSwitch ==
    /\ KillSwitches /\ ~forced
    /\ forced' = TRUE
    /\ killing' = TRUE
    /\ live' \in {live, FALSE}
    /\ UNCHANGED << session, input, control, admitted, locks, queue, stopping, creator, worker,
                    steering, used, observed >>

(* The worker of r has taken its decision to execute.                      *)
PassedGate(r) ==
    \E w \in Workers :
        /\ Run(w) = r
        /\ \/ worker[w].pc \in {"execute", "executing", "complete", "tail", "finalize"}
           \/ worker[w].at = "feedback_ready"

(* Mutant: an automatic run stays automatic. *)
GateByPausing(c) == [c EXCEPT !.pauses = @ \cup {"evaluation_ready"}]

Gated(c) == [c EXCEPT !.auto = FALSE, !.pauses = @ \cup {"evaluation_ready"}]

GateControls ==
    /\ killing
    /\ killing' = FALSE
    /\ control' = [r \in Runs |-> IF control[r] = NoControl THEN NoControl ELSE Gated(control[r])]
    /\ gated' = {r \in Runs : control[r] # NoControl /\ ~PassedGate(r)}
    /\ UNCHANGED << session, input, admitted, locks, queue, live, forced, stopping, creator,
                    worker, steering, used, executed, consent, stopped, abandoned >>

(* stop_background_workers: it waits for the runs in progress as long as   *)
(* its timeout lasts, and sets the flag.                                   *)
StopWorkers ==
    /\ Shutdowns /\ ~stopping
    /\ stopping' = TRUE
    /\ UNCHANGED << session, input, control, admitted, locks, queue, live, forced, killing, creator,
                    worker, steering, used, observed >>

----------------------------------------------------------------------------
CreatorStep(t) ==
    AdmitRun(t) \/ RegisterRun(t) \/ EnqueueRun(t) \/ FailOverflow(t) \/ CloseOverflow(t)

WorkerStep(w) ==
    \/ TakeRun(w) \/ LeavePool(w) \/ Detect(w) \/ Investigate(w) \/ Decide(w) \/ Evaluate(w)
    \/ (\E child \in Runs : LaunchRecovery(w, child)) \/ RecoveryRefused(w) \/ RecoverySpawned(w)
    \/ SkipRecovery(w)
    \/ Gate(w) \/ FallAsleep(w) \/ WakeUp(w)
    \/ TakeApproval(w) \/ TakeCancel(w) \/ TakeAutoMode(w) \/ TakePausePoint(w) \/ TakeOther(w)
    \/ TakeOverride(w)
    \/ BeginExecution(w) \/ EndExecution(w) \/ Complete(w) \/ RecordTail(w) \/ Finalize(w)

OperatorStep(o) ==
    \/ AttachNote(o) \/ RunIsGone(o) \/ ReleaseForCancel(o) \/ Deliver(o) \/ SaveRecord(o)
    \/ AppendCommand(o)

Requests ==
    \/ \E h \in Handlers, r \in Runs, auto \in BOOLEAN, pauses \in SUBSET Pauses,
          target \in Targets, required \in LockRequests : CreateRun(h, r, auto, pauses, target, required)
    \/ \E o \in Operators, r \in Runs, cmd \in Commands : Steer(o, r, cmd)

Faults ==
    \/ \E t \in Threads : CreateRaises(t)
    \/ \E w \in Workers : RunRaises(w) \/ FailureIsLost(w)

Next ==
    \/ Requests \/ Faults \/ KillSwitch \/ GateControls \/ StopWorkers
    \/ \E t \in Threads : CreatorStep(t)
    \/ \E w \in Workers : WorkerStep(w)
    \/ \E o \in Operators : OperatorStep(o)

Spec == Init /\ [][Next]_vars

(* Threads run; whether anybody sends a request is left open.              *)
Fairness ==
    /\ \A t \in Threads : WF_vars(CreatorStep(t))
    /\ \A w \in Workers : WF_vars(WorkerStep(w))
    /\ \A o \in Operators : WF_vars(OperatorStep(o))

FairSpec == Spec /\ Fairness

----------------------------------------------------------------------------
(* Nothing is executed but a decision that passed its own evaluation: an   *)
(* override made at any moment is evaluated again before it runs, and no   *)
(* approval, stale or repeated, carries a blocked decision through         *)
(* (_wait_if_needed, _execute_run).                                        *)
EvaluatedBeforeExecution ==
    \A r \in Runs : \A e \in executed[r] : e.evaluated = e.decision /\ e.passed

(* A run created in approval-gate mode, or caught before its gate by the   *)
(* kill switch, executes only if an operator approved it or switched it to *)
(* automatic mode.                                                         *)
ConsentBeforeExecution ==
    \A r \in Runs :
        executed[r] # {} /\ (~session[r].auto \/ r \in gated) => r \in consent

(* Once a run has started to execute, its decision stays and it is not     *)
(* executed again, although an override that was valid when it was sent    *)
(* may reach the run afterwards.                                           *)
LateOverridesRejected ==
    [][\A w \in Workers :
          Run(w) # NoRun /\ worker'[w].run = Run(w) /\ executed[Run(w)] # {} =>
             /\ worker'[w].decision = worker[w].decision
             /\ ~(At(w, "execute") /\ worker'[w].pc = "executing")]_vars

Executing(r) == \E w \in Workers : Run(w) = r /\ At(w, "executing")

(* Two runs that need the lock of one target do not execute at the same    *)
(* time: a run is blocked while the lock it requires is held.              *)
LiveTargetExclusive ==
    \A r, s \in Runs :
        r # s /\ input[r].locked /\ input[s].locked /\ input[r].target = input[s].target =>
            ~(Executing(r) /\ Executing(s))

(* Workers create recovery runs only.                                      *)
Creators == IF MaxRetries = 0 THEN Handlers ELSE Threads

(* Check and registration are two critical sections, so that a tenant may  *)
(* go over its quota, by one run for each further thread that creates runs *)
(* at the same time, and by no more (_build_run_admission, create_run).    *)
TenantWithinQuota ==
    Quota > 0 => \A k \in Targets :
        Cardinality(ActiveRuns(Tenant(k))) <= Quota - 1 + Cardinality(Creators)

InProgress(r) ==
    \/ \E t \in Threads : creator[t].pc \in {"enqueue", "overflow", "close"} /\ creator[t].run = r
    \/ \E i \in 1..Len(queue) : queue[i] = r
    \/ \E w \in Workers : Run(w) = r

(* What admission registered for a run is gone when nobody is left to      *)
(* bring the run to its end: no control, tenant slot or target lock        *)
(* outlives its run, unless create_run raised and left them behind         *)
(* (_finalize_run).                                                        *)
AdmissionReleased ==
    \A r \in Runs \ abandoned :
        control[r] # NoControl \/ r \in admitted \/ (\E k \in Targets : locks[k] = r) =>
            InProgress(r)

(* A run for which a cancel was accepted does not start to execute after   *)
(* that.                                                                   *)
CancelPreventsExecution ==
    [][\A r \in Runs : r \in stopped => executed'[r] = executed[r]]_vars

Waiting(w) == At(w, "sleep") \/ At(w, "wait")

=============================================================================
