------------------------ MODULE RunCoordinatorProofs ------------------------
(***************************************************************************)
(* That nothing is executed but a decision that passed its own evaluation, *)
(* for any number of runs, workers, handlers and operators, any queue size *)
(* and any number of commands and faults.                                  *)
(*                                                                         *)
(* The property speaks of what was executed.  It is inductive together     *)
(* with what a worker's locals say on the way there: from the evaluation   *)
(* to the gate and while it waits, the evaluation is that of the decision  *)
(* the worker holds, and where it is about to execute it passed.  The      *)
(* types of the locals, of the queue and of the creations are what lets    *)
(* the locals be read after an update.                                     *)
(***************************************************************************)
EXTENDS RunCoordinator, SequenceTheorems, TLAPS

Executions == [decision : Nat, evaluated : Nat, passed : BOOLEAN]

CreationsName == \A t \in Threads : creator[t].pc # "none" => creator[t].run \in Runs

ThreadTypes ==
    /\ worker \in [Workers -> Locals]
    /\ queue \in Seq(Runs)
    /\ creator \in [Threads -> Creations]
    /\ CreationsName
    /\ executed \in [Runs -> SUBSET Executions]

(* What holds of the locals l of a worker.                                 *)
Current(l) ==
    /\ l.pc = "recovery" => l.at = "evaluation_ready"
    /\ l.pc \in {"recovery", "gate", "wait", "sleep"} /\ l.at = "evaluation_ready" =>
          l.evaluated = l.decision
    /\ l.pc = "execute" => l.evaluated = l.decision /\ l.passed

EvaluationIsCurrent == \A w \in Workers : Current(worker[w])

CoordinatorInv == ThreadTypes /\ EvaluationIsCurrent /\ EvaluatedBeforeExecution

----------------------------------------------------------------------------
(* What a step may do to the locals of a worker without leaving the        *)
(* invariant, when it executes nothing.                                    *)
LEMMA LocalsStep ==
    ASSUME CoordinatorInv, NEW w \in Workers, NEW l \in Locals, Current(l),
           worker' = [worker EXCEPT ![w] = l], queue' \in Seq(Runs),
           creator' \in [Threads -> Creations], CreationsName', UNCHANGED executed
    PROVE  CoordinatorInv'
  BY DEF CoordinatorInv, ThreadTypes, EvaluationIsCurrent, EvaluatedBeforeExecution

(* A step that leaves the workers and what was executed alone.             *)
LEMMA QuietStep ==
    ASSUME CoordinatorInv, UNCHANGED << worker, executed >>, queue' \in Seq(Runs),
           creator' \in [Threads -> Creations], CreationsName'
    PROVE  CoordinatorInv'
  BY DEF CoordinatorInv, ThreadTypes, EvaluationIsCurrent, EvaluatedBeforeExecution

(* A new control step of a worker, that is neither a gate nor a decision   *)
(* to execute, needs no argument; into a gate it needs one when the gate   *)
(* is that of the evaluation.                                              *)
LEMMA PlainStep ==
    ASSUME CoordinatorInv, NEW w \in Workers, NEW pc \in WorkerSteps,
           Step(w, pc), UNCHANGED << queue, creator, executed >>,
           pc # "execute",
           pc = "recovery" => worker[w].at = "evaluation_ready",
           pc \in {"recovery", "gate", "wait", "sleep"} /\ worker[w].at = "evaluation_ready" =>
              worker[w].evaluated = worker[w].decision
    PROVE  CoordinatorInv'
  <1> DEFINE l == [worker[w] EXCEPT !.pc = pc]
  <1>1. worker[w] \in Locals
    BY DEF CoordinatorInv, ThreadTypes
  <1>2. l \in Locals /\ Current(l)
    BY <1>1 DEF Locals, Current
  <1>3. worker' = [worker EXCEPT ![w] = l]
    BY DEF Step, Set
  <1>4. /\ queue' \in Seq(Runs) /\ creator' \in [Threads -> Creations]
        /\ CreationsName' /\ UNCHANGED executed
    BY DEF CoordinatorInv, ThreadTypes, CreationsName
  <1> HIDE DEF l
  <1> QED
    BY <1>2, <1>3, <1>4, LocalsStep

(* Going on after a gate, when the gate of the evaluation is passed only   *)
(* by a decision that passed it.                                           *)
LEMMA PassGate ==
    ASSUME CoordinatorInv, NEW w \in Workers,
           worker[w].pc \in {"gate", "wait", "sleep"},
           worker[w].at = "evaluation_ready" => worker[w].passed,
           Step(w, After(worker[w].at)), UNCHANGED << queue, creator, executed >>
    PROVE  CoordinatorInv'
  <1> DEFINE l == [worker[w] EXCEPT !.pc = After(worker[w].at)]
  <1>1. worker[w] \in Locals /\ Current(worker[w])
    BY DEF CoordinatorInv, ThreadTypes, EvaluationIsCurrent
  <1>2. l \in Locals /\ Current(l)
    <2>1. CASE worker[w].at = "evaluation_ready"
      <3>1. After(worker[w].at) = "execute"
        BY <2>1 DEF After
      <3> QED
        BY <1>1, <2>1, <3>1 DEF Locals, Current, WorkerSteps
    <2>2. CASE worker[w].at # "evaluation_ready"
      <3>1. After(worker[w].at) \in {"investigate", "complete"}
        BY <1>1, <2>2 DEF After, Locals, PauseableStages
      <3> QED
        BY <1>1, <2>2, <3>1 DEF Locals, Current, WorkerSteps
    <2> QED
      BY <2>1, <2>2
  <1>3. worker' = [worker EXCEPT ![w] = l]
    BY DEF Step, Set
  <1>4. /\ queue' \in Seq(Runs) /\ creator' \in [Threads -> Creations]
        /\ CreationsName' /\ UNCHANGED executed
    BY DEF CoordinatorInv, ThreadTypes, CreationsName
  <1> HIDE DEF l
  <1> QED
    BY <1>2, <1>3, <1>4, LocalsStep

----------------------------------------------------------------------------
(* create_run.                                                             *)

(* Entering, going on with or leaving a creation keeps the creations typed. *)
LEMMA CreationStep ==
    ASSUME CoordinatorInv, NEW t \in Threads, NEW c \in Creations,
           c.pc # "none" => c.run \in Runs, Become(t, c)
    PROVE  creator' \in [Threads -> Creations] /\ CreationsName'
  BY DEF CoordinatorInv, ThreadTypes, CreationsName, Become

(* A creation that exists goes on with the same run.                       *)
LEMMA CreationGoesOn ==
    ASSUME CoordinatorInv, NEW t \in Threads, creator[t].pc # "none",
           NEW step \in {"register", "enqueue", "overflow", "close"}, Goto(t, step)
    PROVE  creator' \in [Threads -> Creations] /\ CreationsName'
  <1> DEFINE c == [creator[t] EXCEPT !.pc = step]
  <1>1. creator[t] \in Creations /\ creator[t].run \in Runs
    BY DEF CoordinatorInv, ThreadTypes, CreationsName
  <1>2. c \in Creations /\ c.run \in Runs
    BY <1>1 DEF Creations
  <1>3. Become(t, c)
    BY DEF Goto
  <1> HIDE DEF c
  <1> QED
    BY <1>2, <1>3, CreationStep

LEMMA CreationEnds ==
    ASSUME CoordinatorInv, NEW t \in Threads, Become(t, NoCreation)
    PROVE  creator' \in [Threads -> Creations] /\ CreationsName'
  <1>1. NoCreation \in Creations /\ NoCreation.pc = "none"
    BY DEF NoCreation, Creations
  <1> QED
    BY <1>1, CreationStep

LEMMA CreationBegins ==
    ASSUME CoordinatorInv, NEW t \in Threads, NEW r \in Runs,
           NEW auto, NEW pauses, NEW in, BeginCreate(t, r, auto, pauses, in)
    PROVE  /\ creator' \in [Threads -> Creations] /\ CreationsName'
           /\ queue' \in Seq(Runs) /\ UNCHANGED executed
  <1> DEFINE c == [pc |-> "admit", run |-> r]
  <1>1. c \in Creations /\ c.run \in Runs
    BY DEF Creations
  <1>2. Become(t, c) /\ UNCHANGED << queue, executed >>
    BY DEF BeginCreate, coordinator, observed
  <1>3. queue' \in Seq(Runs)
    BY <1>2 DEF CoordinatorInv, ThreadTypes
  <1> HIDE DEF c
  <1> QED
    BY <1>1, <1>2, <1>3, CreationStep

LEMMA CreatorStepKeeps ==
    ASSUME CoordinatorInv, NEW t \in Threads, CreatorStep(t)
    PROVE  CoordinatorInv'
  <1>1. queue \in Seq(Runs)
    BY DEF CoordinatorInv, ThreadTypes
  <1>2. CASE AdmitRun(t)
    <2>1. /\ UNCHANGED << worker, executed, queue >> /\ creator[t].pc = "admit"
          /\ Become(t, NoCreation) \/ Goto(t, "register")
      BY <1>2 DEF AdmitRun, coordinator, observed
    <2>2. creator' \in [Threads -> Creations] /\ CreationsName'
      BY <2>1, CreationEnds, CreationGoesOn
    <2> QED
      BY <1>1, <2>1, <2>2, QuietStep
  <1>3. CASE RegisterRun(t)
    <2>1. /\ UNCHANGED << worker, executed, queue >> /\ creator[t].pc = "register"
          /\ Goto(t, "enqueue")
      BY <1>3 DEF RegisterRun, observed
    <2>2. creator' \in [Threads -> Creations] /\ CreationsName'
      BY <2>1, CreationGoesOn
    <2> QED
      BY <1>1, <2>1, <2>2, QuietStep
  <1>4. CASE EnqueueRun(t)
    <2>1. /\ UNCHANGED << worker, executed >> /\ creator[t].pc = "enqueue"
          /\ Become(t, NoCreation) \/ Goto(t, "overflow")
          /\ UNCHANGED queue \/ queue' = Append(queue, creator[t].run)
      BY <1>4 DEF EnqueueRun, observed
    <2>2. creator[t].run \in Runs
      BY <2>1 DEF CoordinatorInv, ThreadTypes, CreationsName
    <2>3. queue' \in Seq(Runs)
      BY <1>1, <2>1, <2>2
    <2>4. creator' \in [Threads -> Creations] /\ CreationsName'
      BY <2>1, CreationEnds, CreationGoesOn
    <2> QED
      BY <2>1, <2>3, <2>4, QuietStep
  <1>5. CASE FailOverflow(t) \/ CloseOverflow(t)
    <2>1. /\ UNCHANGED << worker, executed, queue >> /\ creator[t].pc \in {"overflow", "close"}
          /\ Become(t, NoCreation) \/ Goto(t, "close")
      BY <1>5 DEF FailOverflow, CloseOverflow, coordinator, observed
    <2>2. creator' \in [Threads -> Creations] /\ CreationsName'
      BY <2>1, CreationEnds, CreationGoesOn
    <2> QED
      BY <1>1, <2>1, <2>2, QuietStep
  <1> QED
    BY <1>2, <1>3, <1>4, <1>5 DEF CreatorStep

----------------------------------------------------------------------------
(* _run_worker_loop and _execute_run.                                      *)

(* The steps that lead to the gate of the evaluation.                      *)
LEMMA BeforeGateKeeps ==
    ASSUME CoordinatorInv, NEW w \in Workers,
           TakeRun(w) \/ LeavePool(w) \/ Detect(w) \/ Investigate(w) \/ Decide(w) \/ Evaluate(w)
    PROVE  CoordinatorInv'
  <1>1. /\ worker[w] \in Locals /\ Current(worker[w]) /\ queue \in Seq(Runs)
        /\ creator \in [Threads -> Creations] /\ CreationsName
    BY DEF CoordinatorInv, ThreadTypes, EvaluationIsCurrent
  <1>2. CASE TakeRun(w)
    <2> DEFINE l == [IdleWorker EXCEPT !.pc = "detect", !.run = Head(queue)]
    <2>1. /\ queue # << >> /\ queue' = Tail(queue) /\ UNCHANGED << creator, executed >>
          /\ worker' = [worker EXCEPT ![w] = l]
      BY <1>2 DEF TakeRun, Set, observed
    <2>2. Head(queue) \in Runs /\ queue' \in Seq(Runs)
      BY <1>1, <2>1
    <2>3. l \in Locals /\ Current(l)
      BY <2>2 DEF IdleWorker, Locals, Current, WorkerSteps, PauseableStages
    <2>4. creator' \in [Threads -> Creations] /\ CreationsName'
      BY <1>1, <2>1 DEF CreationsName
    <2> HIDE DEF l
    <2> QED
      BY <2>1, <2>2, <2>3, <2>4, LocalsStep
  <1>3. CASE Detect(w)
    <2>1. UNCHANGED << queue, creator, executed >>
      BY <1>3 DEF Detect, coordinator, observed
    <2>2. CASE Conclude(w, "no_trigger")
      BY <2>1, <2>2, PlainStep DEF Conclude, WorkerSteps
    <2>3. CASE GateAt(w, "trigger_ready")
      <3> DEFINE l == [worker[w] EXCEPT !.pc = "gate", !.at = "trigger_ready"]
      <3>1. l \in Locals /\ Current(l)
        BY <1>1 DEF Locals, Current, WorkerSteps, PauseableStages
      <3>2. worker' = [worker EXCEPT ![w] = l]
        BY <2>3 DEF GateAt, Set
      <3>3. queue' \in Seq(Runs) /\ creator' \in [Threads -> Creations] /\ CreationsName'
        BY <1>1, <2>1 DEF CreationsName
      <3> HIDE DEF l
      <3> QED
        BY <2>1, <3>1, <3>2, <3>3, LocalsStep
    <2> QED
      BY <1>3, <2>2, <2>3 DEF Detect
  <1>4. CASE Investigate(w)
    <2>1. Step(w, "decide") /\ UNCHANGED << queue, creator, executed >>
      BY <1>4 DEF Investigate, coordinator, observed
    <2> QED
      BY <2>1, PlainStep DEF WorkerSteps
  <1>5. CASE Decide(w)
    <2> DEFINE l == [worker[w] EXCEPT !.pc = "evaluate", !.decision = @ + 1]
    <2>1. worker' = [worker EXCEPT ![w] = l] /\ UNCHANGED << queue, creator, executed >>
      BY <1>5 DEF Decide, Set, coordinator, observed
    <2>2. worker[w].decision + 1 \in Nat
      BY <1>1 DEF Locals
    <2>3. l \in Locals /\ Current(l)
      BY <1>1, <2>2 DEF Locals, Current, WorkerSteps
    <2>4. queue' \in Seq(Runs) /\ creator' \in [Threads -> Creations] /\ CreationsName'
      BY <1>1, <2>1 DEF CreationsName
    <2> HIDE DEF l
    <2> QED
      BY <2>1, <2>3, <2>4, LocalsStep
  <1>6. CASE Evaluate(w)
    <2>1. PICK passed \in BOOLEAN :
             Set(w, [worker[w] EXCEPT !.evaluated = worker[w].decision, !.passed = passed,
                                      !.pc = IF worker[w].decision = 1 THEN "recovery" ELSE "gate",
                                      !.at = "evaluation_ready"])
      BY <1>6 DEF Evaluate
    <2> DEFINE pc == IF worker[w].decision = 1 THEN "recovery" ELSE "gate"
               l  == [worker[w] EXCEPT !.evaluated = worker[w].decision, !.passed = passed,
                                       !.pc = pc, !.at = "evaluation_ready"]
    <2>2. pc \in {"recovery", "gate"}
      OBVIOUS
    <2>3. worker' = [worker EXCEPT ![w] = l]
      BY <2>1 DEF Set
    <2>4. UNCHANGED << queue, creator, executed >>
      BY <1>6 DEF Evaluate, coordinator, observed
    <2> HIDE DEF pc
    <2>5. l \in Locals /\ Current(l)
      BY <1>1, <2>2 DEF Locals, Current, WorkerSteps, PauseableStages
    <2>6. queue' \in Seq(Runs) /\ creator' \in [Threads -> Creations] /\ CreationsName'
      BY <1>1, <2>4 DEF CreationsName
    <2> HIDE DEF l
    <2> QED
      BY <2>3, <2>4, <2>5, <2>6, LocalsStep
  <1>7. CASE LeavePool(w)
    <2>1. Step(w, "off") /\ UNCHANGED << queue, creator, executed >>
      BY <1>7 DEF LeavePool, coordinator, observed
    <2> QED
      BY <2>1, PlainStep DEF WorkerSteps
  <1> QED
    BY <1>2, <1>3, <1>4, <1>5, <1>6, <1>7

(* _maybe_launch_recovery_run.                                             *)
LEMMA RecoveryKeeps ==
    ASSUME CoordinatorInv, NEW w \in Workers,
           (\E child \in Runs : LaunchRecovery(w, child)) \/ RecoveryRefused(w) \/ RecoverySpawned(w)
              \/ SkipRecovery(w)
    PROVE  CoordinatorInv'
  <1>1. /\ worker[w] \in Locals /\ Current(worker[w]) /\ w \in Threads
    BY DEF CoordinatorInv, ThreadTypes, EvaluationIsCurrent, Threads
  <1>2. CASE \E child \in Runs : LaunchRecovery(w, child)
    <2> DEFINE l == [worker[w] EXCEPT !.pc = "spawn"]
    <2>1. /\ creator' \in [Threads -> Creations] /\ CreationsName'
          /\ queue' \in Seq(Runs) /\ UNCHANGED executed
      BY <1>1, <1>2, CreationBegins DEF LaunchRecovery
    <2>2. worker' = [worker EXCEPT ![w] = l]
      BY <1>2 DEF LaunchRecovery, Step, Set
    <2>3. l \in Locals /\ Current(l)
      BY <1>1 DEF Locals, Current, WorkerSteps
    <2> HIDE DEF l
    <2> QED
      BY <2>1, <2>2, <2>3, LocalsStep
  <1>3. CASE RecoveryRefused(w) \/ RecoverySpawned(w)
    <2>1. /\ Step(w, "finalize") \/ Step(w, "tail")
          /\ UNCHANGED << queue, creator, executed >>
      BY <1>3 DEF RecoveryRefused, RecoverySpawned, End, Conclude, coordinator, observed
    <2> QED
      BY <2>1, PlainStep DEF WorkerSteps
  <1>4. CASE SkipRecovery(w)
    <2>1. /\ Step(w, "tail") \/ Step(w, "gate")
          /\ worker[w].pc = "recovery" /\ UNCHANGED << queue, creator, executed >>
      BY <1>4 DEF SkipRecovery, Conclude, At, coordinator, observed
    <2>2. worker[w].evaluated = worker[w].decision
      BY <1>1, <2>1 DEF Current
    <2> QED
      BY <2>1, <2>2, PlainStep DEF WorkerSteps
  <1> QED
    BY <1>2, <1>3, <1>4

(* _wait_if_needed: a gate is passed, a worker waits there, or it takes a  *)
(* command.                                                                *)
LEMMA WaitingKeeps ==
    ASSUME CoordinatorInv, NEW w \in Workers,
           Gate(w) \/ FallAsleep(w) \/ WakeUp(w)
    PROVE  CoordinatorInv'
  <1>1. worker[w] \in Locals /\ Current(worker[w])
    BY DEF CoordinatorInv, ThreadTypes, EvaluationIsCurrent
  <1>2. CASE Gate(w)
    <2>1. worker[w].pc = "gate" /\ UNCHANGED << queue, creator, executed >>
      BY <1>2 DEF Gate, At, coordinator, observed
    <2>2. CASE PassesGate(w) /\ Step(w, After(worker[w].at))
      <3>1. worker[w].at = "evaluation_ready" => worker[w].passed
        BY <2>2 DEF PassesGate, AutoContinues
      <3> QED
        BY <2>1, <2>2, <3>1, PassGate
    <2>3. CASE Step(w, "wait") \/ Step(w, "finalize")
      BY <1>1, <2>1, <2>3, PlainStep DEF WorkerSteps, Current
    <2> QED
      BY <1>2, <2>2, <2>3 DEF Gate, End
  <1>3. CASE FallAsleep(w)
    <2>1. /\ worker[w].pc = "wait" /\ Step(w, "sleep")
          /\ UNCHANGED << queue, creator, executed >>
      BY <1>3 DEF FallAsleep, At, coordinator, observed
    <2> QED
      BY <1>1, <2>1, PlainStep DEF WorkerSteps, Current
  <1>4. CASE WakeUp(w)
    <2>1. worker[w].pc = "sleep" /\ UNCHANGED << queue, creator, executed >>
      BY <1>4 DEF WakeUp, At, coordinator, observed
    <2>2. CASE AutoContinues(w) /\ Continue(w)
      <3>1. worker[w].passed /\ Step(w, After(worker[w].at))
        BY <2>2 DEF AutoContinues, Continue
      <3> QED
        BY <2>1, <3>1, PassGate
    <2>3. CASE Step(w, "wait") \/ Step(w, "finalize")
      BY <1>1, <2>1, <2>3, PlainStep DEF WorkerSteps, Current
    <2> QED
      BY <1>4, <2>2, <2>3 DEF WakeUp, End
  <1> QED
    BY <1>2, <1>3, <1>4

LEMMA CommandKeeps ==
    ASSUME CoordinatorInv, NEW w \in Workers,
           \/ TakeApproval(w) \/ TakeCancel(w) \/ TakeAutoMode(w) \/ TakePausePoint(w)
           \/ TakeOther(w) \/ TakeOverride(w)
    PROVE  CoordinatorInv'
  <1>1. /\ worker[w] \in Locals /\ Current(worker[w]) /\ queue \in Seq(Runs)
        /\ creator \in [Threads -> Creations] /\ CreationsName
    BY DEF CoordinatorInv, ThreadTypes, EvaluationIsCurrent
  <1>2. worker[w].pc = "wait" /\ UNCHANGED << queue, creator, executed >>
    BY DEF TakeApproval, TakeCancel, TakeAutoMode, TakePausePoint, TakeOther, TakeOverride,
           Takes, At, observed
  <1>3. CASE UNCHANGED worker
    <2>1. queue' \in Seq(Runs) /\ creator' \in [Threads -> Creations] /\ CreationsName'
      BY <1>1, <1>2 DEF CreationsName
    <2> QED
      BY <1>2, <1>3, <2>1, QuietStep
  <1>4. CASE Continue(w) /\ (worker[w].at = "evaluation_ready" => worker[w].passed)
    BY <1>2, <1>4, PassGate DEF Continue
  <1>5. CASE Step(w, "finalize") \/ Step(w, "decide")
    BY <1>2, <1>5, PlainStep DEF WorkerSteps
  <1>6. CASE worker[w].at # "evaluation_ready" /\ Step(w, "gate")
    BY <1>2, <1>6, PlainStep DEF WorkerSteps
  <1>7. CASE TakeOverride(w)
    BY <1>5, <1>6, <1>7 DEF TakeOverride
  <1>8. CASE TakeApproval(w)
    BY <1>3, <1>4, <1>8 DEF TakeApproval
  <1>9. CASE TakeAutoMode(w)
    BY <1>3, <1>4, <1>9 DEF TakeAutoMode
  <1> QED
    BY <1>3, <1>5, <1>7, <1>8, <1>9 DEF TakeCancel, TakePausePoint, TakeOther, End

(* The execution itself, and what follows it.                              *)
LEMMA ExecutionKeeps ==
    ASSUME CoordinatorInv, NEW w \in Workers,
           \/ BeginExecution(w) \/ EndExecution(w) \/ Complete(w) \/ RecordTail(w)
           \/ Finalize(w)
    PROVE  CoordinatorInv'
  <1>1. /\ worker[w] \in Locals /\ Current(worker[w]) /\ queue \in Seq(Runs)
        /\ creator \in [Threads -> Creations] /\ CreationsName
        /\ executed \in [Runs -> SUBSET Executions] /\ worker \in [Workers -> Locals]
    BY DEF CoordinatorInv, ThreadTypes, EvaluationIsCurrent
  <1>2. CASE BeginExecution(w)
    <2> DEFINE l == [worker[w] EXCEPT !.pc = "executing"]
               e == [decision |-> worker[w].decision, evaluated |-> worker[w].evaluated,
                     passed |-> worker[w].passed]
    <2>1. /\ worker[w].pc = "execute" /\ UNCHANGED << queue, creator >>
          /\ worker' = [worker EXCEPT ![w] = l]
          /\ executed' = [executed EXCEPT ![Run(w)] = @ \cup {e}]
      BY <1>2 DEF BeginExecution, At, Step, Set, coordinator, observed
    <2>2. e \in Executions /\ e.evaluated = e.decision /\ e.passed
      BY <1>1, <2>1 DEF Executions, Locals, Current
    <2>3. l \in Locals /\ Current(l)
      BY <1>1 DEF Locals, Current, WorkerSteps
    <2> HIDE DEF l, e
    <2>4. executed' \in [Runs -> SUBSET Executions]
      BY <1>1, <2>1, <2>2
    <2>5. EvaluatedBeforeExecution'
      <3> SUFFICES ASSUME NEW r \in Runs, NEW f \in executed'[r]
                   PROVE  f.evaluated = f.decision /\ f.passed
        BY DEF EvaluatedBeforeExecution
      <3>1. f \in executed[r] \/ f = e
        BY <1>1, <2>1
      <3> QED
        BY <2>2, <3>1 DEF CoordinatorInv, EvaluatedBeforeExecution
    <2>6. worker' \in [Workers -> Locals] /\ EvaluationIsCurrent'
      BY <1>1, <2>1, <2>3 DEF CoordinatorInv, EvaluationIsCurrent
    <2>7. queue' \in Seq(Runs) /\ creator' \in [Threads -> Creations] /\ CreationsName'
      BY <1>1, <2>1 DEF CreationsName
    <2> QED
      BY <2>4, <2>5, <2>6, <2>7 DEF CoordinatorInv, ThreadTypes
  <1>3. CASE EndExecution(w)
    <2> DEFINE l == [worker[w] EXCEPT !.pc = "gate", !.at = "feedback_ready"]
    <2>1. worker' = [worker EXCEPT ![w] = l] /\ UNCHANGED << queue, creator, executed >>
      BY <1>3 DEF EndExecution, GateAt, Set, coordinator, observed
    <2>2. l \in Locals /\ Current(l)
      BY <1>1 DEF Locals, Current, WorkerSteps, PauseableStages
    <2>3. queue' \in Seq(Runs) /\ creator' \in [Threads -> Creations] /\ CreationsName'
      BY <1>1, <2>1 DEF CreationsName
    <2> HIDE DEF l
    <2> QED
      BY <2>1, <2>2, <2>3, LocalsStep
  <1>4. CASE Complete(w) \/ RecordTail(w)
    <2>1. /\ Step(w, "tail") \/ Step(w, "finalize")
          /\ UNCHANGED << queue, creator, executed >>
      BY <1>4 DEF Complete, Conclude, RecordTail, coordinator, observed
    <2> QED
      BY <2>1, PlainStep DEF WorkerSteps
  <1>5. CASE Finalize(w)
    <2>1. /\ worker' = [worker EXCEPT ![w] = IdleWorker]
          /\ UNCHANGED << queue, creator, executed >>
      BY <1>5 DEF Finalize, Set, observed
    <2>2. IdleWorker \in Locals /\ Current(IdleWorker)
      BY DEF IdleWorker, Locals, Current, WorkerSteps, PauseableStages
    <2>3. queue' \in Seq(Runs) /\ creator' \in [Threads -> Creations] /\ CreationsName'
      BY <1>1, <2>1 DEF CreationsName
    <2> QED
      BY <2>1, <2>2, <2>3, LocalsStep
  <1> QED
    BY <1>2, <1>3, <1>4, <1>5

----------------------------------------------------------------------------
(* Requests, faults, operators and the kill switch.                        *)

LEMMA RequestsKeep ==
    ASSUME CoordinatorInv, Requests
    PROVE  CoordinatorInv'
  <1>1. CASE \E h \in Handlers, r \in Runs, auto \in BOOLEAN, pauses \in SUBSET Pauses,
                target \in Targets, required \in LockRequests :
                   CreateRun(h, r, auto, pauses, target, required)
    <2>1. PICK h \in Handlers, r \in Runs, auto \in BOOLEAN, pauses \in SUBSET Pauses,
               target \in Targets, required \in LockRequests :
                   CreateRun(h, r, auto, pauses, target, required)
      BY <1>1
    <2>2. h \in Threads
      BY DEF Threads
    <2>3. /\ creator' \in [Threads -> Creations] /\ CreationsName'
          /\ queue' \in Seq(Runs) /\ UNCHANGED executed
      BY <2>1, <2>2, CreationBegins DEF CreateRun
    <2>4. UNCHANGED worker
      BY <2>1 DEF CreateRun
    <2> QED
      BY <2>3, <2>4, QuietStep
  <1>2. CASE \E o \in Operators, r \in Runs, cmd \in Commands : Steer(o, r, cmd)
    <2>1. UNCHANGED << worker, executed, queue, creator >>
      BY <1>2 DEF Steer, coordinator, observed
    <2>2. queue' \in Seq(Runs) /\ creator' \in [Threads -> Creations] /\ CreationsName'
      BY <2>1 DEF CoordinatorInv, ThreadTypes, CreationsName
    <2> QED
      BY <2>1, <2>2, QuietStep
  <1> QED
    BY <1>1, <1>2 DEF Requests

LEMMA FaultsKeep ==
    ASSUME CoordinatorInv, Faults
    PROVE  CoordinatorInv'
  <1>1. ASSUME NEW t \in Threads, CreateRaises(t)
        PROVE  CoordinatorInv'
    <2>1. /\ UNCHANGED << queue, executed >> /\ Become(t, NoCreation)
          /\ IF t \in Workers THEN Step(t, "finalize") ELSE UNCHANGED worker
      BY <1>1 DEF CreateRaises, End, coordinator, observed
    <2>2. creator' \in [Threads -> Creations] /\ CreationsName'
      BY <2>1, CreationEnds
    <2>3. queue' \in Seq(Runs)
      BY <2>1 DEF CoordinatorInv, ThreadTypes
    <2>4. CASE t \in Workers
      <3> DEFINE l == [worker[t] EXCEPT !.pc = "finalize"]
      <3>1. worker' = [worker EXCEPT ![t] = l]
        BY <2>1, <2>4 DEF Step, Set
      <3>2. worker[t] \in Locals
        BY <2>4 DEF CoordinatorInv, ThreadTypes
      <3>3. l \in Locals /\ Current(l)
        BY <3>2 DEF Locals, Current, WorkerSteps
      <3> HIDE DEF l
      <3> QED
        BY <2>1, <2>2, <2>3, <2>4, <3>1, <3>3, LocalsStep
    <2>5. CASE t \notin Workers
      BY <2>1, <2>2, <2>3, <2>5, QuietStep
    <2> QED
      BY <2>4, <2>5
  <1>2. ASSUME NEW w \in Workers, RunRaises(w) \/ FailureIsLost(w)
        PROVE  CoordinatorInv'
    <2>1. Step(w, "finalize") /\ UNCHANGED << queue, creator, executed >>
      BY <1>2 DEF RunRaises, FailureIsLost, End, coordinator, observed
    <2> QED
      BY <2>1, PlainStep DEF WorkerSteps
  <1> QED
    BY <1>1, <1>2 DEF Faults

LEMMA OthersKeep ==
    ASSUME CoordinatorInv,
           KillSwitch \/ GateControls \/ StopWorkers \/ UNCHANGED vars \/ \E o \in Operators : OperatorStep(o)
    PROVE  CoordinatorInv'
  <1>1. UNCHANGED << worker, executed, queue, creator >>
    <2>1. CASE KillSwitch \/ GateControls \/ StopWorkers
      BY <2>1 DEF KillSwitch, GateControls, StopWorkers, observed
    <2>2. CASE UNCHANGED vars
      BY <2>2 DEF vars, coordinator, observed
    <2>3. ASSUME NEW o \in Operators, OperatorStep(o)
          PROVE  UNCHANGED << worker, executed, queue, creator >>
      BY <2>3 DEF OperatorStep, AttachNote, RunIsGone, ReleaseForCancel, Deliver, SaveRecord,
                  AppendCommand, coordinator, observed
    <2> QED
      BY <2>1, <2>2, <2>3
  <1>2. queue' \in Seq(Runs) /\ creator' \in [Threads -> Creations] /\ CreationsName'
    BY <1>1 DEF CoordinatorInv, ThreadTypes, CreationsName
  <1> QED
    BY <1>1, <1>2, QuietStep

----------------------------------------------------------------------------
LEMMA CoordinatorInit == Init => CoordinatorInv
  <1> SUFFICES ASSUME Init PROVE CoordinatorInv
    OBVIOUS
  <1>1. IdleWorker \in Locals /\ Current(IdleWorker)
    BY DEF IdleWorker, Locals, Current, WorkerSteps, PauseableStages
  <1>2. NoCreation \in Creations /\ NoCreation.pc = "none"
    BY DEF NoCreation, Creations
  <1>3. ThreadTypes
    BY <1>1, <1>2 DEF Init, ThreadTypes, CreationsName
  <1>4. EvaluationIsCurrent
    BY <1>1 DEF Init, EvaluationIsCurrent
  <1>5. EvaluatedBeforeExecution
    BY DEF Init, EvaluatedBeforeExecution
  <1> QED
    BY <1>3, <1>4, <1>5 DEF CoordinatorInv

LEMMA CoordinatorStep == CoordinatorInv /\ [Next]_vars => CoordinatorInv'
  <1> SUFFICES ASSUME CoordinatorInv, [Next]_vars PROVE CoordinatorInv'
    OBVIOUS
  <1>1. CASE Requests
    BY <1>1, RequestsKeep
  <1>2. CASE Faults
    BY <1>2, FaultsKeep
  <1>3. CASE KillSwitch \/ GateControls \/ StopWorkers \/ UNCHANGED vars \/ \E o \in Operators : OperatorStep(o)
    BY <1>3, OthersKeep
  <1>4. ASSUME NEW t \in Threads, CreatorStep(t)
        PROVE  CoordinatorInv'
    BY <1>4, CreatorStepKeeps
  <1>5. ASSUME NEW w \in Workers, WorkerStep(w)
        PROVE  CoordinatorInv'
    BY <1>5, BeforeGateKeeps, RecoveryKeeps, WaitingKeeps, CommandKeeps, ExecutionKeeps
       DEF WorkerStep
  <1> QED
    BY <1>1, <1>2, <1>3, <1>4, <1>5 DEF Next

(* Whatever requests, commands, overrides, recovery runs, exceptions and   *)
(* kill switches come and in whatever order, a worker of _execute_run      *)
(* starts an execution only of the decision its evaluation is of, and only *)
(* if that evaluation passed.                                              *)
THEOREM RunsEvaluatedBeforeExecution == Spec => []EvaluatedBeforeExecution
  <1>1. CoordinatorInv => EvaluatedBeforeExecution
    BY DEF CoordinatorInv
  <1> QED
    BY <1>1, CoordinatorInit, CoordinatorStep, PTL DEF Spec
=============================================================================
