------------------------- MODULE RunLifecycleProofs -------------------------
(***************************************************************************)
(* Where a run is, who let it execute, and what admission keeps for it:    *)
(* for any number of runs, handlers, workers and operators, any queue size *)
(* and any commands and faults.                                            *)
(*                                                                         *)
(* The core is that a run is in one place at a time (with the thread that  *)
(* creates it, in the queue, or with one worker), that it has its control  *)
(* from registration to the end of its worker, and that a run that started *)
(* to execute is past its gate for good.                                   *)
(***************************************************************************)
EXTENDS RunCoordinatorProofs, FiniteSetTheorems

(* The runs in a queue, and a queue that names each of them once.          *)
InQueue(q) == {q[i] : i \in 1..Len(q)}

NoTwice(q) == \A i, j \in 1..Len(q) : q[i] = q[j] => i = j

Creates(t, r) == creator[t].pc # "none" /\ creator[t].run = r

Away == {"idle", "off"}

(* Past the gate of the evaluation, for good.                              *)
Late(l) ==
    \/ l.pc \in {"executing", "complete", "tail", "finalize"}
    \/ l.pc \in {"gate", "wait", "sleep"} /\ l.at = "feedback_ready"

Flags == live \in BOOLEAN /\ forced \in BOOLEAN /\ killing \in BOOLEAN /\ stopping \in BOOLEAN

Tables ==
    /\ session \in [Runs -> Sessions]
    /\ input \in [Runs -> Inputs]
    /\ control \in [Runs -> Controls \cup {NoControl}]
    /\ admitted \subseteq Runs
    /\ locks \in [Targets -> Runs \cup {NoRun}]
    /\ Len(queue) <= QueueSize
    /\ steering \in [Operators -> Steerings]
    /\ \A r \in Runs : session[r].stage # "none" => input[r].target \in Targets

(* A run is in one place at a time.                                        *)
Places ==
    /\ \A t, u \in Threads, r \in Runs : Creates(t, r) /\ Creates(u, r) => t = u
    /\ \A t \in Threads, r \in Runs :
          Creates(t, r) => r \notin InQueue(queue) /\ \A w \in Workers : worker[w].run # r
    /\ \A w \in Workers : worker[w].run \notin InQueue(queue)
    /\ NoTwice(queue)
    /\ \A v, w \in Workers : worker[v].run = worker[w].run /\ worker[v].run # NoRun => v = w
    /\ \A w \in Workers : IF worker[w].pc \in Away THEN worker[w].run = NoRun ELSE worker[w].run \in Runs
    /\ \A w \in Workers : creator[w].pc # "none" => worker[w].pc = "spawn"

(* A run that nobody created yet is nowhere.                               *)
Unknown(r) ==
    /\ \A t \in Threads : ~Creates(t, r)
    /\ r \notin InQueue(queue)
    /\ \A w \in Workers : worker[w].run # r
    /\ executed[r] = {} /\ control[r] = NoControl /\ r \notin gated /\ r \notin admitted

(* A run that executed is past its gate or over.                           *)
Executed(r) ==
    /\ \A t \in Threads : ~Creates(t, r)
    /\ r \notin InQueue(queue)
    /\ \A w \in Workers : worker[w].run = r => Late(worker[w])
    /\ (\A w \in Workers : worker[w].run # r) => control[r] = NoControl

(* The steps of create_run from registration on.                           *)
Registering == {"enqueue", "overflow", "close"}

(* The control of a run is there from registration to its end.             *)
Registered ==
    /\ \A t \in Threads : creator[t].pc \in {"admit", "register"} =>
          /\ control[creator[t].run] = NoControl
          /\ creator[t].run \notin gated /\ creator[t].run \notin admitted
    /\ \A t \in Threads : creator[t].pc \in Registering => control[creator[t].run] # NoControl
    /\ \A r \in InQueue(queue) : control[r] # NoControl
    /\ \A w \in Workers : worker[w].run # NoRun => control[worker[w].run] # NoControl

Lifecycles ==
    /\ \A r \in Runs : session[r].stage = "none" => Unknown(r)
    /\ \A r \in Runs : executed[r] # {} => Executed(r)

(* The run may execute: it is automatic, or an operator agreed.            *)
Willing(r) == r \in consent \/ (session[r].auto /\ r \notin gated)

Agreements == {"approve", "auto_on"}

Consented ==
    /\ \A r \in Runs : control[r] # NoControl =>
          /\ control[r].auto => Willing(r)
          /\ \A i \in 1..Len(control[r].commands) :
                control[r].commands[i] \in Agreements => r \in consent
    /\ \A w \in Workers : worker[w].pc = "execute" => Willing(worker[w].run)
    /\ \A r \in Runs : executed[r] # {} => Willing(r)
    /\ \A o \in Operators : steering[o].pc # "idle" =>
          LET r == steering[o].run
          IN  /\ r \in Runs /\ session[r].stage # "none"
              /\ steering[o].snap.stage # "none" /\ steering[o].snap.auto = session[r].auto

Located == Tables /\ Places /\ Registered /\ Lifecycles /\ Consented

LifecycleInv == Flags /\ Located

----------------------------------------------------------------------------
(* What a step does.                                                       *)

(* No session appears, none changes its mode.                              *)
SessionsKeep ==
    /\ session' \in [Runs -> Sessions]
    /\ \A r \in Runs : /\ session'[r].stage = "none" <=> session[r].stage = "none"
                       /\ session'[r].auto = session[r].auto

(* Controls are neither made nor dropped, and what they allow was agreed.  *)
Agreed(c, r) ==
    c # NoControl =>
        /\ c.auto => Willing(r)
        /\ \A i \in 1..Len(c.commands) : c.commands[i] \in Agreements => r \in consent

ControlsKeep ==
    /\ control' \in [Runs -> Controls \cup {NoControl}]
    /\ \A r \in Runs : (control'[r] = NoControl <=> control[r] = NoControl) /\ Agreed(control'[r], r)

(* A worker goes on with its run.                                          *)
Walks(w) ==
    /\ worker' = [worker EXCEPT ![w] = worker'[w]]
    /\ worker[w].pc \notin Away /\ worker'[w].pc \notin Away
    /\ worker'[w].run = worker[w].run
    /\ Late(worker[w]) => Late(worker'[w]) /\ worker'[w].decision = worker[w].decision
    /\ worker'[w].pc = "execute" => Willing(worker[w].run)

watched == << consent, gated >>

Begun(t, r) ==
    /\ session[r].stage = "none" /\ session'[r].stage # "none"
    /\ session' \in [Runs -> Sessions]
    /\ \A s \in Runs \ {r} : session'[s] = session[s]
    /\ \E in \in Inputs : in.target \in Targets /\ input' = [input EXCEPT ![r] = in]
    /\ creator[t].pc = "none" /\ creator' = [creator EXCEPT ![t] = [pc |-> "admit", run |-> r]]
    /\ \/ t \in Handlers /\ UNCHANGED worker
       \/ t \in Workers /\ MaxRetries # 0 /\ Walks(t) /\ worker'[t].pc = "spawn"
    /\ UNCHANGED << control, admitted, locks, queue, steering, executed, watched >>

Checked(t) ==
    LET r == creator[t].run
    IN  /\ creator[t].pc = "admit" /\ SessionsKeep
        /\ \E locked \in BOOLEAN :
              /\ input' = [input EXCEPT ![r].locked = locked]
              /\ \/ creator' = [creator EXCEPT ![t] = NoCreation]
                 \/ /\ creator' = [creator EXCEPT ![t] = [pc |-> "register", run |-> r]]
                    /\ ~Blocked(input[r].target, locked)
        /\ UNCHANGED << control, admitted, locks, queue, worker, steering, executed, watched >>

Enrolled(t) ==
    LET r == creator[t].run
    IN  /\ creator[t].pc = "register"
        /\ creator' = [creator EXCEPT ![t] = [pc |-> "enqueue", run |-> r]]
        /\ \E c \in Controls : /\ c.auto = session[r].auto /\ c.commands = << >>
                               /\ control' = [control EXCEPT ![r] = c]
        /\ admitted' = admitted \cup {r}
        /\ locks' = IF input[r].locked THEN [locks EXCEPT ![input[r].target] = r] ELSE locks
        /\ UNCHANGED << session, input, queue, worker, steering, executed, watched >>

Enqueued(t) ==
    LET r == creator[t].run
    IN  /\ creator[t].pc = "enqueue"
        /\ creator' = [creator EXCEPT ![t] = NoCreation]
        /\ Len(queue) < QueueSize /\ queue' = Append(queue, r)
        /\ UNCHANGED << session, input, control, admitted, locks, worker, steering, executed, watched >>

Overflowed(t) ==
    LET r == creator[t].run
    IN  /\ SessionsKeep
        /\ \/ /\ creator[t].pc = "enqueue" /\ ReleaseRunAdmission(r)
              /\ creator' = [creator EXCEPT ![t] = [pc |-> "overflow", run |-> r]]
           \/ /\ creator[t].pc = "overflow" /\ UNCHANGED << admitted, locks >>
              /\ creator' = [creator EXCEPT ![t] = [pc |-> "close", run |-> r]]
        /\ UNCHANGED << input, control, queue, worker, steering, executed, watched >>

Closed(t) ==
    /\ creator[t].pc = "close"
    /\ creator' = [creator EXCEPT ![t] = NoCreation]
    /\ FinalizeRun(creator[t].run)
    /\ UNCHANGED << session, input, queue, worker, steering, executed, watched >>

Taken(w) ==
    /\ worker[w].pc = "idle" /\ queue # << >> /\ SessionsKeep
    /\ queue' = Tail(queue)
    /\ worker' = [worker EXCEPT ![w] = worker'[w]]
    /\ worker'[w].pc = "detect" /\ worker'[w].run = Head(queue)
    /\ UNCHANGED << input, control, admitted, locks, creator, steering, executed, watched >>

Walked(w) ==
    /\ Walks(w) /\ creator[w].pc = "none" /\ SessionsKeep /\ ControlsKeep
    /\ UNCHANGED << input, admitted, locks, queue, creator, steering, executed, watched >>

Began(w) ==
    /\ Walks(w) /\ worker[w].pc = "execute" /\ worker'[w].pc = "executing" /\ SessionsKeep
    /\ \E e : executed' = [executed EXCEPT ![worker[w].run] = @ \cup {e}]
    /\ UNCHANGED << input, control, admitted, locks, queue, creator, steering, watched >>

Ended(w) ==
    /\ worker[w].pc = "finalize"
    /\ worker' = [worker EXCEPT ![w] = IdleWorker]
    /\ FinalizeRun(worker[w].run)
    /\ UNCHANGED << session, input, queue, creator, steering, executed, watched >>

Left(w) ==
    /\ worker[w].pc = "idle"
    /\ worker' = [worker EXCEPT ![w] = [worker[w] EXCEPT !.pc = "off"]]
    /\ UNCHANGED << session, input, control, admitted, locks, queue, creator, steering, executed, watched >>

Raised(t) ==
    /\ creator[t].pc # "none" /\ SessionsKeep
    /\ creator' = [creator EXCEPT ![t] = NoCreation]
    /\ IF t \in Workers THEN Walks(t) ELSE UNCHANGED worker
    /\ creator[t].run \in abandoned'
    /\ UNCHANGED << input, control, admitted, locks, queue, steering, executed, watched >>

(* What an operator may hold after a step.                                 *)
SteeringKeeps ==
    /\ steering' \in [Operators -> Steerings]
    /\ \A o \in Operators : steering'[o].pc # "idle" =>
          LET r == steering'[o].run
          IN  /\ r \in Runs /\ session[r].stage # "none"
              /\ steering'[o].snap.stage # "none" /\ steering'[o].snap.auto = session[r].auto
              /\ \/ steering[o].pc # "idle" /\ steering[o].cmd = steering'[o].cmd
                 \/ steering'[o].cmd \in Commands

Attended ==
    /\ SessionsKeep /\ SteeringKeeps
    /\ UNCHANGED << input, control, admitted, locks, queue, creator, worker, executed, watched >>

Cancelled(o) ==
    /\ SteeringKeeps /\ steering[o].pc # "idle" /\ steering[o].cmd = "cancel"
    /\ ReleaseRunAdmission(steering[o].run)
    /\ UNCHANGED << session, input, control, queue, creator, worker, executed, watched >>

Appended(o) ==
    LET r   == steering[o].run
        cmd == steering[o].cmd
    IN  /\ SteeringKeeps /\ steering[o].pc # "idle"
        /\ control' = IF control[r] = NoControl THEN control
                        ELSE [control EXCEPT ![r].commands = Append(@, cmd)]
        /\ consent' = IF cmd \in Agreements THEN consent \cup {r} ELSE consent
        /\ UNCHANGED << session, input, admitted, locks, queue, creator, worker, executed, gated >>

Gating ==
    /\ control' = [r \in Runs |-> IF control[r] = NoControl THEN NoControl ELSE Gated(control[r])]
    /\ gated' = {r \in Runs : control[r] # NoControl /\ ~PassedGate(r)}
    /\ UNCHANGED << session, input, admitted, locks, queue, creator, worker, steering, executed, consent >>

Aside ==
    UNCHANGED << session, input, control, admitted, locks, queue, creator, worker, steering, executed, watched >>

ThreadEffect(t) ==
    \/ (\E r \in Runs : Begun(t, r)) \/ Checked(t) \/ Enrolled(t) \/ Enqueued(t)
    \/ Overflowed(t) \/ Closed(t) \/ Raised(t)

WorkerEffect(w) == Taken(w) \/ Walked(w) \/ Began(w) \/ Ended(w) \/ Left(w)

Effect ==
    \/ \E t \in Threads : ThreadEffect(t)
    \/ \E w \in Workers : WorkerEffect(w)
    \/ Attended
    \/ \E o \in Operators : Cancelled(o) \/ Appended(o)
    \/ Gating \/ Aside

----------------------------------------------------------------------------
(* Saving a session.                                                       *)

LEMMA SaveKeeps ==
    ASSUME Tables, NEW r \in Runs, session[r].stage # "none", NEW c \in Sessions,
           c.stage # "none", c.auto = session[r].auto, SaveSession(r, c)
    PROVE  SessionsKeep
  <1> DEFINE m == Merged(c, session[r])
  <1>1. session \in [Runs -> Sessions] /\ session[r] \in Sessions
    BY DEF Tables
  <1>2. m \in Sessions /\ m.stage # "none" /\ m.auto = session[r].auto
    BY <1>1 DEF Merged, Sessions, Stages
  <1>3. session' = [session EXCEPT ![r] = m]
    BY DEF SaveSession
  <1> HIDE DEF m
  <1> QED
    BY <1>1, <1>2, <1>3 DEF SessionsKeep

LEMMA UpdateKeeps ==
    ASSUME Tables, NEW r \in Runs, session[r].stage # "none", NEW stage \in Stages, stage # "none",
           NEW pending \in PauseableStages \cup {"none"}, UpdateSession(r, stage, pending)
    PROVE  SessionsKeep
  <1> DEFINE c == [session[r] EXCEPT !.stage = stage, !.pending = pending]
  <1>1. session[r] \in Sessions
    BY DEF Tables
  <1>2. c \in Sessions /\ c.stage = stage /\ c.auto = session[r].auto
    BY <1>1 DEF Sessions
  <1>3. SaveSession(r, c)
    BY DEF UpdateSession
  <1> HIDE DEF c
  <1> QED
    BY <1>2, <1>3, SaveKeeps

LEMMA SameSessionsKeep ==
    ASSUME Tables, UNCHANGED session
    PROVE  SessionsKeep
  BY DEF Tables, SessionsKeep

LEMMA SameControlsKeep ==
    ASSUME Tables, Consented, UNCHANGED control
    PROVE  ControlsKeep
  BY DEF Tables, Consented, ControlsKeep, Agreed

(* A run that is somewhere was created.                                    *)
LEMMA Known ==
    ASSUME LifecycleInv, CoordinatorInv
    PROVE  /\ \A w \in Workers : worker[w].pc \notin Away =>
                 worker[w].run \in Runs /\ session[worker[w].run].stage # "none"
           /\ \A t \in Threads : creator[t].pc # "none" =>
                 creator[t].run \in Runs /\ session[creator[t].run].stage # "none"
           /\ \A r \in InQueue(queue) : r \in Runs /\ session[r].stage # "none"
  <1>1. \A r \in InQueue(queue) : r \in Runs
    BY LenProperties, ElementOfSeq DEF CoordinatorInv, ThreadTypes, InQueue
  <1>2. \A w \in Workers : worker[w].pc \notin Away => worker[w].run \in Runs
    BY DEF LifecycleInv, Located, Places
  <1>3. \A t \in Threads : creator[t].pc # "none" => creator[t].run \in Runs
    BY DEF CoordinatorInv, ThreadTypes, CreationsName
  <1> QED
    BY <1>1, <1>2, <1>3 DEF LifecycleInv, Located, Lifecycles, Unknown, Creates

----------------------------------------------------------------------------
(* create_run.                                                             *)

LEMMA CreatorTells ==
    ASSUME LifecycleInv, CoordinatorInv, NEW t \in Threads, CreatorStep(t)
    PROVE  ThreadEffect(t)
  <1> DEFINE r == creator[t].run
  <1>1. /\ Tables /\ creator[t] \in Creations
        /\ creator[t].pc # "none" => r \in Runs /\ session[r].stage # "none"
    BY Known DEF LifecycleInv, Located, CoordinatorInv, ThreadTypes
  <1>2. ASSUME NEW step, creator[t].pc # "none", Goto(t, step)
        PROVE  creator' = [creator EXCEPT ![t] = [pc |-> step, run |-> r]]
    <2>1. [creator[t] EXCEPT !.pc = step] = [pc |-> step, run |-> r]
      BY <1>1 DEF Creations
    <2> QED
      BY <1>2, <2>1 DEF Goto, Become
  <1>3. CASE AdmitRun(t)
    <2>1. creator[t].pc = "admit" /\ UNCHANGED << control, admitted, locks, queue, worker, steering, executed, watched >>
      BY <1>3 DEF AdmitRun, coordinator, observed, watched
    <2>2. PICK locked \in BOOLEAN :
             /\ input' = [input EXCEPT ![r].locked = locked]
             /\ \/ UpdateSession(r, "failed", "none") /\ Become(t, NoCreation)
                \/ Goto(t, "register") /\ UNCHANGED session /\ ~Blocked(input[r].target, locked)
      <3>1. (live \/ input[r].locked) \in BOOLEAN
        BY DEF LifecycleInv, Located, Flags, Tables
      <3> QED
        BY <1>3, <3>1 DEF AdmitRun
    <2>3. SessionsKeep
      BY <1>1, <2>1, <2>2, UpdateKeeps, SameSessionsKeep DEF Stages, TerminalStages
    <2>4. \/ creator' = [creator EXCEPT ![t] = NoCreation]
          \/ /\ creator' = [creator EXCEPT ![t] = [pc |-> "register", run |-> r]]
             /\ ~Blocked(input[r].target, locked)
      BY <1>2, <2>1, <2>2 DEF Become
    <2>5. Checked(t)
      BY <2>1, <2>2, <2>3, <2>4 DEF Checked
    <2> QED
      BY <2>5 DEF ThreadEffect
  <1>4. CASE RegisterRun(t)
    <2> DEFINE c == [auto |-> session[r].auto, pauses |-> session[r].pauses, commands |-> << >>]
    <2>1. /\ creator[t].pc = "register" /\ UNCHANGED << session, input, queue, worker, steering, executed, watched >>
          /\ control' = [control EXCEPT ![r] = c]
          /\ admitted' = admitted \cup {r}
          /\ locks' = IF input[r].locked THEN [locks EXCEPT ![input[r].target] = r] ELSE locks
          /\ Goto(t, "enqueue")
      BY <1>4 DEF RegisterRun, observed, watched
    <2>2. c \in Controls /\ c.auto = session[r].auto /\ c.commands = << >>
      BY <1>1, <2>1 DEF Tables, Sessions, Controls
    <2> HIDE DEF c
    <2>3. creator' = [creator EXCEPT ![t] = [pc |-> "enqueue", run |-> r]]
      BY <1>2, <2>1
    <2>4. Enrolled(t)
      BY <2>1, <2>2, <2>3 DEF Enrolled
    <2> QED
      BY <2>4 DEF ThreadEffect
  <1>5. CASE EnqueueRun(t)
    <2>1. /\ creator[t].pc = "enqueue"
          /\ UNCHANGED << session, input, control, worker, steering, executed, watched >>
      BY <1>5 DEF EnqueueRun, observed, watched
    <2>2. CASE Len(queue) < QueueSize
      <3>1. /\ queue' = Append(queue, r) /\ UNCHANGED << admitted, locks >>
            /\ creator' = [creator EXCEPT ![t] = NoCreation]
        BY <1>5, <2>2 DEF EnqueueRun, Become
      <3>2. Enqueued(t)
        BY <2>1, <2>2, <3>1 DEF Enqueued
      <3> QED
        BY <3>2 DEF ThreadEffect
    <2>3. CASE ~(Len(queue) < QueueSize)
      <3>1. ReleaseRunAdmission(r) /\ Goto(t, "overflow") /\ UNCHANGED queue
        BY <1>5, <2>3 DEF EnqueueRun
      <3>2. SessionsKeep
        BY <1>1, <2>1, SameSessionsKeep
      <3>3. creator' = [creator EXCEPT ![t] = [pc |-> "overflow", run |-> r]]
        BY <1>2, <2>1, <3>1
      <3>4. Overflowed(t)
        BY <2>1, <3>1, <3>2, <3>3 DEF Overflowed
      <3> QED
        BY <3>4 DEF ThreadEffect
    <2> QED
      BY <2>2, <2>3
  <1>6. CASE FailOverflow(t)
    <2>1. /\ creator[t].pc = "overflow" /\ UpdateSession(r, "failed", "none") /\ Goto(t, "close")
          /\ UNCHANGED << input, control, admitted, locks, queue, worker, steering, executed, watched >>
      BY <1>6 DEF FailOverflow, coordinator, observed, watched
    <2>2. SessionsKeep
      BY <1>1, <2>1, UpdateKeeps DEF Stages, TerminalStages
    <2>3. creator' = [creator EXCEPT ![t] = [pc |-> "close", run |-> r]]
      BY <1>2, <2>1
    <2>4. Overflowed(t)
      BY <2>1, <2>2, <2>3 DEF Overflowed
    <2> QED
      BY <2>4 DEF ThreadEffect
  <1>7. CASE CloseOverflow(t)
    <2>1. Closed(t)
      BY <1>7 DEF CloseOverflow, Closed, Become, observed, watched
    <2> QED
      BY <2>1 DEF ThreadEffect
  <1> QED
    BY <1>3, <1>4, <1>5, <1>6, <1>7 DEF CreatorStep

(* A creation begins.                                                      *)
LEMMA BeginTells ==
    ASSUME LifecycleInv, CoordinatorInv, NEW t \in Threads, NEW r \in Runs, NEW auto \in BOOLEAN,
           NEW pauses \in SUBSET PauseableStages, NEW in \in Inputs, in.target \in Targets,
           BeginCreate(t, r, auto, pauses, in), creator[t].pc = "none",
           \/ t \in Handlers /\ UNCHANGED worker
           \/ t \in Workers /\ MaxRetries # 0 /\ Walks(t) /\ worker'[t].pc = "spawn"
    PROVE  ThreadEffect(t)
  <1> DEFINE s == [stage |-> "queued", pending |-> "none", auto |-> auto /\ ~forced, pauses |-> pauses]
  <1>1. /\ session[r].stage = "none" /\ session' = [session EXCEPT ![r] = s]
        /\ input' = [input EXCEPT ![r] = in]
        /\ creator' = [creator EXCEPT ![t] = [pc |-> "admit", run |-> r]]
        /\ UNCHANGED << control, admitted, locks, queue, steering, executed, watched >>
    BY DEF BeginCreate, Become, coordinator, observed, watched
  <1>2. session \in [Runs -> Sessions]
    BY DEF LifecycleInv, Located, Tables
  <1>3. s \in Sessions /\ s.stage = "queued"
    <2>1. (auto /\ ~forced) \in BOOLEAN
      OBVIOUS
    <2>2. "queued" \in Stages
      BY DEF Stages
    <2> QED
      BY <2>1, <2>2 DEF Sessions
  <1> HIDE DEF s
  <1>4. session' \in [Runs -> Sessions] /\ session'[r].stage # "none" /\ \A q \in Runs \ {r} : session'[q] = session[q]
    BY <1>1, <1>2, <1>3
  <1>5. Begun(t, r)
    BY <1>1, <1>4 DEF Begun
  <1> QED
    BY <1>5 DEF ThreadEffect

LEMMA CreateTells ==
    ASSUME LifecycleInv, CoordinatorInv, NEW h \in Handlers, NEW r \in Runs, NEW auto \in BOOLEAN,
           NEW pauses \in SUBSET Pauses, NEW target \in Targets, NEW required \in LockRequests,
           CreateRun(h, r, auto, pauses, target, required)
    PROVE  ThreadEffect(h)
  <1> DEFINE in == [NoInput EXCEPT !.target = target, !.locked = required]
  <1>1. in \in Inputs /\ in.target \in Targets
    BY CoordinatorAssumption DEF NoInput, Inputs
  <1>2. h \in Threads /\ pauses \in SUBSET PauseableStages
    BY CoordinatorAssumption DEF Threads
  <1>3. creator[h].pc = "none" /\ BeginCreate(h, r, auto, pauses, in) /\ UNCHANGED worker
    BY DEF CreateRun
  <1> HIDE DEF in
  <1> QED
    BY <1>1, <1>2, <1>3, BeginTells

----------------------------------------------------------------------------
(* The worker.                                                             *)

(* A new control step.                                                     *)
LEMMA StepWalks ==
    ASSUME CoordinatorInv, NEW w \in Workers, NEW pc, Step(w, pc), pc \notin Away,
           worker[w].pc \notin Away,
           Late(worker[w]) => \/ pc \in {"executing", "complete", "tail", "finalize"}
                              \/ pc \in {"gate", "wait", "sleep"} /\ worker[w].at = "feedback_ready",
           pc = "execute" => Willing(worker[w].run)
    PROVE  Walks(w) /\ worker'[w].pc = pc
  <1> DEFINE l == [worker[w] EXCEPT !.pc = pc]
  <1>1. worker[w] \in Locals /\ worker \in [Workers -> Locals]
    BY DEF CoordinatorInv, ThreadTypes
  <1>2. l.pc = pc /\ l.run = worker[w].run /\ l.decision = worker[w].decision /\ l.at = worker[w].at
    BY <1>1 DEF Locals
  <1>3. worker' = [worker EXCEPT ![w] = l]
    BY DEF Step, Set
  <1> HIDE DEF l
  <1>4. worker'[w] = l
    BY <1>1, <1>3
  <1> QED
    BY <1>2, <1>3, <1>4 DEF Walks, Late

(* A step of the worker, when it is known to walk and what it stores.      *)
LEMMA WalkTells ==
    ASSUME LifecycleInv, NEW w \in Workers, Walks(w), SessionsKeep, ControlsKeep,
           worker[w].pc # "spawn" \/ creator[w].pc = "none",
           UNCHANGED << input, admitted, locks, queue, creator, steering, executed, watched >>
    PROVE  WorkerEffect(w)
  <1>1. creator[w].pc = "none"
    BY DEF LifecycleInv, Located, Places
  <1> QED
    BY <1>1 DEF WorkerEffect, Walked

(* The end of a run: a terminal stage, then the tail or finalize.          *)
LEMMA EndWalks ==
    ASSUME LifecycleInv, CoordinatorInv, NEW w \in Workers, NEW stage \in TerminalStages,
           End(w, stage) \/ Conclude(w, stage), worker[w].pc \notin Away
    PROVE  Walks(w) /\ SessionsKeep
  <1>1. (Step(w, "finalize") \/ Step(w, "tail")) /\ UpdateSession(worker[w].run, stage, "none")
    BY DEF End, Conclude, Run
  <1>2. Walks(w)
    BY <1>1, StepWalks DEF Away
  <1>3. worker[w].run \in Runs /\ session[worker[w].run].stage # "none" /\ Tables
    BY Known DEF LifecycleInv, Located
  <1>4. SessionsKeep
    BY <1>1, <1>3, UpdateKeeps DEF Stages, TerminalStages
  <1> QED
    BY <1>2, <1>4

LEMMA BeforeGateTells ==
    ASSUME LifecycleInv, CoordinatorInv, NEW w \in Workers,
           TakeRun(w) \/ LeavePool(w) \/ Detect(w) \/ Investigate(w) \/ Decide(w) \/ Evaluate(w)
    PROVE  WorkerEffect(w)
  <1>1. /\ Tables /\ Consented /\ worker[w] \in Locals /\ worker \in [Workers -> Locals] /\ queue \in Seq(Runs)
        /\ worker[w].pc \notin Away => worker[w].run \in Runs /\ session[worker[w].run].stage # "none"
    BY Known DEF LifecycleInv, Located, CoordinatorInv, ThreadTypes
  <1>2. \A r \in Runs : session[r].pending \in PauseableStages \cup {"none"}
    BY <1>1 DEF Tables, Sessions
  <1>3. CASE TakeRun(w)
    <2> DEFINE l == [IdleWorker EXCEPT !.pc = "detect", !.run = Head(queue)]
    <2>1. /\ worker[w].pc = "idle" /\ queue # << >> /\ queue' = Tail(queue)
          /\ worker' = [worker EXCEPT ![w] = l]
          /\ UpdateSession(Head(queue), "ingesting", session[Head(queue)].pending)
          /\ UNCHANGED << input, control, admitted, locks, creator, steering, executed, watched >>
      BY <1>3 DEF TakeRun, At, Set, observed, watched
    <2>2. l.pc = "detect" /\ l.run = Head(queue)
      BY DEF IdleWorker
    <2> HIDE DEF l
    <2>3. worker'[w] = l
      BY <1>1, <2>1
    <2>4. Head(queue) \in InQueue(queue)
      <3>1. Head(queue) = queue[1] /\ 1 \in 1..Len(queue)
        BY <1>1, <2>1, HeadTailProperties, EmptySeq, LenProperties
      <3> QED
        BY <3>1 DEF InQueue
    <2>5. Head(queue) \in Runs /\ session[Head(queue)].stage # "none"
      BY <2>4, Known
    <2>6. SessionsKeep
      BY <1>1, <1>2, <2>1, <2>5, UpdateKeeps DEF Stages
    <2> QED
      BY <2>1, <2>2, <2>3, <2>6 DEF WorkerEffect, Taken
  <1>4. CASE LeavePool(w)
    <2>1. Left(w)
      BY <1>4 DEF LeavePool, Left, At, Step, Set, coordinator, observed, watched
    <2> QED
      BY <2>1 DEF WorkerEffect
  <1>5. CASE Detect(w)
    <2>1. /\ worker[w].pc = "detect"
          /\ UNCHANGED << input, control, admitted, locks, queue, creator, steering, executed, watched >>
      BY <1>5 DEF Detect, At, coordinator, observed, watched
    <2>2. ControlsKeep
      BY <1>1, <2>1, SameControlsKeep
    <2>3. Walks(w) /\ SessionsKeep
      <3>1. CASE Conclude(w, "no_trigger")
        BY <2>1, <3>1, EndWalks DEF Away, TerminalStages
      <3>2. CASE UpdateSession(Run(w), "trigger_ready", session[Run(w)].pending) /\ GateAt(w, "trigger_ready")
        <4> DEFINE l == [worker[w] EXCEPT !.pc = "gate", !.at = "trigger_ready"]
        <4>1. worker' = [worker EXCEPT ![w] = l] /\ l.pc = "gate" /\ l.run = worker[w].run
          BY <1>1, <3>2 DEF GateAt, Set, Locals
        <4> HIDE DEF l
        <4>2. worker'[w] = l
          BY <1>1, <4>1
        <4>3. Walks(w)
          BY <2>1, <4>1, <4>2 DEF Walks, Away, Late
        <4>4. SessionsKeep
          BY <1>1, <1>2, <2>1, <3>2, UpdateKeeps DEF Away, Stages, PauseableStages, Run
        <4> QED
          BY <4>3, <4>4
      <3> QED
        BY <1>5, <3>1, <3>2 DEF Detect
    <2> QED
      BY <2>1, <2>2, <2>3, WalkTells
  <1>6. CASE Investigate(w)
    <2>1. /\ worker[w].pc = "investigate" /\ Step(w, "decide")
          /\ UpdateSession(worker[w].run, "evidence_pack_ready", session[worker[w].run].pending)
          /\ UNCHANGED << input, control, admitted, locks, queue, creator, steering, executed, watched >>
      BY <1>6 DEF Investigate, At, Run, coordinator, observed, watched
    <2>2. Walks(w)
      BY <2>1, StepWalks DEF Away, Late
    <2>3. SessionsKeep
      BY <1>1, <1>2, <2>1, UpdateKeeps DEF Away, Stages
    <2> QED
      BY <1>1, <2>1, <2>2, <2>3, SameControlsKeep, WalkTells
  <1>7. CASE Decide(w)
    <2> DEFINE l == [worker[w] EXCEPT !.pc = "evaluate", !.decision = @ + 1]
    <2>1. /\ worker[w].pc = "decide" /\ worker' = [worker EXCEPT ![w] = l]
          /\ UpdateSession(worker[w].run, "decision_ready", session[worker[w].run].pending)
          /\ UNCHANGED << input, control, admitted, locks, queue, creator, steering, executed, watched >>
      BY <1>7 DEF Decide, At, Run, Set, coordinator, observed, watched
    <2>2. l.pc = "evaluate" /\ l.run = worker[w].run
      BY <1>1 DEF Locals
    <2> HIDE DEF l
    <2>3. worker'[w] = l
      BY <1>1, <2>1
    <2>4. Walks(w)
      BY <2>1, <2>2, <2>3 DEF Walks, Away, Late
    <2>5. SessionsKeep
      BY <1>1, <1>2, <2>1, UpdateKeeps DEF Away, Stages
    <2> QED
      BY <1>1, <2>1, <2>4, <2>5, SameControlsKeep, WalkTells
  <1>8. CASE Evaluate(w)
    <2>1. /\ worker[w].pc = "evaluate"
          /\ UpdateSession(worker[w].run, "evaluation_ready", session[worker[w].run].pending)
          /\ UNCHANGED << input, control, admitted, locks, queue, creator, steering, executed, watched >>
      BY <1>8 DEF Evaluate, At, Run, coordinator, observed, watched
    <2> DEFINE pc == IF worker[w].decision = 1 THEN "recovery" ELSE "gate"
    <2>2. PICK passed \in BOOLEAN :
             Set(w, [worker[w] EXCEPT !.evaluated = worker[w].decision, !.passed = passed,
                                      !.pc = pc, !.at = "evaluation_ready"])
      BY <1>8 DEF Evaluate
    <2>3. pc \in {"recovery", "gate"}
      OBVIOUS
    <2> HIDE DEF pc
    <2> DEFINE l == [worker[w] EXCEPT !.evaluated = worker[w].decision, !.passed = passed,
                                      !.pc = pc, !.at = "evaluation_ready"]
    <2>4. worker' = [worker EXCEPT ![w] = l] /\ l.pc = pc /\ l.run = worker[w].run
      BY <1>1, <2>2 DEF Locals, Set
    <2> HIDE DEF l
    <2>5. worker'[w] = l
      BY <1>1, <2>4
    <2>6. Walks(w)
      BY <2>1, <2>3, <2>4, <2>5 DEF Walks, Away, Late
    <2>7. SessionsKeep
      BY <1>1, <1>2, <2>1, UpdateKeeps DEF Away, Stages, PauseableStages
    <2> QED
      BY <1>1, <2>1, <2>6, <2>7, SameControlsKeep, WalkTells
  <1> QED
    BY <1>3, <1>4, <1>5, <1>6, <1>7, <1>8

LEMMA RecoveryTells ==
    ASSUME LifecycleInv, CoordinatorInv, NEW w \in Workers,
           (\E child \in Runs : LaunchRecovery(w, child)) \/ RecoveryRefused(w) \/ RecoverySpawned(w)
              \/ SkipRecovery(w)
    PROVE  ThreadEffect(w) \/ WorkerEffect(w)
  <1>1. /\ Tables /\ Consented /\ worker[w] \in Locals
        /\ worker[w].pc \notin Away => worker[w].run \in Runs /\ session[worker[w].run].stage # "none"
    BY Known DEF LifecycleInv, Located, CoordinatorInv, ThreadTypes
  <1>2. CASE \E child \in Runs : LaunchRecovery(w, child)
    <2> DEFINE r == worker[w].run
               in == [target |-> input[r].target, retry |-> input[r].retry + 1, locked |-> FALSE]
    <2>1. PICK child \in Runs :
             /\ worker[w].pc = "recovery" /\ input[r].retry < MaxRetries
             /\ BeginCreate(w, child, session[r].auto, session[r].pauses, in)
             /\ Step(w, "spawn")
      BY <1>2 DEF LaunchRecovery, MayRecover, At, Run
    <2>2. r \in Runs /\ session[r].stage # "none"
      BY <1>1, <2>1 DEF Away
    <2>3. /\ session[r].auto \in BOOLEAN /\ session[r].pauses \in SUBSET PauseableStages
          /\ input[r].target \in Targets /\ input[r].retry \in Nat
      BY <1>1, <2>2 DEF Tables, Sessions, Inputs
    <2>4. in \in Inputs /\ in.target \in Targets
      BY <2>3 DEF Inputs
    <2>5. MaxRetries # 0
      BY <2>1, <2>3
    <2>6. creator[w].pc = "none" /\ w \in Threads
      BY <2>1 DEF LifecycleInv, Located, Places, Threads
    <2>7. Walks(w) /\ worker'[w].pc = "spawn"
      BY <2>1, StepWalks DEF Away, Late
    <2> HIDE DEF in, r
    <2> QED
      BY <2>1, <2>3, <2>4, <2>5, <2>6, <2>7, BeginTells
  <1>3. CASE RecoveryRefused(w) \/ RecoverySpawned(w)
    <2>1. /\ worker[w].pc = "recovery" \/ (worker[w].pc = "spawn" /\ creator[w].pc = "none")
          /\ End(w, "failed") \/ Conclude(w, "recovery_spawned")
          /\ UNCHANGED << input, control, admitted, locks, queue, creator, steering, executed, watched >>
      BY <1>3 DEF RecoveryRefused, RecoverySpawned, MayRecover, At, coordinator, observed, watched
    <2>2. Walks(w) /\ SessionsKeep
      BY <2>1, EndWalks DEF Away, TerminalStages
    <2> QED
      BY <1>1, <2>1, <2>2, SameControlsKeep, WalkTells
  <1>4. CASE SkipRecovery(w)
    <2>1. /\ worker[w].pc = "recovery"
          /\ Conclude(w, "completed") \/ (Step(w, "gate") /\ UNCHANGED session)
          /\ UNCHANGED << input, control, admitted, locks, queue, creator, steering, executed, watched >>
      BY <1>4 DEF SkipRecovery, At, coordinator, observed, watched
    <2>2. CASE Conclude(w, "completed")
      <3>1. Walks(w) /\ SessionsKeep
        BY <2>1, <2>2, EndWalks DEF Away, TerminalStages
      <3> QED
        BY <1>1, <2>1, <3>1, SameControlsKeep, WalkTells
    <2>3. CASE Step(w, "gate") /\ UNCHANGED session
      <3>1. Walks(w)
        BY <2>1, <2>3, StepWalks DEF Away, Late
      <3> QED
        BY <1>1, <2>1, <2>3, <3>1, SameSessionsKeep, SameControlsKeep, WalkTells
    <2> QED
      BY <2>1, <2>2, <2>3
  <1> QED
    BY <1>2, <1>3, <1>4

(* Going on after a gate, when the run may execute.                        *)
LEMMA ContinueWalks ==
    ASSUME LifecycleInv, CoordinatorInv, NEW w \in Workers, worker[w].pc \in {"gate", "wait", "sleep"},
           Step(w, After(worker[w].at)), worker[w].at = "evaluation_ready" => Willing(worker[w].run)
    PROVE  Walks(w)
  <1>1. worker[w].at \in PauseableStages
    BY DEF CoordinatorInv, ThreadTypes, Locals
  <1>2. CASE worker[w].at = "evaluation_ready"
    <2>1. After(worker[w].at) = "execute"
      BY <1>2 DEF After
    <2> QED
      BY <1>2, <2>1, StepWalks DEF Away, Late
  <1>3. CASE worker[w].at = "trigger_ready"
    <2>1. After(worker[w].at) = "investigate"
      BY <1>3 DEF After
    <2> QED
      BY <1>3, <2>1, StepWalks DEF Away, Late
  <1>4. CASE worker[w].at = "feedback_ready"
    <2>1. After(worker[w].at) = "complete"
      BY <1>4 DEF After
    <2> QED
      BY <1>4, <2>1, StepWalks DEF Away, Late
  <1> QED
    BY <1>1, <1>2, <1>3, <1>4 DEF PauseableStages

LEMMA ContinueTells ==
    ASSUME LifecycleInv, CoordinatorInv, NEW w \in Workers, worker[w].pc \in {"gate", "wait", "sleep"},
           Continue(w), worker[w].at = "evaluation_ready" => Willing(worker[w].run)
    PROVE  Walks(w) /\ SessionsKeep
  <1>1. Step(w, After(worker[w].at)) /\ UpdateSession(worker[w].run, worker[w].at, "none")
    BY DEF Continue, Run
  <1>2. Walks(w)
    BY <1>1, ContinueWalks
  <1>3. /\ worker[w].at \in PauseableStages /\ Tables
        /\ worker[w].run \in Runs /\ session[worker[w].run].stage # "none"
    BY Known DEF LifecycleInv, Located, CoordinatorInv, ThreadTypes, Locals, Away
  <1>4. SessionsKeep
    BY <1>1, <1>3, UpdateKeeps DEF Stages, PauseableStages
  <1> QED
    BY <1>2, <1>4

(* A run whose control is automatic may execute.                           *)
LEMMA AutoIsWilling ==
    ASSUME LifecycleInv, NEW w \in Workers, worker[w].pc \notin Away, control[worker[w].run].auto
    PROVE  Willing(worker[w].run)
  <1>1. worker[w].run \in Runs /\ control[worker[w].run] # NoControl
    BY CoordinatorAssumption DEF LifecycleInv, Located, Places, Registered
  <1> QED
    BY <1>1 DEF LifecycleInv, Located, Consented

LEMMA WaitingTells ==
    ASSUME LifecycleInv, CoordinatorInv, NEW w \in Workers, Gate(w) \/ FallAsleep(w) \/ WakeUp(w)
    PROVE  WorkerEffect(w)
  <1>1. /\ worker[w].pc \in {"gate", "wait", "sleep"}
        /\ UNCHANGED << input, control, admitted, locks, queue, creator, steering, executed, watched >>
    BY DEF Gate, FallAsleep, WakeUp, At, coordinator, observed, watched
  <1>2. /\ Tables /\ Consented /\ worker[w] \in Locals /\ worker[w].at \in PauseableStages
        /\ worker[w].run \in Runs /\ session[worker[w].run].stage # "none"
    BY <1>1, Known DEF LifecycleInv, Located, CoordinatorInv, ThreadTypes, Locals, Away
  <1>3. worker[w].pc \notin Away /\ worker[w].pc # "spawn" /\ ControlsKeep
    BY <1>1, <1>2, SameControlsKeep DEF Away
  <1>4. AutoContinues(w) => Willing(worker[w].run)
    BY <1>3, AutoIsWilling DEF AutoContinues, Run
  <1>5. Walks(w) /\ SessionsKeep
    <2>1. CASE End(w, "cancelled")
      BY <1>3, <2>1, EndWalks DEF TerminalStages
    <2>2. CASE PassesGate(w) /\ Step(w, After(worker[w].at)) /\ UNCHANGED session
      <3>1. worker[w].at = "evaluation_ready" => Willing(worker[w].run)
        BY <1>4, <2>2 DEF PassesGate
      <3> QED
        BY <1>1, <1>2, <2>2, <3>1, ContinueWalks, SameSessionsKeep
    <2>3. CASE Step(w, "wait") /\ UpdateSession(Run(w), "awaiting_operator", worker[w].at)
      <3>1. Walks(w)
        BY <1>1, <1>3, <2>3, StepWalks DEF Away, Late
      <3> QED
        BY <1>2, <2>3, <3>1, UpdateKeeps DEF Stages, Run
    <2>4. CASE (Step(w, "sleep") \/ Step(w, "wait")) /\ UNCHANGED session
      <3>1. Walks(w)
        BY <1>1, <1>3, <2>4, StepWalks DEF Away, Late
      <3> QED
        BY <1>2, <2>4, <3>1, SameSessionsKeep
    <2>5. CASE AutoContinues(w) /\ Continue(w)
      BY <1>1, <1>4, <2>5, ContinueTells
    <2> QED
      BY <2>1, <2>2, <2>3, <2>4, <2>5 DEF Gate, FallAsleep, WakeUp
  <1> QED
    BY <1>1, <1>3, <1>5, WalkTells

(* The control after its first command is taken: the other commands, and   *)
(* a mode that was agreed.                                                 *)
LEMMA PoppedKeeps ==
    ASSUME LifecycleInv, NEW r \in Runs, control[r] # NoControl, control[r].commands # << >>,
           NEW c \in Controls, c.commands = Tail(control[r].commands),
           c.auto => control[r].auto \/ Head(control[r].commands) \in Agreements,
           control' = [control EXCEPT ![r] = c]
    PROVE  ControlsKeep /\ (Head(control[r].commands) \in Agreements => r \in consent)
  <1> DEFINE q == control[r].commands
  <1>1. control \in [Runs -> Controls \cup {NoControl}] /\ control[r] \in Controls /\ q \in Seq(SteeringCommands)
    BY DEF LifecycleInv, Located, Tables, Controls
  <1>2. \A i \in 1..Len(q) : q[i] \in Agreements => r \in consent
    BY DEF LifecycleInv, Located, Consented
  <1> HIDE DEF q
  <1>3. /\ Len(q) \in Nat /\ Len(q) # 0 /\ Head(q) = q[1]
        /\ Len(Tail(q)) = Len(q) - 1
        /\ \A i \in 1..Len(Tail(q)) : Tail(q)[i] = q[i + 1]
    BY <1>1, HeadTailProperties, LenProperties, EmptySeq DEF q
  <1>4. Head(q) \in Agreements => r \in consent
    BY <1>2, <1>3
  <1>5. \A i \in 1..Len(Tail(q)) : Tail(q)[i] \in Agreements => r \in consent
    BY <1>2, <1>3
  <1>6. c.auto => Willing(r)
    BY <1>4 DEF LifecycleInv, Located, Consented, Willing, q
  <1>7. Agreed(c, r)
    BY <1>5, <1>6 DEF Agreed, q
  <1>8. ControlsKeep
    BY <1>1, <1>7, ControlAssumption DEF ControlsKeep, Agreed, LifecycleInv, Located, Consented
  <1> QED
    BY <1>4, <1>8 DEF q

LEMMA CommandTells ==
    ASSUME LifecycleInv, CoordinatorInv, NEW w \in Workers,
           \/ TakeApproval(w) \/ TakeCancel(w) \/ TakeAutoMode(w) \/ TakePausePoint(w)
           \/ TakeOther(w) \/ TakeOverride(w)
    PROVE  WorkerEffect(w)
  <1> DEFINE r == worker[w].run
             cmd == Head(control[r].commands)
             popped == [control[r] EXCEPT !.commands = Tail(@)]
  <1>1. /\ worker[w].pc = "wait" /\ control[r].commands # << >>
        /\ UNCHANGED << input, admitted, locks, queue, creator, steering, executed, watched >>
    BY DEF TakeApproval, TakeCancel, TakeAutoMode, TakePausePoint, TakeOther, TakeOverride, Takes, At,
           Run, observed, watched
  <1>2. /\ Tables /\ worker[w] \in Locals /\ worker[w].at \in PauseableStages
        /\ worker \in [Workers -> Locals]
        /\ r \in Runs /\ session[r].stage # "none"
    BY <1>1, Known DEF LifecycleInv, Located, CoordinatorInv, ThreadTypes, Locals, Away
  <1>3. control[r] # NoControl /\ control[r] \in Controls
    BY <1>2, CoordinatorAssumption DEF LifecycleInv, Located, Registered, Tables
  <1>4. popped \in Controls /\ popped.commands = Tail(control[r].commands) /\ popped.auto = control[r].auto
        /\ popped.pauses = control[r].pauses
    <2>1. Tail(control[r].commands) \in Seq(SteeringCommands)
      BY <1>1, <1>3, HeadTailProperties DEF Controls
    <2> QED
      BY <1>3, <2>1 DEF Controls
  <1>5. ASSUME NEW c, SetControl(w, c) PROVE control' = [control EXCEPT ![r] = c]
    BY <1>5 DEF SetControl, Run
  <1>6. Popped(w) = popped /\ Command(w) = cmd
    BY DEF Popped, Command, Run
  <1>7. worker[w].pc \notin Away /\ worker[w].pc # "spawn"
    BY <1>1 DEF Away
  <1> HIDE DEF popped
  <1>8. ASSUME SetControl(w, popped) PROVE ControlsKeep /\ (cmd \in Agreements => r \in consent)
    <2>1. control' = [control EXCEPT ![r] = popped]
      BY <1>5, <1>8
    <2> HIDE DEF r
    <2> QED
      BY <1>1, <1>2, <1>3, <1>4, <2>1, PoppedKeeps DEF r
  <1>9. ASSUME UNCHANGED << session, worker >>
        PROVE  Walks(w) /\ SessionsKeep
    <2>1. worker' = [worker EXCEPT ![w] = worker'[w]]
      BY <1>2, <1>9
    <2> QED
      BY <1>1, <1>2, <1>7, <1>9, <2>1, SameSessionsKeep DEF Walks
  <1>10. CASE TakeApproval(w)
    <2>1. SetControl(w, popped) /\ cmd \in Agreements
      BY <1>6, <1>10 DEF TakeApproval, Takes, Agreements
    <2>2. ControlsKeep /\ r \in consent
      BY <1>8, <2>1
    <2>3. CASE Continue(w)
      <3>1. Walks(w) /\ SessionsKeep
        BY <1>1, <2>2, <2>3, ContinueTells DEF Willing
      <3> QED
        BY <1>1, <1>7, <2>2, <3>1, WalkTells
    <2>4. CASE UNCHANGED << session, worker >>
      BY <1>1, <1>7, <1>9, <2>2, <2>4, WalkTells
    <2> QED
      BY <1>10, <2>3, <2>4 DEF TakeApproval
  <1>11. CASE TakeCancel(w)
    <2>1. SetControl(w, popped) /\ End(w, "cancelled")
      BY <1>6, <1>11 DEF TakeCancel
    <2>2. Walks(w) /\ SessionsKeep
      BY <1>7, <2>1, EndWalks DEF TerminalStages
    <2> QED
      BY <1>1, <1>7, <1>8, <2>1, <2>2, WalkTells
  <1>12. CASE TakeAutoMode(w)
    <2> DEFINE c == [popped EXCEPT !.auto = cmd = "auto_on"]
    <2>1. SetControl(w, c)
      BY <1>6, <1>12 DEF TakeAutoMode
    <2>2. c \in Controls /\ c.commands = popped.commands /\ (c.auto => cmd = "auto_on")
      <3>1. (cmd = "auto_on") \in BOOLEAN
        OBVIOUS
      <3> QED
        BY <1>4, <3>1 DEF Controls
    <2>3. control' = [control EXCEPT ![r] = c]
      BY <1>5, <2>1
    <2> HIDE DEF c
    <2>4. ControlsKeep /\ (cmd \in Agreements => r \in consent)
      <3> HIDE DEF r
      <3> QED
        BY <1>1, <1>2, <1>3, <1>4, <2>2, <2>3, PoppedKeeps DEF r, Agreements
    <2>5. CASE cmd = "auto_on" /\ Continue(w)
      <3>1. Walks(w) /\ SessionsKeep
        BY <1>1, <2>4, <2>5, ContinueTells DEF Willing, Agreements
      <3> QED
        BY <1>1, <1>7, <2>4, <3>1, WalkTells
    <2>6. CASE UNCHANGED << session, worker >>
      BY <1>1, <1>7, <1>9, <2>4, <2>6, WalkTells
    <2> QED
      BY <1>6, <1>12, <2>5, <2>6 DEF TakeAutoMode
  <1>13. CASE TakePausePoint(w)
    <2> DEFINE c == [popped EXCEPT !.pauses = @ \cup {"evaluation_ready"}]
               s == [session[r] EXCEPT !.pauses = control[r].pauses \cup {"evaluation_ready"}]
    <2>1. SetControl(w, c) /\ SaveSession(r, s) /\ UNCHANGED worker
      BY <1>6, <1>13 DEF TakePausePoint, Run
    <2>2. c \in Controls /\ c.commands = popped.commands /\ c.auto = popped.auto
      BY <1>4 DEF Controls, PauseableStages
    <2>3. control' = [control EXCEPT ![r] = c]
      BY <1>5, <2>1
    <2> HIDE DEF c
    <2>4. ControlsKeep
      <3> HIDE DEF r
      <3> QED
        BY <1>1, <1>2, <1>3, <1>4, <2>2, <2>3, PoppedKeeps DEF r
    <2>5. s \in Sessions /\ s.stage = session[r].stage /\ s.auto = session[r].auto
      <3>1. session[r] \in Sessions /\ control[r].pauses \cup {"evaluation_ready"} \in SUBSET PauseableStages
        BY <1>2, <1>3 DEF Tables, Controls, PauseableStages
      <3> QED
        BY <3>1 DEF Sessions
    <2> HIDE DEF s
    <2>6. SessionsKeep
      BY <1>2, <2>1, <2>5, SaveKeeps
    <2>7. worker' = [worker EXCEPT ![w] = worker'[w]]
      BY <1>2, <2>1
    <2>8. Walks(w)
      BY <1>1, <1>7, <2>1, <2>7 DEF Walks
    <2> QED
      BY <1>1, <1>7, <2>4, <2>6, <2>8, WalkTells
  <1>14. CASE TakeOther(w)
    <2>1. SetControl(w, popped) /\ UNCHANGED << session, worker >>
      BY <1>6, <1>14 DEF TakeOther
    <2> QED
      BY <1>1, <1>7, <1>8, <1>9, <2>1, WalkTells
  <1>15. CASE TakeOverride(w)
    <2>1. /\ SetControl(w, popped) /\ UpdateSession(r, "awaiting_operator", session[r].pending)
          /\ \/ worker[w].at = "evaluation_ready" /\ Step(w, "decide")
             \/ Step(w, "gate")
      BY <1>6, <1>15 DEF TakeOverride, Run
    <2>2. Walks(w)
      BY <1>1, <1>7, <2>1, StepWalks DEF Away, Late
    <2>3. session[r].pending \in PauseableStages \cup {"none"}
      BY <1>2 DEF Tables, Sessions
    <2>4. SessionsKeep
      BY <1>2, <2>1, <2>3, UpdateKeeps DEF Stages
    <2> QED
      BY <1>1, <1>7, <1>8, <2>1, <2>2, <2>4, WalkTells
  <1> QED
    BY <1>10, <1>11, <1>12, <1>13, <1>14, <1>15

LEMMA ExecutionTells ==
    ASSUME LifecycleInv, CoordinatorInv, NEW w \in Workers,
           \/ BeginExecution(w) \/ EndExecution(w) \/ Complete(w) \/ RecordTail(w)
           \/ Finalize(w)
    PROVE  WorkerEffect(w)
  <1>1. /\ Tables /\ Consented /\ worker[w] \in Locals /\ worker \in [Workers -> Locals]
        /\ worker[w].pc \notin Away => worker[w].run \in Runs /\ session[worker[w].run].stage # "none"
    BY Known DEF LifecycleInv, Located, CoordinatorInv, ThreadTypes
  <1>2. CASE BeginExecution(w)
    <2>1. /\ worker[w].pc = "execute" /\ UpdateSession(worker[w].run, "executing", "none")
          /\ Step(w, "executing")
          /\ \E e : executed' = [executed EXCEPT ![worker[w].run] = @ \cup {e}]
          /\ UNCHANGED << input, control, admitted, locks, queue, creator, steering, watched >>
      BY <1>2 DEF BeginExecution, At, Run, coordinator, observed, watched
    <2>2. Walks(w) /\ worker'[w].pc = "executing"
      BY <2>1, StepWalks DEF Away
    <2>3. SessionsKeep
      BY <1>1, <2>1, UpdateKeeps DEF Away, Stages
    <2>4. Began(w)
      BY <2>1, <2>2, <2>3 DEF Began
    <2> QED
      BY <2>4 DEF WorkerEffect
  <1>3. CASE EndExecution(w)
    <2> DEFINE l == [worker[w] EXCEPT !.pc = "gate", !.at = "feedback_ready"]
    <2>1. /\ worker[w].pc = "executing" /\ UpdateSession(worker[w].run, "feedback_ready", "none")
          /\ worker' = [worker EXCEPT ![w] = l]
          /\ UNCHANGED << input, control, admitted, locks, queue, creator, steering, executed, watched >>
      BY <1>3 DEF EndExecution, GateAt, Set, At, Run, coordinator, observed, watched
    <2>2. l.pc = "gate" /\ l.at = "feedback_ready" /\ l.run = worker[w].run /\ l.decision = worker[w].decision
      BY <1>1 DEF Locals
    <2> HIDE DEF l
    <2>3. worker'[w] = l
      BY <1>1, <2>1
    <2>4. Walks(w)
      BY <2>1, <2>2, <2>3 DEF Walks, Away, Late
    <2>5. SessionsKeep
      BY <1>1, <2>1, UpdateKeeps DEF Away, Stages, PauseableStages
    <2> QED
      BY <1>1, <2>1, <2>4, <2>5, SameControlsKeep, WalkTells
  <1>4. CASE Complete(w)
    <2>1. /\ worker[w].pc = "complete" /\ Conclude(w, "completed")
          /\ UNCHANGED << input, control, admitted, locks, queue, creator, steering, executed, watched >>
      BY <1>4 DEF Complete, At, coordinator, observed, watched
    <2>2. Walks(w) /\ SessionsKeep
      BY <2>1, EndWalks DEF Away, TerminalStages
    <2> QED
      BY <1>1, <2>1, <2>2, SameControlsKeep, WalkTells
  <1>5. CASE RecordTail(w)
    <2>1. /\ worker[w].pc = "tail" /\ Step(w, "finalize") /\ UNCHANGED session
          /\ UNCHANGED << input, control, admitted, locks, queue, creator, steering, executed, watched >>
      BY <1>5 DEF RecordTail, At, coordinator, observed, watched
    <2>2. Walks(w)
      BY <2>1, StepWalks DEF Away
    <2> QED
      BY <1>1, <2>1, <2>2, SameSessionsKeep, SameControlsKeep, WalkTells
  <1>6. CASE Finalize(w)
    <2>1. Ended(w)
      BY <1>6 DEF Finalize, Ended, At, Run, Set, observed, watched
    <2> QED
      BY <2>1 DEF WorkerEffect
  <1> QED
    BY <1>2, <1>3, <1>4, <1>5, <1>6

LEMMA FaultsTell ==
    ASSUME LifecycleInv, CoordinatorInv, Faults
    PROVE  Effect
  <1>1. Tables /\ Consented
    BY DEF LifecycleInv, Located
  <1>2. ASSUME NEW t \in Threads, CreateRaises(t) PROVE ThreadEffect(t)
    <2>1. /\ creator[t].pc # "none" /\ creator[t].run \in abandoned'
          /\ creator' = [creator EXCEPT ![t] = NoCreation]
          /\ IF t \in Workers THEN End(t, "failed") ELSE UNCHANGED << session, worker >>
          /\ UNCHANGED << input, control, admitted, locks, queue, steering, executed, watched >>
      BY <1>2 DEF CreateRaises, Become, coordinator, watched
    <2>2. CASE t \in Workers
      <3>1. worker[t].pc \notin Away
        BY <2>1, <2>2 DEF LifecycleInv, Located, Places, Away
      <3>2. Walks(t) /\ SessionsKeep
        BY <2>1, <2>2, <3>1, EndWalks DEF TerminalStages
      <3> QED
        BY <2>1, <2>2, <3>2 DEF ThreadEffect, Raised
    <2>3. CASE t \notin Workers
      <3>1. SessionsKeep
        BY <1>1, <2>1, <2>3, SameSessionsKeep
      <3> QED
        BY <2>1, <2>3, <3>1 DEF ThreadEffect, Raised
    <2> QED
      BY <2>2, <2>3
  <1>3. ASSUME NEW w \in Workers, RunRaises(w) \/ FailureIsLost(w) PROVE WorkerEffect(w)
    <2>1. /\ worker[w].pc \notin Away /\ creator[w].pc = "none"
          /\ End(w, "failed") \/ (Step(w, "finalize") /\ UNCHANGED session)
          /\ UNCHANGED << input, control, admitted, locks, queue, creator, steering, executed, watched >>
      BY <1>3 DEF RunRaises, FailureIsLost, Away, coordinator, observed, watched
    <2>2. CASE End(w, "failed")
      <3>1. Walks(w) /\ SessionsKeep
        BY <2>1, <2>2, EndWalks DEF TerminalStages
      <3> QED
        BY <1>1, <2>1, <3>1, SameControlsKeep, WalkTells
    <2>3. CASE Step(w, "finalize") /\ UNCHANGED session
      <3>1. Walks(w)
        BY <2>1, <2>3, StepWalks DEF Away
      <3> QED
        BY <1>1, <2>1, <2>3, <3>1, SameSessionsKeep, SameControlsKeep, WalkTells
    <2> QED
      BY <2>1, <2>2, <2>3
  <1> QED
    BY <1>2, <1>3 DEF Faults, Effect

----------------------------------------------------------------------------
(* The operators.                                                          *)

(* An operator thread comes to hold s.                                     *)
LEMMA HoldsKeeps ==
    ASSUME LifecycleInv, NEW o \in Operators, NEW s \in Steerings, steering' = [steering EXCEPT ![o] = s],
           s.pc # "idle" =>
              /\ s.run \in Runs /\ session[s.run].stage # "none"
              /\ s.snap.stage # "none" /\ s.snap.auto = session[s.run].auto
              /\ (steering[o].pc # "idle" /\ steering[o].cmd = s.cmd) \/ s.cmd \in Commands
    PROVE  SteeringKeeps
  <1>1. steering \in [Operators -> Steerings]
    BY DEF LifecycleInv, Located, Tables
  <1>2. steering'[o] = s /\ \A p \in Operators \ {o} : steering'[p] = steering[p]
    BY <1>1
  <1>3. steering' \in [Operators -> Steerings]
    BY <1>1
  <1>4. ASSUME NEW p \in Operators, steering'[p].pc # "idle"
        PROVE  /\ steering'[p].run \in Runs /\ session[steering'[p].run].stage # "none"
               /\ steering'[p].snap.stage # "none"
               /\ steering'[p].snap.auto = session[steering'[p].run].auto
               /\ (steering[p].pc # "idle" /\ steering[p].cmd = steering'[p].cmd) \/ steering'[p].cmd \in Commands
    <2>1. CASE p = o
      BY <1>2, <1>4, <2>1
    <2>2. CASE p # o
      BY <1>2, <1>4, <2>2 DEF LifecycleInv, Located, Consented
    <2> QED
      BY <2>1, <2>2
  <1> QED
    BY <1>3, <1>4 DEF SteeringKeeps

LEMMA OperatorTells ==
    ASSUME LifecycleInv, NEW o \in Operators, OperatorStep(o)
    PROVE  Effect
  <1> DEFINE r == steering[o].run
  <1>1. /\ Tables /\ steering[o] \in Steerings /\ steering[o].pc # "idle" /\ session \in [Runs -> Sessions]
    BY DEF LifecycleInv, Located, Tables, OperatorStep, AttachNote, RunIsGone, ReleaseForCancel, Deliver, SaveRecord,
           AppendCommand, Delivering
  <1>2. /\ r \in Runs /\ session[r].stage # "none" /\ session[r] \in Sessions
        /\ steering[o].snap.stage # "none" /\ steering[o].snap.auto = session[r].auto
        /\ steering[o].snap \in Sessions
    BY <1>1 DEF LifecycleInv, Located, Consented, Steerings
  <1>3. NoSteering \in Steerings /\ NoSteering.pc = "idle"
    BY DEF NoSteering, Steerings, SteeringCommands, NewSession, Sessions, Stages
  <1>4. ASSUME steering' = [steering EXCEPT ![o] = NoSteering] PROVE SteeringKeeps
    BY <1>3, <1>4, HoldsKeeps
  <1>5. ASSUME NEW pc \in {"record", "release", "append"}, NEW snap \in {steering[o].snap, session[r]},
               steering' = [steering EXCEPT ![o] = [steering[o] EXCEPT !.pc = pc, !.snap = snap]]
        PROVE  SteeringKeeps
    <2> DEFINE s == [steering[o] EXCEPT !.pc = pc, !.snap = snap]
    <2>1. /\ s \in Steerings /\ s.run = r /\ s.snap = snap /\ s.cmd = steering[o].cmd
      BY <1>1, <1>2 DEF Steerings
    <2>2. steering' = [steering EXCEPT ![o] = s]
      BY <1>5
    <2> HIDE DEF s
    <2> QED
      BY <1>1, <1>2, <2>1, <2>2, HoldsKeeps
  <1>6. ASSUME NEW pc \in {"release", "append"}, steering' = [steering EXCEPT ![o].pc = pc] PROVE SteeringKeeps
    <2>1. [steering[o] EXCEPT !.pc = pc] = [steering[o] EXCEPT !.pc = pc, !.snap = steering[o].snap]
      BY <1>1 DEF Steerings
    <2>2. steering' = [steering EXCEPT ![o] = [steering[o] EXCEPT !.pc = pc]]
      BY <1>6
    <2> QED
      BY <1>5, <2>1, <2>2
  <1>8. CASE AttachNote(o)
    <2>1. /\ SaveSession(r, steering[o].snap) /\ steering' = [steering EXCEPT ![o] = NoSteering]
          /\ UNCHANGED << input, control, admitted, locks, queue, creator, worker, executed, watched >>
      BY <1>8 DEF AttachNote, coordinator, observed, watched
    <2>2. SessionsKeep
      BY <1>1, <1>2, <2>1, SaveKeeps
    <2> QED
      BY <1>4, <2>1, <2>2 DEF Attended, Effect
  <1>9. CASE RunIsGone(o)
    <2>1. /\ UNCHANGED session /\ steering' = [steering EXCEPT ![o] = NoSteering]
          /\ UNCHANGED << input, control, admitted, locks, queue, creator, worker, executed, watched >>
      BY <1>9 DEF RunIsGone, coordinator, observed, watched
    <2> QED
      BY <1>1, <1>4, <2>1, SameSessionsKeep DEF Attended, Effect
  <1>10. CASE ReleaseForCancel(o)
    <2>1. /\ steering[o].cmd = "cancel" /\ ReleaseRunAdmission(r)
          /\ steering' = [steering EXCEPT ![o].pc = "append"]
          /\ UNCHANGED << session, input, control, queue, creator, worker, executed, watched >>
      BY <1>10 DEF ReleaseForCancel, observed, watched
    <2>2. Cancelled(o)
      BY <1>1, <1>6, <2>1 DEF Cancelled
    <2> QED
      BY <2>2 DEF Effect
  <1>11. CASE Deliver(o)
    <2>1. UNCHANGED session
          /\ UNCHANGED << input, control, admitted, locks, queue, creator, worker, executed, watched >>
      BY <1>11 DEF Deliver, coordinator, observed, watched
    <2>2. steering' = [steering EXCEPT ![o] = [steering[o] EXCEPT !.pc = "record", !.snap = session[r]]]
      BY <1>11 DEF Deliver
    <2>3. SteeringKeeps
      BY <1>5, <2>2
    <2> QED
      BY <1>1, <2>1, <2>3, SameSessionsKeep DEF Attended, Effect
  <1>12. CASE SaveRecord(o)
    <2> DEFINE pc == IF steering[o].cmd = "cancel" THEN "release" ELSE "append"
    <2>1. /\ SaveSession(r, steering[o].snap) /\ steering' = [steering EXCEPT ![o].pc = pc]
          /\ UNCHANGED << input, control, admitted, locks, queue, creator, worker, executed, watched >>
      BY <1>12 DEF SaveRecord, coordinator, observed, watched
    <2>2. pc \in {"release", "append"}
      OBVIOUS
    <2> HIDE DEF pc
    <2>3. SessionsKeep /\ SteeringKeeps
      BY <1>1, <1>2, <1>6, <2>1, <2>2, SaveKeeps
    <2> QED
      BY <2>1, <2>3 DEF Attended, Effect
  <1>13. CASE AppendCommand(o)
    <2>1. /\ control' = IF control[r] = NoControl THEN control
                          ELSE [control EXCEPT ![r].commands = Append(@, steering[o].cmd)]
          /\ consent' = IF steering[o].cmd \in Agreements THEN consent \cup {r} ELSE consent
          /\ steering' = [steering EXCEPT ![o] = NoSteering]
          /\ UNCHANGED << session, input, admitted, locks, queue, creator, worker, executed, gated >>
      BY <1>13 DEF AppendCommand, Agreements
    <2>2. Appended(o)
      BY <1>1, <1>4, <2>1 DEF Appended
    <2> QED
      BY <2>2 DEF Effect
  <1> QED
    BY <1>8, <1>9, <1>10, <1>11, <1>12, <1>13 DEF OperatorStep

LEMMA SteerTells ==
    ASSUME LifecycleInv, NEW o \in Operators, NEW r \in Runs, NEW cmd \in Commands, Steer(o, r, cmd)
    PROVE  Effect
  <1> DEFINE s == [pc |-> "deliver", run |-> r, cmd |-> cmd, snap |-> session[r]]
  <1>1. /\ session[r].stage # "none" /\ steering' = [steering EXCEPT ![o] = s]
        /\ UNCHANGED << session, input, control, admitted, locks, queue, creator, worker, executed, watched >>
    BY DEF Steer, coordinator, observed, watched
  <1>2. Tables /\ session[r] \in Sessions /\ cmd \in SteeringCommands
    BY CoordinatorAssumption DEF LifecycleInv, Located, Tables
  <1>3. s \in Steerings /\ s.run = r /\ s.snap = session[r] /\ s.cmd = cmd
    BY <1>2 DEF Steerings
  <1> HIDE DEF s
  <1>4. SteeringKeeps
    BY <1>1, <1>3, HoldsKeeps
  <1> QED
    BY <1>1, <1>2, <1>4, SameSessionsKeep DEF Attended, Effect

(* Every step of the coordinator has one of the effects.                   *)
LEMMA NextTells ==
    ASSUME LifecycleInv, CoordinatorInv, [Next]_vars
    PROVE  Effect
  <1>1. CASE Requests
    <2>1. ASSUME NEW h \in Handlers, NEW r \in Runs, NEW auto \in BOOLEAN, NEW pauses \in SUBSET Pauses,
                 NEW target \in Targets, NEW required \in LockRequests, CreateRun(h, r, auto, pauses, target, required)
          PROVE  Effect
      <3>1. ThreadEffect(h) /\ h \in Threads
        BY <2>1, CreateTells DEF Threads
      <3> QED
        BY <3>1 DEF Effect
    <2> QED
      BY <1>1, <2>1, SteerTells DEF Requests
  <1>2. CASE Faults
    BY <1>2, FaultsTell
  <1>3. CASE KillSwitch \/ StopWorkers
    BY <1>3 DEF KillSwitch, StopWorkers, observed, watched, Effect, Aside
  <1>4. CASE UNCHANGED vars
    BY <1>4 DEF vars, coordinator, observed, watched, Effect, Aside
  <1>5. CASE GateControls
    BY <1>5 DEF GateControls, Gating, Effect
  <1>6. ASSUME NEW t \in Threads, CreatorStep(t) PROVE Effect
    BY <1>6, CreatorTells DEF Effect
  <1>7. ASSUME NEW w \in Workers, WorkerStep(w) PROVE Effect
    <2>1. ThreadEffect(w) \/ WorkerEffect(w)
      BY <1>7, BeforeGateTells, RecoveryTells, WaitingTells, CommandTells, ExecutionTells DEF WorkerStep
    <2> QED
      BY <2>1 DEF Effect, Threads
  <1>8. ASSUME NEW o \in Operators, OperatorStep(o) PROVE Effect
    BY <1>8, OperatorTells
  <1> QED
    BY <1>1, <1>2, <1>3, <1>4, <1>5, <1>6, <1>7, <1>8 DEF Next

----------------------------------------------------------------------------
(* The flags.                                                              *)
LEMMA FlagsStep ==
    ASSUME Flags, [Next]_vars
    PROVE  Flags'
  <1>1. CASE UNCHANGED config
    BY <1>1 DEF Flags, config
  <1>2. CASE KillSwitch \/ GateControls \/ StopWorkers
    BY <1>2 DEF Flags, KillSwitch, GateControls, StopWorkers
  <1>3. CASE Requests
    BY <1>1, <1>3 DEF Requests, CreateRun, BeginCreate, Steer, coordinator
  <1>4. CASE Faults
    BY <1>1, <1>4 DEF Faults, CreateRaises, RunRaises, FailureIsLost, coordinator
  <1>5. ASSUME NEW t \in Threads, CreatorStep(t) PROVE Flags'
    BY <1>1, <1>5 DEF CreatorStep, AdmitRun, RegisterRun, EnqueueRun, FailOverflow, CloseOverflow, coordinator
  <1>6. ASSUME NEW w \in Workers, WorkerStep(w) PROVE Flags'
    <2>1. CASE TakeRun(w) \/ LeavePool(w) \/ Detect(w) \/ Investigate(w) \/ Decide(w) \/ Evaluate(w)
      BY <1>1, <2>1 DEF TakeRun, LeavePool, Detect, Investigate, Decide, Evaluate, coordinator
    <2>2. CASE (\E child \in Runs : LaunchRecovery(w, child)) \/ RecoveryRefused(w) \/ RecoverySpawned(w) \/ SkipRecovery(w)
      BY <1>1, <2>2 DEF LaunchRecovery, BeginCreate, RecoveryRefused, RecoverySpawned, SkipRecovery, coordinator
    <2>3. CASE Gate(w) \/ FallAsleep(w) \/ WakeUp(w)
      BY <1>1, <2>3 DEF Gate, FallAsleep, WakeUp, coordinator
    <2>4. CASE TakeApproval(w) \/ TakeCancel(w) \/ TakeAutoMode(w) \/ TakePausePoint(w) \/ TakeOther(w) \/ TakeOverride(w)
      BY <1>1, <2>4 DEF TakeApproval, TakeCancel, TakeAutoMode, TakePausePoint, TakeOther, TakeOverride, Takes
    <2>5. CASE BeginExecution(w) \/ EndExecution(w) \/ Complete(w) \/ RecordTail(w) \/ Finalize(w)
      BY <1>1, <2>5 DEF BeginExecution, EndExecution, Complete, RecordTail, Finalize, coordinator
    <2> QED
      BY <1>6, <2>1, <2>2, <2>3, <2>4, <2>5 DEF WorkerStep
  <1>7. ASSUME NEW o \in Operators, OperatorStep(o) PROVE Flags'
    BY <1>1, <1>7 DEF OperatorStep, AttachNote, RunIsGone, ReleaseForCancel, Deliver, SaveRecord, AppendCommand, coordinator
  <1> QED
    BY <1>1, <1>2, <1>3, <1>4, <1>5, <1>6, <1>7 DEF Next, vars, coordinator

----------------------------------------------------------------------------
(* The queue.                                                              *)
LEMMA QueueGrows ==
    ASSUME NEW q \in Seq(Runs), NEW r \in Runs
    PROVE  /\ InQueue(Append(q, r)) = InQueue(q) \cup {r}
           /\ NoTwice(q) /\ r \notin InQueue(q) => NoTwice(Append(q, r))
           /\ Len(Append(q, r)) = Len(q) + 1
  <1>1. /\ Len(Append(q, r)) = Len(q) + 1 /\ Len(q) \in Nat
        /\ \A i \in 1..Len(q) : Append(q, r)[i] = q[i]
        /\ Append(q, r)[Len(q) + 1] = r
    BY AppendProperties, LenProperties
  <1>2. ASSUME NEW x
        PROVE  x \in InQueue(Append(q, r)) <=> x \in InQueue(q) \/ x = r
    <2>1. ASSUME NEW i \in 1..(Len(q) + 1), x = Append(q, r)[i]
          PROVE  x \in InQueue(q) \/ x = r
      BY <1>1, <2>1 DEF InQueue
    <2>2. ASSUME NEW i \in 1..Len(q), x = q[i]
          PROVE  x \in InQueue(Append(q, r))
      <3>1. i \in 1..(Len(q) + 1) /\ x = Append(q, r)[i]
        BY <1>1, <2>2
      <3> QED
        BY <1>1, <3>1 DEF InQueue
    <2>3. r \in InQueue(Append(q, r))
      BY <1>1 DEF InQueue
    <2> QED
      BY <1>1, <2>1, <2>2, <2>3 DEF InQueue
  <1>3. InQueue(Append(q, r)) = InQueue(q) \cup {r}
    BY <1>2
  <1>4. ASSUME NoTwice(q), r \notin InQueue(q),
               NEW i \in 1..(Len(q) + 1), NEW j \in 1..(Len(q) + 1), Append(q, r)[i] = Append(q, r)[j]
        PROVE  i = j
    <2>1. CASE i \in 1..Len(q) /\ j \in 1..Len(q)
      BY <1>1, <1>4, <2>1 DEF NoTwice
    <2>2. CASE i = Len(q) + 1 /\ j = Len(q) + 1
      BY <2>2
    <2>3. CASE i \in 1..Len(q) /\ j = Len(q) + 1
      BY <1>1, <1>4, <2>3 DEF InQueue
    <2>4. CASE i = Len(q) + 1 /\ j \in 1..Len(q)
      BY <1>1, <1>4, <2>4 DEF InQueue
    <2> QED
      BY <1>1, <2>1, <2>2, <2>3, <2>4
  <1> QED
    BY <1>1, <1>3, <1>4 DEF NoTwice

LEMMA QueueShrinks ==
    ASSUME NEW q \in Seq(Runs), q # << >>, NoTwice(q)
    PROVE  /\ InQueue(q) = InQueue(Tail(q)) \cup {Head(q)}
           /\ Head(q) \in Runs /\ Head(q) \notin InQueue(Tail(q))
           /\ NoTwice(Tail(q))
           /\ Len(Tail(q)) = Len(q) - 1
  <1>1. /\ Len(Tail(q)) = Len(q) - 1 /\ Len(q) \in Nat \ {0}
        /\ \A i \in 1..Len(Tail(q)) : Tail(q)[i] = q[i + 1]
        /\ Head(q) = q[1] /\ Head(q) \in Runs
    BY HeadTailProperties, LenProperties, EmptySeq
  <1>2. ASSUME NEW x
        PROVE  x \in InQueue(q) <=> x \in InQueue(Tail(q)) \/ x = Head(q)
    <2>1. ASSUME NEW i \in 1..Len(q), x = q[i]
          PROVE  x \in InQueue(Tail(q)) \/ x = Head(q)
      <3>1. CASE i = 1
        BY <1>1, <2>1, <3>1
      <3>2. CASE i # 1
        <4>1. i - 1 \in 1..Len(Tail(q)) /\ Tail(q)[i - 1] = q[i]
          BY <1>1, <3>2
        <4> QED
          BY <2>1, <4>1 DEF InQueue
      <3> QED
        BY <3>1, <3>2
    <2>2. ASSUME NEW i \in 1..Len(Tail(q)), x = Tail(q)[i]
          PROVE  x \in InQueue(q)
      <3>1. i + 1 \in 1..Len(q) /\ x = q[i + 1]
        BY <1>1, <2>2
      <3> QED
        BY <3>1 DEF InQueue
    <2>3. Head(q) \in InQueue(q)
      BY <1>1 DEF InQueue
    <2> QED
      BY <2>1, <2>2, <2>3 DEF InQueue
  <1>3. Head(q) \notin InQueue(Tail(q))
    <2>1. ASSUME NEW i \in 1..Len(Tail(q)), Tail(q)[i] = Head(q)
          PROVE  FALSE
      <3>1. i + 1 \in 1..Len(q) /\ 1 \in 1..Len(q) /\ q[i + 1] = q[1] /\ i + 1 # 1
        BY <1>1, <2>1
      <3> QED
        BY <3>1 DEF NoTwice
    <2> QED
      BY <2>1 DEF InQueue
  <1>4. ASSUME NEW i \in 1..Len(Tail(q)), NEW j \in 1..Len(Tail(q)), Tail(q)[i] = Tail(q)[j]
        PROVE  i = j
    <2>1. i + 1 \in 1..Len(q) /\ j + 1 \in 1..Len(q) /\ q[i + 1] = q[j + 1]
      BY <1>1, <1>4
    <2>2. i + 1 = j + 1
      BY <2>1 DEF NoTwice
    <2> QED
      BY <1>1, <2>2
  <1>5. NoTwice(Tail(q))
    BY <1>4 DEF NoTwice
  <1>6. InQueue(q) = InQueue(Tail(q)) \cup {Head(q)}
    BY <1>2
  <1> QED
    BY <1>1, <1>3, <1>5, <1>6


----------------------------------------------------------------------------
(* Steps of operators and of the kill switch: nobody moves.                *)

LEMMA WillingStays ==
    ASSUME SessionsKeep, UNCHANGED watched
    PROVE  \A r \in Runs : Willing(r) => Willing(r)'
  BY DEF SessionsKeep, watched, Willing

LEMMA AttendedKeeps ==
    ASSUME Located, CoordinatorInv, Attended
    PROVE  Located'
  <1>1. /\ Tables /\ Places /\ Registered /\ Lifecycles /\ Consented /\ SessionsKeep /\ SteeringKeeps
        /\ UNCHANGED << input, control, admitted, locks, queue, creator, worker, executed, watched >>
    BY DEF Located, Attended
  <1>2. Tables'
    BY <1>1 DEF Tables, SessionsKeep, SteeringKeeps
  <1>3. Places'
    BY <1>1 DEF Places, Creates
  <1>4. Registered'
    BY <1>1 DEF Registered, Registering, watched
  <1>5. Lifecycles'
    BY <1>1 DEF Lifecycles, Unknown, Executed, Creates, SessionsKeep, watched
  <1>6. Consented'
    <2>1. \A r \in Runs : Willing(r) => Willing(r)'
      BY <1>1, WillingStays
    <2>2. \A w \in Workers : worker[w].pc = "execute" => worker[w].run \in Runs
      BY <1>1 DEF Places, Away
    <2>3. \A r \in Runs : control[r] # NoControl =>
             /\ control[r].auto => Willing(r)'
             /\ \A i \in 1..Len(control[r].commands) : control[r].commands[i] \in Agreements => r \in consent
      BY <1>1, <2>1 DEF Consented
    <2>4. \A w \in Workers : worker[w].pc = "execute" => Willing(worker[w].run)'
      BY <1>1, <2>1, <2>2 DEF Consented
    <2>5. \A r \in Runs : executed[r] # {} => Willing(r)'
      BY <1>1, <2>1 DEF Consented
    <2>6. \A o \in Operators : steering'[o].pc # "idle" =>
             LET r == steering'[o].run
             IN  /\ r \in Runs /\ session'[r].stage # "none"
                 /\ steering'[o].snap.stage # "none" /\ steering'[o].snap.auto = session'[r].auto
      BY <1>1 DEF SteeringKeeps, SessionsKeep
    <2> QED
      BY <1>1, <2>3, <2>4, <2>5, <2>6 DEF Consented, watched
  <1> QED
    BY <1>2, <1>3, <1>4, <1>5, <1>6 DEF Located

LEMMA AsideKeeps ==
    ASSUME Located, CoordinatorInv, Aside
    PROVE  Located'
  <1>1. SessionsKeep
    BY SameSessionsKeep DEF Located, Aside
  <1>2. SteeringKeeps
    BY DEF Located, Tables, Consented, Aside, SteeringKeeps
  <1> QED
    BY <1>1, <1>2, AttendedKeeps DEF Aside, Attended

LEMMA CancelledKeeps ==
    ASSUME Located, CoordinatorInv, NEW o \in Operators, Cancelled(o)
    PROVE  Located'
  <1>1. /\ Tables /\ Places /\ Registered /\ Lifecycles /\ Consented /\ SteeringKeeps
        /\ admitted' \subseteq admitted
        /\ UNCHANGED << session, input, control, queue, creator, worker, executed, watched >>
    BY DEF Located, Cancelled, ReleaseRunAdmission
  <1>2. locks' \in [Targets -> Runs \cup {NoRun}]
    BY <1>1 DEF Tables, Cancelled, ReleaseRunAdmission
  <1>3. Tables'
    BY <1>1, <1>2 DEF Tables, SteeringKeeps
  <1>4. Places'
    BY <1>1 DEF Places, Creates
  <1>5. Registered'
    BY <1>1 DEF Registered, Registering, watched
  <1>6. Lifecycles'
    BY <1>1 DEF Lifecycles, Unknown, Executed, Creates, watched
  <1>7. Consented'
    BY <1>1 DEF Consented, Willing, watched, SteeringKeeps
  <1> QED
    BY <1>3, <1>4, <1>5, <1>6, <1>7 DEF Located

(* A sequence with one element more: its elements, and the new one.        *)
LEMMA AppendedLast ==
    ASSUME NEW S, NEW q \in Seq(S), NEW e \in S
    PROVE  /\ Append(q, e) \in Seq(S)
           /\ \A i \in 1..Len(Append(q, e)) :
                 Append(q, e)[i] = e \/ \E j \in 1..Len(q) : Append(q, e)[i] = q[j]
  <1>1. /\ Append(q, e) \in Seq(S) /\ Len(Append(q, e)) = Len(q) + 1
        /\ \A i \in 1..Len(q) : Append(q, e)[i] = q[i]
        /\ Append(q, e)[Len(q) + 1] = e
    BY AppendProperties
  <1>2. Len(q) \in Nat
    BY LenProperties
  <1>3. \A i \in 1..(Len(q) + 1) : i \in 1..Len(q) \/ i = Len(q) + 1
    BY <1>2
  <1> QED
    BY <1>1, <1>3

LEMMA AppendedKeeps ==
    ASSUME Located, CoordinatorInv, NEW o \in Operators, Appended(o)
    PROVE  Located'
  <1> DEFINE r == steering[o].run
             cmd == steering[o].cmd
             c == [control[r] EXCEPT !.commands = Append(control[r].commands, cmd)]
  <1>1. /\ Tables /\ Places /\ Registered /\ Lifecycles /\ Consented /\ SteeringKeeps
        /\ consent' = IF cmd \in Agreements THEN consent \cup {r} ELSE consent
        /\ UNCHANGED << session, input, admitted, locks, queue, creator, worker, executed, gated >>
    BY DEF Located, Appended
  <1>2. r \in Runs /\ cmd \in SteeringCommands
    BY <1>1 DEF Appended, Consented, Tables, Steerings
  <1>3. control' = IF control[r] = NoControl THEN control ELSE [control EXCEPT ![r] = c]
    BY <1>1 DEF Appended
  <1>4. control[r] # NoControl =>
           /\ c \in Controls /\ c.auto = control[r].auto
           /\ \A i \in 1..Len(c.commands) : c.commands[i] = cmd \/ \E j \in 1..Len(control[r].commands) : c.commands[i] = control[r].commands[j]
    <2> SUFFICES ASSUME control[r] # NoControl
                 PROVE  /\ c \in Controls /\ c.auto = control[r].auto
                        /\ \A i \in 1..Len(c.commands) : c.commands[i] = cmd \/ \E j \in 1..Len(control[r].commands) : c.commands[i] = control[r].commands[j]
      OBVIOUS
    <2>1. control[r] \in Controls /\ control[r].commands \in Seq(SteeringCommands)
      BY <1>1, <1>2 DEF Tables, Controls
    <2> HIDE DEF cmd, r
    <2>2. PICK q \in Seq(SteeringCommands) : q = control[r].commands
      BY <2>1
    <2>3. /\ Append(q, cmd) \in Seq(SteeringCommands)
          /\ \A i \in 1..Len(Append(q, cmd)) :
                Append(q, cmd)[i] = cmd \/ \E j \in 1..Len(q) : Append(q, cmd)[i] = q[j]
      BY <1>2, AppendedLast
    <2>4. c \in Controls /\ c.auto = control[r].auto /\ c.commands = Append(q, cmd)
      BY <2>1, <2>2, <2>3 DEF Controls
    <2> HIDE DEF c
    <2> QED
      BY <2>2, <2>3, <2>4
  <1> HIDE DEF c, cmd, r
  <1>5. /\ control' \in [Runs -> Controls \cup {NoControl}]
        /\ \A s \in Runs : control'[s] = NoControl <=> control[s] = NoControl
    BY <1>1, <1>2, <1>3, <1>4, ControlAssumption DEF Tables
  <1>6. Tables'
    BY <1>1, <1>5 DEF Tables, SteeringKeeps
  <1>7. Places'
    BY <1>1 DEF Places, Creates
  <1>8. \A t \in Threads : creator[t].pc # "none" => creator[t].run \in Runs
    BY DEF CoordinatorInv, ThreadTypes, CreationsName
  <1>9. (\A q \in InQueue(queue) : q \in Runs) /\ \A w \in Workers : worker[w].run # NoRun => worker[w].run \in Runs
    <2>1. queue \in Seq(Runs) /\ worker \in [Workers -> Locals]
      BY DEF CoordinatorInv, ThreadTypes
    <2> QED
      BY <2>1, LenProperties, ElementOfSeq DEF InQueue, Locals
  <1>10. Registered'
    BY <1>1, <1>5, <1>8, <1>9 DEF Registered, Registering
  <1>11. Lifecycles'
    BY <1>1, <1>5 DEF Lifecycles, Unknown, Executed, Creates
  <1>12. Consented'
    <2>1. consent \subseteq consent' /\ \A s \in Runs : Willing(s) => Willing(s)'
      BY <1>1 DEF Willing
    <2>2. \A w \in Workers : worker[w].pc = "execute" => worker[w].run \in Runs
      BY <1>1 DEF Places, Away
    <2>3. ASSUME NEW s \in Runs, control'[s] # NoControl
          PROVE  /\ control'[s].auto => Willing(s)'
                 /\ \A i \in 1..Len(control'[s].commands) : control'[s].commands[i] \in Agreements => s \in consent'
      <3>1. CASE s = r
        <4>1. control[r] # NoControl /\ control'[s] = c
          BY <1>1, <1>2, <1>3, <1>5, <2>3, <3>1 DEF Tables
        <4> QED
          BY <1>1, <1>2, <1>4, <2>1, <3>1, <4>1 DEF Consented
      <3>2. CASE s # r
        <4>1. control'[s] = control[s]
          BY <1>1, <1>3, <3>2 DEF Tables
        <4> QED
          BY <1>1, <2>1, <2>3, <4>1 DEF Consented
      <3> QED
        BY <3>1, <3>2
    <2>4. \A w \in Workers : worker[w].pc = "execute" => Willing(worker[w].run)'
      BY <1>1, <2>1, <2>2 DEF Consented
    <2>5. \A s \in Runs : executed[s] # {} => Willing(s)'
      BY <1>1, <2>1 DEF Consented
    <2> QED
      BY <1>1, <2>3, <2>4, <2>5 DEF Consented, SteeringKeeps
  <1> QED
    BY <1>6, <1>7, <1>10, <1>11, <1>12 DEF Located

LEMMA GatingKeeps ==
    ASSUME Located, CoordinatorInv, Gating
    PROVE  Located'
  <1>1. /\ Tables /\ Places /\ Registered /\ Lifecycles /\ Consented
        /\ UNCHANGED << session, input, admitted, locks, queue, creator, worker, steering, executed, consent >>
    BY DEF Located, Gating
  <1>2. \A r \in Runs : /\ control[r] = NoControl => control'[r] = NoControl
                        /\ control[r] # NoControl => control'[r] = Gated(control[r]) /\ control[r] \in Controls
    BY <1>1 DEF Gating, Tables
  <1>3. \A c \in Controls : Gated(c) \in Controls /\ Gated(c).auto = FALSE /\ Gated(c).commands = c.commands
    BY DEF Gated, Controls, PauseableStages
  <1>4. /\ control' \in [Runs -> Controls \cup {NoControl}]
        /\ \A s \in Runs : control'[s] = NoControl <=> control[s] = NoControl
        /\ \A s \in Runs : control'[s] # NoControl => control'[s].auto = FALSE /\ control'[s].commands = control[s].commands
    <2>1. \A r \in Runs : control'[r] \in Controls \cup {NoControl}
      BY <1>2, <1>3
    <2>2. control' = [r \in Runs |-> control'[r]]
      BY DEF Gating
    <2> QED
      BY <1>2, <1>3, <2>1, <2>2, ControlAssumption
  <1>5. \A r \in Runs : r \in gated' <=> control[r] # NoControl /\ ~PassedGate(r)
    BY DEF Gating
  <1>6. Tables'
    BY <1>1, <1>4 DEF Tables
  <1>7. Places'
    BY <1>1 DEF Places, Creates
  <1>8. \A t \in Threads : creator[t].pc # "none" => creator[t].run \in Runs
    BY DEF CoordinatorInv, ThreadTypes, CreationsName
  <1>9. (\A q \in InQueue(queue) : q \in Runs) /\ \A w \in Workers : worker[w].run # NoRun => worker[w].run \in Runs
    <2>1. queue \in Seq(Runs) /\ worker \in [Workers -> Locals]
      BY DEF CoordinatorInv, ThreadTypes
    <2> QED
      BY <2>1, LenProperties, ElementOfSeq DEF InQueue, Locals
  <1>10. Registered'
    BY <1>1, <1>4, <1>5, <1>8, <1>9 DEF Registered, Registering
  <1>11. Lifecycles'
    BY <1>1, <1>4, <1>5 DEF Lifecycles, Unknown, Executed, Creates
  <1>12. ASSUME NEW r \in Runs, executed[r] # {} PROVE r \notin gated'
    <2>1. Executed(r)
      BY <1>1, <1>12 DEF Lifecycles
    <2>2. CASE \E w \in Workers : worker[w].run = r
      <3>1. PICK w \in Workers : worker[w].run = r
        BY <2>2
      <3>2. Late(worker[w])
        BY <2>1, <3>1 DEF Executed
      <3>3. PassedGate(r)
        BY <3>1, <3>2 DEF PassedGate, Late, Run
      <3> QED
        BY <1>5, <3>3
    <2>3. CASE \A w \in Workers : worker[w].run # r
      BY <1>5, <2>1, <2>3 DEF Executed
    <2> QED
      BY <2>2, <2>3
  <1>13. \A w \in Workers : worker[w].pc = "execute" => worker[w].run \in Runs /\ worker[w].run \notin gated'
    <2>1. \A w \in Workers : worker[w].pc = "execute" => worker[w].run \in Runs /\ PassedGate(worker[w].run)
      BY <1>1 DEF Places, Away, PassedGate, Run
    <2> QED
      BY <1>5, <2>1
  <1>14. \A w \in Workers : worker[w].pc = "execute" => Willing(worker[w].run)'
    BY <1>1, <1>13 DEF Consented, Willing
  <1>15. \A r \in Runs : executed[r] # {} => Willing(r)'
    BY <1>1, <1>12 DEF Consented, Willing
  <1>16. Consented'
    BY <1>1, <1>4, <1>14, <1>15 DEF Consented
  <1> QED
    BY <1>6, <1>7, <1>10, <1>11, <1>16 DEF Located


----------------------------------------------------------------------------
(* Steps of a worker.                                                      *)

(* The runs the threads and the queue name.                                *)
LEMMA Named ==
    ASSUME Located, CoordinatorInv
    PROVE  /\ \A t \in Threads : creator[t].pc # "none" => creator[t].run \in Runs
           /\ \A q \in InQueue(queue) : q \in Runs
           /\ \A w \in Workers : worker[w].run # NoRun => worker[w].run \in Runs /\ worker[w].pc \notin Away
           /\ \A w \in Workers : worker[w].pc \notin Away => worker[w].run \in Runs
  <1>1. /\ queue \in Seq(Runs) /\ worker \in [Workers -> Locals]
        /\ \A t \in Threads : creator[t].pc # "none" => creator[t].run \in Runs
    BY DEF CoordinatorInv, ThreadTypes, CreationsName
  <1>2. \A q \in InQueue(queue) : q \in Runs
    BY <1>1, LenProperties, ElementOfSeq DEF InQueue
  <1>3. \A w \in Workers : worker[w].run # NoRun => worker[w].run \in Runs /\ worker[w].pc \notin Away
    BY <1>1 DEF Located, Places, Locals
  <1>4. \A w \in Workers : worker[w].pc \notin Away => worker[w].run \in Runs
    BY DEF Located, Places
  <1> QED
    BY <1>1, <1>2, <1>3, <1>4

(* What a walk leaves of the workers.                                      *)
LEMMA WalksKeeps ==
    ASSUME CoordinatorInv, NEW w \in Workers, Walks(w)
    PROVE  /\ \A v \in Workers : worker'[v].run = worker[v].run
           /\ \A v \in Workers \ {w} : worker'[v] = worker[v]
           /\ \A v \in Workers : (worker'[v].pc \in Away <=> worker[v].pc \in Away)
           /\ \A v \in Workers : Late(worker[v]) => Late(worker'[v])
  <1>1. worker \in [Workers -> Locals]
    BY DEF CoordinatorInv, ThreadTypes
  <1>2. \A v \in Workers \ {w} : worker'[v] = worker[v]
    BY <1>1 DEF Walks
  <1> QED
    BY <1>2 DEF Walks

LEMMA WalkedKeeps ==
    ASSUME Located, CoordinatorInv, NEW w \in Workers, Walked(w)
    PROVE  Located'
  <1>1. /\ Tables /\ Places /\ Registered /\ Lifecycles /\ Consented
        /\ Walks(w) /\ creator[w].pc = "none" /\ SessionsKeep /\ ControlsKeep
        /\ UNCHANGED << input, admitted, locks, queue, creator, steering, executed, watched >>
    BY DEF Located, Walked
  <1>2. /\ \A v \in Workers : worker'[v].run = worker[v].run
        /\ \A v \in Workers \ {w} : worker'[v] = worker[v]
        /\ \A v \in Workers : (worker'[v].pc \in Away <=> worker[v].pc \in Away)
        /\ \A v \in Workers : Late(worker[v]) => Late(worker'[v])
    BY <1>1, WalksKeeps
  <1>3. \A r \in Runs : (control'[r] = NoControl <=> control[r] = NoControl)
    BY <1>1 DEF ControlsKeep
  <1>4. /\ \A t \in Threads : creator[t].pc # "none" => creator[t].run \in Runs
        /\ \A q \in InQueue(queue) : q \in Runs
        /\ \A v \in Workers : worker[v].run # NoRun => worker[v].run \in Runs /\ worker[v].pc \notin Away
        /\ \A v \in Workers : worker[v].pc \notin Away => worker[v].run \in Runs
    BY Named
  <1>5. Tables'
    BY <1>1 DEF Tables, SessionsKeep, ControlsKeep
  <1>6. Places'
    BY <1>1, <1>2 DEF Places, Creates
  <1>7. Registered'
    BY <1>1, <1>2, <1>3, <1>4 DEF Registered, Registering, watched
  <1>8. Lifecycles'
    <2> HIDE DEF Late
    <2>1. \A r \in Runs : Unknown(r) => Unknown(r)'
      BY <1>1, <1>2, <1>3 DEF Unknown, Creates, watched
    <2>2. \A r \in Runs : Executed(r) => Executed(r)'
      <3>1. \A v \in Workers : Late(worker[v]) => Late(worker[v])'
        BY <1>2 DEF Late
      <3> QED
        BY <1>1, <1>2, <1>3, <3>1 DEF Executed, Creates
    <2> QED
      BY <1>1, <2>1, <2>2 DEF Lifecycles, SessionsKeep
  <1>9. Consented'
    <2>1. \A r \in Runs : Willing(r) => Willing(r)'
      BY <1>1, WillingStays
    <2>2. \A r \in Runs : control'[r] # NoControl =>
             /\ control'[r].auto => Willing(r)'
             /\ \A i \in 1..Len(control'[r].commands) : control'[r].commands[i] \in Agreements => r \in consent
      BY <1>1, <2>1 DEF ControlsKeep, Agreed
    <2>3. \A v \in Workers : worker'[v].pc = "execute" => Willing(worker[v].run) /\ worker[v].run \in Runs
      <3>1. \A v \in Workers : worker'[v].pc = "execute" => worker[v].run \in Runs
        BY <1>2, <1>4 DEF Away
      <3>2. \A v \in Workers : worker'[v].pc = "execute" => Willing(worker[v].run)
        BY <1>1, <1>2 DEF Consented, Walks
      <3> QED
        BY <3>1, <3>2
    <2>4. \A v \in Workers : worker'[v].pc = "execute" => Willing(worker[v].run)'
      BY <1>2, <2>1, <2>3 DEF Willing
    <2>5. \A r \in Runs : executed[r] # {} => Willing(r)'
      BY <1>1, <2>1 DEF Consented
    <2> QED
      BY <1>1, <2>2, <2>4, <2>5 DEF Consented, watched, SessionsKeep
  <1> QED
    BY <1>5, <1>6, <1>7, <1>8, <1>9 DEF Located

LEMMA BeganKeeps ==
    ASSUME Located, CoordinatorInv, NEW w \in Workers, Began(w)
    PROVE  Located'
  <1>0. PICK r \in Runs : r = worker[w].run
    BY Named DEF Began, Away
  <1>1. /\ Tables /\ Places /\ Registered /\ Lifecycles /\ Consented
        /\ Walks(w) /\ worker[w].pc = "execute" /\ worker'[w].pc = "executing" /\ SessionsKeep
        /\ UNCHANGED << input, control, admitted, locks, queue, creator, steering, watched >>
    BY DEF Located, Began
  <1>2. /\ \A v \in Workers : worker'[v].run = worker[v].run
        /\ \A v \in Workers \ {w} : worker'[v] = worker[v]
        /\ \A v \in Workers : (worker'[v].pc \in Away <=> worker[v].pc \in Away)
        /\ \A v \in Workers : Late(worker[v]) => Late(worker'[v])
    BY <1>1, WalksKeeps
  <1>3. /\ r = worker[w].run /\ creator[w].pc = "none" /\ r # NoRun /\ Late(worker'[w])
        /\ \A v \in Workers : worker[v].run # NoRun => worker[v].run \in Runs /\ worker[v].pc \notin Away
        /\ \A v \in Workers : worker[v].pc \notin Away => worker[v].run \in Runs
    BY <1>0, <1>1, Named, CoordinatorAssumption DEF Away, Places, Late
  <1>4. \A s \in Runs \ {r} : executed'[s] = executed[s]
    BY <1>3 DEF Began, CoordinatorInv, ThreadTypes
  <1>5. Tables'
    BY <1>1 DEF Tables, SessionsKeep
  <1>6. Places'
    BY <1>1, <1>2, <1>3 DEF Places, Creates
  <1>7. Registered'
    BY <1>1, <1>2 DEF Registered, Registering, watched
  <1>8. Lifecycles'
    <2> HIDE DEF Late
    <2>1. \A v \in Workers : Late(worker[v]) => Late(worker[v])'
      BY <1>2 DEF Late
    <2>2. ASSUME NEW s \in Runs \ {r}
          PROVE  /\ session[s].stage = "none" => Unknown(s)'
                 /\ executed[s] # {} => Executed(s)'
      BY <1>1, <1>2, <1>4, <2>1 DEF Lifecycles, Unknown, Executed, Creates, watched
    <2>3. session[r].stage # "none"
      BY <1>1, <1>3 DEF Lifecycles, Unknown
    <2>4. Executed(r)'
      <3>1. \A t \in Threads : ~Creates(t, r)
        BY <1>1, <1>3 DEF Places
      <3>2. r \notin InQueue(queue)
        BY <1>1, <1>3 DEF Places
      <3>3. \A v \in Workers : worker[v].run = r => v = w
        BY <1>1, <1>3 DEF Places
      <3>4. Late(worker[w])' /\ worker'[w].run = r
        BY <1>2, <1>3 DEF Late
      <3>5. \A v \in Workers : worker'[v].run = r => Late(worker[v])'
        BY <1>2, <3>3, <3>4
      <3> QED
        BY <1>1, <3>1, <3>2, <3>4, <3>5 DEF Executed, Creates
    <2> QED
      BY <1>1, <1>3, <1>4, <2>2, <2>3, <2>4 DEF Lifecycles, SessionsKeep
  <1>9. Consented'
    <2>1. \A s \in Runs : Willing(s) => Willing(s)'
      BY <1>1, WillingStays
    <2>2. Willing(r)'
      BY <1>1, <1>3, <2>1 DEF Consented
    <2>3. \A v \in Workers : worker'[v].pc = "execute" => Willing(worker[v].run)'
      <3>1. \A v \in Workers : worker'[v].pc = "execute" => worker[v].run \in Runs /\ Willing(worker[v].run)
        BY <1>1, <1>2, <1>3 DEF Consented, Away
      <3> QED
        BY <1>2, <2>1, <3>1 DEF Willing
    <2>4. \A s \in Runs : executed'[s] # {} => Willing(s)'
      BY <1>1, <1>3, <1>4, <2>1, <2>2 DEF Consented
    <2>5. \A s \in Runs : control[s] # NoControl =>
             /\ control[s].auto => Willing(s)'
             /\ \A i \in 1..Len(control[s].commands) : control[s].commands[i] \in Agreements => s \in consent
      BY <1>1, <2>1 DEF Consented
    <2> QED
      BY <1>1, <2>3, <2>4, <2>5 DEF Consented, watched, SessionsKeep
  <1> QED
    BY <1>5, <1>6, <1>7, <1>8, <1>9 DEF Located

LEMMA LeftKeeps ==
    ASSUME Located, CoordinatorInv, NEW w \in Workers, Left(w)
    PROVE  Located'
  <1>1. /\ Tables /\ Places /\ Registered /\ Lifecycles /\ Consented
        /\ worker[w].pc = "idle"
        /\ UNCHANGED << session, input, control, admitted, locks, queue, creator, steering, executed, watched >>
    BY DEF Located, Left
  <1>2. /\ worker'[w].pc = "off" /\ worker'[w].run = worker[w].run
        /\ worker[w].run = NoRun /\ creator[w].pc = "none"
        /\ \A v \in Workers \ {w} : worker'[v] = worker[v]
    BY <1>1 DEF Left, CoordinatorInv, ThreadTypes, Locals, Places, Away
  <1>3. \A v \in Workers : worker'[v].run = worker[v].run
    BY <1>2
  <1>4. Tables'
    BY <1>1 DEF Tables
  <1>5. Places'
    BY <1>1, <1>2, <1>3 DEF Places, Creates, Away
  <1>6. Registered'
    BY <1>1, <1>3 DEF Registered, Registering, watched
  <1>7. Lifecycles'
    <2>1. \A r \in Runs : Unknown(r) => Unknown(r)'
      BY <1>1, <1>3 DEF Unknown, Creates, watched
    <2>2. \A v \in Workers : v # w => (Late(worker[v]) => Late(worker[v])')
      BY <1>2 DEF Late
    <2>3. \A r \in Runs : Executed(r) => Executed(r)'
      <3> HIDE DEF Late
      <3> QED
        BY <1>1, <1>2, <1>3, <2>2, CoordinatorAssumption DEF Executed, Creates
    <2> QED
      BY <1>1, <2>1, <2>3 DEF Lifecycles
  <1>8. Consented'
    BY <1>1, <1>2 DEF Consented, Willing, watched
  <1> QED
    BY <1>4, <1>5, <1>6, <1>7, <1>8 DEF Located


LEMMA TakenKeeps ==
    ASSUME Located, CoordinatorInv, NEW w \in Workers, Taken(w)
    PROVE  Located'
  <1>0. /\ Tables /\ Places /\ Registered /\ Lifecycles /\ Consented /\ SessionsKeep
        /\ worker[w].pc = "idle" /\ queue # << >> /\ queue' = Tail(queue)
        /\ worker'[w].pc = "detect" /\ worker'[w].run = Head(queue)
        /\ UNCHANGED << input, control, admitted, locks, creator, steering, executed, watched >>
    BY DEF Located, Taken
  <1>1. queue \in Seq(Runs) /\ worker \in [Workers -> Locals]
    BY DEF CoordinatorInv, ThreadTypes
  <1>2. /\ InQueue(queue) = InQueue(Tail(queue)) \cup {Head(queue)}
        /\ Head(queue) \in Runs /\ Head(queue) \notin InQueue(Tail(queue))
        /\ NoTwice(Tail(queue)) /\ Len(Tail(queue)) = Len(queue) - 1
    BY <1>0, <1>1, QueueShrinks DEF Places
  <1>3. PICK h \in Runs : h = Head(queue)
    BY <1>2
  <1>4. InQueue(queue)' = InQueue(Tail(queue)) /\ NoTwice(queue)' /\ Len(queue') <= QueueSize
    <2>1. Len(queue) \in Nat /\ Len(queue) <= QueueSize /\ QueueSize \in Nat
      BY <1>0, <1>1, LenProperties, CoordinatorAssumption DEF Tables
    <2>2. Len(queue') <= QueueSize
      BY <1>0, <1>2, <2>1
    <2> QED
      BY <1>0, <1>2, <2>2 DEF InQueue, NoTwice
  <1>5. /\ InQueue(queue) = InQueue(queue)' \cup {h} /\ h \notin InQueue(queue)' /\ NoTwice(queue)'
        /\ worker'[w].run = h
    BY <1>0, <1>2, <1>3, <1>4
  <1>6. /\ worker[w].run = NoRun /\ creator[w].pc = "none" /\ NoRun \notin Runs
        /\ \A v \in Workers \ {w} : worker'[v] = worker[v]
    BY <1>0, <1>1, CoordinatorAssumption DEF Taken, Places, Away
  <1> HIDE DEF InQueue
  <1>7. Tables'
    BY <1>0, <1>4 DEF Tables, SessionsKeep
  <1>8. Places'
    <2>1. \A t, u \in Threads, r \in Runs : Creates(t, r)' /\ Creates(u, r)' => t = u
      BY <1>0 DEF Places, Creates
    <2>2. \A t \in Threads, r \in Runs :
             Creates(t, r)' => r \notin InQueue(queue)' /\ \A v \in Workers : worker'[v].run # r
      BY <1>0, <1>5, <1>6 DEF Places, Creates
    <2>3. \A v \in Workers : worker'[v].run \notin InQueue(queue)'
      BY <1>0, <1>5, <1>6 DEF Places
    <2>4. \A v \in Workers \ {w} : worker[v].run # h
      BY <1>0, <1>5 DEF Places
    <2>5. \A u, v \in Workers : worker'[u].run = worker'[v].run /\ worker'[u].run # NoRun => u = v
      BY <1>0, <1>5, <1>6, <2>4 DEF Places
    <2>6. \A v \in Workers : IF worker'[v].pc \in Away THEN worker'[v].run = NoRun ELSE worker'[v].run \in Runs
      BY <1>0, <1>5, <1>6 DEF Places, Away
    <2>7. \A v \in Workers : creator'[v].pc # "none" => worker'[v].pc = "spawn"
      BY <1>0, <1>6 DEF Places
    <2> QED
      BY <1>5, <2>1, <2>2, <2>3, <2>5, <2>6, <2>7 DEF Places
  <1>9. Registered'
    <2>1. control[h] # NoControl
      BY <1>0, <1>5 DEF Registered
    <2> QED
      BY <1>0, <1>5, <1>6, <2>1 DEF Registered, Registering, watched
  <1>10. Lifecycles'
    <2>1. \A r \in Runs : Unknown(r) => Unknown(r)'
      BY <1>0, <1>5, <1>6 DEF Unknown, Creates, watched
    <2>2. \A v \in Workers \ {w} : Late(worker[v]) => Late(worker[v])'
      BY <1>6 DEF Late
    <2>3. \A r \in Runs : Executed(r) => Executed(r)'
      <3> HIDE DEF Late
      <3> QED
        BY <1>0, <1>5, <1>6, <2>2 DEF Executed, Creates
    <2> QED
      BY <1>0, <2>1, <2>3 DEF Lifecycles, SessionsKeep
  <1>11. Consented'
    <2>1. \A r \in Runs : Willing(r) => Willing(r)'
      BY <1>0, WillingStays
    <2>2. \A v \in Workers : worker'[v].pc = "execute" => worker'[v] = worker[v] /\ worker[v].run \in Runs
      BY <1>0, <1>6 DEF Places, Away
    <2>3. \A v \in Workers : worker'[v].pc = "execute" => Willing(worker[v].run)'
      BY <1>0, <2>1, <2>2 DEF Consented
    <2>4. \A r \in Runs : executed[r] # {} => Willing(r)'
      BY <1>0, <2>1 DEF Consented
    <2>5. \A s \in Runs : control[s] # NoControl =>
             /\ control[s].auto => Willing(s)'
             /\ \A i \in 1..Len(control[s].commands) : control[s].commands[i] \in Agreements => s \in consent
      BY <1>0, <2>1 DEF Consented
    <2> QED
      BY <1>0, <2>3, <2>4, <2>5 DEF Consented, watched, SessionsKeep
  <1> QED
    BY <1>7, <1>8, <1>9, <1>10, <1>11 DEF Located

(* What _finalize_run leaves in the tables.                                *)
LEMMA FinalizeKeeps ==
    ASSUME Tables, NEW r \in Runs, FinalizeRun(r)
    PROVE  /\ control' \in [Runs -> Controls \cup {NoControl}]
           /\ admitted' \subseteq admitted /\ r \notin admitted'
           /\ locks' \in [Targets -> Runs \cup {NoRun}]
           /\ control'[r] = NoControl /\ \A s \in Runs \ {r} : control'[s] = control[s]
  BY DEF Tables, FinalizeRun, ReleaseRunAdmission

LEMMA EndedKeeps ==
    ASSUME Located, CoordinatorInv, NEW w \in Workers, Ended(w)
    PROVE  Located'
  <1>1. /\ Tables /\ Places /\ Registered /\ Lifecycles /\ Consented
        /\ worker[w].pc = "finalize"
        /\ UNCHANGED << session, input, queue, creator, steering, executed, watched >>
    BY DEF Located, Ended
  <1>2. PICK r \in Runs : r = worker[w].run
    BY <1>1, Named DEF Away
  <1>3. /\ control' \in [Runs -> Controls \cup {NoControl}]
        /\ admitted' \subseteq admitted
        /\ locks' \in [Targets -> Runs \cup {NoRun}]
        /\ control'[r] = NoControl /\ \A s \in Runs \ {r} : control'[s] = control[s]
    BY <1>1, <1>2, FinalizeKeeps DEF Ended
  <1>4. /\ worker'[w].pc = "idle" /\ worker'[w].run = NoRun /\ creator[w].pc = "none" /\ NoRun \notin Runs
        /\ \A v \in Workers \ {w} : worker'[v] = worker[v]
    BY <1>1, CoordinatorAssumption DEF Ended, CoordinatorInv, ThreadTypes, Places, IdleWorker
  <1>5. /\ \A t \in Threads : ~Creates(t, r)
        /\ r \notin InQueue(queue)
        /\ \A v \in Workers \ {w} : worker[v].run # r
    BY <1>1, <1>2, <1>4 DEF Places
  <1>6. /\ \A t \in Threads : creator[t].pc # "none" => creator[t].run \in Runs
        /\ \A q \in InQueue(queue) : q \in Runs
        /\ \A v \in Workers : worker[v].run # NoRun => worker[v].run \in Runs /\ worker[v].pc \notin Away
        /\ \A v \in Workers : worker[v].pc \notin Away => worker[v].run \in Runs
    BY Named
  <1>7. Tables'
    BY <1>1, <1>3 DEF Tables
  <1>8. InQueue(queue)' = InQueue(queue) /\ NoTwice(queue)' = NoTwice(queue)
    BY <1>1 DEF InQueue, NoTwice
  <1> HIDE DEF InQueue
  <1>9. NoRun \notin InQueue(queue)
    BY <1>4, <1>6
  <1>10. Places'
    BY <1>1, <1>4, <1>8, <1>9 DEF Places, Creates, Away
  <1>11. Registered'
    BY <1>1, <1>3, <1>4, <1>5, <1>6, <1>8 DEF Registered, Registering, Creates, watched
  <1>12. Lifecycles'
    <2>1. \A s \in Runs : Unknown(s) => Unknown(s)'
      BY <1>1, <1>3, <1>4, <1>8 DEF Unknown, Creates, watched
    <2>2. \A v \in Workers \ {w} : Late(worker[v]) => Late(worker[v])'
      BY <1>4 DEF Late
    <2>3. \A s \in Runs : Executed(s) => Executed(s)'
      <3> HIDE DEF Late
      <3> QED
        BY <1>1, <1>2, <1>3, <1>4, <1>8, <2>2 DEF Executed, Creates
    <2> QED
      BY <1>1, <2>1, <2>3 DEF Lifecycles
  <1>13. Consented'
    <2>1. \A s \in Runs : Willing(s) => Willing(s)'
      BY <1>1 DEF Willing, watched
    <2>2. \A v \in Workers : worker'[v].pc = "execute" => worker'[v] = worker[v] /\ worker[v].run \in Runs
      BY <1>4, <1>6 DEF Away
    <2>3. \A v \in Workers : worker'[v].pc = "execute" => Willing(worker[v].run)'
      BY <1>1, <2>1, <2>2 DEF Consented
    <2>4. \A s \in Runs : executed[s] # {} => Willing(s)'
      BY <1>1, <2>1 DEF Consented
    <2>5. \A s \in Runs : control'[s] # NoControl =>
             /\ control'[s].auto => Willing(s)'
             /\ \A i \in 1..Len(control'[s].commands) : control'[s].commands[i] \in Agreements => s \in consent
      BY <1>1, <1>3, <2>1 DEF Consented
    <2> QED
      BY <1>1, <2>3, <2>4, <2>5 DEF Consented, watched
  <1> QED
    BY <1>7, <1>10, <1>11, <1>12, <1>13 DEF Located


----------------------------------------------------------------------------
(* Steps of create_run.                                                    *)

(* What a thread that creates a run may do to the workers: nothing, or,    *)
(* for the worker of a parent, a step of its own.                          *)
WorkersStay ==
    /\ \A v \in Workers : worker'[v].run = worker[v].run
    /\ \A v \in Workers : (worker'[v].pc \in Away <=> worker[v].pc \in Away)
    /\ \A v \in Workers : Late(worker[v]) => Late(worker'[v])
    /\ \A v \in Workers : worker'[v].pc = "execute" => worker[v].run \in Runs /\ Willing(worker[v].run)

LEMMA SameWorkersStay ==
    ASSUME Located, CoordinatorInv, UNCHANGED worker
    PROVE  WorkersStay
  BY Named DEF Located, Consented, WorkersStay, Away

LEMMA WalkingWorkersStay ==
    ASSUME Located, CoordinatorInv, NEW w \in Workers, Walks(w)
    PROVE  WorkersStay
  <1>1. /\ \A v \in Workers : worker'[v].run = worker[v].run
        /\ \A v \in Workers \ {w} : worker'[v] = worker[v]
        /\ \A v \in Workers : (worker'[v].pc \in Away <=> worker[v].pc \in Away)
        /\ \A v \in Workers : Late(worker[v]) => Late(worker'[v])
    BY WalksKeeps
  <1>2. \A v \in Workers : worker'[v].pc = "execute" => worker[v].run \in Runs
    BY <1>1, Named DEF Away
  <1>3. \A v \in Workers : worker'[v].pc = "execute" => Willing(worker[v].run)
    BY <1>1 DEF Located, Consented, Walks
  <1> QED
    BY <1>1, <1>2, <1>3 DEF WorkersStay

(* The part of the invariant about who may execute, when no mode changes.  *)
LEMMA ConsentedStays ==
    ASSUME Located, WorkersStay, SessionsKeep, UNCHANGED << steering, executed, watched >>,
           \A r \in Runs : control'[r] # NoControl => control'[r] = control[r] \/ Agreed(control'[r], r)
    PROVE  Consented'
  <1>1. \A s \in Runs : Willing(s) => Willing(s)'
    BY WillingStays
  <1>2. \A v \in Workers : worker'[v].pc = "execute" => Willing(worker[v].run)'
    BY <1>1 DEF WorkersStay, Willing
  <1>3. \A s \in Runs : executed[s] # {} => Willing(s)'
    BY <1>1 DEF Located, Consented
  <1>4. \A s \in Runs : control'[s] # NoControl =>
           /\ control'[s].auto => Willing(s)'
           /\ \A i \in 1..Len(control'[s].commands) : control'[s].commands[i] \in Agreements => s \in consent
    BY <1>1 DEF Located, Consented, Agreed
  <1> QED
    BY <1>2, <1>3, <1>4 DEF Located, Consented, watched, SessionsKeep

(* A creation leaves a place, or goes on in it.                            *)
LEMMA CreationMoves ==
    ASSUME Located, CoordinatorInv, WorkersStay, NEW t \in Threads, NEW c, creator' = [creator EXCEPT ![t] = c],
           creator[t].pc # "none", c.pc # "none" => c.run = creator[t].run,
           UNCHANGED << queue, executed, watched >>, t \in Workers /\ c.pc # "none" => worker'[t].pc = "spawn",
           \A v \in Workers \ {t} : worker'[v] = worker[v], SessionsKeep,
           \A r \in Runs : r \in admitted' => r \in admitted \/ r = creator[t].run,
           \A r \in Runs : r # creator[t].run => control'[r] = control[r]
    PROVE  Places' /\ Lifecycles'
  <1>1. creator \in [Threads -> Creations] /\ (\A u \in Threads \ {t} : creator'[u] = creator[u]) /\ creator'[t] = c
    BY DEF CoordinatorInv, ThreadTypes
  <1>2. \A u \in Threads, r \in Runs : Creates(u, r)' => Creates(u, r)
    BY <1>1 DEF Creates
  <1>3. PICK r \in Runs : r = creator[t].run
    BY DEF CoordinatorInv, ThreadTypes, CreationsName
  <1>4. InQueue(queue)' = InQueue(queue) /\ NoTwice(queue)' = NoTwice(queue)
    BY DEF InQueue, NoTwice
  <1>5. Places /\ Lifecycles /\ Creates(t, r)
    BY <1>3 DEF Located, Creates
  <1>6. Places'
    <2> HIDE DEF Creates, InQueue, NoTwice
    <2>1. \A v \in Workers : creator'[v].pc # "none" => worker'[v].pc = "spawn"
      BY <1>1, <1>5 DEF Places, Threads
    <2> QED
      BY <1>2, <1>4, <1>5, <2>1 DEF Places, WorkersStay
  <1>7. \A s \in Runs : Unknown(s) => Unknown(s)'
    BY <1>2, <1>3, <1>4, <1>5 DEF Unknown, WorkersStay, watched
  <1>8. \A s \in Runs : Executed(s) => Executed(s)'
    <2>1. \A v \in Workers : Late(worker[v]) => Late(worker[v])'
      BY DEF Late, WorkersStay
    <2> HIDE DEF Late
    <2> QED
      BY <1>2, <1>3, <1>4, <1>5, <2>1 DEF Executed, WorkersStay
  <1>9. Lifecycles'
    BY <1>5, <1>7, <1>8 DEF Lifecycles, SessionsKeep
  <1> QED
    BY <1>6, <1>9


LEMMA CheckedKeeps ==
    ASSUME Located, CoordinatorInv, NEW t \in Threads, Checked(t)
    PROVE  Located'
  <1>1. /\ Tables /\ Places /\ Registered /\ Lifecycles /\ Consented /\ SessionsKeep
        /\ creator[t].pc = "admit" /\ WorkersStay
        /\ UNCHANGED << control, admitted, locks, queue, worker, steering, executed, watched >>
    BY SameWorkersStay DEF Located, Checked
  <1>2. PICK r \in Runs : r = creator[t].run
    BY <1>1, Named
  <1>3. PICK locked \in BOOLEAN : input' = [input EXCEPT ![r].locked = locked]
    BY <1>2 DEF Checked
  <1>4. PICK c : /\ creator' = [creator EXCEPT ![t] = c]
                 /\ c.pc \in {"none", "register"} /\ (c.pc # "none" => c.run = r)
    BY <1>2 DEF Checked, NoCreation
  <1>5. creator \in [Threads -> Creations] /\ creator'[t] = c /\ \A u \in Threads \ {t} : creator'[u] = creator[u]
    BY <1>4 DEF CoordinatorInv, ThreadTypes
  <1>6. Tables'
    <2>1. input' \in [Runs -> Inputs] /\ \A s \in Runs : input'[s].target = input[s].target
      BY <1>1, <1>3 DEF Tables, Inputs
    <2> QED
      BY <1>1, <2>1 DEF Tables, SessionsKeep
  <1>7. \A w \in Workers : creator[w].pc # "none" => worker[w].pc = "spawn"
    BY <1>1 DEF Places
  <1>8. Places' /\ Lifecycles'
    BY <1>1, <1>2, <1>4, <1>7, CreationMoves
  <1>9. Registered'
    BY <1>1, <1>2, <1>4, <1>5 DEF Registered, Registering, watched
  <1>10. Consented'
    BY <1>1, ConsentedStays
  <1> QED
    BY <1>6, <1>8, <1>9, <1>10 DEF Located

LEMMA EnrolledKeeps ==
    ASSUME Located, CoordinatorInv, NEW t \in Threads, Enrolled(t)
    PROVE  Located'
  <1>1. /\ Tables /\ Places /\ Registered /\ Lifecycles /\ Consented
        /\ creator[t].pc = "register" /\ WorkersStay /\ SessionsKeep
        /\ UNCHANGED << session, input, queue, worker, steering, executed, watched >>
    BY SameWorkersStay, SameSessionsKeep DEF Located, Enrolled
  <1>2. PICK r \in Runs : r = creator[t].run
    BY <1>1, Named
  <1>3. PICK c \in Controls : /\ c.auto = session[r].auto /\ c.commands = << >>
                              /\ control' = [control EXCEPT ![r] = c]
    BY <1>2 DEF Enrolled
  <1>4. /\ creator' = [creator EXCEPT ![t] = [pc |-> "enqueue", run |-> r]] /\ admitted' = admitted \cup {r}
        /\ locks' = IF input[r].locked THEN [locks EXCEPT ![input[r].target] = r] ELSE locks
    BY <1>2 DEF Enrolled
  <1>5. /\ creator \in [Threads -> Creations] /\ creator'[t] = [pc |-> "enqueue", run |-> r]
        /\ \A u \in Threads \ {t} : creator'[u] = creator[u]
        /\ control'[r] = c /\ c # NoControl /\ \A s \in Runs \ {r} : control'[s] = control[s]
    BY <1>1, <1>3, <1>4, ControlAssumption DEF CoordinatorInv, ThreadTypes, Tables
  <1>6. Tables'
    BY <1>1, <1>3, <1>4 DEF Tables
  <1>7. \A w \in Workers : creator[w].pc # "none" => worker[w].pc = "spawn"
    BY <1>1 DEF Places
  <1> DEFINE d == [pc |-> "enqueue", run |-> r]
  <1>8. d.pc # "none" /\ d.run = r
    OBVIOUS
  <1> HIDE DEF d
  <1>9. Places' /\ Lifecycles'
    BY <1>1, <1>2, <1>4, <1>5, <1>7, <1>8, CreationMoves DEF d
  <1>10. Registered'
    <2>1. \A u \in Threads \ {t} : creator[u].pc # "none" => creator[u].run # r
      BY <1>1, <1>2 DEF Places, Creates
    <2>2. /\ \A u \in Threads : creator[u].pc # "none" => creator[u].run \in Runs
          /\ \A q \in InQueue(queue) : q \in Runs
          /\ \A w \in Workers : worker[w].run # NoRun => worker[w].run \in Runs
      BY Named
    <2> QED
      BY <1>1, <1>4, <1>5, <2>1, <2>2 DEF Registered, Registering, watched
  <1>11. Consented'
    <2>1. session[r].auto => Willing(r)
      BY <1>1, <1>2 DEF Registered, Willing
    <2>2. Len(c.commands) = 0
      BY <1>3, EmptySeq
    <2>3. Agreed(c, r)
      BY <1>3, <2>1, <2>2 DEF Agreed
    <2> QED
      BY <1>1, <1>5, <2>3, ConsentedStays
  <1> QED
    BY <1>6, <1>9, <1>10, <1>11 DEF Located

LEMMA OverflowedKeeps ==
    ASSUME Located, CoordinatorInv, NEW t \in Threads, Overflowed(t)
    PROVE  Located'
  <1>1. /\ Tables /\ Places /\ Registered /\ Lifecycles /\ Consented
        /\ creator[t].pc \in Registering /\ WorkersStay /\ SessionsKeep
        /\ UNCHANGED << input, control, queue, worker, steering, executed, watched >>
    BY SameWorkersStay DEF Located, Overflowed, Registering
  <1>2. PICK r \in Runs : r = creator[t].run
    BY <1>1, Named DEF Registering
  <1>3. admitted' \subseteq admitted /\ locks' \in [Targets -> Runs \cup {NoRun}]
    BY <1>1, <1>2 DEF Overflowed, ReleaseRunAdmission, Tables
  <1>4. PICK step \in Registering : creator' = [creator EXCEPT ![t] = [pc |-> step, run |-> r]]
    BY <1>2 DEF Overflowed, Registering
  <1> DEFINE c == [pc |-> step, run |-> r]
  <1>5. c.pc \in Registering /\ c.pc # "none" /\ c.run = r /\ creator' = [creator EXCEPT ![t] = c]
    BY <1>4 DEF Registering
  <1> HIDE DEF c
  <1>6. /\ creator \in [Threads -> Creations] /\ creator'[t] = c
        /\ \A u \in Threads \ {t} : creator'[u] = creator[u]
    BY <1>5 DEF CoordinatorInv, ThreadTypes
  <1>7. Tables'
    BY <1>1, <1>3 DEF Tables, SessionsKeep
  <1>8. creator[t].pc # "none" /\ \A w \in Workers : creator[w].pc # "none" => worker[w].pc = "spawn"
    BY <1>1 DEF Places, Registering
  <1>9. Places' /\ Lifecycles'
    BY <1>1, <1>2, <1>3, <1>5, <1>8, CreationMoves
  <1>10. Registered'
    BY <1>1, <1>2, <1>3, <1>5, <1>6 DEF Registered, Registering, watched
  <1>11. Consented'
    BY <1>1, ConsentedStays
  <1> QED
    BY <1>7, <1>9, <1>10, <1>11 DEF Located

LEMMA ClosedKeeps ==
    ASSUME Located, CoordinatorInv, NEW t \in Threads, Closed(t)
    PROVE  Located'
  <1>1. /\ Tables /\ Places /\ Registered /\ Lifecycles /\ Consented
        /\ creator[t].pc = "close" /\ WorkersStay /\ SessionsKeep
        /\ creator' = [creator EXCEPT ![t] = NoCreation]
        /\ UNCHANGED << session, input, queue, worker, steering, executed, watched >>
    BY SameWorkersStay, SameSessionsKeep DEF Located, Closed
  <1>2. PICK r \in Runs : r = creator[t].run
    BY <1>1, Named
  <1>3. /\ control' \in [Runs -> Controls \cup {NoControl}]
        /\ admitted' \subseteq admitted
        /\ locks' \in [Targets -> Runs \cup {NoRun}]
        /\ control'[r] = NoControl /\ \A s \in Runs \ {r} : control'[s] = control[s]
    BY <1>1, <1>2, FinalizeKeeps DEF Closed
  <1>4. /\ creator \in [Threads -> Creations] /\ creator'[t].pc = "none" /\ NoCreation.pc = "none"
        /\ \A u \in Threads \ {t} : creator'[u] = creator[u]
    BY <1>1 DEF CoordinatorInv, ThreadTypes, NoCreation
  <1>5. Tables'
    BY <1>1, <1>3 DEF Tables, SessionsKeep
  <1>6. Places' /\ Lifecycles'
    BY <1>1, <1>2, <1>3, <1>4, CreationMoves
  <1>7. Registered'
    <2>1. /\ \A u \in Threads \ {t} : creator[u].pc # "none" => creator[u].run # r
          /\ r \notin InQueue(queue) /\ \A w \in Workers : worker[w].run # r
      BY <1>1, <1>2 DEF Places, Creates
    <2>2. /\ \A u \in Threads : creator[u].pc # "none" => creator[u].run \in Runs
          /\ \A q \in InQueue(queue) : q \in Runs
          /\ \A w \in Workers : worker[w].run # NoRun => worker[w].run \in Runs
      BY Named
    <2> QED
      BY <1>1, <1>3, <1>4, <2>1, <2>2 DEF Registered, Registering, watched
  <1>8. Consented'
    BY <1>1, <1>3, ConsentedStays
  <1> QED
    BY <1>5, <1>6, <1>7, <1>8 DEF Located

LEMMA RaisedKeeps ==
    ASSUME Located, CoordinatorInv, NEW t \in Threads, Raised(t)
    PROVE  Located'
  <1>1. /\ Tables /\ Places /\ Registered /\ Lifecycles /\ Consented
        /\ creator[t].pc # "none" /\ SessionsKeep
        /\ creator' = [creator EXCEPT ![t] = NoCreation]
        /\ IF t \in Workers THEN Walks(t) ELSE UNCHANGED worker
        /\ UNCHANGED << input, control, admitted, locks, queue, steering, executed, watched >>
    BY DEF Located, Raised
  <1>2. WorkersStay
    BY <1>1, SameWorkersStay, WalkingWorkersStay
  <1>3. \A v \in Workers \ {t} : worker'[v] = worker[v]
    BY <1>1, WalksKeeps
  <1>4. /\ creator \in [Threads -> Creations] /\ creator'[t].pc = "none" /\ NoCreation.pc = "none"
        /\ \A u \in Threads \ {t} : creator'[u] = creator[u]
    BY <1>1 DEF CoordinatorInv, ThreadTypes, NoCreation
  <1>5. Tables'
    BY <1>1 DEF Tables, SessionsKeep
  <1>6. Places' /\ Lifecycles'
    BY <1>1, <1>2, <1>3, <1>4, CreationMoves
  <1>7. Registered'
    BY <1>1, <1>2, <1>4 DEF Registered, Registering, WorkersStay, watched
  <1>8. Consented'
    BY <1>1, <1>2, ConsentedStays
  <1> QED
    BY <1>5, <1>6, <1>7, <1>8 DEF Located

LEMMA EnqueuedKeeps ==
    ASSUME Located, CoordinatorInv, NEW t \in Threads, Enqueued(t)
    PROVE  Located'
  <1>1. /\ Tables /\ Places /\ Registered /\ Lifecycles /\ Consented
        /\ creator[t].pc = "enqueue" /\ WorkersStay /\ SessionsKeep
        /\ creator' = [creator EXCEPT ![t] = NoCreation] /\ Len(queue) < QueueSize
        /\ UNCHANGED << session, input, control, admitted, locks, worker, steering, executed, watched >>
    BY SameWorkersStay, SameSessionsKeep DEF Located, Enqueued
  <1>2. PICK r \in Runs : r = creator[t].run
    BY <1>1, Named
  <1>3. /\ Creates(t, r) /\ r \notin InQueue(queue)
        /\ (\A u \in Threads \ {t} : ~Creates(u, r)) /\ \A w \in Workers : worker[w].run # r
    BY <1>1, <1>2 DEF Places, Creates
  <1>4. InQueue(queue)' = InQueue(queue) \cup {r} /\ NoTwice(queue)' /\ Len(queue') <= QueueSize
    <2>1. queue \in Seq(Runs) /\ queue' = Append(queue, r) /\ Len(queue) \in Nat /\ QueueSize \in Nat
      BY <1>2, LenProperties, CoordinatorAssumption DEF Enqueued, CoordinatorInv, ThreadTypes
    <2>2. /\ InQueue(Append(queue, r)) = InQueue(queue) \cup {r} /\ NoTwice(Append(queue, r))
          /\ Len(Append(queue, r)) = Len(queue) + 1
      BY <1>1, <1>3, <2>1, QueueGrows DEF Places
    <2>3. Len(queue') <= QueueSize
      BY <1>1, <2>1, <2>2
    <2> QED
      BY <2>1, <2>2, <2>3 DEF InQueue, NoTwice
  <1>5. /\ creator \in [Threads -> Creations] /\ creator'[t].pc = "none"
        /\ \A u \in Threads \ {t} : creator'[u] = creator[u]
    BY <1>1 DEF CoordinatorInv, ThreadTypes, NoCreation
  <1>6. \A u \in Threads, s \in Runs : Creates(u, s)' => u # t /\ Creates(u, s) /\ s # r
    BY <1>3, <1>5 DEF Creates
  <1>7. Tables'
    BY <1>1, <1>4 DEF Tables
  <1> HIDE DEF InQueue, Creates, NoTwice
  <1>8. Places'
    <2>1. \A w \in Workers : creator'[w].pc # "none" => worker'[w].pc = "spawn"
      BY <1>1, <1>5 DEF Places, Threads
    <2> QED
      BY <1>1, <1>3, <1>4, <1>6, <2>1 DEF Places
  <1>9. Registered'
    BY <1>1, <1>2, <1>4, <1>5 DEF Registered, Registering, watched
  <1>10. Lifecycles'
    <2>1. \A s \in Runs : Unknown(s) => Unknown(s)'
      BY <1>1, <1>3, <1>4, <1>6 DEF Unknown, watched
    <2>2. \A s \in Runs : Executed(s) => Executed(s)'
      <3>1. \A v \in Workers : Late(worker[v]) => Late(worker[v])'
        BY <1>1 DEF Late
      <3> HIDE DEF Late
      <3> QED
        BY <1>1, <1>3, <1>4, <1>6, <3>1 DEF Executed
    <2> QED
      BY <1>1, <2>1, <2>2 DEF Lifecycles
  <1>11. Consented'
    BY <1>1, ConsentedStays
  <1> QED
    BY <1>7, <1>8, <1>9, <1>10, <1>11 DEF Located

LEMMA BegunKeeps ==
    ASSUME Located, CoordinatorInv, NEW t \in Threads, NEW r \in Runs, Begun(t, r)
    PROVE  Located'
  <1>1. /\ Tables /\ Places /\ Registered /\ Lifecycles /\ Consented
        /\ session[r].stage = "none" /\ session'[r].stage # "none" /\ session' \in [Runs -> Sessions]
        /\ \A s \in Runs \ {r} : session'[s] = session[s]
        /\ creator[t].pc = "none" /\ creator' = [creator EXCEPT ![t] = [pc |-> "admit", run |-> r]]
        /\ UNCHANGED << control, admitted, locks, queue, steering, executed, watched >>
    BY DEF Located, Begun
  <1>2. WorkersStay /\ (\A v \in Workers \ {t} : worker'[v] = worker[v]) /\ (t \in Workers => worker'[t].pc = "spawn")
    BY SameWorkersStay, WalkingWorkersStay, WalksKeeps, CoordinatorAssumption DEF Begun
  <1>3. Unknown(r)
    BY <1>1 DEF Lifecycles
  <1>4. /\ creator \in [Threads -> Creations] /\ creator'[t].pc = "admit" /\ creator'[t].run = r
        /\ \A u \in Threads \ {t} : creator'[u] = creator[u]
    BY <1>1 DEF CoordinatorInv, ThreadTypes
  <1>5. \A u \in Threads, s \in Runs : Creates(u, s)' <=> (u # t /\ Creates(u, s)) \/ (u = t /\ s = r)
    BY <1>4 DEF Creates
  <1>6. Tables'
    <2>1. input' \in [Runs -> Inputs] /\ input'[r].target \in Targets /\ \A s \in Runs \ {r} : input'[s] = input[s]
      BY <1>1 DEF Begun, Tables
    <2> QED
      BY <1>1, <2>1 DEF Tables
  <1>7. InQueue(queue)' = InQueue(queue) /\ NoTwice(queue)' = NoTwice(queue)
    BY <1>1 DEF InQueue, NoTwice
  <1> HIDE DEF InQueue, Creates, NoTwice
  <1>8. Places'
    <2>1. \A w \in Workers : creator'[w].pc # "none" => worker'[w].pc = "spawn"
      BY <1>1, <1>2, <1>4 DEF Places, Threads
    <2>2. \A u, v \in Threads, s \in Runs : Creates(u, s)' /\ Creates(v, s)' => u = v
      BY <1>1, <1>3, <1>5 DEF Places, Unknown
    <2>3. \A u \in Threads, s \in Runs :
             Creates(u, s)' => s \notin InQueue(queue)' /\ \A w \in Workers : worker'[w].run # s
      BY <1>1, <1>2, <1>3, <1>5, <1>7 DEF Places, Unknown, WorkersStay
    <2> QED
      BY <1>1, <1>2, <1>7, <2>1, <2>2, <2>3 DEF Places, WorkersStay
  <1>9. Registered'
    BY <1>1, <1>2, <1>3, <1>4, <1>7 DEF Registered, Registering, Unknown, WorkersStay, watched
  <1>10. Lifecycles'
    <2>1. \A s \in Runs \ {r} : Unknown(s) => Unknown(s)'
      BY <1>1, <1>2, <1>5, <1>7 DEF Unknown, WorkersStay, watched
    <2>2. \A s \in Runs \ {r} : Executed(s) => Executed(s)'
      <3>1. \A v \in Workers : Late(worker[v]) => Late(worker[v])'
        BY <1>2 DEF Late, WorkersStay
      <3> HIDE DEF Late
      <3> QED
        BY <1>1, <1>2, <1>5, <1>7, <3>1 DEF Executed, WorkersStay
    <2> QED
      BY <1>1, <1>3, <2>1, <2>2 DEF Lifecycles, Unknown
  <1>11. Consented'
    <2>1. \A s \in Runs \ {r} : Willing(s) => Willing(s)'
      BY <1>1 DEF Willing, watched
    <2>2. \A v \in Workers : worker'[v].pc = "execute" => Willing(worker[v].run)'
      BY <1>2, <1>3, <2>1 DEF WorkersStay, Willing, Unknown
    <2>3. \A s \in Runs : executed[s] # {} => Willing(s)'
      BY <1>1, <1>3, <2>1 DEF Consented, Unknown
    <2>4. \A s \in Runs : control[s] # NoControl =>
             /\ control[s].auto => Willing(s)'
             /\ \A i \in 1..Len(control[s].commands) : control[s].commands[i] \in Agreements => s \in consent
      BY <1>1, <1>3, <2>1 DEF Consented, Unknown
    <2> QED
      BY <1>1, <2>2, <2>3, <2>4 DEF Consented, watched
  <1> QED
    BY <1>6, <1>8, <1>9, <1>10, <1>11 DEF Located


----------------------------------------------------------------------------
(* The invariant.                                                          *)

LEMMA LifecycleInit == Init => LifecycleInv
  <1> SUFFICES ASSUME Init PROVE LifecycleInv
    OBVIOUS
  <1>1. /\ \A r \in Runs : session[r] = NewSession /\ control[r] = NoControl /\ executed[r] = {}
        /\ \A t \in Threads : creator[t].pc = "none"
        /\ \A w \in Workers : worker[w].pc = "idle" /\ worker[w].run = NoRun
        /\ \A o \in Operators : steering[o].pc = "idle"
    BY DEF Init, NoCreation, IdleWorker, NoSteering
  <1>2. InQueue(queue) = {} /\ NoTwice(queue) /\ Len(queue) = 0
    BY DEF Init, InQueue, NoTwice
  <1>3. Flags
    BY CoordinatorAssumption DEF Init, Flags
  <1>4. NewSession \in Sessions /\ NewSession.stage = "none"
    BY DEF NewSession, Sessions, Stages
  <1>5. Tables
    <2>1. NoInput \in Inputs
      BY DEF NoInput, Inputs
    <2>2. NoSteering \in Steerings
      BY <1>4 DEF NoSteering, Steerings, SteeringCommands
    <2>3. Len(queue) <= QueueSize
      BY <1>2, CoordinatorAssumption
    <2> QED
      BY <1>1, <1>4, <2>1, <2>2, <2>3 DEF Init, Tables
  <1>6. Places
    BY <1>1, <1>2, CoordinatorAssumption DEF Places, Creates, Away, Threads
  <1>7. Registered
    BY <1>1, <1>2 DEF Registered, Registering
  <1>8. Lifecycles
    BY <1>1, <1>2, CoordinatorAssumption DEF Init, Lifecycles, Unknown, Creates
  <1>9. Consented
    BY <1>1 DEF Consented
  <1> QED
    BY <1>3, <1>5, <1>6, <1>7, <1>8, <1>9 DEF LifecycleInv, Located

LEMMA LifecycleStep == LifecycleInv /\ CoordinatorInv /\ [Next]_vars => LifecycleInv'
  <1> SUFFICES ASSUME LifecycleInv, CoordinatorInv, [Next]_vars PROVE LifecycleInv'
    OBVIOUS
  <1>1. Effect /\ Flags' /\ Located
    BY NextTells, FlagsStep DEF LifecycleInv
  <1>2. ASSUME NEW t \in Threads, ThreadEffect(t) PROVE Located'
    BY <1>1, <1>2, BegunKeeps, CheckedKeeps, EnrolledKeeps, EnqueuedKeeps, OverflowedKeeps, ClosedKeeps, RaisedKeeps
       DEF ThreadEffect
  <1>3. ASSUME NEW w \in Workers, WorkerEffect(w) PROVE Located'
    BY <1>1, <1>3, TakenKeeps, WalkedKeeps, BeganKeeps, EndedKeeps, LeftKeeps DEF WorkerEffect
  <1>4. Located'
    BY <1>1, <1>2, <1>3, AttendedKeeps, CancelledKeeps, AppendedKeeps, GatingKeeps, AsideKeeps DEF Effect
  <1> QED
    BY <1>1, <1>4 DEF LifecycleInv

LEMMA LifecycleAlways == Spec => [](LifecycleInv /\ CoordinatorInv)
  BY LifecycleInit, LifecycleStep, CoordinatorInit, CoordinatorStep, PTL DEF Spec

(* The tables of the coordinator, the stored sessions and the locals of    *)
(* every thread keep their types, and the run queue never exceeds          *)
(* run_queue_size, however creations, workers, operators and faults mix.   *)
THEOREM RunsTypeCorrect == Spec => []TypeOK
  <1>1. LifecycleInv /\ CoordinatorInv => TypeOK
    BY DEF LifecycleInv, Located, Flags, Tables, CoordinatorInv, ThreadTypes, TypeOK
  <1> QED
    BY <1>1, LifecycleAlways, PTL

(* A run created in approval-gate mode, or gated by the kill switch before *)
(* it passed its gate, executes only after an operator agreed: no control, *)
(* command queue or recovery run carries a consent nobody gave             *)
(* (_wait_if_needed, apply_kill_switch).                                   *)
THEOREM RunsConsentBeforeExecution == Spec => []ConsentBeforeExecution
  <1>1. LifecycleInv => ConsentBeforeExecution
    BY DEF LifecycleInv, Located, Consented, Willing, ConsentBeforeExecution
  <1> QED
    BY <1>1, LifecycleAlways, PTL

(* What a step leaves of a worker that keeps its run.                      *)
LEMMA LateKeepsDecision ==
    ASSUME LifecycleInv, CoordinatorInv, [Next]_vars, NEW w \in Workers, worker[w].run # NoRun,
           worker'[w].run = worker[w].run, Late(worker[w])
    PROVE  worker'[w].decision = worker[w].decision
  <1>1. Effect /\ worker \in [Workers -> Locals] /\ worker[w].run \in Runs /\ worker[w].pc \notin Away
    BY NextTells, Named DEF LifecycleInv, CoordinatorInv, ThreadTypes
  <1>2. CASE UNCHANGED worker
    BY <1>2
  <1>3. ASSUME NEW v \in Workers, Walks(v) PROVE worker'[w].decision = worker[w].decision
    <2>1. \A u \in Workers \ {v} : worker'[u] = worker[u]
      BY <1>3, WalksKeeps
    <2> QED
      BY <1>3, <2>1 DEF Walks
  <1>4. ASSUME NEW t \in Threads, ThreadEffect(t) PROVE worker'[w].decision = worker[w].decision
    BY <1>2, <1>3, <1>4 DEF ThreadEffect, Begun, Checked, Enrolled, Enqueued, Overflowed, Closed, Raised
  <1>5. ASSUME NEW v \in Workers, WorkerEffect(v) PROVE worker'[w].decision = worker[w].decision
    <2>1. CASE Walked(v) \/ Began(v)
      BY <1>3, <2>1 DEF Walked, Began
    <2>2. CASE Taken(v)
      <3>1. v # w /\ worker' = [worker EXCEPT ![v] = worker'[v]]
        BY <1>1, <2>2 DEF Taken, Away
      <3> QED
        BY <1>1, <3>1
    <2>3. CASE Left(v)
      <3>1. v # w /\ worker' = [worker EXCEPT ![v] = [worker[v] EXCEPT !.pc = "off"]]
        BY <1>1, <2>3 DEF Left, Away
      <3> QED
        BY <1>1, <3>1
    <2>4. CASE Ended(v)
      <3>1. v # w
        BY <1>1, <2>4 DEF Ended, IdleWorker
      <3> QED
        BY <1>1, <2>4, <3>1 DEF Ended
    <2> QED
      BY <1>5, <2>1, <2>2, <2>3, <2>4 DEF WorkerEffect
  <1> QED
    BY <1>1, <1>2, <1>4, <1>5 DEF Effect, Attended, Cancelled, Appended, Gating, Aside

(* Once a run began to execute, its worker keeps the decision it executed  *)
(* and never executes again, although overrides that were valid when they  *)
(* were sent may reach it later.                                           *)
THEOREM RunsLateOverridesRejected == Spec => LateOverridesRejected
  <1>1. LifecycleInv /\ CoordinatorInv /\ [Next]_vars =>
          [\A w \in Workers :
              Run(w) # NoRun /\ worker'[w].run = Run(w) /\ executed[Run(w)] # {} =>
                 /\ worker'[w].decision = worker[w].decision
                 /\ ~(At(w, "execute") /\ worker'[w].pc = "executing")]_vars
    <2> SUFFICES ASSUME LifecycleInv, CoordinatorInv, [Next]_vars, NEW w \in Workers,
                        worker[w].run # NoRun, worker'[w].run = worker[w].run, executed[worker[w].run] # {}
                 PROVE  /\ worker'[w].decision = worker[w].decision
                        /\ ~(worker[w].pc = "execute" /\ worker'[w].pc = "executing")
      BY DEF Run, At
    <2>1. worker[w].run \in Runs
      BY Named DEF LifecycleInv
    <2>2. Late(worker[w])
      BY <2>1 DEF LifecycleInv, Located, Lifecycles, Executed
    <2>3. worker[w].pc # "execute"
      BY <2>2 DEF Late
    <2> QED
      BY <2>2, <2>3, LateKeepsDecision
  <1> QED
    BY <1>1, LifecycleAlways, PTL DEF Spec, LateOverridesRejected


----------------------------------------------------------------------------
(* What admission keeps.                                                   *)

(* InProgress, in the terms of this module.                                *)
Underway(r) ==
    \/ \E t \in Threads : creator[t].pc \in Registering /\ creator[t].run = r
    \/ r \in InQueue(queue)
    \/ \E w \in Workers : worker[w].run = r

Admissions ==
    /\ \A r \in Runs \ abandoned : control[r] # NoControl \/ r \in admitted => Underway(r)
    /\ \A k \in Targets : locks[k] # NoRun => locks[k] \in admitted /\ input[locks[k]].target = k

(* What create_run has left behind is not taken up again.                  *)
LEMMA AbandonedStay ==
    ASSUME [Next]_vars
    PROVE  abandoned \subseteq abandoned'
  <1>1. CASE UNCHANGED abandoned
    BY <1>1
  <1>2. CASE Requests
    BY <1>1, <1>2 DEF Requests, CreateRun, BeginCreate, Steer, observed
  <1>3. CASE Faults
    BY <1>1, <1>3 DEF Faults, CreateRaises, RunRaises, FailureIsLost, observed
  <1>4. CASE KillSwitch \/ GateControls \/ StopWorkers
    BY <1>1, <1>4 DEF KillSwitch, GateControls, StopWorkers, observed
  <1>5. ASSUME NEW t \in Threads, CreatorStep(t) PROVE UNCHANGED abandoned
    BY <1>5 DEF CreatorStep, AdmitRun, RegisterRun, EnqueueRun, FailOverflow, CloseOverflow, observed
  <1>6. ASSUME NEW w \in Workers, WorkerStep(w) PROVE UNCHANGED abandoned
    <2>1. CASE TakeRun(w) \/ LeavePool(w) \/ Detect(w) \/ Investigate(w) \/ Decide(w) \/ Evaluate(w)
      BY <2>1 DEF TakeRun, LeavePool, Detect, Investigate, Decide, Evaluate, observed
    <2>2. CASE (\E child \in Runs : LaunchRecovery(w, child)) \/ RecoveryRefused(w) \/ RecoverySpawned(w) \/ SkipRecovery(w)
      BY <2>2 DEF LaunchRecovery, BeginCreate, RecoveryRefused, RecoverySpawned, SkipRecovery, observed
    <2>3. CASE Gate(w) \/ FallAsleep(w) \/ WakeUp(w)
      BY <2>3 DEF Gate, FallAsleep, WakeUp, observed
    <2>4. CASE TakeApproval(w) \/ TakeCancel(w) \/ TakeAutoMode(w) \/ TakePausePoint(w) \/ TakeOther(w) \/ TakeOverride(w)
      BY <2>4 DEF TakeApproval, TakeCancel, TakeAutoMode, TakePausePoint, TakeOther, TakeOverride, Takes, observed
    <2>5. CASE BeginExecution(w) \/ EndExecution(w) \/ Complete(w) \/ RecordTail(w) \/ Finalize(w)
      BY <2>5 DEF BeginExecution, EndExecution, Complete, RecordTail, Finalize, observed
    <2> QED
      BY <1>6, <2>1, <2>2, <2>3, <2>4, <2>5 DEF WorkerStep
  <1>7. ASSUME NEW o \in Operators, OperatorStep(o) PROVE UNCHANGED abandoned
    BY <1>7 DEF OperatorStep, AttachNote, RunIsGone, ReleaseForCancel, Deliver, SaveRecord, AppendCommand, observed
  <1> QED
    BY <1>1, <1>2, <1>3, <1>4, <1>5, <1>6, <1>7 DEF Next, vars, observed

(* What is given up with an admission.                                     *)
LEMMA ReleaseTells ==
    ASSUME Tables, Admissions, NEW r \in Runs, ReleaseRunAdmission(r)
    PROVE  /\ admitted' = admitted \ {r}
           /\ \A k \in Targets : locks'[k] # NoRun => locks'[k] = locks[k] /\ locks[k] # r
  BY DEF Tables, Admissions, ReleaseRunAdmission

(* A step that registers and releases nothing.                             *)
LEMMA AdmissionsStay ==
    ASSUME Tables, Admissions, UNCHANGED << admitted, locks >>,
           \A r \in Runs : control'[r] # NoControl => control[r] # NoControl,
           \A r \in admitted : input'[r].target = input[r].target, abandoned \subseteq abandoned',
           \A r \in Runs \ abandoned' : Underway(r) => Underway(r)'
    PROVE  Admissions'
  <1> HIDE DEF Underway
  <1> QED
    BY DEF Tables, Admissions

(* The end of a run.                                                       *)
LEMMA AdmissionsEnd ==
    ASSUME Tables, Admissions, NEW r \in Runs, FinalizeRun(r), UNCHANGED input,
           abandoned \subseteq abandoned',
           \A s \in Runs \ {r} : Underway(s) => Underway(s)'
    PROVE  Admissions'
  <1>1. /\ admitted' = admitted \ {r}
        /\ \A k \in Targets : locks'[k] # NoRun => locks'[k] = locks[k] /\ locks[k] # r
    BY ReleaseTells DEF FinalizeRun
  <1>2. control'[r] = NoControl /\ \A s \in Runs \ {r} : control'[s] = control[s]
    BY FinalizeKeeps
  <1> HIDE DEF Underway
  <1> QED
    BY <1>1, <1>2 DEF Admissions

LEMMA ThreadAdmissions ==
    ASSUME Located, CoordinatorInv, Admissions, abandoned \subseteq abandoned',
           NEW t \in Threads, ThreadEffect(t)
    PROVE  Admissions'
  <1>1. Tables /\ Places /\ Registered /\ Lifecycles /\ creator \in [Threads -> Creations]
    BY DEF Located, CoordinatorInv, ThreadTypes
  <1>2. ASSUME NEW r \in Runs, Begun(t, r) PROVE Admissions'
    <2>1. /\ creator[t].pc = "none" /\ creator' = [creator EXCEPT ![t] = [pc |-> "admit", run |-> r]]
          /\ UNCHANGED << control, admitted, locks, queue >> /\ Unknown(r)
      BY <1>1, <1>2 DEF Begun, Lifecycles
    <2>2. WorkersStay
      BY <1>2, SameWorkersStay, WalkingWorkersStay DEF Begun
    <2>3. \A u \in Threads : creator[u].pc \in Registering => creator'[u] = creator[u]
      BY <1>1, <2>1 DEF Registering
    <2>4. \A s \in Runs : Underway(s) => Underway(s)'
      BY <2>1, <2>2, <2>3 DEF Underway, WorkersStay, InQueue
    <2>5. \A s \in admitted : input'[s].target = input[s].target
      BY <1>1, <1>2, <2>1 DEF Begun, Unknown, Tables
    <2> QED
      BY <1>1, <2>1, <2>4, <2>5, AdmissionsStay
  <1>3. CASE Checked(t)
    <2>1. creator[t].pc = "admit" /\ creator[t].run \in Runs /\ UNCHANGED << control, admitted, locks, queue, worker >>
      BY <1>3, Named DEF Checked
    <2>2. PICK c : creator' = [creator EXCEPT ![t] = c]
      BY <1>3 DEF Checked
    <2>3. \A u \in Threads : creator[u].pc \in Registering => creator'[u] = creator[u]
      BY <1>1, <2>1, <2>2 DEF Registering
    <2>4. \A s \in Runs : Underway(s) => Underway(s)'
      BY <2>1, <2>3 DEF Underway, InQueue
    <2>5. \A s \in Runs : input'[s].target = input[s].target
      BY <1>1, <1>3, <2>1 DEF Checked, Tables, Inputs
    <2> QED
      BY <1>1, <2>1, <2>4, <2>5, AdmissionsStay DEF Tables
  <1>4. CASE Enrolled(t)
    <2>1. /\ creator[t].pc = "register" /\ UNCHANGED << input, queue, worker >>
      BY <1>4 DEF Enrolled
    <2>2. PICK r \in Runs : r = creator[t].run
      BY <2>1, Named
    <2>3. /\ creator' = [creator EXCEPT ![t] = [pc |-> "enqueue", run |-> r]] /\ admitted' = admitted \cup {r}
          /\ locks' = IF input[r].locked THEN [locks EXCEPT ![input[r].target] = r] ELSE locks
          /\ \A s \in Runs \ {r} : control'[s] = control[s]
      BY <1>1, <1>4, <2>2 DEF Enrolled, Tables
    <2>4. creator'[t].pc = "enqueue" /\ creator'[t].run = r /\ \A u \in Threads \ {t} : creator'[u] = creator[u]
      BY <1>1, <2>3
    <2>5. \A s \in Runs : Underway(s) \/ s = r => Underway(s)'
      BY <2>1, <2>4 DEF Underway, Registering, InQueue
    <2>6. ASSUME NEW k \in Targets, locks'[k] # NoRun
          PROVE  locks'[k] \in admitted' /\ input[locks'[k]].target = k
      <3>1. CASE locks'[k] = locks[k]
        BY <2>3, <2>6, <3>1 DEF Admissions
      <3>2. CASE locks'[k] # locks[k]
        <4>1. k = input[r].target /\ locks'[k] = r
          BY <1>1, <2>3, <3>2 DEF Tables
        <4> QED
          BY <2>3, <4>1
      <3> QED
        BY <3>1, <3>2
    <2> HIDE DEF Underway
    <2> QED
      BY <2>1, <2>3, <2>5, <2>6 DEF Admissions
  <1>5. CASE Enqueued(t)
    <2>1. creator[t].pc = "enqueue" /\ UNCHANGED << input, control, admitted, locks, worker >>
      BY <1>5 DEF Enqueued
    <2>2. PICK r \in Runs : r = creator[t].run
      BY <2>1, Named
    <2>3. InQueue(queue)' = InQueue(queue) \cup {r}
      <3>1. queue \in Seq(Runs) /\ queue' = Append(queue, r)
        BY <1>5, <2>2 DEF Enqueued, CoordinatorInv, ThreadTypes
      <3>2. InQueue(Append(queue, r)) = InQueue(queue) \cup {r}
        BY <3>1, QueueGrows
      <3> QED
        BY <3>1, <3>2 DEF InQueue
    <2>4. \A u \in Threads \ {t} : creator'[u] = creator[u]
      BY <1>1, <1>5 DEF Enqueued
    <2>5. \A s \in Runs : Underway(s) => Underway(s)'
      <3> HIDE DEF InQueue
      <3> QED
        BY <2>1, <2>2, <2>3, <2>4 DEF Underway, Registering
    <2> QED
      BY <1>1, <2>1, <2>5, AdmissionsStay DEF Tables
  <1>6. CASE Overflowed(t)
    <2>1. creator[t].pc \in Registering /\ UNCHANGED << input, control, queue, worker >>
      BY <1>6 DEF Overflowed, Registering
    <2>2. PICK r \in Runs : r = creator[t].run
      BY <2>1, Named DEF Registering
    <2>3. /\ creator'[t].pc \in Registering /\ creator'[t].run = r
          /\ \A u \in Threads \ {t} : creator'[u] = creator[u]
      BY <1>1, <1>6, <2>2 DEF Overflowed, Registering
    <2>4. \A s \in Runs : Underway(s) => Underway(s)'
      BY <2>1, <2>2, <2>3 DEF Underway, InQueue
    <2>5. CASE UNCHANGED << admitted, locks >>
      BY <1>1, <2>1, <2>4, <2>5, AdmissionsStay DEF Tables
    <2>6. CASE ReleaseRunAdmission(r)
      <3>1. /\ admitted' = admitted \ {r}
            /\ \A k \in Targets : locks'[k] # NoRun => locks'[k] = locks[k] /\ locks[k] # r
        BY <1>1, <2>6, ReleaseTells
      <3> HIDE DEF Underway
      <3> QED
        BY <2>1, <2>4, <3>1 DEF Admissions
    <2> QED
      BY <1>6, <2>2, <2>5, <2>6 DEF Overflowed
  <1>7. CASE Closed(t)
    <2>1. creator[t].pc = "close" /\ UNCHANGED << input, queue, worker >>
      BY <1>7 DEF Closed
    <2>2. PICK r \in Runs : r = creator[t].run
      BY <2>1, Named
    <2>3. FinalizeRun(r) /\ \A u \in Threads \ {t} : creator'[u] = creator[u]
      BY <1>1, <1>7, <2>2 DEF Closed
    <2>4. \A s \in Runs \ {r} : Underway(s) => Underway(s)'
      BY <2>1, <2>2, <2>3 DEF Underway, InQueue
    <2> QED
      BY <1>1, <2>1, <2>3, <2>4, AdmissionsEnd
  <1>8. CASE Raised(t)
    <2>1. /\ creator[t].run \in abandoned' /\ UNCHANGED << input, control, admitted, locks, queue >>
          /\ creator' = [creator EXCEPT ![t] = NoCreation]
      BY <1>8 DEF Raised
    <2>2. WorkersStay /\ \A u \in Threads \ {t} : creator'[u] = creator[u]
      BY <1>1, <1>8, <2>1, SameWorkersStay, WalkingWorkersStay DEF Raised
    <2>3. \A s \in Runs \ abandoned' : Underway(s) => Underway(s)'
      BY <2>1, <2>2 DEF Underway, WorkersStay, InQueue
    <2> QED
      BY <1>1, <2>1, <2>3, AdmissionsStay DEF Tables
  <1> QED
    BY <1>2, <1>3, <1>4, <1>5, <1>6, <1>7, <1>8 DEF ThreadEffect

LEMMA WorkerAdmissions ==
    ASSUME Located, CoordinatorInv, Admissions, abandoned \subseteq abandoned', NEW w \in Workers, WorkerEffect(w)
    PROVE  Admissions'
  <1>1. /\ Tables /\ Places /\ Registered /\ Lifecycles
        /\ worker \in [Workers -> Locals] /\ queue \in Seq(Runs)
    BY DEF Located, CoordinatorInv, ThreadTypes
  <1>2. CASE Walked(w) \/ Began(w)
    <2>1. /\ Walks(w) /\ UNCHANGED << input, admitted, locks, queue, creator >>
          /\ \A r \in Runs : control'[r] # NoControl => control[r] # NoControl
      BY <1>2 DEF Walked, Began, ControlsKeep
    <2>2. \A v \in Workers : worker'[v].run = worker[v].run
      BY <2>1, WalksKeeps
    <2>3. \A s \in Runs : Underway(s) => Underway(s)'
      BY <2>1, <2>2 DEF Underway, InQueue
    <2> QED
      BY <1>1, <2>1, <2>3, AdmissionsStay DEF Tables
  <1>3. CASE Left(w)
    <2>1. UNCHANGED << input, control, admitted, locks, queue, creator >>
      BY <1>3 DEF Left
    <2>2. \A v \in Workers : worker'[v].run = worker[v].run
      BY <1>1, <1>3 DEF Left, Locals
    <2>3. \A s \in Runs : Underway(s) => Underway(s)'
      BY <2>1, <2>2 DEF Underway, InQueue
    <2> QED
      BY <1>1, <2>1, <2>3, AdmissionsStay DEF Tables
  <1>4. CASE Taken(w)
    <2>1. /\ worker[w].pc = "idle" /\ queue # << >> /\ queue' = Tail(queue) /\ worker'[w].run = Head(queue)
          /\ UNCHANGED << input, control, admitted, locks, creator >>
      BY <1>4 DEF Taken
    <2>2. InQueue(queue) = InQueue(queue)' \cup {Head(queue)}
      <3>1. InQueue(queue) = InQueue(Tail(queue)) \cup {Head(queue)}
        BY <1>1, <2>1, QueueShrinks DEF Places
      <3> QED
        BY <2>1, <3>1 DEF InQueue
    <2>3. worker[w].run = NoRun /\ NoRun \notin Runs /\ \A v \in Workers \ {w} : worker'[v] = worker[v]
      BY <1>1, <1>4, CoordinatorAssumption DEF Taken, Places, Away
    <2>4. \A s \in Runs : Underway(s) => Underway(s)'
      <3> HIDE DEF InQueue
      <3> QED
        BY <2>1, <2>2, <2>3 DEF Underway
    <2> QED
      BY <1>1, <2>1, <2>4, AdmissionsStay DEF Tables
  <1>5. CASE Ended(w)
    <2>1. worker[w].pc = "finalize" /\ UNCHANGED << input, queue, creator >>
      BY <1>5 DEF Ended
    <2>2. PICK r \in Runs : r = worker[w].run
      BY <2>1, Named DEF Away
    <2>3. FinalizeRun(r) /\ \A v \in Workers \ {w} : worker'[v] = worker[v]
      BY <1>1, <1>5, <2>2 DEF Ended
    <2>4. \A s \in Runs \ {r} : Underway(s) => Underway(s)'
      BY <2>1, <2>2, <2>3 DEF Underway, InQueue
    <2> QED
      BY <1>1, <2>1, <2>3, <2>4, AdmissionsEnd
  <1> QED
    BY <1>2, <1>3, <1>4, <1>5 DEF WorkerEffect

LEMMA OtherAdmissions ==
    ASSUME Located, CoordinatorInv, Admissions, abandoned \subseteq abandoned',
           Attended \/ (\E o \in Operators : Cancelled(o) \/ Appended(o)) \/ Gating \/ Aside
    PROVE  Admissions'
  <1>1. Tables /\ UNCHANGED << input, queue, creator, worker >>
    BY DEF Located, Attended, Cancelled, Appended, Gating, Aside
  <1>2. \A s \in Runs : Underway(s) => Underway(s)'
    BY <1>1 DEF Underway, InQueue
  <1>3. ASSUME NEW o \in Operators, Cancelled(o) PROVE Admissions'
    <2>1. steering[o].run \in Runs /\ UNCHANGED control
      BY <1>3 DEF Located, Consented, Cancelled
    <2>2. /\ admitted' = admitted \ {steering[o].run}
          /\ \A k \in Targets : locks'[k] # NoRun => locks'[k] = locks[k] /\ locks[k] # steering[o].run
      BY <1>1, <1>3, <2>1, ReleaseTells DEF Cancelled
    <2> HIDE DEF Underway
    <2> QED
      BY <1>1, <1>2, <2>1, <2>2 DEF Admissions
  <1>4. CASE Attended \/ (\E o \in Operators : Appended(o)) \/ Gating \/ Aside
    <2>1. UNCHANGED << admitted, locks >>
      BY <1>4 DEF Attended, Appended, Gating, Aside
    <2>2. \A r \in Runs : control'[r] # NoControl => control[r] # NoControl
      BY <1>1, <1>4 DEF Attended, Appended, Gating, Aside, Tables
    <2> QED
      BY <1>1, <1>2, <2>1, <2>2, AdmissionsStay DEF Tables
  <1> QED
    BY <1>3, <1>4

(* No control, tenant slot or target lock outlives its run: whatever       *)
(* cancels, faults of the workers, recovery runs and full queues do, what  *)
(* is registered belongs to a run that a thread, the queue or a worker     *)
(* still carries, or to one whose create_run raised (_finalize_run,        *)
(* _release_run_admission).                                                *)
THEOREM RunsAdmissionReleased == Spec => []AdmissionReleased
  <1>1. Init => Admissions
    BY CoordinatorAssumption DEF Init, Admissions
  <1>2. LifecycleInv /\ CoordinatorInv /\ Admissions /\ [Next]_vars => Admissions'
    <2> SUFFICES ASSUME LifecycleInv, CoordinatorInv, Admissions, [Next]_vars PROVE Admissions'
      OBVIOUS
    <2>1. Effect /\ Located /\ abandoned \subseteq abandoned'
      BY NextTells, AbandonedStay DEF LifecycleInv
    <2> QED
      BY <2>1, ThreadAdmissions, WorkerAdmissions, OtherAdmissions DEF Effect
  <1>3. LifecycleInv /\ CoordinatorInv /\ Admissions => AdmissionReleased
    <2> SUFFICES ASSUME LifecycleInv, CoordinatorInv, Admissions, NEW r \in Runs \ abandoned,
                        control[r] # NoControl \/ r \in admitted \/ (\E k \in Targets : locks[k] = r)
                 PROVE  InProgress(r)
      BY DEF AdmissionReleased
    <2>1. Underway(r)
      BY CoordinatorAssumption DEF Admissions
    <2> QED
      BY <2>1 DEF Underway, Registering, InProgress, InQueue, Run
  <1> QED
    BY <1>1, <1>2, <1>3, LifecycleAlways, PTL DEF Spec


----------------------------------------------------------------------------
(* The quota of a tenant is looked at in one critical section and used in  *)
(* another.  What is bounded is the number of runs that have passed the    *)
(* check: those registered, and those that a thread is about to register,  *)
(* of which there are no more than threads that create runs.               *)

(* Only handlers, and for recovery runs workers, create runs.              *)
CreatorsCreate == \A t \in Threads : creator[t].pc # "none" => t \in Creators

Registers(t, r) == creator[t].pc = "register" /\ creator[t].run = r

(* The runs of the tenant that are registered or about to be.              *)
Claims(x) ==
    {r \in Runs : /\ Tenant(input[r].target) = x
                  /\ r \in admitted \/ \E t \in Threads : Registers(t, r)}

ClaimsBounded ==
    Quota > 0 => \A x : /\ IsFiniteSet(Claims(x))
                        /\ Cardinality(Claims(x)) <= Quota - 1 + Cardinality(Creators)

LEMMA CreatorsFinite == IsFiniteSet(Creators) /\ Cardinality(Creators) \in Nat
  <1>1. IsFiniteSet(Handlers \cup Workers)
    BY ThreadsAssumption, FS_Union
  <1>2. IsFiniteSet(Creators)
    BY <1>1, ThreadsAssumption DEF Creators, Threads
  <1> QED
    BY <1>2, FS_CardinalityType

LEMMA CreatorsCreateStep ==
    ASSUME LifecycleInv, CoordinatorInv, CreatorsCreate, [Next]_vars
    PROVE  CreatorsCreate'
  <1>1. Effect /\ creator \in [Threads -> Creations]
    BY NextTells DEF CoordinatorInv, ThreadTypes
  <1>2. ASSUME NEW t \in Threads, ThreadEffect(t) PROVE CreatorsCreate'
    <2>1. ASSUME NEW r \in Runs, Begun(t, r) PROVE t \in Creators
      BY <2>1 DEF Begun, Creators, Threads
    <2>2. creator[t].pc # "none" => t \in Creators
      BY DEF CreatorsCreate
    <2>3. t \in Creators
      BY <1>2, <2>1, <2>2 DEF ThreadEffect, Checked, Enrolled, Enqueued, Overflowed, Closed, Raised
    <2>4. PICK c : creator' = [creator EXCEPT ![t] = c]
      BY <1>2 DEF ThreadEffect, Begun, Checked, Enrolled, Enqueued, Overflowed, Closed, Raised
    <2> QED
      BY <1>1, <2>3, <2>4 DEF CreatorsCreate
  <1>3. CASE UNCHANGED creator
    BY <1>3 DEF CreatorsCreate
  <1>4. ASSUME NEW w \in Workers, WorkerEffect(w) PROVE UNCHANGED creator
    BY <1>4 DEF WorkerEffect, Taken, Walked, Began, Ended, Left
  <1> QED
    BY <1>1, <1>2, <1>3, <1>4 DEF Effect, Attended, Cancelled, Appended, Gating, Aside

(* Nobody passes the check.                                                *)
LEMMA ClaimsShrink ==
    ASSUME ClaimsBounded, \A x : Claims(x)' \subseteq Claims(x)
    PROVE  ClaimsBounded'
  <1> SUFFICES ASSUME Quota > 0, NEW x
               PROVE  /\ IsFiniteSet(Claims(x)')
                      /\ Cardinality(Claims(x)') <= Quota - 1 + Cardinality(Creators)
    BY DEF ClaimsBounded
  <1>1. IsFiniteSet(Claims(x)) /\ Cardinality(Claims(x)) <= Quota - 1 + Cardinality(Creators)
    BY DEF ClaimsBounded
  <1>2. Quota \in Nat /\ Cardinality(Creators) \in Nat
    BY CoordinatorAssumption, CreatorsFinite
  <1>3. Claims(x)' \subseteq Claims(x)
    OBVIOUS
  <1> HIDE DEF Claims
  <1>4. IsFiniteSet(Claims(x)') /\ Cardinality(Claims(x)') <= Cardinality(Claims(x))
    BY <1>1, <1>3, FS_Subset
  <1>5. Cardinality(Claims(x)') \in Nat /\ Cardinality(Claims(x)) \in Nat
    BY <1>1, <1>4, FS_CardinalityType
  <1> QED
    BY <1>1, <1>2, <1>4, <1>5

(* One that nobody else can pass at the same moment: what is registered is *)
(* below the quota, and the rest is with a thread each.                    *)
LEMMA ClaimsGrow ==
    ASSUME ClaimsBounded, CoordinatorInv, CoordinatorInv', CreatorsCreate', Tables, Quota > 0,
           UNCHANGED admitted, \A s \in Runs : input'[s].target = input[s].target,
           NEW x, Cardinality(ActiveRuns(x)) < Quota
    PROVE  /\ IsFiniteSet(Claims(x)')
           /\ Cardinality(Claims(x)') <= Quota - 1 + Cardinality(Creators)
  <1> DEFINE A == ActiveRuns(x)
             P == {creator'[t].run : t \in Creators}
  <1>1. Quota \in Nat /\ IsFiniteSet(Creators) /\ Cardinality(Creators) \in Nat
    BY CoordinatorAssumption, CreatorsFinite
  <1>2. IsFiniteSet(A) /\ Cardinality(A) \in Nat
    <2>1. A \subseteq Claims(x)
      BY DEF ActiveRuns, Claims, Tables
    <2>2. IsFiniteSet(Claims(x))
      BY DEF ClaimsBounded
    <2>3. IsFiniteSet(A)
      BY <2>1, <2>2, FS_Subset
    <2> QED
      BY <2>3, FS_CardinalityType
  <1>3. IsFiniteSet(P) /\ Cardinality(P) <= Cardinality(Creators) /\ Cardinality(P) \in Nat
    <2> DEFINE f == [t \in Creators |-> creator'[t].run]
    <2>1. f \in Surjection(Creators, P)
      BY DEF Surjection
    <2>2. IsFiniteSet(P) /\ Cardinality(P) <= Cardinality(Creators)
      BY <1>1, <2>1, FS_Surjection
    <2> QED
      BY <2>2, FS_CardinalityType
  <1>4. Claims(x)' \subseteq A \cup P
    BY DEF Claims, Registers, ActiveRuns, CreatorsCreate, Tenant
  <1>5. IsFiniteSet(A \cup P) /\ Cardinality(A \cup P) <= Cardinality(A) + Cardinality(P)
    <2> HIDE DEF A, P
    <2>1. /\ IsFiniteSet(A \cup P) /\ IsFiniteSet(A \cap P)
          /\ Cardinality(A \cup P) = Cardinality(A) + Cardinality(P) - Cardinality(A \cap P)
      BY <1>2, <1>3, FS_Union, FS_Subset
    <2>2. Cardinality(A \cap P) \in Nat
      BY <2>1, FS_CardinalityType
    <2> QED
      BY <1>2, <1>3, <2>1, <2>2
  <1> HIDE DEF A, P
  <1>6. IsFiniteSet(Claims(x)') /\ Cardinality(Claims(x)') <= Cardinality(A \cup P)
    <2> HIDE DEF Claims
    <2> QED
      BY <1>4, <1>5, FS_Subset
  <1>7. Cardinality(Claims(x)') \in Nat /\ Cardinality(A \cup P) \in Nat
    BY <1>5, <1>6, FS_CardinalityType
  <1>8. Cardinality(A) < Quota
    BY DEF A
  <1> HIDE DEF Claims
  <1> QED
    BY <1>1, <1>2, <1>3, <1>5, <1>6, <1>7, <1>8

LEMMA ThreadClaims ==
    ASSUME Located, CoordinatorInv, CoordinatorInv', CreatorsCreate', ClaimsBounded,
           NEW t \in Threads, ThreadEffect(t)
    PROVE  ClaimsBounded'
  <1>1. Tables /\ Places /\ Registered /\ Lifecycles /\ creator \in [Threads -> Creations]
    BY DEF Located, CoordinatorInv, ThreadTypes
  <1>2. ASSUME NEW r \in Runs, Begun(t, r) PROVE ClaimsBounded'
    <2>1. /\ creator' = [creator EXCEPT ![t] = [pc |-> "admit", run |-> r]]
          /\ UNCHANGED admitted /\ r \notin admitted
          /\ \A u \in Threads : ~Creates(u, r)
      BY <1>1, <1>2 DEF Begun, Lifecycles, Unknown
    <2>2. \A s \in Runs \ {r} : input'[s] = input[s]
      BY <1>1, <1>2 DEF Begun, Tables
    <2>3. \A u \in Threads, s \in Runs : Registers(u, s)' => Registers(u, s) /\ s # r
      BY <1>1, <2>1 DEF Registers, Creates
    <2>4. \A x : Claims(x)' \subseteq Claims(x)
      <3> HIDE DEF Registers
      <3> QED
        BY <2>1, <2>2, <2>3 DEF Claims, Tenant
    <2> QED
      BY <2>4, ClaimsShrink
  <1>3. CASE Checked(t)
    <2>1. creator[t].pc = "admit" /\ UNCHANGED admitted
      BY <1>3 DEF Checked
    <2>2. PICK r \in Runs : r = creator[t].run
      BY <2>1, Named
    <2>3. PICK locked \in BOOLEAN :
             /\ input' = [input EXCEPT ![r].locked = locked]
             /\ \/ creator' = [creator EXCEPT ![t] = NoCreation]
                \/ /\ creator' = [creator EXCEPT ![t] = [pc |-> "register", run |-> r]]
                   /\ ~Blocked(input[r].target, locked)
      BY <1>3, <2>2 DEF Checked
    <2>4. \A s \in Runs : input'[s].target = input[s].target
      BY <1>1, <2>3 DEF Tables, Inputs
    <2>5. CASE creator' = [creator EXCEPT ![t] = NoCreation]
      <3>1. \A u \in Threads, s \in Runs : Registers(u, s)' => Registers(u, s)
        BY <1>1, <2>5 DEF Registers, NoCreation
      <3>2. \A x : Claims(x)' \subseteq Claims(x)
        <4> HIDE DEF Registers
        <4> QED
          BY <2>1, <2>4, <3>1 DEF Claims, Tenant
      <3> QED
        BY <3>2, ClaimsShrink
    <2>6. CASE creator' = [creator EXCEPT ![t] = [pc |-> "register", run |-> r]] /\ ~Blocked(input[r].target, locked)
      <3> SUFFICES ASSUME Quota > 0, NEW x
                   PROVE  /\ IsFiniteSet(Claims(x)')
                          /\ Cardinality(Claims(x)') <= Quota - 1 + Cardinality(Creators)
        BY DEF ClaimsBounded
      <3>1. CASE x = Tenant(input[r].target)
        <4>1. Quota \in Nat /\ Cardinality(ActiveRuns(x)) \in Nat
          <5>1. ActiveRuns(x) \subseteq Claims(x)
            BY <1>1 DEF ActiveRuns, Claims, Tables
          <5>2. IsFiniteSet(Claims(x))
            BY DEF ClaimsBounded
          <5>3. IsFiniteSet(ActiveRuns(x))
            <6> HIDE DEF ActiveRuns, Claims
            <6> QED
              BY <5>1, <5>2, FS_Subset
          <5> QED
            BY <5>3, FS_CardinalityType, CoordinatorAssumption
        <4>2. ~(Cardinality(ActiveRuns(x)) >= Quota)
          BY <2>6, <3>1 DEF Blocked
        <4>3. Cardinality(ActiveRuns(x)) < Quota
          <5> HIDE DEF ActiveRuns
          <5> QED
            BY <4>1, <4>2
        <4> QED
          BY <1>1, <2>1, <2>4, <4>3, ClaimsGrow
      <3>2. CASE x # Tenant(input[r].target)
        <4>1. \A u \in Threads, s \in Runs \ {r} : Registers(u, s)' => Registers(u, s)
          BY <1>1, <2>6 DEF Registers
        <4>2. Claims(x)' \subseteq Claims(x)
          <5> HIDE DEF Registers
          <5> QED
            BY <2>1, <2>4, <3>2, <4>1 DEF Claims, Tenant
        <4>3. /\ IsFiniteSet(Claims(x)) /\ Cardinality(Claims(x)) <= Quota - 1 + Cardinality(Creators)
              /\ Quota \in Nat /\ Cardinality(Creators) \in Nat
          BY CoordinatorAssumption, CreatorsFinite DEF ClaimsBounded
        <4> HIDE DEF Claims
        <4>4. IsFiniteSet(Claims(x)') /\ Cardinality(Claims(x)') <= Cardinality(Claims(x))
          BY <4>2, <4>3, FS_Subset
        <4>5. Cardinality(Claims(x)') \in Nat /\ Cardinality(Claims(x)) \in Nat
          BY <4>3, <4>4, FS_CardinalityType
        <4> QED
          BY <4>3, <4>4, <4>5
      <3> QED
        BY <3>1, <3>2
    <2> QED
      BY <2>3, <2>5, <2>6
  <1>4. CASE Enrolled(t) \/ Enqueued(t) \/ Overflowed(t) \/ Closed(t) \/ Raised(t)
    <2>1. UNCHANGED input /\ creator[t].pc # "none"
      BY <1>4 DEF Enrolled, Enqueued, Overflowed, Closed, Raised
    <2>2. PICK r \in Runs : r = creator[t].run
      BY <2>1, Named
    <2>3. /\ creator'[t].pc # "register"
          /\ \A u \in Threads \ {t} : creator'[u] = creator[u]
      <3>1. \/ creator' = [creator EXCEPT ![t] = NoCreation]
            \/ \E step \in Registering : creator' = [creator EXCEPT ![t] = [pc |-> step, run |-> r]]
        BY <1>4, <2>2 DEF Enrolled, Enqueued, Overflowed, Closed, Raised, Registering
      <3> QED
        BY <1>1, <3>1 DEF NoCreation, Registering
    <2>4. \A u \in Threads, s \in Runs : Registers(u, s)' => Registers(u, s)
      BY <2>3 DEF Registers
    <2>5. \A s \in admitted' : s \in admitted \/ Registers(t, s)
      BY <1>4, <2>2 DEF Enrolled, Enqueued, Overflowed, Closed, Raised, FinalizeRun, ReleaseRunAdmission, Registers
    <2>6. \A x : Claims(x)' \subseteq Claims(x)
      <3> HIDE DEF Registers
      <3> QED
        BY <2>1, <2>4, <2>5 DEF Claims, Tenant
    <2> QED
      BY <2>6, ClaimsShrink
  <1> QED
    BY <1>2, <1>3, <1>4 DEF ThreadEffect

(* Whatever threads create runs at the same time, a tenant goes over       *)
(* tenant_active_run_quota by at most one run for each of them but one:    *)
(* cancels, faults, recovery runs and full queues only give room up, and a *)
(* run that create_run left behind keeps its slot (_build_run_admission,   *)
(* create_run).                                                            *)
THEOREM RunsTenantWithinQuota == Spec => []TenantWithinQuota
  <1> DEFINE I == CreatorsCreate /\ ClaimsBounded
  <1>1. Init => I
    <2> SUFFICES ASSUME Init PROVE I
      OBVIOUS
    <2>1. (\A t \in Threads : creator[t].pc = "none") /\ admitted = {}
      BY DEF Init, NoCreation
    <2>2. \A x : Claims(x) = {}
      BY <2>1 DEF Claims, Registers
    <2>3. ClaimsBounded
      <3> HIDE DEF Claims
      <3>1. Quota \in Nat /\ Cardinality(Creators) \in Nat
        BY CoordinatorAssumption, CreatorsFinite
      <3> QED
        BY <2>2, <3>1, FS_EmptySet DEF ClaimsBounded
    <2> QED
      BY <2>1, <2>3 DEF CreatorsCreate
  <1>2. LifecycleInv /\ CoordinatorInv /\ I /\ [Next]_vars => I'
    <2> SUFFICES ASSUME LifecycleInv, CoordinatorInv, I, [Next]_vars PROVE I'
      OBVIOUS
    <2>1. Effect /\ Located /\ CreatorsCreate' /\ CoordinatorInv'
      BY NextTells, CreatorsCreateStep, CoordinatorStep DEF LifecycleInv
    <2>2. ASSUME admitted' \subseteq admitted, UNCHANGED << input, creator >> PROVE ClaimsBounded'
      <3>1. \A x : Claims(x)' \subseteq Claims(x)
        BY <2>2 DEF Claims, Registers, Tenant
      <3> QED
        BY <3>1, ClaimsShrink
    <2>3. ASSUME NEW t \in Threads, ThreadEffect(t) PROVE ClaimsBounded'
      BY <2>1, <2>3, ThreadClaims
    <2>4. ASSUME NEW w \in Workers, WorkerEffect(w) PROVE admitted' \subseteq admitted /\ UNCHANGED << input, creator >>
      BY <2>4 DEF WorkerEffect, Taken, Walked, Began, Ended, Left, FinalizeRun, ReleaseRunAdmission
    <2>5. ASSUME Attended \/ (\E o \in Operators : Cancelled(o) \/ Appended(o)) \/ Gating \/ Aside
          PROVE  admitted' \subseteq admitted /\ UNCHANGED << input, creator >>
      BY <2>5 DEF Attended, Cancelled, Appended, Gating, Aside, ReleaseRunAdmission
    <2>6. ClaimsBounded'
      BY <2>1, <2>2, <2>3, <2>4, <2>5 DEF Effect
    <2> QED
      BY <2>1, <2>6
  <1>3. LifecycleInv /\ I => TenantWithinQuota
    <2> SUFFICES ASSUME LifecycleInv, I, Quota > 0, NEW k \in Targets
                 PROVE  Cardinality(ActiveRuns(Tenant(k))) <= Quota - 1 + Cardinality(Creators)
      BY DEF TenantWithinQuota
    <2>1. PICK x : x = Tenant(k)
      OBVIOUS
    <2>2. ActiveRuns(x) \subseteq Claims(x)
      BY DEF ActiveRuns, Claims, LifecycleInv, Located, Tables
    <2>3. /\ IsFiniteSet(Claims(x)) /\ Cardinality(Claims(x)) <= Quota - 1 + Cardinality(Creators)
          /\ Quota \in Nat /\ Cardinality(Creators) \in Nat
      BY CoordinatorAssumption, CreatorsFinite DEF ClaimsBounded
    <2> HIDE DEF Claims, ActiveRuns
    <2>4. IsFiniteSet(ActiveRuns(x)) /\ Cardinality(ActiveRuns(x)) <= Cardinality(Claims(x))
      BY <2>2, <2>3, FS_Subset
    <2>5. Cardinality(ActiveRuns(x)) \in Nat /\ Cardinality(Claims(x)) \in Nat
      BY <2>3, <2>4, FS_CardinalityType
    <2> QED
      BY <2>1, <2>3, <2>4, <2>5
  <1> HIDE DEF I
  <1> QED
    BY <1>1, <1>2, <1>3, LifecycleAlways, PTL DEF Spec
=============================================================================
