----------------------- MODULE ExecutionAttemptsProofs -----------------------
(***************************************************************************)
(* Proofs about ExecutionAttempts, for any sets of runs and keys, any      *)
(* assignment of keys to runs and any number of retries and crashes.       *)
(*                                                                         *)
(* The argument for SentOnce: the mark is written before the command and   *)
(* never taken back (Tracked), so that a look that finds no mark finds     *)
(* nothing sent and no run between its mark and its outcome (OnRecord).    *)
(* Unless another run is in the window at that moment, which makes the key *)
(* a raced one, the run then has the key for itself until its outcome is   *)
(* written (Alone), and what it saw is still so when it sends (Fresh).     *)
(***************************************************************************)
EXTENDS ExecutionAttempts, TLAPS

(* An update of one run keeps the type of all.                             *)
LEMMA RunType ==
    ASSUME run \in [Runs -> Locals], NEW r \in Runs, NEW local \in Locals,
           run' = [run EXCEPT ![r] = local]
    PROVE  run' \in [Runs -> Locals]
OBVIOUS

LEMMA KeyType == \A r \in Runs : Key(r) \in Keys
BY AttemptsAssumption DEF Key

LEMMA StepType ==
    ASSUME run \in [Runs -> Locals], NEW r \in Runs, NEW pc \in Steps, Step(r, pc)
    PROVE  run' \in [Runs -> Locals]
BY DEF Step, Locals

LEMMA WithType ==
    ASSUME run \in [Runs -> Locals], NEW r \in Runs, NEW pc \in Steps,
           NEW status \in Outcomes \cup {"none"}, NEW retryable \in BOOLEAN, NEW source \in Sources,
           With(r, pc, status, retryable, source)
    PROVE  run' \in [Runs -> Locals]
BY DEF With, Locals

LEMMA NewRunType == NewRun \in Locals
BY DEF NewRun, Locals, Steps, InFlight, Sources

LEMMA ReturnType ==
    ASSUME run \in [Runs -> Locals], NEW r \in Runs,
           NEW status \in Outcomes \cup {"none"}, NEW source \in Sources,
           Return(r, status, source)
    PROVE  run' \in [Runs -> Locals]
BY NewRunType DEF Return, Locals, Steps, NewRun

----------------------------------------------------------------------------
LEMMA TypeInit == Init => TypeOK
<1> SUFFICES ASSUME Init PROVE TypeOK
    OBVIOUS
<1>1. run \in [Runs -> Locals]
    BY NewRunType DEF Init
<1>2. ledger \in [Keys -> Statuses]
    BY DEF Init, Statuses
<1>3. sends \in [Keys -> 0 .. 2] /\ effects \in [Keys -> BOOLEAN] /\ crashes \in Nat
    BY DEF Init
<1> QED BY <1>1, <1>2, <1>3 DEF Init, TypeOK

(* Every step keeps the types.                                             *)
LEMMA TypeNext == TypeOK /\ [Next]_vars => TypeOK'
<1> SUFFICES ASSUME TypeOK, [Next]_vars PROVE TypeOK'
    OBVIOUS
<1>2. ASSUME NEW r \in Runs, Evaluate(r) PROVE TypeOK'
  <2>1. run' \in [Runs -> Locals]
    <3>1. PICK execute \in BOOLEAN :
                  run' = [run EXCEPT ![r] = [@ EXCEPT !.pc = "gate", !.execute = execute]]
        BY <1>2 DEF Evaluate
    <3>2. run[r] \in Locals /\ "gate" \in Steps
        BY DEF TypeOK, Steps, InFlight
    <3>3. [run[r] EXCEPT !.pc = "gate", !.execute = execute] \in Locals
        BY <3>2, Zenon DEF Locals
    <3> QED BY <3>1, <3>3, RunType DEF TypeOK
  <2>2. evaluated' \subseteq Keys
      BY <1>2, KeyType DEF Evaluate, TypeOK
  <2> QED BY <1>2, <2>1, <2>2 DEF Evaluate, TypeOK, observed
<1>3. ASSUME NEW r \in Runs, Override(r) PROVE TypeOK'
  <2>1. run' \in [Runs -> Locals]
      BY <1>3 DEF Override, TypeOK, Locals
  <2> QED BY <1>3, <2>1 DEF Override, TypeOK, observed
<1>5. ASSUME NEW r \in Runs, Execute(r) PROVE TypeOK'
  <2>1. run' \in [Runs -> Locals]
    <3>1. CASE Return(r, "rejected", "unsent")
        BY <3>1, ReturnType DEF TypeOK, Outcomes, Sources
    <3>2. CASE run' = [run EXCEPT ![r] = [@ EXCEPT !.pc = "look", !.attempts = 1]]
      <4>1. run[r] \in Locals /\ "look" \in Steps /\ 1 \in Nat
          BY DEF TypeOK, Steps, InFlight, InExecute
      <4>2. [run[r] EXCEPT !.pc = "look", !.attempts = 1] \in Locals
          BY <4>1 DEF Locals
      <4> QED BY <3>2, <4>2, RunType DEF TypeOK
    <3> QED BY <1>5, <3>1, <3>2 DEF Execute
  <2> QED BY <1>5, <2>1 DEF Execute, TypeOK, observed
<1>6. ASSUME NEW r \in Runs, Look(r) PROVE TypeOK'
  <2> DEFINE k == Key(r)
  <2>0. k \in Keys
      BY KeyType
  <2>1. run' \in [Runs -> Locals]
    <3>1. CASE Guarded(k) /\ ledger[k] \in Outcomes
        BY <1>6, <3>1, WithType DEF Look, TypeOK, Steps, InFlight, InExecute, Sources
    <3>2. CASE ~(Guarded(k) /\ ledger[k] \in Outcomes) /\ Guarded(k) /\ ledger[k] = "remote_command_dispatched"
        BY <1>6, <3>2, WithType DEF Look, TypeOK, Steps, InFlight, InExecute, Sources, Outcomes
    <3>3. CASE ~(Guarded(k) /\ ledger[k] \in Outcomes)
               /\ ~(Guarded(k) /\ ledger[k] = "remote_command_dispatched")
      <4>1. FirstStep(k) \in Steps
          BY <2>0 DEF FirstStep, Steps, InFlight, InExecute, TypeOK, Kinds
      <4> QED BY <1>6, <3>3, <4>1, StepType DEF Look, TypeOK
    <3> QED BY <3>1, <3>2, <3>3
  <2>2. clean' \subseteq Runs /\ raced' \subseteq Keys
      BY <1>6, <2>0 DEF Look, Observe, TypeOK
  <2> QED BY <1>6, <2>1, <2>2 DEF Look, TypeOK
<1>7. ASSUME NEW r \in Runs, Prepare(r) PROVE TypeOK'
  <2>1. run' \in [Runs -> Locals]
    <3>1. CASE With(r, "settle", "failed", FALSE, "unsent")
        BY <3>1, WithType DEF TypeOK, Steps, InFlight, InExecute, Sources, Outcomes
    <3>2. CASE Return(r, "rejected", "unsent")
        BY <3>2, ReturnType DEF TypeOK, Outcomes, Sources
    <3>3. CASE Step(r, "begin")
        BY <3>3, StepType DEF TypeOK, Steps, InFlight, InExecute
    <3> QED BY <1>7, <3>1, <3>2, <3>3 DEF Prepare
  <2> QED BY <1>7, <2>1 DEF Prepare, TypeOK, observed
<1>8. ASSUME NEW r \in Runs, Begin(r) PROVE TypeOK'
  <2>1. run' \in [Runs -> Locals]
      BY <1>8, StepType DEF Begin, TypeOK, Steps, InFlight, InExecute
  <2>2. ledger' \in [Keys -> Statuses]
      BY <1>8, KeyType DEF Begin, TypeOK, Statuses
  <2> QED BY <1>8, <2>1, <2>2 DEF Begin, TypeOK, observed
<1>9. ASSUME NEW r \in Runs, MarkDispatched(r) PROVE TypeOK'
  <2>1. run' \in [Runs -> Locals]
      BY <1>9, StepType DEF MarkDispatched, TypeOK, Steps, InFlight, InExecute
  <2>2. ledger' \in [Keys -> Statuses]
      BY <1>9, KeyType DEF MarkDispatched, TypeOK, Statuses
  <2> QED BY <1>9, <2>1, <2>2 DEF MarkDispatched, TypeOK, observed
<1>10. ASSUME NEW r \in Runs, Call(r) PROVE TypeOK'
  <2>0. Key(r) \in Keys
      BY KeyType
  <2>1. run' \in [Runs -> Locals]
    <3>1. ASSUME NEW effect \in BOOLEAN, NEW status \in Outcomes, NEW retryable \in BOOLEAN,
                 Reported(r, status, retryable, effect)
          PROVE  run' \in [Runs -> Locals]
        BY <3>1, WithType DEF Reported, TypeOK, Steps, InFlight, InExecute, Sources
    <3>2. CASE Raised(r)
      <4>1. CASE With(r, "settle", "failed", FALSE, "unknown")
          BY <4>1, WithType DEF TypeOK, Steps, InFlight, InExecute, Sources, Outcomes
      <4>2. CASE Return(r, "failed", "raised")
          BY <4>2, ReturnType DEF TypeOK, Sources, Outcomes
      <4> QED BY <3>2, <4>1, <4>2 DEF Raised
    <3> QED BY <1>10, <3>1, <3>2 DEF Call
  <2>2. sends' \in [Keys -> 0 .. 2]
      BY <1>10, <2>0 DEF Call, TypeOK
  <2>3. PICK effect \in BOOLEAN : effects' = [effects EXCEPT ![Key(r)] = @ \/ effect]
      BY <1>10 DEF Call
  <2>4. effects' \in [Keys -> BOOLEAN]
      BY <2>0, <2>3 DEF TypeOK
  <2> QED BY <1>10, <2>1, <2>2, <2>4 DEF Call, TypeOK
<1>11. ASSUME NEW r \in Runs, Record(r) PROVE TypeOK'
  <2>0. Key(r) \in Keys /\ run[r] \in Locals
      BY KeyType DEF TypeOK
  <2>1. ledger' \in [Keys -> Statuses]
      BY <1>11, <2>0 DEF Record, TypeOK, Locals, Statuses
  <2>2. run' \in [Runs -> Locals]
    <3>1. CASE Step(r, "settle")
        BY <3>1, StepType DEF TypeOK, Steps, InFlight, InExecute
    <3>2. CASE run' = [run EXCEPT ![r] = [@ EXCEPT !.pc = "look", !.attempts = run[r].attempts + 1]]
      <4>1. run[r].attempts + 1 \in Nat /\ "look" \in Steps
          BY <2>0 DEF Locals, Steps, InFlight, InExecute
      <4>2. [run[r] EXCEPT !.pc = "look", !.attempts = run[r].attempts + 1] \in Locals
          BY <2>0, <4>1 DEF Locals
      <4> QED BY <3>2, <4>2, RunType DEF TypeOK
    <3> QED BY <1>11, <3>1, <3>2 DEF Record
  <2> QED BY <1>11, <2>1, <2>2 DEF Record, TypeOK, observed
<1>12. ASSUME NEW r \in Runs, Settle(r) PROVE TypeOK'
  <2>0. Key(r) \in Keys /\ run[r] \in Locals
      BY KeyType DEF TypeOK
  <2>1. ledger' \in [Keys -> Statuses]
      BY <1>12, <2>0 DEF Settle, TypeOK, Locals, Statuses
  <2>2. run' \in [Runs -> Locals]
    <3>1. run[r].status \in Outcomes \cup {"none"} /\ run[r].source \in Sources
        BY <2>0 DEF Locals
    <3> QED BY <1>12, <3>1, ReturnType DEF Settle, TypeOK
  <2> QED BY <1>12, <2>1, <2>2 DEF Settle, TypeOK, observed
<1>14. CASE Crash
  <2>1. run' \in [Runs -> Locals]
      BY <1>14, NewRunType DEF Crash, TypeOK, Locals, Steps, NewRun
  <2> QED BY <1>14, <2>1 DEF Crash, TypeOK, observed
<1>15. CASE UNCHANGED vars
    BY <1>15 DEF vars, TypeOK, observed
<1> QED BY <1>2, <1>3, <1>5, <1>6, <1>7, <1>8, <1>9, <1>10, <1>11, <1>12, <1>14, <1>15
        DEF Next, Executes

----------------------------------------------------------------------------
(* The steps of a run between its look at the ledger and its command.      *)
ToSend == {"prepare", "begin", "mark", "call"}

(* A run that has a result to record has an outcome to record.             *)
Concluded == \A r \in Runs : run[r].pc \in {"record", "settle"} => run[r].status \in Outcomes

(* The mark of a command precedes it and is not taken back.                *)
MarkedFirst == \A r \in Runs : At(r, "call") /\ Guarded(Key(r)) => ledger[Key(r)] \in Marked

Tracked == \A k \in Keys : Guarded(k) /\ sends[k] > 0 => ledger[k] \in Marked

(* A run on its way to send a guarded command saw that none was sent.      *)
LookedInTime == \A r \in Runs : run[r].pc \in ToSend /\ Guarded(Key(r)) => r \in clean

(* A run between a look that found nothing and the outcome on record.      *)
Busy(r) == InWindow(r) \/ run[r].pc \in {"call", "record"}

(* A key that was not raced has one such run at most.                      *)
Alone ==
    \A q, r \in Runs : Key(q) = Key(r) /\ Protected(Key(r)) /\ Busy(q) /\ Busy(r) => q = r

(* And what that run saw is still so when it sends.                        *)
Fresh == \A r \in Runs : run[r].pc \in ToSend /\ Protected(Key(r)) => sends[Key(r)] = 0

LedgerInv == Concluded /\ MarkedFirst /\ Tracked /\ LookedInTime

(* What the ledger says of a run with the locals l, if its key was not     *)
(* raced: no mark before its own, its mark until its outcome is written,   *)
(* and from then on the outcome.                                           *)
Settled(l, status) ==
    /\ l.pc \in {"prepare", "begin", "mark"} => status \notin Marked
    /\ l.pc \in {"call", "record"} => status = "remote_command_dispatched"
    /\ l.pc = "record" => l.source = "call"
    /\ l.pc = "settle" =>
          \/ l.source \in {"call", "ledger", "unknown"}
          \/ l.source = "unsent" /\ l.status = "failed" /\ status \notin Marked
    /\ l.pc \in {"settle", "done"} /\ l.source \in {"call", "ledger"} => status = l.status
    /\ l.pc = "done" => l.status \in Outcomes

OnRecord == \A r \in Runs : Protected(Key(r)) => Settled(run[r], ledger[Key(r)])

AttemptInv == TypeOK /\ LedgerInv /\ Alone /\ OnRecord /\ Fresh /\ SentOnce

(* What a step of r does to the runs: it changes r alone.                  *)
OnlyRun(r) == \A q \in Runs : q # r => run'[q] = run[q]

LEMMA StepMoves ==
    ASSUME TypeOK, NEW r \in Runs, NEW pc, Step(r, pc)
    PROVE  /\ OnlyRun(r) /\ run'[r].pc = pc
           /\ run'[r].status = run[r].status /\ run'[r].source = run[r].source
BY DEF Step, TypeOK, Locals, OnlyRun

LEMMA WithMoves ==
    ASSUME TypeOK, NEW r \in Runs, NEW pc, NEW status, NEW retryable, NEW source,
           With(r, pc, status, retryable, source)
    PROVE  OnlyRun(r) /\ run'[r].pc = pc /\ run'[r].status = status
BY DEF With, TypeOK, Locals, OnlyRun

LEMMA ReturnMoves ==
    ASSUME TypeOK, NEW r \in Runs, NEW status, NEW source, Return(r, status, source)
    PROVE  OnlyRun(r) /\ run'[r].pc = "done" /\ run'[r].status = status /\ run'[r].source = source
BY DEF Return, TypeOK, OnlyRun, NewRun

LEMMA EvaluateMoves ==
    ASSUME TypeOK, NEW r \in Runs, Evaluate(r)
    PROVE  OnlyRun(r) /\ run'[r].pc = "gate"
<1>1. PICK execute \in BOOLEAN :
              run' = [run EXCEPT ![r] = [@ EXCEPT !.pc = "gate", !.execute = execute]]
    BY DEF Evaluate
<1> QED BY <1>1 DEF OnlyRun, TypeOK, Locals

LEMMA ExecuteMoves ==
    ASSUME TypeOK, NEW r \in Runs, Execute(r)
    PROVE  OnlyRun(r) /\ run'[r].pc \in {"done", "look"}
<1>1. CASE Return(r, "rejected", "unsent")
    BY <1>1, ReturnMoves
<1>2. CASE run' = [run EXCEPT ![r] = [@ EXCEPT !.pc = "look", !.attempts = 1]]
    BY <1>2 DEF OnlyRun, TypeOK, Locals
<1> QED BY <1>1, <1>2 DEF Execute

LEMMA PrepareMoves ==
    ASSUME TypeOK, NEW r \in Runs, Prepare(r)
    PROVE  /\ OnlyRun(r)
           /\ run'[r].pc \in {"settle", "done", "begin"}
           /\ run'[r].pc = "settle" => run'[r].status = "failed"
<1>1. CASE With(r, "settle", "failed", FALSE, "unsent")
    BY <1>1, WithMoves
<1>2. CASE Return(r, "rejected", "unsent")
    BY <1>2, ReturnMoves
<1>3. CASE Step(r, "begin")
    BY <1>3, StepMoves
<1> QED BY <1>1, <1>2, <1>3 DEF Prepare

LEMMA CallMoves ==
    ASSUME TypeOK, NEW r \in Runs, Call(r)
    PROVE  OnlyRun(r) /\ run'[r].pc \in {"record", "settle", "done"} /\ run'[r].status \in Outcomes
<1>1. ASSUME NEW effect \in BOOLEAN, NEW status \in Outcomes, NEW retryable \in BOOLEAN,
             Reported(r, status, retryable, effect)
      PROVE  OnlyRun(r) /\ run'[r].pc = "record" /\ run'[r].status \in Outcomes
    BY <1>1, WithMoves DEF Reported
<1>2. CASE Raised(r)
    BY <1>2, WithMoves, ReturnMoves DEF Raised, Outcomes
<1> QED BY <1>1, <1>2 DEF Call

LEMMA RecordMoves ==
    ASSUME TypeOK, NEW r \in Runs, Record(r)
    PROVE  OnlyRun(r) /\ run'[r].pc \in {"settle", "look"} /\ run'[r].status = run[r].status
<1>1. CASE Step(r, "settle")
    BY <1>1, StepMoves
<1>2. CASE run' = [run EXCEPT ![r] = [@ EXCEPT !.pc = "look", !.attempts = run[r].attempts + 1]]
    BY <1>2 DEF OnlyRun, TypeOK, Locals
<1> QED BY <1>1, <1>2 DEF Record

(* A look moves r on; only one that finds no mark takes r to send.         *)
LEMMA LookMoves ==
    ASSUME TypeOK, NEW r \in Runs, Look(r)
    PROVE  /\ OnlyRun(r)
           /\ run'[r].pc \in ToSend /\ Guarded(Key(r)) => ledger[Key(r)] \notin Marked
<1>1. CASE Guarded(Key(r)) /\ ledger[Key(r)] \in Marked
  <2>1. OnlyRun(r) /\ run'[r].pc = "settle"
      BY <1>1, WithMoves DEF Look, Marked, Outcomes
  <2> QED BY <2>1 DEF ToSend
<1>2. CASE ~(Guarded(Key(r)) /\ ledger[Key(r)] \in Marked)
  <2>1. Step(r, FirstStep(Key(r)))
      BY <1>2 DEF Look, Marked
  <2> QED BY <1>2, <2>1, StepMoves
<1> QED BY <1>1, <1>2

(* A step that changes neither the ledger nor what was sent, and takes no  *)
(* run into execute.                                                       *)
LEMMA OutsideKeeps ==
    ASSUME LedgerInv, UNCHANGED << kind, ledger, sends, clean >>,
           \A r \in Runs : run'[r].pc \in InExecute => run'[r].pc = run[r].pc /\ run'[r].status = run[r].status
    PROVE  LedgerInv'
BY DEF LedgerInv, Concluded, MarkedFirst, Tracked, LookedInTime, ToSend, InExecute, At, Guarded, Key

(* A step of r in execute keeps LedgerInv if it takes back no mark and     *)
(* leaves r where LedgerInv allows it.                                     *)
LEMMA MoveKeeps ==
    ASSUME LedgerInv, NEW r \in Runs, OnlyRun(r), kind' = kind,
           \A k \in Keys : ledger[k] \in Marked => ledger'[k] \in Marked,
           \A k \in Keys : Guarded(k) /\ sends'[k] > 0 => sends[k] > 0 \/ ledger'[k] \in Marked,
           \A q \in Runs : q # r /\ q \in clean => q \in clean',
           run'[r].pc \in {"record", "settle"} => run'[r].status \in Outcomes,
           run'[r].pc = "call" /\ Guarded(Key(r)) => ledger'[Key(r)] \in Marked,
           run'[r].pc \in ToSend /\ Guarded(Key(r)) => r \in clean'
    PROVE  LedgerInv'
<1>0. \A q \in Runs : Key(q) \in Keys
    BY KeyType
<1>1. Concluded'
    BY DEF LedgerInv, Concluded, OnlyRun
<1>2. MarkedFirst'
    BY <1>0 DEF LedgerInv, MarkedFirst, OnlyRun, At, Guarded, Key
<1>3. Tracked'
    BY DEF LedgerInv, Tracked, Guarded
<1>4. LookedInTime'
    BY DEF LedgerInv, LookedInTime, OnlyRun, Guarded, Key
<1> QED BY <1>1, <1>2, <1>3, <1>4 DEF LedgerInv

(* Every step keeps the invariant of the ledger.                           *)
LEMMA LedgerNext == TypeOK /\ LedgerInv /\ [Next]_vars => LedgerInv'
<1> SUFFICES ASSUME TypeOK, LedgerInv, [Next]_vars PROVE LedgerInv'
    OBVIOUS
<1>0. \A r \in Runs : Key(r) \in Keys
    BY KeyType
<1>2. ASSUME NEW r \in Runs, Evaluate(r) PROVE LedgerInv'
  <2>1. OnlyRun(r) /\ run'[r].pc = "gate"
      BY <1>2, EvaluateMoves
  <2> QED BY <1>2, <2>1, OutsideKeeps DEF Evaluate, OnlyRun, InExecute, observed
<1>3. ASSUME NEW r \in Runs, Override(r) PROVE LedgerInv'
  <2>1. OnlyRun(r) /\ run'[r].pc = "gate"
      BY <1>3 DEF Override, OnlyRun, TypeOK, Locals, At
  <2> QED BY <1>3, <2>1, OutsideKeeps DEF Override, OnlyRun, InExecute, observed
<1>5. ASSUME NEW r \in Runs, Execute(r) PROVE LedgerInv'
  <2>1. OnlyRun(r) /\ run'[r].pc \in {"done", "look"}
      BY <1>5, ExecuteMoves
  <2> QED BY <1>5, <2>1, MoveKeeps DEF Execute, ToSend, observed
<1>6. ASSUME NEW r \in Runs, Look(r) PROVE LedgerInv'
  <2> DEFINE k == Key(r)
  <2>1. kind' = kind /\ ledger' = ledger /\ sends' = sends
        /\ clean' = IF sends[k] = 0 THEN clean \cup {r} ELSE clean \ {r}
      BY <1>6 DEF Look, Observe
  <2>2. CASE Guarded(k) /\ ledger[k] \in Marked
    <3>1. OnlyRun(r) /\ run'[r].pc = "settle" /\ run'[r].status \in Outcomes
        BY <1>6, <2>2, WithMoves DEF Look, Marked, Outcomes
    <3> QED BY <2>1, <3>1, MoveKeeps DEF ToSend
  <2>3. CASE Guarded(k) /\ ledger[k] \notin Marked
    <3>1. Step(r, FirstStep(k))
        BY <1>6, <2>3 DEF Look, Marked
    <3>2. FirstStep(k) \in {"begin", "prepare"}
        BY <2>3 DEF FirstStep, Guarded
    <3>3. OnlyRun(r) /\ run'[r].pc \in {"begin", "prepare"}
        BY <3>1, <3>2, StepMoves
    <3>4. sends[k] = 0
        BY <1>0, <2>3 DEF LedgerInv, Tracked, TypeOK
    <3> QED BY <2>1, <3>3, <3>4, MoveKeeps
  <2>4. CASE ~Guarded(k)
    <3>1. Step(r, FirstStep(k))
        BY <1>6, <2>4 DEF Look
    <3>2. FirstStep(k) = "call"
        BY <1>0, <2>4 DEF FirstStep, Guarded, TypeOK, Kinds
    <3>3. OnlyRun(r) /\ run'[r].pc = "call"
        BY <3>1, <3>2, StepMoves
    <3> QED BY <2>1, <2>4, <3>3, MoveKeeps
  <2> QED BY <2>2, <2>3, <2>4
<1>7. ASSUME NEW r \in Runs, Prepare(r) PROVE LedgerInv'
  <2>1. /\ OnlyRun(r)
        /\ run'[r].pc \in {"settle", "done", "begin"}
        /\ run'[r].pc = "settle" => run'[r].status = "failed"
      BY <1>7, PrepareMoves
  <2>2. Guarded(Key(r)) => r \in clean
      BY <1>7 DEF Prepare, At, LedgerInv, LookedInTime, ToSend
  <2> QED BY <1>7, <2>1, <2>2, MoveKeeps DEF Prepare, Outcomes, observed
<1>8. ASSUME NEW r \in Runs, Begin(r) PROVE LedgerInv'
  <2>1. OnlyRun(r) /\ run'[r].pc = "mark"
      BY <1>8, StepMoves DEF Begin
  <2>2. Guarded(Key(r)) => r \in clean
      BY <1>8 DEF Begin, At, LedgerInv, LookedInTime, ToSend
  <2>3. \A k \in Keys : ledger[k] \in Marked => ledger'[k] \in Marked
      BY <1>0, <1>8 DEF Begin, TypeOK, Marked, Outcomes
  <2> QED BY <1>8, <2>1, <2>2, <2>3, MoveKeeps DEF Begin, observed
<1>9. ASSUME NEW r \in Runs, MarkDispatched(r) PROVE LedgerInv'
  <2>1. OnlyRun(r) /\ run'[r].pc = "call"
      BY <1>9, StepMoves DEF MarkDispatched
  <2>2. Guarded(Key(r)) => r \in clean
      BY <1>9 DEF MarkDispatched, At, LedgerInv, LookedInTime, ToSend
  <2>3. /\ \A k \in Keys : ledger[k] \in Marked => ledger'[k] \in Marked
        /\ ledger'[Key(r)] \in Marked
      BY <1>0, <1>9 DEF MarkDispatched, TypeOK, Marked
  <2> QED BY <1>9, <2>1, <2>2, <2>3, MoveKeeps DEF MarkDispatched, observed
<1>10. ASSUME NEW r \in Runs, Call(r) PROVE LedgerInv'
  <2>1. OnlyRun(r) /\ run'[r].pc \in {"record", "settle", "done"} /\ run'[r].status \in Outcomes
      BY <1>10, CallMoves
  <2>2. Guarded(Key(r)) => ledger[Key(r)] \in Marked
      BY <1>10 DEF Call, LedgerInv, MarkedFirst
  <2>3. \A k \in Keys : Guarded(k) /\ sends'[k] > 0 => sends[k] > 0 \/ ledger[k] \in Marked
      BY <1>0, <1>10, <2>2 DEF Call, TypeOK
  <2>4. UNCHANGED << kind, ledger, clean >>
      BY <1>10 DEF Call
  <2> QED BY <2>1, <2>3, <2>4, MoveKeeps DEF ToSend
<1>11. ASSUME NEW r \in Runs, Record(r) PROVE LedgerInv'
  <2>1. run[r].status \in Outcomes
      BY <1>11 DEF Record, At, LedgerInv, Concluded
  <2>2. OnlyRun(r) /\ run'[r].pc \in {"settle", "look"} /\ run'[r].status = run[r].status
      BY <1>11, RecordMoves
  <2>3. \A k \in Keys : ledger[k] \in Marked => ledger'[k] \in Marked
      BY <1>0, <1>11, <2>1 DEF Record, TypeOK, Marked
  <2> QED BY <1>11, <2>1, <2>2, <2>3, MoveKeeps DEF Record, ToSend, observed
<1>12. ASSUME NEW r \in Runs, Settle(r) PROVE LedgerInv'
  <2>1. run[r].status \in Outcomes
      BY <1>12 DEF Settle, At, LedgerInv, Concluded
  <2>2. OnlyRun(r) /\ run'[r].pc = "done"
      BY <1>12, ReturnMoves DEF Settle
  <2>3. \A k \in Keys : ledger[k] \in Marked => ledger'[k] \in Marked
      BY <1>0, <1>12, <2>1 DEF Settle, TypeOK, Marked
  <2> QED BY <1>12, <2>2, <2>3, MoveKeeps DEF Settle, ToSend, observed
<1>13. CASE Crash
  <2>1. \A r \in Runs : run'[r].pc \notin InExecute
      BY <1>13 DEF Crash, InExecute, InFlight, NewRun
  <2> QED BY <1>13, <2>1, OutsideKeeps DEF Crash, observed
<1>14. CASE UNCHANGED vars
    BY <1>14, OutsideKeeps DEF vars, observed
<1> QED BY <1>2, <1>3, <1>5, <1>6, <1>7, <1>8, <1>9, <1>10, <1>11, <1>12, <1>13, <1>14
        DEF Next, Executes

LEMMA LedgerInit == Init => LedgerInv
BY DEF Init, LedgerInv, Concluded, MarkedFirst, Tracked, LookedInTime, ToSend, At, NewRun

(* execute never sends a restart or a patch after a look at the ledger     *)
(* that came after a command: for any runs, keys, retries, overrides and   *)
(* crashes, also where two runs raced.                                     *)
THEOREM AttemptsNoLateResend == Spec => []NoLateResend
<1>1. LedgerInv => NoLateResend
    BY DEF LedgerInv, LookedInTime, NoLateResend, ToSend, At
<1> QED BY <1>1, TypeInit, TypeNext, LedgerInit, LedgerNext, PTL DEF Spec

(* The ledger, the registry, the runs and what is observed of the sends    *)
(* keep their types.                                                       *)
THEOREM AttemptsTypeCorrect == Spec => []TypeOK
BY TypeInit, TypeNext, PTL DEF Spec

----------------------------------------------------------------------------
(* What is protected was so before: a raced key stays one.                 *)
LEMMA ProtectedWas ==
    ASSUME kind' = kind, raced \subseteq raced'
    PROVE  \A k : Protected(k)' => Protected(k)
BY DEF Protected, Guarded

LEMMA ProtectedStays ==
    ASSUME UNCHANGED << kind, raced >>
    PROVE  \A k : Protected(k)' = Protected(k)
BY DEF Protected, Guarded

(* The steps of a run, but for a look, take it neither towards a command   *)
(* nor between a look and an outcome.                                      *)
LEMMA RunMoves ==
    ASSUME TypeOK, NEW r \in Runs, ~Look(r),
           Evaluate(r) \/ Override(r) \/ Execute(r) \/ Executes(r)
    PROVE  /\ OnlyRun(r) /\ UNCHANGED << kind, raced >>
           /\ run'[r].pc \in ToSend => run[r].pc \in ToSend
           /\ Busy(r)' => Busy(r)
           /\ sends' = sends \/ Call(r)
<1> USE DEF At, ToSend, Busy, InWindow
<1>1. CASE Evaluate(r)
    BY <1>1, EvaluateMoves DEF Evaluate, observed
<1>2. CASE Override(r)
  <2>1. OnlyRun(r) /\ run'[r].pc = "gate"
      BY <1>2 DEF Override, OnlyRun, TypeOK, Locals
  <2> QED BY <1>2, <2>1 DEF Override, observed
<1>3. CASE Execute(r)
    BY <1>3, ExecuteMoves DEF Execute, observed
<1>5. CASE Prepare(r)
    BY <1>5, PrepareMoves DEF Prepare, observed
<1>6. CASE Begin(r)
    BY <1>6, StepMoves DEF Begin, observed
<1>7. CASE MarkDispatched(r)
    BY <1>7, StepMoves DEF MarkDispatched, observed
<1>8. CASE Call(r)
    BY <1>8, CallMoves DEF Call
<1>9. CASE Record(r)
    BY <1>9, RecordMoves DEF Record, observed
<1>10. CASE Settle(r)
    BY <1>10, ReturnMoves DEF Settle, observed
<1> QED BY <1>1, <1>2, <1>3, <1>5, <1>6, <1>7, <1>8, <1>9, <1>10 DEF Executes

(* A look that leaves the key of r protected takes r between a look and an *)
(* outcome only if no other run of the key is there.                       *)
LEMMA LookAlone ==
    ASSUME TypeOK, OnRecord, NEW r \in Runs, Look(r), Protected(Key(r))', Busy(r)',
           NEW q \in Runs, q # r, Key(q) = Key(r)
    PROVE  ~Busy(q)
<1> DEFINE k == Key(r)
<1>1. kind' = kind /\ raced \subseteq raced'
    BY DEF Look, Observe
<1>2. Protected(k)
    BY <1>1, ProtectedWas DEF Key
<1>3. ledger[k] \notin Marked
  <2> SUFFICES ASSUME ledger[k] \in Marked PROVE FALSE
      OBVIOUS
  <2>1. CASE ledger[k] \in Outcomes
    <3>1. With(r, "settle", ledger[k], FALSE, "ledger")
        BY <1>2, <2>1 DEF Look, Protected
    <3>2. run'[r].pc = "settle" /\ run'[r].source = "ledger"
        BY <3>1 DEF With, TypeOK, Locals
    <3> QED BY <3>2 DEF Busy, InWindow, At
  <2>2. CASE ledger[k] = "remote_command_dispatched"
    <3>1. With(r, "settle", "failed", FALSE, "unknown")
        BY <1>2, <2>2 DEF Look, Protected, Outcomes
    <3>2. run'[r].pc = "settle" /\ run'[r].source = "unknown"
        BY <3>1 DEF With, TypeOK, Locals
    <3> QED BY <3>2 DEF Busy, InWindow, At
  <2> QED BY <2>1, <2>2 DEF Marked
<1>4. k \notin raced'
    BY DEF Protected, Key
<1>5. ~InWindow(q)
    BY <1>3, <1>4 DEF Look, Observe
<1>6. run[q].pc \notin {"call", "record"}
    BY <1>2, <1>3 DEF OnRecord, Settled, Marked
<1> QED BY <1>5, <1>6 DEF Busy

LEMMA AloneNext ==
    ASSUME TypeOK, Alone, OnRecord, [Next]_vars
    PROVE  Alone'
<1>1. ASSUME UNCHANGED << kind, raced >>, \A r \in Runs : Busy(r)' => Busy(r)
      PROVE  Alone'
    BY <1>1, ProtectedStays DEF Alone, Key
<1>2. ASSUME NEW r \in Runs, Look(r) PROVE Alone'
  <2>1. OnlyRun(r) /\ kind' = kind /\ raced \subseteq raced'
      BY <1>2, LookMoves DEF Look, Observe
  <2>2. \A q \in Runs : q # r => Busy(q)' = Busy(q)
      BY <2>1 DEF OnlyRun, Busy, InWindow, At
  <2>3. \A q \in Runs : q # r /\ Key(q) = Key(r) /\ Protected(Key(r))' /\ Busy(r)' => ~Busy(q)
      BY <1>2, LookAlone
  <2>4. \A k : Protected(k)' => Protected(k)
      BY <2>1, ProtectedWas
  <2> SUFFICES ASSUME NEW p \in Runs, NEW q \in Runs, Key(p) = Key(q), Protected(Key(q))',
                      Busy(p)', Busy(q)'
               PROVE  p = q
      BY DEF Alone, Key
  <2>5. Protected(Key(q))
      BY <2>4 DEF Key
  <2> QED BY <2>2, <2>3, <2>5 DEF Alone
<1>3. ASSUME NEW r \in Runs, Evaluate(r) \/ Override(r) \/ Execute(r) \/ Executes(r), ~Look(r)
      PROVE  Alone'
  <2>1. OnlyRun(r) /\ UNCHANGED << kind, raced >> /\ (Busy(r)' => Busy(r))
      BY <1>3, RunMoves
  <2>2. \A q \in Runs : Busy(q)' => Busy(q)
      BY <2>1 DEF OnlyRun, Busy, InWindow, At
  <2> QED BY <1>1, <2>1, <2>2
<1>4. CASE Crash
  <2>1. \A q \in Runs : ~Busy(q)'
      BY <1>4 DEF Crash, Busy, InWindow, At, InFlight, InExecute, NewRun
  <2> QED BY <1>1, <1>4, <2>1 DEF Crash, observed
<1>5. CASE UNCHANGED vars
  <2>1. \A q \in Runs : Busy(q)' = Busy(q)
      BY <1>5 DEF vars, Busy, InWindow, At
  <2> QED BY <1>1, <1>5, <2>1 DEF vars, observed
<1> QED BY <1>2, <1>3, <1>4, <1>5 DEF Next, Executes

(* The ledger is left alone.                                               *)
LEMMA RecordStays ==
    ASSUME OnRecord, UNCHANGED << kind, raced, ledger >>,
           \A q \in Runs : run'[q] = run[q] \/ Settled(run'[q], ledger[Key(q)])
    PROVE  OnRecord'
BY ProtectedStays DEF OnRecord, Key

(* A step of r that writes the ledger: r has the key for itself, or writes *)
(* what is there already, and no outcome on record is replaced.            *)
LEMMA RecordWritten ==
    ASSUME TypeOK, LedgerInv, Alone, OnRecord, kind' = kind, raced \subseteq raced',
           NEW r \in Runs, OnlyRun(r),
           \A k \in Keys : k # Key(r) => ledger'[k] = ledger[k],
           Protected(Key(r)) =>
              /\ ledger[Key(r)] \in Outcomes => ledger'[Key(r)] = ledger[Key(r)]
              /\ Settled(run'[r], ledger'[Key(r)])
              /\ Busy(r) \/ ledger'[Key(r)] = ledger[Key(r)]
    PROVE  OnRecord'
<1> SUFFICES ASSUME NEW q \in Runs, Protected(Key(q)) PROVE Settled(run'[q], ledger'[Key(q)])
    BY ProtectedWas DEF OnRecord, Key
<1>0. Key(q) \in Keys
    BY KeyType
<1>1. CASE q = r
    BY <1>1
<1>2. CASE q # r /\ ledger'[Key(q)] = ledger[Key(q)]
    BY <1>2 DEF OnRecord, OnlyRun
<1>3. CASE q # r /\ Key(q) = Key(r) /\ Busy(r)
  <2>1. ~Busy(q)
      BY <1>3 DEF Alone
  <2>2. run'[q] = run[q] /\ Settled(run[q], ledger[Key(q)])
      BY <1>3 DEF OnRecord, OnlyRun
  <2>3. ledger[Key(q)] \in Outcomes => ledger'[Key(q)] = ledger[Key(q)]
      BY <1>3
  <2>4. run[q].pc = "settle" => run[q].status \in Outcomes
      BY DEF LedgerInv, Concluded
  <2> QED BY <2>1, <2>2, <2>3, <2>4 DEF Settled, Busy, InWindow, At
<1> QED BY <1>0, <1>1, <1>2, <1>3

(* What a call leaves behind: its own result to record, an unknown one, or *)
(* an exception; and what took effect stays so.                            *)
LEMMA CallTells ==
    ASSUME TypeOK, NEW r \in Runs, Call(r)
    PROVE  /\ run'[r].pc = "record" => run'[r].source = "call"
           /\ run'[r].pc = "settle" => run'[r].source = "unknown"
           /\ run'[r].pc = "done" => run'[r].source = "raised"
           /\ run'[r].status = "succeeded" => effects'[Key(r)]
           /\ \A k \in Keys : effects[k] => effects'[k]
<1>0. Key(r) \in Keys
    BY KeyType
<1>1. PICK effect \in BOOLEAN :
         /\ \/ \E status \in Outcomes, retryable \in BOOLEAN :
                  Reported(r, status, retryable, effect)
            \/ Raised(r)
         /\ effects' = [effects EXCEPT ![Key(r)] = @ \/ effect]
    BY DEF Call
<1>2. \A k \in Keys : effects[k] => effects'[k]
    BY <1>0, <1>1 DEF TypeOK
<1>3. effect => effects'[Key(r)]
    BY <1>0, <1>1 DEF TypeOK
<1>4. ASSUME NEW status \in Outcomes, NEW retryable \in BOOLEAN, Reported(r, status, retryable, effect)
      PROVE  /\ run'[r].pc = "record" /\ run'[r].source = "call"
             /\ run'[r].status = "succeeded" => effect
  <2>1. run'[r].pc = "record" /\ run'[r].source = "call" /\ run'[r].status = status
      BY <1>4 DEF Reported, With, TypeOK, Locals
  <2> QED BY <1>4, <2>1 DEF Reported
<1>5. CASE Raised(r)
  <2>1. CASE With(r, "settle", "failed", FALSE, "unknown")
    <3>1. run'[r].pc = "settle" /\ run'[r].status = "failed" /\ run'[r].source = "unknown"
        BY <2>1 DEF With, TypeOK, Locals
    <3> QED BY <1>2, <3>1
  <2>2. CASE Return(r, "failed", "raised")
      BY <1>2, <2>2, ReturnMoves
  <2> QED BY <1>5, <2>1, <2>2 DEF Raised
<1> QED BY <1>1, <1>2, <1>3, <1>4, <1>5

(* Every step keeps what the ledger says of the runs.                      *)
LEMMA OnRecordNext ==
    ASSUME TypeOK, LedgerInv, Alone, OnRecord, [Next]_vars
    PROVE  OnRecord'
<1> USE DEF At
<1>0. \A r \in Runs : Key(r) \in Keys
    BY KeyType
<1>2. ASSUME NEW r \in Runs, Evaluate(r) PROVE OnRecord'
    BY <1>2, EvaluateMoves, RecordStays DEF Evaluate, OnlyRun, Settled, observed
<1>3. ASSUME NEW r \in Runs, Override(r) PROVE OnRecord'
  <2>1. OnlyRun(r) /\ run'[r].pc = "gate"
      BY <1>3 DEF Override, OnlyRun, TypeOK, Locals
  <2> QED BY <1>3, <2>1, RecordStays DEF Override, OnlyRun, Settled, observed
<1>5. ASSUME NEW r \in Runs, Execute(r) PROVE OnRecord'
  <2>1. CASE Return(r, "rejected", "unsent")
      BY <1>5, <2>1, ReturnMoves, RecordStays DEF Execute, OnlyRun, Settled, observed, Outcomes
  <2>2. CASE run' = [run EXCEPT ![r] = [@ EXCEPT !.pc = "look", !.attempts = 1]]
    <3>1. OnlyRun(r) /\ run'[r].pc = "look"
        BY <2>2 DEF OnlyRun, TypeOK, Locals
    <3> QED BY <1>5, <3>1, RecordStays DEF Execute, OnlyRun, Settled, observed
  <2> QED BY <1>5, <2>1, <2>2 DEF Execute
<1>6. ASSUME NEW r \in Runs, Look(r) PROVE OnRecord'
  <2> DEFINE k == Key(r)
  <2>0. UNCHANGED << kind, ledger >> /\ raced \subseteq raced'
      BY <1>6 DEF Look, Observe
  <2> SUFFICES ASSUME Protected(k) PROVE Settled(run'[r], ledger[k])
    <3>1. OnlyRun(r)
        BY <1>6, LookMoves
    <3> QED BY <2>0, <3>1, RecordWritten
  <2>1. CASE ledger[k] \in Outcomes
    <3>1. With(r, "settle", ledger[k], FALSE, "ledger")
        BY <1>6, <2>1 DEF Look, Protected
    <3>2. run'[r].pc = "settle" /\ run'[r].status = ledger[k] /\ run'[r].source = "ledger"
        BY <3>1 DEF With, TypeOK, Locals
    <3> QED BY <3>2 DEF Settled
  <2>2. CASE ledger[k] = "remote_command_dispatched"
    <3>1. With(r, "settle", "failed", FALSE, "unknown")
        BY <1>6, <2>2 DEF Look, Protected, Outcomes
    <3>2. run'[r].pc = "settle" /\ run'[r].source = "unknown"
        BY <3>1 DEF With, TypeOK, Locals
    <3> QED BY <3>2 DEF Settled
  <2>3. CASE ledger[k] \notin Marked
    <3>1. Step(r, FirstStep(k))
        BY <1>6, <2>3 DEF Look, Marked
    <3>2. FirstStep(k) \in {"begin", "prepare"}
        BY DEF FirstStep, Protected, Guarded
    <3>3. OnlyRun(r) /\ run'[r].pc \in {"begin", "prepare"}
        BY <3>1, <3>2, StepMoves
    <3> QED BY <2>3, <3>3 DEF Settled
  <2> QED BY <2>1, <2>2, <2>3 DEF Marked
<1>7. ASSUME NEW r \in Runs, Prepare(r) PROVE OnRecord'
  <2>0. UNCHANGED << kind, raced, ledger >> /\ run[r].pc = "prepare"
      BY <1>7 DEF Prepare, observed
  <2>1. OnlyRun(r)
      BY <1>7, PrepareMoves
  <2>2. Protected(Key(r)) => ledger[Key(r)] \notin Marked
      BY <2>0 DEF OnRecord, Settled
  <2>3. Protected(Key(r)) => Settled(run'[r], ledger[Key(r)])
    <3>1. CASE With(r, "settle", "failed", FALSE, "unsent")
      <4>1. run'[r].pc = "settle" /\ run'[r].status = "failed" /\ run'[r].source = "unsent"
          BY <3>1 DEF With, TypeOK, Locals
      <4> QED BY <2>2, <4>1 DEF Settled
    <3>2. CASE Return(r, "rejected", "unsent")
        BY <2>2, <3>2, ReturnMoves DEF Settled, Outcomes
    <3>3. CASE Step(r, "begin")
        BY <2>2, <3>3, StepMoves DEF Settled
    <3> QED BY <1>7, <3>1, <3>2, <3>3 DEF Prepare
  <2> QED BY <2>0, <2>1, <2>3, RecordWritten
<1>8. ASSUME NEW r \in Runs, Begin(r) PROVE OnRecord'
  <2>0. UNCHANGED << kind, raced >> /\ run[r].pc = "begin" /\ Busy(r)
      BY <1>8 DEF Begin, Busy, InWindow, observed
  <2>1. OnlyRun(r) /\ run'[r].pc = "mark"
      BY <1>8, StepMoves DEF Begin
  <2>2. ledger' = [ledger EXCEPT ![Key(r)] = IF @ = "none" THEN "attempt_started" ELSE @]
      BY <1>8 DEF Begin
  <2>3. Protected(Key(r)) => ledger[Key(r)] \notin Marked
      BY <2>0 DEF OnRecord, Settled
  <2>4. /\ \A k \in Keys : k # Key(r) => ledger'[k] = ledger[k]
        /\ ledger'[Key(r)] \in {ledger[Key(r)], "attempt_started"}
      BY <1>0, <2>2 DEF TypeOK
  <2>5. Protected(Key(r)) => ledger[Key(r)] \notin Outcomes /\ Settled(run'[r], ledger'[Key(r)])
      BY <2>1, <2>3, <2>4 DEF Settled, Marked, Outcomes
  <2> QED BY <2>0, <2>1, <2>4, <2>5, RecordWritten
<1>9. ASSUME NEW r \in Runs, MarkDispatched(r) PROVE OnRecord'
  <2>0. UNCHANGED << kind, raced >> /\ run[r].pc = "mark" /\ Busy(r)
      BY <1>9 DEF MarkDispatched, Busy, InWindow, observed
  <2>1. OnlyRun(r) /\ run'[r].pc = "call"
      BY <1>9, StepMoves DEF MarkDispatched
  <2>2. ledger' = [ledger EXCEPT ![Key(r)] = "remote_command_dispatched"]
      BY <1>9 DEF MarkDispatched
  <2>3. Protected(Key(r)) => ledger[Key(r)] \notin Marked
      BY <2>0 DEF OnRecord, Settled
  <2>4. /\ \A k \in Keys : k # Key(r) => ledger'[k] = ledger[k]
        /\ ledger'[Key(r)] = "remote_command_dispatched"
      BY <1>0, <2>2 DEF TypeOK
  <2>5. Protected(Key(r)) => ledger[Key(r)] \notin Outcomes /\ Settled(run'[r], ledger'[Key(r)])
      BY <2>1, <2>3, <2>4 DEF Settled, Marked
  <2> QED BY <2>0, <2>1, <2>4, <2>5, RecordWritten
<1>10. ASSUME NEW r \in Runs, Call(r) PROVE OnRecord'
  <2>0. UNCHANGED << kind, raced, ledger >> /\ run[r].pc = "call"
      BY <1>10 DEF Call
  <2>1. OnlyRun(r) /\ run'[r].pc \in {"record", "settle", "done"} /\ run'[r].status \in Outcomes
      BY <1>10, CallMoves
  <2>2. /\ run'[r].pc = "record" => run'[r].source = "call"
        /\ run'[r].pc = "settle" => run'[r].source = "unknown"
        /\ run'[r].pc = "done" => run'[r].source = "raised"
      BY <1>10, CallTells
  <2>3. Protected(Key(r)) => ledger[Key(r)] = "remote_command_dispatched"
      BY <2>0 DEF OnRecord, Settled
  <2>4. Protected(Key(r)) => Settled(run'[r], ledger[Key(r)])
      BY <2>1, <2>2, <2>3 DEF Settled
  <2> QED BY <2>0, <2>1, <2>4, RecordWritten
<1>11. ASSUME NEW r \in Runs, Record(r) PROVE OnRecord'
  <2>0. UNCHANGED << kind, raced >> /\ run[r].pc = "record" /\ Busy(r)
      BY <1>11 DEF Record, Busy, InWindow, observed
  <2>1. OnlyRun(r) /\ run'[r].pc \in {"settle", "look"} /\ run'[r].status = run[r].status
      BY <1>11, RecordMoves
  <2>2. run'[r].pc = "settle" => run'[r].source = run[r].source
    <3>1. CASE Step(r, "settle")
        BY <3>1, StepMoves
    <3>2. CASE run' = [run EXCEPT ![r] = [@ EXCEPT !.pc = "look", !.attempts = run[r].attempts + 1]]
        BY <3>2 DEF TypeOK, Locals
    <3> QED BY <1>11, <3>1, <3>2 DEF Record
  <2>3. ledger' = IF Guarded(Key(r)) THEN [ledger EXCEPT ![Key(r)] = run[r].status] ELSE ledger
      BY <1>11 DEF Record
  <2>4. Protected(Key(r)) => ledger[Key(r)] = "remote_command_dispatched" /\ run[r].source = "call"
      BY <2>0 DEF OnRecord, Settled
  <2>5. /\ \A k \in Keys : k # Key(r) => ledger'[k] = ledger[k]
        /\ Guarded(Key(r)) => ledger'[Key(r)] = run[r].status
      BY <1>0, <2>3 DEF TypeOK
  <2>6. Protected(Key(r)) => ledger[Key(r)] \notin Outcomes /\ Settled(run'[r], ledger'[Key(r)])
      BY <2>1, <2>2, <2>4, <2>5 DEF Settled, Outcomes, Protected
  <2> QED BY <2>0, <2>1, <2>5, <2>6, RecordWritten
<1>12. ASSUME NEW r \in Runs, Settle(r) PROVE OnRecord'
  <2>0. /\ UNCHANGED << kind, raced >>
        /\ run[r].pc = "settle" /\ run[r].status \in Outcomes
      BY <1>12 DEF Settle, LedgerInv, Concluded, observed
  <2>1. OnlyRun(r) /\ run'[r].pc = "done" /\ run'[r].status = run[r].status
        /\ run'[r].source = run[r].source
      BY <1>12, ReturnMoves DEF Settle
  <2>2. ledger' = IF Guarded(Key(r)) /\ run[r].source \notin {"ledger", "unknown"}
                    THEN [ledger EXCEPT ![Key(r)] = run[r].status] ELSE ledger
      BY <1>12 DEF Settle
  <2>3. \A k \in Keys : k # Key(r) => ledger'[k] = ledger[k]
      BY <1>0, <2>2 DEF TypeOK
  <2>4. ASSUME Protected(Key(r))
        PROVE  /\ ledger[Key(r)] \in Outcomes => ledger'[Key(r)] = ledger[Key(r)]
               /\ Settled(run'[r], ledger'[Key(r)])
               /\ Busy(r) \/ ledger'[Key(r)] = ledger[Key(r)]
    <3>1. Settled(run[r], ledger[Key(r)])
        BY <2>4 DEF OnRecord
    <3>2. CASE run[r].source \in {"ledger", "unknown"}
        BY <2>0, <2>1, <2>2, <3>1, <3>2 DEF Settled
    <3>3. CASE run[r].source = "call"
      <4>1. ledger[Key(r)] = run[r].status
          BY <2>0, <3>1, <3>3 DEF Settled
      <4>2. ledger'[Key(r)] = run[r].status
          BY <1>0, <2>2, <2>4, <3>3 DEF TypeOK, Protected
      <4> QED BY <2>0, <2>1, <4>1, <4>2 DEF Settled
    <3>4. CASE run[r].source = "unsent" /\ ledger[Key(r)] \notin Marked
        BY <2>0, <2>1, <3>4 DEF Settled, Marked, Busy, InWindow
    <3> QED BY <2>0, <3>1, <3>2, <3>3, <3>4 DEF Settled
  <2> QED BY <2>0, <2>1, <2>3, <2>4, RecordWritten
<1>13. CASE Crash
  <2>1. \A q \in Runs : run'[q] = run[q] \/ run'[q].pc = "lost"
      BY <1>13 DEF Crash, NewRun
  <2> QED BY <1>13, <2>1, RecordStays DEF Crash, Settled, observed
<1>14. CASE UNCHANGED vars
    BY <1>14, RecordStays DEF vars, observed
<1> QED BY <1>2, <1>3, <1>5, <1>6, <1>7, <1>8, <1>9, <1>10, <1>11, <1>12, <1>13, <1>14
        DEF Next, Executes

(* Nothing is sent, and nobody starts on the way to a command.             *)
LEMMA QuietKeeps ==
    ASSUME Fresh, SentOnce, UNCHANGED << kind, raced, sends >>,
           \A q \in Runs : run'[q].pc \in ToSend => run[q].pc \in ToSend
    PROVE  Fresh' /\ SentOnce'
BY ProtectedStays DEF Fresh, SentOnce, Key

LEMMA FreshNext ==
    ASSUME TypeOK, LedgerInv, Alone, Fresh, SentOnce, [Next]_vars
    PROVE  Fresh' /\ SentOnce'
<1>0. \A r \in Runs : Key(r) \in Keys
    BY KeyType
<1>2. ASSUME NEW r \in Runs, Look(r) PROVE Fresh' /\ SentOnce'
  <2>1. kind' = kind /\ raced \subseteq raced' /\ sends' = sends
      BY <1>2 DEF Look, Observe
  <2>2. \A k : Protected(k)' => Protected(k)
      BY <2>1, ProtectedWas
  <2>3. SentOnce'
      BY <2>1, <2>2 DEF SentOnce
  <2>4. run'[r].pc \in ToSend /\ Protected(Key(r)) => sends[Key(r)] = 0
      BY <1>0, <1>2, LookMoves DEF Protected, LedgerInv, Tracked, TypeOK
  <2>5. OnlyRun(r)
      BY <1>2, LookMoves
  <2>6. Fresh'
      BY <2>1, <2>2, <2>4, <2>5 DEF Fresh, OnlyRun, Key
  <2> QED BY <2>3, <2>6
<1>3. ASSUME NEW r \in Runs, Call(r) PROVE Fresh' /\ SentOnce'
  <2>1. /\ UNCHANGED << kind, raced >>
        /\ sends' = [sends EXCEPT ![Key(r)] = IF @ < 2 THEN @ + 1 ELSE @]
        /\ run[r].pc = "call"
      BY <1>3 DEF Call, At
  <2>2. OnlyRun(r) /\ run'[r].pc \notin ToSend
      BY <1>3, CallMoves DEF ToSend
  <2>3. \A k \in Keys : Protected(k)' = Protected(k)
      BY <2>1, ProtectedStays
  <2>4. Protected(Key(r)) => sends'[Key(r)] = 1
      BY <1>0, <2>1 DEF Fresh, ToSend, TypeOK
  <2>5. \A k \in Keys : k # Key(r) => sends'[k] = sends[k]
      BY <2>1 DEF TypeOK
  <2>6. SentOnce'
      BY <2>3, <2>4, <2>5 DEF SentOnce
  <2>7. ASSUME NEW q \in Runs, run'[q].pc \in ToSend, Protected(Key(q))
        PROVE  sends'[Key(q)] = 0
    <3>1. q # r /\ run[q].pc \in ToSend
        BY <2>2, <2>7 DEF OnlyRun
    <3>2. Busy(q) /\ Busy(r)
        BY <2>1, <3>1 DEF ToSend, Busy, InWindow
    <3>3. Key(q) # Key(r)
        BY <2>7, <3>1, <3>2 DEF Alone
    <3> QED BY <1>0, <2>5, <2>7, <3>1, <3>3 DEF Fresh
  <2>8. Fresh'
      BY <1>0, <2>3, <2>7 DEF Fresh, Key
  <2> QED BY <2>6, <2>8
<1>4. ASSUME NEW r \in Runs, Evaluate(r) \/ Override(r) \/ Execute(r) \/ Executes(r),
             ~Look(r), ~Call(r)
      PROVE  Fresh' /\ SentOnce'
    BY <1>4, RunMoves, QuietKeeps DEF OnlyRun
<1>6. CASE Crash
  <2>1. \A q \in Runs : run'[q].pc \notin ToSend
      BY <1>6 DEF Crash, ToSend, InFlight, InExecute, NewRun
  <2> QED BY <1>6, <2>1, QuietKeeps DEF Crash, observed
<1>7. CASE UNCHANGED vars
    BY <1>7, QuietKeeps DEF vars, observed
<1> QED BY <1>2, <1>3, <1>4, <1>6, <1>7 DEF Next

LEMMA AttemptInit == Init => AttemptInv
<1> SUFFICES ASSUME Init PROVE AttemptInv
    OBVIOUS
<1>1. \A r \in Runs : run[r].pc = "new"
    BY DEF Init, NewRun
<1>2. Alone /\ Fresh /\ OnRecord
    BY <1>1 DEF Alone, Busy, InWindow, At, Fresh, ToSend, OnRecord, Settled
<1>3. SentOnce
    BY DEF Init, SentOnce
<1> QED BY <1>2, <1>3, TypeInit, LedgerInit DEF AttemptInv

LEMMA AttemptNext == AttemptInv /\ [Next]_vars => AttemptInv'
BY TypeNext, LedgerNext, AloneNext, OnRecordNext, FreshNext DEF AttemptInv

(* execute sends a restart or a patch at most once, unless two runs look   *)
(* at the ledger before either has marked it: for any number of runs that  *)
(* carry its key, of retries, overrides and crashes, and without any lock. *)
THEOREM AttemptsSentOnce == Spec => []SentOnce
<1>1. AttemptInv => SentOnce
    BY DEF AttemptInv
<1> QED BY <1>1, AttemptInit, AttemptNext, PTL DEF Spec

----------------------------------------------------------------------------
(* What execute returns.  A success, returned or on record, took effect.   *)
Truthful ==
    /\ \A r \in Runs : run[r].status = "succeeded" => effects[Key(r)]
    /\ \A k \in Keys : ledger[k] = "succeeded" => effects[k]

(* A result is recorded only of a command that was sent.                   *)
SentFirst == \A r \in Runs : At(r, "record") => sends[Key(r)] > 0

AnswerInv == Truthful /\ SentFirst

(* A step that sends nothing, and records or returns no success that was   *)
(* not known before.                                                       *)
LEMMA TruthStays ==
    ASSUME Truthful, UNCHANGED effects,
           \A q \in Runs : run'[q].status = "succeeded" =>
                              run[q].status = "succeeded" \/ ledger[Key(q)] = "succeeded",
           \A k \in Keys : ledger'[k] = "succeeded" =>
                              ledger[k] = "succeeded" \/ \E q \in Runs : Key(q) = k /\ run[q].status = "succeeded"
    PROVE  Truthful'
<1>0. \A r \in Runs : Key(r) \in Keys
    BY KeyType
<1> QED BY <1>0 DEF Truthful, Key

(* Nothing is sent, and nobody comes to record a result.                   *)
LEMMA SentStays ==
    ASSUME SentFirst, UNCHANGED sends, \A q \in Runs : run'[q].pc = "record" => run[q].pc = "record"
    PROVE  SentFirst'
BY DEF SentFirst, At, Key

(* Steps that leave the ledger alone and take a run r nowhere near a       *)
(* result.                                                                 *)
LEMMA TruthOutside ==
    ASSUME Truthful, SentFirst, UNCHANGED << ledger, sends, effects >>,
           \A q \in Runs : \/ run'[q].pc = run[q].pc /\ run'[q].status = run[q].status
                           \/ run'[q].pc # "record" /\ run'[q].status # "succeeded"
                           \/ run'[q].pc # "record" /\ run'[q].status = run[q].status
    PROVE  Truthful' /\ SentFirst'
BY TruthStays, SentStays

LEMMA TruthNext ==
    ASSUME TypeOK, Truthful, SentFirst, [Next]_vars
    PROVE  Truthful' /\ SentFirst'
<1> USE DEF At
<1>0. \A r \in Runs : Key(r) \in Keys
    BY KeyType
<1>2. ASSUME NEW r \in Runs, Evaluate(r) PROVE Truthful' /\ SentFirst'
  <2>1. PICK execute \in BOOLEAN :
                run' = [run EXCEPT ![r] = [@ EXCEPT !.pc = "gate", !.execute = execute]]
      BY <1>2 DEF Evaluate
  <2>2. OnlyRun(r) /\ run'[r].pc = "gate" /\ run'[r].status = run[r].status
      BY <2>1 DEF OnlyRun, TypeOK, Locals
  <2> QED BY <1>2, <2>2, TruthOutside DEF Evaluate, OnlyRun, observed
<1>3. ASSUME NEW r \in Runs, Override(r) PROVE Truthful' /\ SentFirst'
  <2>1. OnlyRun(r) /\ run'[r].pc = "gate" /\ run'[r].status = run[r].status
      BY <1>3 DEF Override, OnlyRun, TypeOK, Locals
  <2> QED BY <1>3, <2>1, TruthOutside DEF Override, OnlyRun, observed
<1>5. ASSUME NEW r \in Runs, Execute(r) PROVE Truthful' /\ SentFirst'
  <2>0. UNCHANGED << ledger, sends, effects >>
      BY <1>5 DEF Execute, observed
  <2>1. CASE Return(r, "rejected", "unsent")
      BY <2>0, <2>1, ReturnMoves, TruthOutside DEF OnlyRun
  <2>2. CASE run' = [run EXCEPT ![r] = [@ EXCEPT !.pc = "look", !.attempts = 1]]
    <3>1. OnlyRun(r) /\ run'[r].pc = "look" /\ run'[r].status = run[r].status
        BY <2>2 DEF OnlyRun, TypeOK, Locals
    <3> QED BY <2>0, <3>1, TruthOutside DEF OnlyRun
  <2> QED BY <1>5, <2>1, <2>2 DEF Execute
<1>6. ASSUME NEW r \in Runs, Look(r) PROVE Truthful' /\ SentFirst'
  <2> DEFINE k == Key(r)
  <2>0. UNCHANGED << ledger, sends, effects >>
      BY <1>6 DEF Look
  <2>1. CASE With(r, "settle", ledger[k], FALSE, "ledger")
      BY <2>0, <2>1, WithMoves, TruthStays, SentStays DEF OnlyRun
  <2>2. CASE With(r, "settle", "failed", FALSE, "unknown")
      BY <2>0, <2>2, WithMoves, TruthOutside DEF OnlyRun
  <2>3. CASE Step(r, FirstStep(k))
    <3>1. FirstStep(k) # "record"
        BY <1>0 DEF FirstStep, TypeOK, Kinds
    <3> QED BY <2>0, <2>3, <3>1, StepMoves, TruthOutside DEF OnlyRun
  <2> QED BY <1>6, <2>1, <2>2, <2>3 DEF Look
<1>7. ASSUME NEW r \in Runs, Prepare(r) PROVE Truthful' /\ SentFirst'
  <2>0. UNCHANGED << ledger, sends, effects >>
      BY <1>7 DEF Prepare, observed
  <2>1. CASE With(r, "settle", "failed", FALSE, "unsent")
      BY <2>0, <2>1, WithMoves, TruthOutside DEF OnlyRun
  <2>2. CASE Return(r, "rejected", "unsent")
      BY <2>0, <2>2, ReturnMoves, TruthOutside DEF OnlyRun
  <2>3. CASE Step(r, "begin")
      BY <2>0, <2>3, StepMoves, TruthOutside DEF OnlyRun
  <2> QED BY <1>7, <2>1, <2>2, <2>3 DEF Prepare
<1>8. ASSUME NEW r \in Runs, Begin(r) \/ MarkDispatched(r) PROVE Truthful' /\ SentFirst'
  <2>1. /\ OnlyRun(r) /\ run'[r].pc \in {"mark", "call"} /\ run'[r].status = run[r].status
        /\ UNCHANGED << sends, effects >>
      BY <1>8, StepMoves DEF Begin, MarkDispatched, observed
  <2>2. \A k \in Keys : ledger'[k] = "succeeded" => ledger[k] = "succeeded"
      BY <1>0, <1>8 DEF Begin, MarkDispatched, TypeOK
  <2> QED BY <2>1, <2>2, TruthStays, SentStays DEF OnlyRun
<1>9. ASSUME NEW r \in Runs, Call(r) PROVE Truthful' /\ SentFirst'
  <2>1. OnlyRun(r)
      BY <1>9, CallMoves
  <2>2. ledger' = ledger /\ sends' = [sends EXCEPT ![Key(r)] = IF @ < 2 THEN @ + 1 ELSE @]
      BY <1>9 DEF Call
  <2>3. /\ run'[r].status = "succeeded" => effects'[Key(r)]
        /\ \A k \in Keys : effects[k] => effects'[k]
      BY <1>9, CallTells
  <2>4. sends'[Key(r)] > 0 /\ \A k \in Keys : sends[k] > 0 => sends'[k] > 0
      BY <1>0, <2>2 DEF TypeOK
  <2>5. Truthful'
      BY <1>0, <2>1, <2>2, <2>3 DEF Truthful, OnlyRun, Key
  <2>6. SentFirst'
      BY <1>0, <2>1, <2>4 DEF SentFirst, OnlyRun, Key
  <2> QED BY <2>5, <2>6
<1>10. ASSUME NEW r \in Runs, Record(r) PROVE Truthful' /\ SentFirst'
  <2>1. /\ OnlyRun(r) /\ run'[r].pc \in {"settle", "look"} /\ run'[r].status = run[r].status
        /\ UNCHANGED << sends, effects >>
      BY <1>10, RecordMoves DEF Record, observed
  <2>2. \A k \in Keys : ledger'[k] = "succeeded" =>
                           ledger[k] = "succeeded" \/ (Key(r) = k /\ run[r].status = "succeeded")
      BY <1>0, <1>10 DEF Record, TypeOK
  <2> QED BY <2>1, <2>2, TruthStays, SentStays DEF OnlyRun
<1>11. ASSUME NEW r \in Runs, Settle(r) PROVE Truthful' /\ SentFirst'
  <2>1. /\ OnlyRun(r) /\ run'[r].pc = "done" /\ run'[r].status = run[r].status
        /\ UNCHANGED << sends, effects >>
      BY <1>11, ReturnMoves DEF Settle, observed
  <2>2. \A k \in Keys : ledger'[k] = "succeeded" =>
                           ledger[k] = "succeeded" \/ (Key(r) = k /\ run[r].status = "succeeded")
      BY <1>0, <1>11 DEF Settle, TypeOK
  <2> QED BY <2>1, <2>2, TruthStays, SentStays DEF OnlyRun
<1>12. CASE Crash
  <2>1. \A q \in Runs : run'[q] = run[q] \/ (run'[q].pc = "lost" /\ run'[q].status = "none")
      BY <1>12 DEF Crash, NewRun
  <2> QED BY <1>12, <2>1, TruthOutside DEF Crash, observed
<1>13. CASE UNCHANGED vars
    BY <1>13, TruthOutside DEF vars, observed
<1> QED BY <1>2, <1>3, <1>5, <1>6, <1>7, <1>8, <1>9, <1>10, <1>11, <1>12, <1>13
        DEF Next, Executes

LEMMA AnswerInit == Init => AnswerInv
<1> SUFFICES ASSUME Init PROVE AnswerInv
    OBVIOUS
<1>0. \A r \in Runs : run[r].pc = "new" /\ run[r].status = "none"
    BY DEF Init, NewRun
<1>1. Truthful /\ SentFirst
    BY <1>0 DEF Init, Truthful, SentFirst, At
<1> QED BY <1>1 DEF AnswerInv

LEMMA AnswerNext == AttemptInv /\ AnswerInv /\ [Next]_vars => AnswerInv'
BY TruthNext DEF AttemptInv, AnswerInv

(* What execute returns from its own call or from the ledger is what the   *)
(* ledger holds from then on, unless two runs of the key raced, and a      *)
(* success it reports took effect, raced or not: for any number of runs    *)
(* that carry the key, of retries, overrides and crashes.                  *)
THEOREM AttemptsAnswersOnRecord == Spec => []AnswersOnRecord
<1>1. AttemptInv /\ AnswerInv => AnswersOnRecord
    BY DEF AttemptInv, AnswerInv, Truthful, OnRecord, Settled, AnswersOnRecord, At
<1> QED BY <1>1, AttemptInit, AttemptNext, AnswerInit, AnswerNext, PTL DEF Spec

----------------------------------------------------------------------------
(* The refinement.  What the abstract action shows of a key k.             *)
Same(k) == PhaseOf(k)' = PhaseOf(k) /\ StarterOf(k)' = StarterOf(k) /\ AnswerOf(k)' = AnswerOf(k)

Starts(k) ==
    /\ PhaseOf(k) = "open" /\ PhaseOf(k)' = "started"
    /\ StarterOf(k)' = {1} /\ AnswerOf(k)' = AnswerOf(k)

Closes(k, outcome) ==
    /\ PhaseOf(k) = "started" \/ (PhaseOf(k) = "open" /\ outcome = "failed")
    /\ PhaseOf(k)' = "closed"
    /\ AnswerOf(k)' = {[outcome |-> outcome, result |-> "recorded"]}
    /\ StarterOf(k)' = StarterOf(k)

(* Nothing is sent and the ledger tells no new outcome of k.               *)
LEMMA SameWhen ==
    ASSUME UNCHANGED << kind, raced, sends >>, NEW k \in Keys,
           ledger'[k] = ledger[k] \/ {ledger[k], ledger'[k]} \cap Outcomes = {}
    PROVE  Same(k)
BY ProtectedStays DEF Same, PhaseOf, StarterOf, AnswerOf, Recorded, Sent

LEMMA SameUnprotected ==
    ASSUME UNCHANGED << kind, raced >>, NEW k \in Keys, ~Protected(k)
    PROVE  Same(k)
BY ProtectedStays DEF Same, PhaseOf, StarterOf, AnswerOf, Recorded, Sent

(* A call starts the action of its key.                                    *)
LEMMA CallStarts ==
    ASSUME AttemptInv, AnswerInv, NEW r \in Runs, Call(r), Protected(Key(r))
    PROVE  Starts(Key(r)) /\ \A k \in Keys \ {Key(r)} : Same(k)
<1> DEFINE x == Key(r)
<1>0. x \in Keys /\ TypeOK /\ UNCHANGED << kind, raced, ledger >> /\ run[r].pc = "call"
    BY KeyType DEF AttemptInv, Call, At
<1>1. sends' = [sends EXCEPT ![x] = IF @ < 2 THEN @ + 1 ELSE @]
    BY DEF Call
<1>2. sends[x] = 0
    BY <1>0 DEF AttemptInv, Fresh, ToSend
<1>3. ledger[x] \notin Outcomes
    BY <1>0 DEF AttemptInv, OnRecord, Settled, Outcomes
<1>4. sends'[x] = 1 /\ \A k \in Keys \ {x} : sends'[k] = sends[k]
    BY <1>0, <1>1, <1>2 DEF TypeOK
<1>5. Starts(x)
    BY <1>0, <1>2, <1>3, <1>4, ProtectedStays DEF Starts, PhaseOf, StarterOf, AnswerOf, Recorded, Sent
<1>6. \A k \in Keys \ {x} : Same(k)
    BY <1>0, <1>4, ProtectedStays DEF Same, PhaseOf, StarterOf, AnswerOf, Recorded, Sent
<1> QED BY <1>5, <1>6

(* The outcome of a command is written over its mark.                      *)
LEMMA RecordCloses ==
    ASSUME AttemptInv, AnswerInv, NEW r \in Runs, Record(r), Protected(Key(r))
    PROVE  /\ Closes(Key(r), run[r].status) /\ run[r].status \in Outcomes
           /\ \A k \in Keys \ {Key(r)} : Same(k)
<1> DEFINE x == Key(r)
<1>0. x \in Keys /\ TypeOK /\ UNCHANGED << kind, raced, sends >> /\ run[r].pc = "record"
    BY KeyType DEF AttemptInv, Record, At, observed
<1>1. ledger' = [ledger EXCEPT ![x] = run[r].status]
    BY DEF Record, Protected
<1>2. sends[x] > 0 /\ ledger[x] \notin Outcomes
    BY <1>0 DEF AttemptInv, OnRecord, Settled, AnswerInv, SentFirst, At, Outcomes
<1>3. run[r].status \in Outcomes
    BY <1>0 DEF AttemptInv, LedgerInv, Concluded
<1>4. ledger'[x] = run[r].status /\ \A k \in Keys \ {x} : ledger'[k] = ledger[k]
    BY <1>0, <1>1 DEF TypeOK
<1>5. Closes(x, run[r].status)
    BY <1>0, <1>2, <1>3, <1>4, ProtectedStays DEF Closes, PhaseOf, StarterOf, AnswerOf, Recorded, Sent
<1>6. \A k \in Keys \ {x} : Same(k)
    BY <1>0, <1>4, SameWhen
<1> QED BY <1>3, <1>5, <1>6

(* The end of execute writes the outcome again, or closes as failed an     *)
(* action for which nothing was sent.                                      *)
LEMMA SettleCloses ==
    ASSUME AttemptInv, AnswerInv, NEW r \in Runs, Settle(r), Protected(Key(r))
    PROVE  /\ Closes(Key(r), "failed") \/ Same(Key(r))
           /\ \A k \in Keys \ {Key(r)} : Same(k)
<1> DEFINE x == Key(r)
<1>0. x \in Keys /\ TypeOK /\ UNCHANGED << kind, raced, sends >> /\ run[r].pc = "settle"
    BY KeyType DEF AttemptInv, Settle, At, observed
<1>1. ledger' = IF run[r].source \notin {"ledger", "unknown"}
                  THEN [ledger EXCEPT ![x] = run[r].status] ELSE ledger
    BY DEF Settle, Protected
<1>2. Settled(run[r], ledger[x])
    BY DEF AttemptInv, OnRecord
<1>3. \A k \in Keys \ {x} : ledger'[k] = ledger[k]
    BY <1>0, <1>1 DEF TypeOK
<1>4. \A k \in Keys \ {x} : Same(k)
    BY <1>0, <1>3, SameWhen
<1>5. CASE run[r].source \in {"ledger", "unknown"}
    BY <1>0, <1>1, <1>4, <1>5, SameWhen
<1>6. CASE run[r].source = "call"
  <2>1. ledger'[x] = ledger[x]
      BY <1>0, <1>1, <1>2, <1>6 DEF Settled, TypeOK
  <2> QED BY <1>0, <1>4, <2>1, SameWhen
<1>7. CASE run[r].source = "unsent" /\ run[r].status = "failed" /\ ledger[x] \notin Marked
  <2>1. ledger'[x] = "failed"
      BY <1>0, <1>1, <1>7 DEF TypeOK
  <2>2. ~(sends[x] > 0)
      BY <1>0, <1>7 DEF AttemptInv, LedgerInv, Tracked, Protected
  <2>3. Closes(x, "failed")
      BY <1>0, <1>7, <2>1, <2>2, ProtectedStays
         DEF Closes, PhaseOf, StarterOf, AnswerOf, Recorded, Sent, Marked, Outcomes
  <2> QED BY <1>4, <2>3
<1> QED BY <1>0, <1>2, <1>5, <1>6, <1>7 DEF Settled

(* Every other step is invisible.                                          *)
LEMMA OthersAreSame ==
    ASSUME AttemptInv, AnswerInv, [Next]_vars, NEW k \in Keys,
           \A r \in Runs : Protected(Key(r)) => ~Call(r) /\ ~Record(r) /\ ~Settle(r)
    PROVE  Same(k)
<1>0. TypeOK /\ \A r \in Runs : Key(r) \in Keys
    BY KeyType DEF AttemptInv
<1>1. ASSUME NEW r \in Runs, Evaluate(r) \/ Override(r) \/ Execute(r) \/ Prepare(r)
      PROVE  Same(k)
    BY <1>1, SameWhen DEF Evaluate, Override, Execute, Prepare, observed
<1>2. ASSUME NEW r \in Runs, Look(r) PROVE Same(k)
  <2>1. UNCHANGED << kind, ledger, sends >>
      BY <1>2 DEF Look
  <2>2. CASE k \in raced' /\ k \notin raced
    <3>1. ledger[k] \notin Marked
        BY <1>2, <2>2 DEF Look, Observe
    <3>2. Guarded(k) => ~(sends[k] > 0)
        BY <3>1 DEF AttemptInv, LedgerInv, Tracked
    <3> QED BY <2>1, <3>1, <3>2
            DEF Same, PhaseOf, StarterOf, AnswerOf, Recorded, Sent, Protected, Guarded, Marked
  <2>3. CASE (k \in raced') = (k \in raced)
      BY <2>1, <2>3 DEF Same, PhaseOf, StarterOf, AnswerOf, Recorded, Sent, Protected, Guarded
  <2> QED BY <1>2, <2>2, <2>3 DEF Look, Observe
<1>3. ASSUME NEW r \in Runs, Begin(r) PROVE Same(k)
  <2>1. UNCHANGED << kind, raced, sends >>
      BY <1>3 DEF Begin, observed
  <2>2. ledger'[k] = ledger[k] \/ {ledger[k], ledger'[k]} \cap Outcomes = {}
      BY <1>0, <1>3 DEF Begin, TypeOK, Outcomes
  <2> QED BY <2>1, <2>2, SameWhen
<1>4. ASSUME NEW r \in Runs, MarkDispatched(r) PROVE Same(k)
  <2>1. UNCHANGED << kind, raced, sends >>
      BY <1>4 DEF MarkDispatched, observed
  <2>2. CASE ~Protected(k)
      BY <2>1, <2>2, SameUnprotected
  <2>3. CASE Protected(k)
    <3>1. k = Key(r) => ledger[k] \notin Marked
        BY <1>4, <2>3 DEF MarkDispatched, At, AttemptInv, OnRecord, Settled
    <3>2. ledger'[k] = ledger[k] \/ {ledger[k], ledger'[k]} \cap Outcomes = {}
        BY <1>0, <1>4, <3>1 DEF MarkDispatched, TypeOK, Marked, Outcomes
    <3> QED BY <2>1, <3>2, SameWhen
  <2> QED BY <2>2, <2>3
<1>5. ASSUME NEW r \in Runs, Call(r) \/ Record(r) \/ Settle(r) PROVE Same(k)
  <2>1. ~Protected(Key(r)) /\ UNCHANGED << kind, raced >>
      BY <1>5 DEF Call, Record, Settle, observed
  <2>2. CASE k = Key(r)
      BY <2>1, <2>2, SameUnprotected
  <2>3. CASE k # Key(r)
    <3>1. ledger'[k] = ledger[k] /\ sends'[k] = sends[k]
        BY <1>0, <1>5, <2>3 DEF Call, Record, Settle, TypeOK, observed
    <3> QED BY <2>1, <3>1, ProtectedStays DEF Same, PhaseOf, StarterOf, AnswerOf, Recorded, Sent
  <2> QED BY <2>2, <2>3
<1>6. CASE Crash
    BY <1>6, SameWhen DEF Crash, observed
<1>7. CASE UNCHANGED vars
    BY <1>7, SameWhen DEF vars, observed
<1> QED BY <1>1, <1>2, <1>3, <1>4, <1>5, <1>6, <1>7 DEF Next, Executes

(* The loop over the ledger implements the action that is started at most  *)
(* once and closed once, for every key of which no two runs are in the     *)
(* window at once; a key leaves the mapping before anything is sent.       *)
THEOREM AttemptsImplementAtMostOnce == Spec => ImplementsAtMostOnce
<1> DEFINE phase == [k \in Keys |-> PhaseOf(k)]
           starter == [k \in Keys |-> StarterOf(k)]
           answer == [k \in Keys |-> AnswerOf(k)]
<1>1. Init => AtMostOnce!Init
  <2> SUFFICES ASSUME Init PROVE AtMostOnce!Init
      OBVIOUS
  <2>1. \A k \in Keys : PhaseOf(k) = "open" /\ StarterOf(k) = {} /\ AnswerOf(k) = {}
      BY DEF Init, PhaseOf, StarterOf, AnswerOf, Recorded, Sent, Outcomes
  <2> QED BY <2>1 DEF AtMostOnce!Init
<1>2. AttemptInv /\ AnswerInv /\ [Next]_vars => [AtMostOnce!Next]_(AtMostOnce!vars)
  <2> SUFFICES ASSUME AttemptInv, AnswerInv, [Next]_vars PROVE [AtMostOnce!Next]_(AtMostOnce!vars)
      OBVIOUS
  <2>1. ASSUME \A k \in Keys : Same(k) PROVE [AtMostOnce!Next]_(AtMostOnce!vars)
    <3>1. phase' = phase /\ starter' = starter /\ answer' = answer
        BY <2>1 DEF Same
    <3> QED BY <3>1 DEF AtMostOnce!vars
  <2>2. ASSUME NEW x \in Keys, Starts(x), \A k \in Keys \ {x} : Same(k) PROVE AtMostOnce!Next
    <3>1. phase[x] = "open" /\ phase' = [phase EXCEPT ![x] = "started"]
        BY <2>2 DEF Starts, Same
    <3>2. starter' = [starter EXCEPT ![x] = {1}] /\ answer' = answer
        BY <2>2 DEF Starts, Same
    <3>3. AtMostOnce!Start(x, 1)
        BY <3>1, <3>2 DEF AtMostOnce!Start
    <3> QED BY <3>3 DEF AtMostOnce!Next
  <2>3. ASSUME NEW x \in Keys, NEW o \in Outcomes, Closes(x, o), \A k \in Keys \ {x} : Same(k)
        PROVE  AtMostOnce!Next
    <3>1. /\ phase[x] = "started" \/ (phase[x] = "open" /\ o = "failed")
          /\ phase' = [phase EXCEPT ![x] = "closed"]
        BY <2>3 DEF Closes, Same
    <3>2. answer' = [answer EXCEPT ![x] = {[outcome |-> o, result |-> "recorded"]}] /\ starter' = starter
        BY <2>3 DEF Closes, Same
    <3>3. AtMostOnce!Close(x, o, "recorded")
        BY <3>1, <3>2 DEF AtMostOnce!Close
    <3> QED BY <3>3 DEF AtMostOnce!Next
  <2>4. ASSUME NEW r \in Runs, Protected(Key(r)), Call(r) \/ Record(r) \/ Settle(r)
        PROVE  [AtMostOnce!Next]_(AtMostOnce!vars)
    <3>0. Key(r) \in Keys
        BY KeyType
    <3>1. CASE Call(r)
        BY <2>2, <2>4, <3>0, <3>1, CallStarts
    <3>2. CASE Record(r)
        BY <2>3, <2>4, <3>0, <3>2, RecordCloses
    <3>3. CASE Settle(r)
      <4>1. "failed" \in Outcomes
          BY DEF Outcomes
      <4> QED BY <2>1, <2>3, <2>4, <3>0, <3>3, <4>1, SettleCloses
    <3> QED BY <2>4, <3>1, <3>2, <3>3
  <2>5. CASE \A r \in Runs : Protected(Key(r)) => ~Call(r) /\ ~Record(r) /\ ~Settle(r)
      BY <2>1, <2>5, OthersAreSame
  <2> QED BY <2>4, <2>5
<1> QED BY <1>1, <1>2, AttemptInit, AttemptNext, AnswerInit, AnswerNext, PTL
        DEF Spec, ImplementsAtMostOnce, AtMostOnce!Spec

----------------------------------------------------------------------------
(* No step of the key k changes the mark of an orphaned command, nor takes *)
(* a run of k into the steps that could.                                   *)
Abandons(k) ==
    /\ sends'[k] = sends[k] /\ ledger'[k] = ledger[k]
    /\ \A q \in Runs : Key(q) = k /\ run'[q].pc \in InExecute \ {"look"} =>
          \/ run'[q].pc = run[q].pc /\ run'[q].source = run[q].source
          \/ run'[q].pc = "settle" /\ run'[q].source = "unknown"

LEMMA OrphansStay ==
    ASSUME TypeOK, [Next]_vars, NEW k \in Keys, Guarded(k), Orphaned(k)
    PROVE  Abandons(k)
<1> USE DEF At
<1>0. \A r \in Runs : Key(r) \in Keys
    BY KeyType
<1>1. ASSUME NEW r \in Runs, OnlyRun(r), run'[r].pc \notin InExecute \ {"look"}, UNCHANGED << ledger, sends >>
      PROVE  Abandons(k)
    BY <1>1 DEF Abandons, OnlyRun
<1>2. ASSUME NEW r \in Runs, OnlyRun(r), Key(r) # k, ledger'[k] = ledger[k], sends'[k] = sends[k]
      PROVE  Abandons(k)
    BY <1>2 DEF Abandons, OnlyRun
<1>4. ASSUME NEW r \in Runs, Evaluate(r) PROVE Abandons(k)
    BY <1>1, <1>4, EvaluateMoves DEF Evaluate, InExecute, observed
<1>5. ASSUME NEW r \in Runs, Override(r) PROVE Abandons(k)
  <2>1. OnlyRun(r) /\ run'[r].pc = "gate"
      BY <1>5 DEF Override, OnlyRun, TypeOK, Locals
  <2> QED BY <1>1, <1>5, <2>1 DEF Override, InExecute, observed
<1>7. ASSUME NEW r \in Runs, Execute(r) PROVE Abandons(k)
    BY <1>1, <1>7, ExecuteMoves DEF Execute, InExecute, observed
<1>8. ASSUME NEW r \in Runs, Look(r) PROVE Abandons(k)
  <2>0. UNCHANGED << ledger, sends >> /\ OnlyRun(r)
      BY <1>8, LookMoves DEF Look
  <2>1. CASE Key(r) # k
      BY <1>2, <2>0, <2>1
  <2>2. CASE Key(r) = k
    <3>1. With(r, "settle", "failed", FALSE, "unknown")
        BY <1>8, <2>2 DEF Look, Orphaned, Outcomes
    <3>2. run'[r].pc = "settle" /\ run'[r].source = "unknown"
        BY <3>1 DEF With, TypeOK, Locals
    <3> QED BY <2>0, <3>2 DEF Abandons, OnlyRun
  <2> QED BY <2>1, <2>2
<1>9. ASSUME NEW r \in Runs,
             Prepare(r) \/ Begin(r) \/ MarkDispatched(r) \/ Call(r) \/ Record(r)
      PROVE  Abandons(k)
  <2>1. Key(r) # k
      BY <1>9 DEF Prepare, Begin, MarkDispatched, Call, Record, Orphaned, InExecute
  <2>2. ledger'[k] = ledger[k] /\ sends'[k] = sends[k]
      BY <1>0, <1>9, <2>1 DEF Prepare, Begin, MarkDispatched, Call, Record, TypeOK, observed
  <2>3. OnlyRun(r)
    <3>1. CASE Prepare(r)
        BY <3>1, PrepareMoves
    <3>2. CASE Begin(r) \/ MarkDispatched(r)
        BY <3>2, StepMoves DEF Begin, MarkDispatched
    <3>3. CASE Call(r)
        BY <3>3, CallMoves
    <3>4. CASE Record(r)
        BY <3>4, RecordMoves
    <3> QED BY <1>9, <3>1, <3>2, <3>3, <3>4
  <2> QED BY <1>2, <2>1, <2>2, <2>3
<1>10. ASSUME NEW r \in Runs, Settle(r) PROVE Abandons(k)
  <2>0. sends' = sends /\ OnlyRun(r) /\ run'[r].pc = "done"
      BY <1>10, ReturnMoves DEF Settle, observed
  <2>1. ledger'[k] = ledger[k]
    <3>1. CASE Key(r) # k
        BY <1>0, <1>10, <3>1 DEF Settle, TypeOK
    <3>2. CASE Key(r) = k
      <4>1. run[r].source = "unknown"
          BY <1>10, <3>2 DEF Settle, Orphaned, InExecute
      <4> QED BY <1>10, <4>1 DEF Settle
    <3> QED BY <3>1, <3>2
  <2> QED BY <2>0, <2>1 DEF Abandons, OnlyRun, InExecute
<1>11. CASE Crash
  <2>1. \A q \in Runs : run'[q] = run[q] \/ run'[q].pc = "lost"
      BY <1>11 DEF Crash, NewRun
  <2> QED BY <1>11, <2>1 DEF Crash, Abandons, InExecute, observed
<1>12. CASE UNCHANGED vars
    BY <1>12 DEF vars, Abandons, observed
<1> QED BY <1>4, <1>5, <1>7, <1>8, <1>9, <1>10, <1>11, <1>12 DEF Next, Executes

(* A guarded command whose outcome became unknown is neither sent again    *)
(* nor given an outcome, by any later run, retry or override.              *)
THEOREM AttemptsUnknownStaysUnknown == Spec => UnknownStaysUnknown
<1> DEFINE Abandoned == \A k \in Keys : Guarded(k) /\ Orphaned(k) => Orphaned(k)' /\ sends'[k] = sends[k]
<1>1. TypeOK /\ [Next]_vars => [Abandoned]_vars
  <2> SUFFICES ASSUME TypeOK, [Next]_vars, NEW k \in Keys, Guarded(k), Orphaned(k)
               PROVE  Orphaned(k)' /\ sends'[k] = sends[k]
      OBVIOUS
  <2>1. Abandons(k)
      BY OrphansStay
  <2> QED BY <2>1 DEF Abandons, Orphaned, At, Key
<1>2. Spec => [][Abandoned]_vars
    BY <1>1, AttemptsTypeCorrect, PTL DEF Spec
<1> QED BY <1>2 DEF UnknownStaysUnknown

=============================================================================
