-------------------------- MODULE ExecutionAttempts --------------------------
(***************************************************************************)
(* The execution of a decision: OrchestratorService.execute with its retry *)
(* loop over the durable ledger of execution attempts, the registry of     *)
(* evaluated triggers in front of it, operators that override, and crashes *)
(* of the process.                                                         *)
(*                                                                         *)
(* Several runs may carry the same idempotency key: a recheck or a         *)
(* redelivered alert has the signal, hence the decision and the action, of *)
(* an earlier run.  Their executions may overlap: the target lock that     *)
(* live runs take at admission does not exclude it (RunCoordinator), and   *)
(* plays no part here.  A step is one call of the ledger, of the registry  *)
(* or of an adapter.  What an adapter reports, and whether the remote      *)
(* command took effect, is chosen freely.                                  *)
(***************************************************************************)
EXTENDS Naturals, FiniteSets

CONSTANTS
    Runs,
    Keys,         \* idempotency keys
    KeyOf,        \* run -> its idempotency key
    MaxRetries,   \* max_transient_retries
    MaxCrashes    \* bound: crashes of the process

(* What kind of action a key stands for: any action, one that needs the    *)
(* replay guard (a systemd restart), or a repository patch, guarded too.   *)
Kinds == {"plain", "restart", "patch"}

ASSUME AttemptsAssumption ==
    /\ KeyOf \in [Runs -> Keys]
    /\ MaxRetries \in Nat /\ MaxCrashes \in Nat

Outcomes == {"succeeded", "failed", "rejected"}

(* The status of a ledger record; "none" when there is no record.          *)
Statuses == {"none", "attempt_started", "remote_command_dispatched"} \cup Outcomes

(* A command was, or is about to be, sent.                                 *)
Marked == {"remote_command_dispatched"} \cup Outcomes

InExecute == {"look", "prepare", "begin", "mark", "call", "record", "settle"}

InFlight == {"gate"} \cup InExecute

Steps == {"new", "lost", "done"} \cup InFlight

(* Where the result of a run comes from: its own call, the ledger, nowhere *)
(* since nothing was sent, or unknown.                                     *)
Sources == {"none", "call", "ledger", "unsent", "unknown", "raised"}

Locals == [pc        : Steps,
           attempts  : Nat,
           execute   : BOOLEAN,               \* the evaluation passed and recommends execute
           status    : Outcomes \cup {"none"},
           retryable : BOOLEAN,
           source    : Sources]

VARIABLES
    kind,         \* input: key -> its kind
    run,          \* run -> its local state
    ledger,       \* execution_attempts.json: key -> status
    evaluated,    \* evaluated_triggers.json: keys whose trigger was evaluated
    crashes,
    sends,        \* observation: key -> commands sent, 2 for more than one
    effects,      \* observation: key -> a command took effect
    clean,        \* observation: runs that last looked before a command was sent
    raced         \* observation: keys of which two runs were in the window at once

observed == << sends, effects, clean, raced >>
vars == << kind, run, ledger, evaluated, crashes, observed >>

NewRun == [pc |-> "new", attempts |-> 0, execute |-> FALSE,
           status |-> "none", retryable |-> FALSE, source |-> "none"]

(* The type of every variable.                                             *)
TypeOK ==
    /\ kind \in [Keys -> Kinds]
    /\ run \in [Runs -> Locals]
    /\ ledger \in [Keys -> Statuses]
    /\ evaluated \subseteq Keys
    /\ crashes \in Nat
    /\ sends \in [Keys -> 0 .. 2]
    /\ effects \in [Keys -> BOOLEAN]
    /\ clean \subseteq Runs
    /\ raced \subseteq Keys

Init ==
    /\ kind \in [Keys -> Kinds]
    /\ run = [r \in Runs |-> NewRun]
    /\ ledger = [k \in Keys |-> "none"]
    /\ evaluated = {}
    /\ crashes = 0
    /\ sends = [k \in Keys |-> 0]
    /\ effects = [k \in Keys |-> FALSE]
    /\ clean = {}
    /\ raced = {}

----------------------------------------------------------------------------
Key(r) == KeyOf[r]

At(r, pc) == run[r].pc = pc

Step(r, pc) == run' = [run EXCEPT ![r].pc = pc]

(* _requires_replay_guard.                                                 *)
Guarded(k) == kind[k] \in {"restart", "patch"}

(* The run goes on to pc with the result of execute so far.                *)
With(r, pc, status, retryable, source) ==
    run' = [run EXCEPT ![r] = [@ EXCEPT !.pc = pc, !.status = status,
                                        !.retryable = retryable, !.source = source]]

(* execute returns or raises; its locals are gone.                         *)
Return(r, status, source) ==
    run' = [run EXCEPT ![r] = [NewRun EXCEPT !.pc = "done", !.status = status, !.source = source]]

----------------------------------------------------------------------------
(* Before execute: evaluation and the operator.                            *)

(* register_evaluation: a trigger evaluated before is a duplicate, which   *)
(* is never recommended for execution.                                     *)
Evaluate(r) ==
    /\ At(r, "new")
    /\ evaluated' = evaluated \cup {Key(r)}
    /\ \E execute \in BOOLEAN :
          /\ Key(r) \in evaluated => ~execute
          /\ run' = [run EXCEPT ![r] = [@ EXCEPT !.pc = "gate", !.execute = execute]]
    /\ UNCHANGED << kind, ledger, crashes, observed >>

(* An operator overrides the decision; it is evaluated again, and being a  *)
(* duplicate no longer counts (allow_rereevaluation).                      *)
Override(r) ==
    /\ At(r, "gate") /\ ~run[r].execute
    /\ run' = [run EXCEPT ![r].execute = TRUE]
    /\ UNCHANGED << kind, ledger, evaluated, crashes, observed >>

----------------------------------------------------------------------------
(* OrchestratorService.execute.                                            *)

(* A patch with unacceptable parameters or without an eligible gate, and   *)
(* any decision that was not recommended for execution, is rejected.       *)
Execute(r) ==
    /\ At(r, "gate")
    /\ \/ /\ ~run[r].execute \/ kind[Key(r)] = "patch"
          /\ Return(r, "rejected", "unsent")
       \/ /\ run[r].execute
          /\ run' = [run EXCEPT ![r] = [@ EXCEPT !.pc = "look", !.attempts = 1]]
    /\ UNCHANGED << kind, ledger, evaluated, crashes, observed >>

(* What follows a look that found nothing to wait for or to replay.        *)
FirstStep(k) == CASE kind[k] = "plain" -> "call"
                  [] kind[k] = "restart" -> "begin"
                  [] kind[k] = "patch" -> "prepare"

(* The window between a look that found nothing and what it leads to in    *)
(* the ledger: the mark, or the failure of a patch that was not sent.      *)
InWindow(r) ==
    \/ run[r].pc \in {"prepare", "begin", "mark"}
    \/ At(r, "settle") /\ run[r].source = "unsent"

(* A look is observed: whether a command was sent before, and whether it   *)
(* finds nothing while another run of the key is in the window.            *)
Observe(r) ==
    LET k == Key(r)
    IN  /\ clean' = IF sends[k] = 0 THEN clean \cup {r} ELSE clean \ {r}
        /\ raced' = IF ledger[k] \notin Marked /\ \E s \in Runs \ {r} : Key(s) = k /\ InWindow(s)
                      THEN raced \cup {k} ELSE raced

(* Mutant: a command that was dispatched without an outcome is sent again. *)
LookForOutcome(r) ==
    LET k == Key(r)
    IN  /\ At(r, "look")
        /\ IF Guarded(k) /\ ledger[k] \in Outcomes
             THEN With(r, "settle", ledger[k], FALSE, "ledger")
             ELSE Step(r, FirstStep(k))
        /\ Observe(r)
        /\ UNCHANGED << kind, ledger, evaluated, crashes, sends, effects >>

(* Mutant: only a success is replayed, a failure is tried again. *)
LookForSuccess(r) ==
    LET k == Key(r)
    IN  /\ At(r, "look")
        /\ IF Guarded(k) /\ ledger[k] = "succeeded"
             THEN With(r, "settle", ledger[k], FALSE, "ledger")
             ELSE IF Guarded(k) /\ ledger[k] = "remote_command_dispatched"
                    THEN With(r, "settle", "failed", FALSE, "unknown")
                    ELSE Step(r, FirstStep(k))
        /\ Observe(r)
        /\ UNCHANGED << kind, ledger, evaluated, crashes, sends, effects >>

(* Mutant: the status on record is returned as it is. *)
LookRaw(r) ==
    LET k == Key(r)
    IN  /\ At(r, "look")
        /\ IF Guarded(k) /\ ledger[k] \in Marked
             THEN With(r, "settle", ledger[k], FALSE, "ledger")
             ELSE Step(r, FirstStep(k))
        /\ Observe(r)
        /\ UNCHANGED << kind, ledger, evaluated, crashes, sends, effects >>

(* The top of the retry loop: the outcome on record is replayed, a command *)
(* sent without an outcome is reported as unknown.                         *)
Look(r) ==
    LET k == Key(r)
    IN  /\ At(r, "look")
        /\ IF Guarded(k) /\ ledger[k] \in Outcomes
             THEN With(r, "settle", ledger[k], FALSE, "ledger")
             ELSE IF Guarded(k) /\ ledger[k] = "remote_command_dispatched"
                    THEN With(r, "settle", "failed", FALSE, "unknown")
                    ELSE Step(r, FirstStep(k))
        /\ Observe(r)
        /\ UNCHANGED << kind, ledger, evaluated, crashes, sends, effects >>

(* A patch: the client is built, preflight, the admission gate and the     *)
(* review.  The first two fail the execution; a refusal by the others, or  *)
(* an invalid gate, ends it without a trace in the ledger.                 *)
Prepare(r) ==
    /\ At(r, "prepare")
    /\ \/ With(r, "settle", "failed", FALSE, "unsent")
       \/ Return(r, "rejected", "unsent")
       \/ Step(r, "begin")
    /\ UNCHANGED << kind, ledger, evaluated, crashes, observed >>

(* begin: a record that exists keeps its status.                           *)
Begin(r) ==
    /\ At(r, "begin")
    /\ ledger' = [ledger EXCEPT ![Key(r)] = IF @ = "none" THEN "attempt_started" ELSE @]
    /\ Step(r, "mark")
    /\ UNCHANGED << kind, evaluated, crashes, observed >>

(* Mutant: the mark is written only once the outcome is known. *)
MarkNothing(r) ==
    /\ At(r, "mark")
    /\ Step(r, "call")
    /\ UNCHANGED << kind, ledger, evaluated, crashes, observed >>

MarkDispatched(r) ==
    /\ At(r, "mark")
    /\ ledger' = [ledger EXCEPT ![Key(r)] = "remote_command_dispatched"]
    /\ Step(r, "call")
    /\ UNCHANGED << kind, evaluated, crashes, observed >>

(* What is assumed of the adapters: one of the three statuses; success     *)
(* only of a command that took effect, a rejection only of one that did    *)
(* not; a patch is never retryable.                                        *)
Reported(r, status, retryable, effect) ==
    /\ status = "succeeded" => effect /\ ~retryable
    /\ status = "rejected" => ~effect /\ ~retryable /\ kind[Key(r)] = "patch"
    /\ retryable => kind[Key(r)] # "patch"
    /\ With(r, "record", status, retryable, "call")

(* The call raises.  The authority's own error makes the outcome of a      *)
(* patch unknown; any other exception leaves execute.                      *)
Raised(r) ==
    \/ kind[Key(r)] = "patch" /\ With(r, "settle", "failed", FALSE, "unknown")
    \/ Return(r, "failed", "raised")

Call(r) ==
    /\ At(r, "call")
    /\ \E effect \in BOOLEAN :
          /\ \/ \E status \in Outcomes, retryable \in BOOLEAN :
                   Reported(r, status, retryable, effect)
             \/ Raised(r)
          /\ effects' = [effects EXCEPT ![Key(r)] = @ \/ effect]
    /\ sends' = [sends EXCEPT ![Key(r)] = IF @ < 2 THEN @ + 1 ELSE @]
    /\ UNCHANGED << kind, ledger, evaluated, crashes, clean, raced >>

(* Mutant: the attempts are not counted. *)
RecordUncounted(r) ==
    /\ At(r, "record")
    /\ ledger' = IF Guarded(Key(r)) THEN [ledger EXCEPT ![Key(r)] = run[r].status] ELSE ledger
    /\ Step(r, IF run[r].retryable THEN "look" ELSE "settle")
    /\ UNCHANGED << kind, evaluated, crashes, observed >>

(* complete; then a transient failure is tried again while attempts and    *)
(* the retry window last.                                                  *)
Record(r) ==
    /\ At(r, "record")
    /\ ledger' = IF Guarded(Key(r)) THEN [ledger EXCEPT ![Key(r)] = run[r].status] ELSE ledger
    /\ \/ Step(r, "settle")
       \/ /\ run[r].retryable /\ run[r].attempts <= MaxRetries
          /\ run' = [run EXCEPT ![r] = [@ EXCEPT !.pc = "look", !.attempts = run[r].attempts + 1]]
    /\ UNCHANGED << kind, evaluated, crashes, observed >>

(* Mutant: an unknown outcome is recorded as a failure. *)
SettleUnknown(r) ==
    /\ At(r, "settle")
    /\ ledger' = IF Guarded(Key(r)) /\ run[r].source # "ledger"
                   THEN [ledger EXCEPT ![Key(r)] = run[r].status] ELSE ledger
    /\ Return(r, run[r].status, run[r].source)
    /\ UNCHANGED << kind, evaluated, crashes, observed >>

(* The end of execute: the result is recorded once more, unless it was     *)
(* replayed or is unknown, and returned.                                   *)
Settle(r) ==
    /\ At(r, "settle")
    /\ ledger' = IF Guarded(Key(r)) /\ run[r].source \notin {"ledger", "unknown"}
                   THEN [ledger EXCEPT ![Key(r)] = run[r].status] ELSE ledger
    /\ Return(r, run[r].status, run[r].source)
    /\ UNCHANGED << kind, evaluated, crashes, observed >>

(* The process stops; the files stay, the runs in flight are not resumed.  *)
Crash ==
    /\ crashes < MaxCrashes
    /\ crashes' = crashes + 1
    /\ run' = [r \in Runs |-> IF run[r].pc \in InFlight THEN [NewRun EXCEPT !.pc = "lost"] ELSE run[r]]
    /\ UNCHANGED << kind, ledger, evaluated, observed >>

----------------------------------------------------------------------------
Executes(r) ==
    \/ Look(r) \/ Prepare(r) \/ Begin(r) \/ MarkDispatched(r)
    \/ Call(r) \/ Record(r) \/ Settle(r)

Next ==
    \/ \E r \in Runs :
          \/ Evaluate(r) \/ Override(r)
          \/ Execute(r) \/ Executes(r)
    \/ Crash

Spec == Init /\ [][Next]_vars

(* The thread of a run is scheduled and the calls of adapters time out.    *)
Fairness == \A r \in Runs : WF_vars(Executes(r))

FairSpec == Spec /\ Fairness

----------------------------------------------------------------------------
(* A guarded command of which no two runs were in the window at once.      *)
Protected(k) == Guarded(k) /\ k \notin raced

(* A restart or a patch is sent at most once, whatever the number of runs  *)
(* that carry its key, of retries, overrides and crashes, unless two of    *)
(* its runs look at the ledger before either has marked it: the guard is   *)
(* checked and set in two calls (execute, ExecutionAttemptStore).          *)
SentOnce == \A k \in Keys : Protected(k) => sends[k] <= 1

(* And then it is sent again only by a run that looked at the ledger       *)
(* before the first one was sent: the replay guard never lets a later look *)
(* through.                                                                *)
NoLateResend == \A r \in Runs : At(r, "call") /\ Guarded(Key(r)) => r \in clean

(* What execute returned, from its own call or replayed, is what the       *)
(* ledger holds from then on, so that all answers agree, unless two runs   *)
(* were in the window at once; and a run that is told of a success is told *)
(* of a command that took effect.                                          *)
AnswersOnRecord ==
    \A r \in Runs :
        /\ run[r].status = "succeeded" => effects[Key(r)]
        /\ At(r, "done") /\ run[r].source \in {"call", "ledger"} /\ Protected(Key(r))
              => ledger[Key(r)] = run[r].status

(* A command was sent, or is marked as sent, and nobody is left who could  *)
(* say what became of it.                                                  *)
Orphaned(k) ==
    /\ ledger[k] = "remote_command_dispatched"
    /\ \A r \in Runs : Key(r) = k /\ run[r].pc \in InExecute \ {"look"} =>
                          At(r, "settle") /\ run[r].source = "unknown"

(* An outcome that became unknown stays unknown: no later run, retry or    *)
(* override sends the command again or records an outcome for it.          *)
UnknownStaysUnknown ==
    [][\A k \in Keys : Guarded(k) /\ Orphaned(k) => Orphaned(k)' /\ sends'[k] = sends[k]]_vars

(* execute returns, unless the process stops: retries run out, and what    *)
(* waits for the ledger waits for nobody.                                  *)
ExecuteReturns == \A r \in Runs : run[r].pc \in InExecute ~> run[r].pc \in {"done", "lost"}

(* The at-most-once action: started by the first command sent, closed by   *)
(* the outcome on record.                                                  *)
Recorded(k) == Protected(k) /\ ledger[k] \in Outcomes

Sent(k) == Protected(k) /\ sends[k] > 0

PhaseOf(k) == IF Recorded(k) THEN "closed" ELSE IF Sent(k) THEN "started" ELSE "open"

StarterOf(k) == IF Sent(k) THEN {sends[k]} ELSE {}

AnswerOf(k) == IF Recorded(k) THEN {[outcome |-> ledger[k], result |-> "recorded"]} ELSE {}

AtMostOnce == INSTANCE AtMostOnceAction WITH
    Actions <- Keys,
    Actors <- {1},
    Payloads <- {"recorded"},
    PreStartOutcomes <- {"failed"},
    phase <- [k \in Keys |-> PhaseOf(k)],
    starter <- [k \in Keys |-> StarterOf(k)],
    answer <- [k \in Keys |-> AnswerOf(k)]

(* The ledger and the loop around it implement the abstract action that is *)
(* started at most once and closed once, as long as no two runs of the key *)
(* are in the window at once; when that happens nothing was sent yet.      *)
ImplementsAtMostOnce == AtMostOnce!Spec

=============================================================================
