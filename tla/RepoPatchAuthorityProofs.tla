---------------------- MODULE RepoPatchAuthorityProofs ----------------------
(***************************************************************************)
(* Safety of the authority service for every set of clients, keys, gates   *)
(* and processes, any number of crashes, and whatever the clocks read and  *)
(* people do to the repository.                                            *)
(*                                                                         *)
(* Two things carry the argument.  The lease of a dispatched record names  *)
(* the process that dispatched it, so that one process at most works on an *)
(* authority; and the nonce of a permit is consumed once, so that one      *)
(* process at most carries the patch of a key to the file, whichever       *)
(* clients sent it.  The last part is about one process that crashes and   *)
(* starts again: the ledger agrees with the file, and recovery is complete.*)
(***************************************************************************)
EXTENDS RepoPatchAuthority, TLAPS

Rejected == Result("rejected", NoContent)

(* The steps after dispatch, those of the patch transaction up to the      *)
(* replacement of the file, and those between the nonce and the file.      *)
DispatchedSteps == {"preflight", "replay", "prepare", "issue", "backup", "record_prepared",
                    "consume", "record_applying", "promote", "replace", "record_applied",
                    "verify", "commit"}

Transacting == {"issue", "backup", "record_prepared", "consume", "record_applying", "promote", "replace"}

Carrying == {"record_applying", "promote", "replace"}

(* A process that serves a request, and one that dispatched it.            *)
Working(l) == ~l.recovers /\ l.pc \in HandlerSteps \cup RestoreSteps

Holds(l) ==
    /\ ~l.recovers
    /\ \/ l.pc \in DispatchedSteps \cup RestoreSteps
       \/ l.pc = "complete" /\ l.final = l.version + 1

(* A process that may have replaced the file, and will not say rejected.   *)
Past(l) ==
    \/ l.pc \in {"record_applied", "verify", "commit"} \cup RestoreSteps
    \/ l.pc = "complete" /\ l.result # Rejected

(* The locals of a process, by its step.                                   *)
Shape(l) ==
    /\ Working(l) => l.client \in Clients /\ l.key \in Keys
    /\ l.pc \in RestoreSteps => l.key \in Keys /\ l.from \in MutationStates
    /\ l.recovers => l.pc \in {"recover"} \cup RestoreSteps
    /\ l.pc = "recover" => l.recovers
    /\ l.pc \in (DispatchedSteps \ {"preflight"}) \cup {"admit", "reconcile"} => l.op = "execute"
    /\ l.pc \in RestoreSteps /\ ~l.recovers => l.op = "execute"
    /\ l.pc = "preflight" => l.op = "preflight"
    /\ l.pc \in Transacting => l.prep \in Contents
    /\ l.pc = "complete" => /\ l.outcome \in TerminalOutcomes /\ l.result \in Results
                            /\ l.final \in {l.version, l.version + 1}

(* The fields of a record, by its state.                                   *)
RecordShape(r) ==
    /\ r.state = "absent" => r.version = 0
    /\ r.state # "terminal" => r.result = NoResult /\ r.outcome = "none"
    /\ r.state = "terminal" => r.result \in Results /\ r.outcome \in TerminalOutcomes

ProcsOK == proc \in [Procs -> Locals] /\ \A p \in Procs : Shape(proc[p])

AuthOK == auth \in [Auths -> Records] /\ \A a \in Auths : RecordShape(auth[a])

PermitsOK ==
    /\ permit \in [Keys -> Permits]
    /\ \A k \in Keys : IF permit[k].state = "none" THEN permit[k] = NoPermit ELSE permit[k].pre \in Contents

FilesOK == backup \in [Keys -> Contents \cup {NoContent}] /\ target \in Contents

ObservedOK ==
    /\ promoted \in [Clients \X Keys -> Nat]
    /\ replies \in [Auths -> SUBSET [outcome : TerminalOutcomes, result : Results]]

(* The permit that a process works on exists, and so does the backup it    *)
(* is about to write back.                                                 *)
WithPermit == (Transacting \ {"issue"}) \cup {"record_applied", "verify", "commit"} \cup RestoreSteps

Grounded(l) ==
    /\ l.pc \in WithPermit => permit[l.key].state # "none"
    /\ l.recovers => \A t \in l.todo : permit[t[1]].state # "none"
    /\ l.pc = "restore" => backup[l.key] \in Contents

GroundsOK == \A p \in Procs : Grounded(proc[p])

Typed == ProcsOK /\ AuthOK /\ PermitsOK /\ FilesOK /\ ObservedOK

Shapes == Typed /\ GroundsOK

(* A leased record stays behind its process until that one dispatches; a   *)
(* dispatched one names it.                                                *)
Fresh(l, r) == r.version >= l.version /\ (r.version = l.version => r.state = "leased")

Turned(p, l, r, n) ==
    /\ l.pc \in {"admit", "dispatch"} => Fresh(l, r) /\ l.lease = << p, l.version >>
    /\ l.pc = "complete" /\ l.final = l.version /\ l.result = Rejected => Fresh(l, r)
    /\ Holds(l) =>
          /\ r.state \in {"dispatched", "terminal"} /\ r.version > l.version
          /\ r.lease = l.lease /\ l.lease = << p, l.version >> /\ r.result # Rejected
          /\ ~Past(l) /\ l.op = "execute" => n = 0

Turn(p) == Turned(p, proc[p], auth[ThisAuth(p)], promoted[<< proc[p].client, proc[p].key >>])

TouchedWasDispatched ==
    \A c \in Clients, k \in Keys :
        promoted[<< c, k >>] # 0 => auth[<< c, k, "execute" >>].state \in {"dispatched", "terminal"}

TurnInv == (\A p \in Procs : Turn(p)) /\ TouchedWasDispatched /\ RejectedMeansUntouched

(* One process at most is between the nonce of a permit and the file.      *)
CarrierInv ==
    /\ \A p \in Procs : proc[p].pc \in Carrying =>
          /\ permit[proc[p].key].consumed
          /\ \A c \in Clients : promoted[<< c, proc[p].key >>] = 0
          /\ \A q \in Procs : proc[q].pc \in Carrying /\ proc[q].key = proc[p].key => p = q
    /\ \A c \in Clients, k \in Keys :
          /\ promoted[<< c, k >>] \in {0, 1}
          /\ promoted[<< c, k >>] # 0 => permit[k].consumed
          /\ \A d \in Clients : promoted[<< c, k >>] # 0 /\ promoted[<< d, k >>] # 0 => c = d

(* What a process is about to answer is what the permit says.              *)
AnswerOK(l) ==
    l.pc = "complete" /\ l.op = "execute" =>
        /\ l.outcome = "succeeded" => permit[l.key].state = "committed"
        /\ l.result.kind = "failed" => permit[l.key].state \in {"aborted", "recovery_required"}

AnswerInv ==
    /\ \A p \in Procs : AnswerOK(proc[p])
    /\ OutcomeMatchesPermit

RepliesInv ==
    \A a \in Auths : \A r \in replies[a] :
        auth[a].state = "terminal" /\ r = [outcome |-> auth[a].outcome, result |-> auth[a].result]

(* A patch that may be in the file.                                        *)
LateStates == {"applying", "applied", "verifying"} \cup TerminalStates

Started(k) == backup[k] # NoContent /\ permit[k].state \in LateStates

AllStarted(c) == \A k \in Keys : k \in c => Started(k)

Secured(l) ==
    /\ l.pc \in Transacting => AllStarted(l.prep)
    /\ l.pc \in Transacting \ {"issue", "backup"} => backup[l.key] # NoContent
    /\ l.pc \in {"promote", "replace"} => permit[l.key].state \in LateStates

FileInv ==
    /\ AllStarted(target)
    /\ \A k \in Keys : backup[k] # NoContent => AllStarted(backup[k])
    /\ \A p \in Procs : Secured(proc[p])

ServiceInv == Shapes /\ TurnInv /\ CarrierInv /\ AnswerInv /\ RepliesInv /\ FileInv

----------------------------------------------------------------------------
(* What a step makes of the locals of its process.                         *)

Others(p) == \A q \in Procs \ {p} : proc'[q] = proc[q]

(* The request, the lease and the transaction stay the same.               *)
Kin(l, m) ==
    /\ m.client = l.client /\ m.key = l.key /\ m.op = l.op /\ m.version = l.version
    /\ m.lease = l.lease /\ m.prep = l.prep /\ m.from = l.from /\ m.recovers = l.recovers
    /\ m.todo = l.todo /\ m.outcome = l.outcome /\ m.result = l.result /\ m.final = l.final

(* The same up to the answer.                                              *)
KinAnswer(l, m) ==
    /\ m.client = l.client /\ m.key = l.key /\ m.op = l.op /\ m.version = l.version
    /\ m.lease = l.lease /\ m.prep = l.prep /\ m.from = l.from /\ m.recovers = l.recovers

KinRequest(l, m) ==
    /\ m.client = l.client /\ m.key = l.key /\ m.op = l.op /\ m.version = l.version
    /\ m.lease = l.lease /\ m.prep = l.prep /\ m.recovers = l.recovers

Resolved(p, v, o, r) ==
    /\ proc'[p].pc = "complete" /\ proc'[p].final = v /\ proc'[p].outcome = o
    /\ proc'[p].result = r /\ KinAnswer(proc[p], proc'[p])

LEMMA BecomeTells ==
    ASSUME ProcsOK, NEW p \in Procs, NEW l \in Locals, Become(p, l)
    PROVE  proc' \in [Procs -> Locals] /\ proc'[p] = l /\ Others(p)
BY DEF ProcsOK, Become, Others

LEMMA GotoTells ==
    ASSUME ProcsOK, NEW p \in Procs, NEW step \in Steps, Goto(p, step)
    PROVE  /\ proc' \in [Procs -> Locals] /\ Others(p) /\ proc'[p].pc = step
           /\ Kin(proc[p], proc'[p])
<1> DEFINE l == [proc[p] EXCEPT !.pc = step]
<1>1. proc[p] \in Locals
    BY DEF ProcsOK
<1>2. l \in Locals /\ l.pc = step /\ Kin(proc[p], l)
    BY <1>1 DEF Locals, Kin
<1>3. Become(p, l)
    BY DEF Goto
<1> HIDE DEF l
<1> QED BY <1>2, <1>3, BecomeTells

LEMMA CompletingTells ==
    ASSUME ProcsOK, NEW p \in Procs, NEW v \in Nat, NEW o \in TerminalOutcomes,
           NEW r \in Results, Become(p, Completing(p, v, o, r))
    PROVE  proc' \in [Procs -> Locals] /\ Others(p) /\ Resolved(p, v, o, r)
<1> DEFINE l == Completing(p, v, o, r)
<1>1. proc[p] \in Locals
    BY DEF ProcsOK
<1>2. "complete" \in Steps
    BY DEF Steps, HandlerSteps
<1>3. l \in Locals
    BY <1>1, <1>2 DEF Locals, Completing
<1>4. /\ l.pc = "complete" /\ l.final = v /\ l.outcome = o /\ l.result = r
      /\ KinAnswer(proc[p], l)
    BY <1>1 DEF Locals, KinAnswer, Completing
<1>5. Become(p, l)
    OBVIOUS
<1> HIDE DEF l
<1>6. proc' \in [Procs -> Locals] /\ proc'[p] = l /\ Others(p)
    BY <1>3, <1>5, BecomeTells
<1> QED BY <1>4, <1>6 DEF Resolved

LEMMA VersionIs ==
    ASSUME ProcsOK, NEW p \in Procs
    PROVE  /\ proc[p] \in Locals /\ proc[p].version \in Nat /\ DispatchedVersion(p) \in Nat
           /\ DispatchedVersion(p) = proc[p].version + 1 /\ Shape(proc[p])
BY DEF ProcsOK, Locals, DispatchedVersion

LEMMA ResultIs == /\ \A kind \in {"preflighted", "promoted", "failed", "rejected", "unknown"},
                        base \in Contents \cup {NoContent} :
                        Result(kind, base) \in Results /\ Result(kind, base).kind = kind
                  /\ Rejected \in Results /\ Rejected.kind = "rejected"
BY DEF Result, Results, Rejected

LEMMA RaisedTells ==
    ASSUME ProcsOK, NEW p \in Procs, NEW o \in {"rejected", "failed"}, Become(p, Raised(p, o))
    PROVE  proc' \in [Procs -> Locals] /\ Others(p) /\ Resolved(p, proc[p].version, o, Rejected)
<1>1. Become(p, Completing(p, proc[p].version, o, Rejected))
    BY DEF Raised, Rejected
<1>2. o \in TerminalOutcomes
    BY DEF TerminalOutcomes
<1> QED BY <1>1, <1>2, VersionIs, ResultIs, CompletingTells

LEMMA FinishTells ==
    ASSUME ProcsOK, NEW p \in Procs, NEW o \in TerminalOutcomes, NEW r \in Results, Finish(p, o, r)
    PROVE  /\ proc' \in [Procs -> Locals] /\ Others(p)
           /\ Resolved(p, proc[p].version + 1, o, r)
<1>1. Become(p, Completing(p, DispatchedVersion(p), o, r))
    BY DEF Finish
<1> QED BY <1>1, VersionIs, CompletingTells

LEMMA RestingIs ==
    /\ Resting \in Locals /\ Resting.pc = "idle" /\ Resting.recovers = FALSE
    /\ Down \in Locals /\ Down.pc = "down" /\ Down.recovers = FALSE
BY DEF Resting, Down, Locals, Steps, Ops, TerminalOutcomes, PermitStates, MutationStates

LEMMA RestingTells ==
    ASSUME ProcsOK, NEW p \in Procs, Become(p, Resting) \/ Become(p, Down)
    PROVE  /\ proc' \in [Procs -> Locals] /\ Others(p) /\ proc'[p].pc \in {"idle", "down"}
           /\ proc'[p].recovers = FALSE
BY RestingIs, BecomeTells

LEMMA RestoringTells ==
    ASSUME ProcsOK, NEW p \in Procs, NEW state \in MutationStates, Become(p, Restoring(p, state))
    PROVE  /\ proc' \in [Procs -> Locals] /\ Others(p) /\ proc'[p].pc = "inspect"
           /\ proc'[p].from = state /\ KinRequest(proc[p], proc'[p])
<1> DEFINE l == Restoring(p, state)
<1>1. proc[p] \in Locals
    BY DEF ProcsOK
<1>2. "inspect" \in Steps /\ state \in PermitStates
    BY DEF Steps, RestoreSteps, PermitStates
<1>3. l \in Locals
    BY <1>1, <1>2 DEF Locals, Restoring
<1>4. l.pc = "inspect" /\ l.from = state /\ KinRequest(proc[p], l)
    BY <1>1 DEF Locals, KinRequest, Restoring
<1>5. Become(p, l)
    OBVIOUS
<1> HIDE DEF l
<1> QED BY <1>3, <1>4, <1>5, BecomeTells

(* The locals of the shapes that steps lead to.                            *)
LEMMA IdleShape ==
    ASSUME NEW l \in Locals, l.pc \in {"idle", "down", "lease"}, ~l.recovers,
           l.pc = "lease" => l.client \in Clients /\ l.key \in Keys
    PROVE  Shape(l)
BY DEF Shape, Working, HandlerSteps, RestoreSteps, DispatchedSteps, Transacting

LEMMA ResolvedShape ==
    ASSUME ProcsOK, NEW p \in Procs, Working(proc[p]), NEW o \in TerminalOutcomes, NEW r \in Results,
           NEW v \in {proc[p].version, proc[p].version + 1}, Resolved(p, v, o, r)
    PROVE  Shape(proc'[p])
<1>1. Shape(proc[p])
    BY DEF ProcsOK
<1> QED BY <1>1 DEF Shape, Resolved, KinAnswer, Working, HandlerSteps, RestoreSteps, DispatchedSteps, Transacting

----------------------------------------------------------------------------
(* What each action does, as far as the invariants see it.                 *)

Quiet == UNCHANGED << auth, permit, backup, target, promoted, replies >>

(* A step of p that leaves the other processes alone.                      *)
Moves(p) == proc' \in [Procs -> Locals] /\ Others(p)

(* The process goes back to idle or down, and the stores stay.             *)
Rests(p) == Moves(p) /\ proc'[p].pc \in {"idle", "down"} /\ proc'[p].recovers = FALSE

(* An exception: it completes with the record that was leased.             *)
Raises(p) ==
    /\ Moves(p) /\ ~proc[p].recovers
    /\ proc[p].pc \in {"admit", "dispatch"} \cup DispatchedSteps \cup RestoreSteps
    /\ \E o \in {"rejected", "failed"} : Resolved(p, proc[p].version, o, Rejected)

(* It goes on to the step next.                                            *)
Goes(p, next) == Moves(p) /\ proc'[p].pc = next /\ Kin(proc[p], proc'[p])

(* It gives up the transaction and restores the file.                      *)
Restores(p, state) ==
    Moves(p) /\ proc'[p].pc = "inspect" /\ proc'[p].from = state /\ KinRequest(proc[p], proc'[p])

(* It completes the dispatched record.                                     *)
Answers(p, o, r) == Moves(p) /\ Resolved(p, proc[p].version + 1, o, r)

LEMMA RaisedIs ==
    ASSUME ProcsOK, NEW p \in Procs, NEW o \in {"rejected", "failed"}, Become(p, Raised(p, o)),
           ~proc[p].recovers,
           proc[p].pc \in {"admit", "dispatch"} \cup DispatchedSteps \cup RestoreSteps
    PROVE  Raises(p)
BY RaisedTells DEF Raises, Moves

LEMMA RestsIs ==
    ASSUME ProcsOK, NEW p \in Procs, Become(p, Resting) \/ Become(p, Down)
    PROVE  Rests(p)
BY RestingTells DEF Rests, Moves

LEMMA GoesIs ==
    ASSUME ProcsOK, NEW p \in Procs, NEW step \in Steps, Goto(p, step)
    PROVE  Goes(p, step)
BY GotoTells DEF Goes, Moves

LEMMA RestoresIs ==
    ASSUME ProcsOK, NEW p \in Procs, NEW state \in MutationStates, Become(p, Restoring(p, state))
    PROVE  Restores(p, state)
BY RestoringTells DEF Restores, Moves

LEMMA AnswersIs ==
    ASSUME ProcsOK, NEW p \in Procs, NEW o \in TerminalOutcomes, NEW r \in Results, Finish(p, o, r)
    PROVE  Answers(p, o, r)
BY FinishTells DEF Answers, Moves

(* A process at a step of a transaction does not recover.                  *)
LEMMA NotRecovering ==
    ASSUME ProcsOK, NEW p \in Procs, proc[p].pc \notin {"recover"} \cup RestoreSteps
    PROVE  ~proc[p].recovers
BY DEF ProcsOK, Shape

LEMMA StepsAre == HandlerSteps \subseteq Steps /\ RestoreSteps \subseteq Steps
BY DEF Steps

LEMMA AdmitTells ==
    ASSUME ProcsOK, NEW p \in Procs, Admit(p)
    PROVE  /\ Quiet /\ proc[p].pc = "admit"
           /\ Goes(p, "dispatch") \/ Raises(p)
<1>1. Quiet /\ proc[p].pc = "admit"
    BY DEF Admit, Quiet, stores, observed, At
<1>2. ASSUME NEW g \in Gates, Become(p, [proc[p] EXCEPT !.pc = "dispatch", !.agate = g])
      PROVE  Goes(p, "dispatch")
  <2> DEFINE l == [proc[p] EXCEPT !.pc = "dispatch", !.agate = g]
  <2>1. proc[p] \in Locals /\ "dispatch" \in Steps
      BY DEF ProcsOK, Steps, HandlerSteps
  <2>2. l \in Locals
      BY <2>1 DEF Locals
  <2>3. l.pc = "dispatch" /\ Kin(proc[p], l)
      BY <2>1 DEF Locals, Kin
  <2>4. Become(p, l)
      BY <1>2
  <2> HIDE DEF l
  <2> QED BY <2>2, <2>3, <2>4, BecomeTells DEF Goes, Moves
<1>3. ASSUME NEW o \in {"rejected", "failed"}, Become(p, Raised(p, o))
      PROVE  Raises(p)
    BY <1>1, <1>3, RaisedIs, NotRecovering DEF RestoreSteps
<1> QED BY <1>1, <1>2, <1>3 DEF Admit

LEMMA PreflightTells ==
    ASSUME ProcsOK, FilesOK, NEW p \in Procs, Preflight(p)
    PROVE  /\ Quiet /\ proc[p].pc = "preflight"
           /\ \E o \in TerminalOutcomes, r \in Results : Answers(p, o, r)
<1>1. Quiet /\ proc[p].pc = "preflight"
    BY DEF Preflight, Quiet, stores, observed, At
<1>2. \E o \in TerminalOutcomes, r \in Results : Finish(p, o, r)
    BY ResultIs DEF Preflight, FilesOK, TerminalOutcomes, Rejected
<1> QED BY <1>1, <1>2, AnswersIs

LEMMA StoredResultIs ==
    ASSUME NEW r
    PROVE  /\ ResultStatus(r) \in {"succeeded", "failed"} /\ StoredResult(r) \in Results
           /\ ResultStatus(r) = "succeeded" <=> r.state = "committed"
           /\ StoredResult(r).kind = IF r.state = "committed" THEN "promoted" ELSE "failed"
           /\ StoredResult(r) # Rejected
<1>1. StoredResult(r) \in Results /\ StoredResult(r).kind = IF r.state = "committed" THEN "promoted" ELSE "failed"
    BY DEF StoredResult, Result, Results
<1>2. StoredResult(r) # Rejected
    BY <1>1, ResultIs
<1> QED BY <1>1, <1>2 DEF ResultStatus

LEMMA ReplayTells ==
    ASSUME ProcsOK, NEW p \in Procs, Replay(p)
    PROVE  /\ Quiet /\ proc[p].pc = "replay"
           /\ \/ Goes(p, "prepare") \/ Raises(p)
              \/ /\ permit[proc[p].key].state \in TerminalStates
                 /\ Answers(p, ResultStatus(ThisPermit(p)), StoredResult(ThisPermit(p)))
<1>1. Quiet /\ proc[p].pc = "replay"
    BY DEF Replay, Quiet, stores, observed, At
<1>2. CASE Goto(p, "prepare")
    BY <1>1, <1>2, GoesIs, StepsAre DEF HandlerSteps
<1>3. CASE Become(p, Raised(p, "rejected"))
    BY <1>1, <1>3, RaisedIs, NotRecovering DEF RestoreSteps, DispatchedSteps
<1>4. CASE /\ permit[proc[p].key].state \in TerminalStates
           /\ Finish(p, ResultStatus(ThisPermit(p)), StoredResult(ThisPermit(p)))
  <2>1. ResultStatus(ThisPermit(p)) \in TerminalOutcomes /\ StoredResult(ThisPermit(p)) \in Results
      BY StoredResultIs DEF TerminalOutcomes
  <2> QED BY <1>1, <1>4, <2>1, AnswersIs
<1> QED BY <1>2, <1>3, <1>4 DEF Replay, ThisPermit

(* The patch was prepared from the file as it is.                          *)
Prepares(p) ==
    /\ Moves(p) /\ proc'[p].pc = "issue" /\ proc'[p].prep = target
    /\ proc'[p].client = proc[p].client /\ proc'[p].key = proc[p].key /\ proc'[p].op = proc[p].op
    /\ proc'[p].version = proc[p].version /\ proc'[p].lease = proc[p].lease
    /\ proc'[p].recovers = proc[p].recovers

LEMMA PrepareTells ==
    ASSUME ProcsOK, FilesOK, NEW p \in Procs, Prepare(p)
    PROVE  /\ Quiet /\ proc[p].pc = "prepare"
           /\ Prepares(p) \/ Answers(p, "rejected", Rejected)
<1>1. Quiet /\ proc[p].pc = "prepare"
    BY DEF Prepare, Quiet, stores, observed, At
<1>2. CASE Become(p, [proc[p] EXCEPT !.pc = "issue", !.prep = target])
  <2> DEFINE l == [proc[p] EXCEPT !.pc = "issue", !.prep = target]
  <2>1. proc[p] \in Locals /\ "issue" \in Steps /\ target \in Contents
      BY DEF ProcsOK, FilesOK, Steps, HandlerSteps
  <2>2. l \in Locals
      BY <2>1 DEF Locals
  <2>3. /\ l.pc = "issue" /\ l.prep = target /\ l.client = proc[p].client /\ l.key = proc[p].key
        /\ l.op = proc[p].op /\ l.version = proc[p].version /\ l.lease = proc[p].lease
        /\ l.recovers = proc[p].recovers
      BY <2>1 DEF Locals
  <2>4. Become(p, l)
      BY <1>2
  <2> HIDE DEF l
  <2> QED BY <1>1, <2>2, <2>3, <2>4, BecomeTells DEF Prepares, Moves
<1>3. CASE Finish(p, "rejected", Result("rejected", NoContent))
    BY <1>1, <1>3, ResultIs, AnswersIs DEF Rejected, TerminalOutcomes
<1> QED BY <1>2, <1>3 DEF Prepare

(* The permit of k goes from one state to another; the others stay.        *)
PermitMoves(k, expected, new) ==
    /\ permit' \in [Keys -> Permits] /\ \A j \in Keys \ {k} : permit'[j] = permit[j]
    /\ permit[k].state = expected /\ permit'[k].state = new
    /\ permit'[k].pre = permit[k].pre /\ permit'[k].post = permit[k].post

LEMMA TransitionTells ==
    ASSUME PermitsOK, NEW k \in Keys, NEW expected \in PermitStates, NEW new \in PermitStates,
           CanTransition(permit[k], expected, new), SetPermit(k, Transition(permit[k], new))
    PROVE  /\ PermitMoves(k, expected, new) /\ permit'[k].consumed = permit[k].consumed
           /\ permit[k].state = expected /\ new \in AllowedTransitions[expected]
<1>1. permit[k] \in Permits
    BY DEF PermitsOK
<1>2. Transition(permit[k], new) \in Permits
    BY <1>1 DEF Permits, Transition
<1>3. /\ Transition(permit[k], new).state = new
      /\ Transition(permit[k], new).consumed = permit[k].consumed
      /\ Transition(permit[k], new).pre = permit[k].pre
      /\ Transition(permit[k], new).post = permit[k].post
    BY <1>1 DEF Permits, Transition
<1>4. /\ permit' \in [Keys -> Permits] /\ permit'[k] = Transition(permit[k], new)
      /\ \A j \in Keys \ {k} : permit'[j] = permit[j]
    BY <1>2 DEF SetPermit, PermitsOK
<1> QED BY <1>3, <1>4 DEF PermitMoves, CanTransition

(* Everything but the permit of its key stays.                             *)
QuietButPermit == UNCHANGED << auth, backup, target, promoted, replies >>

LEMMA KeyIs ==
    ASSUME ProcsOK, NEW p \in Procs, Working(proc[p])
    PROVE  proc[p].key \in Keys /\ proc[p].client \in Clients
BY DEF ProcsOK, Shape

LEMMA RecordTells ==
    ASSUME ProcsOK, PermitsOK, NEW p \in Procs, Working(proc[p]), proc[p].pc \in DispatchedSteps,
           NEW expected \in PermitStates, NEW new \in PermitStates, NEW next \in Steps,
           Record(p, expected, new, next)
    PROVE  /\ QuietButPermit
           /\ \/ Raises(p) /\ UNCHANGED permit
              \/ /\ Goes(p, next) /\ PermitMoves(proc[p].key, expected, new)
                 /\ permit'[proc[p].key].consumed = permit[proc[p].key].consumed
<1>1. QuietButPermit
    BY DEF Record, QuietButPermit, observed
<1>2. CASE Become(p, Raised(p, "rejected")) /\ UNCHANGED permit
    BY <1>1, <1>2, RaisedIs DEF Working
<1>3. CASE /\ CanTransition(permit[proc[p].key], expected, new)
           /\ SetPermit(proc[p].key, Transition(permit[proc[p].key], new)) /\ Goto(p, next)
    BY <1>1, <1>3, TransitionTells, KeyIs, GoesIs
<1> QED BY <1>2, <1>3 DEF Record

LEMMA WorkingAt ==
    ASSUME ProcsOK, NEW p \in Procs, proc[p].pc \in HandlerSteps
    PROVE  Working(proc[p]) /\ proc[p].key \in Keys /\ proc[p].client \in Clients /\ ~proc[p].recovers
<1>1. ~proc[p].recovers
    BY NotRecovering DEF HandlerSteps, RestoreSteps
<1> QED BY <1>1, KeyIs DEF Working

(* record_transition, from a step of the transaction to the next.          *)
Transits(p, step, expected, new, next) ==
    /\ QuietButPermit /\ proc[p].pc = step
    /\ \/ Raises(p) /\ UNCHANGED permit
       \/ /\ Goes(p, next) /\ PermitMoves(proc[p].key, expected, new)
          /\ permit'[proc[p].key].consumed = permit[proc[p].key].consumed

LEMMA RecordsTell ==
    ASSUME ProcsOK, PermitsOK, NEW p \in Procs
    PROVE  /\ RecordPrepared(p) => Transits(p, "record_prepared", "issued", "prepared", "consume")
           /\ RecordApplying(p) => Transits(p, "record_applying", "claimed", "applying", "promote")
           /\ RecordApplied(p) => Transits(p, "record_applied", "applying", "applied", "verify")
<1>1. {"issued", "prepared", "claimed", "applying", "applied", "verifying"} \subseteq PermitStates
    BY DEF PermitStates, MutationStates
<1>2. {"record_prepared", "record_applying", "record_applied"} \subseteq HandlerSteps \cap DispatchedSteps
    BY DEF HandlerSteps, DispatchedSteps
<1>3. {"consume", "promote", "verify"} \subseteq Steps
    BY StepsAre DEF HandlerSteps
<1>4. ASSUME RecordPrepared(p)
      PROVE  Transits(p, "record_prepared", "issued", "prepared", "consume")
  <2>1. proc[p].pc = "record_prepared" /\ Record(p, "issued", "prepared", "consume")
      BY <1>4 DEF RecordPrepared, At
  <2> QED BY <1>1, <1>2, <1>3, <2>1, WorkingAt, RecordTells DEF Transits
<1>5. ASSUME RecordApplying(p)
      PROVE  Transits(p, "record_applying", "claimed", "applying", "promote")
  <2>1. proc[p].pc = "record_applying" /\ Record(p, "claimed", "applying", "promote")
      BY <1>5 DEF RecordApplying, At
  <2> QED BY <1>1, <1>2, <1>3, <2>1, WorkingAt, RecordTells DEF Transits
<1>6. ASSUME RecordApplied(p)
      PROVE  Transits(p, "record_applied", "applying", "applied", "verify")
  <2>1. proc[p].pc = "record_applied" /\ Record(p, "applying", "applied", "verify")
      BY <1>6 DEF RecordApplied, At
  <2> QED BY <1>1, <1>2, <1>3, <2>1, WorkingAt, RecordTells DEF Transits
<1> QED BY <1>4, <1>5, <1>6

LEMMA VerifyTells ==
    ASSUME ProcsOK, PermitsOK, NEW p \in Procs, Verify(p)
    PROVE  /\ proc[p].pc = "verify"
           /\ \/ /\ target = permit[proc[p].key].post
                 /\ Transits(p, "verify", "applied", "verifying", "commit")
              \/ Quiet /\ Restores(p, "applied")
<1>1. proc[p].pc = "verify" /\ "verify" \in HandlerSteps \cap DispatchedSteps /\ "commit" \in Steps
    BY StepsAre DEF Verify, At, HandlerSteps, DispatchedSteps
<1>2. {"applied", "verifying"} \subseteq PermitStates /\ "applied" \in MutationStates
    BY DEF PermitStates, MutationStates
<1>3. CASE target = permit[proc[p].key].post /\ Record(p, "applied", "verifying", "commit")
    BY <1>1, <1>2, <1>3, WorkingAt, RecordTells DEF Transits
<1>4. CASE Become(p, Restoring(p, "applied")) /\ UNCHANGED << stores, crashes, observed >>
    BY <1>1, <1>2, <1>4, RestoresIs DEF Quiet, stores, observed
<1> QED BY <1>3, <1>4 DEF Verify, ThisPermit

LEMMA CommitTells ==
    ASSUME ProcsOK, PermitsOK, NEW p \in Procs, Commit(p)
    PROVE  /\ QuietButPermit /\ proc[p].pc = "commit"
           /\ \/ Raises(p) /\ UNCHANGED permit
              \/ /\ Answers(p, "succeeded", Result("promoted", NoContent))
                 /\ PermitMoves(proc[p].key, "verifying", "committed")
                 /\ permit'[proc[p].key].consumed = permit[proc[p].key].consumed
<1>1. QuietButPermit /\ proc[p].pc = "commit"
    BY DEF Commit, QuietButPermit, observed, At
<1>2. Working(proc[p]) /\ proc[p].key \in Keys /\ ~proc[p].recovers
    BY <1>1, WorkingAt DEF HandlerSteps
<1>3. {"verifying", "committed"} \subseteq PermitStates /\ "succeeded" \in TerminalOutcomes
    BY DEF PermitStates, MutationStates, TerminalStates, TerminalOutcomes
<1>4. CASE /\ CanTransition(permit[proc[p].key], "verifying", "committed")
           /\ SetPermit(proc[p].key, Transition(permit[proc[p].key], "committed"))
           /\ Finish(p, "succeeded", Result("promoted", NoContent))
    BY <1>1, <1>2, <1>3, <1>4, ResultIs, TransitionTells, AnswersIs
<1>5. CASE Become(p, Raised(p, "rejected")) /\ UNCHANGED permit
    BY <1>1, <1>2, <1>5, RaisedIs DEF DispatchedSteps
<1> QED BY <1>4, <1>5 DEF Commit

LEMMA ConsumeTells ==
    ASSUME ProcsOK, PermitsOK, NEW p \in Procs, ConsumePermit(p)
    PROVE  /\ QuietButPermit /\ proc[p].pc = "consume"
           /\ \/ Restores(p, "prepared") /\ UNCHANGED permit
              \/ /\ Goes(p, "record_applying") /\ PermitMoves(proc[p].key, "prepared", "claimed")
                 /\ permit[proc[p].key].consumed = FALSE /\ permit'[proc[p].key].consumed = TRUE
<1>1. QuietButPermit /\ proc[p].pc = "consume"
    BY DEF ConsumePermit, QuietButPermit, observed, At
<1>2. Working(proc[p]) /\ proc[p].key \in Keys /\ ~proc[p].recovers
    BY <1>1, WorkingAt DEF HandlerSteps
<1>3. "prepared" \in MutationStates /\ "claimed" \in PermitStates /\ "record_applying" \in Steps
    BY StepsAre DEF MutationStates, PermitStates, HandlerSteps
<1>4. CASE Become(p, Restoring(p, "prepared")) /\ UNCHANGED permit
    BY <1>1, <1>3, <1>4, RestoresIs
<1>5. CASE /\ CanConsume(permit[proc[p].key])
           /\ SetPermit(proc[p].key, Consume(permit[proc[p].key])) /\ Goto(p, "record_applying")
  <2> DEFINE k == proc[p].key
  <2>1. permit[k] \in Permits
      BY <1>2 DEF PermitsOK
  <2>2. Consume(permit[k]) \in Permits
      BY <1>3, <2>1 DEF Permits, Consume
  <2>3. /\ Consume(permit[k]).state = "claimed" /\ Consume(permit[k]).consumed = TRUE
        /\ Consume(permit[k]).pre = permit[k].pre /\ Consume(permit[k]).post = permit[k].post
      BY <2>1 DEF Permits, Consume
  <2>4. /\ permit' \in [Keys -> Permits] /\ permit'[k] = Consume(permit[k])
        /\ \A j \in Keys \ {k} : permit'[j] = permit[j]
      BY <1>2, <1>5, <2>2 DEF SetPermit, PermitsOK
  <2>5. permit[k].state = "prepared" /\ permit[k].consumed = FALSE
      BY <1>5, <2>1 DEF CanConsume, Permits
  <2>6. PermitMoves(k, "prepared", "claimed")
      BY <2>3, <2>4, <2>5 DEF PermitMoves
  <2> QED BY <1>1, <1>3, <1>5, <2>3, <2>4, <2>5, <2>6, GoesIs
<1> QED BY <1>4, <1>5 DEF ConsumePermit

(* A new permit binds the file as it is.                                   *)
PermitIssued(k) ==
    /\ permit' \in [Keys -> Permits] /\ \A j \in Keys \ {k} : permit'[j] = permit[j]
    /\ permit[k].state = "none" /\ permit'[k].state = "issued" /\ permit'[k].consumed = FALSE
    /\ permit'[k].pre = target /\ permit'[k].post = target \cup {k}

LEMMA IssueTells ==
    ASSUME ProcsOK, PermitsOK, FilesOK, NEW p \in Procs, Issue(p)
    PROVE  /\ QuietButPermit /\ proc[p].pc = "issue"
           /\ \/ Raises(p) /\ UNCHANGED permit
              \/ /\ Goes(p, "backup") /\ ~fenced /\ proc[p].key \notin target
                 /\ (UNCHANGED permit /\ permit[proc[p].key].state # "none") \/ PermitIssued(proc[p].key)
<1>1. QuietButPermit /\ proc[p].pc = "issue"
    BY DEF Issue, QuietButPermit, observed, At
<1>2. proc[p].key \in Keys /\ ~proc[p].recovers /\ proc[p] \in Locals
    BY <1>1, WorkingAt DEF HandlerSteps, ProcsOK
<1>3. CASE Become(p, Raised(p, "rejected")) /\ UNCHANGED permit
    BY <1>1, <1>2, <1>3, RaisedIs DEF DispatchedSteps
<1>4. CASE ~fenced /\ AnchorFound(proc[p].key, target) /\ Goto(p, "backup")
  <2>1. Goes(p, "backup")
      BY <1>4, GoesIs, StepsAre DEF HandlerSteps
  <2>2. CASE UNCHANGED permit /\ permit[proc[p].key].state # "none"
      BY <1>1, <1>4, <2>1, <2>2 DEF AnchorFound
  <2>3. CASE permit[proc[p].key].state = "none" /\
             SetPermit(proc[p].key, NewPermit(proc[p].agate, target, Patched(proc[p].key, target)))
    <3> DEFINE k == proc[p].key
               r == NewPermit(proc[p].agate, target, Patched(k, target))
    <3>1. proc[p].agate \in Gates \cup {NoGate} /\ target \in Contents
        BY <1>2 DEF Locals, FilesOK
    <3>2. Patched(k, target) \in Contents /\ Patched(k, target) = target \cup {k}
        BY <1>2, <3>1 DEF Patched, Contents
    <3>3. r \in Permits
        BY <3>1, <3>2 DEF NewPermit, Permits, PermitStates
    <3>4. /\ r.state = "issued" /\ r.consumed = FALSE /\ r.pre = target /\ r.post = target \cup {k}
        BY <3>2 DEF NewPermit
    <3>5. permit' = [permit EXCEPT ![k] = r]
        BY <2>3 DEF SetPermit
    <3> HIDE DEF r
    <3>6. PermitIssued(k)
        BY <1>2, <2>3, <3>3, <3>4, <3>5 DEF PermitIssued, PermitsOK
    <3> QED BY <1>1, <1>4, <2>1, <3>6 DEF AnchorFound
  <2> QED BY <1>4, <2>2, <2>3 DEF Issue
<1> QED BY <1>3, <1>4 DEF Issue

LEMMA BackupTells ==
    ASSUME ProcsOK, FilesOK, NEW p \in Procs, Backup(p)
    PROVE  /\ UNCHANGED << auth, permit, target, promoted, replies >> /\ proc[p].pc = "backup"
           /\ \/ Raises(p) /\ UNCHANGED backup
              \/ /\ Goes(p, "record_prepared")
                 /\ backup' \in [Keys -> Contents \cup {NoContent}]
                 /\ backup'[proc[p].key] = proc[p].prep
                 /\ backup[proc[p].key] \in {NoContent, proc[p].prep}
                 /\ \A j \in Keys \ {proc[p].key} : backup'[j] = backup[j]
<1>1. UNCHANGED << auth, permit, target, promoted, replies >> /\ proc[p].pc = "backup"
    BY DEF Backup, observed, At
<1>2. proc[p].key \in Keys /\ ~proc[p].recovers /\ proc[p].prep \in Contents
    BY <1>1, WorkingAt DEF HandlerSteps, ProcsOK, Shape, Transacting
<1>3. CASE Become(p, Raised(p, "rejected")) /\ UNCHANGED backup
    BY <1>1, <1>2, <1>3, RaisedIs DEF DispatchedSteps
<1>4. CASE /\ backup[proc[p].key] \in {NoContent, proc[p].prep}
           /\ backup' = [backup EXCEPT ![proc[p].key] = proc[p].prep] /\ Goto(p, "record_prepared")
    BY <1>1, <1>2, <1>4, GoesIs, StepsAre DEF HandlerSteps, FilesOK
<1> QED BY <1>3, <1>4 DEF Backup

LEMMA PromoteCheckTells ==
    ASSUME ProcsOK, NEW p \in Procs, PromoteCheck(p)
    PROVE  /\ Quiet /\ proc[p].pc = "promote"
           /\ (Goes(p, "replace") /\ target = proc[p].prep) \/ Restores(p, "applying")
<1>1. Quiet /\ proc[p].pc = "promote"
    BY DEF PromoteCheck, Quiet, stores, observed, At
<1>2. CASE target = proc[p].prep /\ Goto(p, "replace")
    BY <1>1, <1>2, GoesIs, StepsAre DEF HandlerSteps
<1>3. CASE Become(p, Restoring(p, "applying"))
    BY <1>1, <1>3, RestoresIs DEF MutationStates
<1> QED BY <1>2, <1>3 DEF PromoteCheck

LEMMA PromoteReplaceTells ==
    ASSUME ProcsOK, FilesOK, ObservedOK, NEW p \in Procs, PromoteReplace(p)
    PROVE  /\ UNCHANGED << auth, permit, backup, replies >> /\ proc[p].pc = "replace"
           /\ Goes(p, "record_applied") \/ Restores(p, "applying")
           /\ target' = proc[p].prep \cup {proc[p].key} /\ target' \in Contents
           /\ promoted' \in [Clients \X Keys -> Nat]
           /\ promoted'[<< proc[p].client, proc[p].key >>] = promoted[<< proc[p].client, proc[p].key >>] + 1
           /\ \A c \in Clients, k \in Keys : << c, k >> # << proc[p].client, proc[p].key >> =>
                 promoted'[<< c, k >>] = promoted[<< c, k >>]
<1>1. UNCHANGED << auth, permit, backup, replies >> /\ proc[p].pc = "replace"
    BY DEF PromoteReplace, At
<1>2. proc[p].key \in Keys /\ proc[p].client \in Clients /\ proc[p].prep \in Contents
    BY <1>1, WorkingAt DEF HandlerSteps, ProcsOK, Shape, Transacting
<1>3. Goes(p, "record_applied") \/ Restores(p, "applying")
  <2>1. CASE Goto(p, "record_applied")
      BY <2>1, GoesIs, StepsAre DEF HandlerSteps
  <2>2. CASE Become(p, Restoring(p, "applying"))
      BY <2>2, RestoresIs DEF MutationStates
  <2> QED BY <2>1, <2>2 DEF PromoteReplace
<1>4. target' = proc[p].prep \cup {proc[p].key} /\ target' \in Contents
    BY <1>2 DEF PromoteReplace, Patched, Contents
<1>5. promoted' = [promoted EXCEPT ![<< proc[p].client, proc[p].key >>] = promoted[<< proc[p].client, proc[p].key >>] + 1]
    BY DEF PromoteReplace
<1>6. /\ promoted' \in [Clients \X Keys -> Nat]
      /\ promoted'[<< proc[p].client, proc[p].key >>] = promoted[<< proc[p].client, proc[p].key >>] + 1
      /\ \A c \in Clients, k \in Keys : << c, k >> # << proc[p].client, proc[p].key >> =>
            promoted'[<< c, k >>] = promoted[<< c, k >>]
    BY <1>2, <1>5 DEF ObservedOK
<1> QED BY <1>1, <1>3, <1>4, <1>6

LEMMA InspectTells ==
    ASSUME ProcsOK, NEW p \in Procs, Inspect(p)
    PROVE  /\ Quiet /\ proc[p].pc = "inspect"
           /\ \/ Goes(p, "fence")
              \/ /\ Goes(p, "restore") /\ (proc[p].recovers \/ permit[proc[p].key].state = proc[p].from)
                 /\ backup[proc[p].key] = permit[proc[p].key].pre
                 /\ target \in {permit[proc[p].key].pre, permit[proc[p].key].post}
<1>1. Quiet /\ proc[p].pc = "inspect"
    BY DEF Inspect, Quiet, stores, observed, At
<1> QED BY <1>1, GoesIs, StepsAre DEF Inspect, RestoreSteps

LEMMA RestoreTells ==
    ASSUME ProcsOK, NEW p \in Procs, Restore(p)
    PROVE  /\ UNCHANGED << auth, permit, backup, promoted, replies >> /\ proc[p].pc = "restore"
           /\ \/ target' = backup[proc[p].key] /\ (Goes(p, "record_aborted") \/ Goes(p, "fence"))
              \/ UNCHANGED target /\ Goes(p, "fence")
<1>1. UNCHANGED << auth, permit, backup, promoted, replies >> /\ proc[p].pc = "restore"
    BY DEF Restore, observed, At
<1> QED BY <1>1, GoesIs, StepsAre DEF Restore, RestoreSteps

LEMMA SettleTells ==
    ASSUME ProcsOK, PermitsOK, NEW p \in Procs, proc[p].pc \in {"record_aborted", "fence"},
           NEW new \in {"aborted", "recovery_required"}, Settle(p, new)
    PROVE  /\ QuietButPermit
           /\ PermitMoves(proc[p].key, proc[p].from, new)
           /\ permit'[proc[p].key].consumed = permit[proc[p].key].consumed
           /\ \/ proc[p].recovers /\ Goes(p, "recover")
              \/ ~proc[p].recovers /\ Answers(p, "failed", Result("failed", NoContent))
<1>1. QuietButPermit
    BY DEF Settle, QuietButPermit, observed
<1>2. proc[p].key \in Keys /\ proc[p].from \in MutationStates /\ proc[p].from \in PermitStates
    BY DEF ProcsOK, Shape, RestoreSteps, PermitStates
<1>3. new \in PermitStates /\ "recover" \in Steps /\ "failed" \in TerminalOutcomes
    BY DEF PermitStates, TerminalStates, Steps, TerminalOutcomes
<1>4. /\ PermitMoves(proc[p].key, proc[p].from, new)
      /\ permit'[proc[p].key].consumed = permit[proc[p].key].consumed
    BY <1>2, <1>3, TransitionTells DEF Settle
<1>5. CASE proc[p].recovers
    BY <1>1, <1>3, <1>4, <1>5, GoesIs DEF Settle
<1>6. CASE ~proc[p].recovers
    BY <1>1, <1>3, <1>4, <1>6, ResultIs, AnswersIs DEF Settle
<1> QED BY <1>5, <1>6

LEMMA StaleTells ==
    ASSUME ProcsOK, NEW p \in Procs, StaleRestoration(p)
    PROVE  Quiet /\ (Rests(p) \/ Raises(p))
<1>1. Quiet /\ proc[p].pc \in RestoreSteps
    BY DEF StaleRestoration, Quiet, observed, RestoreSteps
<1>2. CASE proc[p].recovers
    BY <1>1, <1>2, RestsIs DEF StaleRestoration
<1>3. CASE ~proc[p].recovers
    BY <1>1, <1>3, RaisedIs DEF StaleRestoration
<1> QED BY <1>2, <1>3

LEMMA RaiseTells ==
    ASSUME ProcsOK, NEW p \in Procs, Raise(p)
    PROVE  Quiet /\ Raises(p)
<1>1. Quiet /\ proc[p].pc \in DispatchedSteps \cup RestoreSteps /\ ~proc[p].recovers
    BY DEF Raise, Quiet, stores, observed, RestoreSteps, DispatchedSteps
<1> QED BY <1>1, RaisedIs DEF Raise

LEMMA RestingActions ==
    ASSUME ProcsOK, NEW p \in Procs, CompletionFails(p) \/ Listen(p) \/ ListenRefused(p) \/ Crash(p)
    PROVE  Quiet /\ Rests(p)
BY RestsIs DEF CompletionFails, Listen, ListenRefused, Crash, Quiet, stores, observed

LEMMA LocalsWith ==
    ASSUME NEW l \in Locals, NEW step \in Steps, NEW todo \in SUBSET (Keys \X MutationStates)
    PROVE  /\ [l EXCEPT !.pc = step, !.recovers = TRUE, !.todo = todo] \in Locals
           /\ \A key \in Keys, from \in PermitStates :
                 [l EXCEPT !.pc = step, !.key = key, !.from = from, !.todo = todo] \in Locals
<1> DEFINE Todos == SUBSET (Keys \X MutationStates)
<1>1. todo \in Todos
    OBVIOUS
<1>2. Locals = [pc : Steps, client : Clients \cup {NoClient}, key : Keys \cup {NoKey}, op : Ops,
                gate : Gates \cup {NoGate}, base : Contents \cup {NoContent}, version : Nat,
                lease : Leases \cup {NoLease}, final : Nat, outcome : TerminalOutcomes \cup {"none"},
                result : Results \cup {NoResult}, agate : Gates \cup {NoGate},
                prep : Contents \cup {NoContent}, from : PermitStates, recovers : BOOLEAN,
                todo : Todos]
    BY DEF Locals
<1> HIDE DEF Todos
<1> QED BY <1>1, <1>2

(* start() and the transactions it found.                                  *)
LEMMA StartTells ==
    ASSUME ProcsOK, PermitsOK, NEW p \in Procs, Start(p)
    PROVE  /\ Quiet /\ Moves(p) /\ proc'[p].pc = "recover" /\ proc'[p].recovers = TRUE
           /\ proc'[p].todo = {<< k, permit[k].state >> : k \in {x \in Keys : permit[x].state \in MutationStates}}
<1> DEFINE todo == {<< k, permit[k].state >> : k \in {x \in Keys : permit[x].state \in MutationStates}}
           l == [Resting EXCEPT !.pc = "recover", !.recovers = TRUE, !.todo = todo]
<1>1. Quiet /\ Become(p, l)
    BY DEF Start, Quiet, stores, observed
<1>2. todo \in SUBSET (Keys \X MutationStates) /\ "recover" \in Steps
    BY DEF Steps
<1> HIDE DEF todo
<1>3. l \in Locals
    BY <1>2, RestingIs, LocalsWith
<1>4. l.pc = "recover" /\ l.recovers = TRUE /\ l.todo = todo
    BY RestingIs DEF Locals
<1> HIDE DEF l
<1> QED BY <1>1, <1>3, <1>4, BecomeTells DEF Moves, todo

LEMMA RecoverNextTells ==
    ASSUME ProcsOK, NEW p \in Procs, RecoverNext(p)
    PROVE  /\ Quiet /\ proc[p].pc = "recover" /\ Moves(p) /\ proc'[p].pc = "inspect"
           /\ proc[p].recovers /\ proc'[p].recovers
           /\ \E t \in proc[p].todo :
                 /\ t[1] \in Keys /\ t[2] \in MutationStates
                 /\ proc'[p].key = t[1] /\ proc'[p].from = t[2]
                 /\ proc'[p].todo = proc[p].todo \ {t}
<1>1. Quiet /\ proc[p].pc = "recover" /\ proc[p] \in Locals /\ proc[p].recovers
    BY DEF RecoverNext, Quiet, stores, observed, At, ProcsOK, Shape
<1>2. PICK t \in proc[p].todo :
          Become(p, [proc[p] EXCEPT !.pc = "inspect", !.key = t[1], !.from = t[2], !.todo = proc[p].todo \ {t}])
    BY DEF RecoverNext
<1> DEFINE l == [proc[p] EXCEPT !.pc = "inspect", !.key = t[1], !.from = t[2], !.todo = proc[p].todo \ {t}]
<1>3. /\ t[1] \in Keys /\ t[2] \in MutationStates /\ t[2] \in PermitStates
      /\ proc[p].todo \ {t} \in SUBSET (Keys \X MutationStates) /\ "inspect" \in Steps
  <2>1. proc[p].todo \in SUBSET (Keys \X MutationStates)
      BY <1>1 DEF Locals
  <2> QED BY <2>1 DEF PermitStates, Steps, RestoreSteps
<1>4. l \in Locals
    BY <1>1, <1>3, LocalsWith
<1>5. /\ l.pc = "inspect" /\ l.key = t[1] /\ l.from = t[2] /\ l.todo = proc[p].todo \ {t}
      /\ l.recovers = proc[p].recovers
    BY <1>1 DEF Locals
<1>6. Become(p, l)
    BY <1>2
<1> HIDE DEF l
<1> QED BY <1>1, <1>3, <1>4, <1>5, <1>6, BecomeTells DEF Moves

----------------------------------------------------------------------------
(* The actions that change lifecycle records.                              *)

(* The record of a becomes one with state, version, lease, outcome and     *)
(* result as given; the others stay.                                       *)
AuthMoves(a, state, version, lease, outcome, result) ==
    /\ auth' \in [Auths -> Records] /\ \A b \in Auths \ {a} : auth'[b] = auth[b]
    /\ auth'[a].state = state /\ auth'[a].version = version /\ auth'[a].lease = lease
    /\ auth'[a].outcome = outcome /\ auth'[a].result = result

LEMMA ThisAuthIs ==
    ASSUME ProcsOK, NEW p \in Procs, Working(proc[p])
    PROVE  ThisAuth(p) \in Auths
<1>1. proc[p].client \in Clients /\ proc[p].key \in Keys /\ proc[p].op \in Ops
    BY KeyIs DEF ProcsOK, Locals
<1> QED BY <1>1 DEF ThisAuth, Auths

LEMMA RecordIs ==
    ASSUME AuthOK, NEW a \in Auths
    PROVE  /\ auth[a] \in Records /\ auth[a].version \in Nat /\ auth[a].lease \in Leases \cup {NoLease}
           /\ RecordShape(auth[a])
BY DEF AuthOK, Records

LEMMA AbsentIs == AbsentRecord \in Records
BY DEF AbsentRecord, Records, LifecycleStates, Digests, GenesisDigest

LEMMA LeasedLocals ==
    ASSUME NEW l \in Locals, NEW step \in Steps, NEW v \in Nat, NEW lease \in Leases \cup {NoLease}
    PROVE  /\ [l EXCEPT !.pc = step, !.version = v, !.lease = lease] \in Locals
           /\ [l EXCEPT !.version = v, !.lease = lease] \in Locals
           /\ \A c \in Clients \cup {NoClient}, k \in Keys \cup {NoKey}, op \in Ops,
                 g \in Gates \cup {NoGate}, b \in Contents \cup {NoContent} :
                 [l EXCEPT !.client = c, !.key = k, !.op = op, !.gate = g, !.base = b] \in Locals
<1> DEFINE S == Steps
           N == Nat
           L == Leases \cup {NoLease}
           T == SUBSET (Keys \X MutationStates)
           C == Contents \cup {NoContent}
           G == Gates \cup {NoGate}
           R == Results \cup {NoResult}
           O == TerminalOutcomes \cup {"none"}
           K == Keys \cup {NoKey}
           D == Clients \cup {NoClient}
           P == Ops
<1>1. step \in S /\ v \in N /\ lease \in L
    OBVIOUS
<1>2. Locals = [pc : S, client : D, key : K, op : P, gate : G, base : C, version : N, lease : L,
                final : N, outcome : O, result : R, agate : G, prep : C, from : PermitStates,
                recovers : BOOLEAN, todo : T]
    BY DEF Locals
<1>3. SUFFICES /\ [l EXCEPT !.pc = step, !.version = v, !.lease = lease] \in Locals
               /\ [l EXCEPT !.version = v, !.lease = lease] \in Locals
               /\ \A c \in D, k \in K, op \in P, g \in G, b \in C :
                    [l EXCEPT !.client = c, !.key = k, !.op = op, !.gate = g, !.base = b] \in Locals
    OBVIOUS
<1> HIDE DEF S, N, L, T, C, G, R, O, K, D, P
<1>4. [l EXCEPT !.pc = step, !.version = v, !.lease = lease] \in Locals
    BY <1>1, <1>2
<1>5. [l EXCEPT !.version = v, !.lease = lease] \in Locals
    BY <1>1, <1>2
<1>6. \A c \in D, k \in K, op \in P, g \in G, b \in C :
         [l EXCEPT !.client = c, !.key = k, !.op = op, !.gate = g, !.base = b] \in Locals
    BY <1>2
<1> QED BY <1>4, <1>5, <1>6

LEMMA TerminalRecord ==
    ASSUME NEW r \in Records, NEW v \in Nat, NEW o \in TerminalOutcomes, NEW x \in Results
    PROVE  TerminalBody(r, v, o, x) \in Records
<1>1. v + 1 \in Nat /\ "terminal" \in LifecycleStates
    BY DEF LifecycleStates
<1> QED BY <1>1 DEF TerminalBody, Records

Leased(p) ==
    LET a == ThisAuth(p)
    IN  /\ auth[a].version = proc[p].version /\ auth[a].state \in {"issued", "leased"}
        /\ AuthMoves(a, "leased", proc[p].version + 1, << p, proc[p].version + 1 >>,
                     auth[a].outcome, auth[a].result)
        /\ Moves(p)
        /\ proc'[p].pc = (IF proc[p].op = "execute" THEN "admit" ELSE "dispatch")
        /\ proc'[p].version = proc[p].version + 1 /\ proc'[p].lease = << p, proc[p].version + 1 >>
        /\ proc'[p].client = proc[p].client /\ proc'[p].key = proc[p].key
        /\ proc'[p].op = proc[p].op /\ proc'[p].recovers = proc[p].recovers

LEMMA LeaseTells ==
    ASSUME ProcsOK, AuthOK, NEW p \in Procs, NEW now \in Times, Lease(p, now)
    PROVE  /\ UNCHANGED << permit, backup, target, promoted, replies >> /\ proc[p].pc = "lease"
           /\ (Rests(p) /\ UNCHANGED auth) \/ Leased(p)
<1> DEFINE a == ThisAuth(p)
           v == proc[p].version
           lease == << p, v + 1 >>
<1>1. UNCHANGED << permit, backup, target, promoted, replies >> /\ proc[p].pc = "lease"
    BY DEF Lease, observed, At
<1>2. Working(proc[p]) /\ a \in Auths /\ v \in Nat /\ proc[p] \in Locals
    BY <1>1, WorkingAt, ThisAuthIs, VersionIs DEF HandlerSteps
<1>3. CASE Become(p, Resting) /\ UNCHANGED auth
    BY <1>1, <1>3, RestsIs
<1>4. CASE /\ CanLease(auth[a], v, lease, now)
           /\ auth' = [auth EXCEPT ![a] = LeasedBody(auth[a], v, lease, now)]
           /\ Become(p, [proc[p] EXCEPT
                  !.pc = IF proc[p].op = "execute" THEN "admit" ELSE "dispatch",
                  !.version = v + 1, !.lease = lease])
  <2> DEFINE l == [proc[p] EXCEPT !.pc = IF proc[p].op = "execute" THEN "admit" ELSE "dispatch",
                                  !.version = v + 1, !.lease = lease]
             r == LeasedBody(auth[a], v, lease, now)
  <2>1. /\ (IF proc[p].op = "execute" THEN "admit" ELSE "dispatch") \in Steps
        /\ lease \in Leases /\ v + 1 \in Nat /\ now + LeaseSeconds \in Nat /\ "leased" \in LifecycleStates
      BY <1>2, StepsAre, ServiceAssumption DEF HandlerSteps, Leases, LifecycleStates
  <2>2. auth[a] \in Records
      BY <1>2, RecordIs
  <2> HIDE DEF lease, v, a
  <2>3. r \in Records
      BY <2>1, <2>2 DEF LeasedBody, Records
  <2>4. /\ r.state = "leased" /\ r.version = v + 1 /\ r.lease = lease
        /\ r.outcome = auth[a].outcome /\ r.result = auth[a].result
      BY <2>2 DEF LeasedBody, Records
  <2>5. l \in Locals
      BY <1>2, <2>1, LeasedLocals
  <2>6. /\ l.pc = (IF proc[p].op = "execute" THEN "admit" ELSE "dispatch")
        /\ l.version = v + 1 /\ l.lease = lease /\ l.client = proc[p].client /\ l.key = proc[p].key
        /\ l.op = proc[p].op /\ l.recovers = proc[p].recovers
      BY <1>2 DEF Locals
  <2>7. Become(p, l) /\ auth' = [auth EXCEPT ![a] = r]
      BY <1>4
  <2> HIDE DEF l, r
  <2>8. Moves(p) /\ proc'[p] = l
      BY <2>5, <2>7, BecomeTells DEF Moves
  <2>9. AuthMoves(a, "leased", v + 1, lease, auth[a].outcome, auth[a].result)
      BY <1>2, <2>3, <2>4, <2>7 DEF AuthMoves, AuthOK
  <2>10. auth[a].version = v /\ auth[a].state \in {"issued", "leased"}
      BY <1>4 DEF CanLease, RequireTransition
  <2> QED BY <1>1, <2>6, <2>8, <2>9, <2>10 DEF Leased, a, v, lease
<1> QED BY <1>3, <1>4 DEF Lease

Dispatched(p) ==
    LET a == ThisAuth(p)
    IN  /\ auth[a].version = proc[p].version /\ auth[a].state = "leased" /\ auth[a].lease = proc[p].lease
        /\ AuthMoves(a, "dispatched", proc[p].version + 1, auth[a].lease, auth[a].outcome, auth[a].result)
        /\ Goes(p, IF proc[p].op = "execute" THEN "replay" ELSE "preflight")

LEMMA DispatchTells ==
    ASSUME ProcsOK, AuthOK, NEW p \in Procs, NEW now \in Times, Dispatch(p, now)
    PROVE  /\ UNCHANGED << permit, backup, target, promoted, replies >> /\ proc[p].pc = "dispatch"
           /\ (Raises(p) /\ UNCHANGED auth) \/ Dispatched(p)
<1> DEFINE a == ThisAuth(p)
           v == proc[p].version
<1>1. UNCHANGED << permit, backup, target, promoted, replies >> /\ proc[p].pc = "dispatch"
    BY DEF Dispatch, observed, At
<1>2. Working(proc[p]) /\ ~proc[p].recovers /\ a \in Auths /\ v \in Nat /\ proc[p] \in Locals
    BY <1>1, WorkingAt, ThisAuthIs, VersionIs DEF HandlerSteps
<1>3. CASE Become(p, Raised(p, "rejected")) /\ UNCHANGED auth
    BY <1>1, <1>2, <1>3, RaisedIs
<1>4. CASE /\ CanDispatch(auth[a], v, proc[p].lease, now)
           /\ auth' = [auth EXCEPT ![a] = DispatchedBody(auth[a], v)]
           /\ Goto(p, IF proc[p].op = "execute" THEN "replay" ELSE "preflight")
  <2> DEFINE r == DispatchedBody(auth[a], v)
  <2>1. /\ (IF proc[p].op = "execute" THEN "replay" ELSE "preflight") \in Steps
        /\ v + 1 \in Nat /\ "dispatched" \in LifecycleStates
      BY <1>2, StepsAre DEF HandlerSteps, LifecycleStates
  <2>2. auth[a] \in Records
      BY <1>2, RecordIs
  <2>3. r \in Records
      BY <2>1, <2>2 DEF DispatchedBody, Records
  <2>4. /\ r.state = "dispatched" /\ r.version = v + 1 /\ r.lease = auth[a].lease
        /\ r.outcome = auth[a].outcome /\ r.result = auth[a].result
      BY <2>2 DEF DispatchedBody, Records
  <2>5. auth' = [auth EXCEPT ![a] = r]
      BY <1>4
  <2> HIDE DEF r
  <2>6. AuthMoves(a, "dispatched", v + 1, auth[a].lease, auth[a].outcome, auth[a].result)
      BY <1>2, <2>3, <2>4, <2>5 DEF AuthMoves, AuthOK
  <2>7. auth[a].version = v /\ auth[a].state = "leased" /\ auth[a].lease = proc[p].lease
      BY <1>4 DEF CanDispatch, RequireTransition
  <2>8. Goes(p, IF proc[p].op = "execute" THEN "replay" ELSE "preflight")
      BY <1>4, <2>1, GoesIs
  <2> QED BY <1>1, <2>6, <2>7, <2>8 DEF Dispatched
<1> QED BY <1>3, <1>4 DEF Dispatch

RepliesWith(a, outcome, result) ==
    /\ replies' \in [Auths -> SUBSET [outcome : TerminalOutcomes, result : Results]]
    /\ replies'[a] = replies[a] \cup {[outcome |-> outcome, result |-> result]}
    /\ \A b \in Auths \ {a} : replies'[b] = replies[b]

LEMMA SendReplyTells ==
    ASSUME ObservedOK, NEW a \in Auths, NEW r, r.outcome \in TerminalOutcomes, r.result \in Results,
           SendReply(a, r)
    PROVE  RepliesWith(a, r.outcome, r.result)
BY DEF ObservedOK, SendReply, RepliesWith

LEMMA CompleteTells ==
    ASSUME ProcsOK, AuthOK, ObservedOK, NEW p \in Procs, Complete(p)
    PROVE  LET a == ThisAuth(p)
               l == proc[p]
           IN  /\ UNCHANGED << permit, backup, target, promoted >> /\ l.pc = "complete" /\ Rests(p)
               /\ a \in Auths /\ auth[a].version = l.final /\ auth[a].state \in {"leased", "dispatched"}
               /\ auth[a].lease = l.lease
               /\ AuthMoves(a, "terminal", l.final + 1, auth[a].lease, l.outcome, l.result)
               /\ RepliesWith(a, l.outcome, l.result)
<1> DEFINE a == ThisAuth(p)
           r == TerminalBody(auth[a], proc[p].final, proc[p].outcome, proc[p].result)
<1>1. UNCHANGED << permit, backup, target, promoted >> /\ proc[p].pc = "complete"
    BY DEF Complete, At
<1>2. a \in Auths /\ proc[p] \in Locals /\ Shape(proc[p])
    BY <1>1, WorkingAt, ThisAuthIs, VersionIs DEF HandlerSteps
<1>3. proc[p].final \in Nat /\ proc[p].outcome \in TerminalOutcomes /\ proc[p].result \in Results
    BY <1>1, <1>2 DEF Locals, Shape
<1>4. auth[a] \in Records
    BY <1>2, RecordIs
<1>5. r \in Records
    BY <1>3, <1>4, TerminalRecord
<1>6. /\ r.state = "terminal" /\ r.version = proc[p].final + 1 /\ r.lease = auth[a].lease
      /\ r.outcome = proc[p].outcome /\ r.result = proc[p].result
    BY <1>4 DEF TerminalBody, Records
<1>7. /\ auth' = [auth EXCEPT ![a] = r] /\ SendReply(a, r) /\ Become(p, Resting)
      /\ CanComplete(auth[a], proc[p].final, proc[p].lease, proc[p].outcome)
    BY DEF Complete
<1> HIDE DEF r
<1>8. AuthMoves(a, "terminal", proc[p].final + 1, auth[a].lease, proc[p].outcome, proc[p].result)
    BY <1>2, <1>5, <1>6, <1>7 DEF AuthMoves, AuthOK
<1>9. RepliesWith(a, proc[p].outcome, proc[p].result)
    BY <1>2, <1>3, <1>6, <1>7, SendReplyTells
<1>10. /\ auth[a].version = proc[p].final /\ auth[a].state \in {"leased", "dispatched"}
       /\ auth[a].lease = proc[p].lease
    BY <1>7 DEF CanComplete, RequireTransition
<1> QED BY <1>1, <1>2, <1>7, <1>8, <1>9, <1>10, RestsIs

LEMMA ReconcileTells ==
    ASSUME ProcsOK, NEW p \in Procs, Reconcile(p)
    PROVE  /\ Quiet /\ proc[p].pc = "reconcile"
           /\ \/ Rests(p)
              \/ /\ Moves(p)
                 /\ \/ Resolved(p, proc[p].version, "unknown", Result("unknown", NoContent))
                    \/ /\ permit[proc[p].key].state \in TerminalStates
                       /\ Resolved(p, proc[p].version, ResultStatus(permit[proc[p].key]),
                                   StoredResult(permit[proc[p].key]))
<1>1. Quiet /\ proc[p].pc = "reconcile"
    BY DEF Reconcile, Quiet, stores, observed, At
<1> DEFINE r == permit[proc[p].key]
<1>2. "unknown" \in TerminalOutcomes /\ Result("unknown", NoContent) \in Results
    BY ResultIs DEF TerminalOutcomes
<1>3. ResultStatus(r) \in TerminalOutcomes /\ StoredResult(r) \in Results
    BY StoredResultIs DEF TerminalOutcomes
<1>4. CASE Become(p, Resting)
    BY <1>1, <1>4, RestsIs
<1>5. CASE Become(p, Completing(p, proc[p].version, "unknown", Result("unknown", NoContent)))
    BY <1>1, <1>2, <1>5, VersionIs, CompletingTells DEF Moves
<1>6. CASE r.state \in TerminalStates /\ Become(p, Completing(p, proc[p].version, ResultStatus(r), StoredResult(r)))
    BY <1>1, <1>3, <1>6, VersionIs, CompletingTells DEF Moves
<1> QED BY <1>4, <1>5, <1>6 DEF Reconcile

(* A request arrives: its record, and what the process makes of it.        *)
Received(p, c, k, op) ==
    LET a == << c, k, op >>
        m == proc'[p]
    IN  /\ UNCHANGED replies /\ Moves(p)
        /\ m.client = c /\ m.key = k /\ m.op = op /\ m.recovers = FALSE
        /\ m.version = auth'[a].version /\ m.lease = auth'[a].lease
        /\ \/ m.pc = "lease" /\ auth'[a].state \in {"issued", "leased"}
           \/ m.pc = "reconcile" /\ op = "execute" /\ auth'[a].state = "dispatched"
           \/ /\ m.pc = "complete" /\ op = "preflight" /\ auth'[a].state = "dispatched"
              /\ m.final = m.version /\ m.outcome = "unknown" /\ m.result = Result("unknown", NoContent)

IsRequest(m, c, k, op, v, lease) ==
    /\ m \in Locals /\ m.client = c /\ m.key = k /\ m.op = op /\ m.recovers = FALSE
    /\ m.version = v /\ m.lease = lease

LEMMA RequestIs ==
    ASSUME NEW c \in Clients, NEW k \in Keys, NEW op \in Ops, NEW g \in Gates \cup {NoGate},
           NEW b \in Contents \cup {NoContent}, NEW v \in Nat, NEW lease \in Leases \cup {NoLease}
    PROVE  IsRequest([Request(c, k, op, g, b) EXCEPT !.version = v, !.lease = lease], c, k, op, v, lease)
<1> DEFINE l == Request(c, k, op, g, b)
           m == [l EXCEPT !.version = v, !.lease = lease]
<1>0. "idle" \in Steps
    BY DEF Steps
<1>1. l \in Locals
  <2>1. \A cc \in Clients \cup {NoClient}, kk \in Keys \cup {NoKey}, oo \in Ops,
           gg \in Gates \cup {NoGate}, bb \in Contents \cup {NoContent} :
           [Resting EXCEPT !.client = cc, !.key = kk, !.op = oo, !.gate = gg, !.base = bb] \in Locals
      BY <1>0, RestingIs, LeasedLocals
  <2> QED BY <2>1 DEF Request
<1>2. l.client = c /\ l.key = k /\ l.op = op /\ l.recovers = FALSE
    BY RestingIs DEF Request, Locals
<1> HIDE DEF l
<1>3. m \in Locals
    BY <1>0, <1>1, LeasedLocals
<1>4. m.client = c /\ m.key = k /\ m.op = op /\ m.recovers = FALSE /\ m.version = v /\ m.lease = lease
    BY <1>1, <1>2 DEF Locals
<1> QED BY <1>3, <1>4 DEF l, IsRequest

LEMMA AnsweringLocals ==
    ASSUME NEW l \in Locals, NEW step \in Steps, NEW v \in Nat, NEW o \in TerminalOutcomes, NEW x \in Results
    PROVE  /\ [l EXCEPT !.pc = step] \in Locals
           /\ [l EXCEPT !.pc = step, !.final = v, !.outcome = o, !.result = x] \in Locals
<1>1. [l EXCEPT !.pc = step] \in Locals
    BY DEF Locals
<1>2. [l EXCEPT !.pc = step, !.final = v, !.outcome = o, !.result = x] \in Locals
    BY DEF Locals
<1> QED BY <1>1, <1>2

LEMMA IssuedIs ==
    ASSUME NEW b \in Bindings
    PROVE  LET r == IssuedBody(b)
           IN  /\ r \in Records /\ r.state = "issued" /\ r.version = 1 /\ r.lease = NoLease
               /\ r.outcome = "none" /\ r.result = NoResult
<1>1. AbsentRecord \in Records
    BY AbsentIs
<1>2. IssuedBody(b) \in Records
    BY <1>1 DEF IssuedBody, Records, LifecycleStates
<1> QED BY <1>2 DEF IssuedBody, AbsentRecord

(* issue_or_get: a new record, or the one that is stored.                  *)
Gets(a) ==
    \/ UNCHANGED auth /\ auth[a].state # "absent"
    \/ auth[a].state = "absent" /\ AuthMoves(a, "issued", 1, NoLease, "none", NoResult)

LEMMA ReceiveTells ==
    ASSUME ProcsOK, AuthOK, ObservedOK, NEW p \in Procs, NEW c \in Clients, NEW k \in Keys,
           NEW op \in Ops, NEW g \in Gates \cup {NoGate}, NEW b \in Contents \cup {NoContent},
           Receive(p, c, k, op, g, b)
    PROVE  LET a == << c, k, op >>
           IN  /\ UNCHANGED << permit, backup, target, promoted >> /\ proc[p].pc = "idle"
               /\ a \in Auths /\ Gets(a)
               /\ \/ /\ auth[a].state = "terminal" /\ UNCHANGED << auth, proc >>
                     /\ RepliesWith(a, auth[a].outcome, auth[a].result)
                  \/ Received(p, c, k, op)
<1> DEFINE a == << c, k, op >>
           bd == [gate |-> g, base |-> b]
           r == IF auth[a].state = "absent" THEN IssuedBody(bd) ELSE auth[a]
           req == [Request(c, k, op, g, b) EXCEPT !.version = r.version, !.lease = r.lease]
<1>1. UNCHANGED << permit, backup, target, promoted >> /\ proc[p].pc = "idle" /\ auth' = [auth EXCEPT ![a] = r]
    BY DEF Receive, At
<1>2. a \in Auths /\ bd \in Bindings
    BY DEF Auths, Bindings
<1>3. IssuedBody(bd) \in Records /\ IssuedBody(bd).state = "issued" /\ IssuedBody(bd).version = 1
      /\ IssuedBody(bd).lease = NoLease /\ IssuedBody(bd).outcome = "none" /\ IssuedBody(bd).result = NoResult
    BY <1>2, IssuedIs
<1>4. auth[a] \in Records /\ RecordShape(auth[a])
    BY <1>2, RecordIs
<1>5. r \in Records
    BY <1>3, <1>4
<1>6. r.state # "absent" /\ (r.state \in {"dispatched", "terminal", "leased"} => r = auth[a])
    BY <1>3
<1>9. Gets(a)
  <2>1. CASE auth[a].state = "absent"
      BY <1>1, <1>2, <1>3, <2>1 DEF Gets, AuthMoves, AuthOK
  <2>2. CASE auth[a].state # "absent"
      BY <1>1, <1>2, <2>2 DEF Gets, AuthOK
  <2> QED BY <2>1, <2>2
<1>10. r.version \in Nat /\ r.lease \in Leases \cup {NoLease} /\ r.state \in LifecycleStates
    BY <1>5 DEF Records
<1>11. CASE r.state = "terminal"
  <2>1. SendReply(a, r) /\ UNCHANGED proc
      BY <1>11 DEF Receive
  <2>2. auth[a].state = "terminal" /\ r = auth[a] /\ UNCHANGED auth
      BY <1>1, <1>2, <1>6, <1>11 DEF AuthOK
  <2>3. RepliesWith(a, auth[a].outcome, auth[a].result)
      BY <1>2, <1>4, <2>1, <2>2, SendReplyTells DEF RecordShape
  <2> QED BY <1>1, <1>2, <1>9, <2>1, <2>2, <2>3
<1>12. /\ auth'[a] = r
    BY <1>1, <1>2 DEF AuthOK
<1> HIDE DEF r
<1>13. /\ req \in Locals /\ req.client = c /\ req.key = k /\ req.op = op /\ req.recovers = FALSE
       /\ req.version = r.version /\ req.lease = r.lease
  <2>1. IsRequest(req, c, k, op, r.version, r.lease)
      BY <1>10, RequestIs
  <2> HIDE DEF req
  <2> QED BY <2>1 DEF IsRequest
<1>17. SUFFICES ASSUME r.state # "terminal" PROVE Received(p, c, k, op)
    BY <1>1, <1>2, <1>9, <1>11
<1>14. UNCHANGED replies /\
       \/ r.state = "dispatched" /\ op = "execute" /\ Become(p, [req EXCEPT !.pc = "reconcile"])
       \/ /\ r.state = "dispatched" /\ op = "preflight"
          /\ Become(p, [req EXCEPT !.pc = "complete", !.final = r.version,
                           !.outcome = "unknown", !.result = Result("unknown", NoContent)])
       \/ r.state \in {"issued", "leased"} /\ Become(p, [req EXCEPT !.pc = "lease"])
  <2>1. r.state \in {"issued", "leased", "dispatched", "terminal"} /\ op \in {"execute", "preflight"}
      BY <1>6, <1>10 DEF LifecycleStates, Ops
  <2>2. CASE r.state = "dispatched" /\ op = "execute"
      BY <2>2 DEF Receive, r
  <2>3. CASE r.state = "dispatched" /\ op = "preflight"
      BY <2>3 DEF Receive, r
  <2>4. CASE r.state \in {"issued", "leased"}
      BY <2>4 DEF Receive, r
  <2> QED BY <1>17, <2>1, <2>2, <2>3, <2>4
<1> HIDE DEF req
<1>15. ASSUME NEW step \in {"reconcile", "lease"}, Become(p, [req EXCEPT !.pc = step]), UNCHANGED replies,
              step = "lease" => r.state \in {"issued", "leased"},
              step = "reconcile" => op = "execute" /\ r.state = "dispatched"
       PROVE  Received(p, c, k, op)
  <2> DEFINE m == [req EXCEPT !.pc = step]
  <2>1. step \in Steps
      BY StepsAre DEF HandlerSteps
  <2>2. m \in Locals
      BY <1>13, <2>1, <1>10, ResultIs, AnsweringLocals DEF TerminalOutcomes
  <2>3. /\ m.client = c /\ m.key = k /\ m.op = op /\ m.recovers = FALSE
        /\ m.version = r.version /\ m.lease = r.lease /\ m.pc = step
      BY <1>13 DEF Locals
  <2>4. Become(p, m)
      BY <1>15
  <2> HIDE DEF m
  <2>5. proc' \in [Procs -> Locals] /\ proc'[p] = m /\ Others(p)
      BY <2>2, <2>4, BecomeTells
  <2> QED BY <1>12, <1>15, <2>3, <2>5 DEF Received, Moves
<1>16. ASSUME r.state = "dispatched", op = "preflight", UNCHANGED replies,
              Become(p, [req EXCEPT !.pc = "complete", !.final = r.version,
                           !.outcome = "unknown", !.result = Result("unknown", NoContent)])
       PROVE  Received(p, c, k, op)
  <2> DEFINE m == [req EXCEPT !.pc = "complete", !.final = r.version,
                           !.outcome = "unknown", !.result = Result("unknown", NoContent)]
  <2>1. "complete" \in Steps /\ "unknown" \in TerminalOutcomes /\ Result("unknown", NoContent) \in Results
      BY StepsAre, ResultIs DEF HandlerSteps, TerminalOutcomes
  <2>2. m \in Locals
      BY <1>10, <1>13, <2>1, AnsweringLocals
  <2>3. /\ m.client = c /\ m.key = k /\ m.op = op /\ m.recovers = FALSE
        /\ m.version = r.version /\ m.lease = r.lease /\ m.pc = "complete"
        /\ m.final = r.version /\ m.outcome = "unknown" /\ m.result = Result("unknown", NoContent)
      BY <1>13 DEF Locals
  <2>4. Become(p, m)
      BY <1>16
  <2> HIDE DEF m
  <2>5. proc' \in [Procs -> Locals] /\ proc'[p] = m /\ Others(p)
      BY <2>2, <2>4, BecomeTells
  <2> QED BY <1>12, <1>16, <2>3, <2>5 DEF Received, Moves
<1> QED BY <1>14, <1>15, <1>16

----------------------------------------------------------------------------
(* The steps of a process, grouped by what the invariants see of them.     *)

Rested(p) == Quiet /\ Rests(p)

Failed(p) == Quiet /\ Raises(p)

(* It goes on without touching a store.                                    *)
Walks == {<< "admit", "dispatch" >>, << "replay", "prepare" >>, << "promote", "replace" >>,
          << "inspect", "restore" >>, << "inspect", "fence" >>}

Walked(p) ==
    /\ Quiet /\ << proc[p].pc, proc'[p].pc >> \in Walks /\ Goes(p, proc'[p].pc)
    /\ proc'[p].pc = "replace" => target = proc[p].prep
    /\ proc'[p].pc = "restore" =>
          /\ proc[p].recovers \/ permit[proc[p].key].state = proc[p].from
          /\ backup[proc[p].key] = permit[proc[p].key].pre
          /\ target \in {permit[proc[p].key].pre, permit[proc[p].key].post}

(* It gives up the transaction.                                            *)
Abandons == {<< "consume", "prepared" >>, << "promote", "applying" >>, << "verify", "applied" >>}

Abandoned(p) ==
    Quiet /\ << proc[p].pc, proc'[p].from >> \in Abandons /\ Restores(p, proc'[p].from)

(* It answers with the dispatched record.                                  *)
Answered(p) ==
    /\ Quiet
    /\ \E o \in TerminalOutcomes, r \in Results :
          /\ Answers(p, o, r)
          /\ \/ proc[p].pc = "preflight"
             \/ proc[p].pc = "prepare" /\ o = "rejected" /\ r = Rejected
             \/ /\ proc[p].pc = "replay" /\ permit[proc[p].key].state \in TerminalStates
                /\ o = ResultStatus(permit[proc[p].key]) /\ r = StoredResult(permit[proc[p].key])

Prepared(p) == Quiet /\ proc[p].pc = "prepare" /\ Prepares(p)

(* It records the next state of the permit.                                *)
Recordings == {<< "record_prepared", "issued", "prepared", "consume" >>,
             << "record_applying", "claimed", "applying", "promote" >>,
             << "record_applied", "applying", "applied", "verify" >>,
             << "verify", "applied", "verifying", "commit" >>}

Recorded(p) ==
    /\ QuietButPermit /\ Goes(p, proc'[p].pc)
    /\ << proc[p].pc, permit[proc[p].key].state, permit'[proc[p].key].state, proc'[p].pc >> \in Recordings
    /\ PermitMoves(proc[p].key, permit[proc[p].key].state, permit'[proc[p].key].state)
    /\ permit'[proc[p].key].consumed = permit[proc[p].key].consumed
    /\ proc[p].pc = "verify" => target = permit[proc[p].key].post

Consumed(p) ==
    /\ QuietButPermit /\ proc[p].pc = "consume"
    /\ Goes(p, "record_applying") /\ PermitMoves(proc[p].key, "prepared", "claimed")
    /\ permit[proc[p].key].consumed = FALSE /\ permit'[proc[p].key].consumed = TRUE

Issued(p) ==
    /\ QuietButPermit /\ proc[p].pc = "issue" /\ Goes(p, "backup") /\ proc[p].key \notin target /\ ~fenced
    /\ (UNCHANGED permit /\ permit[proc[p].key].state # "none") \/ PermitIssued(proc[p].key)

BackedUp(p) ==
    /\ UNCHANGED << auth, permit, target, promoted, replies >> /\ proc[p].pc = "backup"
    /\ Goes(p, "record_prepared") /\ backup' \in [Keys -> Contents \cup {NoContent}]
    /\ backup'[proc[p].key] = proc[p].prep /\ backup[proc[p].key] \in {NoContent, proc[p].prep}
    /\ \A j \in Keys \ {proc[p].key} : backup'[j] = backup[j]

Replaced(p) ==
    /\ UNCHANGED << auth, permit, backup, replies >> /\ proc[p].pc = "replace"
    /\ Goes(p, "record_applied") \/ Restores(p, "applying")
    /\ target' = proc[p].prep \cup {proc[p].key} /\ target' \in Contents
    /\ promoted' \in [Clients \X Keys -> Nat]
    /\ promoted'[<< proc[p].client, proc[p].key >>] = promoted[<< proc[p].client, proc[p].key >>] + 1
    /\ \A c \in Clients, k \in Keys : << c, k >> # << proc[p].client, proc[p].key >> =>
          promoted'[<< c, k >>] = promoted[<< c, k >>]

Restored(p) ==
    /\ UNCHANGED << auth, permit, backup, promoted, replies >> /\ proc[p].pc = "restore"
    /\ \/ target' = backup[proc[p].key] /\ (Goes(p, "record_aborted") \/ Goes(p, "fence"))
       \/ UNCHANGED target /\ Goes(p, "fence")

Settled(p) ==
    /\ QuietButPermit
    /\ << proc[p].pc, permit'[proc[p].key].state >> \in
          {<< "record_aborted", "aborted" >>, << "fence", "recovery_required" >>}
    /\ PermitMoves(proc[p].key, proc[p].from, permit'[proc[p].key].state)
    /\ permit'[proc[p].key].consumed = permit[proc[p].key].consumed
    /\ \/ proc[p].recovers /\ Goes(p, "recover")
       \/ ~proc[p].recovers /\ Answers(p, "failed", Result("failed", NoContent))

Committed(p) ==
    /\ QuietButPermit /\ proc[p].pc = "commit"
    /\ Answers(p, "succeeded", Result("promoted", NoContent))
    /\ PermitMoves(proc[p].key, "verifying", "committed")
    /\ permit'[proc[p].key].consumed = permit[proc[p].key].consumed

Completed(p) ==
    LET a == ThisAuth(p)
        l == proc[p]
    IN  /\ UNCHANGED << permit, backup, target, promoted >> /\ l.pc = "complete" /\ Rests(p)
        /\ a \in Auths /\ auth[a].version = l.final /\ auth[a].state \in {"leased", "dispatched"}
        /\ auth[a].lease = l.lease
        /\ AuthMoves(a, "terminal", l.final + 1, auth[a].lease, l.outcome, l.result)
        /\ RepliesWith(a, l.outcome, l.result)

Took(p) ==
    UNCHANGED << permit, backup, target, promoted, replies >> /\ proc[p].pc = "lease" /\ Leased(p)

Sent(p) ==
    UNCHANGED << permit, backup, target, promoted, replies >> /\ proc[p].pc = "dispatch" /\ Dispatched(p)

Arrived(p) ==
    \E c \in Clients, k \in Keys, op \in Ops :
        LET a == << c, k, op >>
        IN  /\ UNCHANGED << permit, backup, target, promoted >> /\ proc[p].pc = "idle"
            /\ a \in Auths /\ Gets(a)
            /\ \/ /\ auth[a].state = "terminal" /\ UNCHANGED << auth, proc >>
                  /\ RepliesWith(a, auth[a].outcome, auth[a].result)
               \/ Received(p, c, k, op)

Reconciled(p) ==
    /\ Quiet /\ proc[p].pc = "reconcile" /\ Moves(p)
    /\ \/ Resolved(p, proc[p].version, "unknown", Result("unknown", NoContent))
       \/ /\ permit[proc[p].key].state \in TerminalStates
          /\ Resolved(p, proc[p].version, ResultStatus(permit[proc[p].key]),
                      StoredResult(permit[proc[p].key]))

Restarted(p) ==
    /\ Quiet /\ Moves(p) /\ proc[p].pc = "down" /\ proc'[p].pc = "recover" /\ proc'[p].recovers = TRUE
    /\ proc'[p].todo = {<< k, permit[k].state >> : k \in {x \in Keys : permit[x].state \in MutationStates}}

Resumed(p) ==
    /\ Quiet /\ proc[p].pc = "recover" /\ Moves(p) /\ proc'[p].pc = "inspect"
    /\ proc[p].recovers /\ proc'[p].recovers
    /\ \E t \in proc[p].todo :
          /\ t[1] \in Keys /\ t[2] \in MutationStates
          /\ proc'[p].key = t[1] /\ proc'[p].from = t[2] /\ proc'[p].todo = proc[p].todo \ {t}

Effect(p) ==
    \/ Rested(p) \/ Failed(p) \/ Walked(p) \/ Abandoned(p) \/ Answered(p) \/ Prepared(p)
    \/ Recorded(p) \/ Consumed(p) \/ Issued(p) \/ BackedUp(p) \/ Replaced(p) \/ Restored(p)
    \/ Settled(p) \/ Committed(p) \/ Completed(p) \/ Took(p) \/ Sent(p) \/ Arrived(p)
    \/ Reconciled(p) \/ Restarted(p) \/ Resumed(p)

(* People change the file or HEAD, or nothing happens.                     *)
Aside ==
    /\ UNCHANGED << auth, permit, backup, proc, promoted, replies >>
    /\ UNCHANGED target \/ target' = target \cup {Edit}

LEMMA TransitsIs ==
    ASSUME NEW p \in Procs, NEW t \in Recordings, Transits(p, t[1], t[2], t[3], t[4]),
           t[1] = "verify" => target = permit[proc[p].key].post
    PROVE  Failed(p) \/ Recorded(p)
<1>1. t = << t[1], t[2], t[3], t[4] >>
    BY DEF Recordings
<1>2. CASE QuietButPermit /\ Raises(p) /\ UNCHANGED permit
    BY <1>2 DEF Failed, QuietButPermit, Quiet
<1>3. CASE /\ QuietButPermit /\ proc[p].pc = t[1] /\ Goes(p, t[4]) /\ PermitMoves(proc[p].key, t[2], t[3])
           /\ permit'[proc[p].key].consumed = permit[proc[p].key].consumed
  <2>1. proc'[p].pc = t[4] /\ permit[proc[p].key].state = t[2] /\ permit'[proc[p].key].state = t[3]
      BY <1>3 DEF Goes, PermitMoves
  <2> QED BY <1>1, <1>3, <2>1 DEF Recorded
<1> QED BY <1>2, <1>3 DEF Transits

LEMMA StepTells ==
    ASSUME Shapes, NEW p \in Procs, Step(p)
    PROVE  Effect(p)
<1>0. ProcsOK /\ AuthOK /\ PermitsOK /\ FilesOK /\ ObservedOK /\ GroundsOK
    BY DEF Shapes, Typed
<1>1. ASSUME NEW c \in Clients, NEW k \in Keys, ReceivePreflight(p, c, k)
      PROVE  Arrived(p)
    BY <1>0, <1>1, ReceiveTells DEF ReceivePreflight, Ops, Arrived
<1>2. ASSUME NEW c \in Clients, NEW k \in Keys, NEW g \in Gates, ReceiveExecute(p, c, k, g)
      PROVE  Arrived(p)
  <2> DEFINE b == auth[<< c, k, "preflight" >>].result.base
  <2>1. Receive(p, c, k, "execute", g, b) /\ auth[<< c, k, "preflight" >>].outcome = "succeeded"
      BY <1>2 DEF ReceiveExecute
  <2>2. << c, k, "preflight" >> \in Auths /\ "execute" \in Ops
      BY DEF Auths, Ops
  <2>3. auth[<< c, k, "preflight" >>].result \in Results
      BY <1>0, <2>1, <2>2, RecordIs DEF RecordShape
  <2>4. b \in Contents \cup {NoContent}
      BY <2>3 DEF Results
  <2> HIDE DEF b
  <2> QED BY <1>0, <2>1, <2>2, <2>4, ReceiveTells DEF Arrived
<1>3. ASSUME NEW now \in Times, Lease(p, now)
      PROVE  Rested(p) \/ Took(p)
    BY <1>0, <1>3, LeaseTells DEF Rested, Took, Quiet
<1>4. ASSUME NEW now \in Times, Dispatch(p, now)
      PROVE  Failed(p) \/ Sent(p)
    BY <1>0, <1>4, DispatchTells DEF Failed, Sent, Quiet
<1>5. CASE Reconcile(p)
    BY <1>0, <1>5, ReconcileTells DEF Effect, Rested, Reconciled
<1>6. CASE Admit(p)
  <2>1. Goes(p, "dispatch") => proc'[p].pc = "dispatch"
      BY DEF Goes
  <2> QED BY <1>0, <1>6, <2>1, AdmitTells DEF Effect, Failed, Walked, Walks
<1>7. CASE Preflight(p)
    BY <1>0, <1>7, PreflightTells DEF Effect, Answered
<1>8. CASE Replay(p)
  <2>1. Goes(p, "prepare") => proc'[p].pc = "prepare"
      BY DEF Goes
  <2>2. Goes(p, "prepare") /\ Quiet /\ proc[p].pc = "replay" => Walked(p)
      BY <2>1 DEF Walked, Walks
  <2>3. /\ ResultStatus(ThisPermit(p)) \in TerminalOutcomes /\ StoredResult(ThisPermit(p)) \in Results
        /\ ThisPermit(p) = permit[proc[p].key]
      BY StoredResultIs DEF TerminalOutcomes, ThisPermit
  <2> QED BY <1>0, <1>8, <2>2, <2>3, ReplayTells DEF Effect, Failed, Answered
<1>9. CASE Prepare(p)
    BY <1>0, <1>9, PrepareTells, ResultIs DEF Effect, Prepared, Answered, TerminalOutcomes
<1>10. CASE Issue(p)
    BY <1>0, <1>10, IssueTells DEF Effect, Failed, Issued, Quiet, QuietButPermit
<1>11. CASE Backup(p)
    BY <1>0, <1>11, BackupTells DEF Effect, Failed, BackedUp, Quiet
<1>12. CASE RecordPrepared(p) \/ RecordApplying(p) \/ RecordApplied(p)
  <2>1. ASSUME NEW t \in Recordings, Transits(p, t[1], t[2], t[3], t[4]), t[1] # "verify"
        PROVE  Effect(p)
      BY <2>1, TransitsIs DEF Effect
  <2>2. CASE RecordPrepared(p)
    <3>1. << "record_prepared", "issued", "prepared", "consume" >> \in Recordings
        BY DEF Recordings
    <3> QED BY <1>0, <2>1, <2>2, <3>1, RecordsTell
  <2>3. CASE RecordApplying(p)
    <3>1. << "record_applying", "claimed", "applying", "promote" >> \in Recordings
        BY DEF Recordings
    <3> QED BY <1>0, <2>1, <2>3, <3>1, RecordsTell
  <2>4. CASE RecordApplied(p)
    <3>1. << "record_applied", "applying", "applied", "verify" >> \in Recordings
        BY DEF Recordings
    <3> QED BY <1>0, <2>1, <2>4, <3>1, RecordsTell
  <2> QED BY <1>12, <2>2, <2>3, <2>4
<1>13. CASE ConsumePermit(p)
  <2>1. ASSUME NEW s, Restores(p, s) PROVE proc'[p].from = s
      BY <2>1 DEF Restores
  <2> QED BY <1>0, <1>13, <2>1, ConsumeTells DEF Effect, Consumed, Abandoned, Abandons, Quiet, QuietButPermit
<1>14. CASE PromoteCheck(p)
  <2>1. Goes(p, "replace") => proc'[p].pc = "replace"
      BY DEF Goes
  <2>2. ASSUME NEW s, Restores(p, s) PROVE proc'[p].from = s
      BY <2>2 DEF Restores
  <2>3. Quiet /\ proc[p].pc = "promote" /\ Goes(p, "replace") /\ target = proc[p].prep => Walked(p)
      BY <2>1 DEF Walked, Walks
  <2> QED BY <1>0, <1>14, <2>2, <2>3, PromoteCheckTells DEF Effect, Abandoned, Abandons
<1>15. CASE PromoteReplace(p)
    BY <1>0, <1>15, PromoteReplaceTells DEF Effect, Replaced
<1>16. CASE Verify(p)
  <2>1. ASSUME NEW s, Restores(p, s) PROVE proc'[p].from = s
      BY <2>1 DEF Restores
  <2>2. CASE Quiet /\ proc[p].pc = "verify" /\ Restores(p, "applied")
      BY <2>1, <2>2 DEF Effect, Abandoned, Abandons
  <2>3. CASE target = permit[proc[p].key].post /\ Transits(p, "verify", "applied", "verifying", "commit")
    <3>1. << "verify", "applied", "verifying", "commit" >> \in Recordings
        BY DEF Recordings
    <3> QED BY <2>3, <3>1, TransitsIs DEF Effect
  <2> QED BY <1>0, <1>16, <2>2, <2>3, VerifyTells
<1>17. CASE Commit(p)
    BY <1>0, <1>17, CommitTells DEF Effect, Failed, Committed, Quiet, QuietButPermit
<1>18. CASE Inspect(p)
  <2>1. ASSUME NEW s, Goes(p, s) PROVE proc'[p].pc = s
      BY <2>1 DEF Goes
  <2> QED BY <1>0, <1>18, <2>1, InspectTells DEF Effect, Walked, Walks
<1>19. CASE Restore(p)
    BY <1>0, <1>19, RestoreTells DEF Effect, Restored
<1>20. CASE RecordAborted(p)
  <2>1. proc[p].pc = "record_aborted" /\ Settle(p, "aborted")
      BY <1>20 DEF RecordAborted, At
  <2>2. ASSUME NEW s, NEW k, PermitMoves(proc[p].key, k, s) PROVE permit'[proc[p].key].state = s
      BY <2>2 DEF PermitMoves
  <2> QED BY <1>0, <2>1, <2>2, SettleTells DEF Effect, Settled
<1>21. CASE Fence(p)
  <2>1. proc[p].pc = "fence" /\ Settle(p, "recovery_required")
      BY <1>21 DEF Fence, At
  <2>2. ASSUME NEW s, NEW k, PermitMoves(proc[p].key, k, s) PROVE permit'[proc[p].key].state = s
      BY <2>2 DEF PermitMoves
  <2> QED BY <1>0, <2>1, <2>2, SettleTells DEF Effect, Settled
<1>22. CASE StaleRestoration(p) \/ Raise(p) \/ CompletionFails(p) \/ Listen(p) \/ ListenRefused(p) \/ Crash(p)
    BY <1>0, <1>22, StaleTells, RaiseTells, RestingActions DEF Effect, Rested, Failed
<1>23. CASE Complete(p)
    BY <1>0, <1>23, CompleteTells DEF Effect, Completed
<1>24. CASE Start(p)
    BY <1>0, <1>24, StartTells DEF Effect, Restarted, Start, At
<1>25. CASE RecoverNext(p)
    BY <1>0, <1>25, RecoverNextTells DEF Effect, Resumed
<1> QED BY <1>1, <1>2, <1>3, <1>4, <1>5, <1>6, <1>7, <1>8, <1>9, <1>10, <1>11, <1>12, <1>13, <1>14,
           <1>15, <1>16, <1>17, <1>18, <1>19, <1>20, <1>21, <1>22, <1>23, <1>24, <1>25 DEF Step, Effect

LEMMA NextTells ==
    ASSUME Shapes, [Next]_vars
    PROVE  Aside \/ \E p \in Procs : Effect(p)
<1>1. CASE \E p \in Procs : Step(p)
    BY <1>1, StepTells
<1>2. CASE EditTarget \/ CommitTarget \/ UNCHANGED vars
    BY <1>2 DEF EditTarget, CommitTarget, vars, observed, Aside
<1> QED BY <1>1, <1>2 DEF Next

----------------------------------------------------------------------------
(* The shapes are kept.                                                    *)

LEMMA ProcsStay ==
    ASSUME ProcsOK, NEW p \in Procs, Moves(p), Shape(proc'[p])
    PROVE  ProcsOK'
BY DEF ProcsOK, Moves, Others

LEMMA RaisesShape ==
    ASSUME ProcsOK, NEW p \in Procs, Raises(p)
    PROVE  Shape(proc'[p])
<1>1. Working(proc[p])
    BY DEF Raises, Working, HandlerSteps, RestoreSteps, DispatchedSteps
<1>2. PICK o \in {"rejected", "failed"} : Resolved(p, proc[p].version, o, Rejected)
    BY DEF Raises
<1> QED BY <1>1, <1>2, ResolvedShape, ResultIs DEF TerminalOutcomes

LEMMA AnswersShape ==
    ASSUME ProcsOK, NEW p \in Procs, Working(proc[p]), NEW o \in TerminalOutcomes, NEW r \in Results,
           Answers(p, o, r)
    PROVE  Shape(proc'[p])
BY ResolvedShape DEF Answers

(* From one step to the next of the same transaction or restoration.       *)
LEMMA KinShape ==
    ASSUME NEW l, NEW m, Shape(l), Kin(l, m), m.pc # "complete", m.pc # "reconcile", m.pc # "admit",
           m.pc \in HandlerSteps => l.pc \in HandlerSteps,
           m.pc \in RestoreSteps => l.pc \in RestoreSteps,
           m.pc \in Transacting => l.pc \in Transacting,
           m.pc \in DispatchedSteps => l.pc \in DispatchedSteps \ {"preflight"} /\ m.pc # "preflight",
           m.pc = "recover" <=> (l.recovers /\ m.pc \notin RestoreSteps)
    PROVE  Shape(m)
<1> USE DEF Kin
<1>1. Working(m) => Working(l)
    BY DEF Working
<1>2. Working(m) => m.client \in Clients /\ m.key \in Keys
    BY <1>1 DEF Shape
<1>3. m.pc \in RestoreSteps => m.key \in Keys /\ m.from \in MutationStates
    BY DEF Shape
<1>4. m.recovers => m.pc \in {"recover"} \cup RestoreSteps
    BY DEF Shape
<1>5. m.pc = "recover" => m.recovers
    BY DEF Shape
<1>6. m.pc \in (DispatchedSteps \ {"preflight"}) \cup {"admit", "reconcile"} => m.op = "execute"
    BY DEF Shape
<1>7. m.pc \in RestoreSteps /\ ~m.recovers => m.op = "execute"
    BY DEF Shape
<1>8. m.pc \in Transacting => m.prep \in Contents
    BY DEF Shape
<1>9. m.pc # "preflight"
    BY DEF DispatchedSteps
<1> QED BY <1>2, <1>3, <1>4, <1>5, <1>6, <1>7, <1>8, <1>9 DEF Shape

(* The steps that keep the locals.                                         *)
Advances == {<< "replay", "prepare" >>, << "issue", "backup" >>, << "backup", "record_prepared" >>,
             << "record_prepared", "consume" >>, << "consume", "record_applying" >>,
             << "record_applying", "promote" >>, << "promote", "replace" >>,
             << "replace", "record_applied" >>, << "record_applied", "verify" >>,
             << "verify", "commit" >>, << "inspect", "restore" >>, << "inspect", "fence" >>,
             << "restore", "record_aborted" >>, << "restore", "fence" >>}

LEMMA AdvanceShape ==
    ASSUME ProcsOK, NEW p \in Procs, << proc[p].pc, proc'[p].pc >> \in Advances, Kin(proc[p], proc'[p])
    PROVE  Shape(proc'[p])
<1> DEFINE l == proc[p]
           m == proc'[p]
<1>1. Shape(l) /\ l.recovers = m.recovers
    BY DEF ProcsOK, Kin
<1>2. /\ m.pc # "complete" /\ m.pc # "reconcile" /\ m.pc # "admit" /\ m.pc # "recover"
      /\ m.pc \in HandlerSteps => l.pc \in HandlerSteps
      /\ m.pc \in RestoreSteps => l.pc \in RestoreSteps
    BY DEF Advances, HandlerSteps, RestoreSteps
<1>3. /\ m.pc \in Transacting => l.pc \in Transacting
      /\ m.pc \in DispatchedSteps => l.pc \in DispatchedSteps \ {"preflight"} /\ m.pc # "preflight"
    BY DEF Advances, Transacting, DispatchedSteps
<1>4. l.pc # "recover" /\ (l.pc \in RestoreSteps => m.pc \in RestoreSteps)
    BY DEF Advances, RestoreSteps
<1>5. l.recovers => m.pc \in RestoreSteps
    BY <1>1, <1>4 DEF Shape
<1> HIDE DEF l, m
<1>6. Shape(m)
    BY <1>1, <1>2, <1>3, <1>5, KinShape DEF l, m
<1> QED BY <1>6 DEF m

LEMMA RestoresShape ==
    ASSUME ProcsOK, NEW p \in Procs, proc[p].pc \in DispatchedSteps \ {"preflight"},
           NEW s \in MutationStates, Restores(p, s)
    PROVE  Shape(proc'[p])
<1>1. Shape(proc[p]) /\ proc[p].pc \in HandlerSteps
    BY DEF ProcsOK, DispatchedSteps, HandlerSteps
<1>2. proc[p].key \in Keys /\ proc[p].client \in Clients /\ ~proc[p].recovers /\ proc[p].op = "execute"
    BY <1>1, WorkingAt DEF Shape
<1> QED BY <1>2 DEF Restores, KinRequest, Shape, Working, RestoreSteps, HandlerSteps, DispatchedSteps, Transacting

LEMMA AuthMovesShape ==
    ASSUME AuthOK, NEW a \in Auths, NEW state, NEW version, NEW lease, NEW outcome, NEW result,
           AuthMoves(a, state, version, lease, outcome, result), state # "absent",
           IF state = "terminal" THEN outcome \in TerminalOutcomes /\ result \in Results
                                 ELSE outcome = "none" /\ result = NoResult
    PROVE  AuthOK'
<1>1. RecordShape(auth'[a])
    BY DEF AuthMoves, RecordShape
<1> QED BY <1>1 DEF AuthOK, AuthMoves

LEMMA PermitMovesShape ==
    ASSUME PermitsOK, NEW k \in Keys, NEW expected, NEW new, expected # "none", new # "none",
           PermitMoves(k, expected, new)
    PROVE  PermitsOK'
BY DEF PermitsOK, PermitMoves

LEMMA GoesAdvance ==
    ASSUME ProcsOK, NEW p \in Procs, NEW next, Goes(p, next), << proc[p].pc, next >> \in Advances
    PROVE  ProcsOK'
BY AdvanceShape, ProcsStay DEF Goes

LEMMA RaisesKeep ==
    ASSUME ProcsOK, NEW p \in Procs, Raises(p)
    PROVE  ProcsOK'
BY RaisesShape, ProcsStay DEF Raises

LEMMA RestsKeep ==
    ASSUME ProcsOK, NEW p \in Procs, Rests(p)
    PROVE  ProcsOK'
<1>1. proc'[p] \in Locals
    BY DEF Rests, Moves
<1> QED BY <1>1, IdleShape, ProcsStay DEF Rests

LEMMA AnswersKeep ==
    ASSUME ProcsOK, NEW p \in Procs, Working(proc[p]), NEW o \in TerminalOutcomes, NEW r \in Results,
           Answers(p, o, r)
    PROVE  ProcsOK'
BY AnswersShape, ProcsStay DEF Answers

LEMMA RestoresKeep ==
    ASSUME ProcsOK, NEW p \in Procs, proc[p].pc \in DispatchedSteps \ {"preflight"},
           NEW s \in MutationStates, Restores(p, s)
    PROVE  ProcsOK'
BY RestoresShape, ProcsStay DEF Restores

LEMMA TypedNext ==
    ASSUME Shapes, [Next]_vars
    PROVE  Typed'
<1>0. ProcsOK /\ AuthOK /\ PermitsOK /\ FilesOK /\ ObservedOK /\ GroundsOK
    BY DEF Shapes, Typed
<1>1. CASE Aside
  <2>1. target' \in Contents
      BY <1>0, <1>1 DEF Aside, FilesOK, Contents
  <2> QED BY <1>0, <1>1, <2>1 DEF Aside, Typed, ProcsOK, AuthOK, PermitsOK, FilesOK, ObservedOK
<1>2. SUFFICES ASSUME NEW p \in Procs, Effect(p) PROVE Typed'
    BY <1>1, NextTells
<1>3. ASSUME UNCHANGED auth PROVE AuthOK'
    BY <1>0, <1>3 DEF AuthOK
<1>4. ASSUME UNCHANGED permit PROVE PermitsOK'
    BY <1>0, <1>4 DEF PermitsOK
<1>5. ASSUME UNCHANGED << backup, target >> PROVE FilesOK'
    BY <1>0, <1>5 DEF FilesOK
<1>6. ASSUME UNCHANGED << promoted, replies >> PROVE ObservedOK'
    BY <1>0, <1>6 DEF ObservedOK
<1>7. ASSUME Quiet, ProcsOK' PROVE Typed'
    BY <1>3, <1>4, <1>5, <1>6, <1>7 DEF Quiet, Typed
<1>8. ASSUME QuietButPermit, ProcsOK', PermitsOK' PROVE Typed'
    BY <1>3, <1>5, <1>6, <1>8 DEF QuietButPermit, Typed
<1>9. CASE Rested(p)
    BY <1>0, <1>7, <1>9, RestsKeep DEF Rested
<1>10. CASE Failed(p)
    BY <1>0, <1>7, <1>10, RaisesKeep DEF Failed
<1>11. CASE Walked(p)
  <2>1. CASE << proc[p].pc, proc'[p].pc >> \in Advances
      BY <1>0, <1>7, <1>11, <2>1, GoesAdvance DEF Walked
  <2>2. CASE proc[p].pc = "admit" /\ proc'[p].pc = "dispatch"
    <3>1. Shape(proc[p]) /\ ~proc[p].recovers /\ proc[p].key \in Keys /\ proc[p].client \in Clients
        BY <1>0, <2>2, WorkingAt DEF HandlerSteps, ProcsOK
    <3>2. Shape(proc'[p]) /\ Moves(p)
        BY <1>11, <2>2, <3>1 DEF Walked, Goes, Kin, Shape, Working, RestoreSteps, HandlerSteps, DispatchedSteps, Transacting
    <3> QED BY <1>0, <1>7, <1>11, <3>2, ProcsStay DEF Walked
  <2> QED BY <1>11, <2>1, <2>2 DEF Walked, Walks, Advances
<1>12. CASE Abandoned(p)
  <2>1. proc[p].pc \in DispatchedSteps \ {"preflight"} /\ proc'[p].from \in MutationStates
      BY <1>12 DEF Abandoned, Abandons, DispatchedSteps, MutationStates
  <2> QED BY <1>0, <1>7, <1>12, <2>1, RestoresKeep DEF Abandoned
<1>13. CASE Answered(p)
  <2>1. proc[p].pc \in HandlerSteps
      BY <1>13 DEF Answered, HandlerSteps
  <2> QED BY <1>0, <1>7, <1>13, <2>1, WorkingAt, AnswersKeep DEF Answered
<1>14. CASE Prepared(p)
  <2>1. Shape(proc[p]) /\ ~proc[p].recovers /\ proc[p].key \in Keys /\ proc[p].client \in Clients
      BY <1>0, <1>14, WorkingAt DEF HandlerSteps, ProcsOK, Prepared
  <2>2. proc[p].op = "execute" /\ target \in Contents
      BY <1>0, <1>14, <2>1 DEF Shape, Prepared, DispatchedSteps, FilesOK
  <2>3. Shape(proc'[p]) /\ Moves(p)
      BY <1>14, <2>1, <2>2 DEF Prepared, Prepares, Shape, Working, RestoreSteps, HandlerSteps, DispatchedSteps, Transacting
  <2> QED BY <1>0, <1>7, <1>14, <2>3, ProcsStay DEF Prepared
<1>15. CASE Recorded(p)
  <2>1. << proc[p].pc, proc'[p].pc >> \in Advances /\ proc[p].pc \in HandlerSteps
        /\ permit[proc[p].key].state # "none" /\ permit'[proc[p].key].state # "none"
      BY <1>15 DEF Recorded, Recordings, Advances, HandlerSteps
  <2>2. proc[p].key \in Keys
      BY <1>0, <2>1, WorkingAt
  <2> QED BY <1>0, <1>8, <1>15, <2>1, <2>2, GoesAdvance, PermitMovesShape DEF Recorded
<1>16. CASE Consumed(p)
  <2>1. << proc[p].pc, "record_applying" >> \in Advances /\ proc[p].key \in Keys
      BY <1>0, <1>16, WorkingAt DEF Consumed, Advances, HandlerSteps
  <2> QED BY <1>0, <1>8, <1>16, <2>1, GoesAdvance, PermitMovesShape DEF Consumed
<1>17. CASE Issued(p)
  <2>1. << proc[p].pc, "backup" >> \in Advances /\ proc[p].key \in Keys
      BY <1>0, <1>17, WorkingAt DEF Issued, Advances, HandlerSteps
  <2>2. PermitsOK'
    <3>1. CASE UNCHANGED permit
        BY <1>4, <3>1
    <3>2. CASE PermitIssued(proc[p].key)
        BY <1>0, <2>1, <3>2 DEF PermitIssued, PermitsOK, FilesOK
    <3> QED BY <1>17, <3>1, <3>2 DEF Issued
  <2> QED BY <1>0, <1>8, <1>17, <2>1, <2>2, GoesAdvance DEF Issued
<1>18. CASE BackedUp(p)
  <2>1. << proc[p].pc, "record_prepared" >> \in Advances
      BY <1>18 DEF BackedUp, Advances
  <2>2. FilesOK'
      BY <1>0, <1>18 DEF BackedUp, FilesOK
  <2> QED BY <1>0, <1>3, <1>4, <1>6, <1>18, <2>1, <2>2, GoesAdvance DEF BackedUp, Typed
<1>19. CASE Replaced(p)
  <2>1. << proc[p].pc, "record_applied" >> \in Advances /\ "applying" \in MutationStates
        /\ proc[p].pc \in DispatchedSteps \ {"preflight"}
      BY <1>19 DEF Replaced, Advances, MutationStates, DispatchedSteps
  <2>2. FilesOK' /\ ObservedOK'
      BY <1>0, <1>19 DEF Replaced, FilesOK, ObservedOK
  <2>3. ProcsOK'
      BY <1>0, <1>19, <2>1, GoesAdvance, RestoresKeep DEF Replaced
  <2> QED BY <1>3, <1>4, <1>19, <2>2, <2>3 DEF Replaced, Typed
<1>20. CASE Restored(p)
  <2>1. << proc[p].pc, "record_aborted" >> \in Advances /\ << proc[p].pc, "fence" >> \in Advances
      BY <1>20 DEF Restored, Advances
  <2>2. ProcsOK'
      BY <1>0, <1>20, <2>1, GoesAdvance DEF Restored
  <2>3. FilesOK'
      BY <1>0, <1>20 DEF Restored, FilesOK, GroundsOK, Grounded
  <2> QED BY <1>3, <1>4, <1>6, <1>20, <2>2, <2>3 DEF Restored, Typed
<1>21. CASE Settled(p)
  <2>1. /\ proc[p].key \in Keys /\ proc[p].from # "none" /\ permit'[proc[p].key].state # "none"
        /\ proc[p].pc \in RestoreSteps
      BY <1>0, <1>21 DEF Settled, ProcsOK, Shape, RestoreSteps, MutationStates
  <2>2. PermitsOK'
      BY <1>0, <1>21, <2>1, PermitMovesShape DEF Settled
  <2>3. CASE proc[p].recovers /\ Goes(p, "recover")
    <3>1. Shape(proc'[p]) /\ Moves(p)
        BY <2>3 DEF Goes, Kin, Shape, Working, RestoreSteps, HandlerSteps, DispatchedSteps, Transacting
    <3> QED BY <1>0, <1>8, <1>21, <2>2, <3>1, ProcsStay DEF Settled
  <2>4. CASE ~proc[p].recovers /\ Answers(p, "failed", Result("failed", NoContent))
      BY <1>0, <1>8, <1>21, <2>1, <2>2, <2>4, AnswersKeep, ResultIs DEF Settled, Working, TerminalOutcomes
  <2> QED BY <1>21, <2>3, <2>4 DEF Settled
<1>22. CASE Committed(p)
  <2>1. Working(proc[p]) /\ proc[p].key \in Keys
      BY <1>0, <1>22, WorkingAt DEF Committed, HandlerSteps
  <2>2. PermitsOK'
      BY <1>0, <1>22, <2>1, PermitMovesShape DEF Committed
  <2> QED BY <1>0, <1>8, <1>22, <2>1, <2>2, AnswersKeep, ResultIs DEF Committed, TerminalOutcomes
<1>23. CASE Completed(p)
  <2> DEFINE a == ThisAuth(p)
             l == proc[p]
  <2>1. l.outcome \in TerminalOutcomes /\ l.result \in Results
      BY <1>0, <1>23 DEF Completed, ProcsOK, Shape
  <2>2. AuthOK'
      BY <1>0, <1>23, <2>1, AuthMovesShape DEF Completed
  <2>3. ObservedOK'
      BY <1>0, <1>23 DEF Completed, RepliesWith, ObservedOK
  <2> QED BY <1>0, <1>4, <1>5, <1>23, <2>2, <2>3, RestsKeep DEF Completed, Typed
<1>24. CASE Took(p)
  <2> DEFINE a == ThisAuth(p)
  <2>1. a \in Auths /\ proc[p].key \in Keys /\ proc[p].client \in Clients /\ ~proc[p].recovers
      BY <1>0, <1>24, WorkingAt, ThisAuthIs DEF Took, HandlerSteps
  <2>2. auth[a].outcome = "none" /\ auth[a].result = NoResult
      BY <1>0, <1>24, <2>1, RecordIs DEF Took, Leased, RecordShape
  <2>3. AuthOK'
      BY <1>0, <1>24, <2>1, <2>2, AuthMovesShape DEF Took, Leased
  <2>4. Moves(p) /\ Shape(proc'[p])
    <3>1. /\ Moves(p) /\ proc'[p].key \in Keys /\ proc'[p].client \in Clients /\ ~proc'[p].recovers
          /\ proc'[p].pc \in {"admit", "dispatch"} /\ (proc'[p].pc = "admit" => proc'[p].op = "execute")
        BY <1>24, <2>1 DEF Took, Leased
    <3> QED BY <3>1 DEF Shape, Working, RestoreSteps, HandlerSteps, DispatchedSteps, Transacting
  <2> QED BY <1>0, <1>4, <1>5, <1>6, <1>24, <2>3, <2>4, ProcsStay DEF Took, Typed
<1>25. CASE Sent(p)
  <2> DEFINE a == ThisAuth(p)
  <2>1. a \in Auths /\ proc[p].key \in Keys /\ proc[p].client \in Clients /\ ~proc[p].recovers /\ proc[p].op \in Ops
      BY <1>0, <1>25, WorkingAt, ThisAuthIs DEF Sent, HandlerSteps, ProcsOK, Locals
  <2>2. auth[a].outcome = "none" /\ auth[a].result = NoResult
      BY <1>0, <1>25, <2>1, RecordIs DEF Sent, Dispatched, RecordShape
  <2>3. AuthOK'
      BY <1>0, <1>25, <2>1, <2>2, AuthMovesShape DEF Sent, Dispatched
  <2>4. Moves(p) /\ Shape(proc'[p])
    <3>1. /\ Moves(p) /\ proc'[p].key \in Keys /\ proc'[p].client \in Clients /\ ~proc'[p].recovers
          /\ proc'[p].pc \in {"replay", "preflight"} /\ (proc'[p].pc = "replay" => proc'[p].op = "execute")
          /\ (proc'[p].pc = "preflight" => proc'[p].op = "preflight")
        BY <1>25, <2>1 DEF Sent, Dispatched, Goes, Kin, Ops
    <3> QED BY <3>1 DEF Shape, Working, RestoreSteps, HandlerSteps, DispatchedSteps, Transacting
  <2> QED BY <1>0, <1>4, <1>5, <1>6, <1>25, <2>3, <2>4, ProcsStay DEF Sent, Typed
<1>26. CASE Arrived(p)
  <2>1. PICK c \in Clients, k \in Keys, op \in Ops :
           LET a == << c, k, op >>
           IN  /\ UNCHANGED << permit, backup, target, promoted >> /\ proc[p].pc = "idle"
               /\ a \in Auths /\ Gets(a)
               /\ \/ /\ auth[a].state = "terminal" /\ UNCHANGED << auth, proc >>
                     /\ RepliesWith(a, auth[a].outcome, auth[a].result)
                  \/ Received(p, c, k, op)
      BY <1>26 DEF Arrived
  <2> DEFINE a == << c, k, op >>
  <2>2. AuthOK'
      BY <1>0, <1>3, <2>1, AuthMovesShape DEF Gets
  <2>3. CASE UNCHANGED << auth, proc >> /\ RepliesWith(a, auth[a].outcome, auth[a].result)
    <3>1. ProcsOK' /\ ObservedOK'
        BY <1>0, <2>1, <2>3 DEF ProcsOK, ObservedOK, RepliesWith
    <3> QED BY <1>4, <1>5, <2>1, <2>2, <3>1 DEF Typed
  <2>4. CASE Received(p, c, k, op)
    <3>1. /\ Moves(p) /\ proc'[p].key \in Keys /\ proc'[p].client \in Clients /\ ~proc'[p].recovers
          /\ proc'[p].pc \in {"lease", "reconcile", "complete"} /\ (proc'[p].pc = "reconcile" => proc'[p].op = "execute")
          /\ (proc'[p].pc = "complete" => proc'[p].final = proc'[p].version /\ proc'[p].outcome = "unknown"
                                          /\ proc'[p].result = Result("unknown", NoContent))
        BY <2>4 DEF Received
    <3>2. Result("unknown", NoContent) \in Results /\ "unknown" \in TerminalOutcomes
        BY ResultIs DEF TerminalOutcomes
    <3>3. Shape(proc'[p])
        BY <3>1, <3>2 DEF Shape, Working, RestoreSteps, HandlerSteps, DispatchedSteps, Transacting
    <3>4. ProcsOK' /\ UNCHANGED replies
        BY <1>0, <2>4, <3>1, <3>3, ProcsStay DEF Received
    <3> QED BY <1>4, <1>5, <1>6, <2>1, <2>2, <3>4 DEF Typed
  <2> QED BY <2>1, <2>3, <2>4
<1>27. CASE Reconciled(p)
  <2>1. Working(proc[p]) /\ Moves(p)
      BY <1>0, <1>27, WorkingAt DEF Reconciled, HandlerSteps
  <2>2. \E o \in TerminalOutcomes, r \in Results : Resolved(p, proc[p].version, o, r)
      BY <1>27, StoredResultIs, ResultIs DEF Reconciled, TerminalOutcomes
  <2>3. Shape(proc'[p])
      BY <1>0, <2>1, <2>2, ResolvedShape
  <2> QED BY <1>0, <1>7, <1>27, <2>1, <2>3, ProcsStay DEF Reconciled
<1>28. CASE Restarted(p)
  <2>1. Shape(proc'[p])
      BY <1>28 DEF Restarted, Shape, Working, RestoreSteps, HandlerSteps, DispatchedSteps, Transacting
  <2> QED BY <1>0, <1>7, <1>28, <2>1, ProcsStay DEF Restarted
<1>29. CASE Resumed(p)
  <2>1. Shape(proc'[p])
      BY <1>29 DEF Resumed, Shape, Working, RestoreSteps, HandlerSteps, DispatchedSteps, Transacting
  <2> QED BY <1>0, <1>7, <1>29, <2>1, ProcsStay DEF Resumed
<1> QED BY <1>2, <1>9, <1>10, <1>11, <1>12, <1>13, <1>14, <1>15, <1>16, <1>17, <1>18, <1>19, <1>20, <1>21,
           <1>22, <1>23, <1>24, <1>25, <1>26, <1>27, <1>28, <1>29 DEF Effect

----------------------------------------------------------------------------
(* What no step undoes.                                                    *)

PermitStep ==
    \A k \in Keys :
        /\ permit[k].state \in TerminalStates => permit'[k] = permit[k]
        /\ permit[k].consumed => permit'[k].consumed
        /\ permit[k].state \in LateStates => permit'[k].state \in LateStates
        /\ permit[k].state # "none" => permit'[k].state # "none"

BackupStep == \A k \in Keys : backup[k] # NoContent => backup'[k] = backup[k]

AuthStep ==
    \A a \in Auths :
        /\ auth'[a].version >= auth[a].version
        /\ auth'[a].version = auth[a].version \/ auth[a].state = "terminal" => auth'[a] = auth[a]
        /\ auth[a].state \in {"dispatched", "terminal"} =>
              auth'[a].state \in {"dispatched", "terminal"} /\ auth'[a].lease = auth[a].lease

LEMMA PermitMovesStep ==
    ASSUME PermitsOK, NEW k \in Keys, NEW expected, NEW new, PermitMoves(k, expected, new),
           expected \notin TerminalStates, permit[k].consumed => permit'[k].consumed,
           expected \in LateStates => new \in LateStates, new # "none"
    PROVE  PermitStep
BY DEF PermitMoves, PermitStep

LEMMA PermitSteps ==
    ASSUME Shapes, [Next]_vars
    PROVE  PermitStep
<1>0. ProcsOK /\ PermitsOK
    BY DEF Shapes, Typed
<1>1. CASE UNCHANGED permit
    BY <1>1 DEF PermitStep
<1>2. SUFFICES ASSUME NEW p \in Procs, Effect(p) PROVE PermitStep
    BY <1>1, NextTells DEF Aside
<1>3. CASE Recorded(p)
  <2>1. /\ proc[p].pc \in HandlerSteps /\ permit[proc[p].key].state \notin TerminalStates
        /\ permit'[proc[p].key].state # "none"
        /\ permit[proc[p].key].state \in LateStates => permit'[proc[p].key].state \in LateStates
      BY <1>3 DEF Recorded, Recordings, TerminalStates, LateStates, HandlerSteps
  <2>2. proc[p].key \in Keys
      BY <1>0, <2>1, WorkingAt
  <2> QED BY <1>0, <1>3, <2>1, <2>2, PermitMovesStep DEF Recorded
<1>4. CASE Consumed(p)
  <2>1. proc[p].key \in Keys /\ "prepared" \notin TerminalStates \cup LateStates
      BY <1>0, <1>4, WorkingAt DEF Consumed, HandlerSteps, TerminalStates, LateStates
  <2> QED BY <1>0, <1>4, <2>1, PermitMovesStep DEF Consumed
<1>5. CASE Issued(p)
  <2>1. proc[p].key \in Keys /\ NoPermit.consumed = FALSE /\ "none" \notin TerminalStates \cup LateStates
      BY <1>0, <1>5, WorkingAt DEF Issued, HandlerSteps, NoPermit, TerminalStates, LateStates
  <2>2. CASE PermitIssued(proc[p].key)
      BY <1>0, <2>1, <2>2 DEF PermitIssued, PermitStep, PermitsOK
  <2> QED BY <1>1, <1>5, <2>2 DEF Issued
<1>6. CASE Settled(p)
  <2>1. /\ proc[p].key \in Keys /\ proc[p].from \notin TerminalStates /\ permit'[proc[p].key].state # "none"
        /\ permit'[proc[p].key].state \in LateStates
      BY <1>0, <1>6 DEF Settled, ProcsOK, Shape, RestoreSteps, MutationStates, TerminalStates, LateStates
  <2> QED BY <1>0, <1>6, <2>1, PermitMovesStep DEF Settled
<1>7. CASE Committed(p)
  <2>1. proc[p].key \in Keys /\ "verifying" \notin TerminalStates /\ "committed" \in LateStates
      BY <1>0, <1>7, WorkingAt DEF Committed, HandlerSteps, TerminalStates, LateStates
  <2> QED BY <1>0, <1>7, <2>1, PermitMovesStep DEF Committed
<1>8. CASE \/ Rested(p) \/ Failed(p) \/ Walked(p) \/ Abandoned(p) \/ Answered(p) \/ Prepared(p)
           \/ BackedUp(p) \/ Replaced(p) \/ Restored(p) \/ Completed(p) \/ Took(p) \/ Sent(p) \/ Arrived(p)
           \/ Reconciled(p) \/ Restarted(p) \/ Resumed(p)
    BY <1>1, <1>8 DEF Rested, Failed, Walked, Abandoned, Answered, Prepared, BackedUp, Replaced, Restored,
       Completed, Took, Sent, Arrived, Reconciled, Restarted, Resumed, Quiet
<1> QED BY <1>2, <1>3, <1>4, <1>5, <1>6, <1>7, <1>8 DEF Effect

LEMMA BackupSteps ==
    ASSUME Shapes, [Next]_vars
    PROVE  BackupStep
<1>1. CASE UNCHANGED backup
    BY <1>1 DEF BackupStep
<1>2. SUFFICES ASSUME NEW p \in Procs, Effect(p) PROVE BackupStep
    BY <1>1, NextTells DEF Aside
<1>3. CASE BackedUp(p)
  <2>1. proc[p].key \in Keys
      BY <1>3, WorkingAt DEF BackedUp, HandlerSteps, Shapes, Typed
  <2> QED BY <1>3, <2>1 DEF BackedUp, BackupStep
<1>4. CASE \/ Rested(p) \/ Failed(p) \/ Walked(p) \/ Abandoned(p) \/ Answered(p) \/ Prepared(p)
           \/ Recorded(p) \/ Consumed(p) \/ Issued(p) \/ Replaced(p) \/ Restored(p) \/ Settled(p)
           \/ Committed(p) \/ Completed(p) \/ Took(p) \/ Sent(p) \/ Arrived(p)
           \/ Reconciled(p) \/ Restarted(p) \/ Resumed(p)
    BY <1>1, <1>4 DEF Rested, Failed, Walked, Abandoned, Answered, Prepared, Recorded, Consumed, Issued,
       Replaced, Restored, Settled, Committed, Completed, Took, Sent, Arrived, Reconciled, Restarted,
       Resumed, Quiet, QuietButPermit
<1> QED BY <1>2, <1>3, <1>4 DEF Effect

LEMMA AuthMovesStep ==
    ASSUME AuthOK, NEW a \in Auths, NEW state, NEW version \in Nat, NEW lease, NEW outcome, NEW result,
           AuthMoves(a, state, version, lease, outcome, result), version > auth[a].version,
           auth[a].state # "terminal",
           auth[a].state = "dispatched" => state = "terminal" /\ lease = auth[a].lease
    PROVE  AuthStep
<1>1. \A b \in Auths : auth[b].version \in Nat
    BY RecordIs
<1> QED BY <1>1 DEF AuthMoves, AuthStep

LEMMA AuthSteps ==
    ASSUME Shapes, [Next]_vars
    PROVE  AuthStep
<1>0. ProcsOK /\ AuthOK /\ \A b \in Auths : auth[b].version \in Nat
    BY RecordIs DEF Shapes, Typed
<1>1. CASE UNCHANGED auth
    BY <1>0, <1>1 DEF AuthStep
<1>2. SUFFICES ASSUME NEW p \in Procs, Effect(p) PROVE AuthStep
    BY <1>1, NextTells DEF Aside
<1>3. CASE Completed(p)
  <2>1. proc[p].final \in Nat
      BY <1>0 DEF ProcsOK, Locals
  <2> QED BY <1>0, <1>3, <2>1, AuthMovesStep DEF Completed
<1>4. CASE Took(p)
  <2>1. ThisAuth(p) \in Auths /\ proc[p].version \in Nat
      BY <1>0, <1>4, WorkingAt, ThisAuthIs, VersionIs DEF Took, HandlerSteps
  <2> QED BY <1>0, <1>4, <2>1, AuthMovesStep DEF Took, Leased
<1>5. CASE Sent(p)
  <2>1. ThisAuth(p) \in Auths /\ proc[p].version \in Nat
      BY <1>0, <1>5, WorkingAt, ThisAuthIs, VersionIs DEF Sent, HandlerSteps
  <2> QED BY <1>0, <1>5, <2>1, AuthMovesStep DEF Sent, Dispatched
<1>6. CASE Arrived(p)
  <2>1. PICK a \in Auths : Gets(a)
      BY <1>6 DEF Arrived
  <2>2. RecordShape(auth[a])
      BY <1>0, RecordIs
  <2>3. CASE auth[a].state = "absent" /\ AuthMoves(a, "issued", 1, NoLease, "none", NoResult)
      BY <1>0, <2>2, <2>3, AuthMovesStep DEF RecordShape
  <2> QED BY <1>1, <2>1, <2>3 DEF Gets
<1>7. CASE \/ Rested(p) \/ Failed(p) \/ Walked(p) \/ Abandoned(p) \/ Answered(p) \/ Prepared(p)
           \/ Recorded(p) \/ Consumed(p) \/ Issued(p) \/ BackedUp(p) \/ Replaced(p) \/ Restored(p)
           \/ Settled(p) \/ Committed(p) \/ Reconciled(p) \/ Restarted(p) \/ Resumed(p)
    BY <1>1, <1>7 DEF Rested, Failed, Walked, Abandoned, Answered, Prepared, Recorded, Consumed, Issued,
       BackedUp, Replaced, Restored, Settled, Committed, Reconciled, Restarted, Resumed, Quiet, QuietButPermit
<1> QED BY <1>2, <1>3, <1>4, <1>5, <1>6, <1>7 DEF Effect

----------------------------------------------------------------------------
(* The permits and backups that processes count on stay.                   *)

LEMMA GroundsStay ==
    ASSUME Shapes, PermitStep, BackupStep, NEW p \in Procs, Others(p), Grounded(proc[p])'
    PROVE  GroundsOK'
<1> SUFFICES ASSUME NEW q \in Procs \ {p} PROVE Grounded(proc[q])'
    BY DEF GroundsOK
<1> DEFINE l == proc[q]
<1>1. proc'[q] = l /\ l \in Locals /\ Shape(l) /\ Grounded(l)
    BY DEF Others, Shapes, Typed, ProcsOK, GroundsOK
<1>2. l.pc \in WithPermit => l.key \in Keys
    BY <1>1, WorkingAt DEF Shape, WithPermit, Transacting, HandlerSteps, Shapes, Typed
<1>3. \A t \in l.todo : t[1] \in Keys
    BY <1>1 DEF Locals
<1>4. l.pc = "restore" => l.pc \in WithPermit
    BY DEF WithPermit, RestoreSteps
<1>5. l.pc \in WithPermit => permit'[l.key].state # "none"
    BY <1>1, <1>2 DEF Grounded, PermitStep
<1>6. l.recovers => \A t \in l.todo : permit'[t[1]].state # "none"
    BY <1>1, <1>3 DEF Grounded, PermitStep
<1>7. l.pc = "restore" => backup'[l.key] \in Contents
    BY <1>1, <1>2, <1>4, MarkerAssumption DEF Grounded, BackupStep
<1> QED BY <1>1, <1>5, <1>6, <1>7 DEF Grounded

LEMMA PlainGround ==
    ASSUME Typed', NEW p \in Procs, proc'[p].pc \notin WithPermit \cup {"recover"}
    PROVE  Grounded(proc[p])'
BY DEF Typed, ProcsOK, Shape, WithPermit, RestoreSteps, Grounded

LEMMA KinGround ==
    ASSUME Shapes, PermitStep, NEW p \in Procs, proc[p].pc \in WithPermit, proc'[p].key = proc[p].key,
           proc'[p].recovers => proc[p].recovers /\ proc'[p].todo = proc[p].todo, proc'[p].pc # "restore"
    PROVE  Grounded(proc[p])'
<1> DEFINE l == proc[p]
<1>1. l \in Locals /\ Shape(l) /\ Grounded(l)
    BY DEF Shapes, Typed, ProcsOK, GroundsOK
<1>2. l.key \in Keys
    BY <1>1, WorkingAt DEF Shape, WithPermit, Transacting, HandlerSteps, Shapes, Typed
<1>3. \A t \in l.todo : t[1] \in Keys
    BY <1>1 DEF Locals
<1>4. permit'[l.key].state # "none"
    BY <1>1, <1>2 DEF Grounded, PermitStep
<1>5. l.recovers => \A t \in l.todo : permit'[t[1]].state # "none"
    BY <1>1, <1>3 DEF Grounded, PermitStep
<1> QED BY <1>4, <1>5 DEF Grounded

LEMMA GroundsNext ==
    ASSUME Shapes, [Next]_vars
    PROVE  GroundsOK'
<1>0. ProcsOK /\ PermitsOK /\ GroundsOK /\ Typed' /\ PermitStep /\ BackupStep
    BY TypedNext, PermitSteps, BackupSteps DEF Shapes, Typed
<1>1. CASE Aside
    BY <1>0, <1>1 DEF Aside, GroundsOK, Grounded
<1>2. SUFFICES ASSUME NEW p \in Procs, Effect(p) PROVE GroundsOK'
    BY <1>1, NextTells
<1>3. ASSUME Moves(p), proc'[p].pc \notin WithPermit \cup {"recover"}
      PROVE  GroundsOK'
    BY <1>0, <1>3, PlainGround, GroundsStay DEF Moves
<1>4. ASSUME Moves(p), proc[p].pc \in WithPermit, proc'[p].key = proc[p].key,
             proc'[p].recovers => proc[p].recovers /\ proc'[p].todo = proc[p].todo, proc'[p].pc # "restore"
      PROVE  GroundsOK'
    BY <1>0, <1>4, KinGround, GroundsStay DEF Moves
<1>5. ASSUME NEW next \in Steps \ {"restore"}, Goes(p, next), proc[p].pc \in WithPermit
      PROVE  GroundsOK'
    BY <1>4, <1>5 DEF Goes, Kin
<1>6. {"idle", "down", "complete", "issue", "lease", "admit", "dispatch", "replay", "preflight", "reconcile",
       "prepare"} \cap (WithPermit \cup {"recover"}) = {}
    BY DEF WithPermit, Transacting, RestoreSteps
<1>7. CASE \/ Rested(p) \/ Failed(p) \/ Answered(p) \/ Prepared(p) \/ Committed(p) \/ Completed(p)
           \/ Took(p) \/ Sent(p) \/ Reconciled(p)
  <2>1. Moves(p) /\ proc'[p].pc \in {"idle", "down", "complete", "issue", "admit", "dispatch", "replay", "preflight"}
      BY <1>7 DEF Rested, Failed, Answered, Prepared, Committed, Completed, Took, Sent, Reconciled,
         Rests, Raises, Answers, Prepares, Leased, Dispatched, Resolved, Goes
  <2> QED BY <1>3, <1>6, <2>1
<1>8. CASE Arrived(p)
  <2>1. CASE UNCHANGED << permit, backup, proc >>
      BY <1>0, <2>1 DEF GroundsOK, Grounded
  <2>2. CASE \E c, k, op : Received(p, c, k, op)
      BY <1>3, <1>6, <2>2 DEF Received
  <2> QED BY <1>8, <2>1, <2>2 DEF Arrived
<1>9. CASE Abandoned(p)
  <2>1. proc[p].pc \in WithPermit /\ ~proc[p].recovers
      BY <1>0, <1>9, NotRecovering DEF Abandoned, Abandons, WithPermit, Transacting, RestoreSteps
  <2> QED BY <1>4, <1>9, <2>1 DEF Abandoned, Restores, KinRequest
<1>10. CASE Recorded(p) \/ Consumed(p) \/ BackedUp(p)
  <2>1. /\ proc[p].pc \in WithPermit /\ Goes(p, proc'[p].pc) /\ proc'[p].pc \in Steps \ {"restore"}
      BY <1>10 DEF Recorded, Recordings, Consumed, BackedUp, WithPermit, Transacting, Steps, HandlerSteps, Goes
  <2> QED BY <1>5, <2>1
<1>11. CASE Replaced(p)
  <2>1. proc[p].pc \in WithPermit /\ ~proc[p].recovers
      BY <1>0, <1>11, NotRecovering DEF Replaced, WithPermit, Transacting, RestoreSteps
  <2>2. CASE Goes(p, "record_applied")
      BY <1>5, <2>1, <2>2, StepsAre DEF HandlerSteps
  <2>3. CASE Restores(p, "applying")
      BY <1>4, <2>1, <2>3 DEF Restores, KinRequest
  <2> QED BY <1>11, <2>2, <2>3 DEF Replaced
<1>12. CASE Restored(p)
  <2>1. proc[p].pc \in WithPermit /\ {"record_aborted", "fence"} \subseteq Steps \ {"restore"}
      BY <1>12, StepsAre DEF Restored, WithPermit, RestoreSteps
  <2> QED BY <1>5, <1>12, <2>1 DEF Restored
<1>13. CASE Settled(p)
  <2>1. proc[p].pc \in WithPermit /\ "recover" \in Steps \ {"restore"}
      BY <1>13 DEF Settled, WithPermit, RestoreSteps, Steps
  <2>2. CASE Goes(p, "recover")
      BY <1>5, <2>1, <2>2
  <2>3. CASE Answers(p, "failed", Result("failed", NoContent))
      BY <1>3, <1>6, <2>3 DEF Answers, Resolved
  <2> QED BY <1>13, <2>2, <2>3 DEF Settled
<1>14. CASE Issued(p)
  <2>1. proc[p].key \in Keys /\ ~proc[p].recovers
      BY <1>0, <1>14, WorkingAt DEF Issued, HandlerSteps
  <2>2. permit'[proc[p].key].state # "none"
      BY <1>14, <2>1 DEF Issued, PermitIssued
  <2>3. Grounded(proc[p])'
      BY <1>14, <2>1, <2>2 DEF Issued, Goes, Kin, Grounded
  <2> QED BY <1>0, <1>14, <2>3, GroundsStay DEF Issued, Goes, Moves
<1>15. CASE Walked(p)
  <2>1. Moves(p) /\ Kin(proc[p], proc'[p])
      BY <1>15 DEF Walked, Goes
  <2>2. CASE proc'[p].pc \in {"dispatch", "prepare"}
      BY <1>3, <1>6, <2>1, <2>2
  <2>3. CASE proc'[p].pc \in {"replace", "fence"}
    <3>1. proc[p].pc \in WithPermit
        BY <1>15, <2>3 DEF Walked, Walks, WithPermit, Transacting, RestoreSteps
    <3> QED BY <1>4, <2>1, <2>3, <3>1 DEF Kin
  <2>4. CASE proc'[p].pc = "restore"
    <3> DEFINE l == proc[p]
    <3>1. l.pc \in WithPermit /\ l.pc \in RestoreSteps /\ UNCHANGED << permit, backup >>
        BY <1>15, <2>4 DEF Walked, Walks, WithPermit, RestoreSteps, Quiet
    <3>2. Grounded(l) /\ l.key \in Keys
        BY <1>0, <3>1 DEF GroundsOK, ProcsOK, Shape
    <3>3. permit[l.key].state # "none" /\ backup[l.key] \in Contents
        BY <1>0, <1>15, <2>4, <3>1, <3>2 DEF Grounded, Walked, PermitsOK
    <3>4. Grounded(proc[p])'
        BY <2>1, <3>1, <3>2, <3>3 DEF Grounded, Kin
    <3> QED BY <1>0, <2>1, <3>4, GroundsStay DEF Moves
  <2> QED BY <1>15, <2>2, <2>3, <2>4 DEF Walked, Walks
<1>16. CASE Restarted(p)
  <2>1. \A t \in proc'[p].todo : permit[t[1]].state # "none"
      BY <1>16 DEF Restarted, MutationStates
  <2>2. Grounded(proc[p])'
      BY <1>16, <2>1 DEF Restarted, Grounded, Quiet, WithPermit, Transacting, RestoreSteps
  <2> QED BY <1>0, <1>16, <2>2, GroundsStay DEF Restarted, Moves
<1>17. CASE Resumed(p)
  <2>1. Grounded(proc[p]) /\ UNCHANGED permit
      BY <1>0, <1>17 DEF GroundsOK, Resumed, Quiet
  <2>2. Grounded(proc[p])'
      BY <1>17, <2>1 DEF Resumed, Grounded
  <2> QED BY <1>0, <1>17, <2>2, GroundsStay DEF Resumed, Moves
<1> QED BY <1>2, <1>7, <1>8, <1>9, <1>10, <1>11, <1>12, <1>13, <1>14, <1>15, <1>16, <1>17 DEF Effect

LEMMA ShapesNext ==
    ASSUME Shapes, [Next]_vars
    PROVE  Shapes'
BY TypedNext, GroundsNext DEF Shapes

----------------------------------------------------------------------------
(* The single-use nonce, and the answers.                                  *)

LEMMA CarryingKey ==
    ASSUME Shapes
    PROVE  \A p \in Procs : proc[p].pc \in Transacting =>
              proc[p].key \in Keys /\ proc[p].client \in Clients /\ ~proc[p].recovers
BY WorkingAt DEF Shapes, Typed, Transacting, HandlerSteps

(* The nonce: one carrier.                                                 *)
LEMMA CarrierStays ==
    ASSUME Shapes, CarrierInv, PermitStep, UNCHANGED promoted, NEW p \in Procs, Others(p),
           proc'[p].pc \in Carrying => proc[p].pc \in Carrying /\ proc'[p].key = proc[p].key
    PROVE  CarrierInv'
<1>1. \A q \in Procs : proc'[q].pc \in Carrying => proc[q].pc \in Carrying /\ proc'[q].key = proc[q].key
    BY DEF Others
<1>2. \A q \in Procs : proc[q].pc \in Carrying => proc[q].key \in Keys
    BY CarryingKey DEF Carrying, Transacting
<1>3. ASSUME NEW q \in Procs, proc'[q].pc \in Carrying
      PROVE  /\ permit'[proc'[q].key].consumed
             /\ \A c \in Clients : promoted'[<< c, proc'[q].key >>] = 0
             /\ \A x \in Procs : proc'[x].pc \in Carrying /\ proc'[x].key = proc'[q].key => q = x
    BY <1>1, <1>2, <1>3 DEF CarrierInv, PermitStep
<1>4. ASSUME NEW c \in Clients, NEW k \in Keys
      PROVE  /\ promoted'[<< c, k >>] \in {0, 1}
             /\ promoted'[<< c, k >>] # 0 => permit'[k].consumed
             /\ \A d \in Clients : promoted'[<< c, k >>] # 0 /\ promoted'[<< d, k >>] # 0 => c = d
    BY DEF CarrierInv, PermitStep
<1> QED BY <1>3, <1>4 DEF CarrierInv

LEMMA CarrierNext ==
    ASSUME Shapes, CarrierInv, [Next]_vars
    PROVE  CarrierInv'
<1>0. ProcsOK /\ PermitStep
    BY PermitSteps DEF Shapes, Typed
<1>1. CASE Aside
    BY <1>1 DEF Aside, CarrierInv
<1>2. SUFFICES ASSUME NEW p \in Procs, Effect(p) PROVE CarrierInv'
    BY <1>1, NextTells
<1>3. CASE \/ Rested(p) \/ Failed(p) \/ Abandoned(p) \/ Answered(p) \/ Prepared(p) \/ Issued(p)
           \/ BackedUp(p) \/ Restored(p) \/ Settled(p) \/ Committed(p) \/ Completed(p) \/ Took(p)
           \/ Sent(p) \/ Reconciled(p) \/ Restarted(p) \/ Resumed(p)
  <2>1. /\ UNCHANGED promoted /\ Others(p)
      BY <1>3 DEF Rested, Failed, Abandoned, Answered, Prepared, Issued, BackedUp, Restored, Settled, Committed,
         Completed, Took, Sent, Reconciled, Restarted, Resumed, Rests, Raises, Restores, Answers, Prepares,
         Goes, Leased, Dispatched, Moves, Quiet, QuietButPermit
  <2>2. proc'[p].pc \notin Carrying
    <3>1. CASE Rested(p) \/ Failed(p) \/ Abandoned(p) \/ Answered(p) \/ Prepared(p) \/ Issued(p) \/ BackedUp(p)
        BY <3>1 DEF Rested, Failed, Abandoned, Answered, Prepared, Issued, BackedUp, Rests, Raises, Restores,
           Answers, Prepares, Goes, Resolved, Carrying
    <3>2. CASE Restored(p) \/ Settled(p) \/ Committed(p) \/ Completed(p) \/ Took(p)
        BY <3>2 DEF Restored, Settled, Committed, Completed, Took, Rests, Answers, Goes, Resolved, Leased, Carrying
    <3>3. CASE Sent(p) \/ Reconciled(p) \/ Restarted(p) \/ Resumed(p)
        BY <3>3 DEF Sent, Reconciled, Restarted, Resumed, Dispatched, Goes, Resolved, Carrying
    <3> QED BY <1>3, <3>1, <3>2, <3>3
  <2> QED BY <1>0, <2>1, <2>2, CarrierStays
<1>4. CASE Arrived(p)
  <2>1. CASE UNCHANGED << permit, proc, promoted >>
      BY <2>1 DEF CarrierInv
  <2>2. CASE UNCHANGED promoted /\ \E c, k, op : Received(p, c, k, op)
    <3>1. Others(p) /\ proc'[p].pc \notin Carrying
        BY <2>2 DEF Received, Moves, Carrying
    <3> QED BY <1>0, <2>2, <3>1, CarrierStays
  <2> QED BY <1>4, <2>1, <2>2 DEF Arrived
<1>5. CASE Walked(p) \/ Recorded(p)
  <2>1. UNCHANGED promoted /\ Others(p) /\ proc'[p].key = proc[p].key
      BY <1>5 DEF Walked, Recorded, Goes, Moves, Kin, Quiet, QuietButPermit
  <2>2. proc'[p].pc \in Carrying => proc[p].pc \in Carrying
      BY <1>5 DEF Walked, Walks, Recorded, Recordings, Carrying
  <2> QED BY <1>0, <2>1, <2>2, CarrierStays
<1>6. CASE Consumed(p)
  <2> DEFINE k == proc[p].key
  <2>1. /\ UNCHANGED promoted /\ Others(p) /\ proc'[p].key = k /\ proc'[p].pc = "record_applying"
        /\ permit[k].consumed = FALSE /\ permit'[k].consumed = TRUE
      BY <1>6 DEF Consumed, Goes, Moves, Kin, QuietButPermit
  <2>2. k \in Keys
      BY <1>6, CarryingKey DEF Consumed, Transacting
  <2>3. \A c \in Clients : promoted[<< c, k >>] = 0
      BY <2>1, <2>2 DEF CarrierInv
  <2>4. \A q \in Procs : proc[q].pc \in Carrying => proc[q].key # k /\ proc[q].key \in Keys
      BY <2>1, CarryingKey DEF CarrierInv, Carrying, Transacting
  <2>5. ASSUME NEW q \in Procs, proc'[q].pc \in Carrying
        PROVE  /\ permit'[proc'[q].key].consumed
               /\ \A c \in Clients : promoted'[<< c, proc'[q].key >>] = 0
               /\ \A x \in Procs : proc'[x].pc \in Carrying /\ proc'[x].key = proc'[q].key => q = x
    <3>1. CASE q = p
        BY <2>1, <2>3, <2>4, <3>1 DEF Others
    <3>2. CASE q # p
        BY <1>0, <2>1, <2>4, <2>5, <3>2 DEF Others, CarrierInv, PermitStep
    <3> QED BY <3>1, <3>2
  <2>6. ASSUME NEW c \in Clients, NEW j \in Keys
        PROVE  /\ promoted'[<< c, j >>] \in {0, 1}
               /\ promoted'[<< c, j >>] # 0 => permit'[j].consumed
               /\ \A d \in Clients : promoted'[<< c, j >>] # 0 /\ promoted'[<< d, j >>] # 0 => c = d
      BY <1>0, <2>1 DEF CarrierInv, PermitStep
  <2> QED BY <2>5, <2>6 DEF CarrierInv
<1>7. CASE Replaced(p)
  <2> DEFINE k == proc[p].key
  <2>1. k \in Keys /\ proc[p].client \in Clients /\ proc[p].pc \in Carrying
      BY <1>7, CarryingKey DEF Replaced, Transacting, Carrying
  <2>2. permit[k].consumed /\ (\A c \in Clients : promoted[<< c, k >>] = 0)
      BY <2>1 DEF CarrierInv
  <2>3. \A q \in Procs : q # p /\ proc[q].pc \in Carrying => proc[q].key # k /\ proc[q].key \in Keys
      BY <2>1, CarryingKey DEF CarrierInv, Carrying, Transacting
  <2>4. Others(p) /\ proc'[p].pc \notin Carrying /\ UNCHANGED permit
      BY <1>7 DEF Replaced, Goes, Restores, Moves, Carrying
  <2>5. /\ promoted'[<< proc[p].client, k >>] = 1
        /\ \A c \in Clients, j \in Keys : << c, j >> # << proc[p].client, k >> => promoted'[<< c, j >>] = promoted[<< c, j >>]
      BY <1>7, <2>1, <2>2 DEF Replaced
  <2>6. ASSUME NEW q \in Procs, proc'[q].pc \in Carrying
        PROVE  /\ permit'[proc'[q].key].consumed
               /\ \A c \in Clients : promoted'[<< c, proc'[q].key >>] = 0
               /\ \A x \in Procs : proc'[x].pc \in Carrying /\ proc'[x].key = proc'[q].key => q = x
    <3>1. q # p /\ proc'[q] = proc[q] /\ proc[q].key # k /\ proc[q].key \in Keys
        BY <2>3, <2>4, <2>6 DEF Others
    <3>2. permit[proc[q].key].consumed /\ \A c \in Clients : promoted'[<< c, proc[q].key >>] = 0
        BY <2>5, <2>6, <3>1 DEF CarrierInv
    <3>3. \A x \in Procs : proc'[x].pc \in Carrying /\ proc'[x].key = proc'[q].key => q = x
        BY <2>4, <2>6, <3>1 DEF CarrierInv, Others
    <3> QED BY <2>4, <3>1, <3>2, <3>3
  <2>7. ASSUME NEW c \in Clients, NEW j \in Keys
        PROVE  /\ promoted'[<< c, j >>] \in {0, 1}
               /\ promoted'[<< c, j >>] # 0 => permit'[j].consumed
               /\ \A d \in Clients : promoted'[<< c, j >>] # 0 /\ promoted'[<< d, j >>] # 0 => c = d
    <3>1. CASE j = k
        BY <2>1, <2>2, <2>4, <2>5, <3>1
    <3>2. CASE j # k
        BY <2>4, <2>5, <3>2 DEF CarrierInv
    <3> QED BY <3>1, <3>2
  <2> QED BY <2>6, <2>7 DEF CarrierInv
<1> QED BY <1>2, <1>3, <1>4, <1>5, <1>6, <1>7 DEF Effect

(* Every answer is the one on record.                                      *)
LEMMA RepliesNext ==
    ASSUME Shapes, RepliesInv, [Next]_vars
    PROVE  RepliesInv'
<1>0. AuthStep
    BY AuthSteps
<1>1. CASE UNCHANGED replies
    BY <1>0, <1>1 DEF RepliesInv, AuthStep
<1>2. SUFFICES ASSUME NEW p \in Procs, Effect(p) PROVE RepliesInv'
    BY <1>1, NextTells DEF Aside
<1>3. CASE Completed(p)
  <2> DEFINE a == ThisAuth(p)
  <2>1. a \in Auths /\ auth[a].state # "terminal" /\ replies[a] = {}
      BY <1>3 DEF Completed, RepliesInv
  <2>2. /\ replies'[a] = {[outcome |-> proc[p].outcome, result |-> proc[p].result]}
        /\ \A b \in Auths \ {a} : replies'[b] = replies[b] /\ auth'[b] = auth[b]
        /\ auth'[a].state = "terminal" /\ auth'[a].outcome = proc[p].outcome /\ auth'[a].result = proc[p].result
      BY <1>3, <2>1 DEF Completed, RepliesWith, AuthMoves
  <2> HIDE DEF a
  <2> QED BY <2>1, <2>2 DEF RepliesInv
<1>4. CASE Arrived(p)
  <2>1. PICK a \in Auths : UNCHANGED replies
            \/ (auth[a].state = "terminal" /\ UNCHANGED auth /\ RepliesWith(a, auth[a].outcome, auth[a].result))
      BY <1>4 DEF Arrived, Received
  <2>2. CASE auth[a].state = "terminal" /\ UNCHANGED auth /\ RepliesWith(a, auth[a].outcome, auth[a].result)
      BY <2>2 DEF RepliesWith, RepliesInv
  <2> QED BY <1>1, <2>1, <2>2
<1>5. CASE \/ Rested(p) \/ Failed(p) \/ Walked(p) \/ Abandoned(p) \/ Answered(p) \/ Prepared(p)
           \/ Recorded(p) \/ Consumed(p) \/ Issued(p) \/ BackedUp(p) \/ Replaced(p) \/ Restored(p)
           \/ Settled(p) \/ Committed(p) \/ Took(p) \/ Sent(p) \/ Reconciled(p) \/ Restarted(p) \/ Resumed(p)
    BY <1>1, <1>5 DEF Rested, Failed, Walked, Abandoned, Answered, Prepared, Recorded, Consumed, Issued,
       BackedUp, Replaced, Restored, Settled, Committed, Took, Sent, Reconciled, Restarted, Resumed, Quiet,
       QuietButPermit
<1> QED BY <1>2, <1>3, <1>4, <1>5 DEF Effect

(* What is answered is what the permit says.                               *)
LEMMA OutcomesStay ==
    ASSUME OutcomeMatchesPermit, PermitStep,
           \A a \in Auths : auth'[a].outcome = auth[a].outcome /\ auth'[a].result = auth[a].result
    PROVE  OutcomeMatchesPermit'
<1> SUFFICES ASSUME NEW c \in Clients, NEW k \in Keys
             PROVE  LET r == auth'[<< c, k, "execute" >>]
                    IN  /\ r.outcome = "succeeded" => permit'[k].state = "committed"
                        /\ r.outcome = "failed" /\ r.result.kind = "failed" =>
                              permit'[k].state \in {"aborted", "recovery_required"}
    BY DEF OutcomeMatchesPermit
<1>1. << c, k, "execute" >> \in Auths
    BY DEF Auths, Ops
<1>2. permit[k].state \in {"committed", "aborted", "recovery_required"} => permit'[k] = permit[k]
    BY DEF PermitStep, TerminalStates
<1> QED BY <1>1, <1>2 DEF OutcomeMatchesPermit

LEMMA AnswersStay ==
    ASSUME Shapes, \A q \in Procs : AnswerOK(proc[q]), PermitStep, NEW p \in Procs, Others(p), AnswerOK(proc[p])'
    PROVE  (\A q \in Procs : AnswerOK(proc[q]))'
<1> SUFFICES ASSUME NEW q \in Procs \ {p} PROVE AnswerOK(proc[q])'
    OBVIOUS
<1>1. proc'[q] = proc[q] /\ AnswerOK(proc[q])
    BY DEF Others
<1>2. proc[q].pc = "complete" => proc[q].key \in Keys
    BY WorkingAt DEF Shapes, Typed, HandlerSteps
<1>3. \A k \in Keys : permit[k].state \in {"committed", "aborted", "recovery_required"} => permit'[k] = permit[k]
    BY DEF PermitStep, TerminalStates
<1> QED BY <1>1, <1>2, <1>3 DEF AnswerOK

LEMMA AnswerNext ==
    ASSUME Shapes, AnswerInv, [Next]_vars
    PROVE  AnswerInv'
<1>0. ProcsOK /\ AuthOK /\ PermitStep /\ OutcomeMatchesPermit /\ \A q \in Procs : AnswerOK(proc[q])
    BY PermitSteps DEF Shapes, Typed, AnswerInv
<1>1. CASE Aside
    BY <1>1 DEF Aside, AnswerInv, AnswerOK, OutcomeMatchesPermit
<1>2. SUFFICES ASSUME NEW p \in Procs, Effect(p) PROVE AnswerInv'
    BY <1>1, NextTells
<1>3. ASSUME Others(p), AnswerOK(proc[p])',
             \A a \in Auths : auth'[a].outcome = auth[a].outcome /\ auth'[a].result = auth[a].result
      PROVE  AnswerInv'
    BY <1>0, <1>3, OutcomesStay, AnswersStay DEF AnswerInv
<1>4. ASSUME UNCHANGED auth, Others(p), AnswerOK(proc[p])' PROVE AnswerInv'
    BY <1>3, <1>4
<1>5. CASE \/ Rested(p) \/ Walked(p) \/ Abandoned(p) \/ Prepared(p) \/ Recorded(p) \/ Consumed(p) \/ Issued(p)
           \/ BackedUp(p) \/ Replaced(p) \/ Restored(p) \/ Restarted(p) \/ Resumed(p)
  <2>1. UNCHANGED auth /\ Others(p) /\ proc'[p].pc # "complete"
    <3>1. CASE Rested(p) \/ Walked(p) \/ Abandoned(p) \/ Prepared(p)
        BY <3>1 DEF Rested, Walked, Walks, Abandoned, Prepared, Rests, Goes, Restores, Prepares, Moves, Quiet
    <3>2. CASE Recorded(p) \/ Consumed(p) \/ Issued(p) \/ BackedUp(p)
        BY <3>2 DEF Recorded, Recordings, Consumed, Issued, BackedUp, Goes, Moves, QuietButPermit
    <3>3. CASE Replaced(p) \/ Restored(p) \/ Restarted(p) \/ Resumed(p)
        BY <3>3 DEF Replaced, Restored, Restarted, Resumed, Goes, Restores, Moves, Quiet
    <3> QED BY <1>5, <3>1, <3>2, <3>3
  <2> QED BY <1>4, <2>1 DEF AnswerOK
<1>6. CASE Failed(p)
  <2>1. /\ UNCHANGED auth /\ Others(p) /\ proc'[p].outcome # "succeeded" /\ proc'[p].result = Rejected
      BY <1>6 DEF Failed, Quiet, Raises, Moves, Resolved
  <2> QED BY <1>4, <2>1, ResultIs DEF AnswerOK
<1>7. ASSUME NEW v, NEW r, r.state \in TerminalStates, Others(p), UNCHANGED << auth, permit >>,
             r = permit[proc[p].key], Resolved(p, v, ResultStatus(r), StoredResult(r))
      PROVE  AnswerInv'
  <2>1. /\ proc'[p].outcome = ResultStatus(r) /\ proc'[p].result = StoredResult(r) /\ proc'[p].key = proc[p].key
      BY <1>7 DEF Resolved, KinAnswer
  <2>2. /\ proc'[p].outcome = "succeeded" => r.state = "committed"
        /\ proc'[p].result.kind = "failed" => r.state \in {"aborted", "recovery_required"}
      BY <1>7, <2>1, StoredResultIs DEF TerminalStates
  <2>3. AnswerOK(proc[p])'
      BY <1>7, <2>1, <2>2 DEF AnswerOK
  <2> QED BY <1>4, <1>7, <2>3
<1>8. CASE Answered(p)
  <2>0. UNCHANGED << auth, permit >>
      BY <1>8 DEF Answered, Quiet
  <2>1. PICK o \in TerminalOutcomes, r \in Results :
          /\ Answers(p, o, r)
          /\ \/ proc[p].pc = "preflight"
             \/ proc[p].pc = "prepare" /\ o = "rejected" /\ r = Rejected
             \/ /\ proc[p].pc = "replay" /\ permit[proc[p].key].state \in TerminalStates
                /\ o = ResultStatus(permit[proc[p].key]) /\ r = StoredResult(permit[proc[p].key])
      BY <1>8 DEF Answered
  <2>2. Others(p) /\ Resolved(p, proc[p].version + 1, o, r) /\ proc'[p].op = proc[p].op
      BY <2>1 DEF Answers, Moves, Resolved, KinAnswer
  <2>3. CASE proc[p].pc = "preflight"
    <3>1. proc[p].op = "preflight"
        BY <1>0, <2>3 DEF ProcsOK, Shape
    <3> QED BY <1>4, <2>0, <2>2, <3>1 DEF AnswerOK
  <2>4. CASE o = "rejected" /\ r = Rejected
    <3>1. proc'[p].outcome = "rejected" /\ proc'[p].result = Rejected
        BY <2>2, <2>4 DEF Resolved
    <3> QED BY <1>4, <2>0, <2>2, <3>1, ResultIs DEF AnswerOK
  <2>5. CASE /\ permit[proc[p].key].state \in TerminalStates
             /\ o = ResultStatus(permit[proc[p].key]) /\ r = StoredResult(permit[proc[p].key])
      BY <1>7, <2>0, <2>2, <2>5
  <2> QED BY <2>1, <2>3, <2>4, <2>5
<1>9. CASE Reconciled(p)
  <2>1. UNCHANGED << auth, permit >> /\ Others(p)
      BY <1>9 DEF Reconciled, Quiet, Moves
  <2>2. CASE Resolved(p, proc[p].version, "unknown", Result("unknown", NoContent))
    <3>1. proc'[p].outcome = "unknown" /\ proc'[p].result.kind = "unknown"
        BY <2>2, ResultIs DEF Resolved
    <3> QED BY <1>4, <2>1, <3>1 DEF AnswerOK
  <2> QED BY <1>7, <1>9, <2>1, <2>2 DEF Reconciled
<1>10. CASE Settled(p)
  <2>1. UNCHANGED auth /\ Others(p) /\ permit'[proc[p].key].state \in {"aborted", "recovery_required"}
      BY <1>10 DEF Settled, QuietButPermit, Answers, Goes, Moves
  <2>2. CASE Goes(p, "recover")
      BY <1>4, <2>1, <2>2 DEF Goes, AnswerOK
  <2>3. CASE Answers(p, "failed", Result("failed", NoContent))
    <3>1. proc'[p].outcome = "failed" /\ proc'[p].key = proc[p].key
        BY <2>3 DEF Answers, Resolved, KinAnswer
    <3> QED BY <1>4, <2>1, <3>1 DEF AnswerOK
  <2> QED BY <1>10, <2>2, <2>3 DEF Settled
<1>11. CASE Committed(p)
  <2>1. /\ UNCHANGED auth /\ Others(p) /\ permit'[proc[p].key].state = "committed"
        /\ proc'[p].key = proc[p].key /\ proc'[p].result = Result("promoted", NoContent)
      BY <1>11 DEF Committed, QuietButPermit, Answers, Moves, Resolved, KinAnswer, PermitMoves
  <2>2. Result("promoted", NoContent).kind = "promoted"
      BY ResultIs
  <2> QED BY <1>4, <2>1, <2>2 DEF AnswerOK
<1>12. CASE Took(p) \/ Sent(p)
  <2>1. /\ Others(p) /\ proc'[p].pc # "complete"
        /\ \A a \in Auths : auth'[a].outcome = auth[a].outcome /\ auth'[a].result = auth[a].result
      BY <1>12 DEF Took, Sent, Leased, Dispatched, AuthMoves, Goes, Moves
  <2> QED BY <1>3, <2>1 DEF AnswerOK
<1>13. CASE Arrived(p)
  <2>1. PICK c \in Clients, k \in Keys, op \in Ops :
           LET a == << c, k, op >>
           IN  /\ UNCHANGED << permit, backup, target, promoted >> /\ proc[p].pc = "idle"
               /\ a \in Auths /\ Gets(a)
               /\ \/ /\ auth[a].state = "terminal" /\ UNCHANGED << auth, proc >>
                     /\ RepliesWith(a, auth[a].outcome, auth[a].result)
                  \/ Received(p, c, k, op)
      BY <1>13 DEF Arrived
  <2> DEFINE a == << c, k, op >>
  <2>2. CASE UNCHANGED << auth, proc >>
      BY <2>1, <2>2 DEF AnswerInv, AnswerOK, OutcomeMatchesPermit
  <2>3. CASE Received(p, c, k, op)
    <3>1. \A b \in Auths : auth'[b].outcome = auth[b].outcome /\ auth'[b].result = auth[b].result
      <4>1. auth[a].state # "terminal" => auth[a].outcome = "none" /\ auth[a].result = NoResult
          BY <1>0, <2>1, RecordIs DEF RecordShape
      <4> QED BY <2>1, <4>1 DEF Gets, AuthMoves
    <3>2. Others(p) /\ (proc'[p].pc = "complete" => proc'[p].op # "execute")
        BY <2>3 DEF Received, Moves
    <3> QED BY <1>3, <3>1, <3>2 DEF AnswerOK
  <2> QED BY <2>1, <2>2, <2>3
<1>14. CASE Completed(p)
  <2> DEFINE a == ThisAuth(p)
             l == proc[p]
  <2>1. UNCHANGED permit /\ Others(p) /\ proc'[p].pc # "complete" /\ l.pc = "complete"
      BY <1>14 DEF Completed, Rests, Moves
  <2>2. /\ a \in Auths /\ auth'[a].outcome = l.outcome /\ auth'[a].result = l.result
        /\ \A b \in Auths \ {a} : auth'[b] = auth[b]
      BY <1>14 DEF Completed, AuthMoves
  <2>3. (\A q \in Procs : AnswerOK(proc[q]))'
      BY <1>0, <2>1, AnswersStay DEF AnswerOK
  <2>4. ASSUME NEW c \in Clients, NEW k \in Keys
        PROVE  LET r == auth'[<< c, k, "execute" >>]
               IN  /\ r.outcome = "succeeded" => permit'[k].state = "committed"
                   /\ r.outcome = "failed" /\ r.result.kind = "failed" =>
                         permit'[k].state \in {"aborted", "recovery_required"}
    <3>1. << c, k, "execute" >> \in Auths
        BY DEF Auths, Ops
    <3>2. CASE << c, k, "execute" >> # a
        BY <1>0, <2>1, <2>2, <3>1, <3>2 DEF OutcomeMatchesPermit
    <3>3. CASE << c, k, "execute" >> = a
      <4>1. l.key = k /\ l.op = "execute" /\ AnswerOK(l)
          BY <1>0, <3>3 DEF ThisAuth
      <4> QED BY <2>1, <2>2, <3>3, <4>1 DEF AnswerOK
    <3> QED BY <3>2, <3>3
  <2>5. OutcomeMatchesPermit'
      BY <2>4 DEF OutcomeMatchesPermit
  <2> QED BY <2>3, <2>5 DEF AnswerInv
<1> QED BY <1>2, <1>5, <1>6, <1>8, <1>9, <1>10, <1>11, <1>12, <1>13, <1>14 DEF Effect

(* The file: whatever is in it can be restored.                            *)
StartedStep == \A k \in Keys : Started(k) => Started(k)'

LEMMA StartedSteps ==
    ASSUME PermitStep, BackupStep
    PROVE  StartedStep
BY DEF StartedStep, Started, PermitStep, BackupStep

LEMMA SecuredStays ==
    ASSUME Shapes, PermitStep, BackupStep, StartedStep, \A q \in Procs : Secured(proc[q]),
           NEW p \in Procs, Others(p), Secured(proc[p])'
    PROVE  (\A q \in Procs : Secured(proc[q]))'
<1> SUFFICES ASSUME NEW q \in Procs \ {p} PROVE Secured(proc[q])'
    OBVIOUS
<1> DEFINE l == proc[q]
<1>1. proc'[q] = l /\ Secured(l)
    BY DEF Others
<1>2. l.pc \in Transacting => l.key \in Keys
    BY CarryingKey
<1>3. l.pc \in {"promote", "replace"} => l.pc \in Transacting
    BY DEF Transacting
<1>4. l.pc \in Transacting => \A k \in Keys : k \in l.prep => Started(k)'
    BY <1>1 DEF Secured, AllStarted, StartedStep
<1>5. l.pc \in Transacting \ {"issue", "backup"} => backup'[l.key] # NoContent
    BY <1>1, <1>2 DEF Secured, BackupStep
<1>6. l.pc \in {"promote", "replace"} => permit'[l.key].state \in LateStates
    BY <1>1, <1>2, <1>3 DEF Secured, PermitStep
<1> QED BY <1>1, <1>4, <1>5, <1>6 DEF Secured, AllStarted

(* A process that goes on with the transaction it is in.                   *)
LEMMA SecuredKin ==
    ASSUME Shapes, PermitStep, BackupStep, StartedStep, NEW p \in Procs, Secured(proc[p]),
           proc'[p].key = proc[p].key, proc'[p].prep = proc[p].prep, proc[p].pc \in Transacting,
           proc'[p].pc \in Transacting \ {"issue", "backup"} =>
               proc[p].pc \in Transacting \ {"issue", "backup"} \/ backup'[proc[p].key] # NoContent,
           proc'[p].pc \in {"promote", "replace"} =>
               proc[p].pc \in {"promote", "replace"} \/ permit'[proc[p].key].state \in LateStates
    PROVE  Secured(proc[p])'
<1> DEFINE l == proc[p]
<1>1. l.key \in Keys
    BY CarryingKey
<1>2. \A k \in Keys : k \in l.prep => Started(k)'
    BY DEF Secured, AllStarted, StartedStep
<1>3. l.pc \in Transacting \ {"issue", "backup"} => backup'[l.key] # NoContent
    BY <1>1 DEF Secured, BackupStep
<1>4. l.pc \in {"promote", "replace"} => permit'[l.key].state \in LateStates
    BY <1>1 DEF Secured, PermitStep
<1> QED BY <1>2, <1>3, <1>4 DEF Secured, AllStarted

LEMMA FileNext ==
    ASSUME Shapes, FileInv, [Next]_vars
    PROVE  FileInv'
<1>0. /\ ProcsOK /\ FilesOK /\ GroundsOK /\ PermitStep /\ BackupStep /\ StartedStep
      /\ \A q \in Procs : Secured(proc[q])
    BY PermitSteps, BackupSteps, StartedSteps DEF Shapes, Typed, FileInv
<1>1. ASSUME UNCHANGED target PROVE AllStarted(target)'
    BY <1>0, <1>1 DEF FileInv, AllStarted, StartedStep
<1>2. ASSUME UNCHANGED backup PROVE (\A k \in Keys : backup[k] # NoContent => AllStarted(backup[k]))'
    BY <1>0, <1>2 DEF FileInv, AllStarted, StartedStep
<1>3. CASE Aside
  <2>1. AllStarted(target)'
      BY <1>0, <1>3, ServiceAssumption DEF Aside, FileInv, AllStarted, StartedStep
  <2>2. (\A q \in Procs : Secured(proc[q]))'
      BY <1>0, <1>3 DEF Aside, Secured, AllStarted, Started
  <2> QED BY <1>2, <1>3, <2>1, <2>2 DEF Aside, FileInv
<1>4. SUFFICES ASSUME NEW p \in Procs, Effect(p) PROVE FileInv'
    BY <1>3, NextTells
<1>5. ASSUME Others(p), Secured(proc[p])', AllStarted(target)', UNCHANGED backup
      PROVE  FileInv'
    BY <1>0, <1>2, <1>5, SecuredStays DEF FileInv
<1>6. ASSUME proc'[p].pc \notin Transacting PROVE Secured(proc[p])'
    BY <1>6 DEF Secured, Transacting
<1>7. CASE \/ Rested(p) \/ Failed(p) \/ Abandoned(p) \/ Answered(p) \/ Settled(p) \/ Committed(p)
           \/ Completed(p) \/ Took(p) \/ Sent(p) \/ Reconciled(p) \/ Restarted(p) \/ Resumed(p)
  <2>1. /\ UNCHANGED << backup, target >> /\ Others(p)
      BY <1>7 DEF Rested, Failed, Abandoned, Answered, Settled, Committed, Completed, Took, Sent, Reconciled,
         Restarted, Resumed, Rests, Raises, Restores, Answers, Goes, Leased, Dispatched, Moves, Quiet, QuietButPermit
  <2>2. proc'[p].pc \notin Transacting
    <3>1. CASE Rested(p) \/ Failed(p) \/ Abandoned(p) \/ Answered(p) \/ Committed(p) \/ Completed(p)
        BY <3>1 DEF Rested, Failed, Abandoned, Answered, Committed, Completed, Rests, Raises, Restores,
           Answers, Resolved, Transacting
    <3>2. CASE Settled(p) \/ Took(p) \/ Sent(p) \/ Reconciled(p) \/ Restarted(p) \/ Resumed(p)
        BY <3>2 DEF Settled, Took, Sent, Reconciled, Restarted, Resumed, Answers, Goes, Resolved, Leased,
           Dispatched, Transacting
    <3> QED BY <1>7, <3>1, <3>2
  <2> QED BY <1>1, <1>5, <1>6, <2>1, <2>2
<1>8. CASE Arrived(p)
  <2>1. CASE UNCHANGED << permit, backup, target, proc >>
      BY <1>1, <1>2, <1>0, <2>1 DEF FileInv, Secured, AllStarted, Started
  <2>2. CASE UNCHANGED << backup, target >> /\ \E c, k, op : Received(p, c, k, op)
    <3>1. Others(p) /\ proc'[p].pc \notin Transacting
        BY <2>2 DEF Received, Moves, Transacting
    <3> QED BY <1>1, <1>5, <1>6, <2>2, <3>1
  <2> QED BY <1>8, <2>1, <2>2 DEF Arrived
<1>9. CASE Walked(p)
  <2>1. UNCHANGED << backup, target >> /\ Others(p) /\ proc'[p].key = proc[p].key /\ proc'[p].prep = proc[p].prep
      BY <1>9 DEF Walked, Goes, Moves, Kin, Quiet
  <2>2. CASE proc'[p].pc \notin Transacting
      BY <1>1, <1>5, <1>6, <2>1, <2>2
  <2>3. CASE proc[p].pc = "promote" /\ proc'[p].pc = "replace"
    <3>1. proc[p].pc \in Transacting \ {"issue", "backup"} /\ proc'[p].pc \in Transacting
        BY <2>3 DEF Transacting
    <3>2. Secured(proc[p])'
        BY <1>0, <2>1, <2>3, <3>1, SecuredKin
    <3> QED BY <1>1, <1>5, <2>1, <3>2
  <2> QED BY <1>9, <2>2, <2>3 DEF Walked, Walks, Transacting
<1>10. CASE Prepared(p)
  <2>1. UNCHANGED << backup, target >> /\ Others(p) /\ proc'[p].pc = "issue" /\ proc'[p].prep = target
      BY <1>10 DEF Prepared, Prepares, Moves, Quiet
  <2>2. Secured(proc[p])'
      BY <1>1, <2>1 DEF Secured, AllStarted
  <2> QED BY <1>1, <1>5, <2>1, <2>2
<1>11. CASE Recorded(p)
  <2>1. /\ UNCHANGED << backup, target >> /\ Others(p) /\ proc'[p].key = proc[p].key /\ proc'[p].prep = proc[p].prep
      BY <1>11 DEF Recorded, Goes, Moves, Kin, QuietButPermit
  <2>2. CASE proc'[p].pc \notin Transacting
      BY <1>1, <1>5, <1>6, <2>1, <2>2
  <2>3. CASE proc'[p].pc \in Transacting
    <3>1. /\ proc[p].pc \in Transacting \ {"issue", "backup"}
          /\ proc'[p].pc \in {"promote", "replace"} => permit'[proc[p].key].state \in LateStates
        BY <1>11, <2>3 DEF Recorded, Recordings, Transacting, LateStates
    <3>2. Secured(proc[p])'
        BY <1>0, <2>1, <3>1, SecuredKin
    <3> QED BY <1>1, <1>5, <2>1, <3>2
  <2> QED BY <2>2, <2>3
<1>12. CASE Consumed(p) \/ Issued(p)
  <2>1. /\ UNCHANGED << backup, target >> /\ Others(p) /\ proc'[p].key = proc[p].key /\ proc'[p].prep = proc[p].prep
      BY <1>12 DEF Consumed, Issued, Goes, Moves, Kin, QuietButPermit
  <2>2. /\ proc[p].pc \in Transacting /\ proc'[p].pc \notin {"promote", "replace"}
        /\ proc'[p].pc \in Transacting \ {"issue", "backup"} => proc[p].pc \in Transacting \ {"issue", "backup"}
      BY <1>12 DEF Consumed, Issued, Goes, Transacting
  <2>3. Secured(proc[p])'
      BY <1>0, <2>1, <2>2, SecuredKin
  <2> QED BY <1>1, <1>5, <2>1, <2>3
<1>13. CASE BackedUp(p)
  <2> DEFINE k == proc[p].key
  <2>1. /\ UNCHANGED target /\ Others(p) /\ proc'[p].key = k /\ proc'[p].prep = proc[p].prep
        /\ proc[p].pc = "backup" /\ proc'[p].pc = "record_prepared"
      BY <1>13 DEF BackedUp, Goes, Moves, Kin
  <2>2. proc[p].pc \in Transacting /\ proc[p].prep \in Contents /\ k \in Keys
      BY <1>0, <2>1, CarryingKey DEF ProcsOK, Shape, Transacting
  <2>3. backup'[k] = proc[p].prep /\ backup'[k] # NoContent
      BY <1>13, <2>2, MarkerAssumption DEF BackedUp
  <2>4. Secured(proc[p])'
      BY <1>0, <2>1, <2>2, <2>3, SecuredKin
  <2>5. \A j \in Keys : j \in proc[p].prep => Started(j)'
      BY <1>0, <2>2 DEF Secured, AllStarted, StartedStep
  <2>6. ASSUME NEW j \in Keys, backup'[j] # NoContent PROVE \A x \in Keys : x \in backup'[j] => Started(x)'
    <3>1. CASE j = k
        BY <2>3, <2>5, <3>1
    <3>2. CASE j # k
        BY <1>0, <1>13, <2>6, <3>2 DEF BackedUp, FileInv, AllStarted, StartedStep
    <3> QED BY <3>1, <3>2
  <2>7. (\A j \in Keys : backup[j] # NoContent => AllStarted(backup[j]))'
      BY <2>6 DEF AllStarted
  <2> QED BY <1>0, <1>1, <2>1, <2>4, <2>7, SecuredStays DEF FileInv
<1>14. CASE Replaced(p)
  <2> DEFINE k == proc[p].key
  <2>1. /\ UNCHANGED << backup, permit >> /\ Others(p) /\ proc'[p].pc \notin Transacting
        /\ target' = proc[p].prep \cup {k} /\ proc[p].pc = "replace"
      BY <1>14 DEF Replaced, Goes, Restores, Moves, Transacting
  <2>2. Secured(proc[p]) /\ proc[p].pc \in Transacting \ {"issue", "backup"}
      BY <1>0, <2>1 DEF Transacting
  <2>3. AllStarted(proc[p].prep) /\ Started(k)
      BY <2>1, <2>2 DEF Secured, Started
  <2>4. AllStarted(target)'
      BY <1>0, <2>1, <2>3 DEF AllStarted, StartedStep
  <2> QED BY <1>5, <1>6, <2>1, <2>4
<1>15. CASE Restored(p)
  <2>1. /\ UNCHANGED << backup, permit >> /\ Others(p) /\ proc'[p].pc \notin Transacting
        /\ target' = backup[proc[p].key] \/ target' = target
      BY <1>15 DEF Restored, Goes, Moves, Transacting
  <2>2. proc[p].key \in Keys /\ backup[proc[p].key] \in Contents
      BY <1>0, <1>15 DEF Restored, ProcsOK, Shape, RestoreSteps, GroundsOK, Grounded
  <2>3. AllStarted(backup[proc[p].key])
      BY <2>2, MarkerAssumption DEF FileInv
  <2>4. AllStarted(target)'
      BY <1>0, <1>1, <2>1, <2>3 DEF AllStarted, StartedStep
  <2> QED BY <1>5, <1>6, <2>1, <2>4
<1> QED BY <1>4, <1>7, <1>8, <1>9, <1>10, <1>11, <1>12, <1>13, <1>14, <1>15 DEF Effect

----------------------------------------------------------------------------
(* One process at most works on an authority that was dispatched.          *)

LEMMA TurnsWork ==
    ASSUME Shapes, NEW p \in Procs, proc[p].pc \in {"admit", "dispatch", "complete"} \/ Holds(proc[p])
    PROVE  /\ ThisAuth(p) \in Auths /\ proc[p].client \in Clients /\ proc[p].key \in Keys
           /\ proc[p].version \in Nat /\ auth[ThisAuth(p)].version \in Nat
<1>1. ProcsOK /\ AuthOK
    BY DEF Shapes, Typed
<1>2. Working(proc[p])
  <2>1. CASE proc[p].pc \in HandlerSteps
      BY <1>1, <2>1, WorkingAt
  <2>2. CASE proc[p].pc \notin HandlerSteps
      BY <2>2 DEF Holds, Working, DispatchedSteps, HandlerSteps
  <2> QED BY <2>1, <2>2
<1> QED BY <1>1, <1>2, KeyIs, ThisAuthIs, VersionIs, RecordIs

LEMMA OthersTurn ==
    ASSUME Shapes, Typed', AuthStep, TurnInv, NEW p \in Procs, Others(p),
           \A q \in Procs \ {p} : Holds(proc[q]) =>
               /\ auth'[ThisAuth(q)].result # Rejected
               /\ ~Past(proc[q]) /\ proc[q].op = "execute" => promoted'[<< proc[q].client, proc[q].key >>] = 0
    PROVE  \A q \in Procs \ {p} : Turn(q)'
<1> SUFFICES ASSUME NEW q \in Procs \ {p} PROVE Turn(q)'
    OBVIOUS
<1> DEFINE l == proc[q]
           a == ThisAuth(q)
           n == promoted'[<< l.client, l.key >>]
<1>1. proc'[q] = l /\ ThisAuth(q)' = a /\ promoted'[<< proc'[q].client, proc'[q].key >>] = n
    BY DEF Others, ThisAuth
<1>2. Turned(q, l, auth[a], promoted[<< l.client, l.key >>])
    BY DEF TurnInv, Turn
<1>3. CASE ~(l.pc \in {"admit", "dispatch", "complete"} \/ Holds(l))
    BY <1>1, <1>3 DEF Turn, Turned
<1>4. CASE l.pc \in {"admit", "dispatch", "complete"} \/ Holds(l)
  <2>1. a \in Auths /\ l.version \in Nat /\ auth[a].version \in Nat
      BY <1>4, TurnsWork
  <2>2. /\ auth'[a].version >= auth[a].version
        /\ auth'[a].version = auth[a].version => auth'[a] = auth[a]
        /\ auth[a].state \in {"dispatched", "terminal"} =>
              auth'[a].state \in {"dispatched", "terminal"} /\ auth'[a].lease = auth[a].lease
      BY <2>1 DEF AuthStep
  <2>3. auth'[a].version \in Nat
    <3>1. AuthOK'
        BY DEF Typed
    <3> QED BY <2>1, <3>1 DEF AuthOK, Records
  <2>4. Fresh(l, auth[a]) => Fresh(l, auth'[a])
      BY <2>1, <2>2, <2>3 DEF Fresh
  <2>5. Holds(l) =>
          /\ auth'[a].state \in {"dispatched", "terminal"} /\ auth'[a].version > l.version
          /\ auth'[a].lease = l.lease /\ auth'[a].result # Rejected /\ l.lease = << q, l.version >>
          /\ ~Past(l) /\ l.op = "execute" => n = 0
      BY <1>2, <2>1, <2>2, <2>3 DEF Turned
  <2>6. Turned(q, l, auth'[a], n)
      BY <1>2, <2>4, <2>5 DEF Turned
  <2> QED BY <1>1, <2>6 DEF Turn
<1> QED BY <1>3, <1>4

LEMMA OneHolder ==
    ASSUME TurnInv, NEW p \in Procs, NEW q \in Procs, Holds(proc[p]), Holds(proc[q]),
           ThisAuth(p) = ThisAuth(q)
    PROVE  p = q
<1>1. auth[ThisAuth(p)].lease = << p, proc[p].version >> /\ auth[ThisAuth(q)].lease = << q, proc[q].version >>
    BY DEF TurnInv, Turn, Turned
<1> QED BY <1>1

(* A process that has nothing leased or dispatched.                        *)
LEMMA NoTurn ==
    ASSUME NEW p \in Procs, proc'[p].pc \notin {"admit", "dispatch", "complete"}, ~Holds(proc'[p])
    PROVE  Turn(p)'
BY DEF Turn, Turned

Same(l, m) ==
    /\ m.client = l.client /\ m.key = l.key /\ m.op = l.op /\ m.version = l.version
    /\ m.lease = l.lease /\ m.recovers = l.recovers

LEMMA SameAuth ==
    ASSUME NEW p \in Procs, Same(proc[p], proc'[p])
    PROVE  ThisAuth(p)' = ThisAuth(p) /\ << proc'[p].client, proc'[p].key >> = << proc[p].client, proc[p].key >>
BY DEF Same, ThisAuth

LEMMA TurnQuiet ==
    ASSUME Shapes, Typed', AuthStep, TurnInv, NEW p \in Procs, Others(p), UNCHANGED << auth, promoted >>, Turn(p)'
    PROVE  TurnInv'
<1>1. \A q \in Procs \ {p} : Holds(proc[q]) =>
         /\ auth'[ThisAuth(q)].result # Rejected
         /\ ~Past(proc[q]) /\ proc[q].op = "execute" => promoted'[<< proc[q].client, proc[q].key >>] = 0
    BY DEF TurnInv, Turn, Turned
<1>2. \A q \in Procs \ {p} : Turn(q)'
    BY <1>1, OthersTurn
<1>3. TouchedWasDispatched' /\ RejectedMeansUntouched'
    BY DEF TurnInv, TouchedWasDispatched, RejectedMeansUntouched
<1> QED BY <1>2, <1>3 DEF TurnInv

(* An exception, or a step further in the transaction, or its answer.      *)
LEMMA RaisedTurn ==
    ASSUME Shapes, TurnInv, UNCHANGED auth, NEW p \in Procs, Raises(p)
    PROVE  Turn(p)'
<1> DEFINE l == proc[p]
           m == proc'[p]
           r == auth[ThisAuth(p)]
<1>1. /\ m.pc = "complete" /\ m.final = m.version /\ Same(l, m) /\ ~l.recovers
      /\ l.pc \in {"admit", "dispatch"} \cup DispatchedSteps \cup RestoreSteps
    BY DEF Raises, Resolved, KinAnswer, Same
<1>2. l.pc \in {"admit", "dispatch"} \/ Holds(l)
    BY <1>1 DEF Holds
<1>3. l.version \in Nat /\ r.version \in Nat
    BY <1>2, TurnsWork
<1>4. Turned(p, l, r, promoted[<< l.client, l.key >>])
    BY DEF TurnInv, Turn
<1>5. Fresh(l, r)
  <2>1. CASE l.pc \in {"admit", "dispatch"}
      BY <1>4, <2>1 DEF Turned
  <2>2. CASE Holds(l)
      BY <1>3, <1>4, <2>2 DEF Turned, Fresh
  <2> QED BY <1>2, <2>1, <2>2
<1>6. Fresh(m, r) /\ ~Holds(m)
    BY <1>1, <1>3, <1>5 DEF Fresh, Same, Holds, DispatchedSteps, RestoreSteps
<1>7. Turned(p, m, r, promoted'[<< m.client, m.key >>])
    BY <1>1, <1>6 DEF Turned
<1> QED BY <1>1, <1>7, SameAuth DEF Turn

LEMMA AdvancedTurn ==
    ASSUME Shapes, TurnInv, UNCHANGED << auth, promoted >>, NEW p \in Procs, Same(proc[p], proc'[p]),
           proc[p].pc \in DispatchedSteps \cup RestoreSteps,
           \/ proc'[p].pc \in DispatchedSteps \cup RestoreSteps
           \/ proc'[p].pc = "complete" /\ proc'[p].final = proc'[p].version + 1,
           Past(proc[p]) => Past(proc'[p])
    PROVE  Turn(p)'
<1> DEFINE l == proc[p]
           m == proc'[p]
           r == auth[ThisAuth(p)]
<1>1. m.pc \notin {"admit", "dispatch"}
    BY DEF DispatchedSteps, RestoreSteps
<1>2. CASE l.recovers
  <2>1. l.pc \in RestoreSteps
      BY <1>2 DEF Shapes, Typed, ProcsOK, Shape, DispatchedSteps, RestoreSteps
  <2>2. ~Holds(m)
      BY <1>2 DEF Same, Holds
  <2>3. m.pc # "complete" \/ m.final # m.version
    <3>1. l.version \in Nat
        BY VersionIs DEF Shapes, Typed
    <3> QED BY <3>1 DEF Same, DispatchedSteps, RestoreSteps
  <2> QED BY <1>1, <2>2, <2>3 DEF Turn, Turned
<1>3. CASE ~l.recovers
  <2>1. Holds(l)
      BY <1>3 DEF Holds
  <2>2. l.version \in Nat
      BY <2>1, TurnsWork
  <2>3. m.pc # "complete" \/ m.final # m.version
      BY <2>2 DEF Same, DispatchedSteps, RestoreSteps
  <2>4. Turned(p, l, r, promoted[<< l.client, l.key >>])
      BY DEF TurnInv, Turn
  <2>5. Turned(p, m, r, promoted[<< l.client, l.key >>])
      BY <1>1, <2>1, <2>3, <2>4 DEF Turned, Same
  <2> QED BY <2>5, SameAuth DEF Turn
<1> QED BY <1>2, <1>3

(* A step that replaces the file: its process dispatched the request, and  *)
(* no other did.                                                           *)
LEMMA ReplacedTurn ==
    ASSUME Shapes, Typed', AuthStep, TurnInv, NEW p \in Procs, Replaced(p)
    PROVE  TurnInv'
<1> DEFINE l == proc[p]
           m == proc'[p]
           a == ThisAuth(p)
<1>1. UNCHANGED auth /\ Others(p) /\ l.pc = "replace" /\ Same(l, m)
      /\ m.pc \in {"record_applied", "inspect"}
    BY DEF Replaced, Goes, Restores, Moves, Kin, KinRequest, Same
<1>2. Holds(l) /\ l.op = "execute" /\ l.key \in Keys /\ l.client \in Clients /\ ~l.recovers
    BY <1>1, CarryingKey DEF Holds, DispatchedSteps, Transacting, Shapes, Typed, ProcsOK, Shape
<1>3. Turned(p, l, auth[a], promoted[<< l.client, l.key >>])
    BY DEF TurnInv, Turn
<1>4. Holds(m) /\ Past(m) /\ m.pc \notin {"admit", "dispatch", "complete"}
    BY <1>1, <1>2 DEF Holds, Past, Same, DispatchedSteps, RestoreSteps
<1>5. Turned(p, m, auth[a], promoted'[<< l.client, l.key >>])
    BY <1>1, <1>2, <1>3, <1>4 DEF Turned, Same
<1>6. Turn(p)'
    BY <1>1, <1>5, SameAuth DEF Turn
<1>7. ASSUME NEW q \in Procs \ {p}, Holds(proc[q])
      PROVE  /\ auth'[ThisAuth(q)].result # Rejected
             /\ ~Past(proc[q]) /\ proc[q].op = "execute" => promoted'[<< proc[q].client, proc[q].key >>] = 0
  <2>1. Turned(q, proc[q], auth[ThisAuth(q)], promoted[<< proc[q].client, proc[q].key >>])
      BY DEF TurnInv, Turn
  <2>2. proc[q].client \in Clients /\ proc[q].key \in Keys
      BY <1>7, TurnsWork
  <2>3. proc[q].op = "execute" => << proc[q].client, proc[q].key >> # << l.client, l.key >>
      BY <1>2, <1>7, OneHolder DEF ThisAuth
  <2>4. proc[q].op = "execute" =>
           promoted'[<< proc[q].client, proc[q].key >>] = promoted[<< proc[q].client, proc[q].key >>]
      BY <2>2, <2>3 DEF Replaced
  <2> QED BY <1>1, <1>7, <2>1, <2>4 DEF Turned
<1>8. \A q \in Procs \ {p} : Turn(q)'
    BY <1>1, <1>7, OthersTurn
<1>9. a = << l.client, l.key, "execute" >> /\ auth[a].state \in {"dispatched", "terminal"} /\ auth[a].result # Rejected
    BY <1>2, <1>3 DEF ThisAuth, Turned
<1>10. \A c \in Clients, k \in Keys : << c, k >> # << l.client, l.key >> => promoted'[<< c, k >>] = promoted[<< c, k >>]
    BY DEF Replaced
<1>11. TouchedWasDispatched'
    BY <1>1, <1>9, <1>10 DEF TouchedWasDispatched, TurnInv
<1>12. RejectedMeansUntouched'
    BY <1>1, <1>9, <1>10 DEF RejectedMeansUntouched, TurnInv, Rejected
<1> QED BY <1>6, <1>8, <1>11, <1>12 DEF TurnInv

(* A step that may change records, but no result.                          *)
LEMMA AuthTurn ==
    ASSUME Shapes, Typed', AuthStep, TurnInv, NEW p \in Procs, Others(p), Turn(p)', UNCHANGED promoted,
           \A a \in Auths : auth'[a].result = auth[a].result
    PROVE  TurnInv'
<1>1. ASSUME NEW q \in Procs \ {p}, Holds(proc[q])
      PROVE  /\ auth'[ThisAuth(q)].result # Rejected
             /\ ~Past(proc[q]) /\ proc[q].op = "execute" => promoted'[<< proc[q].client, proc[q].key >>] = 0
  <2>1. ThisAuth(q) \in Auths
      BY <1>1, TurnsWork
  <2> QED BY <1>1, <2>1 DEF TurnInv, Turn, Turned
<1>2. \A q \in Procs \ {p} : Turn(q)'
    BY <1>1, OthersTurn
<1>3. \A c \in Clients, k \in Keys : << c, k, "execute" >> \in Auths
    BY DEF Auths, Ops
<1>4. TouchedWasDispatched'
    BY <1>3 DEF TouchedWasDispatched, TurnInv, AuthStep
<1>5. RejectedMeansUntouched'
    BY <1>3 DEF RejectedMeansUntouched, TurnInv
<1> QED BY <1>2, <1>4, <1>5 DEF TurnInv

(* A rejection is recorded only where the file was not touched.            *)
LEMMA CompletedTurn ==
    ASSUME Shapes, Typed', AuthStep, TurnInv, NEW p \in Procs, Completed(p)
    PROVE  TurnInv'
<1> DEFINE l == proc[p]
           a == ThisAuth(p)
           x == << l.client, l.key >>
<1>1. /\ UNCHANGED promoted /\ Others(p) /\ l.pc = "complete" /\ proc'[p].pc \in {"idle", "down"}
      /\ a \in Auths /\ auth[a].version = l.final /\ auth[a].state \in {"leased", "dispatched"}
      /\ auth'[a].result = l.result /\ auth'[a].state = "terminal" /\ \A b \in Auths \ {a} : auth'[b] = auth[b]
    BY DEF Completed, Rests, Moves, AuthMoves
<1>2. Turn(p)'
    BY <1>1, NoTurn DEF Holds, DispatchedSteps, RestoreSteps
<1>3. /\ l.client \in Clients /\ l.key \in Keys /\ l.version \in Nat /\ l.final \in {l.version, l.version + 1}
      /\ ~l.recovers
    BY <1>1, TurnsWork DEF Shapes, Typed, ProcsOK, Shape, RestoreSteps
<1>4. Turned(p, l, auth[a], promoted[x])
    BY DEF TurnInv, Turn
<1>5. l.result = Rejected /\ auth[a].state = "dispatched" => Holds(l)
    BY <1>1, <1>3, <1>4 DEF Turned, Fresh, Holds
<1>6. l.result = Rejected /\ l.op = "execute" => promoted[x] = 0
  <2>1. CASE auth[a].state = "dispatched"
    <3>1. l.result = Rejected => ~Past(l)
        BY <1>1 DEF Past, RestoreSteps
    <3> QED BY <1>4, <1>5, <2>1, <3>1 DEF Turned
  <2>2. CASE auth[a].state = "leased"
      BY <1>3, <2>2 DEF TurnInv, TouchedWasDispatched, ThisAuth
  <2> QED BY <1>1, <2>1, <2>2
<1>7. ASSUME NEW q \in Procs \ {p}, Holds(proc[q])
      PROVE  /\ auth'[ThisAuth(q)].result # Rejected
             /\ ~Past(proc[q]) /\ proc[q].op = "execute" => promoted'[<< proc[q].client, proc[q].key >>] = 0
  <2>1. Turned(q, proc[q], auth[ThisAuth(q)], promoted[<< proc[q].client, proc[q].key >>])
      BY DEF TurnInv, Turn
  <2>2. ThisAuth(q) \in Auths
      BY <1>7, TurnsWork
  <2>3. CASE ThisAuth(q) # a
      BY <1>1, <1>7, <2>1, <2>2, <2>3 DEF Turned
  <2>4. CASE ThisAuth(q) = a
    <3>1. auth[a].state = "dispatched"
        BY <1>1, <1>7, <2>1, <2>4 DEF Turned
    <3>2. l.result # Rejected
        BY <1>5, <1>7, <2>4, <3>1, OneHolder
    <3> QED BY <1>1, <1>7, <2>1, <2>4, <3>2 DEF Turned
  <2> QED BY <2>3, <2>4
<1>8. \A q \in Procs \ {p} : Turn(q)'
    BY <1>1, <1>7, OthersTurn
<1>9. \A c \in Clients, k \in Keys : << c, k, "execute" >> \in Auths
    BY DEF Auths, Ops
<1>10. TouchedWasDispatched'
    BY <1>1, <1>9 DEF TouchedWasDispatched, TurnInv, AuthStep
<1>11. RejectedMeansUntouched'
  <2> SUFFICES ASSUME NEW c \in Clients, NEW k \in Keys,
                      auth'[<< c, k, "execute" >>].result = Rejected
               PROVE  promoted[<< c, k >>] = 0
      BY <1>1 DEF RejectedMeansUntouched, Rejected
  <2>1. CASE << c, k, "execute" >> # a
      BY <1>1, <1>9, <2>1 DEF RejectedMeansUntouched, TurnInv, Rejected
  <2>2. CASE << c, k, "execute" >> = a
    <3>1. c = l.client /\ k = l.key /\ l.op = "execute"
        BY <2>2 DEF ThisAuth
    <3> QED BY <1>1, <1>6, <2>2, <3>1
  <2> QED BY <2>1, <2>2
<1> QED BY <1>2, <1>8, <1>10, <1>11 DEF TurnInv

LEMMA TurnNext ==
    ASSUME Shapes, TurnInv, [Next]_vars
    PROVE  TurnInv'
<1>0. ProcsOK /\ AuthOK /\ Typed' /\ AuthStep
    BY TypedNext, AuthSteps DEF Shapes, Typed
<1>1. CASE Aside
    BY <1>1 DEF Aside, TurnInv, Turn, Turned, ThisAuth, TouchedWasDispatched, RejectedMeansUntouched
<1>2. SUFFICES ASSUME NEW p \in Procs, Effect(p) PROVE TurnInv'
    BY <1>1, NextTells
<1>3. ASSUME Others(p), UNCHANGED << auth, promoted >>, Turn(p)' PROVE TurnInv'
    BY <1>0, <1>3, TurnQuiet
<1>4. CASE Rested(p) \/ Restarted(p) \/ Resumed(p)
  <2>1. /\ Others(p) /\ UNCHANGED << auth, promoted >>
        /\ proc'[p].pc \in {"idle", "down", "recover"} \/ (proc'[p].pc = "inspect" /\ proc'[p].recovers)
      BY <1>4 DEF Rested, Restarted, Resumed, Rests, Moves, Quiet
  <2>2. proc'[p].pc \notin {"admit", "dispatch", "complete"} /\ ~Holds(proc'[p])
      BY <2>1 DEF Holds, DispatchedSteps, RestoreSteps
  <2> QED BY <1>3, <2>1, <2>2, NoTurn
<1>5. CASE Failed(p)
    BY <1>3, <1>5, RaisedTurn DEF Failed, Quiet, Raises, Moves
<1>6. CASE Walked(p)
  <2>1. Others(p) /\ UNCHANGED << auth, promoted >> /\ Same(proc[p], proc'[p])
      BY <1>6 DEF Walked, Quiet, Goes, Moves, Kin, Same
  <2>2. CASE proc[p].pc = "admit" /\ proc'[p].pc = "dispatch"
    <3>1. Turned(p, proc[p], auth[ThisAuth(p)], promoted[<< proc[p].client, proc[p].key >>])
        BY DEF TurnInv, Turn
    <3>2. ~Holds(proc'[p])
        BY <2>2 DEF Holds, DispatchedSteps, RestoreSteps
    <3>3. Turned(p, proc'[p], auth[ThisAuth(p)], promoted[<< proc[p].client, proc[p].key >>])
        BY <2>1, <2>2, <3>1, <3>2 DEF Turned, Same, Fresh
    <3> QED BY <1>3, <2>1, <3>3, SameAuth DEF Turn
  <2>3. CASE proc[p].pc # "admit"
    <3>1. /\ proc[p].pc \in DispatchedSteps \cup RestoreSteps /\ proc'[p].pc \in DispatchedSteps \cup RestoreSteps
          /\ Past(proc[p]) => Past(proc'[p])
        BY <1>6, <2>3 DEF Walked, Walks, DispatchedSteps, RestoreSteps, Past
    <3> QED BY <1>3, <2>1, <3>1, AdvancedTurn
  <2> QED BY <1>6, <2>2, <2>3 DEF Walked, Walks
<1>7. CASE Abandoned(p) \/ Prepared(p) \/ Recorded(p) \/ Consumed(p) \/ Issued(p) \/ BackedUp(p)
  <2>1. Others(p) /\ UNCHANGED << auth, promoted >> /\ Same(proc[p], proc'[p])
      BY <1>7 DEF Abandoned, Prepared, Recorded, Consumed, Issued, BackedUp, Quiet, QuietButPermit, Restores,
         Prepares, Goes, Moves, Kin, KinRequest, Same
  <2>2. /\ proc[p].pc \in DispatchedSteps /\ proc'[p].pc \in DispatchedSteps \cup RestoreSteps
        /\ Past(proc[p]) => Past(proc'[p])
    <3>1. CASE Abandoned(p) \/ Prepared(p)
        BY <3>1 DEF Abandoned, Abandons, Prepared, Restores, Prepares, DispatchedSteps, RestoreSteps, Past
    <3>2. CASE Recorded(p)
        BY <3>2 DEF Recorded, Recordings, DispatchedSteps, RestoreSteps, Past
    <3>3. CASE Consumed(p) \/ Issued(p) \/ BackedUp(p)
        BY <3>3 DEF Consumed, Issued, BackedUp, Goes, DispatchedSteps, RestoreSteps, Past
    <3> QED BY <1>7, <3>1, <3>2, <3>3
  <2> QED BY <1>3, <2>1, <2>2, AdvancedTurn
<1>8. CASE Restored(p)
  <2>1. /\ Others(p) /\ UNCHANGED << auth, promoted >> /\ Same(proc[p], proc'[p])
        /\ proc[p].pc \in RestoreSteps /\ proc'[p].pc \in RestoreSteps
      BY <1>8 DEF Restored, Goes, Moves, Kin, Same, RestoreSteps
  <2> QED BY <1>3, <2>1, AdvancedTurn DEF Past
<1>9. ASSUME NEW o, NEW r, Answers(p, o, r), UNCHANGED << auth, promoted >>,
             proc[p].pc \in DispatchedSteps \cup RestoreSteps, Past(proc[p]) => r # Rejected
      PROVE  TurnInv'
  <2>1. /\ Others(p) /\ Same(proc[p], proc'[p]) /\ proc'[p].pc = "complete" /\ proc'[p].result = r
        /\ proc'[p].final = proc'[p].version + 1
      BY <1>9 DEF Answers, Moves, Resolved, KinAnswer, Same
  <2> QED BY <1>3, <1>9, <2>1, AdvancedTurn DEF Past
<1>10. CASE Answered(p)
  <2>1. PICK o \in TerminalOutcomes, r \in Results : Answers(p, o, r)
      BY <1>10 DEF Answered
  <2>2. /\ UNCHANGED << auth, promoted >> /\ proc[p].pc \in DispatchedSteps /\ ~Past(proc[p])
      BY <1>10 DEF Answered, Quiet, DispatchedSteps, Past, RestoreSteps
  <2> QED BY <1>9, <2>1, <2>2
<1>11. CASE Committed(p)
  <2>1. Result("promoted", NoContent) # Rejected
      BY ResultIs
  <2> QED BY <1>9, <1>11, <2>1 DEF Committed, QuietButPermit, DispatchedSteps
<1>12. CASE Settled(p)
  <2>1. Result("failed", NoContent) # Rejected
      BY ResultIs
  <2>2. proc[p].pc \in RestoreSteps /\ UNCHANGED << auth, promoted >>
      BY <1>12 DEF Settled, QuietButPermit, RestoreSteps
  <2>3. CASE Goes(p, "recover")
    <3>1. Others(p) /\ proc'[p].pc \notin {"admit", "dispatch", "complete"} /\ ~Holds(proc'[p])
        BY <2>3 DEF Goes, Moves, Holds, DispatchedSteps, RestoreSteps
    <3> QED BY <1>3, <2>2, <3>1, NoTurn
  <2> QED BY <1>9, <1>12, <2>1, <2>2, <2>3 DEF Settled
<1>13. CASE Replaced(p)
    BY <1>0, <1>13, ReplacedTurn
<1>14. CASE Completed(p)
    BY <1>0, <1>14, CompletedTurn
<1>15. CASE Reconciled(p)
  <2>1. Result("unknown", NoContent) # Rejected /\ \A r : StoredResult(r) # Rejected
      BY ResultIs, StoredResultIs
  <2>2. /\ Others(p) /\ UNCHANGED << auth, promoted >> /\ proc'[p].pc = "complete"
        /\ proc'[p].final = proc[p].version /\ proc'[p].version = proc[p].version /\ proc'[p].result # Rejected
      BY <1>15, <2>1 DEF Reconciled, Quiet, Moves, Resolved, KinAnswer
  <2>3. proc[p].version \in Nat
      BY <1>0, VersionIs
  <2>4. Turn(p)'
      BY <2>2, <2>3 DEF Turn, Turned, Holds, DispatchedSteps, RestoreSteps
  <2> QED BY <1>3, <2>2, <2>4
<1>16. CASE Took(p)
  <2> DEFINE l == proc[p]
             m == proc'[p]
             a == ThisAuth(p)
  <2>1. /\ UNCHANGED promoted /\ Others(p) /\ m.pc \in {"admit", "dispatch"} /\ m.version = l.version + 1
        /\ m.lease = << p, l.version + 1 >> /\ ThisAuth(p)' = a
        /\ AuthMoves(a, "leased", l.version + 1, << p, l.version + 1 >>, auth[a].outcome, auth[a].result)
      BY <1>16 DEF Took, Leased, Moves, ThisAuth
  <2>2. l.version \in Nat
      BY <1>0, VersionIs
  <2>3. Fresh(m, auth'[a]) /\ ~Holds(m)
      BY <2>1, <2>2 DEF AuthMoves, Fresh, Holds, DispatchedSteps, RestoreSteps
  <2>4. Turned(p, m, auth'[a], promoted'[<< m.client, m.key >>])
      BY <2>1, <2>3 DEF Turned
  <2>5. Turn(p)'
      BY <2>1, <2>4 DEF Turn
  <2>6. \A b \in Auths : auth'[b].result = auth[b].result
      BY <2>1 DEF AuthMoves
  <2> QED BY <1>0, <2>1, <2>5, <2>6, AuthTurn
<1>17. CASE Sent(p)
  <2> DEFINE l == proc[p]
             m == proc'[p]
             a == ThisAuth(p)
  <2>1. /\ UNCHANGED promoted /\ Others(p) /\ m.pc \in {"replay", "preflight"} /\ Same(l, m) /\ l.pc = "dispatch"
        /\ auth[a].version = l.version /\ auth[a].state = "leased" /\ auth[a].lease = l.lease
        /\ AuthMoves(a, "dispatched", l.version + 1, auth[a].lease, auth[a].outcome, auth[a].result)
      BY <1>17 DEF Sent, Dispatched, Goes, Kin, Moves, Same
  <2>2. l.version \in Nat /\ a \in Auths /\ l.client \in Clients /\ l.key \in Keys
      BY <2>1, TurnsWork
  <2>3. l.lease = << p, l.version >>
      BY <2>1 DEF TurnInv, Turn, Turned
  <2>4. auth[a].result # Rejected
      BY <1>0, <2>1, <2>2, RecordIs, ResultIs, MarkerAssumption DEF RecordShape
  <2>5. l.op = "execute" => promoted[<< l.client, l.key >>] = 0
      BY <2>1, <2>2 DEF TurnInv, TouchedWasDispatched, ThisAuth
  <2>6. Turned(p, m, auth'[a], promoted[<< l.client, l.key >>])
      BY <2>1, <2>2, <2>3, <2>4, <2>5 DEF Turned, Same, AuthMoves
  <2>7. Turn(p)'
      BY <2>1, <2>6, SameAuth DEF Turn
  <2>8. \A b \in Auths : auth'[b].result = auth[b].result
      BY <2>1 DEF AuthMoves
  <2> QED BY <1>0, <2>1, <2>7, <2>8, AuthTurn
<1>18. CASE Arrived(p)
  <2>1. PICK c \in Clients, k \in Keys, op \in Ops :
           LET a == << c, k, op >>
           IN  /\ UNCHANGED << permit, backup, target, promoted >> /\ proc[p].pc = "idle"
               /\ a \in Auths /\ Gets(a)
               /\ \/ /\ auth[a].state = "terminal" /\ UNCHANGED << auth, proc >>
                     /\ RepliesWith(a, auth[a].outcome, auth[a].result)
                  \/ Received(p, c, k, op)
      BY <1>18 DEF Arrived
  <2> DEFINE a == << c, k, op >>
  <2>2. CASE UNCHANGED << auth, proc >>
      BY <2>1, <2>2 DEF TurnInv, Turn, Turned, ThisAuth, TouchedWasDispatched, RejectedMeansUntouched
  <2>3. CASE Received(p, c, k, op)
    <3>1. \A b \in Auths : auth'[b].result = auth[b].result
      <4>1. auth[a].state # "terminal" => auth[a].result = NoResult
          BY <1>0, <2>1, RecordIs DEF RecordShape
      <4> QED BY <2>1, <4>1 DEF Gets, AuthMoves
    <3>2. Result("unknown", NoContent) # Rejected
        BY ResultIs
    <3>3. /\ Others(p) /\ proc'[p].pc \in {"lease", "reconcile", "complete"}
          /\ proc'[p].pc = "complete" => proc'[p].final = proc'[p].version /\ proc'[p].result # Rejected
        BY <2>3, <3>2 DEF Received, Moves
    <3>4. proc'[p].version \in Nat
        BY <1>0 DEF Typed, ProcsOK, Locals
    <3>5. Turn(p)'
        BY <3>3, <3>4 DEF Turn, Turned, Holds, DispatchedSteps, RestoreSteps
    <3> QED BY <1>0, <2>1, <3>1, <3>3, <3>5, AuthTurn
  <2> QED BY <2>1, <2>2, <2>3
<1> QED BY <1>2, <1>4, <1>5, <1>6, <1>7, <1>8, <1>10, <1>11, <1>12, <1>13, <1>14, <1>15, <1>16, <1>17,
           <1>18 DEF Effect

----------------------------------------------------------------------------
(* The invariant, and what follows from it.                                *)

LEMMA ServiceInit ==
    ASSUME Init
    PROVE  ServiceInv
<1>1. proc = [p \in Procs |-> Down] /\ auth = [a \in Auths |-> AbsentRecord] /\ permit = [k \in Keys |-> NoPermit]
    BY DEF Init
<1>2. \A p \in Procs : proc[p] = Down /\ proc[p].pc = "down" /\ ~proc[p].recovers
    BY <1>1, RestingIs
<1>3. ProcsOK
    BY <1>1, <1>2, RestingIs, IdleShape DEF ProcsOK
<1>4. AbsentRecord.state = "absent" /\ AbsentRecord.version = 0 /\ AbsentRecord.result = NoResult /\ AbsentRecord.outcome = "none"
    BY DEF AbsentRecord
<1>5. AuthOK
    BY <1>1, <1>4, AbsentIs DEF AuthOK, RecordShape
<1>6. NoPermit \in Permits /\ NoPermit.state = "none"
    BY DEF NoPermit, Permits, PermitStates
<1>7. PermitsOK
    BY <1>1, <1>6 DEF PermitsOK
<1>8. FilesOK /\ ObservedOK
    BY DEF Init, FilesOK, ObservedOK, Contents
<1>9. GroundsOK
    BY <1>2 DEF GroundsOK, Grounded, WithPermit, Transacting, RestoreSteps
<1>10. \A c \in Clients, k \in Keys : promoted[<< c, k >>] = 0
    BY DEF Init
<1>11. \A p \in Procs : Turn(p)
    BY <1>2 DEF Turn, Turned, Holds, DispatchedSteps, RestoreSteps
<1>12. TurnInv
    BY <1>10, <1>11 DEF TurnInv, TouchedWasDispatched, RejectedMeansUntouched
<1>13. CarrierInv
    BY <1>2, <1>10 DEF CarrierInv, Carrying
<1>14. AnswerInv
  <2>1. \A c \in Clients, k \in Keys : auth[<< c, k, "execute" >>].outcome = "none"
      BY <1>1, <1>4 DEF Auths, Ops
  <2> QED BY <1>2, <2>1 DEF AnswerInv, AnswerOK, OutcomeMatchesPermit
<1>15. RepliesInv
    BY DEF Init, RepliesInv
<1>16. FileInv
    BY <1>2 DEF Init, FileInv, AllStarted, Secured, Transacting
<1> QED BY <1>3, <1>5, <1>7, <1>8, <1>9, <1>12, <1>13, <1>14, <1>15, <1>16 DEF ServiceInv, Shapes, Typed

LEMMA ServiceNext ==
    ASSUME ServiceInv, [Next]_vars
    PROVE  ServiceInv'
BY ShapesNext, TurnNext, CarrierNext, AnswerNext, RepliesNext, FileNext DEF ServiceInv

(* The invariant holds in every behaviour of the service.                  *)
LEMMA ServiceAlways == Spec => []ServiceInv
BY ServiceInit, ServiceNext, PTL DEF Spec

(* The patch of a key replaces the target at most once, whatever number of *)
(* clients, retries, processes and crashes (_promote_verified_patch,       *)
(* consume).                                                               *)
THEOREM PatchPromotedAtMostOnce == Spec => []AtMostOncePromotion
<1>1. ServiceInv => AtMostOncePromotion
    BY DEF ServiceInv, CarrierInv, AtMostOncePromotion
<1> QED BY <1>1, ServiceAlways, PTL

(* A request that is answered as rejected never touched the file: the      *)
(* exception handler of handle_request names the leased record, which      *)
(* complete_terminal refuses once the request is dispatched.               *)
THEOREM PatchRejectedMeansUntouched == Spec => []RejectedMeansUntouched
<1>1. ServiceInv => RejectedMeansUntouched
    BY DEF ServiceInv, TurnInv
<1> QED BY <1>1, ServiceAlways, PTL

(* An execute recorded as succeeded has a committed permit, one that       *)
(* failed by its permit has a permit that can no longer commit.            *)
THEOREM PatchOutcomeMatchesPermit == Spec => []OutcomeMatchesPermit
<1>1. ServiceInv => OutcomeMatchesPermit
    BY DEF ServiceInv, AnswerInv
<1> QED BY <1>1, ServiceAlways, PTL

(* Every terminal answer sent for an authority is the same, across         *)
(* retries, processes and restarts (handle_request).                       *)
THEOREM PatchRepliesAgree == Spec => []RepliesAgree
<1>1. ServiceInv => RepliesAgree
    BY DEF ServiceInv, RepliesInv, RepliesAgree
<1> QED BY <1>1, ServiceAlways, PTL

(* Nothing is in the file that recover_incomplete_actions could not        *)
(* restore: its backup is written and its permit says that it started.     *)
THEOREM PatchAlwaysRecoverable == Spec => []PatchIsRecoverable
<1>1. ServiceInv => PatchIsRecoverable
    BY DEF ServiceInv, FileInv, AllStarted, Started, LateStates, PatchIsRecoverable
<1> QED BY <1>1, ServiceAlways, PTL

(* A fenced repository stays fenced and gets no new permit.                *)
LEMMA FenceHolds ==
    ASSUME Shapes, [Next]_vars, fenced
    PROVE  fenced' /\ \A k \in Keys : permit[k].state = "none" => permit'[k] = permit[k]
<1>1. fenced'
  <2>2. CASE EditTarget \/ CommitTarget \/ UNCHANGED vars
      BY <2>2 DEF EditTarget, CommitTarget, vars
  <2>3. ASSUME NEW p \in Procs, Step(p) PROVE fenced'
    <3>1. CASE \E c \in Clients, k \in Keys : ReceivePreflight(p, c, k) \/ \E g \in Gates : ReceiveExecute(p, c, k, g)
      <4>1. ASSUME NEW c, NEW k, NEW op, NEW g, NEW b, Receive(p, c, k, op, g, b)
            PROVE  fenced' = fenced
          BY <4>1 DEF Receive
      <4>2. ASSUME NEW c, NEW k, ReceivePreflight(p, c, k) PROVE fenced' = fenced
          BY <4>1, <4>2 DEF ReceivePreflight
      <4>3. ASSUME NEW c, NEW k, NEW g, ReceiveExecute(p, c, k, g) PROVE fenced' = fenced
        <5>1. Receive(p, c, k, "execute", g, auth[<<c, k, "preflight">>].result.base)
            BY <4>3 DEF ReceiveExecute
        <5> QED BY <4>1, <5>1
      <4> QED BY <3>1, <4>2, <4>3
    <3>2. CASE \E now \in Times : Lease(p, now) \/ Dispatch(p, now)
        BY <3>2 DEF Lease, Dispatch
    <3>3. CASE Reconcile(p) \/ Admit(p) \/ Preflight(p) \/ Replay(p) \/ Prepare(p)
        BY <3>3 DEF Reconcile, Admit, Preflight, Replay, Prepare, stores
    <3>4. CASE Issue(p) \/ Backup(p) \/ ConsumePermit(p) \/ PromoteCheck(p) \/ PromoteReplace(p) \/ Commit(p)
        BY <3>4 DEF Issue, Backup, ConsumePermit, PromoteCheck, PromoteReplace, Commit, stores
    <3>5. CASE RecordPrepared(p) \/ RecordApplying(p) \/ RecordApplied(p) \/ Verify(p)
        BY <3>5 DEF RecordPrepared, RecordApplying, RecordApplied, Verify, Record, stores
    <3>6. CASE Inspect(p) \/ Restore(p) \/ RecordAborted(p) \/ Fence(p) \/ StaleRestoration(p)
        BY <3>6 DEF Inspect, Restore, RecordAborted, Fence, StaleRestoration, Settle, stores
    <3>7. CASE Complete(p) \/ CompletionFails(p) \/ Raise(p)
        BY <3>7 DEF Complete, CompletionFails, Raise, stores
    <3>8. CASE Start(p) \/ RecoverNext(p) \/ Listen(p) \/ ListenRefused(p) \/ Crash(p)
        BY <3>8 DEF Start, RecoverNext, Listen, ListenRefused, Crash, stores
    <3> QED BY <2>3, <3>1, <3>2, <3>3, <3>4, <3>5, <3>6, <3>7, <3>8 DEF Step
  <2> QED BY <2>2, <2>3 DEF Next
<1>2. CASE UNCHANGED permit
    BY <1>1, <1>2
<1>3. ASSUME NEW k, NEW expected, NEW new, expected # "none", PermitMoves(k, expected, new)
      PROVE  \A j \in Keys : permit[j].state = "none" => permit'[j] = permit[j]
    BY <1>3 DEF PermitMoves
<1>4. SUFFICES ASSUME NEW p \in Procs, Effect(p)
               PROVE  \A k \in Keys : permit[k].state = "none" => permit'[k] = permit[k]
    BY <1>1, <1>2, NextTells DEF Aside
<1>5. CASE Recorded(p)
  <2>1. permit[proc[p].key].state # "none"
      BY <1>5 DEF Recorded, Recordings
  <2> QED BY <1>3, <1>5, <2>1 DEF Recorded
<1>6. CASE Consumed(p) \/ Committed(p)
    BY <1>3, <1>6 DEF Consumed, Committed
<1>7. CASE Issued(p)
    BY <1>7 DEF Issued
<1>8. CASE Settled(p)
  <2>1. proc[p].from # "none"
      BY <1>8 DEF Settled, Shapes, Typed, ProcsOK, Shape, RestoreSteps, MutationStates
  <2> QED BY <1>3, <1>8, <2>1 DEF Settled
<1>9. CASE \/ Rested(p) \/ Failed(p) \/ Walked(p) \/ Abandoned(p) \/ Answered(p) \/ Prepared(p)
           \/ BackedUp(p) \/ Replaced(p) \/ Restored(p) \/ Completed(p) \/ Took(p) \/ Sent(p) \/ Arrived(p)
           \/ Reconciled(p) \/ Restarted(p) \/ Resumed(p)
    BY <1>9 DEF Rested, Failed, Walked, Abandoned, Answered, Prepared, BackedUp, Replaced, Restored,
       Completed, Took, Sent, Arrived, Reconciled, Restarted, Resumed, Quiet
<1> QED BY <1>4, <1>5, <1>6, <1>7, <1>8, <1>9 DEF Effect

(* A terminal permit never changes, and a fenced repository stays fenced   *)
(* and gets no new permit (record_transition, issue).                      *)
THEOREM PatchLedgerSettles == Spec => LedgerSettles
<1> DEFINE A == /\ \A k \in Keys : permit[k].state \in TerminalStates => permit'[k] = permit[k]
                /\ fenced => fenced' /\ \A k \in Keys : permit[k].state = "none" => permit'[k] = permit[k]
<1>1. ServiceInv /\ [Next]_vars => [A]_vars
  <2>1. ASSUME ServiceInv, [Next]_vars PROVE A
    <3>1. Shapes
        BY <2>1 DEF ServiceInv
    <3> QED BY <2>1, <3>1, PermitSteps, FenceHolds DEF PermitStep
  <2> QED BY <2>1
<1> QED BY <1>1, ServiceAlways, PTL DEF Spec, LedgerSettles

----------------------------------------------------------------------------
(* One process alone, restarted as often as it crashes: the ledger and the *)
(* file agree, and recovery is complete.  With two processes a starting    *)
(* one aborts the transactions of the one that serves.                     *)

OneProcess == \A p, q \in Procs : p = q

(* A permit binds the content its patch was computed from.                 *)
BoundsPatch(k) ==
    permit[k].state # "none" =>
        /\ permit[k].pre \in Contents /\ k \notin permit[k].pre
        /\ permit[k].post = permit[k].pre \cup {k}

(* What the file holds where a process is about to replace it, to commit   *)
(* or to settle a restoration.                                             *)
OnFile(l) ==
    /\ l.pc \in {"promote", "replace"} => permit[l.key].state = "applying"
    /\ l.pc = "replace" => l.prep \subseteq target /\ target \subseteq l.prep \cup {Edit}
    /\ l.pc = "commit" => l.key \in target
    /\ l.pc = "restore" =>
          /\ permit[l.key].state = l.from /\ backup[l.key] = permit[l.key].pre
          /\ permit[l.key].pre \subseteq target
          /\ target \subseteq permit[l.key].pre \cup {l.key, Edit}
    /\ l.pc = "record_aborted" => l.key \notin target

(* What start() has still to settle: the transaction at hand, and the list *)
(* it read, which nobody else changes.                                     *)
Recovering(l) ==
    l.recovers =>
        /\ \A t \in l.todo : permit[t[1]].state = t[2]
        /\ \A k \in Keys : permit[k].state \in MutationStates =>
              << k, permit[k].state >> \in l.todo \/ (l.pc \in RestoreSteps /\ l.key = k)
        /\ l.pc \in RestoreSteps =>
              permit[l.key].state = l.from /\ << l.key, l.from >> \notin l.todo

SoleInv ==
    /\ \A k \in Keys : BoundsPatch(k)
    /\ \A p \in Procs : OnFile(proc[p]) /\ Recovering(proc[p])
    /\ LedgerMatchesTarget

LEMMA SoleStays ==
    ASSUME OneProcess, NEW p \in Procs, OnFile(proc[p])', Recovering(proc[p])',
           \A k \in Keys : BoundsPatch(k)', LedgerMatchesTarget'
    PROVE  SoleInv'
BY DEF OneProcess, SoleInv

(* A permit that moves on binds the same contents.                         *)
LEMMA BoundsStay ==
    ASSUME \A k \in Keys : BoundsPatch(k), NEW j \in Keys, NEW expected, NEW new, expected # "none",
           PermitMoves(j, expected, new)
    PROVE  \A k \in Keys : BoundsPatch(k)'
BY DEF BoundsPatch, PermitMoves

(* A process that is not at one of the steps above, nor starting.          *)
LEMMA AsideOfFile ==
    ASSUME NEW p \in Procs, ~proc'[p].recovers,
           proc'[p].pc \notin {"promote", "replace", "commit", "restore", "record_aborted"}
    PROVE  OnFile(proc[p])' /\ Recovering(proc[p])'
BY DEF OnFile, Recovering

LEMMA Serving ==
    ASSUME Shapes, NEW p \in Procs, proc[p].pc \notin {"recover"} \cup RestoreSteps
    PROVE  ~proc[p].recovers
BY DEF Shapes, Typed, ProcsOK, Shape
LEMMA SoleNext ==
    ASSUME OneProcess, Shapes, Shapes', SoleInv, [Next]_vars
    PROVE  SoleInv'
<1>0. ProcsOK /\ PermitsOK /\ FilesOK /\ ProcsOK' /\ PermitsOK' /\ FilesOK'
    BY DEF Shapes, Typed
<1>1. Edit \notin Keys
    BY ServiceAssumption
<1>2. /\ \A k \in Keys : BoundsPatch(k)
      /\ \A p \in Procs : OnFile(proc[p]) /\ Recovering(proc[p])
      /\ LedgerMatchesTarget
    BY DEF SoleInv
<1>3. CASE Aside
  <2>1. UNCHANGED << permit, backup, proc >> /\ (UNCHANGED target \/ target' = target \cup {Edit})
      BY <1>3 DEF Aside
  <2>2. \A k \in Keys : BoundsPatch(k)'
      BY <1>2, <2>1 DEF BoundsPatch
  <2>3. \A p \in Procs : Recovering(proc[p])'
      BY <1>2, <2>1 DEF Recovering
  <2>4. ASSUME NEW p \in Procs PROVE OnFile(proc[p])'
    <3>1. proc[p].pc \in {"record_aborted", "commit"} => proc[p].key \in Keys
        BY <1>0, Serving DEF ProcsOK, Shape, RestoreSteps, Working, HandlerSteps
    <3> QED BY <1>1, <1>2, <2>1, <3>1 DEF OnFile
  <2>5. LedgerMatchesTarget'
      BY <1>1, <1>2, <2>1 DEF LedgerMatchesTarget
  <2> QED BY <2>2, <2>3, <2>4, <2>5 DEF SoleInv
<1>4. SUFFICES ASSUME NEW p \in Procs, Effect(p) PROVE SoleInv'
    BY <1>3, NextTells
<1>5. OnFile(proc[p]) /\ Recovering(proc[p]) /\ Shape(proc[p]) /\ proc[p] \in Locals
    BY <1>0, <1>2 DEF ProcsOK
<1>6. ASSUME UNCHANGED << permit, target >>, OnFile(proc[p])', Recovering(proc[p])'
      PROVE  SoleInv'
    BY <1>2, <1>6, SoleStays DEF BoundsPatch, LedgerMatchesTarget
<1>7. CASE Rested(p) \/ Failed(p) \/ Abandoned(p) \/ Answered(p) \/ Prepared(p) \/ Reconciled(p)
  <2>1. UNCHANGED << permit, target >>
      BY <1>7 DEF Rested, Failed, Abandoned, Answered, Prepared, Reconciled, Quiet
  <2>2. ~proc'[p].recovers /\ proc'[p].pc \in {"idle", "down", "complete", "inspect", "issue"}
    <3>1. CASE Rested(p)
        BY <3>1 DEF Rested, Rests
    <3>2. CASE Failed(p)
        BY <3>2 DEF Failed, Raises, Resolved, KinAnswer
    <3>3. CASE Abandoned(p)
      <4>1. proc[p].pc \in {"consume", "promote", "verify"}
          BY <3>3 DEF Abandoned, Abandons
      <4> QED BY <3>3, <4>1, Serving DEF Abandoned, Restores, KinRequest, RestoreSteps
    <3>4. CASE Answered(p)
      <4>1. proc[p].pc \in {"preflight", "prepare", "replay"}
          BY <3>4 DEF Answered
      <4> QED BY <3>4, <4>1, Serving DEF Answered, Answers, Resolved, KinAnswer, RestoreSteps
    <3>5. CASE Prepared(p)
        BY <3>5, Serving DEF Prepared, Prepares, RestoreSteps
    <3>6. CASE Reconciled(p)
        BY <3>6, Serving DEF Reconciled, Resolved, KinAnswer, RestoreSteps
    <3> QED BY <1>7, <3>1, <3>2, <3>3, <3>4, <3>5, <3>6
  <2> QED BY <1>6, <2>1, <2>2, AsideOfFile
<1>8. CASE Completed(p) \/ Took(p) \/ Sent(p)
  <2>1. UNCHANGED << permit, target >>
      BY <1>8 DEF Completed, Took, Sent
  <2>2. ~proc'[p].recovers /\ proc'[p].pc \in {"idle", "down", "admit", "dispatch", "replay", "preflight"}
      BY <1>8, Serving DEF Completed, Took, Sent, Rests, Leased, Dispatched, Goes, Kin, RestoreSteps
  <2> QED BY <1>6, <2>1, <2>2, AsideOfFile
<1>9. CASE Arrived(p)
  <2>1. UNCHANGED << permit, target, backup >>
      BY <1>9 DEF Arrived
  <2>2. PICK c \in Clients, k \in Keys, op \in Ops : UNCHANGED proc \/ Received(p, c, k, op)
      BY <1>9 DEF Arrived
  <2>3. CASE UNCHANGED proc
    <3>1. OnFile(proc[p])' /\ Recovering(proc[p])'
        BY <1>5, <2>1, <2>3 DEF OnFile, Recovering
    <3> QED BY <1>6, <2>1, <3>1
  <2>4. CASE Received(p, c, k, op)
    <3>1. ~proc'[p].recovers /\ proc'[p].pc \in {"lease", "reconcile", "complete"}
        BY <2>4 DEF Received
    <3> QED BY <1>6, <2>1, <3>1, AsideOfFile
  <2> QED BY <2>2, <2>3, <2>4
<1>10. CASE Walked(p)
  <2> DEFINE l == proc[p]
             m == proc'[p]
             k == l.key
  <2>1. /\ UNCHANGED << permit, target, backup >> /\ << l.pc, m.pc >> \in Walks /\ Kin(l, m)
        /\ m.pc = "replace" => target = l.prep
        /\ m.pc = "restore" => /\ l.recovers \/ permit[k].state = l.from
                               /\ backup[k] = permit[k].pre
                               /\ target \in {permit[k].pre, permit[k].post}
      BY <1>10 DEF Walked, Quiet, Goes
  <2>2. CASE l.pc = "inspect" /\ m.pc \in {"restore", "fence"}
    <3>1. k \in Keys /\ l.from \in MutationStates
        BY <1>5, <2>2 DEF Shape, RestoreSteps
    <3>2. m.pc = "restore" => permit[k].state = l.from
        BY <1>5, <2>1, <2>2 DEF Recovering, RestoreSteps
    <3>3. m.pc = "restore" => permit[k].pre \subseteq target /\ target \subseteq permit[k].pre \cup {k, Edit}
      <4>1. m.pc = "restore" => permit[k].state # "none"
          BY <3>1, <3>2 DEF MutationStates
      <4> QED BY <1>2, <2>1, <3>1, <4>1 DEF BoundsPatch
    <3>4. OnFile(proc[p])'
        BY <2>1, <2>2, <3>2, <3>3 DEF OnFile, Kin
    <3>5. Recovering(proc[p])'
        BY <1>5, <2>1, <2>2 DEF Recovering, Kin, RestoreSteps
    <3> QED BY <1>6, <2>1, <3>4, <3>5
  <2>3. CASE l.pc = "promote" /\ m.pc = "replace"
    <3>1. ~m.recovers
        BY <2>1, <2>3, Serving DEF Kin, RestoreSteps
    <3>2. OnFile(proc[p])' /\ Recovering(proc[p])'
        BY <1>5, <2>1, <2>3, <3>1 DEF OnFile, Recovering, Kin
    <3> QED BY <1>6, <2>1, <3>2
  <2>4. CASE l.pc \in {"admit", "replay"} /\ m.pc \in {"dispatch", "prepare"}
    <3>1. ~m.recovers
        BY <2>1, <2>4, Serving DEF Kin, RestoreSteps
    <3> QED BY <1>6, <2>1, <2>4, <3>1, AsideOfFile
  <2> QED BY <2>1, <2>2, <2>3, <2>4 DEF Walks
<1>11. CASE Restarted(p)
  <2>1. /\ UNCHANGED << permit, target >> /\ proc'[p].pc = "recover"
        /\ proc'[p].todo = {<< k, permit[k].state >> : k \in {x \in Keys : permit[x].state \in MutationStates}}
      BY <1>11 DEF Restarted, Quiet
  <2>2. Recovering(proc[p])'
      BY <2>1 DEF Recovering, RestoreSteps
  <2>3. OnFile(proc[p])'
      BY <2>1 DEF OnFile
  <2> QED BY <1>6, <2>1, <2>2, <2>3
<1>12. CASE Resumed(p)
  <2>1. /\ UNCHANGED << permit, target >> /\ proc[p].pc = "recover" /\ proc'[p].pc = "inspect"
        /\ proc[p].recovers
      BY <1>12 DEF Resumed, Quiet
  <2>2. PICK t \in proc[p].todo :
           /\ t[1] \in Keys /\ t[2] \in MutationStates
           /\ proc'[p].key = t[1] /\ proc'[p].from = t[2] /\ proc'[p].todo = proc[p].todo \ {t}
      BY <1>12 DEF Resumed
  <2>3. t = << t[1], t[2] >>
      BY <1>5, <2>2 DEF Locals
  <2>4. permit[t[1]].state = t[2]
      BY <1>5, <2>1 DEF Recovering
  <2>5. ASSUME NEW k \in Keys, permit[k].state \in MutationStates, k # t[1]
        PROVE  << k, permit[k].state >> \in proc'[p].todo
    <3>1. << k, permit[k].state >> \in proc[p].todo
        BY <1>5, <2>1, <2>5 DEF Recovering, RestoreSteps
    <3>2. << k, permit[k].state >> # t
        BY <2>3, <2>5
    <3> QED BY <2>2, <3>1, <3>2
  <2>6. \A u \in proc'[p].todo : permit[u[1]].state = u[2]
      BY <1>5, <2>1, <2>2 DEF Recovering
  <2>7. << t[1], t[2] >> \notin proc'[p].todo
      BY <2>2, <2>3
  <2>8. Recovering(proc[p])'
      BY <2>1, <2>2, <2>4, <2>5, <2>6, <2>7 DEF Recovering, RestoreSteps
  <2>9. OnFile(proc[p])'
      BY <2>1 DEF OnFile
  <2> QED BY <1>6, <2>1, <2>8, <2>9
<1>13. CASE Recorded(p)
  <2> DEFINE k == proc[p].key
  <2>1. /\ UNCHANGED target /\ Kin(proc[p], proc'[p])
        /\ << proc[p].pc, permit[k].state, permit'[k].state, proc'[p].pc >> \in Recordings
        /\ PermitMoves(k, permit[k].state, permit'[k].state)
        /\ proc[p].pc = "verify" => target = permit[k].post
      BY <1>13 DEF Recorded, QuietButPermit, Goes
  <2>2. /\ proc[p].pc \in {"record_prepared", "record_applying", "record_applied", "verify"}
        /\ proc'[p].pc \in {"consume", "promote", "verify", "commit"}
        /\ proc'[p].pc = "promote" => permit'[k].state = "applying"
        /\ proc'[p].pc = "commit" => proc[p].pc = "verify"
        /\ permit[k].state # "none" /\ permit'[k].state \notin {"committed", "aborted"}
      BY <2>1 DEF Recordings
  <2>3. ~proc[p].recovers /\ k \in Keys
      BY <1>5, <2>2, Serving DEF Shape, RestoreSteps, Working, HandlerSteps
  <2>4. \A j \in Keys : BoundsPatch(j)'
      BY <1>2, <2>1, <2>2, <2>3, BoundsStay
  <2>5. LedgerMatchesTarget'
      BY <1>2, <2>1, <2>2, <2>3 DEF LedgerMatchesTarget, PermitMoves
  <2>6. proc'[p].pc = "commit" => k \in target
      BY <1>2, <2>1, <2>2, <2>3 DEF BoundsPatch
  <2>7. OnFile(proc[p])' /\ Recovering(proc[p])'
      BY <2>1, <2>2, <2>3, <2>6 DEF OnFile, Recovering, Kin
  <2> QED BY <2>4, <2>5, <2>7, SoleStays
<1>14. CASE Consumed(p)
  <2> DEFINE k == proc[p].key
  <2>1. /\ UNCHANGED target /\ Kin(proc[p], proc'[p]) /\ proc[p].pc = "consume"
        /\ proc'[p].pc = "record_applying" /\ PermitMoves(k, "prepared", "claimed")
      BY <1>14 DEF Consumed, QuietButPermit, Goes
  <2>2. ~proc[p].recovers /\ k \in Keys
      BY <1>5, <2>1, Serving DEF Shape, RestoreSteps, Working, HandlerSteps
  <2>3. \A j \in Keys : BoundsPatch(j)'
      BY <1>2, <2>1, <2>2, BoundsStay
  <2>4. LedgerMatchesTarget'
      BY <1>2, <2>1, <2>2 DEF LedgerMatchesTarget, PermitMoves
  <2>5. OnFile(proc[p])' /\ Recovering(proc[p])'
      BY <2>1, <2>2, AsideOfFile DEF Kin
  <2> QED BY <2>3, <2>4, <2>5, SoleStays
<1>15. CASE Issued(p)
  <2> DEFINE k == proc[p].key
  <2>1. /\ UNCHANGED target /\ Kin(proc[p], proc'[p]) /\ proc[p].pc = "issue" /\ proc'[p].pc = "backup"
        /\ k \notin target /\ (UNCHANGED permit \/ PermitIssued(k))
      BY <1>15 DEF Issued, QuietButPermit, Goes
  <2>2. ~proc[p].recovers /\ k \in Keys
      BY <1>5, <2>1, Serving DEF Shape, RestoreSteps, Working, HandlerSteps
  <2>3. \A j \in Keys : BoundsPatch(j)'
      BY <1>0, <1>2, <2>1, <2>2 DEF BoundsPatch, PermitIssued, FilesOK
  <2>4. LedgerMatchesTarget'
      BY <1>2, <2>1, <2>2 DEF LedgerMatchesTarget, PermitIssued
  <2>5. OnFile(proc[p])' /\ Recovering(proc[p])'
      BY <2>1, <2>2, AsideOfFile DEF Kin
  <2> QED BY <2>3, <2>4, <2>5, SoleStays
<1>16. CASE BackedUp(p)
  <2>1. UNCHANGED << permit, target >> /\ proc[p].pc = "backup" /\ proc'[p].pc = "record_prepared"
      BY <1>16 DEF BackedUp, Goes
  <2>2. ~proc'[p].recovers
      BY <1>16, <2>1, Serving DEF BackedUp, Goes, Kin, RestoreSteps
  <2> QED BY <1>6, <2>1, <2>2, AsideOfFile
<1>17. CASE Replaced(p)
  <2> DEFINE k == proc[p].key
  <2>1. /\ UNCHANGED permit /\ proc[p].pc = "replace" /\ proc'[p].pc \in {"record_applied", "inspect"}
        /\ proc'[p].recovers = proc[p].recovers /\ target' = proc[p].prep \cup {k}
      BY <1>17 DEF Replaced, Goes, Restores, Kin, KinRequest
  <2>2. ~proc[p].recovers /\ k \in Keys
      BY <1>5, <2>1, Serving DEF Shape, RestoreSteps, Working, HandlerSteps
  <2>3. OnFile(proc[p])' /\ Recovering(proc[p])'
      BY <2>1, <2>2, AsideOfFile
  <2>4. \A j \in Keys : BoundsPatch(j)'
      BY <1>2, <2>1 DEF BoundsPatch
  <2>5. permit[k].state = "applying" /\ proc[p].prep \subseteq target /\ target \subseteq proc[p].prep \cup {Edit}
      BY <1>5, <2>1 DEF OnFile
  <2>6. LedgerMatchesTarget'
      BY <1>1, <1>2, <2>1, <2>5 DEF LedgerMatchesTarget
  <2> QED BY <2>3, <2>4, <2>6, SoleStays
<1>18. CASE Restored(p)
  <2> DEFINE k == proc[p].key
  <2>1. /\ UNCHANGED << permit, backup >> /\ proc[p].pc = "restore" /\ Kin(proc[p], proc'[p])
        /\ \/ target' = backup[k] /\ proc'[p].pc \in {"record_aborted", "fence"}
           \/ UNCHANGED target /\ proc'[p].pc = "fence"
      BY <1>18 DEF Restored, Goes
  <2>2. k \in Keys /\ proc[p].from \in MutationStates
      BY <1>5, <2>1 DEF Shape, RestoreSteps
  <2>3. /\ permit[k].state = proc[p].from /\ backup[k] = permit[k].pre
        /\ permit[k].pre \subseteq target /\ target \subseteq permit[k].pre \cup {k, Edit}
      BY <1>5, <2>1 DEF OnFile
  <2>4. k \notin permit[k].pre
      BY <1>2, <2>2, <2>3 DEF BoundsPatch, MutationStates
  <2>5. permit[k].state \notin {"committed", "aborted"}
      BY <2>2, <2>3 DEF MutationStates
  <2>6. LedgerMatchesTarget'
      BY <1>1, <1>2, <2>1, <2>3, <2>5 DEF LedgerMatchesTarget
  <2>7. Recovering(proc[p])'
      BY <1>5, <2>1 DEF Recovering, Kin, RestoreSteps
  <2>8. OnFile(proc[p])'
      BY <2>1, <2>3, <2>4 DEF OnFile, Kin
  <2>9. \A j \in Keys : BoundsPatch(j)'
      BY <1>2, <2>1 DEF BoundsPatch
  <2> QED BY <2>6, <2>7, <2>8, <2>9, SoleStays
<1>19. CASE Settled(p)
  <2> DEFINE k == proc[p].key
  <2>1. /\ UNCHANGED target /\ PermitMoves(k, proc[p].from, permit'[k].state)
        /\ << proc[p].pc, permit'[k].state >> \in {<< "record_aborted", "aborted" >>, << "fence", "recovery_required" >>}
      BY <1>19 DEF Settled, QuietButPermit
  <2>2. /\ proc[p].pc \in {"record_aborted", "fence"}
        /\ permit'[k].state \in {"aborted", "recovery_required"}
        /\ permit'[k].state = "aborted" => proc[p].pc = "record_aborted"
      BY <2>1
  <2>3. k \in Keys /\ proc[p].from \in MutationStates /\ permit[k].state = proc[p].from
      BY <1>5, <2>1, <2>2 DEF Shape, RestoreSteps, PermitMoves
  <2>4. \A j \in Keys : BoundsPatch(j)'
      BY <1>2, <2>1, <2>3, BoundsStay DEF MutationStates
  <2>5. LedgerMatchesTarget'
      BY <1>2, <1>5, <2>1, <2>2, <2>3 DEF LedgerMatchesTarget, PermitMoves, OnFile
  <2>6. proc'[p].pc \in {"recover", "complete"}
      BY <1>19 DEF Settled, Goes, Answers, Resolved
  <2>7. OnFile(proc[p])'
      BY <2>6 DEF OnFile
  <2>8. CASE proc[p].recovers /\ Goes(p, "recover")
    <3>1. proc'[p].pc = "recover" /\ proc'[p].todo = proc[p].todo
        BY <2>8 DEF Goes, Kin
    <3>2. ASSUME NEW t \in proc[p].todo PROVE permit'[t[1]].state = t[2]
      <4>1. permit[t[1]].state = t[2] /\ t[1] \in Keys /\ t = << t[1], t[2] >>
          BY <1>5, <2>8 DEF Recovering, Locals
      <4>2. << k, proc[p].from >> \notin proc[p].todo
          BY <1>5, <2>2, <2>8 DEF Recovering, RestoreSteps
      <4>3. t[1] # k
          BY <2>3, <4>1, <4>2
      <4> QED BY <2>1, <4>1, <4>3 DEF PermitMoves
    <3>3. ASSUME NEW j \in Keys, permit'[j].state \in MutationStates
          PROVE  << j, permit'[j].state >> \in proc[p].todo
      <4>1. j # k
          BY <2>2, <3>3 DEF MutationStates
      <4>2. permit'[j] = permit[j]
          BY <2>1, <4>1 DEF PermitMoves
      <4> QED BY <1>5, <2>8, <3>3, <4>1, <4>2 DEF Recovering
    <3>4. Recovering(proc[p])'
        BY <3>1, <3>2, <3>3 DEF Recovering, RestoreSteps
    <3> QED BY <2>4, <2>5, <2>7, <3>4, SoleStays
  <2>9. CASE ~proc[p].recovers
    <3>1. ~proc'[p].recovers
        BY <1>19, <2>9 DEF Settled, Answers, Resolved, KinAnswer
    <3>2. Recovering(proc[p])'
        BY <3>1 DEF Recovering
    <3> QED BY <2>4, <2>5, <2>7, <3>2, SoleStays
  <2> QED BY <1>19, <2>8, <2>9 DEF Settled
<1>20. CASE Committed(p)
  <2> DEFINE k == proc[p].key
  <2>1. /\ UNCHANGED target /\ PermitMoves(k, "verifying", "committed") /\ proc[p].pc = "commit"
        /\ proc'[p].pc = "complete" /\ proc'[p].recovers = proc[p].recovers
      BY <1>20 DEF Committed, QuietButPermit, Answers, Resolved, KinAnswer
  <2>2. ~proc[p].recovers /\ k \in Keys
      BY <1>5, <2>1, Serving DEF Shape, RestoreSteps, Working, HandlerSteps
  <2>3. \A j \in Keys : BoundsPatch(j)'
      BY <1>2, <2>1, <2>2, BoundsStay
  <2>4. k \in target
      BY <1>5, <2>1 DEF OnFile
  <2>5. LedgerMatchesTarget'
      BY <1>2, <2>1, <2>2, <2>4 DEF LedgerMatchesTarget, PermitMoves
  <2>6. OnFile(proc[p])' /\ Recovering(proc[p])'
      BY <2>1, <2>2, AsideOfFile
  <2> QED BY <2>3, <2>5, <2>6, SoleStays
<1> QED BY <1>4, <1>7, <1>8, <1>9, <1>10, <1>11, <1>12, <1>13, <1>14, <1>15, <1>16, <1>17, <1>18, <1>19,
           <1>20 DEF Effect

LEMMA SoleInit ==
    ASSUME Init
    PROVE  SoleInv
<1>1. permit = [k \in Keys |-> NoPermit] /\ proc = [p \in Procs |-> Down]
    BY DEF Init
<1>2. \A k \in Keys : permit[k].state = "none"
    BY <1>1 DEF NoPermit
<1>3. \A p \in Procs : proc[p].pc = "down" /\ ~proc[p].recovers
    BY <1>1, RestingIs
<1> QED BY <1>2, <1>3 DEF SoleInv, BoundsPatch, OnFile, Recovering, LedgerMatchesTarget

LEMMA SoleAlways ==
    ASSUME OneProcess
    PROVE  Spec => []SoleInv
<1>1. Init => SoleInv
    BY SoleInit
<1>2. ServiceInv /\ ServiceInv' /\ SoleInv /\ [Next]_vars => SoleInv'
    BY SoleNext DEF ServiceInv
<1> QED BY <1>1, <1>2, ServiceAlways, PTL DEF Spec

(* With one process the ledger tells the truth about the file: a committed *)
(* patch is in it and an aborted one is not, wherever the process crashes, *)
(* fails or is edited over (_promote_verified_patch,                       *)
(* abort_with_restoration, recover_incomplete_actions).                    *)
THEOREM PatchLedgerMatchesTarget ==
    ASSUME OneProcess
    PROVE  Spec => []LedgerMatchesTarget
<1>1. SoleInv => LedgerMatchesTarget
    BY DEF SoleInv
<1> QED BY <1>1, SoleAlways, PTL

(* A starting process goes to serving by listening only.                   *)
LEMMA ServesByListening ==
    ASSUME Shapes, [Next]_vars, NEW p \in Procs, proc[p].recovers, proc'[p].pc = "idle"
    PROVE  Listen(p)
<1>1. proc[p].pc \in {"recover"} \cup RestoreSteps /\ ProcsOK
    BY DEF Shapes, Typed, ProcsOK, Shape
<1>2. proc'[p] # proc[p]
    BY <1>1 DEF RestoreSteps
<1>3. PICK q \in Procs : Step(q)
    BY <1>2 DEF Next, EditTarget, CommitTarget, vars
<1>4. Effect(q)
    BY <1>3, StepTells
<1>5. p = q
  <2>1. Others(q) \/ UNCHANGED proc
      BY <1>4 DEF Effect, Rested, Failed, Walked, Abandoned, Answered, Prepared, Recorded, Consumed, Issued,
         BackedUp, Replaced, Restored, Settled, Committed, Completed, Took, Sent, Arrived, Reconciled, Restarted,
         Resumed, Rests, Raises, Goes, Restores, Answers, Prepares, Leased, Dispatched, Received, Moves
  <2> QED BY <1>2, <2>1 DEF Others
<1>6. proc[p] \in Locals
    BY <1>1 DEF ProcsOK
<1>7. CASE proc[p].pc = "recover"
  <2>1. RecoverNext(p) \/ Listen(p) \/ ListenRefused(p) \/ Crash(p)
      BY <1>3, <1>5, <1>7 DEF Step, ReceivePreflight, ReceiveExecute, Receive, Lease, Dispatch, Reconcile, Admit,
         Preflight, Replay, Prepare, Issue, Backup, RecordPrepared, ConsumePermit, RecordApplying, PromoteCheck,
         PromoteReplace, RecordApplied, Verify, Commit, Inspect, Restore, RecordAborted, Fence, StaleRestoration,
         Complete, CompletionFails, Raise, Start, At
  <2>2. ListenRefused(p) \/ Crash(p) => proc'[p].pc = "down"
      BY <1>1, RestingIs, BecomeTells DEF ListenRefused, Crash
  <2>3. RecoverNext(p) => proc'[p].pc = "inspect"
      BY <1>1, RecoverNextTells
  <2> QED BY <2>1, <2>2, <2>3
<1>8. CASE proc[p].pc \in RestoreSteps
  <2>1. Inspect(p) \/ Restore(p) \/ RecordAborted(p) \/ Fence(p) \/ StaleRestoration(p) \/ Crash(p)
    <3>1. ~\E c \in Clients, k \in Keys : ReceivePreflight(p, c, k) \/ \E g \in Gates : ReceiveExecute(p, c, k, g)
      <4>1. ASSUME NEW c, NEW k, NEW op, NEW g, NEW b PROVE ~Receive(p, c, k, op, g, b)
          BY <1>8 DEF Receive, RestoreSteps, At
      <4>2. \A c, k : ~ReceivePreflight(p, c, k)
          BY <4>1 DEF ReceivePreflight
      <4>3. ASSUME NEW c, NEW k, NEW g PROVE ~ReceiveExecute(p, c, k, g)
          BY <4>1 DEF ReceiveExecute
      <4> QED BY <4>2, <4>3
    <3>2. ~\E now \in Times : Lease(p, now) \/ Dispatch(p, now)
        BY <1>8 DEF Lease, Dispatch, RestoreSteps, At
    <3>3. ~(Reconcile(p) \/ Admit(p) \/ Preflight(p) \/ Replay(p) \/ Prepare(p) \/ Issue(p) \/ Backup(p))
        BY <1>8 DEF Reconcile, Admit, Preflight, Replay, Prepare, Issue, Backup, RestoreSteps, At
    <3>4. ~(RecordPrepared(p) \/ ConsumePermit(p) \/ RecordApplying(p) \/ PromoteCheck(p) \/ PromoteReplace(p))
        BY <1>8 DEF RecordPrepared, ConsumePermit, RecordApplying, PromoteCheck, PromoteReplace, RestoreSteps, At
    <3>5. ~(RecordApplied(p) \/ Verify(p) \/ Commit(p) \/ Complete(p) \/ CompletionFails(p) \/ Raise(p))
        BY <1>8 DEF RecordApplied, Verify, Commit, Complete, CompletionFails, Raise, RestoreSteps, At
    <3>6. ~(Start(p) \/ RecoverNext(p) \/ Listen(p) \/ ListenRefused(p))
        BY <1>8 DEF Start, RecoverNext, Listen, ListenRefused, RestoreSteps, At
    <3> QED BY <1>3, <1>5, <3>1, <3>2, <3>3, <3>4, <3>5, <3>6 DEF Step
  <2>2. StaleRestoration(p) \/ Crash(p) => proc'[p].pc = "down"
      BY <1>1, RestingIs, BecomeTells DEF StaleRestoration, Crash
  <2>3. Inspect(p) \/ Restore(p) => proc'[p].pc \in RestoreSteps
      BY <1>1, <1>6, GotoTells DEF Inspect, Restore, Steps, RestoreSteps
  <2>4. RecordAborted(p) \/ Fence(p) => proc'[p].pc = "recover"
      BY <1>1, <1>6, GotoTells DEF RecordAborted, Fence, Settle, Steps
  <2> QED BY <2>1, <2>2, <2>3, <2>4 DEF RestoreSteps
<1> QED BY <1>1, <1>7, <1>8

(* With one process, one that begins to serve has settled every            *)
(* interrupted transaction, whatever its predecessors left (start,         *)
(* recover_incomplete_actions).                                            *)
THEOREM PatchServesRecovered ==
    ASSUME OneProcess
    PROVE  Spec => ServesRecovered
<1> DEFINE A == \A p \in Procs : proc[p].recovers /\ proc'[p].pc = "idle" =>
                    \A k \in Keys : permit'[k].state \notin MutationStates
<1>1. ServiceInv /\ SoleInv /\ [Next]_vars => [A]_vars
  <2>1. ASSUME ServiceInv, SoleInv, [Next]_vars, NEW p \in Procs, proc[p].recovers, proc'[p].pc = "idle",
               NEW k \in Keys
        PROVE  permit'[k].state \notin MutationStates
    <3>1. Listen(p)
        BY <2>1, ServesByListening DEF ServiceInv
    <3>2. proc[p].pc = "recover" /\ proc[p].todo = {} /\ UNCHANGED permit
        BY <3>1 DEF Listen, At
    <3> QED BY <2>1, <3>2 DEF SoleInv, Recovering, RestoreSteps
  <2> QED BY <2>1
<1> QED BY <1>1, ServiceAlways, SoleAlways, PTL DEF Spec, ServesRecovered

=============================================================================
