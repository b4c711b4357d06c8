------------------------------ MODULE Watcher ------------------------------
(***************************************************************************)
(* The Kubernetes watcher: the threads the registry runs it in, its memory *)
(* of the last run of a target, and the attachment of a correlated signal  *)
(* to an earlier run.  The life of a run (RunCoordinator) is reduced to    *)
(* the statuses the watcher looks at.                                      *)
(*                                                                         *)
(* The watcher's memory is lost with the process; sessions are kept.       *)
(***************************************************************************)
EXTENDS Naturals, FiniteSets

CONSTANTS
    Targets,
    Signatures,          \* error signatures
    Threads,             \* watcher threads
    Runs,
    NoTarget, NoRun, NoThread,
    MaxUpsets            \* bound: stops, restarts and failed polls together

Healthy == "healthy"

ASSUME WatcherAssumption ==
    /\ Healthy \notin Signatures
    /\ NoTarget \notin Targets /\ NoRun \notin Runs
    /\ NoThread \notin Threads
    /\ MaxUpsets \in Nat

(* "waiting" is a run that waits for an operator, or behind a pool of runs *)
(* that do; "stuck" is one that was replaced by a recovery run or that     *)
(* nobody works on.                                                        *)
Unresolved == {"running", "waiting", "stuck"}

(* "free" is the name of a run that does not exist; "resolved" stands for  *)
(* completed, failed and cancelled, which end the wait for the prior run.  *)
Sessions == [status : {"free", "resolved"} \cup Unresolved,
             target : Targets \cup {NoTarget}]   \* NoTarget when it is another source's, or stuck

Entries == [active    : Runs \cup {NoRun},       \* active_run_id
            signature : Signatures \cup {Healthy}] \* of the last run, Healthy before the first

Pollers == [pc        : {"off", "idle", "poll", "test", "clear", "collect", "create", "note"},
            stop      : BOOLEAN,                 \* its stop event is set
            todo      : SUBSET Targets,          \* targets the tick has not polled yet
            target    : Targets \cup {NoTarget},
            signature : Signatures \cup {Healthy},
            run       : Runs \cup {NoRun}]      \* the prior run, or the one to note

VARIABLES
    health,    \* target -> what the cluster shows
    session,   \* the runs somebody may still find
    entry,     \* _dedup
    poller,    \* watcher threads
    current,   \* the thread the registry knows
    upsets,    \* bound: upsets so far
    slow,      \* observation: stops that did not wait for the thread
    strays     \* observation: runs whose creation raised once they were queued

bounds == << upsets, slow, strays >>
vars == << health, session, entry, poller, current, bounds >>

NoSession == [status |-> "free", target |-> NoTarget]
ResolvedSession == [NoSession EXCEPT !.status = "resolved"]
StuckSession == [NoSession EXCEPT !.status = "stuck"]
NoEntry == [active |-> NoRun, signature |-> Healthy]
Off == [pc |-> "off", stop |-> FALSE, todo |-> {}, target |-> NoTarget,
        signature |-> Healthy, run |-> NoRun]
Idle == [Off EXCEPT !.pc = "idle"]

(* Every variable has its type.                                            *)
TypeOK ==
    /\ health \in [Targets -> Signatures \cup {Healthy}]
    /\ session \in [Runs -> Sessions]
    /\ entry \in [Targets -> Entries]
    /\ poller \in [Threads -> Pollers]
    /\ current \in Threads \cup {NoThread}
    /\ upsets \in 0 .. MaxUpsets

Init ==
    /\ health \in [Targets -> Signatures \cup {Healthy}]
    /\ session = [r \in Runs |-> NoSession]
    /\ entry = [t \in Targets |-> NoEntry]
    /\ poller = [th \in Threads |-> Off]
    /\ current = NoThread
    /\ upsets = 0
    /\ slow = 0 /\ strays = 0

----------------------------------------------------------------------------
(* Runs, as far as the watcher sees them.                                  *)

(* No entry and no thread has run r of the sessions ss, and it is not a    *)
(* run of a target in progress: as the parent of a correlated signal it is *)
(* as good as a run of another source.                                     *)
Forgotten(r, ss) ==
    /\ \A t \in Targets : entry'[t].active # r
    /\ \A th \in Threads : poller'[th].run # r
    /\ ss[r].target = NoTarget

(* The sessions become ss; the name of a forgotten one is free again.      *)
Store(ss) ==
    session' = LET lost == {r \in Runs : Forgotten(r, ss)}
               IN  [r \in Runs |-> IF r \in lost THEN NoSession ELSE ss[r]]

Available == {r \in Runs : session[r].status = "free"}

NewName == CHOOSE r \in Available : TRUE

Running(target) == [status |-> "running", target |-> target]

(* create_run: admission may refuse the run, which is then created failed. *)
NewSession(target) == {ResolvedSession, Running(target)}

Becomes(r, s) == Store([session EXCEPT ![r] = s])

SameWatcher == UNCHANGED << health, entry, poller, current, bounds >>

(* A run ends, waits for an operator, at once or behind runs that do, or   *)
(* is blocked by its evaluation and replaced by a recovery run: then it    *)
(* stays at recovery_spawned.                                              *)
RunResolves(r) ==
    /\ session[r].status = "running"
    /\ SameWatcher
    /\ \/ Becomes(r, ResolvedSession)
       \/ Becomes(r, [session[r] EXCEPT !.status = "waiting"])
       \/ Becomes(r, StuckSession)

(* An operator answers, the run or those before it.                        *)
OperatorAnswers(r) ==
    /\ session[r].status = "waiting"
    /\ SameWatcher
    /\ \/ Becomes(r, ResolvedSession)
       \/ Becomes(r, [session[r] EXCEPT !.status = "running"])

----------------------------------------------------------------------------
(* KubernetesWatcher.tick and _poll_target.                                *)

Set(th, local) == poller' = [poller EXCEPT ![th] = local]

(* _poll_target returns; a tick whose targets are all polled is over.      *)
Rest(th, todo) ==
    Set(th, [Idle EXCEPT !.stop = poller[th].stop, !.todo = todo,
                         !.pc = IF todo = {} THEN "idle" ELSE "poll"])

(* A stop is looked at between two ticks only.                             *)
Tick(th) ==
    /\ poller[th].pc = "idle" /\ ~poller[th].stop
    /\ Set(th, [poller[th] EXCEPT !.pc = "poll", !.todo = Targets])
    /\ UNCHANGED << health, session, entry, current, bounds >>

(* _poll_target begins: without a prior run there is nothing to wait for.  *)
PollTarget(th, t) ==
    /\ poller[th].pc = "poll" /\ t \in poller[th].todo
    /\ Set(th, [poller[th] EXCEPT !.pc = IF entry[t].active = NoRun THEN "collect" ELSE "test",
                                  !.run = entry[t].active, !.target = t, !.todo = @ \ {t}])
    /\ UNCHANGED << health, session, entry, current, bounds >>

InFlight(r) == r # NoRun /\ session[r].status \in Unresolved

(* Mutant: a prior run is not waited for while it waits for an operator. *)
TestWhileRunning(th) ==
    /\ poller[th].pc = "test"
    /\ \E r \in {poller[th].run, entry[poller[th].target].active} :
          IF InFlight(r) /\ session[r].status # "waiting"
            THEN Rest(th, poller[th].todo)
            ELSE Set(th, [poller[th] EXCEPT !.pc = "clear", !.run = NoRun])
    /\ UNCHANGED << health, entry, current, bounds >>
    /\ Store(session)

(* get_run: the target is skipped while its prior run is in flight.  The   *)
(* name of the run is read twice before its status is.                     *)
TestPrior(th) ==
    /\ poller[th].pc = "test"
    /\ \E r \in {poller[th].run, entry[poller[th].target].active} :
          IF InFlight(r) THEN Rest(th, poller[th].todo)
                         ELSE Set(th, [poller[th] EXCEPT !.pc = "clear", !.run = NoRun])
    /\ UNCHANGED << health, entry, current, bounds >>
    /\ Store(session)

(* Whatever is remembered by now is forgotten: there is no lock.           *)
ClearPrior(th) ==
    /\ poller[th].pc = "clear"
    /\ entry' = [entry EXCEPT ![poller[th].target].active = NoRun]
    /\ Set(th, [poller[th] EXCEPT !.pc = "collect"])
    /\ UNCHANGED << health, current, bounds >>
    /\ Store(session)

(* After a run a target is left alone for a while.                         *)
CoolDown(th) ==
    /\ poller[th].pc = "collect" /\ entry[poller[th].target].signature # Healthy
    /\ Rest(th, poller[th].todo)
    /\ UNCHANGED << health, session, entry, current, bounds >>

(* The signature of the last run is not reported twice.                    *)
IsNew(t, signature) == signature # entry[t].signature

Collect(th) ==
    LET t    == poller[th].target
        seen == health[t]
    IN  /\ poller[th].pc = "collect"
        /\ IF seen # Healthy /\ IsNew(t, seen)
             THEN Set(th, [poller[th] EXCEPT !.pc = "create", !.signature = seen])
             ELSE Rest(th, poller[th].todo)
        /\ UNCHANGED << health, session, entry, current, bounds >>

(* create_run collects the signal again, for the run alone, and looks for  *)
(* an unresolved run with the correlation key of the signal, which stands  *)
(* for a new run.  A key names the services that share a window with the   *)
(* signal (SignalCorrelator.correlate): any unresolved run may have the    *)
(* key that comes out, and so may one of another source of signals, which  *)
(* the model has from now on.                                              *)
AttachRun(th) ==
    /\ poller[th].pc = "create"
    /\ \/ \E r \in Runs :
             /\ session[r].status \in Unresolved
             /\ Set(th, [poller[th] EXCEPT !.pc = "note", !.run = r])
             /\ UNCHANGED session
       \/ /\ Available # {}
          /\ Set(th, [poller[th] EXCEPT !.pc = "note", !.run = NewName])
          /\ session' = [session EXCEPT ![NewName] = Running(NoTarget)]
    /\ UNCHANGED << health, entry, current, bounds >>

CreateRun(th) ==
    /\ poller[th].pc = "create" /\ Available # {}
    /\ Set(th, [poller[th] EXCEPT !.pc = "note", !.run = NewName])
    /\ UNCHANGED << health, entry, current, bounds >>
    /\ \E new \in NewSession(poller[th].target) : Becomes(NewName, new)

(* The run, its signature and the time are remembered for the target.      *)
Note(th) ==
    /\ poller[th].pc = "note"
    /\ entry' = [entry EXCEPT ![poller[th].target] =
                    [active |-> poller[th].run, signature |-> poller[th].signature]]
    /\ Rest(th, poller[th].todo)
    /\ Store(session)
    /\ UNCHANGED << health, current, bounds >>

Upset == upsets < MaxUpsets /\ upsets' = upsets + 1

(* get_run, kubectl or create_run raises; the tick goes on with the next   *)
(* target.                                                                 *)
PollFails(th) ==
    /\ poller[th].pc \in {"test", "collect", "create"}
    /\ Upset
    /\ Rest(th, poller[th].todo)
    /\ UNCHANGED << health, entry, current, slow, strays >>
    /\ Store(session)

(* create_run raises after it has created the session, which nobody will   *)
(* work on, or even after it has queued the run, which goes on.            *)
CreateFails(th) ==
    /\ poller[th].pc = "create" /\ Available # {}
    /\ Upset
    /\ Rest(th, poller[th].todo)
    /\ UNCHANGED << health, entry, current, slow >>
    /\ \/ strays' = strays /\ Becomes(NewName, StuckSession)
       \/ strays' = strays + 1 /\ Becomes(NewName, Running(poller[th].target))

----------------------------------------------------------------------------
(* WatcherRegistry.                                                        *)

(* stop waits for the thread, but no longer than its timeout: a thread     *)
(* that is inside a tick goes on although the registry forgets it.         *)
StopWatcher ==
    LET th == current
    IN  /\ current # NoThread /\ Upset
        /\ current' = NoThread
        /\ \/ /\ poller[th].pc = "idle"
              /\ Set(th, Off)
              /\ UNCHANGED slow
           \/ /\ poller[th].pc # "idle"
              /\ Set(th, [poller[th] EXCEPT !.stop = TRUE])
              /\ slow' = slow + 1
        /\ UNCHANGED << health, session, entry, strays >>

(* Mutant: the stop event of the thread before is used again. *)
StartStopped ==
    LET off == {th \in Threads : poller[th].pc = "off"}
        th  == CHOOSE x \in off : TRUE
    IN  /\ current = NoThread /\ off # {}
        /\ Set(th, [Idle EXCEPT !.stop = slow > 0])
        /\ current' = th
        /\ UNCHANGED << health, session, entry, bounds >>

(* start: a new thread with a new stop event.                              *)
StartWatcher ==
    LET off == {th \in Threads : poller[th].pc = "off"}
        th  == CHOOSE x \in off : TRUE
    IN  /\ current = NoThread /\ off # {}
        /\ Set(th, Idle)
        /\ current' = th
        /\ UNCHANGED << health, session, entry, bounds >>

(* The loop of a stopped thread ends with its tick.                        *)
EndThread(th) ==
    /\ poller[th].pc = "idle" /\ poller[th].stop
    /\ Set(th, Off)
    /\ UNCHANGED << health, session, entry, current, bounds >>

----------------------------------------------------------------------------
(* The environment.                                                        *)

HealthChanges(t) ==
    /\ \E seen \in (Signatures \cup {Healthy}) \ {health[t]} :
          health' = [health EXCEPT ![t] = seen]
    /\ UNCHANGED << session, entry, poller, current, bounds >>

(* The process stops and is started again.  Nobody resumes or closes the   *)
(* runs it was working on.                                                 *)
Restart ==
    /\ Upset
    /\ entry' = [t \in Targets |-> NoEntry]
    /\ poller' = [th \in Threads |-> Off]
    /\ current' = NoThread
    /\ Store([r \in Runs |-> IF session[r].status \in Unresolved THEN StuckSession ELSE session[r]])
    /\ UNCHANGED << health, slow, strays >>

----------------------------------------------------------------------------
ThreadStep(th) ==
    \/ Tick(th) \/ EndThread(th)
    \/ \E t \in Targets : PollTarget(th, t)
    \/ TestPrior(th) \/ ClearPrior(th) \/ CoolDown(th)
    \/ Collect(th) \/ AttachRun(th) \/ CreateRun(th) \/ Note(th)

Next ==
    \/ \E r \in Runs : RunResolves(r) \/ OperatorAnswers(r)
    \/ \E th \in Threads : ThreadStep(th) \/ PollFails(th) \/ CreateFails(th)
    \/ StartWatcher \/ StopWatcher
    \/ \E t \in Targets : HealthChanges(t)
    \/ Restart

Spec == Init /\ [][Next]_vars

(* Threads and runs are scheduled, but for runs that are queued behind a   *)
(* pool of waiting ones, and every cooldown ends: a target that is left    *)
(* alone again and again is looked at in the end.                          *)
Fairness ==
    /\ \A r \in Runs : WF_vars(RunResolves(r))
    /\ \A th \in Threads :
          WF_vars(ThreadStep(th)) /\ \A t \in Targets : SF_vars(poller[th].target = t /\ Collect(th))

FairSpec == Spec /\ Fairness

----------------------------------------------------------------------------
(* The watcher has at most one run of a target in progress, two more for   *)
(* every stop that did not wait for a thread inside its tick, which may    *)
(* then forget a run that the new thread has noted and create one of its   *)
(* own, and one more for every creation that raised once the run was       *)
(* queued.                                                                 *)
OneRunPerTarget ==
    \A t \in Targets :
        Cardinality({r \in Runs : /\ session[r].target = t
                                  /\ session[r].status \in {"running", "waiting"}})
            <= 1 + 2 * slow + strays

(* The run a target waits for need never be resolved: it waits for an      *)
(* operator or behind runs that do, was replaced by a recovery run, or     *)
(* nobody works on it.                                                     *)
WaitsInVain(t) ==
    LET r == entry[t].active
    IN  r # NoRun /\ session[r].status \in {"waiting", "stuck"}

(* The target shows a failure its last run was not about.                  *)
Unreported(t) == health[t] # Healthy /\ IsNew(t, health[t])

(* No target shows a failure its last run was not about forever, however   *)
(* polls, slow threads, stops and restarts fall and the failure changes:   *)
(* it gets a run or is attached to one, unless it goes away, the watcher   *)
(* is stopped or the target waits in vain.                                 *)
NewFailuresAreTaken ==
    \A t \in Targets :
        Unreported(t) ~> ~Unreported(t) \/ current = NoThread \/ WaitsInVain(t)

=============================================================================
