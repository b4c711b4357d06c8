---------------------------- MODULE RunEventStore ----------------------------
(***************************************************************************)
(* One run in the file-backed state store                                  *)
(* (shared/mesh_runtime/control_plane_state.py, FileStateStore): its       *)
(* session record, its append-only event log, the in-memory tail cache and *)
(* the vault mirror, with the threads of the control plane that append     *)
(* events and save session snapshots, and the server-sent-event loops of   *)
(* control_plane_server.py that poll the log.                              *)
(*                                                                         *)
(* A step is one critical section: a LockedJsonFile block, a threading     *)
(* lock's block, or one read or append of the log file.                    *)
(*                                                                         *)
(* An event is its line number in the log (its event_id is unique); what a *)
(* thread reads from the log is always a prefix, so a Merkle root and the  *)
(* mirrored history are the number of lines they cover.                    *)
(***************************************************************************)
EXTENDS Integers, Sequences, FiniteSets, SequencesExt

CONSTANTS
    Threads,      \* threads that append events and update the session
    Subscribers,  \* open SSE connections
    NoThread,
    Cold,         \* no tail is cached for the run
    MaxEvents,    \* bound: lines in the log
    CacheSize     \* _EVENT_CACHE_SIZE

ASSUME EventStoreAssumption ==
    /\ NoThread \notin Threads
    /\ MaxEvents \in Nat
    /\ CacheSize \in Nat \ {0}

FinalStages == {"completed", "failed"}

Stages == {"running"} \cup FinalStages

TaskStates == {"none", "pending", "recorded"}   \* artifacts["agent_tasks"]

Sessions == [cursor : Nat,       \* latest_event_sequence
             event  : Nat,       \* latest_event_id
             root   : Nat,       \* latest_merkle_root
             stage  : Stages,
             tasks  : TaskStates]

Lines == 1..MaxEvents

VARIABLES
    session,     \* the record in run_sessions.json
    log,         \* <run>.jsonl: the sequence number of each line
    cache,       \* _event_tail_cache: lines of the log
    appending,   \* holder of _event_append_lock
    mirroring,   \* holder of _vault_materialize_lock
    vault,       \* how many lines the vault mirror covers
    thread,      \* local state of each thread
    stream       \* local state of each SSE connection

vars == << session, log, cache, appending, mirroring, vault, thread, stream >>

ThreadSteps == {"idle", "write", "cache", "cursor", "root", "warm", "advance", "update",
                "vault", "vault_warm", "vault_write"}

Locals == [pc     : ThreadSteps,
           seq    : Nat,          \* sequence number given to the event
           event  : Nat,          \* its line
           loaded : Nat,          \* lines read from the log
           snap   : Sessions]     \* the session as read

NewSession == [cursor |-> 0, event |-> 0, root |-> 0, stage |-> "running", tasks |-> "none"]

IdleThread == [pc |-> "idle", seq |-> 0, event |-> 0, loaded |-> 0, snap |-> NewSession]

Streams == [pc       : {"poll", "warm", "check", "done"},
            last     : Nat,          \* last_id
            loaded   : Nat,
            received : SUBSET Nat]   \* observation: the lines sent to the client

NewStream == [pc |-> "poll", last |-> 0, loaded |-> 0, received |-> {}]

(* The types of the file, the cache and the threads.                       *)
TypeOK ==
    /\ session \in Sessions
    /\ log \in Seq(Nat)
    /\ cache # Cold => cache \in Seq(1..Len(log)) /\ Len(cache) <= CacheSize
    /\ appending \in Threads \cup {NoThread}
    /\ mirroring \in Threads \cup {NoThread}
    /\ vault \in Nat
    /\ thread \in [Threads -> Locals]
    /\ stream \in [Subscribers -> Streams]

Init ==
    /\ session = NewSession
    /\ log = << >>
    /\ cache = Cold
    /\ appending = NoThread
    /\ mirroring = NoThread
    /\ vault = 0
    /\ thread = [t \in Threads |-> IdleThread]
    /\ stream = [s \in Subscribers |-> NewStream]

----------------------------------------------------------------------------
(* _merge_session_snapshot: what a save keeps of the stored record.        *)

IsFinal(r) == r.stage \in FinalStages

(* Mutants: the snapshot's cursor wins; only the number is preserved. *)
PreserveNothing(candidate, current) == candidate

PreserveNumberOnly(candidate, current) ==
    IF current.cursor <= candidate.cursor
      THEN candidate
      ELSE [candidate EXCEPT !.cursor = current.cursor]

PreserveEventCursor(candidate, current) ==
    IF current.cursor <= candidate.cursor
      THEN candidate
      ELSE [candidate EXCEPT !.event = current.event, !.cursor = current.cursor,
                             !.root = current.root]

PreserveFinalLifecycle(candidate, current) ==
    IF ~IsFinal(current) \/ IsFinal(candidate)
      THEN candidate
      ELSE [candidate EXCEPT !.stage = current.stage]

(* Mutant: the keys of the snapshot always win. *)
MergeArtifactsByKey(candidate, current) ==
    [candidate EXCEPT !.tasks = IF candidate.tasks = "none" THEN current.tasks ELSE candidate.tasks]

MergeArtifacts(candidate, current) ==
    [candidate EXCEPT !.tasks =
        CASE candidate.tasks = "none" -> current.tasks
          [] candidate.tasks = "pending" /\ current.tasks = "recorded" -> "recorded"
          [] OTHER -> candidate.tasks]

Merge(candidate, current) ==
    MergeArtifacts(
        PreserveFinalLifecycle(PreserveEventCursor(candidate, current), current), current)

----------------------------------------------------------------------------
(* Reading the log: sorted by sequence number, duplicates of one event     *)
(* removed.                                                                *)

SortedLines(n) ==
    SetToSortSeq(1..n, LAMBDA i, j : log[i] < log[j] \/ (log[i] = log[j] /\ i < j))

LastOf(s, n) == SubSeq(s, IF Len(s) > n THEN Len(s) - n + 1 ELSE 1, Len(s))

(* deque(maxlen = CacheSize)                                               *)
CacheTail(s) == LastOf(s, CacheSize)

(* The sequence number of the last of the sorted lines, 0 without any.      *)
Latest(n) == Max({0} \cup {log[i] : i \in 1..n})

CacheCoversAfter(after) ==
    cache # Cold /\ (cache # << >> => after >= log[cache[1]] - 1)

After(lines, after) == SelectSeq(lines, LAMBDA i : log[i] > after)

----------------------------------------------------------------------------
At(t, step) == thread[t].pc = step

Become(t, local) == thread' = [thread EXCEPT ![t] = local]

Goto(t, step) == Become(t, [thread[t] EXCEPT !.pc = step])

(* append_run_event, inside _event_append_lock: the next sequence number   *)
(* comes from the session's cursor, or from the log when there is none     *)
(* (which warms the cache).                                                *)
NumberEvent(t) ==
    /\ At(t, "idle") /\ appending = NoThread
    /\ Len(log) < MaxEvents
    /\ appending' = t
    /\ IF session.cursor # 0
         THEN /\ Become(t, [thread[t] EXCEPT !.pc = "write", !.seq = session.cursor + 1])
              /\ UNCHANGED cache
         ELSE /\ Become(t, [thread[t] EXCEPT !.pc = "write", !.seq = Latest(Len(log)) + 1])
              /\ cache' = CacheTail(SortedLines(Len(log)))
    /\ UNCHANGED << session, log, mirroring, vault, stream >>

WriteEvent(t) ==
    /\ At(t, "write")
    /\ log' = Append(log, thread[t].seq)
    /\ appending' = NoThread
    /\ Become(t, [thread[t] EXCEPT !.pc = "cache", !.event = Len(log) + 1])
    /\ UNCHANGED << session, cache, mirroring, vault, stream >>

CacheEvent(t) ==
    /\ At(t, "cache")
    /\ cache' = CacheTail(Append(IF cache = Cold THEN << >> ELSE cache, thread[t].event))
    /\ Goto(t, "cursor")
    /\ UNCHANGED << session, log, appending, mirroring, vault, stream >>

(* _advance_session_event_cursor: read the session, read the log for the   *)
(* Merkle root, warm the cache, save.                                      *)
ReadCursor(t) ==
    /\ At(t, "cursor")
    /\ Become(t, IF thread[t].seq < session.cursor
                   THEN IdleThread
                   ELSE [thread[t] EXCEPT !.pc = "root", !.snap = session])
    /\ UNCHANGED << session, log, cache, appending, mirroring, vault, stream >>

ReadRoot(t) ==
    /\ At(t, "root")
    /\ Become(t, [thread[t] EXCEPT !.pc = "warm", !.loaded = Len(log)])
    /\ UNCHANGED << session, log, cache, appending, mirroring, vault, stream >>

WarmCache(t) ==
    /\ At(t, "warm")
    /\ cache' = CacheTail(SortedLines(thread[t].loaded))
    /\ Goto(t, "advance")
    /\ UNCHANGED << session, log, appending, mirroring, vault, stream >>

(* Mutant: a final session is mirrored no sooner than any other. *)
SaveWithoutForce(t, candidate) ==
    /\ session' = Merge(candidate, session)
    /\ \E step \in {"vault", "idle"} : Become(t, [IdleThread EXCEPT !.pc = step])
    /\ UNCHANGED << log, cache, appending, mirroring, vault, stream >>

(* save_run_session: merge and store, then mirror into the vault: always   *)
(* for a final session, otherwise unless the run was mirrored recently.    *)
SaveRunSession(t, candidate) ==
    /\ session' = Merge(candidate, session)
    /\ \/ Become(t, [IdleThread EXCEPT !.pc = "vault"])
       \/ ~IsFinal(session') /\ Become(t, IdleThread)
    /\ UNCHANGED << log, cache, appending, mirroring, vault, stream >>

AdvanceCursor(t) ==
    /\ At(t, "advance")
    /\ SaveRunSession(t, [thread[t].snap EXCEPT !.cursor = thread[t].seq,
                             !.event = thread[t].event, !.root = thread[t].loaded])

(* _update_session and the store's other read-modify-save operations.      *)
ReadSession(t) ==
    /\ At(t, "idle")
    /\ Become(t, [thread[t] EXCEPT !.pc = "update", !.snap = session])
    /\ UNCHANGED << session, log, cache, appending, mirroring, vault, stream >>

UpdateStage(t, stage) ==
    At(t, "update") /\ SaveRunSession(t, [thread[t].snap EXCEPT !.stage = stage])

UpdateTasks(t, tasks) ==
    At(t, "update") /\ SaveRunSession(t, [thread[t].snap EXCEPT !.tasks = tasks])

(* _materialize_vault, inside its lock.                                    *)
BeginMirror(t) ==
    /\ At(t, "vault") /\ mirroring = NoThread
    /\ mirroring' = t
    /\ Become(t, [thread[t] EXCEPT !.pc = "vault_warm", !.loaded = Len(log)])
    /\ UNCHANGED << session, log, cache, appending, vault, stream >>

WarmMirror(t) ==
    /\ At(t, "vault_warm")
    /\ cache' = CacheTail(SortedLines(thread[t].loaded))
    /\ Goto(t, "vault_write")
    /\ UNCHANGED << session, log, appending, mirroring, vault, stream >>

WriteMirror(t) ==
    /\ At(t, "vault_write")
    /\ vault' = thread[t].loaded
    /\ mirroring' = NoThread
    /\ Become(t, IdleThread)
    /\ UNCHANGED << session, log, cache, appending, stream >>

----------------------------------------------------------------------------
(* _stream_run: poll list_run_events, send, stop at the end of the run.    *)

Send(s, lines) ==
    stream' = [stream EXCEPT ![s] =
        [@ EXCEPT !.pc = "check",
                  !.received = @ \cup ToSet(lines),
                  !.last = IF lines = << >> THEN @ ELSE log[lines[Len(lines)]]]]

PollCache(s) ==
    /\ stream[s].pc = "poll"
    /\ CacheCoversAfter(stream[s].last)
    /\ Send(s, After(cache, stream[s].last))
    /\ UNCHANGED << session, log, cache, appending, mirroring, vault, thread >>

PollDisk(s) ==
    /\ stream[s].pc = "poll"
    /\ ~CacheCoversAfter(stream[s].last)
    /\ stream' = [stream EXCEPT ![s] = [@ EXCEPT !.pc = "warm", !.loaded = Len(log)]]
    /\ UNCHANGED << session, log, cache, appending, mirroring, vault, thread >>

WarmStream(s) ==
    /\ stream[s].pc = "warm"
    /\ cache' = CacheTail(SortedLines(stream[s].loaded))
    /\ Send(s, After(SortedLines(stream[s].loaded), stream[s].last))
    /\ UNCHANGED << session, log, appending, mirroring, vault, thread >>

(* The connection ends with a "complete" event, or sleeps and polls again. *)
CheckStream(s) ==
    /\ stream[s].pc = "check"
    /\ stream' = [stream EXCEPT ![s].pc =
          IF IsFinal(session) /\ stream[s].last >= session.cursor THEN "done" ELSE "poll"]
    /\ UNCHANGED << session, log, cache, appending, mirroring, vault, thread >>

ThreadStep(t) ==
    \/ NumberEvent(t) \/ WriteEvent(t) \/ CacheEvent(t)
    \/ ReadCursor(t) \/ ReadRoot(t) \/ WarmCache(t) \/ AdvanceCursor(t)
    \/ ReadSession(t)
    \/ \E stage \in Stages : UpdateStage(t, stage)
    \/ \E tasks \in TaskStates \ {"none"} : UpdateTasks(t, tasks)
    \/ BeginMirror(t) \/ WarmMirror(t) \/ WriteMirror(t)

StreamStep(s) == PollCache(s) \/ PollDisk(s) \/ WarmStream(s) \/ CheckStream(s)

Next == (\E t \in Threads : ThreadStep(t)) \/ (\E s \in Subscribers : StreamStep(s))

Spec == Init /\ [][Next]_vars

----------------------------------------------------------------------------
(* The latest-event cursor never goes back, whatever stale snapshot is     *)
(* saved after an append (_preserve_event_cursor).                         *)
CursorMonotone == [][session'.cursor >= session.cursor]_vars

(* A run that reached a final stage never leaves the final stages, though  *)
(* a background writer may save a snapshot it read while the run was going *)
(* (_preserve_final_lifecycle).                                            *)
FinalStaysFinal == [][IsFinal(session) => IsFinal(session')]_vars

(* Agent tasks that were recorded are not replaced by the "pending"        *)
(* placeholder of an older snapshot (_merge_artifacts).                    *)
TasksStayRecorded == [][session.tasks = "recorded" => session'.tasks = "recorded"]_vars

(* The cursor, the event it names and the Merkle root it is published with *)
(* belong together: the event is in the log under that sequence number and *)
(* the root covers it.                                                     *)
CursorIsConsistent ==
    session.cursor # 0 =>
        /\ session.event \in 1..Len(log)
        /\ log[session.event] = session.cursor
        /\ session.root >= session.event

Quiet == \A t \in Threads : At(t, "idle")

(* Once a final run is quiet its vault mirror holds every event that the   *)
(* published Merkle root covers: every save of a final session forces a    *)
(* materialisation, and those are serialised (save_run_session,            *)
(* _materialize_vault).                                                    *)
VaultCoversRoot == Quiet /\ IsFinal(session) => vault >= session.root

(* A subscriber has been sent every event its cursor has passed: sequence  *)
(* numbers increase, so the cursor it polls with skips nothing             *)
(* (append_run_event, list_run_events, _stream_run).                       *)
StreamSkipsNothing ==
    \A s \in Subscribers : \A i \in 1..Len(log) :
        log[i] <= stream[s].last => i \in stream[s].received
=============================================================================
