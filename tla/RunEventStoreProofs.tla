------------------------- MODULE RunEventStoreProofs -------------------------
(***************************************************************************)
(* What the file-backed store keeps of a run, for any number of threads    *)
(* that append events and save snapshots, any number of subscribers and    *)
(* any length of the log.                                                  *)
(*                                                                         *)
(* A thread saves a snapshot it read some steps ago, so the properties of  *)
(* the stored session are inductive only together with the same facts      *)
(* about every snapshot in flight: the event and the root it names are     *)
(* those of a prefix of the log, and the log only grows.  For the vault it *)
(* takes the mirror that is still to come: while the vault is behind the   *)
(* root of a final session, some thread is about to mirror that much.      *)
(***************************************************************************)
EXTENDS RunEventStore, SequenceTheorems, NaturalsInduction, WellFoundedInduction, TLAPS

(* The cursor of a session record r, in a log lg.                          *)
Located(r, lg) ==
    /\ r.root <= Len(lg)
    /\ r.cursor # 0 =>
          /\ r.event \in 1..Len(lg)
          /\ lg[r.event] = r.cursor
          /\ r.root >= r.event

(* The steps after the line of an event is written.                        *)
Written == {"cache", "cursor", "root", "warm", "advance"}

MirrorSteps == {"vault_warm", "vault_write"}

(* The locals l of a thread.                                               *)
Sound(l, lg) ==
    /\ l \in Locals
    /\ Located(l.snap, lg)
    /\ l.loaded <= Len(lg)
    /\ l.pc \in Written => l.event \in 1..Len(lg) /\ lg[l.event] = l.seq
    /\ l.pc \in {"warm", "advance"} => l.loaded >= l.event

StoreOK ==
    /\ session \in Sessions /\ Located(session, log)
    /\ log \in Seq(Nat)
    /\ vault \in Nat /\ vault <= Len(log)

ThreadsOK ==
    /\ DOMAIN thread = Threads
    /\ thread = [t \in Threads |-> thread[t]]
    /\ \A t \in Threads : Sound(thread[t], log)

(* One mirror at a time, of no less than is there already.                 *)
MirrorsOK ==
    \A t \in Threads :
        thread[t].pc \in MirrorSteps => mirroring = t /\ thread[t].loaded >= vault

(* A mirror of at least n lines is still to come from the locals l.        *)
WillMirror(l, n) == l.pc = "vault" \/ (l.pc \in MirrorSteps /\ l.loaded >= n)

RootReachesVault ==
    IsFinal(session) =>
        vault >= session.root \/ \E t \in Threads : WillMirror(thread[t], session.root)

EventInv == StoreOK /\ ThreadsOK /\ MirrorsOK /\ RootReachesVault

----------------------------------------------------------------------------
(* The greatest of some numbers.                                           *)

LEMMA LeastNatural ==
    ASSUME NEW S, S \subseteq Nat, S # {}
    PROVE  \E m \in S : \A n \in S : m <= n
  <1>1. PICK m \in S : \A n \in S : << n, m >> \notin OpToRel(<, Nat)
    BY NatLessThanWellFounded, WFMin
  <1>2. \A n \in S : ~(n < m)
    BY <1>1, Zenon DEF OpToRel
  <1> QED
    BY <1>2

(* The numbers of a log have an upper bound: a shortest prefix without one *)
(* would be a line longer than one that has it.                            *)
LEMMA LogIsBounded ==
    ASSUME NEW lg \in Seq(Nat)
    PROVE  \E b \in Nat : \A i \in 1..Len(lg) : lg[i] <= b
  <1> DEFINE Bounded(n) == \E b \in Nat : \A i \in 1..n : lg[i] <= b
             Bad == {n \in 0..Len(lg) : ~Bounded(n)}
  <1>1. SUFFICES Bad = {}
    <2>1. Len(lg) \in 0..Len(lg)
      BY LenProperties
    <2> QED
      BY <1>1, <2>1
  <1>2. SUFFICES ASSUME Bad # {} PROVE FALSE
    OBVIOUS
  <1>3. Bad \subseteq Nat /\ Bad \subseteq 0..Len(lg)
    <2> HIDE DEF Bounded
    <2> QED
      BY LenProperties
  <1>0. ASSUME NEW n \in 0..Len(lg) PROVE n \in Bad <=> ~Bounded(n)
    OBVIOUS
  <1> HIDE DEF Bad
  <1>4. PICK m \in Bad : \A n \in Bad : m <= n
    BY <1>2, <1>3, LeastNatural
  <1>5. m # 0
    <2>1. Bounded(0)
      <3>1. \A i \in 1..0 : lg[i] <= 0
        OBVIOUS
      <3> QED
        BY <3>1
    <2>2. 0 \in 0..Len(lg)
      BY LenProperties
    <2> QED
      BY <1>0, <2>1, <2>2
  <1>6. m - 1 \in 0..Len(lg) /\ m - 1 < m /\ m \in Nat /\ m \in 1..Len(lg)
    BY <1>3, <1>5, LenProperties
  <1>7. Bounded(m - 1)
    <2>1. m - 1 \notin Bad
      BY <1>4, <1>6
    <2> QED
      BY <1>0, <1>6, <2>1
  <1>8. PICK b \in Nat : \A i \in 1..(m - 1) : lg[i] <= b
    BY <1>7
  <1>9. lg[m] \in Nat
    BY <1>6
  <1>10. PICK c \in Nat : c >= b /\ c >= lg[m]
    <2>1. b + lg[m] \in Nat /\ b + lg[m] >= b /\ b + lg[m] >= lg[m]
      BY <1>9
    <2> QED
      BY <2>1
  <1>11. ASSUME NEW i \in 1..m PROVE lg[i] <= c
    <2>1. i = m \/ i \in 1..(m - 1)
      BY <1>6
    <2>2. lg[i] \in Nat
      BY <1>6
    <2> QED
      BY <1>8, <1>10, <2>1, <2>2
  <1>12. Bounded(m)
    BY <1>11
  <1>13. m \in 0..Len(lg)
    BY <1>3
  <1> QED
    BY <1>0, <1>12, <1>13

LEMMA LatestIsNatural ==
    ASSUME log \in Seq(Nat)
    PROVE  Latest(Len(log)) \in Nat
  <1> DEFINE S == {0} \cup {log[i] : i \in 1..Len(log)}
             U == {b \in Nat : \A y \in S : y <= b}
  <1>1. S \subseteq Nat
    BY LenProperties, ElementOfSeq
  <1>2. U # {}
    <2>1. PICK b \in Nat : \A i \in 1..Len(log) : log[i] <= b
      BY LogIsBounded
    <2>2. b \in U
      BY <2>1
    <2> QED
      BY <2>2
  <1>3. PICK m \in U : \A n \in U : m <= n
    BY <1>2, LeastNatural
  <1>4. m \in S
    <2>1. SUFFICES ASSUME m \notin S PROVE FALSE
      OBVIOUS
    <2>2. m \in Nat /\ m # 0 /\ \A y \in S : y <= m
      BY <2>1
    <2>3. m - 1 \in Nat
      BY <2>2
    <2>4. ASSUME NEW y \in S PROVE y <= m - 1
      <3>1. y \in Nat /\ y <= m /\ y # m
        BY <1>1, <2>1, <2>2
      <3> QED
        BY <2>2, <3>1
    <2>5. m - 1 \in U
      BY <2>3, <2>4
    <2>6. m <= m - 1
      BY <1>3, <2>5
    <2> QED
      BY <2>2, <2>6
  <1>5. \A y \in S : m >= y
    <2> SUFFICES ASSUME NEW y \in S PROVE m >= y
      OBVIOUS
    <2>1. y <= m /\ m \in Nat /\ y \in Nat
      BY <1>1
    <2> QED
      BY <2>1
  <1>6. Max(S) \in S
    <2> HIDE DEF S
    <2>1. \E x \in S : \A y \in S : x >= y
      BY <1>4, <1>5
    <2> QED
      BY <2>1 DEF Max
  <1>7. Latest(Len(log)) = Max(S)
    BY DEF Latest
  <1> HIDE DEF S
  <1> QED
    BY <1>1, <1>6, <1>7
----------------------------------------------------------------------------
(* What a snapshot or the locals of a thread say of a log, they say of     *)
(* every longer one.                                                       *)
LEMMA LogGrows ==
    ASSUME NEW lg \in Seq(Nat), NEW n \in Nat
    PROVE  LET lh == Append(lg, n)
           IN  /\ lh \in Seq(Nat) /\ Len(lh) = Len(lg) + 1 /\ Len(lg) \in Nat
               /\ lh[Len(lg) + 1] = n
               /\ \A i \in 1..Len(lg) : lh[i] = lg[i]
  BY AppendProperties, LenProperties

LEMMA LocatedLater ==
    ASSUME NEW lg \in Seq(Nat), NEW n \in Nat, NEW r \in Sessions, Located(r, lg)
    PROVE  Located(r, Append(lg, n))
  <1> DEFINE lh == Append(lg, n)
  <1>1. /\ Len(lh) = Len(lg) + 1 /\ Len(lg) \in Nat
        /\ \A i \in 1..Len(lg) : lh[i] = lg[i]
    BY LogGrows
  <1>2. r.root \in Nat /\ r.root <= Len(lg)
    BY DEF Located, Sessions
  <1> HIDE DEF lh
  <1>3. r.root <= Len(lh)
    BY <1>1, <1>2
  <1>4. ASSUME r.cursor # 0
        PROVE  r.event \in 1..Len(lh) /\ lh[r.event] = r.cursor /\ r.root >= r.event
    <2>1. r.event \in 1..Len(lg) /\ lg[r.event] = r.cursor /\ r.root >= r.event
      BY <1>4 DEF Located
    <2> QED
      BY <1>1, <2>1
  <1>5. Located(r, lh)
    BY <1>3, <1>4 DEF Located
  <1> QED
    BY <1>5 DEF lh

LEMMA SoundLater ==
    ASSUME NEW lg \in Seq(Nat), NEW n \in Nat, NEW l, Sound(l, lg)
    PROVE  Sound(l, Append(lg, n))
  <1> DEFINE lh == Append(lg, n)
  <1>1. /\ Len(lh) = Len(lg) + 1 /\ Len(lg) \in Nat
        /\ \A i \in 1..Len(lg) : lh[i] = lg[i]
    BY LogGrows
  <1>2. l \in Locals /\ l.snap \in Sessions /\ l.loaded \in Nat
    BY DEF Sound, Locals
  <1>3. Located(l.snap, lh)
    BY <1>2, LocatedLater DEF Sound
  <1> HIDE DEF lh
  <1>4. l.loaded <= Len(lh)
    BY <1>1, <1>2 DEF Sound
  <1>5. ASSUME l.pc \in Written PROVE l.event \in 1..Len(lh) /\ lh[l.event] = l.seq
    BY <1>1, <1>5 DEF Sound
  <1>6. Sound(l, lh)
    BY <1>2, <1>3, <1>4, <1>5 DEF Sound
  <1> QED
    BY <1>6 DEF lh

(* A thread that has nothing in hand.                                      *)
LEMMA IdleIsSound ==
    ASSUME NEW lg \in Seq(Nat)
    PROVE  LET v == [IdleThread EXCEPT !.pc = "vault"]
           IN  /\ Sound(IdleThread, lg) /\ IdleThread.pc = "idle"
               /\ Sound(v, lg) /\ v.pc = "vault"
  <1> DEFINE v == [IdleThread EXCEPT !.pc = "vault"]
  <1>1. Len(lg) \in Nat
    BY LenProperties
  <1>2. NewSession \in Sessions /\ NewSession.root = 0 /\ NewSession.cursor = 0
    BY DEF NewSession, Sessions, Stages, TaskStates
  <1>3. Located(NewSession, lg)
    BY <1>1, <1>2 DEF Located
  <1>4. /\ IdleThread \in Locals /\ IdleThread.pc = "idle" /\ IdleThread.snap = NewSession
        /\ IdleThread.loaded = 0
        /\ v \in Locals /\ v.pc = "vault" /\ v.snap = NewSession /\ v.loaded = 0
    BY <1>2 DEF IdleThread, Locals, ThreadSteps
  <1>5. Sound(IdleThread, lg)
    BY <1>1, <1>3, <1>4 DEF Sound, Written
  <1>6. Sound(v, lg)
    <2> HIDE DEF v
    <2> QED
      BY <1>1, <1>3, <1>4 DEF Sound, Written
  <1> QED
    BY <1>4, <1>5, <1>6

----------------------------------------------------------------------------
(* The steps of one thread.                                                *)

(* A step that saves nothing and mirrors nothing.                          *)
LEMMA LocalStep ==
    ASSUME EventInv, NEW t \in Threads, NEW l, Sound(l, log),
           Become(t, l), UNCHANGED << session, log, vault, mirroring >>,
           l.pc \notin MirrorSteps, thread[t].pc \notin MirrorSteps \cup {"vault"}
    PROVE  EventInv'
  <1>1. thread' = [thread EXCEPT ![t] = l]
    BY DEF Become
  <1>2. /\ thread'[t] = l /\ DOMAIN thread' = Threads
        /\ \A u \in Threads \ {t} : thread'[u] = thread[u]
        /\ thread' = [u \in Threads |-> thread'[u]]
    BY <1>1 DEF EventInv, ThreadsOK
  <1>3. StoreOK'
    BY DEF EventInv, StoreOK
  <1>4. ThreadsOK'
    BY <1>2 DEF EventInv, ThreadsOK
  <1>5. MirrorsOK'
    BY <1>2 DEF EventInv, MirrorsOK
  <1>6. RootReachesVault'
    <2>1. ASSUME NEW u \in Threads, WillMirror(thread[u], session.root)
          PROVE  WillMirror(thread'[u], session.root)
      BY <1>2, <2>1 DEF WillMirror
    <2> QED
      BY <2>1 DEF EventInv, RootReachesVault, IsFinal
  <1> QED
    BY <1>3, <1>4, <1>5, <1>6 DEF EventInv

(* Steps of the subscribers and stuttering.                                *)
LEMMA IdleStep ==
    ASSUME EventInv, UNCHANGED << session, log, vault, mirroring, thread >>
    PROVE  EventInv'
  BY DEF EventInv, StoreOK, ThreadsOK, MirrorsOK, RootReachesVault, IsFinal, WillMirror

LEMMA NumberKeeps ==
    ASSUME EventInv, NEW t \in Threads, NumberEvent(t)
    PROVE  EventInv'
  <1>1. Sound(thread[t], log) /\ thread[t].pc = "idle" /\ UNCHANGED << session, log, vault, mirroring >>
    BY DEF EventInv, ThreadsOK, NumberEvent, At
  <1>2. PICK n \in Nat : Become(t, [thread[t] EXCEPT !.pc = "write", !.seq = n])
    <2>1. session.cursor + 1 \in Nat /\ Latest(Len(log)) + 1 \in Nat
      BY LatestIsNatural DEF EventInv, StoreOK, Sessions
    <2> QED
      BY <2>1 DEF NumberEvent
  <1> DEFINE l == [thread[t] EXCEPT !.pc = "write", !.seq = n]
  <1>3. Sound(l, log) /\ l.pc = "write"
    BY <1>1 DEF Sound, Locals, ThreadSteps, Written
  <1>4. Become(t, l)
    BY <1>2
  <1> HIDE DEF l
  <1> QED
    BY <1>1, <1>3, <1>4, LocalStep DEF MirrorSteps

LEMMA WriteKeeps ==
    ASSUME EventInv, NEW t \in Threads, WriteEvent(t)
    PROVE  EventInv'
  <1> DEFINE n == thread[t].seq
             l == [thread[t] EXCEPT !.pc = "cache", !.event = Len(log) + 1]
             lh == Append(log, n)
  <1>1. /\ Sound(thread[t], log) /\ thread[t].pc = "write" /\ n \in Nat
        /\ log \in Seq(Nat) /\ session \in Sessions /\ vault \in Nat /\ vault <= Len(log)
    BY DEF EventInv, ThreadsOK, StoreOK, WriteEvent, At, Sound, Locals
  <1>2. log' = lh /\ thread' = [thread EXCEPT ![t] = l] /\ UNCHANGED << session, vault, mirroring >>
    BY DEF WriteEvent, Become
  <1>3. /\ lh \in Seq(Nat) /\ Len(lh) = Len(log) + 1 /\ Len(log) \in Nat /\ lh[Len(log) + 1] = n
        /\ Sound(thread[t], lh)
    BY <1>1, LogGrows, SoundLater
  <1>4. Sound(l, lh) /\ l.pc = "cache"
    <2> HIDE DEF lh, n
    <2>1. thread[t] \in Locals /\ Len(log) + 1 \in Nat
      BY <1>1, <1>3 DEF Sound
    <2>2. /\ l \in Locals /\ l.pc = "cache" /\ l.seq = thread[t].seq /\ l.event = Len(log) + 1
          /\ l.snap = thread[t].snap /\ l.loaded = thread[t].loaded
      BY <2>1 DEF Locals, ThreadSteps
    <2> HIDE DEF l
    <2> QED
      BY <1>3, <2>2 DEF Sound, Written, n
  <1>5. ASSUME NEW u \in Threads PROVE Sound(thread[u], lh)
    BY <1>1, SoundLater DEF EventInv, ThreadsOK
  <1>6. Located(session, lh)
    BY <1>1, LocatedLater DEF EventInv, StoreOK
  <1> HIDE DEF l, lh, n
  <1>7. /\ thread'[t] = l /\ DOMAIN thread' = Threads
        /\ \A u \in Threads \ {t} : thread'[u] = thread[u]
        /\ thread' = [u \in Threads |-> thread'[u]]
    BY <1>2 DEF EventInv, ThreadsOK
  <1>8. StoreOK'
    BY <1>1, <1>2, <1>3, <1>6 DEF StoreOK
  <1>9. ThreadsOK'
    BY <1>2, <1>4, <1>5, <1>7 DEF ThreadsOK
  <1>10. MirrorsOK'
    BY <1>1, <1>2, <1>4, <1>7 DEF EventInv, MirrorsOK, MirrorSteps
  <1>11. RootReachesVault'
    <2>1. ASSUME NEW u \in Threads, WillMirror(thread[u], session.root)
          PROVE  WillMirror(thread'[u], session.root)
      BY <1>1, <1>7, <2>1 DEF WillMirror, MirrorSteps
    <2> QED
      BY <1>2, <2>1 DEF EventInv, RootReachesVault, IsFinal
  <1> QED
    BY <1>8, <1>9, <1>10, <1>11 DEF EventInv

(* The steps between the write and the save.                               *)
LEMMA BeforeSaveKeeps ==
    ASSUME EventInv, NEW t \in Threads,
           CacheEvent(t) \/ ReadCursor(t) \/ ReadRoot(t) \/ WarmCache(t) \/ ReadSession(t)
    PROVE  EventInv'
  <1>1. /\ Sound(thread[t], log) /\ thread[t] \in Locals /\ Located(session, log)
        /\ session \in Sessions /\ Len(log) \in Nat
        /\ UNCHANGED << session, log, vault, mirroring >>
    BY LenProperties DEF EventInv, ThreadsOK, StoreOK, Sound, CacheEvent, ReadCursor, ReadRoot, WarmCache,
       ReadSession
  <1>2. thread[t].pc \in {"cache", "cursor", "root", "warm", "idle"}
    BY DEF CacheEvent, ReadCursor, ReadRoot, WarmCache, ReadSession, At
  <1>3. Sound(IdleThread, log) /\ IdleThread.pc = "idle"
    BY IdleIsSound DEF EventInv, StoreOK
  <1>4. PICK l : Become(t, l) /\ Sound(l, log) /\ l.pc \notin MirrorSteps
    <2>1. CASE CacheEvent(t)
      <3> DEFINE l == [thread[t] EXCEPT !.pc = "cursor"]
      <3>1. Sound(l, log) /\ l.pc = "cursor"
        BY <1>1, <2>1 DEF CacheEvent, At, Sound, Locals, ThreadSteps, Written
      <3>2. Become(t, l)
        BY <2>1 DEF CacheEvent, Goto
      <3> HIDE DEF l
      <3> QED
        BY <3>1, <3>2 DEF MirrorSteps
    <2>2. CASE ReadCursor(t)
      <3> DEFINE l == [thread[t] EXCEPT !.pc = "root", !.snap = session]
      <3>1. Sound(l, log) /\ l.pc = "root"
        BY <1>1, <2>2 DEF ReadCursor, At, Sound, Locals, ThreadSteps, Written
      <3>2. Become(t, l) \/ Become(t, IdleThread)
        BY <2>2 DEF ReadCursor
      <3> HIDE DEF l
      <3> QED
        BY <1>3, <3>1, <3>2 DEF MirrorSteps
    <2>3. CASE ReadRoot(t)
      <3> DEFINE l == [thread[t] EXCEPT !.pc = "warm", !.loaded = Len(log)]
      <3>1. /\ l \in Locals /\ l.pc = "warm" /\ l.loaded = Len(log) /\ l.event = thread[t].event
            /\ l.seq = thread[t].seq /\ l.snap = thread[t].snap
        BY <1>1 DEF Locals, ThreadSteps
      <3>2. Become(t, l) /\ thread[t].pc = "root"
        BY <2>3 DEF ReadRoot, At
      <3>3. Sound(l, log)
        <4> HIDE DEF l
        <4>1. thread[t].event \in 1..Len(log) /\ log[thread[t].event] = thread[t].seq
          BY <1>1, <3>2 DEF Sound, Written
        <4> QED
          BY <1>1, <3>1, <4>1 DEF Sound
      <3> HIDE DEF l
      <3> QED
        BY <3>1, <3>2, <3>3 DEF MirrorSteps
    <2>4. CASE WarmCache(t)
      <3> DEFINE l == [thread[t] EXCEPT !.pc = "advance"]
      <3>1. Sound(l, log) /\ l.pc = "advance"
        BY <1>1, <2>4 DEF WarmCache, At, Sound, Locals, ThreadSteps, Written
      <3>2. Become(t, l)
        BY <2>4 DEF WarmCache, Goto
      <3> HIDE DEF l
      <3> QED
        BY <3>1, <3>2 DEF MirrorSteps
    <2>5. CASE ReadSession(t)
      <3> DEFINE l == [thread[t] EXCEPT !.pc = "update", !.snap = session]
      <3>1. Sound(l, log) /\ l.pc = "update"
        BY <1>1, <2>5 DEF ReadSession, At, Sound, Locals, ThreadSteps, Written
      <3>2. Become(t, l)
        BY <2>5 DEF ReadSession
      <3> HIDE DEF l
      <3> QED
        BY <3>1, <3>2 DEF MirrorSteps
    <2> QED
      BY <2>1, <2>2, <2>3, <2>4, <2>5
  <1> QED
    BY <1>1, <1>2, <1>4, LocalStep DEF MirrorSteps

----------------------------------------------------------------------------
(* save_run_session.                                                       *)

(* What a save makes of the stored record: the three parts of the cursor   *)
(* come from one of the two records, the number is never less, a final     *)
(* stage and recorded tasks stay.                                          *)
LEMMA MergeKeeps ==
    ASSUME NEW candidate \in Sessions, NEW current \in Sessions
    PROVE  LET m == Merge(candidate, current)
           IN  /\ m \in Sessions
               /\ \/ m.cursor = candidate.cursor /\ m.event = candidate.event /\ m.root = candidate.root
                  \/ m.cursor = current.cursor /\ m.event = current.event /\ m.root = current.root
               /\ m.cursor >= current.cursor
               /\ IsFinal(current) => IsFinal(m)
               /\ current.tasks = "recorded" => m.tasks = "recorded"
  <1> DEFINE a == PreserveEventCursor(candidate, current)
             b == PreserveFinalLifecycle(a, current)
             m == MergeArtifacts(b, current)
  <1>1. /\ a \in Sessions /\ a.stage = candidate.stage /\ a.tasks = candidate.tasks
        /\ \/ a.cursor = candidate.cursor /\ a.event = candidate.event /\ a.root = candidate.root
           \/ a.cursor = current.cursor /\ a.event = current.event /\ a.root = current.root
        /\ a.cursor >= current.cursor
    <2>1. candidate.cursor \in Nat /\ current.cursor \in Nat
      BY DEF Sessions
    <2>2. CASE current.cursor <= candidate.cursor
      <3>1. a = candidate
        BY <2>2 DEF PreserveEventCursor
      <3> QED
        BY <2>1, <2>2, <3>1
    <2>3. CASE ~(current.cursor <= candidate.cursor)
      <3>1. a = [candidate EXCEPT !.event = current.event, !.cursor = current.cursor,
                                  !.root = current.root]
        BY <2>3 DEF PreserveEventCursor
      <3> HIDE DEF a
      <3>2. /\ a \in Sessions /\ a.stage = candidate.stage /\ a.tasks = candidate.tasks
            /\ a.cursor = current.cursor /\ a.event = current.event /\ a.root = current.root
        BY <3>1 DEF Sessions
      <3> QED
        BY <2>1, <3>2
    <2> QED
      BY <2>2, <2>3
  <1> HIDE DEF a
  <1>2. /\ b \in Sessions /\ b.tasks = candidate.tasks
        /\ b.cursor = a.cursor /\ b.event = a.event /\ b.root = a.root
        /\ IsFinal(current) => IsFinal(b)
    BY <1>1 DEF PreserveFinalLifecycle, IsFinal, Sessions, FinalStages
  <1> HIDE DEF b
  <1>3. /\ m \in Sessions /\ m.stage = b.stage
        /\ m.cursor = b.cursor /\ m.event = b.event /\ m.root = b.root
        /\ current.tasks = "recorded" => m.tasks = "recorded"
    BY <1>2 DEF MergeArtifacts, Sessions, TaskStates
  <1>4. Merge(candidate, current) = m
    BY DEF Merge, a, b
  <1> HIDE DEF m
  <1> QED
    BY <1>1, <1>2, <1>3, <1>4 DEF IsFinal

LEMMA SaveKeeps ==
    ASSUME EventInv, NEW t \in Threads, NEW candidate \in Sessions, Located(candidate, log),
           thread[t].pc \in {"advance", "update"}, SaveRunSession(t, candidate)
    PROVE  EventInv'
  <1> DEFINE v == [IdleThread EXCEPT !.pc = "vault"]
  <1>1. /\ session \in Sessions /\ Located(session, log) /\ Len(log) \in Nat
        /\ session' = Merge(candidate, session)
        /\ UNCHANGED << log, vault, mirroring >>
    BY LenProperties DEF EventInv, StoreOK, SaveRunSession
  <1>2. /\ session' \in Sessions
        /\ \/ session'.cursor = candidate.cursor /\ session'.event = candidate.event
              /\ session'.root = candidate.root
           \/ session'.cursor = session.cursor /\ session'.event = session.event
              /\ session'.root = session.root
        /\ IsFinal(session) => IsFinal(session')
    BY <1>1, MergeKeeps
  <1>3. Located(session', log)
    BY <1>1, <1>2 DEF Located
  <1>4. /\ Sound(IdleThread, log) /\ IdleThread.pc = "idle"
        /\ Sound(v, log) /\ v.pc = "vault"
    BY IdleIsSound DEF EventInv, StoreOK
  <1>5. Become(t, v) \/ (~IsFinal(session') /\ Become(t, IdleThread))
    BY DEF SaveRunSession
  <1> HIDE DEF v
  <1>6. PICK l : /\ Become(t, l) /\ Sound(l, log) /\ l.pc \in {"vault", "idle"}
                 /\ IsFinal(session') => l.pc = "vault"
    BY <1>4, <1>5
  <1>7. /\ thread'[t] = l /\ DOMAIN thread' = Threads
        /\ \A u \in Threads \ {t} : thread'[u] = thread[u]
        /\ thread' = [u \in Threads |-> thread'[u]]
    BY <1>6 DEF EventInv, ThreadsOK, Become
  <1>8. StoreOK'
    BY <1>1, <1>2, <1>3 DEF EventInv, StoreOK
  <1>9. ThreadsOK'
    BY <1>1, <1>6, <1>7 DEF EventInv, ThreadsOK
  <1>10. MirrorsOK'
    BY <1>1, <1>6, <1>7 DEF EventInv, MirrorsOK, MirrorSteps
  <1>11. RootReachesVault'
    <2>1. IsFinal(session') => WillMirror(thread'[t], session'.root)
      BY <1>6, <1>7 DEF WillMirror
    <2> QED
      BY <2>1 DEF RootReachesVault, IsFinal
  <1> QED
    BY <1>8, <1>9, <1>10, <1>11 DEF EventInv

LEMMA SavesKeep ==
    ASSUME EventInv, NEW t \in Threads,
           \/ AdvanceCursor(t)
           \/ \E stage \in Stages : UpdateStage(t, stage)
           \/ \E tasks \in TaskStates \ {"none"} : UpdateTasks(t, tasks)
    PROVE  \E candidate \in Sessions :
              /\ Located(candidate, log) /\ thread[t].pc \in {"advance", "update"}
              /\ SaveRunSession(t, candidate)
  <1>1. /\ Sound(thread[t], log) /\ thread[t] \in Locals /\ Located(thread[t].snap, log)
        /\ thread[t].snap \in Sessions
    BY DEF EventInv, ThreadsOK, Sound, Locals
  <1>2. CASE AdvanceCursor(t)
    <2> DEFINE c == [thread[t].snap EXCEPT !.cursor = thread[t].seq, !.event = thread[t].event,
                                           !.root = thread[t].loaded]
    <2>1. thread[t].seq \in Nat /\ thread[t].event \in Nat /\ thread[t].loaded \in Nat
      BY <1>1 DEF Locals
    <2>2. c \in Sessions /\ c.cursor = thread[t].seq /\ c.event = thread[t].event /\ c.root = thread[t].loaded
      BY <1>1, <2>1 DEF Sessions
    <2>3. SaveRunSession(t, c) /\ thread[t].pc = "advance"
      BY <1>2 DEF AdvanceCursor, At
    <2> HIDE DEF c
    <2>4. Located(c, log)
      BY <1>1, <2>2, <2>3 DEF Located, Sound, Written
    <2> QED
      BY <2>2, <2>3, <2>4
  <1>3. ASSUME NEW stage \in Stages, UpdateStage(t, stage)
        PROVE  \E candidate \in Sessions :
              /\ Located(candidate, log) /\ thread[t].pc \in {"advance", "update"}
              /\ SaveRunSession(t, candidate)
    <2> DEFINE c == [thread[t].snap EXCEPT !.stage = stage]
    <2>1. c \in Sessions /\ Located(c, log)
      BY <1>1 DEF Sessions, Located
    <2>2. SaveRunSession(t, c) /\ thread[t].pc = "update"
      BY <1>3 DEF UpdateStage, At
    <2> HIDE DEF c
    <2> QED
      BY <2>1, <2>2
  <1>4. ASSUME NEW tasks \in TaskStates, UpdateTasks(t, tasks)
        PROVE  \E candidate \in Sessions :
              /\ Located(candidate, log) /\ thread[t].pc \in {"advance", "update"}
              /\ SaveRunSession(t, candidate)
    <2> DEFINE c == [thread[t].snap EXCEPT !.tasks = tasks]
    <2>1. c \in Sessions /\ Located(c, log)
      BY <1>1 DEF Sessions, Located
    <2>2. SaveRunSession(t, c) /\ thread[t].pc = "update"
      BY <1>4 DEF UpdateTasks, At
    <2> HIDE DEF c
    <2> QED
      BY <2>1, <2>2
  <1> QED
    BY <1>2, <1>3, <1>4

----------------------------------------------------------------------------
(* _materialize_vault.                                                     *)
LEMMA MirrorKeeps ==
    ASSUME EventInv, NEW t \in Threads, BeginMirror(t) \/ WarmMirror(t) \/ WriteMirror(t)
    PROVE  EventInv'
  <1>1. /\ Sound(thread[t], log) /\ thread[t] \in Locals /\ Len(log) \in Nat
        /\ session \in Sessions /\ session.root \in Nat /\ session.root <= Len(log)
        /\ vault \in Nat /\ vault <= Len(log)
        /\ UNCHANGED << session, log >>
    BY LenProperties DEF EventInv, ThreadsOK, StoreOK, Sound, Located, Sessions, BeginMirror, WarmMirror, WriteMirror
  <1>2. ASSUME NEW l, thread' = [thread EXCEPT ![t] = l]
        PROVE  /\ thread'[t] = l /\ DOMAIN thread' = Threads
               /\ \A u \in Threads \ {t} : thread'[u] = thread[u]
               /\ thread' = [u \in Threads |-> thread'[u]]
    BY <1>2 DEF EventInv, ThreadsOK
  <1>3. CASE BeginMirror(t)
    <2> DEFINE l == [thread[t] EXCEPT !.pc = "vault_warm", !.loaded = Len(log)]
    <2>1. thread' = [thread EXCEPT ![t] = l] /\ mirroring = NoThread /\ mirroring' = t /\ UNCHANGED vault
      BY <1>3 DEF BeginMirror, Become
    <2>2. /\ l \in Locals /\ l.pc = "vault_warm" /\ l.loaded = Len(log) /\ l.snap = thread[t].snap
      BY <1>1 DEF Locals, ThreadSteps
    <2> HIDE DEF l
    <2>3. Sound(l, log)
      BY <1>1, <2>2 DEF Sound, Written
    <2>4. StoreOK' /\ ThreadsOK'
      BY <1>1, <1>2, <2>1, <2>3 DEF EventInv, StoreOK, ThreadsOK
    <2>5. MirrorsOK'
      BY <1>1, <1>2, <2>1, <2>2, EventStoreAssumption DEF EventInv, MirrorsOK
    <2>6. RootReachesVault'
      <3>1. WillMirror(thread'[t], session'.root)
        BY <1>1, <1>2, <2>1, <2>2 DEF WillMirror, MirrorSteps
      <3> QED
        BY <3>1 DEF RootReachesVault
    <2> QED
      BY <2>4, <2>5, <2>6 DEF EventInv
  <1>4. CASE WarmMirror(t)
    <2> DEFINE l == [thread[t] EXCEPT !.pc = "vault_write"]
    <2>1. thread' = [thread EXCEPT ![t] = l] /\ thread[t].pc = "vault_warm" /\ UNCHANGED << vault, mirroring >>
      BY <1>4 DEF WarmMirror, Goto, Become, At
    <2>2. /\ l \in Locals /\ l.pc = "vault_write" /\ l.loaded = thread[t].loaded /\ l.snap = thread[t].snap
      BY <1>1 DEF Locals, ThreadSteps
    <2> HIDE DEF l
    <2>3. Sound(l, log)
      BY <1>1, <2>2 DEF Sound, Written
    <2>4. StoreOK' /\ ThreadsOK'
      BY <1>1, <1>2, <2>1, <2>3 DEF EventInv, StoreOK, ThreadsOK
    <2>5. MirrorsOK'
      BY <1>1, <1>2, <2>1, <2>2 DEF EventInv, MirrorsOK, MirrorSteps
    <2>6. RootReachesVault'
      <3>1. ASSUME NEW u \in Threads, WillMirror(thread[u], session.root)
            PROVE  WillMirror(thread'[u], session.root)
        BY <1>2, <2>1, <2>2, <3>1 DEF WillMirror, MirrorSteps
      <3> QED
        BY <1>1, <2>1, <3>1 DEF EventInv, RootReachesVault, IsFinal
    <2> QED
      BY <2>4, <2>5, <2>6 DEF EventInv
  <1>5. CASE WriteMirror(t)
    <2>1. /\ thread' = [thread EXCEPT ![t] = IdleThread] /\ thread[t].pc = "vault_write"
          /\ vault' = thread[t].loaded /\ mirroring' = NoThread
      BY <1>5 DEF WriteMirror, Become, At
    <2>2. mirroring = t /\ thread[t].loaded >= vault /\ thread[t].loaded \in Nat /\ thread[t].loaded <= Len(log)
      BY <1>1, <2>1 DEF EventInv, MirrorsOK, MirrorSteps, Sound, Locals
    <2>3. Sound(IdleThread, log) /\ IdleThread.pc = "idle"
      BY IdleIsSound DEF EventInv, StoreOK
    <2>4. StoreOK' /\ ThreadsOK'
      BY <1>1, <1>2, <2>1, <2>2, <2>3 DEF EventInv, StoreOK, ThreadsOK
    <2>5. MirrorsOK'
      BY <1>1, <1>2, <2>1, <2>2, <2>3 DEF EventInv, MirrorsOK, MirrorSteps
    <2>6. RootReachesVault'
      <3>1. CASE vault >= session.root
        <4>1. vault' >= session'.root
          BY <1>1, <2>1, <2>2, <3>1
        <4> QED
          BY <4>1 DEF RootReachesVault
      <3>2. CASE WillMirror(thread[t], session.root)
        <4>1. vault' >= session'.root
          BY <1>1, <2>1, <2>2, <3>2 DEF WillMirror
        <4> QED
          BY <4>1 DEF RootReachesVault
      <3>3. ASSUME NEW u \in Threads, u # t, WillMirror(thread[u], session.root)
            PROVE  WillMirror(thread'[u], session'.root)
        BY <1>1, <1>2, <2>1, <3>3
      <3> QED
        BY <1>1, <3>1, <3>2, <3>3 DEF EventInv, RootReachesVault, IsFinal
    <2> QED
      BY <2>4, <2>5, <2>6 DEF EventInv
  <1> QED
    BY <1>3, <1>4, <1>5

----------------------------------------------------------------------------
LEMMA EventInit == Init => EventInv
  <1> SUFFICES ASSUME Init PROVE EventInv
    OBVIOUS
  <1>1. NewSession \in Sessions /\ NewSession.root = 0 /\ NewSession.cursor = 0 /\ ~IsFinal(NewSession)
    BY DEF NewSession, Sessions, Stages, TaskStates, IsFinal, FinalStages
  <1>2. log = << >> /\ log \in Seq(Nat) /\ Len(log) = 0
    BY DEF Init
  <1>3. Located(NewSession, log)
    BY <1>1, <1>2 DEF Located
  <1>4. /\ IdleThread \in Locals /\ IdleThread.pc = "idle" /\ IdleThread.snap = NewSession
        /\ IdleThread.loaded = 0
    BY <1>1 DEF IdleThread, Locals, ThreadSteps
  <1>5. Sound(IdleThread, log)
    BY <1>2, <1>3, <1>4 DEF Sound, Written
  <1>6. StoreOK
    BY <1>1, <1>2, <1>3 DEF Init, StoreOK
  <1>7. ThreadsOK
    BY <1>5 DEF Init, ThreadsOK
  <1>8. MirrorsOK
    BY <1>4 DEF Init, MirrorsOK, MirrorSteps
  <1>9. RootReachesVault
    BY <1>1 DEF Init, RootReachesVault
  <1> QED
    BY <1>6, <1>7, <1>8, <1>9 DEF EventInv

(* A step saves a session, or leaves the stored one as it is.              *)
LEMMA StepSaves ==
    ASSUME EventInv, [Next]_vars
    PROVE  \/ UNCHANGED session
           \/ \E t \in Threads, candidate \in Sessions :
                 /\ Located(candidate, log) /\ thread[t].pc \in {"advance", "update"}
                 /\ SaveRunSession(t, candidate)
  <1>1. ASSUME NEW t \in Threads, ThreadStep(t)
        PROVE  \/ UNCHANGED session
               \/ \E candidate \in Sessions :
                     /\ Located(candidate, log) /\ thread[t].pc \in {"advance", "update"}
                     /\ SaveRunSession(t, candidate)
    <2>1. CASE \/ AdvanceCursor(t)
               \/ \E stage \in Stages : UpdateStage(t, stage)
               \/ \E tasks \in TaskStates \ {"none"} : UpdateTasks(t, tasks)
      BY <2>1, SavesKeep
    <2>2. CASE \/ NumberEvent(t) \/ WriteEvent(t) \/ CacheEvent(t) \/ ReadCursor(t) \/ ReadRoot(t)
               \/ WarmCache(t) \/ ReadSession(t) \/ BeginMirror(t) \/ WarmMirror(t) \/ WriteMirror(t)
      BY <2>2 DEF NumberEvent, WriteEvent, CacheEvent, ReadCursor, ReadRoot, WarmCache, ReadSession,
                  BeginMirror, WarmMirror, WriteMirror
    <2> QED
      BY <1>1, <2>1, <2>2 DEF ThreadStep
  <1>2. ASSUME NEW s \in Subscribers, StreamStep(s) PROVE UNCHANGED session
    BY <1>2 DEF StreamStep, PollCache, PollDisk, WarmStream, CheckStream
  <1>3. CASE UNCHANGED vars
    BY <1>3 DEF vars
  <1> QED
    BY <1>1, <1>2, <1>3 DEF Next

LEMMA EventNext == EventInv /\ [Next]_vars => EventInv'
  <1> SUFFICES ASSUME EventInv, [Next]_vars PROVE EventInv'
    OBVIOUS
  <1>1. ASSUME NEW t \in Threads, ThreadStep(t) PROVE EventInv'
    <2>1. CASE \/ AdvanceCursor(t)
               \/ \E stage \in Stages : UpdateStage(t, stage)
               \/ \E tasks \in TaskStates \ {"none"} : UpdateTasks(t, tasks)
      BY <2>1, SavesKeep, SaveKeeps
    <2>2. CASE NumberEvent(t) \/ WriteEvent(t)
      BY <2>2, NumberKeeps, WriteKeeps
    <2>3. CASE CacheEvent(t) \/ ReadCursor(t) \/ ReadRoot(t) \/ WarmCache(t) \/ ReadSession(t)
      BY <2>3, BeforeSaveKeeps
    <2>4. CASE BeginMirror(t) \/ WarmMirror(t) \/ WriteMirror(t)
      BY <2>4, MirrorKeeps
    <2> QED
      BY <1>1, <2>1, <2>2, <2>3, <2>4 DEF ThreadStep
  <1>2. ASSUME NEW s \in Subscribers, StreamStep(s) PROVE EventInv'
    <2>1. UNCHANGED << session, log, vault, mirroring, thread >>
      BY <1>2 DEF StreamStep, PollCache, PollDisk, WarmStream, CheckStream
    <2> QED
      BY <2>1, IdleStep
  <1>3. CASE UNCHANGED vars
    BY <1>3, IdleStep DEF vars
  <1> QED
    BY <1>1, <1>2, <1>3 DEF Next

LEMMA EventAlways == Spec => []EventInv
  BY EventInit, EventNext, PTL DEF Spec

(* The stored cursor names a line of the log under its sequence number, at *)
(* or below the published Merkle root, whatever appends and saves of old   *)
(* snapshots interleave (_advance_session_event_cursor,                    *)
(* _preserve_event_cursor).                                                *)
THEOREM EventsCursorIsConsistent == Spec => []CursorIsConsistent
  <1>1. EventInv => CursorIsConsistent
    BY DEF EventInv, StoreOK, Located, CursorIsConsistent
  <1> QED
    BY <1>1, EventAlways, PTL

(* A final run that is quiet has every event its Merkle root covers in the *)
(* vault (save_run_session, _materialize_vault).                           *)
THEOREM EventsVaultCoversRoot == Spec => []VaultCoversRoot
  <1>1. EventInv => VaultCoversRoot
    <2> SUFFICES ASSUME EventInv, Quiet, IsFinal(session) PROVE vault >= session.root
      BY DEF VaultCoversRoot
    <2>1. ASSUME NEW t \in Threads PROVE ~WillMirror(thread[t], session.root)
      BY DEF Quiet, At, WillMirror, MirrorSteps
    <2> QED
      BY <2>1 DEF EventInv, RootReachesVault
  <1> QED
    BY <1>1, EventAlways, PTL

(* No save of an older snapshot takes the cursor back                      *)
(* (_preserve_event_cursor).                                               *)
THEOREM EventsCursorMonotone == Spec => CursorMonotone
  <1>1. EventInv /\ [Next]_vars => [session'.cursor >= session.cursor]_vars
    <2> SUFFICES ASSUME EventInv, [Next]_vars PROVE session'.cursor >= session.cursor
      OBVIOUS
    <2>1. session \in Sessions /\ session.cursor \in Nat
      BY DEF EventInv, StoreOK, Sessions
    <2>2. ASSUME NEW t, NEW candidate \in Sessions, SaveRunSession(t, candidate)
          PROVE  session'.cursor >= session.cursor
      BY <2>1, <2>2, MergeKeeps DEF SaveRunSession
    <2> QED
      BY <2>1, <2>2, StepSaves
  <1> QED
    BY <1>1, EventAlways, PTL DEF Spec, CursorMonotone

(* No save of an older snapshot brings a final run back to life            *)
(* (_preserve_final_lifecycle).                                            *)
THEOREM EventsFinalStaysFinal == Spec => FinalStaysFinal
  <1>1. EventInv /\ [Next]_vars => [IsFinal(session) => IsFinal(session')]_vars
    <2> SUFFICES ASSUME EventInv, [Next]_vars, IsFinal(session) PROVE IsFinal(session')
      OBVIOUS
    <2>1. session \in Sessions
      BY DEF EventInv, StoreOK
    <2>2. ASSUME NEW t, NEW candidate \in Sessions, SaveRunSession(t, candidate)
          PROVE  IsFinal(session')
      BY <2>1, <2>2, MergeKeeps DEF SaveRunSession
    <2> QED
      BY <2>2, StepSaves DEF IsFinal
  <1> QED
    BY <1>1, EventAlways, PTL DEF Spec, FinalStaysFinal

(* No save of an older snapshot replaces recorded agent tasks by the       *)
(* placeholder (_merge_artifacts).                                         *)
THEOREM EventsTasksStayRecorded == Spec => TasksStayRecorded
  <1>1. EventInv /\ [Next]_vars => [session.tasks = "recorded" => session'.tasks = "recorded"]_vars
    <2> SUFFICES ASSUME EventInv, [Next]_vars, session.tasks = "recorded"
                 PROVE  session'.tasks = "recorded"
      OBVIOUS
    <2>1. session \in Sessions
      BY DEF EventInv, StoreOK
    <2>2. ASSUME NEW t, NEW candidate \in Sessions, SaveRunSession(t, candidate)
          PROVE  session'.tasks = "recorded"
      BY <2>1, <2>2, MergeKeeps DEF SaveRunSession
    <2> QED
      BY <2>2, StepSaves
  <1> QED
    BY <1>1, EventAlways, PTL DEF Spec, TasksStayRecorded

=============================================================================
