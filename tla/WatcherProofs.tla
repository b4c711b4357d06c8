---------------------------- MODULE WatcherProofs ----------------------------
(***************************************************************************)
(* That the watcher never has more runs of a target in progress than one,  *)
(* two more for every stop that did not wait for its thread, and one more  *)
(* for every creation that raised once the run was queued: for any number  *)
(* of targets, threads, runs, stops and restarts.                          *)
(*                                                                         *)
(* The argument is an account.  The one run is the one the current thread  *)
(* is about to remember or, unless it is at work on the target, the one    *)
(* that is remembered.  Any other run in progress was given away by a late *)
(* thread, one that was stopped inside its tick and not waited for, or by  *)
(* a creation that raised.  A late thread can give away two runs of a      *)
(* target: it may clear the memory of one, having seen that an earlier run *)
(* was over, and overwrite the memory of the next by its own run.  X holds *)
(* the runs that were paid for, W the threads that may still note a run    *)
(* and V those that may still clear one; every late thread was counted in  *)
(* slow, and pays for its place in W and for that in V.                    *)
(***************************************************************************)
EXTENDS Watcher, FiniteSetTheorems, TLAPS

(* The locals of a thread, by its step.                                    *)
Shaped(l) ==
    /\ l.pc \in {"off", "idle"} => l.todo = {}
    /\ l.pc \in {"off", "idle", "poll"} => l.target = NoTarget
    /\ l.pc \in {"test", "clear", "collect", "create", "note"} => l.target \in Targets
    /\ l.pc \in {"off", "idle", "poll", "clear", "collect", "create"} => l.run = NoRun
    /\ l.pc \in {"test", "note"} => l.run \in Runs
    /\ l.target \notin l.todo

(* The registry knows the thread that was not told to stop, and no other.  *)
OneCurrent == \A th \in Threads : poller[th].pc # "off" /\ ~poller[th].stop <=> th = current

(* The name of a run that somebody remembers or will remember is taken.    *)
NamesKept ==
    /\ \A th \in Threads : poller[th].run # NoRun => session[poller[th].run].status # "free"
    /\ \A t \in Targets : entry[t].active # NoRun => session[entry[t].active].status # "free"

PollersInv ==
    /\ poller \in [Threads -> Pollers] /\ current \in Threads \cup {NoThread}
    /\ \A th \in Threads : Shaped(poller[th])
    /\ OneCurrent

SessionsInv ==
    /\ session \in [Runs -> Sessions] /\ entry \in [Targets -> Entries]
    /\ health \in [Targets -> Signatures \cup {Healthy}]
    /\ NamesKept

ThreadsInv == PollersInv /\ SessionsInv /\ slow \in Nat /\ strays \in Nat

InProgress(t) ==
    {r \in Runs : session[r].target = t /\ session[r].status \in {"running", "waiting"}}

(* The current thread has found nothing to wait for and is at work on t.   *)
Busy(t) == current # NoThread /\ poller[current].target = t /\ poller[current].pc # "test"

(* The run that needs no payment.                                          *)
Base(t) == IF Busy(t) THEN poller[current].run ELSE entry[t].active

(* The runs in progress that must be paid for.                             *)
Owed(t) == InProgress(t) \ {Base(t)}

(* A thread that was stopped and is not yet done with t, or that may still *)
(* clear the memory of its run.                                            *)
Late(th, t) == poller[th].stop /\ (t \in poller[th].todo \/ poller[th].target = t)

LateClear(th, t) ==
    /\ poller[th].stop
    /\ t \in poller[th].todo \/ (poller[th].target = t /\ poller[th].pc \in {"test", "clear"})

(* The thread is about to note the run.                                    *)
Holds(th, t, r) == poller[th].pc = "note" /\ poller[th].target = t /\ poller[th].run = r

(* The current thread may test a run that is not the one remembered now.   *)
Doubted(t) ==
    /\ current # NoThread /\ poller[current].target = t /\ poller[current].pc = "test"
    /\ poller[current].run # entry[t].active

Paid(t, X, W, V) ==
    /\ \A r \in Owed(t) : r \in X \/ \E th \in W : Holds(th, t, r)
    /\ \A th \in Threads : Late(th, t) => th \in W
    /\ \A th \in Threads : LateClear(th, t) => th \in V
    /\ Doubted(t) => poller[current].run \in X

Affordable(X, W, V) ==
    /\ IsFiniteSet(X) /\ IsFiniteSet(W) /\ IsFiniteSet(V)
    /\ Cardinality(X) + Cardinality(W) + Cardinality(V) <= 2 * slow + strays

Account(t) ==
    \E X \in SUBSET (Runs \cup {NoRun}), W, V \in SUBSET Threads :
        Affordable(X, W, V) /\ Paid(t, X, W, V)

WatcherInv == ThreadsInv /\ \A t \in Targets : Account(t)

----------------------------------------------------------------------------
(* Threads.                                                                *)

(* Whoever works was started last or was stopped since.                    *)
LEMMA ActorIs ==
    ASSUME PollersInv, NEW th \in Threads, poller[th].pc # "off"
    PROVE  (th = current /\ ~poller[th].stop) \/ (th # current /\ poller[th].stop)
BY DEF PollersInv, OneCurrent, Pollers

LEMMA LocalsOf ==
    ASSUME PollersInv, NEW th \in Threads
    PROVE  poller[th] \in Pollers /\ Shaped(poller[th])
BY DEF PollersInv

LEMMA OffIs == Off \in Pollers /\ Idle \in Pollers /\ Shaped(Off) /\ Shaped(Idle)
BY WatcherAssumption DEF Off, Idle, Pollers, Shaped

(* A thread goes on with the locals l.                                     *)
LEMMA ThreadMoves ==
    ASSUME PollersInv, NEW th \in Threads, NEW l \in Pollers, Shaped(l), Set(th, l),
           poller[th].pc # "off", l.pc # "off", l.stop = poller[th].stop, UNCHANGED current
    PROVE  PollersInv'
<1>1. poller' \in [Threads -> Pollers] /\ poller'[th] = l /\ \A u \in Threads \ {th} : poller'[u] = poller[u]
    BY DEF PollersInv, Set
<1>2. \A u \in Threads : Shaped(poller'[u])
    BY <1>1 DEF PollersInv
<1>3. OneCurrent'
    BY <1>1 DEF PollersInv, OneCurrent
<1> QED BY <1>1, <1>2, <1>3 DEF PollersInv

RestOf(th, todo) ==
    [Idle EXCEPT !.stop = poller[th].stop, !.todo = todo, !.pc = IF todo = {} THEN "idle" ELSE "poll"]

LEMMA RestIs ==
    ASSUME PollersInv, NEW th \in Threads, NEW todo \in SUBSET Targets
    PROVE  /\ RestOf(th, todo) \in Pollers /\ Shaped(RestOf(th, todo))
           /\ RestOf(th, todo).pc \in {"idle", "poll"} /\ RestOf(th, todo).stop = poller[th].stop
           /\ RestOf(th, todo).todo = todo /\ RestOf(th, todo).target = NoTarget
           /\ RestOf(th, todo).run = NoRun
<1>1. poller[th].stop \in BOOLEAN
    BY LocalsOf DEF Pollers
<1>2. RestOf(th, todo) \in Pollers
    BY <1>1 DEF RestOf, Idle, Off, Pollers
<1>3. /\ RestOf(th, todo).pc = IF todo = {} THEN "idle" ELSE "poll"
      /\ RestOf(th, todo).stop = poller[th].stop
      /\ RestOf(th, todo).todo = todo /\ RestOf(th, todo).target = NoTarget
      /\ RestOf(th, todo).run = NoRun
    BY DEF RestOf, Idle, Off
<1> HIDE DEF RestOf
<1> QED BY <1>2, <1>3, WatcherAssumption DEF Shaped

----------------------------------------------------------------------------
(* Sessions.                                                               *)

LEMMA SessionsAre ==
    /\ NoSession \in Sessions /\ NoSession.status = "free"
    /\ ResolvedSession \in Sessions /\ ResolvedSession.status = "resolved" /\ ResolvedSession.target = NoTarget
    /\ StuckSession \in Sessions /\ StuckSession.status = "stuck" /\ StuckSession.target = NoTarget
    /\ \A t \in Targets \cup {NoTarget} :
          Running(t) \in Sessions /\ Running(t).status = "running" /\ Running(t).target = t
BY DEF NoSession, ResolvedSession, StuckSession, Running, Sessions, Unresolved

LEMMA StoreTells ==
    ASSUME NEW ss \in [Runs -> Sessions], Store(ss)
    PROVE  /\ session' \in [Runs -> Sessions]
           /\ \A r \in Runs : session'[r] = ss[r] \/ (session'[r] = NoSession /\ Forgotten(r, ss))
BY SessionsAre DEF Store

(* The runs in progress of the sessions ss.                                *)
ProgressOf(ss, t) == {r \in Runs : ss[r].target = t /\ ss[r].status \in {"running", "waiting"}}

LEMMA StoreProgress ==
    ASSUME NEW ss \in [Runs -> Sessions], Store(ss), NEW t
    PROVE  InProgress(t)' \subseteq ProgressOf(ss, t)
<1>1. \A r \in Runs : session'[r] = ss[r] \/ session'[r] = NoSession
    BY StoreTells
<1> QED BY <1>1, SessionsAre DEF InProgress, ProgressOf

(* No name that somebody has is freed.                                     *)
LEMMA StoreKeepsNames ==
    ASSUME NEW ss \in [Runs -> Sessions], Store(ss),
           \A th \in Threads : poller'[th].run # NoRun =>
                 poller'[th].run \in Runs /\ ss[poller'[th].run].status # "free",
           \A t \in Targets : entry'[t].active # NoRun =>
                 entry'[t].active \in Runs /\ ss[entry'[t].active].status # "free"
    PROVE  NamesKept'
<1>1. \A r \in Runs : session'[r] = ss[r] \/ Forgotten(r, ss)
    BY StoreTells
<1>2. ASSUME NEW th \in Threads, poller'[th].run # NoRun
      PROVE  session'[poller'[th].run].status # "free"
  <2>1. ~Forgotten(poller'[th].run, ss)
      BY DEF Forgotten
  <2> QED BY <1>1, <1>2, <2>1
<1>3. ASSUME NEW t \in Targets, entry'[t].active # NoRun
      PROVE  session'[entry'[t].active].status # "free"
  <2>1. ~Forgotten(entry'[t].active, ss)
      BY DEF Forgotten
  <2> QED BY <1>1, <1>3, <2>1
<1> QED BY <1>2, <1>3 DEF NamesKept

LEMMA NewNameFree ==
    ASSUME Available # {}
    PROVE  NewName \in Runs /\ session[NewName].status = "free"
<1>1. NewName \in Available
    BY DEF NewName
<1> QED BY <1>1 DEF Available

LEMMA InProgressIs ==
    ASSUME NEW t
    PROVE  InProgress(t) \subseteq Runs /\ NoRun \notin InProgress(t)
BY WatcherAssumption DEF InProgress

(* The session s of run r is all that changes among the sessions.          *)
LEMMA BecomesTells ==
    ASSUME SessionsInv, NEW r \in Runs, NEW s \in Sessions, Becomes(r, s), NEW t \in Targets
    PROVE  /\ session' \in [Runs -> Sessions]
           /\ InProgress(t)' \subseteq InProgress(t) \cup {r}
           /\ ~(s.target = t /\ s.status \in {"running", "waiting"}) =>
                 InProgress(t)' \subseteq InProgress(t)
<1>1. PICK ss \in [Runs -> Sessions] : ss = [session EXCEPT ![r] = s]
    BY DEF SessionsInv
<1>2. Store(ss)
    BY <1>1 DEF Becomes
<1>3. ss[r] = s /\ \A q \in Runs \ {r} : ss[q] = session[q]
    BY <1>1 DEF SessionsInv
<1>4. InProgress(t)' \subseteq ProgressOf(ss, t)
    BY <1>2, StoreProgress
<1>5. \A q \in Runs \ {r} : q \in ProgressOf(ss, t) => q \in InProgress(t)
    BY <1>3 DEF ProgressOf, InProgress
<1>6. r \in ProgressOf(ss, t) <=> s.target = t /\ s.status \in {"running", "waiting"}
    BY <1>3 DEF ProgressOf
<1>7. ProgressOf(ss, t) \subseteq Runs
    BY DEF ProgressOf
<1> QED BY <1>2, <1>4, <1>5, <1>6, <1>7, StoreTells

LEMMA BecomesKeepsNames ==
    ASSUME SessionsInv, NEW r \in Runs, NEW s \in Sessions, Becomes(r, s), s.status # "free",
           \A th \in Threads : poller'[th].run \in {NoRun, r, poller[th].run},
           \A th \in Threads : poller[th].run \in Runs \cup {NoRun},
           UNCHANGED << health, entry >>
    PROVE  SessionsInv'
<1>1. PICK ss \in [Runs -> Sessions] : ss = [session EXCEPT ![r] = s]
    BY DEF SessionsInv
<1>2. Store(ss)
    BY <1>1 DEF Becomes
<1>3. ss[r] = s /\ \A q \in Runs \ {r} : ss[q] = session[q]
    BY <1>1 DEF SessionsInv
<1>4. \A t \in Targets : entry[t].active \in Runs \cup {NoRun}
    BY DEF SessionsInv, Entries
<1>5. \A th \in Threads : poller'[th].run # NoRun =>
          poller'[th].run \in Runs /\ ss[poller'[th].run].status # "free"
    BY <1>3 DEF SessionsInv, NamesKept
<1>6. \A t \in Targets : entry'[t].active # NoRun =>
          entry'[t].active \in Runs /\ ss[entry'[t].active].status # "free"
    BY <1>3, <1>4 DEF SessionsInv, NamesKept
<1>7. NamesKept'
    BY <1>2, <1>5, <1>6, StoreKeepsNames
<1> QED BY <1>2, <1>7, StoreTells DEF SessionsInv

----------------------------------------------------------------------------
(* The account.                                                            *)

LEMMA AccountOf ==
    ASSUME NEW t \in Targets, Account(t)
    PROVE  \E X \in SUBSET (Runs \cup {NoRun}), W \in SUBSET Threads, V \in SUBSET Threads :
               Affordable(X, W, V) /\ Paid(t, X, W, V)
BY DEF Account

LEMMA AccountIs ==
    ASSUME NEW t \in Targets, NEW X \in SUBSET (Runs \cup {NoRun}), NEW W \in SUBSET Threads,
           NEW V \in SUBSET Threads, Affordable(X, W, V)', Paid(t, X, W, V)'
    PROVE  Account(t)'
BY DEF Account

LEMMA Grows ==
    ASSUME NEW S, IsFiniteSet(S), NEW x
    PROVE  /\ IsFiniteSet(S \cup {x}) /\ Cardinality(S \cup {x}) \in Nat
           /\ Cardinality(S \cup {x}) <= Cardinality(S) + 1
<1>1. IsFiniteSet(S \cup {x}) /\ (Cardinality(S \cup {x}) = Cardinality(S) \/ Cardinality(S \cup {x}) = Cardinality(S) + 1)
    BY FS_AddElement
<1>2. Cardinality(S) \in Nat /\ Cardinality(S \cup {x}) \in Nat
    BY <1>1, FS_CardinalityType
<1> QED BY <1>1, <1>2

LEMMA Shrinks ==
    ASSUME NEW S, IsFiniteSet(S), NEW x \in S
    PROVE  /\ IsFiniteSet(S \ {x}) /\ Cardinality(S \ {x}) \in Nat
           /\ Cardinality(S \ {x}) = Cardinality(S) - 1
<1>1. IsFiniteSet(S \ {x}) /\ Cardinality(S \ {x}) = Cardinality(S) - 1
    BY FS_RemoveElement
<1> QED BY <1>1, FS_CardinalityType

(* What the sets of an account add up to.                                  *)
LEMMA AffordableIs ==
    ASSUME NEW X, NEW W, NEW V, Affordable(X, W, V)
    PROVE  /\ IsFiniteSet(X) /\ IsFiniteSet(W) /\ IsFiniteSet(V)
           /\ Cardinality(X) \in Nat /\ Cardinality(W) \in Nat /\ Cardinality(V) \in Nat
           /\ Cardinality(X) + Cardinality(W) + Cardinality(V) <= 2 * slow + strays
BY FS_CardinalityType DEF Affordable

(* Nobody becomes late, and what is held stays held: but for thread th.    *)
Calm(t, th) ==
    /\ \A u \in Threads \ {th} : (Late(u, t)' => Late(u, t)) /\ (LateClear(u, t)' => LateClear(u, t))
    /\ \A u \in Threads \ {th} : \A r \in Runs : Holds(u, t, r) => Holds(u, t, r)'

(* The current thread tests the run it tested before.                      *)
SameTest(t) == Doubted(t)' => Doubted(t) /\ poller'[current'].run = poller[current].run

(* Nothing more is owed.                                                   *)
LEMMA AccountStays ==
    ASSUME NEW t \in Targets, Account(t), slow \in Nat, strays \in Nat, slow' = slow,
           strays' \in {strays, strays + 1}, Owed(t)' \subseteq Owed(t), NEW th, Calm(t, th),
           Late(th, t)' => Late(th, t), LateClear(th, t)' => LateClear(th, t),
           \A r \in Owed(t)' : Holds(th, t, r) => Holds(th, t, r)',
           SameTest(t)
    PROVE  Account(t)'
<1>1. PICK X \in SUBSET (Runs \cup {NoRun}), W \in SUBSET Threads, V \in SUBSET Threads :
               Affordable(X, W, V) /\ Paid(t, X, W, V)
    BY AccountOf
<1>2. Affordable(X, W, V)'
    BY <1>1, AffordableIs DEF Affordable
<1>3. Owed(t)' \subseteq Runs
    BY DEF Owed, InProgress
<1>4. (\A r \in Owed(t) : r \in X \/ \E u \in W : Holds(u, t, r))'
    BY <1>1, <1>3 DEF Paid, Calm
<1>5. (\A u \in Threads : (Late(u, t) => u \in W) /\ (LateClear(u, t) => u \in V))'
    BY <1>1 DEF Paid, Calm
<1>6. (Doubted(t) => poller[current].run \in X)'
    BY <1>1 DEF Paid, SameTest
<1>7. Paid(t, X, W, V)'
    BY <1>4, <1>5, <1>6 DEF Paid
<1> QED BY <1>2, <1>7, AccountIs

(* Run b is owed as well; thread th pays for it with its place in W, or    *)
(* with that in V, or a stray run was counted.                             *)
LEMMA AccountGains ==
    ASSUME NEW t \in Targets, Account(t), slow \in Nat, strays \in Nat, slow' = slow,
           NEW b \in Runs \cup {NoRun}, Owed(t)' \subseteq Owed(t) \cup {b},
           NEW th \in Threads, Calm(t, th),
           Late(th, t)' => Late(th, t), LateClear(th, t)' => LateClear(th, t),
           Doubted(t)' => (Doubted(t) /\ poller'[current'].run = poller[current].run)
                          \/ poller'[current'].run = b,
           \/ /\ strays' = strays /\ Late(th, t) /\ ~Late(th, t)'
              /\ \A r \in Owed(t)' : Holds(th, t, r) => r = b
           \/ /\ strays' = strays /\ LateClear(th, t) /\ ~LateClear(th, t)'
              /\ \A r \in Runs : ~Holds(th, t, r)
           \/ /\ strays' = strays + 1 /\ \A r \in Runs : ~Holds(th, t, r)
    PROVE  Account(t)'
<1>1. PICK X \in SUBSET (Runs \cup {NoRun}), W \in SUBSET Threads, V \in SUBSET Threads :
               Affordable(X, W, V) /\ Paid(t, X, W, V)
    BY AccountOf
<1>2. PICK Y \in SUBSET (Runs \cup {NoRun}) : Y = X \cup {b}
    OBVIOUS
<1>3. IsFiniteSet(Y) /\ Cardinality(Y) \in Nat /\ Cardinality(Y) <= Cardinality(X) + 1
    BY <1>1, <1>2, AffordableIs, Grows
<1>4. Owed(t)' \subseteq Runs
    BY DEF Owed, InProgress
<1>5. (Doubted(t) => poller[current].run \in Y)'
    BY <1>1, <1>2 DEF Paid
<1>6. CASE /\ strays' = strays /\ Late(th, t) /\ ~Late(th, t)'
           /\ \A r \in Owed(t)' : Holds(th, t, r) => r = b
  <2>1. th \in W
      BY <1>1, <1>6 DEF Paid
  <2>2. PICK U \in SUBSET Threads : U = W \ {th}
      OBVIOUS
  <2>3. IsFiniteSet(U) /\ Cardinality(U) \in Nat /\ Cardinality(U) = Cardinality(W) - 1
      BY <1>1, <2>1, <2>2, AffordableIs, Shrinks
  <2>4. Affordable(Y, U, V)'
      BY <1>1, <1>3, <1>6, <2>3, AffordableIs DEF Affordable
  <2>5. (\A r \in Owed(t) : r \in Y \/ \E u \in U : Holds(u, t, r))'
    <3> SUFFICES ASSUME NEW r \in Owed(t)', r \notin Y
                 PROVE  \E u \in U : Holds(u, t, r)'
        OBVIOUS
    <3>1. PICK u \in W : Holds(u, t, r)
        BY <1>1, <1>2 DEF Paid
    <3>2. u # th
        BY <1>2, <1>6, <3>1
    <3> QED BY <1>4, <2>2, <3>1, <3>2 DEF Calm
  <2>6. (\A u \in Threads : (Late(u, t) => u \in U) /\ (LateClear(u, t) => u \in V))'
      BY <1>1, <1>6, <2>2 DEF Paid, Calm
  <2>7. Paid(t, Y, U, V)'
      BY <1>5, <2>5, <2>6 DEF Paid
  <2> QED BY <2>4, <2>7, AccountIs
<1>7. CASE \A r \in Runs : ~Holds(th, t, r)
  <2>1. (\A r \in Owed(t) : r \in Y \/ \E u \in W : Holds(u, t, r))'
    <3> SUFFICES ASSUME NEW r \in Owed(t)', r \notin Y
                 PROVE  \E u \in W : Holds(u, t, r)'
        OBVIOUS
    <3>1. PICK u \in W : Holds(u, t, r)
        BY <1>1, <1>2 DEF Paid
    <3>2. u # th
        BY <1>4, <1>7, <3>1
    <3> QED BY <1>4, <3>1, <3>2 DEF Calm
  <2>2. (\A u \in Threads : Late(u, t) => u \in W)'
      BY <1>1 DEF Paid, Calm
  <2>3. CASE strays' = strays /\ LateClear(th, t) /\ ~LateClear(th, t)'
    <3>1. th \in V
        BY <1>1, <2>3 DEF Paid
    <3>2. PICK U \in SUBSET Threads : U = V \ {th}
        OBVIOUS
    <3>3. IsFiniteSet(U) /\ Cardinality(U) \in Nat /\ Cardinality(U) = Cardinality(V) - 1
        BY <1>1, <3>1, <3>2, AffordableIs, Shrinks
    <3>4. Affordable(Y, W, U)'
        BY <1>1, <1>3, <2>3, <3>3, AffordableIs DEF Affordable
    <3>5. (\A u \in Threads : LateClear(u, t) => u \in U)'
        BY <1>1, <2>3, <3>2 DEF Paid, Calm
    <3>6. Paid(t, Y, W, U)'
        BY <1>5, <2>1, <2>2, <3>5 DEF Paid
    <3> QED BY <3>4, <3>6, AccountIs
  <2>4. CASE strays' = strays + 1
    <3>1. Affordable(Y, W, V)'
        BY <1>1, <1>3, <2>4, AffordableIs DEF Affordable
    <3>2. (\A u \in Threads : LateClear(u, t) => u \in V)'
        BY <1>1 DEF Paid, Calm
    <3>3. Paid(t, Y, W, V)'
        BY <1>5, <2>1, <2>2, <3>2 DEF Paid
    <3> QED BY <3>1, <3>3, AccountIs
  <2> QED BY <1>6, <1>7, <2>3, <2>4
<1> QED BY <1>6, <1>7

(* The current thread has seen that a run was over that was paid for, and  *)
(* goes on: that payment is for the run b which is remembered by now.      *)
LEMMA AccountSwaps ==
    ASSUME NEW t \in Targets, Account(t), slow \in Nat, strays \in Nat,
           slow' = slow, strays' = strays,
           NEW b \in Runs \cup {NoRun}, Owed(t)' \subseteq Owed(t) \cup {b},
           Doubted(t), poller[current].run \notin Owed(t)', ~Doubted(t)',
           NEW th \in Threads, Calm(t, th), \A r \in Runs : ~Holds(th, t, r),
           ~Late(th, t)', ~LateClear(th, t)'
    PROVE  Account(t)'
<1>1. PICK X \in SUBSET (Runs \cup {NoRun}), W \in SUBSET Threads, V \in SUBSET Threads :
               Affordable(X, W, V) /\ Paid(t, X, W, V)
    BY AccountOf
<1>2. PICK c \in X : c = poller[current].run
    BY <1>1 DEF Paid
<1>3. PICK Z \in SUBSET (Runs \cup {NoRun}) : Z = X \ {c}
    OBVIOUS
<1>4. PICK Y \in SUBSET (Runs \cup {NoRun}) : Y = Z \cup {b}
    OBVIOUS
<1>5. IsFiniteSet(Z) /\ Cardinality(Z) \in Nat /\ Cardinality(Z) = Cardinality(X) - 1
    BY <1>1, <1>3, AffordableIs, Shrinks
<1>6. IsFiniteSet(Y) /\ Cardinality(Y) \in Nat /\ Cardinality(Y) <= Cardinality(Z) + 1
    BY <1>4, <1>5, Grows
<1>7. Affordable(Y, W, V)'
    BY <1>1, <1>5, <1>6, AffordableIs DEF Affordable
<1>8. Owed(t)' \subseteq Runs
    BY DEF Owed, InProgress
<1>9. (\A r \in Owed(t) : r \in Y \/ \E u \in W : Holds(u, t, r))'
  <2> SUFFICES ASSUME NEW r \in Owed(t)', r \notin Y
               PROVE  \E u \in W : Holds(u, t, r)'
      OBVIOUS
  <2>1. PICK u \in W : Holds(u, t, r)
      BY <1>1, <1>2, <1>3, <1>4 DEF Paid
  <2>2. u # th
      BY <1>8, <2>1
  <2> QED BY <1>8, <2>1, <2>2 DEF Calm
<1>10. (\A u \in Threads : (Late(u, t) => u \in W) /\ (LateClear(u, t) => u \in V))'
    BY <1>1 DEF Paid, Calm
<1>11. Paid(t, Y, W, V)'
    BY <1>9, <1>10 DEF Paid
<1> QED BY <1>7, <1>11, AccountIs

(* A thread is stopped inside its tick and not waited for: it gets its two *)
(* places, and the run it is about to note is paid for.                    *)
LEMMA AccountStopped ==
    ASSUME NEW t \in Targets, Account(t), slow \in Nat, strays \in Nat,
           slow' = slow + 1, strays' = strays, NEW th \in Threads, Calm(t, th),
           \A r \in Owed(t)' : r \in Owed(t) \/ Holds(th, t, r)',
           \A r \in Runs : Holds(th, t, r) => Holds(th, t, r)',
           ~Doubted(t)'
    PROVE  Account(t)'
<1>1. PICK X \in SUBSET (Runs \cup {NoRun}), W \in SUBSET Threads, V \in SUBSET Threads :
               Affordable(X, W, V) /\ Paid(t, X, W, V)
    BY AccountOf
<1>2. PICK U \in SUBSET Threads : U = W \cup {th}
    OBVIOUS
<1>3. PICK P \in SUBSET Threads : P = V \cup {th}
    OBVIOUS
<1>4. IsFiniteSet(U) /\ Cardinality(U) \in Nat /\ Cardinality(U) <= Cardinality(W) + 1
    BY <1>1, <1>2, AffordableIs, Grows
<1>5. IsFiniteSet(P) /\ Cardinality(P) \in Nat /\ Cardinality(P) <= Cardinality(V) + 1
    BY <1>1, <1>3, AffordableIs, Grows
<1>6. Affordable(X, U, P)'
    BY <1>1, <1>4, <1>5, AffordableIs DEF Affordable
<1>7. Owed(t)' \subseteq Runs
    BY DEF Owed, InProgress
<1>8. (\A r \in Owed(t) : r \in X \/ \E u \in U : Holds(u, t, r))'
  <2> SUFFICES ASSUME NEW r \in Owed(t)', r \notin X, ~Holds(th, t, r)'
               PROVE  \E u \in U : Holds(u, t, r)'
      BY <1>2
  <2>1. PICK u \in W : Holds(u, t, r)
      BY <1>1 DEF Paid
  <2> QED BY <1>2, <1>7, <2>1 DEF Calm
<1>9. (\A u \in Threads : (Late(u, t) => u \in U) /\ (LateClear(u, t) => u \in P))'
    BY <1>1, <1>2, <1>3 DEF Paid, Calm
<1>10. Paid(t, X, U, P)'
    BY <1>8, <1>9 DEF Paid
<1> QED BY <1>6, <1>10, AccountIs

----------------------------------------------------------------------------
(* The steps of a thread.                                                  *)

LEMMA OthersCalm ==
    ASSUME NEW t \in Targets, NEW th, \A u \in Threads \ {th} : poller'[u] = poller[u]
    PROVE  Calm(t, th)
BY DEF Calm, Late, LateClear, Holds

LEMMA OwedShrinks ==
    ASSUME NEW t \in Targets, InProgress(t)' \subseteq InProgress(t),
           Base(t)' = Base(t) \/ Base(t) \notin InProgress(t)
    PROVE  Owed(t)' \subseteq Owed(t)
BY DEF Owed

(* A late thread does not disturb the current one.                         *)
LEMMA CurrentUndisturbed ==
    ASSUME PollersInv, NEW th \in Threads, th # current, UNCHANGED current,
           \A u \in Threads \ {th} : poller'[u] = poller[u], NEW t \in Targets
    PROVE  /\ Busy(t)' <=> Busy(t)
           /\ current # NoThread => poller'[current'] = poller[current]
           /\ Busy(t) => Base(t)' = Base(t)
           /\ ~Busy(t) => Base(t) = entry[t].active /\ Base(t)' = entry'[t].active
<1>1. current # NoThread => current \in Threads \ {th}
    BY DEF PollersInv
<1>2. current # NoThread => poller'[current'] = poller[current]
    BY <1>1
<1>3. Busy(t)' <=> Busy(t)
    BY <1>2 DEF Busy
<1>4. Busy(t) => Base(t)' = Base(t)
    BY <1>2, <1>3 DEF Base, Busy
<1>5. ~Busy(t) => Base(t) = entry[t].active /\ Base(t)' = entry'[t].active
    BY <1>3 DEF Base
<1> QED BY <1>2, <1>3, <1>4, <1>5

(* Thread th goes on with l and creates and notes no run of t; it clears   *)
(* the memory of t only while the current thread is at work on t.          *)
LEMMA ThreadKeepsAccount ==
    ASSUME WatcherInv, NEW th \in Threads, NEW l \in Pollers, Set(th, l),
           poller[th].pc \notin {"off", "note"}, l.stop = poller[th].stop,
           UNCHANGED << current, slow >>, strays' \in {strays, strays + 1}, NEW t \in Targets,
           InProgress(t)' \subseteq InProgress(t),
           entry'[t].active = entry[t].active \/ Busy(t),
           l.pc = "test" /\ l.target = t => l.run = entry'[t].active,
           th = current /\ ~Busy(t) /\ l.target = t /\ l.pc # "test" =>
               entry[t].active \notin InProgress(t),
           l.stop /\ (t \in l.todo \/ l.target = t) => t \in poller[th].todo \/ poller[th].target = t,
           l.stop /\ (t \in l.todo \/ (l.target = t /\ l.pc \in {"test", "clear"})) =>
               \/ t \in poller[th].todo
               \/ poller[th].target = t /\ poller[th].pc \in {"test", "clear"}
    PROVE  Account(t)'
<1> USE DEF WatcherInv, ThreadsInv
<1>1. poller'[th] = l /\ \A u \in Threads \ {th} : poller'[u] = poller[u]
    BY DEF Set, PollersInv
<1>2. Calm(t, th)
    BY <1>1, OthersCalm
<1>3. (Late(th, t)' => Late(th, t)) /\ (LateClear(th, t)' => LateClear(th, t))
    BY <1>1 DEF Late, LateClear
<1>4. \A r \in Runs : ~Holds(th, t, r)
    BY DEF Holds
<1>5. Owed(t)' \subseteq Runs
    BY DEF Owed, InProgress
<1>6. (Base(t)' = Base(t) \/ Base(t) \notin InProgress(t)) /\ SameTest(t)
  <2>1. CASE th # current
    <3>1. /\ Busy(t)' <=> Busy(t)
          /\ current # NoThread => poller'[current'] = poller[current]
          /\ Busy(t) => Base(t)' = Base(t)
          /\ ~Busy(t) => Base(t) = entry[t].active /\ Base(t)' = entry'[t].active
        BY <1>1, <2>1, CurrentUndisturbed
    <3>2. Base(t)' = Base(t)
        BY <3>1
    <3>3. SameTest(t)
        BY <3>1 DEF SameTest, Doubted, Busy
    <3> QED BY <3>2, <3>3
  <2>2. CASE th = current
    <3>1. current # NoThread /\ poller'[current'] = l
        BY <1>1, <2>2, WatcherAssumption
    <3>2. ~Doubted(t)'
        BY <3>1 DEF Doubted
    <3>3. CASE Busy(t)
      <4>1. poller[th].run = NoRun
        <5>1. Shaped(poller[th]) /\ poller[th] \in Pollers
            BY LocalsOf
        <5>2. poller[th].pc # "test" 
            BY <2>2, <3>3 DEF Busy
        <5> QED BY <5>1, <5>2 DEF Shaped, Pollers
      <4> QED BY <2>2, <3>2, <3>3, <4>1, InProgressIs DEF Base, SameTest
    <3>4. CASE ~Busy(t)
      <4>1. Base(t) = entry[t].active /\ entry'[t].active = entry[t].active
          BY <3>4 DEF Base
      <4>2. CASE Busy(t)'
          BY <2>2, <3>1, <3>2, <3>4, <4>1, <4>2 DEF Busy, SameTest
      <4>3. CASE ~Busy(t)'
          BY <3>2, <4>1, <4>3 DEF Base, SameTest
      <4> QED BY <4>2, <4>3
    <3> QED BY <3>3, <3>4
  <2> QED BY <2>1, <2>2
<1>7. Owed(t)' \subseteq Owed(t)
    BY <1>6, OwedShrinks
<1> QED BY <1>2, <1>3, <1>4, <1>5, <1>6, <1>7, AccountStays

(* The sessions and the memory stay as they are.                           *)
LEMMA QuietStep ==
    ASSUME WatcherInv, NEW th \in Threads, NEW l \in Pollers, Shaped(l), Set(th, l),
           poller[th].pc \notin {"off", "note"}, l.pc # "off", l.stop = poller[th].stop,
           UNCHANGED << health, session, entry, current, slow, strays >>,
           l.run # NoRun => l.run \in Runs /\ session[l.run].status # "free",
           l.pc = "test" => l.run = entry[l.target].active,
           \/ l.target = NoTarget
           \/ l.target = poller[th].target /\ poller[th].pc # "test"
           \/ l.target \in poller[th].todo /\ (l.pc # "test" => entry[l.target].active = NoRun),
           l.pc \in {"test", "clear"} => l.target \in poller[th].todo,
           l.stop => l.todo \subseteq poller[th].todo
    PROVE  WatcherInv'
<1>1. PollersInv'
    BY ThreadMoves DEF WatcherInv, ThreadsInv
<1>2. poller'[th] = l /\ \A u \in Threads \ {th} : poller'[u] = poller[u]
    BY DEF Set, PollersInv, WatcherInv, ThreadsInv
<1>3. NamesKept'
    BY <1>2 DEF NamesKept, WatcherInv, ThreadsInv, SessionsInv
<1>4. ThreadsInv'
    BY <1>1, <1>3 DEF WatcherInv, ThreadsInv, SessionsInv
<1>5. ASSUME NEW t \in Targets
      PROVE  Account(t)'
  <2>1. InProgress(t)' = InProgress(t)
      BY DEF InProgress
  <2>2. NoTarget # t
      BY WatcherAssumption
  <2>3. th = current /\ ~Busy(t) /\ l.target = t /\ l.pc # "test" => entry[t].active \notin InProgress(t)
    <3> SUFFICES ASSUME th = current, ~Busy(t), l.target = t, l.pc # "test"
                 PROVE  entry[t].active \notin InProgress(t)
        OBVIOUS
    <3>1. CASE poller[th].target = t
      <4>1. poller[th].pc = "test"
          BY <3>1, WatcherAssumption DEF Busy
      <4>2. entry[t].active = NoRun
          BY <2>2, <3>1, <4>1
      <4> QED BY <4>2, InProgressIs
    <3>2. CASE poller[th].target # t
        BY <2>2, <3>2, InProgressIs
    <3> QED BY <3>1, <3>2
  <2> QED BY <2>1, <2>2, <2>3, ThreadKeepsAccount
<1> QED BY <1>4, <1>5 DEF WatcherInv

LEMMA TickNext ==
    ASSUME WatcherInv, NEW th \in Threads, Tick(th)
    PROVE  WatcherInv'
<1> DEFINE l == [poller[th] EXCEPT !.pc = "poll", !.todo = Targets]
<1>1. poller[th] \in Pollers /\ Shaped(poller[th])
    BY LocalsOf DEF WatcherInv, ThreadsInv
<1>2. /\ l \in Pollers /\ l.pc = "poll" /\ l.stop = poller[th].stop /\ l.run = poller[th].run
      /\ l.target = poller[th].target /\ l.todo = Targets
    BY <1>1 DEF Pollers
<1>3. Set(th, l) /\ UNCHANGED << health, session, entry, current, slow, strays >>
    BY DEF Tick, bounds
<1> HIDE DEF l
<1>4. poller[th].pc = "idle" /\ ~poller[th].stop /\ poller[th].run = NoRun /\ poller[th].target = NoTarget
    BY <1>1 DEF Tick, Shaped
<1>5. Shaped(l)
    BY <1>2, <1>4, WatcherAssumption DEF Shaped
<1> QED BY <1>2, <1>3, <1>4, <1>5, QuietStep

LEMMA PollTargetNext ==
    ASSUME WatcherInv, NEW th \in Threads, NEW t \in Targets, PollTarget(th, t)
    PROVE  WatcherInv'
<1> DEFINE l == [poller[th] EXCEPT !.pc = IF entry[t].active = NoRun THEN "collect" ELSE "test",
                                   !.run = entry[t].active, !.target = t, !.todo = poller[th].todo \ {t}]
<1>1. poller[th] \in Pollers /\ Shaped(poller[th])
    BY LocalsOf DEF WatcherInv, ThreadsInv
<1>2. /\ poller[th].pc = "poll" /\ t \in poller[th].todo /\ Set(th, l)
      /\ UNCHANGED << health, session, entry, current, slow, strays >>
    BY DEF PollTarget, bounds
<1>3. entry[t].active \in Runs \cup {NoRun} /\ (entry[t].active # NoRun => session[entry[t].active].status # "free")
    BY DEF WatcherInv, ThreadsInv, SessionsInv, Entries, NamesKept
<1>4. /\ l \in Pollers /\ l.stop = poller[th].stop /\ l.run = entry[t].active
      /\ l.target = t /\ l.todo = poller[th].todo \ {t}
      /\ l.pc = IF entry[t].active = NoRun THEN "collect" ELSE "test"
    BY <1>1, <1>3 DEF Pollers
<1> HIDE DEF l
<1>5. Shaped(l)
    BY <1>3, <1>4 DEF Shaped
<1> QED BY <1>2, <1>3, <1>4, <1>5, QuietStep

LEMMA RestNext ==
    ASSUME WatcherInv, NEW th \in Threads, Rest(th, poller[th].todo),
           poller[th].pc = "collect",
           UNCHANGED << health, session, entry, current, slow, strays >>
    PROVE  WatcherInv'
<1> DEFINE l == RestOf(th, poller[th].todo)
<1>1. poller[th] \in Pollers /\ Shaped(poller[th]) /\ PollersInv
    BY LocalsOf DEF WatcherInv, ThreadsInv
<1>2. poller[th].todo \in SUBSET Targets
    BY <1>1 DEF Pollers, Shaped
<1>3. /\ l \in Pollers /\ Shaped(l) /\ l.pc \in {"idle", "poll"} /\ l.stop = poller[th].stop
      /\ l.todo = poller[th].todo /\ l.target = NoTarget /\ l.run = NoRun
    BY <1>1, <1>2, RestIs
<1>4. Set(th, l)
    BY DEF Rest, RestOf
<1> HIDE DEF l
<1> QED BY <1>3, <1>4, QuietStep

LEMMA CoolDownNext ==
    ASSUME WatcherInv, NEW th \in Threads, CoolDown(th)
    PROVE  WatcherInv'
BY RestNext DEF CoolDown, bounds

LEMMA CollectNext ==
    ASSUME WatcherInv, NEW th \in Threads, Collect(th)
    PROVE  WatcherInv'
<1>1. poller[th] \in Pollers /\ Shaped(poller[th])
    BY LocalsOf DEF WatcherInv, ThreadsInv
<1>2. CASE Rest(th, poller[th].todo)
    BY <1>2, RestNext DEF Collect, bounds
<1>3. CASE Set(th, [poller[th] EXCEPT !.pc = "create", !.signature = health[poller[th].target]])
  <2> DEFINE l == [poller[th] EXCEPT !.pc = "create", !.signature = health[poller[th].target]]
  <2>1. poller[th].pc = "collect" /\ UNCHANGED << health, session, entry, current, slow, strays >>
      BY DEF Collect, bounds
  <2>2. poller[th].target \in Targets /\ poller[th].run = NoRun
      BY <1>1, <2>1 DEF Shaped
  <2>3. health[poller[th].target] \in Signatures \cup {Healthy}
      BY <2>2 DEF WatcherInv, ThreadsInv, SessionsInv
  <2>4. /\ l \in Pollers /\ l.pc = "create" /\ l.stop = poller[th].stop /\ l.run = poller[th].run
        /\ l.target = poller[th].target /\ l.todo = poller[th].todo
      BY <1>1, <2>3 DEF Pollers
  <2>5. Set(th, l)
      BY <1>3
  <2> HIDE DEF l
  <2>6. Shaped(l)
      BY <1>1, <2>1, <2>2, <2>4 DEF Shaped
  <2> QED BY <2>1, <2>2, <2>4, <2>5, <2>6, QuietStep
<1> QED BY <1>2, <1>3 DEF Collect

(* A run of another source is as new as one that is created, and no run of *)
(* a target.                                                               *)
LEMMA AttachRunNext ==
    ASSUME WatcherInv, NEW th \in Threads, AttachRun(th)
    PROVE  WatcherInv'
<1> USE DEF WatcherInv, ThreadsInv
<1>1. poller[th] \in Pollers /\ Shaped(poller[th]) /\ PollersInv
    BY LocalsOf
<1>2. poller[th].pc = "create" /\ UNCHANGED << health, entry, current, slow, strays >>
    BY DEF AttachRun, bounds
<1>3. poller[th].target \in Targets /\ poller[th].run = NoRun
    BY <1>1, <1>2 DEF Shaped
<1>4. PICK r \in Runs : /\ Set(th, [poller[th] EXCEPT !.pc = "note", !.run = r])
                        /\ \/ session[r].status \in Unresolved /\ UNCHANGED session
                           \/ session[r].status = "free" /\ session' = [session EXCEPT ![r] = Running(NoTarget)]
    BY NewNameFree DEF AttachRun
<1> DEFINE l == [poller[th] EXCEPT !.pc = "note", !.run = r]
<1>5. /\ l \in Pollers /\ l.pc = "note" /\ l.stop = poller[th].stop /\ l.run = r
      /\ l.target = poller[th].target /\ l.todo = poller[th].todo
    BY <1>1 DEF Pollers
<1>6. Set(th, l)
    BY <1>4
<1> HIDE DEF l
<1>7. Shaped(l)
    BY <1>1, <1>2, <1>3, <1>5 DEF Shaped
<1>8. CASE session[r].status \in Unresolved /\ UNCHANGED session
  <2>1. session[r].status # "free"
      BY <1>8 DEF Unresolved
  <2> QED BY <1>2, <1>3, <1>5, <1>6, <1>7, <1>8, <2>1, QuietStep
<1>9. CASE session[r].status = "free" /\ session' = [session EXCEPT ![r] = Running(NoTarget)]
  <2>1. /\ session \in [Runs -> Sessions] /\ session' \in [Runs -> Sessions]
        /\ session'[r] = Running(NoTarget) /\ \A q \in Runs \ {r} : session'[q] = session[q]
      BY <1>9, SessionsAre DEF SessionsInv
  <2>2. poller'[th] = l /\ \A u \in Threads \ {th} : poller'[u] = poller[u]
      BY <1>6 DEF Set, PollersInv
  <2>3. PollersInv'
      BY <1>1, <1>2, <1>5, <1>6, <1>7, ThreadMoves
  <2>4. \A q \in Runs : session[q].status # "free" => session'[q].status # "free"
      BY <1>9, <2>1
  <2>5. session'[r].status # "free"
      BY <2>1, SessionsAre
  <2>6. NamesKept'
    <3>1. \A u \in Threads : poller[u].run \in Runs \cup {NoRun}
        BY DEF PollersInv, Pollers
    <3>2. \A t \in Targets : entry[t].active \in Runs \cup {NoRun}
        BY DEF SessionsInv, Entries
    <3> QED BY <1>2, <1>5, <2>2, <2>4, <2>5, <3>1, <3>2 DEF NamesKept, SessionsInv
  <2>7. ThreadsInv'
      BY <1>2, <2>1, <2>3, <2>6 DEF SessionsInv
  <2>8. ASSUME NEW t \in Targets
        PROVE  Account(t)'
    <3>1. NoTarget # t
        BY WatcherAssumption
    <3>2. InProgress(t)' \subseteq InProgress(t)
        BY <2>1, <3>1, SessionsAre DEF InProgress
    <3>3. th = current /\ ~Busy(t) => poller[th].target # t
        BY <1>2, WatcherAssumption DEF Busy
    <3> QED BY <1>2, <1>5, <1>6, <3>2, <3>3, ThreadKeepsAccount
  <2> QED BY <2>7, <2>8
<1> QED BY <1>4, <1>8, <1>9

----------------------------------------------------------------------------
(* The steps after which a run may be forgotten.                           *)

(* Whoever remembers a run remembered it before, or th did.                *)
LEMMA StoredStep ==
    ASSUME WatcherInv, NEW th \in Threads, NEW l \in Pollers, Shaped(l), Set(th, l),
           poller[th].pc # "off", l.pc # "off", l.stop = poller[th].stop, l.run = NoRun,
           Store(session), entry' \in [Targets -> Entries],
           \A t \in Targets : entry'[t].active \in {NoRun, entry[t].active, poller[th].run},
           UNCHANGED << health, current, slow, strays >>
    PROVE  ThreadsInv' /\ \A t \in Targets : InProgress(t)' \subseteq InProgress(t)
<1> USE DEF WatcherInv, ThreadsInv
<1>1. PollersInv'
    BY ThreadMoves
<1>2. poller'[th] = l /\ \A u \in Threads \ {th} : poller'[u] = poller[u]
    BY DEF Set, PollersInv
<1>3. session \in [Runs -> Sessions] /\ entry \in [Targets -> Entries] /\ NamesKept
    BY DEF SessionsInv
<1>4. \A u \in Threads : poller[u].run \in Runs \cup {NoRun}
    BY DEF PollersInv, Pollers
<1>5. \A t \in Targets : entry[t].active \in Runs \cup {NoRun}
    BY <1>3 DEF Entries
<1>6. NamesKept'
  <2>1. \A u \in Threads : poller'[u].run # NoRun =>
            poller'[u].run \in Runs /\ session[poller'[u].run].status # "free"
      BY <1>2, <1>3, <1>4 DEF NamesKept
  <2>2. \A t \in Targets : entry'[t].active # NoRun =>
            entry'[t].active \in Runs /\ session[entry'[t].active].status # "free"
      BY <1>3, <1>4, <1>5 DEF NamesKept
  <2> QED BY <1>3, <2>1, <2>2, StoreKeepsNames
<1>7. ThreadsInv'
    BY <1>1, <1>3, <1>6, StoreTells DEF SessionsInv
<1>8. \A t \in Targets : InProgress(t)' \subseteq InProgress(t)
    BY <1>3, StoreProgress DEF ProgressOf, InProgress
<1> QED BY <1>7, <1>8

(* _poll_target returns without a run of its own.                          *)
LEMMA ReturnNext ==
    ASSUME WatcherInv, NEW th \in Threads, Rest(th, poller[th].todo), Store(session),
           poller[th].pc \in {"test", "collect", "create"},
           UNCHANGED << health, entry, current, slow, strays >>
    PROVE  WatcherInv'
<1> USE DEF WatcherInv, ThreadsInv
<1> DEFINE l == RestOf(th, poller[th].todo)
<1>1. poller[th] \in Pollers /\ Shaped(poller[th]) /\ PollersInv
    BY LocalsOf
<1>2. poller[th].todo \in SUBSET Targets
    BY <1>1 DEF Pollers, Shaped
<1>3. /\ l \in Pollers /\ Shaped(l) /\ l.pc \in {"idle", "poll"} /\ l.stop = poller[th].stop
      /\ l.todo = poller[th].todo /\ l.target = NoTarget /\ l.run = NoRun
    BY <1>1, <1>2, RestIs
<1>4. Set(th, l)
    BY DEF Rest, RestOf
<1> HIDE DEF l
<1>5. entry' \in [Targets -> Entries]
    BY DEF SessionsInv
<1>6. ThreadsInv' /\ \A t \in Targets : InProgress(t)' \subseteq InProgress(t)
    BY <1>3, <1>4, <1>5, StoredStep
<1>7. ASSUME NEW t \in Targets
      PROVE  Account(t)'
  <2>1. l.target # t
      BY <1>3, WatcherAssumption
  <2> QED BY <1>3, <1>4, <1>6, <2>1, ThreadKeepsAccount
<1> QED BY <1>6, <1>7

LEMMA PollFailsNext ==
    ASSUME WatcherInv, NEW th \in Threads, PollFails(th)
    PROVE  WatcherInv'
BY ReturnNext DEF PollFails

(* A run that is not in flight is not in progress.                         *)
LEMMA NotInFlight ==
    ASSUME NEW r, ~InFlight(r), NEW t
    PROVE  r \notin InProgress(t)
BY WatcherAssumption DEF InFlight, InProgress, Unresolved

(* The current thread, too, may test a run that is no longer remembered,   *)
(* and then clear the memory of another: the first one was paid for.       *)
LEMMA TestPriorNext ==
    ASSUME WatcherInv, NEW th \in Threads, TestPrior(th)
    PROVE  WatcherInv'
<1> USE DEF WatcherInv, ThreadsInv
<1>1. poller[th] \in Pollers /\ Shaped(poller[th]) /\ PollersInv
    BY LocalsOf
<1>2. poller[th].pc = "test" /\ Store(session) /\ UNCHANGED << health, entry, current, slow, strays >>
    BY DEF TestPrior, bounds
<1>3. PICK t \in Targets : t = poller[th].target
    BY <1>1, <1>2 DEF Shaped
<1>4. CASE Rest(th, poller[th].todo)
    BY <1>2, <1>4, ReturnNext
<1>5. CASE \E r \in {poller[th].run, entry[t].active} :
               ~InFlight(r) /\ Set(th, [poller[th] EXCEPT !.pc = "clear", !.run = NoRun])
  <2>1. PICK r \in {poller[th].run, entry[t].active} :
               ~InFlight(r) /\ Set(th, [poller[th] EXCEPT !.pc = "clear", !.run = NoRun])
      BY <1>5
  <2> DEFINE l == [poller[th] EXCEPT !.pc = "clear", !.run = NoRun]
  <2>2. /\ l \in Pollers /\ l.pc = "clear" /\ l.stop = poller[th].stop /\ l.run = NoRun
        /\ l.target = t /\ l.todo = poller[th].todo
      BY <1>1, <1>3 DEF Pollers
  <2>3. Set(th, l)
      BY <2>1
  <2> HIDE DEF l
  <2>4. Shaped(l)
      BY <1>1, <1>3, <2>2 DEF Shaped
  <2>5. entry' \in [Targets -> Entries] /\ entry[t].active \in Runs \cup {NoRun}
      BY <1>2 DEF SessionsInv, Entries
  <2>6. ThreadsInv' /\ \A u \in Targets : InProgress(u)' \subseteq InProgress(u)
      BY <1>2, <2>2, <2>3, <2>4, <2>5, StoredStep
  <2>7. poller'[th] = l /\ \A u \in Threads \ {th} : poller'[u] = poller[u]
      BY <2>3 DEF Set, PollersInv
  <2>8. r \notin InProgress(t)
      BY <2>1, NotInFlight
  <2>9. ASSUME NEW u \in Targets
        PROVE  Account(u)'
    <3>1. CASE u = t /\ th = current /\ entry[t].active \in InProgress(t)
      <4>1. current # NoThread /\ r = poller[current].run /\ r # entry[t].active
          BY <2>8, <3>1, WatcherAssumption
      <4>2. Doubted(t)
          BY <1>2, <1>3, <3>1, <4>1 DEF Doubted
      <4>3. poller'[current'] = l
          BY <1>2, <2>7, <3>1
      <4>4. ~Doubted(t)'
          BY <2>2, <4>3 DEF Doubted
      <4>5. Busy(t)' /\ ~Busy(t)
          BY <1>2, <2>2, <3>1, <4>1, <4>3 DEF Busy
      <4>6. Base(t)' = NoRun /\ Base(t) = entry[t].active
          BY <2>2, <4>3, <4>5 DEF Base
      <4>7. Owed(t)' \subseteq Owed(t) \cup {entry[t].active} /\ r \notin Owed(t)'
          BY <2>6, <2>8, <4>6 DEF Owed
      <4>8. Calm(t, th)
          BY <2>7, OthersCalm
      <4>9. \A q \in Runs : ~Holds(th, t, q)
          BY <1>2 DEF Holds
      <4>10. ~poller'[th].stop
          BY <1>1, <1>2, <2>2, <2>7, <3>1, ActorIs
      <4>11. ~Late(th, t)' /\ ~LateClear(th, t)'
          BY <4>10 DEF Late, LateClear
      <4> QED BY <1>2, <2>5, <3>1, <4>1, <4>2, <4>4, <4>7, <4>8, <4>9, <4>11, AccountSwaps
    <3>2. CASE ~(u = t /\ th = current /\ entry[t].active \in InProgress(t))
        BY <1>2, <1>3, <2>2, <2>3, <2>6, <3>2, ThreadKeepsAccount
    <3> QED BY <3>1, <3>2
  <2> QED BY <2>6, <2>9
<1> QED BY <1>3, <1>4, <1>5 DEF TestPrior

LEMMA EntryCleared ==
    ASSUME SessionsInv, NEW t \in Targets, entry' = [entry EXCEPT ![t].active = NoRun]
    PROVE  /\ entry' \in [Targets -> Entries] /\ entry'[t].active = NoRun
           /\ \A u \in Targets \ {t} : entry'[u] = entry[u]
BY DEF SessionsInv, Entries

(* A late thread clears the memory of a run: it pays for it, unless the    *)
(* current thread is at work on the target and will remember its own.      *)
LEMMA ClearPriorNext ==
    ASSUME WatcherInv, NEW th \in Threads, ClearPrior(th)
    PROVE  WatcherInv'
<1> USE DEF WatcherInv, ThreadsInv
<1>1. poller[th] \in Pollers /\ Shaped(poller[th]) /\ PollersInv
    BY LocalsOf
<1>2. poller[th].pc = "clear" /\ Store(session) /\ UNCHANGED << health, current, slow, strays >>
    BY DEF ClearPrior, bounds
<1>3. PICK t \in Targets : t = poller[th].target
    BY <1>1, <1>2 DEF Shaped
<1>4. /\ entry' \in [Targets -> Entries] /\ entry'[t].active = NoRun
      /\ \A u \in Targets \ {t} : entry'[u] = entry[u]
    BY <1>3, EntryCleared DEF ClearPrior
<1> DEFINE l == [poller[th] EXCEPT !.pc = "collect"]
<1>5. /\ l \in Pollers /\ l.pc = "collect" /\ l.stop = poller[th].stop /\ l.run = poller[th].run
      /\ l.target = t /\ l.todo = poller[th].todo
    BY <1>1, <1>3 DEF Pollers
<1>6. Set(th, l)
    BY DEF ClearPrior
<1> HIDE DEF l
<1>7. Shaped(l) /\ l.run = NoRun /\ t \notin poller[th].todo
    BY <1>1, <1>2, <1>3, <1>5 DEF Shaped
<1>8. ThreadsInv' /\ \A u \in Targets : InProgress(u)' \subseteq InProgress(u)
    BY <1>2, <1>4, <1>5, <1>6, <1>7, StoredStep
<1>9. poller'[th] = l /\ \A u \in Threads \ {th} : poller'[u] = poller[u]
    BY <1>6 DEF Set, PollersInv
<1>10. ASSUME NEW u \in Targets
       PROVE  Account(u)'
  <2>1. CASE u = t /\ th # current /\ ~Busy(t)
    <3>1. poller[th].stop
        BY <1>1, <1>2, <2>1, ActorIs
    <3>2. Late(th, t) /\ LateClear(th, t) /\ ~LateClear(th, t)'
        BY <1>2, <1>3, <1>5, <1>7, <1>9, <3>1 DEF Late, LateClear
    <3>3. /\ Busy(t)' <=> Busy(t)
          /\ current # NoThread => poller'[current'] = poller[current]
          /\ Base(t) = entry[t].active /\ Base(t)' = entry'[t].active
        BY <1>2, <1>9, <2>1, CurrentUndisturbed
    <3>4. Owed(t)' \subseteq Owed(t) \cup {entry[t].active}
        BY <1>8, <3>3 DEF Owed
    <3>5. entry[t].active \in Runs \cup {NoRun}
        BY DEF SessionsInv, Entries
    <3>6. Calm(t, th) /\ \A q \in Runs : ~Holds(th, t, q)
        BY <1>2, <1>9, OthersCalm DEF Holds
    <3>7. Doubted(t)' => (Doubted(t) /\ poller'[current'].run = poller[current].run)
                         \/ poller'[current'].run = entry[t].active
        BY <1>2, <3>3 DEF Doubted
    <3> QED BY <1>2, <2>1, <3>2, <3>4, <3>5, <3>6, <3>7, AccountGains
  <2>2. CASE ~(u = t /\ th # current /\ ~Busy(t))
    <3>1. th = current => Busy(t)
        BY <1>2, <1>3, WatcherAssumption DEF Busy
    <3> QED BY <1>2, <1>3, <1>4, <1>5, <1>6, <1>8, <2>2, <3>1, ThreadKeepsAccount
  <2> QED BY <2>1, <2>2
<1> QED BY <1>8, <1>10

(* The current thread remembers the run that was its own; a late thread    *)
(* overwrites what is remembered or, while the current thread is at work   *)
(* on the target, will have its own run overwritten.                       *)
LEMMA NoteNext ==
    ASSUME WatcherInv, NEW th \in Threads, Note(th)
    PROVE  WatcherInv'
<1> USE DEF WatcherInv, ThreadsInv
<1>1. poller[th] \in Pollers /\ Shaped(poller[th]) /\ PollersInv
    BY LocalsOf
<1>2. /\ poller[th].pc = "note" /\ Store(session) /\ Rest(th, poller[th].todo)
      /\ UNCHANGED << health, current, slow, strays >>
    BY DEF Note, bounds
<1>3. PICK t \in Targets : t = poller[th].target
    BY <1>1, <1>2 DEF Shaped
<1>4. poller[th].run \in Runs /\ t \notin poller[th].todo /\ poller[th].todo \in SUBSET Targets
    BY <1>1, <1>2, <1>3 DEF Shaped, Pollers
<1>5. /\ entry' \in [Targets -> Entries] /\ entry'[t].active = poller[th].run
      /\ \A u \in Targets \ {t} : entry'[u] = entry[u]
  <2>1. [active |-> poller[th].run, signature |-> poller[th].signature] \in Entries
      BY <1>1 DEF Pollers, Entries
  <2>2. entry' = [entry EXCEPT ![t] = [active |-> poller[th].run, signature |-> poller[th].signature]]
      BY <1>3 DEF Note
  <2> QED BY <2>1, <2>2 DEF SessionsInv
<1> DEFINE l == RestOf(th, poller[th].todo)
<1>6. /\ l \in Pollers /\ Shaped(l) /\ l.pc \in {"idle", "poll"} /\ l.stop = poller[th].stop
      /\ l.todo = poller[th].todo /\ l.target = NoTarget /\ l.run = NoRun
    BY <1>1, <1>4, RestIs
<1>7. Set(th, l)
    BY <1>2 DEF Rest, RestOf
<1> HIDE DEF l
<1>8. ThreadsInv' /\ \A u \in Targets : InProgress(u)' \subseteq InProgress(u)
    BY <1>2, <1>5, <1>6, <1>7, StoredStep
<1>9. poller'[th] = l /\ \A u \in Threads \ {th} : poller'[u] = poller[u]
    BY <1>7 DEF Set, PollersInv
<1>10. ASSUME NEW u \in Targets
       PROVE  Account(u)'
  <2>1. NoTarget # u /\ NoThread \notin Threads
      BY WatcherAssumption
  <2>2. Calm(u, th)
      BY <1>9, OthersCalm
  <2>3. (Late(th, u)' => Late(th, u)) /\ (LateClear(th, u)' => LateClear(th, u))
      BY <1>6, <1>9, <2>1 DEF Late, LateClear
  <2>4. entry[t].active \in Runs \cup {NoRun}
      BY DEF SessionsInv, Entries
  <2>5. CASE u # t
    <3>1. Base(u)' = Base(u) /\ SameTest(u)
      <4>1. CASE th = current
        <5>1. poller'[current'] = l
            BY <1>2, <1>9, <4>1
        <5>2. ~Busy(u)' /\ ~Busy(u) /\ ~Doubted(u)'
            BY <1>3, <1>6, <2>1, <2>5, <4>1, <5>1 DEF Busy, Doubted
        <5> QED BY <1>5, <2>5, <5>2 DEF Base, SameTest
      <4>2. CASE th # current
        <5>1. /\ current # NoThread => poller'[current'] = poller[current]
              /\ Busy(u) => Base(u)' = Base(u)
              /\ ~Busy(u) => Base(u) = entry[u].active /\ Base(u)' = entry'[u].active
            BY <1>2, <1>9, <4>2, CurrentUndisturbed
        <5> QED BY <1>2, <1>5, <2>5, <5>1 DEF SameTest, Doubted
      <4> QED BY <4>1, <4>2
    <3>2. Owed(u)' \subseteq Owed(u)
        BY <1>8, <3>1, OwedShrinks
    <3>3. \A r \in Owed(u)' : ~Holds(th, u, r)
        BY <1>3, <2>5 DEF Holds
    <3> QED BY <1>2, <2>2, <2>3, <3>1, <3>2, <3>3, AccountStays
  <2>6. CASE u = t /\ th = current
    <3>1. poller'[current'] = l
        BY <1>2, <1>9, <2>6
    <3>2. Busy(t) /\ ~Busy(t)' /\ ~Doubted(t)'
        BY <1>2, <1>3, <1>6, <2>1, <2>6, <3>1 DEF Busy, Doubted
    <3>3. Base(t) = poller[th].run /\ Base(t)' = poller[th].run
        BY <1>5, <2>6, <3>2 DEF Base
    <3>4. Owed(t)' \subseteq Owed(t)
        BY <1>8, <3>3, OwedShrinks
    <3>5. \A r \in Owed(t)' : ~Holds(th, t, r)
        BY <3>3 DEF Holds, Owed
    <3> QED BY <1>2, <2>2, <2>3, <2>6, <3>2, <3>4, <3>5, AccountStays DEF SameTest
  <2>7. CASE u = t /\ th # current
    <3>1. poller[th].stop
        BY <1>1, <1>2, <2>7, ActorIs
    <3>2. Late(th, t) /\ ~Late(th, t)'
        BY <1>3, <1>4, <1>6, <1>9, <2>1, <2>7, <3>1 DEF Late
    <3>3. /\ Busy(t)' <=> Busy(t)
          /\ current # NoThread => poller'[current'] = poller[current]
          /\ Busy(t) => Base(t)' = Base(t)
          /\ ~Busy(t) => Base(t) = entry[t].active /\ Base(t)' = entry'[t].active
        BY <1>2, <1>9, <2>7, CurrentUndisturbed
    <3>4. CASE Busy(t)
      <4>1. Owed(t)' \subseteq Owed(t) \cup {poller[th].run}
          BY <1>8, <3>3, <3>4 DEF Owed
      <4>2. ~Doubted(t)'
          BY <1>2, <3>3, <3>4 DEF Doubted, Busy
      <4>3. \A r \in Owed(t)' : Holds(th, t, r) => r = poller[th].run
          BY DEF Holds
      <4> QED BY <1>2, <1>4, <2>2, <2>3, <2>7, <3>2, <4>1, <4>2, <4>3, AccountGains
    <3>5. CASE ~Busy(t)
      <4>1. Owed(t)' \subseteq Owed(t) \cup {entry[t].active}
          BY <1>8, <3>3, <3>5 DEF Owed
      <4>2. Doubted(t)' => (Doubted(t) /\ poller'[current'].run = poller[current].run)
                           \/ poller'[current'].run = entry[t].active
          BY <1>2, <3>3 DEF Doubted
      <4>3. \A r \in Owed(t)' : ~Holds(th, t, r)
          BY <1>5, <3>3, <3>5 DEF Holds, Owed
      <4> QED BY <1>2, <2>2, <2>3, <2>4, <2>7, <3>2, <4>1, <4>2, <4>3, AccountGains
    <3> QED BY <3>4, <3>5
  <2> QED BY <2>5, <2>6, <2>7
<1> QED BY <1>8, <1>10

----------------------------------------------------------------------------
(* A new run.                                                              *)

LEMMA NewSessionIs ==
    ASSUME NEW target \in Targets, NEW new \in NewSession(target)
    PROVE  /\ new \in Sessions /\ new.status # "free"
           /\ new.status \in {"running", "waiting"} => new.target = target
BY SessionsAre DEF NewSession

(* A late thread has created run r and pays for it by its place in W.      *)
LEMMA AccountCreated ==
    ASSUME NEW t \in Targets, Account(t), slow \in Nat, strays \in Nat,
           UNCHANGED << slow, strays >>, NEW th \in Threads, Calm(t, th), Late(th, t),
           LateClear(th, t)' => LateClear(th, t), \A q \in Runs : ~Holds(th, t, q), SameTest(t),
           NEW r \in Runs, Owed(t)' \subseteq Owed(t) \cup {r}, Holds(th, t, r)'
    PROVE  Account(t)'
<1>1. PICK X \in SUBSET (Runs \cup {NoRun}), W \in SUBSET Threads, V \in SUBSET Threads :
               Affordable(X, W, V) /\ Paid(t, X, W, V)
    BY AccountOf
<1>2. th \in W
    BY <1>1 DEF Paid
<1>3. Affordable(X, W, V)'
    BY <1>1 DEF Affordable
<1>4. Owed(t)' \subseteq Runs
    BY DEF Owed, InProgress
<1>5. (\A q \in Owed(t) : q \in X \/ \E u \in W : Holds(u, t, q))'
  <2> SUFFICES ASSUME NEW q \in Owed(t)', q \notin X, q # r
               PROVE  \E u \in W : Holds(u, t, q)'
      BY <1>2
  <2>1. PICK u \in W : Holds(u, t, q)
      BY <1>1 DEF Paid
  <2> QED BY <1>4, <2>1 DEF Calm
<1>6. (\A u \in Threads : (Late(u, t) => u \in W) /\ (LateClear(u, t) => u \in V))'
    BY <1>1, <1>2 DEF Paid, Calm
<1>7. (Doubted(t) => poller[current].run \in X)'
    BY <1>1 DEF Paid, SameTest
<1>8. Paid(t, X, W, V)'
    BY <1>5, <1>6, <1>7 DEF Paid
<1> QED BY <1>3, <1>8, AccountIs

LEMMA CreateRunNext ==
    ASSUME WatcherInv, NEW th \in Threads, CreateRun(th)
    PROVE  WatcherInv'
<1> USE DEF WatcherInv, ThreadsInv
<1>1. poller[th] \in Pollers /\ Shaped(poller[th]) /\ PollersInv
    BY LocalsOf
<1>2. PICK r \in Runs : r = NewName /\ session[r].status = "free"
    BY NewNameFree DEF CreateRun
<1> DEFINE l == [poller[th] EXCEPT !.pc = "note", !.run = r]
<1>3. /\ poller[th].pc = "create" /\ Set(th, l)
      /\ UNCHANGED << health, entry, current, slow, strays >>
    BY <1>2 DEF CreateRun, bounds
<1>4. PICK t \in Targets : t = poller[th].target
    BY <1>1, <1>3 DEF Shaped
<1>5. poller[th].run = NoRun /\ t \notin poller[th].todo
    BY <1>1, <1>3, <1>4 DEF Shaped
<1>6. PICK new \in Sessions : Becomes(r, new) /\ new.status # "free" /\
                              (new.status \in {"running", "waiting"} => new.target = t)
    BY <1>2, <1>4, NewSessionIs DEF CreateRun
<1>7. /\ l \in Pollers /\ l.pc = "note" /\ l.stop = poller[th].stop /\ l.run = r
      /\ l.target = t /\ l.todo = poller[th].todo
    BY <1>1, <1>4 DEF Pollers
<1> HIDE DEF l
<1>8. Shaped(l)
    BY <1>5, <1>7 DEF Shaped
<1>9. PollersInv'
    BY <1>1, <1>3, <1>7, <1>8, ThreadMoves
<1>10. poller'[th] = l /\ \A u \in Threads \ {th} : poller'[u] = poller[u]
    BY <1>3 DEF Set, PollersInv
<1>11. \A u \in Threads : poller[u].run \in Runs \cup {NoRun}
    BY DEF PollersInv, Pollers
<1>12. SessionsInv'
    BY <1>3, <1>6, <1>7, <1>10, <1>11, BecomesKeepsNames
<1>13. ASSUME NEW u \in Targets
       PROVE  Account(u)'
  <2>1. NoTarget # u /\ NoThread \notin Threads /\ NoRun \notin Runs
      BY WatcherAssumption
  <2>2. InProgress(u)' \subseteq InProgress(u) \cup {r} /\ (u # t => InProgress(u)' \subseteq InProgress(u))
      BY <1>6, BecomesTells
  <2>3. CASE u = t /\ th # current
    <3>1. /\ Busy(t)' <=> Busy(t)
          /\ current # NoThread => poller'[current'] = poller[current]
          /\ Busy(t) => Base(t)' = Base(t)
          /\ ~Busy(t) => Base(t) = entry[t].active /\ Base(t)' = entry'[t].active
        BY <1>1, <1>3, <1>10, <2>3, CurrentUndisturbed
    <3>2. Base(t)' = Base(t)
        BY <1>3, <3>1
    <3>3. Owed(t)' \subseteq Owed(t) \cup {r}
        BY <2>2, <2>3, <3>2 DEF Owed
    <3>4. poller[th].stop
        BY <1>1, <1>3, <2>3, ActorIs
    <3>5. Late(th, t) /\ ~LateClear(th, t)'
        BY <1>4, <1>5, <1>7, <1>10, <3>4 DEF Late, LateClear
    <3>6. Holds(th, t, r)' /\ \A q \in Runs : ~Holds(th, t, q)
        BY <1>3, <1>7, <1>10 DEF Holds
    <3>7. Calm(t, th) /\ SameTest(t)
        BY <1>3, <1>10, <3>1, OthersCalm DEF SameTest, Doubted
    <3> QED BY <1>3, <2>3, <3>3, <3>5, <3>6, <3>7, AccountCreated
  <2>4. CASE u = t /\ th = current
    <3>1. current # NoThread /\ poller'[current'] = l
        BY <1>3, <1>10, <2>1, <2>4
    <3>2. Busy(t) /\ Busy(t)' /\ ~Doubted(t)'
        BY <1>3, <1>4, <1>7, <2>4, <3>1 DEF Busy, Doubted
    <3>3. Base(t) = NoRun /\ Base(t)' = r
        BY <1>5, <1>7, <2>4, <3>1, <3>2 DEF Base
    <3>4. Owed(t)' \subseteq Owed(t)
        BY <2>2, <2>4, <3>3, InProgressIs DEF Owed
    <3>5. Calm(t, th) /\ SameTest(t)
        BY <1>10, <3>2, OthersCalm DEF SameTest
    <3>6. (Late(th, t)' => Late(th, t)) /\ (LateClear(th, t)' => LateClear(th, t))
        BY <1>4, <1>5, <1>7, <1>10 DEF Late, LateClear
    <3>7. \A q : ~Holds(th, t, q)
        BY <1>3 DEF Holds
    <3> QED BY <1>3, <2>4, <3>4, <3>5, <3>6, <3>7, AccountStays
  <2>5. CASE u # t
      BY <1>3, <1>4, <1>7, <2>2, <2>5, ThreadKeepsAccount
  <2> QED BY <2>3, <2>4, <2>5
<1> QED BY <1>3, <1>9, <1>12, <1>13

LEMMA CreateFailsNext ==
    ASSUME WatcherInv, NEW th \in Threads, CreateFails(th)
    PROVE  WatcherInv'
<1> USE DEF WatcherInv, ThreadsInv
<1>1. poller[th] \in Pollers /\ Shaped(poller[th]) /\ PollersInv
    BY LocalsOf
<1>2. PICK r \in Runs : r = NewName /\ session[r].status = "free"
    BY NewNameFree DEF CreateFails
<1>3. /\ poller[th].pc = "create" /\ Rest(th, poller[th].todo)
      /\ UNCHANGED << health, entry, current, slow >>
    BY DEF CreateFails
<1>4. PICK t \in Targets : t = poller[th].target
    BY <1>1, <1>3 DEF Shaped
<1>5. poller[th].run = NoRun /\ t \notin poller[th].todo /\ poller[th].todo \in SUBSET Targets
    BY <1>1, <1>3, <1>4 DEF Shaped, Pollers
<1>6. PICK new \in Sessions :
          /\ Becomes(r, new) /\ new.status # "free" /\ new.target \in {NoTarget, t}
          /\ strays' \in {strays, strays + 1} /\ (new.target = t => strays' = strays + 1)
  <2>1. NoTarget # t
      BY WatcherAssumption
  <2>2. CASE strays' = strays /\ Becomes(NewName, StuckSession)
      BY <1>2, <2>1, <2>2, SessionsAre
  <2>3. CASE strays' = strays + 1 /\ Becomes(NewName, Running(t))
      BY <1>2, <2>3, SessionsAre
  <2> QED BY <1>4, <2>2, <2>3 DEF CreateFails
<1> DEFINE l == RestOf(th, poller[th].todo)
<1>7. /\ l \in Pollers /\ Shaped(l) /\ l.pc \in {"idle", "poll"} /\ l.stop = poller[th].stop
      /\ l.todo = poller[th].todo /\ l.target = NoTarget /\ l.run = NoRun
    BY <1>1, <1>5, RestIs
<1>8. Set(th, l)
    BY <1>3 DEF Rest, RestOf
<1> HIDE DEF l
<1>9. PollersInv'
    BY <1>1, <1>3, <1>7, <1>8, ThreadMoves
<1>10. poller'[th] = l /\ \A u \in Threads \ {th} : poller'[u] = poller[u]
    BY <1>8 DEF Set, PollersInv
<1>11. \A u \in Threads : poller[u].run \in Runs \cup {NoRun}
    BY DEF PollersInv, Pollers
<1>12. SessionsInv'
    BY <1>3, <1>6, <1>7, <1>10, <1>11, BecomesKeepsNames
<1>13. ASSUME NEW u \in Targets
       PROVE  Account(u)'
  <2>1. NoTarget # u /\ NoThread \notin Threads
      BY WatcherAssumption
  <2>2. InProgress(u)' \subseteq InProgress(u) \cup {r} /\ (new.target # u => InProgress(u)' \subseteq InProgress(u))
      BY <1>6, BecomesTells
  <2>3. CASE new.target # u
      BY <1>3, <1>6, <1>7, <1>8, <2>1, <2>2, <2>3, ThreadKeepsAccount
  <2>4. CASE new.target = u
    <3>1. u = t /\ strays' = strays + 1
        BY <1>6, <2>1, <2>4
    <3>2. ~Doubted(t)' \/ (Doubted(t) /\ poller'[current'].run = poller[current].run)
      <4>1. CASE th = current
          BY <1>3, <1>7, <1>10, <2>1, <3>1, <4>1 DEF Doubted
      <4>2. CASE th # current
        <5>1. current # NoThread => poller'[current'] = poller[current]
            BY <1>1, <1>3, <1>10, <4>2, CurrentUndisturbed
        <5> QED BY <1>3, <5>1 DEF Doubted
      <4> QED BY <4>1, <4>2
    <3>3. Base(t) = NoRun \/ Base(t)' = Base(t)
      <4>1. CASE th = current
          BY <1>3, <1>4, <1>5, <2>1, <4>1 DEF Base, Busy
      <4>2. CASE th # current
          BY <1>1, <1>3, <1>10, <4>2, CurrentUndisturbed
      <4> QED BY <4>1, <4>2
    <3>4. Owed(t)' \subseteq Owed(t) \cup {r}
        BY <2>2, <3>1, <3>3, InProgressIs DEF Owed
    <3>5. Calm(t, th) /\ \A q \in Runs : ~Holds(th, t, q)
        BY <1>3, <1>10, OthersCalm DEF Holds
    <3>6. ~Late(th, t)' /\ ~LateClear(th, t)'
        BY <1>5, <1>7, <1>10, <2>1, <3>1 DEF Late, LateClear
    <3> QED BY <1>3, <3>1, <3>2, <3>4, <3>5, <3>6, AccountGains
  <2> QED BY <2>3, <2>4
<1>14. strays' \in Nat
    BY <1>6
<1> QED BY <1>3, <1>9, <1>12, <1>13, <1>14

----------------------------------------------------------------------------
(* Runs that go on by themselves.                                          *)

LEMMA SessionChanges ==
    ASSUME WatcherInv, SameWatcher, NEW r \in Runs, NEW s \in Sessions, Becomes(r, s),
           s.status # "free", s.target \in {session[r].target, NoTarget},
           s.target # NoTarget => session[r].status \in {"running", "waiting"}
    PROVE  WatcherInv'
<1> USE DEF WatcherInv, ThreadsInv
<1>1. UNCHANGED << health, entry, poller, current, slow, strays >>
    BY DEF SameWatcher, bounds
<1>2. \A th \in Threads : poller[th].run \in Runs \cup {NoRun}
    BY DEF PollersInv, Pollers
<1>3. SessionsInv'
    BY <1>1, <1>2, BecomesKeepsNames
<1>4. PollersInv'
    BY <1>1 DEF PollersInv, OneCurrent, Shaped
<1>5. ASSUME NEW t \in Targets
      PROVE  Account(t)'
  <2>1. InProgress(t)' \subseteq InProgress(t)
    <3>1. CASE s.target = t
      <4>1. r \in InProgress(t)
          BY <3>1, WatcherAssumption DEF InProgress
      <4> QED BY <4>1, BecomesTells
    <3>2. CASE s.target # t
        BY <3>2, BecomesTells
    <3> QED BY <3>1, <3>2
  <2>2. Base(t)' = Base(t)
      BY <1>1 DEF Base, Busy
  <2>3. Owed(t)' \subseteq Owed(t)
      BY <2>1, <2>2, OwedShrinks
  <2>4. Calm(t, NoThread) /\ SameTest(t)
      BY <1>1, OthersCalm DEF SameTest, Doubted
  <2>5. /\ (Late(NoThread, t)' => Late(NoThread, t)) /\ (LateClear(NoThread, t)' => LateClear(NoThread, t))
        /\ \A q \in Owed(t)' : Holds(NoThread, t, q) => Holds(NoThread, t, q)'
      BY <1>1 DEF Late, LateClear, Holds
  <2> QED BY <1>1, <2>3, <2>4, <2>5, AccountStays
<1> QED BY <1>1, <1>3, <1>4, <1>5

LEMMA RunResolvesNext ==
    ASSUME WatcherInv, NEW r \in Runs, RunResolves(r)
    PROVE  WatcherInv'
<1>1. SameWatcher /\ session[r].status = "running"
    BY DEF RunResolves
<1>2. session[r] \in Sessions
    BY DEF WatcherInv, ThreadsInv, SessionsInv
<1>3. CASE Becomes(r, ResolvedSession) \/ Becomes(r, StuckSession)
    BY <1>1, <1>3, SessionsAre, SessionChanges
<1>4. CASE Becomes(r, [session[r] EXCEPT !.status = "waiting"])
  <2> DEFINE s == [session[r] EXCEPT !.status = "waiting"]
  <2>1. s \in Sessions /\ s.status = "waiting" /\ s.target = session[r].target
      BY <1>2 DEF Sessions, Unresolved
  <2>2. Becomes(r, s)
      BY <1>4
  <2> HIDE DEF s
  <2> QED BY <1>1, <2>1, <2>2, SessionChanges
<1> QED BY <1>3, <1>4 DEF RunResolves

LEMMA OperatorAnswersNext ==
    ASSUME WatcherInv, NEW r \in Runs, OperatorAnswers(r)
    PROVE  WatcherInv'
<1>1. SameWatcher /\ session[r].status = "waiting"
    BY DEF OperatorAnswers
<1>2. session[r] \in Sessions
    BY DEF WatcherInv, ThreadsInv, SessionsInv
<1>3. CASE Becomes(r, ResolvedSession)
    BY <1>1, <1>3, SessionsAre, SessionChanges
<1>4. CASE Becomes(r, [session[r] EXCEPT !.status = "running"])
  <2> DEFINE s == [session[r] EXCEPT !.status = "running"]
  <2>1. s \in Sessions /\ s.status = "running" /\ s.target = session[r].target
      BY <1>2 DEF Sessions, Unresolved
  <2>2. Becomes(r, s)
      BY <1>4
  <2> HIDE DEF s
  <2> QED BY <1>1, <2>1, <2>2, SessionChanges
<1> QED BY <1>3, <1>4 DEF OperatorAnswers

----------------------------------------------------------------------------
(* The registry and the environment.                                       *)

(* A thread is idle before and off after, or the other way round: it has   *)
(* no target, no run and nothing to poll.                                  *)
LEMMA IdleThread ==
    ASSUME WatcherInv, NEW th \in Threads, NEW l \in {Off, Idle}, Set(th, l),
           poller[th].pc \in {"off", "idle"}, OneCurrent',
           current' \in Threads \cup {NoThread},
           current' = current \/ current \in {th, NoThread},
           current' = current \/ current' \in {th, NoThread},
           UNCHANGED << health, session, entry, slow, strays >>
    PROVE  WatcherInv'
<1> USE DEF WatcherInv, ThreadsInv
<1>1. poller'[th] = l /\ \A u \in Threads \ {th} : poller'[u] = poller[u]
    BY DEF Set, PollersInv
<1>2. l \in Pollers /\ Shaped(l) /\ l.target = NoTarget /\ l.todo = {} /\ l.run = NoRun
  <2>1. CASE l = Off
    <3>1. Off.target = NoTarget /\ Off.todo = {} /\ Off.run = NoRun
        BY DEF Off
    <3> QED BY <2>1, <3>1, OffIs
  <2>2. CASE l = Idle
    <3>1. Idle.target = NoTarget /\ Idle.todo = {} /\ Idle.run = NoRun
        BY DEF Idle, Off
    <3> QED BY <2>2, <3>1, OffIs
  <2> QED BY <2>1, <2>2
<1>3. PollersInv'
    BY <1>1, <1>2 DEF Set, PollersInv
<1>4. SessionsInv'
    BY <1>1, <1>2 DEF SessionsInv, NamesKept
<1>5. poller[th].target = NoTarget
    BY LocalsOf DEF Shaped
<1>6. ASSUME NEW t \in Targets
      PROVE  Account(t)'
  <2>1. NoTarget # t
      BY WatcherAssumption
  <2>2. Base(t)' = Base(t) /\ SameTest(t)
    <3>1. CASE current' # NoThread /\ poller'[current'].target = t
      <4>1. current' = current /\ current \in Threads \ {th}
          BY <1>1, <1>2, <2>1, <3>1
      <4> QED BY <1>1, <4>1 DEF Base, Busy, SameTest, Doubted
    <3>2. CASE ~(current' # NoThread /\ poller'[current'].target = t)
      <4>1. ~(current # NoThread /\ poller[current].target = t)
        <5>1. CASE current = th
            BY <1>5, <2>1, <5>1
        <5>2. CASE current # th
            BY <1>1, <3>2, <5>2 DEF PollersInv
        <5> QED BY <5>1, <5>2
      <4> QED BY <3>2, <4>1 DEF Base, Busy, SameTest, Doubted
    <3> QED BY <3>1, <3>2
  <2>3. InProgress(t)' = InProgress(t)
      BY DEF InProgress
  <2>4. Owed(t)' \subseteq Owed(t)
      BY <2>2, <2>3, OwedShrinks
  <2>5. Calm(t, th) /\ ~Late(th, t)' /\ ~LateClear(th, t)' /\ \A r \in Owed(t)' : ~Holds(th, t, r)
      BY <1>1, <1>2, <2>1, OthersCalm DEF Late, LateClear, Holds
  <2> QED BY <2>2, <2>4, <2>5, AccountStays
<1> QED BY <1>3, <1>4, <1>6

LEMMA EndThreadNext ==
    ASSUME WatcherInv, NEW th \in Threads, EndThread(th)
    PROVE  WatcherInv'
<1>1. /\ Set(th, Off) /\ poller[th].pc = "idle" /\ poller[th].stop
      /\ UNCHANGED << health, session, entry, current, slow, strays >>
    BY DEF EndThread, bounds
<1>2. poller'[th].pc = "off" /\ \A u \in Threads \ {th} : poller'[u] = poller[u]
    BY <1>1 DEF Set, Off, WatcherInv, ThreadsInv, PollersInv
<1>3. OneCurrent'
    BY <1>1, <1>2 DEF OneCurrent, WatcherInv, ThreadsInv, PollersInv
<1>4. current \in Threads \cup {NoThread}
    BY DEF WatcherInv, ThreadsInv, PollersInv
<1> QED BY <1>1, <1>3, <1>4, IdleThread

LEMMA StartWatcherNext ==
    ASSUME WatcherInv, StartWatcher
    PROVE  WatcherInv'
<1>1. PICK th \in Threads : /\ poller[th].pc = "off" /\ Set(th, Idle) /\ current = NoThread
                            /\ current' = th /\ UNCHANGED << health, session, entry, slow, strays >>
  <2> DEFINE off == {th \in Threads : poller[th].pc = "off"}
  <2>1. off # {}
      BY DEF StartWatcher
  <2>2. (CHOOSE x \in off : TRUE) \in off
      BY <2>1
  <2> QED BY <2>2 DEF StartWatcher, bounds
<1>2. /\ poller'[th].pc = "idle" /\ poller'[th].stop = FALSE
      /\ \A u \in Threads \ {th} : poller'[u] = poller[u]
    BY <1>1 DEF Set, Off, Idle, WatcherInv, ThreadsInv, PollersInv
<1>3. OneCurrent'
    BY <1>1, <1>2, WatcherAssumption DEF OneCurrent, WatcherInv, ThreadsInv, PollersInv
<1> QED BY <1>1, <1>3, IdleThread

LEMMA StopWatcherNext ==
    ASSUME WatcherInv, StopWatcher
    PROVE  WatcherInv'
<1> USE DEF WatcherInv, ThreadsInv
<1>1. PICK th \in Threads : th = current
    BY DEF StopWatcher, PollersInv
<1>2. current' = NoThread /\ UNCHANGED << health, session, entry, strays >>
    BY DEF StopWatcher
<1>3. poller[th] \in Pollers /\ Shaped(poller[th]) /\ ~poller[th].stop /\ poller[th].pc # "off"
    BY <1>1, LocalsOf DEF PollersInv, OneCurrent
<1>4. \A u \in Threads \ {th} : poller[u].pc = "off" \/ poller[u].stop
    BY <1>1 DEF PollersInv, OneCurrent
<1>5. NoThread \notin Threads /\ NoRun \notin Runs /\ NoTarget \notin Targets
    BY WatcherAssumption
<1>6. CASE poller[th].pc = "idle" /\ Set(th, Off) /\ UNCHANGED slow
  <2>1. poller'[th].pc = "off" /\ \A u \in Threads \ {th} : poller'[u] = poller[u]
      BY <1>6 DEF Set, Off, PollersInv
  <2>2. OneCurrent'
      BY <1>2, <1>4, <1>5, <2>1 DEF OneCurrent
  <2> QED BY <1>1, <1>2, <1>6, <2>2, IdleThread
<1>7. CASE Set(th, [poller[th] EXCEPT !.stop = TRUE]) /\ slow' = slow + 1
  <2> DEFINE l == [poller[th] EXCEPT !.stop = TRUE]
  <2>1. /\ l \in Pollers /\ l.pc = poller[th].pc /\ l.stop = TRUE /\ l.run = poller[th].run
        /\ l.target = poller[th].target /\ l.todo = poller[th].todo
      BY <1>3 DEF Pollers
  <2>2. Set(th, l)
      BY <1>7
  <2> HIDE DEF l
  <2>3. poller'[th] = l /\ \A u \in Threads \ {th} : poller'[u] = poller[u]
      BY <2>2 DEF Set, PollersInv
  <2>4. Shaped(l)
      BY <1>3, <2>1 DEF Shaped
  <2>5. OneCurrent'
      BY <1>2, <1>4, <1>5, <2>1, <2>3 DEF OneCurrent
  <2>6. PollersInv'
      BY <1>2, <2>1, <2>2, <2>3, <2>4, <2>5 DEF PollersInv, Set
  <2>7. SessionsInv'
      BY <1>2, <2>1, <2>3 DEF SessionsInv, NamesKept
  <2>8. ASSUME NEW t \in Targets
        PROVE  Account(t)'
    <3>1. InProgress(t)' = InProgress(t)
        BY <1>2 DEF InProgress
    <3>2. Base(t)' = entry[t].active /\ ~Doubted(t)'
        BY <1>2 DEF Base, Busy, Doubted
    <3>3. \A r : Holds(th, t, r)' <=> Holds(th, t, r)
        BY <2>1, <2>3 DEF Holds
    <3>4. \A r \in Owed(t)' : r \in Owed(t) \/ Holds(th, t, r)'
      <4>1. CASE ~Busy(t)
        <5>1. Base(t) = entry[t].active
            BY <4>1 DEF Base
        <5> QED BY <3>1, <3>2, <5>1 DEF Owed
      <4>2. CASE Busy(t) /\ poller[th].pc = "note"
        <5>1. Base(t) = poller[th].run /\ poller[th].target = t
            BY <1>1, <4>2 DEF Base, Busy
        <5> QED BY <3>1, <3>3, <4>2, <5>1 DEF Owed, Holds
      <4>3. CASE Busy(t) /\ poller[th].pc # "note"
        <5>1. poller[th].run = NoRun
            BY <1>1, <1>3, <4>3 DEF Busy, Shaped, Pollers
        <5>2. Base(t) = NoRun
            BY <1>1, <4>3, <5>1 DEF Base
        <5> QED BY <3>1, <5>2, InProgressIs DEF Owed
      <4> QED BY <4>1, <4>2, <4>3
    <3>5. Calm(t, th)
        BY <2>3, OthersCalm
    <3> QED BY <1>2, <1>7, <3>2, <3>3, <3>4, <3>5, AccountStopped
  <2> QED BY <1>2, <1>7, <2>6, <2>7, <2>8
<1> QED BY <1>1, <1>6, <1>7 DEF StopWatcher

LEMMA HealthChangesNext ==
    ASSUME WatcherInv, NEW t \in Targets, HealthChanges(t)
    PROVE  WatcherInv'
<1> USE DEF WatcherInv, ThreadsInv
<1>1. UNCHANGED << session, entry, poller, current, slow, strays >>
    BY DEF HealthChanges, bounds
<1>2. health' \in [Targets -> Signatures \cup {Healthy}]
    BY DEF HealthChanges, SessionsInv
<1>3. PollersInv' /\ SessionsInv'
    BY <1>1, <1>2 DEF PollersInv, OneCurrent, SessionsInv, NamesKept
<1>4. ASSUME NEW u \in Targets
      PROVE  Account(u)'
    BY <1>1 DEF Account, Affordable, Paid, Owed, InProgress, Base, Busy, Late, LateClear, Holds, Doubted
<1> QED BY <1>1, <1>3, <1>4

(* With the process, everyone who owes or is owed is gone.                 *)
LEMMA NothingOwed ==
    ASSUME NEW t \in Targets, slow \in Nat, strays \in Nat, UNCHANGED << slow, strays >>,
           InProgress(t)' = {}, \A th \in Threads : ~Late(th, t)' /\ ~LateClear(th, t)', ~Doubted(t)'
    PROVE  Account(t)'
<1>1. IsFiniteSet({}) /\ Cardinality({}) = 0
    BY FS_EmptySet
<1>2. Affordable({}, {}, {})'
    BY <1>1 DEF Affordable
<1>3. Paid(t, {}, {}, {})'
    BY DEF Paid, Owed
<1> QED BY <1>2, <1>3, AccountIs

LEMMA RestartNext ==
    ASSUME WatcherInv, Restart
    PROVE  WatcherInv'
<1> USE DEF WatcherInv, ThreadsInv
<1>1. PICK ss : ss = [r \in Runs |-> IF session[r].status \in Unresolved THEN StuckSession ELSE session[r]]
    OBVIOUS
<1>2. /\ Store(ss) /\ entry' = [t \in Targets |-> NoEntry] /\ poller' = [th \in Threads |-> Off]
      /\ current' = NoThread /\ UNCHANGED << health, slow, strays >>
    BY <1>1 DEF Restart
<1>3. /\ ss \in [Runs -> Sessions]
      /\ \A r \in Runs : ss[r].status \notin {"running", "waiting"}
    BY <1>1, SessionsAre DEF SessionsInv, Unresolved
<1>4. PollersInv'
    BY <1>2, OffIs, WatcherAssumption DEF PollersInv, OneCurrent, Off
<1>5. NoEntry \in Entries /\ NoEntry.active = NoRun /\ Off.run = NoRun /\ Off.stop = FALSE
    BY DEF NoEntry, Entries, Off
<1>6. NamesKept'
    BY <1>2, <1>5 DEF NamesKept
<1>7. SessionsInv'
    BY <1>2, <1>3, <1>5, <1>6, StoreTells DEF SessionsInv
<1>8. ASSUME NEW t \in Targets
      PROVE  Account(t)'
  <2>1. ProgressOf(ss, t) = {}
      BY <1>3 DEF ProgressOf
  <2>2. InProgress(t)' = {}
      BY <1>2, <1>3, <2>1, StoreProgress
  <2>3. \A th \in Threads : ~Late(th, t)' /\ ~LateClear(th, t)'
      BY <1>2, <1>5 DEF Late, LateClear
  <2>4. ~Doubted(t)'
      BY <1>2 DEF Doubted
  <2> QED BY <1>2, <2>2, <2>3, <2>4, NothingOwed
<1> QED BY <1>2, <1>4, <1>7, <1>8

----------------------------------------------------------------------------
LEMMA WatcherInit == Init => WatcherInv
<1> SUFFICES ASSUME Init PROVE WatcherInv
    OBVIOUS
<1>1. NoEntry \in Entries /\ NoEntry.active = NoRun
    BY DEF NoEntry, Entries
<1>2. Off \in Pollers /\ Shaped(Off) /\ Off.pc = "off" /\ Off.run = NoRun /\ Off.stop = FALSE
    BY OffIs DEF Off
<1>3. PollersInv
    BY <1>2, WatcherAssumption DEF Init, PollersInv, OneCurrent
<1>4. SessionsInv
    BY <1>1, <1>2, SessionsAre DEF Init, SessionsInv, NamesKept
<1>5. ASSUME NEW t \in Targets
      PROVE  Account(t)
  <2>1. InProgress(t) = {}
      BY SessionsAre DEF Init, InProgress
  <2>2. \A th \in Threads : ~Late(th, t) /\ ~LateClear(th, t)
      BY <1>2 DEF Init, Late, LateClear
  <2>3. Affordable({}, {}, {})
      BY FS_EmptySet DEF Affordable, Init
  <2>4. Paid(t, {}, {}, {})
      BY <2>1, <2>2 DEF Paid, Owed, Doubted, Init
  <2> QED BY <2>3, <2>4 DEF Account
<1> QED BY <1>3, <1>4, <1>5 DEF WatcherInv, ThreadsInv, Init

LEMMA WatcherNext == WatcherInv /\ [Next]_vars => WatcherInv'
<1> SUFFICES ASSUME WatcherInv, [Next]_vars PROVE WatcherInv'
    OBVIOUS
<1>1. CASE UNCHANGED vars
  <2>1. UNCHANGED << health, session, entry, poller, current, slow, strays >>
      BY <1>1 DEF vars, bounds
  <2>2. ThreadsInv'
      BY <2>1 DEF WatcherInv, ThreadsInv, PollersInv, OneCurrent, SessionsInv, NamesKept
  <2>3. ASSUME NEW t \in Targets
        PROVE  Account(t)'
      BY <2>1 DEF WatcherInv, Account, Affordable, Paid, Owed, InProgress, Base, Busy, Late, LateClear,
         Holds, Doubted
  <2> QED BY <2>2, <2>3 DEF WatcherInv
<1>2. ASSUME NEW r \in Runs, RunResolves(r) \/ OperatorAnswers(r)
      PROVE  WatcherInv'
    BY <1>2, RunResolvesNext, OperatorAnswersNext
<1>3. ASSUME NEW th \in Threads, ThreadStep(th)
      PROVE  WatcherInv'
    BY <1>3, TickNext, EndThreadNext, PollTargetNext, TestPriorNext, ClearPriorNext, CoolDownNext,
       CollectNext, AttachRunNext, CreateRunNext, NoteNext DEF ThreadStep
<1>4. ASSUME NEW th \in Threads, PollFails(th) \/ CreateFails(th)
      PROVE  WatcherInv'
    BY <1>4, PollFailsNext, CreateFailsNext
<1>5. CASE StartWatcher \/ StopWatcher
    BY <1>5, StartWatcherNext, StopWatcherNext
<1>6. ASSUME NEW t \in Targets, HealthChanges(t)
      PROVE  WatcherInv'
    BY <1>6, HealthChangesNext
<1>7. CASE Restart
    BY <1>7, RestartNext
<1> QED BY <1>1, <1>2, <1>3, <1>4, <1>5, <1>6, <1>7 DEF Next

(* The runs about to be noted are no more than the threads in W.           *)
LEMMA HeldBounded ==
    ASSUME NEW W, IsFiniteSet(W), NEW t
    PROVE  \E H : /\ IsFiniteSet(H) /\ Cardinality(H) \in Nat /\ Cardinality(H) <= Cardinality(W)
                  /\ \A r : (\E th \in W : Holds(th, t, r)) => r \in H
<1> DEFINE f == [th \in W |-> poller[th].run]
           H == {poller[th].run : th \in W}
<1>1. f \in Surjection(W, H)
    BY DEF Surjection
<1>2. IsFiniteSet(H) /\ Cardinality(H) <= Cardinality(W)
    BY <1>1, FS_Surjection
<1>3. Cardinality(H) \in Nat
    BY <1>2, FS_CardinalityType
<1>4. \A r : (\E th \in W : Holds(th, t, r)) => r \in H
    BY DEF Holds
<1> HIDE DEF H
<1> QED BY <1>2, <1>3, <1>4

LEMMA WatcherInvImplies == WatcherInv => OneRunPerTarget
<1> SUFFICES ASSUME WatcherInv, NEW t \in Targets
             PROVE  Cardinality(InProgress(t)) <= 1 + 2 * slow + strays
    BY DEF OneRunPerTarget, InProgress
<1>1. PICK X \in SUBSET (Runs \cup {NoRun}), W \in SUBSET Threads, V \in SUBSET Threads :
               Affordable(X, W, V) /\ Paid(t, X, W, V)
    BY AccountOf DEF WatcherInv
<1>2. /\ IsFiniteSet(X) /\ IsFiniteSet(W)
      /\ Cardinality(X) \in Nat /\ Cardinality(W) \in Nat /\ Cardinality(V) \in Nat
      /\ Cardinality(X) + Cardinality(W) + Cardinality(V) <= 2 * slow + strays
    BY <1>1, AffordableIs
<1>3. slow \in Nat /\ strays \in Nat
    BY DEF WatcherInv, ThreadsInv
<1>4. PICK H : /\ IsFiniteSet(H) /\ Cardinality(H) \in Nat /\ Cardinality(H) <= Cardinality(W)
               /\ \A r : (\E th \in W : Holds(th, t, r)) => r \in H
    BY <1>2, HeldBounded
<1>5. /\ IsFiniteSet(X \cup H) /\ Cardinality(X \cup H) \in Nat
      /\ Cardinality(X \cup H) <= Cardinality(X) + Cardinality(H)
  <2>1. /\ IsFiniteSet(X \cup H)
        /\ Cardinality(X \cup H) = Cardinality(X) + Cardinality(H) - Cardinality(X \cap H)
      BY <1>2, <1>4, FS_Union
  <2>2. IsFiniteSet(X \cap H)
      BY <1>2, FS_Intersection
  <2>3. Cardinality(X \cap H) \in Nat /\ Cardinality(X \cup H) \in Nat
      BY <2>1, <2>2, FS_CardinalityType
  <2> QED BY <1>2, <1>4, <2>1, <2>3
<1>6. PICK Y : Y = (X \cup H) \cup {Base(t)}
    OBVIOUS
<1>7. InProgress(t) \subseteq Y
    BY <1>1, <1>4, <1>6 DEF Paid, Owed
<1>8. IsFiniteSet(Y) /\ Cardinality(Y) \in Nat /\ Cardinality(Y) <= Cardinality(X \cup H) + 1
    BY <1>5, <1>6, Grows
<1>9. Cardinality(InProgress(t)) <= Cardinality(Y) /\ Cardinality(InProgress(t)) \in Nat
    BY <1>7, <1>8, FS_Subset, FS_CardinalityType
<1> QED BY <1>2, <1>3, <1>4, <1>5, <1>8, <1>9

(* However many targets, threads and runs there are and however polls,     *)
(* creations, stops and restarts fall between each other: the runs of a    *)
(* target that are in progress are no more than one, two for every stop    *)
(* that did not wait for a thread inside its tick, and one for every       *)
(* creation that raised once the run was queued.                           *)
THEOREM WatcherOneRunPerTarget == Spec => []OneRunPerTarget
<1>1. Spec => []WatcherInv
    BY WatcherInit, WatcherNext, PTL DEF Spec
<1> QED BY <1>1, WatcherInvImplies, PTL

=============================================================================
