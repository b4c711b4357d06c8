------------------------ MODULE AuthorityStoreProofs ------------------------
(***************************************************************************)
(* Safety of the authority store for every set of callers, authorities,    *)
(* leases, bindings and results, and whatever the clocks read.             *)
(***************************************************************************)
EXTENDS AuthorityStore, TLAPS

(* What each state of a record guarantees about its other fields.          *)
RecordShape ==
    \A a \in Authorities :
        /\ store[a].state = "absent" => store[a] = AbsentRecord
        /\ store[a].state \in {"leased", "dispatched"} => store[a].lease \in Leases
        /\ store[a].state = "terminal" =>
              store[a].outcome \in TerminalOutcomes /\ store[a].result \in Results
        /\ store[a].state # "terminal" => store[a].outcome = "none"

(* Nobody was told to go ahead before the record says so, and a dispatched *)
(* record names the lease of the one who was.                              *)
GrantsFollowState ==
    \A a \in Authorities :
        /\ store[a].state \in {"absent", "issued", "leased"} => granted[a] = {}
        /\ store[a].state = "dispatched" =>
              \E c \in Callers : << c, store[a].lease >> \in granted[a]

(* The one who completes an authority is told its answer.                  *)
CompleterTold ==
    \A a \in Authorities :
        store[a].state = "terminal" => Answer(store[a]) \in told[a]

(* The inductive invariant.                                                *)
StoreInv ==
    /\ TypeOK
    /\ RecordShape
    /\ GrantsFollowState
    /\ CompleterTold
    /\ SingleDispatch
    /\ AnswersAgree
    /\ OutcomeFollowsDispatch
    /\ ReconciliationAccepts

----------------------------------------------------------------------------
(* A receipt and the record that carries its cursor are well formed.       *)
LEMMA EventTyping ==
    ASSUME NEW r \in Records, NEW type \in EventTypes, NEW lease \in Leases \cup {NoLease}
    PROVE  /\ EventOf(r, type, lease) \in Events
           /\ EventDigest(EventOf(r, type, lease)) \in Digests
           /\ WithEvent(r, type, lease) \in Records
<1>1. EventOf(r, type, lease) \in Events
  BY DEF EventOf, Events, EventBodies, Records
<1>2. EventDigest(EventOf(r, type, lease)) \in Digests
  BY <1>1 DEF EventDigest, Events, Digests
<1>3. WithEvent(r, type, lease) \in Records
  BY <1>1, <1>2 DEF WithEvent, Records, Events
<1> QED
  BY <1>1, <1>2, <1>3

(* Appending the receipt of a transition that raises the version by one    *)
(* keeps the chain that read_for_reconciliation checks.                    *)
LEMMA ChainExtends ==
    ASSUME NEW r \in Records, NEW n \in Records, NEW events \in Seq(Events),
           NEW type \in EventTypes, NEW lease \in Leases \cup {NoLease},
           EventChainValid(r, events),
           n.version = r.version + 1, n.sequence = r.sequence, n.digest = r.digest
    PROVE  EventChainValid(WithEvent(n, type, lease), Append(events, EventOf(n, type, lease)))
<1> DEFINE e    == EventOf(n, type, lease)
           more == Append(events, e)
           m    == WithEvent(n, type, lease)
<1>1. /\ e \in Events /\ m \in Records /\ EventDigest(e) \in Digests
  BY EventTyping
<1>2. /\ Len(events) \in Nat /\ Len(more) = Len(events) + 1
      /\ more[Len(events) + 1] = e
      /\ \A i \in 1..Len(events) : more[i] = events[i]
  BY <1>1
<1>3. /\ m.sequence = Len(more) /\ m.version = Len(more) /\ m.digest = EventDigest(e)
  BY <1>1, <1>2 DEF EventChainValid, WithEvent, EventOf, Records
<1>4. ChainTip(more) = EventDigest(e)
  BY <1>1, <1>2 DEF ChainTip
<1>5. /\ e.sequence = Len(events) + 1 /\ e.body.version = Len(events) + 1
      /\ e.previous = ChainTip(events)
  BY <1>2 DEF EventChainValid, EventOf, Records
<1>6. ASSUME NEW i \in 1..Len(more)
      PROVE  /\ more[i].sequence = i
             /\ more[i].body.version = i
             /\ more[i].previous = IF i = 1 THEN GenesisDigest ELSE EventDigest(more[i - 1])
  <2>1. CASE i \in 1..Len(events)
    BY <2>1, <1>2 DEF EventChainValid
  <2>2. CASE i = Len(events) + 1
    BY <2>2, <1>2, <1>5 DEF ChainTip
  <2> QED
    BY <2>1, <2>2, <1>2
<1> HIDE DEF e, more, m
<1>7. EventChainValid(m, more)
  BY <1>3, <1>4, <1>6 DEF EventChainValid
<1> QED
  BY <1>7 DEF e, more, m

(* The initial store satisfies the inductive invariant.                    *)
LEMMA StoreInit == Init => StoreInv
<1> SUFFICES ASSUME Init PROVE StoreInv
  OBVIOUS
<1>1. AbsentRecord \in Records
  BY DEF AbsentRecord, Records, LifecycleStates, Digests, GenesisDigest
<1>2. TypeOK
  BY <1>1 DEF Init, TypeOK
<1>3. RecordShape /\ GrantsFollowState
  BY <1>1 DEF Init, RecordShape, GrantsFollowState, AbsentRecord
<1>4. SingleDispatch /\ AnswersAgree /\ OutcomeFollowsDispatch
  BY DEF Init, SingleDispatch, AnswersAgree, OutcomeFollowsDispatch, AbsentRecord
<1>6. CompleterTold
  BY DEF Init, CompleterTold, AbsentRecord
<1>5. ReconciliationAccepts
  BY DEF Init, ReconciliationAccepts, EventChainValid, ChainTip, AbsentRecord, GenesisDigest
<1> QED
  BY <1>2, <1>3, <1>4, <1>5, <1>6 DEF StoreInv

----------------------------------------------------------------------------
(* Each transition stores a well-formed record and receipt and extends the *)
(* chain; r is the stored record, v the version the caller expects.        *)
LEMMA TransitionsExtend ==
    ASSUME NEW r \in Records, NEW events \in Seq(Events), EventChainValid(r, events)
    PROVE  /\ \A b \in Bindings : r = AbsentRecord =>
                 /\ NewIssue(b) \in Records /\ NewIssueEvent(b) \in Events
                 /\ EventChainValid(NewIssue(b), Append(events, NewIssueEvent(b)))
           /\ \A lease \in Leases, now \in Times : CanLease(r, r.version, lease, now) =>
                 /\ LeaseTransition(r, r.version, lease, now) \in Records
                 /\ LeaseEvent(r, r.version, lease, now) \in Events
                 /\ EventChainValid(LeaseTransition(r, r.version, lease, now),
                                    Append(events, LeaseEvent(r, r.version, lease, now)))
           /\ /\ DispatchTransition(r, r.version) \in Records
              /\ DispatchEvent(r, r.version) \in Events
              /\ EventChainValid(DispatchTransition(r, r.version),
                                 Append(events, DispatchEvent(r, r.version)))
           /\ \A outcome \in TerminalOutcomes, result \in Results :
                 /\ TerminalTransition(r, r.version, outcome, result) \in Records
                 /\ TerminalEvent(r, r.version, outcome, result) \in Events
                 /\ EventChainValid(TerminalTransition(r, r.version, outcome, result),
                                    Append(events, TerminalEvent(r, r.version, outcome, result)))
<1>0. r.version \in Nat /\ r.version + 1 \in Nat /\ r.lease \in Leases \cup {NoLease}
  BY DEF Records
<1>1. ASSUME NEW b \in Bindings, r = AbsentRecord
      PROVE  /\ NewIssue(b) \in Records /\ NewIssueEvent(b) \in Events
             /\ EventChainValid(NewIssue(b), Append(events, NewIssueEvent(b)))
  <2>a. IssuedBody(b) \in Records
    BY <1>1 DEF IssuedBody, Records, LifecycleStates
  <2>1. /\ IssuedBody(b) \in Records /\ IssuedBody(b).version = r.version + 1
        /\ IssuedBody(b).sequence = r.sequence /\ IssuedBody(b).digest = r.digest
        /\ NoLease \in Leases \cup {NoLease}
    BY <1>1, <2>a DEF IssuedBody, AbsentRecord
  <2>2. "issued" \in EventTypes
    BY DEF EventTypes
  <2> QED
    BY <2>1, <2>2, EventTyping, ChainExtends DEF NewIssue, NewIssueEvent
<1>2. ASSUME NEW lease \in Leases, NEW now \in Times
      PROVE  /\ LeaseTransition(r, r.version, lease, now) \in Records
             /\ LeaseEvent(r, r.version, lease, now) \in Events
             /\ EventChainValid(LeaseTransition(r, r.version, lease, now),
                                Append(events, LeaseEvent(r, r.version, lease, now)))
  <2> DEFINE n == LeasedBody(r, r.version, lease, now)
  <2>1. now + LeaseSeconds \in Nat
    BY RecordAssumption, StoreAssumption
  <2>a. n \in Records
    BY <1>0, <2>1 DEF LeasedBody, Records, LifecycleStates
  <2>2. /\ n \in Records /\ n.version = r.version + 1
        /\ n.sequence = r.sequence /\ n.digest = r.digest
    BY <2>a DEF LeasedBody, Records
  <2>3. LeaseEventType(r) \in EventTypes
    BY DEF LeaseEventType, EventTypes
  <2> HIDE DEF n
  <2>4. /\ WithEvent(n, LeaseEventType(r), lease) \in Records
        /\ EventOf(n, LeaseEventType(r), lease) \in Events
        /\ EventChainValid(WithEvent(n, LeaseEventType(r), lease),
                           Append(events, EventOf(n, LeaseEventType(r), lease)))
    BY <2>2, <2>3, EventTyping, ChainExtends
  <2> QED
    BY <2>4 DEF LeaseTransition, LeaseEvent, n
<1>3. /\ DispatchTransition(r, r.version) \in Records
      /\ DispatchEvent(r, r.version) \in Events
      /\ EventChainValid(DispatchTransition(r, r.version),
                         Append(events, DispatchEvent(r, r.version)))
  <2> DEFINE n == DispatchedBody(r, r.version)
  <2>a. n \in Records
    BY <1>0 DEF DispatchedBody, Records, LifecycleStates
  <2>1. /\ n \in Records /\ n.version = r.version + 1
        /\ n.sequence = r.sequence /\ n.digest = r.digest /\ r.lease \in Leases \cup {NoLease}
    BY <1>0, <2>a DEF DispatchedBody, Records
  <2>2. "marked_dispatched" \in EventTypes
    BY DEF EventTypes
  <2> HIDE DEF n
  <2>3. /\ WithEvent(n, "marked_dispatched", r.lease) \in Records
        /\ EventOf(n, "marked_dispatched", r.lease) \in Events
        /\ EventChainValid(WithEvent(n, "marked_dispatched", r.lease),
                           Append(events, EventOf(n, "marked_dispatched", r.lease)))
    BY <2>1, <2>2, EventTyping, ChainExtends
  <2> QED
    BY <2>3 DEF DispatchTransition, DispatchEvent, n
<1>4. ASSUME NEW outcome \in TerminalOutcomes, NEW result \in Results
      PROVE  /\ TerminalTransition(r, r.version, outcome, result) \in Records
             /\ TerminalEvent(r, r.version, outcome, result) \in Events
             /\ EventChainValid(TerminalTransition(r, r.version, outcome, result),
                                Append(events, TerminalEvent(r, r.version, outcome, result)))
  <2> DEFINE n == TerminalBody(r, r.version, outcome, result)
  <2>a. n \in Records
    BY <1>0 DEF TerminalBody, Records, LifecycleStates
  <2>1. /\ n \in Records /\ n.version = r.version + 1
        /\ n.sequence = r.sequence /\ n.digest = r.digest /\ r.lease \in Leases \cup {NoLease}
    BY <1>0, <2>a DEF TerminalBody, Records
  <2>2. "terminal_completed" \in EventTypes
    BY DEF EventTypes
  <2> HIDE DEF n
  <2>3. /\ WithEvent(n, "terminal_completed", r.lease) \in Records
        /\ EventOf(n, "terminal_completed", r.lease) \in Events
        /\ EventChainValid(WithEvent(n, "terminal_completed", r.lease),
                           Append(events, EventOf(n, "terminal_completed", r.lease)))
    BY <2>1, <2>2, EventTyping, ChainExtends
  <2> QED
    BY <2>3 DEF TerminalTransition, TerminalEvent, n
<1> QED
  BY <1>1, <1>2, <1>3, <1>4

----------------------------------------------------------------------------
(* Writing record n and receipt e of authority a keeps the typing of store *)
(* and log and every chain.                                                *)
LEMMA SaveKeepsChains ==
    ASSUME StoreInv, NEW a \in Authorities, NEW n \in Records, NEW e \in Events,
           EventChainValid(n, Append(log[a], e)), Save(a, n, e)
    PROVE  /\ store' \in [Authorities -> Records] /\ log' \in [Authorities -> Seq(Events)]
           /\ store'[a] = n /\ \A x \in Authorities \ {a} : store'[x] = store[x]
           /\ ReconciliationAccepts'
<1>1. /\ store' = [store EXCEPT ![a] = n] /\ log' = [log EXCEPT ![a] = Append(log[a], e)]
      /\ store \in [Authorities -> Records] /\ log \in [Authorities -> Seq(Events)]
  BY DEF Save, StoreInv, TypeOK
<1>2. Append(log[a], e) \in Seq(Events)
  BY <1>1
<1>3. /\ store' \in [Authorities -> Records] /\ log' \in [Authorities -> Seq(Events)]
      /\ store'[a] = n /\ log'[a] = Append(log[a], e)
      /\ \A x \in Authorities \ {a} : store'[x] = store[x] /\ log'[x] = log[x]
  BY <1>1, <1>2
<1>4. ASSUME NEW x \in Authorities
      PROVE  EventChainValid(store'[x], log'[x])
  BY <1>3 DEF StoreInv, ReconciliationAccepts
<1> QED
  BY <1>3, <1>4 DEF ReconciliationAccepts

(* Every step of the store preserves the inductive invariant.              *)
LEMMA StoreStep == StoreInv /\ [Next]_vars => StoreInv'
<1> SUFFICES ASSUME StoreInv, [Next]_vars PROVE StoreInv'
  OBVIOUS
<1> USE DEF StoreInv
<1>1. ASSUME NEW c \in Callers, NEW a \in Authorities, NEW b \in Bindings, Issue(c, a, b)
      PROVE  StoreInv'
  <2> DEFINE n == NewIssue(b)
  <2>1. store[a] = AbsentRecord /\ store[a] \in Records /\ log[a] \in Seq(Events)
        /\ EventChainValid(store[a], log[a])
    BY <1>1 DEF Issue, RecordShape, TypeOK, ReconciliationAccepts
  <2>2. n \in Records /\ NewIssueEvent(b) \in Events
        /\ EventChainValid(n, Append(log[a], NewIssueEvent(b)))
    BY <2>1, TransitionsExtend
  <2>3. n.state = "issued" /\ n.outcome = "none"
    BY DEF NewIssue, IssuedBody, WithEvent, AbsentRecord
  <2> HIDE DEF n
  <2>4. /\ store' \in [Authorities -> Records] /\ log' \in [Authorities -> Seq(Events)]
        /\ store'[a] = n /\ \A x \in Authorities \ {a} : store'[x] = store[x]
        /\ ReconciliationAccepts'
    BY <1>1, <2>2, SaveKeepsChains DEF Issue, n
  <2>5. snapshot' = [snapshot EXCEPT ![c][a] = n] /\ UNCHANGED << spent, granted, told >>
    BY <1>1 DEF Issue, Keep, n
  <2>6. TypeOK'
    BY <2>2, <2>4, <2>5 DEF TypeOK
  <2>a. store[a].state = "absent"
    BY <1>1 DEF Issue
  <2>7. RecordShape' /\ GrantsFollowState'
    BY <2>a, <2>3, <2>4, <2>5 DEF RecordShape, GrantsFollowState
  <2>8. SingleDispatch'
    BY <2>5 DEF SingleDispatch
  <2>9. AnswersAgree' /\ CompleterTold'
    BY <2>a, <2>3, <2>4, <2>5 DEF AnswersAgree, CompleterTold, Answer
  <2>10. OutcomeFollowsDispatch'
    BY <2>3, <2>4, <2>5 DEF OutcomeFollowsDispatch
  <2> QED
    BY <2>4, <2>6, <2>7, <2>8, <2>9, <2>10
<1>2. ASSUME NEW c \in Callers, NEW a \in Authorities, NEW b \in Bindings, Get(c, a, b)
      PROVE  StoreInv'
  <2>1. /\ snapshot' = [snapshot EXCEPT ![c][a] = store[a]]
        /\ UNCHANGED << store, log, spent, granted >>
        /\ told' = IF store[a].state = "terminal"
                     THEN [told EXCEPT ![a] = @ \cup {Answer(store[a])}] ELSE told
    BY <1>2 DEF Get, Keep
  <2>2. store[a].state = "terminal" => Answer(store[a]) \in Answers
    BY DEF RecordShape, Answer, Answers
  <2>3. TypeOK'
    BY <2>1, <2>2 DEF TypeOK
  <2>4. RecordShape' /\ GrantsFollowState' /\ SingleDispatch' /\ OutcomeFollowsDispatch'
        /\ ReconciliationAccepts'
    BY <2>1 DEF RecordShape, GrantsFollowState, SingleDispatch, OutcomeFollowsDispatch,
                ReconciliationAccepts
  <2>5. AnswersAgree' /\ CompleterTold'
    BY <2>1 DEF AnswersAgree, CompleterTold, TypeOK, Answer
  <2> QED
    BY <2>3, <2>4, <2>5
<1>3. ASSUME NEW c \in Callers, NEW a \in Authorities, NEW lease \in Leases, NEW now \in Times,
             LeaseForDispatch(c, a, lease, now)
      PROVE  StoreInv'
  <2> DEFINE n == LeaseTransition(store[a], store[a].version, lease, now)
  <2>1. /\ store[a] \in Records /\ log[a] \in Seq(Events) /\ EventChainValid(store[a], log[a])
        /\ store[a].state \in {"issued", "leased"}
        /\ snapshot[c][a].version = store[a].version
        /\ CanLease(store[a], store[a].version, lease, now)
    BY <1>3 DEF LeaseForDispatch, CanLease, RequireTransition, TypeOK, ReconciliationAccepts
  <2>2. n \in Records /\ LeaseEvent(store[a], store[a].version, lease, now) \in Events
        /\ EventChainValid(n, Append(log[a], LeaseEvent(store[a], store[a].version, lease, now)))
    BY <2>1, TransitionsExtend
  <2>3. n.state = "leased" /\ n.outcome = store[a].outcome /\ n.lease = lease
    BY <2>1 DEF LeaseTransition, LeasedBody, WithEvent, Records
  <2> HIDE DEF n
  <2>4. /\ store' \in [Authorities -> Records] /\ log' \in [Authorities -> Seq(Events)]
        /\ store'[a] = n /\ \A x \in Authorities \ {a} : store'[x] = store[x]
        /\ ReconciliationAccepts'
    BY <1>3, <2>1, <2>2, SaveKeepsChains DEF LeaseForDispatch, n
  <2>5. snapshot' = [snapshot EXCEPT ![c][a] = n] /\ UNCHANGED << granted, told >>
        /\ spent' = spent \cup {lease}
    BY <1>3, <2>1 DEF LeaseForDispatch, Keep, n
  <2>6. TypeOK'
    BY <2>2, <2>4, <2>5 DEF TypeOK
  <2>7. RecordShape' /\ GrantsFollowState'
    BY <2>1, <2>3, <2>4, <2>5 DEF RecordShape, GrantsFollowState
  <2>8. SingleDispatch'
    BY <2>5 DEF SingleDispatch
  <2>9. AnswersAgree' /\ CompleterTold'
    BY <2>1, <2>3, <2>4, <2>5 DEF AnswersAgree, CompleterTold, Answer
  <2>10. OutcomeFollowsDispatch'
    BY <2>1, <2>3, <2>4, <2>5 DEF OutcomeFollowsDispatch, RecordShape
  <2> QED
    BY <2>4, <2>6, <2>7, <2>8, <2>9, <2>10
<1>4. ASSUME NEW c \in Callers, NEW a \in Authorities, NEW now \in Times, MarkDispatched(c, a, now)
      PROVE  StoreInv'
  <2> DEFINE n == DispatchTransition(store[a], store[a].version)
             mine == snapshot[c][a]
  <2>1. /\ store[a] \in Records /\ log[a] \in Seq(Events) /\ EventChainValid(store[a], log[a])
        /\ mine \in Records /\ mine.version = store[a].version
        /\ store[a].state = "leased" /\ mine.lease = store[a].lease /\ store[a].lease \in Leases
        /\ granted[a] = {}
    BY <1>4 DEF MarkDispatched, CanDispatch, RequireTransition, TypeOK, ReconciliationAccepts,
                RecordShape, GrantsFollowState
  <2>2. n \in Records /\ DispatchEvent(store[a], store[a].version) \in Events
        /\ EventChainValid(n, Append(log[a], DispatchEvent(store[a], store[a].version)))
    BY <2>1, TransitionsExtend
  <2>3. n.state = "dispatched" /\ n.outcome = store[a].outcome /\ n.lease = store[a].lease
    BY <2>1 DEF DispatchTransition, DispatchedBody, WithEvent, Records
  <2> HIDE DEF n, mine
  <2>4. /\ store' \in [Authorities -> Records] /\ log' \in [Authorities -> Seq(Events)]
        /\ store'[a] = n /\ \A x \in Authorities \ {a} : store'[x] = store[x]
        /\ ReconciliationAccepts'
    BY <1>4, <2>1, <2>2, SaveKeepsChains DEF MarkDispatched, n, mine
  <2>5. PICK kept \in {mine, n} : snapshot' = [snapshot EXCEPT ![c][a] = kept]
    BY <1>4, <2>1 DEF MarkDispatched, Keep, n, mine
  <2>6. /\ granted' = [granted EXCEPT ![a] = {<< c, store[a].lease >>}]
        /\ UNCHANGED << spent, told >>
    BY <1>4, <2>1 DEF MarkDispatched, mine
  <2>7. TypeOK'
    BY <2>1, <2>2, <2>4, <2>5, <2>6 DEF TypeOK
  <2>8. /\ granted'[a] = {<< c, n.lease >>}
        /\ \A x \in Authorities \ {a} : granted'[x] = granted[x]
    BY <2>3, <2>6 DEF TypeOK
  <2>9. RecordShape' /\ GrantsFollowState'
    BY <2>1, <2>3, <2>4, <2>8 DEF RecordShape, GrantsFollowState
  <2>10. SingleDispatch'
    BY <2>8 DEF SingleDispatch
  <2>11. AnswersAgree' /\ CompleterTold'
    BY <2>1, <2>3, <2>4, <2>6 DEF AnswersAgree, CompleterTold, Answer
  <2>12. OutcomeFollowsDispatch'
    BY <2>1, <2>3, <2>4, <2>8 DEF OutcomeFollowsDispatch, RecordShape
  <2> QED
    BY <2>4, <2>7, <2>9, <2>10, <2>11, <2>12
<1>5. ASSUME NEW c \in Callers, NEW a \in Authorities,
             NEW outcome \in TerminalOutcomes, NEW result \in Results,
             CompleteTerminal(c, a, outcome, result)
      PROVE  StoreInv'
  <2> DEFINE n == TerminalTransition(store[a], store[a].version, outcome, result)
  <2>1. /\ store[a] \in Records /\ log[a] \in Seq(Events) /\ EventChainValid(store[a], log[a])
        /\ store[a].state \in {"leased", "dispatched"}
        /\ snapshot[c][a].version = store[a].version
        /\ store[a].state = "leased" => outcome \in {"failed", "rejected"}
    BY <1>5 DEF CompleteTerminal, CanComplete, RequireTransition, TypeOK, ReconciliationAccepts
  <2>2. n \in Records /\ TerminalEvent(store[a], store[a].version, outcome, result) \in Events
        /\ EventChainValid(n, Append(log[a], TerminalEvent(store[a], store[a].version, outcome, result)))
    BY <2>1, TransitionsExtend
  <2>3. /\ n.state = "terminal" /\ n.outcome = outcome /\ n.result = result
        /\ n.lease = store[a].lease
    BY <2>1 DEF TerminalTransition, TerminalBody, WithEvent, Records
  <2> HIDE DEF n
  <2>4. /\ store' \in [Authorities -> Records] /\ log' \in [Authorities -> Seq(Events)]
        /\ store'[a] = n /\ \A x \in Authorities \ {a} : store'[x] = store[x]
        /\ ReconciliationAccepts'
    BY <1>5, <2>1, <2>2, SaveKeepsChains DEF CompleteTerminal, n
  <2>5. /\ snapshot' = [snapshot EXCEPT ![c][a] = n] /\ UNCHANGED << spent, granted >>
        /\ told' = [told EXCEPT ![a] = @ \cup {Answer(n)}]
    BY <1>5, <2>1 DEF CompleteTerminal, Keep, n
  <2>6. Answer(n) \in Answers
    BY <2>3 DEF Answer, Answers
  <2>7. TypeOK'
    BY <2>2, <2>4, <2>5, <2>6 DEF TypeOK
  <2>8. RecordShape' /\ GrantsFollowState'
    BY <2>3, <2>4, <2>5 DEF RecordShape, GrantsFollowState
  <2>9. SingleDispatch'
    BY <2>5 DEF SingleDispatch
  <2>10. told[a] = {}
    BY <2>1 DEF AnswersAgree, TypeOK
  <2>11. AnswersAgree' /\ CompleterTold'
    BY <2>3, <2>4, <2>5, <2>10 DEF AnswersAgree, CompleterTold, Answer, TypeOK
  <2>12. OutcomeFollowsDispatch'
    BY <2>1, <2>3, <2>4, <2>5 DEF OutcomeFollowsDispatch, GrantsFollowState
  <2> QED
    BY <2>4, <2>7, <2>8, <2>9, <2>11, <2>12
<1>6. ASSUME UNCHANGED vars PROVE StoreInv'
  BY <1>6 DEF vars, TypeOK, RecordShape, GrantsFollowState, CompleterTold, SingleDispatch,
              AnswersAgree, OutcomeFollowsDispatch, ReconciliationAccepts
<1> QED
  BY <1>1, <1>2, <1>3, <1>4, <1>5, <1>6 DEF Next

(* The inductive invariant holds in every reachable state.                 *)
LEMMA StoreInvariant == Spec => []StoreInv
BY StoreInit, StoreStep, PTL DEF Spec

(* The store is always well typed.                                         *)
THEOREM StoreTypeCorrect == Spec => []TypeOK
BY StoreInvariant, PTL DEF StoreInv

(* No authority is ever dispatched twice: for any number of callers that   *)
(* lease, lose and reclaim it, with any clocks, mark_dispatched succeeds   *)
(* for one caller under one lease.                                         *)
THEOREM StoreSingleDispatch == Spec => []SingleDispatch
BY StoreInvariant, PTL DEF StoreInv

(* complete_terminal and the replay of issue_or_get hand out one terminal  *)
(* answer per authority.                                                   *)
THEOREM StoreAnswersAgree == Spec => []AnswersAgree
BY StoreInvariant, PTL DEF StoreInv

(* A recorded success or unknown outcome was preceded by a dispatch under  *)
(* the lease in the record.                                                *)
THEOREM StoreOutcomeFollowsDispatch == Spec => []OutcomeFollowsDispatch
BY StoreInvariant, PTL DEF StoreInv

(* read_for_reconciliation accepts every record the store can reach.       *)
THEOREM StoreReconciliationAccepts == Spec => []ReconciliationAccepts
BY StoreInvariant, PTL DEF StoreInv

----------------------------------------------------------------------------
(* What one successful call does to the record it is about: the fields the *)
(* monotonicity and the refinement arguments need.                         *)
LEMMA ChangeShape ==
    ASSUME StoreInv, NEW a \in Authorities, NEW n \in Records, NEW e \in Events, Save(a, n, e)
    PROVE  /\ store' = [store EXCEPT ![a] = n]
           /\ \A x \in Authorities \ {a} : store'[x] = store[x] /\ log'[x] = log[x]
           /\ store'[a] = n
           /\ SubSeq(log'[a], 1, Len(log[a])) = log[a]
<1>1. /\ store' = [store EXCEPT ![a] = n] /\ log' = [log EXCEPT ![a] = Append(log[a], e)]
      /\ log[a] \in Seq(Events) /\ store \in [Authorities -> Records]
      /\ log \in [Authorities -> Seq(Events)]
  BY DEF Save, StoreInv, TypeOK
<1>2. SubSeq(Append(log[a], e), 1, Len(log[a])) = log[a]
  BY <1>1
<1> QED
  BY <1>1, <1>2

(* The three kinds of change a call makes to the record of authority a.    *)
PreDispatchChange(a, n) ==
    /\ store[a].state \in {"absent", "issued", "leased"}
    /\ n.state \in {"issued", "leased"} /\ Rank(n) >= Rank(store[a])
    /\ store[a].state # "absent" => n.binding = store[a].binding
    /\ UNCHANGED << granted, told >>

DispatchChange(a, n) ==
    /\ store[a].state = "leased" /\ n.state = "dispatched"
    /\ n.binding = store[a].binding
    /\ UNCHANGED told
    /\ \E g \in Callers \X Leases : granted' = [granted EXCEPT ![a] = {g}]

TerminalChange(a, n) ==
    /\ store[a].state \in {"leased", "dispatched"} /\ n.state = "terminal"
    /\ n.binding = store[a].binding
    /\ UNCHANGED granted
    /\ n.outcome \in TerminalOutcomes /\ n.result \in Results
    /\ store[a].state = "leased" => n.outcome \in {"failed", "rejected"}
    /\ told' = [told EXCEPT ![a] = {[outcome |-> n.outcome, result |-> n.result]}]

Writes(a, n, e) ==
    /\ Save(a, n, e)
    /\ n.version = store[a].version + 1
    /\ PreDispatchChange(a, n) \/ DispatchChange(a, n) \/ TerminalChange(a, n)

(* Every step writes one record in one of those ways, or writes nothing.   *)
LEMMA StepWrites ==
    ASSUME StoreInv, Next
    PROVE  \/ UNCHANGED << store, log, granted, told >>
           \/ \E a \in Authorities, n \in Records, e \in Events : Writes(a, n, e)
<1> USE DEF StoreInv
<1>0. \A a \in Authorities : /\ store[a] \in Records /\ log[a] \in Seq(Events)
                             /\ EventChainValid(store[a], log[a])
  BY DEF TypeOK, ReconciliationAccepts
<1>1. ASSUME NEW c \in Callers, NEW a \in Authorities, NEW b \in Bindings, Issue(c, a, b)
      PROVE  \E n \in Records, e \in Events : Writes(a, n, e)
  <2>1. store[a] = AbsentRecord
    BY <1>1 DEF Issue, RecordShape
  <2>2. NewIssue(b) \in Records /\ NewIssueEvent(b) \in Events
    BY <2>1, <1>0, TransitionsExtend
  <2>3. /\ NewIssue(b).state = "issued" /\ NewIssue(b).version = store[a].version + 1
        /\ store[a].state = "absent"
    BY <2>1 DEF NewIssue, IssuedBody, WithEvent, AbsentRecord
  <2>4. Rank(NewIssue(b)) >= Rank(store[a])
    BY <2>3 DEF Rank
  <2> QED
    BY <1>1, <2>2, <2>3, <2>4 DEF Issue, Writes, PreDispatchChange
<1>2. ASSUME NEW c \in Callers, NEW a \in Authorities, NEW b \in Bindings, Get(c, a, b)
      PROVE  UNCHANGED << store, log, granted, told >>
  <2>1. store[a].state = "terminal" => told[a] \cup {Answer(store[a])} = told[a]
    BY DEF CompleterTold
  <2> QED
    BY <1>2, <2>1 DEF Get, TypeOK
<1>3. ASSUME NEW c \in Callers, NEW a \in Authorities, NEW lease \in Leases, NEW now \in Times,
             LeaseForDispatch(c, a, lease, now)
      PROVE  \E n \in Records, e \in Events : Writes(a, n, e)
  <2> DEFINE n == LeaseTransition(store[a], store[a].version, lease, now)
  <2>1. /\ store[a].state \in {"issued", "leased"} /\ snapshot[c][a].version = store[a].version
        /\ CanLease(store[a], store[a].version, lease, now)
    BY <1>3 DEF LeaseForDispatch, CanLease, RequireTransition
  <2>2. n \in Records /\ LeaseEvent(store[a], store[a].version, lease, now) \in Events
    BY <2>1, <1>0, TransitionsExtend
  <2>3. n.state = "leased" /\ n.version = store[a].version + 1 /\ n.binding = store[a].binding
    BY <1>0 DEF LeaseTransition, LeasedBody, WithEvent, Records
  <2>4. Rank(n) >= Rank(store[a])
    BY <2>1, <2>3 DEF Rank
  <2> QED
    BY <1>3, <2>1, <2>2, <2>3, <2>4 DEF LeaseForDispatch, Writes, PreDispatchChange
<1>4. ASSUME NEW c \in Callers, NEW a \in Authorities, NEW now \in Times, MarkDispatched(c, a, now)
      PROVE  \E n \in Records, e \in Events : Writes(a, n, e)
  <2> DEFINE n == DispatchTransition(store[a], store[a].version)
  <2>1. /\ store[a].state = "leased" /\ snapshot[c][a].version = store[a].version
        /\ snapshot[c][a].lease = store[a].lease /\ store[a].lease \in Leases
        /\ granted[a] = {}
    BY <1>4 DEF MarkDispatched, CanDispatch, RequireTransition, RecordShape, GrantsFollowState
  <2>2. n \in Records /\ DispatchEvent(store[a], store[a].version) \in Events
    BY <1>0, TransitionsExtend
  <2>3. n.state = "dispatched" /\ n.version = store[a].version + 1 /\ n.binding = store[a].binding
    BY <1>0 DEF DispatchTransition, DispatchedBody, WithEvent, Records
  <2>4. granted' = [granted EXCEPT ![a] = {<< c, store[a].lease >>}]
    BY <1>4, <2>1 DEF MarkDispatched
  <2>5. << c, store[a].lease >> \in Callers \X Leases
    BY <2>1
  <2> QED
    BY <1>4, <2>1, <2>2, <2>3, <2>4, <2>5 DEF MarkDispatched, Writes, DispatchChange
<1>5. ASSUME NEW c \in Callers, NEW a \in Authorities,
             NEW outcome \in TerminalOutcomes, NEW result \in Results,
             CompleteTerminal(c, a, outcome, result)
      PROVE  \E n \in Records, e \in Events : Writes(a, n, e)
  <2> DEFINE n == TerminalTransition(store[a], store[a].version, outcome, result)
  <2>1. /\ store[a].state \in {"leased", "dispatched"}
        /\ snapshot[c][a].version = store[a].version
        /\ store[a].state = "leased" => outcome \in {"failed", "rejected"}
        /\ told[a] = {}
    BY <1>5 DEF CompleteTerminal, CanComplete, RequireTransition, AnswersAgree, TypeOK
  <2>2. n \in Records /\ TerminalEvent(store[a], store[a].version, outcome, result) \in Events
    BY <1>0, TransitionsExtend
  <2>3. /\ n.state = "terminal" /\ n.version = store[a].version + 1
        /\ n.binding = store[a].binding /\ n.outcome = outcome /\ n.result = result
    BY <1>0 DEF TerminalTransition, TerminalBody, WithEvent, Records
  <2>4. told' = [told EXCEPT ![a] = {[outcome |-> outcome, result |-> result]}]
    BY <1>5, <2>1, <2>3 DEF CompleteTerminal, Answer
  <2> QED
    BY <1>5, <2>1, <2>2, <2>3, <2>4 DEF CompleteTerminal, Writes, TerminalChange
<1> QED
  BY <1>1, <1>2, <1>3, <1>4, <1>5 DEF Next

(* A record's version rises by one with every change and its state never   *)
(* goes back; terminal records, bindings and written receipts stay.        *)
THEOREM StoreLifecycleMonotone == Spec => LifecycleMonotone
<1> DEFINE Step == \A a \in Authorities :
              store'[a] # store[a] =>
                 /\ store[a].state # "terminal"
                 /\ store'[a].version = store[a].version + 1
                 /\ Rank(store'[a]) >= Rank(store[a])
                 /\ store[a].state # "absent" => store'[a].binding = store[a].binding
                 /\ SubSeq(log'[a], 1, Len(log[a])) = log[a]
<1>1. StoreInv /\ [Next]_vars => [Step]_vars
  <2> SUFFICES ASSUME StoreInv, Next PROVE Step
    OBVIOUS
  <2>1. CASE UNCHANGED << store, log, granted, told >>
    BY <2>1
  <2>2. ASSUME NEW a \in Authorities, NEW n \in Records, NEW e \in Events, Writes(a, n, e)
        PROVE  Step
    <3>1. /\ \A x \in Authorities \ {a} : store'[x] = store[x]
          /\ store'[a] = n /\ SubSeq(log'[a], 1, Len(log[a])) = log[a]
      BY <2>2, ChangeShape DEF Writes
    <3>2. n.version = store[a].version + 1 /\ store[a].state # "terminal"
          /\ (store[a].state # "absent" => n.binding = store[a].binding)
      BY <2>2 DEF Writes, PreDispatchChange, DispatchChange, TerminalChange
    <3>3. Rank(n) >= Rank(store[a])
      BY <2>2 DEF Writes, PreDispatchChange, DispatchChange, TerminalChange, Rank
    <3> QED
      BY <3>1, <3>2, <3>3
  <2> QED
    BY <2>1, <2>2, StepWrites
<1>2. Spec => [][Step]_vars
  BY <1>1, StoreInvariant, PTL DEF Spec
<1> QED
  BY <1>2 DEF LifecycleMonotone

(* Every behaviour of the store is one of the at-most-once action.         *)
THEOREM StoreImplementsAtMostOnce == Spec => ImplementsAtMostOnce
<1> DEFINE p == [a \in Authorities |-> PhaseOf(store[a])]
<1>1. Init => AtMostOnce!Init
  <2> SUFFICES ASSUME Init PROVE AtMostOnce!Init
    OBVIOUS
  <2>1. \A a \in Authorities : PhaseOf(store[a]) = "open"
    BY DEF Init, PhaseOf, AbsentRecord
  <2> QED
    BY <2>1 DEF Init, AtMostOnce!Init
<1>2. StoreInv /\ [Next]_vars => [AtMostOnce!Next]_(AtMostOnce!vars)
  <2> SUFFICES ASSUME StoreInv, [Next]_vars PROVE [AtMostOnce!Next]_(AtMostOnce!vars)
    OBVIOUS
  <2>1. CASE UNCHANGED << store, log, granted, told >>
    BY <2>1 DEF AtMostOnce!vars
  <2>2. ASSUME NEW a \in Authorities, NEW n \in Records, NEW e \in Events, Writes(a, n, e)
        PROVE  [AtMostOnce!Next]_(AtMostOnce!vars)
    <3>1. store' = [store EXCEPT ![a] = n] /\ store \in [Authorities -> Records]
      BY <2>2, ChangeShape DEF Writes, StoreInv, TypeOK
    <3>2. p' = [p EXCEPT ![a] = PhaseOf(n)] /\ p[a] = PhaseOf(store[a])
      BY <3>1
    <3>3. CASE PreDispatchChange(a, n)
      <4>1. PhaseOf(n) = "open" /\ PhaseOf(store[a]) = "open"
        BY <3>3 DEF PreDispatchChange, PhaseOf
      <4>2. p' = p
        BY <4>1, <3>2
      <4> QED
        BY <4>2, <3>3 DEF PreDispatchChange, AtMostOnce!vars
    <3>4. CASE DispatchChange(a, n)
      <4>1. PhaseOf(n) = "started" /\ PhaseOf(store[a]) = "open"
        BY <3>4 DEF DispatchChange, PhaseOf
      <4>2. PICK g \in Callers \X Leases : granted' = [granted EXCEPT ![a] = {g}]
        BY <3>4 DEF DispatchChange
      <4>3. AtMostOnce!Start(a, g)
        BY <4>1, <4>2, <3>2, <3>4 DEF AtMostOnce!Start, DispatchChange
      <4> QED
        BY <4>3 DEF AtMostOnce!Next
    <3>5. CASE TerminalChange(a, n)
      <4>1. /\ PhaseOf(n) = "closed"
            /\ store[a].state = "dispatched" => PhaseOf(store[a]) = "started"
            /\ store[a].state = "leased" => PhaseOf(store[a]) = "open"
        BY <3>5 DEF TerminalChange, PhaseOf
      <4>2. AtMostOnce!Close(a, n.outcome, n.result)
        BY <4>1, <3>2, <3>5 DEF AtMostOnce!Close, TerminalChange
      <4> QED
        BY <4>2, <3>5 DEF AtMostOnce!Next, TerminalChange
    <3> QED
      BY <2>2, <3>3, <3>4, <3>5 DEF Writes
  <2>3. CASE UNCHANGED vars
    BY <2>3, <2>1 DEF vars
  <2> QED
    BY <2>1, <2>2, <2>3, StepWrites
<1> QED
  BY <1>1, <1>2, StoreInvariant, PTL DEF Spec, ImplementsAtMostOnce, AtMostOnce!Spec
=============================================================================
