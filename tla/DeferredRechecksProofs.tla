------------------------ MODULE DeferredRechecksProofs ------------------------
(***************************************************************************)
(* Proofs about DeferredRechecks, for any number of runs, processes and    *)
(* faults and any size of a claim.                                         *)
(*                                                                         *)
(* The argument: a loop takes into its hand only records it moved from     *)
(* pending to claimed in one locked rewrite of the file, so the hands are  *)
(* disjoint; whoever holds a record is the only one to change it, since    *)
(* the run it is named after has left the steps that write it.  A record   *)
(* is counted when its recheck is started and leaves the batch at once.    *)
(***************************************************************************)
EXTENDS DeferredRechecks, TLAPS

HandOf(l) == l.batch \cup ({l.record} \ {NoRun})

(* The locals of a loop, by its step.                                      *)
Shaped(l) ==
    /\ l.pc \in {"idle", "dead"} => l.batch = {}
    /\ l.pc \in {"idle", "dead", "spawn"} => l.record = NoRun
    /\ l.pc \in {"mark", "raised"} => l.record \in Runs
    /\ l.record \notin l.batch

(* The file and the runs: only a record that left pending was rechecked,   *)
(* and only a run that has deferred has a record.                          *)
FiledAs(state, status, count) ==
    /\ count <= 1
    /\ status \in {"none", "pending"} => count = 0
    /\ status = "spawned" => count = 1
    /\ state.pc \in {"working", "waiting"} => status = "none"

Filed == \A r \in Runs : FiledAs(run[r], record[r], spawns[r])

(* What a loop with the locals l knows of the records in its hand.         *)
Knows(l) ==
    /\ \A r \in HandOf(l) : record[r] = "claimed"
    /\ \A r \in l.batch : spawns[r] = 0
    /\ l.pc = "mark" => spawns[l.record] = 1

Disjoint == \A p, q \in Processes : p # q => Hand(p) \cap Hand(q) = {}

(* Without a fault no claim is forgotten.                                  *)
Held == faults = 0 => \A r \in Runs : record[r] = "claimed" => \E p \in Processes : r \in Hand(p)

RechecksInv ==
    /\ TypeOK
    /\ \A p \in Processes : Shaped(loop[p]) /\ Knows(loop[p])
    /\ Filed
    /\ Disjoint
    /\ Held

----------------------------------------------------------------------------
StoreTypes ==
    /\ run \in [Runs -> RunStates]
    /\ record \in [Runs -> RecordStatuses]
    /\ spawns \in [Runs -> 0 .. 2]

(* What becomes of a run, its record and its count: what was stored, or    *)
(* nothing when both are over.                                             *)
Kept(r, state, status, count) == run'[r] = state /\ record'[r] = status /\ spawns'[r] = count

Dropped(r, status) ==
    /\ run'[r] = Ended /\ record'[r] = "none" /\ spawns'[r] = 0
    /\ status \in {"none", "spawned", "failed"}

LEMMA StoreTells ==
    ASSUME NEW rs \in [Runs -> RunStates], NEW ds \in [Runs -> RecordStatuses],
           NEW cs \in [Runs -> 0 .. 2], Store(rs, ds, cs)
    PROVE  /\ StoreTypes'
           /\ \A r \in Runs : Kept(r, rs[r], ds[r], cs[r]) \/ Dropped(r, ds[r])
<1>1. Ended \in RunStates /\ "none" \in RecordStatuses /\ 0 \in 0 .. 2
    BY DEF Ended, RunStates, RunSteps, RecordStatuses
<1>2. run' \in [Runs -> RunStates]
    BY <1>1 DEF Store
<1>3. record' \in [Runs -> RecordStatuses] /\ spawns' \in [Runs -> 0 .. 2]
    BY <1>1 DEF Store
<1>4. \A r \in Runs : Kept(r, rs[r], ds[r], cs[r]) \/ Dropped(r, ds[r])
    BY DEF Store, Kept, Dropped
<1> QED BY <1>2, <1>3, <1>4 DEF StoreTypes

LEMMA HandIs == \A p \in Processes : Hand(p) = HandOf(loop[p])
BY DEF Hand, HandOf

(* A step that leaves the loops alone and what they hold.                  *)
LEMMA FileKeeps ==
    ASSUME RechecksInv, UNCHANGED << loop, faults >>, StoreTypes', signals' \in 0 .. MaxSignals, Filed',
           \A p \in Processes : \A r \in Hand(p) : record'[r] = "claimed" /\ spawns'[r] = spawns[r],
           \A r \in Runs : record'[r] = "claimed" => record[r] = "claimed"
    PROVE  RechecksInv'
<1>1. TypeOK'
    BY DEF RechecksInv, TypeOK, StoreTypes
<1>2. \A p \in Processes : Hand(p)' = Hand(p)
    BY DEF Hand
<1>3. Disjoint' /\ Held'
    BY <1>2 DEF RechecksInv, Disjoint, Held
<1>4. ASSUME NEW p \in Processes PROVE Shaped(loop[p])' /\ Knows(loop[p])'
  <2>1. Shaped(loop[p]) /\ Knows(loop[p])
      BY DEF RechecksInv
  <2>2. loop[p].pc = "mark" => loop[p].record \in HandOf(loop[p])
      BY <2>1, RechecksAssumption DEF Shaped, HandOf
  <2>3. \A r \in HandOf(loop[p]) : record'[r] = "claimed" /\ spawns'[r] = spawns[r]
      BY HandIs
  <2>4. loop'[p] = loop[p] /\ \A r \in loop[p].batch : r \in HandOf(loop[p])
      BY DEF HandOf
  <2> QED BY <2>1, <2>2, <2>3, <2>4 DEF Shaped, Knows
<1> QED BY <1>1, <1>3, <1>4 DEF RechecksInv

(* A step of the loop p, whose locals become l.                            *)
LEMMA LoopKeeps ==
    ASSUME RechecksInv, NEW p \in Processes, NEW l \in Loops, Set(p, l), Shaped(l),
           StoreTypes', signals' \in 0 .. MaxSignals, faults' \in 0 .. MaxFaults, Filed', Knows(l)',
           \A q \in Processes \ {p} :
              /\ HandOf(l) \cap Hand(q) = {}
              /\ \A r \in Hand(q) : record'[r] = "claimed" /\ spawns'[r] = spawns[r],
           faults' = 0 =>
              /\ faults = 0
              /\ \A r \in Runs : record'[r] = "claimed" =>
                                    r \in HandOf(l) \/ (record[r] = "claimed" /\ r \notin Hand(p))
    PROVE  RechecksInv'
<1>0. loop'[p] = l /\ \A q \in Processes \ {p} : loop'[q] = loop[q]
    BY DEF Set, RechecksInv, TypeOK
<1>1. TypeOK'
    BY DEF RechecksInv, TypeOK, StoreTypes, Set
<1>2. Hand(p)' = HandOf(l) /\ \A q \in Processes \ {p} : Hand(q)' = Hand(q)
    BY <1>0 DEF Hand, HandOf
<1>3. Disjoint'
    BY <1>2 DEF RechecksInv, Disjoint
<1>4. Held'
    BY <1>2 DEF RechecksInv, Held
<1>5. ASSUME NEW q \in Processes PROVE Shaped(loop[q])' /\ Knows(loop[q])'
  <2>1. CASE q = p
      BY <1>0, <2>1 DEF Shaped, Knows
  <2>2. CASE q # p
    <3>1. Shaped(loop[q]) /\ Knows(loop[q])
        BY DEF RechecksInv
    <3>2. loop[q].pc = "mark" => loop[q].record \in HandOf(loop[q])
        BY <3>1, RechecksAssumption DEF Shaped, HandOf
    <3>3. \A r \in HandOf(loop[q]) : record'[r] = "claimed" /\ spawns'[r] = spawns[r]
        BY <2>2, HandIs
    <3>4. loop'[q] = loop[q] /\ \A r \in loop[q].batch : r \in HandOf(loop[q])
        BY <1>0, <2>2 DEF HandOf
    <3> QED BY <3>1, <3>2, <3>3, <3>4 DEF Shaped, Knows
  <2> QED BY <2>1, <2>2
<1> QED BY <1>1, <1>3, <1>4, <1>5 DEF RechecksInv

LEMMA StoreFiled ==
    ASSUME NEW rs \in [Runs -> RunStates], NEW ds \in [Runs -> RecordStatuses],
           NEW cs \in [Runs -> 0 .. 2], Store(rs, ds, cs),
           \A r \in Runs : FiledAs(rs[r], ds[r], cs[r])
    PROVE  Filed'
<1>1. \A r \in Runs : Kept(r, rs[r], ds[r], cs[r]) \/ Dropped(r, ds[r])
    BY StoreTells
<1> QED BY <1>1 DEF Filed, FiledAs, Kept, Dropped, Ended

(* A step of the run r, which writes its record only before it is claimed. *)
LEMMA GoKeeps ==
    ASSUME RechecksInv, NEW r \in Runs, NEW pc \in RunSteps, NEW status \in RecordStatuses,
           Go(r, pc, status),
           status = record[r] \/ (record[r] = "none" /\ status \in {"none", "pending"}),
           pc \in {"working", "waiting"} => status = "none"
    PROVE  RechecksInv'
<1> DEFINE rs == [run EXCEPT ![r].pc = pc]
           ds == [record EXCEPT ![r] = status]
<1>1. rs \in [Runs -> RunStates] /\ ds \in [Runs -> RecordStatuses] /\ spawns \in [Runs -> 0 .. 2]
    BY DEF RechecksInv, TypeOK, RunStates
<1>2. /\ rs[r].pc = pc /\ ds[r] = status
      /\ \A q \in Runs \ {r} : rs[q] = run[q] /\ ds[q] = record[q]
    BY DEF RechecksInv, TypeOK, RunStates
<1>3. Store(rs, ds, spawns) /\ UNCHANGED << loop, bounds >>
    BY DEF Go
<1> HIDE DEF rs, ds
<1>4. \A q \in Runs : FiledAs(rs[q], ds[q], spawns[q])
    BY <1>2 DEF RechecksInv, Filed, FiledAs
<1>5. StoreTypes' /\ Filed'
    BY <1>1, <1>3, <1>4, StoreTells, StoreFiled
<1>6. \A q \in Runs : Kept(q, rs[q], ds[q], spawns[q]) \/ Dropped(q, ds[q])
    BY <1>1, <1>3, StoreTells
<1>7. ASSUME NEW p \in Processes, NEW q \in Hand(p)
      PROVE  record'[q] = "claimed" /\ spawns'[q] = spawns[q]
  <2>1. q \in Runs /\ record[q] = "claimed"
      BY HandIs DEF RechecksInv, Knows, TypeOK, Loops, HandOf
  <2>2. ds[q] = "claimed"
      BY <1>2, <2>1
  <2> QED BY <1>6, <2>1, <2>2 DEF Kept, Dropped
<1>8. \A q \in Runs : record'[q] = "claimed" => record[q] = "claimed"
    BY <1>2, <1>6 DEF Kept, Dropped
<1> QED BY <1>3, <1>5, <1>7, <1>8, FileKeeps DEF bounds, RechecksInv, TypeOK

(* The name of a new run is in nobody's hand.                              *)
LEMMA NewNameFresh ==
    ASSUME RechecksInv, Available # {}
    PROVE  /\ NewName \in Runs /\ record[NewName] \in {"none", "claimed"}
           /\ \A p \in Processes : NewName \notin Hand(p)
<1>1. NewName \in Available
    BY DEF NewName
<1>2. NewName \in Runs /\ (record[NewName] = "none" \/ Lost(NewName))
    BY <1>1 DEF Available
<1>3. \A p \in Processes : NewName \in Hand(p) => record[NewName] = "claimed"
    BY HandIs DEF RechecksInv, Knows
<1> QED BY <1>2, <1>3 DEF Lost

(* What a new run does to the other runs, their records and counts.        *)
LEMMA NewRunTells ==
    ASSUME RechecksInv, Available # {}, NEW probe \in BOOLEAN, NEW counts \in [Runs -> 0 .. 2],
           NewRun(probe, counts),
           \A r \in Runs \ {NewName} : FiledAs(run[r], record[r], counts[r])
    PROVE  /\ StoreTypes' /\ Filed'
           /\ record'[NewName] = "none"
           /\ \A r \in Runs \ {NewName} : Kept(r, run[r], record[r], counts[r]) \/ Dropped(r, record[r])
<1> DEFINE n == NewName
<1>0. n \in Runs
    BY NewNameFresh
<1>1. PICK pc \in {"working", "ended"} :
         Store([run EXCEPT ![n] = [pc |-> pc, probe |-> probe]],
               [record EXCEPT ![n] = "none"], [counts EXCEPT ![n] = 0])
    BY DEF NewRun
<1> DEFINE rs == [run EXCEPT ![n] = [pc |-> pc, probe |-> probe]]
           ds == [record EXCEPT ![n] = "none"]
           cs == [counts EXCEPT ![n] = 0]
<1>2. [pc |-> pc, probe |-> probe] \in RunStates /\ "none" \in RecordStatuses
    BY DEF RunStates, RunSteps, RecordStatuses
<1>3. rs \in [Runs -> RunStates] /\ ds \in [Runs -> RecordStatuses] /\ cs \in [Runs -> 0 .. 2]
    BY <1>0, <1>2 DEF RechecksInv, TypeOK
<1>4. /\ rs[n] = [pc |-> pc, probe |-> probe] /\ ds[n] = "none" /\ cs[n] = 0
      /\ \A r \in Runs \ {n} : rs[r] = run[r] /\ ds[r] = record[r] /\ cs[r] = counts[r]
    BY <1>0 DEF RechecksInv, TypeOK
<1>5. Store(rs, ds, cs)
    BY <1>1
<1> HIDE DEF rs, ds, cs, n
<1>6. \A r \in Runs : FiledAs(rs[r], ds[r], cs[r])
  <2>1. FiledAs(rs[n], ds[n], cs[n])
      BY <1>4 DEF FiledAs
  <2> QED BY <1>4, <2>1 DEF n
<1>7. StoreTypes' /\ Filed'
    BY <1>3, <1>5, <1>6, StoreTells, StoreFiled
<1>8. \A r \in Runs : Kept(r, rs[r], ds[r], cs[r]) \/ Dropped(r, ds[r])
    BY <1>3, <1>5, StoreTells
<1>9. record'[n] = "none"
    BY <1>0, <1>4, <1>8 DEF Kept, Dropped, n
<1>10. \A r \in Runs \ {n} : Kept(r, run[r], record[r], counts[r]) \/ Dropped(r, record[r])
    BY <1>4, <1>8
<1> QED BY <1>7, <1>9, <1>10 DEF n

----------------------------------------------------------------------------
(* What is in a hand is a claimed record of a run.                         *)
LEMMA HandIsClaimed ==
    ASSUME RechecksInv, NEW p \in Processes, NEW r \in Hand(p)
    PROVE  r \in Runs /\ record[r] = "claimed"
BY HandIs DEF RechecksInv, Knows, TypeOK, Loops, HandOf

LEMMA LocalsOf ==
    ASSUME RechecksInv, NEW p \in Processes
    PROVE  /\ loop[p] \in Loops /\ Shaped(loop[p]) /\ Knows(loop[p])
           /\ Hand(p) = HandOf(loop[p])
           /\ \A q \in Processes \ {p} : Hand(p) \cap Hand(q) = {}
BY HandIs DEF RechecksInv, TypeOK, Disjoint

LEMMA IdleIs == IdleLoop \in Loops /\ HandOf(IdleLoop) = {}
BY DEF IdleLoop, Loops, HandOf

LEMMA SubmitKeeps == RechecksInv /\ Submit => RechecksInv'
<1> SUFFICES ASSUME RechecksInv, Submit PROVE RechecksInv'
    OBVIOUS
<1>1. PICK probe \in BOOLEAN : NewRun(probe, spawns)
    BY DEF Submit
<1>2. Available # {} /\ spawns \in [Runs -> 0 .. 2]
    BY DEF Submit, RechecksInv, TypeOK
<1>3. \A r \in Runs : FiledAs(run[r], record[r], spawns[r])
    BY DEF RechecksInv, Filed
<1>4. /\ StoreTypes' /\ Filed' /\ record'[NewName] = "none"
      /\ \A r \in Runs \ {NewName} : Kept(r, run[r], record[r], spawns[r]) \/ Dropped(r, record[r])
    BY <1>1, <1>2, <1>3, NewRunTells
<1>5. ASSUME NEW p \in Processes, NEW r \in Hand(p)
      PROVE  record'[r] = "claimed" /\ spawns'[r] = spawns[r]
  <2>1. r \in Runs /\ record[r] = "claimed" /\ r # NewName
      BY <1>2, <1>5, HandIsClaimed, NewNameFresh
  <2> QED BY <1>4, <2>1 DEF Kept, Dropped
<1>6. \A r \in Runs : record'[r] = "claimed" => record[r] = "claimed"
    BY <1>4 DEF Kept, Dropped
<1>7. UNCHANGED << loop, faults >> /\ signals' \in 0 .. MaxSignals
    BY RechecksAssumption DEF Submit, RechecksInv, TypeOK
<1> QED BY <1>4, <1>5, <1>6, <1>7, FileKeeps

(* claim_due moves the records from pending into one hand.                 *)
LEMMA ClaimKeeps ==
    ASSUME RechecksInv, NEW p \in Processes, NEW due \in SUBSET Pending, ClaimDue(p, due)
    PROVE  RechecksInv'
<1> DEFINE l == [IdleLoop EXCEPT !.pc = "spawn", !.batch = due]
<1>0. due \subseteq Runs /\ \A r \in due : record[r] = "pending"
    BY DEF Pending
<1>1. l \in Loops /\ l.pc = "spawn" /\ l.batch = due /\ l.record = NoRun
    BY <1>0 DEF IdleLoop, Loops
<1>2. Set(p, l) /\ UNCHANGED << run, bounds, spawns >>
      /\ record' = [r \in Runs |-> IF r \in due THEN "claimed" ELSE record[r]]
    BY DEF ClaimDue
<1> HIDE DEF l
<1>3. HandOf(l) = due /\ Shaped(l)
    BY <1>0, <1>1, RechecksAssumption DEF HandOf, Shaped
<1>4. StoreTypes' /\ signals' \in 0 .. MaxSignals /\ faults' \in 0 .. MaxFaults /\ faults' = faults
    BY <1>2 DEF RechecksInv, TypeOK, StoreTypes, RecordStatuses, bounds
<1>5. Filed'
    BY <1>0, <1>2 DEF RechecksInv, Filed, FiledAs
<1>6. Knows(l)'
    BY <1>0, <1>1, <1>2, <1>3 DEF Knows, RechecksInv, Filed, FiledAs
<1>7. ASSUME NEW q \in Processes \ {p}
      PROVE  /\ HandOf(l) \cap Hand(q) = {}
             /\ \A r \in Hand(q) : record'[r] = "claimed" /\ spawns'[r] = spawns[r]
    BY <1>0, <1>2, <1>3, HandIsClaimed
<1>8. Hand(p) = {}
  <2>1. loop[p].pc = "idle"
      BY DEF ClaimDue
  <2> QED BY <2>1, LocalsOf DEF HandOf, Shaped
<1>9. \A r \in Runs : record'[r] = "claimed" => r \in HandOf(l) \/ (record[r] = "claimed" /\ r \notin Hand(p))
    BY <1>2, <1>3, <1>8
<1> QED BY <1>1, <1>2, <1>3, <1>4, <1>5, <1>6, <1>7, <1>9, LoopKeeps

(* A recheck is started for one record of the batch, which is counted.     *)
LEMMA SpawnKeeps ==
    ASSUME RechecksInv, NEW p \in Processes, NEW d \in Runs, Spawn(p, d)
    PROVE  RechecksInv'
<1> DEFINE counts == [spawns EXCEPT ![d] = IF @ < 2 THEN @ + 1 ELSE @]
<1>0. /\ loop[p].pc = "spawn" /\ d \in loop[p].batch /\ Available # {}
      /\ NewRun(run[d].probe, counts) /\ UNCHANGED bounds
    BY DEF Spawn
<1>1. loop[p] \in Loops /\ Shaped(loop[p]) /\ Knows(loop[p]) /\ Hand(p) = HandOf(loop[p])
    BY LocalsOf
<1>2. HandOf(loop[p]) = loop[p].batch /\ NoRun \notin loop[p].batch
    BY <1>0, <1>1, RechecksAssumption DEF Shaped, HandOf, Loops
<1>3. record[d] = "claimed" /\ spawns[d] = 0
    BY <1>0, <1>1, <1>2 DEF Knows
<1>4. /\ NewName \in Runs /\ NewName # d /\ NewName \notin loop[p].batch
      /\ \A q \in Processes : NewName \notin Hand(q)
    BY <1>0, <1>1, <1>2, NewNameFresh
<1>5. PICK l \in Loops :
         /\ Set(p, l)
         /\ l = [pc |-> "mark", batch |-> loop[p].batch \ {d}, record |-> d, child |-> NewName]
    BY <1>1, <1>4 DEF Loops, Spawn
<1>6. /\ counts \in [Runs -> 0 .. 2] /\ counts[d] = 1
      /\ \A r \in Runs \ {d} : counts[r] = spawns[r]
    BY <1>3 DEF RechecksInv, TypeOK
<1>7. l.pc = "mark" /\ l.batch = loop[p].batch \ {d} /\ l.record = d
    BY <1>5
<1> HIDE DEF counts
<1>8. HandOf(l) = HandOf(loop[p]) /\ Shaped(l)
    BY <1>0, <1>2, <1>7, RechecksAssumption DEF HandOf, Shaped
<1>9. \A r \in Runs : FiledAs(run[r], record[r], counts[r])
    BY <1>3, <1>6 DEF RechecksInv, Filed, FiledAs
<1>10. run[d].probe \in BOOLEAN
    BY DEF RechecksInv, TypeOK, RunStates
<1>11. /\ StoreTypes' /\ Filed' /\ record'[NewName] = "none"
       /\ \A r \in Runs \ {NewName} : Kept(r, run[r], record[r], counts[r]) \/ Dropped(r, record[r])
    BY <1>0, <1>6, <1>9, <1>10, NewRunTells
<1>12. ASSUME NEW q \in Processes, NEW r \in Hand(q)
       PROVE  record'[r] = "claimed" /\ spawns'[r] = counts[r]
  <2>1. r \in Runs /\ record[r] = "claimed" /\ r # NewName
      BY <1>4, HandIsClaimed
  <2> QED BY <1>11, <2>1 DEF Kept, Dropped
<1>13. Knows(l)'
  <2>1. \A r \in HandOf(l) : record'[r] = "claimed" /\ spawns'[r] = counts[r]
      BY <1>1, <1>8, <1>12
  <2>2. \A r \in l.batch : r \in Runs \ {d} /\ r \in HandOf(l) /\ spawns[r] = 0
      BY <1>1, <1>7 DEF Knows, Loops, HandOf
  <2>3. d \in HandOf(l)
      BY <1>0, <1>2, <1>8
  <2> QED BY <1>6, <1>7, <2>1, <2>2, <2>3 DEF Knows
<1>14. ASSUME NEW q \in Processes \ {p}
       PROVE  /\ HandOf(l) \cap Hand(q) = {}
              /\ \A r \in Hand(q) : record'[r] = "claimed" /\ spawns'[r] = spawns[r]
  <2>1. HandOf(l) \cap Hand(q) = {}
      BY <1>1, <1>8, LocalsOf
  <2>2. d \notin Hand(q)
      BY <1>0, <1>2, <1>8, <2>1
  <2>3. \A r \in Hand(q) : r \in Runs \ {d}
      BY <2>2, HandIsClaimed
  <2> QED BY <1>6, <1>12, <2>1, <2>3
<1>15. \A r \in Runs : record'[r] = "claimed" => r \in HandOf(l) \/ (record[r] = "claimed" /\ r \notin Hand(p))
    BY <1>1, <1>8, <1>11 DEF Kept, Dropped
<1>16. signals' \in 0 .. MaxSignals /\ faults' \in 0 .. MaxFaults /\ faults' = faults
    BY <1>0 DEF bounds, RechecksInv, TypeOK
<1> QED BY <1>0, <1>5, <1>8, <1>11, <1>13, <1>14, <1>15, <1>16, LoopKeeps

(* A loop that only changes its step keeps its hand.                       *)
LEMMA MoveKeeps ==
    ASSUME RechecksInv, NEW p \in Processes, NEW l \in Loops, Set(p, l), Shaped(l),
           HandOf(l) = Hand(p), l.batch \subseteq loop[p].batch, l.pc # "mark",
           UNCHANGED << run, record, bounds, spawns >>
    PROVE  RechecksInv'
<1>1. StoreTypes' /\ Filed'
    BY DEF RechecksInv, TypeOK, StoreTypes, Filed
<1>2. signals' \in 0 .. MaxSignals /\ faults' \in 0 .. MaxFaults /\ faults' = faults
    BY DEF bounds, RechecksInv, TypeOK
<1>3. Knows(loop[p]) /\ Hand(p) = HandOf(loop[p]) /\ \A q \in Processes \ {p} : Hand(p) \cap Hand(q) = {}
    BY LocalsOf
<1>4. Knows(l)'
    BY <1>3 DEF Knows
<1>5. ASSUME NEW q \in Processes \ {p}
      PROVE  /\ HandOf(l) \cap Hand(q) = {}
             /\ \A r \in Hand(q) : record'[r] = "claimed" /\ spawns'[r] = spawns[r]
    BY <1>3, HandIsClaimed
<1>6. \A r \in Runs : record'[r] = "claimed" => r \in HandOf(l) \/ (record[r] = "claimed" /\ r \notin Hand(p))
    OBVIOUS
<1> QED BY <1>1, <1>2, <1>4, <1>5, <1>6, LoopKeeps

LEMMA SpawnRaisesKeeps ==
    ASSUME RechecksInv, NEW p \in Processes, NEW d \in Runs, SpawnRaises(p, d)
    PROVE  RechecksInv'
<1> DEFINE l == [IdleLoop EXCEPT !.pc = "raised", !.batch = loop[p].batch \ {d}, !.record = d]
<1>0. /\ loop[p].pc = "spawn" /\ d \in loop[p].batch /\ Set(p, l)
      /\ UNCHANGED << run, record, bounds, spawns >>
    BY DEF SpawnRaises
<1>1. loop[p] \in Loops /\ Shaped(loop[p]) /\ Hand(p) = HandOf(loop[p])
    BY LocalsOf
<1>2. l \in Loops /\ l.pc = "raised" /\ l.batch = loop[p].batch \ {d} /\ l.record = d
    BY <1>1 DEF Loops, IdleLoop
<1> HIDE DEF l
<1>3. HandOf(l) = Hand(p) /\ Shaped(l)
    BY <1>0, <1>1, <1>2, RechecksAssumption DEF HandOf, Shaped
<1> QED BY <1>0, <1>2, <1>3, MoveKeeps

LEMMA MarkRaisesKeeps ==
    ASSUME RechecksInv, NEW p \in Processes, MarkRaises(p)
    PROVE  RechecksInv'
<1> DEFINE l == [loop[p] EXCEPT !.pc = "raised", !.child = NoRun]
<1>0. loop[p].pc = "mark" /\ Set(p, l) /\ UNCHANGED << run, record, bounds, spawns >>
    BY DEF MarkRaises
<1>1. loop[p] \in Loops /\ Shaped(loop[p]) /\ Hand(p) = HandOf(loop[p])
    BY LocalsOf
<1>2. l \in Loops /\ l.pc = "raised" /\ l.batch = loop[p].batch /\ l.record = loop[p].record
    BY <1>1 DEF Loops
<1> HIDE DEF l
<1>3. HandOf(l) = Hand(p) /\ Shaped(l)
    BY <1>0, <1>1, <1>2 DEF HandOf, Shaped
<1> QED BY <1>0, <1>2, <1>3, MoveKeeps

(* The record of the loop is closed, as what was done for it.              *)
LEMMA MarkKeeps ==
    ASSUME RechecksInv, NEW p \in Processes, NEW status \in {"spawned", "failed"}, Mark(p, status),
           loop[p].pc \in {"mark", "raised"}, status = "spawned" => loop[p].pc = "mark"
    PROVE  RechecksInv'
<1> DEFINE d == loop[p].record
           ds == [record EXCEPT ![d] = status]
<1>0. Store(run, ds, spawns) /\ UNCHANGED bounds
    BY DEF Mark
<1>1. /\ loop[p] \in Loops /\ Shaped(loop[p]) /\ Knows(loop[p]) /\ Hand(p) = HandOf(loop[p])
      /\ \A q \in Processes \ {p} : Hand(p) \cap Hand(q) = {}
    BY LocalsOf
<1>2. d \in Runs /\ d \notin loop[p].batch /\ d \in HandOf(loop[p]) /\ record[d] = "claimed"
    BY <1>1, RechecksAssumption DEF Shaped, HandOf, Knows
<1>3. PICK l \in Loops :
         /\ Set(p, l) /\ l.batch = loop[p].batch /\ l.record = NoRun
         /\ l.pc = IF loop[p].batch = {} THEN "idle" ELSE "spawn"
  <2> DEFINE m == [IdleLoop EXCEPT !.batch = loop[p].batch,
                                   !.pc = IF loop[p].batch = {} THEN "idle" ELSE "spawn"]
  <2>1. m \in Loops
      BY <1>1 DEF Loops, IdleLoop
  <2>2. /\ m.batch = loop[p].batch /\ m.record = NoRun
        /\ m.pc = IF loop[p].batch = {} THEN "idle" ELSE "spawn"
      BY DEF IdleLoop
  <2>3. Set(p, m)
      BY DEF Mark
  <2> QED BY <2>1, <2>2, <2>3
<1>4. HandOf(l) = loop[p].batch /\ Shaped(l) /\ loop[p].batch \subseteq Runs
    BY <1>1, <1>3, RechecksAssumption DEF HandOf, Shaped, Loops
<1>5. HandOf(loop[p]) = HandOf(l) \cup {d}
    BY <1>2, <1>4, RechecksAssumption DEF HandOf
<1>6. /\ run \in [Runs -> RunStates] /\ ds \in [Runs -> RecordStatuses]
      /\ spawns \in [Runs -> 0 .. 2]
    BY <1>2 DEF RechecksInv, TypeOK, RecordStatuses
<1>7. ds[d] = status /\ \A r \in Runs \ {d} : ds[r] = record[r]
    BY <1>2 DEF RechecksInv, TypeOK
<1>8. status = "spawned" => spawns[d] = 1
    BY <1>1 DEF Knows
<1> HIDE DEF d, ds
<1>9. \A r \in Runs : FiledAs(run[r], ds[r], spawns[r])
    BY <1>2, <1>7, <1>8 DEF RechecksInv, Filed, FiledAs
<1>10. StoreTypes' /\ Filed'
    BY <1>0, <1>6, <1>9, StoreTells, StoreFiled
<1>11. \A r \in Runs : Kept(r, run[r], ds[r], spawns[r]) \/ Dropped(r, ds[r])
    BY <1>0, <1>6, StoreTells
<1>12. ASSUME NEW r \in Runs, r # d, record[r] = "claimed"
       PROVE  record'[r] = "claimed" /\ spawns'[r] = spawns[r]
    BY <1>7, <1>11, <1>12 DEF Kept, Dropped
<1>13. Knows(l)'
  <2>1. \A r \in HandOf(l) : r \in Runs /\ r # d /\ record[r] = "claimed" /\ spawns[r] = 0
      BY <1>1, <1>2, <1>4, <1>5 DEF Knows
  <2>2. \A r \in HandOf(l) : record'[r] = "claimed" /\ spawns'[r] = 0
      BY <1>12, <2>1
  <2>3. l.pc # "mark" /\ l.batch = HandOf(l)
      BY <1>3, <1>4
  <2> QED BY <2>2, <2>3 DEF Knows
<1>14. ASSUME NEW q \in Processes \ {p}
       PROVE  /\ HandOf(l) \cap Hand(q) = {}
              /\ \A r \in Hand(q) : record'[r] = "claimed" /\ spawns'[r] = spawns[r]
  <2>1. Hand(p) \cap Hand(q) = {}
      BY <1>1
  <2>2. \A r \in Hand(q) : r \in Runs /\ r # d /\ record[r] = "claimed"
      BY <1>1, <1>2, <2>1, HandIsClaimed
  <2>3. \A r \in Hand(q) : record'[r] = "claimed" /\ spawns'[r] = spawns[r]
      BY <1>12, <2>2
  <2> QED BY <1>1, <1>5, <2>1, <2>3
<1>15. ASSUME NEW r \in Runs, record'[r] = "claimed"
       PROVE  r \in HandOf(l) \/ (record[r] = "claimed" /\ r \notin Hand(p))
  <2>1. r # d /\ record[r] = "claimed"
      BY <1>7, <1>11, <1>15 DEF Kept, Dropped
  <2> QED BY <1>1, <1>5, <2>1
<1>16. signals' \in 0 .. MaxSignals /\ faults' \in 0 .. MaxFaults /\ faults' = faults
    BY <1>0 DEF bounds, RechecksInv, TypeOK
<1> QED BY <1>3, <1>4, <1>10, <1>13, <1>14, <1>15, <1>16, LoopKeeps

(* A loop that dies, or whose process does, forgets what it holds.         *)
LEMMA ForgetKeeps ==
    ASSUME RechecksInv, NEW p \in Processes, NEW l \in Loops, Set(p, l), HandOf(l) = {},
           l.pc \in {"idle", "dead"}, faults < MaxFaults, faults' = faults + 1, UNCHANGED signals,
           StoreTypes', Filed',
           \A r \in Runs : record[r] = "claimed" => record'[r] = "claimed" /\ spawns'[r] = spawns[r]
    PROVE  RechecksInv'
<1>1. Shaped(l) /\ Knows(l)'
    BY RechecksAssumption DEF Shaped, Knows, HandOf, Loops
<1>2. signals' \in 0 .. MaxSignals /\ faults' \in 0 .. MaxFaults /\ faults' # 0
    BY RechecksAssumption DEF RechecksInv, TypeOK
<1>3. \A q \in Processes \ {p} :
         /\ HandOf(l) \cap Hand(q) = {}
         /\ \A r \in Hand(q) : record'[r] = "claimed" /\ spawns'[r] = spawns[r]
    BY HandIsClaimed
<1> QED BY <1>1, <1>2, <1>3, LoopKeeps

LEMMA LoopDiesKeeps ==
    ASSUME RechecksInv, NEW p \in Processes, LoopDies(p)
    PROVE  RechecksInv'
<1>1. PICK l \in Loops : Set(p, l) /\ l.pc = "dead" /\ HandOf(l) = {}
    BY DEF LoopDies, IdleLoop, Loops, HandOf
<1>2. StoreTypes' /\ Filed'
    BY DEF LoopDies, RechecksInv, TypeOK, StoreTypes, Filed
<1> QED BY <1>1, <1>2, ForgetKeeps DEF LoopDies

LEMMA CrashKeeps ==
    ASSUME RechecksInv, NEW p \in Processes, Crash(p)
    PROVE  RechecksInv'
<1>1. PICK dead \in SUBSET {r \in Runs : run[r].pc # "ended"} :
         Store([r \in Runs |-> [run[r] EXCEPT !.pc = IF r \in dead THEN "ended" ELSE @]], record, spawns)
    BY DEF Crash
<1> DEFINE rs == [r \in Runs |-> [run[r] EXCEPT !.pc = IF r \in dead THEN "ended" ELSE @]]
<1>2. /\ rs \in [Runs -> RunStates] /\ record \in [Runs -> RecordStatuses]
      /\ spawns \in [Runs -> 0 .. 2]
    BY DEF RechecksInv, TypeOK, RunStates, RunSteps
<1>3. \A r \in Runs : rs[r].pc \in {run[r].pc, "ended"}
    BY DEF RechecksInv, TypeOK, RunStates
<1> HIDE DEF rs
<1>4. \A r \in Runs : FiledAs(rs[r], record[r], spawns[r])
    BY <1>3 DEF RechecksInv, Filed, FiledAs
<1>5. StoreTypes' /\ Filed'
    BY <1>1, <1>2, <1>4, StoreTells, StoreFiled DEF rs
<1>6. \A r \in Runs : Kept(r, rs[r], record[r], spawns[r]) \/ Dropped(r, record[r])
    BY <1>1, <1>2, StoreTells DEF rs
<1>7. \A r \in Runs : record[r] = "claimed" => record'[r] = "claimed" /\ spawns'[r] = spawns[r]
    BY <1>6 DEF Kept, Dropped
<1>8. IdleLoop \in Loops /\ HandOf(IdleLoop) = {} /\ IdleLoop.pc = "idle"
    BY IdleIs DEF IdleLoop
<1> QED BY <1>5, <1>7, <1>8, ForgetKeeps DEF Crash

LEMMA RunKeeps ==
    ASSUME RechecksInv, NEW r \in Runs, RunStep(r) \/ OperatorAnswers(r)
    PROVE  RechecksInv'
<1>0. record[r] \in RecordStatuses /\ "none" \in RecordStatuses /\ "pending" \in RecordStatuses
    BY DEF RechecksInv, TypeOK, RecordStatuses
<1>1. run[r].pc \in {"working", "waiting"} => record[r] = "none"
    BY DEF RechecksInv, Filed, FiledAs
<1>2. CASE run[r].pc = "working" /\ Go(r, "deferring", "pending")
    BY <1>0, <1>1, <1>2, GoKeeps DEF RunSteps
<1>3. CASE run[r].pc \in {"working", "waiting"} /\ Go(r, "ended", "none")
    BY <1>0, <1>1, <1>3, GoKeeps DEF RunSteps
<1>4. CASE run[r].pc = "working" /\ Go(r, "waiting", "none")
    BY <1>0, <1>1, <1>4, GoKeeps DEF RunSteps
<1>5. CASE Go(r, "ended", record[r])
    BY <1>0, <1>5, GoKeeps DEF RunSteps
<1> QED BY <1>2, <1>3, <1>4, <1>5
        DEF RunStep, Decide, Escalate, CompleteDeferred, RunRaises, OperatorAnswers

LEMMA RechecksNext == RechecksInv /\ [Next]_vars => RechecksInv'
<1> SUFFICES ASSUME RechecksInv, [Next]_vars PROVE RechecksInv'
    OBVIOUS
<1>1. ASSUME NEW p \in Processes, LoopStep(p) PROVE RechecksInv'
  <2>1. ASSUME NEW d \in Runs, Spawn(p, d) \/ SpawnRaises(p, d) PROVE RechecksInv'
      BY <2>1, SpawnKeeps, SpawnRaisesKeeps
  <2>2. CASE MarkSpawned(p)
      BY <2>2, MarkKeeps DEF MarkSpawned
  <2>3. CASE MarkRaises(p)
      BY <2>3, MarkRaisesKeeps
  <2>4. CASE MarkFailed(p)
      BY <2>4, MarkKeeps DEF MarkFailed
  <2> QED BY <1>1, <2>1, <2>2, <2>3, <2>4 DEF LoopStep
<1>2. CASE UNCHANGED vars
  <2>1. \A p \in Processes : Hand(p)' = Hand(p)
      BY <1>2 DEF vars, Hand
  <2> QED BY <1>2, <2>1 DEF vars, bounds, RechecksInv, TypeOK, Shaped, Knows, Filed, Disjoint, Held
<1> QED BY <1>1, <1>2, SubmitKeeps, RunKeeps, LoopDiesKeeps, CrashKeeps, ClaimKeeps DEF Next

LEMMA RechecksInit == Init => RechecksInv
<1> SUFFICES ASSUME Init PROVE RechecksInv
    OBVIOUS
<1>1. TypeOK
    BY IdleIs, RechecksAssumption DEF Init, TypeOK, Ended, RunStates, RunSteps, RecordStatuses
<1>2. Filed
    BY DEF Init, Filed, FiledAs, Ended
<1>3. \A p \in Processes : loop[p] = IdleLoop /\ Hand(p) = {}
    BY IdleIs, HandIs DEF Init
<1>4. Disjoint /\ Held
    BY <1>3 DEF Disjoint, Held, Init
<1>5. \A p \in Processes : Shaped(loop[p]) /\ Knows(loop[p])
    BY <1>3, IdleIs DEF Shaped, Knows, IdleLoop
<1> QED BY <1>1, <1>2, <1>4, <1>5 DEF RechecksInv

(* The recheck loops of any number of processes on one state directory     *)
(* never hold the same claimed record, and without a crash none is lost.   *)
THEOREM RechecksOneClaimant == Spec => []OneClaimant
<1>1. RechecksInv => OneClaimant
  <2> SUFFICES ASSUME RechecksInv, NEW r \in Runs
               PROVE  /\ \A p \in Processes : r \in Hand(p) => record[r] = "claimed"
                      /\ \A p, q \in Processes : r \in Hand(p) /\ r \in Hand(q) => p = q
                      /\ Lost(r) => faults > 0
      BY DEF OneClaimant
  <2>1. \A p \in Processes : r \in Hand(p) => record[r] = "claimed"
      BY HandIsClaimed
  <2>2. \A p, q \in Processes : r \in Hand(p) /\ r \in Hand(q) => p = q
      BY DEF RechecksInv, Disjoint
  <2>3. Lost(r) => faults > 0
      BY RechecksAssumption DEF RechecksInv, Held, Lost, TypeOK
  <2> QED BY <2>1, <2>2, <2>3
<1> QED BY <1>1, RechecksInit, RechecksNext, PTL DEF Spec

(* No deferral is rechecked twice, wherever the processes crash, and the   *)
(* file says of a recheck only what happened.                              *)
THEOREM RechecksOnce == Spec => []RecheckedOnce
<1>1. RechecksInv => RecheckedOnce
    BY DEF RechecksInv, Filed, FiledAs, RecheckedOnce
<1> QED BY <1>1, RechecksInit, RechecksNext, PTL DEF Spec

=============================================================================
