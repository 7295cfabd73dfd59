----------------------------- MODULE DocLogProof -----------------------------
(***************************************************************************)
(* Proofs about DocLog, for any instances, edits and bounds.               *)
(***************************************************************************)
EXTENDS DocLogInv, TLAPS

USE InstancesAssumption, EditsAssumption, SwitchesAssumption, BoundsAssumption

LEMMA TypeInit == Init => TypeOK
  BY DEF Init, TypeOK, Updates, Opened, Loading, Storing

LEMMA TypeStep == TypeOK /\ [Next]_vars => TypeOK'
<1> SUFFICES ASSUME TypeOK, [Next]_vars PROVE TypeOK'
  OBVIOUS
<1> USE DEF TypeOK, vars, database, memory, faults, Updates, Seeds, Row, InFlightRow, Opened, Loading, Storing, Goto
<1>1. ASSUME NEW w \in inserting, Commit(w) PROVE TypeOK'
  <2> DEFINE late == \E r \in log : r.seq > w.seq
             row  == [seq |-> w.seq, upds |-> w.upds, late |-> late]
  <2>1. late \in BOOLEAN
    OBVIOUS
  <2>2. row \in Row
    <3> HIDE DEF late
    <3> QED BY <2>1
  <2>3. log' = log \cup {row} /\ log' \subseteq Row
    <3>1. log' = log \cup {row}
      BY <1>1 DEF Commit
    <3> QED
      BY <2>2, <3>1
  <2> HIDE DEF row
  <2>4. QED
    BY <1>1, <2>3 DEF Commit
<1>2. ASSUME NEW w \in inserting, Refuse(w) PROVE TypeOK'
  <2>1. pc' \in [Instances -> {"closed"} \cup Loading \cup Opened]
    BY <1>2 DEF Refuse
  <2>2. orphaned' \subseteq Updates
    BY <1>2 DEF Refuse
  <2>3. inserting' \subseteq InFlightRow /\ failures' \in 0..MaxFailures
    BY <1>2 DEF Refuse
  <2>4. doc' \in [Instances -> SUBSET Updates]
    BY <1>2 DEF Refuse
  <2> QED
    BY <1>2, <2>1, <2>2, <2>3, <2>4 DEF Refuse
<1>3. ASSUME NEW i \in Instances, LoadSnapshot(i) PROVE TypeOK'
  BY <1>3 DEF LoadSnapshot
<1>4. ASSUME NEW i \in Instances, LoadRows(i) PROVE TypeOK'
  <2>1. RowsAfter(mark[i]) \subseteq Updates
    BY DEF RowsAfter, UpdatesOf
  <2>2. doc[i] \cup RowsAfter(mark[i]) \in SUBSET Updates
    BY <2>1
  <2>3. doc' \in [Instances -> SUBSET Updates] /\ persisted' \in [Instances -> SUBSET Updates]
    BY <1>4, <2>2 DEF LoadRows
  <2> QED
    BY <1>4, <2>3 DEF LoadRows
<1>5. ASSUME NEW i \in Instances, SeedInsert(i) PROVE TypeOK'
  BY <1>5 DEF SeedInsert, Insert
<1>6. ASSUME NEW i \in Instances, SeedFound(i) PROVE TypeOK'
  BY <1>6 DEF SeedFound, Logged, UpdatesOf
<1>7. ASSUME NEW i \in Instances, SeedDone(i) PROVE TypeOK'
  BY <1>7 DEF SeedDone
<1>8. ASSUME NEW i \in Instances, StoreFlush(i) PROVE TypeOK'
  BY <1>8 DEF StoreFlush, Flush, Insert
<1>9. ASSUME NEW i \in Instances, TimerFlush(i) PROVE TypeOK'
  BY <1>9 DEF TimerFlush, Flush, Insert
<1>10. ASSUME NEW i \in Instances, StoreDiff(i) PROVE TypeOK'
  BY <1>10 DEF StoreDiff, Insert, Missing
<1>11. ASSUME NEW i \in Instances,
              StoreSkipped(i) \/ StoreCheck(i) \/ DropLog(i) \/ DropSnapshot(i)
                \/ StoreNothing(i) \/ StoreMark(i)
       PROVE TypeOK'
  <2>1. CASE StoreSkipped(i)
    BY <2>1 DEF StoreSkipped
  <2>2. CASE StoreCheck(i)
    BY <2>2 DEF StoreCheck
  <2>3. CASE DropLog(i) \/ DropSnapshot(i)
    BY <2>3 DEF DropLog, DropSnapshot
  <2>4. CASE StoreNothing(i) \/ StoreMark(i)
    BY <2>4 DEF StoreNothing, StoreMark
  <2> QED
    BY <1>11, <2>1, <2>2, <2>3, <2>4
<1>12. ASSUME NEW i \in Instances, CompactSkip(i) \/ CompactMax(i) \/ CompactNothing(i) PROVE TypeOK'
  BY <1>12 DEF CompactSkip, CompactMax, CompactNothing
<1>13. ASSUME NEW i \in Instances, CompactRead(i) \/ CompactWrite(i) PROVE TypeOK'
  BY <1>13 DEF CompactRead, CompactWrite, UpdatesOf
<1>14. ASSUME NEW i \in Instances, NEW u \in Edits, Edit(i, u) PROVE TypeOK'
  BY <1>14 DEF Edit
<1>15. ASSUME NEW i \in Instances, NEW j \in Instances, Relay(i, j) PROVE TypeOK'
  BY <1>15 DEF Relay
<1>16. ASSUME NEW i \in Instances, Unload(i) \/ Crash(i) PROVE TypeOK'
  <2>1. CASE Unload(i)
    BY <2>1 DEF Unload
  <2>2. CASE Crash(i)
    <3>1. inserting' \subseteq InFlightRow
      BY <2>2 DEF Crash
    <3>2. orphaned' \subseteq Updates /\ crashes' \in 0..MaxCrashes
      BY <2>2 DEF Crash
    <3>3. compactor' \in Instances \cup {NoOne}
      BY <2>2 DEF Crash
    <3> QED
      BY <2>2, <3>1, <3>2, <3>3 DEF Crash
  <2> QED
    BY <1>16, <2>1, <2>2
<1>17. CASE Delete
  BY <1>17 DEF Delete, DeleteRoom, DeleteRows, DeleteSnapshot
<1>18. CASE UNCHANGED vars
  BY <1>18
<1> QED
  BY <1>1, <1>2, <1>3, <1>4, <1>5, <1>6, <1>7, <1>8, <1>9, <1>10, <1>11, <1>12,
     <1>13, <1>14, <1>15, <1>16, <1>17, <1>18 DEF Next, Load, Store, Compact

\* Every variable keeps its type, whatever happens.
THEOREM TypeCorrect == Spec => []TypeOK
  BY TypeInit, TypeStep, PTL DEF Spec

-----------------------------------------------------------------------------
(* Awaiting an insert.                                                     *)

LEMMA AwaitInit == Init => AwaitInv
  BY DEF Init, AwaitInv

LEMMA AwaitStep == TypeOK /\ AwaitInv /\ [Next]_vars => AwaitInv'
<1> SUFFICES ASSUME TypeOK, AwaitInv, [Next]_vars PROVE AwaitInv'
  OBVIOUS
<1>1. /\ pc = [i \in Instances |-> pc[i]]
      /\ \A w \in inserting : w.kind \in {"timer", "flush", "diff", "seed"}
  BY DEF TypeOK, InFlightRow
<1>2. WaitsAt["flush"] = "flushing" /\ WaitsAt["diff"] = "diffing" /\ WaitsAt["seed"] = "seeding"
  BY DEF WaitsAt
<1> USE <1>1, <1>2 DEF AwaitInv, vars, database, memory, faults, Goto
\* No handler waits elsewhere.
<1>3. \A i \in Instances : pc[i] \notin {"flushing", "diffing", "seeding"} =>
        \A w \in inserting : w.by = i => w.kind = "timer"
  OBVIOUS
<1>4. ASSUME NEW w \in inserting, Commit(w) PROVE AwaitInv'
  BY <1>4 DEF Commit
<1>5. ASSUME NEW w \in inserting, Refuse(w) PROVE AwaitInv'
  BY <1>5 DEF Refuse
<1>6. ASSUME NEW i \in Instances, Load(i) PROVE AwaitInv'
  <2>1. CASE LoadSnapshot(i) \/ LoadRows(i) \/ SeedFound(i)
    <3>1. inserting' = inserting /\ pc[i] \notin {"flushing", "diffing", "seeding"}
          /\ \A j \in Instances \ {i} : pc'[j] = pc[j]
      BY <2>1 DEF LoadSnapshot, LoadRows, SeedFound
    <3> QED
      BY <1>3, <3>1
  <2>2. CASE SeedInsert(i)
    <3>1. /\ inserting' = inserting \cup {[seq |-> nextSeq, by |-> i, kind |-> "seed", upds |-> {Seed(i)}]}
          /\ pc' = [pc EXCEPT ![i] = "seeding"] /\ pc[i] = "unseeded"
      BY <2>2 DEF SeedInsert, Insert
    <3>2. \A w \in inserting : w.by = i => w.kind = "timer"
      BY <1>3, <3>1
    <3>3. ASSUME NEW w \in inserting', w.by \in Instances, w.kind # "timer"
          PROVE  pc'[w.by] = WaitsAt[w.kind]
      <4>1. CASE w \in inserting
        <5>1. w.by # i
          BY <3>2, <3>3, <4>1
        <5>2. pc'[w.by] = pc[w.by]
          BY <3>1, <3>3, <5>1
        <5> QED
          BY <3>3, <4>1, <5>2
      <4>2. CASE w \notin inserting
        <5>1. w = [seq |-> nextSeq, by |-> i, kind |-> "seed", upds |-> {Seed(i)}]
          BY <3>1, <3>3, <4>2
        <5>2. w.by = i /\ w.kind = "seed" /\ pc'[i] = "seeding"
          BY <3>1, <5>1
        <5> QED
          BY <5>2
      <4> QED
        BY <4>1, <4>2
    <3>4. ASSUME NEW v \in inserting', NEW w \in inserting', v.by \in Instances, v.by = w.by,
                 v.kind # "timer", w.kind # "timer"
          PROVE  v = w
      <4> DEFINE new == [seq |-> nextSeq, by |-> i, kind |-> "seed", upds |-> {Seed(i)}]
      <4>1. new.by = i
        OBVIOUS
      <4> HIDE DEF new
      <4> QED
        BY <3>1, <3>2, <3>4, <4>1 DEF new
    <3> QED
      BY <3>3, <3>4
  <2>3. CASE SeedDone(i)
    BY <1>3, <2>3 DEF SeedDone, Awaited
  <2> QED
    BY <1>6, <2>1, <2>2, <2>3 DEF Load
<1>7. ASSUME NEW i \in Instances, StoreFlush(i) PROVE AwaitInv'
  BY <1>3, <1>7 DEF StoreFlush, Flush, Insert
<1>8. ASSUME NEW i \in Instances, StoreDiff(i) PROVE AwaitInv'
  BY <1>3, <1>8 DEF StoreDiff, Insert
<1>9. ASSUME NEW i \in Instances, Store(i), ~StoreFlush(i), ~StoreDiff(i) PROVE AwaitInv'
  BY <1>3, <1>9 DEF Store, StoreSkipped, StoreCheck, DropLog, DropSnapshot, StoreNothing, StoreMark, Awaited
<1>10. ASSUME NEW i \in Instances, Compact(i) PROVE AwaitInv'
  BY <1>3, <1>10 DEF Compact, CompactSkip, CompactMax, CompactNothing, CompactRead, CompactWrite
<1>11. ASSUME NEW i \in Instances, \/ \E u \in Edits : Edit(i, u)
                                   \/ \E j \in Instances : Relay(i, j)
                                   \/ Unload(i)
       PROVE AwaitInv'
  BY <1>3, <1>11 DEF Edit, Relay, Unload
<1>12. ASSUME NEW i \in Instances, TimerFlush(i) PROVE AwaitInv'
  BY <1>12 DEF TimerFlush, Flush, Insert
<1>13. ASSUME NEW i \in Instances, Crash(i) PROVE AwaitInv'
  <2> DEFINE own(w) == [seq |-> w.seq, by |-> IF w.by = i THEN NoOne ELSE w.by,
                        kind |-> w.kind, upds |-> w.upds]
  <2>1. \A w \in inserting' : \E v \in inserting : w = own(v)
    BY <1>13 DEF Crash
  <2>2. \A v \in inserting : own(v).by \in Instances => own(v).by = v.by /\ v.by # i /\ own(v) = v
    BY InstancesAssumption DEF TypeOK, InFlightRow
  <2>3. \A w \in inserting' : w.by \in Instances => w \in inserting /\ w.by # i
    BY <2>1, <2>2
  <2>4. \A j \in Instances \ {i} : pc'[j] = pc[j]
    BY <1>13 DEF Crash
  <2> HIDE DEF own
  <2> QED
    BY <2>3, <2>4
<1>14. CASE Delete
  BY <1>14 DEF Delete, DeleteRoom, DeleteRows, DeleteSnapshot
<1>15. CASE UNCHANGED vars
  BY <1>15
<1> QED
  BY <1>4, <1>5, <1>6, <1>7, <1>8, <1>9, <1>10, <1>11, <1>12, <1>13, <1>14, <1>15 DEF Next, Store

-----------------------------------------------------------------------------
(* Compaction.  While the room lives the log only gains rows, and a row    *)
(* that commits below a seq that is there already is a late one: so what   *)
(* was Known stays Known.                                                  *)

\* The only step that adds to the log is a commit; what empties it needs the
\* room to be gone.
LEMMA LogStep ==
    ASSUME TypeOK, DropsTheDead, [Next]_vars, Alive'
    PROVE  Alive /\ (log' = log \/ \E w \in inserting : Commit(w))
<1> USE DEF vars, database, memory, faults, Alive
<1>1. ASSUME NEW i \in Instances, Load(i) PROVE Alive /\ log' = log
  BY <1>1 DEF Load, LoadSnapshot, LoadRows, SeedInsert, SeedFound, SeedDone, Insert
<1>2. ASSUME NEW i \in Instances, Store(i) PROVE Alive /\ log' = log
  BY <1>2 DEF Store, StoreFlush, StoreSkipped, StoreCheck, DropLog, DropSnapshot, StoreDiff,
              StoreNothing, StoreMark, Insert, Flush, DropsTheDead
<1>3. ASSUME NEW i \in Instances, Compact(i) PROVE Alive /\ log' = log
  BY <1>3 DEF Compact, CompactSkip, CompactMax, CompactNothing, CompactRead, CompactWrite
<1>4. ASSUME NEW i \in Instances, \/ \E u \in Edits : Edit(i, u)
                                  \/ \E j \in Instances : Relay(i, j)
                                  \/ TimerFlush(i) \/ Unload(i) \/ Crash(i)
      PROVE Alive /\ log' = log
  BY <1>4 DEF Edit, Relay, TimerFlush, Unload, Crash, Flush, Insert
<1>5. ASSUME NEW w \in inserting, Commit(w) \/ Refuse(w)
      PROVE Alive /\ (log' = log \/ Commit(w))
  BY <1>5 DEF Commit, Refuse
<1>6. ~Delete
  BY DEF Delete, DeleteRoom, DeleteRows, DeleteSnapshot
<1>7. CASE UNCHANGED vars
  BY <1>7
<1> QED
  BY <1>1, <1>2, <1>3, <1>4, <1>5, <1>6, <1>7 DEF Next

LEMMA KnownStays ==
    ASSUME TypeOK, Numbered, NEW seq \in Nat, NEW state, Known(log, seq, state),
           log' = log \/ \E w \in inserting : Commit(w)
    PROVE  Known(log', seq, state)
<1>1. CASE log' = log
  BY <1>1 DEF Known, Covers
<1>2. ASSUME NEW w \in inserting, Commit(w)
      PROVE  Known(log', seq, state)
  <2> DEFINE late == \E r \in log : r.seq > w.seq
             row  == [seq |-> w.seq, upds |-> w.upds, late |-> late]
  <2>1. log' = log \cup {row}
    BY <1>2 DEF Commit
  <2>2. w.seq \in Nat \ {0} /\ \A r \in log : r.seq \in Nat
    BY DEF TypeOK, Row, InFlightRow
  <2>3. row.seq <= seq => late
    <3>1. CASE seq = 0
      BY <3>1, <2>2
    <3>2. CASE \E r \in log : r.seq = seq
      BY <3>2, <2>2 DEF Numbered
    <3> QED
      BY <3>1, <3>2 DEF Known
  <2>4. row.late = late
    OBVIOUS
  <2>5. Covers(log', seq, state)
    <3> HIDE DEF late, row
    <3> SUFFICES ASSUME NEW r \in log', r.seq <= seq, ~r.late PROVE r.upds \subseteq state
      BY DEF Covers
    <3>1. r # row
      BY <2>3, <2>4
    <3> QED
      BY <3>1, <2>1 DEF Known, Covers
  <2> HIDE DEF row
  <2> QED
    BY <2>1, <2>5 DEF Known
<1> QED
  BY <1>1, <1>2

LEMMA NumberedStep == TypeOK /\ Numbered /\ [Next]_vars => Numbered'
<1> SUFFICES ASSUME TypeOK, Numbered, [Next]_vars PROVE Numbered'
  OBVIOUS
<1> USE DEF Numbered, vars, database, memory, faults
<1>0. /\ nextSeq \in Nat
      /\ \A r \in log : r.seq \in Nat
      /\ \A w \in inserting : w.seq \in Nat
  BY DEF TypeOK, Row, InFlightRow
<1>1. ASSUME NEW i \in Instances, NEW kind, NEW upds, Insert(i, kind, upds) PROVE Numbered'
  BY <1>0, <1>1 DEF Insert
<1>2. CASE UNCHANGED database
  BY <1>2
<1>3. ASSUME NEW w \in inserting, Commit(w) PROVE Numbered'
  BY <1>0, <1>3 DEF Commit
<1>4. ASSUME NEW w \in inserting, Refuse(w) PROVE Numbered'
  BY <1>0, <1>4 DEF Refuse
<1>5. ASSUME NEW i \in Instances, Load(i) PROVE Numbered'
  BY <1>1, <1>2, <1>5 DEF Load, LoadSnapshot, LoadRows, SeedInsert, SeedFound, SeedDone
<1>6. ASSUME NEW i \in Instances, DropLog(i) PROVE Numbered'
  BY <1>0, <1>6 DEF DropLog
<1>7. ASSUME NEW i \in Instances, Store(i) PROVE Numbered'
  BY <1>1, <1>2, <1>6, <1>7 DEF Store, StoreFlush, StoreSkipped, StoreCheck, DropSnapshot,
     StoreDiff, StoreNothing, StoreMark, Flush
<1>8. ASSUME NEW i \in Instances, Compact(i) PROVE Numbered'
  BY <1>2, <1>8 DEF Compact, CompactSkip, CompactMax, CompactNothing, CompactRead, CompactWrite
<1>9. ASSUME NEW i \in Instances, Crash(i) PROVE Numbered'
  BY <1>0, <1>9 DEF Crash
<1>10. ASSUME NEW i \in Instances, \/ \E u \in Edits : Edit(i, u)
                                   \/ \E j \in Instances : Relay(i, j)
                                   \/ TimerFlush(i) \/ Unload(i)
       PROVE Numbered'
  BY <1>1, <1>2, <1>10 DEF Edit, Relay, TimerFlush, Unload, Flush
<1>11. CASE Delete
  BY <1>0, <1>11 DEF Delete, DeleteRoom, DeleteRows, DeleteSnapshot
<1> QED
  BY <1>2, <1>3, <1>4, <1>5, <1>7, <1>8, <1>9, <1>10, <1>11 DEF Next

LEMMA SnapInit == Init => SnapInv
  BY DEF Init, SnapInv, Numbered, OneCompactor, DropsTheDead, SnapshotKnown, LoadsKnown,
         ReadsKnown, WritesKnown, Known, Covers

LEMMA SnapStep == TypeOK /\ SnapInv /\ [Next]_vars => SnapInv'
<1> SUFFICES ASSUME TypeOK, SnapInv, [Next]_vars PROVE SnapInv'
  OBVIOUS
<1>1. Numbered'
  BY NumberedStep DEF SnapInv
<1> DEFINE Rest == OneCompactor /\ DropsTheDead /\ SnapshotKnown /\ LoadsKnown
                     /\ ReadsKnown /\ WritesKnown
<1>2. Alive' => Alive /\ (log' = log \/ \E w \in inserting : Commit(w))
  BY LogStep DEF SnapInv
<1>3. \A seq \in Nat : \A state : Alive' /\ Known(log, seq, state) => Known(log', seq, state)
  BY <1>2, KnownStays DEF SnapInv
<1>4. \A r \in log : Alive' => r \in log'
  BY <1>2 DEF Commit
<1>5. /\ snap.seq \in Nat
      /\ pc = [i \in Instances |-> pc[i]]
      /\ mark \in [Instances -> Nat]
      /\ doc = [i \in Instances |-> doc[i]] /\ merged = [i \in Instances |-> merged[i]]
  <2>1. snap.seq \in Nat /\ mark \in [Instances -> Nat]
    BY DEF TypeOK
  <2>2. pc = [i \in Instances |-> pc[i]]
    BY DEF TypeOK
  <2>3. doc = [i \in Instances |-> doc[i]] /\ merged = [i \in Instances |-> merged[i]]
    BY DEF TypeOK
  <2> QED
    BY <2>1, <2>2, <2>3
<1>6. CASE Delete
  <2>1. ~Alive' /\ pc' = pc /\ compactor' = compactor
    BY <1>6 DEF Delete, DeleteRoom, DeleteRows, DeleteSnapshot, Alive
  <2> QED
    BY <1>1, <2>1 DEF SnapInv, OneCompactor, DropsTheDead, SnapshotKnown, LoadsKnown, ReadsKnown, WritesKnown
<1>7. CASE UNCHANGED vars
  BY <1>1, <1>7 DEF vars, database, memory, SnapInv, OneCompactor, DropsTheDead, SnapshotKnown,
               LoadsKnown, ReadsKnown, WritesKnown, Alive
<1> USE <1>2, <1>3, <1>4, <1>5 DEF SnapInv, OneCompactor, DropsTheDead, SnapshotKnown, LoadsKnown,
        ReadsKnown, WritesKnown, vars, database, memory, faults, Goto, Alive
<1>8. ASSUME NEW w \in inserting, Commit(w) PROVE Rest'
  BY <1>8 DEF Commit
<1>9. ASSUME NEW w \in inserting, Refuse(w) PROVE Rest'
  BY <1>9 DEF Refuse
<1>10. ASSUME NEW i \in Instances, LoadSnapshot(i) PROVE Rest'
  BY <1>10 DEF LoadSnapshot
<1>11. ASSUME NEW i \in Instances, LoadRows(i) PROVE Rest'
  BY <1>11 DEF LoadRows
<1>12. ASSUME NEW i \in Instances, SeedInsert(i) \/ SeedFound(i) \/ SeedDone(i) PROVE Rest'
  BY <1>12 DEF SeedInsert, SeedFound, SeedDone, Insert
<1>13. ASSUME NEW i \in Instances, Store(i) PROVE Rest'
  BY <1>13 DEF Store, StoreFlush, StoreSkipped, StoreCheck, DropLog, DropSnapshot, StoreDiff,
               StoreNothing, StoreMark
<1>14. ASSUME NEW i \in Instances, CompactSkip(i) \/ CompactNothing(i) PROVE Rest'
  BY <1>14 DEF CompactSkip, CompactNothing
<1>15. ASSUME NEW i \in Instances, CompactMax(i) PROVE Rest'
  BY <1>15 DEF CompactMax
<1>16. ASSUME NEW i \in Instances, CompactRead(i) PROVE Rest'
  <2>1. /\ pc[i] = "reading" /\ mark' = mark /\ log' = log /\ snap' = snap /\ room' = room
        /\ mark[i] > snap.seq
        /\ merged'[i] = snap.state \cup UpdatesOf({r \in log : r.seq > snap.seq /\ r.seq <= mark[i]})
    BY <1>16 DEF CompactRead
  <2>2. \A r \in log : r.seq \in Nat
    BY DEF TypeOK, Row
  <2>3. Alive => Known(log, mark[i], merged'[i]) /\ snap.state \subseteq merged'[i]
    <3> SUFFICES ASSUME Alive PROVE Known(log, mark[i], merged'[i])
      BY <2>1
    <3>1. Known(log, snap.seq, snap.state)
      OBVIOUS
    <3>2. mark[i] = 0 \/ \E r \in log : r.seq = mark[i]
      BY <2>1
    <3>3. Covers(log, mark[i], merged'[i])
      BY <2>1, <2>2, <3>1 DEF Known, Covers, UpdatesOf
    <3>4. \A u \in merged'[i] : \E r \in log : r.seq <= mark[i] /\ u \in r.upds
      BY <2>1, <2>2, <3>1 DEF Known, UpdatesOf
    <3> QED
      BY <3>2, <3>3, <3>4 DEF Known
  <2> QED
    BY <1>16, <2>1, <2>3 DEF CompactRead
<1>17. ASSUME NEW i \in Instances, CompactWrite(i) PROVE Rest'
  BY <1>17 DEF CompactWrite
<1>18. ASSUME NEW i \in Instances, NEW u \in Edits, Edit(i, u) PROVE Rest'
  BY <1>18 DEF Edit, IsOpen, Opened, Storing
<1>19. ASSUME NEW i \in Instances, NEW j \in Instances, Relay(i, j) PROVE Rest'
  BY <1>19 DEF Relay, IsOpen, Opened, Storing
<1>20. ASSUME NEW i \in Instances, TimerFlush(i) \/ Unload(i) PROVE Rest'
  BY <1>20 DEF TimerFlush, Unload
<1>21. ASSUME NEW i \in Instances, Crash(i) PROVE Rest'
  BY <1>21 DEF Crash
<1> QED
  BY <1>1, <1>8, <1>9, <1>10, <1>11, <1>12, <1>13, <1>14, <1>15, <1>16, <1>17, <1>18, <1>19,
     <1>20, <1>21, <1>6, <1>7 DEF Next, Load, Compact

LEMMA SnapCorrect == Spec => [](TypeOK /\ SnapInv)
  BY TypeInit, TypeStep, SnapInit, SnapStep, PTL DEF Spec

\* The snapshot of a living room holds every row up to its seq that committed
\* in seq order, and nothing that is not in such a row.
THEOREM SnapshotIsFaithful == Spec => []SnapshotFaithful
<1>1. TypeOK /\ SnapInv => SnapshotFaithful
  BY DEF SnapInv, SnapshotKnown, SnapshotFaithful, Known, UpdatesOf
<1> QED
  BY <1>1, SnapCorrect, PTL

\* No step puts an older snapshot over a newer one.
THEOREM SnapshotIsMonotone == Spec => SnapshotNeverGoesBack
<1>1. TypeOK /\ SnapInv /\ [Next]_vars =>
        [Alive' => snap.seq <= snap'.seq /\ snap.state \subseteq snap'.state]_vars
  <2> SUFFICES ASSUME TypeOK, SnapInv, [Next]_vars, Alive'
               PROVE  snap.seq <= snap'.seq /\ snap.state \subseteq snap'.state
    OBVIOUS
  <2>1. Alive
    BY LogStep DEF SnapInv
  <2>2. snap.seq \in Nat /\ mark \in [Instances -> Nat]
    BY DEF TypeOK
  <2> USE DEF vars, database, memory, faults
  <2>3. ASSUME NEW i \in Instances, CompactWrite(i)
        PROVE  snap.seq <= snap'.seq /\ snap.state \subseteq snap'.state
    BY <2>1, <2>2, <2>3 DEF CompactWrite, SnapInv, WritesKnown
  <2>4. ASSUME NEW i \in Instances, Load(i) PROVE snap' = snap
    BY <2>4 DEF Load, LoadSnapshot, LoadRows, SeedInsert, SeedFound, SeedDone
  <2>5. ASSUME NEW i \in Instances, Store(i) PROVE snap' = snap
    BY <2>1, <2>5 DEF Store, StoreFlush, StoreSkipped, StoreCheck, DropLog, DropSnapshot, StoreDiff,
                StoreNothing, StoreMark, SnapInv, DropsTheDead
  <2>6. ASSUME NEW i \in Instances, Compact(i), ~CompactWrite(i) PROVE snap' = snap
    BY <2>6 DEF Compact, CompactSkip, CompactMax, CompactNothing, CompactRead
  <2>7. ASSUME NEW i \in Instances, \/ \E u \in Edits : Edit(i, u)
                                    \/ \E j \in Instances : Relay(i, j)
                                    \/ TimerFlush(i) \/ Unload(i) \/ Crash(i)
        PROVE snap' = snap
    BY <2>7 DEF Edit, Relay, TimerFlush, Unload, Crash
  <2>8. ASSUME NEW w \in inserting, Commit(w) \/ Refuse(w) PROVE snap' = snap
    BY <2>8 DEF Commit, Refuse
  <2>9. ~Delete
    BY <2>1 DEF Delete, DeleteRoom, DeleteRows, DeleteSnapshot, Alive
  <2>10. CASE UNCHANGED vars
    BY <2>2, <2>10
  <2> QED
    BY <2>2, <2>3, <2>4, <2>5, <2>6, <2>7, <2>8, <2>9, <2>10 DEF Next
<1> QED
  BY <1>1, SnapCorrect, PTL DEF Spec, SnapshotNeverGoesBack

-----------------------------------------------------------------------------
(* The log and the copies implement DurableDoc.                            *)

LEMMA DurableInit == Init => D!Init
  BY DEF Init, D!Init, D!Closed, Alive, Saved, Copy, UpdatesOf

\* What a load reads is all that is saved: the snapshot it started from is
\* known, and the rows after it are read now.
LEMMA LoadIsComplete ==
    ASSUME TypeOK, SnapInv, NEW i \in Instances, LoadRows(i)
    PROVE  Saved \subseteq doc'[i]
<1>1. doc'[i] = doc[i] \cup RowsAfter(mark[i])
  BY DEF LoadRows, TypeOK
<1>2. Alive => Covers(log, mark[i], doc[i])
  BY DEF LoadRows, SnapInv, LoadsKnown, Known
<1>3. mark[i] \in Nat /\ \A r \in log : r.seq \in Nat
  BY DEF TypeOK, Row
<1> QED
  BY <1>1, <1>2, <1>3 DEF Covers, Saved, RowsAfter, UpdatesOf

\* A step that touches neither the log nor the room, and one instance's copy
\* at most, is a step of DurableDoc on that copy.
LEMMA CopyStep ==
    ASSUME TypeOK, TypeOK', NEW i \in Instances,
           log' = log, room' = room,
           \A j \in Instances \ {i} : pc'[j] = pc[j] /\ doc'[j] = doc[j],
           \/ pc[i] \in {"closed", "loading"} /\ pc'[i] \in {"closed", "loading"}
           \/ pc[i] \in {"closed", "loading"} /\ Saved \subseteq doc'[i]
           \/ pc'[i] \in {"closed", "loading"}
           \/ pc[i] \notin {"closed", "loading"} /\ doc[i] \subseteq doc'[i]
    PROVE  [D!Next]_(D!dvars)
<1>1. Alive' = Alive /\ Saved' = Saved
  BY DEF Alive, Saved
<1>2. Copy = [j \in Instances |-> Copy[j]] /\ Copy' = [j \in Instances |-> Copy'[j]]
  BY DEF Copy
<1>3. \A j \in Instances \ {i} : Copy'[j] = Copy[j]
  BY DEF Copy
<1>4. Copy' = [Copy EXCEPT ![i] = Copy'[i]]
  BY <1>2, <1>3
<1>5. doc[i] \in SUBSET Updates /\ doc'[i] \in SUBSET Updates
  BY DEF TypeOK
<1>6. CASE pc[i] \in {"closed", "loading"} /\ pc'[i] \in {"closed", "loading"}
  <2>1. Copy'[i] = Copy[i]
    BY <1>6 DEF Copy
  <2> QED
    BY <1>1, <1>2, <1>3, <2>1 DEF D!dvars
<1>7. CASE pc[i] \in {"closed", "loading"} /\ pc'[i] \notin {"closed", "loading"}
           /\ Saved \subseteq doc'[i]
  <2>1. ~Copy[i].open /\ Copy'[i] = D!OpenWith(doc'[i])
    BY <1>7 DEF Copy, D!OpenWith
  <2>2. D!Open(i)
    BY <1>1, <1>4, <1>5, <1>7, <2>1 DEF D!Open
  <2> QED
    BY <2>2 DEF D!Next
<1>8. CASE pc[i] \notin {"closed", "loading"} /\ pc'[i] \in {"closed", "loading"}
  <2>1. Copy[i].open /\ Copy'[i] = D!Closed
    BY <1>8 DEF Copy, D!Closed
  <2>2. D!Close(i)
    BY <1>1, <1>4, <2>1 DEF D!Close
  <2> QED
    BY <2>2 DEF D!Next
<1>9. CASE pc[i] \notin {"closed", "loading"} /\ pc'[i] \notin {"closed", "loading"}
           /\ doc[i] \subseteq doc'[i]
  <2>1. Copy[i].open /\ Copy[i].has = doc[i] /\ Copy'[i] = D!OpenWith(doc'[i])
    BY <1>9 DEF Copy, D!OpenWith
  <2>2. D!Grow(i)
    BY <1>1, <1>4, <1>5, <1>9, <2>1 DEF D!Grow
  <2> QED
    BY <2>2 DEF D!Next
<1> QED
  BY <1>6, <1>7, <1>8, <1>9

\* Steps of the log and of the room that no copy notices.
LEMMA LogStepIsSave ==
    ASSUME TypeOK, SnapInv, [Next]_vars, pc' = pc, doc' = doc,
           (\E w \in inserting : Commit(w)) \/ Delete
    PROVE  [D!Next]_(D!dvars)
<1>1. Copy' = Copy
  BY DEF Copy
<1>2. CASE \E w \in inserting : Commit(w)
  <2>1. Alive' = Alive /\ log \subseteq log'
    BY <1>2 DEF Commit, Alive
  <2>2. Saved \subseteq Saved'
    BY <2>1 DEF Saved, UpdatesOf
  <2>3. TypeOK'
    BY TypeStep
  <2>4. Saved' \subseteq Updates
    BY <2>3 DEF TypeOK, Row, Saved, UpdatesOf
  <2>5. CASE Alive
    BY <1>1, <2>1, <2>2, <2>4, <2>5 DEF D!Next, D!Save
  <2>6. CASE ~Alive
    BY <1>1, <2>1, <2>6 DEF Saved, D!dvars
  <2> QED
    BY <2>5, <2>6
<1>3. CASE DeleteRoom
  <2>1. Alive /\ ~Alive' /\ Saved' = {}
    BY <1>3 DEF DeleteRoom, Alive, Saved
  <2> QED
    BY <1>1, <2>1 DEF D!Next, D!Delete
<1>4. CASE DeleteRows \/ DeleteSnapshot
  <2>1. Alive = FALSE /\ Alive' = FALSE
    BY <1>4 DEF DeleteRows, DeleteSnapshot, Alive
  <2> QED
    BY <1>1, <2>1 DEF Saved, D!dvars
<1> QED
  BY <1>2, <1>3, <1>4 DEF Delete

LEMMA DurableStep == TypeOK /\ AwaitInv /\ SnapInv /\ [Next]_vars => [D!Next]_(D!dvars)
<1> SUFFICES ASSUME TypeOK, AwaitInv, SnapInv, [Next]_vars PROVE [D!Next]_(D!dvars)
  OBVIOUS
<1>1. TypeOK'
  BY TypeStep
<1>2. pc = [i \in Instances |-> pc[i]] /\ doc = [i \in Instances |-> doc[i]]
  <2>1. pc = [i \in Instances |-> pc[i]]
    BY DEF TypeOK
  <2>2. doc = [i \in Instances |-> doc[i]]
    BY DEF TypeOK
  <2> QED
    BY <2>1, <2>2
<1> DEFINE Away == {"closed", "loading"}
\* What CopyStep asks of a step of instance i.
<1> DEFINE Only(i) == /\ log' = log /\ room' = room
                      /\ \A j \in Instances \ {i} : pc'[j] = pc[j] /\ doc'[j] = doc[j]
<1> USE <1>2 DEF vars, database, memory, faults, Goto
<1>3. ASSUME NEW i \in Instances, LoadSnapshot(i) PROVE [D!Next]_(D!dvars)
  <2>1. Only(i) /\ pc[i] \in Away /\ pc'[i] \in Away
    BY <1>3 DEF LoadSnapshot
  <2> QED
    BY <1>1, <2>1, CopyStep
<1>4. ASSUME NEW i \in Instances, LoadRows(i) PROVE [D!Next]_(D!dvars)
  <2>1. Only(i) /\ pc[i] \in Away /\ pc'[i] \notin Away
    BY <1>4 DEF LoadRows
  <2>2. Saved \subseteq doc'[i]
    BY <1>4, LoadIsComplete
  <2> QED
    BY <1>1, <2>1, <2>2, CopyStep
<1>5. ASSUME NEW i \in Instances, SeedInsert(i) \/ SeedFound(i) \/ SeedDone(i)
      PROVE  [D!Next]_(D!dvars)
  <2>1. Only(i) /\ pc[i] \notin Away /\ doc[i] \subseteq doc'[i]
    BY <1>5 DEF SeedInsert, SeedFound, SeedDone, Insert
  <2> QED
    BY <1>1, <2>1, CopyStep
<1>6. ASSUME NEW i \in Instances, Store(i), ~DropLog(i) PROVE [D!Next]_(D!dvars)
  <2>1. Only(i) /\ pc[i] \notin Away /\ doc'[i] = doc[i]
    BY <1>6 DEF Store, StoreFlush, StoreSkipped, StoreCheck, DropSnapshot, StoreDiff,
                StoreNothing, StoreMark, Flush, Insert
  <2> QED
    BY <1>1, <2>1, CopyStep
<1>7. ASSUME NEW i \in Instances, DropLog(i) PROVE [D!Next]_(D!dvars)
  <2>1. Copy' = Copy
    <3>1. doc' = doc /\ pc[i] \notin Away /\ pc'[i] \notin Away
          /\ \A j \in Instances \ {i} : pc'[j] = pc[j]
      BY <1>7 DEF DropLog
    <3>2. \A j \in Instances : pc'[j] \in Away <=> pc[j] \in Away
      BY <3>1
    <3> QED
      BY <3>1, <3>2 DEF Copy
  <2>2. Alive = FALSE /\ Alive' = FALSE
    BY <1>7 DEF DropLog, Alive, SnapInv, DropsTheDead
  <2> QED
    BY <2>1, <2>2 DEF Saved, D!dvars
<1>8. ASSUME NEW i \in Instances, Compact(i) PROVE [D!Next]_(D!dvars)
  <2>1. Only(i) /\ pc[i] \notin Away /\ doc'[i] = doc[i]
    BY <1>8 DEF Compact, CompactSkip, CompactMax, CompactNothing, CompactRead, CompactWrite
  <2> QED
    BY <1>1, <2>1, CopyStep
<1>9. ASSUME NEW i \in Instances, \/ \E u \in Edits : Edit(i, u)
                                  \/ \E j \in Instances : Relay(i, j)
      PROVE [D!Next]_(D!dvars)
  <2>1. Only(i) /\ pc[i] \notin Away /\ doc[i] \subseteq doc'[i]
    BY <1>9 DEF Edit, Relay, IsOpen, Opened, Storing
  <2> QED
    BY <1>1, <2>1, CopyStep
<1>10. ASSUME NEW i \in Instances, Unload(i) \/ Crash(i) PROVE [D!Next]_(D!dvars)
  <2>1. Only(i) /\ pc'[i] \in Away
    BY <1>10 DEF Unload, Crash
  <2> QED
    BY <1>1, <2>1, CopyStep
<1>11. ASSUME NEW w \in inserting, Refuse(w) PROVE [D!Next]_(D!dvars)
  <2>1. log' = log /\ room' = room
    BY <1>11 DEF Refuse
  <2>2. CASE w.by \notin Instances \/ w.kind = "timer"
    <3>1. \A i \in Instances : pc'[i] = pc[i] /\ doc'[i] = doc[i]
      BY <1>11, <2>2 DEF Refuse
    <3> QED
      BY <2>1, <3>1 DEF Copy, Saved, Alive, D!dvars
  <2>3. CASE w.by \in Instances /\ w.kind = "seed"
    <3>1. Only(w.by) /\ pc'[w.by] \in Away
      BY <1>11, <2>3 DEF Refuse
    <3> QED
      BY <1>1, <2>3, <3>1, CopyStep
  <2>4. CASE w.by \in Instances /\ w.kind \in {"flush", "diff"}
    <3>1. Only(w.by) /\ doc'[w.by] = doc[w.by]
      BY <1>11, <2>4 DEF Refuse
    <3>2. pc[w.by] \notin Away
      BY <2>4 DEF AwaitInv, WaitsAt
    <3> QED
      BY <1>1, <2>4, <3>1, <3>2, CopyStep
  <2> QED
    BY <2>2, <2>3, <2>4 DEF TypeOK, InFlightRow
<1>12. ASSUME NEW i \in Instances, TimerFlush(i) PROVE [D!Next]_(D!dvars)
  <2>1. log' = log /\ room' = room /\ pc' = pc /\ doc' = doc
    BY <1>12 DEF TimerFlush, Flush, Insert
  <2> QED
    BY <2>1 DEF Copy, Saved, Alive, D!dvars
<1>13. ASSUME NEW w \in inserting, Commit(w) PROVE [D!Next]_(D!dvars)
  BY <1>13, LogStepIsSave DEF Commit
<1>14. CASE Delete
  BY <1>14, LogStepIsSave DEF Delete, DeleteRoom, DeleteRows, DeleteSnapshot
<1>15. CASE UNCHANGED vars
  BY <1>15 DEF Copy, Saved, Alive, D!dvars
<1> QED
  BY <1>3, <1>4, <1>5, <1>6, <1>7, <1>8, <1>9, <1>10, <1>11, <1>12, <1>13, <1>14, <1>15 DEF Next, Load

\* What was saved stays saved, every load gets all of it, and open copies only
\* grow: the instances, Postgres and their crashes implement DurableDoc.
THEOREM DocLogImplementsDurableDoc == Spec => ImplementsDurableDoc
  BY DurableInit, DurableStep, SnapCorrect, AwaitInit, AwaitStep, PTL DEF Spec, D!Spec, ImplementsDurableDoc

-----------------------------------------------------------------------------
(* Seeding.  The seed is the log's first row: until it commits no copy is  *)
(* open, so nothing else is buffered or inserted.                          *)

LEMMA SeedInit == Init => SeedInv
  BY DEF Init, SeedInv, OneSeeder, SeedsLogged, Logged, UpdatesOf, IsOpen, Opened, Storing

\* While the room lives, an update that is logged stays logged.
LEMMA LoggedGrows ==
    ASSUME TypeOK, SnapInv, [Next]_vars, Alive'
    PROVE  Alive /\ log \subseteq log' /\ Logged \subseteq Logged'
<1>1. Alive /\ (log' = log \/ \E w \in inserting : Commit(w))
  BY LogStep DEF SnapInv
<1>2. log \subseteq log'
  BY <1>1 DEF Commit
<1> QED
  BY <1>1, <1>2 DEF Logged, UpdatesOf

LEMMA SeedStep == TypeOK /\ AwaitInv /\ SnapInv /\ SeedInv /\ [Next]_vars => SeedInv'
<1> SUFFICES ASSUME TypeOK, AwaitInv, SnapInv, SeedInv, [Next]_vars PROVE SeedInv'
  OBVIOUS
<1>1. Alive' => Alive /\ log \subseteq log' /\ Logged \subseteq Logged'
  BY LoggedGrows
<1>2. /\ pc = [i \in Instances |-> pc[i]]
      /\ \A w \in inserting : w.kind \in {"timer", "flush", "diff", "seed"}
                              /\ w.by \in Instances \cup {NoOne}
  BY DEF TypeOK, InFlightRow
<1>3. /\ doc = [i \in Instances |-> doc[i]] /\ pending = [i \in Instances |-> pending[i]]
      /\ merged = [i \in Instances |-> merged[i]]
      /\ \A i \in Instances : pending[i] \cap Seeds = {}
  <2>1. doc = [i \in Instances |-> doc[i]]
    BY DEF TypeOK
  <2>2. pending = [i \in Instances |-> pending[i]] /\ \A i \in Instances : pending[i] \cap Seeds = {}
    BY EditsAssumption DEF TypeOK
  <2>3. merged = [i \in Instances |-> merged[i]]
    BY DEF TypeOK
  <2> QED
    BY <2>1, <2>2, <2>3
<1>4. log = {} => Logged = {}
  BY DEF Logged, UpdatesOf
<1>5. \A i \in Instances : Alive /\ IsOpen(i) => log # {}
  BY <1>4 DEF SeedInv, SeedsLogged
<1>6. Seeds \subseteq Updates /\ \A i \in Instances : Seed(i) \in Seeds
  BY DEF Seeds, Updates
<1> USE <1>1, <1>2, <1>3, <1>4, <1>5 DEF vars, database, memory, faults, Goto
<1>7. ASSUME NEW w \in inserting, Commit(w) PROVE SeedInv'
  <2>1. /\ inserting' = inserting \ {w} /\ room' = room /\ snap' = snap /\ pc' = pc
        /\ doc' = doc /\ pending' = pending /\ merged' = merged
        /\ \E late : log' = log \cup {[seq |-> w.seq, upds |-> w.upds, late |-> late]}
    BY <1>7 DEF Commit
  <2>2. log' # {} /\ Logged' = Logged \cup w.upds
    <3>1. PICK late : log' = log \cup {[seq |-> w.seq, upds |-> w.upds, late |-> late]}
      BY <2>1
    <3> DEFINE row == [seq |-> w.seq, upds |-> w.upds, late |-> late]
    <3>2. log' = log \cup {row} /\ row.upds = w.upds
      BY <3>1
    <3> HIDE DEF row
    <3>3. log' # {}
      BY <3>2
    <3>4. \A u : u \in Logged' <=> u \in Logged \/ u \in w.upds
      BY <3>2 DEF Logged, UpdatesOf
    <3> QED
      BY <3>3, <3>4
  <2>3. OneSeeder'
    BY <2>1 DEF SeedInv, OneSeeder
  <2>4. ASSUME Alive PROVE SeedsLogged'
    <3>1. CASE w.kind = "seed"
      <4>1. PICK s \in Seeds : w.upds = {s}
        BY <3>1 DEF SeedInv, OneSeeder
      <4>2. log = {} /\ inserting' = {} /\ Logged' = {s}
        BY <1>4, <2>1, <2>2, <2>4, <3>1, <4>1 DEF SeedInv, OneSeeder, SeedsLogged
      <4>3. \A i \in Instances : pc[i] = "seeding" /\ Awaited(i, "seed") => s = Seed(i)
        BY <3>1, <4>1, <2>4, InstancesAssumption DEF Awaited, SeedInv, OneSeeder
      <4> QED
        BY <2>1, <2>2, <2>4, <3>1, <4>1, <4>2, <4>3
           DEF SeedInv, SeedsLogged, Awaited, IsOpen
    <3>2. CASE w.kind # "seed"
      <4>1. w.upds \cap Seeds \subseteq Logged /\ log # {}
        BY <2>4, <3>2 DEF SeedInv, SeedsLogged
      <4>2. \A i \in Instances : Awaited(i, "seed")' <=> Awaited(i, "seed")
        BY <2>1, <3>2 DEF Awaited
      <4> QED
        BY <2>1, <2>2, <2>4, <3>2, <4>1, <4>2 DEF SeedInv, SeedsLogged, IsOpen
    <3> QED
      BY <3>1, <3>2
  <2> QED
    BY <1>1, <2>3, <2>4 DEF SeedInv
<1>8. ASSUME NEW w \in inserting, Refuse(w) PROVE SeedInv'
  <2>1. /\ inserting' = inserting \ {w} /\ room' = room /\ snap' = snap /\ log' = log
        /\ pending' = pending /\ merged' = merged
    BY <1>8 DEF Refuse
  <2>2. \A i \in Instances : \/ pc'[i] = pc[i] /\ doc'[i] = doc[i]
                             \/ pc'[i] = "closed" /\ doc'[i] = {}
                             \/ pc'[i] = "open" /\ pc[i] \in Opened /\ doc'[i] = doc[i]
    BY <1>8 DEF Refuse, AwaitInv, WaitsAt, Opened, Storing
  <2>3. \A i \in Instances : pc'[i] = "seeding" => (Awaited(i, "seed") => Awaited(i, "seed")')
    BY <1>8 DEF Refuse, Awaited
  <2>4. OneSeeder'
    BY <2>1 DEF SeedInv, OneSeeder
  <2>5. ASSUME Alive PROVE SeedsLogged'
    BY <2>1, <2>2, <2>3, <2>5 DEF SeedInv, SeedsLogged, IsOpen, Opened, Storing, Logged
  <2> QED
    BY <1>1, <2>4, <2>5 DEF SeedInv
<1>9. ASSUME NEW i \in Instances, LoadSnapshot(i) PROVE SeedInv'
  BY <1>9 DEF LoadSnapshot, SeedInv, OneSeeder, SeedsLogged, Logged, Awaited, IsOpen, Opened, Storing, Alive
<1>10. ASSUME NEW i \in Instances, LoadRows(i) PROVE SeedInv'
  BY <1>10 DEF LoadRows, RowsAfter, SeedInv, OneSeeder, SeedsLogged, Logged, UpdatesOf, Awaited, IsOpen, Opened, Storing, Alive
<1>11. ASSUME NEW i \in Instances, SeedInsert(i) PROVE SeedInv'
  <2> DEFINE new == [seq |-> nextSeq, by |-> i, kind |-> "seed", upds |-> {Seed(i)}]
  <2>1. /\ inserting' = inserting \cup {new} /\ log' = log /\ log = {} /\ room' = room
        /\ snap' = snap /\ doc' = doc /\ pending' = pending /\ merged' = merged
        /\ pc' = [pc EXCEPT ![i] = "seeding"]
    BY <1>11 DEF SeedInsert, Insert
  <2>2. \A w \in inserting : w.kind # "seed"
    BY <1>11 DEF SeedInsert, SeedLocked
  <2>3. new.kind = "seed" /\ new.by = i /\ new.upds = {Seed(i)} /\ Seed(i) \in Seeds
    BY <1>6
  <2> HIDE DEF new
  <2>4. OneSeeder'
    BY <2>1, <2>2, <2>3 DEF OneSeeder
  <2>5. ASSUME Alive PROVE SeedsLogged'
    <3>1. inserting = {}
      BY <2>1, <2>2, <2>5 DEF SeedInv, SeedsLogged
    <3>2. Awaited(i, "seed")'
      BY <2>1, <2>3 DEF Awaited
    <3>3. \A j \in Instances : Awaited(j, "seed") => Awaited(j, "seed")'
      BY <2>1 DEF Awaited
    <3> QED
      BY <2>1, <2>3, <2>5, <3>1, <3>2, <3>3
         DEF SeedInv, SeedsLogged, IsOpen, Opened, Storing, Logged
  <2> QED
    BY <1>1, <2>4, <2>5 DEF SeedInv
<1>12. ASSUME NEW i \in Instances, SeedFound(i) PROVE SeedInv'
  BY <1>12 DEF SeedFound, SeedInv, OneSeeder, SeedsLogged, Logged, Awaited, IsOpen, Opened, Storing, Alive
<1>13. ASSUME NEW i \in Instances, SeedDone(i) PROVE SeedInv'
  <2>1. /\ inserting' = inserting /\ log' = log /\ room' = room /\ snap' = snap
        /\ pending' = pending /\ merged' = merged
        /\ pc' = [pc EXCEPT ![i] = "open"] /\ pc[i] = "seeding" /\ ~Awaited(i, "seed")
        /\ doc'[i] = doc[i] \cup {Seed(i)} /\ \A j \in Instances \ {i} : doc'[j] = doc[j]
    BY <1>13 DEF SeedDone
  <2>2. Alive => Seed(i) \in Logged
    BY <2>1 DEF SeedInv, SeedsLogged
  <2> QED
    BY <1>6, <2>1, <2>2 DEF SeedInv, OneSeeder, SeedsLogged, Logged, Awaited, IsOpen, Opened, Storing, Alive
<1>14. ASSUME NEW i \in Instances, StoreFlush(i) \/ TimerFlush(i) PROVE SeedInv'
  BY <1>14, InstancesAssumption DEF StoreFlush, TimerFlush, Flush, Insert, SeedInv, OneSeeder, SeedsLogged, Logged, Awaited, IsOpen, Opened, Storing, Alive
<1>15. ASSUME NEW i \in Instances, StoreDiff(i) PROVE SeedInv'
  BY <1>15, InstancesAssumption DEF StoreDiff, Missing, Insert, SeedInv, OneSeeder, SeedsLogged, Logged, Awaited, IsOpen, Opened, Storing, Alive
<1>16. ASSUME NEW i \in Instances, StoreSkipped(i) \/ StoreCheck(i) \/ StoreNothing(i) \/ StoreMark(i) PROVE SeedInv'
  BY <1>16 DEF StoreSkipped, StoreCheck, StoreNothing, StoreMark, SeedInv, OneSeeder, SeedsLogged, Logged, Awaited, IsOpen, Opened, Storing, Alive
<1>17. ASSUME NEW i \in Instances, DropLog(i) \/ DropSnapshot(i) PROVE SeedInv'
  BY <1>17 DEF DropLog, DropSnapshot, SnapInv, DropsTheDead, SeedInv, OneSeeder, Alive
<1>18. ASSUME NEW i \in Instances, CompactSkip(i) \/ CompactMax(i) \/ CompactNothing(i) \/ CompactWrite(i) PROVE SeedInv'
  BY <1>18 DEF CompactSkip, CompactMax, CompactNothing, CompactWrite, SeedInv, OneSeeder, SeedsLogged, Logged, Awaited, IsOpen, Opened, Storing, Alive
<1>19. ASSUME NEW i \in Instances, CompactRead(i) PROVE SeedInv'
  BY <1>19 DEF CompactRead, SeedInv, OneSeeder, SeedsLogged, Logged, UpdatesOf, Awaited, IsOpen, Opened, Storing, Alive
<1>20. ASSUME NEW i \in Instances, NEW u \in Edits, Edit(i, u) PROVE SeedInv'
  BY <1>20, EditsAssumption DEF Edit, SeedInv, OneSeeder, SeedsLogged, Logged, Awaited, IsOpen, Alive
<1>21. ASSUME NEW i \in Instances, NEW j \in Instances, Relay(i, j) PROVE SeedInv'
  BY <1>21 DEF Relay, SeedInv, OneSeeder, SeedsLogged, Logged, Awaited, IsOpen, Alive
<1>22. ASSUME NEW i \in Instances, Unload(i) PROVE SeedInv'
  BY <1>22 DEF Unload, SeedInv, OneSeeder, SeedsLogged, Logged, Awaited, IsOpen, Opened, Storing, Alive
<1>23. ASSUME NEW i \in Instances, Crash(i) PROVE SeedInv'
  <2> DEFINE own(w) == [seq |-> w.seq, by |-> IF w.by = i THEN NoOne ELSE w.by,
                        kind |-> w.kind, upds |-> w.upds]
  <2>1. /\ inserting' = {own(w) : w \in inserting} /\ log' = log /\ room' = room /\ snap' = snap
        /\ pc' = [pc EXCEPT ![i] = "closed"] /\ doc' = [doc EXCEPT ![i] = {}]
        /\ pending' = [pending EXCEPT ![i] = {}] /\ merged' = [merged EXCEPT ![i] = {}]
    BY <1>23 DEF Crash
  <2>2. \A w \in inserting : /\ own(w).kind = w.kind /\ own(w).upds = w.upds
                             /\ own(w).by = w.by \/ own(w).by = NoOne
                             /\ w.by # i => own(w).by = w.by
    OBVIOUS
  <2> HIDE DEF own
  <2>3. OneSeeder'
    BY <2>1, <2>2 DEF SeedInv, OneSeeder
  <2>4. \A j \in Instances \ {i} : Awaited(j, "seed") => Awaited(j, "seed")'
    BY <2>1, <2>2 DEF Awaited
  <2>5. ASSUME Alive PROVE SeedsLogged'
    <3>1. \A v \in inserting' : \E w \in inserting : v.kind = w.kind /\ v.upds = w.upds
      BY <2>1, <2>2
    <3>2. Logged' = Logged
      BY <2>1 DEF Logged
    <3>3. /\ \A w \in inserting' : w.kind = "seed" <=> log' = {}
          /\ \A w \in inserting' : w.kind # "seed" => w.upds \cap Seeds \subseteq Logged'
      BY <2>1, <2>5, <3>1, <3>2 DEF SeedInv, SeedsLogged
    <3> QED
      BY <2>1, <2>4, <2>5, <3>2, <3>3 DEF SeedInv, SeedsLogged, IsOpen, Opened, Storing
  <2> QED
    BY <1>1, <2>3, <2>5 DEF SeedInv
<1>24. CASE Delete
  BY <1>24 DEF Delete, DeleteRoom, DeleteRows, DeleteSnapshot, SeedInv, OneSeeder, Alive
<1>25. CASE UNCHANGED vars
  BY <1>25 DEF SeedInv, OneSeeder, SeedsLogged, Logged, Awaited, IsOpen, Alive
<1> QED
  BY <1>7, <1>8, <1>9, <1>10, <1>11, <1>12, <1>13, <1>14, <1>15, <1>16, <1>17, <1>18, <1>19,
     <1>20, <1>21, <1>22, <1>23, <1>24, <1>25 DEF Next, Load, Store, Compact

LEMMA SeedCorrect == Spec => [](TypeOK /\ AwaitInv /\ SnapInv /\ SeedInv)
  BY TypeInit, TypeStep, AwaitInit, AwaitStep, SnapInit, SnapStep, SeedInit, SeedStep, PTL DEF Spec

\* However many instances load a new room at once, and whichever of them die
\* on the way, it is seeded once and every open copy has that seed.
THEOREM SeedingIsOnce == Spec => []SeededOnce
<1>1. SeedInv => SeededOnce
  BY DEF SeedInv, SeedsLogged, SeededOnce
<1> QED
  BY <1>1, SeedCorrect, PTL

-----------------------------------------------------------------------------
(* Nothing slips away: an update leaves a buffer for an insert, an insert  *)
(* for the log, or either for orphaned.                                    *)

LEMMA KeptGrows ==
    ASSUME TypeOK, SnapInv, [Next]_vars, Alive'
    PROVE  Kept \subseteq Kept'
<1> DEFINE flushes == {w \in inserting : w.kind \in {"timer", "flush"}}
<1>1. Alive /\ Logged \subseteq Logged'
  BY LoggedGrows
<1>2. pending = [i \in Instances |-> pending[i]]
  BY DEF TypeOK
<1>3. \A u \in Kept : \/ u \in Logged \/ u \in orphaned
                      \/ \E i \in Instances : u \in pending[i]
                      \/ \E w \in flushes : u \in w.upds
  BY DEF Kept
<1>4. \A u \in Updates : \/ u \in Logged' \/ u \in orphaned'
                         \/ \E i \in Instances : u \in pending'[i]
                         \/ \E w \in flushes' : u \in w.upds
                         => u \in Kept'
  BY DEF Kept
<1>0. Kept \subseteq Updates
  BY DEF Kept
<1> USE <1>0, <1>1, <1>2 DEF vars, database, memory, faults, Goto
\* A step that drops nothing from a buffer or from an insert.
<1>5. CASE /\ orphaned \subseteq orphaned'
           /\ \A i \in Instances : pending[i] \subseteq pending'[i]
           /\ inserting \subseteq inserting'
  BY <1>3, <1>4, <1>5
<1>6. ASSUME NEW w \in inserting, Commit(w) PROVE Kept \subseteq Kept'
  <2>1. inserting' = inserting \ {w} /\ pending' = pending /\ orphaned' = orphaned
    BY <1>6 DEF Commit
  <2>2. w.upds \subseteq Logged'
    <3>1. \E r \in log' : r.upds = w.upds
      <4> DEFINE row(late) == [seq |-> w.seq, upds |-> w.upds, late |-> late]
      <4>1. \E late : row(late) \in log'
        BY <1>6 DEF Commit
      <4> QED
        BY <4>1
    <3> QED
      BY <3>1 DEF Logged, UpdatesOf
  <2> QED
    BY <1>3, <1>4, <2>1, <2>2
<1>7. ASSUME NEW w \in inserting, Refuse(w) PROVE Kept \subseteq Kept'
  <2>1. /\ inserting' = inserting \ {w} /\ pending' = pending /\ orphaned \subseteq orphaned'
        /\ w.kind \in {"timer", "flush"} => w.upds \subseteq orphaned'
    BY <1>7 DEF Refuse
  <2> QED
    BY <1>3, <1>4, <2>1
<1>8. ASSUME NEW i \in Instances, NEW kind \in {"timer", "flush"}, Flush(i, kind), orphaned' = orphaned
      PROVE  Kept \subseteq Kept'
  <2>1. \A j \in Instances \ {i} : pending'[j] = pending[j]
    BY <1>8 DEF Flush
  <2>2. inserting \subseteq inserting'
    BY <1>8 DEF Flush, Insert
  <2>3. ASSUME NEW u \in pending[i] PROVE \E w \in flushes' : u \in w.upds
    <3> DEFINE new == [seq |-> nextSeq, by |-> i, kind |-> kind, upds |-> pending[i]]
    <3>1. new \in inserting'
      BY <1>8, <2>3 DEF Flush, Insert
    <3>2. new.kind \in {"timer", "flush"} /\ new.upds = pending[i]
      BY <1>8
    <3> HIDE DEF new
    <3> QED
      BY <2>3, <3>1, <3>2
  <2> QED
    BY <1>3, <1>4, <1>8, <2>1, <2>2, <2>3
<1>9. ASSUME NEW i \in Instances, Crash(i) PROVE Kept \subseteq Kept'
  <2> DEFINE own(w) == [seq |-> w.seq, by |-> IF w.by = i THEN NoOne ELSE w.by,
                        kind |-> w.kind, upds |-> w.upds]
  <2>1. /\ orphaned' = orphaned \cup pending[i] /\ \A j \in Instances \ {i} : pending'[j] = pending[j]
        /\ inserting' = {own(w) : w \in inserting}
    BY <1>9 DEF Crash
  <2>2. \A w \in flushes : own(w) \in flushes' /\ own(w).upds = w.upds
    BY <2>1
  <2> HIDE DEF own
  <2> QED
    BY <1>3, <1>4, <2>1, <2>2
<1>10. ASSUME NEW i \in Instances, Load(i) PROVE Kept \subseteq Kept'
  BY <1>5, <1>10 DEF Load, LoadSnapshot, LoadRows, SeedInsert, SeedFound, SeedDone, Insert
<1>11. ASSUME NEW i \in Instances, Store(i) PROVE Kept \subseteq Kept'
  BY <1>5, <1>8, <1>11 DEF Store, StoreFlush, StoreSkipped, StoreCheck, DropLog, DropSnapshot, StoreDiff,
     StoreNothing, StoreMark, Insert
<1>12. ASSUME NEW i \in Instances, Compact(i) PROVE Kept \subseteq Kept'
  BY <1>5, <1>12 DEF Compact, CompactSkip, CompactMax, CompactNothing, CompactRead, CompactWrite
<1>13. ASSUME NEW i \in Instances, \/ \E u \in Edits : Edit(i, u)
                                   \/ \E j \in Instances : Relay(i, j)
                                   \/ TimerFlush(i) \/ Unload(i)
       PROVE Kept \subseteq Kept'
  BY <1>5, <1>8, <1>13 DEF Edit, Relay, TimerFlush, Unload
<1>14. CASE Delete
  BY <1>5, <1>14 DEF Delete, DeleteRoom, DeleteRows, DeleteSnapshot
<1>15. CASE UNCHANGED vars
  BY <1>5, <1>15
<1> QED
  BY <1>6, <1>7, <1>9, <1>10, <1>11, <1>12, <1>13, <1>14, <1>15 DEF Next

LEMMA KeptInit == Init => KeptInv
  BY DEF Init, KeptInv, IsOpen, Opened, Storing

LEMMA KeptStep == TypeOK /\ AwaitInv /\ SnapInv /\ SeedInv /\ KeptInv /\ [Next]_vars => KeptInv'
<1> SUFFICES ASSUME TypeOK, AwaitInv, SnapInv, SeedInv, KeptInv, [Next]_vars, Alive',
                    NEW k \in Instances
             PROVE  /\ pc'[k] \in Loading => doc'[k] \subseteq Logged'
                    /\ IsOpen(k)' => doc'[k] \subseteq Kept'
  BY DEF KeptInv, Loading
<1> DEFINE Good == /\ pc'[k] \in Loading => doc'[k] \subseteq Logged'
                   /\ IsOpen(k)' => doc'[k] \subseteq Kept'
<1>1. Alive /\ Logged \subseteq Logged' /\ Kept \subseteq Kept' /\ Logged \subseteq Kept
  <2>1. Logged \subseteq Updates
    BY DEF TypeOK, Row, Logged, UpdatesOf
  <2> QED
    BY <2>1, LoggedGrows, KeptGrows DEF Kept
<1>2. /\ pc[k] \in Loading => doc[k] \subseteq Logged
      /\ IsOpen(k) => doc[k] \subseteq Kept
  BY <1>1 DEF KeptInv, Loading
<1>3. /\ pc = [i \in Instances |-> pc[i]] /\ doc = [i \in Instances |-> doc[i]]
  <2>1. pc = [i \in Instances |-> pc[i]]
    BY DEF TypeOK
  <2>2. doc = [i \in Instances |-> doc[i]]
    BY DEF TypeOK
  <2> QED
    BY <2>1, <2>2
\* An instance that waits for an insert of a store has the document open.
<1>0. ASSUME NEW w \in inserting, w.by = k, w.kind \in {"flush", "diff"} PROVE IsOpen(k)
  <2>1. pc[w.by] = WaitsAt[w.kind]
    BY <1>0 DEF AwaitInv
  <2> QED
    BY <1>0, <2>1 DEF WaitsAt, IsOpen, Opened, Storing
\* A refused insert leaves a copy where it was, closes it, or ends its store.
<1>17. ASSUME NEW w \in inserting, Refuse(w)
       PROVE  pc'[k] = pc[k] \/ pc'[k] = "closed" \/ (pc'[k] = "open" /\ IsOpen(k))
  <2>1. pc'[k] = IF w.by # k \/ w.kind = "timer" THEN pc[k]
                 ELSE IF w.kind = "seed" THEN "closed" ELSE "open"
    <3>1. pc' = [i \in Instances |-> IF w.by # i \/ w.kind = "timer" THEN pc[i]
                                     ELSE IF w.kind = "seed" THEN "closed" ELSE "open"]
      BY <1>17 DEF Refuse
    <3> QED
      BY <3>1
  <2>2. w.kind \in {"timer", "flush", "diff", "seed"}
    BY <1>17 DEF TypeOK, InFlightRow
  <2> QED
    BY <1>0, <2>1, <2>2
<1> USE <1>1, <1>2, <1>3 DEF vars, database, memory, faults, Goto, IsOpen, Opened, Storing, Loading
\* Most steps leave this copy alone and do not open it.
<1>4. CASE /\ doc'[k] \subseteq doc[k]
           /\ pc'[k] \in Loading => pc[k] \in Loading
           /\ IsOpen(k)' => IsOpen(k) \/ pc[k] \in Loading
  <2>1. pc'[k] \in Loading => doc'[k] \subseteq Logged'
    BY <1>4
  <2>2. IsOpen(k)' => doc'[k] \subseteq Kept'
    BY <1>4
  <2> QED
    BY <2>1, <2>2
<1>5. ASSUME NEW w \in inserting, Commit(w) PROVE Good
  BY <1>4, <1>5 DEF Commit
<1>6. ASSUME NEW w \in inserting, Refuse(w) PROVE Good
  <2>1. doc'[k] \subseteq doc[k]
    BY <1>6 DEF Refuse
  <2> QED
    BY <1>4, <1>6, <1>17, <2>1
<1>7. ASSUME NEW i \in Instances, LoadSnapshot(i) PROVE Good
  BY <1>4, <1>7 DEF LoadSnapshot, SeedInv, SeedsLogged
<1>8. ASSUME NEW i \in Instances, LoadRows(i) PROVE Good
  <2>1. RowsAfter(mark[i]) \subseteq Logged /\ Logged' = Logged
    BY <1>8 DEF LoadRows, RowsAfter, Logged, UpdatesOf
  <2> QED
    BY <1>4, <1>8, <2>1 DEF LoadRows
<1>9. ASSUME NEW i \in Instances, SeedInsert(i) \/ SeedFound(i) \/ SeedDone(i) PROVE Good
  BY <1>4, <1>9 DEF SeedInsert, SeedFound, SeedDone, SeedInv, SeedsLogged
<1>10. ASSUME NEW i \in Instances, Store(i) PROVE Good
  BY <1>4, <1>10 DEF Store, StoreFlush, StoreSkipped, StoreCheck, DropLog, DropSnapshot, StoreDiff,
     StoreNothing, StoreMark
<1>11. ASSUME NEW i \in Instances, Compact(i) PROVE Good
  BY <1>4, <1>11 DEF Compact, CompactSkip, CompactMax, CompactNothing, CompactRead, CompactWrite
<1>12. ASSUME NEW i \in Instances, NEW u \in Edits, Edit(i, u) PROVE Good
  <2>1. pending'[i] = pending[i] \cup {u}
    BY <1>12 DEF Edit, TypeOK
  <2>2. u \in Kept'
    BY <2>1 DEF Kept, Updates
  <2> QED
    BY <1>4, <1>12, <2>2 DEF Edit
<1>13. ASSUME NEW i \in Instances, NEW j \in Instances, Relay(i, j) PROVE Good
  <2>1. doc[j] \subseteq Kept
    BY <1>13 DEF Relay, KeptInv
  <2> QED
    BY <1>4, <1>13, <2>1 DEF Relay
<1>14. ASSUME NEW i \in Instances, TimerFlush(i) \/ Unload(i) \/ Crash(i) PROVE Good
  BY <1>4, <1>14 DEF TimerFlush, Unload, Crash
<1>15. CASE Delete
  BY <1>4, <1>15 DEF Delete, DeleteRoom, DeleteRows, DeleteSnapshot
<1>16. CASE UNCHANGED vars
  BY <1>4, <1>16
<1> QED
  BY <1>5, <1>6, <1>7, <1>8, <1>9, <1>10, <1>11, <1>12, <1>13, <1>14, <1>15, <1>16 DEF Next, Load

\* Every update an open copy shows is logged, on its way there, or among those
\* a crash or a refused insert took from a buffer.
THEOREM NothingIsForgotten == Spec => []NothingSlipsAway
<1>1. Kept \subseteq Logged \cup Buffered \cup orphaned
  BY DEF Kept, Buffered
<1>2. KeptInv => NothingSlipsAway
  BY <1>1 DEF KeptInv, NothingSlipsAway
<1> QED
  BY <1>2, KeptInit, KeptStep, SeedCorrect, PTL DEF Spec
=============================================================================
