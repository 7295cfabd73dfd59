------------------------------- MODULE DocLog -------------------------------
(***************************************************************************)
(* How one room document survives: the collab instances                    *)
(* (apps/collab/src/extensions/persistence.ts) in front of the Postgres    *)
(* tables doc_updates, the append-only log, and doc_snapshots.             *)
(*                                                                         *)
(* A Yjs document is the set of the updates it holds: applying one twice,  *)
(* or two in either order, gives the same document, so a state vector is   *)
(* the set it stands for and a diff is a set difference.                   *)
(*                                                                         *)
(* Every await of the code is a point where another actor may step.  An    *)
(* insert takes its seq when Postgres executes it and becomes visible when *)
(* it commits; the pool has several connections, so inserts commit in any  *)
(* order.  Hocuspocus serialises the stores of one instance, and its Redis *)
(* extension those of all instances, with a lock that has a time to live:  *)
(* without StoreLockHolds, a lock may end before its store does and the    *)
(* stores of two instances overlap.                                        *)
(***************************************************************************)
EXTENDS Naturals, FiniteSets

CONSTANTS
    Instances,     \* the collab processes
    Edits,         \* the updates browsers and the runner send
    NoOne,         \* not an instance
    StoreLockHolds,\* whether a store always ends before its lock does
    Deletes,       \* whether the room can be deleted
    LateLoads,     \* whether the runner opens the document after the room is gone
    MaxSeq,        \* bound: no edit, diff or seed once this many rows were numbered
    MaxCrashes,    \* bound on the crashes of instances
    MaxFailures    \* bound on the inserts Postgres refuses

\* The update seedIfEmpty makes: a fresh Y.Doc each time, so two seedings differ.
Seed(i) == [seededBy |-> i]
Seeds   == {Seed(i) : i \in Instances}
Updates == Edits \cup Seeds

ASSUME InstancesAssumption == NoOne \notin Instances
ASSUME EditsAssumption == Edits \cap Seeds = {}
ASSUME SwitchesAssumption == StoreLockHolds \in BOOLEAN /\ Deletes \in BOOLEAN /\ LateLoads \in BOOLEAN
ASSUME BoundsAssumption == MaxSeq \in Nat /\ MaxCrashes \in Nat /\ MaxFailures \in Nat

VARIABLES
    room,        \* the rooms row and how far deleteRoom got
    log,         \* committed rows of doc_updates; late: a higher seq was already there
    nextSeq,     \* the identity sequence of doc_updates.seq
    inserting,   \* inserts Postgres has numbered and not yet committed
    snap,        \* the doc_snapshots row; seq 0 when there is none
    compactor,   \* who holds the advisory lock "compact:<doc>"
    pc,          \* where each instance stands with the document
    doc,         \* its Y.Doc (while loading: what was applied so far)
    pending,     \* its buffer of updates not yet sent to doc_updates
    persisted,   \* its persistedSV
    due,         \* a debounced onStoreDocument is scheduled
    mark,        \* the seq its load or its compaction works from
    merged,      \* the throw-away Y.Doc of its compaction
    orphaned,    \* history: updates a crash or a refused insert took from a buffer
    crashes, failures

database == <<log, nextSeq, inserting>>
memory   == <<doc, pending, persisted, due, mark, merged>>
faults   == <<orphaned, crashes, failures>>
vars     == <<room, database, snap, compactor, pc, memory, faults>>

\* Where an instance can be: not loaded, loading, or with the document open
\* (idle, or somewhere inside onStoreDocument).
Loading == {"loading", "unseeded", "seeding"}
Storing == {"flushing", "checked", "diffing", "dropping", "droppingSnapshot",
            "compacting", "reading", "writing"}
Opened  == {"open"} \cup Storing

Alive   == room = "live"
IsOpen(i) == pc[i] \in Opened

UpdatesOf(rows) == UNION {r.upds : r \in rows}
Logged   == UpdatesOf(log)
\* In a buffer, or in an insert on its way to the log.
Buffered == {u \in Updates : \/ \E i \in Instances : u \in pending[i]
                             \/ \E w \in inserting : u \in w.upds}

Goto(i, where) == pc' = [pc EXCEPT ![i] = where]

Init ==
    /\ room = "live"
    /\ log = {} /\ nextSeq = 1 /\ inserting = {}
    /\ snap = [seq |-> 0, state |-> {}]
    /\ compactor = NoOne
    /\ pc = [i \in Instances |-> "closed"]
    /\ doc = [i \in Instances |-> {}]
    /\ pending = [i \in Instances |-> {}]
    /\ persisted = [i \in Instances |-> {}]
    /\ due = [i \in Instances |-> FALSE]
    /\ mark = [i \in Instances |-> 0]
    /\ merged = [i \in Instances |-> {}]
    /\ orphaned = {} /\ crashes = 0 /\ failures = 0

-----------------------------------------------------------------------------
(* Postgres.                                                               *)

\* An insert reaches Postgres: numbered, not yet visible.  The kinds are the
\* timer's flush, the flush and the diff a store awaits, and the seed.
Insert(i, kind, upds) ==
    /\ inserting' = inserting \cup {[seq |-> nextSeq, by |-> i, kind |-> kind, upds |-> upds]}
    /\ nextSeq' = nextSeq + 1
    /\ UNCHANGED log

Awaited(i, kind) == \E w \in inserting : w.by = i /\ w.kind = kind

Commit(w) ==
    /\ log' = log \cup {[seq  |-> w.seq, upds |-> w.upds,
                         late |-> \E r \in log : r.seq > w.seq]}
    /\ inserting' = inserting \ {w}
    /\ UNCHANGED <<room, nextSeq, snap, compactor, pc, memory, faults>>

\* Postgres refuses the insert.  The timer's flush only logs the error; a
\* store that awaits it rejects; a load that seeds rejects and the document
\* does not open.  flush() had cleared the buffer before it inserted.
Refuse(w) ==
    /\ failures < MaxFailures
    /\ failures' = failures + 1
    /\ inserting' = inserting \ {w}
    /\ orphaned' = IF w.kind \in {"timer", "flush"} THEN orphaned \cup w.upds ELSE orphaned
    /\ pc' = [i \in Instances |->
                IF w.by # i \/ w.kind = "timer" THEN pc[i]
                ELSE IF w.kind = "seed" THEN "closed" ELSE "open"]
    /\ doc' = [i \in Instances |-> IF w.by = i /\ w.kind = "seed" THEN {} ELSE doc[i]]
    /\ UNCHANGED <<room, log, nextSeq, snap, compactor, pending, persisted, due,
                   mark, merged, crashes>>

-----------------------------------------------------------------------------
(* Loading: onLoadDocument, loadInto and seedIfEmpty.                      *)

\* loadInto reads the snapshot.  access.ts has just found the room, except that
\* it does not look for it when the runner joins.
LoadSnapshot(i) ==
    /\ pc[i] = "closed" /\ (Alive \/ LateLoads)
    /\ Goto(i, "loading")
    /\ doc' = [doc EXCEPT ![i] = snap.state]
    /\ mark' = [mark EXCEPT ![i] = snap.seq]
    /\ UNCHANGED <<room, database, snap, compactor, pending, persisted, due, merged, faults>>

\* Mutant: one row too few after the snapshot.
RowsAfterNext(seq) == UpdatesOf({r \in log : r.seq > seq + 1})

\* What loadInto applies to a document on top of a snapshot of that seq.
RowsAfter(seq) == UpdatesOf({r \in log : r.seq > seq})

\* loadInto reads the rows the snapshot does not cover.  A document that is
\* initialised is open at once; another has still to be seeded.
LoadRows(i) ==
    LET held == doc[i] \cup RowsAfter(mark[i]) IN
    /\ pc[i] = "loading"
    /\ doc' = [doc EXCEPT ![i] = held]
    /\ IF held \cap Seeds = {}
       THEN Goto(i, "unseeded") /\ UNCHANGED persisted
       ELSE Goto(i, "open") /\ persisted' = [persisted EXCEPT ![i] = held]
    /\ mark' = [mark EXCEPT ![i] = 0]
    /\ UNCHANGED <<room, database, snap, compactor, pending, due, merged, faults>>

\* Mutant: no advisory lock.
SeedUnlocked == FALSE

\* seedIfEmpty holds the document's advisory lock until its transaction ends.
SeedLocked == \E w \in inserting : w.kind = "seed"

\* Under the lock the log is still empty: insert the template's update.
SeedInsert(i) ==
    /\ pc[i] = "unseeded" /\ ~SeedLocked /\ log = {} /\ nextSeq <= MaxSeq
    /\ Insert(i, "seed", {Seed(i)})
    /\ Goto(i, "seeding")
    /\ UNCHANGED <<room, snap, compactor, memory, faults>>

\* Under the lock the log has rows: another instance seeded, load its work.
SeedFound(i) ==
    /\ pc[i] = "unseeded" /\ ~SeedLocked /\ log # {}
    /\ doc' = [doc EXCEPT ![i] = @ \cup Logged]
    /\ persisted' = [persisted EXCEPT ![i] = doc'[i]]
    /\ Goto(i, "open")
    /\ UNCHANGED <<room, database, snap, compactor, pending, due, mark, merged, faults>>

\* The seeding transaction committed: the document opens with the template.
SeedDone(i) ==
    /\ pc[i] = "seeding" /\ ~Awaited(i, "seed")
    /\ doc' = [doc EXCEPT ![i] = @ \cup {Seed(i)}]
    /\ persisted' = [persisted EXCEPT ![i] = doc'[i]]
    /\ Goto(i, "open")
    /\ UNCHANGED <<room, database, snap, compactor, pending, due, mark, merged, faults>>

-----------------------------------------------------------------------------
(* Editing: onChange, the relay between instances, and the flush timer.    *)

\* Mutant: onChange returns for any transactionOrigin, not only Redis's.
EditUnbuffered(i, u) ==
    /\ IsOpen(i) /\ u \notin doc[i] /\ nextSeq <= MaxSeq
    /\ doc' = [doc EXCEPT ![i] = @ \cup {u}]
    /\ due' = [due EXCEPT ![i] = TRUE]
    /\ UNCHANGED <<room, database, snap, compactor, pc, pending, persisted, mark, merged, faults>>

\* A client delivers an update this copy lacks: for the first time, or again
\* after it reconnected.  onChange buffers it, Hocuspocus schedules a store.
Edit(i, u) ==
    /\ IsOpen(i) /\ u \notin doc[i] /\ nextSeq <= MaxSeq
    /\ doc' = [doc EXCEPT ![i] = @ \cup {u}]
    /\ pending' = [pending EXCEPT ![i] = @ \cup {u}]
    /\ due' = [due EXCEPT ![i] = TRUE]
    /\ UNCHANGED <<room, database, snap, compactor, pc, persisted, mark, merged, faults>>

\* Mutant: onChange also buffers what the relay brings.
RelayBuffered(i, j) ==
    /\ i # j /\ IsOpen(i) /\ IsOpen(j) /\ ~(doc[j] \subseteq doc[i])
    /\ doc' = [doc EXCEPT ![i] = @ \cup doc[j]]
    /\ pending' = [pending EXCEPT ![i] = @ \cup (doc[j] \ doc[i])]
    /\ UNCHANGED <<room, database, snap, compactor, pc, due, persisted, mark, merged, faults>>

\* The Redis extension gives i what j has (origin {source: "redis"}): onChange
\* does not buffer it.  Whether it schedules a store is left open.
Relay(i, j) ==
    /\ i # j /\ IsOpen(i) /\ IsOpen(j) /\ ~(doc[j] \subseteq doc[i])
    /\ doc' = [doc EXCEPT ![i] = @ \cup doc[j]]
    /\ \E again \in BOOLEAN : due' = [due EXCEPT ![i] = @ \/ again]
    /\ UNCHANGED <<room, database, snap, compactor, pc, pending, persisted, mark, merged, faults>>

\* flush(): the buffer is emptied first, then inserted.
Flush(i, kind) ==
    /\ pending' = [pending EXCEPT ![i] = {}]
    /\ IF pending[i] = {} THEN UNCHANGED database ELSE Insert(i, kind, pending[i])

\* Mutant: the timer flushes only documents that are loaded.
TimerFlushLoaded(i) ==
    /\ pending[i] # {} /\ IsOpen(i)
    /\ Flush(i, "timer")
    /\ UNCHANGED <<room, snap, compactor, pc, doc, persisted, due, mark, merged, faults>>

\* The interval of 100 ms, and onDestroy's last flush.
TimerFlush(i) ==
    /\ pending[i] # {}
    /\ Flush(i, "timer")
    /\ UNCHANGED <<room, snap, compactor, pc, doc, persisted, due, mark, merged, faults>>

-----------------------------------------------------------------------------
(* onStoreDocument, one await at a time.                                   *)

StoredElsewhere(i) == \E j \in Instances \ {i} : pc[j] \in Storing

StoreFlush(i) ==
    /\ pc[i] = "open" /\ due[i]
    /\ ~(StoreLockHolds /\ StoredElsewhere(i))
    /\ due' = [due EXCEPT ![i] = FALSE]
    /\ Flush(i, "flush")
    /\ Goto(i, "flushing")
    /\ UNCHANGED <<room, snap, compactor, doc, persisted, mark, merged, faults>>

\* Another instance holds the store lock: the hooks of this one are skipped.
StoreSkipped(i) ==
    /\ pc[i] = "open" /\ due[i]
    /\ StoredElsewhere(i)
    /\ due' = [due EXCEPT ![i] = FALSE]
    /\ UNCHANGED <<room, database, snap, compactor, pc, doc, pending, persisted, mark, merged, faults>>

\* isDeleted answers.
StoreCheck(i) ==
    /\ pc[i] = "flushing" /\ ~Awaited(i, "flush")
    /\ Goto(i, IF Alive THEN "checked" ELSE "dropping")
    /\ UNCHANGED <<room, database, snap, compactor, memory, faults>>

\* The room is gone: delete the log, then the snapshot.
DropLog(i) ==
    /\ pc[i] = "dropping"
    /\ log' = {}
    /\ Goto(i, "droppingSnapshot")
    /\ UNCHANGED <<room, nextSeq, inserting, snap, compactor, memory, faults>>

DropSnapshot(i) ==
    /\ pc[i] = "droppingSnapshot"
    /\ snap' = [seq |-> 0, state |-> {}]
    /\ Goto(i, "open")
    /\ UNCHANGED <<room, database, compactor, memory, faults>>

\* What this replica holds beyond persistedSV is appended.
Missing(i) == doc[i] \ persisted[i]

StoreDiff(i) ==
    /\ pc[i] = "checked" /\ Missing(i) # {} /\ nextSeq <= MaxSeq
    /\ Insert(i, "diff", Missing(i))
    /\ Goto(i, "diffing")
    /\ UNCHANGED <<room, snap, compactor, memory, faults>>

\* An empty diff inserts nothing and does not await.
StoreNothing(i) ==
    /\ pc[i] = "checked" /\ Missing(i) = {}
    /\ persisted' = [persisted EXCEPT ![i] = doc[i]]
    /\ Goto(i, "compacting")
    /\ UNCHANGED <<room, database, snap, compactor, doc, pending, due, mark, merged, faults>>

\* After the insert: persistedSV becomes the state vector the document has now.
StoreMark(i) ==
    /\ pc[i] = "diffing" /\ ~Awaited(i, "diff")
    /\ persisted' = [persisted EXCEPT ![i] = doc[i]]
    /\ Goto(i, "compacting")
    /\ UNCHANGED <<room, database, snap, compactor, doc, pending, due, mark, merged, faults>>

-----------------------------------------------------------------------------
(* compact(), in one transaction that reads committed rows.                *)

\* Another instance holds the lock: it compacts.
CompactSkip(i) ==
    /\ pc[i] = "compacting" /\ compactor # NoOne
    /\ Goto(i, "open")
    /\ UNCHANGED <<room, database, snap, compactor, memory, faults>>

\* The lock, and the highest seq in the log (0 when it is empty).
CompactMax(i) ==
    /\ pc[i] = "compacting" /\ compactor = NoOne
    /\ compactor' = i
    /\ \E top \in {0} \cup {r.seq : r \in log} :
         /\ \A r \in log : r.seq <= top
         /\ mark' = [mark EXCEPT ![i] = top]
    /\ Goto(i, "reading")
    /\ UNCHANGED <<room, database, snap, doc, pending, persisted, due, merged, faults>>

\* The snapshot covers that seq already: the transaction ends.
CompactNothing(i) ==
    /\ pc[i] = "reading" /\ mark[i] <= snap.seq
    /\ compactor' = NoOne
    /\ mark' = [mark EXCEPT ![i] = 0]
    /\ Goto(i, "open")
    /\ UNCHANGED <<room, database, snap, doc, pending, persisted, due, merged, faults>>

\* Mutant: the rows alone, without the snapshot they come after.
CompactReadRows(i) ==
    /\ pc[i] = "reading" /\ mark[i] > snap.seq
    /\ merged' = [merged EXCEPT ![i] = UpdatesOf({r \in log : r.seq > snap.seq /\ r.seq <= mark[i]})]
    /\ Goto(i, "writing")
    /\ UNCHANGED <<room, database, snap, compactor, doc, pending, persisted, due, mark, faults>>

\* Mutant: the rows below that seq only.
CompactReadShort(i) ==
    /\ pc[i] = "reading" /\ mark[i] > snap.seq
    /\ merged' = [merged EXCEPT ![i] =
                    snap.state \cup UpdatesOf({r \in log : r.seq > snap.seq /\ r.seq < mark[i]})]
    /\ Goto(i, "writing")
    /\ UNCHANGED <<room, database, snap, compactor, doc, pending, persisted, due, mark, faults>>

\* The snapshot, and the rows from there up to that seq.
CompactRead(i) ==
    /\ pc[i] = "reading" /\ mark[i] > snap.seq
    /\ merged' = [merged EXCEPT ![i] =
                    snap.state \cup UpdatesOf({r \in log : r.seq > snap.seq /\ r.seq <= mark[i]})]
    /\ Goto(i, "writing")
    /\ UNCHANGED <<room, database, snap, compactor, doc, pending, persisted, due, mark, faults>>

\* The upsert and the end of the transaction, which frees the lock.
CompactWrite(i) ==
    /\ pc[i] = "writing"
    /\ snap' = [seq |-> mark[i], state |-> merged[i]]
    /\ compactor' = NoOne
    /\ mark' = [mark EXCEPT ![i] = 0]
    /\ merged' = [merged EXCEPT ![i] = {}]
    /\ Goto(i, "open")
    /\ UNCHANGED <<room, database, doc, pending, persisted, due, faults>>

-----------------------------------------------------------------------------
(* Unloading, crashes, and the API's deletion of the room.                 *)

\* The last connection left and no store is due: afterUnloadDocument.
Unload(i) ==
    /\ pc[i] = "open" /\ ~due[i]
    /\ Goto(i, "closed")
    /\ doc' = [doc EXCEPT ![i] = {}]
    /\ persisted' = [persisted EXCEPT ![i] = {}]
    /\ UNCHANGED <<room, database, snap, compactor, pending, due, mark, merged, faults>>

\* The process dies and starts again.  Its open transactions end with it,
\* except that Postgres may still commit a statement it has received.
Crash(i) ==
    /\ crashes < MaxCrashes
    /\ pc[i] # "closed" \/ pending[i] # {} \/ \E w \in inserting : w.by = i
    /\ crashes' = crashes + 1
    /\ orphaned' = orphaned \cup pending[i]
    /\ inserting' = {[seq |-> w.seq, by |-> IF w.by = i THEN NoOne ELSE w.by,
                      kind |-> w.kind, upds |-> w.upds] : w \in inserting}
    /\ compactor' = IF compactor = i THEN NoOne ELSE compactor
    /\ Goto(i, "closed")
    /\ doc' = [doc EXCEPT ![i] = {}]
    /\ pending' = [pending EXCEPT ![i] = {}]
    /\ persisted' = [persisted EXCEPT ![i] = {}]
    /\ due' = [due EXCEPT ![i] = FALSE]
    /\ mark' = [mark EXCEPT ![i] = 0]
    /\ merged' = [merged EXCEPT ![i] = {}]
    /\ UNCHANGED <<room, log, nextSeq, snap, failures>>

\* rooms.repository.ts deleteRoom: the room, then its log, then its snapshot.
DeleteRoom ==
    /\ Deletes
    /\ room = "live" /\ room' = "rowsLeft"
    /\ UNCHANGED <<database, snap, compactor, pc, memory, faults>>

DeleteRows ==
    /\ room = "rowsLeft" /\ room' = "snapshotLeft"
    /\ log' = {}
    /\ UNCHANGED <<nextSeq, inserting, snap, compactor, pc, memory, faults>>

DeleteSnapshot ==
    /\ room = "snapshotLeft" /\ room' = "gone"
    /\ snap' = [seq |-> 0, state |-> {}]
    /\ UNCHANGED <<database, compactor, pc, memory, faults>>

-----------------------------------------------------------------------------
Load(i)    == LoadSnapshot(i) \/ LoadRows(i) \/ SeedInsert(i) \/ SeedFound(i) \/ SeedDone(i)
Store(i)   == \/ StoreFlush(i) \/ StoreSkipped(i) \/ StoreCheck(i) \/ DropLog(i) \/ DropSnapshot(i)
              \/ StoreDiff(i) \/ StoreNothing(i) \/ StoreMark(i)
Compact(i) == CompactSkip(i) \/ CompactMax(i) \/ CompactNothing(i) \/ CompactRead(i) \/ CompactWrite(i)
Delete     == DeleteRoom \/ DeleteRows \/ DeleteSnapshot

Next ==
    \/ \E w \in inserting : Commit(w) \/ Refuse(w)
    \/ \E i \in Instances :
         \/ Load(i) \/ Store(i) \/ Compact(i)
         \/ \E u \in Edits : Edit(i, u)
         \/ \E j \in Instances : Relay(i, j)
         \/ TimerFlush(i) \/ Unload(i) \/ Crash(i)
    \/ Delete

Spec == Init /\ [][Next]_vars

\* The flush timer fires and Postgres ends what it has begun.  Nothing makes a
\* client edit, a relay arrive, a document open or unload, a process crash or a
\* room go; and what an edit is promised needs no store to make progress.
Fairness ==
    /\ WF_vars(\E w \in inserting : Commit(w))
    /\ \A i \in Instances : WF_vars(TimerFlush(i))

FairSpec == Spec /\ Fairness
-----------------------------------------------------------------------------
(* What the code must keep.                                                *)

Row == [seq : Nat \ {0}, upds : SUBSET Updates, late : BOOLEAN]
InFlightRow == [seq : Nat \ {0}, by : Instances \cup {NoOne},
                kind : {"timer", "flush", "diff", "seed"}, upds : SUBSET Updates]

TypeOK ==
    /\ room \in {"live", "rowsLeft", "snapshotLeft", "gone"}
    /\ log \subseteq Row
    /\ nextSeq \in Nat \ {0}
    /\ inserting \subseteq InFlightRow
    /\ snap \in [seq : Nat, state : SUBSET Updates]
    /\ compactor \in Instances \cup {NoOne}
    /\ pc \in [Instances -> {"closed"} \cup Loading \cup Opened]
    /\ doc \in [Instances -> SUBSET Updates]
    /\ pending \in [Instances -> SUBSET Edits]
    /\ persisted \in [Instances -> SUBSET Updates]
    /\ due \in [Instances -> BOOLEAN]
    /\ mark \in [Instances -> Nat]
    /\ merged \in [Instances -> SUBSET Updates]
    /\ orphaned \subseteq Updates
    /\ crashes \in 0..MaxCrashes /\ failures \in 0..MaxFailures

\* What a snapshot of that seq and state must hold for a load to build on it:
\* every row it covers that was committed in the order of the seqs.
Covers(rows, seq, state) == \A r \in rows : r.seq <= seq /\ ~r.late => r.upds \subseteq state

\* Compaction loses no row that committed in seq order, and invents nothing:
\* the snapshot holds exactly log rows up to its seq, short of late ones.
SnapshotFaithful ==
    Alive => /\ Covers(log, snap.seq, snap.state)
             /\ snap.state \subseteq UpdatesOf({r \in log : r.seq <= snap.seq})

\* persistence.ts:19 "a snapshot can't claim a seq whose update it lacks".
SnapshotClaimsNothingItLacks ==
    Alive => \A r \in log : r.seq <= snap.seq => r.upds \subseteq snap.state

\* A document is seeded once however many instances load it at once: every
\* open copy has the one seed that is in the log.
SeededOnce ==
    Alive => /\ \A s, t \in Logged \cap Seeds : s = t
             /\ \A i \in Instances : IsOpen(i) =>
                  doc[i] \cap Seeds # {} /\ doc[i] \cap Seeds \subseteq Logged

\* Whatever an open copy shows is in the log, or buffered or being inserted by
\* some instance, unless a crash or a refused insert took it from its buffer.
NothingSlipsAway ==
    Alive => \A i \in Instances : IsOpen(i) =>
               doc[i] \subseteq Logged \cup Buffered \cup orphaned

\* persistence.ts:16 "appends whatever this replica holds beyond what it has
\* persisted, so a crash of the originating instance loses nothing": what a
\* replica counts as persisted, and so never appends, is not lost already.
PersistedIsKept ==
    Alive => \A i \in Instances : IsOpen(i) => persisted[i] \subseteq Logged \cup Buffered

\* persistence.ts:128 "The room was deleted while this was open. Keep nothing":
\* once the deletion, the copies and their inserts are all done, nothing that
\* anyone wrote is left, and no snapshot.
DeletedRoomKeepsNothing ==
    /\ room = "gone" /\ inserting = {}
    /\ \A i \in Instances : pc[i] = "closed" /\ pending[i] = {}
    => Logged \cap Edits = {} /\ snap.seq = 0

\* A snapshot never goes back: compactions of two instances cannot overtake
\* each other and put an older state over a newer one.
SnapshotNeverGoesBack ==
    [][Alive' => snap.seq <= snap'.seq /\ snap.state \subseteq snap'.state]_vars

\* An edit in a buffer reaches the log, unless its instance crashes first,
\* Postgres refuses it or the room goes.
EditReachesLog ==
    \A i \in Instances, u \in Edits :
        u \in pending[i] ~> u \in Logged \cup orphaned \/ ~Alive

\* What a later load is promised: DurableDoc, where saved are the rows that
\* committed in order, and a copy opens when loadInto has read the rows.
Saved == IF Alive THEN UpdatesOf({r \in log : ~r.late}) ELSE {}
Copy  == [i \in Instances |->
            IF pc[i] \in {"closed", "loading"} THEN [open |-> FALSE, has |-> {}]
                                              ELSE [open |-> TRUE, has |-> doc[i]]]
D == INSTANCE DurableDoc WITH alive <- Alive, saved <- Saved, copy <- Copy
ImplementsDurableDoc == D!Spec
=============================================================================
