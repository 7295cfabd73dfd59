------------------------------ MODULE Checkpoints ------------------------------
(***************************************************************************)
(* Checkpoints of a room's files: the collab extension that makes them     *)
(* (apps/collab/src/extensions/checkpoints.ts), its rules                  *)
(* (checkpoint-rules.ts) and the API that names and deletes them           *)
(* (apps/api/src/history/checkpoints.service.ts), for one files document   *)
(* that several collab instances may hold.                                 *)
(*                                                                         *)
(* A make() is a job: the automatic one of an instance (its tick, or the   *)
(* first load) or one a browser asked for.  It is a transaction under an   *)
(* advisory lock; every await ends a step, edits go on meanwhile.  A Yjs   *)
(* document is its set of edits.  A state vector counts insertions only:   *)
(* two documents that differ by deletions have the same one.               *)
(***************************************************************************)
EXTENDS Naturals, FiniteSets

CONSTANTS
    Instances,              \* collab processes
    Asks,                   \* requests of browsers
    Inserts, Deletions,     \* edits of the files
    Keep,                   \* KEEP of the automatic and of the before-... kinds
    Ids,                    \* ids of rows; a bound on how many there are at a time
    NoRow,                  \* not a row
    MaxLoads,               \* bound on loads of the document
    MaxMishaps              \* bound on transactions that fail, instances that die and
                            \* calls of the API, together

ASSUME KeepAssumption == Keep \in Nat \ {0}
ASSUME BoundsAssumption == MaxLoads \in Nat /\ MaxMishaps \in Nat
ASSUME JobsAssumption == Instances \cap Asks = {} /\ Inserts \cap Deletions = {}

Edits == Inserts \cup Deletions
Jobs == Instances \cup Asks
Kinds == {"tick", "load", "manual", "before"}
RowType == [id : Ids, kind : {"auto", "manual", "before"}, named : BOOLEAN, state : SUBSET Edits,
            newer : SUBSET Ids]

ASSUME IdsAssumption == Ids \subseteq Nat /\ NoRow \notin Ids \cup Jobs \cup RowType

VARIABLES
    doc, loaded, dirty,     \* each instance's document, whether it is loaded, and dirty
    rows,                   \* the checkpoints table; `newer` of a row: those with a later createdAt
    aged,                   \* the newest row is `every` old
    fresh, gone,            \* the row the holder of the lock is about to commit, and the rows
                            \* it lets go
    job,                    \* each job: where it is, in which instance, its kind, the newest
                            \* row it read, whether it compares, the row it answers with, and
                            \* (history) the files when the browser asked
    asks,                   \* requests not sent yet
    holder,                 \* who holds the advisory lock
    earlier,                \* of each open transaction: those of them that began before it
    newer,                  \* rows a job's createdAt will be older than
    spared,                 \* history: the rows with a name when `gone` was chosen
    unseen,                 \* history: the edits made through an instance since it loaded the
                            \* document that no checkpoint has
    loads, mishaps

document == <<doc, loaded, dirty>>
pending  == <<fresh, gone, spared>>
lock     == <<holder, earlier, newer>>
bounds   == <<asks, loads, mishaps>>
vars     == <<document, rows, aged, pending, job, lock, unseen, bounds>>

Resting == [at |-> "rest", in |-> NoRow, kind |-> NoRow, newest |-> NoRow, due |-> FALSE,
            mine |-> NoRow, asked |-> {}]

Init ==
    /\ doc = [i \in Instances |-> {}] /\ loaded = {} /\ dirty = {}
    /\ rows = {} /\ aged = FALSE /\ fresh = NoRow /\ gone = {} /\ spared = {}
    /\ job = [j \in Jobs |-> Resting] /\ asks = Asks
    /\ holder = NoRow /\ earlier = [j \in Jobs |-> {}] /\ newer = [j \in Jobs |-> {}]
    /\ unseen = [i \in Instances |-> {}]
    /\ loads = 0 /\ mishaps = 0

Automatic(k) == k \in {"tick", "load"}
Running(j) == job[j].at # "rest"
Open(j) == job[j].at \in {"waiting", "deciding", "pruning"}
IdsOf(s) == {r.id : r \in s}
Row(id) == CHOOSE r \in rows : r.id = id
SameVector(a, b) == a \cap Inserts = b \cap Inserts
Files(j) == doc[job[j].in]

-----------------------------------------------------------------------------
(* Documents.                                                              *)

\* transactionOrigin is not redis: this instance checks it.
Edit(i, e) ==
    /\ i \in loaded /\ \A k \in Instances : e \notin doc[k]
    /\ doc' = [doc EXCEPT ![i] = @ \cup {e}] /\ dirty' = dirty \cup {i}
    /\ unseen' = [unseen EXCEPT ![i] = @ \cup {e}]
    /\ UNCHANGED <<loaded, rows, aged, pending, job, lock, bounds>>

Relay(i, k) ==
    /\ i \in loaded /\ k \in loaded /\ ~(doc[k] \subseteq doc[i])
    /\ doc' = [doc EXCEPT ![i] = @ \cup doc[k]]
    /\ UNCHANGED <<loaded, dirty, rows, aged, pending, job, lock, unseen, bounds>>

\* make() opens its transaction, whose start is the createdAt of its row.
Make(j, i, k, files) ==
    /\ job' = [job EXCEPT ![j] = [Resting EXCEPT !.at = "waiting", !.in = i, !.kind = k, !.asked = files]]
    /\ earlier' = [earlier EXCEPT ![j] = {o \in Jobs : Open(o)}]

\* The transactions of these jobs end.
End(done) ==
    /\ earlier' = [j \in Jobs |-> IF j \in done THEN {} ELSE earlier[j] \ done]
    /\ IF holder \in done THEN holder' = NoRow ELSE UNCHANGED holder

\* The document comes from the log with every edit there was.
Load(i) ==
    /\ i \notin loaded /\ loads < MaxLoads /\ loads' = loads + 1
    /\ \A j \in Jobs : job[j].in # i
    /\ loaded' = loaded \cup {i} /\ doc' = [doc EXCEPT ![i] = UNION {doc[k] : k \in Instances}]
    /\ Make(i, i, "load", {})
    /\ UNCHANGED <<dirty, rows, aged, pending, holder, newer, unseen, asks, mishaps>>

\* The last connection has gone.  What no checkpoint holds is left to the next load.
Unload(i) ==
    /\ i \in loaded /\ loaded' = loaded \ {i} /\ dirty' = dirty \ {i}
    /\ unseen' = [unseen EXCEPT ![i] = {}]
    /\ UNCHANGED <<doc, rows, aged, pending, job, lock, bounds>>

-----------------------------------------------------------------------------
(* Jobs.                                                                   *)

Tick(i) ==
    /\ i \in dirty /\ ~Running(i) /\ dirty' = dirty \ {i}
    /\ IF i \in loaded THEN Make(i, i, "tick", {}) ELSE UNCHANGED <<job, earlier>>
    /\ UNCHANGED <<doc, loaded, rows, aged, pending, holder, newer, unseen, bounds>>

\* A browser's message comes after its own edits.
Ask(j, i, k) ==
    /\ j \in asks /\ i \in loaded /\ asks' = asks \ {j}
    /\ Make(j, i, k, doc[i])
    /\ UNCHANGED <<document, rows, aged, pending, holder, newer, unseen, loads, mishaps>>

\* Mutant: an automatic one does not wait until the newest is old enough.
NeedsCompareSoon(k, latest, old) == k # "manual" /\ latest # NoRow

NeedsCompare(k, latest, old) == k # "manual" /\ latest # NoRow /\ (Automatic(k) => old)

Newest == IF rows = {} THEN {NoRow} ELSE {r.id : r \in {x \in rows : x.newer = {}}}

\* The lock comes, the newest row is read, and whether to compare is decided.
Lock(j) ==
    /\ job[j].at = "waiting" /\ holder = NoRow /\ holder' = j
    /\ \E latest \in Newest :
         job' = [job EXCEPT ![j].at = "deciding", ![j].newest = latest,
                            ![j].due = NeedsCompare(job[j].kind, latest, aged)]
    /\ UNCHANGED <<document, rows, aged, pending, earlier, newer, unseen, bounds>>

\* Mutant: only the newest row's presence counts.
ChangedIfGone(j) == job[j].due => job[j].newest \notin IdsOf(rows)

\* Without a comparison it counts as changed, and so it does when the row is
\* not there any more.
Changed(j) ==
    job[j].due => ~\E r \in rows : r.id = job[j].newest /\ SameVector(r.state, Files(j))

ShouldMake(j) ==
    \/ job[j].kind = "manual" \/ job[j].newest = NoRow
    \/ Changed(j) /\ (Automatic(job[j].kind) => job[j].due)

\* Mutant: the transaction is left open.
DeclineOpen(j) ==
    /\ job[j].at = "deciding" /\ ~ShouldMake(j)
    /\ job' = [job EXCEPT ![j].at = "answering", ![j].mine = job[j].newest]
    /\ UNCHANGED <<document, rows, aged, pending, lock, unseen, bounds>>

\* Not made: the answer is the newest row there was.
Decline(j) ==
    /\ job[j].at = "deciding" /\ ~ShouldMake(j)
    /\ job' = [job EXCEPT ![j].at = "answering", ![j].mine = job[j].newest, ![j].newest = NoRow]
    /\ End({j}) /\ newer' = [newer EXCEPT ![j] = {}]
    /\ UNCHANGED <<document, rows, aged, pending, unseen, bounds>>

\* Mutant: named rows are let go too.
PrunableAll(s) ==
    LET Ahead(r) == {x \in s : x.kind = r.kind /\ x.id \in r.newer \cup {r.id}}
    IN  {r.id : r \in {x \in s : x.kind # "manual" /\ Cardinality(Ahead(x)) > Keep}}

\* Past the newest Keep of their kind, without a name.
Prunable(s) ==
    LET Counts(r) == r.kind # "manual" /\ ~r.named
        Ahead(r) == {x \in s : Counts(x) /\ x.kind = r.kind /\ x.id \in r.newer \cup {r.id}}
    IN  {r.id : r \in {x \in s : Counts(x) /\ Cardinality(Ahead(x)) > Keep}}

\* The table with the row, where its transaction's start puts it.
Placed(j, row) ==
    LET Behind(r) == IF r.id \in newer[j] THEN r ELSE [r EXCEPT !.newer = @ \cup {row.id}]
    IN  {Behind(r) : r \in rows} \cup {[row EXCEPT !.newer = newer[j]]}

\* The table without these.
Without(s, ids) == {[r EXCEPT !.newer = @ \ ids] : r \in {x \in s : x.id \notin ids}}

\* Ids no row has and no job holds on to; the least one is as good as any.
FreeIds == {n \in Ids \ IdsOf(rows) : \A o \in Jobs : n # job[o].newest /\ n # job[o].mine}

\* The row has the files as they are now, and a name when a browser asked (the
\* requests before a restore and before an AI edit carry one); the list is read
\* and the old ones are chosen.  Nobody else sees the row yet.
Insert(j) ==
    /\ job[j].at = "deciding" /\ ShouldMake(j)
    /\ \E id \in FreeIds :
         /\ \A n \in FreeIds : id <= n
         /\ fresh' = [id |-> id, kind |-> IF Automatic(job[j].kind) THEN "auto" ELSE job[j].kind,
                      named |-> ~Automatic(job[j].kind), state |-> Files(j), newer |-> {}]
         /\ job' = [job EXCEPT ![j].at = "pruning", ![j].mine = id, ![j].newest = NoRow, ![j].due = TRUE]
    /\ gone' = Prunable(Placed(j, fresh'))
    /\ spared' = IdsOf({r \in rows : r.named \/ r.kind = "manual"})
    /\ UNCHANGED <<document, rows, aged, lock, unseen, bounds>>

\* Those chosen go, by their ids, and the transaction commits.
Commit(j) ==
    /\ job[j].at = "pruning" /\ job' = [job EXCEPT ![j].at = "answering"]
    /\ rows' = Without(Placed(j, fresh), gone)
    /\ aged' = (aged /\ newer[j] # {})
    /\ newer' = [o \in Jobs |-> IF o = j THEN {}
                               ELSE (newer[o] \cup IF o \in earlier[j] THEN {fresh.id} ELSE {}) \ gone]
    /\ End({j})
    /\ unseen' = [i \in Instances |-> unseen[i] \ fresh.state]
    /\ fresh' = NoRow /\ gone' = {} /\ spared' = {}
    /\ UNCHANGED <<document, bounds>>

\* Mutant: a tick that found nothing due forgets the document.
CheckedForgets(i) ==
    /\ i \in Instances /\ job[i].at = "answering" /\ job' = [job EXCEPT ![i] = Resting]
    /\ UNCHANGED <<document, rows, aged, pending, lock, unseen, bounds>>

\* Nobody asked: a tick that found nothing due looks again next time.
Checked(i) ==
    /\ i \in Instances /\ job[i].at = "answering" /\ job' = [job EXCEPT ![i] = Resting]
    /\ dirty' = dirty \cup IF job[i].kind = "tick" /\ ~job[i].due THEN {i} ELSE {}
    /\ UNCHANGED <<doc, loaded, rows, aged, pending, lock, unseen, bounds>>

\* The row is read once more; if it has been deleted the answer is an error.
Answer(j) ==
    /\ j \in Asks /\ job[j].at = "answering" /\ job' = [job EXCEPT ![j] = Resting]
    /\ UNCHANGED <<document, rows, aged, pending, lock, unseen, bounds>>

\* These jobs' transactions are rolled back.
Abandon(dead) ==
    /\ job' = [j \in Jobs |-> IF j \in dead THEN Resting ELSE job[j]]
    /\ End(dead) /\ newer' = [j \in Jobs |-> IF j \in dead THEN {} ELSE newer[j]]
    /\ IF holder \in dead THEN fresh' = NoRow /\ gone' = {} /\ spared' = {} ELSE UNCHANGED pending

\* The transaction fails: a tick looks again next time, a browser is told.
Fail(j) ==
    /\ Open(j) /\ mishaps < MaxMishaps /\ mishaps' = mishaps + 1
    /\ Abandon({j})
    /\ dirty' = dirty \cup IF job[j].kind = "tick" THEN {j} ELSE {}
    /\ UNCHANGED <<doc, loaded, rows, aged, unseen, asks, loads>>

-----------------------------------------------------------------------------
(* Time, the API, and instances that die.                                  *)

Age ==
    /\ rows # {} /\ ~aged /\ aged' = TRUE
    /\ UNCHANGED <<document, rows, pending, job, lock, unseen, bounds>>

Rename(id, named) ==
    /\ mishaps < MaxMishaps /\ mishaps' = mishaps + 1
    /\ id \in IdsOf(rows) /\ Row(id).named # named
    /\ rows' = {IF r.id = id THEN [r EXCEPT !.named = named] ELSE r : r \in rows}
    /\ UNCHANGED <<document, aged, pending, job, lock, unseen, asks, loads>>

RemoveRow(id) ==
    /\ mishaps < MaxMishaps /\ mishaps' = mishaps + 1
    /\ id \in IdsOf(rows) /\ rows' = Without(rows, {id})
    /\ aged' = (aged /\ rows' # {}) /\ newer' = [j \in Jobs |-> newer[j] \ {id}]
    /\ UNCHANGED <<document, pending, job, holder, earlier, unseen, asks, loads>>

Crash(i) ==
    /\ i \in loaded /\ mishaps < MaxMishaps /\ mishaps' = mishaps + 1
    /\ Abandon({j \in Jobs : job[j].in = i})
    /\ loaded' = loaded \ {i} /\ dirty' = dirty \ {i}
    /\ unseen' = [unseen EXCEPT ![i] = {}]
    /\ UNCHANGED <<doc, rows, aged, asks, loads>>

-----------------------------------------------------------------------------
Step(j) ==
    \/ Lock(j) \/ Decline(j) \/ Insert(j) \/ Commit(j)
    \/ Checked(j) \/ Answer(j)

Next ==
    \/ \E i \in Instances : \/ Load(i) \/ Unload(i) \/ Tick(i) \/ Crash(i)
                            \/ \E e \in Edits : Edit(i, e)
                            \/ \E k \in Instances : Relay(i, k)
                            \/ \E j \in Asks, k \in {"manual", "before"} : Ask(j, i, k)
    \/ \E j \in Jobs : Step(j) \/ Fail(j)
    \/ \E id \in Ids : RemoveRow(id) \/ \E b \in BOOLEAN : Rename(id, b)
    \/ Age

Spec == Init /\ [][Next]_vars
-----------------------------------------------------------------------------
(* What the code must keep.                                                *)

JobType == [at : {"rest", "waiting", "deciding", "pruning", "answering"}, in : Instances \cup {NoRow},
            kind : Kinds \cup {NoRow}, newest : Ids \cup {NoRow}, due : BOOLEAN, mine : Ids \cup {NoRow},
            asked : SUBSET Edits]

\* Types; of the open transactions one has the lock, from its decision until
\* it ends; and they, and the rows by their createdAt, are each in one order.
TypeOK ==
    /\ doc \in [Instances -> SUBSET Edits] /\ unseen \in [Instances -> SUBSET Edits]
    /\ loaded \subseteq Instances /\ dirty \subseteq Instances /\ aged \in BOOLEAN
    /\ rows \subseteq RowType /\ fresh \in RowType \cup {NoRow}
    /\ job \in [Jobs -> JobType]
    /\ {j \in Jobs : job[j].at \in {"deciding", "pruning"}} = {holder} \ {NoRow}
    /\ fresh # NoRow <=> \E j \in Jobs : job[j].at = "pruning" /\ job[j].mine = fresh.id
    /\ gone \cup spared \subseteq Ids /\ asks \subseteq Asks
    /\ newer \in [Jobs -> SUBSET IdsOf(rows)] /\ earlier \in [Jobs -> SUBSET {j \in Jobs : Open(j)}]
    /\ \A j, k \in Jobs : Open(j) /\ Open(k) /\ j # k => (j \in earlier[k]) # (k \in earlier[j])
    /\ \A j \in Jobs : j \notin earlier[j]
    /\ \A r, s \in rows : r # s => r.id # s.id /\ ((r.id \in s.newer) # (s.id \in r.newer))
    /\ \A r \in rows : r.newer \subseteq IdsOf(rows) \ {r.id}
    /\ loads \in 0..MaxLoads /\ mishaps \in 0..MaxMishaps

\* The checkpoint a browser is answered with, made for it or found, has every
\* insertion its files had when it asked, whichever instances make others
\* meanwhile and in whatever order their rows stand.
AnswerHoldsInserts ==
    [][\A j \in Asks : Answer(j) /\ job[j].mine \in IdsOf(rows)
                          => job[j].asked \cap Inserts \subseteq Row(job[j].mine).state]_vars

\* Claim of checkpoint-rules.ts: one is made before a restore or an AI edit
\* unless nothing changed since the newest.
AnswerHoldsFiles ==
    [][\A j \in Asks : Answer(j) /\ job[j].mine \in IdsOf(rows)
                          => job[j].asked \subseteq Row(job[j].mine).state]_vars

\* A checkpoint that has a name, or was saved by hand, when the old ones are
\* chosen is still there when they go.
NamedIsKept == [][\A j \in Jobs : Commit(j) =>
                     spared \cap IdsOf(rows) \subseteq IdsOf(rows')]_vars

\* Claim of checkpoints.service.ts: a named one is never let go automatically,
\* so whatever is named then stays until somebody deletes it.
NamedIsNeverLetGo ==
    [][\A r \in rows : r.named /\ r.id \notin IdsOf(rows') => mishaps' # mishaps]_vars

\* Instances take turns: an automatic checkpoint comes only when the newest is
\* old enough at the moment it is made, however many instances looked before.
AutomaticOnesAreSpaced ==
    [][\A r \in rows' :
         r.kind = "auto" /\ r.id \notin IdsOf(rows) => aged \/ rows = {}]_vars

\* An insertion made through an instance that still has the document is in a
\* checkpoint, or that instance is going to look: through failed transactions,
\* looks that found nothing due, rows that go, and edits while it looks.
UnseenIsDirty ==
    \A i \in loaded : unseen[i] \cap Inserts # {} => i \in dirty \/ Running(i)
=============================================================================
