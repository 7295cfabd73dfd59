--------------------------- MODULE CheckpointsProof ---------------------------
(***************************************************************************)
(* Proofs about Checkpoints, for any instances, browsers, edits and bounds.*)
(***************************************************************************)
EXTENDS CheckpointsInv, FiniteSetTheorems, TLAPS

USE KeepAssumption, BoundsAssumption, JobsAssumption, IdsAssumption

-----------------------------------------------------------------------------
(* TypeOK in three parts: types, turns, orders.                            *)

Types ==
    /\ doc \in [Instances -> SUBSET Edits] /\ unseen \in [Instances -> SUBSET Edits]
    /\ loaded \subseteq Instances /\ dirty \subseteq Instances /\ aged \in BOOLEAN
    /\ rows \subseteq RowType /\ fresh \in RowType \cup {NoRow}
    /\ job \in [Jobs -> JobType]
    /\ gone \subseteq Ids /\ spared \subseteq Ids /\ asks \subseteq Asks
    /\ newer \in [Jobs -> SUBSET Ids] /\ earlier \in [Jobs -> SUBSET Jobs]
    /\ loads \in 0..MaxLoads /\ mishaps \in 0..MaxMishaps

\* The lock is held by the job that decides or is about to commit.
Turns ==
    /\ holder \in Jobs \cup {NoRow}
    /\ \A j \in Jobs : job[j].at \in {"deciding", "pruning"} <=> holder = j
    /\ \A j \in Jobs : job[j].at = "pruning" => fresh # NoRow /\ fresh.id = job[j].mine
    /\ fresh # NoRow => holder # NoRow /\ job[holder].at = "pruning"

JobOrder ==
    /\ \A j \in Jobs : earlier[j] \subseteq {k \in Jobs : Open(k)} \ {j}
    /\ \A j, k \in Jobs : Open(j) /\ Open(k) /\ j # k => (j \in earlier[k]) # (k \in earlier[j])
    /\ \A j \in Jobs : ~Open(j) => earlier[j] = {}

RowOrder ==
    /\ \A j \in Jobs : newer[j] \subseteq IdsOf(rows)
    /\ \A r, s \in rows : r # s => r.id # s.id /\ ((r.id \in s.newer) # (s.id \in r.newer))
    /\ \A r \in rows : r.newer \subseteq IdsOf(rows) \ {r.id}

LEMMA TypeOKParts == Types /\ Turns /\ JobOrder /\ RowOrder => TypeOK
  <1> SUFFICES ASSUME Types, Turns, JobOrder, RowOrder PROVE TypeOK
    OBVIOUS
  <1>1. {j \in Jobs : job[j].at \in {"deciding", "pruning"}} = {holder} \ {NoRow}
    BY DEF Turns, Jobs
  <1>2. fresh # NoRow <=> \E j \in Jobs : job[j].at = "pruning" /\ job[j].mine = fresh.id
    BY DEF Turns
  <1>3. newer \in [Jobs -> SUBSET IdsOf(rows)] /\ earlier \in [Jobs -> SUBSET {j \in Jobs : Open(j)}]
    BY DEF Types, JobOrder, RowOrder
  <1>4. \A j \in Jobs : j \notin earlier[j]
    BY DEF JobOrder
  <1> QED
    BY <1>1, <1>2, <1>3, <1>4 DEF Types, JobOrder, RowOrder, TypeOK

-----------------------------------------------------------------------------
(* The table: what is in one without some rows, and with a new one.        *)

LEMMA RowFields ==
    ASSUME NEW r \in RowType
    PROVE  /\ r.id \in Ids /\ r.kind \in {"auto", "manual", "before"} /\ r.named \in BOOLEAN
           /\ r.state \subseteq Edits /\ r.newer \subseteq Ids
           /\ r = [id |-> r.id, kind |-> r.kind, named |-> r.named, state |-> r.state, newer |-> r.newer]
  BY DEF RowType

LEMMA RowWithNewer ==
    ASSUME NEW r \in RowType, NEW n \in SUBSET Ids
    PROVE  LET x == [r EXCEPT !.newer = n] IN
           /\ x \in RowType /\ x.id = r.id /\ x.kind = r.kind /\ x.named = r.named /\ x.state = r.state
           /\ x.newer = n
  BY DEF RowType

LEMMA WithoutFacts ==
    ASSUME NEW s \in SUBSET RowType, NEW ids
    PROVE  /\ Without(s, ids) \subseteq RowType
           /\ \A x \in Without(s, ids) : \E r \in s :
                /\ r.id \notin ids /\ x.id = r.id /\ x.kind = r.kind /\ x.named = r.named
                /\ x.state = r.state /\ x.newer = r.newer \ ids
           /\ \A r \in s : r.id \notin ids => \E x \in Without(s, ids) :
                x.id = r.id /\ x.kind = r.kind /\ x.named = r.named /\ x.state = r.state /\ x.newer = r.newer \ ids
           /\ IdsOf(Without(s, ids)) = IdsOf(s) \ ids
  <1> DEFINE Less(r) == [r EXCEPT !.newer = r.newer \ ids]
  <1>1. \A r \in s : /\ Less(r) \in RowType /\ Less(r).id = r.id /\ Less(r).kind = r.kind
                     /\ Less(r).named = r.named /\ Less(r).state = r.state /\ Less(r).newer = r.newer \ ids
    BY RowWithNewer, RowFields
  <1>2. Without(s, ids) = {Less(r) : r \in {x \in s : x.id \notin ids}}
    BY DEF Without
  <1> HIDE DEF Less
  <1> QED
    BY <1>1, <1>2 DEF IdsOf

LEMMA PlacedFacts ==
    ASSUME Types, NEW j \in Jobs, NEW row \in RowType
    PROVE  /\ Placed(j, row) \subseteq RowType
           /\ \A x \in Placed(j, row) :
                \/ /\ x.id = row.id /\ x.kind = row.kind /\ x.named = row.named /\ x.state = row.state
                   /\ x.newer = newer[j]
                \/ \E r \in rows : /\ x.id = r.id /\ x.kind = r.kind /\ x.named = r.named /\ x.state = r.state
                                   /\ x.newer = IF r.id \in newer[j] THEN r.newer ELSE r.newer \cup {row.id}
           /\ \A r \in rows : \E x \in Placed(j, row) : x.id = r.id
           /\ \E x \in Placed(j, row) : x.id = row.id
           /\ IdsOf(Placed(j, row)) = IdsOf(rows) \cup {row.id}
  <1> DEFINE Behind(r) == IF r.id \in newer[j] THEN r ELSE [r EXCEPT !.newer = r.newer \cup {row.id}]
             Later(r)  == IF r.id \in newer[j] THEN r.newer ELSE r.newer \cup {row.id}
             new == [row EXCEPT !.newer = newer[j]]
  <1>1. ASSUME NEW r \in rows
        PROVE  /\ Behind(r) \in RowType /\ Behind(r).id = r.id /\ Behind(r).kind = r.kind
               /\ Behind(r).named = r.named /\ Behind(r).state = r.state
               /\ Behind(r).newer = Later(r)
    <2>1. r \in RowType /\ row.id \in Ids
      BY RowFields DEF Types
    <2>2. r.newer \cup {row.id} \in SUBSET Ids
      BY <2>1, RowFields
    <2>3. CASE r.id \in newer[j]
      BY <2>1, <2>3
    <2>4. CASE r.id \notin newer[j]
      BY <2>1, <2>2, <2>4, RowWithNewer
    <2> QED
      BY <2>3, <2>4
  <1>2. /\ new \in RowType /\ new.id = row.id /\ new.kind = row.kind /\ new.named = row.named
        /\ new.state = row.state /\ new.newer = newer[j]
    BY RowWithNewer DEF Types
  <1>3. Placed(j, row) = {Behind(r) : r \in rows} \cup {new}
    BY DEF Placed
  <1> HIDE DEF Behind, new
  <1>4. ASSUME NEW x \in Placed(j, row) PROVE x = new \/ \E r \in rows : x = Behind(r)
    BY <1>3
  <1>5. new \in Placed(j, row) /\ \A r \in rows : Behind(r) \in Placed(j, row)
    BY <1>3
  <1>6. Placed(j, row) \subseteq RowType
    BY ZenonT(60), <1>1, <1>2, <1>4
  <1>7. ASSUME NEW x \in Placed(j, row)
        PROVE  \/ /\ x.id = row.id /\ x.kind = row.kind /\ x.named = row.named /\ x.state = row.state
                  /\ x.newer = newer[j]
               \/ \E r \in rows : /\ x.id = r.id /\ x.kind = r.kind /\ x.named = r.named /\ x.state = r.state
                                  /\ x.newer = Later(r)
    <2>1. CASE x = new
      BY <1>2, <2>1
    <2>2. ASSUME NEW r \in rows, x = Behind(r)
          PROVE  /\ x.id = r.id /\ x.kind = r.kind /\ x.named = r.named /\ x.state = r.state
                 /\ x.newer = Later(r)
      BY <1>1, <2>2
    <2> QED
      BY <1>4, <2>1, <2>2
  <1>8. IdsOf(Placed(j, row)) = IdsOf(rows) \cup {row.id}
    <2>1. ASSUME NEW x \in Placed(j, row) PROVE x.id \in IdsOf(rows) \cup {row.id}
      BY <1>7 DEF IdsOf
    <2>2. \A r \in rows : r.id \in IdsOf(Placed(j, row))
      BY <1>1, <1>5 DEF IdsOf
    <2>3. row.id \in IdsOf(Placed(j, row))
      BY <1>2, <1>5 DEF IdsOf
    <2> QED
      BY <2>1, <2>2, <2>3 DEF IdsOf
  <1> QED
    BY <1>1, <1>2, <1>5, <1>6, <1>7, <1>8

LEMMA PlacedRows ==
    ASSUME Types, NEW j \in Jobs, NEW row \in RowType, NEW x \in Placed(j, row)
    PROVE  \/ x.id = row.id /\ x.kind = row.kind /\ x.named = row.named /\ x.state = row.state
           \/ \E r \in rows : x.id = r.id /\ x.kind = r.kind /\ x.named = r.named /\ x.state = r.state
  <1> DEFINE New(y) == /\ y.id = row.id /\ y.kind = row.kind /\ y.named = row.named /\ y.state = row.state
                       /\ y.newer = newer[j]
             Old(y, r) == /\ y.id = r.id /\ y.kind = r.kind /\ y.named = r.named /\ y.state = r.state
                          /\ y.newer = IF r.id \in newer[j] THEN r.newer ELSE r.newer \cup {row.id}
  <1>1. \A y \in Placed(j, row) : New(y) \/ \E r \in rows : Old(y, r)
    BY PlacedFacts
  <1>2. CASE New(x)
    BY <1>2
  <1>3. ASSUME NEW r \in rows, Old(x, r)
        PROVE  x.id = r.id /\ x.kind = r.kind /\ x.named = r.named /\ x.state = r.state
    BY <1>3
  <1> QED
    BY <1>1, <1>2, <1>3

-----------------------------------------------------------------------------
(* The jobs: what each step makes of one.                                  *)

LEMMA JobFields ==
    ASSUME NEW f \in JobType
    PROVE  /\ f.at \in {"rest", "waiting", "deciding", "pruning", "answering"}
           /\ f.in \in Instances \cup {NoRow} /\ f.kind \in Kinds \cup {NoRow}
           /\ f.newest \in Ids \cup {NoRow} /\ f.due \in BOOLEAN /\ f.mine \in Ids \cup {NoRow}
           /\ f.asked \subseteq Edits
  BY DEF JobType

LEMMA RestingIsJob ==
    /\ Resting \in JobType /\ Resting.at = "rest" /\ Resting.newest = NoRow /\ Resting.mine = NoRow
    /\ Resting.in = NoRow
  BY DEF Resting, JobType

LEMMA OneJob ==
    ASSUME Types, NEW j \in Jobs, NEW f \in JobType, job' = [job EXCEPT ![j] = f]
    PROVE  /\ job' \in [Jobs -> JobType] /\ job'[j] = f
           /\ \A k \in Jobs : k # j => job'[k] = job[k]
  BY DEF Types

LEMMA JobWith ==
    ASSUME NEW f \in JobType, NEW n \in Ids \cup {NoRow}, NEW d \in BOOLEAN,
           NEW a \in {"rest", "waiting", "deciding", "pruning", "answering"}
    PROVE  /\ [f EXCEPT !.at = a, !.newest = n, !.due = d] \in JobType
           /\ [f EXCEPT !.at = a, !.mine = n, !.newest = NoRow] \in JobType
           /\ [f EXCEPT !.at = a, !.mine = n, !.newest = NoRow, !.due = TRUE] \in JobType
  <1>1. [f EXCEPT !.at = a, !.newest = n, !.due = d] \in JobType
    BY DEF JobType
  <1>2. [f EXCEPT !.at = a, !.mine = n, !.newest = NoRow] \in JobType
    BY DEF JobType
  <1>3. [f EXCEPT !.at = a, !.mine = n, !.newest = NoRow, !.due = TRUE] \in JobType
    BY DEF JobType
  <1> QED
    BY <1>1, <1>2, <1>3

LEMMA MakeJob ==
    ASSUME Types, NEW j \in Jobs, NEW i \in Instances, NEW k \in Kinds, NEW files \in SUBSET Edits,
           Make(j, i, k, files)
    PROVE  /\ job' \in [Jobs -> JobType] /\ \A o \in Jobs : o # j => job'[o] = job[o]
           /\ job'[j].at = "waiting" /\ job'[j].in = i /\ job'[j].kind = k /\ job'[j].newest = NoRow
           /\ job'[j].mine = NoRow /\ job'[j].asked = files /\ job'[j].due = FALSE
           /\ earlier' = [earlier EXCEPT ![j] = {o \in Jobs : Open(o)}]
  <1> DEFINE f == [Resting EXCEPT !.at = "waiting", !.in = i, !.kind = k, !.asked = files]
  <1>1. job' = [job EXCEPT ![j] = f] /\ earlier' = [earlier EXCEPT ![j] = {o \in Jobs : Open(o)}]
    BY DEF Make
  <1>2. f \in JobType
    BY DEF JobType, Resting
  <1>3. /\ f.at = "waiting" /\ f.in = i /\ f.kind = k /\ f.newest = NoRow
        /\ f.mine = NoRow /\ f.asked = files /\ f.due = FALSE
    BY DEF Resting
  <1> HIDE DEF f
  <1> QED
    BY <1>1, <1>2, <1>3, OneJob

LEMMA LockJob ==
    ASSUME Types, NEW j \in Jobs, Lock(j)
    PROVE  /\ job' \in [Jobs -> JobType] /\ \A o \in Jobs : o # j => job'[o] = job[o]
           /\ job'[j].at = "deciding" /\ job'[j].in = job[j].in /\ job'[j].kind = job[j].kind
           /\ job'[j].mine = job[j].mine /\ job'[j].asked = job[j].asked
           /\ job'[j].newest \in Newest
           /\ job'[j].due = NeedsCompare(job[j].kind, job'[j].newest, aged)
  <1>1. PICK latest \in Newest : job' = [job EXCEPT ![j].at = "deciding", ![j].newest = latest,
                            ![j].due = NeedsCompare(job[j].kind, latest, aged)]
    BY DEF Lock
  <1>2. latest \in Ids \cup {NoRow}
    BY RowFields DEF Newest, Types
  <1> DEFINE b == NeedsCompare(job[j].kind, latest, aged)
  <1>3. b \in BOOLEAN
    BY DEF NeedsCompare, Types
  <1>4. job' = [job EXCEPT ![j].at = "deciding", ![j].newest = latest, ![j].due = b]
    BY <1>1
  <1> HIDE DEF b
  <1>5. job' \in [Jobs -> JobType]
    <2> DEFINE f == [job[j] EXCEPT !.at = "deciding", !.newest = latest, !.due = b]
    <2>1. job' = [job EXCEPT ![j] = f]
      BY <1>4
    <2>2. f \in JobType
      BY <1>2, <1>3, JobWith DEF Types
    <2> HIDE DEF f
    <2> QED
      BY <2>1, <2>2 DEF Types
  <1>6. /\ \A o \in Jobs : o # j => job'[o] = job[o]
        /\ job'[j].at = "deciding" /\ job'[j].in = job[j].in /\ job'[j].kind = job[j].kind
        /\ job'[j].mine = job[j].mine /\ job'[j].asked = job[j].asked
        /\ job'[j].newest = latest /\ job'[j].due = b
    BY <1>4 DEF Types, JobType
  <1> QED
    BY <1>5, <1>6 DEF b

LEMMA DeclineJob ==
    ASSUME Types, NEW j \in Jobs, Decline(j)
    PROVE  /\ job' \in [Jobs -> JobType] /\ \A o \in Jobs : o # j => job'[o] = job[o]
           /\ job'[j].at = "answering" /\ job'[j].in = job[j].in /\ job'[j].kind = job[j].kind
           /\ job'[j].mine = job[j].newest /\ job'[j].asked = job[j].asked
           /\ job'[j].newest = NoRow /\ job'[j].due = job[j].due
  <1> DEFINE f == [job[j] EXCEPT !.at = "answering", !.mine = job[j].newest, !.newest = NoRow]
  <1>1. job' = [job EXCEPT ![j] = f]
    BY DEF Decline
  <1>2. f \in JobType
    BY JobFields, JobWith DEF Types
  <1> HIDE DEF f
  <1>3. job' \in [Jobs -> JobType]
    BY <1>1, <1>2 DEF Types
  <1>4. \A o \in Jobs : o # j => job'[o] = job[o]
    BY DEF Decline, Types, JobType
  <1>5. /\ job'[j].at = "answering" /\ job'[j].in = job[j].in /\ job'[j].kind = job[j].kind
        /\ job'[j].mine = job[j].newest /\ job'[j].asked = job[j].asked
        /\ job'[j].newest = NoRow /\ job'[j].due = job[j].due
    BY DEF Decline, Types, JobType
  <1> QED
    BY <1>3, <1>4, <1>5

LEMMA InsertJob ==
    ASSUME Types, NEW j \in Jobs, Insert(j), job[j].in \in Instances, job[j].kind \in Kinds
    PROVE  /\ job' \in [Jobs -> JobType] /\ \A o \in Jobs : o # j => job'[o] = job[o]
           /\ job'[j].at = "pruning" /\ job'[j].in = job[j].in /\ job'[j].kind = job[j].kind
           /\ job'[j].asked = job[j].asked /\ job'[j].newest = NoRow /\ job'[j].due = TRUE
           /\ fresh' \in RowType /\ fresh' # NoRow /\ fresh'.id = job'[j].mine /\ fresh'.id \in FreeIds
           /\ fresh'.state = Files(j) /\ fresh'.named = ~Automatic(job[j].kind)
           /\ fresh'.kind = IF Automatic(job[j].kind) THEN "auto" ELSE job[j].kind
  <1> DEFINE kd == IF Automatic(job[j].kind) THEN "auto" ELSE job[j].kind
             nm == ~Automatic(job[j].kind)
             st == Files(j)
  <1>1. PICK id \in FreeIds :
         /\ fresh' = [id |-> id, kind |-> kd, named |-> nm, state |-> st, newer |-> {}]
         /\ job' = [job EXCEPT ![j].at = "pruning", ![j].mine = id, ![j].newest = NoRow, ![j].due = TRUE]
    BY DEF Insert
  <1>2. id \in Ids
    BY DEF FreeIds
  <1>3. kd \in {"auto", "manual", "before"} /\ nm \in BOOLEAN /\ st \in SUBSET Edits
    BY DEF Automatic, Kinds, Files, Types
  <1> HIDE DEF kd, nm, st
  <1>4. fresh' \in RowType /\ fresh'.id = id /\ fresh'.kind = kd /\ fresh'.named = nm /\ fresh'.state = st
    BY <1>1, <1>2, <1>3 DEF RowType
  <1>5. fresh' # NoRow
    BY <1>4
  <1>6. job' \in [Jobs -> JobType]
    <2> DEFINE f == [job[j] EXCEPT !.at = "pruning", !.mine = id, !.newest = NoRow, !.due = TRUE]
    <2>1. job' = [job EXCEPT ![j] = f]
      BY <1>1
    <2>2. f \in JobType
      BY <1>2, JobWith DEF Types
    <2> HIDE DEF f
    <2> QED
      BY <2>1, <2>2 DEF Types
  <1>7. \A o \in Jobs : o # j => job'[o] = job[o]
    BY <1>1 DEF Types
  <1>8. /\ job'[j].at = "pruning" /\ job'[j].in = job[j].in /\ job'[j].kind = job[j].kind
        /\ job'[j].asked = job[j].asked /\ job'[j].newest = NoRow /\ job'[j].due = TRUE
        /\ job'[j].mine = id
    BY <1>1 DEF Types, JobType
  <1> QED
    BY <1>4, <1>5, <1>6, <1>7, <1>8 DEF kd, nm, st

LEMMA CommitJob ==
    ASSUME Types, NEW j \in Jobs, Commit(j)
    PROVE  /\ job' \in [Jobs -> JobType] /\ \A o \in Jobs : o # j => job'[o] = job[o]
           /\ job'[j].at = "answering" /\ job'[j].in = job[j].in /\ job'[j].kind = job[j].kind
           /\ job'[j].mine = job[j].mine /\ job'[j].asked = job[j].asked
           /\ job'[j].newest = job[j].newest /\ job'[j].due = job[j].due
  <1> DEFINE f == [job[j] EXCEPT !.at = "answering"]
  <1>1. job' \in [Jobs -> JobType]
    <2>1. job' = [job EXCEPT ![j] = f]
      BY DEF Commit
    <2>2. f \in JobType
      BY SMTT(30) DEF Types, JobType
    <2> HIDE DEF f
    <2> QED
      BY <2>1, <2>2 DEF Types
  <1>2. \A o \in Jobs : o # j => job'[o] = job[o]
    BY DEF Commit, Types, JobType
  <1>3. /\ job'[j].at = "answering" /\ job'[j].in = job[j].in /\ job'[j].kind = job[j].kind
        /\ job'[j].mine = job[j].mine /\ job'[j].asked = job[j].asked
        /\ job'[j].newest = job[j].newest /\ job'[j].due = job[j].due
    BY DEF Commit, Types, JobType
  <1> QED
    BY <1>1, <1>2, <1>3

LEMMA RestJob ==
    ASSUME Types, NEW j \in Jobs, job' = [job EXCEPT ![j] = Resting]
    PROVE  /\ job' \in [Jobs -> JobType] /\ job'[j] = Resting
           /\ \A o \in Jobs : o # j => job'[o] = job[o]
  BY RestingIsJob, OneJob

LEMMA AbandonJobs ==
    ASSUME Types, NEW dead \in SUBSET Jobs, Abandon(dead)
    PROVE  /\ job' \in [Jobs -> JobType]
           /\ \A o \in Jobs : job'[o] = IF o \in dead THEN Resting ELSE job[o]
  BY RestingIsJob DEF Types, Abandon

-----------------------------------------------------------------------------
(* The invariant, and what keeps its parts when nothing they name moves.   *)

Inv == /\ Types /\ Turns /\ JobOrder /\ RowOrder
       /\ JobsInv /\ FreshInv /\ SparedInv /\ SpacedInv /\ SeenInv /\ LooksInv /\ AnswerInv

LEMMA InitInv == Init => Inv
  <1> SUFFICES ASSUME Init PROVE Inv
    OBVIOUS
  <1>1. \A j \in Jobs : job[j] = Resting
    BY DEF Init
  <1>2. Types
    <2>1. job \in [Jobs -> JobType]
      BY RestingIsJob DEF Init
    <2>2. loads \in 0..MaxLoads /\ mishaps \in 0..MaxMishaps
      BY DEF Init
    <2> QED
      BY <2>1, <2>2 DEF Init, Types
  <1>3. Turns /\ JobOrder /\ RowOrder
    BY <1>1, RestingIsJob DEF Init, Turns, JobOrder, RowOrder, Open
  <1>4. JobsInv /\ FreshInv /\ SparedInv /\ SpacedInv
    BY <1>1, RestingIsJob DEF Init, JobsInv, FreshInv, SparedInv, SpacedInv, Running, Jobs
  <1>5. SeenInv /\ LooksInv /\ AnswerInv
    BY <1>1, RestingIsJob DEF Init, SeenInv, LooksInv, AnswerInv, Jobs
  <1> QED
    BY <1>2, <1>3, <1>4, <1>5 DEF Inv

LEMMA JobsUnmoved ==
    ASSUME Turns, JobOrder, JobsInv, UNCHANGED <<job, fresh, holder, earlier, asks>>
    PROVE  Turns' /\ JobOrder' /\ JobsInv'
  BY DEF Turns, JobOrder, JobsInv, Open, Running, Automatic

LEMMA TableUnmoved ==
    ASSUME RowOrder, FreshInv, SparedInv, SpacedInv,
           UNCHANGED <<rows, aged, fresh, gone, spared, newer, job>>
    PROVE  RowOrder' /\ FreshInv' /\ SparedInv' /\ SpacedInv'
  BY DEF RowOrder, FreshInv, SparedInv, SpacedInv, IdsOf, Automatic

\* A job that runs is in an instance.
LEMMA RunsSomewhere ==
    ASSUME JobsInv, NEW j \in Jobs, Running(j)
    PROVE  /\ job[j].in \in Instances /\ job[j].kind \in Kinds
           /\ j \in Instances => job[j].in = j /\ Automatic(job[j].kind)
           /\ j \in Asks => job[j].kind \in {"manual", "before"}
  BY DEF JobsInv, Jobs, Automatic, Kinds

-----------------------------------------------------------------------------
(* Documents.                                                              *)

LEMMA DocsGrow ==
    ASSUME Inv, \A i \in Instances : doc[i] \subseteq doc'[i],
           UNCHANGED <<rows, fresh, job>>
    PROVE  /\ AnswerInv' /\ Made \subseteq Made'
           /\ \A r \in rows' : r.state \subseteq Made'
           /\ fresh' # NoRow => fresh'.state \subseteq Made'
  <1>1. Made \subseteq Made'
    BY DEF Made
  <1>2. AnswerInv'
    <2>1. \A j \in Asks : job[j].at \in {"waiting", "deciding"} => Files(j) \subseteq Files(j)'
      BY RunsSomewhere DEF Files, Running, Inv, Jobs
    <2> QED
      BY <2>1 DEF Inv, AnswerInv
  <1> QED
    BY <1>1, <1>2 DEF Inv, SeenInv

LEMMA EditInv ==
    ASSUME Inv, NEW i \in Instances, NEW e \in Edits, Edit(i, e)
    PROVE  Inv'
  <1>1. /\ UNCHANGED <<loaded, rows, aged, fresh, gone, spared, job, holder, earlier, newer, asks, loads, mishaps>>
        /\ \A k \in Instances : e \notin doc[k]
        /\ doc' = [doc EXCEPT ![i] = @ \cup {e}] /\ dirty' = dirty \cup {i}
        /\ unseen' = [unseen EXCEPT ![i] = @ \cup {e}]
    BY DEF Edit, pending, lock, bounds
  <1>2. Types'
    BY <1>1 DEF Inv, Types
  <1>3. Turns' /\ JobOrder' /\ JobsInv'
    BY <1>1, JobsUnmoved DEF Inv
  <1>4. RowOrder' /\ FreshInv' /\ SparedInv' /\ SpacedInv'
    BY <1>1, TableUnmoved DEF Inv
  <1>5. /\ doc'[i] = doc[i] \cup {e} /\ unseen'[i] = unseen[i] \cup {e}
        /\ \A k \in Instances : k # i => doc'[k] = doc[k] /\ unseen'[k] = unseen[k]
    BY <1>1 DEF Inv, Types
  <1>6. /\ AnswerInv'
        /\ \A r \in rows' : r.state \subseteq Made'
        /\ fresh' # NoRow => fresh'.state \subseteq Made'
    BY <1>1, <1>5, DocsGrow
  <1>7. SeenInv'
    <2>1. \A r \in rows : e \notin r.state
      BY <1>1 DEF Inv, SeenInv, Made
    <2>2. \A k \in Instances : unseen'[k] \subseteq doc'[k]
      BY <1>5 DEF Inv, SeenInv
    <2>3. \A k \in Instances : k \notin loaded' => unseen'[k] = {}
      BY <1>1, <1>5 DEF Inv, SeenInv, Edit
    <2>4. \A k \in Instances : \A r \in rows' : unseen'[k] \cap r.state = {}
      BY <1>1, <1>5, <2>1 DEF Inv, SeenInv
    <2> QED
      BY <1>6, <2>2, <2>3, <2>4 DEF SeenInv
  <1>8. LooksInv'
    BY <1>1, <1>5 DEF Inv, LooksInv, Running, Types
  <1> QED
    BY <1>2, <1>3, <1>4, <1>6, <1>7, <1>8 DEF Inv

LEMMA RelayInv ==
    ASSUME Inv, NEW i \in Instances, NEW k \in Instances, Relay(i, k)
    PROVE  Inv'
  <1>1. /\ UNCHANGED <<loaded, dirty, unseen, rows, aged, fresh, gone, spared, job, holder, earlier, newer, asks, loads, mishaps>>
        /\ doc' = [doc EXCEPT ![i] = @ \cup doc[k]]
    BY DEF Relay, pending, lock, bounds
  <1>2. Types'
    BY <1>1 DEF Inv, Types
  <1>3. Turns' /\ JobOrder' /\ JobsInv'
    BY <1>1, JobsUnmoved DEF Inv
  <1>4. RowOrder' /\ FreshInv' /\ SparedInv' /\ SpacedInv'
    BY <1>1, TableUnmoved DEF Inv
  <1>5. \A x \in Instances : doc[x] \subseteq doc'[x]
    BY <1>1 DEF Inv, Types
  <1>6. /\ AnswerInv'
        /\ \A r \in rows' : r.state \subseteq Made'
        /\ fresh' # NoRow => fresh'.state \subseteq Made'
    BY <1>1, <1>5, DocsGrow
  <1>7. SeenInv'
    BY <1>1, <1>5, <1>6 DEF Inv, SeenInv
  <1>8. LooksInv'
    BY <1>1 DEF Inv, LooksInv, Running
  <1> QED
    BY <1>2, <1>3, <1>4, <1>6, <1>7, <1>8 DEF Inv

LEMMA UnloadInv ==
    ASSUME Inv, NEW i \in Instances, Unload(i)
    PROVE  Inv'
  <1>1. /\ UNCHANGED <<doc, rows, aged, fresh, gone, spared, job, holder, earlier, newer, asks, loads, mishaps>>
        /\ loaded' = loaded \ {i} /\ dirty' = dirty \ {i} /\ unseen' = [unseen EXCEPT ![i] = {}]
    BY DEF Unload, pending, lock, bounds
  <1>2. Types'
    BY <1>1 DEF Inv, Types
  <1>3. Turns' /\ JobOrder' /\ JobsInv'
    BY <1>1, JobsUnmoved DEF Inv
  <1>4. RowOrder' /\ FreshInv' /\ SparedInv' /\ SpacedInv'
    BY <1>1, TableUnmoved DEF Inv
  <1>5. unseen'[i] = {} /\ \A k \in Instances : k # i => unseen'[k] = unseen[k]
    BY <1>1 DEF Inv, Types
  <1>6. AnswerInv'
    BY <1>1, DocsGrow
  <1>7. SeenInv'
    BY <1>1, <1>5 DEF Inv, SeenInv, Made
  <1>8. LooksInv'
    BY <1>1, <1>5 DEF Inv, LooksInv, Running, Types
  <1> QED
    BY <1>2, <1>3, <1>4, <1>6, <1>7, <1>8 DEF Inv

-----------------------------------------------------------------------------
(* Time and the API: the table without a row, or with a row's other name.  *)

LEMMA AgeInv ==
    ASSUME Inv, Age
    PROVE  Inv'
  <1>1. /\ UNCHANGED <<doc, loaded, dirty, unseen, rows, fresh, gone, spared, job, holder, earlier, newer, asks, loads, mishaps>>
        /\ aged' = TRUE
    BY DEF Age, document, pending, lock, bounds
  <1>2. Types'
    BY <1>1 DEF Inv, Types
  <1>3. Turns' /\ JobOrder' /\ JobsInv'
    BY <1>1, JobsUnmoved DEF Inv
  <1>4. RowOrder' /\ FreshInv' /\ SparedInv' /\ SpacedInv'
    BY <1>1 DEF Inv, RowOrder, FreshInv, SparedInv, SpacedInv, IdsOf, Automatic
  <1>5. AnswerInv'
    BY <1>1, DocsGrow
  <1>6. SeenInv' /\ LooksInv'
    BY <1>1 DEF Inv, SeenInv, Made, LooksInv, Running
  <1> QED
    BY <1>2, <1>3, <1>4, <1>5, <1>6 DEF Inv

\* Rows that stay keep their files, and no row comes.
LEMMA RowsShrink ==
    ASSUME Inv, UNCHANGED <<doc, loaded, dirty, unseen, fresh, gone, spared, job, holder, earlier, asks>>,
           \A x \in rows' : \E r \in rows : x.id = r.id /\ x.state = r.state,
           aged' = aged \/ rows' = {}
    PROVE  Turns' /\ JobOrder' /\ JobsInv' /\ FreshInv' /\ SparedInv' /\ SpacedInv' /\ SeenInv' /\ LooksInv'
           /\ AnswerInv' /\ IdsOf(rows') \subseteq IdsOf(rows)
  <1>1. IdsOf(rows') \subseteq IdsOf(rows)
    BY DEF IdsOf
  <1>2. Turns' /\ JobOrder' /\ JobsInv'
    BY JobsUnmoved DEF Inv
  <1>3. FreshInv'
    BY <1>1 DEF Inv, FreshInv
  <1>4. SparedInv'
    BY DEF Inv, SparedInv
  <1>5. SpacedInv'
    BY DEF Inv, SpacedInv, Automatic
  <1>6. SeenInv'
    BY DEF Inv, SeenInv, Made
  <1>7. LooksInv'
    BY DEF Inv, LooksInv, Running
  <1>8. AnswerInv'
    BY DEF Inv, AnswerInv, Files
  <1> QED
    BY <1>1, <1>2, <1>3, <1>4, <1>5, <1>6, <1>7, <1>8

LEMMA RenameInv ==
    ASSUME Inv, NEW id \in Ids, NEW named \in BOOLEAN, Rename(id, named)
    PROVE  Inv'
  <1> DEFINE New(r) == IF r.id = id THEN [r EXCEPT !.named = named] ELSE r
  <1>1. /\ UNCHANGED <<doc, loaded, dirty, unseen, aged, fresh, gone, spared, job, holder, earlier, newer, asks, loads>>
        /\ rows' = {New(r) : r \in rows} /\ mishaps < MaxMishaps /\ mishaps' = mishaps + 1
    BY DEF Rename, document, pending, lock
  <1>2. ASSUME NEW r \in rows
        PROVE  New(r) \in RowType /\ New(r).id = r.id /\ New(r).state = r.state /\ New(r).newer = r.newer
    <2>1. r \in RowType
      BY DEF Inv, Types
    <2> QED
      BY <2>1 DEF RowType
  <1> HIDE DEF New
  <1>3. \A x \in rows' : \E r \in rows : x = New(r)
    BY <1>1
  <1>4. Types'
    <2>1. rows' \subseteq RowType
      BY <1>2, <1>3
    <2>2. mishaps' \in 0..MaxMishaps
      BY <1>1 DEF Inv, Types
    <2> QED
      BY <1>1, <2>1, <2>2 DEF Inv, Types
  <1>5. /\ Turns' /\ JobOrder' /\ JobsInv' /\ FreshInv' /\ SparedInv' /\ SpacedInv' /\ SeenInv' /\ LooksInv'
        /\ AnswerInv'
    BY <1>1, <1>2, <1>3, RowsShrink
  <1>6. RowOrder'
    <2>1. IdsOf(rows') = IdsOf(rows)
      BY <1>1, <1>2 DEF IdsOf
    <2>2. \A j \in Jobs : newer'[j] \subseteq IdsOf(rows')
      BY <1>1, <2>1 DEF Inv, RowOrder
    <2>3. \A x \in rows' : x.newer \subseteq IdsOf(rows') \ {x.id}
      BY <1>2, <1>3, <2>1 DEF Inv, RowOrder
    <2>4. \A x, y \in rows' : x # y => x.id # y.id /\ ((x.id \in y.newer) # (y.id \in x.newer))
      <3> SUFFICES ASSUME NEW x \in rows', NEW y \in rows', x # y
                   PROVE  x.id # y.id /\ ((x.id \in y.newer) # (y.id \in x.newer))
        OBVIOUS
      <3>1. PICK r \in rows, s \in rows : x = New(r) /\ y = New(s)
        BY <1>3
      <3>2. r # s /\ r.id # s.id /\ ((r.id \in s.newer) # (s.id \in r.newer))
        BY <3>1 DEF Inv, RowOrder
      <3> QED
        BY <1>2, <3>1, <3>2
    <2> QED
      BY <2>2, <2>3, <2>4 DEF RowOrder
  <1> QED
    BY <1>4, <1>5, <1>6 DEF Inv

\* Rows that go leave the others in their order.
LEMMA WithoutOrder ==
    ASSUME NEW s \in SUBSET RowType, NEW ids,
           \A r, q \in s : r # q => r.id # q.id /\ ((r.id \in q.newer) # (q.id \in r.newer)),
           \A r \in s : r.newer \subseteq IdsOf(s) \ {r.id}
    PROVE  LET t == Without(s, ids) IN
           /\ \A r, q \in t : r # q => r.id # q.id /\ ((r.id \in q.newer) # (q.id \in r.newer))
           /\ \A r \in t : r.newer \subseteq IdsOf(t) \ {r.id}
  <1> DEFINE t == Without(s, ids)
             Same(x, r) == /\ r.id \notin ids /\ x.id = r.id /\ x.kind = r.kind /\ x.named = r.named
                           /\ x.state = r.state /\ x.newer = r.newer \ ids
  <1>1. /\ \A x \in t : x \in RowType /\ \E r \in s : Same(x, r)
        /\ IdsOf(t) = IdsOf(s) \ ids
    BY WithoutFacts
  <1>2. ASSUME NEW x \in t, NEW y \in t, x # y
        PROVE  x.id # y.id /\ ((x.id \in y.newer) # (y.id \in x.newer))
    <2>1. PICK r \in s : Same(x, r)
      BY <1>1
    <2>2. PICK q \in s : Same(y, q)
      BY <1>1
    <2>3. x \in RowType /\ y \in RowType
      BY <1>1
    <2>4. r # q
      <3> SUFFICES ASSUME r = q PROVE x = y
        BY <1>2
      <3>1. /\ x.id = y.id /\ x.kind = y.kind /\ x.named = y.named /\ x.state = y.state /\ x.newer = y.newer
        BY <2>1, <2>2
      <3>2. x = [id |-> x.id, kind |-> x.kind, named |-> x.named, state |-> x.state, newer |-> x.newer]
        BY <2>3, RowFields
      <3>3. y = [id |-> y.id, kind |-> y.kind, named |-> y.named, state |-> y.state, newer |-> y.newer]
        BY <2>3, RowFields
      <3> QED
        BY <3>1, <3>2, <3>3
    <2> QED
      BY <2>1, <2>2, <2>4
  <1>3. ASSUME NEW x \in t PROVE x.newer \subseteq IdsOf(t) \ {x.id}
    BY <1>1
  <1> QED
    BY <1>2, <1>3

LEMMA RemoveRowInv ==
    ASSUME Inv, NEW id \in Ids, RemoveRow(id)
    PROVE  Inv'
  <1>1. /\ UNCHANGED <<doc, loaded, dirty, unseen, fresh, gone, spared, job, holder, earlier, asks, loads>>
        /\ rows' = Without(rows, {id}) /\ mishaps < MaxMishaps /\ mishaps' = mishaps + 1
        /\ aged' = (aged /\ rows' # {}) /\ newer' = [j \in Jobs |-> newer[j] \ {id}]
    BY DEF RemoveRow, document, pending
  <1>2. /\ rows' \subseteq RowType /\ IdsOf(rows') = IdsOf(rows) \ {id}
        /\ \A x \in rows' : \E r \in rows : x.id = r.id /\ x.state = r.state
    <2>1. rows \in SUBSET RowType
      BY DEF Inv, Types
    <2> QED
      BY <1>1, <2>1, WithoutFacts
  <1>3. Types'
    <2>1. newer' \in [Jobs -> SUBSET Ids] /\ aged' \in BOOLEAN /\ mishaps' \in 0..MaxMishaps
      BY <1>1 DEF Inv, Types
    <2> QED
      BY <1>1, <1>2, <2>1 DEF Inv, Types
  <1>4. /\ Turns' /\ JobOrder' /\ JobsInv' /\ FreshInv' /\ SparedInv' /\ SpacedInv' /\ SeenInv' /\ LooksInv'
        /\ AnswerInv'
    <2>1. aged' = aged \/ rows' = {}
      BY <1>1 DEF Inv, Types
    <2> QED
      BY <1>1, <1>2, <2>1, RowsShrink
  <1>5. RowOrder'
    <2>1. \A j \in Jobs : newer'[j] \subseteq IdsOf(rows')
      BY <1>1, <1>2 DEF Inv, RowOrder
    <2>2. rows \in SUBSET RowType
      BY DEF Inv, Types
    <2>3. /\ \A r, s \in rows : r # s => r.id # s.id /\ ((r.id \in s.newer) # (s.id \in r.newer))
          /\ \A r \in rows : r.newer \subseteq IdsOf(rows) \ {r.id}
      BY DEF Inv, RowOrder
    <2>4. LET t == Without(rows, {id}) IN
          /\ \A r, s \in t : r # s => r.id # s.id /\ ((r.id \in s.newer) # (s.id \in r.newer))
          /\ \A r \in t : r.newer \subseteq IdsOf(t) \ {r.id}
      BY <2>2, <2>3, WithoutOrder
    <2>5. /\ \A r, s \in rows' : r # s => r.id # s.id /\ ((r.id \in s.newer) # (s.id \in r.newer))
          /\ \A r \in rows' : r.newer \subseteq IdsOf(rows') \ {r.id}
      BY <1>1, <2>4
    <2> QED
      BY <2>1, <2>5 DEF RowOrder
  <1> QED
    BY <1>3, <1>4, <1>5 DEF Inv

-----------------------------------------------------------------------------
(* Jobs that begin.                                                        *)

LEMMA MakeInv ==
    ASSUME Inv, NEW j \in Jobs, NEW i \in Instances, NEW k \in Kinds, NEW files \in SUBSET Edits,
           Make(j, i, k, files), ~Running(j),
           j \in Instances => i = j /\ Automatic(k),
           j \in Asks => k \in {"manual", "before"},
           asks' \subseteq asks, j \notin asks', files \subseteq doc'[i],
           \A x \in Instances : doc[x] \subseteq doc'[x],
           UNCHANGED <<rows, aged, fresh, gone, spared, holder, newer>>
    PROVE  /\ job' \in [Jobs -> JobType] /\ earlier' \in [Jobs -> SUBSET Jobs]
           /\ Turns' /\ JobOrder' /\ RowOrder'
           /\ JobsInv' /\ FreshInv' /\ SparedInv' /\ SpacedInv' /\ AnswerInv'
  <1>1. /\ job' \in [Jobs -> JobType] /\ \A o \in Jobs : o # j => job'[o] = job[o]
        /\ job'[j].at = "waiting" /\ job'[j].in = i /\ job'[j].kind = k /\ job'[j].newest = NoRow
        /\ job'[j].mine = NoRow /\ job'[j].asked = files /\ job'[j].due = FALSE
        /\ earlier' = [earlier EXCEPT ![j] = {o \in Jobs : Open(o)}]
    BY MakeJob DEF Inv
  <1>2. /\ earlier' \in [Jobs -> SUBSET Jobs] /\ earlier'[j] = {o \in Jobs : Open(o)}
        /\ \A o \in Jobs : o # j => earlier'[o] = earlier[o]
    BY <1>1 DEF Inv, Types
  <1>3. job[j].at = "rest"
    BY DEF Running
  <1>4. Turns'
    <2>1. holder # j
      BY <1>3 DEF Inv, Turns
    <2> QED
      BY <1>1, <1>3, <2>1 DEF Inv, Turns
  <1>5. JobOrder'
    <2>1. ~Open(j) /\ Open(j)' /\ \A o \in Jobs : o # j => (Open(o)' <=> Open(o))
      BY <1>1, <1>3 DEF Open
    <2>2. \A o \in Jobs : j \notin earlier[o]
      BY <2>1 DEF Inv, JobOrder
    <2>3. \A o \in Jobs : earlier'[o] \subseteq {x \in Jobs : Open(x)'} \ {o}
      BY <1>2, <2>1 DEF Inv, JobOrder
    <2>4. \A o, x \in Jobs : Open(o)' /\ Open(x)' /\ o # x => (o \in earlier'[x]) # (x \in earlier'[o])
      BY <1>2, <2>1, <2>2 DEF Inv, JobOrder
    <2>5. \A o \in Jobs : ~Open(o)' => earlier'[o] = {}
      BY <1>2, <2>1 DEF Inv, JobOrder
    <2> QED
      BY <2>3, <2>4, <2>5 DEF JobOrder, Open
  <1>6. RowOrder' /\ SparedInv'
    BY DEF Inv, RowOrder, SparedInv, IdsOf
  <1>7. JobsInv'
    <2>1. \A o \in Jobs : o # j => (Running(o)' <=> Running(o))
      BY <1>1 DEF Running
    <2> SUFFICES ASSUME NEW o \in Jobs
                 PROVE  /\ job'[o].at = "rest" => job'[o] = Resting
                        /\ o \in Instances /\ Running(o)' => job'[o].in = o /\ Automatic(job'[o].kind)
                        /\ o \in Asks /\ Running(o)' => job'[o].in \in Instances /\ job'[o].kind \in {"manual", "before"}
                        /\ job'[o].at \in {"waiting", "deciding"} => job'[o].mine = NoRow
                        /\ job'[o].at # "deciding" => job'[o].newest = NoRow
                        /\ o \in asks' => ~Running(o)'
      BY DEF JobsInv, Running, Automatic
    <2>2. CASE o = j
      BY <1>1, <2>2 DEF Running
    <2>3. CASE o # j
      BY <1>1, <2>1, <2>3 DEF Inv, JobsInv
    <2> QED
      BY <2>2, <2>3
  <1>8. FreshInv'
    <2>1. fresh # NoRow => fresh.id # NoRow
      BY RowFields DEF Inv, Types
    <2> QED
      BY <1>1, <1>3, <2>1 DEF Inv, FreshInv, IdsOf
  <1>9. SpacedInv'
    BY <1>1 DEF Inv, SpacedInv, Automatic
  <1>10. AnswerInv'
    <2>1. \A o \in Asks : o # j /\ job[o].at \in {"waiting", "deciding"} => Files(o) \subseteq Files(o)'
      BY <1>1, RunsSomewhere DEF Files, Running, Inv, Jobs
    <2>2. Files(j)' = doc'[i]
      BY <1>1 DEF Files
    <2> SUFFICES ASSUME NEW o \in Asks
                 PROVE  /\ job'[o].at \in {"waiting", "deciding"} => job'[o].asked \subseteq Files(o)'
                        /\ job'[o].at = "deciding" /\ job'[o].kind = "before" /\ job'[o].newest # NoRow => job'[o].due
                        /\ job'[o].at = "pruning" => job'[o].asked \cap Inserts \subseteq fresh'.state
                        /\ job'[o].at = "answering" =>
                             \A r \in rows' : r.id = job'[o].mine => job'[o].asked \cap Inserts \subseteq r.state
      BY DEF AnswerInv, Files
    <2>3. CASE o = j
      BY <1>1, <2>2, <2>3
    <2>4. CASE o # j
      BY <1>1, <2>1, <2>4 DEF Inv, AnswerInv, Jobs
    <2> QED
      BY <2>3, <2>4
  <1> QED
    BY <1>1, <1>2, <1>4, <1>5, <1>6, <1>7, <1>8, <1>9, <1>10

LEMMA LoadInv ==
    ASSUME Inv, NEW i \in Instances, Load(i)
    PROVE  Inv'
  <1>1. /\ UNCHANGED <<dirty, unseen, rows, aged, fresh, gone, spared, holder, newer, asks, mishaps>>
        /\ loads < MaxLoads /\ loads' = loads + 1 /\ loaded' = loaded \cup {i} /\ i \notin loaded
        /\ doc' = [doc EXCEPT ![i] = Made] /\ Make(i, i, "load", {})
        /\ \A j \in Jobs : job[j].in # i
    BY DEF Load, pending, Made
  <1>2. i \in Jobs /\ "load" \in Kinds /\ {} \in SUBSET Edits
    BY DEF Jobs, Kinds
  <1>3. ~Running(i)
    BY <1>1, <1>2, RunsSomewhere DEF Inv
  <1>4. \A x \in Instances : doc[x] \subseteq doc'[x]
    BY <1>1 DEF Inv, Types, Made
  <1>5. i \notin asks
    BY DEF Inv, Types
  <1>6. /\ job' \in [Jobs -> JobType] /\ earlier' \in [Jobs -> SUBSET Jobs]
        /\ Turns' /\ JobOrder' /\ RowOrder'
        /\ JobsInv' /\ FreshInv' /\ SparedInv' /\ SpacedInv' /\ AnswerInv'
    BY <1>1, <1>2, <1>3, <1>4, <1>5, MakeInv DEF Automatic
  <1>7. Types'
    <2>1. doc' \in [Instances -> SUBSET Edits]
      BY <1>1 DEF Inv, Types, Made
    <2>2. loads' \in 0..MaxLoads
      BY <1>1 DEF Inv, Types
    <2> QED
      BY <1>1, <1>6, <2>1, <2>2 DEF Inv, Types
  <1>8. SeenInv'
    <2>1. Made \subseteq Made'
      BY <1>4 DEF Made
    <2> QED
      BY <1>1, <1>4, <2>1 DEF Inv, SeenInv
  <1>9. LooksInv'
    <2>1. unseen[i] = {}
      BY <1>1 DEF Inv, SeenInv
    <2>2. \A o \in Instances : o # i => job'[o] = job[o]
      BY <1>1, <1>2, MakeJob DEF Inv, Jobs
    <2> QED
      BY <1>1, <2>1, <2>2 DEF Inv, LooksInv, Running, Types
  <1> QED
    BY <1>6, <1>7, <1>8, <1>9 DEF Inv

LEMMA TickInv ==
    ASSUME Inv, NEW i \in Instances, Tick(i)
    PROVE  Inv'
  <1>1. /\ UNCHANGED <<doc, loaded, unseen, rows, aged, fresh, gone, spared, holder, newer, asks, loads, mishaps>>
        /\ ~Running(i) /\ dirty' = dirty \ {i}
        /\ i \in loaded => Make(i, i, "tick", {})
        /\ i \notin loaded => UNCHANGED <<job, earlier>>
    BY DEF Tick, pending, bounds
  <1>2. i \in Jobs /\ "tick" \in Kinds /\ {} \in SUBSET Edits /\ i \notin asks
    BY DEF Jobs, Kinds, Inv, Types
  <1>3. SeenInv'
    BY <1>1 DEF Inv, SeenInv, Made
  <1>4. CASE i \in loaded
    <2>1. /\ job' \in [Jobs -> JobType] /\ earlier' \in [Jobs -> SUBSET Jobs]
          /\ Turns' /\ JobOrder' /\ RowOrder'
          /\ JobsInv' /\ FreshInv' /\ SparedInv' /\ SpacedInv' /\ AnswerInv'
      BY <1>1, <1>2, <1>4, MakeInv DEF Automatic
    <2>2. Types'
      BY <1>1, <2>1 DEF Inv, Types
    <2>3. LooksInv'
      <3>1. /\ job'[i].at = "waiting" /\ job'[i].kind = "tick"
            /\ \A o \in Instances : o # i => job'[o] = job[o]
        BY <1>1, <1>2, <1>4, MakeJob DEF Inv, Jobs
      <3> QED
        BY <1>1, <3>1 DEF Inv, LooksInv, Running, Types
    <2> QED
      BY <1>3, <2>1, <2>2, <2>3 DEF Inv
  <1>5. CASE i \notin loaded
    <2>1. Turns' /\ JobOrder' /\ JobsInv'
      BY <1>1, <1>5, JobsUnmoved DEF Inv
    <2>2. RowOrder' /\ FreshInv' /\ SparedInv' /\ SpacedInv'
      BY <1>1, <1>5, TableUnmoved DEF Inv
    <2>3. Types'
      BY <1>1, <1>5 DEF Inv, Types
    <2>4. AnswerInv'
      BY <1>1, <1>5, DocsGrow
    <2>5. LooksInv'
      BY <1>1, <1>5 DEF Inv, LooksInv, Running, Types
    <2> QED
      BY <1>3, <2>1, <2>2, <2>3, <2>4, <2>5 DEF Inv
  <1> QED
    BY <1>4, <1>5

LEMMA AskInv ==
    ASSUME Inv, NEW j \in Asks, NEW i \in Instances, NEW k \in {"manual", "before"}, Ask(j, i, k)
    PROVE  Inv'
  <1>1. /\ UNCHANGED <<doc, loaded, dirty, unseen, rows, aged, fresh, gone, spared, holder, newer, loads, mishaps>>
        /\ j \in asks /\ asks' = asks \ {j} /\ Make(j, i, k, doc[i])
    BY DEF Ask, document, pending
  <1>2. j \in Jobs /\ j \notin Instances /\ k \in Kinds /\ doc[i] \in SUBSET Edits
    BY DEF Jobs, Kinds, Inv, Types
  <1>3. ~Running(j)
    BY <1>1, <1>2 DEF Inv, JobsInv
  <1>4. /\ job' \in [Jobs -> JobType] /\ earlier' \in [Jobs -> SUBSET Jobs]
        /\ Turns' /\ JobOrder' /\ RowOrder'
        /\ JobsInv' /\ FreshInv' /\ SparedInv' /\ SpacedInv' /\ AnswerInv'
    BY <1>1, <1>2, <1>3, MakeInv
  <1>5. Types'
    BY <1>1, <1>4 DEF Inv, Types
  <1>6. SeenInv'
    BY <1>1 DEF Inv, SeenInv, Made
  <1>7. LooksInv'
    <2>1. \A o \in Instances : job'[o] = job[o]
      <3>1. \A o \in Jobs : o # j => job'[o] = job[o]
        BY <1>1, <1>2, MakeJob DEF Inv
      <3> QED
        BY <1>2, <3>1 DEF Jobs
    <2> QED
      BY <1>1, <2>1 DEF Inv, LooksInv, Running, Types
  <1> QED
    BY <1>4, <1>5, <1>6, <1>7 DEF Inv

-----------------------------------------------------------------------------
(* One job goes on: the others' share of each part of the invariant.       *)

OnlyMoves(j) == \A o \in Jobs : o # j => job'[o] = job[o]

\* What AnswerInv says of a job.
Answers(j) ==
    /\ job[j].at \in {"waiting", "deciding"} => job[j].asked \subseteq Files(j)
    /\ job[j].at = "deciding" /\ job[j].kind = "before" /\ job[j].newest # NoRow => job[j].due
    /\ job[j].at = "pruning" => job[j].asked \cap Inserts \subseteq fresh.state
    /\ job[j].at = "answering" =>
         \A r \in rows : r.id = job[j].mine => job[j].asked \cap Inserts \subseteq r.state

LEMMA OthersJobs ==
    ASSUME JobsInv, NEW j \in Jobs, OnlyMoves(j), UNCHANGED asks,
           \/ job'[j] = Resting
           \/ /\ Running(j) /\ job'[j].at # "rest" /\ job'[j].in = job[j].in /\ job'[j].kind = job[j].kind
              /\ job'[j].at \in {"waiting", "deciding"} => job'[j].mine = NoRow
              /\ job'[j].at # "deciding" => job'[j].newest = NoRow
    PROVE  JobsInv'
  <1> SUFFICES ASSUME NEW o \in Jobs
               PROVE  /\ job'[o].at = "rest" => job'[o] = Resting
                      /\ o \in Instances /\ Running(o)' => job'[o].in = o /\ Automatic(job'[o].kind)
                      /\ o \in Asks /\ Running(o)' => job'[o].in \in Instances /\ job'[o].kind \in {"manual", "before"}
                      /\ job'[o].at \in {"waiting", "deciding"} => job'[o].mine = NoRow
                      /\ job'[o].at # "deciding" => job'[o].newest = NoRow
                      /\ o \in asks' => ~Running(o)'
    BY DEF JobsInv, Running, Automatic
  <1>1. CASE o = j
    <2>1. CASE job'[j] = Resting
      BY <1>1, <2>1, RestingIsJob DEF Running
    <2>2. CASE job'[j] # Resting
      BY <1>1, <2>2 DEF Running, JobsInv
    <2> QED
      BY <2>1, <2>2
  <1>2. CASE o # j
    <2>1. job'[o] = job[o] /\ (Running(o)' <=> Running(o))
      BY <1>2 DEF OnlyMoves, Running
    <2> QED
      BY <2>1 DEF JobsInv
  <1> QED
    BY <1>1, <1>2

LEMMA OthersAnswers ==
    ASSUME AnswerInv, NEW j \in Jobs, OnlyMoves(j), UNCHANGED <<doc, rows>>,
           \A o \in Jobs : o # j /\ job[o].at = "pruning" => fresh' = fresh,
           j \in Asks => Answers(j)'
    PROVE  AnswerInv'
  <1> SUFFICES ASSUME NEW o \in Asks PROVE Answers(o)'
    BY DEF AnswerInv, Answers, Files
  <1>1. CASE o # j
    BY <1>1 DEF AnswerInv, Answers, Files, OnlyMoves, Jobs
  <1> QED
    BY <1>1

LEMMA OthersLook ==
    ASSUME LooksInv, NEW j \in Jobs, OnlyMoves(j), UNCHANGED <<loaded, dirty, unseen>>, loaded \subseteq Instances,
           \A o \in Jobs : o # j /\ job[o].at = "pruning" => fresh' = fresh,
           j \in loaded /\ unseen[j] \cap Inserts # {} /\ Running(j) /\ job[j].kind = "tick" =>
               /\ Running(j)' /\ job'[j].kind = "tick"
               /\ job'[j].at = "pruning" => unseen[j] \cap Inserts \subseteq fresh'.state
               /\ job'[j].at = "answering" => ~job'[j].due
    PROVE  LooksInv'
  <1> SUFFICES ASSUME NEW i \in loaded, unseen[i] \cap Inserts # {}, i \notin dirty
               PROVE  /\ Running(i)' /\ job'[i].kind = "tick"
                      /\ job'[i].at = "pruning" => unseen[i] \cap Inserts \subseteq fresh'.state
                      /\ job'[i].at = "answering" => ~job'[i].due
    BY DEF LooksInv, Running
  <1>1. /\ Running(i) /\ job[i].kind = "tick"
        /\ job[i].at = "pruning" => unseen[i] \cap Inserts \subseteq fresh.state
        /\ job[i].at = "answering" => ~job[i].due
    BY DEF LooksInv
  <1>2. CASE i = j
    BY <1>1, <1>2
  <1>3. CASE i # j
    <2>1. i \in Jobs
      BY DEF Jobs
    <2>2. job'[i] = job[i] /\ (Running(i)' <=> Running(i))
      BY <1>3, <2>1 DEF OnlyMoves, Running
    <2> QED
      BY <1>1, <1>3, <2>1, <2>2
  <1> QED
    BY <1>2, <1>3

\* Which transactions are open does not change, nor what is known of them.
LEMMA SameOpen ==
    ASSUME JobOrder, UNCHANGED earlier, \A o \in Jobs : Open(o)' <=> Open(o)
    PROVE  JobOrder'
  BY DEF JobOrder, Open

\* Some transactions end.
LEMMA EndOrder ==
    ASSUME Types, JobOrder, NEW done \in SUBSET Jobs, End(done),
           \A o \in Jobs : Open(o)' <=> Open(o) /\ o \notin done
    PROVE  /\ JobOrder' /\ earlier' \in [Jobs -> SUBSET Jobs]
           /\ holder' = IF holder \in done THEN NoRow ELSE holder
  <1>1. earlier' = [j \in Jobs |-> IF j \in done THEN {} ELSE earlier[j] \ done]
    BY DEF End
  <1>2. earlier' \in [Jobs -> SUBSET Jobs] /\ holder' = IF holder \in done THEN NoRow ELSE holder
    BY <1>1 DEF End, Types
  <1>3. \A o \in Jobs : earlier'[o] \subseteq {x \in Jobs : Open(x)'} \ {o}
    BY <1>1 DEF JobOrder
  <1>4. \A o, x \in Jobs : Open(o)' /\ Open(x)' /\ o # x => (o \in earlier'[x]) # (x \in earlier'[o])
    BY <1>1 DEF JobOrder
  <1>5. \A o \in Jobs : ~Open(o)' => earlier'[o] = {}
    BY <1>1 DEF JobOrder
  <1> QED
    BY <1>2, <1>3, <1>4, <1>5 DEF JobOrder, Open

-----------------------------------------------------------------------------
(* A job gets the lock, and decides.                                       *)

LEMMA LockInv ==
    ASSUME Inv, NEW j \in Jobs, Lock(j)
    PROVE  Inv'
  <1>1. /\ UNCHANGED <<doc, loaded, dirty, unseen, rows, aged, fresh, gone, spared, earlier, newer, asks, loads, mishaps>>
        /\ job[j].at = "waiting" /\ holder = NoRow /\ holder' = j
    BY DEF Lock, document, pending, bounds
  <1>2. /\ job' \in [Jobs -> JobType] /\ OnlyMoves(j)
        /\ job'[j].at = "deciding" /\ job'[j].in = job[j].in /\ job'[j].kind = job[j].kind
        /\ job'[j].mine = job[j].mine /\ job'[j].asked = job[j].asked /\ job'[j].newest \in Newest
        /\ job'[j].due = NeedsCompare(job[j].kind, job'[j].newest, aged)
    BY LockJob DEF Inv, OnlyMoves
  <1>3. Types'
    BY <1>1, <1>2 DEF Inv, Types
  <1>4. /\ \A o \in Jobs : job[o].at \notin {"deciding", "pruning"}
        /\ fresh = NoRow
    BY <1>1, RestingIsJob DEF Inv, Turns, Jobs
  <1>5. Turns'
    BY <1>1, <1>2, <1>4 DEF Turns, OnlyMoves
  <1>6. JobOrder'
    BY <1>1, <1>2, SameOpen DEF Inv, Open, OnlyMoves
  <1>7. RowOrder' /\ FreshInv' /\ SparedInv' /\ SeenInv'
    BY <1>1, <1>4 DEF Inv, RowOrder, FreshInv, SparedInv, SeenInv, Made, IdsOf
  <1>8. JobsInv'
    BY <1>1, <1>2, OthersJobs DEF Inv, JobsInv, Running
  <1>9. job'[j].newest = NoRow => rows = {}
    BY <1>2, RowFields DEF Newest, Inv, Types
  <1>10. SpacedInv'
    <2>1. job'[j].due => job[j].kind # "manual" /\ job'[j].newest # NoRow /\ (Automatic(job[j].kind) => aged)
      BY <1>2 DEF NeedsCompare
    <2>2. \A o \in Jobs : job'[o].at = "deciding" => o = j
      BY <1>2, <1>4 DEF OnlyMoves
    <2> QED
      BY <1>1, <1>2, <1>4, <1>9, <2>1, <2>2 DEF SpacedInv, Automatic
  <1>11. LooksInv'
    BY <1>1, <1>2, OthersLook DEF Inv, Types, Running
  <1>12. AnswerInv'
    <2>1. j \in Asks => Answers(j)'
      <3> SUFFICES ASSUME j \in Asks
                   PROVE  /\ job'[j].asked \subseteq Files(j)'
                          /\ job'[j].kind = "before" /\ job'[j].newest # NoRow => job'[j].due
        BY <1>2 DEF Answers, Files
      <3>1. job[j].asked \subseteq Files(j) /\ Files(j)' = Files(j)
        BY <1>1, <1>2 DEF Inv, AnswerInv, Files
      <3>2. job'[j].kind = "before" /\ job'[j].newest # NoRow => job'[j].due
        BY <1>2 DEF NeedsCompare, Automatic
      <3> QED
        BY <1>2, <3>1, <3>2
    <2> QED
      BY <1>1, <1>2, <2>1, OthersAnswers DEF Inv
  <1> QED
    BY <1>3, <1>5, <1>6, <1>7, <1>8, <1>10, <1>11, <1>12 DEF Inv

LEMMA DeclineInv ==
    ASSUME Inv, NEW j \in Jobs, Decline(j)
    PROVE  Inv'
  <1>1. /\ UNCHANGED <<doc, loaded, dirty, unseen, rows, aged, fresh, gone, spared, asks, loads, mishaps>>
        /\ job[j].at = "deciding" /\ ~ShouldMake(j) /\ End({j}) /\ newer' = [newer EXCEPT ![j] = {}]
    BY DEF Decline, document, pending, bounds
  <1>2. /\ job' \in [Jobs -> JobType] /\ OnlyMoves(j)
        /\ job'[j].at = "answering" /\ job'[j].in = job[j].in /\ job'[j].kind = job[j].kind
        /\ job'[j].mine = job[j].newest /\ job'[j].asked = job[j].asked
        /\ job'[j].newest = NoRow /\ job'[j].due = job[j].due
    BY DeclineJob DEF Inv, OnlyMoves
  <1>3. /\ holder = j /\ fresh = NoRow
        /\ \A o \in Jobs : o # j => job[o].at \notin {"deciding", "pruning"}
    BY <1>1 DEF Inv, Turns
  <1>4. JobOrder' /\ earlier' \in [Jobs -> SUBSET Jobs] /\ holder' = NoRow
    <2>1. \A o \in Jobs : Open(o)' <=> Open(o) /\ o \notin {j}
      BY <1>2 DEF Open, OnlyMoves
    <2> QED
      BY <1>1, <1>3, <2>1, EndOrder DEF Inv
  <1>5. Types'
    BY <1>1, <1>2, <1>4 DEF Inv, Types
  <1>6. Turns'
    BY <1>1, <1>2, <1>3, <1>4 DEF Turns, OnlyMoves
  <1>7. RowOrder' /\ FreshInv' /\ SparedInv' /\ SeenInv'
    BY <1>1, <1>3 DEF Inv, Types, RowOrder, FreshInv, SparedInv, SeenInv, Made, IdsOf
  <1>8. JobsInv'
    BY <1>1, <1>2, OthersJobs DEF Inv, Running
  <1>9. SpacedInv'
    BY <1>1, <1>2, <1>3 DEF SpacedInv, OnlyMoves
  <1>10. /\ job[j].kind # "manual" /\ job[j].newest # NoRow
         /\ job[j].due => \E r \in rows : r.id = job[j].newest /\ SameVector(r.state, Files(j))
         /\ Automatic(job[j].kind) \/ job[j].due
    BY <1>1 DEF ShouldMake, Changed
  <1>11. LooksInv'
    <2>1. ASSUME j \in loaded, unseen[j] \cap Inserts # {}, job[j].kind = "tick"
          PROVE  ~job'[j].due
      <3> SUFFICES ASSUME job[j].due PROVE FALSE
        BY <1>2
      <3>1. PICK r \in rows : SameVector(r.state, Files(j))
        BY <1>10
      <3>2. j \in Instances /\ Files(j) = doc[j]
        BY <1>1, <2>1, RunsSomewhere DEF Inv, Types, Files, Running
      <3>3. unseen[j] \subseteq doc[j] /\ unseen[j] \cap r.state = {}
        BY <3>2 DEF Inv, SeenInv
      <3> QED
        BY <2>1, <3>1, <3>2, <3>3 DEF SameVector
    <2> QED
      BY <1>1, <1>2, <2>1, OthersLook DEF Inv, Types, Running
  <1>12. AnswerInv'
    <2>1. ASSUME j \in Asks, NEW r \in rows, r.id = job'[j].mine
          PROVE  job'[j].asked \cap Inserts \subseteq r.state
      <3>1. job[j].due
        BY <1>1, <1>10, <2>1, RunsSomewhere DEF Inv, Automatic, Running
      <3>2. PICK x \in rows : x.id = job[j].newest /\ SameVector(x.state, Files(j))
        BY <1>10, <3>1
      <3>3. x = r
        BY <1>2, <2>1, <3>2 DEF Inv, RowOrder
      <3>4. job[j].asked \subseteq Files(j)
        BY <1>1, <2>1 DEF Inv, AnswerInv
      <3> QED
        BY <1>2, <3>2, <3>3, <3>4 DEF SameVector
    <2>2. j \in Asks => Answers(j)'
      BY <1>1, <1>2, <2>1 DEF Answers
    <2> QED
      BY <1>1, <1>2, <2>2, OthersAnswers DEF Inv
  <1> QED
    BY <1>4, <1>5, <1>6, <1>7, <1>8, <1>9, <1>11, <1>12 DEF Inv

-----------------------------------------------------------------------------
(* A job inserts its row, and commits.                                     *)

LEMMA PrunableFacts ==
    ASSUME NEW s \in SUBSET RowType, NEW n \in Prunable(s)
    PROVE  \E x \in s : x.id = n /\ x.kind # "manual" /\ ~x.named
  BY DEF Prunable

LEMMA InsertInv ==
    ASSUME Inv, NEW j \in Jobs, Insert(j)
    PROVE  Inv'
  <1>1. /\ UNCHANGED <<doc, loaded, dirty, unseen, rows, aged, holder, earlier, newer, asks, loads, mishaps>>
        /\ job[j].at = "deciding" /\ ShouldMake(j) /\ gone' = Prunable(Placed(j, fresh'))
        /\ spared' = IdsOf({r \in rows : r.named \/ r.kind = "manual"})
    BY DEF Insert, document, lock, bounds
  <1>2. /\ job[j].in \in Instances /\ job[j].kind \in Kinds
        /\ j \in Instances => job[j].in = j
    BY <1>1, RunsSomewhere DEF Inv, Running
  <1>3. /\ job' \in [Jobs -> JobType] /\ OnlyMoves(j)
        /\ job'[j].at = "pruning" /\ job'[j].in = job[j].in /\ job'[j].kind = job[j].kind
        /\ job'[j].asked = job[j].asked /\ job'[j].newest = NoRow /\ job'[j].due = TRUE
        /\ fresh' \in RowType /\ fresh' # NoRow /\ fresh'.id = job'[j].mine /\ fresh'.id \in FreeIds
        /\ fresh'.state = Files(j) /\ fresh'.named = ~Automatic(job[j].kind)
        /\ fresh'.kind = IF Automatic(job[j].kind) THEN "auto" ELSE job[j].kind
    BY <1>2, InsertJob DEF Inv, OnlyMoves
  <1>4. /\ holder = j /\ fresh = NoRow
        /\ \A o \in Jobs : o # j => job[o].at \notin {"deciding", "pruning"}
    BY <1>1 DEF Inv, Turns
  <1>5. /\ rows \in SUBSET RowType /\ Placed(j, fresh') \in SUBSET RowType
        /\ \A x \in Placed(j, fresh') :
             \/ x.id = fresh'.id
             \/ \E r \in rows : x.id = r.id /\ x.kind = r.kind /\ x.named = r.named
    <2>1. rows \in SUBSET RowType
      BY DEF Inv, Types
    <2>2. Types /\ fresh' \in RowType
      BY <1>3 DEF Inv
    <2>3. Placed(j, fresh') \in SUBSET RowType
      BY <2>2, PlacedFacts
    <2>4. \A x \in Placed(j, fresh') :
             \/ x.id = fresh'.id
             \/ \E r \in rows : x.id = r.id /\ x.kind = r.kind /\ x.named = r.named
      BY <2>2, PlacedRows
    <2> QED
      BY <2>1, <2>3, <2>4
  <1>6. gone' \subseteq Ids /\ spared' \subseteq Ids
    <2>1. \A n \in gone' : \E x \in Placed(j, fresh') : x.id = n
      BY <1>1, <1>5, PrunableFacts
    <2>2. \A n \in spared' : \E x \in rows : x.id = n
      BY <1>1 DEF IdsOf
    <2> QED
      BY <1>5, <2>1, <2>2, RowFields
  <1>7. Types'
    BY <1>1, <1>3, <1>6 DEF Inv, Types
  <1>8. Turns'
    BY <1>1, <1>3, <1>4 DEF Turns, OnlyMoves
  <1>9. JobOrder'
    BY <1>1, <1>3, SameOpen DEF Inv, Open, OnlyMoves
  <1>10. RowOrder'
    BY <1>1 DEF Inv, RowOrder, IdsOf
  <1>11. JobsInv'
    BY <1>1, <1>3, OthersJobs DEF Inv, Running
  <1>12. FreshInv'
    BY <1>1, <1>3 DEF FreshInv, FreeIds, IdsOf, OnlyMoves
  <1>13. SparedInv'
    <2> SUFFICES ASSUME NEW n \in gone', n \in spared' PROVE FALSE
      BY DEF SparedInv
    <2>1. PICK x \in Placed(j, fresh') : x.id = n /\ x.kind # "manual" /\ ~x.named
      BY <1>1, <1>5, PrunableFacts
    <2>2. PICK r \in rows : r.id = n /\ (r.named \/ r.kind = "manual")
      BY <1>1 DEF IdsOf
    <2>3. n # fresh'.id
      BY <1>3, <2>2 DEF FreeIds, IdsOf
    <2>4. PICK q \in rows : x.id = q.id /\ x.kind = q.kind /\ x.named = q.named
      BY <1>5, <2>1, <2>3
    <2>5. q = r
      BY <2>1, <2>2, <2>4 DEF Inv, RowOrder
    <2> QED
      BY <2>1, <2>2, <2>4, <2>5
  <1>14. SpacedInv'
    <2>1. \A o \in Jobs : job'[o].at # "deciding"
      BY <1>3, <1>4 DEF OnlyMoves
    <2>2. ASSUME fresh'.kind = "auto" PROVE aged \/ rows = {}
      <3>1. Automatic(job[j].kind)
        BY <1>2, <1>3, <2>2 DEF Automatic, Kinds
      <3>2. job[j].newest = NoRow \/ job[j].due
        BY <1>1, <3>1 DEF ShouldMake, Automatic
      <3> QED
        BY <1>1, <3>1, <3>2 DEF Inv, SpacedInv
    <2> QED
      BY <1>1, <2>1, <2>2 DEF SpacedInv
  <1>15. SeenInv'
    <2>1. fresh'.state \subseteq Made
      BY <1>2, <1>3 DEF Files, Made
    <2> QED
      BY <1>1, <2>1 DEF Inv, SeenInv, Made
  <1>16. LooksInv'
    <2>1. j \in loaded => unseen[j] \subseteq fresh'.state
      BY <1>2, <1>3 DEF Inv, SeenInv, Files, Types
    <2> QED
      BY <1>1, <1>3, <1>4, <2>1, OthersLook DEF Inv, Types, Running
  <1>17. AnswerInv'
    <2>1. j \in Asks => Answers(j)'
      BY <1>1, <1>3 DEF Inv, AnswerInv, Answers
    <2> QED
      BY <1>1, <1>3, <1>4, <2>1, OthersAnswers DEF Inv
  <1> QED
    BY <1>7, <1>8, <1>9, <1>10, <1>11, <1>12, <1>13, <1>14, <1>15, <1>16, <1>17 DEF Inv

\* A new row stands in one place in the order, each row but one with its id.
LEMMA PlacedOrder ==
    ASSUME Inv, NEW j \in Jobs, NEW row \in RowType, row.id \notin IdsOf(rows)
    PROVE  LET t == Placed(j, row) IN
           /\ \A r, q \in t : r # q => r.id # q.id /\ ((r.id \in q.newer) # (q.id \in r.newer))
           /\ \A r \in t : r.newer \subseteq IdsOf(t) \ {r.id}
  <1> DEFINE t == Placed(j, row)
             New(x) == /\ x.id = row.id /\ x.kind = row.kind /\ x.named = row.named /\ x.state = row.state
                       /\ x.newer = newer[j]
             Old(x, r) == /\ x.id = r.id /\ x.kind = r.kind /\ x.named = r.named /\ x.state = r.state
                          /\ x.newer = IF r.id \in newer[j] THEN r.newer ELSE r.newer \cup {row.id}
  <1>1. /\ t \subseteq RowType /\ IdsOf(t) = IdsOf(rows) \cup {row.id}
        /\ \A x \in t : New(x) \/ \E r \in rows : Old(x, r)
    <2>1. Types
      BY DEF Inv
    <2>2. t \subseteq RowType /\ IdsOf(t) = IdsOf(rows) \cup {row.id}
      BY <2>1, PlacedFacts
    <2>3. \A x \in t : New(x) \/ \E r \in rows : Old(x, r)
      BY <2>1, PlacedFacts
    <2> QED
      BY <2>2, <2>3
  <1>2. /\ newer[j] \subseteq IdsOf(rows)
        /\ \A r, s \in rows : r # s => r.id # s.id /\ ((r.id \in s.newer) # (s.id \in r.newer))
        /\ \A r \in rows : r.newer \subseteq IdsOf(rows) \ {r.id}
    BY DEF Inv, RowOrder
  <1>3. \A r \in rows : r.id \in IdsOf(rows)
    BY DEF IdsOf
  <1>4. ASSUME NEW x \in t PROVE x.newer \subseteq IdsOf(t) \ {x.id}
    <2>1. CASE New(x)
      BY <1>1, <1>2, <2>1
    <2>2. CASE \E r \in rows : Old(x, r)
      BY <1>1, <1>2, <1>3, <2>2
    <2> QED
      BY <1>1, <2>1, <2>2
  <1>5. ASSUME NEW x \in t, NEW y \in t,
               /\ x.id = y.id /\ x.kind = y.kind /\ x.named = y.named /\ x.state = y.state /\ x.newer = y.newer
        PROVE  x = y
    <2>1. x = [id |-> x.id, kind |-> x.kind, named |-> x.named, state |-> x.state, newer |-> x.newer]
      BY <1>1, RowFields
    <2>2. y = [id |-> y.id, kind |-> y.kind, named |-> y.named, state |-> y.state, newer |-> y.newer]
      BY <1>1, RowFields
    <2> QED
      BY <1>5, <2>1, <2>2
  <1>6. ASSUME NEW x \in t, NEW y \in t, New(x), NEW r \in rows, Old(y, r)
        PROVE  x.id # y.id /\ ((x.id \in y.newer) # (y.id \in x.newer))
    BY <1>2, <1>3, <1>6
  <1>7. ASSUME NEW x \in t, NEW y \in t, NEW r \in rows, Old(x, r), NEW q \in rows, Old(y, q), r # q
        PROVE  x.id # y.id /\ ((x.id \in y.newer) # (y.id \in x.newer))
    BY <1>2, <1>3, <1>7
  <1>8. ASSUME NEW x \in t, NEW y \in t, x # y
        PROVE  x.id # y.id /\ ((x.id \in y.newer) # (y.id \in x.newer))
    <2>1. CASE New(x) /\ New(y)
      BY <1>5, <1>8, <2>1
    <2>2. CASE New(x) /\ \E r \in rows : Old(y, r)
      BY <1>6, <2>2
    <2>3. CASE New(y) /\ \E r \in rows : Old(x, r)
      BY <1>6, <2>3
    <2>4. ASSUME NEW r \in rows, Old(x, r), NEW q \in rows, Old(y, q)
          PROVE  x.id # y.id /\ ((x.id \in y.newer) # (y.id \in x.newer))
      <3>1. r # q
        BY <1>5, <1>8, <2>4
      <3> QED
        BY <1>7, <2>4, <3>1
    <2> QED
      BY ZenonT(60), <1>1, <2>1, <2>2, <2>3, <2>4
  <1> QED
    BY <1>4, <1>8

\* The table after a commit: its old rows and the new one, less those let go.
LEMMA CommitRows ==
    ASSUME Inv, NEW j \in Jobs, Commit(j)
    PROVE  /\ fresh \in RowType /\ fresh.id \notin IdsOf(rows) /\ fresh.id = job[j].mine /\ holder = j
           /\ rows' \subseteq RowType /\ IdsOf(rows') = (IdsOf(rows) \cup {fresh.id}) \ gone
           /\ \A x \in rows' :
                \/ x.id = fresh.id /\ x.kind = fresh.kind /\ x.named = fresh.named /\ x.state = fresh.state
                \/ \E r \in rows : x.id = r.id /\ x.kind = r.kind /\ x.named = r.named /\ x.state = r.state
           /\ \A r, q \in rows' : r # q => r.id # q.id /\ ((r.id \in q.newer) # (q.id \in r.newer))
           /\ \A r \in rows' : r.newer \subseteq IdsOf(rows') \ {r.id}
  <1> DEFINE t == Placed(j, fresh)
  <1>1. rows' = Without(t, gone) /\ job[j].at = "pruning" /\ Types
    BY DEF Commit, Inv
  <1>2. fresh # NoRow /\ fresh.id = job[j].mine /\ holder = j
    BY <1>1 DEF Inv, Turns
  <1>3. fresh \in RowType /\ fresh.id \notin IdsOf(rows)
    BY <1>2 DEF Inv, Types, FreshInv
  <1>4. t \in SUBSET RowType /\ IdsOf(t) = IdsOf(rows) \cup {fresh.id}
    BY <1>1, <1>3, PlacedFacts
  <1>5. /\ \A r, q \in t : r # q => r.id # q.id /\ ((r.id \in q.newer) # (q.id \in r.newer))
        /\ \A r \in t : r.newer \subseteq IdsOf(t) \ {r.id}
    BY <1>3, PlacedOrder
  <1>6. \A x \in t :
                \/ x.id = fresh.id /\ x.kind = fresh.kind /\ x.named = fresh.named /\ x.state = fresh.state
                \/ \E r \in rows : x.id = r.id /\ x.kind = r.kind /\ x.named = r.named /\ x.state = r.state
    BY <1>1, <1>3, PlacedRows
  <1> HIDE DEF t
  <1>7. /\ rows' \subseteq RowType /\ IdsOf(rows') = IdsOf(t) \ gone
        /\ \A x \in rows' : \E y \in t : x.id = y.id /\ x.kind = y.kind /\ x.named = y.named /\ x.state = y.state
    BY <1>1, <1>4, WithoutFacts
  <1>8. LET w == Without(t, gone) IN
        /\ \A r, q \in w : r # q => r.id # q.id /\ ((r.id \in q.newer) # (q.id \in r.newer))
        /\ \A r \in w : r.newer \subseteq IdsOf(w) \ {r.id}
    BY <1>4, <1>5, WithoutOrder
  <1>9. ASSUME NEW x \in rows'
        PROVE  \/ x.id = fresh.id /\ x.kind = fresh.kind /\ x.named = fresh.named /\ x.state = fresh.state
               \/ \E r \in rows : x.id = r.id /\ x.kind = r.kind /\ x.named = r.named /\ x.state = r.state
    <2>1. PICK y \in t : x.id = y.id /\ x.kind = y.kind /\ x.named = y.named /\ x.state = y.state
      BY <1>7
    <2> QED
      BY <1>6, <2>1
  <1>10. /\ \A r, q \in rows' : r # q => r.id # q.id /\ ((r.id \in q.newer) # (q.id \in r.newer))
         /\ \A r \in rows' : r.newer \subseteq IdsOf(rows') \ {r.id}
    BY <1>1, <1>8
  <1> QED
    BY <1>2, <1>3, <1>4, <1>7, <1>9, <1>10

LEMMA CommitInv ==
    ASSUME Inv, NEW j \in Jobs, Commit(j)
    PROVE  Inv'
  <1> DEFINE more(o) == IF o \in earlier[j] THEN {fresh.id} ELSE {}
  <1>1. /\ UNCHANGED <<doc, loaded, dirty, asks, loads, mishaps>>
        /\ job[j].at = "pruning" /\ End({j}) /\ fresh' = NoRow /\ gone' = {} /\ spared' = {}
        /\ aged' = (aged /\ newer[j] # {})
        /\ newer' = [o \in Jobs |-> IF o = j THEN {} ELSE (newer[o] \cup more(o)) \ gone]
        /\ unseen' = [i \in Instances |-> unseen[i] \ fresh.state]
    BY DEF Commit, document, bounds
  <1>2. /\ job' \in [Jobs -> JobType] /\ OnlyMoves(j)
        /\ job'[j].at = "answering" /\ job'[j].in = job[j].in /\ job'[j].kind = job[j].kind
        /\ job'[j].mine = job[j].mine /\ job'[j].asked = job[j].asked
        /\ job'[j].newest = job[j].newest /\ job'[j].due = job[j].due
    BY CommitJob DEF Inv, OnlyMoves
  <1>3. /\ fresh \in RowType /\ fresh.id \notin IdsOf(rows) /\ fresh.id = job[j].mine /\ holder = j
        /\ rows' \subseteq RowType /\ IdsOf(rows') = (IdsOf(rows) \cup {fresh.id}) \ gone
        /\ \A x \in rows' :
             \/ x.id = fresh.id /\ x.kind = fresh.kind /\ x.named = fresh.named /\ x.state = fresh.state
             \/ \E r \in rows : x.id = r.id /\ x.kind = r.kind /\ x.named = r.named /\ x.state = r.state
        /\ \A r, q \in rows' : r # q => r.id # q.id /\ ((r.id \in q.newer) # (q.id \in r.newer))
        /\ \A r \in rows' : r.newer \subseteq IdsOf(rows') \ {r.id}
    BY CommitRows
  <1>4. /\ fresh # NoRow /\ fresh.id \in Ids
        /\ \A o \in Jobs : o # j => job[o].at \notin {"deciding", "pruning"}
    BY <1>1, <1>3, RowFields DEF Inv, Turns
  <1>5. JobOrder' /\ earlier' \in [Jobs -> SUBSET Jobs] /\ holder' = NoRow
    <2>1. \A o \in Jobs : Open(o)' <=> Open(o) /\ o \notin {j}
      BY <1>2 DEF Open, OnlyMoves
    <2> QED
      BY <1>1, <1>3, <2>1, EndOrder DEF Inv
  <1>6. Types'
    <2>1. newer' \in [Jobs -> SUBSET Ids]
      BY <1>1, <1>4 DEF Inv, Types
    <2>2. aged' \in BOOLEAN
      BY <1>1
    <2>3. unseen' \in [Instances -> SUBSET Edits]
      BY <1>1 DEF Inv, Types
    <2> QED
      BY <1>1, <1>2, <1>3, <1>5, <2>1, <2>2, <2>3 DEF Inv, Types
  <1>7. Turns'
    BY <1>1, <1>2, <1>4, <1>5 DEF Turns, OnlyMoves
  <1>8. RowOrder'
    <2>1. \A o \in Jobs : newer'[o] \subseteq IdsOf(rows')
      BY <1>1, <1>3 DEF Inv, RowOrder
    <2> QED
      BY <1>3, <2>1 DEF RowOrder
  <1>9. JobsInv'
    <2>1. job[j].newest = NoRow
      BY <1>1 DEF Inv, JobsInv
    <2> QED
      BY <1>1, <1>2, <2>1, OthersJobs DEF Inv, Running
  <1>10. FreshInv' /\ SparedInv'
    BY <1>1 DEF FreshInv, SparedInv
  <1>11. SpacedInv'
    BY <1>1, <1>2, <1>4 DEF SpacedInv, OnlyMoves
  <1>12. SeenInv'
    <2>1. \A x \in rows' : x.state \subseteq Made /\ \A i \in Instances : unseen'[i] \cap x.state = {}
      <3> SUFFICES ASSUME NEW x \in rows'
                   PROVE  x.state \subseteq Made /\ \A i \in Instances : unseen'[i] \cap x.state = {}
        OBVIOUS
      <3>1. CASE x.state = fresh.state
        BY <1>1, <1>4, <3>1 DEF Inv, SeenInv
      <3>2. CASE \E r \in rows : x.state = r.state
        BY <1>1, <3>2 DEF Inv, SeenInv
      <3> QED
        BY <1>3, <3>1, <3>2
    <2>2. \A i \in Instances : unseen'[i] \subseteq doc'[i] /\ (i \notin loaded' => unseen'[i] = {})
      BY <1>1 DEF Inv, SeenInv
    <2> QED
      BY <1>1, <2>1, <2>2 DEF SeenInv, Made
  <1>13. LooksInv'
    <2> SUFFICES ASSUME NEW i \in loaded, unseen'[i] \cap Inserts # {}, i \notin dirty
                 PROVE  /\ Running(i)' /\ job'[i].kind = "tick" /\ job'[i].at # "pruning"
                        /\ job'[i].at = "answering" => ~job'[i].due
      BY <1>1 DEF LooksInv, Running
    <2>1. i \in Instances /\ i \in Jobs /\ unseen'[i] = unseen[i] \ fresh.state
      BY <1>1 DEF Inv, Types, Jobs
    <2>2. /\ Running(i) /\ job[i].kind = "tick"
          /\ job[i].at = "pruning" => unseen[i] \cap Inserts \subseteq fresh.state
          /\ job[i].at = "answering" => ~job[i].due
      BY <2>1 DEF Inv, LooksInv
    <2>3. i # j
      BY <1>1, <2>1, <2>2
    <2>4. job'[i] = job[i] /\ (Running(i)' <=> Running(i))
      BY <1>2, <2>1, <2>3 DEF OnlyMoves, Running
    <2> QED
      BY <1>4, <2>1, <2>2, <2>3, <2>4
  <1>14. AnswerInv'
    <2> SUFFICES ASSUME NEW o \in Asks PROVE Answers(o)'
      BY DEF AnswerInv, Answers, Files
    <2>1. o \in Jobs /\ job'[o].asked = job[o].asked /\ job'[o].mine = job[o].mine /\ job'[o].in = job[o].in
      BY <1>2 DEF Jobs, OnlyMoves
    <2>2. CASE o = j
      <3>1. job[o].asked \cap Inserts \subseteq fresh.state
        BY <1>1, <2>2 DEF Inv, AnswerInv
      <3>2. \A x \in rows' : x.id = job'[o].mine => x.state = fresh.state
        BY <1>3, <2>1, <2>2 DEF IdsOf
      <3> QED
        BY <1>2, <2>1, <2>2, <3>1, <3>2 DEF Answers
    <2>3. CASE o # j
      <3>1. job'[o] = job[o] /\ job[o].at \notin {"deciding", "pruning"}
        BY <1>2, <1>4, <2>1, <2>3 DEF OnlyMoves
      <3>2. job[o].at = "waiting" => job'[o].asked \subseteq Files(o)'
        BY <1>1, <3>1 DEF Inv, AnswerInv, Files
      <3>3. ASSUME job[o].at = "answering", NEW x \in rows', x.id = job'[o].mine
            PROVE  job'[o].asked \cap Inserts \subseteq x.state
        <4>1. job[o].mine # fresh.id
          BY <1>4, <2>1, <3>3 DEF Inv, FreshInv
        <4>2. PICK r \in rows : x.id = r.id /\ x.state = r.state
          BY <1>3, <2>1, <3>3, <4>1
        <4> QED
          BY <2>1, <3>3, <4>2 DEF Inv, AnswerInv
      <3> QED
        BY <3>1, <3>2, <3>3 DEF Answers
    <2> QED
      BY <2>2, <2>3
  <1> QED
    BY <1>5, <1>6, <1>7, <1>8, <1>9, <1>10, <1>11, <1>12, <1>13, <1>14 DEF Inv

-----------------------------------------------------------------------------
(* Jobs that end.                                                          *)

\* What the end of a job after its transaction leaves as it was.
LEMMA RestInv ==
    ASSUME Inv, NEW j \in Jobs, job[j].at = "answering", job' = [job EXCEPT ![j] = Resting],
           UNCHANGED <<doc, loaded, rows, aged, fresh, gone, spared, holder, earlier, newer, unseen, asks, loads, mishaps>>,
           dirty' \subseteq Instances
    PROVE  /\ Types' /\ Turns' /\ JobOrder' /\ RowOrder' /\ OnlyMoves(j)
           /\ JobsInv' /\ FreshInv' /\ SparedInv' /\ SpacedInv' /\ SeenInv' /\ AnswerInv'
  <1>1. job' \in [Jobs -> JobType] /\ job'[j] = Resting /\ OnlyMoves(j)
    BY RestJob DEF Inv, OnlyMoves
  <1>2. Types'
    BY <1>1 DEF Inv, Types
  <1>3. Turns'
    BY <1>1, RestingIsJob DEF Inv, Turns, OnlyMoves
  <1>4. JobOrder'
    <2>1. \A o \in Jobs : Open(o)' <=> Open(o)
      BY <1>1, RestingIsJob DEF Open, OnlyMoves
    <2> QED
      BY <2>1, SameOpen DEF Inv
  <1>5. RowOrder' /\ SparedInv' /\ SeenInv'
    BY DEF Inv, RowOrder, SparedInv, SeenInv, Made, IdsOf
  <1>6. JobsInv'
    BY <1>1, OthersJobs DEF Inv
  <1>7. FreshInv'
    <2>1. fresh # NoRow => fresh.id # NoRow
      BY RowFields DEF Inv, Types
    <2> QED
      BY <1>1, <2>1, RestingIsJob DEF Inv, FreshInv, IdsOf, OnlyMoves
  <1>8. SpacedInv'
    BY <1>1, RestingIsJob DEF Inv, SpacedInv, OnlyMoves
  <1>9. AnswerInv'
    <2>1. Answers(j)'
      BY <1>1, RestingIsJob DEF Answers
    <2> QED
      BY <1>1, <2>1, OthersAnswers DEF Inv
  <1> QED
    BY <1>1, <1>2, <1>3, <1>4, <1>5, <1>6, <1>7, <1>8, <1>9

LEMMA CheckedInv ==
    ASSUME Inv, NEW i \in Jobs, Checked(i)
    PROVE  Inv'
  <1>1. /\ UNCHANGED <<doc, loaded, rows, aged, fresh, gone, spared, holder, earlier, newer, unseen, asks, loads, mishaps>>
        /\ i \in Instances /\ job[i].at = "answering" /\ job' = [job EXCEPT ![i] = Resting]
        /\ dirty' = dirty \cup IF job[i].kind = "tick" /\ ~job[i].due THEN {i} ELSE {}
    BY DEF Checked, pending, lock, bounds
  <1>2. dirty' \subseteq Instances
    BY <1>1 DEF Inv, Types
  <1>3. /\ Types' /\ Turns' /\ JobOrder' /\ RowOrder' /\ OnlyMoves(i)
        /\ JobsInv' /\ FreshInv' /\ SparedInv' /\ SpacedInv' /\ SeenInv' /\ AnswerInv'
    BY <1>1, <1>2, RestInv
  <1>4. LooksInv'
    <2> SUFFICES ASSUME NEW k \in loaded, unseen[k] \cap Inserts # {}, k \notin dirty'
                 PROVE  /\ Running(k)' /\ job'[k].kind = "tick"
                        /\ job'[k].at = "pruning" => unseen[k] \cap Inserts \subseteq fresh.state
                        /\ job'[k].at = "answering" => ~job'[k].due
      BY <1>1 DEF LooksInv, Running
    <2>1. /\ Running(k) /\ job[k].kind = "tick"
          /\ job[k].at = "pruning" => unseen[k] \cap Inserts \subseteq fresh.state
          /\ job[k].at = "answering" => ~job[k].due
      BY <1>1 DEF Inv, LooksInv
    <2>2. k # i
      BY <1>1, <2>1
    <2>3. job'[k] = job[k] /\ (Running(k)' <=> Running(k))
      BY <1>3, <2>2 DEF OnlyMoves, Running, Inv, Types, Jobs
    <2> QED
      BY <2>1, <2>3
  <1> QED
    BY <1>3, <1>4 DEF Inv

LEMMA AnswerStepInv ==
    ASSUME Inv, NEW j \in Jobs, Answer(j)
    PROVE  Inv'
  <1>1. /\ UNCHANGED <<doc, loaded, rows, aged, fresh, gone, spared, holder, earlier, newer, unseen, asks, loads, mishaps>>
        /\ UNCHANGED dirty
        /\ j \in Asks /\ job[j].at = "answering" /\ job' = [job EXCEPT ![j] = Resting]
    BY DEF Answer, document, pending, lock, bounds
  <1>2. dirty' \subseteq Instances
    BY <1>1 DEF Inv, Types
  <1>3. /\ Types' /\ Turns' /\ JobOrder' /\ RowOrder' /\ OnlyMoves(j)
        /\ JobsInv' /\ FreshInv' /\ SparedInv' /\ SpacedInv' /\ SeenInv' /\ AnswerInv'
    BY <1>1, <1>2, RestInv
  <1>4. LooksInv'
    <2>1. j \notin loaded
      BY <1>1 DEF Inv, Types
    <2> QED
      BY <1>1, <1>3, <2>1, OthersLook DEF Inv, Types
  <1> QED
    BY <1>3, <1>4 DEF Inv

\* Transactions that are rolled back take what they had prepared along.
LEMMA AbandonInv ==
    ASSUME Inv, NEW dead \in SUBSET Jobs, Abandon(dead), UNCHANGED <<doc, rows, aged, asks>>
    PROVE  /\ job' \in [Jobs -> JobType] /\ earlier' \in [Jobs -> SUBSET Jobs] /\ newer' \in [Jobs -> SUBSET Ids]
           /\ fresh' \in RowType \cup {NoRow} /\ gone' \subseteq Ids /\ spared' \subseteq Ids
           /\ fresh' # NoRow => fresh' = fresh
           /\ \A o \in Jobs : job[o].at = "pruning" /\ o \notin dead => fresh' = fresh
           /\ \A o \in Jobs : job'[o] = IF o \in dead THEN Resting ELSE job[o]
           /\ Turns' /\ JobOrder' /\ RowOrder' /\ JobsInv' /\ FreshInv' /\ SparedInv' /\ SpacedInv' /\ AnswerInv'
  <1>1. /\ End(dead) /\ newer' = [j \in Jobs |-> IF j \in dead THEN {} ELSE newer[j]]
        /\ holder \in dead => fresh' = NoRow /\ gone' = {} /\ spared' = {}
        /\ holder \notin dead => UNCHANGED <<fresh, gone, spared>>
    BY DEF Abandon, pending
  <1>2. /\ job' \in [Jobs -> JobType] /\ \A o \in dead : job'[o] = Resting
        /\ \A o \in Jobs : o \notin dead => job'[o] = job[o]
        /\ \A o \in Jobs : job'[o] = IF o \in dead THEN Resting ELSE job[o]
    BY AbandonJobs DEF Inv
  <1>3. JobOrder' /\ earlier' \in [Jobs -> SUBSET Jobs] /\ holder' = IF holder \in dead THEN NoRow ELSE holder
    <2>1. \A o \in Jobs : Open(o)' <=> Open(o) /\ o \notin dead
      BY <1>2, RestingIsJob DEF Open
    <2> QED
      BY <1>1, <2>1, EndOrder DEF Inv
  <1>4. /\ newer' \in [Jobs -> SUBSET Ids] /\ fresh' \in RowType \cup {NoRow}
        /\ gone' \subseteq Ids /\ spared' \subseteq Ids /\ (fresh' # NoRow => fresh' = fresh)
    BY <1>1 DEF Inv, Types
  <1>5. \A o \in Jobs : job[o].at = "pruning" /\ o \notin dead => fresh' = fresh
    BY <1>1 DEF Inv, Turns
  <1>6. Turns'
    <2>1. NoRow \notin dead
      OBVIOUS
    <2>2. CASE holder \in dead
      BY <1>1, <1>2, <1>3, <2>2, RestingIsJob DEF Inv, Turns
    <2>3. CASE holder \notin dead
      BY <1>1, <1>2, <1>3, <2>3, RestingIsJob DEF Inv, Turns
    <2> QED
      BY <2>2, <2>3
  <1>7. RowOrder' /\ SparedInv'
    BY <1>1 DEF Inv, RowOrder, SparedInv, IdsOf
  <1>8. JobsInv'
    <2> SUFFICES ASSUME NEW o \in Jobs
                 PROVE  /\ job'[o].at = "rest" => job'[o] = Resting
                        /\ o \in Instances /\ Running(o)' => job'[o].in = o /\ Automatic(job'[o].kind)
                        /\ o \in Asks /\ Running(o)' => job'[o].in \in Instances /\ job'[o].kind \in {"manual", "before"}
                        /\ job'[o].at \in {"waiting", "deciding"} => job'[o].mine = NoRow
                        /\ job'[o].at # "deciding" => job'[o].newest = NoRow
                        /\ o \in asks' => ~Running(o)'
      BY DEF JobsInv, Running, Automatic
    <2>1. CASE o \in dead
      BY <1>2, <2>1, RestingIsJob DEF Running
    <2>2. CASE o \notin dead
      <3>1. job'[o] = job[o] /\ (Running(o)' <=> Running(o))
        BY <1>2, <2>2 DEF Running
      <3> QED
        BY <3>1 DEF Inv, JobsInv
    <2> QED
      BY <2>1, <2>2
  <1>9. FreshInv'
    <2>1. fresh # NoRow => fresh.id # NoRow
      BY RowFields DEF Inv, Types
    <2> QED
      BY <1>2, <1>4, <2>1, RestingIsJob DEF Inv, FreshInv, IdsOf
  <1>10. SpacedInv'
    BY <1>2, <1>4, RestingIsJob DEF Inv, SpacedInv, Automatic
  <1>11. AnswerInv'
    <2> SUFFICES ASSUME NEW o \in Asks PROVE Answers(o)'
      BY DEF AnswerInv, Answers, Files
    <2>1. CASE o \in dead
      BY <1>2, <2>1, RestingIsJob DEF Answers
    <2>2. CASE o \notin dead
      BY <1>2, <1>5, <2>2 DEF Inv, AnswerInv, Answers, Files, Jobs
    <2> QED
      BY <2>1, <2>2
  <1> QED
    BY <1>2, <1>3, <1>4, <1>5, <1>6, <1>7, <1>8, <1>9, <1>10, <1>11

LEMMA FailInv ==
    ASSUME Inv, NEW j \in Jobs, Fail(j)
    PROVE  Inv'
  <1>1. /\ UNCHANGED <<doc, loaded, rows, aged, unseen, asks, loads>>
        /\ Open(j) /\ mishaps < MaxMishaps /\ mishaps' = mishaps + 1 /\ Abandon({j})
        /\ dirty' = dirty \cup IF job[j].kind = "tick" THEN {j} ELSE {}
    BY DEF Fail
  <1>2. /\ job' \in [Jobs -> JobType] /\ earlier' \in [Jobs -> SUBSET Jobs] /\ newer' \in [Jobs -> SUBSET Ids]
        /\ fresh' \in RowType \cup {NoRow} /\ gone' \subseteq Ids /\ spared' \subseteq Ids
        /\ fresh' # NoRow => fresh' = fresh
        /\ \A o \in Jobs : job[o].at = "pruning" /\ o \notin {j} => fresh' = fresh
        /\ \A o \in Jobs : job'[o] = IF o \in {j} THEN Resting ELSE job[o]
        /\ Turns' /\ JobOrder' /\ RowOrder' /\ JobsInv' /\ FreshInv' /\ SparedInv' /\ SpacedInv' /\ AnswerInv'
    BY <1>1, AbandonInv
  <1>3. Types'
    <2>1. mishaps' \in 0..MaxMishaps
      BY <1>1 DEF Inv, Types
    <2>2. dirty' \subseteq Instances
      <3>1. job[j].kind = "tick" => j \in Instances
        BY <1>1, RunsSomewhere DEF Inv, Running, Open, Jobs
      <3> QED
        BY <1>1, <3>1 DEF Inv, Types
    <2> QED
      BY <1>1, <1>2, <2>1, <2>2 DEF Inv, Types
  <1>4. SeenInv'
    BY <1>1, <1>2 DEF Inv, SeenInv, Made
  <1>5. LooksInv'
    <2> SUFFICES ASSUME NEW k \in loaded, unseen[k] \cap Inserts # {}, k \notin dirty'
                 PROVE  /\ Running(k)' /\ job'[k].kind = "tick"
                        /\ job'[k].at = "pruning" => unseen[k] \cap Inserts \subseteq fresh'.state
                        /\ job'[k].at = "answering" => ~job'[k].due
      BY <1>1 DEF LooksInv, Running
    <2>1. /\ Running(k) /\ job[k].kind = "tick"
          /\ job[k].at = "pruning" => unseen[k] \cap Inserts \subseteq fresh.state
          /\ job[k].at = "answering" => ~job[k].due
      BY <1>1 DEF Inv, LooksInv
    <2>2. k # j /\ k \in Jobs
      BY <1>1, <2>1 DEF Inv, Types, Jobs
    <2>3. job'[k] = job[k] /\ (Running(k)' <=> Running(k))
      BY <1>2, <2>2 DEF Running
    <2> QED
      BY <1>2, <2>1, <2>2, <2>3
  <1> QED
    BY <1>2, <1>3, <1>4, <1>5 DEF Inv

LEMMA CrashInv ==
    ASSUME Inv, NEW i \in Instances, Crash(i)
    PROVE  Inv'
  <1> DEFINE dead == {j \in Jobs : job[j].in = i}
  <1>1. /\ UNCHANGED <<doc, rows, aged, asks, loads>>
        /\ mishaps < MaxMishaps /\ mishaps' = mishaps + 1 /\ Abandon(dead)
        /\ loaded' = loaded \ {i} /\ dirty' = dirty \ {i} /\ unseen' = [unseen EXCEPT ![i] = {}]
    BY DEF Crash
  <1>2. /\ job' \in [Jobs -> JobType] /\ earlier' \in [Jobs -> SUBSET Jobs] /\ newer' \in [Jobs -> SUBSET Ids]
        /\ fresh' \in RowType \cup {NoRow} /\ gone' \subseteq Ids /\ spared' \subseteq Ids
        /\ fresh' # NoRow => fresh' = fresh
        /\ \A o \in Jobs : job[o].at = "pruning" /\ o \notin dead => fresh' = fresh
        /\ \A o \in Jobs : job'[o] = IF o \in dead THEN Resting ELSE job[o]
        /\ Turns' /\ JobOrder' /\ RowOrder' /\ JobsInv' /\ FreshInv' /\ SparedInv' /\ SpacedInv' /\ AnswerInv'
    <2>1. dead \in SUBSET Jobs
      OBVIOUS
    <2> HIDE DEF dead
    <2> QED
      BY <1>1, <2>1, AbandonInv
  <1>3. unseen'[i] = {} /\ \A k \in Instances : k # i => unseen'[k] = unseen[k]
    BY <1>1 DEF Inv, Types
  <1>4. Types'
    <2>1. mishaps' \in 0..MaxMishaps
      BY <1>1 DEF Inv, Types
    <2> QED
      BY <1>1, <1>2, <2>1 DEF Inv, Types
  <1>5. SeenInv'
    BY <1>1, <1>2, <1>3 DEF Inv, SeenInv, Made
  <1>6. LooksInv'
    <2> SUFFICES ASSUME NEW k \in loaded', unseen'[k] \cap Inserts # {}, k \notin dirty'
                 PROVE  /\ Running(k)' /\ job'[k].kind = "tick"
                        /\ job'[k].at = "pruning" => unseen'[k] \cap Inserts \subseteq fresh'.state
                        /\ job'[k].at = "answering" => ~job'[k].due
      BY DEF LooksInv, Running
    <2>1. k # i /\ k \in Instances /\ k \in Jobs /\ k \in loaded /\ k \notin dirty /\ unseen'[k] = unseen[k]
      BY <1>1, <1>3 DEF Inv, Types, Jobs
    <2>2. /\ Running(k) /\ job[k].kind = "tick"
          /\ job[k].at = "pruning" => unseen[k] \cap Inserts \subseteq fresh.state
          /\ job[k].at = "answering" => ~job[k].due
      BY <2>1 DEF Inv, LooksInv
    <2>3. k \notin dead
      BY <2>1, <2>2, RunsSomewhere DEF Inv
    <2>4. job'[k] = job[k] /\ (Running(k)' <=> Running(k))
      BY <1>2, <2>1, <2>3 DEF Running
    <2> QED
      BY <1>2, <2>1, <2>2, <2>3, <2>4
  <1> QED
    BY <1>2, <1>4, <1>5, <1>6 DEF Inv

-----------------------------------------------------------------------------
(* The invariant holds, and what follows from it.                          *)

LEMMA StutterInv ==
    ASSUME Inv, UNCHANGED vars
    PROVE  Inv'
  <1>1. UNCHANGED <<doc, loaded, dirty, unseen, rows, aged, fresh, gone, spared, job, holder, earlier, newer, asks, loads, mishaps>>
    BY DEF vars, document, pending, lock, bounds
  <1>2. Types'
    BY <1>1 DEF Inv, Types
  <1>3. Turns' /\ JobOrder' /\ JobsInv'
    BY <1>1, JobsUnmoved DEF Inv
  <1>4. RowOrder' /\ FreshInv' /\ SparedInv' /\ SpacedInv'
    BY <1>1, TableUnmoved DEF Inv
  <1>5. AnswerInv'
    BY <1>1, DocsGrow
  <1>6. SeenInv' /\ LooksInv'
    BY <1>1 DEF Inv, SeenInv, Made, LooksInv, Running
  <1> QED
    BY <1>2, <1>3, <1>4, <1>5, <1>6 DEF Inv

LEMMA NextInv == Inv /\ [Next]_vars => Inv'
  <1> SUFFICES ASSUME Inv, [Next]_vars PROVE Inv'
    OBVIOUS
  <1>1. ASSUME NEW i \in Instances,
               \/ Load(i) \/ Unload(i) \/ Tick(i) \/ Crash(i)
               \/ \E e \in Edits : Edit(i, e)
               \/ \E k \in Instances : Relay(i, k)
               \/ \E j \in Asks, k \in {"manual", "before"} : Ask(j, i, k)
        PROVE  Inv'
    BY <1>1, LoadInv, UnloadInv, TickInv, CrashInv, EditInv, RelayInv, AskInv
  <1>2. ASSUME NEW j \in Jobs, Step(j) \/ Fail(j)
        PROVE  Inv'
    BY <1>2, LockInv, DeclineInv, InsertInv, CommitInv, CheckedInv, AnswerStepInv, FailInv DEF Step
  <1>3. ASSUME NEW id \in Ids, RemoveRow(id) \/ \E b \in BOOLEAN : Rename(id, b)
        PROVE  Inv'
    BY <1>3, RemoveRowInv, RenameInv
  <1>4. CASE Age
    BY <1>4, AgeInv
  <1>5. CASE UNCHANGED vars
    BY <1>5, StutterInv
  <1> QED
    BY <1>1, <1>2, <1>3, <1>4, <1>5 DEF Next

LEMMA Invariants == Spec => []Inv
  BY InitInv, NextInv, PTL DEF Spec

\* Of the transactions that are open, whatever fails or dies, one at a time
\* decides and inserts, and the rows stand in one order by their start.
THEOREM CheckpointsTypeCorrect == Spec => []TypeOK
<1>1. Inv => TypeOK
  BY TypeOKParts DEF Inv
<1> QED
  BY <1>1, Invariants, PTL

\* An insertion that no checkpoint holds is never forgotten by the instance it
\* was made through: tick, maybeMake and the catch that marks it dirty again.
THEOREM UnseenIsNotForgotten == Spec => []UnseenIsDirty
<1>1. Inv => UnseenIsDirty
  BY DEF Inv, LooksInv, UnseenIsDirty
<1> QED
  BY <1>1, Invariants, PTL

\* prune() deletes, after its list was read, no row that had a name then.
THEOREM NamedOnesAreKept == Spec => NamedIsKept
<1>1. Inv /\ [Next]_vars => [\A j \in Jobs : Commit(j) => spared \cap IdsOf(rows) \subseteq IdsOf(rows')]_vars
  <2> SUFFICES ASSUME Inv, NEW j \in Jobs, Commit(j)
               PROVE  spared \cap IdsOf(rows) \subseteq IdsOf(rows')
    OBVIOUS
  <2>1. IdsOf(rows') = (IdsOf(rows) \cup {fresh.id}) \ gone
    BY CommitRows
  <2>2. gone \cap spared = {}
    BY DEF Inv, SparedInv
  <2> QED
    BY <2>1, <2>2
<1> QED
  BY <1>1, Invariants, PTL DEF Spec, NamedIsKept

\* The browser's checkpoint() reply: the row it names has every insertion the
\* browser's files had.
THEOREM AnswersHoldInserts == Spec => AnswerHoldsInserts
<1>1. Inv /\ [Next]_vars => [\A j \in Asks : Answer(j) /\ job[j].mine \in IdsOf(rows)
                               => job[j].asked \cap Inserts \subseteq Row(job[j].mine).state]_vars
  <2> SUFFICES ASSUME Inv, NEW j \in Asks, Answer(j), job[j].mine \in IdsOf(rows)
               PROVE  job[j].asked \cap Inserts \subseteq Row(job[j].mine).state
    OBVIOUS
  <2>1. \E r \in rows : r.id = job[j].mine
    BY DEF IdsOf
  <2>2. Row(job[j].mine) \in rows /\ Row(job[j].mine).id = job[j].mine
    BY <2>1 DEF Row
  <2>3. job[j].at = "answering"
    BY DEF Answer
  <2> QED
    BY <2>2, <2>3 DEF Inv, AnswerInv
<1> QED
  BY <1>1, Invariants, PTL DEF Spec, AnswerHoldsInserts

\* Rows come by commits only.
LEMMA RowsCome ==
    ASSUME Inv, [Next]_vars
    PROVE  IdsOf(rows') \subseteq IdsOf(rows) \/ \E j \in Jobs : Commit(j)
  <1>1. ASSUME NEW i \in Instances,
               \/ Load(i) \/ Unload(i) \/ Tick(i) \/ Crash(i)
               \/ \E e \in Edits : Edit(i, e)
               \/ \E k \in Instances : Relay(i, k)
               \/ \E j \in Asks, k \in {"manual", "before"} : Ask(j, i, k)
        PROVE  rows' = rows
    BY <1>1 DEF Load, Unload, Tick, Crash, Edit, Relay, Ask
  <1>2. ASSUME NEW j \in Jobs, Step(j) \/ Fail(j)
        PROVE  rows' = rows \/ Commit(j)
    BY <1>2 DEF Step, Lock, Decline, Insert, Checked, Answer, Fail
  <1>3. ASSUME NEW id \in Ids, RemoveRow(id)
        PROVE  IdsOf(rows') \subseteq IdsOf(rows)
    <2>1. rows \in SUBSET RowType
      BY DEF Inv, Types
    <2> DEFINE ids == {id}
    <2>2. rows' = Without(rows, ids)
      BY <1>3 DEF RemoveRow
    <2> HIDE DEF ids
    <2>3. IdsOf(Without(rows, ids)) = IdsOf(rows) \ ids
      BY <2>1, WithoutFacts
    <2> QED
      BY <2>2, <2>3
  <1>4. ASSUME NEW id \in Ids, NEW b \in BOOLEAN, Rename(id, b)
        PROVE  IdsOf(rows') \subseteq IdsOf(rows)
    <2>1. ASSUME NEW r \in rows PROVE (IF r.id = id THEN [r EXCEPT !.named = b] ELSE r).id = r.id
      <3>1. r \in RowType
        BY DEF Inv, Types
      <3> QED
        BY <3>1 DEF RowType
    <2>2. rows' = {IF r.id = id THEN [r EXCEPT !.named = b] ELSE r : r \in rows}
      BY <1>4 DEF Rename
    <2> QED
      BY <2>1, <2>2 DEF IdsOf
  <1>5. CASE Age
    BY <1>5 DEF Age
  <1>6. CASE UNCHANGED vars
    BY <1>6 DEF vars
  <1> QED
    BY <1>1, <1>2, <1>3, <1>4, <1>5, <1>6 DEF Next

\* Whatever instances looked before it, an automatic row is committed into a
\* table that is empty or whose newest row is AUTO_EVERY_MS old.
THEOREM AutomaticOnesComeSpaced == Spec => AutomaticOnesAreSpaced
<1>1. Inv /\ [Next]_vars => [\A r \in rows' : r.kind = "auto" /\ r.id \notin IdsOf(rows) => aged \/ rows = {}]_vars
  <2> SUFFICES ASSUME Inv, [Next]_vars, NEW r \in rows', r.kind = "auto", r.id \notin IdsOf(rows)
               PROVE  aged \/ rows = {}
    OBVIOUS
  <2>1. PICK j \in Jobs : Commit(j)
    BY RowsCome DEF IdsOf
  <2>2. r.kind = fresh.kind
    BY <2>1, CommitRows DEF IdsOf
  <2>3. fresh # NoRow
    BY <2>1 DEF Inv, Turns, Commit
  <2> QED
    BY <2>2, <2>3 DEF Inv, SpacedInv
<1> QED
  BY <1>1, Invariants, PTL DEF Spec, AutomaticOnesAreSpaced
=============================================================================
