---------------------------- MODULE FileSyncProof ----------------------------
(***************************************************************************)
(* Proofs about FileSync, for any contents and bounds.                     *)
(***************************************************************************)
EXTENDS FileSyncInv, SequenceTheorems, TLAPS

USE ContentsAssumption, BoundsAssumption

-----------------------------------------------------------------------------
(* Queues, and what is said of every element of one.                       *)

LEMMA AppendFacts ==
    ASSUME NEW S, NEW s \in Seq(S), NEW e \in S
    PROVE  /\ Append(s, e) \in Seq(S) /\ Append(s, e) # <<>>
           /\ DOMAIN s = 1..Len(s) /\ Len(s) \in Nat
           /\ DOMAIN Append(s, e) = 1..(Len(s) + 1) /\ Len(Append(s, e)) = Len(s) + 1
           /\ \A i \in 1..Len(s) : Append(s, e)[i] = s[i]
           /\ Append(s, e)[Len(s) + 1] = e
  OBVIOUS

LEMMA TailFacts ==
    ASSUME NEW S, NEW s \in Seq(S), s # <<>>
    PROVE  /\ Tail(s) \in Seq(S) /\ Head(s) \in S /\ Head(s) = s[1]
           /\ DOMAIN s = 1..Len(s) /\ Len(s) \in Nat \ {0}
           /\ DOMAIN Tail(s) = 1..(Len(s) - 1) /\ Len(Tail(s)) = Len(s) - 1
           /\ \A i \in 1..(Len(s) - 1) : Tail(s)[i] = s[i + 1]
           /\ Tail(s) = <<>> <=> Len(s) = 1
  <1>1. Len(s) \in Nat \ {0} /\ DOMAIN s = 1..Len(s) /\ Head(s) = s[1]
    BY EmptySeq
  <1>2. Head(s) \in S /\ Tail(s) \in Seq(S) /\ Len(Tail(s)) = Len(s) - 1
    BY HeadTailProperties
  <1>3. \A i \in 1..Len(Tail(s)) : Tail(s)[i] = s[i + 1]
    BY HeadTailProperties
  <1>4. DOMAIN Tail(s) = 1..(Len(s) - 1)
    BY <1>2
  <1>5. Tail(s) = <<>> <=> Len(s) = 1
    BY <1>1, <1>2, EmptySeq
  <1> QED
    BY <1>1, <1>2, <1>3, <1>4, <1>5

-----------------------------------------------------------------------------
(* Types, and what is awaited.                                             *)

\* Without a sandbox nothing is under way to one; what attach awaits.
Waits ==
    /\ ~Alive => down = <<>> /\ hand = Idle /\ fetching = {} /\ snap = Absent
    /\ Awaited("attach") => Attaching
    /\ RealOps /\ AttachWaitsOnce

Types ==
    /\ doc \in MaybeFile /\ mirror \in MaybeFile /\ known \in MaybeFile
    /\ disk \in MaybeFile /\ snap \in MaybeFile
    /\ dirty \in BOOLEAN /\ treeDirty \in BOOLEAN /\ timer \in BOOLEAN
    /\ touched \in BOOLEAN /\ parted \in BOOLEAN
    /\ phase \in {"none", "off", "reconciling", "writing", "attached"}
    /\ fetching \subseteq [content : Blobs, by : {"push", "attach"}]
    /\ storing \in [seen : BOOLEAN, content : MaybeFile]
    /\ reading \in [seen : BOOLEAN, content : MaybeFile]
    /\ hand \in OpType /\ down \in Seq(OpType)
    /\ up \in Seq([seen : {TRUE}, content : MaybeFile])
    /\ edits \in 0..MaxEdits /\ writes \in 0..MaxWrites
    /\ failures \in 0..MaxFailures

LEMMA TypesOfType == Types /\ Waits => TypeOK
  BY DEF Types, Waits, TypeOK

LEMMA IdleType == Idle \in OpType
  BY DEF Idle, OpType, MaybeFile

LEMMA OpIsOp ==
    ASSUME NEW d \in {"write", "delete", "reconcile"}, NEW c \in MaybeFile, NEW b \in {"push", "attach"}
    PROVE  /\ Op(d, c, b) \in OpType /\ Op(d, c, b).do = d /\ Op(d, c, b).content = c
           /\ Op(d, c, b).by = b
  BY DEF Op, OpType

LEMMA PartedType == ASSUME Types, Remember PROVE parted' \in BOOLEAN
  BY DEF Types, Remember

LEMMA BecomesTypes ==
    ASSUME Types, NEW c \in MaybeFile, Becomes(c)
    PROVE  doc' \in MaybeFile /\ dirty' \in BOOLEAN /\ treeDirty' \in BOOLEAN /\ timer' \in BOOLEAN
  BY DEF Types, Becomes

\* Every operation of a longer queue was in it or is the new one.
LEMMA Appended ==
    ASSUME Types, NEW op \in OpType, down' = Append(down, op)
    PROVE  /\ down' \in Seq(OpType)
           /\ \A i \in DOMAIN down' : \/ i \in DOMAIN down /\ down'[i] = down[i]
                                      \/ i = Len(down) + 1 /\ i \notin DOMAIN down /\ down'[i] = op
           /\ \A i \in DOMAIN down : i \in DOMAIN down' /\ down'[i] = down[i]
           /\ Len(down) + 1 \in DOMAIN down' /\ down'[Len(down) + 1] = op /\ down' # <<>>
  <1>1. down \in Seq(OpType)
    BY DEF Types
  <1>2. /\ DOMAIN down = 1..Len(down) /\ Len(down) \in Nat
        /\ DOMAIN down' = 1..(Len(down) + 1) /\ down' \in Seq(OpType) /\ down' # <<>>
        /\ \A i \in 1..Len(down) : down'[i] = down[i]
        /\ down'[Len(down) + 1] = op
    BY <1>1, AppendFacts
  <1> QED
    BY <1>2

LEMMA FirstOp == ASSUME Types, down # <<>> PROVE 1 \in DOMAIN down
  <1>1. down \in Seq(OpType)
    BY DEF Types
  <1>2. DOMAIN down = 1..Len(down) /\ Len(down) \in Nat \ {0}
    BY <1>1, TailFacts
  <1> QED
    BY <1>2

LEMMA OpInQueue == ASSUME Types PROVE \A i \in DOMAIN down : down[i] \in OpType
  BY DEF Types

LEMMA SendTypes ==
    ASSUME Types, NEW c \in MaybeFile, NEW b \in {"push", "attach"}, Send(c, b)
    PROVE  /\ fetching' \subseteq [content : Blobs, by : {"push", "attach"}]
           /\ down' \in Seq(OpType)
  <1>1. Op("write", c, b) \in OpType
    BY OpIsOp
  <1>2. Append(down, Op("write", c, b)) \in Seq(OpType)
    BY <1>1, AppendFacts DEF Types
  <1>3. CASE c \in Blobs
    <2>1. [content |-> c, by |-> b] \in [content : Blobs, by : {"push", "attach"}]
      BY <1>3
    <2> QED
      BY <1>3, <2>1 DEF Send, Types
  <1>4. CASE c \notin Blobs
    BY <1>2, <1>4 DEF Send, Types
  <1> QED
    BY <1>3, <1>4

\* A request nobody waits for any more stays in the queue.
LEMMA LateQueue ==
    ASSUME Types, NEW i \in DOMAIN down, Late(i)
    PROVE  /\ down' \in Seq(OpType) /\ DOMAIN down' = DOMAIN down
           /\ \A j \in DOMAIN down : down'[j].do = down[j].do /\ down'[j].content = down[j].content
           /\ \A j \in DOMAIN down : down'[j].by = IF j = i THEN "none" ELSE down[j].by
  <1>1. \A j \in DOMAIN down : down[j] \in OpType
    BY DEF Types
  <1>2. down' = [j \in DOMAIN down |-> IF j = i THEN [down[i] EXCEPT !.by = "none"] ELSE down[j]]
    BY DEF Late, Types
  <1>3. [down[i] EXCEPT !.by = "none"] \in OpType
    BY <1>1 DEF OpType
  <1>4. down' \in Seq(OpType) /\ DOMAIN down' = DOMAIN down
    <2>1. DOMAIN down = 1..Len(down) /\ Len(down) \in Nat
      BY DEF Types
    <2>2. down' \in [1..Len(down) -> OpType]
      BY <1>1, <1>2, <1>3, <2>1
    <2> QED
      BY <2>1, <2>2
  <1>5. \A j \in DOMAIN down : /\ down'[j].do = down[j].do /\ down'[j].content = down[j].content
                              /\ down'[j].by = IF j = i THEN "none" ELSE down[j].by
    BY <1>1, <1>2 DEF OpType
  <1> QED
    BY <1>4, <1>5

LEMMA NextTypes == ASSUME Types, RealOps, Next PROVE Types'
  <1> USE DEF Types
  <1>1. ASSUME NEW c \in RoomTexts \cup RoomBlobs \cup {Absent}, Edit(c) PROVE Types'
    BY <1>1, BecomesTypes, PartedType DEF Edit, runner, agent, MaybeFile, Contents, Texts, Blobs
  <1>2. ASSUME NEW c \in ProgramTexts \cup ProgramBlobs \cup {Absent}, Program(c) PROVE Types'
    BY <1>2, PartedType DEF Program, room, runner, MaybeFile, Contents, Texts, Blobs
  <1>3. CASE OtherEdit
    BY <1>3, PartedType DEF OtherEdit, runner, agent
  <1>4. CASE Attach
    <2>1. down' \in Seq(OpType)
      BY <1>4, OpIsOp DEF Attach
    <2> QED
      BY <1>4, <2>1, PartedType DEF Attach, room, agent, bounds
  <1>5. CASE Lose
    <2>1. down' \in Seq(OpType) /\ fetching' \subseteq [content : Blobs, by : {"push", "attach"}]
      BY <1>5 DEF Lose
    <2>2. up' \in Seq([seen : {TRUE}, content : MaybeFile])
      <3>1. CASE up' = <<>>
        BY <3>1
      <3>2. CASE up' = up
        BY <3>2
      <3> QED
        BY <1>5, <3>1, <3>2 DEF Lose
    <2>3. reading' \in [seen : BOOLEAN, content : MaybeFile] /\ snap' \in MaybeFile /\ known' \in MaybeFile
      BY <1>5 DEF Lose, Nothing, MaybeFile
    <2>4. /\ phase' \in {"none", "off", "reconciling", "writing", "attached"}
          /\ touched' \in BOOLEAN /\ hand' \in OpType /\ parted' \in BOOLEAN
      BY <1>5, PartedType, IdleType DEF Lose
    <2>5. failures' \in 0..MaxFailures
      BY <1>5 DEF Lose
    <2>6. UNCHANGED <<doc, dirty, treeDirty, timer, mirror, storing, disk, edits, writes>>
      BY <1>5 DEF Lose, room
    <2> QED
      BY <2>1, <2>2, <2>3, <2>4, <2>5, <2>6
  <1>6. CASE Flush
    <2>1. down' \in Seq(OpType) /\ fetching' \subseteq [content : Blobs, by : {"push", "attach"}]
      <3>1. Append(down, Op("delete", Absent, "push")) \in Seq(OpType)
        BY OpIsOp, AppendFacts DEF MaybeFile
      <3> QED
        BY <1>6, <3>1, SendTypes DEF Flush
    <2> QED
      BY <1>6, <2>1, PartedType DEF Flush, agent, bounds
  <1>7. CASE AttachWrite
    <2>1. down' \in Seq(OpType) /\ fetching' \subseteq [content : Blobs, by : {"push", "attach"}]
      BY <1>7, SendTypes DEF AttachWrite
    <2> QED
      BY <1>7, <2>1, PartedType DEF AttachWrite, room, agent, bounds, MaybeFile
  <1>8. CASE Attached
    BY <1>8, PartedType DEF Attached, agent, bounds
  <1>9. CASE Apply
    <2>1. /\ Tail(up) \in Seq([seen : {TRUE}, content : MaybeFile])
          /\ Head(up) \in [seen : {TRUE}, content : MaybeFile]
      BY <1>9, TailFacts DEF Apply
    <2>2. /\ Head(up) \in [seen : BOOLEAN, content : MaybeFile] /\ Head(up).content \in MaybeFile
      BY <2>1
    <2>3. /\ doc' \in MaybeFile /\ dirty' \in BOOLEAN /\ treeDirty' \in BOOLEAN /\ timer' \in BOOLEAN
          /\ mirror' \in MaybeFile /\ storing' \in [seen : BOOLEAN, content : MaybeFile]
      <3>1. CASE Head(up).content \in Blobs
        BY <1>9, <2>2, <3>1 DEF Apply, room
      <3>2. CASE Head(up).content \notin Blobs
        BY <1>9, <2>2, <3>2, BecomesTypes DEF Apply
      <3> QED
        BY <3>1, <3>2
    <2> QED
      BY <1>9, <2>1, <2>3, PartedType DEF Apply, agent, bounds
  <1>10. CASE Stored
    <2>1. /\ doc' \in MaybeFile /\ dirty' \in BOOLEAN /\ treeDirty' \in BOOLEAN /\ timer' \in BOOLEAN
      BY <1>10, BecomesTypes DEF Stored
    <2> QED
      BY <1>10, <2>1, PartedType DEF Stored, agent, bounds, Nothing, MaybeFile
  <1>11. ASSUME NEW z \in fetching, Fetched(z) PROVE Types'
    <2>1. Op("write", z.content, z.by) \in OpType
      BY OpIsOp DEF MaybeFile, Contents
    <2>2. down' \in Seq(OpType)
      <3>1. Append(down, Op("write", z.content, z.by)) \in Seq(OpType)
        BY <2>1, AppendFacts
      <3> QED
        BY <1>11, <3>1 DEF Fetched
    <2> QED
      BY <1>11, <2>2, PartedType DEF Fetched, room, agent, bounds
  <1>12. CASE Take
    <2>1. Tail(down) \in Seq(OpType) /\ Head(down) \in OpType
      BY <1>12, TailFacts DEF Take
    <2>2. known' \in MaybeFile
      <3>1. Head(down).content \in MaybeFile /\ Absent \in MaybeFile
        BY <2>1 DEF OpType, MaybeFile
      <3>2. Head(down).do \in {"write", "delete", "reconcile"}
        BY <1>12, <2>1, TailFacts DEF Take, RealOps, OpType
      <3> QED
        BY <1>12, <3>1, <3>2 DEF Take
    <2> QED
      BY <1>12, <2>1, <2>2, PartedType DEF Take, room, runner, bounds
  <1>13. CASE Done
    <2>1. disk' \in MaybeFile /\ hand' \in OpType /\ touched' \in BOOLEAN
      BY <1>13, IdleType DEF Done, Result, OpType
    <2> QED
      BY <1>13, <2>1, PartedType DEF Done, room, runner, bounds
  <1>14. CASE Inspect
    BY <1>14, PartedType DEF Inspect, Seen, room, runner, bounds
  <1>15. CASE Compare
    <2>1. ~(known = reading.content) => Append(up, reading) \in Seq([seen : {TRUE}, content : MaybeFile])
      BY <1>15, AppendFacts DEF Compare
    <2>2. up' \in Seq([seen : {TRUE}, content : MaybeFile])
      BY <1>15, <2>1 DEF Compare
    <2>3. reading' \in [seen : BOOLEAN, content : MaybeFile] /\ known' \in MaybeFile
      BY <1>15 DEF Compare, Nothing, MaybeFile
    <2> QED
      BY <1>15, <2>2, <2>3, PartedType DEF Compare, room, runner, bounds
  <1>16. CASE Refused
    BY <1>16, PartedType, IdleType DEF Refused, room
  <1>17. CASE StoreFails
    BY <1>17, PartedType DEF StoreFails, Nothing, MaybeFile, room, agent
  <1>18. ASSUME NEW z \in fetching, FetchFails(z) PROVE Types'
    BY <1>18, PartedType DEF FetchFails, room, agent
  <1>19. ASSUME NEW i \in DOMAIN down, Late(i) PROVE Types'
    <2>1. down' \in Seq(OpType)
      BY <1>19, LateQueue
    <2> QED
      BY <1>19, <2>1, PartedType DEF Late, room, agent
  <1> QED
    BY <1>1, <1>2, <1>3, <1>4, <1>5, <1>6, <1>7, <1>8, <1>9, <1>10, <1>11, <1>12, <1>13, <1>14,
       <1>15, <1>16, <1>17, <1>18, <1>19 DEF Next, Sync, AgentStep

-----------------------------------------------------------------------------
(* What attach awaits, one operation or fetch at a time.                   *)

\* A step that leaves the operations and attach alone.
LEMMA SameWaits ==
    ASSUME Waits, UNCHANGED <<down, hand, fetching, phase, snap>> PROVE Waits'
  BY DEF Waits, Awaited, Alive, Attaching, RealOps, AttachWaitsOnce

\* What attach awaits afterwards is awaited before, or it is the new one and
\* it was awaiting nothing.
LEMMA SendWaits ==
    ASSUME Types, Waits, NEW c \in MaybeFile, NEW b \in {"push", "attach"}, Send(c, b),
           Alive, Alive', UNCHANGED hand, b = "attach" => ~Awaited("attach") /\ Attaching',
           Attaching => Attaching'
    PROVE  Waits'
  <1> DEFINE op == Op("write", c, b)
             x  == [content |-> c, by |-> b]
  <1>1. op \in OpType /\ op.do = "write" /\ op.by = b
    BY OpIsOp
  <1>2. CASE c \in Blobs
    <2>1. fetching' = fetching \cup {x} /\ down' = down /\ hand' = hand /\ x.by = b
      BY <1>2 DEF Send
    <2>2. Awaited("attach")' => Attaching'
      BY <2>1 DEF Waits, Awaited
    <2>3. AttachWaitsOnce'
      BY <2>1 DEF Waits, Awaited, AttachWaitsOnce
    <2> QED
      BY <2>1, <2>2, <2>3 DEF Waits, RealOps
  <1>3. CASE c \notin Blobs
    <2>1. down' = Append(down, op) /\ fetching' = fetching /\ hand' = hand
      BY <1>3 DEF Send
    <2>2. \A i \in DOMAIN down' : \/ i \in DOMAIN down /\ down'[i] = down[i]
                                  \/ i = Len(down) + 1 /\ down'[i] = op
      BY <1>1, <2>1, Appended
    <2>3. Awaited("attach")' => Attaching'
      BY <1>1, <2>1, <2>2 DEF Waits, Awaited
    <2>4. AttachWaitsOnce'
      BY <1>1, <2>1, <2>2 DEF Waits, Awaited, AttachWaitsOnce
    <2>5. RealOps'
      BY <1>1, <2>1, <2>2 DEF Waits, RealOps
    <2> QED
      BY <2>1, <2>3, <2>4, <2>5 DEF Waits
  <1> QED
    BY <1>2, <1>3

LEMMA NextWaits == ASSUME Types, Waits, Next PROVE Waits'
  <1>1. ASSUME NEW c \in RoomTexts \cup RoomBlobs \cup {Absent}, Edit(c) PROVE Waits'
    BY <1>1, SameWaits DEF Edit, runner, agent
  <1>2. ASSUME NEW c \in ProgramTexts \cup ProgramBlobs \cup {Absent}, Program(c) PROVE Waits'
    BY <1>2, SameWaits DEF Program, runner
  <1>3. CASE OtherEdit
    BY <1>3, SameWaits DEF OtherEdit, runner, agent
  <1>4. CASE Attach
    <2>1. down' = <<Op("reconcile", doc, "attach")>> /\ hand' = Idle /\ fetching' = {} /\ phase' = "reconciling"
      BY <1>4 DEF Attach, agent, Waits
    <2>2. DOMAIN down' = {1} /\ down'[1] = Op("reconcile", doc, "attach")
      BY <2>1
    <2>3. Op("reconcile", doc, "attach").do = "reconcile" /\ Idle.by = "none"
      BY DEF Op, Idle
    <2> QED
      BY <2>1, <2>2, <2>3 DEF Waits, Awaited, Alive, Attaching, RealOps, AttachWaitsOnce
  <1>5. CASE Lose
    BY <1>5 DEF Lose, Waits, Awaited, Alive, Attaching, RealOps, AttachWaitsOnce, Idle
  <1>6. CASE Flush
    <2>1. phase' = phase /\ snap' = snap /\ hand' = hand
      BY <1>6 DEF Flush, agent
    <2>2. CASE UNCHANGED <<fetching, down>>
      BY <2>1, <2>2, SameWaits
    <2>3. CASE Alive /\ Send(doc, "push")
      BY <2>1, <2>3, SendWaits DEF Types, Alive, Attaching
    <2>4. CASE Alive /\ down' = Append(down, Op("delete", Absent, "push")) /\ UNCHANGED fetching
      <3> DEFINE op == Op("delete", Absent, "push")
      <3>1. op \in OpType /\ op.do = "delete" /\ op.by = "push"
        BY OpIsOp DEF MaybeFile
      <3>2. \A i \in DOMAIN down' : \/ i \in DOMAIN down /\ down'[i] = down[i]
                                    \/ i = Len(down) + 1 /\ down'[i] = op
        BY <2>4, <3>1, Appended
      <3> QED
        BY <2>1, <2>4, <3>1, <3>2 DEF Waits, Awaited, Alive, Attaching, RealOps, AttachWaitsOnce
    <2> QED
      BY <1>6, <2>2, <2>3, <2>4 DEF Flush
  <1>7. CASE AttachWrite
    <2>1. /\ phase = "reconciling" /\ phase' = "writing" /\ snap' = Absent /\ hand' = hand
          /\ ~Awaited("attach") /\ Alive /\ Alive' /\ Attaching'
      BY <1>7 DEF AttachWrite, agent, Alive, Attaching
    <2>2. CASE UNCHANGED <<fetching, down>>
      BY <2>1, <2>2 DEF Waits, Awaited, RealOps, AttachWaitsOnce
    <2>3. CASE Send(snap, "attach")
      BY <2>1, <2>3, SendWaits DEF Types
    <2> QED
      BY <1>7, <2>2, <2>3 DEF AttachWrite
  <1>8. CASE Attached
    <2>1. UNCHANGED <<down, hand, fetching>> /\ ~Awaited("attach") /\ Alive'
      BY <1>8 DEF Attached, agent, Alive
    <2> QED
      BY <2>1 DEF Waits, Awaited, RealOps, AttachWaitsOnce
  <1>9. CASE Apply
    BY <1>9, SameWaits DEF Apply, agent
  <1>10. CASE Stored
    BY <1>10, SameWaits DEF Stored, agent
  <1>11. ASSUME NEW z \in fetching, Fetched(z) PROVE Waits'
    <2> DEFINE op == Op("write", z.content, z.by)
    <2>1. op \in OpType /\ op.do = "write" /\ op.by = z.by
      <3>1. z.content \in MaybeFile /\ z.by \in {"push", "attach"}
        BY DEF MaybeFile, Contents, Types
      <3> QED
        BY <3>1, OpIsOp
    <2>2. fetching' = fetching \ {z} /\ UNCHANGED <<hand, phase, snap>> /\ Alive /\ Alive'
      BY <1>11 DEF Fetched, agent, Waits, Alive
    <2>3. CASE down' = down
      BY <2>2, <2>3 DEF Waits, Awaited, Attaching, RealOps, AttachWaitsOnce
    <2>4. CASE down' = Append(down, op)
      <3>1. \A i \in DOMAIN down' : \/ i \in DOMAIN down /\ down'[i] = down[i]
                                    \/ i = Len(down) + 1 /\ down'[i] = op
        BY <2>1, <2>4, Appended
      <3>2. Awaited("attach")' => Attaching'
        BY <2>1, <2>2, <3>1 DEF Waits, Awaited, Attaching
      <3>3. AttachWaitsOnce'
        BY <2>1, <2>2, <3>1 DEF Waits, AttachWaitsOnce
      <3>4. RealOps'
        BY <2>1, <2>2, <3>1 DEF Waits, RealOps
      <3> QED
        BY <2>2, <3>2, <3>3, <3>4 DEF Waits
    <2> QED
      BY <1>11, <2>3, <2>4 DEF Fetched
  <1>12. CASE Take
    <2>1. /\ hand = Idle /\ hand' = Head(down) /\ down' = Tail(down) /\ UNCHANGED <<fetching, phase, snap>>
          /\ down # <<>>
      BY <1>12 DEF Take, runner
    <2>2. /\ \A i \in DOMAIN down' : i + 1 \in DOMAIN down /\ down'[i] = down[i + 1] /\ i + 1 # 1 /\ i \in Nat
          /\ 1 \in DOMAIN down /\ hand' = down[1]
      BY <2>1, TailFacts DEF Types
    <2>3. Awaited("attach")' => Attaching'
      BY <2>1, <2>2 DEF Waits, Awaited, Attaching
    <2>4. AttachWaitsOnce'
      BY <2>1, <2>2 DEF Waits, AttachWaitsOnce
    <2>5. RealOps'
      BY <2>1, <2>2 DEF Waits, RealOps
    <2> QED
      BY <2>1, <2>3, <2>4, <2>5 DEF Waits, Alive
  <1>13. CASE Done
    <2>1. hand' = Idle /\ UNCHANGED <<down, fetching, phase, snap>> /\ Idle.by = "none"
      BY <1>13 DEF Done, runner, Idle
    <2> QED
      BY <2>1 DEF Waits, Awaited, Alive, Attaching, RealOps, AttachWaitsOnce
  <1>14. CASE Inspect
    BY <1>14, SameWaits DEF Inspect, runner
  <1>15. CASE Compare
    BY <1>15, SameWaits DEF Compare, runner
  <1>16. CASE Refused
    <2>1. /\ hand' = Idle /\ hand # Idle /\ UNCHANGED <<down, fetching, snap>> /\ Idle.by = "none"
          /\ phase' = IF hand.by = "attach" THEN "attached" ELSE phase
      BY <1>16 DEF Refused, Idle
    <2>2. Alive /\ Alive'
      BY <2>1 DEF Waits, Alive
    <2> QED
      BY <2>1, <2>2 DEF Waits, Awaited, Attaching, RealOps, AttachWaitsOnce
  <1>17. CASE StoreFails
    BY <1>17, SameWaits DEF StoreFails, agent
  <1>18. ASSUME NEW z \in fetching, FetchFails(z) PROVE Waits'
    <2>1. fetching' = fetching \ {z} /\ UNCHANGED <<down, hand, phase, snap>>
      BY <1>18 DEF FetchFails, agent
    <2> QED
      BY <2>1 DEF Waits, Awaited, Alive, Attaching, RealOps, AttachWaitsOnce
  <1>19. ASSUME NEW i \in DOMAIN down, Late(i) PROVE Waits'
    <2>1. /\ UNCHANGED <<hand, fetching, snap>> /\ phase' = IF down[i].by = "attach" THEN "attached" ELSE phase
      BY <1>19 DEF Late, agent
    <2>2. DOMAIN down' = DOMAIN down /\ \A j \in DOMAIN down :
             down'[j].do = down[j].do /\ down'[j].by = IF j = i THEN "none" ELSE down[j].by
      BY <1>19, LateQueue
    <2>3. Alive /\ Alive'
      BY <2>1 DEF Waits, Alive
    <2>4. Awaited("attach")' => Attaching'
      BY <2>1, <2>2 DEF Waits, Awaited, Attaching, AttachWaitsOnce
    <2>5. AttachWaitsOnce'
      BY <2>1, <2>2 DEF Waits, AttachWaitsOnce
    <2>6. RealOps'
      BY <2>1, <2>2 DEF Waits, RealOps
    <2> QED
      BY <2>3, <2>4, <2>5, <2>6 DEF Waits
  <1> QED
    BY <1>1, <1>2, <1>3, <1>4, <1>5, <1>6, <1>7, <1>8, <1>9, <1>10, <1>11, <1>12, <1>13, <1>14,
       <1>15, <1>16, <1>17, <1>18, <1>19 DEF Next, Sync, AgentStep

LEMMA InitTypes == ASSUME Init PROVE Types /\ Waits
  <1> USE DEF Init
  <1>1. Types
    <2>1. /\ doc \in MaybeFile /\ mirror \in MaybeFile /\ known \in MaybeFile
          /\ disk \in MaybeFile /\ snap \in MaybeFile
      BY DEF MaybeFile, Contents, Texts, Blobs
    <2>2. /\ storing \in [seen : BOOLEAN, content : MaybeFile]
          /\ reading \in [seen : BOOLEAN, content : MaybeFile]
      BY DEF Nothing, MaybeFile
    <2>3. down \in Seq(OpType) /\ up \in Seq([seen : {TRUE}, content : MaybeFile])
      BY EmptySeq
    <2>4. hand \in OpType
      BY IdleType
    <2>5. edits \in 0..MaxEdits /\ writes \in 0..MaxWrites /\ failures \in 0..MaxFailures
      OBVIOUS
    <2>6. /\ dirty \in BOOLEAN /\ treeDirty \in BOOLEAN /\ timer \in BOOLEAN
          /\ touched \in BOOLEAN /\ parted \in BOOLEAN /\ phase = "none" /\ fetching = {}
      OBVIOUS
    <2> HIDE DEF Init
    <2> QED
      BY <2>1, <2>2, <2>3, <2>4, <2>5, <2>6 DEF Types
  <1>2. Waits
    BY DEF Waits, Awaited, Alive, Attaching, RealOps, AttachWaitsOnce, Idle
  <1> QED
    BY <1>1, <1>2

LEMMA StepTypes == ASSUME Types, Waits, [Next]_vars PROVE Types' /\ Waits'
  <1>1. CASE Next
    BY <1>1, NextTypes, NextWaits DEF Waits
  <1>2. CASE UNCHANGED vars
    BY <1>2, SameWaits DEF vars, room, runner, agent, bounds, Types
  <1> QED
    BY <1>1, <1>2

\* The types of TypeOK hold in every state: of the file on either side, of
\* what is under way between them, and of attach, which waits for requests
\* of its own only.
THEOREM FileSyncTypeCorrect == Spec => []TypeOK
  <1>1. Init => Types /\ Waits
    BY InitTypes
  <1>2. Types /\ Waits /\ [Next]_vars => (Types /\ Waits)'
    BY StepTypes
  <1> QED
    BY <1>1, <1>2, TypesOfType, PTL DEF Spec

-----------------------------------------------------------------------------
(* What the watcher has read.                                              *)

LEMMA NextRead == ASSUME Types, ReadIsDisk, Next PROVE ReadIsDisk'
  <1> USE DEF ReadIsDisk
  <1>1. ASSUME UNCHANGED agent PROVE ReadIsDisk'
    BY <1>1 DEF agent
  <1>2. ASSUME NEW c \in ProgramTexts \cup ProgramBlobs \cup {Absent}, Program(c) PROVE ReadIsDisk'
    BY <1>2 DEF Program
  <1>3. CASE Lose
    BY <1>3 DEF Lose, Nothing
  <1>4. CASE Take
    BY <1>4 DEF Take
  <1>5. CASE Done
    BY <1>5 DEF Done, Types
  <1>6. CASE Inspect
    BY <1>6 DEF Inspect, Seen
  <1>7. CASE Compare
    BY <1>7 DEF Compare, Nothing
  <1>8. CASE Refused
    BY <1>8 DEF Refused
  <1>9. ASSUME NEW c \in RoomTexts \cup RoomBlobs \cup {Absent}, Edit(c) PROVE UNCHANGED agent
    BY <1>9 DEF Edit
  <1>10. ASSUME NEW z \in fetching, Fetched(z) \/ FetchFails(z) PROVE UNCHANGED agent
    BY <1>10 DEF Fetched, FetchFails
  <1>11. ASSUME NEW i \in DOMAIN down, Late(i) PROVE UNCHANGED agent
    BY <1>11 DEF Late
  <1>12. CASE OtherEdit \/ Attach \/ Flush \/ AttachWrite \/ Attached
    BY <1>1, <1>12 DEF OtherEdit, Attach, Flush, AttachWrite, Attached
  <1>13. CASE Apply \/ Stored \/ StoreFails
    BY <1>1, <1>13 DEF Apply, Stored, StoreFails
  <1> QED
    BY <1>1, <1>2, <1>3, <1>4, <1>5, <1>6, <1>7, <1>8, <1>9, <1>10, <1>11, <1>12, <1>13
       DEF Next, Sync, AgentStep

-----------------------------------------------------------------------------
(* The two sides, while nothing has parted them.                           *)

Together == RoomInv /\ DownInv /\ AgentInv

\* What a step that leaves parted FALSE cannot have done.
LEMMA NotParted ==
    ASSUME Types, Remember, ~parted'
    PROVE  /\ ~(Busy' /\ Rising') /\ failures' = failures
           /\ Attaching => doc' = doc
           /\ parted => ~Alive /\ phase' = "reconciling"
  BY DEF Remember, Crossing, Busy, Rising, Types

\* Most steps do not change where attach and what it awaits are.
LEMMA EditTogether ==
    ASSUME Types, Together, Alive, NEW c \in MaybeFile, c # doc, Becomes(c), ~Attaching,
           ~(Busy /\ Rising), UNCHANGED <<runner, down, up, agent>>
    PROVE  Together'
  <1>1. phase = "attached" /\ phase' = "attached"
    BY DEF Alive, Attaching, Types, runner
  <1>2. RoomInv'
    BY <1>1 DEF Together, RoomInv, Becomes, Pushes
  <1>3. UNCHANGED <<mirror, phase, snap, fetching, storing, down, up, hand, known, disk, touched, reading>>
    BY DEF runner, agent
  <1>4. Target = mirror /\ Target' = mirror
    BY <1>1, <1>3 DEF Target
  <1>5. DownInv'
    BY <1>3, <1>4, <1>1 DEF Together, DownInv, Sends, Busy, Rising
  <1>6. AgentInv'
    BY <1>3, <1>4, <1>1 DEF Together, AgentInv, InLine, Awaited, Latest, Busy
  <1> QED
    BY <1>2, <1>5, <1>6 DEF Together

LEMMA OtherEditTogether == ASSUME Together, OtherEdit PROVE Together'
  <1>1. /\ UNCHANGED <<doc, dirty, mirror, phase, snap, fetching, storing, down, up>>
        /\ UNCHANGED <<hand, known, disk, touched, reading>>
        /\ treeDirty' = TRUE /\ timer' = (timer \/ phase # "none")
    BY DEF OtherEdit, runner, agent
  <1>2. RoomInv'
    BY <1>1 DEF Together, RoomInv, Pushes
  <1>3. Target' = Target
    BY <1>1 DEF Target
  <1>4. DownInv'
    BY <1>1, <1>3 DEF Together, DownInv, Sends, Busy, Rising
  <1>5. AgentInv'
    BY <1>1, <1>3 DEF Together, AgentInv, InLine, Awaited, Latest, Busy
  <1> QED
    BY <1>2, <1>4, <1>5 DEF Together

\* The steps of programs and the watcher leave the runner alone.
LEMMA SameRunner ==
    ASSUME Together, UNCHANGED <<room, mirror, phase, snap, fetching, down, hand>>, ~(Busy' /\ Rising')
    PROVE  /\ RoomInv' /\ DownInv' /\ Target' = Target
           /\ InLine' = InLine /\ Busy' = Busy
  <1>1. UNCHANGED <<doc, dirty, treeDirty, timer, mirror, phase, snap, fetching, down, hand>>
    BY DEF room
  <1>2. RoomInv'
    BY <1>1 DEF Together, RoomInv, Pushes
  <1>3. Target' = Target
    BY <1>1 DEF Target
  <1>4. Busy' = Busy
    BY <1>1 DEF Busy
  <1>5. InLine' = InLine
    BY <1>1 DEF InLine, Awaited
  <1>6. DownInv'
    BY <1>1, <1>3 DEF Together, DownInv, Sends
  <1> QED
    BY <1>2, <1>3, <1>4, <1>5, <1>6

LEMMA WatcherTogether ==
    ASSUME Types, Together, ReadIsDisk, ~(Busy' /\ Rising'),
           \/ \E c \in ProgramTexts \cup ProgramBlobs \cup {Absent} : Program(c)
           \/ Inspect \/ Compare
    PROVE  Together'
  <1>1. UNCHANGED <<room, mirror, phase, snap, fetching, down, hand, storing>>
    BY DEF Program, Inspect, Compare, runner
  <1>2. /\ RoomInv' /\ DownInv' /\ Target' = Target
        /\ InLine' = InLine /\ Busy' = Busy
    BY <1>1, SameRunner
  <1>3. CASE \E c \in ProgramTexts \cup ProgramBlobs \cup {Absent} : Program(c)
    <2>1. UNCHANGED <<up, known>> /\ touched' = TRUE
      BY <1>3 DEF Program
    <2> QED
      BY <1>1, <1>2, <2>1 DEF Together, AgentInv, Latest
  <1>4. CASE Inspect
    <2>1. UNCHANGED <<up, known>> /\ reading' = [seen |-> TRUE, content |-> disk]
      BY <1>4 DEF Inspect, Seen
    <2> QED
      BY <1>1, <1>2, <2>1 DEF Together, AgentInv, Latest
  <1>5. CASE Compare
    <2>1. known' = reading.content /\ UNCHANGED <<disk, touched>> /\ reading.seen
      BY <1>5 DEF Compare
    <2>2. CASE known = reading.content
      <3>1. up' = up /\ known' = known
        BY <1>5, <2>1, <2>2 DEF Compare
      <3> QED
        BY <1>1, <1>2, <2>1, <2>2, <3>1 DEF Together, AgentInv, Latest, ReadIsDisk
    <2>3. CASE known # reading.content
      <3>1. up' = Append(up, reading) /\ reading \in [seen : {TRUE}, content : MaybeFile]
        BY <1>5, <2>3 DEF Compare, Types
      <3>2. up' # <<>> /\ up'[Len(up')] = reading
        <4>1. up \in Seq([seen : {TRUE}, content : MaybeFile])
          BY DEF Types
        <4>2. Len(up') = Len(up) + 1 /\ up' # <<>> /\ up'[Len(up) + 1] = reading
          BY <3>1, <4>1, AppendFacts
        <4> QED
          BY <4>2
      <3>3. ~Busy' /\ hand = Idle /\ Latest' = reading.content
        BY <1>1, <3>2 DEF Busy, Rising, Latest
      <3> QED
        BY <1>1, <1>2, <2>1, <3>3 DEF Together, AgentInv, ReadIsDisk
    <2> QED
      BY <2>2, <2>3
  <1> QED
    BY <1>2, <1>3, <1>4, <1>5 DEF Together

\* The snapshot is on its way, and nothing comes the other way.
LEMMA AttachTogether ==
    ASSUME Types, Waits, Attach, ~(Busy' /\ Rising')
    PROVE  Together'
  <1> DEFINE op == Op("reconcile", doc, "attach")
  <1>1. /\ down' = <<op>> /\ phase' = "reconciling" /\ snap' = doc /\ doc' = doc
        /\ hand' = Idle /\ fetching' = {}
    BY DEF Attach, Waits, agent, room
  <1>2. op.do = "reconcile" /\ op.content = doc /\ op.by = "attach"
    BY DEF Op
  <1>3. DOMAIN down' = {1} /\ down'[1] = op
    BY <1>1
  <1>4. RoomInv'
    BY <1>1 DEF RoomInv
  <1>5. DownInv'
    BY <1>1, <1>2, <1>3 DEF DownInv, Sends, Target
  <1>6. Awaited("attach")' /\ hand' = Idle
    BY <1>1, <1>2, <1>3 DEF Awaited
  <1>7. AgentInv'
    BY <1>6 DEF AgentInv, InLine
  <1> QED
    BY <1>4, <1>5, <1>7 DEF Together

\* Only one file is on its way while nothing has parted the two sides.
LEMMA SendTogether ==
    ASSUME Types, NEW c \in MaybeFile, NEW b \in {"push", "attach"}, Send(c, b)
    PROVE  /\ Busy' /\ (~Awaited("attach")' => b # "attach" /\ (hand' = hand => ~Awaited("attach")))
           /\ \A i \in DOMAIN down' : \/ i \in DOMAIN down /\ down'[i] = down[i]
                                      \/ down'[i].do = "write" /\ down'[i].content = c /\ down'[i].by = b
           /\ \A z \in fetching' : z \in fetching \/ (z.content = c /\ z.by = b)
  <1> DEFINE op == Op("write", c, b)
  <1>1. op \in OpType /\ op.do = "write" /\ op.content = c /\ op.by = b
    BY OpIsOp
  <1>2. CASE c \in Blobs
    <2> DEFINE z == [content |-> c, by |-> b]
    <2>1. fetching' = fetching \cup {z} /\ down' = down /\ z.content = c /\ z.by = b
      BY <1>2 DEF Send
    <2> HIDE DEF z
    <2>2. Busy' /\ z \in fetching'
      BY <2>1 DEF Busy
    <2>3. ~Awaited("attach")' => b # "attach"
      BY <2>1, <2>2 DEF Awaited
    <2>4. ~Awaited("attach")' /\ hand' = hand => ~Awaited("attach")
      BY <2>1 DEF Awaited
    <2> QED
      BY <2>1, <2>2, <2>3, <2>4
  <1>3. CASE c \notin Blobs
    <2>1. down' = Append(down, op) /\ fetching' = fetching
      BY <1>3 DEF Send
    <2>2. /\ \A i \in DOMAIN down' : (i \in DOMAIN down /\ down'[i] = down[i]) \/ down'[i] = op
          /\ \A i \in DOMAIN down : i \in DOMAIN down' /\ down'[i] = down[i]
          /\ Len(down) + 1 \in DOMAIN down' /\ down'[Len(down) + 1] = op /\ down' # <<>>
      BY <1>1, <2>1, Appended
    <2>3. \A i \in DOMAIN down' : \/ i \in DOMAIN down /\ down'[i] = down[i]
                                  \/ down'[i].do = "write" /\ down'[i].content = c /\ down'[i].by = b
      BY <1>1, <2>2
    <2>4. ~Awaited("attach")' => b # "attach"
      BY <1>1, <2>2 DEF Awaited
    <2>5. ~Awaited("attach")' /\ hand' = hand => ~Awaited("attach")
      BY <2>1, <2>2 DEF Awaited
    <2> QED
      BY <2>1, <2>2, <2>3, <2>4, <2>5 DEF Busy
  <1> QED
    BY <1>2, <1>3

\* A flush sends only where nothing else is on its way, or what is is the
\* same file.
LEMMA FlushTogether ==
    ASSUME Types, Waits, Together, Alive, Flush, ~(Busy' /\ Rising')
    PROVE  Together'
  <1>1. /\ UNCHANGED <<doc, phase, snap, storing, up, hand, known, disk, touched, reading>>
        /\ timer /\ ~Awaited("push")
    BY DEF Flush, agent
  <1>2. CASE ~Pushes(doc) \/ mirror = doc
    <2>1. UNCHANGED <<mirror, fetching, down>>
      BY <1>2 DEF Flush
    <2>2. RoomInv'
      BY <1>1, <1>2, <2>1 DEF Together, RoomInv
    <2>3. Target' = Target
      BY <1>1, <2>1 DEF Target
    <2>4. DownInv'
      BY <1>1, <2>1, <2>3 DEF Together, DownInv, Sends
    <2>5. AgentInv'
      BY <1>1, <2>1, <2>3 DEF Together, AgentInv, InLine, Awaited, Latest, Busy
    <2> QED
      BY <2>2, <2>4, <2>5 DEF Together
  <1>3. CASE Pushes(doc) /\ mirror # doc
    <2>1. mirror' = doc
      BY <1>3 DEF Flush
    <2>2. RoomInv'
      BY <1>1, <2>1 DEF Together, RoomInv
    <2>3. fetching = {} /\ (phase = "attached" => down = <<>> /\ hand = Idle)
      <3>1. CASE phase = "reconciling"
        BY <3>1, <1>3 DEF Together, DownInv, Target
      <3>2. CASE phase = "attached"
        <4>1. ~Awaited("attach") /\ ~Awaited("push")
          BY <1>1, <3>2 DEF Waits, Attaching
        <4>2. fetching = {}
          BY <4>1 DEF Awaited, Types
        <4>3. \A i \in DOMAIN down : down[i].by \in {"none", "push", "attach"} /\ down[i].by # "none"
          <5>1. \A i \in DOMAIN down : down[i].by # "none"
            BY DEF Together, DownInv, Sends
          <5>2. \A i \in DOMAIN down : down[i].by \in {"none", "push", "attach"}
            BY OpInQueue DEF OpType
          <5> QED
            BY <5>1, <5>2
        <4>4. down = <<>>
          <5>1. \A i \in DOMAIN down : FALSE
            BY <4>1, <4>3 DEF Awaited
          <5>2. CASE down # <<>>
            <6>1. 1 \in DOMAIN down
              BY <5>2, FirstOp
            <6> QED
              BY <5>1, <6>1
          <5> QED
            BY <5>2
        <4>5. hand = Idle
          <5>1. hand.by \in {"none", "push", "attach"} /\ hand.by # "push" /\ hand.by # "attach"
            BY <4>1 DEF Types, OpType, Awaited
          <5>2. hand # Idle => hand.by # "none"
            BY DEF Together, DownInv, Sends
          <5> QED
            BY <5>1, <5>2
        <4> QED
          BY <4>2, <4>4, <4>5
      <3>3. CASE phase = "writing"
        BY <3>3, <1>3 DEF Together, RoomInv
      <3> QED
        BY <3>1, <3>2, <3>3 DEF Alive, Types
    <2>4. Target' = doc /\ (phase = "reconciling" => Target = doc) /\ phase \in {"reconciling", "attached"}
      BY <1>1, <1>3, <2>1 DEF Target, Together, RoomInv, Alive, Types
    <2>5. /\ Busy' /\ (~Awaited("attach")' => ~Awaited("attach"))
          /\ \A i \in DOMAIN down' : \/ i \in DOMAIN down /\ down'[i] = down[i]
                                     \/ /\ down'[i].do \in {"write", "delete"} /\ down'[i].content = doc
                                        /\ down'[i].by = "push" /\ (down'[i].do = "delete" => doc = Absent)
          /\ \A z \in fetching' : z.content = doc
      <3>1. CASE doc = Absent
        <4> DEFINE op == Op("delete", Absent, "push")
        <4>1. op \in OpType /\ op.do = "delete" /\ op.content = Absent /\ op.by = "push"
          BY OpIsOp DEF MaybeFile
        <4>2. down' = Append(down, op) /\ fetching' = fetching
          BY <1>3, <3>1 DEF Flush
        <4>3. /\ \A i \in DOMAIN down' : (i \in DOMAIN down /\ down'[i] = down[i]) \/ down'[i] = op
              /\ \A i \in DOMAIN down : i \in DOMAIN down' /\ down'[i] = down[i]
              /\ down' # <<>>
          BY <4>1, <4>2, Appended
        <4>4. ~Awaited("attach")' => ~Awaited("attach")
          BY <1>1, <4>2, <4>3 DEF Awaited
        <4>5. \A i \in DOMAIN down' : \/ i \in DOMAIN down /\ down'[i] = down[i]
                                      \/ /\ down'[i].do \in {"write", "delete"} /\ down'[i].content = doc
                                         /\ down'[i].by = "push" /\ (down'[i].do = "delete" => doc = Absent)
          BY <3>1, <4>1, <4>3
        <4> QED
          BY <2>3, <4>2, <4>3, <4>4, <4>5 DEF Busy
      <3>2. CASE doc # Absent
        <4>1. Send(doc, "push") /\ doc \in MaybeFile
          BY <1>3, <3>2 DEF Flush, Types
        <4>2. /\ Busy' /\ (~Awaited("attach")' => ~Awaited("attach"))
              /\ \A i \in DOMAIN down' : \/ i \in DOMAIN down /\ down'[i] = down[i]
                                         \/ down'[i].do = "write" /\ down'[i].content = doc /\ down'[i].by = "push"
              /\ \A z \in fetching' : z \in fetching \/ z.content = doc
          BY <1>1, <4>1, SendTogether
        <4>3. \A i \in DOMAIN down' : \/ i \in DOMAIN down /\ down'[i] = down[i]
                                      \/ /\ down'[i].do \in {"write", "delete"} /\ down'[i].content = doc
                                         /\ down'[i].by = "push" /\ (down'[i].do = "delete" => doc = Absent)
          BY <4>2
        <4> QED
          BY <2>3, <4>2, <4>3
      <3> QED
        BY <3>1, <3>2
    <2>6. DownInv'
      <3>1. \A i \in DOMAIN down' : Sends(down[i])'
        <4> SUFFICES ASSUME NEW i \in DOMAIN down' PROVE Sends(down[i])'
          OBVIOUS
        <4>1. CASE i \in DOMAIN down /\ down'[i] = down[i]
          BY <1>1, <2>3, <2>4, <4>1 DEF Together, DownInv, Sends
        <4>2. CASE ~(i \in DOMAIN down /\ down'[i] = down[i])
          BY <2>4, <2>5, <4>2 DEF Sends
        <4> QED
          BY <4>1, <4>2
      <3>2. hand' # Idle => Sends(hand)'
        BY <1>1, <2>3, <2>4 DEF Together, DownInv, Sends
      <3>3. \A z \in fetching' : z.content = mirror' /\ z.content = Target'
        BY <2>1, <2>4, <2>5
      <3> QED
        BY <3>1, <3>2, <3>3 DEF DownInv
    <2>7. InLine' => InLine
      BY <1>1, <2>5 DEF InLine
    <2>8. AgentInv'
      BY <1>1, <2>5, <2>7 DEF Together, AgentInv
    <2> QED
      BY <2>2, <2>6, <2>8 DEF Together
  <1> QED
    BY <1>2, <1>3

LEMMA AttachWriteTogether ==
    ASSUME Types, Waits, Together, AttachWrite, ~(Busy' /\ Rising')
    PROVE  Together'
  <1>1. /\ UNCHANGED <<doc, storing, up, hand, known, disk, touched, reading>>
        /\ phase = "reconciling" /\ phase' = "writing" /\ mirror' = snap /\ snap' = Absent
        /\ ~Awaited("attach")
    BY DEF AttachWrite, agent, room
  <1>2. snap = doc /\ mirror' = doc /\ Target = doc /\ Target' = doc
    BY <1>1 DEF Together, RoomInv, Target
  <1>3. RoomInv'
    BY <1>1, <1>2 DEF RoomInv
  <1>4. CASE snap = Absent
    <2>1. UNCHANGED <<fetching, down>> /\ InLine
      BY <1>1, <1>4 DEF AttachWrite, InLine
    <2>2. \A i \in DOMAIN down : down[i].do # "reconcile"
      BY <1>1 DEF Together, DownInv, Sends, Awaited
    <2>3. hand # Idle => hand.do # "reconcile"
      BY <1>1 DEF Together, DownInv, Sends, Awaited
    <2>4. DownInv'
      BY <1>1, <1>2, <2>1, <2>2, <2>3 DEF Together, DownInv, Sends
    <2>5. Latest' = Latest /\ Busy' = Busy
      BY <1>1, <1>2, <2>1 DEF Latest, Busy
    <2>6. AgentInv'
      BY <1>1, <2>1, <2>5 DEF Together, AgentInv
    <2> QED
      BY <1>3, <2>4, <2>6 DEF Together
  <1>5. CASE snap # Absent
    <2>1. Send(doc, "attach") /\ doc \in MaybeFile
      BY <1>1, <1>2, <1>5 DEF AttachWrite, Types
    <2>2. /\ Busy' /\ Awaited("attach")'
          /\ \A i \in DOMAIN down' : \/ i \in DOMAIN down /\ down'[i] = down[i]
                                     \/ down'[i].do = "write" /\ down'[i].content = doc /\ down'[i].by = "attach"
          /\ \A z \in fetching' : z \in fetching \/ z.content = doc
      BY <2>1, SendTogether
    <2>3. \A i \in DOMAIN down' : Sends(down[i])'
      <3> SUFFICES ASSUME NEW i \in DOMAIN down' PROVE Sends(down[i])'
        OBVIOUS
      <3>1. CASE i \in DOMAIN down /\ down'[i] = down[i]
        <4>1. down[i].by # "attach"
          BY <1>1, <3>1 DEF Awaited
        <4> QED
          BY <1>1, <1>2, <3>1, <4>1 DEF Together, DownInv, Sends
      <3>2. CASE ~(i \in DOMAIN down /\ down'[i] = down[i])
        BY <1>2, <2>2, <3>2 DEF Sends
      <3> QED
        BY <3>1, <3>2
    <2>4. hand' # Idle => Sends(hand)'
      <3>1. hand.by # "attach"
        BY <1>1 DEF Awaited
      <3> QED
        BY <1>1, <1>2, <3>1 DEF Together, DownInv, Sends
    <2>5. \A z \in fetching' : z.content = mirror' /\ z.content = Target'
      BY <1>2, <2>2 DEF Together, DownInv
    <2>6. AgentInv'
      BY <1>1, <2>2 DEF Together, AgentInv, InLine
    <2> QED
      BY <1>3, <2>3, <2>4, <2>5, <2>6 DEF Together, DownInv
  <1> QED
    BY <1>4, <1>5

LEMMA AttachedTogether == ASSUME Together, Attached PROVE Together'
  <1>1. /\ UNCHANGED <<doc, mirror, snap, fetching, storing, down, up, hand, known, disk, touched, reading>>
        /\ phase = "writing" /\ phase' = "attached" /\ ~Awaited("attach")
    BY DEF Attached, agent
  <1>2. RoomInv'
    BY <1>1 DEF Together, RoomInv
  <1>3. Target' = Target
    BY <1>1 DEF Target
  <1>4. DownInv'
    BY <1>1, <1>3 DEF Together, DownInv, Sends, Busy, Rising
  <1>5. InLine' = InLine /\ Latest' = Latest /\ Busy' = Busy
    BY <1>1, <1>3 DEF InLine, Awaited, Latest, Busy
  <1>6. AgentInv'
    BY <1>1, <1>5 DEF Together, AgentInv
  <1> QED
    BY <1>2, <1>4, <1>6 DEF Together

\* The room takes over what the watcher told last; it may be an echo.
LEMMA AppliedTogether ==
    ASSUME Types, Waits, Together, Alive, Attaching => doc' = doc,
           NEW c, mirror' = c, doc' = c, Rising,
           UNCHANGED <<phase, snap, fetching, down, hand, known, disk, touched, reading>>,
           Rising' => Latest' = Latest, ~Rising' => c = Latest
    PROVE  Together'
  <1>1. ~Busy /\ down = <<>> /\ hand = Idle /\ fetching = {}
    BY DEF Together, DownInv, Busy
  <1>2. RoomInv'
    BY DEF Together, RoomInv, Attaching
  <1>3. ~Busy' /\ DownInv'
    BY <1>1 DEF DownInv, Busy
  <1>4. InLine' = InLine
    BY DEF InLine, Awaited
  <1>5. Target' = c
    BY DEF Target
  <1>6. ~Rising' => Latest' = c
    BY <1>5 DEF Latest, Rising
  <1>7. AgentInv'
    BY <1>1, <1>4, <1>6 DEF Together, AgentInv
  <1> QED
    BY <1>2, <1>3, <1>7 DEF Together

LEMMA ApplyTogether ==
    ASSUME Types, Waits, Together, Alive, Apply, Attaching => doc' = doc
    PROVE  Together'
  <1>1. /\ up # <<>> /\ ~storing.seen /\ up' = Tail(up)
        /\ UNCHANGED <<phase, snap, fetching, down, hand, known, disk, touched, reading>>
    BY DEF Apply, agent
  <1>2. Rising /\ Latest = up[Len(up)].content
    BY <1>1 DEF Rising, Latest
  <1>3. /\ up' # <<>> => Len(up') \in Nat /\ up'[Len(up')] = up[Len(up)]
        /\ up' = <<>> => up[Len(up)] = Head(up)
    <2>1. up \in Seq([seen : {TRUE}, content : MaybeFile])
      BY DEF Types
    <2>2. /\ Len(up') = Len(up) - 1 /\ Len(up) \in Nat \ {0}
          /\ \A i \in 1..(Len(up) - 1) : up'[i] = up[i + 1]
          /\ up' = <<>> <=> Len(up) = 1
          /\ Head(up) = up[1]
      BY <1>1, <2>1, TailFacts
    <2> QED
      BY <2>2
  <1>4. CASE Head(up).content \in Blobs
    <2>1. storing' = Head(up) /\ UNCHANGED <<doc, dirty, treeDirty, timer, mirror>>
      BY <1>4 DEF Apply, room
    <2>2. Head(up).seen
      <3>1. up \in Seq([seen : {TRUE}, content : MaybeFile])
        BY DEF Types
      <3>2. Head(up) \in [seen : {TRUE}, content : MaybeFile]
        BY <1>1, <3>1, TailFacts
      <3> QED
        BY <3>2
    <2>3. Rising' /\ Latest' = Latest
      BY <1>2, <1>3, <2>1, <2>2 DEF Rising, Latest
    <2>4. ~Busy /\ down = <<>> /\ hand = Idle /\ fetching = {}
      BY <1>2 DEF Together, DownInv, Busy
    <2>5. InLine' = InLine
      BY <1>1 DEF InLine, Awaited
    <2>6. RoomInv'
      BY <1>1, <2>1 DEF Together, RoomInv, Pushes
    <2>7. DownInv'
      BY <1>1, <2>4 DEF DownInv, Busy
    <2>8. AgentInv'
      BY <1>1, <2>3, <2>4, <2>5 DEF Together, AgentInv
    <2> QED
      BY <2>6, <2>7, <2>8 DEF Together
  <1>5. CASE Head(up).content \notin Blobs
    <2> DEFINE c == Head(up).content
    <2>1. mirror' = c /\ doc' = c /\ storing' = storing
      BY <1>5 DEF Apply, Becomes
    <2>2. Rising' => up' # <<>> /\ Latest' = Latest
      BY <1>1, <1>2, <1>3, <2>1 DEF Rising, Latest
    <2>3. ~Rising' => c = Latest
      BY <1>1, <1>2, <1>3 DEF Rising
    <2> HIDE DEF c
    <2> QED
      BY <1>1, <1>2, <2>1, <2>2, <2>3, AppliedTogether
  <1> QED
    BY <1>4, <1>5

LEMMA StoredTogether ==
    ASSUME Types, Waits, Together, Alive, Stored, Attaching => doc' = doc
    PROVE  Together'
  <1> DEFINE c == storing.content
  <1>1. /\ storing.seen /\ storing' = Nothing /\ mirror' = c /\ doc' = c
        /\ UNCHANGED <<phase, snap, fetching, down, up, hand, known, disk, touched, reading>>
    BY DEF Stored, agent, Becomes
  <1>2. Rising
    BY <1>1 DEF Rising
  <1>3. Rising' => Latest' = Latest
    BY <1>1 DEF Rising, Latest, Nothing
  <1>4. ~Rising' => c = Latest
    BY <1>1 DEF Rising, Latest
  <1> HIDE DEF c
  <1> QED
    BY <1>1, <1>2, <1>3, <1>4, AppliedTogether

\* A blob's bytes are still wanted when they come, and are sent.
LEMMA FetchedTogether ==
    ASSUME Types, Waits, Together, NEW z \in fetching, Fetched(z), ~(Busy' /\ Rising')
    PROVE  Together'
  <1> DEFINE op == Op("write", z.content, z.by)
  <1>1. /\ UNCHANGED <<doc, dirty, treeDirty, timer, mirror, phase, snap, storing, up>>
        /\ UNCHANGED <<hand, known, disk, touched, reading>> /\ fetching' = fetching \ {z}
    BY DEF Fetched, agent, room
  <1>2. z.content = mirror /\ z.content = Target
    BY DEF Together, DownInv
  <1>3. op \in OpType /\ op.do = "write" /\ op.content = z.content /\ op.by = z.by /\ z.by # "none"
    <2>1. z.content \in MaybeFile /\ z.by \in {"push", "attach"}
      BY DEF MaybeFile, Contents, Types
    <2> QED
      BY <2>1, OpIsOp
  <1>4. down' = Append(down, op)
    BY <1>2 DEF Fetched
  <1>5. /\ \A i \in DOMAIN down' : (i \in DOMAIN down /\ down'[i] = down[i]) \/ down'[i] = op
        /\ \A i \in DOMAIN down : i \in DOMAIN down' /\ down'[i] = down[i]
        /\ Len(down) + 1 \in DOMAIN down' /\ down'[Len(down) + 1] = op /\ down' # <<>>
    BY <1>3, <1>4, Appended
  <1>6. Busy'
    BY <1>5 DEF Busy
  <1>7. Target' = Target
    BY <1>1 DEF Target
  <1>8. RoomInv'
    BY <1>1 DEF Together, RoomInv, Pushes
  <1>9. DownInv'
    <2>1. \A i \in DOMAIN down' : Sends(down[i])'
      BY <1>1, <1>2, <1>3, <1>5, <1>7 DEF Together, DownInv, Sends
    <2> QED
      BY <1>1, <1>7, <2>1 DEF Together, DownInv, Sends
  <1>10. InLine' => InLine
    <2>1. ~Awaited("attach")' => ~Awaited("attach")
      BY <1>1, <1>3, <1>5 DEF Awaited
    <2> QED
      BY <1>1, <2>1 DEF InLine
  <1>11. AgentInv'
    BY <1>1, <1>6, <1>10 DEF Together, AgentInv
  <1> QED
    BY <1>8, <1>9, <1>11 DEF Together

LEMMA TakeTogether ==
    ASSUME Types, Waits, Together, Take, ~(Busy' /\ Rising')
    PROVE  Together'
  <1>1. /\ UNCHANGED <<doc, dirty, treeDirty, timer, mirror, phase, snap, fetching, storing, up>>
        /\ UNCHANGED <<disk, touched, reading>> /\ down # <<>> /\ hand' = Head(down) /\ down' = Tail(down)
    BY DEF Take, runner, room
  <1>2. /\ hand' = down[1] /\ 1 \in DOMAIN down
        /\ \A i \in DOMAIN down' : i + 1 \in DOMAIN down /\ down'[i] = down[i + 1]
    BY <1>1, TailFacts DEF Types
  <1>3. hand'.do \in {"write", "delete", "reconcile"} /\ hand' # Idle
    BY <1>2, OpInQueue DEF Waits, RealOps, OpType, Idle
  <1>4. Busy' /\ Target' = Target
    BY <1>1, <1>3 DEF Busy, Target
  <1>5. RoomInv'
    BY <1>1 DEF Together, RoomInv, Pushes
  <1>6. Sends(hand)' /\ \A i \in DOMAIN down' : Sends(down[i])'
    BY <1>1, <1>2, <1>4 DEF Together, DownInv, Sends
  <1>7. DownInv'
    BY <1>1, <1>4, <1>6 DEF Together, DownInv
  <1>8. (hand'.do = "reconcile" => hand'.content = Absent) => known' = hand'.content
    BY <1>1, <1>3, <1>6 DEF Take, Sends
  <1>9. AgentInv'
    BY <1>3, <1>4, <1>8 DEF AgentInv
  <1> QED
    BY <1>5, <1>7, <1>9 DEF Together

LEMMA DoneTogether ==
    ASSUME Types, Waits, Together, Done, ~(Busy' /\ Rising')
    PROVE  Together'
  <1>1. /\ UNCHANGED <<doc, dirty, treeDirty, timer, mirror, phase, snap, fetching, storing, up, down>>
        /\ UNCHANGED <<known, reading>> /\ hand # Idle /\ hand' = Idle /\ disk' = Result(hand)
    BY DEF Done, runner, room
  <1>2. RoomInv'
    BY <1>1 DEF Together, RoomInv, Pushes
  <1>3. Target' = Target
    BY <1>1 DEF Target
  <1>4. DownInv'
    BY <1>1, <1>3 DEF Together, DownInv, Sends
  <1>5. Sends(hand) /\ ~Rising
    BY <1>1 DEF Together, DownInv, Busy
  <1>6. CASE hand.do = "reconcile" /\ hand.content # Absent
    <2>1. phase = "reconciling" /\ snap # Absent
      BY <1>5, <1>6 DEF Sends, Together, RoomInv, Target
    <2>2. ~InLine'
      BY <1>1, <2>1 DEF InLine
    <2> QED
      BY <1>1, <1>2, <1>4, <2>2 DEF Together, AgentInv
  <1>7. CASE ~(hand.do = "reconcile" /\ hand.content # Absent)
    <2>1. known = hand.content /\ disk' = hand.content
      BY <1>1, <1>7 DEF Together, AgentInv, Result
    <2>2. Latest' = hand.content
      BY <1>1, <1>3, <1>5 DEF Latest, Rising, Sends
    <2>3. AgentInv'
      BY <1>1, <2>1, <2>2 DEF AgentInv
    <2> QED
      BY <1>2, <1>4, <2>3 DEF Together
  <1> QED
    BY <1>6, <1>7

-----------------------------------------------------------------------------
(* The invariant, and what it says of quiet states.                        *)

LEMMA NextTogether ==
    ASSUME Types, Waits, SyncInv, Next, ~parted', Alive' PROVE Together'
  <1>1. Remember
    BY DEF Next, Sync, AgentStep, Edit, Program, OtherEdit, Attach, Lose, Flush, AttachWrite, Attached,
           Apply, Stored, Fetched, Take, Done, Inspect, Compare, Refused, StoreFails, FetchFails, Late
  <1>2. /\ ~(Busy' /\ Rising') /\ failures' = failures
        /\ Attaching => doc' = doc
        /\ parted => ~Alive /\ phase' = "reconciling"
    BY <1>1, NotParted
  <1>3. CASE Attach
    BY <1>2, <1>3, AttachTogether
  <1>4. CASE ~Attach
    <2>1. phase' = phase \/ phase' \in {"writing", "attached", "off"}
      BY <1>4 DEF Next, Sync, AgentStep, Edit, Program, OtherEdit, Attach, Lose, Flush, AttachWrite,
           Attached, Apply, Stored, Fetched, Take, Done, Inspect, Compare, Refused, StoreFails, FetchFails,
           Late, runner
    <2>2. failures \in Nat /\ failures' # failures + 1
      BY <1>2 DEF Types
    <2>3. ~Lose /\ ~Refused /\ ~StoreFails /\ (\A z \in fetching : ~FetchFails(z))
          /\ (\A i \in DOMAIN down : ~Late(i))
      BY <2>2 DEF Lose, Refused, StoreFails, FetchFails, Late
    <2>4. Alive
      <3>1. phase' = phase \/ phase \in {"reconciling", "writing"}
        BY <1>4, <2>3 DEF Next, Sync, AgentStep, Edit, Program, OtherEdit, Flush, AttachWrite,
           Attached, Apply, Stored, Fetched, Take, Done, Inspect, Compare, runner
      <3> QED
        BY <3>1 DEF Alive
    <2>5. Together
      BY <1>2, <2>4 DEF SyncInv, Together
    <2>6. ~(Busy /\ Rising)
      BY <2>5 DEF Together, DownInv
    <2>7. ASSUME NEW c \in RoomTexts \cup RoomBlobs \cup {Absent}, Edit(c) PROVE Together'
      <3>1. c # doc /\ Becomes(c) /\ UNCHANGED <<runner, down, up, agent>>
        BY <2>7 DEF Edit
      <3>2. doc' = c /\ ~Attaching /\ c \in MaybeFile
        BY <1>2, <3>1 DEF Becomes, MaybeFile, Contents, Texts, Blobs
      <3> QED
        BY <2>4, <2>5, <2>6, <3>1, <3>2, EditTogether
    <2>8. CASE (\E c \in ProgramTexts \cup ProgramBlobs \cup {Absent} : Program(c)) \/ Inspect \/ Compare
      BY <1>2, <2>5, <2>8, WatcherTogether DEF SyncInv
    <2>9. ASSUME NEW z \in fetching, Fetched(z) PROVE Together'
      BY <1>2, <2>5, <2>9, FetchedTogether
    <2>10. CASE OtherEdit \/ Flush \/ AttachWrite \/ Attached
      BY <1>2, <2>4, <2>5, <2>10, OtherEditTogether, FlushTogether, AttachWriteTogether, AttachedTogether
    <2>11. CASE Apply \/ Stored
      BY <1>2, <2>4, <2>5, <2>11, ApplyTogether, StoredTogether
    <2>12. CASE Take \/ Done
      BY <1>2, <2>5, <2>12, TakeTogether, DoneTogether
    <2> QED
      BY <1>4, <2>3, <2>7, <2>8, <2>9, <2>10, <2>11, <2>12 DEF Next, Sync, AgentStep
  <1> QED
    BY <1>3, <1>4

\* The two sides are the same file when nothing is under way, unless
\* something that parts them has happened since the attach.
THEOREM QuietSidesAreEqual == Spec => []QuietIsEqual
  <1> DEFINE All == Types /\ Waits /\ SyncInv
  <1>1. Init => All
    <2> SUFFICES ASSUME Init PROVE All
      OBVIOUS
    <2>1. Types /\ Waits
      BY InitTypes
    <2>2. ~Alive /\ ~reading.seen
      BY DEF Init, Alive, Nothing
    <2> QED
      BY <2>1, <2>2 DEF SyncInv, Waits, ReadIsDisk
  <1>2. All /\ [Next]_vars => All'
    <2> SUFFICES ASSUME All, [Next]_vars PROVE All'
      OBVIOUS
    <2>1. Types' /\ Waits'
      BY StepTypes
    <2>2. CASE Next
      <3>1. ReadIsDisk'
        BY <2>2, NextRead DEF SyncInv
      <3>2. ~parted' /\ Alive' => Together'
        BY <2>2, NextTogether
      <3> QED
        BY <2>1, <3>1, <3>2 DEF SyncInv, Waits, Together
    <2>3. CASE UNCHANGED vars
      <3>1. /\ UNCHANGED <<doc, dirty, treeDirty, timer, mirror, phase, snap, fetching, storing, down, up>>
            /\ UNCHANGED <<hand, known, disk, touched, reading, parted>>
        BY <2>3 DEF vars, room, runner, agent, bounds
      <3>2. Alive' = Alive /\ RoomInv' = RoomInv /\ DownInv' = DownInv /\ ReadIsDisk' = ReadIsDisk
        BY <3>1 DEF Alive, RoomInv, Pushes, DownInv, Sends, Busy, Rising, Target, ReadIsDisk
      <3>3. AgentInv' = AgentInv
        BY <3>1 DEF AgentInv, InLine, Awaited, Latest, Target, Busy
      <3> QED
        BY <2>1, <3>1, <3>2, <3>3 DEF SyncInv, Waits
    <2> QED
      BY <2>2, <2>3
  <1>3. All => QuietIsEqual
    <2> SUFFICES ASSUME All, Quiet, ~parted PROVE doc = disk /\ mirror = disk /\ known = disk
      BY DEF QuietIsEqual
    <2>1. phase = "attached" /\ ~timer /\ ~Busy /\ ~Rising /\ hand = Idle /\ ~touched /\ ~reading.seen
      BY DEF Quiet, Busy, Rising
    <2>2. RoomInv /\ DownInv /\ AgentInv
      BY <2>1 DEF SyncInv, Alive
    <2>3. InLine
      BY <2>1 DEF InLine, Waits, Attaching
    <2>4. mirror = doc
      BY <2>1, <2>2 DEF RoomInv
    <2>5. Latest = mirror
      BY <2>1 DEF Latest, Rising, Target
    <2> QED
      BY <2>1, <2>2, <2>3, <2>4, <2>5 DEF AgentInv
  <1> QED
    BY <1>1, <1>2, <1>3, PTL DEF Spec

=============================================================================
