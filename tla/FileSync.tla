------------------------------- MODULE FileSync -------------------------------
(***************************************************************************)
(* One path of a room's files between the room's document and the disk of  *)
(* its sandbox: the runner's DocSync (apps/runner/src/doc-sync.ts), its    *)
(* channel to the agent (agent-channel.ts) and the agent with its watcher  *)
(* and Workspace (sandbox/agent/src).                                      *)
(*                                                                         *)
(* The channel is a queue each way.  An await ends a step, on either side: *)
(* the agent's operations, one after another, and its watcher are two      *)
(* chains of promises that interleave.  A file is its content, a text or a *)
(* binary one, or Absent; who wrote it first, a person in the room or a    *)
(* program in the sandbox, is told from the content.                       *)
(***************************************************************************)
EXTENDS Naturals, Sequences

CONSTANTS
    RoomTexts, RoomBlobs,         \* what people in the room make of the file
    ProgramTexts, ProgramBlobs,   \* what programs in the sandbox make of it
    Absent,                       \* no such file
    MaxEdits,       \* bound on people's changes
    MaxWrites,      \* bound on programs' changes
    MaxFailures     \* bound on failed or late requests, the object store's failures
                    \* and stops and resets of the container

Texts    == RoomTexts \cup ProgramTexts
Blobs    == RoomBlobs \cup ProgramBlobs
Contents == Texts \cup Blobs

ASSUME ContentsAssumption == /\ Absent \notin Contents
                             /\ Texts \cap Blobs = {}
ASSUME BoundsAssumption == MaxEdits \in Nat /\ MaxWrites \in Nat /\ MaxFailures \in Nat

VARIABLES
    doc,        \* the file in the room's document
    mirror,     \* written and writtenBlobs: what the runner believes the agent has
    dirty,      \* the file is in dirtyTexts
    treeDirty,
    timer,      \* a flush is scheduled, or chained behind the one that runs
    phase,      \* how far attach is
    snap,       \* the snapshot attach took, until it is sent
    fetching,   \* blobs on their way from the object store
    storing,    \* the binary blobFromSandbox is storing
    down, up,   \* the channel: operations to the agent, events from it
    hand,       \* the operation the agent is at
    known, disk,
    touched,    \* the watcher has the path in its next batch
    reading,    \* what inspect has read and not compared yet
    parted,     \* history: something that may leave the two sides different
    edits, writes, failures

room     == <<doc, dirty, treeDirty, timer>>
runner   == <<mirror, phase, snap, fetching, storing>>
agent    == <<hand, known, disk, touched, reading>>
bounds   == <<edits, writes, failures>>
vars     == <<room, runner, down, up, agent, parted, bounds>>

Idle     == [do |-> "idle", content |-> Absent, by |-> "none"]
Op(do, content, by) == [do |-> do, content |-> content, by |-> by]
Nothing  == [seen |-> FALSE, content |-> Absent]
Seen(c)  == [seen |-> TRUE, content |-> c]

\* The agent of the last attach answers.  Before the first there is none.
Alive     == phase \notin {"none", "off"}
Attaching == phase \in {"reconciling", "writing"}

\* Somebody still awaits an operation, or the fetch that comes before it.
Awaited(who) ==
    \/ \E i \in DOMAIN down : down[i].by = who
    \/ hand.by = who
    \/ \E x \in fetching : x.by = who

Init ==
    /\ doc \in RoomTexts \cup RoomBlobs \cup {Absent} /\ snap = Absent
    /\ mirror = Absent /\ known = Absent /\ disk = Absent
    /\ dirty = FALSE /\ treeDirty = TRUE /\ timer = FALSE
    /\ phase = "none" /\ fetching = {} /\ storing = Nothing
    /\ down = <<>> /\ up = <<>>
    /\ hand = Idle /\ touched = FALSE /\ reading = Nothing
    /\ parted = FALSE
    /\ edits = 0 /\ writes = 0 /\ failures = 0

\* An event and an operation are under way at the same time: each side is
\* about to take over what the other one has.
Crossing == (up # <<>> \/ storing.seen) /\ (down # <<>> \/ hand # Idle \/ fetching # {})

\* What may leave the two sides different until the file changes again.
Remember ==
    parted' = \/ parted /\ ~(~Alive /\ phase' = "reconciling")
              \/ Crossing'
              \/ Attaching /\ doc' # doc
              \/ failures' # failures

-----------------------------------------------------------------------------
(* The document and its observers.                                         *)

\* The document's file becomes c.  Text that replaces text is a change of
\* contents; everything else is one of the tree.  A flush is scheduled once
\* there has been an agent, be it one that is gone.
Becomes(c) ==
    /\ doc' = c
    /\ IF doc = c THEN UNCHANGED <<dirty, treeDirty, timer>>
       ELSE /\ IF doc \in Texts /\ c \in Texts
               THEN dirty' = TRUE /\ UNCHANGED treeDirty
               ELSE treeDirty' = TRUE /\ UNCHANGED dirty
            /\ timer' = (timer \/ phase # "none")

\* Somebody in the room edits, uploads, creates or removes the file.
Edit(c) ==
    /\ c # doc /\ edits < MaxEdits /\ edits' = edits + 1
    /\ Becomes(c)
    /\ UNCHANGED <<runner, down, up, agent, writes, failures>>
    /\ Remember

\* Something else in the tree changed.
OtherEdit ==
    /\ ~treeDirty /\ edits < MaxEdits /\ edits' = edits + 1
    /\ treeDirty' = TRUE /\ timer' = (timer \/ phase # "none")
    /\ UNCHANGED <<doc, dirty, runner, down, up, agent, writes, failures>>
    /\ Remember

-----------------------------------------------------------------------------
(* Down: the runner sends what differs from the mirror.                    *)

\* A write of c: a text at once, a binary file when its bytes have come.
Send(c, by) ==
    IF c \in Blobs THEN fetching' = fetching \cup {[content |-> c, by |-> by]} /\ UNCHANGED down
                   ELSE down' = Append(down, Op("write", c, by)) /\ UNCHANGED fetching

\* The container runs with a new agent, and attach takes its snapshot.
Attach ==
    /\ ~Alive /\ phase' = "reconciling"
    /\ snap' = doc /\ down' = <<Op("reconcile", doc, "attach")>>
    /\ UNCHANGED <<room, mirror, fetching, storing, up, agent, bounds>>
    /\ Remember

\* Mutant: only what the last agent did not have is written.
AttachDiff ==
    /\ phase = "reconciling" /\ ~Awaited("attach")
    /\ phase' = "writing" /\ mirror' = snap /\ snap' = Absent
    /\ IF snap = Absent \/ snap = mirror THEN UNCHANGED <<fetching, down>> ELSE Send(snap, "attach")
    /\ UNCHANGED <<room, storing, up, agent, bounds>>
    /\ Remember

\* The workspace is reconciled: everything in the snapshot is written.
AttachWrite ==
    /\ phase = "reconciling" /\ ~Awaited("attach")
    /\ phase' = "writing" /\ mirror' = snap /\ snap' = Absent
    /\ IF snap = Absent THEN UNCHANGED <<fetching, down>> ELSE Send(snap, "attach")
    /\ UNCHANGED <<room, storing, up, agent, bounds>>
    /\ Remember

\* Mutant: the writes are not awaited.
AttachedEarly ==
    /\ phase = "writing"
    /\ phase' = "attached" /\ dirty' = FALSE /\ treeDirty' = FALSE
    /\ UNCHANGED <<doc, timer, mirror, snap, fetching, storing, down, up, agent, bounds>>
    /\ Remember

\* The writes are answered, or have failed: the room and the agent are equal,
\* and what changed meanwhile is not looked at.
Attached ==
    /\ phase = "writing" /\ ~Awaited("attach")
    /\ phase' = "attached" /\ dirty' = FALSE /\ treeDirty' = FALSE
    /\ UNCHANGED <<doc, timer, mirror, snap, fetching, storing, down, up, agent, bounds>>
    /\ Remember

\* Mutant: a push looks only at the texts that changed.
PushesTexts(c) == c \in Texts /\ dirty

\* What a push has to look at: texts that changed, or the whole tree.
Pushes(c) == treeDirty \/ (c \in Texts /\ dirty)

\* The timer fires, or the flush before it is over.  Without an agent there
\* is nothing to do, and what is dirty stays so.
Flush ==
    /\ timer /\ ~Awaited("push")
    /\ timer' = FALSE
    /\ IF ~Alive THEN UNCHANGED <<dirty, treeDirty, mirror, fetching, down>>
       ELSE /\ dirty' = FALSE /\ treeDirty' = FALSE
            /\ IF ~Pushes(doc) \/ mirror = doc THEN UNCHANGED <<mirror, fetching, down>>
               ELSE /\ mirror' = doc
                    /\ IF doc = Absent
                       THEN down' = Append(down, Op("delete", Absent, "push")) /\ UNCHANGED fetching
                       ELSE Send(doc, "push")
    /\ UNCHANGED <<doc, phase, snap, storing, up, agent, bounds>>
    /\ Remember

\* A binary file's bytes have come: they are written unless the room has
\* moved on.
Fetched(x) ==
    /\ fetching' = fetching \ {x}
    /\ IF mirror = x.content THEN down' = Append(down, Op("write", x.content, x.by)) ELSE UNCHANGED down
    /\ UNCHANGED <<room, mirror, phase, snap, storing, up, agent, bounds>>
    /\ Remember

\* They are missing, or the store fails.
FetchFails(x) ==
    /\ failures < MaxFailures /\ failures' = failures + 1
    /\ fetching' = fetching \ {x}
    /\ UNCHANGED <<room, mirror, phase, snap, storing, down, up, agent, edits, writes>>
    /\ Remember

\* A request is not answered in time.  The agent gets to it all the same.
\* An attach that fails is not tried again: the agent is set already.
Late(i) ==
    /\ down[i].by # "none" /\ failures < MaxFailures /\ failures' = failures + 1
    /\ down' = [down EXCEPT ![i].by = "none"]
    /\ phase' = IF down[i].by = "attach" THEN "attached" ELSE phase
    /\ UNCHANGED <<room, mirror, snap, fetching, storing, up, agent, edits, writes>>
    /\ Remember

-----------------------------------------------------------------------------
(* The agent: its operations.                                              *)

\* Mutant: known is set when the file is in place.
TakeUnknown ==
    /\ hand = Idle /\ down # <<>>
    /\ hand' = Head(down) /\ down' = Tail(down)
    /\ UNCHANGED <<room, runner, up, known, disk, touched, reading, bounds>>
    /\ Remember

\* The next operation: known changes before the disk does.
Take ==
    /\ hand = Idle /\ down # <<>>
    /\ hand' = Head(down) /\ down' = Tail(down)
    /\ known' = CASE Head(down).do = "write"     -> Head(down).content
                  [] Head(down).do = "delete"    -> Absent
                  [] Head(down).do = "reconcile" -> IF Head(down).content = Absent THEN Absent ELSE known
    /\ UNCHANGED <<room, runner, up, disk, touched, reading, bounds>>
    /\ Remember

\* What the operation leaves on the disk.
Result(op) == IF op.do = "reconcile" /\ op.content # Absent THEN disk ELSE op.content

\* Mutant: a file left alone is not answered for.
DoneIfChanged ==
    /\ hand # Idle /\ disk # Result(hand) /\ hand' = Idle
    /\ disk' = Result(hand) /\ touched' = TRUE
    /\ UNCHANGED <<room, runner, down, up, known, reading, bounds>>
    /\ Remember

\* The operation ends and is answered.  A file that is as it should be is
\* left alone; anything else the watcher sees.
Done ==
    /\ hand # Idle /\ hand' = Idle
    /\ disk' = Result(hand)
    /\ touched' = (touched \/ disk # Result(hand))
    /\ UNCHANGED <<room, runner, down, up, known, reading, bounds>>
    /\ Remember

\* It fails, the disk being full: known and the mirror say otherwise.
Refused ==
    /\ hand # Idle /\ hand' = Idle
    /\ failures < MaxFailures /\ failures' = failures + 1
    /\ phase' = IF hand.by = "attach" THEN "attached" ELSE phase
    /\ UNCHANGED <<room, mirror, snap, fetching, storing, down, up, known, disk, touched, reading,
                   edits, writes>>
    /\ Remember

-----------------------------------------------------------------------------
(* Up: programs change the disk, the watcher looks, the runner applies.    *)

Program(c) ==
    /\ Alive /\ c # disk /\ writes < MaxWrites /\ writes' = writes + 1
    /\ disk' = c /\ touched' = TRUE
    /\ UNCHANGED <<room, runner, down, up, hand, known, reading, edits, failures>>
    /\ Remember

\* The batch of the watcher: inspect reads the path ...
Inspect ==
    /\ touched /\ touched' = FALSE
    /\ ~reading.seen /\ reading' = Seen(disk)
    /\ UNCHANGED <<room, runner, down, up, hand, known, disk, bounds>>
    /\ Remember

\* Mutant: what was read is reported and not remembered.
CompareForgets ==
    /\ reading.seen /\ reading' = Nothing
    /\ up' = IF known = reading.content THEN up ELSE Append(up, reading)
    /\ UNCHANGED <<room, runner, down, hand, known, disk, touched, bounds>>
    /\ Remember

\* ... and reports it, or its removal, if the room is not known to have it.
Compare ==
    /\ reading.seen /\ reading' = Nothing
    /\ known' = reading.content
    /\ up' = IF known = reading.content THEN up ELSE Append(up, reading)
    /\ UNCHANGED <<room, runner, down, hand, disk, touched, bounds>>
    /\ Remember

\* Mutant: the mirror is not told.
ApplyUnmirrored ==
    /\ up # <<>> /\ ~storing.seen
    /\ up' = Tail(up)
    /\ IF Head(up).content \in Blobs
       THEN storing' = Head(up) /\ UNCHANGED <<room, mirror>>
       ELSE Becomes(Head(up).content) /\ UNCHANGED <<storing, mirror>>
    /\ UNCHANGED <<phase, snap, fetching, down, agent, bounds>>
    /\ Remember

\* The runner applies the next event.  A binary file is stored first.
Apply ==
    /\ up # <<>> /\ ~storing.seen
    /\ up' = Tail(up)
    /\ IF Head(up).content \in Blobs
       THEN storing' = Head(up) /\ UNCHANGED <<room, mirror>>
       ELSE mirror' = Head(up).content /\ Becomes(Head(up).content) /\ UNCHANGED storing
    /\ UNCHANGED <<phase, snap, fetching, down, agent, bounds>>
    /\ Remember

Stored ==
    /\ storing.seen /\ storing' = Nothing
    /\ mirror' = storing.content /\ Becomes(storing.content)
    /\ UNCHANGED <<phase, snap, fetching, down, up, agent, bounds>>
    /\ Remember

StoreFails ==
    /\ storing.seen /\ storing' = Nothing
    /\ failures < MaxFailures /\ failures' = failures + 1
    /\ UNCHANGED <<room, mirror, phase, snap, fetching, down, up, agent, edits, writes>>
    /\ Remember

-----------------------------------------------------------------------------
\* The container stops or is reset, and with it agent and programs; the
\* workspace's volume stays.  Events that wait for a binary file to be stored
\* have come already and are applied all the same.
Lose ==
    /\ Alive /\ failures < MaxFailures /\ failures' = failures + 1
    /\ phase' = "off" /\ snap' = Absent /\ down' = <<>> /\ fetching' = {}
    /\ up' = <<>> \/ (storing.seen /\ up' = up)
    /\ hand' = Idle /\ known' = Absent /\ touched' = FALSE /\ reading' = Nothing
    /\ UNCHANGED <<room, mirror, storing, disk, edits, writes>>
    /\ Remember

Sync == Flush \/ AttachWrite \/ Attached \/ Apply \/ Stored \/ \E x \in fetching : Fetched(x)
AgentStep == Take \/ Done \/ Inspect \/ Compare

Next ==
    \/ \E c \in RoomTexts \cup RoomBlobs \cup {Absent} : Edit(c)
    \/ \E c \in ProgramTexts \cup ProgramBlobs \cup {Absent} : Program(c)
    \/ OtherEdit
    \/ Attach \/ Lose
    \/ Sync
    \/ AgentStep
    \/ Refused \/ StoreFails
    \/ \E x \in fetching : FetchFails(x)
    \/ \E i \in DOMAIN down : Late(i)

Spec == Init /\ [][Next]_vars

\* The runner's timers and promises, the agent and its watcher go on.
Fairness == /\ WF_vars(Flush) /\ WF_vars(AttachWrite \/ Attached) /\ WF_vars(Apply \/ Stored)
            /\ WF_vars(\E x \in fetching : Fetched(x))
            /\ WF_vars(Take \/ Done) /\ WF_vars(Inspect \/ Compare)

FairSpec == Spec /\ Fairness
-----------------------------------------------------------------------------
(* What the code must keep.                                                *)

MaybeFile == Contents \cup {Absent}
OpType == [do : {"idle", "write", "delete", "reconcile"}, content : MaybeFile,
           by : {"none", "push", "attach"}]

\* Types; without a sandbox nothing is under way to one; and attach
\* is over only when no request of its own is waited for.
TypeOK ==
    /\ ~Alive => down = <<>> /\ hand = Idle /\ fetching = {} /\ snap = Absent
    /\ Awaited("attach") => Attaching
    /\ doc \in MaybeFile /\ mirror \in MaybeFile /\ known \in MaybeFile
    /\ disk \in MaybeFile /\ snap \in MaybeFile
    /\ dirty \in BOOLEAN /\ treeDirty \in BOOLEAN /\ timer \in BOOLEAN
    /\ touched \in BOOLEAN /\ parted \in BOOLEAN
    /\ phase \in {"none", "off", "reconciling", "writing", "attached"}
    /\ fetching \subseteq [content : Blobs, by : {"push", "attach"}]
    /\ storing \in [seen : BOOLEAN, content : MaybeFile]
    /\ reading \in [seen : BOOLEAN, content : MaybeFile]
    /\ hand \in OpType /\ down \in Seq(OpType)
    /\ up \in Seq([seen : {TRUE}, content : MaybeFile])
    /\ edits \in 0..MaxEdits /\ writes \in 0..MaxWrites
    /\ failures \in 0..MaxFailures

\* Nothing is under way between the room and the sandbox.
Quiet ==
    /\ phase = "attached" /\ ~timer
    /\ down = <<>> /\ hand = Idle /\ fetching = {}
    /\ ~touched /\ ~reading.seen /\ up = <<>> /\ ~storing.seen

\* The room's file and the one on disk are the same when nothing is under
\* way, unless one of the things Remember names has happened since the
\* attach: an event and an operation crossed, the file changed while attach
\* was at work, a request or the object store failed.  Nothing else, such as
\* a program's write, an echo, a restart or a late blob, parts them.
QuietIsEqual == Quiet /\ ~parted => doc = disk /\ mirror = disk /\ known = disk

\* Changes die down: the two sides do not echo each other for ever, and no
\* request keeps a flush waiting for good.
Settles == []<>(~Alive \/ Quiet)

\* Claim of workspace.ts: the file-system events of the agent's own writes
\* match what it knows, so nothing is echoed to the room, and only what
\* programs change is reported.  So with no program at work only people
\* change the room's file.
NothingIsEchoed == [][writes = 0 /\ edits' = edits => doc' = doc]_vars
=============================================================================
