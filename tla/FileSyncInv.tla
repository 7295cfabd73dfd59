----------------------------- MODULE FileSyncInv -----------------------------
(***************************************************************************)
(* The inductive invariant behind FileSync's safety: while nothing has     *)
(* parted the two sides, what is under way can only make them equal.       *)
(***************************************************************************)
EXTENDS FileSync

\* The operations under way are no idle ones, and at most one of them, or of
\* the fetches before one, is awaited by attach.
RealOps ==
    /\ \A i \in DOMAIN down : down[i].do # "idle"
    /\ hand.do = "idle" => hand = Idle
AttachWaitsOnce ==
    /\ \A i, j \in DOMAIN down : down[i].by = "attach" /\ down[j].by = "attach" => i = j
    /\ \A i \in DOMAIN down : down[i].by = "attach" => hand.by # "attach"
    /\ \A x \in fetching : x.by = "attach" =>
         hand.by # "attach" /\ \A i \in DOMAIN down : down[i].by # "attach"
    /\ \A x, y \in fetching : x.by = "attach" /\ y.by = "attach" => x = y

\* What the watcher has read is what is on the disk until it is touched again.
ReadIsDisk == reading.seen /\ ~touched => reading.content = disk

\* Something is on its way to the agent, or to the room.
Busy    == down # <<>> \/ hand # Idle \/ fetching # {}
Rising  == up # <<>> \/ storing.seen

\* What the agent is being given, and what it told the room last.
Target  == IF phase = "reconciling" THEN doc ELSE mirror
Latest  == IF up # <<>> THEN up[Len(up)].content
           ELSE IF storing.seen THEN storing.content ELSE Target

\* The agent has been given the file by this attach.
InLine  == /\ ~Awaited("attach")
           /\ phase \in {"writing", "attached"} \/ (phase = "reconciling" /\ snap = Absent)

\* The room's side: attach sends what the room has, and afterwards what the
\* room has is what the runner sent, or a flush is coming.
RoomInv ==
    /\ phase = "reconciling" => snap = doc
    /\ phase = "writing" => mirror = doc
    /\ phase = "attached" /\ mirror # doc => timer /\ Pushes(doc)

\* Everything on its way to the agent is the same file, and awaited.
Sends(op) ==
    /\ op.content = Target /\ op.by # "none"
    /\ op.do = "delete" => op.content = Absent
    /\ op.do = "reconcile" => phase = "reconciling" /\ op.by = "attach"
DownInv ==
    /\ ~(Busy /\ Rising)
    /\ \A i \in DOMAIN down : Sends(down[i])
    /\ hand # Idle => Sends(hand)
    /\ \A x \in fetching : x.content = mirror /\ x.content = Target

\* The agent's side: it knows what it is given, or what it told last, and it
\* knows its disk unless its watcher is about to look.
AgentInv ==
    /\ hand # Idle /\ (hand.do = "reconcile" => hand.content = Absent) => known = hand.content
    /\ InLine /\ ~Busy => known = Latest
    /\ InLine /\ hand = Idle /\ ~touched /\ ~reading.seen => known = disk

SyncInv == /\ RealOps /\ AttachWaitsOnce /\ ReadIsDisk
           /\ ~parted /\ Alive => RoomInv /\ DownInv /\ AgentInv
=============================================================================
