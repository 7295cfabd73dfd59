--------------------------- MODULE InterviewsProof ---------------------------
(***************************************************************************)
(* Proofs about Interviews, for any people, handlers and bounds.           *)
(***************************************************************************)
EXTENDS InterviewsInv, TLAPS

USE BoundsAssumption, NobodyAssumption DEF Sockets, At, Announces

\* What a handler keeps.
Places == {"free", "claim", "admit", "begin", "close", "demote", "announce", "restart"}
SlotType == [at : Places, who : People \cup {Nobody},
             status : {"none", "scheduled", "live"}, candidate : People \cup {Nobody}]

LEMMA InitInv == Init => IInv
<1> SUFFICES ASSUME Init PROVE IInv
  OBVIOUS
<1> USE DEF Init, Free
<1>1. TypeOK
  <2>1. Free \in SlotType
    BY DEF SlotType, Places
  <2>2. slot \in [Slots -> SlotType]
    BY <2>1
  <2>3. /\ due = FALSE /\ shell = FALSE /\ late = FALSE /\ cut = FALSE /\ slipped \subseteq Sockets
        /\ extends \in 0..MaxExtends /\ mishaps \in 0..MaxMishaps
        /\ messages \in [Sockets -> 0..2]
        /\ conn \in [Sockets -> {"none", "coming", "open"}]
        /\ role \in [People -> {"none", "candidate", "viewer"}]
    OBVIOUS
  <2> QED
    BY <2>2, <2>3 DEF TypeOK, SlotType, Places
<1>2. RowInv /\ HandlersInv
  BY DEF RowInv, HandlersInv, Admits, Claims, Demotes
<1>3. Announced
  BY DEF Announced
<1>4. EndInv
  BY DEF EndInv, Waiting, RightsGo, EditorGoes, TerminalGoes, Ended
<1> QED
  BY <1>1, <1>2, <1>3, <1>4 DEF IInv

\* What a step does to the handlers: one of them goes on, the others stay.
Moves(h, at, who) ==
    /\ slot'[h].at = at /\ slot'[h].who = who
    /\ \A k \in Slots \ {h} : slot'[k] = slot[k]

LEMMA Goes ==
    ASSUME TypeOK, NEW h \in Slots
    PROVE  /\ Done(h) => Moves(h, "free", Nobody)
           /\ Go(h, "admit", slot[h].who) => Moves(h, "admit", slot[h].who)
           /\ Go(h, "admit", candidate) => Moves(h, "admit", candidate)
           /\ Go(h, "demote", candidate) => Moves(h, "demote", candidate)
           /\ \A p \in People : Go(h, "admit", p) => Moves(h, "admit", p)
           /\ \A p \in People : Go(h, "begin", p) => Moves(h, "begin", p)
           /\ Go(h, "begin", Nobody) => Moves(h, "begin", Nobody)
           /\ Go(h, "close", Nobody) => Moves(h, "close", Nobody)
           /\ Go(h, "announce", Nobody) => Moves(h, "announce", Nobody)
           /\ Go(h, "restart", Nobody) => Moves(h, "restart", Nobody)
<1>1. ASSUME NEW at, NEW who, Go(h, at, who) PROVE Moves(h, at, who)
  BY <1>1 DEF TypeOK, Go, Free, Moves
<1>2. Done(h) => Moves(h, "free", Nobody)
  BY DEF TypeOK, Done, Free, Moves
<1> QED
  BY <1>1, <1>2

LEMMA SlotTypes ==
    ASSUME TypeOK
    PROVE  /\ slot \in [Slots -> SlotType]
           /\ \A h \in Slots : slot[h].who \in People \cup {Nobody}
           /\ \A h \in Slots : Done(h) => slot' \in [Slots -> SlotType]
           /\ \A h \in Slots, at \in Places, who \in People \cup {Nobody} :
                Go(h, at, who) => slot' \in [Slots -> SlotType]
<1>1. slot \in [Slots -> SlotType]
  BY DEF TypeOK, SlotType, Places
<1>2. ASSUME NEW h \in Slots PROVE slot[h].who \in People \cup {Nobody}
  BY <1>1 DEF SlotType
<1>3. Free \in SlotType
  BY DEF Free, SlotType, Places
<1>4. ASSUME NEW h \in Slots, Done(h) PROVE slot' \in [Slots -> SlotType]
  BY <1>1, <1>3, <1>4 DEF Done
<1>5. ASSUME NEW h \in Slots, NEW at \in Places, NEW who \in People \cup {Nobody}, Go(h, at, who)
      PROVE  slot' \in [Slots -> SlotType]
  <2>1. [Free EXCEPT !.at = at, !.who = who] \in SlotType
    BY DEF Free, SlotType
  <2> QED
    BY <1>1, <1>5, <2>1 DEF Go
<1> QED
  BY <1>1, <1>2, <1>4, <1>5

LEMMA TypeStep == IInv /\ [Next]_vars => TypeOK'
<1> SUFFICES ASSUME TypeOK, Announced, RowInv, [Next]_vars PROVE TypeOK'
  BY DEF IInv
<1> USE DEF vars, row, sockets, bounds
<1> DEFINE SlotOK == slot \in [Slots -> SlotType]
           RestOK == /\ mode \in {"interview", "assessment"}
                     /\ status \in {"scheduled", "live", "finished", "cancelled", "missed", "removed"}
                     /\ candidate \in People \cup {Nobody}
                     /\ window \in {"early", "open", "closed"} /\ due \in BOOLEAN
                     /\ due => status = "live"
                     /\ role \in [People -> {"none", "candidate", "viewer"}]
                     /\ conn \in [Sockets -> {"none", "coming", "open"}] /\ shell \in BOOLEAN
                     /\ messages \in [Sockets -> 0..2]
                     /\ late \in BOOLEAN /\ cut \in BOOLEAN /\ slipped \subseteq Sockets
                     /\ extends \in 0..MaxExtends /\ mishaps \in 0..MaxMishaps
<1>a. RestOK /\ SlotOK
  <2>1. RestOK
    BY DEF TypeOK
  <2> QED
    BY <2>1, SlotTypes
<1>b. ASSUME RestOK', SlotOK' PROVE TypeOK'
  BY <1>b DEF TypeOK, SlotType, Places
<1> HIDE DEF SlotOK
<1>c. ASSUME UNCHANGED slot PROVE SlotOK'
  BY <1>a, <1>c DEF SlotOK
<1>d. ASSUME NEW h \in Slots, Done(h) PROVE SlotOK'
  BY <1>d, SlotTypes DEF SlotOK
<1>e. ASSUME NEW h \in Slots, NEW at \in Places, NEW who \in People \cup {Nobody}, Go(h, at, who)
      PROVE  SlotOK'
  BY <1>e, SlotTypes DEF SlotOK
<1>f. \A h \in Slots : slot[h].who \in People \cup {Nobody}
  BY SlotTypes
<1>1. ASSUME NEW h \in Slots, NEW p \in People, Claim(h, p) PROVE TypeOK'
  <2>1. [at |-> "claim", who |-> p, status |-> status, candidate |-> candidate] \in SlotType
    BY <1>1, <1>a DEF Claim, Open, SlotType, Places
  <2>2. SlotOK'
    BY <1>1, <1>a, <2>1 DEF Claim, SlotOK
  <2> QED
    BY <1>1, <1>a, <1>b, <2>2 DEF Claim
<1>2. ASSUME NEW h \in Slots, NEW p \in People, StartAssessment(h, p) PROVE TypeOK'
  BY <1>2, <1>a, <1>b, <1>e DEF StartAssessment, Places
<1>3. ASSUME NEW h \in Slots, Step(h) PROVE TypeOK'
  <2>1. CASE Claimed(h)
    <3>1. candidate' \in People \cup {Nobody} /\ SlotOK'
      BY <2>1, <1>a, <1>d, <1>e, <1>f DEF Claimed, Places
    <3> QED
      BY <2>1, <1>a, <1>b, <3>1 DEF Claimed
  <2>2. CASE Admit(h)
    <3>1. role' \in [People -> {"none", "candidate", "viewer"}]
      BY <2>2, <1>a DEF Admit
    <3>2. late' \in BOOLEAN
      BY <2>2, <1>a, Zenon DEF Admit
    <3> QED
      BY <2>2, <1>a, <1>b, <1>d, <3>1, <3>2 DEF Admit
  <2>3. CASE Begin(h)
    <3>1. SlotOK'
      BY <2>3, <1>a, <1>d, <1>e DEF Begin, Places
    <3> QED
      BY <2>3, <3>1, <1>a, <1>b DEF Begin
  <2>4. CASE CloseSitting(h)
    <3>1. SlotOK'
      BY <2>4, <1>a, <1>d, <1>e DEF CloseSitting, Places
    <3>2. due' \in BOOLEAN /\ (due' => status' = "live")
      <4>1. CASE status = "live"
        <5>1. due' = FALSE
          BY <2>4, <4>1 DEF CloseSitting
        <5> QED
          BY <5>1
      <4>2. CASE status # "live"
        <5>1. due' = due /\ status' = status
          BY <2>4, <4>2 DEF CloseSitting
        <5> QED
          BY <5>1, <1>a, Zenon
      <4> QED
        BY <4>1, <4>2
    <3>3. status' \in {"live", "finished"} \/ status' = status
      BY <2>4 DEF CloseSitting
    <3> QED
      BY <2>4, <3>1, <3>2, <3>3, <1>a, <1>b DEF CloseSitting
  <2>5. CASE Demote(h)
    <3>1. role' \in [People -> {"none", "candidate", "viewer"}]
      BY <2>5, <1>a DEF Demote
    <3> QED
      BY <2>5, <1>a, <1>b, <1>e, <3>1 DEF Demote, Places
  <2>6. CASE Announce(h)
    <3>1. \A c \in Sockets : messages[c] \in 0..1
      <4>1. status \in {"finished", "removed"} /\ Announces(h)
        BY <2>6 DEF Announce, Announced
      <4> QED
        BY <4>1 DEF Announced
    <3>2. messages' \in [Sockets -> 0..2]
      BY <3>1, <2>6 DEF Announce, Publish
    <3>3. SlotOK'
      BY <2>6, <1>d, <1>e DEF Announce, Places
    <3> QED
      BY <3>2, <3>3, <2>6, <1>a, <1>b DEF Announce
  <2>7. CASE Restart(h)
    <3>1. conn' \in [Sockets -> {"none", "coming", "open"}] /\ slipped' \subseteq Sockets
      BY <2>7, <1>a DEF Restart
    <3> QED
      BY <2>7, <3>1, <1>a, <1>b, <1>d DEF Restart
  <2> QED
    BY <1>3, <2>1, <2>2, <2>3, <2>4, <2>5, <2>6, <2>7 DEF Step
<1>4. ASSUME NEW h \in Slots, Start(h) \/ Finish(h) \/ Sweep(h) PROVE TypeOK'
  <2>1. SlotOK'
    BY <1>4, <1>e DEF Start, Finish, Sweep, Places
  <2>2. UNCHANGED <<row, role, sockets, late, cut, bounds>>
    BY <1>4 DEF Start, Finish, Sweep
  <2> QED
    BY <2>1, <2>2, <1>a, <1>b
<1>5. ASSUME NEW h \in Slots, RemoveSitting(h) PROVE TypeOK'
  BY <1>5, <1>a, <1>b, <1>e DEF RemoveSitting, Places
<1>6. ASSUME NEW h \in Slots, Crash(h) PROVE TypeOK'
  BY <1>6, <1>a, <1>b, <1>d DEF Crash
<1>7. CASE SweepMissed \/ Extend \/ Cancel \/ Pass
  <2>1. SlotOK'
    BY <1>7, <1>c DEF SweepMissed, Extend, Cancel, Pass
  <2>2. CASE SweepMissed \/ Cancel
    <3>1. due' \in BOOLEAN /\ (due' => status' = "live")
      <4>1. status # "live" /\ due' = due
        BY <2>2 DEF SweepMissed, Cancel
      <4> QED
        BY <4>1, <1>a, Zenon
    <3> QED
      BY <2>2, <2>1, <3>1, <1>a, <1>b DEF SweepMissed, Cancel
  <2>3. CASE Extend
    <3>1. extends' \in 0..MaxExtends
      BY <2>3, <1>a DEF Extend
    <3> QED
      BY <2>3, <2>1, <3>1, <1>a, <1>b DEF Extend
  <2>4. CASE Pass
    <3>1. due' \in BOOLEAN /\ (due' => status' = "live")
      <4>1. status' = status
        BY <2>4 DEF Pass
      <4>2. CASE status = "live" /\ due' = TRUE
        BY <4>1, <4>2
      <4>3. CASE UNCHANGED due
        BY <4>1, <4>3, <1>a, Zenon
      <4> QED
        BY <2>4, <4>2, <4>3 DEF Pass
    <3>2. window' \in {"early", "open", "closed"}
      BY <2>4, <1>a DEF Pass
    <3> QED
      BY <2>4, <2>1, <3>1, <3>2, <1>a, <1>b DEF Pass
  <2> QED
    BY <1>7, <2>2, <2>3, <2>4
<1>8. ASSUME NEW c \in Sockets, Connect(c) \/ Connected(c) \/ Disconnect(c) PROVE TypeOK'
  <2>1. conn' \in [Sockets -> {"none", "coming", "open"}] /\ shell' \in BOOLEAN
    <3>1. conn' \in [Sockets -> {"none", "coming", "open"}]
      BY <1>8, <1>a DEF Connect, Connected, Disconnect
    <3>2. shell' \in BOOLEAN
      BY <1>8, <1>a, Zenon DEF Connect, Connected, Disconnect
    <3> QED
      BY <3>1, <3>2
  <2>2. UNCHANGED <<row, role, slot, messages, slipped, late, cut, bounds>>
    BY <1>8 DEF Connect, Connected, Disconnect
  <2> QED
    BY <2>1, <2>2, <1>a, <1>b, <1>c
<1>9. ASSUME NEW c \in Sockets, Lose(c) PROVE TypeOK'
  <2>1. messages' \in [Sockets -> 0..2]
    BY <1>9, <1>a DEF Lose
  <2> QED
    BY <1>9, <2>1, <1>a, <1>b, <1>c DEF Lose
<1>10. CASE CloseRoomConnections \/ Recheck
  <2>1. messages' \in [Sockets -> 0..2] /\ slipped' \subseteq Sockets
    <3>1. ASSUME NEW c \in Sockets, Receive(c)
          PROVE  messages' \in [Sockets -> 0..2] /\ slipped' \subseteq Sockets
      <4>1. messages[c] \in 0..2 /\ messages[c] > 0
        BY <3>1, <1>a DEF Receive
      <4>2. messages[c] - 1 \in 0..2
        BY <4>1
      <4>3. messages' \in [Sockets -> 0..2]
        BY <3>1, <1>a, <4>2 DEF Receive
      <4>4. slipped' \subseteq Sockets
        BY <3>1, <1>a DEF Receive
      <4> QED
        BY <4>3, <4>4
    <3> QED
      BY <1>10, <3>1 DEF CloseRoomConnections, Recheck
  <2>2. conn' \in [Sockets -> {"none", "coming", "open"}]
    BY <1>10, <1>a DEF CloseRoomConnections, Recheck
  <2> QED
    BY <1>10, <2>1, <2>2, <1>a, <1>b, <1>c DEF CloseRoomConnections, Recheck
<1>11. CASE UNCHANGED vars
  BY <1>11, <1>a, <1>b, <1>c
<1> QED
  BY <1>1, <1>2, <1>3, <1>4, <1>5, <1>6, <1>7, <1>8, <1>9, <1>10, <1>11 DEF Next

-----------------------------------------------------------------------------
(* The row and the roles.                                                  *)

\* Most steps leave them alone.
LEMMA RowMoves ==
    ASSUME [Next]_vars
    PROVE  \/ UNCHANGED <<status, candidate, role>>
           \/ \E h \in Slots : Claimed(h) \/ Admit(h) \/ Begin(h) \/ CloseSitting(h)
                                \/ Demote(h) \/ RemoveSitting(h)
           \/ SweepMissed \/ Cancel
  BY DEF Next, Step, vars, row, sockets, bounds, Claim, StartAssessment, Announce, Restart, Start, Finish,
         Sweep, Crash, Extend, Pass, Connect, Connected, Disconnect, Lose, CloseRoomConnections, Recheck

LEMMA RowStep == IInv /\ [Next]_vars => RowInv'
<1> SUFFICES ASSUME TypeOK, RowInv, HandlersInv, [Next]_vars PROVE RowInv'
  BY DEF IInv
<1>a. candidate \in People \cup {Nobody} /\ role \in [People -> {"none", "candidate", "viewer"}]
  BY DEF TypeOK
<1>b. \A h \in Slots : slot[h].who \in People \cup {Nobody}
  BY SlotTypes
<1>1. CASE UNCHANGED <<status, candidate, role>>
  BY <1>1 DEF RowInv
<1>2. ASSUME NEW h \in Slots, Claimed(h) PROVE RowInv'
  BY <1>2, <1>a DEF Claimed, RowInv
<1>3. ASSUME NEW h \in Slots, Admit(h) PROVE RowInv'
  <2>1. /\ status \in {"live", "finished", "removed"} /\ slot[h].who \in People
        /\ status # "removed" => slot[h].who = candidate
    BY <1>3, <1>b DEF HandlersInv, Admits, Admit
  <2>2. UNCHANGED <<status, candidate>>
    BY <1>3 DEF Admit, row
  <2>3. ASSUME NEW p \in People PROVE p = slot[h].who \/ role'[p] = role[p]
    BY <1>3, <1>a DEF Admit
  <2> QED
    BY <1>3, <2>1, <2>2, <2>3 DEF RowInv, Admit
<1>4. ASSUME NEW h \in Slots, Begin(h) \/ CloseSitting(h) PROVE RowInv'
  BY <1>4 DEF Begin, CloseSitting, RowInv
<1>5. ASSUME NEW h \in Slots, Demote(h) PROVE RowInv'
  <2>1. /\ status \in {"finished", "removed"}
        /\ status = "finished" /\ slot[h].who # Nobody => slot[h].who = candidate
    BY <1>5 DEF HandlersInv, Demotes, Demote
  <2>2. UNCHANGED <<status, candidate>>
    BY <1>5 DEF Demote, row
  <2>3. ASSUME NEW p \in People PROVE p = slot[h].who \/ role'[p] = role[p]
    BY <1>5, <1>a DEF Demote
  <2> QED
    BY <1>5, <2>1, <2>2, <2>3 DEF RowInv, Demote
<1>6. ASSUME NEW h \in Slots, RemoveSitting(h) PROVE RowInv'
  BY <1>6 DEF RemoveSitting, RowInv
<1>7. CASE SweepMissed \/ Cancel
  BY <1>7 DEF SweepMissed, Cancel, RowInv
<1> QED
  BY <1>1, <1>2, <1>3, <1>4, <1>5, <1>6, <1>7, RowMoves

-----------------------------------------------------------------------------
(* The handlers.                                                           *)

\* What is not a step of a handler leaves them alone.
LEMMA HandlersMove ==
    ASSUME [Next]_vars
    PROVE  \/ UNCHANGED <<slot, status, candidate>>
           \/ UNCHANGED slot /\ (SweepMissed \/ Cancel)
           \/ \E h \in Slots :
                \/ Step(h) \/ Start(h) \/ Finish(h) \/ Sweep(h) \/ RemoveSitting(h) \/ Crash(h)
                \/ \E p \in People : Claim(h, p) \/ StartAssessment(h, p)
  BY DEF Next, vars, row, sockets, bounds, SweepMissed, Cancel, Extend, Pass, Connect, Connected,
         Disconnect, Lose, CloseRoomConnections, Recheck

LEMMA HandlersStep == IInv /\ [Next]_vars => HandlersInv'
<1> SUFFICES ASSUME TypeOK, RowInv, HandlersInv, [Next]_vars PROVE HandlersInv'
  BY DEF IInv
<1>a. /\ candidate \in People \cup {Nobody}
      /\ status \in {"scheduled", "live", "finished", "cancelled", "missed", "removed"}
      /\ \A h \in Slots : slot[h].who \in People \cup {Nobody}
  BY SlotTypes DEF TypeOK
\* A handler that goes to a place about which there is nothing to say.
<1>b. ASSUME NEW h \in Slots, NEW at, NEW who, Moves(h, at, who), at \notin {"admit", "claim", "demote"},
             UNCHANGED <<status, candidate>>
      PROVE  HandlersInv'
  BY <1>b DEF HandlersInv, Admits, Claims, Demotes, Moves
<1>1. CASE UNCHANGED <<slot, status, candidate>>
  BY <1>1 DEF HandlersInv, Admits, Claims, Demotes
<1>2. CASE UNCHANGED slot /\ (SweepMissed \/ Cancel)
  BY <1>2 DEF SweepMissed, Cancel, HandlersInv, Admits, Claims, Demotes
<1>3. ASSUME NEW h \in Slots, NEW p \in People, Claim(h, p) PROVE HandlersInv'
  <2>1. /\ slot'[h] = [at |-> "claim", who |-> p, status |-> status, candidate |-> candidate]
        /\ \A k \in Slots \ {h} : slot'[k] = slot[k]
    BY <1>3 DEF Claim, TypeOK
  <2>2. UNCHANGED <<status, candidate>> /\ Open(status)
    BY <1>3 DEF Claim, row
  <2> QED
    BY <2>1, <2>2, <1>a DEF Open, HandlersInv, Admits, Claims, Demotes
<1>4. ASSUME NEW h \in Slots, NEW p \in People, StartAssessment(h, p) PROVE HandlersInv'
  <2>1. UNCHANGED <<status, candidate>> /\ candidate = p /\ status \in {"live", "scheduled"}
    BY <1>4 DEF StartAssessment, row, Open
  <2>2. CASE status = "live"
    <3>1. Moves(h, "admit", p)
      BY <1>4, <2>2, Goes DEF StartAssessment
    <3> QED
      BY <3>1, <2>1, <2>2, <1>a DEF Moves, HandlersInv, Admits, Claims, Demotes
  <2>3. CASE status = "scheduled"
    <3>1. Moves(h, "begin", p)
      BY <1>4, <2>3, Goes DEF StartAssessment
    <3> QED
      BY <3>1, <2>1, <1>b
  <2> QED
    BY <2>1, <2>2, <2>3
<1>5. ASSUME NEW h \in Slots, Claimed(h) PROVE HandlersInv'
  <2>0. slot[h].at = "claim" /\ slot[h].who \in People /\ UNCHANGED status
    BY <1>5, <1>a DEF Claimed, HandlersInv, Claims
  <2>1. CASE status # "removed" /\ candidate = Nobody
    <3>1. candidate' = slot[h].who
      BY <1>5, <2>1 DEF Claimed
    <3>2. CASE status = "live"
      <4>1. Moves(h, "admit", slot[h].who)
        BY <1>5, <2>1, <3>2, Goes DEF Claimed
      <4> QED
        BY <4>1, <3>1, <3>2, <2>0, <2>1, <1>a DEF Moves, HandlersInv, Admits, Claims, Demotes
    <3>3. CASE status # "live"
      <4>1. Moves(h, "free", Nobody)
        BY <1>5, <2>1, <3>3, Goes DEF Claimed
      <4> QED
        BY <4>1, <3>1, <2>0, <2>1, <1>a DEF Moves, HandlersInv, Admits, Claims, Demotes
    <3> QED
      BY <3>2, <3>3
  <2>2. CASE ~(status # "removed" /\ candidate = Nobody)
    <3>1. UNCHANGED candidate
      BY <1>5, <2>2 DEF Claimed
    <3>2. CASE slot[h].candidate = slot[h].who /\ slot[h].status = "live"
      <4>1. Moves(h, "admit", slot[h].who)
        BY <1>5, <2>2, <3>2, Goes DEF Claimed
      <4>2. status \in {"live", "finished", "removed"} /\ (status # "removed" => slot[h].who = candidate)
        BY <2>0, <3>2, <1>a DEF HandlersInv, Claims
      <4>3. Demotes'
        BY <4>1, <3>1, <3>2, <2>0, <1>a DEF Moves, HandlersInv, Demotes
      <4>4. Admits' /\ Claims'
        BY <4>1, <4>2, <3>1, <2>0, <1>a DEF Moves, HandlersInv, Admits, Claims
      <4> QED
        BY <4>3, <4>4 DEF HandlersInv
    <3>3. CASE ~(slot[h].candidate = slot[h].who /\ slot[h].status = "live")
      <4>1. Moves(h, "free", Nobody)
        BY <1>5, <2>2, <3>3, Goes DEF Claimed
      <4> QED
        BY <4>1, <3>1, <2>0, <1>b
    <3> QED
      BY <3>2, <3>3
  <2> QED
    BY <2>1, <2>2
<1>6. ASSUME NEW h \in Slots, Admit(h) \/ Restart(h) \/ Crash(h) PROVE HandlersInv'
  <2>1. Moves(h, "free", Nobody)
    BY <1>6, Goes DEF Admit, Restart, Crash
  <2>2. UNCHANGED <<status, candidate>>
    BY <1>6 DEF Admit, Restart, Crash, row
  <2> QED
    BY <2>1, <2>2, <1>b
<1>7. ASSUME NEW h \in Slots, Begin(h) PROVE HandlersInv'
  <2>1. UNCHANGED candidate
    BY <1>7 DEF Begin
  <2>2. CASE status = "scheduled"
    <3>1. status' = "live" /\ (Moves(h, "free", Nobody) \/ (candidate # Nobody /\ Moves(h, "admit", candidate)))
      BY <1>7, <2>2, Goes DEF Begin
    <3> QED
      BY <3>1, <2>1, <2>2, <1>a DEF Moves, HandlersInv, Admits, Claims, Demotes
  <2>3. CASE status # "scheduled"
    <3>1. UNCHANGED status /\ Moves(h, "free", Nobody)
      BY <1>7, <2>3, Goes DEF Begin
    <3> QED
      BY <3>1, <2>1, <1>b
  <2> QED
    BY <2>2, <2>3
<1>8. ASSUME NEW h \in Slots, CloseSitting(h) PROVE HandlersInv'
  <2>1. UNCHANGED candidate
    BY <1>8 DEF CloseSitting
  <2>2. CASE status = "live"
    <3>1. status' = "finished" /\ Moves(h, "demote", candidate)
      BY <1>8, <2>2, Goes DEF CloseSitting
    <3> QED
      BY <3>1, <2>1, <2>2, <1>a DEF Moves, HandlersInv, Admits, Claims, Demotes
  <2>3. CASE status # "live"
    <3>1. UNCHANGED status /\ Moves(h, "free", Nobody)
      BY <1>8, <2>3, Goes DEF CloseSitting
    <3> QED
      BY <3>1, <2>1, <1>b
  <2> QED
    BY <2>2, <2>3
<1>9. ASSUME NEW h \in Slots, Demote(h) \/ Announce(h) PROVE HandlersInv'
  <2>1. Moves(h, "free", Nobody) \/ Moves(h, "announce", Nobody) \/ Moves(h, "restart", Nobody)
    BY <1>9, Goes DEF Demote, Announce
  <2>2. UNCHANGED <<status, candidate>>
    BY <1>9 DEF Demote, Announce, row
  <2> QED
    BY <2>1, <2>2, <1>b
<1>10. ASSUME NEW h \in Slots, Start(h) \/ Finish(h) \/ Sweep(h) PROVE HandlersInv'
  <2>1. Moves(h, "begin", Nobody) \/ Moves(h, "close", Nobody)
    BY <1>10, Goes DEF Start, Finish, Sweep
  <2>2. UNCHANGED <<status, candidate>>
    BY <1>10 DEF Start, Finish, Sweep, row
  <2> QED
    BY <2>1, <2>2, <1>b
<1>11. ASSUME NEW h \in Slots, RemoveSitting(h) PROVE HandlersInv'
  <2>1. status' = "removed" /\ Moves(h, "announce", Nobody)
    BY <1>11, Goes DEF RemoveSitting
  <2> QED
    BY <2>1, <1>a DEF Moves, HandlersInv, Admits, Claims, Demotes
<1> QED
  BY <1>1, <1>2, <1>3, <1>4, <1>5, <1>6, <1>7, <1>8, <1>9, <1>10, <1>11, HandlersMove DEF Step

-----------------------------------------------------------------------------
(* The messages.                                                           *)

LEMMA AnnouncedStep == IInv /\ [Next]_vars => Announced'
<1> SUFFICES ASSUME TypeOK, Announced, [Next]_vars PROVE Announced'
  BY DEF IInv
<1>a. /\ messages \in [Sockets -> 0..2]
      /\ status \in {"scheduled", "live", "finished", "cancelled", "missed", "removed"}
  BY DEF TypeOK
\* A handler that does not start to announce, or one that only goes on with it.
<1>b. ASSUME NEW h \in Slots, NEW at, NEW who, Moves(h, at, who), UNCHANGED <<status, messages>>,
             at \notin {"demote", "announce", "restart"} \/ (Announces(h) /\ at = "announce")
      PROVE  Announced'
  BY <1>b DEF Announced, Moves
<1>1. CASE UNCHANGED <<slot, status, messages>>
  BY <1>1 DEF Announced
<1>2. CASE UNCHANGED <<slot, messages>> /\ (SweepMissed \/ Cancel)
  BY <1>2 DEF SweepMissed, Cancel, Announced
<1>3. ASSUME NEW c \in Sockets, Receive(c) \/ Lose(c), UNCHANGED <<slot, status>> PROVE Announced'
  <2>1. messages[c] \in 1..2 /\ messages' = [messages EXCEPT ![c] = @ - 1]
    BY <1>3, <1>a DEF Receive, Lose
  <2>2. \A d \in Sockets : messages'[d] \in 0..2 /\ messages'[d] <= messages[d]
    BY <2>1, <1>a
  <2> QED
    BY <1>3, <2>2, <1>a DEF Announced
<1>4. ASSUME NEW h \in Slots, NEW p \in People, Claim(h, p) \/ StartAssessment(h, p) PROVE Announced'
  <2>1. UNCHANGED <<status, messages>>
    BY <1>4 DEF Claim, StartAssessment, row, sockets
  <2>2. CASE Claim(h, p)
    <3>1. Moves(h, "claim", p)
      BY <2>2 DEF Claim, Moves, TypeOK
    <3> QED
      BY <3>1, <2>1, <1>b
  <2>3. CASE StartAssessment(h, p)
    <3>1. Moves(h, "admit", p) \/ Moves(h, "begin", p)
      BY <2>3, Goes DEF StartAssessment
    <3> QED
      BY <3>1, <2>1, <1>b
  <2> QED
    BY <1>4, <2>2, <2>3
<1>5. ASSUME NEW h \in Slots, Claimed(h) PROVE Announced'
  <2>1. Moves(h, "free", Nobody) \/ Moves(h, "admit", slot[h].who)
    BY <1>5, Goes DEF Claimed
  <2>2. UNCHANGED <<status, messages>>
    BY <1>5 DEF Claimed, sockets
  <2> QED
    BY <2>1, <2>2, <1>b
<1>6. ASSUME NEW h \in Slots, Admit(h) \/ Restart(h) \/ Crash(h) PROVE Announced'
  <2>1. Moves(h, "free", Nobody)
    BY <1>6, Goes DEF Admit, Restart, Crash
  <2>2. UNCHANGED <<status, messages>>
    BY <1>6 DEF Admit, Restart, Crash, row, sockets
  <2> QED
    BY <2>1, <2>2, <1>b
<1>7. ASSUME NEW h \in Slots, Begin(h) PROVE Announced'
  <2>1. UNCHANGED messages
    BY <1>7 DEF Begin, sockets
  <2>2. Moves(h, "free", Nobody) \/ Moves(h, "admit", candidate)
    BY <1>7, Goes DEF Begin
  <2>3. UNCHANGED status \/ (status = "scheduled" /\ status' = "live")
    BY <1>7 DEF Begin
  <2>4. CASE status = "scheduled" /\ status' = "live"
    BY <2>1, <2>2, <2>4 DEF Announced, Moves
  <2> QED
    BY <2>1, <2>2, <2>3, <2>4, <1>b
<1>8. ASSUME NEW h \in Slots, CloseSitting(h) PROVE Announced'
  <2>1. UNCHANGED messages
    BY <1>8 DEF CloseSitting, sockets
  <2>2. CASE status = "live"
    <3>1. status' = "finished" /\ Moves(h, "demote", candidate)
      BY <1>8, <2>2, Goes DEF CloseSitting
    <3> QED
      BY <3>1, <2>1, <2>2, <1>a DEF Announced, Moves
  <2>3. CASE status # "live"
    <3>1. UNCHANGED status /\ Moves(h, "free", Nobody)
      BY <1>8, <2>3, Goes DEF CloseSitting
    <3> QED
      BY <3>1, <2>1, <1>b
  <2> QED
    BY <2>2, <2>3
<1>9. ASSUME NEW h \in Slots, Demote(h) PROVE Announced'
  <2>1. Moves(h, "announce", Nobody) /\ Announces(h)
    BY <1>9, Goes DEF Demote
  <2>2. UNCHANGED <<status, messages>>
    BY <1>9 DEF Demote, row, sockets
  <2> QED
    BY <2>1, <2>2, <1>b
<1>10. ASSUME NEW h \in Slots, Announce(h) PROVE Announced'
  <2>1. Announces(h) /\ status \in {"finished", "removed"} /\ UNCHANGED status
    BY <1>10 DEF Announce, Announced, row
  <2>2. Moves(h, "free", Nobody) \/ Moves(h, "restart", Nobody)
    BY <1>10, Goes DEF Announce
  <2>3. \A c \in Sockets : messages'[c] = messages[c] + 1
    BY <1>10, <1>a DEF Announce, Publish
  <2>4. \A k \in Slots : slot'[k].at \in {"demote", "announce"} => Announces(k) /\ k # h
    BY <2>2 DEF Moves
  <2>5. \A c \in Sockets : messages[c] \in 0..1
    BY <2>1, <1>a DEF Announced
  <2>6. CASE status = "finished"
    <3>1. \A k \in Slots : slot'[k].at \notin {"demote", "announce"}
      BY <2>1, <2>4, <2>6 DEF Announced
    <3>2. \A c \in Sockets : messages[c] = 0
      BY <2>1, <2>6, <1>a DEF Announced
    <3> QED
      BY <2>1, <2>3, <2>6, <3>1, <3>2 DEF Announced
  <2>7. CASE status = "removed"
    <3>1. \A k, g \in Slots : slot'[k].at \in {"demote", "announce"} /\ slot'[g].at \in {"demote", "announce"}
            => k = g
      BY <2>1, <2>4 DEF Announced
    <3>2. \A c \in Sockets : messages[c] = 0 \/ \A k \in Slots : slot'[k].at \notin {"demote", "announce"}
      BY <2>1, <2>4, <2>7 DEF Announced
    <3> QED
      BY <2>1, <2>3, <2>5, <2>7, <3>1, <3>2 DEF Announced
  <2> QED
    BY <2>1, <2>6, <2>7
<1>11. ASSUME NEW h \in Slots, Start(h) \/ Finish(h) \/ Sweep(h) PROVE Announced'
  <2>1. Moves(h, "begin", Nobody) \/ Moves(h, "close", Nobody)
    BY <1>11, Goes DEF Start, Finish, Sweep
  <2>2. UNCHANGED <<status, messages>>
    BY <1>11 DEF Start, Finish, Sweep, row, sockets
  <2> QED
    BY <2>1, <2>2, <1>b
<1>12. ASSUME NEW h \in Slots, RemoveSitting(h) PROVE Announced'
  <2>1. status # "removed" /\ status' = "removed" /\ Moves(h, "announce", Nobody) /\ UNCHANGED messages
    BY <1>12, Goes DEF RemoveSitting, sockets
  <2>2. \A k, g \in Slots : Announces(k) /\ Announces(g) => k = g
    BY <2>1, <1>a DEF Announced
  <2>3. \A c \in Sockets : messages[c] <= 1 /\ (messages[c] = 0 \/ \A k \in Slots : ~Announces(k))
    BY <2>1, <1>a DEF Announced
  <2> QED
    BY <2>1, <2>2, <2>3, <1>a DEF Announced, Moves
<1> QED
  BY <1>1, <1>2, <1>3, <1>4, <1>5, <1>6, <1>7, <1>8, <1>9, <1>10, <1>11, <1>12
     DEF Next, Step, vars, row, sockets, bounds, SweepMissed, Cancel, Extend, Pass, Connect, Connected,
         Disconnect, Lose, CloseRoomConnections, Recheck

-----------------------------------------------------------------------------
(* Who still has to let in, to take away, to tell.                         *)

LEMMA EndStep == IInv /\ [Next]_vars => EndInv'
<1> SUFFICES ASSUME TypeOK, RowInv, HandlersInv, Announced, EndInv, [Next]_vars PROVE EndInv'
  BY DEF IInv
<1> USE DEF EndInv, Waiting, RightsGo, EditorGoes, TerminalGoes, Ended
<1>a. /\ candidate \in People \cup {Nobody} /\ role \in [People -> {"none", "candidate", "viewer"}]
      /\ status \in {"scheduled", "live", "finished", "cancelled", "missed", "removed"}
      /\ conn \in [Sockets -> {"none", "coming", "open"}] /\ slipped \subseteq Sockets
      /\ messages \in [Sockets -> 0..2]
      /\ \A h \in Slots : slot[h].who \in People \cup {Nobody}
  BY SlotTypes DEF TypeOK
\* A handler that has nothing to give, to take or to tell goes on.
<1>b. ASSUME NEW h \in Slots, NEW at, NEW who, Moves(h, at, who),
             ~At(h, {"admit", "demote", "announce", "restart"}),
             UNCHANGED <<status, candidate, role, sockets, late, cut>>
      PROVE  EndInv'
  BY <1>b DEF Moves, sockets
<1>c. ASSUME status' \notin {"live", "finished"} PROVE EndInv'
  BY <1>c
<1>1. CASE UNCHANGED <<slot, status, candidate, role, sockets, late, cut>>
  BY <1>1 DEF sockets
<1>2. CASE SweepMissed \/ Cancel
  BY <1>2, <1>c DEF SweepMissed, Cancel
<1>3. ASSUME NEW h \in Slots, NEW p \in People, Claim(h, p) \/ StartAssessment(h, p) PROVE EndInv'
  <2>1. ~At(h, {"admit", "demote", "announce", "restart"})
        /\ UNCHANGED <<status, candidate, role, sockets, late, cut>>
    BY <1>3 DEF Claim, StartAssessment, row
  <2>2. Moves(h, "claim", p) \/ Moves(h, "admit", p) \/ Moves(h, "begin", p)
    BY <1>3, Goes DEF Claim, StartAssessment, Moves, TypeOK
  <2> QED
    BY <2>1, <2>2, <1>b
<1>4. ASSUME NEW h \in Slots, Start(h) \/ Finish(h) \/ Sweep(h) PROVE EndInv'
  <2>1. ~At(h, {"admit", "demote", "announce", "restart"})
        /\ UNCHANGED <<status, candidate, role, sockets, late, cut>>
    BY <1>4 DEF Start, Finish, Sweep, row
  <2>2. Moves(h, "begin", Nobody) \/ Moves(h, "close", Nobody)
    BY <1>4, Goes DEF Start, Finish, Sweep
  <2> QED
    BY <2>1, <2>2, <1>b
<1>5. ASSUME NEW h \in Slots, Claimed(h) PROVE EndInv'
  <2>1. At(h, {"claim"}) /\ slot[h].who # Nobody /\ UNCHANGED <<status, role, sockets, late, cut>>
    BY <1>5 DEF Claimed, HandlersInv, Claims
  <2>2. Moves(h, "free", Nobody) \/ Moves(h, "admit", slot[h].who)
    BY <1>5, Goes DEF Claimed
  <2>3. CASE UNCHANGED candidate
    BY <2>1, <2>2, <2>3, <1>b
  <2>4. CASE status # "removed" /\ candidate = Nobody
    <3>1. \A p \in People : role'[p] # "candidate"
      BY <2>1, <2>4 DEF RowInv
    <3>2. status = "live" => Moves(h, "admit", slot[h].who)
      BY <1>5, <2>4, Goes DEF Claimed
    <3>3. Waiting'
      BY <2>1, <3>2 DEF Moves
    <3>4. RightsGo'
      BY <3>1
    <3>5. EditorGoes' /\ TerminalGoes'
      BY <2>1, <2>2 DEF Moves, sockets
    <3> QED
      BY <3>3, <3>4, <3>5
  <2> QED
    BY <1>5, <2>3, <2>4 DEF Claimed
<1>6. ASSUME NEW h \in Slots, Admit(h) PROVE EndInv'
  <2>1. /\ Moves(h, "free", Nobody) /\ At(h, {"admit"})
        /\ UNCHANGED <<status, candidate, sockets, cut>>
    BY <1>6, Goes DEF Admit, row
  <2>2. slot[h].who \in People /\ (status # "removed" => slot[h].who = candidate)
    BY <2>1, <1>a DEF HandlersInv, Admits
  <2>3. Waiting'
    BY <1>6, <2>1, <2>2, <1>a DEF Admit
  <2>4. ASSUME Ended' PROVE Ended /\ \E k \in Slots : At(k, {"demote"}) /\ slot[k].who = candidate /\ k # h
    <3>1. late' = FALSE /\ ~late /\ status = "finished"
      BY <1>6, <2>1, <2>4, Zenon DEF Admit
    <3>2. \E k \in Slots : At(k, {"demote"})
      BY <1>6, <2>1, <2>4 DEF Admit
    <3> QED
      BY <2>1, <2>2, <2>4, <3>1, <3>2 DEF HandlersInv, Demotes
  <2>5. RightsGo' /\ EditorGoes' /\ TerminalGoes'
    BY <2>1, <2>4 DEF Moves
  <2> QED
    BY <2>3, <2>5
<1>7. ASSUME NEW h \in Slots, Begin(h) PROVE EndInv'
  <2>1. At(h, {"begin"}) /\ UNCHANGED <<candidate, role, sockets, late, cut>>
    BY <1>7 DEF Begin
  <2>2. Moves(h, "free", Nobody) \/ Moves(h, "admit", candidate)
    BY <1>7, Goes DEF Begin
  <2>3. CASE UNCHANGED status
    BY <2>1, <2>2, <2>3, <1>b
  <2>4. CASE status = "scheduled"
    <3>1. status' = "live" /\ (candidate # Nobody => Moves(h, "admit", candidate))
      BY <1>7, <2>4, Goes DEF Begin
    <3> QED
      BY <2>1, <3>1 DEF Moves
  <2> QED
    BY <1>7, <2>3, <2>4 DEF Begin
<1>8. ASSUME NEW h \in Slots, CloseSitting(h) PROVE EndInv'
  <2>1. At(h, {"close"}) /\ UNCHANGED <<candidate, role, sockets, late, cut>>
    BY <1>8 DEF CloseSitting
  <2>2. CASE status = "live"
    <3>1. status' = "finished" /\ Moves(h, "demote", candidate)
      BY <1>8, <2>2, Goes DEF CloseSitting
    <3> QED
      BY <2>1, <3>1 DEF Moves
  <2>3. CASE status # "live"
    <3>1. UNCHANGED status /\ Moves(h, "free", Nobody)
      BY <1>8, <2>3, Goes DEF CloseSitting
    <3> QED
      BY <3>1, <2>1, <1>b
  <2> QED
    BY <2>2, <2>3
<1>9. ASSUME NEW h \in Slots, Demote(h) PROVE EndInv'
  <2>1. /\ Moves(h, "announce", Nobody) /\ At(h, {"demote"}) /\ status \in {"finished", "removed"}
        /\ UNCHANGED <<status, candidate, sockets, late, cut>>
    BY <1>9, Goes DEF Demote, row, HandlersInv, Demotes
  <2>2. RightsGo'
    <3>1. CASE status = "finished" /\ slot[h].who = candidate
      <4>1. \A p \in People : role'[p] # "candidate"
        BY <1>9, <2>1, <3>1, <1>a DEF Demote, RowInv
      <4> QED
        BY <4>1
    <3>2. CASE status = "finished" /\ slot[h].who # candidate
      <4>1. slot[h].who = Nobody /\ UNCHANGED role
        BY <1>9, <2>1, <3>2, <1>a DEF Demote, HandlersInv, Demotes
      <4> QED
        BY <2>1, <3>2, <4>1 DEF Moves
    <3> QED
      BY <2>1, <3>1, <3>2
  <2>3. Waiting' /\ EditorGoes' /\ TerminalGoes'
    BY <2>1 DEF Moves
  <2> QED
    BY <2>2, <2>3
<1>10. ASSUME NEW h \in Slots, Announce(h) PROVE EndInv'
  <2>1. /\ At(h, {"announce"}) /\ status \in {"finished", "removed"}
        /\ UNCHANGED <<status, candidate, role, conn, shell, slipped, late, cut>>
        /\ status = "finished" => Moves(h, "restart", Nobody)
    BY <1>10, Goes DEF Announce, row, Announced
  <2>2. messages'["editor"] > 0
    BY <1>10, <1>a DEF Announce, Publish
  <2> QED
    BY <2>1, <2>2 DEF Moves
<1>11. ASSUME NEW h \in Slots, Restart(h) PROVE EndInv'
  <2>1. /\ Moves(h, "free", Nobody) /\ At(h, {"restart"}) /\ status \in {"finished", "removed"}
        /\ UNCHANGED <<status, candidate, role, messages, late, cut>>
    BY <1>11, Goes DEF Restart, row, Announced
  <2>2. ~shell' /\ (conn'["terminal"] = "none" \/ "terminal" \in slipped')
    BY <1>11, <1>a DEF Restart
  <2>3. conn'["editor"] = conn["editor"] /\ slipped \subseteq slipped'
    BY <1>11, <1>a DEF Restart
  <2> QED
    BY <2>1, <2>2, <2>3 DEF Moves
<1>12. ASSUME NEW h \in Slots, RemoveSitting(h) PROVE EndInv'
  BY <1>12, <1>c DEF RemoveSitting
<1>13. ASSUME NEW h \in Slots, Crash(h) PROVE EndInv'
  <2>1. cut' = TRUE
    BY <1>13 DEF Crash
  <2> QED
    BY <2>1
<1>14. ASSUME NEW c \in Sockets, Lose(c) PROVE EndInv'
  <2>1. cut' = TRUE
    BY <1>14 DEF Lose
  <2> QED
    BY <2>1
<1>15. ASSUME NEW c \in Sockets, Connect(c) PROVE EndInv'
  <2>1. UNCHANGED <<slot, status, candidate, role, late, cut>> /\ \E p \in People : role[p] = "candidate"
    BY <1>15 DEF Connect, row
  <2>2. Ended => \E k \in Slots : At(k, {"demote"})
    BY <2>1
  <2> QED
    BY <2>1, <2>2
<1>16. ASSUME NEW c \in Sockets, Connected(c) PROVE EndInv'
  <2>1. UNCHANGED <<slot, status, candidate, role, messages, slipped, late, cut>> /\ conn[c] = "coming"
    BY <1>16 DEF Connected, row
  <2>2. c = "terminal" => conn'["editor"] = conn["editor"]
    BY <1>16, <1>a DEF Connected
  <2>3. EditorGoes'
    BY <2>1, <2>2, <1>a
  <2>4. c = "editor" => conn'["terminal"] = conn["terminal"] /\ (~shell => ~shell')
    <3>1. c = "editor" => c # "terminal" /\ conn'["terminal"] = conn["terminal"]
      BY <1>16, <1>a DEF Connected
    <3>2. c # "terminal" /\ ~shell => ~shell'
      BY <1>16, Zenon DEF Connected
    <3> QED
      BY <3>1, <3>2
  <2>5. TerminalGoes'
    BY <2>1, <2>4, <1>a
  <2> QED
    BY <2>1, <2>3, <2>5
<1>17. ASSUME NEW c \in Sockets, Disconnect(c) PROVE EndInv'
  <2>1. UNCHANGED <<slot, status, candidate, role, shell, messages, slipped, late, cut>>
    BY <1>17 DEF Disconnect, row
  <2>2. \A d \in Sockets : conn'[d] = conn[d] \/ conn'[d] = "none"
    BY <1>17, <1>a DEF Disconnect
  <2> QED
    BY <2>1, <2>2
<1>18. CASE CloseRoomConnections
  <2>1. UNCHANGED <<slot, status, candidate, role, shell, late, cut>>
        /\ conn'["terminal"] = conn["terminal"] /\ slipped \subseteq slipped'
    BY <1>18, <1>a DEF CloseRoomConnections, Receive, row
  <2>2. conn'["editor"] = "none" \/ "editor" \in slipped'
    BY <1>18, <1>a DEF CloseRoomConnections, Receive
  <2> QED
    BY <2>1, <2>2
<1>19. CASE Recheck
  <2>1. UNCHANGED <<slot, status, candidate, role, shell, late, cut>> /\ conn'["editor"] = conn["editor"]
        /\ messages'["editor"] = messages["editor"] /\ slipped \subseteq slipped'
        /\ (conn["terminal"] = "none" => conn'["terminal"] = "none")
    BY <1>19, <1>a DEF Recheck, Receive, row
  <2> QED
    BY <2>1
<1> QED
  BY <1>1, <1>2, <1>3, <1>4, <1>5, <1>6, <1>7, <1>8, <1>9, <1>10, <1>11, <1>12, <1>13, <1>14, <1>15,
     <1>16, <1>17, <1>18, <1>19
     DEF Next, Step, vars, row, sockets, bounds, Extend, Pass

-----------------------------------------------------------------------------
(* The theorems.                                                           *)

LEMMA Invariance == Spec => []IInv
<1>1. IInv /\ [Next]_vars => IInv'
  <2> SUFFICES ASSUME IInv, [Next]_vars PROVE IInv'
    OBVIOUS
  <2> QED
    BY TypeStep, RowStep, HandlersStep, AnnouncedStep, EndStep DEF IInv
<1> QED
  BY InitInv, <1>1, PTL DEF Spec

\* An interview's row, its handlers, its sockets and the messages to them are
\* what they are declared to be; its time is up only while it is live, and at
\* most two messages to each subscriber are ever on their way.
THEOREM InterviewsTypeCorrect == Spec => []TypeOK
  BY Invariance, PTL DEF IInv

\* Neither the start nor the use of the link leaves it to the other to let the
\* candidate in.
THEOREM CandidateIsLetIn == Spec => []NobodyLeftWaiting
<1>1. IInv => NobodyLeftWaiting
  BY DEF IInv, EndInv, Waiting, NobodyLeftWaiting, Quiet
<1> QED
  BY Invariance, <1>1, PTL

\* The end of an interview takes the candidate's rights, but for a handler
\* that lets them in afterwards.
THEOREM RightsAreTaken == Spec => []RightsEnd
<1>1. IInv => RightsEnd
  BY DEF IInv, EndInv, RightsGo, Ended, RightsEnd, Quiet
<1> QED
  BY Invariance, <1>1, PTL

\* And it closes the editor and the shell the candidate had open.
THEOREM SocketsAreClosed == Spec => []SocketsEnd
<1>1. IInv => SocketsEnd
  BY DEF IInv, EndInv, EditorGoes, TerminalGoes, Ended, SocketsEnd, Quiet
<1> QED
  BY Invariance, <1>1, PTL

\* The handlers, however they interleave and die, take an interview through
\* the life that InterviewLife describes.
THEOREM InterviewsImplementInterviewLife == Spec => ImplementsInterviewLife
<1>1. Init => Life!Init
  BY DEF Init, Life!Init
<1>2. IInv /\ [Next]_vars => [Life!Next]_(Life!vars)
  <2> SUFFICES ASSUME TypeOK, RowInv, HandlersInv, [Next]_vars PROVE [Life!Next]_(Life!vars)
    BY DEF IInv
  <2> USE DEF Life!vars, Life!Next, Life!Become, Life!Claim, Life!Admit, Life!Demote, Life!Vanish
  <2>a. \A h \in Slots : slot[h].who \in People \cup {Nobody}
    BY SlotTypes
  <2>1. CASE UNCHANGED <<status, candidate, role>>
    BY <2>1
  <2>2. ASSUME NEW h \in Slots, Claimed(h) PROVE [Life!Next]_(Life!vars)
    <3>1. slot[h].who \in People
      BY <2>2, <2>a DEF Claimed, HandlersInv, Claims
    <3> QED
      BY <2>2, <3>1 DEF Claimed
  <2>3. ASSUME NEW h \in Slots, Admit(h) PROVE [Life!Next]_(Life!vars)
    <3>1. /\ slot[h].who \in People /\ status \in {"live", "finished", "removed"}
          /\ status # "removed" => slot[h].who = candidate
      BY <2>3, <2>a DEF Admit, HandlersInv, Admits
    <3> QED
      BY <2>3, <3>1 DEF Admit, row
  <2>4. ASSUME NEW h \in Slots, Begin(h) \/ CloseSitting(h) PROVE [Life!Next]_(Life!vars)
    BY <2>4 DEF Begin, CloseSitting
  <2>5. ASSUME NEW h \in Slots, Demote(h) PROVE [Life!Next]_(Life!vars)
    <3>1. /\ status \in {"finished", "removed"}
          /\ status = "finished" /\ slot[h].who # Nobody => slot[h].who \in People /\ slot[h].who = candidate
      BY <2>5, <2>a DEF Demote, HandlersInv, Demotes
    <3> QED
      BY <2>5, <3>1 DEF Demote, row
  <2>6. ASSUME NEW h \in Slots, RemoveSitting(h) PROVE [Life!Next]_(Life!vars)
    BY <2>6 DEF RemoveSitting
  <2>7. CASE SweepMissed \/ Cancel
    BY <2>7 DEF SweepMissed, Cancel
  <2> QED
    BY <2>1, <2>2, <2>3, <2>4, <2>5, <2>6, <2>7, RowMoves
<1> QED
  BY Invariance, <1>1, <1>2, PTL DEF Spec, ImplementsInterviewLife, Life!Spec
=============================================================================
