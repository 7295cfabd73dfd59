------------------------------ MODULE Interviews ------------------------------
(***************************************************************************)
(* One interview: the API's handlers that use its link, start it, end it   *)
(* and let its candidate into the room                                     *)
(* (apps/api/src/interviews/interviews.service.ts), composed with what     *)
(* keeps the candidate's rights once they are checked: an editor, whose    *)
(* connection collab checks when it opens and closes when the API says     *)
(* that rights changed (apps/collab/src/extensions/access.ts,              *)
(* revocation.ts), and a terminal, which the API checks when it opens and  *)
(* checks again on the same message (apps/api/src/realtime).               *)
(*                                                                         *)
(* A handler runs in a slot, on any API instance; every await of the       *)
(* database ends a step, and what it read before stays as it was.  Each    *)
(* UPDATE ... WHERE is one step.  Time is two flags: `window` of an        *)
(* assessment and `due` of a running interview.                            *)
(***************************************************************************)
EXTENDS Naturals, FiniteSets

CONSTANTS
    People,                 \* those who may open the candidate's link
    Nobody,                 \* not a person
    Slots,                  \* API handlers under way at once
    MaxExtends,             \* bound on extensions
    MaxMishaps              \* bound on API processes that die and messages that are lost

ASSUME BoundsAssumption == MaxExtends \in Nat /\ MaxMishaps \in Nat
ASSUME NobodyAssumption == Nobody \notin People

VARIABLES
    mode,                   \* "interview" or "assessment"
    status, candidate, window, due,             \* the interviews row
    role,                   \* room_members of those people
    slot,                   \* each handler: where it is, for whom, and what it read
    conn,                   \* the candidate's editor and terminal: "none", "coming", "open"
    shell,                  \* the terminal's shell runs in the sandbox
    messages,               \* room access messages on their way to collab and to the API
    late, cut, slipped,     \* history: a candidate was let in after the rights were taken; a
                            \* handler died or a call was lost; what was coming when the
                            \* connections were closed
    extends, mishaps

row     == <<mode, status, candidate, window, due>>
sockets == <<conn, shell, messages, slipped>>
bounds  == <<extends, mishaps>>
vars    == <<row, role, slot, sockets, late, cut, bounds>>

\* What is checked once and then stays: by collab, and by the API.
Sockets == {"editor", "terminal"}

Free == [at |-> "free", who |-> Nobody, status |-> "none", candidate |-> Nobody]

Init ==
    /\ mode \in {"interview", "assessment"}
    /\ status = "scheduled" /\ candidate = Nobody /\ window = "early" /\ due = FALSE
    /\ role = [p \in People |-> "none"] /\ slot = [h \in Slots |-> Free]
    /\ conn = [c \in Sockets |-> "none"] /\ shell = FALSE /\ messages = [c \in Sockets |-> 0]
    /\ late = FALSE /\ cut = FALSE /\ slipped = {}
    /\ extends = 0 /\ mishaps = 0

Open(s) == s \in {"scheduled", "live"}
\* A handler goes on, or it is over.
Go(h, at, who) == slot' = [slot EXCEPT ![h] = [Free EXCEPT !.at = at, !.who = who]]
Done(h) == slot' = [slot EXCEPT ![h] = Free]

-----------------------------------------------------------------------------
(* The candidate's link.                                                   *)

\* byToken and assertOpen: the row as it is now.
Claim(h, p) ==
    /\ slot[h].at = "free" /\ Open(status)
    /\ slot' = [slot EXCEPT ![h] = [at |-> "claim", who |-> p, status |-> status, candidate |-> candidate]]
    /\ UNCHANGED <<row, role, sockets, late, cut, bounds>>

\* Mutant: what was read before decides, though somebody has written the row since.
ClaimedStale(h) == LET seen == slot[h] IN
    /\ seen.at = "claim"
    /\ IF status # "removed" /\ candidate = Nobody
       THEN /\ candidate' = seen.who
            /\ IF seen.status = "live" THEN Go(h, "admit", seen.who) ELSE Done(h)
       ELSE /\ UNCHANGED candidate
            /\ IF seen.candidate = seen.who /\ seen.status = "live" THEN Go(h, "admit", seen.who) ELSE Done(h)
    /\ UNCHANGED <<mode, status, window, due, role, sockets, late, cut, bounds>>

\* The link becomes theirs if it is nobody's (whatever the status is now); only
\* then is the row a new one.  Who had it before goes on with what was read.
Claimed(h) == LET seen == slot[h] IN
    /\ seen.at = "claim"
    /\ IF status # "removed" /\ candidate = Nobody
       THEN /\ candidate' = seen.who
            /\ IF status = "live" THEN Go(h, "admit", seen.who) ELSE Done(h)
       ELSE /\ UNCHANGED candidate
            /\ IF seen.candidate = seen.who /\ seen.status = "live" THEN Go(h, "admit", seen.who) ELSE Done(h)
    /\ UNCHANGED <<mode, status, window, due, role, sockets, late, cut, bounds>>

\* setCandidateRole(row, "candidate"), whatever the interview is by now; it
\* fails when the room has gone.
Admit(h) ==
    /\ slot[h].at = "admit" /\ Done(h)
    /\ role' = IF status = "removed" THEN role ELSE [role EXCEPT ![slot[h].who] = "candidate"]
    /\ late' = (late \/ (status = "finished" /\ \A k \in Slots : slot[k].at # "demote"))
    /\ UNCHANGED <<row, sockets, cut, bounds>>

\* An assessment's candidate: back into a running one, or inside its window.
StartAssessment(h, p) ==
    /\ slot[h].at = "free" /\ mode = "assessment" /\ Open(status) /\ candidate = p
    /\ status = "scheduled" => window = "open"
    /\ Go(h, IF status = "live" THEN "admit" ELSE "begin", p)
    /\ UNCHANGED <<row, role, sockets, late, cut, bounds>>

-----------------------------------------------------------------------------
(* Starting and ending.                                                    *)

\* An interviewer starts an interview, never an assessment.
Start(h) ==
    /\ slot[h].at = "free" /\ mode = "interview" /\ status # "removed" /\ Go(h, "begin", Nobody)
    /\ UNCHANGED <<row, role, sockets, late, cut, bounds>>

\* Mutant: it starts whatever it has become.
BeginAnyhow(h) ==
    /\ slot[h].at = "begin"
    /\ status' = "live"
    /\ IF candidate = Nobody THEN Done(h) ELSE Go(h, "admit", candidate)
    /\ UNCHANGED <<mode, candidate, window, due, role, sockets, late, cut, bounds>>

\* The clock starts, if it is still scheduled; then its candidate, if it has one.
Begin(h) ==
    /\ slot[h].at = "begin"
    /\ IF status = "scheduled"
       THEN /\ status' = "live"
            /\ IF candidate = Nobody THEN Done(h) ELSE Go(h, "admit", candidate)
       ELSE UNCHANGED status /\ Done(h)
    /\ UNCHANGED <<mode, candidate, window, due, role, sockets, late, cut, bounds>>

\* Somebody finishes it, or the timer has found it due.
Finish(h) ==
    /\ slot[h].at = "free" /\ status = "live" /\ Go(h, "close", Nobody)
    /\ UNCHANGED <<row, role, sockets, late, cut, bounds>>

\* Mutant: the timer leaves assessments to SweepMissed.
SweepInterviews(h) ==
    /\ slot[h].at = "free" /\ mode = "interview" /\ status = "live" /\ due /\ Go(h, "close", Nobody)
    /\ UNCHANGED <<row, role, sockets, late, cut, bounds>>

Sweep(h) ==
    /\ slot[h].at = "free" /\ status = "live" /\ due /\ Go(h, "close", Nobody)
    /\ UNCHANGED <<row, role, sockets, late, cut, bounds>>

\* Mutant: it ends without an end time.
CloseSittingOpenEnd(h) ==
    /\ slot[h].at = "close"
    /\ IF status = "live" THEN status' = "finished" /\ Go(h, "demote", candidate)
                          ELSE UNCHANGED status /\ Done(h)
    /\ UNCHANGED <<mode, candidate, window, due, role, sockets, late, cut, bounds>>

\* Whoever wins the conditional update does the rest.
CloseSitting(h) ==
    /\ slot[h].at = "close"
    /\ IF status = "live" THEN status' = "finished" /\ due' = FALSE /\ Go(h, "demote", candidate)
                          ELSE UNCHANGED <<status, due>> /\ Done(h)
    /\ UNCHANGED <<mode, candidate, window, role, sockets, late, cut, bounds>>

\* Mutant: nothing is taken from somebody who has an editor open.
DemoteIdle(h) ==
    /\ slot[h].at = "demote" /\ Go(h, "announce", Nobody)
    /\ role' = IF status = "removed" \/ slot[h].who = Nobody \/ conn["editor"] = "open" THEN role
               ELSE [role EXCEPT ![slot[h].who] = "viewer"]
    /\ UNCHANGED <<row, sockets, late, cut, bounds>>

\* setCandidateRole(row, "viewer"), of the candidate the update returned.
Demote(h) ==
    /\ slot[h].at = "demote" /\ Go(h, "announce", Nobody)
    /\ role' = IF status = "removed" \/ slot[h].who = Nobody THEN role
               ELSE [role EXCEPT ![slot[h].who] = "viewer"]
    /\ UNCHANGED <<row, sockets, late, cut, bounds>>

\* accessChanged, to every instance.
Publish == messages' = [c \in Sockets |-> messages[c] + 1]

Announce(h) ==
    /\ slot[h].at = "announce" /\ Publish
    /\ IF status = "removed" THEN Done(h) ELSE Go(h, "restart", Nobody)
    /\ UNCHANGED <<row, role, conn, shell, slipped, late, cut, bounds>>

\* Mutant: the sandbox stops with its shells left to come back.
RestartKeeps(h) ==
    /\ slot[h].at = "restart" /\ Done(h)
    /\ UNCHANGED <<row, role, sockets, late, cut, bounds>>

\* The sandbox restarts: the shells end, and with them their terminals.
Restart(h) ==
    /\ slot[h].at = "restart" /\ Done(h) /\ shell' = FALSE
    /\ conn' = [conn EXCEPT !["terminal"] = IF @ = "open" THEN "none" ELSE @]
    /\ slipped' = slipped \cup {c \in {"terminal"} : conn[c] = "coming"}
    /\ UNCHANGED <<row, role, messages, late, cut, bounds>>

\* An assessment nobody started in time.
SweepMissed ==
    /\ status = "scheduled" /\ mode = "assessment" /\ window = "closed" /\ status' = "missed"
    /\ UNCHANGED <<mode, candidate, window, due, role, slot, sockets, late, cut, bounds>>

Extend ==
    /\ status = "live" /\ extends < MaxExtends /\ extends' = extends + 1 /\ due' = FALSE
    /\ UNCHANGED <<mode, status, candidate, window, role, slot, sockets, late, cut, mishaps>>

Cancel ==
    /\ status = "scheduled" /\ status' = "cancelled"
    /\ UNCHANGED <<mode, candidate, window, due, role, slot, sockets, late, cut, bounds>>

\* removeSitting: the room goes, with the interview and its members; accessChanged
\* follows.  (Its sandbox is destroyed, which is not modelled.)
RemoveSitting(h) ==
    /\ slot[h].at = "free" /\ status # "removed" /\ Go(h, "announce", Nobody)
    /\ status' = "removed" /\ candidate' = Nobody /\ due' = FALSE
    /\ role' = [p \in People |-> "none"]
    /\ UNCHANGED <<mode, window, sockets, late, cut, bounds>>

-----------------------------------------------------------------------------
(* The candidate's editor and terminal.                                    *)

\* The role is read; the socket is not yet among those that are closed.
Connect(c) ==
    /\ conn[c] = "none" /\ \E p \in People : role[p] = "candidate"
    /\ conn' = [conn EXCEPT ![c] = "coming"]
    /\ UNCHANGED <<row, role, slot, shell, messages, slipped, late, cut, bounds>>

Connected(c) ==
    /\ conn[c] = "coming" /\ conn' = [conn EXCEPT ![c] = "open"]
    /\ shell' = (shell \/ c = "terminal")
    /\ UNCHANGED <<row, role, slot, messages, slipped, late, cut, bounds>>

\* The shell of a terminal that goes stays.
Disconnect(c) ==
    /\ conn[c] # "none" /\ conn' = [conn EXCEPT ![c] = "none"]
    /\ UNCHANGED <<row, role, slot, shell, messages, slipped, late, cut, bounds>>

Receive(c) ==
    /\ messages[c] > 0 /\ messages' = [messages EXCEPT ![c] = @ - 1]
    /\ slipped' = slipped \cup {d \in {c} : conn[d] = "coming"}

\* Mutant: the document is detached and the socket stays open.
CloseRoomConnectionsDetach ==
    /\ Receive("editor")
    /\ UNCHANGED <<row, role, slot, conn, shell, late, cut, bounds>>

\* closeRoomConnections: those the document has; one that is coming is missed.
CloseRoomConnections ==
    /\ Receive("editor")
    /\ conn' = [conn EXCEPT !["editor"] = IF @ = "open" THEN "none" ELSE @]
    /\ UNCHANGED <<row, role, slot, shell, late, cut, bounds>>

\* LiveSockets: those it watches are asked about again.
Recheck ==
    /\ Receive("terminal")
    /\ conn' = [conn EXCEPT !["terminal"] =
                   IF @ = "open" /\ \A p \in People : role[p] # "candidate" THEN "none" ELSE @]
    /\ UNCHANGED <<row, role, slot, shell, late, cut, bounds>>

-----------------------------------------------------------------------------
(* Time and mishaps.                                                       *)

Pass ==
    /\ \/ status = "live" /\ ~due /\ due' = TRUE /\ UNCHANGED window
       \/ status = "scheduled" /\ mode = "assessment" /\ window = "early" /\ window' = "open" /\ UNCHANGED due
       \/ status = "scheduled" /\ mode = "assessment" /\ window = "open" /\ window' = "closed" /\ UNCHANGED due
    /\ UNCHANGED <<mode, status, candidate, role, slot, sockets, late, cut, bounds>>

\* The API process dies under a handler, or the sandbox does not restart, which
\* is only logged.
Crash(h) ==
    /\ slot[h].at # "free" /\ mishaps < MaxMishaps /\ mishaps' = mishaps + 1
    /\ Done(h) /\ cut' = TRUE
    /\ UNCHANGED <<row, role, sockets, late, extends>>

\* A subscriber is reconnecting.
Lose(c) ==
    /\ messages[c] > 0 /\ mishaps < MaxMishaps /\ mishaps' = mishaps + 1
    /\ messages' = [messages EXCEPT ![c] = @ - 1] /\ cut' = TRUE
    /\ UNCHANGED <<row, role, slot, conn, shell, slipped, late, extends>>

-----------------------------------------------------------------------------
Step(h) == Claimed(h) \/ Admit(h) \/ Begin(h) \/ CloseSitting(h) \/ Demote(h) \/ Announce(h)
           \/ Restart(h)

Next ==
    \/ \E h \in Slots : \/ Step(h) \/ Start(h) \/ Finish(h) \/ Sweep(h) \/ RemoveSitting(h) \/ Crash(h)
                        \/ \E p \in People : Claim(h, p) \/ StartAssessment(h, p)
    \/ SweepMissed \/ Extend \/ Cancel
    \/ \E c \in Sockets : Connect(c) \/ Connected(c) \/ Disconnect(c) \/ Lose(c)
    \/ CloseRoomConnections \/ Recheck
    \/ Pass

Spec == Init /\ [][Next]_vars

\* Handlers come to an end and the timer ticks, on whichever slot is free.
Fairness ==
    /\ \A h \in Slots : WF_vars(Step(h))
    /\ SF_vars(\E h \in Slots : Sweep(h))

FairSpec == Spec /\ Fairness
-----------------------------------------------------------------------------
(* What the code must keep.                                                *)

TypeOK ==
    /\ mode \in {"interview", "assessment"}
    /\ status \in {"scheduled", "live", "finished", "cancelled", "missed", "removed"}
    /\ candidate \in People \cup {Nobody}
    /\ window \in {"early", "open", "closed"} /\ due \in BOOLEAN
    /\ due => status = "live"
    /\ role \in [People -> {"none", "candidate", "viewer"}]
    /\ slot \in [Slots -> [at : {"free", "claim", "admit", "begin", "close", "demote", "announce", "restart"},
                           who : People \cup {Nobody},
                           status : {"none", "scheduled", "live"}, candidate : People \cup {Nobody}]]
    /\ conn \in [Sockets -> {"none", "coming", "open"}] /\ shell \in BOOLEAN
    /\ messages \in [Sockets -> 0..2]
    /\ late \in BOOLEAN /\ cut \in BOOLEAN /\ slipped \subseteq Sockets
    /\ extends \in 0..MaxExtends /\ mishaps \in 0..MaxMishaps

Quiet == \A h \in Slots : slot[h].at \in {"free", "close"}

\* Whoever has used the link of a running interview is let into its room,
\* whichever of the start and the use of the link came first: neither leaves
\* it to the other.  (An API process that dies between the two does.)
NobodyLeftWaiting ==
    status = "live" /\ candidate # Nobody /\ Quiet /\ ~cut => role[candidate] = "candidate"

\* When it has finished the candidate is a viewer, unless a handler that had
\* seen it running let them in once more afterwards, or one died.
RightsEnd ==
    status = "finished" /\ Quiet /\ ~late /\ ~cut => \A p \in People : role[p] # "candidate"

\* Then the editor the candidate had open is closed, and no shell of theirs
\* runs, but for what was coming when the message or the restart came.
SocketsEnd ==
    status = "finished" /\ Quiet /\ ~late /\ ~cut =>
        /\ messages["editor"] = 0 => conn["editor"] = "none" \/ "editor" \in slipped
        /\ ~shell \/ "terminal" \in slipped

\* Claim of interviews.service.ts: ending really takes the candidate's rights
\* away, with nobody dying and nothing lost.
EndingTakesRights ==
    status = "finished" /\ Quiet /\ ~cut => \A p \in People : role[p] # "candidate"

\* An interview whose time is up does not stay live, however many handlers
\* crowd its end: the timer closes it.
OverdueEnds == []<>~(status = "live" /\ due)

\* The handlers' steps are those of an interview that starts and ends once,
\* has one candidate for ever, and lets in nobody else and nobody early.
Life == INSTANCE InterviewLife
ImplementsInterviewLife == Life!Spec
=============================================================================
