---------------------------- MODULE InterviewsInv ----------------------------
(***************************************************************************)
(* The inductive invariants behind the safety properties of Interviews:    *)
(* what a handler half-way still knows of the row, and who has yet to take *)
(* a right away or to tell the sockets.                                    *)
(***************************************************************************)
EXTENDS Interviews

At(h, places) == slot[h].at \in places

\* Once removed nobody is its candidate; roles are the candidate's, and
\* there are none before it starts.
RowInv ==
    /\ status = "removed" => candidate = Nobody
    /\ \A p \in People : role[p] # "none" => p = candidate /\ status \in {"live", "finished"}

\* Who is about to be let in is the candidate of an interview that has begun.
Admits == \A h \in Slots : At(h, {"admit"}) =>
    /\ status \in {"live", "finished", "removed"} /\ slot[h].who # Nobody
    /\ status # "removed" => slot[h].who = candidate

\* What a use of the link has read: an open status, which only moves on, and
\* a candidate, who stays.
Claims == \A h \in Slots : At(h, {"claim"}) =>
    /\ slot[h].who # Nobody
    /\ slot[h].status = "live" => status \in {"live", "finished", "removed"}
    /\ slot[h].candidate # Nobody => status = "removed" \/ candidate = slot[h].candidate

\* Who is about to lose their rights is the candidate, or there was none when
\* it ended; then nobody is let in any more.
Demotes == \A h \in Slots : At(h, {"demote"}) =>
    /\ status \in {"finished", "removed"}
    /\ status = "finished" /\ slot[h].who # Nobody => slot[h].who = candidate
    /\ status = "finished" /\ slot[h].who = Nobody =>
         \A k \in Slots : ~At(k, {"admit"}) /\ (At(k, {"claim"}) => slot[k].candidate = Nobody)

HandlersInv == Admits /\ Claims /\ Demotes

\* Those who announce: at most one after the end, at most one more after the
\* removal, and each of them once.
Announces(h) == At(h, {"demote", "announce"})
Announced ==
    /\ \A h \in Slots : Announces(h) \/ At(h, {"restart"}) => status \in {"finished", "removed"}
    /\ \A c \in Sockets :
        /\ messages[c] \in 0..2
        /\ status \notin {"finished", "removed"} => messages[c] = 0
        /\ status = "finished" =>
             messages[c] <= 1 /\ (messages[c] = 0 \/ \A h \in Slots : ~Announces(h))
        /\ status = "removed" =>
             /\ messages[c] <= 1 \/ \A h \in Slots : ~Announces(h)
             /\ messages[c] = 0 \/ \A h, k \in Slots : Announces(h) /\ Announces(k) => h = k
    /\ status = "finished" => \A h, k \in Slots : Announces(h) /\ Announces(k) => h = k
    /\ \A h, k, g \in Slots : Announces(h) /\ Announces(k) /\ Announces(g) => h = k \/ k = g \/ h = g

\* The candidate of a running interview is in, or on the way.
Waiting == status = "live" /\ candidate # Nobody /\ ~cut =>
    role[candidate] = "candidate" \/ \E h \in Slots : At(h, {"admit"})

\* After the end, as long as nothing was lost and nobody let in late:
Ended == status = "finished" /\ ~late /\ ~cut

\* somebody has still to take the rights away, or nobody has them;
RightsGo == Ended =>
    \/ \A p \in People : role[p] # "candidate"
    \/ \E h \in Slots : At(h, {"demote"}) /\ slot[h].who = candidate

\* somebody has still to tell the editor, or it is closed;
EditorGoes == Ended =>
    \/ conn["editor"] = "none" \/ "editor" \in slipped \/ messages["editor"] > 0
    \/ \E h \in Slots : Announces(h)

\* and somebody has still to restart the sandbox, or no shell is there.
TerminalGoes == Ended =>
    \/ ~shell /\ conn["terminal"] = "none"
    \/ "terminal" \in slipped
    \/ \E h \in Slots : Announces(h) \/ At(h, {"restart"})

EndInv == Waiting /\ RightsGo /\ EditorGoes /\ TerminalGoes

IInv == TypeOK /\ RowInv /\ HandlersInv /\ Announced /\ EndInv
=============================================================================
