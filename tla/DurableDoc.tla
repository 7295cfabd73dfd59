----------------------------- MODULE DurableDoc -----------------------------
(***************************************************************************)
(* What the collab servers promise of a room document, whatever happens    *)
(* between them and Postgres: what was saved stays saved until the room is *)
(* deleted, whoever opens the document gets all of it, and a copy that is  *)
(* open only grows until it closes.                                        *)
(***************************************************************************)
CONSTANTS Instances, Updates

VARIABLES
    alive,   \* the room exists
    saved,   \* the updates every later reader will get
    copy     \* each instance's copy: open or not, and the updates it has

dvars == <<alive, saved, copy>>

Closed == [open |-> FALSE, has |-> {}]
OpenWith(S) == [open |-> TRUE, has |-> S]

Init ==
    /\ alive = TRUE /\ saved = {}
    /\ copy = [i \in Instances |-> Closed]

\* More is saved.
Save ==
    /\ alive /\ saved \subseteq saved' /\ saved' \subseteq Updates
    /\ UNCHANGED <<alive, copy>>

\* Whoever opens the document gets everything saved, and perhaps more.
Open(i) ==
    /\ ~copy[i].open
    /\ \E S \in SUBSET Updates :
         saved \subseteq S /\ copy' = [copy EXCEPT ![i] = OpenWith(S)]
    /\ UNCHANGED <<alive, saved>>

Grow(i) ==
    /\ copy[i].open
    /\ \E S \in SUBSET Updates :
         copy[i].has \subseteq S /\ copy' = [copy EXCEPT ![i] = OpenWith(S)]
    /\ UNCHANGED <<alive, saved>>

Close(i) ==
    /\ copy[i].open
    /\ copy' = [copy EXCEPT ![i] = Closed]
    /\ UNCHANGED <<alive, saved>>

Delete ==
    /\ alive /\ alive' = FALSE /\ saved' = {}
    /\ UNCHANGED copy

Next == Save \/ Delete \/ \E i \in Instances : Open(i) \/ Grow(i) \/ Close(i)

Spec == Init /\ [][Next]_dvars
=============================================================================
