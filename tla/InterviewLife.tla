---------------------------- MODULE InterviewLife ----------------------------
(***************************************************************************)
(* What an interview promises (apps/api/src/interviews): it is started     *)
(* once, from "scheduled"; it ends once; its link becomes one person's and *)
(* stays theirs; nobody else is ever let into its room, and nobody before  *)
(* it has started; and who has become a viewer was a candidate, or would   *)
(* have been.                                                              *)
(***************************************************************************)
CONSTANTS People, Nobody

VARIABLES status, candidate, role

vars == <<status, candidate, role>>

Init ==
    /\ status = "scheduled" /\ candidate = Nobody
    /\ role = [p \in People |-> "none"]

Become(from, to) == status = from /\ status' = to /\ UNCHANGED <<candidate, role>>

Claim(p) == candidate = Nobody /\ candidate' = p /\ UNCHANGED <<status, role>>

Admit(p) ==
    /\ p = candidate /\ status \in {"live", "finished"}
    /\ role' = [role EXCEPT ![p] = "candidate"] /\ UNCHANGED <<status, candidate>>

Demote(p) ==
    /\ p = candidate /\ status = "finished"
    /\ role' = [role EXCEPT ![p] = "viewer"] /\ UNCHANGED <<status, candidate>>

\* The interview goes with its room.
Vanish ==
    /\ status # "removed" /\ status' = "removed" /\ candidate' = Nobody
    /\ role' = [p \in People |-> "none"]

Next ==
    \/ Become("scheduled", "live") \/ Become("live", "finished")
    \/ Become("scheduled", "cancelled") \/ Become("scheduled", "missed")
    \/ status # "removed" /\ \E p \in People : Claim(p)
    \/ \E p \in People : Admit(p) \/ Demote(p)
    \/ Vanish

Spec == Init /\ [][Next]_vars
=============================================================================
