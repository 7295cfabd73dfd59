----------------------------- MODULE WebhooksInv -----------------------------
(***************************************************************************)
(* The inductive invariants behind the safety properties of Webhooks: what *)
(* a row and the requests made for it know of each other.                  *)
(***************************************************************************)
EXTENDS Webhooks, FiniteSets

\* A row that is still pending has attempts left, and one that was never
\* queued is blank.
HasBudget  == \A d \in Deliveries : row[d].status = "pending" => row[d].attempts < MaxAttempts
NoneIsBlank == \A d \in Deliveries :
    row[d].status = "none" => row[d].attempts = 0 /\ row[d].entries = 0 /\ ~row[d].expired

\* A worker has one request for a row at most, made when the row was there.
OneEach == \A q, r \in requests : q.by = r.by /\ q.id = r.id => q = r
Born    == \A q \in requests : row[q.id].status # "none"

\* What the owner of a lease read when it claimed a pending row is what the
\* row still says.
Carried == \A q \in requests :
    row[q.id].by = q.by /\ row[q.id].status = "pending"
        => q.attempts = row[q.id].attempts /\ q.entries = row[q.id].entries

RowInv == HasBudget /\ NoneIsBlank /\ OneEach /\ Born /\ Carried

\* While no lease has overrun, whoever sends a row's delivery owns its live
\* lease, and is alone.
OwnsLease == \A q \in requests : row[q.id].status \in Present => row[q.id].lease = "live" /\ row[q.id].by = q.by
Alone     == \A q, r \in requests : q.id = r.id => q = r
LeaseInv  == overruns = 0 => OwnsLease /\ Alone

\* The owner of a row's live lease has a request for it, answered so.
Holds(d, answers) ==
    /\ row[d].lease = "live"
    /\ \E q \in requests : q.id = d /\ q.by = row[d].by /\ q.answer \in answers

\* Only the owner of a live lease sends without an overrun: besides its
\* request, there is at most one for each lease that ended under one.
Awaited(d)   == {q \in requests : q.id = d /\ q.answer = "awaited"}
Sends(d)     == Cardinality(Awaited(d))
MaySend(d)   == row[d].status = "gone" \/ Holds(d, {"awaited"})
SendBound(d) == /\ IsFiniteSet(Awaited(d))
                /\ Sends(d) <= overruns + IF MaySend(d) THEN 1 ELSE 0

\* Of the 2xx answers, those there are and those that may come, all but one
\* are paid for by a lost result or an overrun; and that one too unless the
\* row says delivered, is gone, or its owner is about to record it.
MayAccept(d)   == row[d].status \in {"delivered", "gone"} \/ Holds(d, {"awaited", "2xx"})
AcceptBound(d) == accepted[d] + Sends(d) <= lost[d] + overruns + IF MayAccept(d) THEN 1 ELSE 0

AcceptInv == \A d \in Deliveries : SendBound(d) /\ AcceptBound(d)
=============================================================================
