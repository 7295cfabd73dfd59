------------------------------ MODULE Webhooks ------------------------------
(***************************************************************************)
(* Outgoing webhooks (apps/api/src/webhooks/webhooks.service.ts): one      *)
(* endpoint of an organisation, its rows of webhook_deliveries, and the    *)
(* workers of the API processes that claim, send and record them.          *)
(*                                                                         *)
(* A transaction, or a statement outside one, is one step; HTTP happens    *)
(* between two steps.  Time is what the code compares it with: a retry is  *)
(* due or not, a lease runs or is over, a row is fresh, older than the 24  *)
(* hours a resume looks at, or past its retention.  The ten seconds of a   *)
(* request fit in the sixty of a lease unless a process is suspended or    *)
(* the database is slow: then the lease overruns, ending under a request.  *)
(***************************************************************************)
EXTENDS Naturals

CONSTANTS
    Workers,        \* the API processes
    Deliveries,     \* the delivery IDs there can be
    NoOne,          \* not a worker
    MaxAttempts,    \* RETRY_MS.length + 1
    MaxRedeliveries,\* bound on redeliveries by hand
    MaxOverruns,    \* bound on leases that end under a request
    MaxCrashes,     \* bound on crashes of workers
    MaxFailures     \* bound on results the database does not take

ASSUME WorkersAssumption == NoOne \notin Workers
ASSUME AttemptsAssumption == MaxAttempts \in Nat \ {0}
ASSUME BoundsAssumption == /\ MaxRedeliveries \in Nat /\ MaxOverruns \in Nat
                           /\ MaxCrashes \in Nat /\ MaxFailures \in Nat

VARIABLES
    hook,        \* the endpoint: none, active, paused or gone
    row,         \* the row of each delivery
    requests,    \* what workers have claimed and not finished with
    accepted,    \* history: 2xx answers of the row's cycle
    lost,        \* history: requests of its cycle whose result nobody recorded
    redeliveries, overruns, crashes, failures

history == <<accepted, lost>>
bounds  == <<redeliveries, overruns, crashes, failures>>
vars    == <<hook, row, requests, history, bounds>>

\* A row that is not there: never queued, or removed.
Absent(status) == [status |-> status, attempts |-> 0, entries |-> 0, expired |-> FALSE,
                   due |-> "never", lease |-> "none", by |-> NoOne, age |-> 0]
NewRow  == [Absent("pending") EXCEPT !.due = "now"]
Present == {"pending", "delivered", "failed"}
Settled == {"delivered", "failed"}

RequestsOf(w) == {q \in requests : q.by = w}

Init ==
    /\ hook = "none"
    /\ row = [d \in Deliveries |-> Absent("none")]
    /\ requests = {}
    /\ accepted = [d \in Deliveries |-> 0] /\ lost = [d \in Deliveries |-> 0]
    /\ redeliveries = 0 /\ overruns = 0 /\ crashes = 0 /\ failures = 0

-----------------------------------------------------------------------------
(* The endpoint, as owners and admins manage it.                           *)

Create ==
    /\ hook = "none" /\ hook' = "active"
    /\ UNCHANGED <<row, requests, history, bounds>>

Pause ==
    /\ hook = "active" /\ hook' = "paused"
    /\ UNCHANGED <<row, requests, history, bounds>>

\* Resuming fails what has been pending for over 24 hours.  A lease is left
\* to its owner.
Expires(d) == row[d].status = "pending" /\ row[d].age > 0

Resume ==
    /\ hook = "paused" /\ hook' = "active"
    /\ row' = [d \in Deliveries |->
                 IF Expires(d) THEN [row[d] EXCEPT !.status = "failed", !.expired = TRUE, !.due = "never"]
                               ELSE row[d]]
    /\ UNCHANGED <<requests, history, bounds>>

\* Its rows go with it, by the foreign key.
Remove ==
    /\ hook \in {"active", "paused"} /\ hook' = "gone"
    /\ row' = [d \in Deliveries |-> IF row[d].status \in Present THEN Absent("gone") ELSE row[d]]
    /\ UNCHANGED <<requests, history, bounds>>

-----------------------------------------------------------------------------
(* Rows come and go.                                                       *)

\* queue() holds the subscriptions while it inserts: the endpoint is active.
Queue(d) ==
    /\ row[d].status = "none" /\ hook = "active"
    /\ row' = [row EXCEPT ![d] = NewRow]
    /\ UNCHANGED <<hook, requests, history, bounds>>

\* test() inserts a ping some awaits after it saw the endpoint active.
Ping(d) ==
    /\ row[d].status = "none" /\ hook \in {"active", "paused"}
    /\ row' = [row EXCEPT ![d] = NewRow]
    /\ UNCHANGED <<hook, requests, history, bounds>>

\* A new cycle for the row, whatever its status.
Requeued(d) ==
    [row EXCEPT ![d] = [status |-> "pending", attempts |-> 0, entries |-> @.entries, expired |-> @.expired,
                        due |-> "now", lease |-> "none", by |-> NoOne, age |-> @.age]]

\* Mutant: a live lease does not keep redeliver() off.
RedeliverAnyway(d) ==
    /\ row[d].status \in Present /\ hook \in {"active", "paused"}
    /\ redeliveries < MaxRedeliveries /\ redeliveries' = redeliveries + 1
    /\ row' = Requeued(d)
    /\ accepted' = [accepted EXCEPT ![d] = 0] /\ lost' = [lost EXCEPT ![d] = 0]
    /\ UNCHANGED <<hook, requests, overruns, crashes, failures>>

\* redeliver() saw the endpoint active, then updates the row unless its lease
\* is live.
Redeliver(d) ==
    /\ row[d].status \in Present /\ row[d].lease # "live" /\ hook \in {"active", "paused"}
    /\ redeliveries < MaxRedeliveries /\ redeliveries' = redeliveries + 1
    /\ row' = Requeued(d)
    /\ accepted' = [accepted EXCEPT ![d] = 0] /\ lost' = [lost EXCEPT ![d] = 0]
    /\ UNCHANGED <<hook, requests, overruns, crashes, failures>>

\* cleanup() deletes settled rows past their retention, leased or not.
Cleanup(d) ==
    /\ row[d].status \in Settled /\ row[d].age = 2
    /\ row' = [row EXCEPT ![d] = Absent("gone")]
    /\ UNCHANGED <<hook, requests, history, bounds>>

-----------------------------------------------------------------------------
(* Time.                                                                   *)

RetryDue(d) ==
    /\ row[d].due = "later"
    /\ row' = [row EXCEPT ![d].due = "now"]
    /\ UNCHANGED <<hook, requests, history, bounds>>

LeaseOver(d) ==
    /\ row[d].lease = "live"
    /\ IF \E q \in RequestsOf(row[d].by) : q.id = d
       THEN overruns < MaxOverruns /\ overruns' = overruns + 1
       ELSE UNCHANGED overruns
    /\ row' = [row EXCEPT ![d].lease = "over"]
    /\ UNCHANGED <<hook, requests, history, redeliveries, crashes, failures>>

Age(d) ==
    /\ row[d].status \in Present /\ row[d].age < 2
    /\ row' = [row EXCEPT ![d].age = @ + 1]
    /\ UNCHANGED <<hook, requests, history, bounds>>

-----------------------------------------------------------------------------
(* The worker of an API process.                                           *)

\* Mutant: rows are claimed whether or not their lease is live.
ClaimableLeased(d) == row[d].status = "pending" /\ row[d].due = "now"

\* Mutant: a lease that is over is not claimed again.
ClaimableUnleased(d) == row[d].status = "pending" /\ row[d].due = "now" /\ row[d].lease = "none"

Claimable(d) == row[d].status = "pending" /\ row[d].due = "now" /\ row[d].lease # "live"

\* A tick of a worker whose last batch is done leases a batch: some of what is
\* claimable, for it takes at most 20 rows and skips those another transaction
\* has locked.
Claim(w) ==
    /\ hook = "active" /\ RequestsOf(w) = {}
    /\ \E S \in SUBSET {d \in Deliveries : Claimable(d)} \ {{}} :
         /\ row' = [d \in Deliveries |->
                      IF d \in S THEN [row[d] EXCEPT !.lease = "live", !.by = w] ELSE row[d]]
         /\ requests' = requests \cup
              {[by |-> w, id |-> d, attempts |-> row[d].attempts, entries |-> row[d].entries,
                answer |-> "awaited"] : d \in S}
    /\ UNCHANGED <<hook, history, bounds>>

\* send() ends: with a 2xx, or with anything else within ten seconds.
Answer(q) ==
    /\ q.answer = "awaited"
    /\ \E answer \in {"2xx", "other"} :
         /\ requests' = (requests \ {q}) \cup {[q EXCEPT !.answer = answer]}
         /\ accepted' = [accepted EXCEPT ![q.id] = @ + IF answer = "2xx" THEN 1 ELSE 0]
    /\ UNCHANGED <<hook, row, lost, bounds>>

\* Mutant: gives up one attempt later.
StatusTooLate(q, tried) == IF q.answer = "2xx" THEN "delivered"
                           ELSE IF tried > MaxAttempts THEN "failed" ELSE "pending"

StatusAfter(q, tried) == IF q.answer = "2xx" THEN "delivered"
                         ELSE IF tried >= MaxAttempts THEN "failed" ELSE "pending"

\* The row after this result.
Recorded(q) ==
    LET tried == q.attempts + 1
        status == StatusAfter(q, tried)
    IN [status |-> status, attempts |-> tried, entries |-> q.entries + 1, expired |-> FALSE,
        due |-> IF status = "pending" THEN "later" ELSE "never",
        lease |-> "none", by |-> NoOne, age |-> row[q.id].age]

\* Mutant: whatever became of the row.
OwnsSettled(q) == row[q.id].by = q.by

\* The row is still pending and its lease is this worker's.
Owns(q) == row[q.id].by = q.by /\ row[q.id].status = "pending"

\* The result is recorded.  If the row is not this worker's any more, the
\* worker still has to look whether a resume expired it.
Record(q) ==
    /\ q.answer \in {"2xx", "other"}
    /\ IF Owns(q)
       THEN /\ row' = [row EXCEPT ![q.id] = Recorded(q)]
            /\ requests' = requests \ {q}
            /\ UNCHANGED lost
       ELSE /\ requests' = (requests \ {q}) \cup {[q EXCEPT !.answer = "unrecorded"]}
            /\ lost' = [lost EXCEPT ![q.id] = @ + 1]
            /\ UNCHANGED row
    /\ UNCHANGED <<hook, accepted, bounds>>

\* Releases the worker's own lease of a row that expired, and nothing else.
Release(q) ==
    /\ q.answer = "unrecorded"
    /\ row' = IF row[q.id].by = q.by /\ row[q.id].status = "failed" /\ row[q.id].expired
              THEN [row EXCEPT ![q.id] = [@ EXCEPT !.lease = "none", !.by = NoOne]] ELSE row
    /\ requests' = requests \ {q}
    /\ UNCHANGED <<hook, history, bounds>>

\* The database does not take the result: the lease is left to end.
RecordFails(q) ==
    /\ q.answer # "awaited"
    /\ failures < MaxFailures /\ failures' = failures + 1
    /\ requests' = requests \ {q}
    /\ lost' = [lost EXCEPT ![q.id] = @ + IF q.answer = "unrecorded" THEN 0 ELSE 1]
    /\ UNCHANGED <<hook, row, accepted, redeliveries, overruns, crashes>>

\* The process dies and starts again with a new worker ID: nobody owns the
\* leases it had.
Crash(w) ==
    /\ crashes < MaxCrashes
    /\ RequestsOf(w) # {} \/ \E d \in Deliveries : row[d].by = w
    /\ crashes' = crashes + 1
    /\ requests' = requests \ RequestsOf(w)
    /\ lost' = [d \in Deliveries |->
                  IF \E q \in RequestsOf(w) : q.id = d /\ q.answer # "unrecorded" THEN lost[d] + 1 ELSE lost[d]]
    /\ row' = [d \in Deliveries |-> IF row[d].by = w THEN [row[d] EXCEPT !.by = NoOne] ELSE row[d]]
    /\ UNCHANGED <<hook, accepted, redeliveries, overruns, failures>>

-----------------------------------------------------------------------------
Manage == Create \/ Pause \/ Resume \/ Remove
Row(d) == Queue(d) \/ Ping(d) \/ Redeliver(d) \/ Cleanup(d)
Time(d) == RetryDue(d) \/ LeaseOver(d) \/ Age(d)
Finish(q) == Answer(q) \/ Record(q) \/ Release(q)

Next ==
    \/ Manage
    \/ \E d \in Deliveries : Row(d) \/ Time(d)
    \/ \E w \in Workers : Claim(w) \/ Crash(w)
    \/ \E q \in requests : Finish(q) \/ RecordFails(q)

Spec == Init /\ [][Next]_vars

\* Retries come due, leases end, the five-second tick claims what it can, and
\* a request and its result come to an end.  Nobody has to resume an endpoint.
Fairness ==
    /\ \A d \in Deliveries : WF_vars(RetryDue(d)) /\ WF_vars(LeaseOver(d))
    /\ \A w \in Workers : WF_vars(Claim(w)) /\ WF_vars(\E q \in RequestsOf(w) : Finish(q))

FairSpec == Spec /\ Fairness
-----------------------------------------------------------------------------
(* What the code must keep.                                                *)

RowType == [status : {"none", "gone"} \cup Present, attempts : 0..MaxAttempts, entries : Nat,
            expired : BOOLEAN, due : {"now", "later", "never"}, lease : {"none", "live", "over"},
            by : Workers \cup {NoOne}, age : 0..2]
Request == [by : Workers, id : Deliveries, attempts : Nat, entries : Nat,
            answer : {"awaited", "2xx", "other", "unrecorded"}]

TypeOK ==
    /\ hook \in {"none", "active", "paused", "gone"}
    /\ row \in [Deliveries -> RowType]
    /\ requests \subseteq Request
    /\ accepted \in [Deliveries -> Nat] /\ lost \in [Deliveries -> Nat]
    /\ redeliveries \in 0..MaxRedeliveries /\ overruns \in 0..MaxOverruns
    /\ crashes \in 0..MaxCrashes /\ failures \in 0..MaxFailures

\* Two API copies never send the same delivery at once while no lease has
\* overrun: not through a crash, a pause and resume or a redelivery.
OneSender ==
    overruns = 0 => \A q, r \in requests : q.id = r.id /\ q.answer = "awaited" => q = r

\* A receiver that answered 2xx gets the event again only when somebody asks
\* for it, or once for each answer that a crash or the database kept from the
\* log, or a lease that overran.
AcceptedOnce == \A d \in Deliveries : accepted[d] <= 1 + lost[d] + overruns

\* A pending delivery is settled in the end, unless the endpoint is paused or
\* removed: no lease, crash or failed update leaves it stuck.
Settles == \A d \in Deliveries : row[d].status = "pending" ~> row[d].status # "pending" \/ hook # "active"

\* The log of each delivery is what DeliveryLife promises: no result of a
\* worker that lost its lease, of an expired row or of an earlier cycle
\* changes a status, an attempt count or the history.
Life == [d \in Deliveries |-> [status |-> row[d].status, attempts |-> row[d].attempts,
                                entries |-> row[d].entries, expired |-> row[d].expired]]
L == INSTANCE DeliveryLife WITH life <- Life
ImplementsDeliveryLife == L!Spec
=============================================================================
