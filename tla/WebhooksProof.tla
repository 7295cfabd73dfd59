---------------------------- MODULE WebhooksProof ----------------------------
(***************************************************************************)
(* Proofs about Webhooks, for any workers, deliveries and bounds.          *)
(***************************************************************************)
EXTENDS WebhooksInv, FiniteSetTheorems, TLAPS

USE WorkersAssumption, AttemptsAssumption, BoundsAssumption DEF Present, Settled

(* What the steps do to a row.                                             *)

\* A record update as a record, for the provers.
LEMMA RowFields ==
    ASSUME TypeOK, NEW d \in Deliveries
    PROVE  /\ row[d].status \in {"none", "gone"} \cup Present /\ row[d].attempts \in 0..MaxAttempts
           /\ row[d].entries \in Nat /\ row[d].expired \in BOOLEAN
           /\ row[d].due \in {"now", "later", "never"} /\ row[d].lease \in {"none", "live", "over"}
           /\ row[d].by \in Workers \cup {NoOne} /\ row[d].age \in 0..2
  BY DEF TypeOK, RowType

\* One field at a time, for the provers: updates of several do not simplify.
LEMMA Setters ==
    ASSUME NEW r \in RowType
    PROVE  /\ \A x \in {"none", "gone"} \cup Present : [r EXCEPT !.status = x] \in RowType
           /\ \A x \in 0..MaxAttempts : [r EXCEPT !.attempts = x] \in RowType
           /\ \A x \in Nat : [r EXCEPT !.entries = x] \in RowType
           /\ \A x \in BOOLEAN : [r EXCEPT !.expired = x] \in RowType
           /\ \A x \in {"now", "later", "never"} : [r EXCEPT !.due = x] \in RowType
           /\ \A x \in {"none", "live", "over"} : [r EXCEPT !.lease = x] \in RowType
           /\ \A x \in Workers \cup {NoOne} : [r EXCEPT !.by = x] \in RowType
  BY DEF RowType

LEMMA TypeInit == Init => TypeOK
  BY DEF Init, TypeOK, RowType, Absent

LEMMA TypeStep == TypeOK /\ RowInv /\ [Next]_vars => TypeOK'
<1> SUFFICES ASSUME TypeOK, RowInv, [Next]_vars PROVE TypeOK'
  OBVIOUS
<1> USE DEF vars, history, bounds
<1>1. CASE Create \/ Pause
  BY <1>1 DEF Create, Pause, TypeOK
<1>2. CASE Resume
  <2>1. ASSUME NEW d \in Deliveries
        PROVE  [row[d] EXCEPT !.status = "failed", !.expired = TRUE, !.due = "never"] \in RowType
    BY ZenonT(60) DEF TypeOK, RowType
  <2>2. row' \in [Deliveries -> RowType]
    BY <1>2, <2>1 DEF Resume, TypeOK
  <2> QED
    BY <1>2, <2>2 DEF Resume, TypeOK
<1>3. CASE Remove
  <2>1. Absent("gone") \in RowType
    BY DEF Absent, RowType
  <2>2. row' \in [Deliveries -> RowType]
    BY <1>3, <2>1 DEF Remove, TypeOK
  <2> QED
    BY <1>3, <2>2 DEF Remove, TypeOK
<1>4. ASSUME NEW d \in Deliveries, Queue(d) \/ Ping(d) \/ Cleanup(d) PROVE TypeOK'
  <2>1. Absent("pending") \in RowType /\ Absent("gone") \in RowType
    BY DEF Absent, RowType
  <2>2. NewRow \in RowType
    BY <2>1, Setters DEF NewRow
  <2>3. row' \in [Deliveries -> RowType]
    BY <1>4, <2>1, <2>2 DEF Queue, Ping, Cleanup, TypeOK
  <2> QED
    BY <1>4, <2>3 DEF Queue, Ping, Cleanup, TypeOK
<1>5. ASSUME NEW d \in Deliveries, Redeliver(d) PROVE TypeOK'
  <2>1. [status |-> "pending", attempts |-> 0, entries |-> row[d].entries, expired |-> row[d].expired,
         due |-> "now", lease |-> "none", by |-> NoOne, age |-> row[d].age] \in RowType
    BY RowFields DEF RowType
  <2>2. Requeued(d) \in [Deliveries -> RowType]
    BY <2>1 DEF Requeued, TypeOK
  <2>3. row' \in [Deliveries -> RowType]
    BY <1>5, <2>2 DEF Redeliver
  <2>4. redeliveries' \in 0..MaxRedeliveries
    BY <1>5 DEF Redeliver, TypeOK
  <2>5. accepted' \in [Deliveries -> Nat] /\ lost' \in [Deliveries -> Nat]
    BY <1>5 DEF Redeliver, TypeOK
  <2> QED
    BY <1>5, <2>3, <2>4, <2>5 DEF Redeliver, TypeOK
<1>6. ASSUME NEW d \in Deliveries, RetryDue(d) PROVE TypeOK'
  <2>1. [row[d] EXCEPT !.due = "now"] \in RowType
    BY DEF TypeOK, RowType
  <2>2. row' \in [Deliveries -> RowType]
    BY <1>6, <2>1 DEF RetryDue, TypeOK
  <2> QED
    BY <1>6, <2>2 DEF RetryDue, TypeOK
<1>7. ASSUME NEW d \in Deliveries, LeaseOver(d) PROVE TypeOK'
  <2>1. [row[d] EXCEPT !.lease = "over"] \in RowType
    BY DEF TypeOK, RowType
  <2>2. row' \in [Deliveries -> RowType]
    BY <1>7, <2>1 DEF LeaseOver, TypeOK
  <2>3. overruns' \in 0..MaxOverruns
    BY <1>7 DEF LeaseOver, TypeOK
  <2> QED
    BY <1>7, <2>2, <2>3 DEF LeaseOver, TypeOK
<1>8. ASSUME NEW d \in Deliveries, Age(d) PROVE TypeOK'
  <2>1. [row[d] EXCEPT !.age = @ + 1] \in RowType
    BY <1>8 DEF TypeOK, RowType, Age
  <2>2. row' \in [Deliveries -> RowType]
    BY <1>8, <2>1 DEF Age, TypeOK
  <2> QED
    BY <1>8, <2>2 DEF Age, TypeOK
<1>9. ASSUME NEW w \in Workers, Claim(w) PROVE TypeOK'
  <2>1. PICK S \in SUBSET Deliveries :
          /\ row' = [d \in Deliveries |->
                       IF d \in S THEN [row[d] EXCEPT !.lease = "live", !.by = w] ELSE row[d]]
          /\ requests' = requests \cup
               {[by |-> w, id |-> d, attempts |-> row[d].attempts, entries |-> row[d].entries,
                 answer |-> "awaited"] : d \in S}
    BY <1>9 DEF Claim
  <2>2. ASSUME NEW d \in Deliveries PROVE [row[d] EXCEPT !.lease = "live", !.by = w] \in RowType
    BY ZenonT(60) DEF RowType, TypeOK
  <2>3. row' \in [Deliveries -> RowType]
    BY <2>1, <2>2 DEF TypeOK
  <2>4. ASSUME NEW d \in S
        PROVE  [by |-> w, id |-> d, attempts |-> row[d].attempts, entries |-> row[d].entries,
                answer |-> "awaited"] \in Request
    BY RowFields DEF Request
  <2>5. requests' \subseteq Request
    BY <2>1, <2>4 DEF TypeOK
  <2> QED
    BY <1>9, <2>3, <2>5 DEF Claim, TypeOK
<1>10. ASSUME NEW w \in Workers, Crash(w) PROVE TypeOK'
  <2>1. ASSUME NEW d \in Deliveries PROVE [row[d] EXCEPT !.by = NoOne] \in RowType
    BY DEF TypeOK, RowType
  <2>2. row' \in [Deliveries -> RowType]
    BY <1>10, <2>1 DEF Crash, TypeOK
  <2>3. lost' \in [Deliveries -> Nat]
    BY <1>10 DEF Crash, TypeOK
  <2>4. crashes' \in 0..MaxCrashes /\ requests' \subseteq Request
    BY <1>10 DEF Crash, TypeOK
  <2> QED
    BY <1>10, <2>2, <2>3, <2>4 DEF Crash, TypeOK
<1>11. ASSUME NEW q \in requests, Answer(q) PROVE TypeOK'
  <2>1. q \in Request /\ q.id \in Deliveries
    BY DEF TypeOK, Request
  <2>2. PICK answer \in {"2xx", "other"} :
          /\ requests' = (requests \ {q}) \cup {[q EXCEPT !.answer = answer]}
          /\ accepted' = [accepted EXCEPT ![q.id] = @ + IF answer = "2xx" THEN 1 ELSE 0]
    BY <1>11 DEF Answer
  <2>3. [q EXCEPT !.answer = answer] \in Request
    BY <2>1 DEF Request
  <2>4. requests' \subseteq Request
    BY <2>2, <2>3 DEF TypeOK
  <2>5. accepted' \in [Deliveries -> Nat]
    BY <2>1, <2>2 DEF TypeOK
  <2> QED
    BY <1>11, <2>4, <2>5 DEF Answer, TypeOK
<1>12. ASSUME NEW q \in requests, Record(q) PROVE TypeOK'
  <2>1. q \in Request /\ q.id \in Deliveries
    BY DEF Request, TypeOK
  <2>2. CASE Owns(q)
    <3>1. q.attempts + 1 \in 0..MaxAttempts /\ q.entries + 1 \in Nat
      BY <2>1, <2>2, RowFields DEF Owns, RowInv, HasBudget, Carried, Request
    <3>2. StatusAfter(q, q.attempts + 1) \in Present
      BY DEF StatusAfter
    <3>3. Recorded(q) \in RowType
      BY <2>1, <3>1, <3>2, RowFields DEF Recorded, RowType
    <3>4. row' \in [Deliveries -> RowType]
      BY <1>12, <2>2, <3>3 DEF Record, TypeOK
    <3> QED
      BY <1>12, <2>2, <3>4 DEF Record, TypeOK
  <2>3. CASE ~Owns(q)
    <3>1. [q EXCEPT !.answer = "unrecorded"] \in Request
      BY <2>1 DEF Request
    <3>2. requests' \subseteq Request /\ lost' \in [Deliveries -> Nat]
      BY <1>12, <2>1, <2>3, <3>1 DEF Record, TypeOK
    <3> QED
      BY <1>12, <2>3, <3>2 DEF Record, TypeOK
  <2> QED
    BY <2>2, <2>3
<1>13. ASSUME NEW q \in requests, Release(q) PROVE TypeOK'
  <2>1. q.id \in Deliveries
    BY DEF Request, TypeOK
  <2>2. [row[q.id] EXCEPT !.lease = "none", !.by = NoOne] \in RowType
    <3>1. row[q.id] \in RowType
      BY <2>1 DEF TypeOK
    <3> QED
      BY <3>1 DEF RowType
  <2>3. row' \in [Deliveries -> RowType]
    BY <1>13, <2>1, <2>2 DEF Release, TypeOK
  <2> QED
    BY <1>13, <2>3 DEF Release, TypeOK
<1>14. ASSUME NEW q \in requests, RecordFails(q) PROVE TypeOK'
  <2>1. q.id \in Deliveries
    BY DEF Request, TypeOK
  <2>2. lost' \in [Deliveries -> Nat] /\ failures' \in 0..MaxFailures
    BY <1>14, <2>1 DEF RecordFails, TypeOK
  <2> QED
    BY <1>14, <2>2 DEF RecordFails, TypeOK
<1>15. CASE UNCHANGED vars
  BY <1>15 DEF TypeOK
<1> QED
  BY <1>1, <1>2, <1>3, <1>4, <1>5, <1>6, <1>7, <1>8, <1>9, <1>10, <1>11, <1>12, <1>13, <1>14, <1>15
     DEF Next, Manage, Row, Time, Finish

-----------------------------------------------------------------------------
(* What a row and its requests know of each other.                         *)

LEMMA RequestFields ==
    ASSUME TypeOK, NEW q \in requests
    PROVE  /\ q.by \in Workers /\ q.id \in Deliveries /\ q.attempts \in Nat /\ q.entries \in Nat
           /\ q.by # NoOne
  BY DEF TypeOK, Request

\* A request with a new answer is otherwise the same.
LEMMA NewAnswer ==
    ASSUME TypeOK, NEW q \in requests, NEW answer
    PROVE  LET new == [q EXCEPT !.answer = answer]
           IN  /\ new.by = q.by /\ new.id = q.id /\ new.attempts = q.attempts
               /\ new.entries = q.entries /\ new.answer = answer
  BY DEF TypeOK, Request

LEMMA RowInvInit == Init => RowInv
  BY DEF Init, RowInv, HasBudget, NoneIsBlank, OneEach, Born, Carried, Absent

\* A request that gets another answer, or goes, leaves RowInv as it was.
LEMMA RequestsOnly ==
    ASSUME TypeOK, RowInv, NEW q \in requests, NEW answer, UNCHANGED row,
           \/ requests' = requests \ {q}
           \/ requests' = (requests \ {q}) \cup {[q EXCEPT !.answer = answer]}
    PROVE  RowInv'
<1> DEFINE new == [q EXCEPT !.answer = answer]
<1>1. new.by = q.by /\ new.id = q.id /\ new.attempts = q.attempts /\ new.entries = q.entries
  BY NewAnswer
<1>2. \A r \in requests' : r \in requests \/ r = new
  OBVIOUS
<1> HIDE DEF new
<1>3. ASSUME NEW r \in requests', NEW p \in requests', r.by = p.by, r.id = p.id PROVE r = p
  <2>1. q \notin requests' \/ q = new
    BY DEF new
  <2> QED
    BY <1>1, <1>2, <1>3, <2>1 DEF RowInv, OneEach
<1>4. Born' /\ Carried'
  BY <1>1, <1>2 DEF RowInv, Born, Carried
<1> QED
  BY <1>3, <1>4 DEF RowInv, HasBudget, NoneIsBlank, OneEach

LEMMA RowInvStep == TypeOK /\ RowInv /\ [Next]_vars => RowInv'
<1> SUFFICES ASSUME TypeOK, RowInv, [Next]_vars PROVE RowInv'
  OBVIOUS
<1> USE DEF vars, history, bounds
<1>1. CASE Create \/ Pause
  BY <1>1 DEF Create, Pause, RowInv, HasBudget, NoneIsBlank, OneEach, Born, Carried
<1>2. CASE Resume
  <2>1. requests' = requests
    BY <1>2 DEF Resume
  <2>2. ASSUME NEW d \in Deliveries
        PROVE  /\ row'[d].attempts = row[d].attempts /\ row'[d].entries = row[d].entries
               /\ row'[d].by = row[d].by
               /\ \/ row'[d].status = row[d].status /\ row'[d].expired = row[d].expired
                  \/ row[d].status = "pending" /\ row'[d].status = "failed"
    <3>1. row[d] \in RowType
      BY DEF TypeOK
    <3>2. row'[d] = IF Expires(d)
                    THEN [row[d] EXCEPT !.status = "failed", !.expired = TRUE, !.due = "never"]
                    ELSE row[d]
      BY <1>2 DEF Resume
    <3> QED
      BY <3>1, <3>2 DEF RowType, Expires
  <2> QED
    BY <2>1, <2>2, RequestFields DEF RowInv, HasBudget, NoneIsBlank, OneEach, Born, Carried
<1>3. CASE Remove
  <2>1. requests' = requests
    BY <1>3 DEF Remove
  <2>2. ASSUME NEW d \in Deliveries
        PROVE  row'[d] = row[d] \/ row'[d].status = "gone"
    BY <1>3 DEF Remove, Absent
  <2> QED
    BY <2>1, <2>2, RequestFields DEF RowInv, HasBudget, NoneIsBlank, OneEach, Born, Carried
<1>4. ASSUME NEW d \in Deliveries, Queue(d) \/ Ping(d) PROVE RowInv'
  <2>1. requests' = requests /\ row[d].status = "none"
    BY <1>4 DEF Queue, Ping
  <2>2. row'[d].status = "pending" /\ row'[d].attempts = 0
    BY <1>4 DEF Queue, Ping, NewRow, Absent, TypeOK
  <2>3. \A e \in Deliveries \ {d} : row'[e] = row[e]
    BY <1>4 DEF Queue, Ping, TypeOK
  <2> QED
    BY <2>1, <2>2, <2>3, RequestFields DEF RowInv, HasBudget, NoneIsBlank, OneEach, Born, Carried
<1>5. ASSUME NEW d \in Deliveries, Cleanup(d) PROVE RowInv'
  <2>1. requests' = requests /\ row'[d].status = "gone" /\ \A e \in Deliveries \ {d} : row'[e] = row[e]
    BY <1>5 DEF Cleanup, Absent, TypeOK
  <2> QED
    BY <2>1, RequestFields DEF RowInv, HasBudget, NoneIsBlank, OneEach, Born, Carried
<1>6. ASSUME NEW d \in Deliveries, Redeliver(d) PROVE RowInv'
  <2>1. requests' = requests /\ \A e \in Deliveries \ {d} : row'[e] = row[e]
    BY <1>6 DEF Redeliver, Requeued, TypeOK
  <2>2. row'[d].status = "pending" /\ row'[d].attempts = 0 /\ row'[d].by = NoOne
    BY <1>6 DEF Redeliver, Requeued, TypeOK
  <2> QED
    BY <2>1, <2>2, RequestFields DEF RowInv, HasBudget, NoneIsBlank, OneEach, Born, Carried
<1>7. ASSUME NEW d \in Deliveries, Time(d) PROVE RowInv'
  <2>1. requests' = requests /\ \A e \in Deliveries \ {d} : row'[e] = row[e]
    BY <1>7 DEF Time, RetryDue, LeaseOver, Age, TypeOK
  <2>2. /\ row'[d].status = row[d].status /\ row'[d].attempts = row[d].attempts
        /\ row'[d].entries = row[d].entries /\ row'[d].expired = row[d].expired
        /\ row'[d].by = row[d].by
    <3>1. row[d] \in RowType
      BY DEF TypeOK
    <3>2. \/ row'[d] = [row[d] EXCEPT !.due = "now"]
          \/ row'[d] = [row[d] EXCEPT !.lease = "over"]
          \/ row'[d] = [row[d] EXCEPT !.age = @ + 1]
      BY <1>7 DEF Time, RetryDue, LeaseOver, Age, TypeOK
    <3> QED
      BY <3>1, <3>2 DEF RowType
  <2> QED
    BY <2>1, <2>2, RequestFields DEF RowInv, HasBudget, NoneIsBlank, OneEach, Born, Carried
<1>8. ASSUME NEW w \in Workers, Claim(w) PROVE RowInv'
  <2>1. PICK S \in SUBSET {d \in Deliveries : Claimable(d)} :
          /\ row' = [d \in Deliveries |->
                       IF d \in S THEN [row[d] EXCEPT !.lease = "live", !.by = w] ELSE row[d]]
          /\ requests' = requests \cup
               {[by |-> w, id |-> d, attempts |-> row[d].attempts, entries |-> row[d].entries,
                 answer |-> "awaited"] : d \in S}
    BY <1>8 DEF Claim
  <2>2. ASSUME NEW d \in Deliveries
        PROVE  /\ row'[d].status = row[d].status /\ row'[d].attempts = row[d].attempts
               /\ row'[d].entries = row[d].entries /\ row'[d].expired = row[d].expired
               /\ row'[d].by = IF d \in S THEN w ELSE row[d].by
    <3>1. row[d] \in RowType
      BY DEF TypeOK
    <3>2. row'[d] = IF d \in S THEN [row[d] EXCEPT !.lease = "live", !.by = w] ELSE row[d]
      BY <2>1
    <3> QED
      BY <3>1, <3>2 DEF RowType
  <2>3. \A q \in requests : q.by # w
    BY <1>8 DEF Claim, RequestsOf
  <2>4. ASSUME NEW q \in requests', q \notin requests
        PROVE  /\ q.id \in S /\ q.by = w /\ q.attempts = row[q.id].attempts /\ q.entries = row[q.id].entries
               /\ q = [by |-> w, id |-> q.id, attempts |-> row[q.id].attempts,
                       entries |-> row[q.id].entries, answer |-> "awaited"]
    <3>1. PICK d \in S : q = [by |-> w, id |-> d, attempts |-> row[d].attempts,
                              entries |-> row[d].entries, answer |-> "awaited"]
      BY <2>1, <2>4
    <3> QED
      BY <3>1
  <2>5. \A d \in S : d \in Deliveries /\ row[d].status = "pending"
    BY <2>1 DEF Claimable
  <2>6. HasBudget' /\ NoneIsBlank'
    BY <2>2 DEF RowInv, HasBudget, NoneIsBlank
  <2>7. OneEach'
    BY <2>3, <2>4 DEF RowInv, OneEach
  <2>8. Born' /\ Carried'
    BY <2>2, <2>3, <2>4, <2>5, RequestFields DEF RowInv, Born, Carried
  <2> QED
    BY <2>6, <2>7, <2>8 DEF RowInv
<1>9. ASSUME NEW w \in Workers, Crash(w) PROVE RowInv'
  <2>1. requests' \subseteq requests
    BY <1>9 DEF Crash
  <2>2. ASSUME NEW d \in Deliveries
        PROVE  /\ row'[d].status = row[d].status /\ row'[d].attempts = row[d].attempts
               /\ row'[d].entries = row[d].entries /\ row'[d].expired = row[d].expired
               /\ row'[d].by \in {row[d].by, NoOne}
    <3>1. row[d] \in RowType
      BY DEF TypeOK
    <3>2. row'[d] = IF row[d].by = w THEN [row[d] EXCEPT !.by = NoOne] ELSE row[d]
      BY <1>9 DEF Crash
    <3> QED
      BY <3>1, <3>2 DEF RowType
  <2> QED
    BY <2>1, <2>2, RequestFields DEF RowInv, HasBudget, NoneIsBlank, OneEach, Born, Carried
<1>10. ASSUME NEW q \in requests, Answer(q) \/ RecordFails(q) PROVE RowInv'
  <2>1. /\ UNCHANGED row
        /\ \/ requests' = requests \ {q}
           \/ \E answer \in {"2xx", "other"} : requests' = (requests \ {q}) \cup {[q EXCEPT !.answer = answer]}
    BY <1>10 DEF Answer, RecordFails
  <2> QED
    BY <2>1, RequestsOnly
<1>11. ASSUME NEW q \in requests, Record(q) PROVE RowInv'
  <2>1. CASE ~Owns(q)
    BY <1>11, <2>1, RequestsOnly DEF Record
  <2>2. CASE Owns(q)
    <3>1. requests' = requests \ {q} /\ q.id \in Deliveries
      BY <1>11, <2>2, RequestFields DEF Record
    <3>2. /\ \A e \in Deliveries \ {q.id} : row'[e] = row[e]
          /\ row'[q.id].status \in Present /\ row'[q.id].by = NoOne
          /\ row'[q.id].attempts = q.attempts + 1
          /\ row'[q.id].status = "pending" => ~(q.attempts + 1 >= MaxAttempts)
      BY <1>11, <2>2, <3>1 DEF Record, Recorded, StatusAfter, TypeOK
    <3> QED
      BY <3>1, <3>2, RequestFields DEF RowInv, HasBudget, NoneIsBlank, OneEach, Born, Carried
  <2> QED
    BY <2>1, <2>2
<1>12. ASSUME NEW q \in requests, Release(q) PROVE RowInv'
  <2>1. requests' = requests \ {q} /\ q.id \in Deliveries
    BY <1>12, RequestFields DEF Release
  <2>2. ASSUME NEW d \in Deliveries
        PROVE  /\ row'[d].status = row[d].status /\ row'[d].attempts = row[d].attempts
               /\ row'[d].entries = row[d].entries /\ row'[d].expired = row[d].expired
               /\ row'[d].by \in {row[d].by, NoOne}
    <3>1. row[d] \in RowType
      BY DEF TypeOK
    <3>2. row'[d] = row[d] \/ row'[d] = [row[d] EXCEPT !.lease = "none", !.by = NoOne]
      BY <1>12 DEF Release, TypeOK
    <3> QED
      BY <3>1, <3>2 DEF RowType
  <2> QED
    BY <2>1, <2>2, RequestFields DEF RowInv, HasBudget, NoneIsBlank, OneEach, Born, Carried
<1>13. CASE UNCHANGED vars
  BY <1>13 DEF RowInv, HasBudget, NoneIsBlank, OneEach, Born, Carried
<1> QED
  BY <1>1, <1>2, <1>3, <1>4, <1>5, <1>6, <1>7, <1>8, <1>9, <1>10, <1>11, <1>12, <1>13
     DEF Next, Manage, Row, Finish

-----------------------------------------------------------------------------
(* Who holds a lease, while none has overrun.                              *)

LEMMA LeaseInit == Init => LeaseInv
  BY DEF Init, LeaseInv, OwnsLease, Alone

LEMMA LeaseStep == TypeOK /\ RowInv /\ LeaseInv /\ [Next]_vars => LeaseInv'
<1> SUFFICES ASSUME TypeOK, RowInv, LeaseInv, [Next]_vars, overruns' = 0 PROVE OwnsLease' /\ Alone'
  BY DEF LeaseInv
<1> USE DEF vars, history, bounds
<1>0. overruns = 0 /\ OwnsLease /\ Alone
  <2>1. overruns' \in {overruns, overruns + 1}
    BY DEF Next, Manage, Row, Time, Finish, Create, Pause, Resume, Remove, Queue, Ping, Redeliver, Cleanup,
           RetryDue, LeaseOver, Age, Claim, Crash, Answer, Record, Release, RecordFails
  <2>2. overruns = 0
    BY <2>1 DEF TypeOK
  <2> QED
    BY <2>2 DEF LeaseInv
<1>1. CASE Create \/ Pause
  BY <1>0, <1>1 DEF Create, Pause, OwnsLease, Alone
<1>2. CASE Resume
  <2>1. requests' = requests
    BY <1>2 DEF Resume
  <2>2. ASSUME NEW d \in Deliveries
        PROVE  /\ row'[d].lease = row[d].lease /\ row'[d].by = row[d].by
               /\ row'[d].status \in Present => row[d].status \in Present
    <3>1. row[d] \in RowType
      BY DEF TypeOK
    <3>2. row'[d] = IF Expires(d)
                    THEN [row[d] EXCEPT !.status = "failed", !.expired = TRUE, !.due = "never"]
                    ELSE row[d]
      BY <1>2 DEF Resume
    <3> QED
      BY <3>1, <3>2 DEF RowType, Expires
  <2> QED
    BY <1>0, <2>1, <2>2, RequestFields DEF OwnsLease, Alone
<1>3. CASE Remove
  <2>1. requests' = requests
    BY <1>3 DEF Remove
  <2>2. ASSUME NEW d \in Deliveries
        PROVE  row'[d].status \notin Present
    BY <1>3 DEF Remove, Absent
  <2> QED
    BY <1>0, <2>1, <2>2, RequestFields DEF OwnsLease, Alone
<1>4. ASSUME NEW d \in Deliveries, Queue(d) \/ Ping(d) PROVE OwnsLease' /\ Alone'
  <2>1. requests' = requests /\ row[d].status = "none" /\ \A e \in Deliveries \ {d} : row'[e] = row[e]
    BY <1>4 DEF Queue, Ping, TypeOK
  <2>2. \A q \in requests : q.id # d
    BY <2>1 DEF RowInv, Born
  <2> QED
    BY <1>0, <2>1, <2>2, RequestFields DEF OwnsLease, Alone
<1>5. ASSUME NEW d \in Deliveries, Cleanup(d) PROVE OwnsLease' /\ Alone'
  <2>1. requests' = requests /\ row'[d].status = "gone" /\ \A e \in Deliveries \ {d} : row'[e] = row[e]
    BY <1>5 DEF Cleanup, Absent, TypeOK
  <2> QED
    BY <1>0, <2>1, RequestFields DEF OwnsLease, Alone
<1>6. ASSUME NEW d \in Deliveries, Redeliver(d) PROVE OwnsLease' /\ Alone'
  <2>1. requests' = requests /\ \A e \in Deliveries \ {d} : row'[e] = row[e]
    BY <1>6 DEF Redeliver, Requeued, TypeOK
  <2>2. \A q \in requests : q.id # d
    BY <1>0, <1>6 DEF Redeliver, OwnsLease
  <2> QED
    BY <1>0, <2>1, <2>2, RequestFields DEF OwnsLease, Alone
<1>7. ASSUME NEW d \in Deliveries, RetryDue(d) \/ Age(d) PROVE OwnsLease' /\ Alone'
  <2>1. requests' = requests /\ \A e \in Deliveries \ {d} : row'[e] = row[e]
    BY <1>7 DEF RetryDue, Age, TypeOK
  <2>2. row'[d].status = row[d].status /\ row'[d].lease = row[d].lease /\ row'[d].by = row[d].by
    <3>1. row[d] \in RowType
      BY DEF TypeOK
    <3>2. row'[d] = [row[d] EXCEPT !.due = "now"] \/ row'[d] = [row[d] EXCEPT !.age = @ + 1]
      BY <1>7 DEF RetryDue, Age, TypeOK
    <3> QED
      BY <3>1, <3>2 DEF RowType
  <2> QED
    BY <1>0, <2>1, <2>2, RequestFields DEF OwnsLease, Alone
<1>8. ASSUME NEW d \in Deliveries, LeaseOver(d) PROVE OwnsLease' /\ Alone'
  <2>1. requests' = requests /\ \A e \in Deliveries \ {d} : row'[e] = row[e]
    BY <1>8 DEF LeaseOver, TypeOK
  <2>2. \A q \in RequestsOf(row[d].by) : q.id # d
    BY <1>0, <1>8 DEF LeaseOver
  <2>3. row'[d].status = row[d].status
    <3>1. row[d] \in RowType
      BY DEF TypeOK
    <3>2. row'[d] = [row[d] EXCEPT !.lease = "over"]
      BY <1>8 DEF LeaseOver, TypeOK
    <3> QED
      BY <3>1, <3>2 DEF RowType
  <2>4. ASSUME NEW q \in requests, q.id = d PROVE row[d].status \notin Present
    BY <1>0, <2>2, <2>4 DEF OwnsLease, RequestsOf
  <2> QED
    BY <1>0, <2>1, <2>3, <2>4, RequestFields DEF OwnsLease, Alone
<1>9. ASSUME NEW w \in Workers, Claim(w) PROVE OwnsLease' /\ Alone'
  <2>1. PICK S \in SUBSET {d \in Deliveries : Claimable(d)} :
          /\ row' = [d \in Deliveries |->
                       IF d \in S THEN [row[d] EXCEPT !.lease = "live", !.by = w] ELSE row[d]]
          /\ requests' = requests \cup
               {[by |-> w, id |-> d, attempts |-> row[d].attempts, entries |-> row[d].entries,
                 answer |-> "awaited"] : d \in S}
    BY <1>9 DEF Claim
  <2>2. ASSUME NEW d \in Deliveries
        PROVE  IF d \in S THEN row'[d].lease = "live" /\ row'[d].by = w ELSE row'[d] = row[d]
    <3>1. row[d] \in RowType
      BY DEF TypeOK
    <3>2. row'[d] = IF d \in S THEN [row[d] EXCEPT !.lease = "live", !.by = w] ELSE row[d]
      BY <2>1
    <3> QED
      BY <3>1, <3>2 DEF RowType
  <2>3. \A q \in requests : q.id \notin S
    BY <1>0, <2>1 DEF Claimable, OwnsLease
  <2>4. ASSUME NEW q \in requests', q \notin requests
        PROVE  /\ q.id \in S /\ q.by = w
               /\ q = [by |-> w, id |-> q.id, attempts |-> row[q.id].attempts,
                       entries |-> row[q.id].entries, answer |-> "awaited"]
    <3>1. PICK d \in S : q = [by |-> w, id |-> d, attempts |-> row[d].attempts,
                              entries |-> row[d].entries, answer |-> "awaited"]
      BY <2>1, <2>4
    <3> QED
      BY <3>1
  <2>5. OwnsLease'
    BY <1>0, <2>2, <2>3, <2>4, RequestFields DEF OwnsLease
  <2>6. Alone'
    BY <1>0, <2>3, <2>4 DEF Alone
  <2> QED
    BY <2>5, <2>6
<1>10. ASSUME NEW w \in Workers, Crash(w) PROVE OwnsLease' /\ Alone'
  <2>1. \A q \in requests' : q \in requests /\ q.by # w
    BY <1>10 DEF Crash, RequestsOf
  <2>2. ASSUME NEW d \in Deliveries
        PROVE  /\ row'[d].status = row[d].status /\ row'[d].lease = row[d].lease
               /\ row[d].by # w => row'[d].by = row[d].by
    <3>1. row[d] \in RowType
      BY DEF TypeOK
    <3>2. row'[d] = IF row[d].by = w THEN [row[d] EXCEPT !.by = NoOne] ELSE row[d]
      BY <1>10 DEF Crash
    <3> QED
      BY <3>1, <3>2 DEF RowType
  <2> QED
    BY <1>0, <2>1, <2>2, RequestFields DEF OwnsLease, Alone
<1>11. ASSUME NEW q \in requests, NEW answer, UNCHANGED row,
              \/ requests' = requests \ {q}
              \/ requests' = (requests \ {q}) \cup {[q EXCEPT !.answer = answer]}
       PROVE  OwnsLease' /\ Alone'
  <2> DEFINE new == [q EXCEPT !.answer = answer]
  <2>1. new.by = q.by /\ new.id = q.id
    BY NewAnswer
  <2>2. \A r \in requests' : r \in requests \ {q} \/ r = new
    BY <1>11
  <2> HIDE DEF new
  <2> QED
    BY <1>0, <1>11, <2>1, <2>2 DEF OwnsLease, Alone
<1>12. ASSUME NEW q \in requests, Answer(q) \/ RecordFails(q) PROVE OwnsLease' /\ Alone'
  <2>1. /\ UNCHANGED row
        /\ \/ requests' = requests \ {q}
           \/ \E answer \in {"2xx", "other"} : requests' = (requests \ {q}) \cup {[q EXCEPT !.answer = answer]}
    BY <1>12 DEF Answer, RecordFails
  <2> QED
    BY <2>1, <1>11
<1>13. ASSUME NEW q \in requests, Record(q) PROVE OwnsLease' /\ Alone'
  <2>1. CASE ~Owns(q)
    BY <1>11, <1>13, <2>1 DEF Record
  <2>2. CASE Owns(q)
    <3>1. requests' = requests \ {q} /\ \A e \in Deliveries \ {q.id} : row'[e] = row[e]
      BY <1>13, <2>2, RequestFields DEF Record, TypeOK
    <3> QED
      BY <1>0, <3>1, RequestFields DEF OwnsLease, Alone
  <2> QED
    BY <2>1, <2>2
<1>14. ASSUME NEW q \in requests, Release(q) PROVE OwnsLease' /\ Alone'
  <2>1. requests' = requests \ {q} /\ \A e \in Deliveries \ {q.id} : row'[e] = row[e]
    BY <1>14, RequestFields DEF Release, TypeOK
  <2> QED
    BY <1>0, <2>1, RequestFields DEF OwnsLease, Alone
<1>15. CASE UNCHANGED vars
  BY <1>0, <1>15 DEF OwnsLease, Alone
<1> QED
  BY <1>1, <1>2, <1>3, <1>4, <1>5, <1>6, <1>7, <1>8, <1>9, <1>10, <1>12, <1>13, <1>14, <1>15
     DEF Next, Manage, Row, Time, Finish

-----------------------------------------------------------------------------
(* How many are sent, and how many accepted.                               *)

LEMMA Counts ==
    ASSUME TypeOK, NEW d \in Deliveries, IsFiniteSet(Awaited(d))
    PROVE  Sends(d) \in Nat /\ accepted[d] \in Nat /\ lost[d] \in Nat /\ overruns \in Nat
  BY FS_CardinalityType DEF TypeOK, Sends

LEMMA AcceptInit == Init => AcceptInv
<1> SUFFICES ASSUME Init, NEW d \in Deliveries PROVE SendBound(d) /\ AcceptBound(d)
  BY DEF AcceptInv
<1>1. Awaited(d) = {}
  BY DEF Init, Awaited
<1>2. IsFiniteSet(Awaited(d)) /\ Sends(d) = 0
  BY <1>1, FS_EmptySet DEF Sends
<1> QED
  BY <1>2 DEF Init, SendBound, AcceptBound

\* A step that neither sends nor ends a request for this delivery.
LEMMA SameSends ==
    ASSUME TypeOK, TypeOK', NEW d \in Deliveries, SendBound(d), AcceptBound(d),
           Awaited(d)' = Awaited(d), accepted'[d] = accepted[d],
           lost'[d] >= lost[d], overruns' >= overruns,
           MaySend(d) => MaySend(d)' \/ overruns' > overruns,
           MayAccept(d) => MayAccept(d)' \/ overruns' > overruns \/ lost'[d] > lost[d]
    PROVE  SendBound(d)' /\ AcceptBound(d)'
<1>1. Sends(d)' = Sends(d)
  BY DEF Sends
<1>2. /\ Sends(d) \in Nat /\ accepted[d] \in Nat /\ lost[d] \in Nat /\ overruns \in Nat
      /\ lost'[d] \in Nat /\ overruns' \in Nat
  BY Counts DEF SendBound, TypeOK
<1>3. SendBound(d)'
  BY <1>1, <1>2 DEF SendBound
<1>4. AcceptBound(d)'
  BY <1>1, <1>2 DEF AcceptBound
<1> QED
  BY <1>3, <1>4

\* One that ends the wait for an answer.
LEMMA FewerSends ==
    ASSUME TypeOK, TypeOK', NEW d \in Deliveries, SendBound(d), AcceptBound(d),
           NEW q \in Awaited(d), Awaited(d)' = Awaited(d) \ {q},
           lost'[d] >= lost[d], overruns' = overruns,
           \/ accepted'[d] = accepted[d]
           \/ accepted'[d] = accepted[d] + 1 /\ (MayAccept(d) => MayAccept(d)')
    PROVE  SendBound(d)' /\ AcceptBound(d)'
<1>1. IsFiniteSet(Awaited(d)') /\ Sends(d)' = Sends(d) - 1
  BY FS_RemoveElement DEF SendBound, Sends
<1>2. /\ Sends(d) \in Nat /\ accepted[d] \in Nat /\ lost[d] \in Nat /\ overruns \in Nat
      /\ lost'[d] \in Nat
  BY Counts DEF SendBound, TypeOK
<1>3. SendBound(d)'
  BY <1>1, <1>2 DEF SendBound
<1>4. AcceptBound(d)'
  BY <1>1, <1>2 DEF AcceptBound
<1> QED
  BY <1>3, <1>4

\* One that takes a lease and sends.
LEMMA OneMoreSend ==
    ASSUME TypeOK, TypeOK', NEW d \in Deliveries, SendBound(d), AcceptBound(d),
           NEW q, q \notin Awaited(d), Awaited(d)' = Awaited(d) \cup {q},
           accepted'[d] = accepted[d], lost'[d] = lost[d], overruns' = overruns,
           ~MaySend(d), ~MayAccept(d), MaySend(d)', MayAccept(d)'
    PROVE  SendBound(d)' /\ AcceptBound(d)'
<1>1. IsFiniteSet(Awaited(d)') /\ Sends(d)' = Sends(d) + 1
  BY FS_AddElement DEF SendBound, Sends
<1>2. Sends(d) \in Nat /\ accepted[d] \in Nat /\ lost[d] \in Nat /\ overruns \in Nat
  BY Counts DEF SendBound
<1>3. SendBound(d)'
  BY <1>1, <1>2 DEF SendBound
<1>4. AcceptBound(d)'
  BY <1>1, <1>2 DEF AcceptBound
<1> QED
  BY <1>3, <1>4

LEMMA AcceptStep ==
    ASSUME TypeOK, TypeOK', RowInv, AcceptInv, [Next]_vars, NEW d \in Deliveries
    PROVE  SendBound(d)' /\ AcceptBound(d)'
<1> USE DEF vars, history, bounds
<1>a. SendBound(d) /\ AcceptBound(d)
  BY DEF AcceptInv
<1>b. accepted[d] \in Nat /\ lost[d] \in Nat /\ overruns \in Nat
  BY DEF TypeOK
<1>c. row[d] \in RowType
  BY DEF TypeOK
\* Nothing but the row changes, and its lease is as it was.
<1>d. ASSUME UNCHANGED <<requests, accepted, lost, overruns>>,
             row'[d].lease = row[d].lease, row'[d].by = row[d].by,
             row[d].status = "gone" => row'[d].status = "gone",
             row[d].status = "delivered" => row'[d].status \in {"delivered", "gone"}
      PROVE  SendBound(d)' /\ AcceptBound(d)'
  <2>1. Awaited(d)' = Awaited(d)
    BY <1>d DEF Awaited
  <2>2. (MaySend(d) => MaySend(d)') /\ (MayAccept(d) => MayAccept(d)')
    BY <1>d DEF MaySend, MayAccept, Holds
  <2> QED
    BY <1>a, <1>b, <1>d, <2>1, <2>2, SameSends
\* The row goes.
<1>e. ASSUME UNCHANGED <<requests, accepted, lost, overruns>>, row'[d].status = "gone"
      PROVE  SendBound(d)' /\ AcceptBound(d)'
  <2>1. Awaited(d)' = Awaited(d) /\ MaySend(d)' /\ MayAccept(d)'
    BY <1>e DEF Awaited, MaySend, MayAccept
  <2> QED
    BY <1>a, <1>b, <1>e, <2>1, SameSends
<1>1. CASE Create \/ Pause
  BY <1>1, <1>d DEF Create, Pause
<1>2. CASE Resume
  <2>1. row'[d] = IF Expires(d)
                  THEN [row[d] EXCEPT !.status = "failed", !.expired = TRUE, !.due = "never"]
                  ELSE row[d]
    BY <1>2 DEF Resume
  <2>2. row'[d].lease = row[d].lease /\ row'[d].by = row[d].by
        /\ (row[d].status \in {"gone", "delivered"} => row'[d].status = row[d].status)
    BY <1>c, <2>1 DEF RowType, Expires
  <2> QED
    BY <1>2, <1>d, <2>2 DEF Resume
<1>3. CASE Remove
  <2>1. row'[d] = row[d] \/ row'[d].status = "gone"
    BY <1>3 DEF Remove, Absent
  <2> QED
    BY <1>3, <1>d, <1>e, <2>1 DEF Remove
<1>4. ASSUME NEW e \in Deliveries, Queue(e) \/ Ping(e) PROVE SendBound(d)' /\ AcceptBound(d)'
  <2>1. CASE e # d
    BY <1>4, <1>d, <2>1 DEF Queue, Ping, TypeOK
  <2>2. CASE e = d
    <3>1. row[d].status = "none" /\ UNCHANGED <<requests, accepted, lost, overruns>>
      BY <1>4, <2>2 DEF Queue, Ping
    <3>2. ~MaySend(d) /\ ~MayAccept(d)
      BY <3>1 DEF MaySend, MayAccept, Holds, RowInv, Born
    <3>3. Awaited(d)' = Awaited(d)
      BY <3>1 DEF Awaited
    <3> QED
      BY <1>a, <1>b, <3>1, <3>2, <3>3, SameSends
  <2> QED
    BY <2>1, <2>2
<1>5. ASSUME NEW e \in Deliveries, Cleanup(e) PROVE SendBound(d)' /\ AcceptBound(d)'
  <2>1. row'[d] = row[d] \/ row'[d].status = "gone"
    BY <1>5 DEF Cleanup, Absent, TypeOK
  <2> QED
    BY <1>5, <1>d, <1>e, <2>1 DEF Cleanup
<1>6. ASSUME NEW e \in Deliveries, Redeliver(e) PROVE SendBound(d)' /\ AcceptBound(d)'
  <2>1. CASE e # d
    <3>1. row'[d] = row[d] /\ accepted'[d] = accepted[d] /\ lost'[d] = lost[d]
          /\ requests' = requests /\ overruns' = overruns
      BY <1>6, <2>1 DEF Redeliver, Requeued, TypeOK
    <3>2. /\ Awaited(d)' = Awaited(d)
          /\ (MaySend(d) => MaySend(d)') /\ (MayAccept(d) => MayAccept(d)')
      BY <3>1 DEF Awaited, MaySend, MayAccept, Holds
    <3> QED
      BY <1>a, <1>b, <3>1, <3>2, SameSends
  <2>2. CASE e = d
    <3>1. row[d].status \in Present /\ row[d].lease # "live"
          /\ accepted'[d] = 0 /\ lost'[d] = 0 /\ requests' = requests /\ overruns' = overruns
      BY <1>6, <2>2 DEF Redeliver, TypeOK
    <3>2. ~MaySend(d)
      BY <3>1 DEF MaySend, Holds
    <3>3. Awaited(d)' = Awaited(d) /\ Sends(d)' = Sends(d)
      BY <3>1 DEF Awaited, Sends
    <3>4. IsFiniteSet(Awaited(d)) /\ Sends(d) \in Nat /\ Sends(d) <= overruns
      BY <1>a, <1>b, <3>2, Counts DEF SendBound
    <3>5. SendBound(d)'
      BY <1>b, <3>1, <3>3, <3>4 DEF SendBound
    <3>6. AcceptBound(d)'
      BY <1>b, <3>1, <3>3, <3>4 DEF AcceptBound
    <3> QED
      BY <3>5, <3>6
  <2> QED
    BY <2>1, <2>2
<1>7. ASSUME NEW e \in Deliveries, RetryDue(e) \/ Age(e) PROVE SendBound(d)' /\ AcceptBound(d)'
  <2>1. \/ row'[d] = row[d]
        \/ row'[d] = [row[d] EXCEPT !.due = "now"]
        \/ row'[d] = [row[d] EXCEPT !.age = @ + 1]
    BY <1>7 DEF RetryDue, Age, TypeOK
  <2>2. row'[d].lease = row[d].lease /\ row'[d].by = row[d].by /\ row'[d].status = row[d].status
    BY <1>c, <2>1 DEF RowType
  <2> QED
    BY <1>7, <1>d, <2>2 DEF RetryDue, Age
<1>8. ASSUME NEW e \in Deliveries, LeaseOver(e) PROVE SendBound(d)' /\ AcceptBound(d)'
  <2>1. UNCHANGED <<requests, accepted, lost>> /\ overruns' \in {overruns, overruns + 1}
    BY <1>8 DEF LeaseOver
  <2>2. Awaited(d)' = Awaited(d)
    BY <2>1 DEF Awaited
  <2>3. CASE e # d
    <3>1. row'[d] = row[d]
      BY <1>8, <2>3 DEF LeaseOver, TypeOK
    <3>2. (MaySend(d) => MaySend(d)') /\ (MayAccept(d) => MayAccept(d)')
      BY <2>1, <3>1 DEF MaySend, MayAccept, Holds
    <3> QED
      BY <1>a, <1>b, <2>1, <2>2, <3>2, SameSends
  <2>4. CASE e = d
    <3>1. row'[d] = [row[d] EXCEPT !.lease = "over"]
      BY <1>8, <2>4 DEF LeaseOver, TypeOK
    <3>2. row'[d].status = row[d].status
      BY <1>c, <3>1 DEF RowType
    <3>3. \A answers : Holds(d, answers) => overruns' = overruns + 1
      BY <1>8, <2>4 DEF LeaseOver, Holds, RequestsOf
    <3>4. (MaySend(d) => MaySend(d)' \/ overruns' = overruns + 1)
          /\ (MayAccept(d) => MayAccept(d)' \/ overruns' = overruns + 1)
      BY <3>2, <3>3 DEF MaySend, MayAccept
    <3> QED
      BY <1>a, <1>b, <2>1, <2>2, <3>4, SameSends
  <2> QED
    BY <2>3, <2>4
<1>9. ASSUME NEW w \in Workers, Claim(w) PROVE SendBound(d)' /\ AcceptBound(d)'
  <2>1. PICK S \in SUBSET {e \in Deliveries : Claimable(e)} :
          /\ row' = [e \in Deliveries |->
                       IF e \in S THEN [row[e] EXCEPT !.lease = "live", !.by = w] ELSE row[e]]
          /\ requests' = requests \cup
               {[by |-> w, id |-> e, attempts |-> row[e].attempts, entries |-> row[e].entries,
                 answer |-> "awaited"] : e \in S}
    BY <1>9 DEF Claim
  <2>2. UNCHANGED <<accepted, lost, overruns>> /\ RequestsOf(w) = {}
    BY <1>9 DEF Claim
  <2> DEFINE New(e) == [by |-> w, id |-> e, attempts |-> row[e].attempts, entries |-> row[e].entries,
                        answer |-> "awaited"]
  <2>3. \A e : New(e).id = e /\ New(e).by = w /\ New(e).answer = "awaited"
    OBVIOUS
  <2>4. \A q : q \in requests' <=> q \in requests \/ \E e \in S : q = New(e)
    BY <2>1
  <2> HIDE DEF New
  <2>5. CASE d \notin S
    <3>1. row'[d] = row[d]
      BY <2>1, <2>5
    <3>2. \A q : q \in Awaited(d)' <=> q \in Awaited(d)
      BY <2>3, <2>4, <2>5 DEF Awaited
    <3>3. Awaited(d)' = Awaited(d)
      BY <3>2
    <3>4. (MaySend(d) => MaySend(d)') /\ (MayAccept(d) => MayAccept(d)')
      BY <2>4, <3>1 DEF MaySend, MayAccept, Holds
    <3> QED
      BY <1>a, <1>b, <2>2, <3>3, <3>4, SameSends
  <2>6. CASE d \in S
    <3>1. row[d].status = "pending" /\ row[d].lease # "live"
      BY <2>6 DEF Claimable
    <3>2. row'[d] = [row[d] EXCEPT !.lease = "live", !.by = w]
      BY <2>1, <2>6
    <3>3. row'[d].lease = "live" /\ row'[d].by = w
      BY <1>c, <3>2 DEF RowType
    <3>4. ~MaySend(d) /\ ~MayAccept(d)
      BY <3>1 DEF MaySend, MayAccept, Holds
    <3>5. New(d) \in requests' /\ New(d) \notin requests
      BY <2>2, <2>3, <2>4, <2>6 DEF RequestsOf
    <3>6. MaySend(d)' /\ MayAccept(d)'
      BY <2>3, <3>3, <3>5 DEF MaySend, MayAccept, Holds
    <3>7. \A q : q \in Awaited(d)' <=> q \in Awaited(d) \cup {New(d)}
      BY <2>3, <2>4, <2>6 DEF Awaited
    <3>8. Awaited(d)' = Awaited(d) \cup {New(d)} /\ New(d) \notin Awaited(d)
      BY <3>5, <3>7 DEF Awaited
    <3> QED
      BY <1>a, <2>2, <3>4, <3>6, <3>8, OneMoreSend
  <2> QED
    BY <2>5, <2>6
<1>10. ASSUME NEW w \in Workers, Crash(w) PROVE SendBound(d)' /\ AcceptBound(d)'
  <2>1. /\ requests' = requests \ RequestsOf(w) /\ UNCHANGED <<accepted, overruns>>
        /\ lost'[d] = IF \E q \in RequestsOf(w) : q.id = d /\ q.answer # "unrecorded"
                      THEN lost[d] + 1 ELSE lost[d]
        /\ row'[d] = IF row[d].by = w THEN [row[d] EXCEPT !.by = NoOne] ELSE row[d]
    BY <1>10 DEF Crash
  <2>2. row'[d].status = row[d].status /\ row'[d].lease = row[d].lease
        /\ (row[d].by # w => row'[d].by = row[d].by)
    BY <1>c, <2>1 DEF RowType
  <2>3. \A q \in requests : q.by # w => q \in requests'
    BY <2>1 DEF RequestsOf
  <2>4. ASSUME NEW answers, Holds(d, answers),
               \A q \in requests : q.id = d /\ q.answer \in answers => q.by # w
        PROVE  Holds(d, answers)'
    BY <2>2, <2>3, <2>4 DEF Holds
  <2>5. CASE \E q \in RequestsOf(w) : q.id = d
    <3>1. PICK q \in requests : q.by = w /\ q.id = d
      BY <2>5 DEF RequestsOf
    <3>2. \A r \in requests : r.by = w /\ r.id = d => r = q
      BY <3>1 DEF RowInv, OneEach
    <3>3. \A r : r \in Awaited(d)' <=> r \in Awaited(d) \ {q}
      BY <2>1, <3>1, <3>2 DEF Awaited, RequestsOf
    <3>4. Awaited(d)' = Awaited(d) \ {q}
      BY <3>3
    <3>5. q \in RequestsOf(w)
      BY <3>1 DEF RequestsOf
    <3>6. CASE q.answer = "awaited"
      <4>1. q \in Awaited(d)
        BY <3>1, <3>6 DEF Awaited
      <4>2. lost'[d] >= lost[d]
        BY <1>b, <2>1
      <4> QED
        BY <1>a, <2>1, <3>4, <4>1, <4>2, FewerSends
    <3>7. CASE q.answer # "awaited"
      <4>1. Awaited(d)' = Awaited(d)
        BY <3>4, <3>7 DEF Awaited
      <4>2. MaySend(d) => MaySend(d)'
        BY <2>2, <2>4, <3>2, <3>7 DEF MaySend
      <4>3. MayAccept(d) => MayAccept(d)' \/ lost'[d] > lost[d]
        <5>1. CASE q.answer = "unrecorded"
          BY <2>2, <2>4, <3>2, <5>1 DEF MayAccept
        <5>2. CASE q.answer # "unrecorded"
          BY <1>b, <2>1, <3>1, <3>5, <5>2
        <5> QED
          BY <5>1, <5>2
      <4>4. lost'[d] >= lost[d]
        BY <1>b, <2>1
      <4> QED
        BY <1>a, <1>b, <2>1, <4>1, <4>2, <4>3, <4>4, SameSends
    <3> QED
      BY <3>6, <3>7
  <2>6. CASE ~\E q \in RequestsOf(w) : q.id = d
    <3>1. \A q \in requests : q.id = d => q.by # w
      BY <2>6 DEF RequestsOf
    <3>2. Awaited(d)' = Awaited(d)
      BY <2>1, <3>1 DEF Awaited, RequestsOf
    <3>3. (MaySend(d) => MaySend(d)') /\ (MayAccept(d) => MayAccept(d)')
      BY <2>2, <2>4, <3>1 DEF MaySend, MayAccept
    <3>4. lost'[d] = lost[d]
      BY <2>1, <2>6
    <3> QED
      BY <1>a, <1>b, <2>1, <3>2, <3>3, <3>4, SameSends
  <2> QED
    BY <2>5, <2>6
\* A request that is not awaited is marked or goes: nobody sends less, and the
\* others hold what they held.
<1>f. ASSUME NEW q \in requests, q.answer # "awaited",
             \/ requests' = requests \ {q}
             \/ requests' = (requests \ {q}) \cup {[q EXCEPT !.answer = "unrecorded"]}
      PROVE  Awaited(d)' = Awaited(d) /\ \A r \in requests : r # q => r \in requests'
  <2> DEFINE new == [q EXCEPT !.answer = "unrecorded"]
  <2>1. new.answer = "unrecorded"
    BY NewAnswer
  <2>2. \A r : r # new => (r \in requests' <=> r \in requests /\ r # q)
    BY <1>f
  <2>3. \A r : r \in requests' => r = new \/ r \in requests
    BY <1>f
  <2>4. \A r \in requests : r # q => r \in requests'
    BY <1>f
  <2> HIDE DEF new
  <2>5. \A r : r \in Awaited(d)' <=> r \in Awaited(d)
    BY <1>f, <2>1, <2>2, <2>3, <2>4 DEF Awaited
  <2> QED
    BY <2>4, <2>5
\* The same for another delivery, or one whose row and whose claim stay.
<1>g. ASSUME NEW q \in requests, \A r \in requests : r # q => r \in requests',
             row'[d].lease = row[d].lease, row'[d].by = row[d].by, row'[d].status = row[d].status,
             NEW answers, Holds(d, answers), q.id # d \/ q.answer \notin answers
      PROVE  Holds(d, answers)'
  BY <1>g DEF Holds
<1>11. ASSUME NEW q \in requests, Answer(q) PROVE SendBound(d)' /\ AcceptBound(d)'
  <2>1. PICK answer \in {"2xx", "other"} :
          /\ requests' = (requests \ {q}) \cup {[q EXCEPT !.answer = answer]}
          /\ accepted' = [accepted EXCEPT ![q.id] = @ + IF answer = "2xx" THEN 1 ELSE 0]
    BY <1>11 DEF Answer
  <2>2. q.answer = "awaited" /\ UNCHANGED <<row, lost, overruns>>
    BY <1>11 DEF Answer
  <2> DEFINE new == [q EXCEPT !.answer = answer]
  <2>3. new.by = q.by /\ new.id = q.id /\ new.answer = answer
    BY NewAnswer
  <2>4. \A r : r \in requests' <=> r = new \/ (r \in requests /\ r # q)
    BY <2>1
  <2> HIDE DEF new
  <2>5. CASE q.id # d
    <3>1. \A r : r \in Awaited(d)' <=> r \in Awaited(d)
      BY <2>3, <2>4, <2>5 DEF Awaited
    <3>2. Awaited(d)' = Awaited(d)
      BY <3>1
    <3>3. (MaySend(d) => MaySend(d)') /\ (MayAccept(d) => MayAccept(d)')
      BY <1>g, <2>2, <2>4, <2>5 DEF MaySend, MayAccept
    <3>4. accepted'[d] = accepted[d]
      BY <2>1, <2>5 DEF TypeOK
    <3> QED
      BY <1>a, <1>b, <2>2, <3>2, <3>3, <3>4, SameSends
  <2>6. CASE q.id = d
    <3>1. q \in Awaited(d)
      BY <2>2, <2>6 DEF Awaited
    <3>2. \A r : r \in Awaited(d)' <=> r \in Awaited(d) \ {q}
      BY <2>1, <2>3, <2>4 DEF Awaited
    <3>3. Awaited(d)' = Awaited(d) \ {q}
      BY <3>2
    <3>4. CASE answer = "2xx"
      <4>1. accepted'[d] = accepted[d] + 1
        BY <2>1, <2>6, <3>4 DEF TypeOK
      <4>2. ASSUME Holds(d, {"awaited", "2xx"}) PROVE Holds(d, {"awaited", "2xx"})'
        <5>1. PICK r \in requests : r.id = d /\ r.by = row[d].by /\ r.answer \in {"awaited", "2xx"}
          BY <4>2 DEF Holds
        <5>2. CASE r = q
          BY <2>2, <2>3, <2>4, <3>4, <4>2, <5>1, <5>2 DEF Holds
        <5>3. CASE r # q
          BY <2>2, <2>4, <4>2, <5>1, <5>3 DEF Holds
        <5> QED
          BY <5>2, <5>3
      <4>3. MayAccept(d) => MayAccept(d)'
        BY <2>2, <4>2 DEF MayAccept
      <4> QED
        BY <1>a, <1>b, <2>2, <3>1, <3>3, <4>1, <4>3, FewerSends
    <3>5. CASE answer # "2xx"
      <4>1. accepted'[d] = accepted[d]
        BY <1>b, <2>1, <2>6, <3>5 DEF TypeOK
      <4> QED
        BY <1>a, <1>b, <2>2, <3>1, <3>3, <4>1, FewerSends
    <3> QED
      BY <3>4, <3>5
  <2> QED
    BY <2>5, <2>6
<1>12. ASSUME NEW q \in requests, Record(q) PROVE SendBound(d)' /\ AcceptBound(d)'
  <2>1. q.answer \in {"2xx", "other"} /\ UNCHANGED <<accepted, overruns>>
    BY <1>12 DEF Record
  <2>2. CASE Owns(q)
    <3>1. /\ row' = [row EXCEPT ![q.id] = Recorded(q)] /\ requests' = requests \ {q}
          /\ lost' = lost /\ row[q.id].by = q.by /\ row[q.id].status = "pending"
      BY <1>12, <2>2 DEF Record, Owns
    <3>2. Awaited(d)' = Awaited(d) /\ \A r \in requests : r # q => r \in requests'
      BY <1>f, <2>1, <3>1
    <3>3. CASE q.id # d
      <4>1. row'[d] = row[d]
        BY <3>1, <3>3 DEF TypeOK
      <4>2. (MaySend(d) => MaySend(d)') /\ (MayAccept(d) => MayAccept(d)')
        BY <1>g, <3>2, <3>3, <4>1 DEF MaySend, MayAccept
      <4> QED
        BY <1>a, <1>b, <2>1, <3>1, <3>2, <4>2, SameSends
    <3>4. CASE q.id = d
      <4>1. \A r \in requests : r.id = d /\ r.by = row[d].by => r = q
        BY <3>1, <3>4 DEF RowInv, OneEach
      <4>2. ~MaySend(d)
        BY <2>1, <3>1, <3>4, <4>1 DEF MaySend, Holds
      <4>3. CASE q.answer = "2xx"
        <5>1. row'[d].status = "delivered"
          BY <3>1, <3>4, <4>3 DEF Recorded, StatusAfter, TypeOK
        <5> QED
          BY <1>a, <1>b, <2>1, <3>1, <3>2, <4>2, <5>1, SameSends DEF MayAccept
      <4>4. CASE q.answer = "other"
        <5>1. ~MayAccept(d)
          BY <3>1, <3>4, <4>1, <4>4 DEF MayAccept, Holds
        <5> QED
          BY <1>a, <1>b, <2>1, <3>1, <3>2, <4>2, <5>1, SameSends
      <4> QED
        BY <2>1, <4>3, <4>4
    <3> QED
      BY <3>3, <3>4
  <2>3. CASE ~Owns(q)
    <3>1. /\ requests' = (requests \ {q}) \cup {[q EXCEPT !.answer = "unrecorded"]}
          /\ lost' = [lost EXCEPT ![q.id] = @ + 1] /\ row' = row
      BY <1>12, <2>3 DEF Record
    <3>2. Awaited(d)' = Awaited(d) /\ \A r \in requests : r # q => r \in requests'
      BY <1>f, <2>1, <3>1
    <3>3. MaySend(d) => MaySend(d)'
      BY <1>g, <2>1, <3>1, <3>2 DEF MaySend
    <3>4. lost'[d] = IF q.id = d THEN lost[d] + 1 ELSE lost[d]
      BY <3>1 DEF TypeOK
    <3>5. MayAccept(d) => MayAccept(d)' \/ q.id = d
      BY <1>g, <3>1, <3>2 DEF MayAccept
    <3> QED
      BY <1>a, <1>b, <2>1, <3>2, <3>3, <3>4, <3>5, SameSends
  <2> QED
    BY <2>2, <2>3
<1>13. ASSUME NEW q \in requests, Release(q) PROVE SendBound(d)' /\ AcceptBound(d)'
  <2>1. /\ q.answer = "unrecorded" /\ requests' = requests \ {q}
        /\ UNCHANGED <<accepted, lost, overruns>>
    BY <1>13 DEF Release
  <2>2. Awaited(d)' = Awaited(d) /\ \A r \in requests : r # q => r \in requests'
    BY <1>f, <2>1
  <2>3. CASE row' = row
    <3>1. (MaySend(d) => MaySend(d)') /\ (MayAccept(d) => MayAccept(d)')
      BY <1>g, <2>1, <2>2, <2>3 DEF MaySend, MayAccept
    <3> QED
      BY <1>a, <1>b, <2>1, <2>2, <3>1, SameSends
  <2>4. CASE /\ row' = [row EXCEPT ![q.id] = [@ EXCEPT !.lease = "none", !.by = NoOne]]
             /\ row[q.id].by = q.by /\ row[q.id].status = "failed"
    <3>1. CASE q.id # d
      <4>1. row'[d] = row[d]
        BY <2>4, <3>1 DEF TypeOK
      <4>2. (MaySend(d) => MaySend(d)') /\ (MayAccept(d) => MayAccept(d)')
        BY <1>g, <2>2, <3>1, <4>1 DEF MaySend, MayAccept
      <4> QED
        BY <1>a, <1>b, <2>1, <2>2, <4>2, SameSends
    <3>2. CASE q.id = d
      <4>1. \A r \in requests : r.id = d /\ r.by = row[d].by => r = q
        BY <2>4, <3>2 DEF RowInv, OneEach
      <4>2. ~MaySend(d) /\ ~MayAccept(d)
        BY <2>1, <2>4, <3>2, <4>1 DEF MaySend, MayAccept, Holds
      <4> QED
        BY <1>a, <1>b, <2>1, <2>2, <4>2, SameSends
    <3> QED
      BY <3>1, <3>2
  <2> QED
    BY <1>13, <2>3, <2>4 DEF Release
<1>14. ASSUME NEW q \in requests, RecordFails(q) PROVE SendBound(d)' /\ AcceptBound(d)'
  <2>1. /\ q.answer # "awaited" /\ requests' = requests \ {q}
        /\ UNCHANGED <<row, accepted, overruns>>
        /\ lost' = [lost EXCEPT ![q.id] = @ + IF q.answer = "unrecorded" THEN 0 ELSE 1]
    BY <1>14 DEF RecordFails
  <2>2. Awaited(d)' = Awaited(d) /\ \A r \in requests : r # q => r \in requests'
    BY <1>f, <2>1
  <2>3. MaySend(d) => MaySend(d)'
    BY <1>g, <2>1, <2>2 DEF MaySend
  <2>4. lost'[d] = IF q.id = d /\ q.answer # "unrecorded" THEN lost[d] + 1 ELSE lost[d]
    BY <1>b, <2>1 DEF TypeOK
  <2>5. MayAccept(d) => MayAccept(d)' \/ (q.id = d /\ q.answer # "unrecorded")
    BY <1>g, <2>1, <2>2 DEF MayAccept
  <2> QED
    BY <1>a, <1>b, <2>1, <2>2, <2>3, <2>4, <2>5, SameSends
<1>15. CASE UNCHANGED vars
  BY <1>d, <1>15
<1> QED
  BY <1>1, <1>2, <1>3, <1>4, <1>5, <1>6, <1>7, <1>8, <1>9, <1>10, <1>11, <1>12, <1>13, <1>14, <1>15
     DEF Next, Manage, Row, Time, Finish

-----------------------------------------------------------------------------
(* The theorems.                                                           *)

LEMMA Invariants == Spec => [](TypeOK /\ RowInv /\ LeaseInv /\ AcceptInv)
<1>1. Init => TypeOK /\ RowInv /\ LeaseInv /\ AcceptInv
  BY TypeInit, RowInvInit, LeaseInit, AcceptInit
<1>2. TypeOK /\ RowInv /\ LeaseInv /\ AcceptInv /\ [Next]_vars => (TypeOK /\ RowInv /\ LeaseInv /\ AcceptInv)'
  <2> SUFFICES ASSUME TypeOK, RowInv, LeaseInv, AcceptInv, [Next]_vars
               PROVE  (TypeOK /\ RowInv /\ LeaseInv /\ AcceptInv)'
    OBVIOUS
  <2>1. TypeOK' /\ RowInv' /\ LeaseInv'
    BY TypeStep, RowInvStep, LeaseStep
  <2>2. AcceptInv'
    BY <2>1, AcceptStep DEF AcceptInv
  <2> QED
    BY <2>1, <2>2
<1> QED
  BY <1>1, <1>2, PTL DEF Spec

\* In every reachable state the rows, the requests and the counts are what the
\* tables and the worker can hold; attempts never pass RETRY_MS.length + 1.
THEOREM WebhooksTypeCorrect == Spec => []TypeOK
  BY Invariants, PTL

\* However many API processes work on them, and whatever crashes, pauses and
\* redeliveries come between, one delivery is never sent by two at once while
\* no lease ended under a request: claim, record, release and redeliver().
THEOREM SendersAreAlone == Spec => []OneSender
<1>1. LeaseInv => OneSender
  BY DEF LeaseInv, Alone, OneSender
<1> QED
  BY <1>1, Invariants, PTL

\* However often workers crash, leases end and owners pause, resume and
\* redeliver, a receiver that said 2xx is sent the event again only once for
\* each answer that got lost and each lease that overran: claim and record.
THEOREM AcceptedIsNotRepeated == Spec => []AcceptedOnce
<1>1. TypeOK /\ AcceptInv => AcceptedOnce
  <2> SUFFICES ASSUME TypeOK, AcceptInv, NEW d \in Deliveries
               PROVE  accepted[d] <= 1 + lost[d] + overruns
    BY DEF AcceptedOnce
  <2>1. SendBound(d) /\ AcceptBound(d)
    BY DEF AcceptInv
  <2> QED
    BY <2>1, Counts DEF SendBound, AcceptBound
<1> QED
  BY <1>1, Invariants, PTL

\* A row whose status, attempts, history and expiry a step leaves alone.
LEMMA SameLife ==
    ASSUME NEW d \in Deliveries,
           row'[d].status = row[d].status, row'[d].attempts = row[d].attempts,
           row'[d].entries = row[d].entries, row'[d].expired = row[d].expired
    PROVE  Life'[d] = Life[d]
  BY DEF Life

LEMMA LifeStep ==
    ASSUME TypeOK, RowInv, Next, NEW d \in Deliveries
    PROVE  Life'[d] = Life[d] \/ L!Grows(Life[d], Life'[d])
<1> USE DEF vars, history, bounds
<1> DEFINE old == Life[d]  new == Life'[d]
<1>a. /\ old.status = row[d].status /\ old.attempts = row[d].attempts
      /\ old.entries = row[d].entries /\ old.expired = row[d].expired
      /\ old = [status |-> row[d].status, attempts |-> row[d].attempts,
                entries |-> row[d].entries, expired |-> row[d].expired]
  BY DEF Life
<1>b. new = [status |-> row'[d].status, attempts |-> row'[d].attempts,
             entries |-> row'[d].entries, expired |-> row'[d].expired]
  BY DEF Life
<1>c. row'[d] = row[d] => new = old
  BY SameLife
<1> HIDE DEF old, new
<1>1. CASE Create \/ Pause
  BY <1>1, <1>c DEF Create, Pause, old, new
<1>2. CASE Resume
  <2>1. CASE Expires(d)
    <3>1. row[d] \in RowType
      BY DEF TypeOK
    <3>2. row'[d] = [row[d] EXCEPT !.status = "failed", !.expired = TRUE, !.due = "never"]
      BY <1>2, <2>1 DEF Resume
    <3>3. /\ row'[d].status = "failed" /\ row'[d].expired = TRUE
          /\ row'[d].attempts = row[d].attempts /\ row'[d].entries = row[d].entries
      BY <3>1, <3>2 DEF RowType
    <3>4. L!Expire(old, new)
      BY <2>1, <3>3, <1>a, <1>b DEF Expires, L!Expire, L!Is
    <3> QED
      BY <3>4 DEF L!Grows, old, new
  <2>2. CASE ~Expires(d)
    BY <1>2, <1>c, <2>2 DEF Resume, old, new
  <2> QED
    BY <2>1, <2>2
<1>3. CASE Remove
  <2>1. CASE row[d].status \in Present
    <3>1. new = L!Dead
      BY <1>3, <1>b, <2>1 DEF Remove, Absent, L!Dead, L!Is
    <3>2. L!Drop(old, new)
      BY <2>1, <3>1, <1>a DEF L!Drop, L!Queued
    <3> QED
      BY <3>2 DEF L!Grows, old, new
  <2>2. CASE row[d].status \notin Present
    BY <1>3, <1>c, <2>2 DEF Remove, old, new
  <2> QED
    BY <2>1, <2>2
<1>4. ASSUME NEW e \in Deliveries, Row(e) \/ Time(e) PROVE new = old \/ L!Grows(old, new)
  <2>1. CASE e # d
    BY <1>4, <1>c, <2>1 DEF Row, Time, Queue, Ping, Redeliver, Requeued, Cleanup, RetryDue, LeaseOver, Age, TypeOK
  <2>2. CASE e = d /\ (Queue(d) \/ Ping(d))
    <3>1. row'[d] = NewRow /\ row[d].status = "none"
      BY <2>2 DEF Queue, Ping, TypeOK
    <3>2. row'[d].status = "pending" /\ row'[d].attempts = 0 /\ row'[d].entries = 0 /\ row'[d].expired = FALSE
      BY <3>1 DEF NewRow, Absent
    <3>3. row[d].attempts = 0 /\ row[d].entries = 0 /\ row[d].expired = FALSE
      BY <3>1, RowFields DEF RowInv, NoneIsBlank
    <3>4. L!Queue(old, new)
      BY <3>1, <3>2, <3>3, <1>a, <1>b DEF L!Queue, L!Unborn, L!Is
    <3> QED
      BY <3>4 DEF L!Grows
  <2>3. CASE e = d /\ Redeliver(d)
    <3>1. /\ row'[d].status = "pending" /\ row'[d].attempts = 0
          /\ row'[d].entries = row[d].entries /\ row'[d].expired = row[d].expired
          /\ row[d].status \in Present
      BY <2>3 DEF Redeliver, Requeued, TypeOK
    <3>2. L!Redeliver(old, new)
      BY <3>1, <1>a, <1>b DEF L!Redeliver, L!Queued, L!Is
    <3> QED
      BY <3>2 DEF L!Grows
  <2>4. CASE e = d /\ Cleanup(d)
    <3>1. row[d].status \in Settled /\ row'[d] = Absent("gone")
      BY <2>4 DEF Cleanup, TypeOK
    <3>2. new = L!Dead
      BY <3>1, <1>b DEF Absent, L!Dead, L!Is
    <3>3. L!Drop(old, new)
      BY <3>1, <3>2, <1>a DEF L!Drop, L!Queued
    <3> QED
      BY <3>3 DEF L!Grows
  <2>5. CASE e = d /\ Time(d)
    <3>1. row[d] \in RowType
      BY DEF TypeOK
    <3>2. \/ row'[d] = [row[d] EXCEPT !.due = "now"]
          \/ row'[d] = [row[d] EXCEPT !.lease = "over"]
          \/ row'[d] = [row[d] EXCEPT !.age = @ + 1]
      BY <2>5 DEF Time, RetryDue, LeaseOver, Age, TypeOK
    <3>3. /\ row'[d].status = row[d].status /\ row'[d].attempts = row[d].attempts
          /\ row'[d].entries = row[d].entries /\ row'[d].expired = row[d].expired
      BY <3>1, <3>2 DEF RowType
    <3> QED
      BY <3>3, <1>a, <1>b
  <2> QED
    BY <1>4, <2>1, <2>2, <2>3, <2>4, <2>5 DEF Row
<1>5. ASSUME NEW w \in Workers, Claim(w) \/ Crash(w) PROVE new = old
  <2>1. row[d] \in RowType
    BY DEF TypeOK
  <2>2. \/ row'[d] = row[d]
        \/ row'[d] = [row[d] EXCEPT !.lease = "live", !.by = w]
        \/ row'[d] = [row[d] EXCEPT !.by = NoOne]
    BY <1>5 DEF Claim, Crash
  <2>3. /\ row'[d].status = row[d].status /\ row'[d].attempts = row[d].attempts
        /\ row'[d].entries = row[d].entries /\ row'[d].expired = row[d].expired
    BY <2>1, <2>2 DEF RowType
  <2> QED
    BY <2>3, <1>a, <1>b
<1>6. ASSUME NEW q \in requests, Answer(q) \/ RecordFails(q) PROVE new = old
  BY <1>6, <1>c DEF Answer, RecordFails
<1>7. ASSUME NEW q \in requests, Record(q) PROVE new = old \/ L!Grows(old, new)
  <2>1. CASE ~Owns(q) \/ q.id # d
    BY <1>7, <1>c, <2>1, RequestFields DEF Record, TypeOK
  <2>2. CASE Owns(q) /\ q.id = d
    <3>1. row'[d] = Recorded(q)
      BY <1>7, <2>2 DEF Record, TypeOK
    <3>2. q.attempts = row[d].attempts /\ q.entries = row[d].entries /\ row[d].status = "pending"
      BY <2>2 DEF Owns, RowInv, Carried
    <3>3. /\ row'[d].status \in Present
          /\ row'[d].attempts = q.attempts + 1 /\ row'[d].entries = q.entries + 1
          /\ row'[d].expired = FALSE
          /\ row'[d].status = "failed"  => q.attempts + 1 >= MaxAttempts
          /\ row'[d].status = "pending" => ~(q.attempts + 1 >= MaxAttempts)
      BY <3>1 DEF Recorded, StatusAfter
    <3>4. row'[d].status = "pending" => row'[d].attempts < MaxAttempts
      BY <3>3, RequestFields
    <3>5. L!Attempt(old, new)
      BY <3>2, <3>3, <3>4, <1>a, <1>b DEF L!Attempt, L!Queued, L!Is
    <3> QED
      BY <3>5 DEF L!Grows
  <2> QED
    BY <2>1, <2>2
<1>8. ASSUME NEW q \in requests, Release(q) PROVE new = old
  <2>1. row[d] \in RowType
    BY DEF TypeOK
  <2>2. row'[d] = row[d] \/ row'[d] = [row[d] EXCEPT !.lease = "none", !.by = NoOne]
    BY <1>8 DEF Release, TypeOK
  <2>3. /\ row'[d].status = row[d].status /\ row'[d].attempts = row[d].attempts
        /\ row'[d].entries = row[d].entries /\ row'[d].expired = row[d].expired
    BY <2>1, <2>2 DEF RowType
  <2> QED
    BY <2>3, <1>a, <1>b
<1> QED
  BY <1>1, <1>2, <1>3, <1>4, <1>5, <1>6, <1>7, <1>8 DEF Next, Manage, Finish, old, new

\* The log of each delivery moves only as DeliveryLife allows: no result of a
\* worker that lost its lease, of an expired row or of an earlier cycle changes
\* a status, an attempt count or the history.
THEOREM WebhooksImplementDeliveryLife == Spec => ImplementsDeliveryLife
<1>1. Init => L!Init
  BY DEF Init, Absent, Life, L!Init, L!Unborn, L!Is
<1>2. TypeOK /\ RowInv /\ [Next]_vars => [L!Next]_Life
  <2> SUFFICES ASSUME TypeOK, RowInv, [Next]_vars PROVE L!Next \/ UNCHANGED Life
    OBVIOUS
  <2>1. CASE Next
    BY <2>1, LifeStep DEF L!Next
  <2>2. CASE UNCHANGED vars
    BY <2>2 DEF vars, Life
  <2> QED
    BY <2>1, <2>2
<1> QED
  BY <1>1, <1>2, Invariants, PTL DEF Spec, ImplementsDeliveryLife, L!Spec
=============================================================================
