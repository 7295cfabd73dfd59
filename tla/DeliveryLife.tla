---------------------------- MODULE DeliveryLife ----------------------------
(***************************************************************************)
(* What the log of outgoing webhooks promises about each delivery, whoever *)
(* sends it: every recorded attempt counts once, a cycle has at most       *)
(* MaxAttempts, what is settled stays so until somebody asks for it again, *)
(* and the history only grows.  A step moves any number of deliveries on.  *)
(***************************************************************************)
EXTENDS Naturals

CONSTANTS Deliveries, MaxAttempts
VARIABLE life   \* the status, attempts, history entries and expiry of each

Is(status, attempts, entries, expired) ==
    [status |-> status, attempts |-> attempts, entries |-> entries, expired |-> expired]
Unborn == Is("none", 0, 0, FALSE)
Dead   == Is("gone", 0, 0, FALSE)
Queued == {"pending", "delivered", "failed"}

Queue(old, new) == old = Unborn /\ new = Is("pending", 0, 0, FALSE)

\* One more attempt of this cycle, and one more line of the history.
Attempt(old, new) ==
    /\ old.status = "pending"
    /\ \E status \in Queued :
         /\ new = Is(status, old.attempts + 1, old.entries + 1, FALSE)
         /\ status = "failed"  => new.attempts >= MaxAttempts
         /\ status = "pending" => new.attempts < MaxAttempts

Expire(old, new) == old.status = "pending" /\ new = Is("failed", old.attempts, old.entries, TRUE)

\* A new cycle, asked for by hand.
Redeliver(old, new) == old.status \in Queued /\ new = Is("pending", 0, old.entries, old.expired)

Drop(old, new) == old.status \in Queued /\ new = Dead

Grows(old, new) == \/ Queue(old, new) \/ Attempt(old, new) \/ Expire(old, new)
                   \/ Redeliver(old, new) \/ Drop(old, new)

Init == life = [d \in Deliveries |-> Unborn]
Next == \A d \in Deliveries : life'[d] = life[d] \/ Grows(life[d], life'[d])
Spec == Init /\ [][Next]_life
=============================================================================
