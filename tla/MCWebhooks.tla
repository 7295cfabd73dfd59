------------------------------ MODULE MCWebhooks ------------------------------
(* Webhooks for TLC: small sets of workers and deliveries.                 *)
EXTENDS WebhooksInv, TLC

Symmetry == Permutations(Workers) \cup Permutations(Deliveries)
=============================================================================
