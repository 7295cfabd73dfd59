---------------------------- MODULE MCCheckpoints ----------------------------
(* Checkpoints for TLC: two instances, an insertion or two and a deletion. *)
EXTENDS CheckpointsInv, TLC

Symmetry == Permutations(Instances) \cup Permutations(Asks)
=============================================================================
