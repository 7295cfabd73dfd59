----------------------------- MODULE MCInterviews -----------------------------
(* Interviews for TLC: two people with the link, two handlers at once. *)
EXTENDS Interviews, TLC

Symmetry == Permutations(People) \cup Permutations(Slots)
=============================================================================
