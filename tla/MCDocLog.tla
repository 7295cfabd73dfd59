------------------------------ MODULE MCDocLog ------------------------------
(* Two collab instances and a document, small enough for TLC.              *)
EXTENDS DocLogInv, TLC

Symmetry == Permutations(Instances) \cup Permutations(Edits)
=============================================================================
