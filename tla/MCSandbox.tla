------------------------------ MODULE MCSandbox ------------------------------
(* Sandbox for TLC: two or three requests over two sessions.               *)
EXTENDS Sandbox, TLC

Symmetry == Permutations(Requests)
=============================================================================
