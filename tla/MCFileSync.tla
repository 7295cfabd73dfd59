------------------------------ MODULE MCFileSync ------------------------------
(* FileSync for TLC: few contents, so that each side can make two changes. *)
EXTENDS FileSyncInv, TLC

Symmetry == Permutations(RoomTexts)
=============================================================================
