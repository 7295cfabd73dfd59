----------------------------- MODULE MCFileTree -----------------------------
(* Two folders and a file in the first room, small enough for TLC; a and A *)
(* are a letter and its capital, Blank is a space.                         *)
EXTENDS FileTree, TLC

CONSTANTS a, A

MCSmall == A :> a
MCNames == {<<A>>, <<A, Blank>>}

Seed(n, kind, name, parent, holds) ==
    [node |-> n, kind |-> kind, name |-> name, parent |-> parent, holds |-> holds]
MCSeeds == {Seed(2, "folder", <<a>>, Root, Absent), Seed(3, "folder", <<a, 2>>, Root, Absent),
            Seed(5, "file", <<a>>, 2, "text")}
=============================================================================
