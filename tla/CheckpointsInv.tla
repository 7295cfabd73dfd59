---------------------------- MODULE CheckpointsInv ----------------------------
(***************************************************************************)
(* The inductive invariant behind Checkpoints: what each job, by where it  *)
(* is, may rely on about the table and the documents.                      *)
(***************************************************************************)
EXTENDS Checkpoints

\* An instance's job is its own and automatic; a browser's is neither.
JobsInv ==
    \A j \in Jobs :
        /\ job[j].at = "rest" => job[j] = Resting
        /\ j \in Instances /\ Running(j) => job[j].in = j /\ Automatic(job[j].kind)
        /\ j \in Asks /\ Running(j) => job[j].in \in Instances /\ job[j].kind \in {"manual", "before"}
        /\ job[j].at \in {"waiting", "deciding"} => job[j].mine = NoRow
        /\ job[j].at # "deciding" => job[j].newest = NoRow
        /\ j \in asks => ~Running(j)

\* The id of the row that is about to be committed is nobody else's.
FreshInv ==
    fresh # NoRow =>
        /\ fresh.id \notin IdsOf(rows)
        /\ \A j \in Jobs : /\ job[j].newest # fresh.id
                           /\ job[j].mine = fresh.id => job[j].at = "pruning"

\* What is let go had no name.
SparedInv == gone \cap spared = {}

\* What was true when the holder decided stays true until it commits: nobody
\* else adds rows.
SpacedInv ==
    /\ \A j \in Jobs : job[j].at = "deciding" =>
         /\ job[j].newest = NoRow => rows = {}
         /\ job[j].due /\ Automatic(job[j].kind) => aged \/ rows = {}
    /\ fresh # NoRow /\ fresh.kind = "auto" => aged \/ rows = {}

\* The edits that were made.
Made == UNION {doc[i] : i \in Instances}

\* Rows hold edits that were made, and none that counts as unseen.
SeenInv ==
    /\ \A r \in rows : r.state \subseteq Made
    /\ fresh # NoRow => fresh.state \subseteq Made
    /\ \A i \in Instances : /\ unseen[i] \subseteq doc[i] /\ (i \notin loaded => unseen[i] = {})
                            /\ \A r \in rows : unseen[i] \cap r.state = {}

\* An unseen insertion keeps its instance dirty, or its tick at work.
LooksInv ==
    \A i \in loaded : unseen[i] \cap Inserts # {} =>
        \/ i \in dirty
        \/ /\ Running(i) /\ job[i].kind = "tick"
           /\ job[i].at = "pruning" => unseen[i] \cap Inserts \subseteq fresh.state
           /\ job[i].at = "answering" => ~job[i].due

\* A browser's files are in its document, then in the row it is given.
AnswerInv ==
    \A j \in Asks :
        /\ job[j].at \in {"waiting", "deciding"} => job[j].asked \subseteq Files(j)
        /\ job[j].at = "deciding" /\ job[j].kind = "before" /\ job[j].newest # NoRow => job[j].due
        /\ job[j].at = "pruning" => job[j].asked \cap Inserts \subseteq fresh.state
        /\ job[j].at = "answering" =>
             \A r \in rows : r.id = job[j].mine => job[j].asked \cap Inserts \subseteq r.state
=============================================================================
