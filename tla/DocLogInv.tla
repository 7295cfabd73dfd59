------------------------------ MODULE DocLogInv ------------------------------
(***************************************************************************)
(* The inductive invariants behind DocLog's safety properties: the         *)
(* properties themselves, strengthened by what every actor relies on while *)
(* it is half-way.  TLC checks them; DocLogProof proves them.              *)
(***************************************************************************)
EXTENDS DocLog

\* The identity sequence never gives a seq twice.
Numbered ==
    /\ \A r \in log : r.seq < nextSeq
    /\ \A w \in inserting : w.seq < nextSeq
    /\ \A r \in log, w \in inserting : r.seq # w.seq
    /\ \A v, w \in inserting : v.seq = w.seq => v = w

\* seq and state are what a compaction could have written: seq is a row's,
\* and state is the log up to it, short of late rows.
Known(rows, seq, state) ==
    /\ seq = 0 \/ \E r \in rows : r.seq = seq
    /\ Covers(rows, seq, state)
    /\ \A u \in state : \E r \in rows : r.seq <= seq /\ u \in r.upds

\* One compaction at a time, and only of a room's own log.
OneCompactor == \A i \in Instances : pc[i] \in {"reading", "writing"} => compactor = i
DropsTheDead == \A i \in Instances : pc[i] \in {"dropping", "droppingSnapshot"} => ~Alive

\* The snapshot, and what every load and compaction under way carries.
SnapshotKnown == Alive => Known(log, snap.seq, snap.state)
LoadsKnown    == Alive => \A i \in Instances : pc[i] = "loading" => Known(log, mark[i], doc[i])
ReadsKnown    == Alive => \A i \in Instances :
                    pc[i] = "reading" => mark[i] = 0 \/ \E r \in log : r.seq = mark[i]
WritesKnown   == Alive => \A i \in Instances :
                    pc[i] = "writing" => /\ Known(log, mark[i], merged[i])
                                         /\ mark[i] > snap.seq
                                         /\ snap.state \subseteq merged[i]

SnapInv == /\ Numbered /\ OneCompactor /\ DropsTheDead
           /\ SnapshotKnown /\ LoadsKnown /\ ReadsKnown /\ WritesKnown

\* A handler waits for at most one insert, and stands where it waits for it.
WaitsAt == [flush |-> "flushing", diff |-> "diffing", seed |-> "seeding"]
AwaitInv ==
    /\ \A w \in inserting : w.by \in Instances /\ w.kind # "timer" => pc[w.by] = WaitsAt[w.kind]
    /\ \A v, w \in inserting : /\ v.by \in Instances /\ v.by = w.by
                              /\ v.kind # "timer" /\ w.kind # "timer" => v = w

\* At most one instance seeds, with a seed of its own.
OneSeeder ==
    /\ \A v, w \in inserting : v.kind = "seed" /\ w.kind = "seed" => v = w
    /\ \A w \in inserting : w.kind = "seed" /\ w.by # NoOne => w.upds = {Seed(w.by)}
    /\ \A w \in inserting : w.kind = "seed" => \E s \in Seeds : w.upds = {s}

\* The seed is the log's first row and its only seed: before it commits only
\* it is being inserted, and afterwards every seed seen anywhere is that one.
SeedsLogged ==
    /\ \A w \in inserting : w.kind = "seed" <=> log = {}
    /\ log # {} => Logged \cap Seeds # {}
    /\ \A s, t \in Logged \cap Seeds : s = t
    /\ \A w \in inserting : w.kind # "seed" => w.upds \cap Seeds \subseteq Logged
    /\ snap.state \subseteq Logged
    /\ \A i \in Instances :
         /\ pending[i] # {} => log # {}
         /\ doc[i] \cap Seeds \subseteq Logged
         /\ IsOpen(i) => doc[i] \cap Seeds # {}
         /\ pc[i] = "writing" => merged[i] \subseteq Logged
         /\ pc[i] = "seeding" /\ ~Awaited(i, "seed") => Seed(i) \in Logged

SeedInv == OneSeeder /\ (Alive => SeedsLogged)

\* What cannot be lost any more, or is known to be: rows, buffers, and what a
\* flush sent on.  A diff in flight keeps nothing that is not there too.
Kept == {u \in Updates : \/ u \in Logged \/ u \in orphaned
                         \/ \E i \in Instances : u \in pending[i]
                         \/ \E w \in inserting : w.kind \in {"timer", "flush"} /\ u \in w.upds}

KeptInv ==
    Alive => \A i \in Instances :
        /\ pc[i] \in {"loading", "unseeded", "seeding"} => doc[i] \subseteq Logged
        /\ IsOpen(i) => doc[i] \subseteq Kept
=============================================================================
