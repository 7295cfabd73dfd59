----------------------------- MODULE FileTreeInv -----------------------------
(***************************************************************************)
(* The inductive invariant behind FileTree's safety: what a replica may    *)
(* rely on about the items it knows and the ones that others know.  Its    *)
(* parts are of the replicas' nodes, d, and the texts typed in, t.         *)
(***************************************************************************)
EXTENDS FileTree

NotBefore(l, k) == l = k \/ After(l, k)

\* What the replicas have at a key of a node: a writer knows what it wrote, for of
\* every line anywhere, the part up to an item of r is the line of an item that r
\* has seen, and so the next item of r is a new one; and an item has one value, but
\* for its deletion.
KeyInv(cells) ==
    \A r, s \in Replicas :
        /\ \A i \in DOMAIN cells[s].line :
             cells[s].line[i] = r => NotBefore(cells[r].line, SubSeq(cells[s].line, 1, i))
        /\ cells[r].line = cells[s].line =>
             cells[r].value = cells[s].value \/ Absent \in {cells[r].value, cells[s].value}
Cells(d, n, key) == [r \in Replicas |-> d[r][n][key]]
KeysInv(d)       == \A n \in Nodes, key \in Keys : KeyInv(Cells(d, n, key))

\* A node is known with all its keys or not at all, and a file nobody gave bytes
\* still has the text it was made with.
WholeNode(node) ==
    /\ \A key \in Keys : node[key].line = <<>> => node[key].value = Absent
    /\ node.kind.value = Absent => node = NoNode
    /\ node.kind.value # Absent => node.name.value # Absent /\ node.parent.value # Absent
    /\ node.kind.value = "file" /\ node.blob = Never =>
         node.text.value # Absent /\ node.text.line = node.kind.line

\* A node has one kind, wherever it is known.
NodesInv(d) ==
    /\ \A r \in Replicas : \A n \in Nodes : WholeNode(d[r][n])
    /\ \A r, s \in Replicas : \A n \in Nodes :
         d[r][n].kind # Never /\ d[s][n].kind # Never => d[r][n].kind = d[s][n].kind

\* Who typed knows the file, and a file nobody gave bytes has no other text to type in.
TypedInv(d, t) ==
    \A r \in Replicas : \A x \in t[r] :
        /\ x[1] \in Files(d[r])
        /\ d[r][x[1]].blob = Never => x[2] = d[r][x[1]].kind.line

Sound(d, t) ==
    /\ d \in [Replicas -> [Nodes -> NodeType]] /\ t \in [Replicas -> SUBSET (Nodes \X Lines)]
    /\ KeysInv(d) /\ NodesInv(d) /\ TypedInv(d, t)

TreeInv == Sound(doc, typed) /\ changes \in 0..MaxChanges

-----------------------------------------------------------------------------
(* Why only racing moves make a loop of parents.                           *)

\* A folder is known wherever something is in it.
ParentsKnown(d) ==
    \A r \in Replicas : \A n \in AllNodes(d[r]) : d[r][n].parent.value \in AllNodes(d[r]) \cup {Root}

\* Of w's moves, r has seen all that s still goes by.
KnowsMoves(d, r, s, w) ==
    \A n \in AllNodes(d[s]) :
        Writer(d[s][n].parent) = w => NotBefore(d[r][n].parent.line, d[s][n].parent.line)

\* Everybody knows its own moves, and of two replicas one knows all the moves of
\* somebody that the other knows: what one hears of, it hears of with all that its
\* writer knew.
MovesInv(d) ==
    \A r, s \in Replicas :
        /\ KnowsMoves(d, r, s, r)
        /\ \A w \in Writers : KnowsMoves(d, r, s, w) \/ KnowsMoves(d, s, r, w)

\* Nodes that one person moved do not lead in a circle.
NoLoopOf(nodes, w) ==
    \A S \in SUBSET AllNodes(nodes) :
        S # {} /\ (\A n \in S : Writer(nodes[n].parent) = w) => \E n \in S : nodes[n].parent.value \notin S
LoopsInv(d) == \A r \in Replicas, w \in Writers : NoLoopOf(d[r], w)

RaceInv(d) == ParentsKnown(d) /\ MovesInv(d) /\ LoopsInv(d)
MoveInv    == RaceInv(doc)

\* Whatever replicas have, it does not matter who hears of whom first, nor through
\* whom, nor how often: the same comes out.
ReplicasMerge ==
    \A q, r, s \in Replicas : \A n \in Nodes, key \in Keys :
        LET a == doc[q][n][key] b == doc[r][n][key] c == doc[s][n][key] IN
        /\ Merge(a, b) = Merge(b, a)
        /\ Merge(Merge(a, b), c) = Merge(a, Merge(b, c))
        /\ Merge(a, a) = a
=============================================================================
