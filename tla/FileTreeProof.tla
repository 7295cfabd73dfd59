----------------------------- MODULE FileTreeProof -----------------------------
(***************************************************************************)
(* Proofs that FileTree keeps its types and what people typed, for any     *)
(* replicas, files, names and changes; and that merges agree.              *)
(***************************************************************************)
EXTENDS FileTreeInv, WellFoundedInduction, SequenceTheorems, FiniteSetTheorems, TLAPS

-----------------------------------------------------------------------------
(* Numbers and lines.                                                      *)

\* The least-number principle, for a set of numbers.
LEMMA LeastNumber ==
    ASSUME NEW T \in SUBSET Nat, T # {}
    PROVE  \E x \in T : \A y \in T : x <= y
<1> DEFINE Less == {x \in Nat \X Nat : x[1] < x[2]}
<1>1. IsWellFoundedOn(Less, Nat)
  <2>1. OpToRel(<, Nat) = Less
    BY DEF OpToRel
  <2>. QED BY <2>1, NatLessThanWellFounded, Zenon
<1> HIDE DEF Less
<1>2. PICK x \in T : \A y \in T : <<y, x>> \notin Less
  BY <1>1, WFMin
<1>3. ASSUME NEW y \in T PROVE x <= y
  <2>1. <<y, x>> \notin Less
    BY <1>2
  <2>. QED BY <2>1 DEF Less
<1>. QED BY <1>3

\* That the word a of length m comes after the word b of length n.
Beyond(a, m, b, n) ==
    \/ m > n /\ \A j \in 1..n : a[j] = b[j]
    \/ \E i \in 1..m : i <= n /\ a[i] > b[i] /\ \A j \in 1..i-1 : a[j] = b[j]

LEMMA AfterIsBeyond ==
    ASSUME NEW a \in Seq(Nat), NEW b \in Seq(Nat)
    PROVE  After(a, b) <=> Beyond(a, Len(a), b, Len(b))
<1>1. DOMAIN a = 1..Len(a) /\ DOMAIN b = 1..Len(b) /\ Len(a) \in Nat /\ Len(b) \in Nat
  OBVIOUS
<1>2. DOMAIN a \cap DOMAIN b = {i \in 1..Len(a) : i <= Len(b)}
  BY <1>1
<1>. QED BY <1>1, <1>2, Zenon DEF After, Beyond

LEMMA BeyondTransitive ==
    ASSUME NEW a, NEW b, NEW c, NEW l \in Nat, NEW m \in Nat, NEW n \in Nat,
           \A i \in 1..l : a[i] \in Nat, \A i \in 1..m : b[i] \in Nat, \A i \in 1..n : c[i] \in Nat,
           Beyond(a, l, b, m), Beyond(b, m, c, n)
    PROVE  Beyond(a, l, c, n)
<1>1. ASSUME l > m, \A j \in 1..m : a[j] = b[j] PROVE Beyond(a, l, c, n)
  <2>1. ASSUME m > n, \A j \in 1..n : b[j] = c[j] PROVE Beyond(a, l, c, n)
    BY <1>1, <2>1 DEF Beyond
  <2>2. ASSUME NEW i \in 1..m, i <= n, b[i] > c[i], \A j \in 1..i-1 : b[j] = c[j]
        PROVE  Beyond(a, l, c, n)
    <3>1. i \in 1..l /\ a[i] > c[i] /\ \A j \in 1..i-1 : a[j] = c[j]
      BY <1>1, <2>2
    <3>. QED BY <2>2, <3>1 DEF Beyond
  <2>. QED BY <2>1, <2>2 DEF Beyond
<1>2. ASSUME NEW i \in 1..l, i <= m, a[i] > b[i], \A j \in 1..i-1 : a[j] = b[j]
      PROVE  Beyond(a, l, c, n)
  <2>1. ASSUME m > n, \A j \in 1..n : b[j] = c[j] PROVE Beyond(a, l, c, n)
    <3>1. CASE i <= n
      <4>1. i \in 1..n /\ a[i] > c[i] /\ \A j \in 1..i-1 : a[j] = c[j]
        BY <1>2, <2>1, <3>1
      <4>. QED BY <3>1, <4>1 DEF Beyond
    <3>2. CASE n < i
      <4>1. l > n /\ \A j \in 1..n : a[j] = c[j]
        BY <1>2, <2>1, <3>2
      <4>. QED BY <4>1 DEF Beyond
    <3>. QED BY <3>1, <3>2
  <2>2. ASSUME NEW k \in 1..m, k <= n, b[k] > c[k], \A j \in 1..k-1 : b[j] = c[j]
        PROVE  Beyond(a, l, c, n)
    <3>1. CASE i <= k
      <4>1. i <= n /\ a[i] \in Nat /\ b[i] \in Nat /\ c[i] \in Nat
        BY <1>2, <2>2, <3>1
      <4>2. i < k => b[i] = c[i]
        BY <2>2
      <4>3. a[i] > c[i]
        BY <1>2, <2>2, <3>1, <4>1, <4>2
      <4>4. \A j \in 1..i-1 : a[j] = c[j]
        BY <1>2, <2>2, <3>1
      <4>. QED BY <4>1, <4>3, <4>4 DEF Beyond
    <3>2. CASE k < i
      <4>1. k \in 1..l /\ a[k] = b[k]
        BY <1>2, <2>2, <3>2
      <4>2. a[k] > c[k]
        BY <2>2, <4>1
      <4>3. \A j \in 1..k-1 : a[j] = c[j]
        BY <1>2, <2>2, <3>2
      <4>. QED BY <2>2, <4>1, <4>2, <4>3 DEF Beyond
    <3>. QED BY <3>1, <3>2
  <2>. QED BY <2>1, <2>2 DEF Beyond
<1>. QED BY <1>1, <1>2 DEF Beyond

\* Lines are ordered as words are: after is transitive,
LEMMA AfterTransitive ==
    ASSUME NEW a \in Seq(Nat), NEW b \in Seq(Nat), NEW c \in Seq(Nat), After(a, b), After(b, c)
    PROVE  After(a, c)
<1>1. /\ Len(a) \in Nat /\ \A i \in 1..Len(a) : a[i] \in Nat
      /\ Len(b) \in Nat /\ \A i \in 1..Len(b) : b[i] \in Nat
      /\ Len(c) \in Nat /\ \A i \in 1..Len(c) : c[i] \in Nat
  OBVIOUS
<1>. QED BY <1>1, AfterIsBeyond, BeyondTransitive, Zenon

\* irreflexive,
LEMMA AfterIrreflexive ==
    ASSUME NEW a \in Seq(Nat)
    PROVE  ~After(a, a)
<1>1. Len(a) \in Nat /\ \A i \in 1..Len(a) : a[i] \in Nat
  OBVIOUS
<1>. QED BY <1>1, AfterIsBeyond DEF Beyond

\* and total.
LEMMA AfterTotal ==
    ASSUME NEW a \in Seq(Nat), NEW b \in Seq(Nat), a # b
    PROVE  After(a, b) \/ After(b, a)
<1> DEFINE Differ == {i \in Nat : i \in DOMAIN a \cap DOMAIN b /\ a[i] # b[i]}
<1>1. CASE Differ = {}
  <2>1. \A i \in DOMAIN a \cap DOMAIN b : a[i] = b[i]
    BY <1>1
  <2>2. CASE Len(a) = Len(b)
    BY <2>1, <2>2
  <2>3. CASE Len(a) > Len(b)
    BY <2>1, <2>3 DEF After
  <2>4. CASE Len(b) > Len(a)
    BY <2>1, <2>4 DEF After
  <2>. QED BY <2>2, <2>3, <2>4
<1>2. CASE Differ # {}
  <2>1. PICK i \in Differ : \A j \in Differ : i <= j
    BY <1>2, LeastNumber
  <2>2. i \in DOMAIN a \cap DOMAIN b /\ a[i] \in Nat /\ b[i] \in Nat /\ a[i] # b[i]
    OBVIOUS
  <2>3. i \in 1..Len(a) /\ i \in 1..Len(b)
    BY <2>2
  <2>4. \A j \in 1..i-1 : a[j] = b[j]
    BY <2>1, <2>2, <2>3
  <2>5. CASE a[i] > b[i]
    BY <2>2, <2>4, <2>5 DEF After
  <2>6. CASE b[i] > a[i]
    BY <2>2, <2>4, <2>6 DEF After
  <2>. QED BY <2>2, <2>5, <2>6
<1>. QED BY <1>1, <1>2

LEMMA AfterAsymmetric ==
    ASSUME NEW a \in Seq(Nat), NEW b \in Seq(Nat), After(a, b)
    PROVE  ~After(b, a) /\ a # b
BY AfterTransitive, AfterIrreflexive

-----------------------------------------------------------------------------
(* Items, nodes and what a replica does to them.                           *)

\* What a key of a node may have.
Values(key) ==
    CASE key = "kind" -> {"file", "folder"} [] key = "name" -> Titles [] key = "parent" -> Nodes \cup {Root}
      [] key = "trashed" -> {"trashed"} [] key = "blob" -> Bytes [] key = "text" -> {"text"}

LEMMA NodeKeys ==
    ASSUME NEW node \in NodeType
    PROVE  /\ \A key \in Keys : node[key] \in Cell(Values(key))
           /\ node["kind"] = node.kind /\ node["name"] = node.name /\ node["parent"] = node.parent
           /\ node["trashed"] = node.trashed /\ node["blob"] = node.blob /\ node["text"] = node.text
BY DEF NodeType, Keys, Values

LEMMA AllWriters == Replicas \subseteq Writers /\ 0 \in Writers /\ Writers \subseteq Nat
BY ReplicasAssumption DEF Writers

LEMMA LinesOfNumbers ==
    ASSUME NEW line \in Lines
    PROVE  line \in Seq(Nat)
BY AllWriters, SeqMonotonic DEF Lines

LEMMA NoNodeType == NoNode \in NodeType /\ \A key \in Keys : NoNode[key] = Never
<1>1. Never \in [value : {Absent}, line : Lines]
  BY DEF Never, Lines
<1>. QED BY <1>1 DEF NoNode, NodeType, Keys, Cell

LEMMA MergedKeys ==
    ASSUME NEW a \in NodeType, NEW b \in NodeType
    PROVE  /\ MergeNodes(a, b) \in NodeType
           /\ \A key \in Keys : MergeNodes(a, b)[key] = Merge(a[key], b[key])
<1>1. \A values : \A c, d \in Cell(values) : Merge(c, d) \in Cell(values)
  BY DEF Merge
<1>2. MergeNodes(a, b) \in NodeType
  BY <1>1 DEF MergeNodes, NodeType
<1>3. \A key \in Keys : MergeNodes(a, b)[key] = Merge(a[key], b[key])
  BY DEF MergeNodes, NodeType, Keys
<1>. QED BY <1>2, <1>3

LEMMA NotBeforeTransitive ==
    ASSUME NEW a \in Seq(Nat), NEW b \in Seq(Nat), NEW c \in Seq(Nat), NotBefore(a, b), NotBefore(b, c)
    PROVE  NotBefore(a, c)
BY AfterTransitive DEF NotBefore

LEMMA PartsOfLines ==
    ASSUME NEW l \in Seq(Nat), NEW i \in DOMAIN l
    PROVE  /\ SubSeq(l, 1, i) \in Seq(Nat) /\ Len(SubSeq(l, 1, i)) = i
           /\ i \in Nat /\ i <= Len(l) /\ i >= 1
<1>1. Len(l) \in Nat /\ i \in 1..Len(l)
  OBVIOUS
<1>2. \A j \in 1..i : l[j] \in Nat
  BY <1>1
<1>. QED BY <1>1, <1>2, SubSeqProperties

\* A line that goes on comes after the one it goes on from, and begins as it does.
LEMMA Goes ==
    ASSUME NEW l \in Seq(Nat), NEW r \in Nat
    PROVE  /\ Append(l, r) \in Seq(Nat) /\ After(Append(l, r), l)
           /\ DOMAIN Append(l, r) = DOMAIN l \cup {Len(l) + 1}
           /\ Append(l, r)[Len(l) + 1] = r
           /\ \A i \in DOMAIN l : Append(l, r)[i] = l[i] /\ SubSeq(Append(l, r), 1, i) = SubSeq(l, 1, i)
           /\ SubSeq(Append(l, r), 1, Len(l) + 1) = Append(l, r)
<1> DEFINE m == Append(l, r)
<1>1. /\ m \in Seq(Nat) /\ Len(m) = Len(l) + 1 /\ Len(l) \in Nat
      /\ DOMAIN m = 1..(Len(l) + 1) /\ DOMAIN l = 1..Len(l)
      /\ m[Len(l) + 1] = r /\ \A i \in 1..Len(l) : m[i] = l[i]
  OBVIOUS
<1> HIDE DEF m
<1>2. After(m, l)
  BY <1>1 DEF After
<1>3. ASSUME NEW i \in DOMAIN l PROVE SubSeq(m, 1, i) = SubSeq(l, 1, i)
  <2>1. i \in Nat /\ i <= Len(l)
    BY <1>1
  <2>2. /\ SubSeq(l, 1, i) \in Seq(Nat) /\ Len(SubSeq(l, 1, i)) = i
        /\ SubSeq(m, 1, i) \in Seq(Nat) /\ Len(SubSeq(m, 1, i)) = i
    <3>1. i \in DOMAIN m
      BY <1>1, <2>1
    <3>2. SubSeq(l, 1, i) \in Seq(Nat) /\ Len(SubSeq(l, 1, i)) = i
      BY PartsOfLines
    <3>3. SubSeq(m, 1, i) \in Seq(Nat) /\ Len(SubSeq(m, 1, i)) = i
      BY <1>1, <3>1, PartsOfLines
    <3>. QED BY <3>2, <3>3
  <2>3. /\ \A j \in 1..i : SubSeq(l, 1, i)[j] = l[j]
        /\ \A j \in 1..i : SubSeq(m, 1, i)[j] = m[j]
    <3>1. (\A j \in 1..i : l[j] \in Nat) /\ (\A j \in 1..i : m[j] \in Nat) /\ i \in Int /\ 1 \in Int
      <4>1. \A j \in 1..Len(l) : l[j] \in Nat /\ j \in 1..(Len(l) + 1)
        BY <1>1
      <4>2. \A j \in 1..(Len(l) + 1) : m[j] \in Nat
        BY <1>1
      <4>3. \A j \in 1..i : j \in 1..Len(l)
        BY <1>1, <2>1
      <4>. QED BY <2>1, <4>1, <4>2, <4>3
    <3>2. \A j \in 1..i-1+1 : SubSeq(l, 1, i)[j] = l[1+j-1]
      BY <3>1, SubSeqProperties
    <3>3. \A j \in 1..i-1+1 : SubSeq(m, 1, i)[j] = m[1+j-1]
      BY <3>1, SubSeqProperties
    <3>4. i-1+1 = i /\ \A j \in 1..i : 1+j-1 = j
      BY <3>1
    <3>. QED BY <3>2, <3>3, <3>4
  <2>4. \A j \in 1..i : m[j] = l[j]
    BY <1>1, <2>1
  <2>5. \A j \in 1..Len(SubSeq(l, 1, i)) : SubSeq(m, 1, i)[j] = SubSeq(l, 1, i)[j]
    BY <2>2, <2>3, <2>4
  <2>. QED BY <2>2, <2>5, SeqEqual
<1>4. SubSeq(m, 1, Len(l) + 1) = m
  BY <1>1, SubSeqFull
<1>. QED BY <1>1, <1>2, <1>3, <1>4 DEF m

\* One replica leaves a key alone, deletes its item or writes one.
Writes(r, c, d) == d = c \/ d = Delete(c) \/ d.line = Append(c.line, r)

LEMMA CellLines ==
    ASSUME NEW values, NEW c \in Cell(values)
    PROVE  c.line \in Seq(Nat) /\ Delete(c) \in Cell(values) /\ Delete(c).line = c.line /\ Delete(c).value = Absent
BY LinesOfNumbers DEF Cell, Delete

LEMMA WriteKeeps ==
    ASSUME NEW values, NEW cells \in [Replicas -> Cell(values)], KeyInv(cells),
           NEW r \in Replicas, NEW d \in Cell(values), Writes(r, cells[r], d),
           NEW new, new[r] = d, \A s \in Replicas \ {r} : new[s] = cells[s]
    PROVE  KeyInv(new)
<1> DEFINE l == cells[r].line
<1>1. new[r] = d /\ \A s \in Replicas \ {r} : new[s] = cells[s]
  OBVIOUS
<1>2. /\ \A s \in Replicas : cells[s] \in Cell(values) /\ cells[s].line \in Seq(Nat)
      /\ d.line \in Seq(Nat) /\ r \in Nat
  BY CellLines, ReplicasAssumption
<1> HIDE DEF l
<1>3. CASE d = cells[r]
  <2>1. \A s \in Replicas : new[s] = cells[s]
    BY <1>1, <1>3
  <2>. QED BY <2>1 DEF KeyInv
<1>4. CASE d = Delete(cells[r])
  <2>1. \A s \in Replicas : new[s].line = cells[s].line /\ (new[s].value = cells[s].value \/ new[s].value = Absent)
    BY <1>1, <1>2, <1>4, CellLines
  <2>. QED BY <2>1 DEF KeyInv
<1>5. CASE d.line = Append(l, r)
  <2>1. /\ d.line \in Seq(Nat) /\ After(d.line, l) /\ DOMAIN d.line = DOMAIN l \cup {Len(l) + 1}
        /\ d.line[Len(l) + 1] = r
        /\ \A i \in DOMAIN l : d.line[i] = l[i] /\ SubSeq(d.line, 1, i) = SubSeq(l, 1, i)
        /\ SubSeq(d.line, 1, Len(l) + 1) = d.line
    <3>1. l \in Seq(Nat) /\ r \in Nat
      BY <1>2 DEF l
    <3>. QED BY <1>5, <3>1, Goes, SMTT(30)
  <2>2. ASSUME NEW s \in Replicas, NEW i \in DOMAIN cells[s].line, cells[s].line[i] = r
        PROVE  NotBefore(d.line, SubSeq(cells[s].line, 1, i))
    <3>1. NotBefore(l, SubSeq(cells[s].line, 1, i))
      BY <2>2 DEF KeyInv, l
    <3>2. SubSeq(cells[s].line, 1, i) \in Seq(Nat) /\ l \in Seq(Nat)
      BY <1>2, PartsOfLines DEF l
    <3>3. NotBefore(d.line, l)
      BY <2>1 DEF NotBefore
    <3>. QED BY <2>1, <3>1, <3>2, <3>3, NotBeforeTransitive
  <2>3. ASSUME NEW s \in Replicas \ {r} PROVE cells[s].line # d.line
    <3>1. SUFFICES ASSUME cells[s].line = d.line PROVE FALSE
      OBVIOUS
    <3>2. NotBefore(l, d.line)
      <4>1. Len(l) + 1 \in DOMAIN cells[s].line /\ cells[s].line[Len(l) + 1] = r
        BY <2>1, <3>1
      <4>2. NotBefore(l, SubSeq(cells[s].line, 1, Len(l) + 1))
        BY <4>1 DEF KeyInv, l
      <4>. QED BY <2>1, <3>1, <4>2
    <3>3. l \in Seq(Nat)
      BY <1>2 DEF l
    <3>. QED BY <2>1, <3>2, <3>3, AfterAsymmetric DEF NotBefore
  <2>4. ASSUME NEW q \in Replicas, NEW s \in Replicas, NEW i \in DOMAIN new[s].line, new[s].line[i] = q
        PROVE  NotBefore(new[q].line, SubSeq(new[s].line, 1, i))
    <3>1. CASE s # r /\ q # r
      BY <1>1, <2>4, <3>1 DEF KeyInv
    <3>2. CASE s # r /\ q = r
      BY <1>1, <2>2, <2>4, <3>2
    <3>3. CASE s = r /\ i \in DOMAIN l /\ q = r
      <4>1. NotBefore(d.line, SubSeq(l, 1, i))
        BY <1>1, <2>1, <2>2, <2>4, <3>3 DEF l
      <4>. QED BY <1>1, <2>1, <3>3, <4>1
    <3>4. CASE s = r /\ i \in DOMAIN l /\ q # r
      <4>1. NotBefore(cells[q].line, SubSeq(l, 1, i))
        BY <1>1, <2>1, <2>4, <3>4 DEF KeyInv, l
      <4>. QED BY <1>1, <2>1, <3>4, <4>1
    <3>5. CASE s = r /\ i = Len(l) + 1
      BY <1>1, <2>1, <2>4, <3>5 DEF NotBefore
    <3>6. s = r => i \in DOMAIN l \/ i = Len(l) + 1
      BY <1>1, <2>1, <2>4
    <3>. QED BY <3>1, <3>2, <3>3, <3>4, <3>5, <3>6
  <2>5. ASSUME NEW q \in Replicas, NEW s \in Replicas, new[q].line = new[s].line
        PROVE  new[q].value = new[s].value \/ Absent \in {new[q].value, new[s].value}
    BY <1>1, <2>3, <2>5 DEF KeyInv
  <2>. QED BY <2>4, <2>5 DEF KeyInv
<1>. QED BY <1>3, <1>4, <1>5 DEF Writes, l

LEMMA MergeKeeps ==
    ASSUME NEW values, NEW cells \in [Replicas -> Cell(values)], KeyInv(cells),
           NEW r \in Replicas, NEW s \in Replicas,
           NEW new, new[s] = Merge(cells[s], cells[r]), \A t \in Replicas \ {s} : new[t] = cells[t]
    PROVE  KeyInv(new)
<1> DEFINE e == Merge(cells[s], cells[r])
<1>1. new[s] = e /\ \A t \in Replicas \ {s} : new[t] = cells[t]
  OBVIOUS
<1>2. \A t \in Replicas : cells[t].line \in Seq(Nat)
  BY CellLines
<1>3. e \in {cells[s], cells[r]}
  BY DEF Merge
<1>4. NotBefore(e.line, cells[s].line)
  BY <1>2, AfterTotal DEF Merge, NotBefore
<1> HIDE DEF e
<1>5. \A t \in Replicas : NotBefore(new[t].line, cells[t].line)
  BY <1>1, <1>4 DEF NotBefore
<1>6. \A t \in Replicas : \E u \in Replicas : new[t] = cells[u]
  BY <1>1, <1>3
<1>7. ASSUME NEW q \in Replicas, NEW t \in Replicas, NEW i \in DOMAIN new[t].line, new[t].line[i] = q
      PROVE  NotBefore(new[q].line, SubSeq(new[t].line, 1, i))
  <2>1. PICK u \in Replicas : new[t] = cells[u]
    BY <1>6
  <2>2. NotBefore(cells[q].line, SubSeq(new[t].line, 1, i))
    BY <1>7, <2>1 DEF KeyInv
  <2>3. SubSeq(new[t].line, 1, i) \in Seq(Nat)
    BY <1>2, <2>1, PartsOfLines
  <2>4. new[q].line \in Seq(Nat) /\ cells[q].line \in Seq(Nat)
    BY <1>2, <1>6
  <2>. QED BY <1>5, <2>2, <2>3, <2>4, NotBeforeTransitive
<1>8. ASSUME NEW q \in Replicas, NEW t \in Replicas, new[q].line = new[t].line
      PROVE  new[q].value = new[t].value \/ Absent \in {new[q].value, new[t].value}
  BY <1>6, <1>8 DEF KeyInv
<1>. QED BY <1>7, <1>8 DEF KeyInv, e

-----------------------------------------------------------------------------
(* isLive and listTree go down the tree level by level: such iterations    *)
(* exist, and what is shown is nodes.                                      *)

\* Induction over depths, for a set of them.
LEMMA Depths ==
    ASSUME NEW N \in Nat, NEW T \in SUBSET (0..N), 0 \in T, \A d \in 1..N : d - 1 \in T => d \in T
    PROVE  \A d \in 0..N : d \in T
<1> DEFINE Rest == (0..N) \ T
<1>1. SUFFICES ASSUME Rest # {} PROVE FALSE
  OBVIOUS
<1>2. PICK d \in Rest : \A e \in Rest : d <= e
  <2>1. Rest \in SUBSET Nat
    OBVIOUS
  <2> HIDE DEF Rest
  <2>. QED BY <1>1, <2>1, LeastNumber
<1>3. d - 1 \in 0..N /\ d \in 1..N
  BY <1>2
<1>4. d - 1 \in T
  BY <1>2, <1>3
<1>. QED BY <1>3, <1>4

\* The three iterations, of nodes or, for those above a node, of nodes and where to
\* begin: what they start with, and one level further.
Climb(nodes, x) == x \cup {nodes[m].parent.value : m \in x \ {Root}}
Start(what, of) ==
    IF what = "shown" THEN {Root} ELSE IF what = "above" THEN {of.from} ELSE [n \in {Root} |-> <<>>]
Further(what, of, x) ==
    IF what = "shown" THEN Widen(of, x)
    ELSE IF what = "above" THEN Climb(of.nodes, x) ELSE Deepen(of, Live(of), x)

Iterates(f, n, what, of) ==
    f = [d \in 0..n |-> IF d = 0 THEN Start(what, of) ELSE Further(what, of, f[d - 1])]

LEMMA NodesCount == Cardinality(Nodes) \in Nat /\ Root \notin Nodes
BY NodesAssumption, FS_CardinalityType

\* With an iteration up to a depth there is one up to the next.
LEMMA IteratesExist ==
    ASSUME NEW what, NEW of
    PROVE  \E f : Iterates(f, Cardinality(Nodes), what, of)
<1> DEFINE N == Cardinality(Nodes)
           T == {n \in 0..N : \E f : Iterates(f, n, what, of)}
<1>1. N \in Nat
  BY NodesCount
<1>2. 0 \in T
  <2> DEFINE f == [d \in 0..0 |-> Start(what, of)]
  <2>1. f = [d \in 0..0 |-> IF d = 0 THEN Start(what, of) ELSE Further(what, of, f[d - 1])]
    OBVIOUS
  <2> HIDE DEF f
  <2>2. 0 \in 0..N
    BY <1>1
  <2>. QED BY <2>1, <2>2 DEF Iterates
<1>3. ASSUME NEW n \in 1..N, n - 1 \in T PROVE n \in T
  <2>1. PICK f : Iterates(f, n - 1, what, of)
    BY <1>3
  <2> HIDE DEF N
  <2> DEFINE g == [d \in 0..n |-> IF d = n THEN Further(what, of, f[n - 1]) ELSE f[d]]
  <2>2. ASSUME NEW d \in 0..n
        PROVE  g[d] = IF d = 0 THEN Start(what, of) ELSE Further(what, of, g[d - 1])
    <3>1. CASE d = n
      <4>1. g[d - 1] = f[n - 1] /\ d # 0
        BY <1>1, <3>1
      <4>. QED BY <3>1, <4>1
    <3>2. CASE d # n
      <4>1. d \in 0..(n - 1) /\ g[d] = f[d]
        BY <1>1, <3>2
      <4>2. d # 0 => d - 1 \in 0..n /\ d - 1 # n /\ g[d - 1] = f[d - 1]
        BY <1>1, <4>1
      <4>3. f[d] = IF d = 0 THEN Start(what, of) ELSE Further(what, of, f[d - 1])
        BY <2>1, <4>1 DEF Iterates
      <4>. QED BY <4>1, <4>2, <4>3
    <3>. QED BY <3>1, <3>2
  <2>3. g = [d \in 0..n |-> g[d]]
    OBVIOUS
  <2> HIDE DEF g
  <2>4. Iterates(g, n, what, of)
    BY <2>2, <2>3 DEF Iterates
  <2>5. n \in 0..N
    BY <1>1
  <2>. QED BY <2>4, <2>5
<1> HIDE DEF T, N
<1>4. T \in SUBSET (0..N)
  BY DEF T
<1>5. N \in T
  BY <1>1, <1>2, <1>3, <1>4, Depths
<1>. QED BY <1>5 DEF T, N

LEMMA LiveIterates ==
    ASSUME NEW nodes
    PROVE  \E f : /\ Iterates(f, Cardinality(Nodes), "shown", nodes)
                  /\ Live(nodes) = f[Cardinality(Nodes)] \ {Root}
<1> DEFINE Sets == CHOOSE f : f = [d \in 0..Cardinality(Nodes) |-> IF d = 0 THEN {Root} ELSE Widen(nodes, f[d - 1])]
<1>1. \E f : f = [d \in 0..Cardinality(Nodes) |-> IF d = 0 THEN {Root} ELSE Widen(nodes, f[d - 1])]
  <2>1. PICK f : Iterates(f, Cardinality(Nodes), "shown", nodes)
    BY IteratesExist
  <2>2. \A d : (IF d = 0 THEN Start("shown", nodes) ELSE Further("shown", nodes, f[d - 1]))
                = IF d = 0 THEN {Root} ELSE Widen(nodes, f[d - 1])
    BY DEF Start, Further
  <2>3. f = [d \in 0..Cardinality(Nodes) |-> IF d = 0 THEN {Root} ELSE Widen(nodes, f[d - 1])]
    BY <2>1, <2>2 DEF Iterates
  <2>. QED BY <2>3
<1>2. Sets = [d \in 0..Cardinality(Nodes) |-> IF d = 0 THEN {Root} ELSE Widen(nodes, Sets[d - 1])]
  BY <1>1, Zenon
<1>3. Live(nodes) = Sets[Cardinality(Nodes)] \ {Root}
  BY Zenon DEF Live
<1> HIDE DEF Sets
<1>4. Iterates(Sets, Cardinality(Nodes), "shown", nodes)
  BY <1>2 DEF Iterates, Start, Further
<1>. QED BY <1>3, <1>4

\* What is shown is known.
LEMMA LiveIsKnown ==
    ASSUME NEW nodes
    PROVE  /\ Live(nodes) \subseteq AllNodes(nodes) /\ Live(nodes) \subseteq DOMAIN nodes
           /\ Root \notin Live(nodes)
<1>1. PICK f : Iterates(f, Cardinality(Nodes), "shown", nodes) /\ Live(nodes) = f[Cardinality(Nodes)] \ {Root}
  BY LiveIterates
<1> DEFINE N == Cardinality(Nodes)
           T == {d \in 0..N : f[d] \subseteq {Root} \cup AllNodes(nodes)}
<1>2. N \in Nat
  BY NodesCount
<1>3. \A d \in 0..N : f[d] = IF d = 0 THEN {Root} ELSE Widen(nodes, f[d - 1])
  BY <1>1 DEF Iterates, Start, Further
<1> HIDE DEF N
<1>4. 0 \in T
  BY <1>2, <1>3
<1>5. ASSUME NEW d \in 1..N, d - 1 \in T PROVE d \in T
  <2>1. f[d] = Widen(nodes, f[d - 1]) /\ d \in 0..N
    BY <1>2, <1>3
  <2>2. f[d - 1] \subseteq {Root} \cup AllNodes(nodes)
    BY <1>5
  <2>. QED BY <2>1, <2>2 DEF Widen
<1>6. N \in T
  <2> HIDE DEF T
  <2>1. T \in SUBSET (0..N)
    BY DEF T
  <2>. QED BY <1>2, <1>4, <1>5, <2>1, Depths
<1>. QED BY <1>1, <1>6 DEF N, AllNodes

-----------------------------------------------------------------------------
(* Merging nodes.                                                          *)

\* An item there is wins over none.
LEMMA AfterNone ==
    ASSUME NEW l \in Seq(Nat)
    PROVE  ~After(<<>>, l) /\ (l # <<>> => After(l, <<>>))
<1>1. Len(l) \in Nat /\ Len(<<>>) = 0 /\ DOMAIN <<>> = {} /\ (l # <<>> => Len(l) > 0)
  OBVIOUS
<1>. QED BY <1>1 DEF After

Founded(c) == c.line = <<>> => c.value = Absent

LEMMA MergeWithNone ==
    ASSUME NEW values, NEW c \in Cell(values), Founded(c)
    PROVE  /\ Merge(c, Never) = c /\ Merge(Never, c) = c
           /\ c.line = <<>> <=> c = Never
<1>1. c = [value |-> c.value, line |-> c.line] /\ c.line \in Seq(Nat)
  BY LinesOfNumbers DEF Cell
<1>2. Never.line = <<>> /\ Never.value = Absent /\ Never = [value |-> Absent, line |-> <<>>]
  BY DEF Never
<1>3. c.line = <<>> <=> c = Never
  BY <1>1, <1>2 DEF Founded
<1>4. CASE c.line = <<>>
  BY <1>2, <1>3, <1>4 DEF Merge
<1>5. CASE c.line # <<>>
  BY <1>1, <1>2, <1>5, AfterNone DEF Merge
<1>. QED BY <1>3, <1>4, <1>5

LEMMA MergeIsNone ==
    ASSUME NEW values, NEW c \in Cell(values), NEW d \in Cell(values), Founded(c), Founded(d),
           Merge(c, d) = Never
    PROVE  c = Never /\ d = Never
<1>1. c.line \in Seq(Nat) /\ d.line \in Seq(Nat) /\ Never.line = <<>>
  BY LinesOfNumbers DEF Cell, Never
<1>2. CASE c = Never
  BY <1>2, MergeWithNone
<1>3. CASE c # Never
  <2>1. d = Never /\ c.line # <<>>
    BY <1>3, MergeWithNone DEF Merge
  <2>. QED BY <1>1, <1>3, <2>1, AfterNone DEF Merge
<1>. QED BY <1>2, <1>3

LEMMA MergeAgrees ==
    ASSUME NEW values, NEW c \in Cell(values), NEW d \in Cell(values),
           c.line = d.line => c.value = d.value \/ Absent \in {c.value, d.value}
    PROVE  Merge(c, d) = Merge(d, c)
<1>1. /\ c = [value |-> c.value, line |-> c.line] /\ c.line \in Seq(Nat)
      /\ d = [value |-> d.value, line |-> d.line] /\ d.line \in Seq(Nat)
  BY LinesOfNumbers DEF Cell
<1>2. CASE c.line = d.line
  <2>1. CASE c.value = d.value
    BY <1>1, <1>2, <2>1 DEF Merge
  <2>2. CASE c.value # d.value
    BY <1>2, <2>2 DEF Merge
  <2>. QED BY <2>1, <2>2
<1>3. CASE c.line # d.line
  BY <1>1, <1>3, AfterTotal, AfterAsymmetric DEF Merge
<1>. QED BY <1>2, <1>3

SameItem(c, d) == c.line = d.line => c.value = d.value \/ Absent \in {c.value, d.value}

LEMMA MergeAssociates ==
    ASSUME NEW values, NEW c \in Cell(values), NEW d \in Cell(values), NEW e \in Cell(values),
           SameItem(c, d), SameItem(d, e), SameItem(c, e)
    PROVE  Merge(Merge(c, d), e) = Merge(c, Merge(d, e))
<1> DEFINE k == c.line
           l == d.line
           m == e.line
<1>1. /\ c = [value |-> c.value, line |-> k] /\ k \in Seq(Nat)
      /\ d = [value |-> d.value, line |-> l] /\ l \in Seq(Nat)
      /\ e = [value |-> e.value, line |-> m] /\ m \in Seq(Nat)
  BY LinesOfNumbers DEF Cell
<1>2. /\ k # l => (After(k, l) <=> ~After(l, k))
      /\ l # m => (After(l, m) <=> ~After(m, l))
      /\ k # m => (After(k, m) <=> ~After(m, k))
  BY <1>1, AfterTotal, AfterAsymmetric
<1>3. /\ After(k, l) /\ After(l, m) => After(k, m)
      /\ After(m, l) /\ After(l, k) => After(m, k)
  BY <1>1, AfterTransitive
<1>4. CASE k = l /\ l = m
  BY <1>1, <1>4 DEF Merge, SameItem
<1>5. CASE k = l /\ l # m
  <2>1. Merge(c, d) \in {c, d} /\ k # m
    BY <1>5 DEF Merge
  <2>2. CASE After(k, m)
    BY <1>2, <1>5, <2>1, <2>2 DEF Merge
  <2>3. CASE ~After(k, m)
    BY <1>2, <1>5, <2>1, <2>3 DEF Merge
  <2>. QED BY <2>2, <2>3
<1>6. CASE l = m /\ k # l
  <2>1. Merge(d, e) \in {d, e} /\ k # m
    BY <1>6 DEF Merge
  <2>2. CASE After(k, l)
    BY <1>2, <1>6, <2>1, <2>2 DEF Merge
  <2>3. CASE ~After(k, l)
    BY <1>2, <1>6, <2>1, <2>3 DEF Merge
  <2>. QED BY <2>2, <2>3
<1>7. CASE k = m /\ k # l
  BY <1>1, <1>2, <1>7 DEF Merge, SameItem
<1>8. CASE k # l /\ l # m /\ k # m
  BY <1>2, <1>3, <1>8, Zenon DEF Merge
<1>. QED BY <1>4, <1>5, <1>6, <1>7, <1>8

\* The node that two replicas' nodes make, whatever each of them knows of it.
LEMMA MergedNode ==
    ASSUME NEW a \in NodeType, NEW b \in NodeType, WholeNode(a), WholeNode(b),
           a.kind # Never /\ b.kind # Never => a.kind = b.kind
    PROVE  LET m == MergeNodes(a, b) IN
           /\ m \in NodeType /\ WholeNode(m)
           /\ a.kind # Never => m.kind = a.kind
           /\ b.kind # Never => m.kind = b.kind
           /\ m.kind # Never => a.kind # Never \/ b.kind # Never
           /\ m.blob = Never => a.blob = Never /\ b.blob = Never
<1> DEFINE m == MergeNodes(a, b)
<1>1. m \in NodeType /\ \A key \in Keys : m[key] = Merge(a[key], b[key])
  BY MergedKeys
<1>2. \A key \in Keys : /\ a[key] \in Cell(Values(key)) /\ b[key] \in Cell(Values(key))
                        /\ Founded(a[key]) /\ Founded(b[key])
  BY NodeKeys DEF WholeNode, Founded
<1>3. /\ m.kind = Merge(a.kind, b.kind) /\ m.name = Merge(a.name, b.name) /\ m.parent = Merge(a.parent, b.parent)
      /\ m.blob = Merge(a.blob, b.blob) /\ m.text = Merge(a.text, b.text)
  BY DEF MergeNodes
<1>4. \A x \in {a, b} : /\ x.kind \in Cell(Values("kind")) /\ Founded(x.kind)
                        /\ x.blob \in Cell(Values("blob")) /\ Founded(x.blob)
                        /\ x.kind = Never => x = NoNode
                        /\ x.kind.value = Absent => x.kind = Never
  <2>1. "kind" \in Keys /\ "blob" \in Keys /\ Never.value = Absent /\ NoNode.kind = Never
    BY DEF Keys, Never, NoNode
  <2>. QED BY <1>2, <2>1, NodeKeys DEF WholeNode
<1> HIDE DEF m
<1>5. \A x \in {a, b} : \A key \in Keys : m[key] = x[key] => Founded(m[key])
  BY <1>2
<1>6. \A key \in Keys : Founded(m[key])
  BY <1>1, <1>2 DEF Merge
<1>7. m.blob = Never => a.blob = Never /\ b.blob = Never
  BY <1>3, <1>4, MergeIsNone
<1>8. CASE a.kind = Never
  <2>1. a = NoNode
    BY <1>4, <1>8
  <2>2. \A key \in Keys : m[key] = b[key]
    BY <1>1, <1>2, <2>1, NoNodeType, MergeWithNone
  <2>3. m = b
    BY <1>1, <2>2, NodeKeys DEF NodeType, Keys
  <2>. QED BY <1>1, <1>7, <1>8, <2>3 DEF m
<1>9. CASE b.kind = Never
  <2>1. b = NoNode
    BY <1>4, <1>9
  <2>2. \A key \in Keys : m[key] = a[key]
    BY <1>1, <1>2, <2>1, NoNodeType, MergeWithNone
  <2>3. m = a
    BY <1>1, <2>2, NodeKeys DEF NodeType, Keys
  <2>. QED BY <1>1, <1>7, <1>9, <2>3 DEF m
<1>10. CASE a.kind # Never /\ b.kind # Never
  <2>1. m.kind = a.kind /\ m.kind = b.kind /\ a.kind.value # Absent
    BY <1>3, <1>4, <1>10 DEF Merge
  <2>2. m.name.value # Absent /\ m.parent.value # Absent
    BY <1>3, <2>1 DEF Merge, WholeNode
  <2>3. m.kind.value = "file" /\ m.blob = Never => m.text.value # Absent /\ m.text.line = m.kind.line
    BY <1>3, <1>7, <2>1 DEF Merge, WholeNode
  <2>4. WholeNode(m)
    BY <1>6, <2>1, <2>2, <2>3 DEF WholeNode, Founded
  <2>. QED BY <1>1, <1>7, <1>10, <2>1, <2>4 DEF m
<1>. QED BY <1>8, <1>9, <1>10

-----------------------------------------------------------------------------
(* One replica changes its nodes; one merges another's.                    *)

\* What a replica may make of a node.
Turns(r, a, b) ==
    /\ b \in NodeType /\ WholeNode(b)
    /\ \A key \in Keys : Writes(r, a[key], b[key])
    /\ a.kind # Never => b.kind = a.kind
    /\ b.blob = Never => a.blob = Never

LEMMA CellsType ==
    ASSUME NEW d \in [Replicas -> [Nodes -> NodeType]], NEW n \in Nodes, NEW key \in Keys
    PROVE  Cells(d, n, key) \in [Replicas -> Cell(Values(key))]
BY NodeKeys DEF Cells

LEMMA LocalStep ==
    ASSUME NEW d, NEW t, Sound(d, t), NEW r \in Replicas, NEW nodes \in [Nodes -> NodeType],
           \A n \in Nodes : Turns(r, d[r][n], nodes[n]),
           \A n \in Nodes : d[r][n].kind = Never /\ nodes[n].kind # Never =>
             \A s \in Replicas : d[s][n].kind = Never
    PROVE  Sound([d EXCEPT ![r] = nodes], t)
<1> DEFINE e == [d EXCEPT ![r] = nodes]
<1>1. /\ d \in [Replicas -> [Nodes -> NodeType]] /\ t \in [Replicas -> SUBSET (Nodes \X Lines)]
      /\ KeysInv(d) /\ NodesInv(d) /\ TypedInv(d, t)
  BY DEF Sound
<1>2. e[r] = nodes /\ \A s \in Replicas \ {r} : e[s] = d[s]
  BY <1>1
<1>3. e \in [Replicas -> [Nodes -> NodeType]]
  BY <1>1
<1>4. ASSUME NEW n \in Nodes, NEW key \in Keys PROVE KeyInv(Cells(e, n, key))
  <2>1. /\ Cells(e, n, key)[r] = nodes[n][key]
        /\ \A s \in Replicas \ {r} : Cells(e, n, key)[s] = Cells(d, n, key)[s]
    BY <1>2 DEF Cells
  <2>2. Cells(d, n, key) \in [Replicas -> Cell(Values(key))] /\ nodes[n][key] \in Cell(Values(key))
    BY <1>1, CellsType, NodeKeys
  <2>3. KeyInv(Cells(d, n, key)) /\ Writes(r, Cells(d, n, key)[r], nodes[n][key])
    BY <1>1 DEF KeysInv, Cells, Turns
  <2>. QED BY <2>1, <2>2, <2>3, WriteKeeps
<1> HIDE DEF e
<1>5. \A s \in Replicas : \A n \in Nodes : WholeNode(e[s][n])
  BY <1>1, <1>2 DEF NodesInv, Turns
<1>6. ASSUME NEW n \in Nodes, NEW q \in Replicas, NEW s \in Replicas, e[q][n].kind # Never, e[s][n].kind # Never
      PROVE  e[q][n].kind = e[s][n].kind
  <2>1. ASSUME NEW p \in Replicas \ {r}, nodes[n].kind # Never, d[p][n].kind # Never
        PROVE  nodes[n].kind = d[p][n].kind
    BY <1>1, <2>1 DEF NodesInv, Turns
  <2>2. CASE q = r /\ s = r
    BY <2>2
  <2>3. CASE q = r /\ s # r
    BY <1>2, <1>6, <2>1, <2>3
  <2>4. CASE q # r /\ s = r
    BY <1>2, <1>6, <2>1, <2>4
  <2>5. CASE q # r /\ s # r
    BY <1>1, <1>2, <1>6, <2>5 DEF NodesInv
  <2>. QED BY <2>2, <2>3, <2>4, <2>5
<1>7. ASSUME NEW x \in t[r] PROVE x[1] \in Files(nodes) /\ (nodes[x[1]].blob = Never => x[2] = nodes[x[1]].kind.line)
  <2>1. /\ x[1] \in Nodes /\ d[r][x[1]].kind.value = "file"
        /\ d[r][x[1]].blob = Never => x[2] = d[r][x[1]].kind.line
    BY <1>1 DEF Files, TypedInv
  <2>2. d[r][x[1]].kind # Never
    BY <2>1, AbsentAssumption DEF Never
  <2>. QED BY <2>1, <2>2 DEF Files, Turns
<1>8. TypedInv(e, t)
  BY <1>1, <1>2, <1>7 DEF TypedInv
<1>. QED BY <1>1, <1>3, <1>4, <1>5, <1>6, <1>8 DEF Sound, KeysInv, NodesInv, e

LEMMA SyncStep ==
    ASSUME NEW d, NEW t, Sound(d, t), NEW r \in Replicas, NEW s \in Replicas
    PROVE  Sound([d EXCEPT ![s] = [n \in Nodes |-> MergeNodes(@[n], d[r][n])]], [t EXCEPT ![s] = @ \cup t[r]])
<1> DEFINE nodes == [n \in Nodes |-> MergeNodes(d[s][n], d[r][n])]
           e == [d EXCEPT ![s] = nodes]
           u == [t EXCEPT ![s] = t[s] \cup t[r]]
<1>1. /\ d \in [Replicas -> [Nodes -> NodeType]] /\ t \in [Replicas -> SUBSET (Nodes \X Lines)]
      /\ KeysInv(d) /\ NodesInv(d) /\ TypedInv(d, t)
  BY DEF Sound
<1>2. /\ e[s] = nodes /\ \A q \in Replicas \ {s} : e[q] = d[q]
      /\ u[s] = t[s] \cup t[r] /\ \A q \in Replicas \ {s} : u[q] = t[q]
  BY <1>1
<1>3. ASSUME NEW n \in Nodes
      PROVE  /\ d[s][n] \in NodeType /\ d[r][n] \in NodeType /\ nodes[n] \in NodeType /\ WholeNode(nodes[n])
             /\ d[s][n].kind # Never => nodes[n].kind = d[s][n].kind
             /\ d[r][n].kind # Never => nodes[n].kind = d[r][n].kind
             /\ nodes[n].kind # Never => d[s][n].kind # Never \/ d[r][n].kind # Never
             /\ nodes[n].blob = Never => d[s][n].blob = Never /\ d[r][n].blob = Never
             /\ \A key \in Keys : nodes[n][key] = Merge(d[s][n][key], d[r][n][key])
  <2>1. /\ d[s][n] \in NodeType /\ d[r][n] \in NodeType /\ WholeNode(d[s][n]) /\ WholeNode(d[r][n])
        /\ d[s][n].kind # Never /\ d[r][n].kind # Never => d[s][n].kind = d[r][n].kind
    BY <1>1 DEF NodesInv
  <2>2. nodes[n] = MergeNodes(d[s][n], d[r][n])
    OBVIOUS
  <2> HIDE DEF nodes
  <2>. QED BY <2>1, <2>2, MergedNode, MergedKeys
<1>4. nodes \in [Nodes -> NodeType]
  BY <1>3
<1>5. e \in [Replicas -> [Nodes -> NodeType]] /\ u \in [Replicas -> SUBSET (Nodes \X Lines)]
  <2> HIDE DEF nodes
  <2>. QED BY <1>1, <1>4
<1>6. ASSUME NEW n \in Nodes, NEW key \in Keys PROVE KeyInv(Cells(e, n, key))
  <2>1. /\ Cells(e, n, key)[s] = nodes[n][key]
        /\ \A q \in Replicas \ {s} : Cells(e, n, key)[q] = Cells(d, n, key)[q]
    <3> HIDE DEF nodes
    <3>. QED BY <1>2 DEF Cells
  <2>2. Cells(d, n, key) \in [Replicas -> Cell(Values(key))] /\ KeyInv(Cells(d, n, key))
    BY <1>1, CellsType DEF KeysInv
  <2>3. nodes[n][key] = Merge(Cells(d, n, key)[s], Cells(d, n, key)[r])
    BY <1>3 DEF Cells
  <2> HIDE DEF e, nodes
  <2>. QED BY <2>1, <2>2, <2>3, MergeKeeps
<1> HIDE DEF e, u, nodes
<1>7. \A q \in Replicas : \A n \in Nodes : WholeNode(e[q][n])
  BY <1>1, <1>2, <1>3 DEF NodesInv
<1>8. ASSUME NEW n \in Nodes, NEW p \in Replicas, NEW q \in Replicas, e[p][n].kind # Never, e[q][n].kind # Never
      PROVE  e[p][n].kind = e[q][n].kind
  <2>1. \A v \in Replicas : e[v][n].kind # Never =>
          \E w \in Replicas : d[w][n].kind # Never /\ e[v][n].kind = d[w][n].kind
    BY <1>2, <1>3
  <2>. QED BY <1>1, <1>8, <2>1 DEF NodesInv
<1>9. ASSUME NEW x \in t[s] \cup t[r]
      PROVE  x[1] \in Files(nodes) /\ (nodes[x[1]].blob = Never => x[2] = nodes[x[1]].kind.line)
  <2>1. PICK q \in {s, r} : x \in t[q]
    OBVIOUS
  <2>2. /\ x[1] \in Nodes /\ d[q][x[1]].kind.value = "file"
        /\ d[q][x[1]].blob = Never => x[2] = d[q][x[1]].kind.line
    BY <1>1, <2>1 DEF Files, TypedInv
  <2>3. d[q][x[1]].kind # Never
    BY <2>2, AbsentAssumption DEF Never
  <2>4. nodes[x[1]].kind = d[q][x[1]].kind /\ (nodes[x[1]].blob = Never => d[q][x[1]].blob = Never)
    BY <1>3, <2>1, <2>2, <2>3
  <2>. QED BY <1>4, <2>2, <2>4 DEF Files
<1>10. TypedInv(e, u)
  BY <1>1, <1>2, <1>9 DEF TypedInv
<1>11. Sound(e, u)
  BY <1>5, <1>6, <1>7, <1>8, <1>10 DEF Sound, KeysInv, NodesInv
<1>. QED BY <1>11 DEF e, u, nodes

\* Somebody types in a text of a file that has no bytes.
LEMMA TypeStep ==
    ASSUME NEW d, NEW t, Sound(d, t), NEW r \in Replicas, NEW n \in Files(d[r])
    PROVE  Sound(d, [t EXCEPT ![r] = @ \cup {<<n, d[r][n].text.line>>}])
<1> DEFINE x == <<n, d[r][n].text.line>>
           u == [t EXCEPT ![r] = t[r] \cup {x}]
<1>1. /\ d \in [Replicas -> [Nodes -> NodeType]] /\ t \in [Replicas -> SUBSET (Nodes \X Lines)]
      /\ KeysInv(d) /\ NodesInv(d) /\ TypedInv(d, t)
  BY DEF Sound
<1>2. n \in Nodes /\ d[r][n] \in NodeType /\ d[r][n].kind.value = "file" /\ WholeNode(d[r][n])
  BY <1>1 DEF Files, NodesInv
<1>3. d[r][n].text.line \in Lines
  BY <1>2 DEF NodeType, Cell
<1>4. u \in [Replicas -> SUBSET (Nodes \X Lines)]
  BY <1>1, <1>2, <1>3
<1>5. x[1] \in Files(d[r]) /\ (d[r][x[1]].blob = Never => x[2] = d[r][x[1]].kind.line)
  BY <1>2 DEF WholeNode
<1>6. u[r] = t[r] \cup {x} /\ \A s \in Replicas \ {r} : u[s] = t[s]
  BY <1>1
<1> HIDE DEF u, x
<1>7. TypedInv(d, u)
  BY <1>1, <1>5, <1>6 DEF TypedInv
<1>. QED BY <1>1, <1>4, <1>7 DEF Sound, u, x

-----------------------------------------------------------------------------
(* What each operation makes of a node.                                    *)

LEMMA SetCell ==
    ASSUME NEW values, NEW c \in Cell(values), NEW v \in values, NEW r \in Writers
    PROVE  /\ Set(r, c, v) \in Cell(values) /\ Set(r, c, v).value = v
           /\ Set(r, c, v).line = Append(c.line, r) /\ Set(r, c, v).line # <<>> /\ Set(r, c, v) # Never
<1>1. c.line \in Lines
  BY DEF Cell
<1>2. Append(c.line, r) \in Lines /\ Append(c.line, r) # <<>>
  BY <1>1 DEF Lines
<1>. QED BY <1>2 DEF Set, Cell, Never

LEMMA NeverCell ==
    ASSUME NEW values
    PROVE  Never \in Cell(values) /\ Never.value = Absent /\ Never.line = <<>>
BY DEF Never, Cell, Lines

LEMMA DeleteCell ==
    ASSUME NEW values, NEW c \in Cell(values)
    PROVE  /\ Delete(c) \in Cell(values) /\ Delete(c).value = Absent /\ Delete(c).line = c.line
           /\ Founded(c) /\ c # Never => Delete(c) # Never
<1>1. Delete(c) \in Cell(values) /\ Delete(c).value = Absent /\ Delete(c).line = c.line
  BY DEF Delete, Cell
<1>2. c = [value |-> c.value, line |-> c.line]
  BY DEF Cell
<1>. QED BY <1>1, <1>2 DEF Founded, Never

\* A new name, another folder, the trash and back.
LEMMA KeptTurns ==
    ASSUME NEW r \in Replicas, NEW a \in NodeType, WholeNode(a), a.kind.value # Absent
    PROVE  /\ \A name \in Titles : Turns(r, a, [a EXCEPT !.name = Set(r, a.name, name)])
           /\ \A parent \in Nodes \cup {Root} : Turns(r, a, [a EXCEPT !.parent = Set(r, a.parent, parent)])
           /\ Turns(r, a, [a EXCEPT !.trashed = Set(r, a.trashed, "trashed")])
           /\ Turns(r, a, [a EXCEPT !.trashed = Delete(a.trashed)])
<1>1. /\ a.kind \in Cell({"file", "folder"}) /\ a.name \in Cell(Titles) /\ a.parent \in Cell(Nodes \cup {Root})
      /\ a.trashed \in Cell({"trashed"}) /\ a.blob \in Cell(Bytes) /\ a.text \in Cell({"text"})
  BY DEF NodeType
<1>2. \A key \in Keys : a[key].line = <<>> => a[key].value = Absent
  BY DEF WholeNode
<1>3. /\ a.name.value # Absent /\ a.parent.value # Absent
      /\ a.kind.value = "file" /\ a.blob = Never => a.text.value # Absent /\ a.text.line = a.kind.line
  BY DEF WholeNode
<1>4. ASSUME NEW name \in Titles PROVE Turns(r, a, [a EXCEPT !.name = Set(r, a.name, name)])
  <2> DEFINE c == Set(r, a.name, name)
             b == [a EXCEPT !.name = c]
  <2>1. /\ c \in Cell(Titles) /\ c.value = name /\ c.value # Absent
        /\ c.line = Append(a.name.line, r) /\ c.line # <<>>
    BY <1>1, SetCell, AbsentAssumption, AllWriters
  <2> HIDE DEF c
  <2>2. /\ b \in NodeType /\ b.name = c /\ b.kind = a.kind /\ b.blob = a.blob /\ b.text = a.text /\ b.parent = a.parent
        /\ \A key \in Keys : b[key] = IF key = "name" THEN c ELSE a[key]
    BY <2>1 DEF NodeType, Keys
  <2> HIDE DEF b
  <2>3. WholeNode(b)
    BY <1>2, <1>3, <2>1, <2>2 DEF WholeNode
  <2>4. \A key \in Keys : Writes(r, a[key], b[key])
    BY <2>1, <2>2 DEF Writes
  <2>5. Turns(r, a, b)
    BY <2>2, <2>3, <2>4 DEF Turns
  <2>. QED BY <2>5 DEF b, c
<1>5. ASSUME NEW parent \in Nodes \cup {Root} PROVE Turns(r, a, [a EXCEPT !.parent = Set(r, a.parent, parent)])
  <2> DEFINE c == Set(r, a.parent, parent)
             b == [a EXCEPT !.parent = c]
  <2>1. /\ c \in Cell(Nodes \cup {Root}) /\ c.value = parent /\ c.value # Absent
        /\ c.line = Append(a.parent.line, r) /\ c.line # <<>>
    <3>1. parent # Absent
      BY AbsentAssumption
    <3> DEFINE V == Nodes \cup {Root}
    <3>2. parent \in V /\ a.parent \in Cell(V) /\ r \in Writers
      BY <1>1, AllWriters
    <3> HIDE DEF V
    <3>3. c \in Cell(V) /\ c.value = parent /\ c.line = Append(a.parent.line, r) /\ c.line # <<>>
      BY <3>2, SetCell
    <3>. QED BY <3>1, <3>3 DEF V
  <2> HIDE DEF c
  <2>2. /\ b \in NodeType /\ b.parent = c /\ b.kind = a.kind /\ b.blob = a.blob /\ b.text = a.text /\ b.name = a.name
        /\ \A key \in Keys : b[key] = IF key = "parent" THEN c ELSE a[key]
    BY <2>1 DEF NodeType, Keys
  <2> HIDE DEF b
  <2>3. WholeNode(b)
    BY <1>2, <1>3, <2>1, <2>2 DEF WholeNode
  <2>4. \A key \in Keys : Writes(r, a[key], b[key])
    BY <2>1, <2>2 DEF Writes
  <2>5. Turns(r, a, b)
    BY <2>2, <2>3, <2>4 DEF Turns
  <2>. QED BY <2>5 DEF b, c
<1>6. ASSUME NEW c \in Cell({"trashed"}), Writes(r, a.trashed, c), Founded(c)
      PROVE  Turns(r, a, [a EXCEPT !.trashed = c])
  <2> DEFINE b == [a EXCEPT !.trashed = c]
  <2>1. /\ b \in NodeType /\ b.kind = a.kind /\ b.blob = a.blob /\ b.text = a.text /\ b.name = a.name
        /\ b.parent = a.parent /\ \A key \in Keys : b[key] = IF key = "trashed" THEN c ELSE a[key]
    BY DEF NodeType, Keys
  <2>2. a["trashed"] = a.trashed
    OBVIOUS
  <2> HIDE DEF b
  <2>3. WholeNode(b)
    BY <1>2, <1>3, <1>6, <2>1 DEF WholeNode, Founded
  <2>4. \A key \in Keys : Writes(r, a[key], b[key])
    BY <1>6, <2>1, <2>2 DEF Writes
  <2>5. Turns(r, a, b)
    BY <2>1, <2>3, <2>4 DEF Turns
  <2>. QED BY <2>5 DEF b
<1>7. Set(r, a.trashed, "trashed") \in Cell({"trashed"}) /\ Writes(r, a.trashed, Set(r, a.trashed, "trashed"))
      /\ Founded(Set(r, a.trashed, "trashed"))
  <2> DEFINE V == {"trashed"}
  <2>1. "trashed" \in V /\ a.trashed \in Cell(V) /\ r \in Writers
    BY <1>1, AllWriters
  <2> HIDE DEF V
  <2>2. /\ Set(r, a.trashed, "trashed") \in Cell(V) /\ Set(r, a.trashed, "trashed").line # <<>>
        /\ Set(r, a.trashed, "trashed").line = Append(a.trashed.line, r)
    BY <2>1, SetCell
  <2>. QED BY <2>2 DEF Writes, Founded, V
<1>8. Delete(a.trashed) \in Cell({"trashed"}) /\ Writes(r, a.trashed, Delete(a.trashed)) /\ Founded(Delete(a.trashed))
  BY <1>1, DeleteCell DEF Writes, Founded
<1>. QED BY <1>4, <1>5, <1>6, <1>7, <1>8

\* New bytes, or a new text for a file that has bytes or no text.
LEMMA FilledTurns ==
    ASSUME NEW r \in Replicas, NEW a \in NodeType, WholeNode(a), a.kind.value = "file"
    PROVE  /\ \A blob \in Bytes : Turns(r, a, [a EXCEPT !.blob = Set(r, a.blob, blob), !.text = Delete(a.text)])
           /\ ~HasText(a) => Turns(r, a, [a EXCEPT !.blob = Delete(a.blob), !.text = Set(r, a.text, "text")])
<1>1. /\ a.blob \in Cell(Bytes) /\ a.text \in Cell({"text"}) /\ "file" # Absent
      /\ a["blob"] = a.blob /\ a["text"] = a.text
  BY AbsentAssumption DEF NodeType
<1>2. /\ \A key \in Keys : Founded(a[key])
      /\ a.name.value # Absent /\ a.parent.value # Absent
      /\ a.blob = Never => a.text.value # Absent /\ a.text.line = a.kind.line
  BY <1>1 DEF WholeNode, Founded
<1>3. ASSUME NEW c \in Cell(Bytes), Writes(r, a.blob, c), Founded(c), c # Never,
             NEW e \in Cell({"text"}), Writes(r, a.text, e), Founded(e)
      PROVE  Turns(r, a, [a EXCEPT !.blob = c, !.text = e])
  <2> DEFINE b == [a EXCEPT !.blob = c, !.text = e]
  <2>1. /\ b \in NodeType /\ b.kind = a.kind /\ b.blob = c /\ b.text = e /\ b.name = a.name /\ b.parent = a.parent
        /\ \A key \in Keys : b[key] = CASE key = "blob" -> c [] key = "text" -> e [] OTHER -> a[key]
    BY DEF NodeType, Keys
  <2> HIDE DEF b
  <2>2. \A key \in Keys : Founded(b[key])
    BY <1>2, <1>3, <2>1
  <2>3. WholeNode(b)
    BY <1>1, <1>2, <1>3, <2>1, <2>2 DEF WholeNode, Founded
  <2>4. \A key \in Keys : Writes(r, a[key], b[key])
    BY <1>1, <1>3, <2>1 DEF Writes
  <2>5. Turns(r, a, b)
    BY <1>3, <2>1, <2>3, <2>4 DEF Turns
  <2>. QED BY <2>5 DEF b
<1>4. ASSUME NEW blob \in Bytes
      PROVE  Turns(r, a, [a EXCEPT !.blob = Set(r, a.blob, blob), !.text = Delete(a.text)])
  <2>1. /\ Set(r, a.blob, blob) \in Cell(Bytes) /\ Writes(r, a.blob, Set(r, a.blob, blob))
        /\ Founded(Set(r, a.blob, blob)) /\ Set(r, a.blob, blob) # Never
    BY <1>1, SetCell, AllWriters DEF Writes, Founded
  <2>2. Delete(a.text) \in Cell({"text"}) /\ Writes(r, a.text, Delete(a.text)) /\ Founded(Delete(a.text))
    BY <1>1, DeleteCell DEF Writes, Founded
  <2>. QED BY <1>3, <2>1, <2>2
<1>5. ASSUME ~HasText(a)
      PROVE  Turns(r, a, [a EXCEPT !.blob = Delete(a.blob), !.text = Set(r, a.text, "text")])
  <2>1. a.blob # Never
    BY <1>2, <1>5 DEF HasText, Never
  <2>2. Founded(a.blob)
    BY <1>1, <1>2 DEF Keys
  <2>3. /\ Delete(a.blob) \in Cell(Bytes) /\ Writes(r, a.blob, Delete(a.blob)) /\ Founded(Delete(a.blob))
        /\ Delete(a.blob) # Never
    BY <1>1, <2>1, <2>2, DeleteCell DEF Writes, Founded
  <2>4. /\ Set(r, a.text, "text") \in Cell({"text"}) /\ Writes(r, a.text, Set(r, a.text, "text"))
        /\ Founded(Set(r, a.text, "text"))
    <3> DEFINE V == {"text"}
    <3>1. "text" \in V /\ a.text \in Cell(V) /\ r \in Writers
      BY <1>1, AllWriters
    <3> HIDE DEF V
    <3>2. /\ Set(r, a.text, "text") \in Cell(V) /\ Set(r, a.text, "text").line # <<>>
          /\ Set(r, a.text, "text").line = Append(a.text.line, r)
      BY <3>1, SetCell
    <3>. QED BY <3>2 DEF Writes, Founded, V
  <2>. QED BY <1>3, <2>3, <2>4
<1>. QED BY <1>4, <1>5

\* What a file or a folder has when it is made: a text from the start, or bytes.
LEMMA NewNodeWhole ==
    ASSUME NEW r \in Writers, NEW kind \in {"file", "folder"}, NEW name \in Titles,
           NEW parent \in Nodes \cup {Root}, NEW holds, kind = "file" => holds \in Holds
    PROVE  LET m == NewNode(r, kind, name, parent, holds) IN
           /\ m \in NodeType /\ WholeNode(m) /\ m.kind # Never
           /\ \A key \in Keys : m[key] = Never \/ m[key].line = Append(<<>>, r)
<1> DEFINE m == NewNode(r, kind, name, parent, holds)
           Key(value) == Set(r, Never, value)
<1>1. \A values : \A v \in values : /\ Key(v) \in Cell(values) /\ Key(v).value = v
                                    /\ Key(v).line = Append(<<>>, r) /\ Key(v).line # <<>> /\ Key(v) # Never
  BY SetCell, NeverCell
<1>2. \A values : Never \in Cell(values)
  BY NeverCell
<1>3. /\ kind # Absent /\ name # Absent /\ parent # Absent /\ "text" # Absent
      /\ kind = "file" /\ holds # "text" => holds \in Bytes
  BY AbsentAssumption DEF Holds
<1>4. m = [kind |-> Key(kind), name |-> Key(name), parent |-> Key(parent), trashed |-> Never,
           text |-> IF kind = "file" /\ holds = "text" THEN Key("text") ELSE Never,
           blob |-> IF kind = "file" /\ holds # "text" THEN Key(holds) ELSE Never]
  BY DEF NewNode
<1>5. Never.value = Absent /\ Never.line = <<>>
  BY DEF Never
<1> HIDE DEF m, Key
<1>6. m \in NodeType
  BY <1>1, <1>2, <1>3, <1>4 DEF NodeType
<1>7. \A key \in Keys : m[key] = Never \/ \E v : m[key] = Key(v)
  BY <1>4 DEF Keys
<1>8. \A v : Key(v).line = Append(<<>>, r) /\ Key(v).line # <<>>
  BY <1>1
<1>9. /\ m.kind = Key(kind) /\ m.kind.value = kind /\ m.name.value = name /\ m.parent.value = parent
      /\ kind = "file" /\ holds = "text" => m.text = Key("text") /\ m.text.value = "text"
      /\ kind = "file" /\ holds # "text" => m.blob = Key(holds) /\ m.blob # Never
  BY <1>1, <1>3, <1>4
<1>10. WholeNode(m)
  BY <1>3, <1>5, <1>7, <1>8, <1>9 DEF WholeNode
<1>11. m.kind # Never
  BY <1>1, <1>9
<1>. QED BY <1>6, <1>7, <1>8, <1>10, <1>11 DEF m

-----------------------------------------------------------------------------
(* The steps of the specification.                                         *)

LEMMA OneNode ==
    ASSUME NEW d, NEW t, Sound(d, t), NEW r \in Replicas, NEW n \in Nodes, NEW m, Turns(r, d[r][n], m),
           d[r][n].kind = Never /\ m.kind # Never => \A s \in Replicas : d[s][n].kind = Never
    PROVE  Sound([d EXCEPT ![r][n] = m], t)
<1> DEFINE nodes == [d[r] EXCEPT ![n] = m]
<1>1. d \in [Replicas -> [Nodes -> NodeType]] /\ m \in NodeType
  BY DEF Sound, Turns
<1>2. nodes \in [Nodes -> NodeType] /\ nodes[n] = m /\ \A k \in Nodes \ {n} : nodes[k] = d[r][k]
  BY <1>1
<1>3. \A k \in Nodes \ {n} : Turns(r, d[r][k], nodes[k])
  BY <1>1, <1>2 DEF Turns, Writes, Sound, NodesInv
<1>4. [d EXCEPT ![r][n] = m] = [d EXCEPT ![r] = nodes]
  BY <1>1
<1> HIDE DEF nodes
<1>5. Sound([d EXCEPT ![r] = nodes], t)
  BY <1>2, <1>3, LocalStep
<1>. QED BY <1>4, <1>5

\* A new id is nobody's yet.
LEMMA InsertStep ==
    ASSUME NEW d, NEW t, Sound(d, t), NEW r \in Replicas,
           NEW n \in NewNodes, \A s \in Replicas : n \notin AllNodes(d[s]),
           NEW kind \in {"file", "folder"}, NEW name, Trim(name) \in Titles, NEW parent \in Nodes \cup {Root}, NEW holds,
           kind = "file" => holds \in Holds
    PROVE  Sound([d EXCEPT ![r] = InsertNode(r, d[r], n, kind, name, parent, holds)], t)
<1> DEFINE m == NewNode(r, kind, Trim(name), parent, holds)
<1>1. n \in Nodes /\ d \in [Replicas -> [Nodes -> NodeType]]
  BY DEF Nodes, Sound
<1>2. \A s \in Replicas : d[s][n] = NoNode
  BY <1>1 DEF AllNodes, Sound, NodesInv, WholeNode
<1>3. /\ m \in NodeType /\ WholeNode(m) /\ m.kind # Never
      /\ \A key \in Keys : m[key] = Never \/ m[key].line = Append(<<>>, r)
  BY NewNodeWhole, AllWriters
<1>4. NoNode.kind = Never /\ NoNode.blob = Never /\ Never.line = <<>>
  BY DEF NoNode, Never
<1> HIDE DEF m
<1>5. Turns(r, d[r][n], m)
  BY <1>2, <1>3, <1>4, NoNodeType DEF Turns, Writes
<1>6. Sound([d EXCEPT ![r][n] = m], t)
  BY <1>1, <1>2, <1>4, <1>5, OneNode
<1>7. [d EXCEPT ![r][n] = m] = [d EXCEPT ![r] = InsertNode(r, d[r], n, kind, name, parent, holds)]
  BY <1>1 DEF InsertNode, m
<1>. QED BY <1>6, <1>7

\* A new folder and a new file in it, in one transaction.
LEMMA InsertTwoStep ==
    ASSUME NEW d, NEW t, Sound(d, t), NEW r \in Replicas, NEW p \in NewNodes, NEW q \in NewNodes, p # q,
           \A s \in Replicas : p \notin AllNodes(d[s]) /\ q \notin AllNodes(d[s]),
           NEW folder, Trim(folder) \in Titles, NEW name, Trim(name) \in Titles, NEW holds \in Holds
    PROVE  Sound([d EXCEPT ![r] = InsertNode(r, InsertNode(r, d[r], p, "folder", folder, Root, Absent),
                                                q, "file", name, p, holds)], t)
<1> DEFINE made == InsertNode(r, d[r], p, "folder", folder, Root, Absent)
           e == [d EXCEPT ![r] = made]
<1>1. d \in [Replicas -> [Nodes -> NodeType]] /\ p \in Nodes
  BY DEF Sound, Nodes
<1>2. Sound(e, t)
  <2>1. Root \in Nodes \cup {Root} /\ "folder" # "file"
    OBVIOUS
  <2>. QED BY <2>1, InsertStep
<1>3. \A s \in Replicas : q \notin AllNodes(e[s])
  <2>1. q \notin AllNodes(made)
    BY <1>1 DEF AllNodes, InsertNode
  <2>. QED BY <1>1, <2>1
<1>4. e[r] = made /\ \A x : [e EXCEPT ![r] = x] = [d EXCEPT ![r] = x]
  BY <1>1
<1> HIDE DEF e, made
<1>5. Sound([e EXCEPT ![r] = InsertNode(r, e[r], q, "file", name, p, holds)], t)
  BY <1>1, <1>2, <1>3, InsertStep
<1>. QED BY <1>4, <1>5 DEF made

LEMMA FreshIds ==
    ASSUME NEW n \in Fresh
    PROVE  n \in NewNodes /\ \A s \in Replicas : n \notin AllNodes(doc[s])
BY DEF Fresh

\* What somebody may write to a node that is known.
LEMMA ChangeNode ==
    ASSUME Sound(doc, typed), NEW r \in Replicas, NEW n \in AllNodes(doc[r]), NEW m, Turns(r, doc[r][n], m),
           doc' = [doc EXCEPT ![r][n] = m], typed' = typed
    PROVE  Sound(doc', typed')
<1>1. n \in Nodes /\ doc[r][n].kind # Never
  BY DEF Sound, AllNodes, Never
<1>. QED BY <1>1, OneNode

LEMMA KnownNodes ==
    ASSUME Sound(doc, typed), NEW r \in Replicas
    PROVE  /\ \A n \in AllNodes(doc[r]) :
                n \in Nodes /\ doc[r][n] \in NodeType /\ WholeNode(doc[r][n]) /\ doc[r][n].kind.value # Absent
           /\ \A n \in Files(doc[r]) : n \in AllNodes(doc[r]) /\ doc[r][n].kind.value = "file"
           /\ Live(doc[r]) \subseteq AllNodes(doc[r]) /\ Folders(doc[r]) \subseteq Nodes
           /\ \A name \in Names : Trim(name) \in Titles
<1>1. doc[r] \in [Nodes -> NodeType] /\ \A n \in Nodes : WholeNode(doc[r][n])
  BY DEF Sound, NodesInv
<1>2. Live(doc[r]) \subseteq AllNodes(doc[r])
  BY LiveIsKnown
<1>3. AllNodes(doc[r]) \subseteq Nodes
  BY <1>1 DEF AllNodes
<1>4. \A n \in Files(doc[r]) : n \in AllNodes(doc[r]) /\ doc[r][n].kind.value = "file"
  BY AbsentAssumption DEF Files, AllNodes
<1>. QED BY <1>1, <1>2, <1>3, <1>4 DEF AllNodes, Folders, Titles

\* createAtPath makes a file in a folder that is shown, or in a new one unless only
\* folders are shown there.
LEMMA MadeAtPath ==
    ASSUME NEW r, NEW a, NEW folder, NEW name, NEW holds, NEW nodes \in CreatedAtPath(r, a, folder, name, holds)
    PROVE  LET there == At(ListTree(a), <<folder>>) IN
           \/ \E n \in Fresh, m \in there \cap Folders(a) : nodes = InsertNode(r, a, n, "file", name, m, holds)
           \/ /\ there = {} \/ ~(there \subseteq Folders(a))
              /\ \E p, q \in Fresh : /\ p # q
                                     /\ nodes = InsertNode(r, InsertNode(r, a, p, "folder", folder, Root, Absent),
                                                           q, "file", name, p, holds)
<1> DEFINE there == At(ListTree(a), <<folder>>)
           inOne == {InFolder(r, a, m, name, holds) : m \in there \cap Folders(a)}
           inNew == IF there # {} /\ there \subseteq Folders(a) THEN {} ELSE {InNewFolder(r, a, folder, name, holds)}
<1>1. CreatedAtPath(r, a, folder, name, holds) = UNION (inOne \cup inNew)
  BY DEF CreatedAtPath
<1>2. (\E x \in inOne : nodes \in x) \/ \E x \in inNew : nodes \in x
  <2> HIDE DEF inOne, inNew
  <2>. QED BY <1>1
<1>3. (\E x \in inOne : nodes \in x)
        => \E n \in Fresh, m \in there \cap Folders(a) : nodes = InsertNode(r, a, n, "file", name, m, holds)
  BY DEF InFolder
<1>4. (\E x \in inNew : nodes \in x)
        => (there = {} \/ ~(there \subseteq Folders(a))) /\ nodes \in InNewFolder(r, a, folder, name, holds)
  <2> HIDE DEF there
  <2>. QED OBVIOUS
<1>5. nodes \in InNewFolder(r, a, folder, name, holds)
        => \E p, q \in Fresh : /\ p # q
                               /\ nodes = InsertNode(r, InsertNode(r, a, p, "folder", folder, Root, Absent),
                                                     q, "file", name, p, holds)
  BY DEF InNewFolder
<1>. QED BY <1>2, <1>3, <1>4, <1>5

LEMMA ChangeStep ==
    ASSUME TreeInv, NEW r \in Replicas, Change(r)
    PROVE  TreeInv'
<1>1. Sound(doc, typed) /\ changes' \in 0..MaxChanges
  BY BoundsAssumption DEF TreeInv, Change
<1>2. SUFFICES Sound(doc', typed')
  BY <1>1 DEF TreeInv
<1>3. CASE Create(r)
  <2>1. PICK n \in Fresh, parent \in Folders(doc[r]) \cup {Root}, name \in Names :
          \/ doc' = [doc EXCEPT ![r] = InsertNode(r, doc[r], n, "folder", name, parent, Absent)]
          \/ \E holds \in Holds :
               doc' = [doc EXCEPT ![r] = InsertNode(r, doc[r], n, "file", name, parent, holds)]
    BY <1>3 DEF Create
  <2>2. n \in NewNodes /\ (\A s \in Replicas : n \notin AllNodes(doc[s])) /\ parent \in Nodes \cup {Root}
        /\ Trim(name) \in Titles /\ typed' = typed
    BY <1>1, <1>3, KnownNodes, FreshIds DEF Create
  <2>3. CASE doc' = [doc EXCEPT ![r] = InsertNode(r, doc[r], n, "folder", name, parent, Absent)]
    BY <1>1, <2>2, <2>3, InsertStep
  <2>4. ASSUME NEW holds \in Holds,
               doc' = [doc EXCEPT ![r] = InsertNode(r, doc[r], n, "file", name, parent, holds)]
        PROVE  Sound(doc', typed')
    BY <1>1, <2>2, <2>4, InsertStep
  <2>. QED BY <2>1, <2>3, <2>4
<1>4. CASE CreateAtPath(r)
  <2>1. PICK folder \in Names, name \in Names, holds \in Holds :
          \E nodes \in CreatedAtPath(r, doc[r], folder, name, holds) : doc' = [doc EXCEPT ![r] = nodes]
    BY <1>4 DEF CreateAtPath
  <2>2. typed' = typed /\ Trim(folder) \in Titles /\ Trim(name) \in Titles
    BY <1>1, <1>4, KnownNodes DEF CreateAtPath
  <2>3. PICK nodes \in CreatedAtPath(r, doc[r], folder, name, holds) : doc' = [doc EXCEPT ![r] = nodes]
    BY <2>1
  <2>4. ASSUME NEW n \in Fresh, NEW m \in Folders(doc[r]), nodes = InsertNode(r, doc[r], n, "file", name, m, holds)
        PROVE  Sound(doc', typed')
    <3>1. n \in NewNodes /\ (\A s \in Replicas : n \notin AllNodes(doc[s])) /\ m \in Nodes \cup {Root}
      BY <1>1, KnownNodes, FreshIds
    <3>. QED BY <1>1, <2>2, <2>3, <2>4, <3>1, InsertStep
  <2>5. ASSUME NEW p \in Fresh, NEW q \in Fresh, p # q,
               nodes = InsertNode(r, InsertNode(r, doc[r], p, "folder", folder, Root, Absent), q, "file", name, p, holds)
        PROVE  Sound(doc', typed')
    <3>1. p \in NewNodes /\ q \in NewNodes /\ \A s \in Replicas : p \notin AllNodes(doc[s]) /\ q \notin AllNodes(doc[s])
      BY FreshIds
    <3>. QED BY <1>1, <2>2, <2>3, <2>5, <3>1, InsertTwoStep
  <2>6. \/ \E n \in Fresh, m \in Folders(doc[r]) : nodes = InsertNode(r, doc[r], n, "file", name, m, holds)
        \/ \E p, q \in Fresh : /\ p # q
                               /\ nodes = InsertNode(r, InsertNode(r, doc[r], p, "folder", folder, Root, Absent),
                                                     q, "file", name, p, holds)
    <3> DEFINE there == At(ListTree(doc[r]), <<folder>>)
    <3>1. \/ \E n \in Fresh, m \in there \cap Folders(doc[r]) : nodes = InsertNode(r, doc[r], n, "file", name, m, holds)
          \/ /\ there = {} \/ ~(there \subseteq Folders(doc[r]))
             /\ \E p, q \in Fresh : /\ p # q
                                    /\ nodes = InsertNode(r, InsertNode(r, doc[r], p, "folder", folder, Root, Absent),
                                                          q, "file", name, p, holds)
      BY MadeAtPath
    <3> HIDE DEF there
    <3>. QED BY <3>1
  <2>. QED BY <2>4, <2>5, <2>6
<1>5. CASE Rename(r)
  <2>1. PICK n \in Live(doc[r]), name \in Names : doc' = [doc EXCEPT ![r][n].name = Set(r, @, Trim(name))]
    BY <1>5 DEF Rename
  <2> DEFINE title == Trim(name)
  <2>2. title \in Titles /\ doc' = [doc EXCEPT ![r][n].name = Set(r, @, title)]
    BY <1>1, <2>1, KnownNodes
  <2> HIDE DEF title
  <2>3. /\ n \in AllNodes(doc[r]) /\ typed' = typed
        /\ Turns(r, doc[r][n], [doc[r][n] EXCEPT !.name = Set(r, doc[r][n].name, title)])
    BY <1>1, <1>5, <2>2, KnownNodes, KeptTurns DEF Rename
  <2>4. doc' = [doc EXCEPT ![r][n] = [doc[r][n] EXCEPT !.name = Set(r, doc[r][n].name, title)]]
    BY <1>1, <2>2
  <2>. QED BY <1>1, <2>3, <2>4, ChangeNode
<1>6. CASE Move(r)
  <2>1. PICK parent \in Folders(doc[r]) \cup {Root}, n \in AllNodes(doc[r]) :
          doc' = [doc EXCEPT ![r][n].parent = Set(r, @, parent)]
    BY <1>6 DEF Move
  <2>2. /\ parent \in Nodes \cup {Root} /\ typed' = typed
        /\ Turns(r, doc[r][n], [doc[r][n] EXCEPT !.parent = Set(r, doc[r][n].parent, parent)])
    BY <1>1, <1>6, KnownNodes, KeptTurns DEF Move
  <2>3. doc' = [doc EXCEPT ![r][n] = [doc[r][n] EXCEPT !.parent = Set(r, doc[r][n].parent, parent)]]
    BY <1>1, <2>1
  <2>. QED BY <1>1, <2>2, <2>3, ChangeNode
<1>7. CASE Trash(r)
  <2>1. PICK n \in AllNodes(doc[r]) : doc' = [doc EXCEPT ![r][n].trashed = Set(r, @, "trashed")]
    BY <1>7 DEF Trash
  <2>2. /\ typed' = typed
        /\ Turns(r, doc[r][n], [doc[r][n] EXCEPT !.trashed = Set(r, doc[r][n].trashed, "trashed")])
    BY <1>1, <1>7, KnownNodes, KeptTurns DEF Trash
  <2>3. doc' = [doc EXCEPT ![r][n] = [doc[r][n] EXCEPT !.trashed = Set(r, doc[r][n].trashed, "trashed")]]
    BY <1>1, <2>1
  <2>. QED BY <1>1, <2>2, <2>3, ChangeNode
<1>8. CASE Restore(r)
  <2>1. PICK n \in AllNodes(doc[r]) : doc' = [doc EXCEPT ![r][n].trashed = Delete(@)]
    BY <1>8 DEF Restore
  <2>2. typed' = typed /\ Turns(r, doc[r][n], [doc[r][n] EXCEPT !.trashed = Delete(doc[r][n].trashed)])
    BY <1>1, <1>8, KnownNodes, KeptTurns DEF Restore
  <2>3. doc' = [doc EXCEPT ![r][n] = [doc[r][n] EXCEPT !.trashed = Delete(doc[r][n].trashed)]]
    BY <1>1, <2>1
  <2>. QED BY <1>1, <2>2, <2>3, ChangeNode
<1>9. CASE SetBlob(r)
  <2>1. PICK n \in Files(doc[r]), blob \in Bytes :
          doc' = [doc EXCEPT ![r][n].blob = Set(r, @, blob), ![r][n].text = Delete(@)]
    BY <1>9 DEF SetBlob
  <2>2. /\ n \in AllNodes(doc[r]) /\ typed' = typed
        /\ Turns(r, doc[r][n], [doc[r][n] EXCEPT !.blob = Set(r, doc[r][n].blob, blob), !.text = Delete(doc[r][n].text)])
    BY <1>1, <1>9, KnownNodes, FilledTurns DEF SetBlob
  <2>3. doc' = [doc EXCEPT ![r][n] =
                  [doc[r][n] EXCEPT !.blob = Set(r, doc[r][n].blob, blob), !.text = Delete(doc[r][n].text)]]
    BY <1>1, <2>1
  <2>. QED BY <1>1, <2>2, <2>3, ChangeNode
<1>10. CASE Type(r)
  <2>1. PICK n \in Files(doc[r]) : typed' = [typed EXCEPT ![r] = @ \cup {<<n, doc[r][n].text.line>>}]
    BY <1>10 DEF Type
  <2>. QED BY <1>1, <1>10, <2>1, TypeStep DEF Type
<1>11. CASE SetFileText(r)
  <2>1. PICK n \in Files(doc[r]) :
          /\ ~HasText(doc[r][n])
          /\ doc' = [doc EXCEPT ![r][n].blob = Delete(@), ![r][n].text = Set(r, @, "text")]
    BY <1>11 DEF SetFileText
  <2>2. /\ n \in AllNodes(doc[r]) /\ typed' = typed
        /\ Turns(r, doc[r][n], [doc[r][n] EXCEPT !.blob = Delete(doc[r][n].blob), !.text = Set(r, doc[r][n].text, "text")])
    BY <1>1, <1>11, <2>1, KnownNodes, FilledTurns DEF SetFileText
  <2>3. doc' = [doc EXCEPT ![r][n] =
                  [doc[r][n] EXCEPT !.blob = Delete(doc[r][n].blob), !.text = Set(r, doc[r][n].text, "text")]]
    BY <1>1, <2>1
  <2>. QED BY <1>1, <2>2, <2>3, ChangeNode
<1>. QED BY <1>3, <1>4, <1>5, <1>6, <1>7, <1>8, <1>9, <1>10, <1>11 DEF Change

\* The first files are the same for everybody, and nobody here made them.
LEMMA SeedsAreSound == Sound([r \in Replicas |-> SeedNodes], [r \in Replicas |-> {}])
<1> DEFINE d == [r \in Replicas |-> SeedNodes]
           t == [r \in Replicas |-> {}]
<1>1. ASSUME NEW n \in Nodes
      PROVE  /\ SeedNodes[n] \in NodeType /\ WholeNode(SeedNodes[n])
             /\ \A key \in Keys : SeedNodes[n][key].line \in {<<>>, <<0>>}
  <2>1. CASE n \in NewNodes
    <3>1. SeedNodes[n] = NoNode
      BY <2>1 DEF SeedNodes
    <3>2. /\ \A key \in Keys : NoNode[key] = Never
          /\ NoNode.kind.value = Absent /\ NoNode.blob = Never
          /\ Never.line = <<>> /\ Never.value = Absent
      BY NoNodeType DEF NoNode, Never
    <3>3. WholeNode(NoNode)
      BY <3>2, AbsentAssumption DEF WholeNode
    <3>. QED BY <3>1, <3>2, <3>3, NoNodeType
  <2>2. CASE n \notin NewNodes
    <3> DEFINE s == CHOOSE x \in Seeds : x.node = n
    <3>1. s \in Seeds /\ SeedNodes[n] = NewNode(0, s.kind, Trim(s.name), s.parent, s.holds)
      <4>1. \E x \in Seeds : x.node = n
        BY <2>2 DEF Nodes
      <4>. QED BY <2>2, <4>1 DEF SeedNodes
    <3> HIDE DEF s
    <3>2. /\ s.kind \in {"file", "folder"} /\ Trim(s.name) \in Titles /\ s.parent \in Nodes \cup {Root}
          /\ s.kind = "file" => s.holds \in Holds
      BY <3>1, SeedsAssumption DEF Titles, Nodes
    <3>3. Append(<<>>, 0) = <<0>> /\ Never.line = <<>>
      BY DEF Never
    <3>4. /\ SeedNodes[n] \in NodeType /\ WholeNode(SeedNodes[n])
          /\ \A key \in Keys : SeedNodes[n][key] = Never \/ SeedNodes[n][key].line = Append(<<>>, 0)
      <4> DEFINE zero == 0
      <4>1. zero \in Writers
        BY AllWriters
      <4> HIDE DEF zero
      <4>2. LET m == NewNode(zero, s.kind, Trim(s.name), s.parent, s.holds) IN
            /\ m \in NodeType /\ WholeNode(m) /\ m.kind # Never
            /\ \A key \in Keys : m[key] = Never \/ m[key].line = Append(<<>>, zero)
        <5>1. ASSUME NEW kind \in {"file", "folder"}, NEW name \in Titles, NEW parent \in Nodes \cup {Root},
                     NEW holds, kind = "file" => holds \in Holds
              PROVE  LET m == NewNode(zero, kind, name, parent, holds) IN
                     /\ m \in NodeType /\ WholeNode(m) /\ m.kind # Never
                     /\ \A key \in Keys : m[key] = Never \/ m[key].line = Append(<<>>, zero)
          BY <4>1, <5>1, NewNodeWhole, SMTT(30)
        <5>. QED BY <3>2, <5>1
      <4>. QED BY <3>1, <4>2 DEF zero
    <3>. QED BY <3>3, <3>4
  <2>. QED BY <2>1, <2>2
<1>2. d \in [Replicas -> [Nodes -> NodeType]] /\ t \in [Replicas -> SUBSET (Nodes \X Lines)]
  <2>1. SeedNodes = [n \in Nodes |-> SeedNodes[n]]
    BY DEF SeedNodes
  <2>. QED BY <1>1, <2>1
<1>3. ASSUME NEW n \in Nodes, NEW key \in Keys PROVE KeyInv(Cells(d, n, key))
  <2>1. \A r \in Replicas : Cells(d, n, key)[r] = SeedNodes[n][key]
    BY DEF Cells
  <2>2. \A i \in DOMAIN SeedNodes[n][key].line : SeedNodes[n][key].line[i] = 0
    BY <1>1
  <2>3. 0 \notin Replicas
    BY ReplicasAssumption
  <2>. QED BY <2>1, <2>2, <2>3 DEF KeyInv
<1>4. NodesInv(d) /\ TypedInv(d, t)
  BY <1>1 DEF NodesInv, TypedInv
<1>. QED BY <1>2, <1>3, <1>4 DEF Sound, KeysInv

LEMMA TreeIsSound == Spec => []TreeInv
<1>1. Init => TreeInv
  BY SeedsAreSound, BoundsAssumption DEF Init, TreeInv
<1>2. TreeInv /\ [Next]_vars => TreeInv'
  <2>1. ASSUME TreeInv, NEW r \in Replicas, NEW s \in Replicas, Sync(r, s) PROVE TreeInv'
    BY <2>1, SyncStep DEF Sync, TreeInv
  <2>2. ASSUME TreeInv, UNCHANGED vars PROVE TreeInv'
    BY <2>2 DEF vars, TreeInv
  <2>. QED BY <2>1, <2>2, ChangeStep DEF Next
<1>. QED BY <1>1, <1>2, PTL DEF Spec

LEMMA KindValues ==
    ASSUME TreeInv, NEW r \in Replicas, NEW s \in Replicas, NEW n \in Nodes
    PROVE  {doc[r][n].kind.value, doc[s][n].kind.value} \cap {"file", "folder"} # {"file", "folder"}
<1>1. Never.value = Absent /\ Absent \notin {"file", "folder"}
  BY AbsentAssumption DEF Never
<1>2. CASE doc[r][n].kind = doc[s][n].kind
  BY <1>2
<1>3. CASE doc[r][n].kind = Never
  BY <1>1, <1>3
<1>4. CASE doc[s][n].kind = Never
  BY <1>1, <1>4
<1>. QED BY <1>2, <1>3, <1>4 DEF TreeInv, Sound, NodesInv

\* Items are what their writers wrote, in lines of known writers; the same item has
\* the same value everywhere, but for its deletion, and a node is one kind of node
\* everywhere; only files are typed in.
THEOREM FileTreeTypeCorrect == Spec => []TypeOK
<1>1. TreeInv => TypeOK
  <2> SUFFICES ASSUME TreeInv PROVE TypeOK
    OBVIOUS
  <2>1. /\ doc \in [Replicas -> [Nodes -> NodeType]] /\ typed \in [Replicas -> SUBSET (Nodes \X Lines)]
        /\ changes \in 0..MaxChanges /\ KeysInv(doc) /\ TypedInv(doc, typed)
    BY DEF TreeInv, Sound
  <2>2. \A r, s \in Replicas : \A n \in Nodes, key \in Keys :
          doc[r][n][key].line = doc[s][n][key].line =>
            doc[r][n][key].value = doc[s][n][key].value \/ Absent \in {doc[r][n][key].value, doc[s][n][key].value}
    <3>1. \A n \in Nodes, key \in Keys, r \in Replicas : Cells(doc, n, key)[r] = doc[r][n][key]
      BY DEF Cells
    <3>. QED BY <2>1, <3>1, SMTT(30) DEF KeysInv, KeyInv
  <2>3. \A r, s \in Replicas : \A n \in Nodes :
          {doc[r][n].kind.value, doc[s][n].kind.value} \cap {"file", "folder"} # {"file", "folder"}
    BY KindValues
  <2>4. \A r \in Replicas : \A x \in typed[r] : x[1] \in Files(doc[r])
    BY <2>1 DEF TypedInv
  <2>. QED BY <2>1, <2>2, <2>3, <2>4, SMTT(30) DEF TypeOK
<1>. QED BY <1>1, TreeIsSound, PTL

\* model.ts:17-22.  What somebody typed is in the file's text wherever it has
\* arrived, through any renames, moves, trashing and restores of anybody, until
\* somebody gives the file bytes.
THEOREM TypingSurvives == Spec => []EditsSurvive
<1>1. TreeInv => EditsSurvive
  BY DEF TreeInv, Sound, NodesInv, TypedInv, EditsSurvive, WholeNode, Files
<1>. QED BY <1>1, TreeIsSound, PTL

\* Whatever replicas have merges to the same, in whichever order they hear of one
\* another and however often: the order of items is total, and no item has two values.
THEOREM MergesAgree == Spec => []ReplicasMerge
<1>1. TreeInv => ReplicasMerge
  <2> SUFFICES ASSUME TreeInv, NEW q \in Replicas, NEW r \in Replicas, NEW s \in Replicas,
                      NEW n \in Nodes, NEW key \in Keys
               PROVE  LET a == doc[q][n][key] b == doc[r][n][key] c == doc[s][n][key] IN
                      /\ Merge(a, b) = Merge(b, a)
                      /\ Merge(Merge(a, b), c) = Merge(a, Merge(b, c))
                      /\ Merge(a, a) = a
    BY Zenon DEF ReplicasMerge
  <2> DEFINE a == doc[q][n][key]
             b == doc[r][n][key]
             c == doc[s][n][key]
  <2>1. /\ Cells(doc, n, key) \in [Replicas -> Cell(Values(key))] /\ KeyInv(Cells(doc, n, key))
        /\ \A p \in Replicas : Cells(doc, n, key)[p] = doc[p][n][key]
    BY CellsType DEF TreeInv, Sound, KeysInv, Cells
  <2>2. a \in Cell(Values(key)) /\ b \in Cell(Values(key)) /\ c \in Cell(Values(key))
    BY <2>1
  <2>3. SameItem(a, b) /\ SameItem(b, c) /\ SameItem(a, c)
    BY <2>1 DEF KeyInv, SameItem
  <2> HIDE DEF a, b, c
  <2>4. Merge(a, b) = Merge(b, a)
    BY <2>2, <2>3, MergeAgrees DEF SameItem
  <2>5. Merge(Merge(a, b), c) = Merge(a, Merge(b, c))
    BY <2>2, <2>3, MergeAssociates
  <2>6. Merge(a, a) = a
    BY DEF Merge
  <2>. QED BY <2>4, <2>5, <2>6 DEF a, b, c
<1>. QED BY <1>1, TreeIsSound, PTL
=============================================================================
