----------------------------- MODULE FileTreePaths -----------------------------
(***************************************************************************)
(* Proofs about what FileTree shows, and where, at any replica: that no    *)
(* two nodes have the same path, from the names of siblings and from the   *)
(* paths one level further down at a time; that only two people's moves    *)
(* hide a node nobody trashed, from the race invariant of FileTreeInv; and *)
(* that a file is made where it was asked for, from what one more node     *)
(* makes of the names and paths of the others.                             *)
(***************************************************************************)
EXTENDS FileTreeProof

-----------------------------------------------------------------------------
(* Names.                                                                  *)

\* What is shown of a title: itself, or with a number.
Labels == Titles \cup {Append(title, k) : title \in Titles, k \in Nat}

\* A number after a title stays what it is in lower case.
LEMMA Numbered ==
    ASSUME NEW title \in Titles, NEW k \in Nat
    PROVE  /\ Append(title, k) # <<>>
           /\ Lower(Append(title, k))[Len(title) + 1] = k
<1> DEFINE Letters == {title[i] : i \in 1..Len(title)} \cup Nat
           name == Append(title, k)
           last == Len(title) + 1
<1>1. Len(title) \in Nat /\ title = [i \in 1..Len(title) |-> title[i]]
  BY TitlesAssumption
<1>2. title \in Seq(Letters)
  BY <1>1
<1> HIDE DEF Letters
<1>3. k \in Letters
  BY DEF Letters
<1>4. name \in Seq(Letters) /\ Len(name) = last /\ name[last] = k
  BY <1>2, <1>3
<1> HIDE DEF name
<1>5. last \in DOMAIN name /\ k \notin DOMAIN Small
  BY <1>1, <1>4, SmallAssumption
<1>6. Lower(name)[last] = k
  <2> HIDE DEF last
  <2>. QED BY <1>4, <1>5 DEF Lower
<1>7. name # <<>>
  BY <1>1, <1>4
<1>. QED BY <1>6, <1>7 DEF name

\* A title with a number says which, case aside.
LEMMA NumberedTitles ==
    ASSUME NEW title \in Titles, NEW j \in Nat, NEW k \in Nat,
           Lower(Append(title, j)) = Lower(Append(title, k))
    PROVE  j = k
<1>1. Lower(Append(title, j))[Len(title) + 1] = j /\ Lower(Append(title, k))[Len(title) + 1] = k
  BY Numbered
<1>. QED BY <1>1

\* The least number that makes the title a free name.
FreeNumbers(title, taken) == {k \in 2..Cardinality(taken) + 2 : Lower(Append(title, k)) \notin taken}

\* There are more numbers to try than names that are taken.
LEMMA FreeNumberExists ==
    ASSUME NEW title \in Titles, NEW taken, IsFiniteSet(taken)
    PROVE  FreeNumbers(title, taken) # {}
<1> DEFINE C == Cardinality(taken)
           tries == 2..C + 2
           f == [k \in tries |-> Lower(Append(title, k))]
<1>1. C \in Nat
  BY FS_CardinalityType
<1> SUFFICES ASSUME FreeNumbers(title, taken) = {} PROVE FALSE
  OBVIOUS
<1>2. f \in [tries -> taken]
  BY DEF FreeNumbers
<1>3. IsFiniteSet(tries) /\ Cardinality(tries) = C + 1
  BY <1>1, FS_Interval
<1>4. \A j, k \in tries : f[j] = f[k] => j = k
  <2>1. \A k \in tries : k \in Nat
    BY <1>1
  <2>. QED BY <2>1, NumberedTitles
<1> HIDE DEF tries, f
<1>5. Cardinality(taken) < Cardinality(tries)
  BY <1>1, <1>3
<1>. QED BY <1>2, <1>3, <1>4, <1>5, FS_PigeonHole

\* What Min is of a set of numbers.
LEMMA LeastIs ==
    ASSUME NEW S \in SUBSET Nat, NEW k \in S, \A j \in S : k <= j
    PROVE  Min(S) = k
<1>1. Min(S) \in S /\ \A j \in S : Min(S) <= j
  BY DEF Min
<1>2. Min(S) <= k /\ k <= Min(S) /\ Min(S) \in Nat /\ k \in Nat
  BY <1>1
<1>. QED BY <1>2

\* The first free name is a title with the least of its free numbers.
LEMMA LeastFreeNumber ==
    ASSUME NEW title \in Titles, NEW taken, IsFiniteSet(taken), Lower(title) \in taken
    PROVE  /\ FreeNumbers(title, taken) \in SUBSET Nat
           /\ \E k \in FreeNumbers(title, taken) : /\ \A j \in FreeNumbers(title, taken) : k <= j
                                                   /\ FreeName(title, taken) = Append(title, k)
<1> DEFINE free == FreeNumbers(title, taken)
<1>1. free \in SUBSET Nat /\ free # {}
  <2>1. Cardinality(taken) \in Nat
    BY FS_CardinalityType
  <2>. QED BY <2>1, FreeNumberExists DEF FreeNumbers
<1>2. FreeName(title, taken) = Append(title, Min(free))
  BY DEF FreeName, FreeNumbers
<1> HIDE DEF free
<1>3. PICK k \in free : \A j \in free : k <= j
  BY <1>1, LeastNumber
<1>4. Min(free) = k
  BY <1>1, <1>3, LeastIs
<1>. QED BY <1>1, <1>2, <1>3, <1>4 DEF free

\* The name is free, case aside, and the title's own.
LEMMA FreeNameIsFree ==
    ASSUME NEW title \in Titles, NEW taken, IsFiniteSet(taken)
    PROVE  /\ Lower(FreeName(title, taken)) \notin taken /\ FreeName(title, taken) \in Labels
           /\ title # <<>> => FreeName(title, taken) # <<>>
<1>1. CASE Lower(title) \notin taken
  BY <1>1 DEF FreeName, Labels
<1>2. CASE Lower(title) \in taken
  <2>1. PICK k \in FreeNumbers(title, taken) : k \in Nat /\ FreeName(title, taken) = Append(title, k)
    BY <1>2, LeastFreeNumber
  <2>2. Lower(Append(title, k)) \notin taken
    BY DEF FreeNumbers
  <2>3. Append(title, k) # <<>>
    BY <2>1, Numbered
  <2>. QED BY <2>1, <2>2, <2>3 DEF Labels
<1>. QED BY <1>1, <1>2

\* A name that somebody else takes makes no difference to those who are shown otherwise.
LEMMA FreeNameKeeps ==
    ASSUME NEW title \in Titles, NEW taken, IsFiniteSet(taken), NEW label, label \notin taken,
           label # Lower(FreeName(title, taken))
    PROVE  FreeName(title, taken \cup {label}) = FreeName(title, taken)
<1> DEFINE more == taken \cup {label}
<1>1. CASE Lower(title) \notin taken
  BY <1>1 DEF FreeName
<1>2. CASE Lower(title) \in taken
  <2> DEFINE C == Cardinality(taken)
             free == FreeNumbers(title, taken)
             left == FreeNumbers(title, more)
  <2>1. C \in Nat /\ IsFiniteSet(more) /\ Cardinality(more) = C + 1
    BY FS_CardinalityType, FS_AddElement
  <2>2. PICK k \in free : k \in Nat /\ (\A j \in free : k <= j) /\ FreeName(title, taken) = Append(title, k)
    BY <1>2, LeastFreeNumber
  <2>3. k \in left
    BY <2>1, <2>2 DEF FreeNumbers
  <2>4. ASSUME NEW j \in left PROVE k <= j
    <3>1. j \in 2..C + 3 /\ Lower(Append(title, j)) \notin taken
      BY <2>1 DEF FreeNumbers
    <3>2. CASE j <= C + 2
      <4>1. j \in free
        BY <2>1, <3>1, <3>2 DEF FreeNumbers
      <4>. QED BY <2>2, <4>1
    <3>3. CASE ~(j <= C + 2)
      BY <2>1, <2>2, <3>1, <3>3 DEF FreeNumbers
    <3>. QED BY <3>2, <3>3
  <2>5. left \in SUBSET Nat
    BY <2>1 DEF FreeNumbers
  <2>6. FreeName(title, more) = Append(title, Min(left))
    BY <1>2 DEF FreeName, FreeNumbers
  <2> HIDE DEF left, free
  <2>7. Min(left) = k
    BY <2>3, <2>4, <2>5, LeastIs
  <2>. QED BY <2>2, <2>6, <2>7
<1>. QED BY <1>1, <1>2

-----------------------------------------------------------------------------
(* The names of siblings, from the oldest on.                              *)

\* Finitely many numbers have a bound.
LEMMA Bounded ==
    ASSUME NEW S \in SUBSET Nat, IsFiniteSet(S)
    PROVE  \E b \in Nat : \A x \in S : x <= b
<1>1. PICK n \in Nat : ExistsSurjection(1..n, S)
  BY FS_NatSurjection
<1>2. PICK f \in Surjection(1..n, S) : TRUE
  BY <1>1 DEF ExistsSurjection
<1>3. f \in [1..n -> S] /\ \A x \in S : \E i \in 1..n : f[i] = x
  BY <1>2 DEF Surjection
<1> DEFINE T == {k \in 0..n : \E b \in Nat : \A i \in 1..k : f[i] <= b}
<1>4. 0 \in T
  OBVIOUS
<1>5. ASSUME NEW k \in 1..n, k - 1 \in T PROVE k \in T
  <2>1. PICK b \in Nat : \A i \in 1..(k - 1) : f[i] <= b
    BY <1>5
  <2>2. f[k] \in Nat
    BY <1>3
  <2>3. PICK c \in {b, f[k]} : b <= c /\ f[k] <= c
    BY <2>2
  <2>4. c \in Nat /\ \A i \in 1..k : f[i] <= c
    <3>1. \A i \in 1..n : f[i] \in Nat
      BY <1>3
    <3>2. \A i \in 1..k : i \in 1..n /\ (i = k \/ i \in 1..(k - 1))
      OBVIOUS
    <3>3. \A i \in 1..k : f[i] \in Nat /\ (i = k \/ f[i] <= b)
      BY <2>1, <3>1, <3>2
    <3>. QED BY <2>2, <2>3, <3>3
  <2>5. k \in 0..n
    OBVIOUS
  <2>. QED BY <2>4, <2>5
<1>6. n \in T
  <2> HIDE DEF T
  <2>1. T \in SUBSET (0..n)
    BY DEF T
  <2>. QED BY <1>4, <1>5, <2>1, Depths
<1>7. PICK b \in Nat : \A i \in 1..n : f[i] <= b
  BY <1>6
<1>. QED BY <1>3, <1>7

\* The names of the siblings up to the node k.
Upto(siblings, k)  == {s \in siblings : s <= k}
Older(siblings, n) == {s \in siblings : s < n}
NamesUpto(f, nodes, siblings, k) ==
    f = [n \in Upto(siblings, k) |-> FreeName(nodes[n].name.value, {Lower(f[m]) : m \in Older(siblings, n)})]

NamesAll(f, nodes, siblings) ==
    f = [n \in siblings |-> FreeName(nodes[n].name.value, {Lower(f[m]) : m \in {s \in siblings : s < n}})]

\* There are such names: one sibling more at a time.
LEMMA NamesExist ==
    ASSUME NEW nodes, NEW siblings \in SUBSET Nodes
    PROVE  \E f : NamesAll(f, nodes, siblings)
<1>1. siblings \in SUBSET Nat /\ IsFiniteSet(siblings) /\ 0 \notin siblings
  <2>1. Nodes \subseteq Nat /\ IsFiniteSet(Nodes) /\ 0 \notin Nodes
    BY NodesAssumption DEF Root
  <2>. QED BY <2>1, FS_Subset
<1>2. PICK b \in Nat : \A x \in siblings : x <= b
  BY <1>1, Bounded
<1> DEFINE T == {k \in 0..b : \E f : NamesUpto(f, nodes, siblings, k)}
<1>3. 0 \in T
  <2> DEFINE f == [n \in {} |-> n]
  <2>1. Upto(siblings, 0) = {}
    <3>1. \A s \in siblings : s \in Nat /\ s # 0
      BY <1>1
    <3>2. \A s \in siblings : ~(s <= 0)
      BY <3>1
    <3>. QED BY <3>2 DEF Upto
  <2>2. f = [n \in Upto(siblings, 0) |-> FreeName(nodes[n].name.value, {Lower(f[m]) : m \in Older(siblings, n)})]
    BY <2>1
  <2> HIDE DEF f
  <2>3. NamesUpto(f, nodes, siblings, 0)
    BY <2>2, Zenon DEF NamesUpto
  <2>4. 0 \in 0..b
    OBVIOUS
  <2>. QED BY <2>3, <2>4
<1>4. ASSUME NEW k \in 1..b, k - 1 \in T PROVE k \in T
  <2>1. PICK f : NamesUpto(f, nodes, siblings, k - 1)
    BY <1>4
  <2> DEFINE g == [n \in Upto(siblings, k) |->
                     IF n = k THEN FreeName(nodes[n].name.value, {Lower(f[m]) : m \in Older(siblings, n)}) ELSE f[n]]
  <2>2. ASSUME NEW n \in Upto(siblings, k)
        PROVE  g[n] = FreeName(nodes[n].name.value, {Lower(g[m]) : m \in Older(siblings, n)})
    <3>1. n \in Nat /\ n <= k
      BY <1>1 DEF Upto
    <3>2. \A m \in Older(siblings, n) : m \in Upto(siblings, k) /\ m # k
      BY <1>1, <3>1 DEF Older, Upto
    <3>3. \A m \in Older(siblings, n) : g[m] = f[m]
      BY <3>2
    <3> HIDE DEF g
    <3>4. {Lower(g[m]) : m \in Older(siblings, n)} = {Lower(f[m]) : m \in Older(siblings, n)}
      BY <3>3
    <3>5. CASE n = k
      BY <3>4, <3>5 DEF g
    <3>6. CASE n # k
      <4>1. n \in Upto(siblings, k - 1)
        BY <3>1, <3>6 DEF Upto
      <4>2. f[n] = FreeName(nodes[n].name.value, {Lower(f[m]) : m \in Older(siblings, n)})
        BY <2>1, <4>1, Zenon DEF NamesUpto
      <4>. QED BY <3>4, <3>6, <4>2 DEF g
    <3>. QED BY <3>5, <3>6
  <2>3. g = [n \in Upto(siblings, k) |-> g[n]]
    OBVIOUS
  <2> HIDE DEF g
  <2>4. NamesUpto(g, nodes, siblings, k)
    BY <2>2, <2>3 DEF NamesUpto
  <2>. QED BY <2>4
<1>5. b \in T
  <2> HIDE DEF T
  <2>1. T \in SUBSET (0..b)
    BY DEF T
  <2>. QED BY <1>3, <1>4, <2>1, Depths
<1>6. PICK f : NamesUpto(f, nodes, siblings, b)
  BY <1>5
<1>7. Upto(siblings, b) = siblings
  BY <1>2 DEF Upto
<1>8. f = [n \in siblings |-> FreeName(nodes[n].name.value, {Lower(f[m]) : m \in Older(siblings, n)})]
  BY <1>6, <1>7 DEF NamesUpto
<1>9. NamesAll(f, nodes, siblings)
  BY <1>8, Zenon DEF NamesAll, Older
<1>. QED BY <1>9

\* That each sibling has the first name that no older one is shown by.
Taken(f, siblings, n) == {Lower(f[m]) : m \in {s \in siblings : s < n}}
AreNames(f, nodes, siblings) ==
    /\ \A n \in siblings : f[n] = FreeName(nodes[n].name.value, Taken(f, siblings, n))
    /\ \A k : IsFiniteSet(Taken(f, siblings, k))

LEMMA NamesAre ==
    ASSUME NEW nodes, NEW siblings \in SUBSET Nodes
    PROVE  AreNames(ResolveSiblingNames(nodes, siblings), nodes, siblings)
<1> DEFINE Shown == CHOOSE f : f = [n \in siblings |->
                       FreeName(nodes[n].name.value, {Lower(f[m]) : m \in {s \in siblings : s < n}})]
<1>1. Shown = [n \in siblings |-> FreeName(nodes[n].name.value, {Lower(Shown[m]) : m \in {s \in siblings : s < n}})]
  <2>1. PICK f : NamesAll(f, nodes, siblings)
    BY NamesExist
  <2>2. f = [n \in siblings |-> FreeName(nodes[n].name.value, {Lower(f[m]) : m \in {s \in siblings : s < n}})]
    BY <2>1, Zenon DEF NamesAll
  <2>. QED BY <2>2, Zenon
<1>2. ResolveSiblingNames(nodes, siblings) = Shown
  BY Zenon DEF ResolveSiblingNames
<1> HIDE DEF Shown
<1>3. siblings \in SUBSET Nat /\ IsFiniteSet(siblings)
  <2>1. Nodes \subseteq Nat /\ IsFiniteSet(Nodes)
    BY NodesAssumption
  <2>. QED BY <2>1, FS_Subset
<1>4. \A n \in siblings : Shown[n] = FreeName(nodes[n].name.value, {Lower(Shown[m]) : m \in {s \in siblings : s < n}})
  BY <1>1, Zenon
<1>5. ASSUME NEW k PROVE IsFiniteSet({Lower(Shown[m]) : m \in {s \in siblings : s < k}})
  <2> DEFINE before == {s \in siblings : s < k}
             taken == {Lower(Shown[m]) : m \in before}
             f == [m \in before |-> Lower(Shown[m])]
  <2>1. IsFiniteSet(before)
    BY <1>3, FS_Subset
  <2>2. f \in Surjection(before, taken)
    BY DEF Surjection
  <2> HIDE DEF f, before, taken
  <2>3. IsFiniteSet(taken)
    BY <2>1, <2>2, FS_Surjection
  <2>. QED BY <2>3 DEF taken, before
<1>6. AreNames(Shown, nodes, siblings)
  BY <1>4, <1>5, Zenon DEF AreNames, Taken
<1>. QED BY <1>2, <1>6

\* Siblings are shown under names that differ, case aside, each under its title or
\* its title with a number, whatever titles they have.
LEMMA SiblingsDiffer ==
    ASSUME NEW nodes, NEW siblings \in SUBSET Nodes,
           \A n \in siblings : nodes[n].name.value \in Titles \ {<<>>}
    PROVE  LET names == ResolveSiblingNames(nodes, siblings) IN
           /\ \A n \in siblings : names[n] \in Labels \ {<<>>}
           /\ \A m, n \in siblings : Lower(names[m]) = Lower(names[n]) => m = n
<1> DEFINE f == ResolveSiblingNames(nodes, siblings)
<1>1. AreNames(f, nodes, siblings) /\ siblings \in SUBSET Nat
  BY NamesAre, NodesAssumption
<1> HIDE DEF f
<1>2. ASSUME NEW n \in siblings
      PROVE  f[n] \in Labels \ {<<>>} /\ Lower(f[n]) \notin Taken(f, siblings, n)
  <2>1. f[n] = FreeName(nodes[n].name.value, Taken(f, siblings, n)) /\ IsFiniteSet(Taken(f, siblings, n))
    BY <1>1 DEF AreNames
  <2>. QED BY <2>1, FreeNameIsFree
<1>3. ASSUME NEW m \in siblings, NEW n \in siblings, Lower(f[m]) = Lower(f[n]) PROVE m = n
  <2>1. ~(m < n) /\ ~(n < m) /\ m \in Nat /\ n \in Nat
    BY <1>1, <1>2, <1>3 DEF Taken
  <2>. QED BY <2>1
<1>. QED BY <1>2, <1>3 DEF f

\* Somebody comes to the siblings, by a name that none is shown by, case aside: the
\* others keep theirs, and it is shown by its own.
LEMMA NamesKeep ==
    ASSUME NEW a, NEW b, NEW siblings \in SUBSET Nodes, NEW others \in SUBSET Nodes, NEW x \in Nodes \ siblings,
           others \in {siblings, siblings \cup {x}},
           \A n \in siblings : b[n].name.value = a[n].name.value /\ a[n].name.value \in Titles,
           x \in others => \A n \in siblings : Lower(ResolveSiblingNames(a, siblings)[n]) # Lower(b[x].name.value)
    PROVE  /\ \A n \in siblings : ResolveSiblingNames(b, others)[n] = ResolveSiblingNames(a, siblings)[n]
           /\ x \in others => ResolveSiblingNames(b, others)[x] = b[x].name.value
<1> DEFINE f == ResolveSiblingNames(a, siblings)
           g == ResolveSiblingNames(b, others)
           label == b[x].name.value
           due(n) == IF n = x THEN label ELSE f[n]
           before(n) == Taken(f, siblings, n)
           wrong == {n \in others : g[n] # due(n)}
<1>1. AreNames(f, a, siblings) /\ AreNames(g, b, others)
  BY NamesAre
<1>2. others \in SUBSET Nat /\ siblings \in SUBSET Nat /\ x \in Nat
  BY NodesAssumption
<1> HIDE DEF f, g
<1>3. wrong = {}
  <2> SUFFICES ASSUME wrong # {} PROVE FALSE
    OBVIOUS
  <2>1. PICK n \in wrong : \A m \in wrong : n <= m
    <3>1. wrong \in SUBSET Nat
      BY <1>2
    <3> HIDE DEF wrong
    <3>. QED BY <3>1, LeastNumber
  <2>2. \A m \in others : m < n => g[m] = due(m)
    BY <1>2, <2>1
  <2> DEFINE taken == Taken(g, others, n)
  <2>3. n \in others /\ g[n] = FreeName(b[n].name.value, taken)
    BY <1>1, <2>1 DEF AreNames
  <2>4. CASE n = x
    <3>1. taken = before(x)
      BY <1>2, <2>2, <2>4 DEF Taken
    <3>2. Lower(label) \notin before(x)
      BY <2>3, <2>4 DEF f, Taken
    <3> HIDE DEF taken, before, wrong, due
    <3>3. g[x] = label
      BY <2>3, <2>4, <3>1, <3>2 DEF FreeName
    <3>. QED BY <2>1, <2>4, <3>3 DEF wrong, due
  <2>5. CASE n # x
    <3>1. /\ n \in siblings /\ f[n] = FreeName(a[n].name.value, before(n)) /\ IsFiniteSet(before(n))
          /\ b[n].name.value = a[n].name.value /\ a[n].name.value \in Titles
      BY <1>1, <2>3, <2>5 DEF AreNames
    <3>2. x \in others => Lower(label) # Lower(f[n]) /\ Lower(label) \notin before(n)
      BY <3>1 DEF f, Taken
    <3>3. taken = before(n) \/ (x \in others /\ taken = before(n) \cup {Lower(label)})
      <4>1. CASE x \in others /\ x < n
        <5>1. taken = before(n) \cup {Lower(label)}
          BY <2>2, <4>1 DEF Taken
        <5>. QED BY <4>1, <5>1
      <4>2. CASE ~(x \in others /\ x < n)
        <5>1. {s \in others : s < n} = {s \in siblings : s < n}
          BY <4>2
        <5>2. taken = before(n)
          BY <2>2, <5>1 DEF Taken
        <5>. QED BY <5>2
      <4>. QED BY <4>1, <4>2
    <3> HIDE DEF taken, before, wrong, due, label
    <3>4. g[n] = f[n]
      BY <2>3, <3>1, <3>2, <3>3, FreeNameKeeps
    <3>. QED BY <2>1, <2>5, <3>4 DEF wrong, due
  <2>. QED BY <2>4, <2>5
<1>. QED BY <1>3 DEF f, g

-----------------------------------------------------------------------------
(* The paths, level by level.                                              *)

\* The paths that ListTree builds are the last level of such an iteration.
LEMMA PathsIterate ==
    ASSUME NEW nodes
    PROVE  \E f : /\ Iterates(f, Cardinality(Nodes), "paths", nodes)
                  /\ ListTree(nodes) = [n \in Live(nodes) |-> f[Cardinality(Nodes)][n]]
<1> DEFINE Paths == CHOOSE f : f = [d \in 0..Cardinality(Nodes) |->
                       IF d = 0 THEN [n \in {Root} |-> <<>>] ELSE Deepen(nodes, Live(nodes), f[d - 1])]
<1>1. \E f : f = [d \in 0..Cardinality(Nodes) |->
                    IF d = 0 THEN [n \in {Root} |-> <<>>] ELSE Deepen(nodes, Live(nodes), f[d - 1])]
  <2>1. PICK f : Iterates(f, Cardinality(Nodes), "paths", nodes)
    BY IteratesExist
  <2>2. \A d : (IF d = 0 THEN Start("paths", nodes) ELSE Further("paths", nodes, f[d - 1]))
                = IF d = 0 THEN [n \in {Root} |-> <<>>] ELSE Deepen(nodes, Live(nodes), f[d - 1])
    BY DEF Start, Further
  <2>3. f = [d \in 0..Cardinality(Nodes) |->
               IF d = 0 THEN [n \in {Root} |-> <<>>] ELSE Deepen(nodes, Live(nodes), f[d - 1])]
    BY <2>1, <2>2 DEF Iterates
  <2>. QED BY <2>3
<1>2. Paths = [d \in 0..Cardinality(Nodes) |->
                 IF d = 0 THEN [n \in {Root} |-> <<>>] ELSE Deepen(nodes, Live(nodes), Paths[d - 1])]
  BY <1>1, Zenon
<1>3. ListTree(nodes) = [n \in Live(nodes) |-> Paths[Cardinality(Nodes)][n]]
  BY Zenon DEF ListTree
<1> HIDE DEF Paths
<1>4. Iterates(Paths, Cardinality(Nodes), "paths", nodes)
  BY <1>2 DEF Iterates, Start, Further
<1>. QED BY <1>3, <1>4

\* Every level is within the next, and what is in one is in something of the level before.
LEMMA Widening ==
    ASSUME NEW nodes, NEW f, Iterates(f, Cardinality(Nodes), "shown", nodes)
    PROVE  /\ \A d \in 0..Cardinality(Nodes) : f[d] \subseteq f[Cardinality(Nodes)]
           /\ \A d \in 1..Cardinality(Nodes) : \A n \in f[d] \ {Root} : nodes[n].parent.value \in f[d - 1]
<1> DEFINE N == Cardinality(Nodes)
<1>1. N \in Nat
  BY NodesCount
<1>2. f[0] = {Root} /\ \A d \in 1..N : f[d] = Widen(nodes, f[d - 1])
  <2>1. \A d \in 0..N : f[d] = IF d = 0 THEN {Root} ELSE Widen(nodes, f[d - 1])
    BY DEF Iterates, Start, Further
  <2>. QED BY <1>1, <2>1
<1> HIDE DEF N
<1> DEFINE T == {d \in 0..N : /\ \A e \in 0..d : f[e] \subseteq f[d]
                              /\ d = 0 \/ \A n \in f[d] \ {Root} : nodes[n].parent.value \in f[d - 1]}
<1>3. 0 \in T
  BY <1>1
<1>4. ASSUME NEW d \in 1..N, d - 1 \in T PROVE d \in T
  <2>1. f[d - 1] \subseteq f[d]
    BY <1>2 DEF Widen
  <2>2. \A e \in 0..d : f[e] \subseteq f[d]
    <3>1. \A e \in 0..d : e = d \/ e \in 0..(d - 1)
      OBVIOUS
    <3>2. \A e \in 0..(d - 1) : f[e] \subseteq f[d - 1]
      BY <1>4
    <3>. QED BY <2>1, <3>1, <3>2
  <2>3. ASSUME NEW n \in f[d], n # Root PROVE nodes[n].parent.value \in f[d - 1]
    <3>1. CASE n \in f[d - 1]
      <4>1. d - 1 # 0
        BY <1>2, <2>3, <3>1
      <4>2. nodes[n].parent.value \in f[d - 2] /\ f[d - 2] \subseteq f[d - 1]
        <5>1. \A m \in f[d - 1] \ {Root} : nodes[m].parent.value \in f[d - 1 - 1]
          BY <1>4, <4>1
        <5>2. d - 1 - 1 = d - 2 /\ d - 2 \in 0..(d - 1)
          BY <4>1
        <5>3. f[d - 2] \subseteq f[d - 1]
          BY <1>4, <5>2
        <5>. QED BY <2>3, <3>1, <5>1, <5>2, <5>3
      <4>. QED BY <4>2
    <3>2. CASE n \notin f[d - 1]
      BY <1>2, <2>3, <3>2 DEF Widen
    <3>. QED BY <3>1, <3>2
  <2>4. d \in 0..N
    BY <1>1
  <2>. QED BY <2>2, <2>3, <2>4
<1>5. \A d \in 0..N : d \in T
  <2> HIDE DEF T
  <2>1. T \in SUBSET (0..N)
    BY DEF T
  <2>. QED BY <1>1, <1>3, <1>4, <2>1, Depths
<1>6. \A d \in 0..N : f[d] \subseteq f[N]
  <2>1. N \in T
    BY <1>1, <1>5
  <2>. QED BY <2>1
<1>7. \A d \in 1..N : \A n \in f[d] \ {Root} : nodes[n].parent.value \in f[d - 1]
  <2>1. \A d \in 1..N : d \in 0..N /\ d # 0
    OBVIOUS
  <2>. QED BY <1>5, <2>1
<1>. QED BY <1>6, <1>7 DEF N

\* One level further down: what is shown in something of the level, by its name there.
OneDeeper(q, nodes, shown, p) ==
    /\ DOMAIN q = {Root} \cup {n \in shown : nodes[n].parent.value \in DOMAIN p} /\ q[Root] = <<>>
    /\ \A n \in shown : nodes[n].parent.value \in DOMAIN p =>
         q[n] = Join(p[nodes[n].parent.value],
                       ResolveSiblingNames(nodes, In(nodes, shown, nodes[n].parent.value))[n])

LEMMA DeepenedPaths ==
    ASSUME NEW nodes, NEW shown \in SUBSET Nodes, NEW p
    PROVE  OneDeeper(Deepen(nodes, shown, p), nodes, shown, p)
<1> DEFINE q == Deepen(nodes, shown, p)
           names == [f \in DOMAIN p |-> ResolveSiblingNames(nodes, In(nodes, shown, f))]
           inside == UNION {In(nodes, shown, f) : f \in DOMAIN p}
<1>1. \A n : n \in inside <=> n \in shown /\ nodes[n].parent.value \in DOMAIN p
  BY DEF In
<1>2. q = [n \in {Root} \cup inside |->
             IF n = Root THEN <<>> ELSE Join(p[nodes[n].parent.value], names[nodes[n].parent.value][n])]
  BY DEF Deepen
<1>3. Root \notin shown
  BY NodesCount
<1> HIDE DEF q, inside
<1>4. DOMAIN q = {Root} \cup inside /\ q[Root] = <<>>
  BY <1>2
<1>5. ASSUME NEW n \in shown, nodes[n].parent.value \in DOMAIN p
      PROVE  q[n] = Join(p[nodes[n].parent.value],
                           ResolveSiblingNames(nodes, In(nodes, shown, nodes[n].parent.value))[n])
  BY <1>1, <1>2, <1>3, <1>5
<1>6. DOMAIN q = {Root} \cup {n \in shown : nodes[n].parent.value \in DOMAIN p}
  BY <1>1, <1>4
<1>7. OneDeeper(q, nodes, shown, p)
  BY <1>4, <1>5, <1>6 DEF OneDeeper
<1>. QED BY <1>7 DEF q

\* A path of one name, and one of two.
LEMMA PathsOfTwo ==
    ASSUME NEW x, NEW y
    PROVE  Append(<<x>>, y) = <<x, y>> /\ Append(<<>>, x) = <<x>> /\ <<x>> # <<x, y>>
<1> DEFINE S == {x, y}
           one == <<x>>
           two == <<x, y>>
<1>1. x \in S /\ y \in S
  OBVIOUS
<1> HIDE DEF S
<1>2. one \in Seq(S) /\ Len(one) = 1 /\ one[1] = x /\ two \in Seq(S) /\ Len(two) = 2 /\ two[1] = x /\ two[2] = y
  BY <1>1
<1> HIDE DEF one, two
<1>3. Append(one, y) = two
  <2> DEFINE q == Append(one, y)
  <2>1. q \in Seq(S) /\ Len(q) = Len(one) + 1 /\ q[Len(one) + 1] = y /\ \A i \in 1..Len(one) : q[i] = one[i]
    <3>1. one \in Seq(S)
      BY <1>2
    <3>. QED BY <1>1, <3>1, AppendProperties
  <2> HIDE DEF q
  <2>2. Len(q) = Len(two) /\ \A i \in 1..Len(q) : q[i] = two[i]
    BY <1>2, <2>1
  <2>. QED BY <1>2, <2>1, <2>2, SeqEqual DEF q
<1>4. Append(<<>>, x) = one
  <2> DEFINE q == Append(<<>>, x)
  <2>1. q \in Seq(S) /\ Len(q) = 1 /\ q[1] = x
    BY <1>1
  <2> HIDE DEF q
  <2>2. Len(q) = Len(one) /\ \A i \in 1..Len(q) : q[i] = one[i]
    BY <1>2, <2>1
  <2>. QED BY <1>2, <2>1, <2>2, SeqEqual DEF q
<1>5. one # two
  <2>1. SUFFICES ASSUME one = two PROVE FALSE
    OBVIOUS
  <2>2. Len(one) = Len(two)
    BY <2>1, Zenon
  <2>. QED BY <1>2, <2>2
<1>. QED BY <1>3, <1>4, <1>5 DEF one, two

\* Labels that are not empty, and paths of them: Join puts one at the end of another.
Named == Labels \ {<<>>}

LEMMA JoinAppends ==
    ASSUME NEW p \in Seq(Named), NEW x
    PROVE  Join(p, x) = Append(p, x)
<1>1. p # << <<>> >>
  <2>1. SUFFICES ASSUME p = << <<>> >> PROVE FALSE
    OBVIOUS
  <2>2. Len(p) = 1 /\ p[1] = <<>>
    BY <2>1
  <2>3. p[1] \in Named
    BY <2>2
  <2>. QED BY <2>2, <2>3 DEF Named
<1>2. CASE p = <<>>
  <2>1. Join(p, x) = <<x>>
    BY <1>2 DEF Join
  <2>. QED BY <1>2, <2>1, PathsOfTwo
<1>3. CASE p # <<>>
  BY <1>1, <1>3 DEF Join
<1>. QED BY <1>2, <1>3

\* Paths of one level, one for every node: no two are the same.
PathsOfLevel(p) ==
    /\ Root \in DOMAIN p /\ p[Root] = <<>>
    /\ \A n \in DOMAIN p : p[n] \in Seq(Named)
    /\ \A m, n \in DOMAIN p : p[m] = p[n] => m = n

\* What two paths that are the same end in, and begin with.
LEMMA Appended ==
    ASSUME NEW S, NEW p \in Seq(S), NEW q \in Seq(S), NEW x \in S, NEW y \in S
    PROVE  /\ Append(p, x) \in Seq(S) /\ Append(p, x) # <<>>
           /\ Append(p, x) = Append(q, y) => p = q /\ x = y
<1>1. Append(p, x) \in Seq(S) /\ Len(Append(p, x)) = Len(p) + 1 /\ Len(p) \in Nat /\ Append(p, x) # <<>>
  OBVIOUS
<1>2. ASSUME Append(p, x) = Append(q, y) PROVE p = q /\ x = y
  <2>1. Len(p) = Len(q)
    <3>1. Len(Append(q, y)) = Len(q) + 1 /\ Len(q) \in Nat
      OBVIOUS
    <3>. QED BY <1>1, <1>2, <3>1
  <2>2. Append(p, x)[Len(p) + 1] = x /\ Append(q, y)[Len(q) + 1] = y
    OBVIOUS
  <2>3. \A i \in 1..Len(p) : Append(p, x)[i] = p[i] /\ Append(q, y)[i] = q[i]
    BY <2>1
  <2>4. \A i \in 1..Len(p) : p[i] = q[i]
    BY <1>2, <2>3
  <2>5. p = q
    BY <2>1, <2>4, SeqEqual
  <2>. QED BY <1>2, <2>1, <2>2, <2>5
<1>. QED BY <1>1, <1>2

LEMMA Deepened ==
    ASSUME NEW nodes, NEW shown \in SUBSET Nodes, \A n \in shown : nodes[n].name.value \in Titles \ {<<>>},
           NEW p, PathsOfLevel(p)
    PROVE  /\ PathsOfLevel(Deepen(nodes, shown, p))
           /\ \A n \in shown : nodes[n].parent.value \in DOMAIN p => n \in DOMAIN Deepen(nodes, shown, p)
<1> DEFINE q == Deepen(nodes, shown, p)
           names == [f \in DOMAIN p |-> ResolveSiblingNames(nodes, In(nodes, shown, f))]
           inside == {n \in shown : nodes[n].parent.value \in DOMAIN p}
<1>1. OneDeeper(q, nodes, shown, p)
  BY DeepenedPaths
<1>2. Root \notin inside
  BY NodesCount
<1> HIDE DEF q
<1>3. DOMAIN q = {Root} \cup inside /\ q[Root] = <<>>
  BY <1>1 DEF OneDeeper
<1>4. ASSUME NEW n \in inside
      PROVE  LET f == nodes[n].parent.value IN
             /\ f \in DOMAIN p /\ p[f] \in Seq(Named) /\ names[f][n] \in Named
             /\ q[n] = Append(p[f], names[f][n])
             /\ \A m \in inside : nodes[m].parent.value = f /\ names[f][m] = names[f][n] => m = n
  <2> DEFINE f == nodes[n].parent.value
             siblings == In(nodes, shown, f)
  <2>1. f \in DOMAIN p /\ n \in siblings /\ siblings \in SUBSET Nodes
    BY DEF In
  <2>2. p[f] \in Seq(Named)
    BY <2>1 DEF PathsOfLevel
  <2>3. names[f] = ResolveSiblingNames(nodes, siblings)
    BY <2>1
  <2>4. \A m \in siblings : nodes[m].name.value \in Titles \ {<<>>}
    BY DEF In
  <2>5. \A m \in inside : nodes[m].parent.value = f => m \in siblings
    BY DEF In
  <2>6. q[n] = Append(p[f], names[f][n])
    <3>1. q[n] = Join(p[f], names[f][n])
      BY <1>1, <2>1, <2>3 DEF OneDeeper
    <3> HIDE DEF f, names
    <3>. QED BY <2>2, <3>1, JoinAppends
  <2> HIDE DEF siblings, names, f
  <2>7. /\ \A m \in siblings : names[f][m] \in Named
        /\ \A k, m \in siblings : names[f][k] = names[f][m] => k = m
    BY <2>1, <2>3, <2>4, SiblingsDiffer DEF Named
  <2>. QED BY <2>1, <2>2, <2>5, <2>6, <2>7 DEF f
<1> HIDE DEF names, inside
<1>6. \A n \in inside : q[n] \in Seq(Named) /\ q[n] # <<>>
  <2> SUFFICES ASSUME NEW n \in inside PROVE q[n] \in Seq(Named) /\ q[n] # <<>>
    OBVIOUS
  <2> DEFINE f == nodes[n].parent.value
             x == names[f][n]
  <2>1. p[f] \in Seq(Named) /\ x \in Named /\ q[n] = Append(p[f], x)
    BY <1>4
  <2> HIDE DEF f, x
  <2>2. Append(p[f], x) \in Seq(Named) /\ Append(p[f], x) # <<>>
    BY <2>1, Appended
  <2>. QED BY <2>1, <2>2
<1>7. ASSUME NEW m \in inside, NEW n \in inside, q[m] = q[n] PROVE m = n
  <2> DEFINE f == nodes[m].parent.value
             g == nodes[n].parent.value
  <2>1. /\ f \in DOMAIN p /\ p[f] \in Seq(Named) /\ names[f][m] \in Named /\ q[m] = Append(p[f], names[f][m])
        /\ g \in DOMAIN p /\ p[g] \in Seq(Named) /\ names[g][n] \in Named /\ q[n] = Append(p[g], names[g][n])
    BY <1>4
  <2>2. p[f] = p[g] /\ names[f][m] = names[g][n]
    <3> DEFINE x == names[f][m]
               y == names[g][n]
    <3>1. /\ p[f] \in Seq(Named) /\ x \in Named /\ p[g] \in Seq(Named) /\ y \in Named
          /\ Append(p[f], x) = Append(p[g], y)
      BY <1>7, <2>1
    <3> HIDE DEF f, g, x, y
    <3> DEFINE u == p[f]
               v == p[g]
    <3>2. u \in Seq(Named) /\ v \in Seq(Named) /\ Append(u, x) = Append(v, y)
      BY <3>1
    <3> HIDE DEF u, v
    <3>3. u = v /\ x = y
      BY <3>1, <3>2, Appended
    <3>. QED BY <3>3 DEF x, y, u, v
  <2>3. f = g
    BY <2>1, <2>2 DEF PathsOfLevel
  <2>. QED BY <1>4, <2>2, <2>3
<1>8. \A n \in DOMAIN q : q[n] \in Seq(Named)
  <2>1. <<>> \in Seq(Named)
    OBVIOUS
  <2>. QED BY <1>3, <1>6, <2>1
<1>9. \A m, n \in DOMAIN q : q[m] = q[n] => m = n
  BY <1>3, <1>6, <1>7
<1>10. \A n \in shown : nodes[n].parent.value \in DOMAIN p => n \in DOMAIN q
  BY <1>3 DEF inside
<1>. QED BY <1>3, <1>8, <1>9, <1>10 DEF PathsOfLevel, q

\* What is shown has a path of its own, if it has a name.
LEMMA PathsDiffer ==
    ASSUME NEW nodes \in [Nodes -> NodeType], \A n \in Nodes : WholeNode(nodes[n]),
           \A n \in Live(nodes) : nodes[n].name.value # <<>>
    PROVE  LET path == ListTree(nodes) IN \A m, n \in DOMAIN path : path[m] = path[n] => m = n
<1> DEFINE N == Cardinality(Nodes)
<1>1. PICK f : Iterates(f, N, "shown", nodes) /\ Live(nodes) = f[N] \ {Root}
  BY LiveIterates
<1>2. PICK g : Iterates(g, N, "paths", nodes) /\ ListTree(nodes) = [n \in Live(nodes) |-> g[N][n]]
  BY PathsIterate
<1>3. N \in Nat
  BY NodesCount
<1>4. f[0] = {Root} /\ g[0] = [n \in {Root} |-> <<>>] /\ \A d \in 1..N : g[d] = Deepen(nodes, Live(nodes), g[d - 1])
  <2>1. \A d \in 0..N : f[d] = IF d = 0 THEN {Root} ELSE Widen(nodes, f[d - 1])
    BY <1>1 DEF Iterates, Start, Further
  <2>2. \A d \in 0..N : g[d] = IF d = 0 THEN [n \in {Root} |-> <<>>] ELSE Deepen(nodes, Live(nodes), g[d - 1])
    BY <1>2 DEF Iterates, Start, Further
  <2>. QED BY <1>3, <2>1, <2>2
<1>5. /\ \A d \in 0..N : f[d] \subseteq f[N]
      /\ \A d \in 1..N : \A n \in f[d] \ {Root} : nodes[n].parent.value \in f[d - 1]
  BY <1>1, Widening
<1> HIDE DEF N
<1>6. Live(nodes) \in SUBSET Nodes /\ \A n \in Live(nodes) : nodes[n].name.value \in Titles \ {<<>>}
  <2>1. Live(nodes) \subseteq AllNodes(nodes) /\ Live(nodes) \subseteq Nodes
    BY LiveIsKnown
  <2>2. \A n \in Live(nodes) : nodes[n].name.value # Absent /\ nodes[n].name \in Cell(Titles)
    BY <2>1 DEF AllNodes, WholeNode, NodeType
  <2>. QED BY <2>1, <2>2 DEF Cell
<1> DEFINE T == {d \in 0..N : PathsOfLevel(g[d]) /\ f[d] \subseteq DOMAIN g[d]}
<1>7. 0 \in T
  <2>1. <<>> \in Seq(Named)
    OBVIOUS
  <2> DEFINE p == [n \in {Root} |-> <<>>]
  <2>2. DOMAIN p = {Root} /\ p[Root] = <<>>
    OBVIOUS
  <2>3. g[0] = p
    BY <1>4
  <2> HIDE DEF p
  <2>4. PathsOfLevel(p)
    BY <2>1, <2>2 DEF PathsOfLevel
  <2>5. 0 \in 0..N /\ f[0] \subseteq DOMAIN g[0]
    BY <1>3, <1>4, <2>2, <2>3
  <2>. QED BY <2>3, <2>4, <2>5
<1>8. ASSUME NEW d \in 1..N, d - 1 \in T PROVE d \in T
  <2>1. /\ PathsOfLevel(g[d]) 
        /\ \A n \in Live(nodes) : nodes[n].parent.value \in DOMAIN g[d - 1] => n \in DOMAIN g[d]
    <3> DEFINE shown == Live(nodes)
               p == g[d - 1]
    <3>1. shown \in SUBSET Nodes /\ (\A n \in shown : nodes[n].name.value \in Titles \ {<<>>}) /\ PathsOfLevel(p)
      BY <1>6, <1>8
    <3>2. g[d] = Deepen(nodes, shown, p)
      BY <1>4
    <3> HIDE DEF shown, p
    <3>3. /\ PathsOfLevel(Deepen(nodes, shown, p))
          /\ \A n \in shown : nodes[n].parent.value \in DOMAIN p => n \in DOMAIN Deepen(nodes, shown, p)
      BY <3>1, Deepened
    <3>. QED BY <3>2, <3>3 DEF shown, p
  <2>2. ASSUME NEW n \in f[d] PROVE n \in DOMAIN g[d]
    <3>1. d \in 0..N
      BY <1>3
    <3>2. CASE n = Root
      BY <2>1, <3>2 DEF PathsOfLevel
    <3>3. CASE n # Root
      <4>1. n \in Live(nodes) /\ nodes[n].parent.value \in f[d - 1]
        BY <1>1, <1>5, <3>1, <3>3
      <4>. QED BY <1>8, <2>1, <4>1
    <3>. QED BY <3>2, <3>3
  <2>3. d \in 0..N
    BY <1>3
  <2>. QED BY <2>1, <2>2, <2>3
<1>9. N \in T
  <2> HIDE DEF T
  <2>1. T \in SUBSET (0..N)
    BY DEF T
  <2>. QED BY <1>3, <1>7, <1>8, <2>1, Depths
<1>10. PathsOfLevel(g[N]) /\ Live(nodes) \subseteq DOMAIN g[N]
  BY <1>1, <1>9
<1>. QED BY <1>2, <1>10 DEF PathsOfLevel

\* model.ts:146.  Whatever was made, renamed and moved at the same time, no two nodes
\* that are shown have the same path, at any replica where all that are shown have a
\* name.
THEOREM PathsStayDistinct == Spec => []PathsAreDistinct
<1>1. TreeInv => PathsAreDistinct
  <2> SUFFICES ASSUME TreeInv, NEW r \in Replicas,
                      \A n \in DOMAIN ListTree(doc[r]) : doc[r][n].name.value # <<>>
               PROVE  LET path == ListTree(doc[r]) IN \A m, n \in DOMAIN path : path[m] = path[n] => m = n
    BY DEF PathsAreDistinct
  <2>1. doc[r] \in [Nodes -> NodeType] /\ \A n \in Nodes : WholeNode(doc[r][n])
    BY DEF TreeInv, Sound, NodesInv
  <2>2. DOMAIN ListTree(doc[r]) = Live(doc[r])
    BY DEF ListTree
  <2>. QED BY <2>1, <2>2, PathsDiffer
<1>. QED BY <1>1, TreeIsSound, PTL

\* The path of a node of the tree, or of the root.
PathAt(tree, n) == IF n = Root THEN <<>> ELSE tree[n]

\* What is shown is at its folder's path and the name it is shown by there.
LEMMA PathsAre ==
    ASSUME NEW nodes, AllNodes(nodes) \subseteq Nodes, NEW n \in Live(nodes)
    PROVE  LET p == nodes[n].parent.value IN
           /\ DOMAIN ListTree(nodes) = Live(nodes)
           /\ ListTree(nodes)[n] = Join(PathAt(ListTree(nodes), p),
                                          ResolveSiblingNames(nodes, In(nodes, Live(nodes), p))[n])
<1> DEFINE N == Cardinality(Nodes)
           live == Live(nodes)
           parent(m) == nodes[m].parent.value
           name(m) == ResolveSiblingNames(nodes, In(nodes, live, parent(m)))[m]
<1>1. PICK f : Iterates(f, N, "shown", nodes) /\ live = f[N] \ {Root}
  BY LiveIterates
<1>2. PICK g : Iterates(g, N, "paths", nodes) /\ ListTree(nodes) = [m \in live |-> g[N][m]]
  BY PathsIterate
<1>3. N \in Nat /\ Root \notin Nodes
  BY NodesCount
<1>4. f[0] = {Root} /\ g[0] = [m \in {Root} |-> <<>>] /\ \A d \in 1..N : g[d] = Deepen(nodes, live, g[d - 1])
  <2>1. \A d \in 0..N : f[d] = IF d = 0 THEN {Root} ELSE Widen(nodes, f[d - 1])
    BY <1>1 DEF Iterates, Start, Further
  <2>2. \A d \in 0..N : g[d] = IF d = 0 THEN [m \in {Root} |-> <<>>] ELSE Deepen(nodes, live, g[d - 1])
    BY <1>2 DEF Iterates, Start, Further
  <2>. QED BY <1>3, <2>1, <2>2
<1>5. /\ \A d \in 0..N : f[d] \subseteq f[N]
      /\ \A d \in 1..N : \A m \in f[d] \ {Root} : parent(m) \in f[d - 1]
  BY <1>1, Widening
<1>6. live \in SUBSET Nodes
  BY LiveIsKnown
<1> HIDE DEF N, live
<1>7. ASSUME NEW d \in 1..N
      PROVE  /\ DOMAIN g[d] = {Root} \cup {m \in live : parent(m) \in DOMAIN g[d - 1]} /\ g[d][Root] = <<>>
             /\ \A m \in live : parent(m) \in DOMAIN g[d - 1] => g[d][m] = Join(g[d - 1][parent(m)], name(m))
  <2> DEFINE p == g[d - 1]
  <2>1. g[d] = Deepen(nodes, live, p)
    BY <1>4
  <2> HIDE DEF p
  <2>2. OneDeeper(g[d], nodes, live, p)
    BY <1>6, <2>1, DeepenedPaths
  <2>. QED BY <2>2 DEF p, OneDeeper
<1>8. DOMAIN g[0] = {Root} /\ g[0][Root] = <<>>
  BY <1>4
<1> DEFINE T == {d \in 0..N : /\ f[d] \subseteq DOMAIN g[d]
                              /\ d = 0 \/ \A m \in DOMAIN g[d - 1] : m \in DOMAIN g[d] /\ g[d][m] = g[d - 1][m]}
<1>9. 0 \in T
  BY <1>3, <1>4, <1>8
<1>10. ASSUME NEW d \in 1..N, d - 1 \in T PROVE d \in T
  <2>1. f[d] \subseteq DOMAIN g[d]
    <3>1. f[d - 1] \subseteq DOMAIN g[d - 1] /\ d \in 0..N
      BY <1>3, <1>10
    <3>2. \A m \in f[d] : m = Root \/ (m \in live /\ parent(m) \in f[d - 1])
      BY <1>1, <1>5, <3>1
    <3>. QED BY <1>7, <3>1, <3>2
  <2>2. ASSUME NEW m \in DOMAIN g[d - 1] PROVE m \in DOMAIN g[d] /\ g[d][m] = g[d - 1][m]
    <3>1. CASE m = Root
      <4>1. g[d - 1][Root] = <<>>
        <5>1. CASE d = 1
          BY <1>8, <5>1
        <5>2. CASE d # 1
          <6>1. d - 1 \in 1..N
            BY <1>3, <5>2
          <6>. QED BY <1>7, <6>1
        <5>. QED BY <5>1, <5>2
      <4>. QED BY <1>7, <3>1, <4>1
    <3>2. CASE m # Root
      <4>1. d # 1
        BY <1>8, <3>2
      <4>2. d - 1 \in 1..N /\ d - 1 - 1 = d - 2
        BY <1>3, <4>1
      <4>3. \A k \in DOMAIN g[d - 2] : k \in DOMAIN g[d - 1] /\ g[d - 1][k] = g[d - 2][k]
        <5>1. d - 1 # 0
          BY <4>2
        <5>. QED BY <1>10, <4>2, <5>1
      <4>4. /\ m \in live /\ parent(m) \in DOMAIN g[d - 2]
            /\ g[d - 1][m] = Join(g[d - 2][parent(m)], name(m))
        BY <1>7, <3>2, <4>2
      <4>5. parent(m) \in DOMAIN g[d - 1] /\ g[d - 1][parent(m)] = g[d - 2][parent(m)]
        BY <4>3, <4>4
      <4>6. m \in DOMAIN g[d] /\ g[d][m] = Join(g[d - 1][parent(m)], name(m))
        BY <1>7, <4>4, <4>5
      <4>. QED BY <4>4, <4>5, <4>6
    <3>. QED BY <3>1, <3>2
  <2>. QED BY <1>3, <2>1, <2>2
<1>11. \A d \in 0..N : d \in T
  <2> HIDE DEF T
  <2>1. T \in SUBSET (0..N)
    BY DEF T
  <2>. QED BY <1>3, <1>9, <1>10, <2>1, Depths
<1>12. N \in 1..N /\ parent(n) \in f[N - 1] /\ n \in live
  <2>1. n \in f[N] /\ n # Root
    BY <1>1 DEF live
  <2>2. N # 0
    BY <1>4, <2>1
  <2>. QED BY <1>1, <1>3, <1>5, <2>1, <2>2
<1>13. /\ parent(n) \in DOMAIN g[N - 1] /\ g[N][parent(n)] = g[N - 1][parent(n)]
       /\ g[N][n] = Join(g[N - 1][parent(n)], name(n)) /\ g[N][Root] = <<>>
  <2>1. N - 1 \in T /\ N \in T /\ N # 0
    BY <1>3, <1>11, <1>12
  <2>2. /\ f[N - 1] \subseteq DOMAIN g[N - 1]
        /\ \A m \in DOMAIN g[N - 1] : g[N][m] = g[N - 1][m]
    BY <2>1
  <2>. QED BY <1>7, <1>12, <2>2
<1>14. parent(n) = Root \/ parent(n) \in live
  <2>1. N - 1 \in 0..N
    BY <1>3, <1>12
  <2>. QED BY <1>1, <1>5, <1>12, <2>1
<1>15. DOMAIN ListTree(nodes) = live /\ \A m \in live : ListTree(nodes)[m] = g[N][m]
  BY <1>2
<1>16. PathAt(ListTree(nodes), parent(n)) = g[N][parent(n)]
  BY <1>13, <1>14, <1>15 DEF PathAt
<1>17. ListTree(nodes)[n] = Join(PathAt(ListTree(nodes), parent(n)), name(n))
  BY <1>12, <1>13, <1>15, <1>16
<1>. QED BY <1>15, <1>17 DEF live

-----------------------------------------------------------------------------
(* What is shown, and what is above a node.                                *)

\* The parts of a finite set.
LEMMA PartOf ==
    ASSUME NEW U, IsFiniteSet(U), NEW S \in SUBSET U
    PROVE  /\ IsFiniteSet(S) /\ Cardinality(S) \in Nat /\ Cardinality(U) \in Nat
           /\ Cardinality(S) <= Cardinality(U)
           /\ Cardinality(S) = Cardinality(U) => S = U
<1>1. IsFiniteSet(S) /\ Cardinality(S) \in Nat /\ Cardinality(U) \in Nat
  BY FS_Subset, FS_CardinalityType
<1>2. Cardinality(S) <= Cardinality(U)
  BY FS_Subset
<1>3. Cardinality(U) = Cardinality(S) => U = S
  BY FS_Subset, Zenon
<1>. QED BY <1>1, <1>2, <1>3

\* Sets that only grow, and by what they already are, stop growing.
LEMMA Saturates ==
    ASSUME NEW U, IsFiniteSet(U), NEW N \in Nat, Cardinality(U) = N + 1, NEW f,
           \A d \in 0..N : f[d] \subseteq U, f[0] # {}, \A d \in 1..N : f[d - 1] \subseteq f[d],
           \A d \in 2..N : f[d - 1] = f[d - 2] => f[d] = f[d - 1]
    PROVE  f[N] = U \/ (N > 0 /\ f[N] = f[N - 1])
<1> DEFINE T == {d \in 0..N : Cardinality(f[d]) > d \/ (d > 0 /\ f[d] = f[d - 1])}
<1>1. ASSUME NEW d \in 0..N
      PROVE  /\ IsFiniteSet(f[d]) /\ Cardinality(f[d]) \in Nat
             /\ Cardinality(f[d]) = Cardinality(U) => f[d] = U
  <2> DEFINE S == f[d]
  <2>1. S \in SUBSET U
    OBVIOUS
  <2> HIDE DEF S
  <2>2. IsFiniteSet(S) /\ Cardinality(S) \in Nat /\ (Cardinality(S) = Cardinality(U) => S = U)
    BY <2>1, PartOf
  <2>. QED BY <2>2 DEF S
<1>2. 0 \in T
  <2>1. Cardinality(f[0]) # 0 /\ Cardinality(f[0]) \in Nat
    BY <1>1, FS_EmptySet
  <2>. QED BY <2>1
<1>3. ASSUME NEW d \in 1..N, d - 1 \in T PROVE d \in T
  <2>1. d \in 0..N /\ d - 1 \in 0..N
    BY <1>3
  <2>2. CASE f[d] = f[d - 1]
    BY <2>1, <2>2
  <2>3. CASE f[d] # f[d - 1]
    <3>1. ~(d - 1 > 0 /\ f[d - 1] = f[d - 2])
      <4>1. d - 1 > 0 => d \in 2..N
        BY <2>1
      <4>. QED BY <2>3, <4>1
    <3>2. Cardinality(f[d - 1]) > d - 1
      <4>1. d - 1 - 1 = d - 2
        BY <2>1
      <4>2. Cardinality(f[d - 1]) > d - 1 \/ (d - 1 > 0 /\ f[d - 1] = f[d - 1 - 1])
        BY <1>3
      <4>. QED BY <3>1, <4>1, <4>2
    <3>3. Cardinality(f[d - 1]) < Cardinality(f[d])
      <4>1. f[d - 1] \subseteq f[d] /\ IsFiniteSet(f[d])
        BY <1>1, <2>1
      <4> DEFINE S == f[d - 1]
                 R == f[d]
      <4>2. S \in SUBSET R /\ IsFiniteSet(R) /\ S # R
        BY <2>3, <4>1
      <4> HIDE DEF S, R
      <4>3. Cardinality(S) <= Cardinality(R) /\ Cardinality(S) # Cardinality(R)
        BY <4>2, PartOf
      <4>4. Cardinality(S) \in Nat /\ Cardinality(R) \in Nat
        BY <1>1, <2>1 DEF S, R
      <4>. QED BY <4>3, <4>4 DEF S, R
    <3>4. Cardinality(f[d - 1]) \in Nat /\ Cardinality(f[d]) \in Nat
      BY <1>1, <2>1
    <3>5. Cardinality(f[d]) > d
      BY <2>1, <3>2, <3>3, <3>4
    <3>. QED BY <2>1, <3>5
  <2>. QED BY <2>2, <2>3
<1>4. N \in T
  <2> HIDE DEF T
  <2>1. T \in SUBSET (0..N)
    BY DEF T
  <2>. QED BY <1>2, <1>3, <2>1, Depths
<1>5. CASE Cardinality(f[N]) > N
  <2>1. f[N] \subseteq U /\ Cardinality(f[N]) \in Nat /\ (Cardinality(f[N]) = Cardinality(U) => f[N] = U)
    BY <1>1
  <2>2. Cardinality(f[N]) <= Cardinality(U)
    <3> DEFINE S == f[N]
    <3>1. S \in SUBSET U
      BY <2>1
    <3> HIDE DEF S
    <3>2. Cardinality(S) <= Cardinality(U)
      BY <3>1, PartOf
    <3>. QED BY <3>2 DEF S
  <2>. QED BY <1>5, <2>1, <2>2
<1>6. CASE N > 0 /\ f[N] = f[N - 1]
  BY <1>6
<1>. QED BY <1>4, <1>5, <1>6

\* There is one place more than there are nodes.
LEMMA AllPlaces == IsFiniteSet({Root} \cup Nodes) /\ Cardinality({Root} \cup Nodes) = Cardinality(Nodes) + 1
BY NodesAssumption, NodesCount, FS_AddElement

\* What Above climbs is the last level of such an iteration.
LEMMA AboveIterates ==
    ASSUME NEW nodes, NEW n
    PROVE  \E f : /\ Iterates(f, Cardinality(Nodes), "above", [nodes |-> nodes, from |-> n])
                  /\ Above(nodes, n) = f[Cardinality(Nodes)] \ {Root}
<1> DEFINE of == [nodes |-> nodes, from |-> n]
           Up == CHOOSE f : f = [d \in 0..Cardinality(Nodes) |->
                    IF d = 0 THEN {n}
                    ELSE LET below == f[d - 1] IN below \cup {nodes[m].parent.value : m \in below \ {Root}}]
<1>1. \A f, d : (IF d = 0 THEN Start("above", of) ELSE Further("above", of, f[d - 1]))
                = IF d = 0 THEN {n}
                  ELSE LET below == f[d - 1] IN below \cup {nodes[m].parent.value : m \in below \ {Root}}
  BY DEF Start, Further, Climb
<1>2. \E f : f = [d \in 0..Cardinality(Nodes) |->
                    IF d = 0 THEN {n}
                    ELSE LET below == f[d - 1] IN below \cup {nodes[m].parent.value : m \in below \ {Root}}]
  <2>1. PICK f : Iterates(f, Cardinality(Nodes), "above", of)
    BY IteratesExist
  <2>2. f = [d \in 0..Cardinality(Nodes) |->
                    IF d = 0 THEN {n}
                    ELSE LET below == f[d - 1] IN below \cup {nodes[m].parent.value : m \in below \ {Root}}]
    BY <1>1, <2>1 DEF Iterates
  <2>. QED BY <2>2
<1>3. Up = [d \in 0..Cardinality(Nodes) |->
              IF d = 0 THEN {n}
              ELSE LET below == Up[d - 1] IN below \cup {nodes[m].parent.value : m \in below \ {Root}}]
  BY <1>2, Zenon
<1>4. Above(nodes, n) = Up[Cardinality(Nodes)] \ {Root}
  BY Zenon DEF Above
<1> HIDE DEF Up
<1>5. Iterates(Up, Cardinality(Nodes), "above", of)
  <2>1. \A d : (IF d = 0 THEN Start("above", of) ELSE Further("above", of, Up[d - 1]))
               = IF d = 0 THEN {n}
                 ELSE LET below == Up[d - 1] IN below \cup {nodes[m].parent.value : m \in below \ {Root}}
    BY <1>1
  <2> HIDE DEF of
  <2>. QED BY <1>3, <2>1 DEF Iterates
<1>. QED BY <1>4, <1>5

\* Those above a node are all that its parents lead to, and the node itself.
LEMMA AboveLeads ==
    ASSUME NEW nodes, AllNodes(nodes) \subseteq Nodes,
           \A m \in AllNodes(nodes) : nodes[m].parent.value \in AllNodes(nodes) \cup {Root},
           NEW n \in AllNodes(nodes) \cup {Root}
    PROVE  /\ Above(nodes, n) \subseteq AllNodes(nodes) /\ n \in Above(nodes, n) \cup {Root}
           /\ \A m \in Above(nodes, n) : nodes[m].parent.value \in Above(nodes, n) \cup {Root}
           /\ \A S : n \in S \cup {Root} /\ (\A m \in S \ {Root} : nodes[m].parent.value \in S \cup {Root})
                       => Above(nodes, n) \subseteq S
<1> DEFINE N == Cardinality(Nodes)
           U == {Root} \cup Nodes
           Up(x) == Climb(nodes, x)
<1>1. PICK f : Iterates(f, N, "above", [nodes |-> nodes, from |-> n]) /\ Above(nodes, n) = f[N] \ {Root}
  BY AboveIterates
<1>2. N \in Nat /\ Root \notin Nodes /\ IsFiniteSet(U) /\ Cardinality(U) = N + 1
  BY NodesCount, AllPlaces
<1>3. f[0] = {n} /\ \A d \in 1..N : f[d] = Up(f[d - 1])
  <2>1. \A d \in 0..N : f[d] = IF d = 0 THEN {n} ELSE Up(f[d - 1])
    BY <1>1 DEF Iterates, Start, Further
  <2>. QED BY <1>2, <2>1
<1> HIDE DEF N, U
<1>4. \A x : x \subseteq Up(x)
  BY DEF Climb
<1> DEFINE Known == {Root} \cup AllNodes(nodes)
           T == {d \in 0..N : f[d] \subseteq Known /\ n \in f[d]}
<1>5. \A d \in 0..N : d \in T
  <2>1. 0 \in T
    BY <1>2, <1>3
  <2>2. ASSUME NEW d \in 1..N, d - 1 \in T PROVE d \in T
    <3>1. f[d] = Up(f[d - 1]) /\ d \in 0..N /\ f[d - 1] \subseteq Known /\ n \in f[d - 1]
      BY <1>2, <1>3, <2>2
    <3>. QED BY <3>1 DEF Climb
  <2> HIDE DEF T
  <2>3. T \in SUBSET (0..N)
    BY DEF T
  <2>. QED BY <1>2, <2>1, <2>2, <2>3, Depths
<1>6. \A d \in 0..N : f[d] \subseteq U /\ f[d] \subseteq Known /\ n \in f[d]
  BY <1>5 DEF U
<1>7. Up(f[N]) = f[N]
  <2>1. \A d \in 1..N : f[d - 1] \subseteq f[d]
    BY <1>3, <1>4
  <2>2. \A d \in 2..N : f[d - 1] = f[d - 2] => f[d] = f[d - 1]
    <3>1. ASSUME NEW d \in 2..N, f[d - 1] = f[d - 2] PROVE f[d] = f[d - 1]
      <4>1. d \in 1..N /\ d - 1 \in 1..N /\ d - 1 - 1 = d - 2
        BY <1>2
      <4>2. f[d] = Up(f[d - 1]) /\ f[d - 1] = Up(f[d - 2])
        BY <1>3, <4>1
      <4>. QED BY <3>1, <4>2
    <3>. QED BY <3>1
  <2>3. f[0] # {}
    BY <1>3
  <2>4. f[N] = U \/ (N > 0 /\ f[N] = f[N - 1])
    <3> HIDE DEF T, Up
    <3>. QED BY <1>2, <1>6, <2>1, <2>2, <2>3, Saturates
  <2>5. CASE f[N] = U
    <3>1. f[N] \subseteq Known /\ N \in 0..N
      BY <1>2, <1>6
    <3>2. \A m \in f[N] \ {Root} : nodes[m].parent.value \in U
      BY <2>5, <3>1 DEF U
    <3>. QED BY <2>5, <3>2 DEF Climb
  <2>6. CASE N > 0 /\ f[N] = f[N - 1]
    BY <1>2, <1>3, <2>6
  <2>. QED BY <2>4, <2>5, <2>6
<1>8. f[N] \subseteq Known /\ n \in f[N]
  BY <1>2, <1>6
<1>9. \A m \in f[N] \ {Root} : nodes[m].parent.value \in f[N]
  BY <1>7 DEF Climb
<1>10. ASSUME NEW S, n \in S \cup {Root}, \A m \in S \ {Root} : nodes[m].parent.value \in S \cup {Root}
       PROVE  f[N] \subseteq S \cup {Root}
  <2> DEFINE R == {d \in 0..N : f[d] \subseteq S \cup {Root}}
  <2>1. 0 \in R
    BY <1>2, <1>3, <1>10
  <2>2. ASSUME NEW d \in 1..N, d - 1 \in R PROVE d \in R
    <3>1. f[d] = Up(f[d - 1]) /\ d \in 0..N /\ f[d - 1] \subseteq S \cup {Root}
      BY <1>2, <1>3, <2>2
    <3>. QED BY <1>10, <3>1 DEF Climb
  <2>3. \A d \in 0..N : d \in R
    <3> HIDE DEF R
    <3>1. R \in SUBSET (0..N)
      BY DEF R
    <3>. QED BY <1>2, <2>1, <2>2, <3>1, Depths
  <2>. QED BY <1>2, <2>3
<1>. QED BY <1>1, <1>8, <1>9, <1>10

\* isLive: the nodes that parents lead from to the root, none of them in the trash.
LEMMA LiveLeads ==
    ASSUME NEW nodes, AllNodes(nodes) \subseteq Nodes
    PROVE  /\ \A n \in AllNodes(nodes) :
                n \in Live(nodes) <=> /\ nodes[n].trashed.value = Absent
                                      /\ nodes[n].parent.value \in Live(nodes) \cup {Root}
           /\ \A S : (\A n \in Live(nodes) : nodes[n].parent.value \in S \cup {Root} => n \in S)
                       => Live(nodes) \subseteq S
<1> DEFINE N == Cardinality(Nodes)
           U == {Root} \cup Nodes
           Down(x) == Widen(nodes, x)
<1>1. PICK f : Iterates(f, N, "shown", nodes) /\ Live(nodes) = f[N] \ {Root}
  BY LiveIterates
<1>2. N \in Nat /\ Root \notin Nodes /\ IsFiniteSet(U) /\ Cardinality(U) = N + 1
  BY NodesCount, AllPlaces
<1>3. f[0] = {Root} /\ \A d \in 1..N : f[d] = Down(f[d - 1])
  <2>1. \A d \in 0..N : f[d] = IF d = 0 THEN {Root} ELSE Down(f[d - 1])
    BY <1>1 DEF Iterates, Start, Further
  <2>. QED BY <1>2, <2>1
<1>4. /\ \A d \in 0..N : f[d] \subseteq f[N]
      /\ \A d \in 1..N : \A n \in f[d] \ {Root} : nodes[n].parent.value \in f[d - 1]
  BY <1>1, Widening
<1> HIDE DEF N, U
<1>5. f[N] \subseteq {Root} \cup AllNodes(nodes)
  BY <1>1, LiveIsKnown
<1>6. Root \in f[N]
  BY <1>2, <1>3, <1>4
<1>7. Down(f[N]) = f[N]
  <2>1. \A d \in 1..N : f[d - 1] \subseteq f[d]
    BY <1>3 DEF Widen
  <2>2. \A d \in 2..N : f[d - 1] = f[d - 2] => f[d] = f[d - 1]
    <3>1. ASSUME NEW d \in 2..N, f[d - 1] = f[d - 2] PROVE f[d] = f[d - 1]
      <4>1. d \in 1..N /\ d - 1 \in 1..N /\ d - 1 - 1 = d - 2
        BY <1>2
      <4>2. f[d] = Down(f[d - 1]) /\ f[d - 1] = Down(f[d - 2])
        BY <1>3, <4>1
      <4>. QED BY <3>1, <4>2
    <3>. QED BY <3>1
  <2>3. f[0] # {} /\ \A d \in 0..N : f[d] \subseteq U
    BY <1>3, <1>4, <1>5 DEF U
  <2>4. f[N] = U \/ (N > 0 /\ f[N] = f[N - 1])
    <3> HIDE DEF Down
    <3>. QED BY <1>2, <2>1, <2>2, <2>3, Saturates
  <2>5. CASE f[N] = U
    BY <2>5 DEF Widen, U
  <2>6. CASE N > 0 /\ f[N] = f[N - 1]
    BY <1>2, <1>3, <2>6
  <2>. QED BY <2>4, <2>5, <2>6
<1>8. ASSUME NEW n \in AllNodes(nodes)
      PROVE  n \in f[N] <=> nodes[n].trashed.value = Absent /\ nodes[n].parent.value \in f[N]
  <2> DEFINE T == {d \in 0..N : \A m \in f[d] : m = Root \/ (nodes[m].trashed.value = Absent /\ nodes[m].parent.value \in f[N])}
  <2>1. 0 \in T
    BY <1>2, <1>3
  <2>2. ASSUME NEW d \in 1..N, d - 1 \in T PROVE d \in T
    <3>1. f[d] = Down(f[d - 1]) /\ d \in 0..N /\ d - 1 \in 0..N /\ f[d - 1] \subseteq f[N]
      BY <1>2, <1>3, <1>4
    <3>. QED BY <2>2, <3>1 DEF Widen
  <2>3. N \in T
    <3> HIDE DEF T
    <3>1. T \in SUBSET (0..N)
      BY DEF T
    <3>. QED BY <1>2, <2>1, <2>2, <3>1, Depths
  <2>4. n # Root
    BY <1>2
  <2>5. nodes[n].trashed.value = Absent /\ nodes[n].parent.value \in f[N] => n \in Down(f[N])
    BY DEF Widen
  <2>. QED BY <1>7, <2>3, <2>4, <2>5
<1>9. ASSUME NEW S, \A n \in Live(nodes) : nodes[n].parent.value \in S \cup {Root} => n \in S
      PROVE  f[N] \subseteq S \cup {Root}
  <2> DEFINE R == {d \in 0..N : f[d] \subseteq S \cup {Root}}
  <2>1. 0 \in R
    BY <1>2, <1>3
  <2>2. ASSUME NEW d \in 1..N, d - 1 \in R PROVE d \in R
    <3>1. d \in 0..N /\ f[d - 1] \subseteq S \cup {Root} /\ f[d] \subseteq f[N]
      BY <1>2, <1>4, <2>2
    <3>2. \A n \in f[d] \ {Root} : nodes[n].parent.value \in S \cup {Root} /\ n \in Live(nodes)
      BY <1>1, <1>4, <3>1
    <3>. QED BY <1>9, <3>1, <3>2
  <2>3. \A d \in 0..N : d \in R
    <3> HIDE DEF R
    <3>1. R \in SUBSET (0..N)
      BY DEF R
    <3>. QED BY <1>2, <2>1, <2>2, <3>1, Depths
  <2>. QED BY <1>2, <2>3
<1>. QED BY <1>1, <1>2, <1>6, <1>8, <1>9

-----------------------------------------------------------------------------
(* Loops of parents.                                                       *)

ParentsWithin(nodes) == \A m \in AllNodes(nodes) : nodes[m].parent.value \in AllNodes(nodes) \cup {Root}

\* Above what does not lead to the root there is a loop, and what is on one leads to what is.
LEMMA LoopAbove ==
    ASSUME NEW nodes, AllNodes(nodes) \subseteq Nodes, ParentsWithin(nodes),
           NEW A \in SUBSET AllNodes(nodes), A # {}, \A m \in A : nodes[m].parent.value \in A
    PROVE  /\ \E m \in A : OnLoop(nodes, m)
           /\ \A m \in A : OnLoop(nodes, m) => OnLoop(nodes, nodes[m].parent.value)
<1> DEFINE parent(m) == nodes[m].parent.value
<1>1. /\ \A m \in A : m \in AllNodes(nodes) /\ m # Root /\ parent(m) \in A
      /\ Root \notin A /\ IsFiniteSet(A)
  <2>1. Root \notin A /\ A \in SUBSET Nodes /\ IsFiniteSet(Nodes)
    BY NodesCount, NodesAssumption
  <2>. QED BY <2>1, FS_Subset
<1>2. ASSUME NEW m \in A
      PROVE  /\ Above(nodes, m) \subseteq A /\ m \in Above(nodes, m)
             /\ \A k \in Above(nodes, m) : parent(k) \in Above(nodes, m)
             /\ \A S : m \in S /\ (\A k \in S : parent(k) \in S) => Above(nodes, m) \subseteq S
  <2>1. /\ Above(nodes, m) \subseteq AllNodes(nodes) /\ m \in Above(nodes, m) \cup {Root}
        /\ \A k \in Above(nodes, m) : nodes[k].parent.value \in Above(nodes, m) \cup {Root}
        /\ \A S : m \in S \cup {Root} /\ (\A k \in S \ {Root} : nodes[k].parent.value \in S \cup {Root})
                    => Above(nodes, m) \subseteq S
    BY <1>1, AboveLeads DEF ParentsWithin
  <2>2. Above(nodes, m) \subseteq A
    BY <1>1, <2>1
  <2>3. ASSUME NEW S, m \in S, \A k \in S : parent(k) \in S PROVE Above(nodes, m) \subseteq S
    <3>1. m \in S \cup {Root} /\ \A k \in S \ {Root} : nodes[k].parent.value \in S \cup {Root}
      BY <2>3
    <3>. QED BY <2>1, <3>1
  <2>. QED BY <1>1, <2>1, <2>2, <2>3
<1>3. \E m \in A : OnLoop(nodes, m)
  <2> DEFINE sizes == {Cardinality(Above(nodes, m)) : m \in A}
  <2>1. \A m \in A : IsFiniteSet(Above(nodes, m)) /\ Cardinality(Above(nodes, m)) \in Nat
    BY <1>1, <1>2, PartOf
  <2>2. PICK m \in A : \A k \in A : Cardinality(Above(nodes, m)) <= Cardinality(Above(nodes, k))
    <3>1. sizes \in SUBSET Nat /\ sizes # {}
      BY <2>1
    <3>2. PICK x \in sizes : \A y \in sizes : x <= y
      <4> HIDE DEF sizes
      <4>. QED BY <3>1, LeastNumber
    <3>. QED BY <3>2
  <2> DEFINE below == Above(nodes, m)
             above == Above(nodes, parent(m))
  <2>3. parent(m) \in A /\ above \subseteq below
    BY <1>1, <1>2
  <2>4. Cardinality(below) <= Cardinality(above) /\ IsFiniteSet(below) /\ m \in below
    BY <1>2, <2>1, <2>2, <2>3
  <2> HIDE DEF below, above
  <2>5. above = below
    BY <2>3, <2>4, PartOf
  <2>. QED BY <2>4, <2>5 DEF OnLoop, above
<1>4. ASSUME NEW k \in A, OnLoop(nodes, k) PROVE OnLoop(nodes, parent(k))
  <2> DEFINE j == parent(k)
             S == {j} \cup Above(nodes, parent(j))
  <2>1. j \in A /\ parent(j) \in A /\ k \in Above(nodes, j)
    BY <1>1, <1>4 DEF OnLoop
  <2>2. Above(nodes, j) \subseteq S
    <3>1. j \in S /\ \A x \in S : parent(x) \in S
      BY <1>2, <2>1
    <3> HIDE DEF S, j
    <3>. QED BY <1>2, <2>1, <3>1
  <2>3. CASE k = j
    BY <1>2, <2>1, <2>3 DEF OnLoop
  <2>4. CASE k # j
    <3>1. k \in Above(nodes, parent(j))
      BY <2>1, <2>2, <2>4
    <3>2. j \in Above(nodes, parent(j))
      BY <1>2, <2>1, <3>1
    <3>. QED BY <3>2 DEF OnLoop
  <2>. QED BY <2>3, <2>4
<1>. QED BY <1>3, <1>4

\* What is hidden, and neither it nor what is above it in the trash, is under a loop that
\* two writers made.
LEMMA HiddenByTwo ==
    ASSUME NEW nodes, AllNodes(nodes) \subseteq Nodes, ParentsWithin(nodes),
           \A n \in AllNodes(nodes) : Writer(nodes[n].parent) \in Writers,
           \A w \in Writers : NoLoopOf(nodes, w),
           NEW n \in AllNodes(nodes) \ Live(nodes), \A m \in Above(nodes, n) : nodes[m].trashed.value = Absent
    PROVE  \E l, m \in {k \in Above(nodes, n) : OnLoop(nodes, k)} : Writer(nodes[l].parent) # Writer(nodes[m].parent)
<1> DEFINE A == Above(nodes, n)
           C == {k \in A : OnLoop(nodes, k)}
<1>1. Root \notin AllNodes(nodes)
  BY NodesCount
<1>2. /\ A \subseteq AllNodes(nodes) /\ n \in A /\ \A m \in A : nodes[m].parent.value \in A \cup {Root}
      /\ \A S : n \in S \cup {Root} /\ (\A m \in S \ {Root} : nodes[m].parent.value \in S \cup {Root}) => A \subseteq S
  BY <1>1, AboveLeads DEF ParentsWithin
<1>3. \A m \in AllNodes(nodes) : m \in Live(nodes) <=> /\ nodes[m].trashed.value = Absent
                                                       /\ nodes[m].parent.value \in Live(nodes) \cup {Root}
  BY LiveLeads
<1>4. \A m \in A : nodes[m].trashed.value = Absent
  OBVIOUS
<1> HIDE DEF A
<1>5. \A m \in A : m \notin Live(nodes)
  <2> DEFINE S == {m \in A : m \notin Live(nodes)}
  <2>1. n \in S /\ \A m \in S : nodes[m].parent.value \in S
    BY <1>2, <1>3, <1>4
  <2>. QED BY <1>2, <2>1
<1>6. \A m \in A : nodes[m].parent.value \in A
  BY <1>2, <1>3, <1>4, <1>5
<1>7. PICK m \in C : \A k \in C : nodes[k].parent.value \in C
  <2>1. A \in SUBSET AllNodes(nodes) /\ A # {}
    BY <1>2
  <2>2. /\ \E m \in A : OnLoop(nodes, m)
        /\ \A m \in A : OnLoop(nodes, m) => OnLoop(nodes, nodes[m].parent.value)
    BY <1>6, <2>1, LoopAbove
  <2>. QED BY <1>6, <2>2
<1>8. \E k \in C : Writer(nodes[k].parent) # Writer(nodes[m].parent)
  <2> DEFINE w == Writer(nodes[m].parent)
  <2>1. SUFFICES ASSUME \A k \in C : Writer(nodes[k].parent) = w PROVE FALSE
    OBVIOUS
  <2>2. C \in SUBSET AllNodes(nodes) /\ m \in C /\ w \in Writers
    BY <1>2
  <2> HIDE DEF C, w
  <2>. QED BY <1>7, <2>1, <2>2 DEF NoLoopOf
<1>. QED BY <1>7, <1>8 DEF A

\* move: the folder was not in the node, so that none of the mover's own moves leads back.
LEMMA MoveMakesNoLoop ==
    ASSUME NEW a, AllNodes(a) \subseteq Nodes, ParentsWithin(a), NEW w, NoLoopOf(a, w),
           NEW p \in AllNodes(a) \cup {Root}, NEW n \in AllNodes(a) \ Above(a, p),
           NEW b, AllNodes(b) = AllNodes(a), b[n].parent.value = p,
           \A m \in AllNodes(a) \ {n} : b[m].parent = a[m].parent
    PROVE  NoLoopOf(b, w)
<1> SUFFICES ASSUME NEW S \in SUBSET AllNodes(a), S # {}, \A m \in S : Writer(b[m].parent) = w,
                    \A m \in S : b[m].parent.value \in S
             PROVE  FALSE
  BY DEF NoLoopOf
<1>1. Root \notin AllNodes(a)
  BY NodesCount
<1>2. CASE n \notin S
  BY <1>2 DEF NoLoopOf
<1>3. CASE n \in S
  <2> DEFINE T == Above(a, p) \cap S
  <2>1. p \in S
    BY <1>3
  <2>2. p \in Above(a, p) /\ \A m \in Above(a, p) : a[m].parent.value \in Above(a, p) \cup {Root}
    BY <1>1, <2>1, AboveLeads DEF ParentsWithin
  <2>3. \A m \in T : /\ Writer(a[m].parent) = w /\ a[m].parent.value \in S
                     /\ a[m].parent.value \in Above(a, p) \cup {Root}
    BY <2>2
  <2>4. T # {} /\ T \in SUBSET AllNodes(a) /\ \A m \in T : a[m].parent.value \in T
    BY <1>1, <2>1, <2>2, <2>3
  <2> HIDE DEF T
  <2>. QED BY <2>3, <2>4 DEF NoLoopOf
<1>. QED BY <1>2, <1>3

\* A new node: nothing is in it.
LEMMA InsertMakesNoLoop ==
    ASSUME NEW a, AllNodes(a) \subseteq Nodes, ParentsWithin(a), NEW w, NoLoopOf(a, w),
           NEW n \in Nodes \ AllNodes(a), NEW b, AllNodes(b) = AllNodes(a) \cup {n},
           b[n].parent.value \in AllNodes(a) \cup {Root}, \A m \in AllNodes(a) : b[m].parent = a[m].parent
    PROVE  NoLoopOf(b, w)
<1> SUFFICES ASSUME NEW S \in SUBSET AllNodes(b), S # {}, \A m \in S : Writer(b[m].parent) = w,
                    \A m \in S : b[m].parent.value \in S
             PROVE  FALSE
  BY DEF NoLoopOf
<1>1. Root \notin Nodes
  BY NodesCount
<1> DEFINE T == S \ {n}
<1>2. \A m \in S : b[m].parent.value # n
  BY <1>1 DEF ParentsWithin
<1>3. T \in SUBSET AllNodes(a) /\ T # {}
  BY <1>2
<1>4. \A m \in T : Writer(a[m].parent) = w /\ a[m].parent.value \in T
  BY <1>2, <1>3
<1> HIDE DEF T
<1>. QED BY <1>3, <1>4 DEF NoLoopOf

-----------------------------------------------------------------------------
(* Who knows of whose moves.                                               *)

\* What is known has a folder or the root, by an item whose writer is one of the replicas or the seed's.
LEMMA ParentCells ==
    ASSUME NEW d, NEW t, Sound(d, t), NEW r \in Replicas
    PROVE  /\ AllNodes(d[r]) \subseteq Nodes
           /\ \A n \in Nodes :
                LET c == d[r][n].parent IN
                /\ c \in Cell(Nodes \cup {Root}) /\ c.line \in Seq(Nat)
                /\ n \in AllNodes(d[r]) <=> c.value # Absent
                /\ n \in AllNodes(d[r]) => Writer(c) \in Writers
                /\ \A s \in Replicas : SameItem(c, d[s][n].parent)
<1>1. d \in [Replicas -> [Nodes -> NodeType]] /\ KeysInv(d) /\ \A n \in Nodes : WholeNode(d[r][n])
  BY DEF Sound, NodesInv
<1>2. AllNodes(d[r]) \subseteq Nodes
  BY <1>1 DEF AllNodes
<1>3. ASSUME NEW n \in Nodes
      PROVE  LET c == d[r][n].parent IN
             /\ c \in Cell(Nodes \cup {Root}) /\ c.line \in Seq(Nat)
             /\ n \in AllNodes(d[r]) <=> c.value # Absent
             /\ n \in AllNodes(d[r]) => Writer(c) \in Writers
             /\ \A s \in Replicas : SameItem(c, d[s][n].parent)
  <2> DEFINE c == d[r][n].parent
  <2>1. c \in Cell(Nodes \cup {Root}) /\ c.line \in Lines /\ d[r][n]["parent"] = c
    BY <1>1 DEF NodeType, Cell
  <2>2. c.line \in Seq(Nat)
    BY <2>1, LinesOfNumbers
  <2>3. n \in AllNodes(d[r]) <=> c.value # Absent
    <3>1. NoNode.parent.value = Absent
      BY DEF NoNode, Never
    <3>. QED BY <1>1, <3>1 DEF AllNodes, WholeNode
  <2>4. ASSUME c.value # Absent PROVE Writer(c) \in Writers
    <3>1. c.line # <<>>
      BY <1>1, <2>1, <2>4 DEF WholeNode, Keys
    <3> DEFINE l == c.line
    <3>2. l \in Seq(Writers) /\ l # <<>>
      BY <2>1, <3>1 DEF Lines
    <3> HIDE DEF l
    <3>3. l[Len(l)] \in Writers
      BY <3>2
    <3>. QED BY <3>3 DEF Writer, l
  <2>5. ASSUME NEW s \in Replicas PROVE SameItem(c, d[s][n].parent)
    <3>1. KeyInv(Cells(d, n, "parent"))
      BY <1>1 DEF KeysInv, Keys
    <3>2. \A q \in Replicas : Cells(d, n, "parent")[q] = d[q][n].parent
      BY <1>1 DEF Cells, NodeType
    <3>. QED BY <3>1, <3>2 DEF KeyInv, SameItem
  <2>. QED BY <2>1, <2>2, <2>3, <2>4, <2>5
<1>. QED BY <1>2, <1>3

\* The writer of an item that goes on from another.
LEMMA LastWriter ==
    ASSUME NEW l \in Seq(Nat), NEW r \in Nat, NEW c, c.line = Append(l, r)
    PROVE  Writer(c) = r
BY DEF Writer

\* A replica that goes by its own items, or by ones that go on from them, goes by no
\* fewer moves than before, and by no other people's that are new.
LEMMA LocalMoves ==
    ASSUME NEW d, NEW t, Sound(d, t), MovesInv(d), NEW r \in Replicas, NEW nodes \in [Nodes -> NodeType],
           \A n \in Nodes : \/ nodes[n].parent.line = Append(d[r][n].parent.line, r)
                            \/ /\ nodes[n].parent.line = d[r][n].parent.line
                               /\ n \in AllNodes(nodes) => n \in AllNodes(d[r])
    PROVE  MovesInv([d EXCEPT ![r] = nodes])
<1> DEFINE e == [d EXCEPT ![r] = nodes]
           line(x, s, n) == x[s][n].parent.line
<1>1. e[r] = nodes /\ \A s \in Replicas \ {r} : e[s] = d[s]
  BY DEF Sound
<1>2. AllNodes(nodes) \subseteq Nodes /\ r \in Nat
  BY ReplicasAssumption DEF AllNodes
<1>3. \A s \in Replicas, n \in Nodes : line(d, s, n) \in Seq(Nat)
  BY ParentCells
<1>4. \A s \in Replicas : AllNodes(d[s]) \subseteq Nodes
  BY ParentCells
<1>5. ASSUME NEW n \in Nodes
      PROVE  nodes[n].parent.line \in Seq(Nat) /\ NotBefore(nodes[n].parent.line, line(d, r, n))
  <2> DEFINE l == line(d, r, n)
  <2>1. l \in Seq(Nat)
    BY <1>3
  <2>2. nodes[n].parent.line \in {l, Append(l, r)}
    OBVIOUS
  <2> HIDE DEF l
  <2>3. Append(l, r) \in Seq(Nat) /\ After(Append(l, r), l)
    BY <1>2, <2>1, Goes
  <2>4. nodes[n].parent.line \in Seq(Nat) /\ NotBefore(nodes[n].parent.line, l)
    BY <2>1, <2>2, <2>3 DEF NotBefore
  <2>. QED BY <2>4 DEF l
<1>6. ASSUME NEW n \in AllNodes(nodes), Writer(nodes[n].parent) # r
      PROVE  n \in AllNodes(d[r]) /\ line(d, r, n) = nodes[n].parent.line /\ Writer(d[r][n].parent) = Writer(nodes[n].parent)
  <2>1. nodes[n].parent.line # Append(line(d, r, n), r)
    <3> DEFINE c == nodes[n].parent
               l == line(d, r, n)
    <3>1. l \in Seq(Nat) /\ Writer(c) # r
      BY <1>2, <1>3, <1>6
    <3> HIDE DEF c, l
    <3>2. c.line # Append(l, r)
      BY <1>2, <3>1, LastWriter
    <3>. QED BY <3>2 DEF c, l
  <2>2. nodes[n].parent.line = d[r][n].parent.line /\ n \in AllNodes(d[r])
    BY <1>2, <2>1
  <2>. QED BY <2>2 DEF Writer
<1> HIDE DEF e
<1>7. ASSUME NEW s \in Replicas \ {r}, NEW w, KnowsMoves(d, r, s, w) PROVE KnowsMoves(e, r, s, w)
  <2> SUFFICES ASSUME NEW n \in AllNodes(d[s]), Writer(d[s][n].parent) = w
               PROVE  NotBefore(nodes[n].parent.line, line(d, s, n))
    BY <1>1 DEF KnowsMoves
  <2>1. NotBefore(line(d, r, n), line(d, s, n))
    BY <1>7 DEF KnowsMoves
  <2>2. n \in Nodes
    BY <1>4
  <2> DEFINE x == nodes[n].parent.line
             y == line(d, r, n)
             z == line(d, s, n)
  <2>3. x \in Seq(Nat) /\ y \in Seq(Nat) /\ z \in Seq(Nat) /\ NotBefore(x, y) /\ NotBefore(y, z)
    BY <1>3, <1>5, <2>1, <2>2
  <2> HIDE DEF x, y, z
  <2>4. NotBefore(x, z)
    BY <2>3, NotBeforeTransitive
  <2>. QED BY <2>4 DEF x, z
<1>8. ASSUME NEW s \in Replicas \ {r}, NEW w, w # r, KnowsMoves(d, s, r, w) PROVE KnowsMoves(e, s, r, w)
  BY <1>1, <1>6, <1>8 DEF KnowsMoves
<1>9. ASSUME NEW q \in Replicas, NEW w PROVE KnowsMoves(e, q, q, w)
  BY DEF KnowsMoves, NotBefore
<1>10. ASSUME NEW q \in Replicas, NEW s \in Replicas PROVE KnowsMoves(e, q, s, q)
  <2>1. KnowsMoves(d, q, s, q)
    BY DEF MovesInv
  <2>2. CASE q = s
    BY <1>9, <2>2
  <2>3. CASE q = r /\ s # r
    BY <1>7, <2>1, <2>3
  <2>4. CASE q # r /\ s = r
    BY <1>8, <2>1, <2>4
  <2>5. CASE q # r /\ s # r
    BY <1>1, <2>1, <2>5 DEF KnowsMoves
  <2>. QED BY <2>2, <2>3, <2>4, <2>5
<1>11. ASSUME NEW q \in Replicas, NEW s \in Replicas, NEW w \in Writers
       PROVE  KnowsMoves(e, q, s, w) \/ KnowsMoves(e, s, q, w)
  <2>1. KnowsMoves(d, q, s, w) \/ KnowsMoves(d, s, q, w)
    BY DEF MovesInv
  <2>2. CASE q = s
    BY <1>9, <2>2
  <2>3. CASE w \in {q, s}
    BY <1>10, <2>3
  <2>4. CASE q = r /\ s # r /\ w # r
    BY <1>7, <1>8, <2>1, <2>4
  <2>5. CASE q # r /\ s = r /\ w # r
    BY <1>7, <1>8, <2>1, <2>5
  <2>6. CASE q # r /\ s # r
    BY <1>1, <2>1, <2>6 DEF KnowsMoves
  <2>. QED BY <2>2, <2>3, <2>4, <2>5, <2>6
<1>12. MovesInv(e)
  BY <1>10, <1>11 DEF MovesInv
<1>. QED BY <1>12 DEF e

\* A merge goes by the moves of w that the one goes by who knows them all.
LEMMA MergedItem ==
    ASSUME NEW values, NEW c \in Cell(values), NEW e \in Cell(values), SameItem(c, e)
    PROVE  /\ Merge(c, e) \in {c, e}
           /\ NotBefore(Merge(c, e).line, c.line) /\ NotBefore(Merge(c, e).line, e.line)
           /\ NotBefore(c.line, e.line) /\ Absent \notin {c.value, e.value} => Merge(c, e) = c
           /\ NotBefore(e.line, c.line) /\ Absent \notin {c.value, e.value} => Merge(c, e) = e
<1>1. /\ c = [value |-> c.value, line |-> c.line] /\ c.line \in Seq(Nat)
      /\ e = [value |-> e.value, line |-> e.line] /\ e.line \in Seq(Nat)
  BY LinesOfNumbers DEF Cell
<1>2. CASE c.line = e.line
  BY <1>1, <1>2, AfterIrreflexive DEF Merge, NotBefore, SameItem
<1>3. CASE c.line # e.line
  BY <1>1, <1>3, AfterTotal, AfterAsymmetric DEF Merge, NotBefore
<1>. QED BY <1>2, <1>3

\* A synchronisation: what s hears of r's, it hears of with all that those who moved knew.
LEMMA SyncRace ==
    ASSUME NEW d, NEW t, Sound(d, t), RaceInv(d), NEW r \in Replicas, NEW s \in Replicas
    PROVE  RaceInv([d EXCEPT ![s] = [n \in Nodes |-> MergeNodes(@[n], d[r][n])]])
<1> DEFINE nodes == [n \in Nodes |-> MergeNodes(d[s][n], d[r][n])]
           e == [d EXCEPT ![s] = nodes]
           at(x, q, n) == x[q][n].parent
<1>1. e[s] = nodes /\ \A q \in Replicas \ {s} : e[q] = d[q]
  BY DEF Sound
<1>2. /\ \A q \in Replicas : AllNodes(d[q]) \subseteq Nodes
      /\ \A q \in Replicas, n \in Nodes :
           /\ at(d, q, n) \in Cell(Nodes \cup {Root}) /\ at(d, q, n).line \in Seq(Nat)
           /\ n \in AllNodes(d[q]) <=> at(d, q, n).value # Absent
           /\ n \in AllNodes(d[q]) => Writer(at(d, q, n)) \in Writers
           /\ \A p \in Replicas : SameItem(at(d, q, n), at(d, p, n))
  BY ParentCells
<1>3. AllNodes(nodes) = AllNodes(d[s]) \cup AllNodes(d[r])
  <2>1. ASSUME NEW n \in Nodes
        PROVE  n \in AllNodes(nodes) <=> n \in AllNodes(d[s]) \cup AllNodes(d[r])
    <3>1. /\ d[s][n] \in NodeType /\ d[r][n] \in NodeType /\ WholeNode(d[s][n]) /\ WholeNode(d[r][n])
          /\ d[s][n].kind # Never /\ d[r][n].kind # Never => d[s][n].kind = d[r][n].kind
      BY DEF Sound, NodesInv
    <3>2. nodes[n] = MergeNodes(d[s][n], d[r][n])
      OBVIOUS
    <3> HIDE DEF nodes
    <3> DEFINE x == d[s][n].kind
               y == d[r][n].kind
               z == nodes[n].kind
    <3>3. (x # Never => z = x) /\ (y # Never => z = y) /\ (z # Never => x # Never \/ y # Never)
      BY <3>1, <3>2, MergedNode
    <3>4. \A k \in {d[s][n], d[r][n]} : k.kind.value = Absent <=> k.kind = Never
      BY <3>1 DEF WholeNode, NoNode, Never
    <3>5. z.value = Absent <=> x.value = Absent /\ y.value = Absent
      BY <3>3, <3>4 DEF Never
    <3>6. n \in DOMAIN nodes /\ n \in DOMAIN d[s] /\ n \in DOMAIN d[r]
      BY DEF Sound, nodes
    <3>. QED BY <3>5, <3>6 DEF AllNodes
  <2>2. AllNodes(nodes) \subseteq Nodes
    BY DEF AllNodes
  <2> HIDE DEF nodes
  <2>. QED BY <1>2, <2>1, <2>2
<1>4. ASSUME NEW n \in Nodes
      PROVE  LET c == at(d, s, n) b == at(d, r, n) m == nodes[n].parent IN
             /\ m \in {c, b} /\ NotBefore(m.line, c.line) /\ NotBefore(m.line, b.line)
             /\ NotBefore(c.line, b.line) /\ Absent \notin {c.value, b.value} => m = c
             /\ NotBefore(b.line, c.line) /\ Absent \notin {c.value, b.value} => m = b
  <2> DEFINE c == at(d, s, n)
             b == at(d, r, n)
             V == Nodes \cup {Root}
  <2>1. c \in Cell(V) /\ b \in Cell(V) /\ SameItem(c, b)
    BY <1>2
  <2>2. nodes[n].parent = Merge(c, b)
    BY DEF MergeNodes
  <2> HIDE DEF c, b, V
  <2>3. /\ Merge(c, b) \in {c, b} /\ NotBefore(Merge(c, b).line, c.line) /\ NotBefore(Merge(c, b).line, b.line)
        /\ NotBefore(c.line, b.line) /\ Absent \notin {c.value, b.value} => Merge(c, b) = c
        /\ NotBefore(b.line, c.line) /\ Absent \notin {c.value, b.value} => Merge(c, b) = b
    BY <2>1, MergedItem
  <2>. QED BY <2>2, <2>3 DEF c, b
<1> HIDE DEF e, nodes
<1>5. ASSUME NEW n \in AllNodes(nodes)
      PROVE  /\ n \in Nodes
             /\ \E q \in {s, r} : n \in AllNodes(d[q]) /\ nodes[n].parent = at(d, q, n)
  <2>1. n \in Nodes
    BY <1>2, <1>3
  <2>2. PICK q \in {s, r} : nodes[n].parent = at(d, q, n)
    BY <1>4, <2>1
  <2>3. CASE at(d, q, n).value # Absent
    BY <1>2, <2>1, <2>2, <2>3
  <2>4. CASE at(d, q, n).value = Absent
    <3>1. n \notin AllNodes(d[q])
      BY <1>2, <2>1, <2>4
    <3>2. PICK p \in {s, r} : n \in AllNodes(d[p])
      BY <1>3
    <3>3. at(d, q, n).line = <<>> /\ at(d, q, n) = Never
      <4>1. d[q][n] = NoNode
        BY <2>1, <3>1 DEF AllNodes, Sound, NodesInv, WholeNode
      <4>. QED BY <4>1 DEF NoNode, Never
    <3>4. at(d, p, n).line # <<>>
      <4>1. /\ d[p][n] \in NodeType /\ WholeNode(d[p][n]) /\ d[p][n].parent.value # Absent
        BY <1>2, <2>1, <3>2 DEF Sound, NodesInv
      <4>. QED BY <4>1 DEF WholeNode, Keys, NodeType
    <3>5. NotBefore(<<>>, at(d, p, n).line)
      BY <1>4, <2>1, <2>2, <3>3
    <3>. QED BY <1>2, <2>1, <3>4, <3>5, AfterNone DEF NotBefore
  <2>. QED BY <2>1, <2>3, <2>4
<1>6. ASSUME NEW q \in Replicas, NEW w, KnowsMoves(d, q, r, w), KnowsMoves(d, q, s, w)
      PROVE  \A n \in AllNodes(nodes) :
               Writer(nodes[n].parent) = w => NotBefore(at(d, q, n).line, nodes[n].parent.line)
  BY <1>5, <1>6 DEF KnowsMoves
<1>7. ASSUME NEW p \in {s, r}, NEW q \in Replicas, NEW w, KnowsMoves(d, p, q, w)
      PROVE  \A n \in AllNodes(d[q]) :
               Writer(at(d, q, n)) = w => NotBefore(nodes[n].parent.line, at(d, q, n).line)
  <2> SUFFICES ASSUME NEW n \in AllNodes(d[q]), Writer(at(d, q, n)) = w
               PROVE  NotBefore(nodes[n].parent.line, at(d, q, n).line)
    OBVIOUS
  <2> DEFINE x == nodes[n].parent.line
             y == at(d, p, n).line
             z == at(d, q, n).line
  <2>1. n \in Nodes /\ NotBefore(y, z)
    BY <1>2, <1>7 DEF KnowsMoves
  <2>2. NotBefore(x, y) /\ x \in Seq(Nat) /\ y \in Seq(Nat) /\ z \in Seq(Nat)
    BY <1>2, <1>4, <2>1
  <2> HIDE DEF x, y, z
  <2>3. NotBefore(x, z)
    BY <2>1, <2>2, NotBeforeTransitive
  <2>. QED BY <2>3 DEF x, z
<1>8. ASSUME NEW q \in Replicas PROVE \A w : KnowsMoves(e, q, q, w)
  BY DEF KnowsMoves, NotBefore
<1>9. MovesInv(e)
  <2>1. \A q \in Replicas, p \in Replicas : KnowsMoves(d, q, p, q)
    BY DEF RaceInv, MovesInv
  <2>2. \A q \in Replicas, p \in Replicas, w \in Writers : KnowsMoves(d, q, p, w) \/ KnowsMoves(d, p, q, w)
    BY DEF RaceInv, MovesInv
  <2>3. ASSUME NEW q \in Replicas \ {s}, NEW w, KnowsMoves(d, q, r, w), KnowsMoves(d, q, s, w)
        PROVE  KnowsMoves(e, q, s, w)
    BY <1>1, <1>6, <2>3 DEF KnowsMoves
  <2>4. ASSUME NEW q \in Replicas \ {s}, NEW p \in {s, r}, NEW w, KnowsMoves(d, p, q, w)
        PROVE  KnowsMoves(e, s, q, w)
    BY <1>1, <1>7, <2>4 DEF KnowsMoves
  <2>5. ASSUME NEW q \in Replicas, NEW p \in Replicas PROVE KnowsMoves(e, q, p, q)
    <3>1. CASE q = p
      BY <1>8, <3>1
    <3>2. CASE q # s /\ p = s
      BY <2>1, <2>3, <3>2
    <3>3. CASE q = s /\ p # s
      BY <2>1, <2>4, <3>3
    <3>4. CASE q # s /\ p # s
      BY <1>1, <2>1, <3>4 DEF KnowsMoves
    <3>. QED BY <3>1, <3>2, <3>3, <3>4
  <2>6. ASSUME NEW q \in Replicas \ {s}, NEW w \in Writers PROVE KnowsMoves(e, q, s, w) \/ KnowsMoves(e, s, q, w)
    <3>1. CASE KnowsMoves(d, q, r, w) /\ KnowsMoves(d, q, s, w)
      BY <2>3, <3>1
    <3>2. CASE ~KnowsMoves(d, q, r, w)
      <4>1. KnowsMoves(d, r, q, w)
        BY <2>2, <3>2
      <4>. QED BY <2>4, <4>1
    <3>3. CASE ~KnowsMoves(d, q, s, w)
      <4>1. KnowsMoves(d, s, q, w)
        BY <2>2, <3>3
      <4>. QED BY <2>4, <4>1
    <3>. QED BY <3>1, <3>2, <3>3
  <2>7. ASSUME NEW q \in Replicas, NEW p \in Replicas, NEW w \in Writers
        PROVE  KnowsMoves(e, q, p, w) \/ KnowsMoves(e, p, q, w)
    <3>1. CASE q = p
      BY <1>8, <3>1
    <3>2. CASE q # p /\ s \in {q, p}
      BY <2>6, <3>2
    <3>3. CASE q # s /\ p # s
      BY <1>1, <2>2, <3>3 DEF KnowsMoves
    <3>. QED BY <3>1, <3>2, <3>3
  <2>. QED BY <2>5, <2>7 DEF MovesInv
<1>10. ParentsKnown(e)
  <2>1. \A n \in AllNodes(nodes) : nodes[n].parent.value \in AllNodes(nodes) \cup {Root}
    BY <1>3, <1>5 DEF RaceInv, ParentsKnown
  <2>. QED BY <1>1, <2>1 DEF RaceInv, ParentsKnown
<1>11. ASSUME NEW w \in Writers PROVE NoLoopOf(nodes, w)
  <2> SUFFICES ASSUME NEW S \in SUBSET AllNodes(nodes), S # {}, \A m \in S : Writer(nodes[m].parent) = w,
                      \A m \in S : nodes[m].parent.value \in S
               PROVE  FALSE
    BY DEF NoLoopOf
  <2>1. PICK p \in {s, r}, q \in {s, r} : {p, q} = {s, r} /\ KnowsMoves(d, p, q, w)
    <3>1. KnowsMoves(d, s, r, w) \/ KnowsMoves(d, r, s, w)
      BY DEF RaceInv, MovesInv
    <3>. QED BY <3>1
  <2>2. ASSUME NEW n \in S PROVE n \in AllNodes(d[p]) /\ nodes[n].parent = at(d, p, n)
    <3>1. PICK x \in {s, r} : n \in Nodes /\ n \in AllNodes(d[x]) /\ nodes[n].parent = at(d, x, n)
      BY <1>5
    <3>2. CASE x = p
      BY <3>1, <3>2
    <3>3. CASE x = q
      <4>1. NotBefore(at(d, p, n).line, at(d, q, n).line)
        BY <2>1, <3>1, <3>3 DEF KnowsMoves
      <4>2. at(d, q, n).line # <<>>
        <5>1. /\ d[q][n] \in NodeType /\ WholeNode(d[q][n]) /\ d[q][n].parent.value # Absent
          BY <1>2, <3>1, <3>3 DEF Sound, NodesInv
        <5>. QED BY <5>1 DEF WholeNode, Keys, NodeType
      <4>3. n \in AllNodes(d[p])
        <5> SUFFICES ASSUME n \notin AllNodes(d[p]) PROVE FALSE
          OBVIOUS
        <5>1. d[p][n] = NoNode
          BY <3>1 DEF AllNodes, Sound, NodesInv, WholeNode
        <5>2. at(d, p, n).line = <<>>
          BY <5>1 DEF NoNode, Never
        <5>. QED BY <1>2, <3>1, <4>1, <4>2, <5>2, AfterNone DEF NotBefore
      <4>4. Absent \notin {at(d, p, n).value, at(d, q, n).value}
        BY <1>2, <3>1, <3>3, <4>3
      <4>. QED BY <1>4, <2>1, <3>1, <3>3, <4>1, <4>3, <4>4
    <3>. QED BY <2>1, <3>1, <3>2, <3>3
  <2>3. NoLoopOf(d[p], w) /\ S \in SUBSET AllNodes(d[p])
    BY <2>2 DEF RaceInv, LoopsInv
  <2>. QED BY <2>2, <2>3 DEF NoLoopOf
<1>. QED BY <1>1, <1>9, <1>10, <1>11 DEF RaceInv, LoopsInv, e, nodes

-----------------------------------------------------------------------------
(* The steps of the specification, and the moves.                          *)

\* What moves nothing and makes nothing.
LEMMA KeptRace ==
    ASSUME NEW d, NEW t, Sound(d, t), RaceInv(d), NEW r \in Replicas, NEW nodes \in [Nodes -> NodeType],
           \A n \in Nodes : /\ nodes[n].parent = d[r][n].parent
                            /\ nodes[n].kind.value = Absent <=> d[r][n].kind.value = Absent
    PROVE  RaceInv([d EXCEPT ![r] = nodes])
<1> DEFINE e == [d EXCEPT ![r] = nodes]
<1>1. e[r] = nodes /\ \A s \in Replicas \ {r} : e[s] = d[s]
  BY DEF Sound
<1>2. AllNodes(nodes) = AllNodes(d[r]) /\ AllNodes(d[r]) \subseteq Nodes
  BY DEF Sound, AllNodes
<1>3. MovesInv(e)
  BY <1>2, LocalMoves DEF RaceInv
<1> HIDE DEF e
<1>4. ParentsKnown(e)
  BY <1>1, <1>2 DEF RaceInv, ParentsKnown
<1>5. \A w \in Writers : NoLoopOf(nodes, w)
  BY <1>2 DEF RaceInv, LoopsInv, NoLoopOf
<1>6. LoopsInv(e)
  BY <1>1, <1>5 DEF RaceInv, LoopsInv
<1>. QED BY <1>3, <1>4, <1>6 DEF RaceInv, e

\* A move onto a folder that is not in the node.
LEMMA MovedRace ==
    ASSUME NEW d, NEW t, Sound(d, t), RaceInv(d), NEW r \in Replicas,
           NEW p \in AllNodes(d[r]) \cup {Root}, NEW n \in AllNodes(d[r]) \ Above(d[r], p)
    PROVE  RaceInv([d EXCEPT ![r][n].parent = Set(r, @, p)])
<1> DEFINE c == d[r][n].parent
           moved == [d[r][n] EXCEPT !.parent = Set(r, c, p)]
           nodes == [d[r] EXCEPT ![n] = moved]
           e == [d EXCEPT ![r] = nodes]
<1>1. d \in [Replicas -> [Nodes -> NodeType]] /\ AllNodes(d[r]) \subseteq Nodes
  BY DEF Sound, AllNodes
<1>2. [d EXCEPT ![r][n].parent = Set(r, @, p)] = e
  BY <1>1
<1>3. e[r] = nodes /\ \A s \in Replicas \ {r} : e[s] = d[s]
  BY <1>1
<1>4. Set(r, c, p) \in Cell(Nodes \cup {Root}) /\ Set(r, c, p).value = p /\ Set(r, c, p).line = Append(c.line, r)
  <2> DEFINE V == Nodes \cup {Root}
  <2>1. c \in Cell(V) /\ p \in V /\ r \in Writers
    BY <1>1, AllWriters DEF NodeType
  <2> HIDE DEF V, c
  <2>. QED BY <2>1, SetCell DEF V
<1>5. /\ nodes \in [Nodes -> NodeType] /\ nodes[n].parent = Set(r, c, p) /\ nodes[n].kind = d[r][n].kind
      /\ \A m \in Nodes \ {n} : nodes[m] = d[r][m]
  <2>1. n \in Nodes /\ d[r][n] \in NodeType
    BY <1>1
  <2>2. moved \in NodeType /\ moved.parent = Set(r, c, p) /\ moved.kind = d[r][n].kind
    <3> DEFINE x == Set(r, c, p)
               a == d[r][n]
    <3>1. x \in Cell(Nodes \cup {Root}) /\ a \in NodeType /\ moved = [a EXCEPT !.parent = x]
      BY <1>4, <2>1
    <3> HIDE DEF x, a, moved
    <3>2. moved \in NodeType /\ moved.parent = x /\ moved.kind = a.kind
      BY <3>1 DEF NodeType
    <3>. QED BY <3>2 DEF x, a
  <2> HIDE DEF moved
  <2>. QED BY <1>1, <2>1, <2>2
<1> HIDE DEF moved, nodes, e, c
<1>6. AllNodes(nodes) = AllNodes(d[r])
  BY <1>1, <1>5 DEF AllNodes
<1>7. MovesInv(e)
  <2>1. \A m \in Nodes : \/ nodes[m].parent.line = Append(d[r][m].parent.line, r)
                         \/ /\ nodes[m].parent.line = d[r][m].parent.line
                            /\ m \in AllNodes(nodes) => m \in AllNodes(d[r])
    BY <1>4, <1>5, <1>6 DEF c
  <2>. QED BY <1>5, <2>1, LocalMoves DEF RaceInv, e
<1>8. ParentsWithin(d[r])
  BY DEF RaceInv, ParentsKnown, ParentsWithin
<1>9. nodes[n].parent.value = p
  BY <1>4, <1>5
<1>10. ParentsKnown(e)
  BY <1>1, <1>3, <1>5, <1>6, <1>9 DEF RaceInv, ParentsKnown
<1>11. \A w \in Writers : NoLoopOf(nodes, w)
  <2>1. \A w \in Writers : NoLoopOf(d[r], w)
    BY DEF RaceInv, LoopsInv
  <2>2. \A m \in AllNodes(d[r]) \ {n} : nodes[m].parent = d[r][m].parent
    BY <1>1, <1>5
  <2>. QED BY <1>1, <1>6, <1>8, <1>9, <2>1, <2>2, MoveMakesNoLoop
<1>12. LoopsInv(e)
  BY <1>3, <1>11 DEF RaceInv, LoopsInv
<1>. QED BY <1>2, <1>7, <1>10, <1>12 DEF RaceInv

\* What insertNode makes of the nodes.
Inserts(r, a, n, kind, name, parent, nodes) ==
    /\ nodes \in [Nodes -> NodeType] /\ AllNodes(nodes) = AllNodes(a) \cup {n}
    /\ \A m \in Nodes \ {n} : nodes[m] = a[m]
    /\ nodes[n].kind.value = kind /\ nodes[n].name.value = Trim(name) /\ nodes[n].parent.value = parent
    /\ nodes[n].trashed = Never /\ nodes[n].parent.line = Append(<<>>, r)

LEMMA Inserted ==
    ASSUME NEW r \in Replicas, NEW a \in [Nodes -> NodeType], NEW n \in Nodes,
           NEW kind \in {"file", "folder"}, NEW name, Trim(name) \in Titles, NEW parent \in Nodes \cup {Root}, NEW holds,
           kind = "file" => holds \in Holds
    PROVE  Inserts(r, a, n, kind, name, parent, InsertNode(r, a, n, kind, name, parent, holds))
<1> DEFINE m == NewNode(r, kind, Trim(name), parent, holds)
           nodes == InsertNode(r, a, n, kind, name, parent, holds)
<1>1. m \in NodeType
  BY NewNodeWhole, AllWriters
<1>2. /\ m.kind = Set(r, Never, kind) /\ m.name = Set(r, Never, Trim(name)) /\ m.parent = Set(r, Never, parent)
      /\ m.trashed = Never
  BY DEF NewNode
<1>3. \A v : Set(r, Never, v).value = v /\ Set(r, Never, v).line = Append(<<>>, r)
  BY DEF Set, Never
<1>4. nodes = [a EXCEPT ![n] = m]
  BY DEF InsertNode
<1> HIDE DEF m, nodes
<1>5. nodes \in [Nodes -> NodeType] /\ nodes[n] = m /\ \A k \in Nodes \ {n} : nodes[k] = a[k]
  BY <1>1, <1>4
<1>6. AllNodes(nodes) = AllNodes(a) \cup {n}
  <2>1. kind # Absent
    BY AbsentAssumption
  <2>. QED BY <1>2, <1>3, <1>5, <2>1 DEF AllNodes
<1>7. Inserts(r, a, n, kind, name, parent, nodes)
  BY <1>2, <1>3, <1>5, <1>6 DEF Inserts
<1>. QED BY <1>7 DEF nodes

\* A new node, in a folder that is known.
LEMMA InsertedRace ==
    ASSUME NEW d, NEW t, Sound(d, t), RaceInv(d), NEW r \in Replicas,
           NEW n \in NewNodes, \A s \in Replicas : n \notin AllNodes(d[s]),
           NEW kind \in {"file", "folder"}, NEW name, Trim(name) \in Titles, NEW parent \in AllNodes(d[r]) \cup {Root}, NEW holds,
           kind = "file" => holds \in Holds
    PROVE  RaceInv([d EXCEPT ![r] = InsertNode(r, d[r], n, kind, name, parent, holds)])
<1> DEFINE nodes == InsertNode(r, d[r], n, kind, name, parent, holds)
           e == [d EXCEPT ![r] = nodes]
<1>1. d \in [Replicas -> [Nodes -> NodeType]] /\ AllNodes(d[r]) \subseteq Nodes /\ n \in Nodes
  BY DEF Sound, AllNodes, Nodes
<1>2. e[r] = nodes /\ \A s \in Replicas \ {r} : e[s] = d[s]
  BY <1>1
<1>3. /\ n \in Nodes /\ nodes \in [Nodes -> NodeType] /\ AllNodes(nodes) = AllNodes(d[r]) \cup {n}
      /\ \A m \in Nodes \ {n} : nodes[m] = d[r][m]
      /\ nodes[n].parent.value = parent /\ nodes[n].parent.line = Append(<<>>, r) /\ d[r][n] = NoNode
  <2>1. parent \in Nodes \cup {Root} /\ d[r] \in [Nodes -> NodeType]
    BY <1>1
  <2>2. Inserts(r, d[r], n, kind, name, parent, nodes)
    BY <1>1, <2>1, Inserted
  <2>3. d[r][n] = NoNode
    BY <1>1 DEF AllNodes, Sound, NodesInv, WholeNode
  <2> HIDE DEF nodes
  <2>. QED BY <1>1, <2>2, <2>3 DEF Inserts
<1> HIDE DEF nodes, e
<1>4. n \notin AllNodes(d[r]) /\ d[r][n].parent.line = <<>>
  BY <1>3 DEF NoNode, Never
<1>5. MovesInv(e)
  <2>1. \A m \in Nodes : \/ nodes[m].parent.line = Append(d[r][m].parent.line, r)
                         \/ /\ nodes[m].parent.line = d[r][m].parent.line
                            /\ m \in AllNodes(nodes) => m \in AllNodes(d[r])
    BY <1>3, <1>4
  <2>. QED BY <1>3, <2>1, LocalMoves DEF RaceInv, e
<1>6. ParentsWithin(d[r]) /\ \A m \in AllNodes(d[r]) : nodes[m].parent = d[r][m].parent
  BY <1>1, <1>3, <1>4 DEF RaceInv, ParentsKnown, ParentsWithin
<1>7. ParentsKnown(e)
  <2>1. \A m \in AllNodes(nodes) : nodes[m].parent.value \in AllNodes(nodes) \cup {Root}
    BY <1>3, <1>6 DEF ParentsWithin
  <2>. QED BY <1>2, <2>1 DEF RaceInv, ParentsKnown
<1>8. \A w \in Writers : NoLoopOf(nodes, w)
  <2>1. \A w \in Writers : NoLoopOf(d[r], w)
    BY DEF RaceInv, LoopsInv
  <2>. QED BY <1>1, <1>3, <1>4, <1>6, <2>1, InsertMakesNoLoop
<1>9. LoopsInv(e)
  BY <1>2, <1>8 DEF RaceInv, LoopsInv
<1>. QED BY <1>5, <1>7, <1>9 DEF RaceInv, e, nodes

\* Anything else that is written to a node.
LEMMA KeptNode ==
    ASSUME Sound(doc, typed), MoveInv, NEW r \in Replicas, NEW n \in AllNodes(doc[r]), NEW m,
           Turns(r, doc[r][n], m), m.parent = doc[r][n].parent, doc' = [doc EXCEPT ![r][n] = m]
    PROVE  MoveInv'
<1> DEFINE nodes == [doc[r] EXCEPT ![n] = m]
<1>1. doc \in [Replicas -> [Nodes -> NodeType]] /\ n \in Nodes /\ m \in NodeType
  BY DEF Sound, AllNodes, Turns
<1>2. nodes \in [Nodes -> NodeType] /\ nodes[n] = m /\ \A k \in Nodes \ {n} : nodes[k] = doc[r][k]
  BY <1>1
<1>3. doc' = [doc EXCEPT ![r] = nodes]
  BY <1>1
<1>4. doc[r][n].kind # Never /\ m.kind = doc[r][n].kind
  BY <1>1 DEF AllNodes, Never, Turns
<1> HIDE DEF nodes
<1>5. \A k \in Nodes : /\ nodes[k].parent = doc[r][k].parent
                       /\ nodes[k].kind.value = Absent <=> doc[r][k].kind.value = Absent
  BY <1>2, <1>4
<1>6. RaceInv([doc EXCEPT ![r] = nodes])
  BY <1>2, <1>5, KeptRace DEF MoveInv
<1>. QED BY <1>3, <1>6 DEF MoveInv

\* Every transaction keeps the race invariant.
LEMMA RaceStep ==
    ASSUME TreeInv, MoveInv, NEW r \in Replicas, Change(r)
    PROVE  MoveInv'
<1>1. Sound(doc, typed) /\ RaceInv(doc) /\ doc \in [Replicas -> [Nodes -> NodeType]]
  BY DEF TreeInv, MoveInv, Sound
<1>2. Folders(doc[r]) \subseteq AllNodes(doc[r]) /\ Live(doc[r]) \subseteq AllNodes(doc[r]) /\ \A name \in Names : Trim(name) \in Titles
  BY <1>1, KnownNodes DEF Folders
<1>3. SUFFICES RaceInv(doc')
  BY DEF MoveInv
<1>4. CASE Create(r)
  <2>1. PICK n \in Fresh, parent \in Folders(doc[r]) \cup {Root}, name \in Names :
          \/ doc' = [doc EXCEPT ![r] = InsertNode(r, doc[r], n, "folder", name, parent, Absent)]
          \/ \E holds \in Holds :
               doc' = [doc EXCEPT ![r] = InsertNode(r, doc[r], n, "file", name, parent, holds)]
    BY <1>4 DEF Create
  <2>2. n \in NewNodes /\ (\A s \in Replicas : n \notin AllNodes(doc[s])) /\ parent \in AllNodes(doc[r]) \cup {Root}
        /\ Trim(name) \in Titles
    BY <1>2, FreshIds
  <2>3. CASE doc' = [doc EXCEPT ![r] = InsertNode(r, doc[r], n, "folder", name, parent, Absent)]
    BY <1>1, <2>2, <2>3, InsertedRace
  <2>4. ASSUME NEW holds \in Holds,
               doc' = [doc EXCEPT ![r] = InsertNode(r, doc[r], n, "file", name, parent, holds)]
        PROVE  RaceInv(doc')
    BY <1>1, <2>2, <2>4, InsertedRace
  <2>. QED BY <2>1, <2>3, <2>4
<1>5. CASE CreateAtPath(r)
  <2>1. PICK folder \in Names, name \in Names, holds \in Holds :
          \E nodes \in CreatedAtPath(r, doc[r], folder, name, holds) : doc' = [doc EXCEPT ![r] = nodes]
    BY <1>5 DEF CreateAtPath
  <2>2. PICK nodes \in CreatedAtPath(r, doc[r], folder, name, holds) : doc' = [doc EXCEPT ![r] = nodes]
    BY <2>1
  <2>3. Trim(folder) \in Titles /\ Trim(name) \in Titles
    BY <1>2
  <2>4. ASSUME NEW n \in Fresh, NEW m \in Folders(doc[r]), nodes = InsertNode(r, doc[r], n, "file", name, m, holds)
        PROVE  RaceInv(doc')
    <3>1. n \in NewNodes /\ (\A s \in Replicas : n \notin AllNodes(doc[s])) /\ m \in AllNodes(doc[r]) \cup {Root}
      BY <1>2, FreshIds
    <3>. QED BY <1>1, <2>2, <2>3, <2>4, <3>1, InsertedRace
  <2>5. ASSUME NEW p \in Fresh, NEW q \in Fresh, p # q,
               nodes = InsertNode(r, InsertNode(r, doc[r], p, "folder", folder, Root, Absent), q, "file", name, p, holds)
        PROVE  RaceInv(doc')
    <3> DEFINE made == InsertNode(r, doc[r], p, "folder", folder, Root, Absent)
               e == [doc EXCEPT ![r] = made]
    <3>1. p \in NewNodes /\ q \in NewNodes /\ \A s \in Replicas : p \notin AllNodes(doc[s]) /\ q \notin AllNodes(doc[s])
      BY FreshIds
    <3>2. Sound(e, typed) /\ RaceInv(e)
      <4>1. Root \in Nodes \cup {Root} /\ Root \in AllNodes(doc[r]) \cup {Root} /\ "folder" # "file"
        OBVIOUS
      <4>. QED BY <1>1, <2>3, <3>1, <4>1, InsertStep, InsertedRace
    <3>3. AllNodes(made) = AllNodes(doc[r]) \cup {p}
      <4>1. p \in Nodes /\ Root \in Nodes \cup {Root} /\ "folder" # "file" /\ doc[r] \in [Nodes -> NodeType]
        BY <1>1, <3>1 DEF Nodes
      <4>2. Inserts(r, doc[r], p, "folder", folder, Root, made)
        BY <2>3, <4>1, Inserted
      <4>. QED BY <4>2 DEF Inserts
    <3>4. /\ e[r] = made /\ \A s \in Replicas \ {r} : e[s] = doc[s]
          /\ \A x : [e EXCEPT ![r] = x] = [doc EXCEPT ![r] = x]
      BY <1>1
    <3>5. \A s \in Replicas : q \notin AllNodes(e[s])
      BY <2>5, <3>1, <3>3, <3>4
    <3>6. p \in AllNodes(e[r]) \cup {Root}
      BY <3>3, <3>4
    <3> HIDE DEF e, made
    <3>7. RaceInv([e EXCEPT ![r] = InsertNode(r, e[r], q, "file", name, p, holds)])
      BY <2>3, <3>1, <3>2, <3>5, <3>6, InsertedRace
    <3>. QED BY <2>2, <2>5, <3>4, <3>7 DEF made
  <2>6. \/ \E n \in Fresh, m \in Folders(doc[r]) : nodes = InsertNode(r, doc[r], n, "file", name, m, holds)
        \/ \E p, q \in Fresh : /\ p # q
                               /\ nodes = InsertNode(r, InsertNode(r, doc[r], p, "folder", folder, Root, Absent),
                                                     q, "file", name, p, holds)
    <3> DEFINE there == At(ListTree(doc[r]), <<folder>>)
    <3>1. \/ \E n \in Fresh, m \in there \cap Folders(doc[r]) : nodes = InsertNode(r, doc[r], n, "file", name, m, holds)
          \/ /\ there = {} \/ ~(there \subseteq Folders(doc[r]))
             /\ \E p, q \in Fresh : /\ p # q
                                    /\ nodes = InsertNode(r, InsertNode(r, doc[r], p, "folder", folder, Root, Absent),
                                                          q, "file", name, p, holds)
      BY <2>2, MadeAtPath
    <3> HIDE DEF there
    <3>. QED BY <3>1
  <2>. QED BY <2>4, <2>5, <2>6
<1>6. CASE Rename(r)
  <2>1. PICK n \in Live(doc[r]), name \in Names : doc' = [doc EXCEPT ![r][n].name = Set(r, @, Trim(name))]
    BY <1>6 DEF Rename
  <2> DEFINE title == Trim(name)
             m == [doc[r][n] EXCEPT !.name = Set(r, doc[r][n].name, title)]
  <2>2. title \in Titles /\ doc' = [doc EXCEPT ![r][n].name = Set(r, @, title)]
    BY <1>2, <2>1
  <2> HIDE DEF title
  <2>3. n \in AllNodes(doc[r]) /\ Turns(r, doc[r][n], m) /\ doc[r][n] \in NodeType
    BY <1>1, <1>2, <2>2, KnownNodes, KeptTurns
  <2>4. doc' = [doc EXCEPT ![r][n] = m] /\ m.parent = doc[r][n].parent
    BY <1>1, <2>2, <2>3 DEF NodeType
  <2> HIDE DEF m
  <2>. QED BY <1>1, <2>3, <2>4, KeptNode DEF MoveInv
<1>7. CASE Move(r)
  <2>1. PICK parent \in Folders(doc[r]) \cup {Root}, n \in AllNodes(doc[r]) :
          /\ n \notin Above(doc[r], parent)
          /\ doc' = [doc EXCEPT ![r][n].parent = Set(r, @, parent)]
    BY <1>7 DEF Move
  <2>2. parent \in AllNodes(doc[r]) \cup {Root}
    BY <1>2
  <2>3. RaceInv([doc EXCEPT ![r][n].parent = Set(r, @, parent)])
    BY <1>1, <2>1, <2>2, MovedRace
  <2>. QED BY <2>1, <2>3
<1>8. CASE Trash(r)
  <2>1. PICK n \in AllNodes(doc[r]) : doc' = [doc EXCEPT ![r][n].trashed = Set(r, @, "trashed")]
    BY <1>8 DEF Trash
  <2> DEFINE m == [doc[r][n] EXCEPT !.trashed = Set(r, doc[r][n].trashed, "trashed")]
  <2>2. Turns(r, doc[r][n], m) /\ doc[r][n] \in NodeType
    BY <1>1, KnownNodes, KeptTurns
  <2>3. doc' = [doc EXCEPT ![r][n] = m] /\ m.parent = doc[r][n].parent
    BY <1>1, <2>1, <2>2 DEF NodeType
  <2> HIDE DEF m
  <2>. QED BY <1>1, <2>2, <2>3, KeptNode DEF MoveInv
<1>9. CASE Restore(r)
  <2>1. PICK n \in AllNodes(doc[r]) : doc' = [doc EXCEPT ![r][n].trashed = Delete(@)]
    BY <1>9 DEF Restore
  <2> DEFINE m == [doc[r][n] EXCEPT !.trashed = Delete(doc[r][n].trashed)]
  <2>2. Turns(r, doc[r][n], m) /\ doc[r][n] \in NodeType
    BY <1>1, KnownNodes, KeptTurns
  <2>3. doc' = [doc EXCEPT ![r][n] = m] /\ m.parent = doc[r][n].parent
    BY <1>1, <2>1, <2>2 DEF NodeType
  <2> HIDE DEF m
  <2>. QED BY <1>1, <2>2, <2>3, KeptNode DEF MoveInv
<1>10. CASE SetBlob(r)
  <2>1. PICK n \in Files(doc[r]), blob \in Bytes :
          doc' = [doc EXCEPT ![r][n].blob = Set(r, @, blob), ![r][n].text = Delete(@)]
    BY <1>10 DEF SetBlob
  <2> DEFINE m == [doc[r][n] EXCEPT !.blob = Set(r, doc[r][n].blob, blob), !.text = Delete(doc[r][n].text)]
  <2>2. n \in AllNodes(doc[r]) /\ Turns(r, doc[r][n], m) /\ doc[r][n] \in NodeType
    BY <1>1, KnownNodes, FilledTurns
  <2>3. doc' = [doc EXCEPT ![r][n] = m]
    BY <1>1, <2>1
  <2>4. m.parent = doc[r][n].parent
    BY <2>2 DEF NodeType
  <2> HIDE DEF m
  <2>. QED BY <1>1, <2>2, <2>3, <2>4, KeptNode DEF MoveInv
<1>11. CASE Type(r)
  BY <1>1, <1>11 DEF Type
<1>12. CASE SetFileText(r)
  <2>1. PICK n \in Files(doc[r]) :
          /\ ~HasText(doc[r][n])
          /\ doc' = [doc EXCEPT ![r][n].blob = Delete(@), ![r][n].text = Set(r, @, "text")]
    BY <1>12 DEF SetFileText
  <2> DEFINE m == [doc[r][n] EXCEPT !.blob = Delete(doc[r][n].blob), !.text = Set(r, doc[r][n].text, "text")]
  <2>2. n \in AllNodes(doc[r]) /\ Turns(r, doc[r][n], m) /\ doc[r][n] \in NodeType
    BY <1>1, <2>1, KnownNodes, FilledTurns
  <2>3. doc' = [doc EXCEPT ![r][n] = m]
    BY <1>1, <2>1
  <2>4. m.parent = doc[r][n].parent
    BY <2>2 DEF NodeType
  <2> HIDE DEF m
  <2>. QED BY <1>1, <2>2, <2>3, <2>4, KeptNode DEF MoveInv
<1>. QED BY <1>4, <1>5, <1>6, <1>7, <1>8, <1>9, <1>10, <1>11, <1>12 DEF Change

\* Nothing was moved yet, and the first folders do not lead in a circle.
LEMMA SeedsRace == RaceInv([r \in Replicas |-> SeedNodes])
<1> DEFINE d == [r \in Replicas |-> SeedNodes]
<1>1. DOMAIN SeedNodes = Nodes /\ \A r \in Replicas : d[r] = SeedNodes
  BY DEF SeedNodes
<1>2. ASSUME NEW n \in Nodes
      PROVE  \/ n \in NewNodes /\ SeedNodes[n].kind.value = Absent
             \/ \E s \in Seeds : /\ s.node = n /\ SeedNodes[n].kind.value = s.kind
                                 /\ SeedNodes[n].parent.value = s.parent
  <2>1. CASE n \in NewNodes
    <3>1. SeedNodes[n] = NoNode
      BY <2>1 DEF SeedNodes
    <3>. QED BY <2>1, <3>1 DEF NoNode, Never
  <2>2. CASE n \notin NewNodes
    <3> DEFINE s == CHOOSE x \in Seeds : x.node = n
    <3>1. s \in Seeds /\ s.node = n
      <4>1. \E x \in Seeds : x.node = n
        BY <2>2 DEF Nodes
      <4>. QED BY <4>1
    <3>2. SeedNodes[n] = NewNode(0, s.kind, Trim(s.name), s.parent, s.holds)
      BY <2>2 DEF SeedNodes
    <3> HIDE DEF s
    <3>3. SeedNodes[n].kind.value = s.kind /\ SeedNodes[n].parent.value = s.parent
      BY <3>2 DEF NewNode, Set
    <3>. QED BY <3>1, <3>3
  <2>. QED BY <2>1, <2>2
<1>3. \A n \in AllNodes(SeedNodes) :
        \E s \in Seeds : s.node = n /\ SeedNodes[n].parent.value = s.parent
  BY <1>1, <1>2 DEF AllNodes
<1>4. \A s \in Seeds : s.node \in AllNodes(SeedNodes)
  <2> SUFFICES ASSUME NEW s \in Seeds PROVE s.node \in AllNodes(SeedNodes)
    OBVIOUS
  <2>1. s.node \in Nodes /\ s.node \notin NewNodes
    BY SeedsAssumption DEF Nodes
  <2>2. PICK u \in Seeds : u.node = s.node /\ SeedNodes[s.node].kind.value = u.kind
    BY <1>2, <2>1
  <2>3. u.kind # Absent
    <3>1. u.kind \in {"file", "folder"}
      BY SeedsAssumption
    <3>. QED BY <3>1, AbsentAssumption
  <2>. QED BY <1>1, <2>1, <2>2, <2>3 DEF AllNodes
<1> HIDE DEF d
<1>5. ParentsKnown(d)
  <2>1. \A s \in Seeds : s.parent = Root \/ \E u \in Seeds : s.parent = u.node
    BY SeedsAssumption
  <2>2. \A n \in AllNodes(SeedNodes) : SeedNodes[n].parent.value \in AllNodes(SeedNodes) \cup {Root}
    BY <1>3, <1>4, <2>1
  <2>. QED BY <1>1, <2>2 DEF ParentsKnown
<1>6. MovesInv(d)
  BY <1>1 DEF MovesInv, KnowsMoves, NotBefore
<1>7. ASSUME NEW S \in SUBSET AllNodes(SeedNodes), S # {} PROVE \E n \in S : SeedNodes[n].parent.value \notin S
  <2> DEFINE T == {s \in Seeds : s.node \in S}
  <2>1. T \in SUBSET Seeds /\ T # {} /\ {t.node : t \in T} = S
    BY <1>3, <1>7
  <2> HIDE DEF T
  <2>2. PICK s \in T : s.parent \notin S
    BY <2>1, SeedsAssumption
  <2>3. s \in Seeds /\ s.node \in S
    BY <2>1
  <2>4. PICK u \in Seeds : u.node = s.node /\ SeedNodes[s.node].parent.value = u.parent
    BY <1>3, <2>3
  <2>5. u = s
    BY <2>3, <2>4, SeedsAssumption
  <2>. QED BY <2>2, <2>3, <2>4, <2>5
<1>8. LoopsInv(d)
  BY <1>1, <1>7 DEF LoopsInv, NoLoopOf
<1>. QED BY <1>5, <1>6, <1>8 DEF RaceInv, d

\* The race invariant holds of every execution, with the one it rests on.
LEMMA TreeMoves == Spec => [](TreeInv /\ MoveInv)
<1>1. Init => MoveInv
  BY SeedsRace DEF Init, MoveInv
<1>2. TreeInv /\ MoveInv /\ [Next]_vars => MoveInv'
  <2>1. ASSUME TreeInv, MoveInv, NEW r \in Replicas, NEW s \in Replicas, Sync(r, s) PROVE MoveInv'
    BY <2>1, SyncRace DEF Sync, TreeInv, MoveInv
  <2>2. ASSUME MoveInv, UNCHANGED vars PROVE MoveInv'
    BY <2>2 DEF vars, MoveInv
  <2>. QED BY <2>1, <2>2, RaceStep DEF Next
<1>. QED BY <1>1, <1>2, TreeIsSound, PTL DEF Spec

\* model.ts:129, 280.  A node that nobody put in the trash, nor any folder above it,
\* is shown at every replica, unless moves of two different people made a loop above
\* it: whatever else people do at the same time, and whoever hears of whom first.
THEOREM OnlyRacesHide == Spec => []OnlyRacingMovesHide
<1>1. TreeInv /\ MoveInv => OnlyRacingMovesHide
  <2> SUFFICES ASSUME TreeInv, MoveInv, NEW r \in Replicas, NEW n \in AllNodes(doc[r]) \ Live(doc[r]),
                      \A m \in Above(doc[r], n) : doc[r][m].trashed.value = Absent
               PROVE  \E l, m \in {k \in Above(doc[r], n) : OnLoop(doc[r], k)} :
                        Writer(doc[r][l].parent) # Writer(doc[r][m].parent)
    BY DEF OnlyRacingMovesHide
  <2>1. Sound(doc, typed) /\ RaceInv(doc)
    BY DEF TreeInv, MoveInv
  <2>2. AllNodes(doc[r]) \subseteq Nodes /\ \A m \in AllNodes(doc[r]) : Writer(doc[r][m].parent) \in Writers
    BY <2>1, ParentCells
  <2>3. ParentsWithin(doc[r]) /\ \A w \in Writers : NoLoopOf(doc[r], w)
    BY <2>1 DEF RaceInv, ParentsKnown, ParentsWithin, LoopsInv
  <2>. QED BY <2>2, <2>3, HiddenByTwo
<1>. QED BY <1>1, TreeMoves, PTL

-----------------------------------------------------------------------------
(* Where a new file is.                                                    *)

\* b has what a has, and a new node n in a folder that is shown.
NewLeaf(a, b, n) ==
    /\ AllNodes(a) \subseteq Nodes /\ ParentsWithin(a)
    /\ n \in Nodes \ AllNodes(a) /\ AllNodes(b) = AllNodes(a) \cup {n}
    /\ \A m \in Nodes \ {n} : b[m] = a[m]
    /\ b[n].trashed.value = Absent /\ b[n].parent.value \in Live(a) \cup {Root}
    /\ \A m \in AllNodes(a) : a[m].name.value \in Titles

\* It is shown, and so are the others, and nothing else.
LEMMA LeafIsShown ==
    ASSUME NEW a, NEW b, NEW n, NewLeaf(a, b, n)
    PROVE  Live(b) = Live(a) \cup {n} /\ n \notin Live(a) /\ Live(a) \subseteq AllNodes(a)
<1>1. /\ AllNodes(a) \subseteq Nodes /\ AllNodes(b) \subseteq Nodes /\ n \notin AllNodes(a) /\ n # Root
      /\ \A m \in AllNodes(a) : b[m] = a[m] /\ a[m].parent.value # n
  BY NodesCount DEF NewLeaf, ParentsWithin
<1>2. Live(a) \subseteq AllNodes(a) /\ Live(b) \subseteq AllNodes(b)
  BY <1>1, LiveIsKnown
<1>3. /\ \A m \in AllNodes(a) : m \in Live(a) <=> /\ a[m].trashed.value = Absent
                                                  /\ a[m].parent.value \in Live(a) \cup {Root}
      /\ \A S : (\A m \in Live(a) : a[m].parent.value \in S \cup {Root} => m \in S) => Live(a) \subseteq S
  BY <1>1, LiveLeads
<1>4. /\ \A m \in AllNodes(b) : m \in Live(b) <=> /\ b[m].trashed.value = Absent
                                                  /\ b[m].parent.value \in Live(b) \cup {Root}
      /\ \A S : (\A m \in Live(b) : b[m].parent.value \in S \cup {Root} => m \in S) => Live(b) \subseteq S
  BY <1>1, LiveLeads
<1>5. AllNodes(b) = AllNodes(a) \cup {n} /\ b[n].trashed.value = Absent /\ b[n].parent.value \in Live(a) \cup {Root}
  BY DEF NewLeaf
<1>6. Live(a) \subseteq Live(b)
  <2>1. \A m \in Live(a) : a[m].parent.value \in Live(b) \cup {Root} => m \in Live(b)
    BY <1>1, <1>2, <1>3, <1>4, <1>5
  <2>. QED BY <1>3, <2>1
<1>7. n \in Live(b)
  BY <1>4, <1>5, <1>6
<1>8. Live(b) \subseteq Live(a) \cup {n}
  <2> DEFINE S == Live(a) \cup {n}
  <2>1. ASSUME NEW m \in Live(b), b[m].parent.value \in S \cup {Root} PROVE m \in S
    <3>1. CASE m = n
      BY <3>1
    <3>2. CASE m # n
      <4>1. m \in AllNodes(a) /\ b[m] = a[m] /\ a[m].parent.value # n
        BY <1>1, <1>2, <1>5, <3>2
      <4>2. a[m].trashed.value = Absent /\ a[m].parent.value \in Live(a) \cup {Root}
        BY <1>2, <1>4, <2>1, <4>1
      <4>. QED BY <1>3, <4>1, <4>2
    <3>. QED BY <3>1, <3>2
  <2> HIDE DEF S
  <2>2. Live(b) \subseteq S
    BY <1>4, <2>1
  <2>. QED BY <2>2 DEF S
<1>. QED BY <1>1, <1>2, <1>6, <1>7, <1>8

\* b shows what a shows, where a shows it, and n at the path.
ShowsToo(a, b, n, path) ==
    /\ DOMAIN ListTree(a) = Live(a) /\ DOMAIN ListTree(b) = Live(a) \cup {n} /\ Live(b) = Live(a) \cup {n}
    /\ \A m \in Live(a) : ListTree(b)[m] = ListTree(a)[m]
    /\ ListTree(b)[n] = path

\* Nothing is shown in the folder by that name, case aside.
NameIsFree(a, folder, name) ==
    LET siblings == In(a, Live(a), folder) IN
    \A s \in siblings : Lower(ResolveSiblingNames(a, siblings)[s]) # Lower(name)

\* Where its name is free: the paths stay, and it is at its own.
LEMMA LeafPaths ==
    ASSUME NEW a, NEW b, NEW n, NewLeaf(a, b, n), NameIsFree(a, b[n].parent.value, b[n].name.value)
    PROVE  ShowsToo(a, b, n, Join(PathAt(ListTree(a), b[n].parent.value), b[n].name.value))
<1> DEFINE p == b[n].parent.value
           label == b[n].name.value
           x == ListTree(a)
           y == ListTree(b)
           inA(q) == In(a, Live(a), q)
           inB(q) == In(b, Live(b), q)
<1>1. Live(b) = Live(a) \cup {n} /\ n \notin Live(a) /\ Live(a) \subseteq AllNodes(a)
  BY LeafIsShown
<1>2. /\ AllNodes(a) \subseteq Nodes /\ AllNodes(b) \subseteq Nodes /\ n \in Nodes
      /\ \A m \in Live(a) : /\ m \in AllNodes(a) /\ b[m] = a[m] /\ a[m].name.value \in Titles
      /\ p \in Live(a) \cup {Root}
  BY <1>1 DEF NewLeaf
<1>3. ASSUME NEW m \in Live(a)
      PROVE  x[m] = Join(PathAt(x, a[m].parent.value), ResolveSiblingNames(a, inA(a[m].parent.value))[m])
  BY <1>2, PathsAre
<1>4. ASSUME NEW m \in Live(b)
      PROVE  y[m] = Join(PathAt(y, b[m].parent.value), ResolveSiblingNames(b, inB(b[m].parent.value))[m])
  BY <1>2, PathsAre
<1>5. DOMAIN x = Live(a) /\ DOMAIN y = Live(b)
  BY DEF ListTree
<1> HIDE DEF x, y
<1>6. \A s \in inA(p) : Lower(ResolveSiblingNames(a, inA(p))[s]) # Lower(label)
  BY DEF NameIsFree
<1>7. ASSUME NEW q
      PROVE  /\ inA(q) \in SUBSET Nodes /\ inB(q) \in SUBSET Nodes /\ n \in Nodes \ inA(q)
             /\ inB(q) = IF q = p THEN inA(q) \cup {n} ELSE inA(q)
             /\ \A s \in inA(q) : b[s].name.value = a[s].name.value /\ a[s].name.value \in Titles
  BY <1>1, <1>2 DEF In
<1>8. ASSUME NEW q, NEW s \in inA(q)
      PROVE  ResolveSiblingNames(b, inB(q))[s] = ResolveSiblingNames(a, inA(q))[s]
  <2>1. /\ inA(q) \in SUBSET Nodes /\ inB(q) \in SUBSET Nodes /\ n \in Nodes \ inA(q)
        /\ inB(q) \in {inA(q), inA(q) \cup {n}}
        /\ n \in inB(q) => \A k \in inA(q) : Lower(ResolveSiblingNames(a, inA(q))[k]) # Lower(b[n].name.value)
        /\ \A k \in inA(q) : b[k].name.value = a[k].name.value /\ a[k].name.value \in Titles
    BY <1>6, <1>7
  <2> HIDE DEF inA, inB
  <2>. QED BY <2>1, NamesKeep
<1>9. ResolveSiblingNames(b, inB(p))[n] = label
  <2>1. /\ inA(p) \in SUBSET Nodes /\ inB(p) \in SUBSET Nodes /\ n \in Nodes \ inA(p)
        /\ inB(p) \in {inA(p), inA(p) \cup {n}} /\ n \in inB(p)
        /\ \A k \in inA(p) : Lower(ResolveSiblingNames(a, inA(p))[k]) # Lower(b[n].name.value)
        /\ \A k \in inA(p) : b[k].name.value = a[k].name.value /\ a[k].name.value \in Titles
    BY <1>6, <1>7
  <2> HIDE DEF inA, inB
  <2>. QED BY <2>1, NamesKeep
<1>10. \A m \in Live(a) : y[m] = x[m]
  <2> DEFINE S == {m \in Live(a) : y[m] = x[m]}
  <2>1. ASSUME NEW m \in Live(a), a[m].parent.value \in S \cup {Root} PROVE m \in S
    <3> DEFINE q == a[m].parent.value
    <3>1. b[m].parent.value = q /\ m \in Live(b) /\ m \in inA(q)
      BY <1>1, <1>2 DEF In
    <3>2. PathAt(y, q) = PathAt(x, q)
      BY <2>1 DEF PathAt
    <3>3. y[m] = Join(PathAt(y, q), ResolveSiblingNames(b, inB(q))[m])
      BY <1>4, <3>1
    <3>4. x[m] = Join(PathAt(x, q), ResolveSiblingNames(a, inA(q))[m])
      BY <1>3
    <3>5. ResolveSiblingNames(b, inB(q))[m] = ResolveSiblingNames(a, inA(q))[m]
      BY <1>8, <3>1
    <3>. QED BY <3>2, <3>3, <3>4, <3>5
  <2>2. Live(a) \subseteq S
    <3> HIDE DEF S
    <3>. QED BY <1>2, <2>1, LiveLeads
  <2>. QED BY <2>2
<1>11. y[n] = Join(PathAt(x, p), label)
  <2>1. PathAt(y, p) = PathAt(x, p)
    BY <1>2, <1>10 DEF PathAt
  <2>2. y[n] = Join(PathAt(y, p), ResolveSiblingNames(b, inB(p))[n])
    BY <1>1, <1>4
  <2>. QED BY <1>9, <2>1, <2>2
<1>. QED BY <1>1, <1>5, <1>10, <1>11 DEF x, y, ShowsToo

\* What is known has a name, and a folder that is known.
Tidy(nodes) ==
    /\ nodes \in [Nodes -> NodeType] /\ AllNodes(nodes) \subseteq Nodes /\ ParentsWithin(nodes)
    /\ \A n \in AllNodes(nodes) : nodes[n].name.value \in Titles

\* That is what insertNode makes.
LEMMA InsertedLeaf ==
    ASSUME NEW a, Tidy(a), NEW r \in Replicas, NEW n \in Nodes \ AllNodes(a),
           NEW kind \in {"file", "folder"}, NEW name, Trim(name) \in Titles, NEW parent \in Live(a) \cup {Root}, NEW holds,
           kind = "file" => holds \in Holds
    PROVE  LET b == InsertNode(r, a, n, kind, name, parent, holds) IN
           /\ NewLeaf(a, b, n) /\ Tidy(b)
           /\ b[n].parent.value = parent /\ b[n].name.value = Trim(name)
<1> DEFINE b == InsertNode(r, a, n, kind, name, parent, holds)
<1>1. Live(a) \subseteq AllNodes(a) /\ AllNodes(a) \subseteq Nodes /\ a \in [Nodes -> NodeType]
  BY LiveIsKnown DEF Tidy
<1>2. Inserts(r, a, n, kind, name, parent, b)
  <2>1. parent \in Nodes \cup {Root}
    BY <1>1
  <2>. QED BY <1>1, <2>1, Inserted
<1> HIDE DEF b
<1>3. b[n].trashed.value = Absent
  BY <1>2 DEF Inserts, Never
<1>4. NewLeaf(a, b, n)
  BY <1>1, <1>2, <1>3 DEF Inserts, NewLeaf, Tidy
<1>5. Tidy(b)
  <2>1. \A m \in AllNodes(b) : b[m].parent.value \in AllNodes(b) \cup {Root} /\ b[m].name.value \in Titles
    BY <1>1, <1>2 DEF Inserts, Tidy, ParentsWithin
  <2>. QED BY <1>1, <1>2, <2>1 DEF Inserts, Tidy, ParentsWithin
<1>6. b[n].parent.value = parent /\ b[n].name.value = Trim(name)
  BY <1>2 DEF Inserts
<1>. QED BY <1>4, <1>5, <1>6 DEF b

\* b has what a has, where a has it, and the node n at that path.
Gains(a, b, n, path) == Tidy(b) /\ AllNodes(b) = AllNodes(a) \cup {n} /\ ShowsToo(a, b, n, path)

\* One by one: a new node in a folder that is shown, where its name is free.
LEMMA MadeWhereAsked ==
    ASSUME NEW a, Tidy(a), NEW r \in Replicas, NEW n \in Nodes \ AllNodes(a),
           NEW kind \in {"file", "folder"}, NEW name, Trim(name) \in Titles, NEW parent \in Live(a) \cup {Root},
           NEW holds, kind = "file" => holds \in Holds, NameIsFree(a, parent, Trim(name))
    PROVE  Gains(a, InsertNode(r, a, n, kind, name, parent, holds), n,
                 Join(PathAt(ListTree(a), parent), Trim(name)))
<1> DEFINE b == InsertNode(r, a, n, kind, name, parent, holds)
<1>1. NewLeaf(a, b, n) /\ Tidy(b) /\ b[n].parent.value = parent /\ b[n].name.value = Trim(name)
  BY InsertedLeaf
<1> HIDE DEF b
<1>2. ShowsToo(a, b, n, Join(PathAt(ListTree(a), parent), Trim(name)))
  <2>1. NameIsFree(a, b[n].parent.value, b[n].name.value)
    BY <1>1
  <2>2. ShowsToo(a, b, n, Join(PathAt(ListTree(a), b[n].parent.value), b[n].name.value))
    BY <1>1, <2>1, LeafPaths
  <2>. QED BY <1>1, <2>2
<1>3. AllNodes(b) = AllNodes(a) \cup {n}
  BY <1>1 DEF NewLeaf
<1>4. Gains(a, b, n, Join(PathAt(ListTree(a), parent), Trim(name)))
  BY <1>1, <1>2, <1>3 DEF Gains
<1>. QED BY <1>4 DEF b

\* A path of one name, and one of two, in lower case.
PairOf(x, y) == [i \in {1, 2} |-> IF i = 1 THEN x ELSE y]
LEMMA LowerOfTwo ==
    ASSUME NEW x, NEW y
    PROVE  /\ LowerPath(<<x>>) = [i \in {1} |-> Lower(x)]
           /\ LowerPath(<<x, y>>) = PairOf(Lower(x), Lower(y))
<1> DEFINE one == <<x>>
           two == <<x, y>>
<1>1. DOMAIN one = {1} /\ one[1] = x /\ DOMAIN two = {1, 2} /\ two[1] = x /\ two[2] = y
  OBVIOUS
<1> HIDE DEF one, two
<1>2. LowerPath(one) = [i \in {1} |-> Lower(x)]
  BY <1>1 DEF LowerPath
<1>3. LowerPath(two) = PairOf(Lower(x), Lower(y))
  BY <1>1 DEF LowerPath, PairOf
<1>. QED BY <1>2, <1>3 DEF one, two

\* Names that are the same, case aside, make paths that are.
LEMMA LowerPaths ==
    ASSUME NEW folder, NEW x, NEW y, Lower(x) = Lower(y)
    PROVE  /\ LowerPath(<<x>>) = LowerPath(<<y>>) /\ LowerPath(<<folder, x>>) = LowerPath(<<folder, y>>)
           /\ LowerPath(<<folder>>) # LowerPath(<<folder, x>>)
<1> DEFINE one(u) == LowerPath(<<u>>)
           two(u) == LowerPath(<<folder, u>>)
<1>1. /\ one(x) = [i \in {1} |-> Lower(x)] /\ one(y) = [i \in {1} |-> Lower(y)]
      /\ one(folder) = [i \in {1} |-> Lower(folder)]
  BY LowerOfTwo, Zenon
<1>2. two(x) = PairOf(Lower(folder), Lower(x)) /\ two(y) = PairOf(Lower(folder), Lower(y))
  BY LowerOfTwo, Zenon
<1> HIDE DEF one, two
<1>3. one(x) = one(y) /\ two(x) = two(y)
  BY <1>1, <1>2
<1>4. one(folder) # two(x)
  <2>1. DOMAIN one(folder) = {1} /\ DOMAIN two(x) = {1, 2} /\ {1} # {1, 2}
    BY <1>1, <1>2 DEF PairOf
  <2>. QED BY <2>1
<1>. QED BY <1>3, <1>4 DEF one, two

\* Where nothing is shown at a path, case aside, the name is free.
LEMMA NothingNear ==
    ASSUME NEW a, Tidy(a), NEW folder, folder # <<>>, NEW name, NEW parent,
           \/ parent = Root /\ Near(ListTree(a), <<name>>) = {}
           \/ PathAt(ListTree(a), parent) = <<folder>> /\ Near(ListTree(a), <<folder, name>>) = {}
    PROVE  NameIsFree(a, parent, name)
<1> DEFINE x == ListTree(a)
           siblings == In(a, Live(a), parent)
           label(s) == ResolveSiblingNames(a, siblings)[s]
<1>1. SUFFICES ASSUME NEW s \in siblings, Lower(label(s)) = Lower(name) PROVE FALSE
  BY DEF NameIsFree
<1>2. s \in Live(a) /\ a[s].parent.value = parent
  BY DEF In
<1>3. DOMAIN x = Live(a) /\ x[s] = Join(PathAt(x, parent), label(s))
  BY <1>2, PathsAre DEF Tidy
<1> HIDE DEF x, siblings, label
<1>4. CASE parent = Root /\ Near(x, <<name>>) = {}
  <2>1. x[s] = <<label(s)>>
    BY <1>3, <1>4 DEF PathAt, Join
  <2>2. LowerPath(<<label(s)>>) = LowerPath(<<name>>)
    BY <1>1, LowerPaths, Zenon
  <2>3. LowerPath(x[s]) = LowerPath(<<name>>)
    BY <2>1, <2>2
  <2>. QED BY <1>2, <1>3, <1>4, <2>3 DEF Near
<1>5. CASE PathAt(x, parent) = <<folder>> /\ Near(x, <<folder, name>>) = {}
  <2>1. <<folder>> # <<>> /\ <<folder>> # << <<>> >>
    OBVIOUS
  <2>2. x[s] = Append(<<folder>>, label(s))
    BY <1>3, <1>5, <2>1 DEF Join
  <2>3. x[s] = <<folder, label(s)>>
    BY <2>2, PathsOfTwo
  <2>4. LowerPath(<<folder, label(s)>>) = LowerPath(<<folder, name>>)
    BY <1>1, LowerPaths, Zenon
  <2>5. LowerPath(x[s]) = LowerPath(<<folder, name>>)
    BY <2>3, <2>4
  <2>. QED BY <1>2, <1>3, <1>5, <2>5 DEF Near
<1>. QED BY <1>4, <1>5 DEF x

\* model.ts:312.  A file made at a path that nothing has, case aside, and whose folder
\* is neither a file nor a folder spelt otherwise, moves and renames no node that is
\* shown and is shown at that path, whatever the replica has, and whether its folder is
\* there or is made with it.
THEOREM CreatedStaysAsked == Spec => []CreatedWhereAsked
<1>1. TreeInv /\ MoveInv => CreatedWhereAsked
  <2> SUFFICES ASSUME TreeInv, MoveInv, NEW r \in Replicas,
                      NEW folder \in Names, Proper(folder), NEW name \in Names, Proper(name),
                      Near(ListTree(doc[r]), <<folder, name>>) = {},
                      Near(ListTree(doc[r]), <<folder>>)
                        \subseteq At(ListTree(doc[r]), <<folder>>) \cap Folders(doc[r]),
                      NEW nodes \in CreatedAtPath(r, doc[r], folder, name, "text")
               PROVE  /\ \A n \in DOMAIN ListTree(doc[r]) :
                           n \in DOMAIN ListTree(nodes) /\ ListTree(nodes)[n] = ListTree(doc[r])[n]
                      /\ At(ListTree(nodes), <<folder, name>>) # {}
    BY DEF CreatedWhereAsked
  <2> DEFINE a == doc[r]
             there == At(ListTree(a), <<folder>>)
  <2>1. Tidy(a)
    <3>1. a \in [Nodes -> NodeType] /\ \A n \in Nodes : WholeNode(a[n])
      BY DEF TreeInv, Sound, NodesInv
    <3>2. AllNodes(a) \subseteq Nodes /\ \A n \in AllNodes(a) : a[n].name.value \in Titles
      <4>1. AllNodes(a) \subseteq Nodes
        BY <3>1 DEF AllNodes
      <4>2. \A n \in AllNodes(a) : a[n].name.value # Absent /\ a[n].name \in Cell(Titles)
        BY <3>1, <4>1 DEF AllNodes, WholeNode, NodeType
      <4>. QED BY <4>1, <4>2 DEF Cell
    <3>. QED BY <3>1, <3>2 DEF Tidy, ParentsWithin, MoveInv, RaceInv, ParentsKnown
  <2>2. /\ Trim(folder) \in Titles /\ Trim(name) \in Titles /\ "text" \in Holds /\ "folder" # "file"
        /\ Trim(folder) = folder /\ Trim(name) = name /\ folder # <<>>
    <3>1. \A t \in Names : Trim(t) \in Titles
      BY DEF Titles
    <3>. QED BY <3>1 DEF Proper, Holds
  <2>3. ASSUME NEW n \in Fresh PROVE n \in Nodes \ AllNodes(a)
    BY FreshIds DEF Nodes
  <2>4. /\ Join(<<folder>>, name) = <<folder, name>> /\ Join(<<>>, folder) = <<folder>>
        /\ LowerPath(<<folder>>) # LowerPath(<<folder, name>>)
    <3>1. <<folder>> # <<>> /\ <<folder>> # << <<>> >>
      BY <2>2
    <3>2. Join(<<folder>>, name) = Append(<<folder>>, name) /\ Join(<<>>, folder) = <<folder>>
      BY <3>1 DEF Join
    <3>. QED BY <3>2, PathsOfTwo, LowerPaths
  <2>5. there \subseteq Near(ListTree(a), <<folder>>)
    BY DEF At, Near
  <2>6. ASSUME NEW n \in Fresh, NEW m \in there \cap Folders(a), nodes = InsertNode(r, a, n, "file", name, m, "text")
        PROVE  /\ \A k \in DOMAIN ListTree(a) : k \in DOMAIN ListTree(nodes) /\ ListTree(nodes)[k] = ListTree(a)[k]
               /\ At(ListTree(nodes), <<folder, name>>) # {}
    <3>1. m \in Live(a) /\ PathAt(ListTree(a), m) = <<folder>>
      <4>1. Live(a) \subseteq AllNodes(a) /\ Root \notin AllNodes(a)
        BY <2>1, LiveIsKnown, NodesCount DEF Tidy
      <4>2. m \in Live(a) /\ ListTree(a)[m] = <<folder>>
        BY DEF Folders, At
      <4>. QED BY <4>1, <4>2 DEF PathAt
    <3>2. Near(ListTree(a), <<folder, name>>) = {} /\ "file" \in {"file", "folder"}
      OBVIOUS
    <3> HIDE DEF a, there
    <3>3. NameIsFree(a, m, name)
      BY <2>1, <2>2, <3>1, <3>2, NothingNear
    <3>4. Gains(a, nodes, n, <<folder, name>>)
      <4>1. n \in Nodes \ AllNodes(a) /\ m \in Live(a) \cup {Root} /\ NameIsFree(a, m, Trim(name))
        BY <2>2, <2>3, <3>1, <3>3
      <4>2. Gains(a, InsertNode(r, a, n, "file", name, m, "text"), n, Join(PathAt(ListTree(a), m), Trim(name)))
        BY <2>1, <2>2, <3>2, <4>1, MadeWhereAsked
      <4>. QED BY <2>2, <2>4, <2>6, <3>1, <4>2
    <3>. QED BY <3>4 DEF At, Gains, ShowsToo
  <2>7. ASSUME NEW p \in Fresh, NEW q \in Fresh, p # q, there = {} \/ ~(there \subseteq Folders(a)),
               nodes = InsertNode(r, InsertNode(r, a, p, "folder", folder, Root, Absent), q, "file", name, p, "text")
        PROVE  /\ \A k \in DOMAIN ListTree(a) : k \in DOMAIN ListTree(nodes) /\ ListTree(nodes)[k] = ListTree(a)[k]
               /\ At(ListTree(nodes), <<folder, name>>) # {}
    <3> DEFINE b == InsertNode(r, a, p, "folder", folder, Root, Absent)
    <3>1. Near(ListTree(a), <<folder>>) = {} /\ Near(ListTree(a), <<folder, name>>) = {}
      BY <2>5, <2>7
    <3>2. PathAt(ListTree(a), Root) = <<>>
      BY DEF PathAt
    <3>3. Root \in Live(a) \cup {Root} /\ nodes = InsertNode(r, b, q, "file", name, p, "text")
      BY <2>7
    <3> HIDE DEF a, there
    <3>4. NameIsFree(a, Root, folder)
      BY <2>1, <2>2, <3>1, NothingNear
    <3>5. Gains(a, b, p, <<folder>>)
      <4>1. p \in Nodes \ AllNodes(a) /\ "folder" \in {"file", "folder"} /\ NameIsFree(a, Root, Trim(folder))
        BY <2>2, <2>3, <3>4
      <4>2. Gains(a, b, p, Join(PathAt(ListTree(a), Root), Trim(folder)))
        BY <2>1, <2>2, <3>3, <4>1, MadeWhereAsked
      <4>. QED BY <2>2, <2>4, <3>2, <4>2
    <3> HIDE DEF b
    <3>6. /\ p # Root /\ q \in Nodes \ AllNodes(b) /\ p \in Live(b) \cup {Root} /\ Tidy(b)
          /\ PathAt(ListTree(b), p) = <<folder>>
      BY <2>3, <2>7, <3>5, NodesCount DEF Gains, ShowsToo, PathAt
    <3>7. Near(ListTree(b), <<folder, name>>) = {}
      BY <2>4, <3>1, <3>5 DEF Near, Gains, ShowsToo
    <3>8. Gains(b, nodes, q, <<folder, name>>)
      <4>1. NameIsFree(b, p, name) /\ "file" \in {"file", "folder"}
        BY <2>2, <3>6, <3>7, NothingNear
      <4>2. Gains(b, InsertNode(r, b, q, "file", name, p, "text"), q, Join(PathAt(ListTree(b), p), Trim(name)))
        BY <2>2, <3>6, <4>1, MadeWhereAsked
      <4>. QED BY <2>2, <2>4, <3>3, <3>6, <4>2
    <3>. QED BY <3>5, <3>8 DEF At, Gains, ShowsToo
  <2>8. \/ \E n \in Fresh, m \in there \cap Folders(a) : nodes = InsertNode(r, a, n, "file", name, m, "text")
        \/ /\ there = {} \/ ~(there \subseteq Folders(a))
           /\ \E p, q \in Fresh : /\ p # q
                                  /\ nodes = InsertNode(r, InsertNode(r, a, p, "folder", folder, Root, Absent),
                                                        q, "file", name, p, "text")
    BY MadeAtPath
  <2>. QED BY <2>6, <2>7, <2>8
<1>. QED BY <1>1, TreeMoves, PTL
=============================================================================
