------------------------------- MODULE FileTree -------------------------------
(***************************************************************************)
(* A room's files as one shared document: packages/workspace-model/src/    *)
(* model.ts on replicas of a Yjs document that change it without waiting   *)
(* for one another (people's browsers, and the runner for the sandbox).    *)
(*                                                                         *)
(* Of the values written to a key of a Y.Map the last one counts: an item  *)
(* stands after the one its writer saw last, and items that stand after    *)
(* the same one are in the order of their writers.  So an item's place is  *)
(* its line, the writers of the items it follows and its own, and the last *)
(* one is the greatest line; the others are deleted.  One transaction is   *)
(* one step; a synchronisation brings a replica everything another has.    *)
(*                                                                         *)
(* A node is its place in the order of resolveSiblingNames, by createdAt   *)
(* and then by id: clocks differ and ids are random, so a new node may     *)
(* come anywhere in it.  A name is a sequence of letters and numbers: a    *)
(* number is the one that resolveSiblingNames puts in brackets, so that    *)
(* with a letter a, <<a, 2>> is "a (2)".  Case and the blanks that trim    *)
(* cuts off are in the letters.                                            *)
(***************************************************************************)
EXTENDS Integers, Sequences, FiniteSets, FiniteSetsExt

CONSTANTS
    Replicas,   \* by their client ids, above 0: that of the replica that seeded the room
    Seeds,      \* the room's first files: node, kind, name, parent, holds
    NewNodes,   \* the ids that randomId returns
    Names,      \* what people call files and folders
    Small,      \* of each capital letter, the small one
    Blank,      \* the letter that is white space
    Bytes,      \* the blobs they upload
    Absent,     \* no value
    MaxChanges  \* bound on transactions, of all replicas together

\* toLowerCase, and trim.
Lower(name) == [i \in DOMAIN name |-> IF name[i] \in DOMAIN Small THEN Small[name[i]] ELSE name[i]]
Trim(name)  ==
    LET letters == {i \in DOMAIN name : name[i] # Blank}
    IN  IF letters = {} THEN <<>> ELSE SubSeq(name, Min(letters), Max(letters))

Root   == 0
Nodes  == {s.node : s \in Seeds} \cup NewNodes
Titles == {Trim(name) : name \in {s.name : s \in Seeds} \cup Names}
Holds  == Bytes \cup {"text"}

ASSUME ReplicasAssumption == Replicas \subseteq Nat \ {0}
ASSUME NodesAssumption == Nodes \subseteq Nat \ {Root} /\ IsFiniteSet(Nodes)
ASSUME TitlesAssumption == \A t \in Titles : Len(t) \in Nat /\ t = [i \in 1..Len(t) |-> t[i]]
ASSUME SmallAssumption == \A c \in DOMAIN Small : c \notin Nat
ASSUME SeedsAssumption ==
    /\ \A s \in Seeds :
         /\ s.kind \in {"file", "folder"} /\ s.node \notin NewNodes
         /\ s.parent \in {Root} \cup {t.node : t \in Seeds}
         /\ IF s.kind = "file" THEN s.holds \in Holds ELSE s.holds = Absent
    /\ \A s, t \in Seeds : s.node = t.node => s = t
    /\ \A S \in SUBSET Seeds : S # {} => \E s \in S : s.parent \notin {t.node : t \in S}
ASSUME BytesAssumption == "text" \notin Bytes
ASSUME AbsentAssumption ==
    /\ Absent \notin Holds /\ Absent \notin Titles /\ Absent \notin Nodes \cup {Root}
    /\ Absent \notin {"file", "folder", "trashed"}
ASSUME BoundsAssumption == MaxChanges \in Nat

VARIABLES
    doc,        \* of each replica: the nodes, with their Y.Text
    typed,      \* of each replica: the texts somebody typed in
    changes     \* how many transactions there were

vars == <<doc, typed, changes>>

-----------------------------------------------------------------------------
(* A key of a map, as Yjs keeps it: its last item.                         *)

Never               == [value |-> Absent, line |-> <<>>]
Set(r, cell, value) == [value |-> value, line |-> Append(cell.line, r)]
Delete(cell)        == [cell EXCEPT !.value = Absent]
Writer(cell)        == cell.line[Len(cell.line)]

\* The line l stands after the line k.
After(l, k) ==
    \/ Len(l) > Len(k) /\ \A j \in DOMAIN k : l[j] = k[j]
    \/ \E i \in DOMAIN l \cap DOMAIN k : l[i] > k[i] /\ \A j \in 1..i-1 : l[j] = k[j]

\* Mutant: the first item of a key counts.
MergeFirst(c, d) ==
    IF c.line = d.line THEN (IF c.value = Absent THEN c ELSE d)
    ELSE IF After(c.line, d.line) THEN d ELSE c

\* Of one item, one replica may know that it was deleted.
Merge(c, d) ==
    IF c.line = d.line THEN (IF c.value = Absent THEN c ELSE d)
    ELSE IF After(c.line, d.line) THEN c ELSE d

Keys   == {"kind", "name", "parent", "trashed", "blob", "text"}
NoNode == [kind |-> Never, name |-> Never, parent |-> Never, trashed |-> Never, blob |-> Never, text |-> Never]
MergeNodes(a, b) ==
    [kind |-> Merge(a.kind, b.kind), name |-> Merge(a.name, b.name), parent |-> Merge(a.parent, b.parent),
     trashed |-> Merge(a.trashed, b.trashed), blob |-> Merge(a.blob, b.blob), text |-> Merge(a.text, b.text)]

-----------------------------------------------------------------------------
(* Reading the tree.  A parameter nodes is one replica's.                  *)

AllNodes(nodes) == {n \in DOMAIN nodes : nodes[n].kind.value # Absent}
Files(nodes)    == {n \in DOMAIN nodes : nodes[n].kind.value = "file"}

\* These, and what is in them and not in the trash.
Widen(nodes, above) ==
    above \cup {n \in AllNodes(nodes) : nodes[n].trashed.value = Absent /\ nodes[n].parent.value \in above}

\* isLive: parents lead to the root, and none on the way is in the trash.
Live(nodes) ==
    LET Within[d \in 0..Cardinality(Nodes)] == IF d = 0 THEN {Root} ELSE Widen(nodes, Within[d - 1])
    IN  Within[Cardinality(Nodes)] \ {Root}

Folders(nodes) == {n \in Live(nodes) : nodes[n].kind.value = "folder"}

\* The first of the name, (2), (3), ... that is free; what is taken is in lower case.
FreeName(name, taken) ==
    IF Lower(name) \notin taken THEN name
    ELSE Append(name, Min({k \in 2..Cardinality(taken) + 2 : Lower(Append(name, k)) \notin taken}))

\* Mutant: the names that are taken are the nodes' own.
ResolveSiblingNamesOwn(nodes, siblings) ==
    [n \in siblings |-> FreeName(nodes[n].name.value,
                                 {Lower(nodes[m].name.value) : m \in {s \in siblings : s < n}})]

\* The oldest keeps its name; later ones get the first that is free, case aside.
ResolveSiblingNames(nodes, siblings) ==
    LET Shown[n \in siblings] ==
            FreeName(nodes[n].name.value, {Lower(Shown[m]) : m \in {s \in siblings : s < n}})
    IN  Shown

\* Nothing is put in front of a name at the root, nor where the path there is "".
Join(prefix, name) == IF prefix \in {<<>>, << <<>> >>} THEN <<name>> ELSE Append(prefix, name)

\* Of the nodes shown, those in p; and, one level further down than these, the paths.
In(nodes, shown, p) == {n \in shown : nodes[n].parent.value = p}
Deepen(nodes, shown, paths) ==
    LET names == [p \in DOMAIN paths |-> ResolveSiblingNames(nodes, In(nodes, shown, p))] IN
    [n \in {Root} \cup UNION {In(nodes, shown, p) : p \in DOMAIN paths} |->
        IF n = Root THEN <<>>
        ELSE LET p == nodes[n].parent.value IN Join(paths[p], names[p][n])]

\* The paths of the live nodes.
ListTree(nodes) ==
    LET live == Live(nodes)
        Paths[d \in 0..Cardinality(Nodes)] ==
            IF d = 0 THEN [n \in {Root} |-> <<>>] ELSE Deepen(nodes, live, Paths[d - 1])
        all == Paths[Cardinality(Nodes)]
    IN  [n \in live |-> all[n]]

\* findByPath: the node at a path of a tree, if there is one.
At(tree, path) == {n \in DOMAIN tree : tree[n] = path}

\* The node and those on the way from it to the root, or around a loop.
Above(nodes, n) ==
    LET Up[d \in 0..Cardinality(Nodes)] ==
            IF d = 0 THEN {n}
            ELSE LET below == Up[d - 1] IN below \cup {nodes[m].parent.value : m \in below \ {Root}}
    IN Up[Cardinality(Nodes)] \ {Root}

-----------------------------------------------------------------------------
(* Changing it, in one transaction of r.                                   *)

\* A text file has its Y.Text from the start, a binary one its blob.
NewNode(r, kind, name, parent, holds) ==
    LET Key(value) == Set(r, Never, value) IN
    [kind |-> Key(kind), name |-> Key(name), parent |-> Key(parent), trashed |-> Never,
     text |-> IF kind = "file" /\ holds = "text" THEN Key("text") ELSE Never,
     blob |-> IF kind = "file" /\ holds # "text" THEN Key(holds) ELSE Never]
InsertNode(r, nodes, n, kind, name, parent, holds) ==
    [nodes EXCEPT ![n] = NewNode(r, kind, Trim(name), parent, holds)]

Fresh == NewNodes \ UNION {AllNodes(doc[r]) : r \in Replicas}

\* createFile, createBinaryFile, createFolder: in a folder that is shown.
Create(r) ==
    /\ \E n \in Fresh, parent \in Folders(doc[r]) \cup {Root}, name \in Names :
         \/ doc' = [doc EXCEPT ![r] = InsertNode(r, @, n, "folder", name, parent, Absent)]
         \/ \E holds \in Holds :
              doc' = [doc EXCEPT ![r] = InsertNode(r, @, n, "file", name, parent, holds)]
    /\ UNCHANGED typed

InFolder(r, nodes, folder, name, holds) ==
    {InsertNode(r, nodes, n, "file", name, folder, holds) : n \in Fresh}
InNewFolder(r, nodes, folder, name, holds) ==
    {InsertNode(r, InsertNode(r, nodes, p[1], "folder", folder, Root, Absent), p[2], "file", name, p[1], holds) :
        p \in {q \in Fresh \X Fresh : q[1] # q[2]}}

\* Mutant: the folder on the way is always a new one.
CreatedAtPathAnew(r, nodes, folder, name, holds) == InNewFolder(r, nodes, folder, name, holds)

\* createAtPath: the folder on the way is what is shown at just that path, or a new
\* one when that is nothing or a file.
CreatedAtPath(r, nodes, folder, name, holds) ==
    LET there == At(ListTree(nodes), <<folder>>) IN
    UNION ({InFolder(r, nodes, m, name, holds) : m \in there \cap Folders(nodes)}
           \cup (IF there # {} /\ there \subseteq Folders(nodes) THEN {}
                 ELSE {InNewFolder(r, nodes, folder, name, holds)}))

\* For a path that has no file.
CreateAtPath(r) ==
    /\ \E folder, name \in Names, holds \in Holds :
         /\ At(ListTree(doc[r]), <<folder, name>>) \cap Files(doc[r]) = {}
         /\ \E nodes \in CreatedAtPath(r, doc[r], folder, name, holds) : doc' = [doc EXCEPT ![r] = nodes]
    /\ UNCHANGED typed

Rename(r) ==
    /\ \E n \in Live(doc[r]), name \in Names : doc' = [doc EXCEPT ![r][n].name = Set(r, @, Trim(name))]
    /\ UNCHANGED typed

\* Mutant: only the folder itself is looked at.
MoveShallow(r) ==
    /\ \E parent \in Folders(doc[r]) \cup {Root} : \E n \in AllNodes(doc[r]) \ {parent} :
         doc' = [doc EXCEPT ![r][n].parent = Set(r, @, parent)]
    /\ UNCHANGED typed

\* Onto a folder that is shown, or the root; refused when the folder is in n.
Move(r) ==
    /\ \E parent \in Folders(doc[r]) \cup {Root} : \E n \in AllNodes(doc[r]) \ Above(doc[r], parent) :
         doc' = [doc EXCEPT ![r][n].parent = Set(r, @, parent)]
    /\ UNCHANGED typed

Trash(r) ==
    /\ \E n \in AllNodes(doc[r]) : doc' = [doc EXCEPT ![r][n].trashed = Set(r, @, "trashed")]
    /\ UNCHANGED typed

Restore(r) ==
    /\ \E n \in AllNodes(doc[r]) :
         /\ doc[r][n].trashed.value # Absent
         /\ doc' = [doc EXCEPT ![r][n].trashed = Delete(@)]
    /\ UNCHANGED typed

\* New bytes: the text goes.
SetBlob(r) ==
    /\ \E n \in Files(doc[r]), blob \in Bytes :
         /\ doc[r][n].blob.value # blob
         /\ doc' = [doc EXCEPT ![r][n].blob = Set(r, @, blob), ![r][n].text = Delete(@)]
    /\ UNCHANGED typed

HasText(node) == node.text.value # Absent /\ node.blob.value = Absent

\* Typing, or setFileText of a text file.
Type(r) ==
    /\ \E n \in Files(doc[r]) :
         /\ HasText(doc[r][n])
         /\ typed' = [typed EXCEPT ![r] = @ \cup {<<n, doc[r][n].text.line>>}]
    /\ UNCHANGED doc

\* Mutant: the text is always a new one.
SetFileTextFresh(r) ==
    /\ \E n \in Files(doc[r]) :
         doc' = [doc EXCEPT ![r][n].blob = Delete(@), ![r][n].text = Set(r, @, "text")]
    /\ UNCHANGED typed

\* setFileText of a binary file: the bytes go, for a new text.
SetFileText(r) ==
    /\ \E n \in Files(doc[r]) :
         /\ ~HasText(doc[r][n])
         /\ doc' = [doc EXCEPT ![r][n].blob = Delete(@), ![r][n].text = Set(r, @, "text")]
    /\ UNCHANGED typed

\* A provider brings s what r has.
Sync(r, s) ==
    /\ <<doc[r], typed[r]>> # <<doc[s], typed[s]>>
    /\ doc' = [doc EXCEPT ![s] = [n \in Nodes |-> MergeNodes(@[n], doc[r][n])]]
    /\ typed' = [typed EXCEPT ![s] = @ \cup typed[r]]
    /\ UNCHANGED changes

Change(r) ==
    /\ changes < MaxChanges
    /\ changes' = changes + 1
    /\ \/ Create(r) \/ CreateAtPath(r) \/ Rename(r) \/ Move(r) \/ Trash(r) \/ Restore(r)
       \/ SetBlob(r) \/ Type(r) \/ SetFileText(r)

\* seedFiles, which every replica has loaded.
SeedNodes ==
    [n \in Nodes |->
        IF n \in NewNodes THEN NoNode
        ELSE LET s == CHOOSE t \in Seeds : t.node = n IN NewNode(0, s.kind, Trim(s.name), s.parent, s.holds)]

Init ==
    /\ doc = [r \in Replicas |-> SeedNodes]
    /\ typed = [r \in Replicas |-> {}]
    /\ changes = 0

Next ==
    \/ \E r \in Replicas : Change(r)
    \/ \E r, s \in Replicas : Sync(r, s)

Spec == Init /\ [][Next]_vars

-----------------------------------------------------------------------------
(* Properties.                                                             *)

\* Replicas that have the same item at a key have the same value there, but for
\* its deletion; nodes and their kinds are the same wherever they are known.
Writers      == Replicas \cup {0}
Lines        == Seq(Writers)
Cell(values) == [value : values \cup {Absent}, line : Lines]
NodeType     == [kind : Cell({"file", "folder"}), name : Cell(Titles), parent : Cell(Nodes \cup {Root}),
                 trashed : Cell({"trashed"}), blob : Cell(Bytes), text : Cell({"text"})]

TypeOK ==
    /\ doc \in [Replicas -> [Nodes -> NodeType]]
    /\ typed \in [Replicas -> SUBSET (Nodes \X Lines)]
    /\ changes \in 0..MaxChanges
    /\ \A r, s \in Replicas : \A n \in Nodes :
         /\ \A key \in Keys :
              LET c == doc[r][n][key] d == doc[s][n][key] IN
              c.line = d.line => c.value = d.value \/ Absent \in {c.value, d.value}
         /\ {doc[r][n].kind.value, doc[s][n].kind.value} \cap {"file", "folder"} # {"file", "folder"}
    /\ \A r \in Replicas : \A t \in typed[r] : t[1] \in Files(doc[r])

\* model.ts:146.  Whatever was made, renamed and moved at the same time, no two
\* nodes that are shown have the same path: the sandbox, the editor's tabs and
\* findByPath name a file by it.  (A folder with the empty name, which a name of
\* blanks becomes, would show what is in it beside itself.)
PathsAreDistinct ==
    \A r \in Replicas :
        LET path == ListTree(doc[r]) IN
        (\A n \in DOMAIN path : doc[r][n].name.value # <<>>) =>
            \A m, n \in DOMAIN path : path[m] = path[n] => m = n

OnLoop(nodes, n) == n \in Above(nodes, nodes[n].parent.value)

\* model.ts:129, 280.  A node that nobody put in the trash, nor any folder above
\* it, is shown, unless moves of two different people made a loop above it.
OnlyRacingMovesHide ==
    \A r \in Replicas : LET nodes == doc[r] IN
        \A n \in AllNodes(nodes) \ Live(nodes) :
            \/ \E m \in Above(nodes, n) : nodes[m].trashed.value # Absent
            \/ \E l, m \in {k \in Above(nodes, n) : OnLoop(nodes, k)} :
                 Writer(nodes[l].parent) # Writer(nodes[m].parent)

\* model.ts:17-22.  What somebody typed is in the file's text wherever it has
\* arrived, through renames, moves, the trash and restores, unless somebody gave
\* the file bytes.
EditsSurvive ==
    \A r \in Replicas : \A t \in typed[r] :
        LET node == doc[r][t[1]] IN
        node.blob = Never => node.text.line = t[2] /\ node.text.value # Absent

\* What is shown at a path, case aside.
LowerPath(path)  == [i \in DOMAIN path |-> Lower(path[i])]
Near(tree, path) == {n \in DOMAIN tree : LowerPath(tree[n]) = LowerPath(path)}

Proper(name) == name = Trim(name) /\ name # <<>>

\* model.ts:312.  A file made at a path that nothing has, case aside, moves and
\* renames no node that is shown and is shown at that path, unless a file, or a
\* folder spelt otherwise, is in the way of its folder.
CreatedWhereAsked ==
    \A r \in Replicas : LET before == ListTree(doc[r]) IN
        \A folder, name \in {t \in Names : Proper(t)} :
            /\ Near(before, <<folder, name>>) = {}
            /\ Near(before, <<folder>>) \subseteq At(before, <<folder>>) \cap Folders(doc[r])
            => \A nodes \in CreatedAtPath(r, doc[r], folder, name, "text") :
                   LET after == ListTree(nodes) IN
                   /\ \A n \in DOMAIN before : n \in DOMAIN after /\ after[n] = before[n]
                   /\ At(after, <<folder, name>>) # {}

(* What the comments of model.ts say and two people's changes refute.      *)

\* model.ts:168.  "A parent that is missing (or lost to a cycle) puts the node at
\* the root": a folder moved into a folder that is moved into it stays shown.
LostToACycleIsShown ==
    \A r \in Replicas : LET nodes == doc[r] IN
        \A n \in AllNodes(nodes) :
            (\A m \in Above(nodes, n) : nodes[m].trashed.value = Absent) => n \in Live(nodes)

\* model.ts:12-14.  "A binary file is a file node with a blob and no Y.Text": one
\* that is given bytes while it is turned into a text keeps both.
BinaryHasNoText ==
    \A r \in Replicas : \A n \in Files(doc[r]) :
        doc[r][n].blob.value # Absent => doc[r][n].text.value = Absent

\* model.ts:299.  "Create a file at a/b/c.ts, reusing folders that already exist at
\* those paths": where nothing is shown at the path, the file is shown there.
CreatedAtItsPath ==
    \A r \in Replicas : LET before == ListTree(doc[r]) IN
        \A folder, name \in {t \in Names : Proper(t)} :
            At(before, <<folder, name>>) = {} /\ At(before, <<folder>>) \subseteq Folders(doc[r]) =>
                \A nodes \in CreatedAtPath(r, doc[r], folder, name, "text") :
                    At(ListTree(nodes), <<folder, name>>) # {}
=============================================================================
