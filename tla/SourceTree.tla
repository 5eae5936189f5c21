----------------------------- MODULE SourceTree -----------------------------
(***************************************************************************)
(* The tree of folders and files that IDE projects show.                   *)
(*                                                                         *)
(* project.getsourcetree adds the files of a project, sorted by virtual    *)
(* path, to a tree (a file at a time: tree.add for the folder, tree.insert *)
(* for the file), then those generated by build rules, next to the files   *)
(* they depend on.  A virtual path is the file's path relative to the      *)
(* project's location, unless an entry of vpaths matches the file.         *)
(* tree.trimroot then removes folders from the top: single ones, unless    *)
(* made for a virtual path, and ".." with a single child.                  *)
(*                                                                         *)
(* Paths are sequences of names; "/" at the head makes one absolute.       *)
(* Wildcards are taken as resolved: an entry of vpaths lists the files it  *)
(* matches and the folder before its first star.  The order of children is *)
(* left out, and with it the sorting that exporters ask for.               *)
(***************************************************************************)
EXTENDS Naturals, Sequences, FiniteSets, SequencesExt

CONSTANTS
  Name,      \* names of folders and files
  DotDot,    \* ".."
  Slash,     \* the root of absolute paths
  Rank,      \* the order of names as strings
  NoFile,    \* the file of a folder; the path of the root
  Project    \* the projects considered: see ProjectAssumption

AbsPath == Seq(Name)
Segment == Name \union {DotDot, Slash}

\* Segments compare as the strings do: none is the beginning of another, and
\* "." and "/" come before letters.
ASSUME RankAssumption ==
  /\ DotDot \notin Name /\ Slash \notin Name /\ DotDot # Slash
  /\ Rank \in [Segment -> Nat]
  /\ \A a, b \in Segment : Rank[a] = Rank[b] => a = b
  /\ \A a \in Name : Rank[DotDot] < Rank[Slash] /\ Rank[Slash] < Rank[a]

ASSUME FileAssumption == NoFile \notin AbsPath

\* Files are absolute paths below the root, the location of the project is not
\* in a file, and what is generated depends on a file of the project.
ASSUME ProjectAssumption == \A p \in Project :
  /\ p.location \in AbsPath
  /\ p.files \subseteq AbsPath \ {<< >>}
  /\ \A f \in p.files : ~ IsPrefix(f, p.location)
  /\ DOMAIN p.source \subseteq p.files
  /\ \A f \in DOMAIN p.source : p.source[f] \in p.files
  /\ \A i \in 1..Len(p.vpaths) :
       /\ p.vpaths[i].to \in AbsPath /\ p.vpaths[i].stars \in BOOLEAN
       /\ p.vpaths[i].from \in AbsPath
       /\ \A f \in p.vpaths[i].matches : IsPrefix(p.vpaths[i].from, f)

VARIABLES
  prj,       \* the project (never changes): its location, files, vpaths in the
             \* order they are tried, and the source of each generated file
  todo,      \* the files not in the tree yet
  nodes,     \* the nodes made so far; the first is the root
  phase,     \* "files", "generated", "trim", "dotdot" or "done"
  trimmed    \* trimroot removed a node

treeVars == <<prj, todo, nodes, phase, trimmed>>

-----------------------------------------------------------------------------
(* Paths                                                                   *)

\* path.getrelative: when only "/" is shared the result is absolute.
Relative(from, f) ==
  LET common == Len(LongestCommonPrefix({from, f}))
      up     == [i \in 1..Len(from) - common |-> DotDot]
  IN  IF common = 0 THEN <<Slash>> \o f
      ELSE up \o SubSeq(f, common + 1, Len(f))

RelPath(f) == Relative(prj.location, f)

\* What an entry of vpaths makes of a file: the part after the first star, or
\* only the name, after the replacement.
Leaf(rule, f) ==
  IF rule.stars /\ Len(rule.from) < Len(f)
  THEN SubSeq(f, Len(rule.from) + 1, Len(f)) ELSE <<Last(f)>>

\* project.getvpath: the first entry that matches
VPath(f) ==
  LET matching == {i \in 1..Len(prj.vpaths) : f \in prj.vpaths[i].matches}
      first    == CHOOSE i \in matching : \A j \in matching : i <= j
  IN  IF matching = {} THEN RelPath(f)
      ELSE prj.vpaths[first].to \o Leaf(prj.vpaths[first], f)

\* The folder a file is added to.
FolderOf(f) ==
  Front(VPath(IF f \in DOMAIN prj.source THEN prj.source[f] ELSE f))

\* p < q as strings
Before(p, q) ==
  \/ IsStrictPrefix(p, q)
  \/ \E i \in 1..Len(p) :
       /\ i <= Len(q) /\ SubSeq(p, 1, i - 1) = SubSeq(q, 1, i - 1)
       /\ Rank[p[i]] < Rank[q[i]]

-----------------------------------------------------------------------------
(* tree.lua                                                                *)

Root == 1

\* trim is FALSE where the extra fields say so.
NewNode(name, path, file, trim) ==
  [name |-> name, path |-> path, file |-> file, trim |-> trim,
   parent |-> Root, children |-> {}, index |-> << >>]

NewTree == <<NewNode(NoFile, NoFile, NoFile, TRUE)>>

\* Mutant of Insert: the child is not entered in the index by name.
InsertUnindexed(tr, parent, node) ==
  Append([tr EXCEPT ![parent].children = @ \union {Len(tr) + 1}],
         [node EXCEPT !.parent = parent])

\* tree.insert; the child is the last node of the result
Insert(tr, parent, node) ==
  LET child == Len(tr) + 1
      entered == [n \in DOMAIN tr[parent].index \union {node.name} |->
                    IF n = node.name THEN child ELSE tr[parent].index[n]]
  IN  Append([tr EXCEPT ![parent].children = @ \union {child}, ![parent].index = entered],
             [node EXCEPT !.parent = parent])

\* Mutant of AddFolder: the flag is that of the last file in the folder.
AddFolderLast(s, path, trim) ==
  LET index == s.tr[s.at].index
      name  == Last(path)
  IN  IF path = <<Slash>> THEN s
      ELSE IF name \in DOMAIN index /\ s.tr[index[name]].path = path
      THEN [tr |-> [s.tr EXCEPT ![index[name]].trim = trim], at |-> index[name]]
      ELSE [tr |-> Insert(s.tr, s.at, NewNode(name, path, NoFile, trim)),
            at |-> Len(s.tr) + 1]

\* One level of tree.add: the folder with this path below node "at" of tree s.tr,
\* found by its name or made.
AddFolder(s, path, trim) ==
  LET index == s.tr[s.at].index
      name  == Last(path)
  IN  IF path = <<Slash>> THEN s
      ELSE IF name \in DOMAIN index /\ s.tr[index[name]].path = path
      THEN [s EXCEPT !.at = index[name]]
      ELSE [tr |-> Insert(s.tr, s.at, NewNode(name, path, NoFile, trim)),
            at |-> Len(s.tr) + 1]

\* tree.add
Add(tr, path, trim) ==
  LET Level[i \in 0..Len(path)] ==
        IF i = 0 THEN [tr |-> tr, at |-> Root]
        ELSE AddFolder(Level[i - 1], SubSeq(path, 1, i), trim)
  IN  Level[Len(path)]

-----------------------------------------------------------------------------
(* project.getsourcetree                                                   *)

\* A file and its folders enter the tree.  Only folders made for a virtual path
\* are kept from being trimmed.
Place(f, trim) ==
  LET folder == Add(nodes, FolderOf(f), trim)
  IN  /\ nodes' = Insert(folder.tr, folder.at, NewNode(Last(VPath(f)), RelPath(f), f, TRUE))
      /\ todo' = todo \ {f}
      /\ UNCHANGED <<prj, phase, trimmed>>

Listed == todo \ DOMAIN prj.source

AddFile(f) ==
  /\ phase = "files" /\ f \in Listed
  /\ \A g \in Listed : ~ Before(VPath(g), VPath(f))
  /\ Place(f, VPath(f) = RelPath(f))

EndFiles ==
  /\ phase = "files" /\ Listed = {}
  /\ phase' = "generated"
  /\ UNCHANGED <<prj, todo, nodes, trimmed>>

AddGenerated(f) ==
  /\ phase = "generated" /\ f \in todo
  /\ Place(f, TRUE)

EndGenerated ==
  /\ phase = "generated" /\ todo = {}
  /\ phase' = "trim"
  /\ UNCHANGED <<prj, todo, nodes, trimmed>>

-----------------------------------------------------------------------------
(* tree.trimroot                                                           *)

\* Mutant of Lifted: the children keep their parent.
LiftedOrphans(n) ==
  [nodes EXCEPT ![Root].children = (@ \ {n}) \union nodes[n].children]

\* The children of node n take its place below the root.
Lifted(n) ==
  [i \in 1..Len(nodes) |->
     IF i = Root
     THEN [nodes[i] EXCEPT !.children = (@ \ {n}) \union nodes[n].children]
     ELSE IF i \in nodes[n].children THEN [nodes[i] EXCEPT !.parent = Root]
     ELSE nodes[i]]

\* The node that the first loop takes away: the only child of the root, unless
\* it is the last folder or one to keep.
Superfluous ==
  {n \in nodes[Root].children :
     /\ nodes[Root].children = {n}
     /\ nodes[n].children # {} /\ nodes[n].trim}

TrimRoot ==
  /\ phase = "trim"
  /\ \E n \in Superfluous : nodes' = Lifted(n)
  /\ trimmed' = TRUE
  /\ UNCHANGED <<prj, todo, phase>>

EndTrim ==
  /\ phase = "trim" /\ Superfluous = {}
  /\ phase' = "dotdot"
  /\ UNCHANGED <<prj, todo, nodes, trimmed>>

DotDots ==
  {n \in nodes[Root].children :
     nodes[n].name = DotDot /\ Cardinality(nodes[n].children) = 1}

\* One replacement of the repeat loop
DropDotDot ==
  /\ phase = "dotdot"
  /\ \E n \in DotDots : nodes' = Lifted(n)
  /\ trimmed' = TRUE
  /\ UNCHANGED <<prj, todo, phase>>

\* The names from the root to node n
Chain(tr, n) ==
  LET To[i \in 1..Len(tr)] ==
        IF i = Root THEN << >> ELSE Append(To[tr[i].parent], tr[i].name)
  IN  To[n]

\* n is reached from the root.
InTree(tr, n) ==
  LET In[i \in 1..Len(tr)] ==
        i = Root \/ (i \in tr[tr[i].parent].children /\ In[tr[i].parent])
  IN  In[n]

\* If nodes were removed the paths of those left are made anew from their names.
Finish ==
  /\ phase = "dotdot" /\ DotDots = {}
  /\ phase' = "done"
  /\ nodes' = [i \in 1..Len(nodes) |->
                 IF trimmed /\ i # Root /\ InTree(nodes, i)
                 THEN [nodes[i] EXCEPT !.path = Chain(nodes, i)] ELSE nodes[i]]
  /\ UNCHANGED <<prj, todo, trimmed>>

-----------------------------------------------------------------------------
(* Specification                                                           *)

TreeInit ==
  /\ prj \in Project
  /\ todo = prj.files
  /\ nodes = NewTree /\ phase = "files" /\ trimmed = FALSE

TreeNext ==
  \/ \E f \in todo : AddFile(f) \/ AddGenerated(f)
  \/ EndFiles \/ EndGenerated \/ TrimRoot \/ EndTrim \/ DropDotDot \/ Finish

TreeSpec == TreeInit /\ [][TreeNext]_treeVars

-----------------------------------------------------------------------------
(* Properties                                                              *)

Node  == {n \in 1..Len(nodes) : n # Root /\ InTree(nodes, n)}
Leaves(f) == {n \in Node : nodes[n].file = f}
Folder == {n \in Node : nodes[n].children # {}}

\* A path without the root it starts from.
Below(path) == IF path # << >> /\ path[1] = Slash THEN Tail(path) ELSE path

\* The names of the folders of a file, as its virtual path has them.
FolderNames(f) == Below(FolderOf(f))

\* No file is shown where a folder is: virtual paths may give them one name.
ShownApart ==
  \A f, g \in prj.files : ~ IsPrefix(Append(FolderNames(f), Last(f)), FolderNames(g))

\* The folders left of a virtual path when k of all paths and the leading ".."
\* down to level m are gone.
Remaining(path, k, m) ==
  LET dots == {j \in 0..m : k + j <= Len(path) /\ \A i \in 1..j : path[k + i] = DotDot}
  IN  SubSeq(path, k + (CHOOSE j \in dots : \A i \in dots : i <= j) + 1, Len(path))

\* If no file is shown where a folder is, every file is in the tree once, as a
\* leaf, in the folders of its virtual path (of the file it depends on, if
\* generated), of which only leading ones are gone: the same for all files, and
\* then "..".
PlacedByVirtualPath ==
  (phase = "done" /\ ShownApart) =>
    \E k, m \in 0..Len(nodes) :
      /\ \A f, g \in prj.files :
           k <= Len(FolderNames(f)) /\ SubSeq(FolderNames(f), 1, k) = SubSeq(FolderNames(g), 1, k)
      /\ \A f \in prj.files : \E n \in Leaves(f) :
           /\ Leaves(f) = {n} /\ nodes[n].children = {}
           /\ Chain(nodes, n) = Append(Remaining(FolderNames(f), k, m), Last(f))

\* Folders outside the location of the project.
Outside == \E f \in prj.files : FolderOf(f) # << >> /\ FolderOf(f)[1] \in {DotDot, Slash}

\* No two folders of the tree have the same path: exporters identify a folder by
\* its path.
FoldersDiffer ==
  phase = "done" =>
    \A n1, n2 \in Folder : nodes[n1].path = nodes[n2].path => n1 = n2

\* So it is in a project whose files are inside its location, or are shown there.
FoldersInsideDiffer == (ShownApart /\ ~Outside) => FoldersDiffer

\* The listed file in virtual folder p that comes first (those, if they are shown
\* under one name): the folder is made for it.
FirstIn(p) ==
  LET in == {f \in prj.files \ DOMAIN prj.source : IsPrefix(p, FolderOf(f))}
  IN  {f \in in : \A g \in in : ~ Before(VPath(g), VPath(f))}

\* It has a virtual path: no matter whether the files after it have one, too.
AskedFor(p) == FirstIn(p) # {} /\ \A f \in FirstIn(p) : VPath(f) # RelPath(f)
MayBeAskedFor(p) == \E f \in FirstIn(p) : VPath(f) # RelPath(f)

\* File f is shown in its folders from the i-th on.
ShownFrom(f, i) ==
  \E n \in Leaves(f) :
    Chain(nodes, n) = Append(SubSeq(FolderOf(f), i, Len(FolderOf(f))), Last(f))

\* If the files are shown inside the location of the project, none where a folder
\* is: each is shown in its folders from one on.  Those above, gone, are not
\* asked for by the vpaths of the first file in them, and if a single folder is
\* left at the top, it is; so a folder that vpaths ask for only by a later file is
\* trimmed.  Without vpaths no folder ever stands alone at the top, be the files
\* inside or not.
OnlyNeededFolders ==
  phase = "done" =>
    /\ (ShownApart /\ ~Outside) =>
         \A f \in prj.files : \E i \in 1..Len(FolderOf(f)) + 1 :
           /\ ShownFrom(f, i)
           /\ \A j \in 1..i - 1 : ~ AskedFor(SubSeq(FolderOf(f), 1, j))
           /\ (\E n \in Folder : nodes[Root].children = {n}) =>
                i <= Len(FolderOf(f)) /\ MayBeAskedFor(SubSeq(FolderOf(f), 1, i))
    /\ (\A f \in prj.files : VPath(f) = RelPath(f)) =>
         \A n \in Folder : nodes[Root].children # {n}
=============================================================================
