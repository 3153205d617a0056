----------------------------- MODULE Namespace -----------------------------
(***************************************************************************)
(* The directory tree of an index and the FUSE handlers of package fs that *)
(* edit it: Create, Mkdir, Remove, Rename, and the lookups they rest on.   *)
(* Each handler loads the index, edits it in memory and saves it under     *)
(* fs.mu, so it is one action here; a handler that returns an error saves  *)
(* nothing and is a stuttering step.                                       *)
(*                                                                         *)
(* A request names its directory by the path the node was looked up with;  *)
(* a path that has become stale finds nothing, or what is there now.       *)
(*                                                                         *)
(* A directory is stored by value in its parent's slice, and handlers work *)
(* with pointers into those slices.  Rename is the one that holds a pointer*)
(* (the new parent) while it removes an element from a slice: see Landing. *)
(***************************************************************************)
EXTENDS Naturals, SequencesExt, FiniteSets

CONSTANTS
  Dirs,         \* identities of directories
  Root,         \* the root directory
  Names,
  FlushName,    \* ".tapefuse_flush"
  MaxUID,       \* bound: files created
  LaterSibling, \* whether a directory may be moved into a later sibling
  None          \* no directory

ASSUME RootAssumption == Root \in Dirs /\ None \notin Dirs
ASSUME DirsAssumption == IsFiniteSet(Dirs)
ASSUME FlushNameAssumption == FlushName \in Names
ASSUME MaxUIDAssumption == MaxUID \in Nat
ASSUME LaterSiblingAssumption == LaterSibling \in BOOLEAN

VARIABLES
  tree,       \* tree[d]: name and contents of directory d, None if d is not in use
  highestUID  \* Index.HighestFileUID

vars == <<tree, highestUID>>

Files == [name : Names, uid : 1 .. MaxUID]

Directories == [name : Names \cup {None}, dirs : Seq(Dirs), files : Seq(Files)]

ASSUME NoDirectoryAssumption == None \notin Directories

NewFile(n, uid) == [name |-> n, uid |-> uid]

NewDirectory(n) == [name |-> n, dirs |-> <<>>, files |-> <<>>]

Live == {d \in Dirs : tree[d] # None}

\* A tree just formatted.
Init ==
  /\ tree = [d \in Dirs |-> IF d = Root THEN NewDirectory(None) ELSE None]
  /\ highestUID = 0

-----------------------------------------------------------------------------
(***************************************************************************)
(* Finding things.                                                         *)
(***************************************************************************)
\* The first element of the slice s whose name is n: its index, 0 if there is none.
IndexOfDir(d, n) == SelectInSeq(tree[d].dirs, LAMBDA e : tree[e].name = n)
IndexOfFile(d, n) == SelectInSeq(tree[d].files, LAMBDA f : f.name = n)

\* Slip: a name is only taken if a file has it.
SlipFilesOnly(d, n) == IndexOfFile(d, n) # 0

HasEntry(d, n) == IndexOfDir(d, n) # 0 \/ IndexOfFile(d, n) # 0

\* Index.FindDirectory: from the root, one part of the path after the other.
FindDirectory(p) ==
  LET Child(d, n) == IF d = None \/ IndexOfDir(d, n) = 0 THEN None
                     ELSE tree[d].dirs[IndexOfDir(d, n)]
      at[i \in 0 .. Len(p)] == IF i = 0 THEN Root ELSE Child(at[i - 1], p[i])
  IN  at[Len(p)]

\* Index.FindFile: the file's UID, 0 if there is none.
FindFile(p) ==
  LET d == FindDirectory(Front(p))
      i == IndexOfFile(d, Last(p))
  IN  IF p = <<>> \/ d = None \/ i = 0 THEN 0 ELSE tree[d].files[i].uid

\* The paths that lead to a directory.
Paths == UNION {[1 .. n -> Names] : n \in 0 .. Cardinality(Dirs) - 1}

DirPaths == {p \in Paths : FindDirectory(p) # None}

\* What Lookup makes of a name in the directory at p: the flush file first, then
\* the directories, then the files.
Lookup(p, n) ==
  LET d == FindDirectory(p)
  IN  CASE p = <<>> /\ n = FlushName -> "flush"
        [] d = None                  -> "none"
        [] IndexOfDir(d, n) # 0      -> tree[d].dirs[IndexOfDir(d, n)]
        [] IndexOfFile(d, n) # 0     -> tree[d].files[IndexOfFile(d, n)]
        [] OTHER                     -> "none"

\* What is listed of the directory at p; the flush file only in the root.
ReadDirAll(p) ==
  LET d == tree[FindDirectory(p)]
  IN  [i \in 1 .. Len(d.dirs) |-> tree[d.dirs[i]].name]
        \o [i \in 1 .. Len(d.files) |-> d.files[i].name]
        \o (IF p = <<>> THEN <<FlushName>> ELSE <<>>)

-----------------------------------------------------------------------------
(***************************************************************************)
(* The handlers.                                                           *)
(***************************************************************************)
\* Slip: the UID given last instead of the next.
SlipCurrentUID == highestUID

NextFileUID == highestUID + 1

Create(p, n) ==
  LET d == FindDirectory(p)
  IN  /\ n # FlushName
      /\ d # None
      /\ ~HasEntry(d, n)
      /\ highestUID < MaxUID
      /\ highestUID' = NextFileUID
      /\ tree' = [tree EXCEPT ![d].files = Append(@, NewFile(n, NextFileUID))]

Mkdir(p, n) ==
  LET d == FindDirectory(p)
  IN  /\ n # FlushName
      /\ d # None
      /\ ~HasEntry(d, n)
      /\ \E e \in Dirs \ Live :
           tree' = [tree EXCEPT ![d].dirs = Append(@, e), ![e] = NewDirectory(n)]
      /\ UNCHANGED highestUID

RemoveFile(p, n) ==
  LET d == FindDirectory(p)
  IN  /\ ~(p = <<>> /\ n = FlushName)
      /\ d # None
      /\ IndexOfFile(d, n) # 0
      /\ tree' = [tree EXCEPT ![d].files = RemoveAt(@, IndexOfFile(d, n))]
      /\ UNCHANGED highestUID

\* Slip: a directory of files counts as empty.
SlipNoSubdirs(d) == tree[d].dirs = <<>>

IsEmpty(d) == tree[d].dirs = <<>> /\ tree[d].files = <<>>

\* The directories S of tree t with the root and, with each one, those in its slice.
HoldsRoot(t, S) == Root \in S /\ \A d \in S : ToSet(t[d].dirs) \subseteq S

\* What can be reached from the root: the least of these sets; the rest is not in the
\* saved index.
Reachable(t) ==
  {d \in Dirs : \A S \in SUBSET {e \in Dirs : t[e] # None} : HoldsRoot(t, S) => d \in S}

Saved(t) == [d \in Dirs |-> IF d \in Reachable(t) THEN t[d] ELSE None]

RemoveDir(p, n) ==
  LET d == FindDirectory(p)
      i == IndexOfDir(d, n)
  IN  /\ ~(p = <<>> /\ n = FlushName)
      /\ d # None
      /\ i # 0
      /\ IsEmpty(tree[d].dirs[i])
      /\ tree' = Saved([tree EXCEPT ![d].dirs = RemoveAt(@, i)])
      /\ UNCHANGED highestUID

NotInside(src, dst) == ~IsPrefix(src, dst)

\* The checks Rename makes before it changes anything.
CanRename(p, old, q, new) ==
  /\ old # FlushName
  /\ ~(q = <<>> /\ new = FlushName)
  /\ FindDirectory(p) # None
  /\ FindDirectory(q) # None
  /\ ~HasEntry(FindDirectory(q), new)
  /\ NotInside(Append(p, old), Append(q, new))

RenameFile(p, old, q, new) ==
  LET from == FindDirectory(p)
      to   == FindDirectory(q)
      i    == IndexOfFile(from, old)
      f    == tree[from].files[i]
      cut  == [tree EXCEPT ![from].files = RemoveAt(@, i)]
  IN  /\ CanRename(p, old, q, new)
      /\ i # 0
      /\ tree' = [cut EXCEPT ![to].files = Append(@, NewFile(new, f.uid))]
      /\ UNCHANGED highestUID

(***************************************************************************)
(* Removing element i of the old parent's slice moves the elements behind  *)
(* it one place forward.  The pointer to the new parent, if that is one of *)
(* them, then points at the directory that follows it, or, at the end of   *)
(* the slice, at a place that is no longer part of it.                     *)
(***************************************************************************)
Landing(from, i, to) ==
  LET s == tree[from].dirs
      j == SelectInSeq(s, LAMBDA e : e = to)
  IN  IF j < i THEN to ELSE IF j < Len(s) THEN s[j + 1] ELSE None

RenameDir(p, old, q, new) ==
  LET from == FindDirectory(p)
      to   == FindDirectory(q)
      i    == IndexOfDir(from, old)
      d    == tree[from].dirs[i]
      cut  == [tree EXCEPT ![from].dirs = RemoveAt(@, i), ![d].name = new]
      land == Landing(from, i, to)
  IN  /\ CanRename(p, old, q, new)
      /\ IndexOfFile(from, old) = 0
      /\ i # 0
      /\ LaterSibling \/ land = to
      /\ tree' = IF land = None THEN Saved(cut)
                 ELSE Saved([cut EXCEPT ![land].dirs = Append(@, d)])
      /\ UNCHANGED highestUID

Next ==
  \/ \E p \in DirPaths, n \in Names :
       Create(p, n) \/ Mkdir(p, n) \/ RemoveFile(p, n) \/ RemoveDir(p, n)
  \/ \E p, q \in DirPaths, old, new \in Names :
       RenameFile(p, old, q, new) \/ RenameDir(p, old, q, new)

Spec == Init /\ [][Next]_vars

-----------------------------------------------------------------------------
(***************************************************************************)
(* Properties.                                                             *)
(***************************************************************************)
\* What is live is what is reached from the root; no directory is listed twice, in one
\* slice or in two, and the root nowhere.
TypeOK ==
  /\ tree \in [Dirs -> Directories \cup {None}]
  /\ highestUID \in 0 .. MaxUID
  /\ Live = Reachable(tree)
  /\ \A c, d \in Live : \A i \in 1 .. Len(tree[c].dirs), j \in 1 .. Len(tree[d].dirs) :
       tree[c].dirs[i] = tree[d].dirs[j] => c = d /\ i = j
  /\ \A d \in Live : \A i \in 1 .. Len(tree[d].dirs) : tree[d].dirs[i] # Root

\* A directory lists each name once, the flush file's included, and a lookup of a name
\* returns the entry that was listed: none is hidden by another.
NamesResolve ==
  \A p \in DirPaths :
    LET d == tree[FindDirectory(p)]
    IN  /\ IsInjective(ReadDirAll(p))
        /\ \A i \in 1 .. Len(d.dirs) : Lookup(p, tree[d.dirs[i]].name) = d.dirs[i]
        /\ \A i \in 1 .. Len(d.files) : Lookup(p, d.files[i].name) = d.files[i]

\* The tree as a map from paths to entries: the names each directory lists, one
\* level after the other, and what a lookup finds there.
Listed(p) ==
  IF FindDirectory(p) = None THEN {}
  ELSE ToSet(ReadDirAll(p)) \ (IF p = <<>> THEN {FlushName} ELSE {})

ListedPaths ==
  LET level[n \in Nat] ==
        IF n = 0 THEN {<<>>}
        ELSE UNION {{Append(p, x) : x \in Listed(p)} : p \in level[n - 1]}
  IN  UNION {level[n] : n \in 0 .. Cardinality(Dirs)}

Entry(p) == IF FindDirectory(p) # None THEN Root ELSE FindFile(p)

Entries == [p \in ListedPaths |-> Entry(p)]

PM == INSTANCE PathMap WITH PathNames <- Names, Directory <- Root, entries <- Entries

\* "create, read, rename and delete operations are fully supported": each one
\* changes the entries at the paths it names and no other.
PathMapSpec == PM!Spec

=============================================================================
