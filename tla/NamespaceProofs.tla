-------------------------- MODULE NamespaceProofs --------------------------
(***************************************************************************)
(* Theorems about the directory tree, for any names, any number of         *)
(* directories and trees of any shape and depth.                           *)
(*                                                                         *)
(* The first half proves that the tree stays one and that its names        *)
(* resolve; the second reads it as the map from paths to entries of        *)
(* PathMap and proves that the handlers edit that map path by path.        *)
(***************************************************************************)
EXTENDS Namespace, SequenceTheorems, FiniteSetTheorems, WellFoundedInduction, TLAPS

-----------------------------------------------------------------------------
(***************************************************************************)
(* The parts of the invariant, for a tree t.                               *)
(***************************************************************************)
LiveIn(t) == {d \in Dirs : t[d] # None}

\* What a live directory lists is live.
Sound(t) ==
  /\ t \in [Dirs -> Directories \cup {None}]
  /\ HoldsRoot(t, LiveIn(t))

\* No directory is listed twice, and the root nowhere.
Once(t) ==
  /\ \A c, d \in LiveIn(t) : \A i \in 1 .. Len(t[c].dirs), j \in 1 .. Len(t[d].dirs) :
       t[c].dirs[i] = t[d].dirs[j] => c = d /\ i = j
  /\ \A d \in LiveIn(t) : \A i \in 1 .. Len(t[d].dirs) : t[d].dirs[i] # Root

\* The name of the directory at place i of c's slice, and of the file.
DirName(t, c, i) == t[t[c].dirs[i]].name
FileName(t, c, i) == t[c].files[i].name

\* In one directory no two entries have one name, and in the root none has the name of
\* the flush file.
Distinct(t) ==
  /\ \A c \in LiveIn(t) :
       /\ \A i, j \in 1 .. Len(t[c].dirs) : DirName(t, c, i) = DirName(t, c, j) => i = j
       /\ \A i, j \in 1 .. Len(t[c].files) : FileName(t, c, i) = FileName(t, c, j) => i = j
       /\ \A i \in 1 .. Len(t[c].dirs), j \in 1 .. Len(t[c].files) :
            DirName(t, c, i) # FileName(t, c, j)
  /\ \A i \in 1 .. Len(t[Root].dirs) : DirName(t, Root, i) # FlushName
  /\ \A i \in 1 .. Len(t[Root].files) : FileName(t, Root, i) # FlushName

IInv ==
  /\ Sound(tree)
  /\ Once(tree)
  /\ LiveIn(tree) = Reachable(tree)
  /\ highestUID \in 0 .. MaxUID

NamesInv == IInv /\ Distinct(tree)

-----------------------------------------------------------------------------
(***************************************************************************)
(* Sequences.                                                              *)
(***************************************************************************)
\* The place in s of element j of s without its element i.
Skip(i, j) == IF j < i THEN j ELSE j + 1

LEMMA SkipIsInjective ==
  ASSUME NEW i \in Nat, NEW j \in Nat, NEW k \in Nat
  PROVE  Skip(i, j) # i /\ (Skip(i, j) = Skip(i, k) => j = k)
BY DEF Skip

LEMMA Removed ==
  ASSUME NEW S, NEW s \in Seq(S), NEW i \in 1 .. Len(s)
  PROVE  /\ RemoveAt(s, i) \in Seq(S) /\ Len(s) \in Nat /\ Len(RemoveAt(s, i)) = Len(s) - 1
         /\ \A j \in 1 .. Len(s) - 1 :
              Skip(i, j) \in 1 .. Len(s) /\ RemoveAt(s, i)[j] = s[Skip(i, j)]
<1> DEFINE n == Len(s)
           a == SubSeq(s, 1, i - 1)
           b == SubSeq(s, i + 1, n)
           r == a \o b
<1>1. n \in Nat /\ n = Len(s)
  BY LenProperties
<1> HIDE DEF n
<1>2. i \in Nat /\ 1 <= i /\ i <= n
  BY <1>1
<1>3. \A j \in 1 .. i - 1 : j \in 1 .. Len(s)
  BY <1>1, <1>2
<1>4. \A j \in i + 1 .. n : j \in 1 .. Len(s)
  BY <1>1, <1>2
<1>5. \A j \in 1 .. i - 1 : s[j] \in S
  BY <1>3, ElementOfSeq
<1>6. \A j \in i + 1 .. n : s[j] \in S
  BY <1>4, ElementOfSeq
<1>7. /\ a \in Seq(S) /\ Len(a) = IF 1 <= i - 1 THEN i - 1 - 1 + 1 ELSE 0
      /\ \A j \in 1 .. i - 1 - 1 + 1 : a[j] = s[1 + j - 1]
  BY <1>2, <1>5, SubSeqProperties
<1>8. /\ b \in Seq(S) /\ Len(b) = IF i + 1 <= n THEN n - (i + 1) + 1 ELSE 0
      /\ \A j \in 1 .. n - (i + 1) + 1 : b[j] = s[i + 1 + j - 1]
  BY <1>1, <1>2, <1>6, SubSeqProperties
<1> HIDE DEF a, b
<1>9. Len(a) = i - 1 /\ \A j \in 1 .. i - 1 : a[j] = s[j]
  BY <1>2, <1>7
<1>10. Len(b) = n - i /\ \A j \in 1 .. n - i : b[j] = s[i + j]
  <2>1. (IF i + 1 <= n THEN n - (i + 1) + 1 ELSE 0) = n - i
    BY <1>1, <1>2
  <2>2. ASSUME NEW j \in 1 .. n - i
        PROVE  b[j] = s[i + j]
    <3>1. j \in 1 .. n - (i + 1) + 1 /\ i + 1 + j - 1 = i + j
      BY <1>1, <1>2
    <3>2. b[j] = s[i + 1 + j - 1]
      BY <1>8, <3>1
    <3>. QED  BY <3>1, <3>2
  <2>. QED  BY <1>8, <2>1, <2>2
<1>11. /\ r \in Seq(S) /\ Len(r) = Len(a) + Len(b)
       /\ \A j \in 1 .. Len(a) + Len(b) : r[j] = IF j <= Len(a) THEN a[j] ELSE b[j - Len(a)]
  BY <1>7, <1>8, ConcatProperties
<1> HIDE DEF r
<1>12. Len(r) = n - 1 /\ \A j \in 1 .. n - 1 : r[j] = IF j <= i - 1 THEN a[j] ELSE b[j - (i - 1)]
  <2>1. Len(a) + Len(b) = n - 1
    BY <1>1, <1>2, <1>9, <1>10
  <2>. QED  BY <1>9, <1>11, <2>1
<1>13. ASSUME NEW j \in 1 .. n - 1
       PROVE  Skip(i, j) \in 1 .. n /\ r[j] = s[Skip(i, j)]
  <2>1. CASE j < i
    <3>1. j \in 1 .. i - 1 /\ j <= i - 1 /\ j \in 1 .. n
      BY <1>1, <1>2, <2>1
    <3>. QED  BY <1>9, <1>12, <2>1, <3>1 DEF Skip
  <2>2. CASE ~(j < i)
    <3> DEFINE k == j - (i - 1)
    <3>1. ~(j <= i - 1) /\ k \in 1 .. n - i /\ i + k = j + 1 /\ j + 1 \in 1 .. n
      BY <1>1, <1>2, <2>2
    <3>2. r[j] = b[k]
      BY <1>12, <3>1
    <3> HIDE DEF k
    <3>3. b[k] = s[i + k]
      BY <1>10, <3>1
    <3>. QED  BY <2>2, <3>1, <3>2, <3>3 DEF Skip
  <2>. QED  BY <2>1, <2>2
<1>14. RemoveAt(s, i) = r
  BY DEF RemoveAt, r, a, b, n
<1>. QED  BY <1>1, <1>11, <1>12, <1>13, <1>14

-----------------------------------------------------------------------------
(***************************************************************************)
(* What is reached from the root.                                          *)
(***************************************************************************)
LEMMA ChildrenOf ==
  ASSUME NEW t, Sound(t), NEW c \in LiveIn(t)
  PROVE  /\ t[c] \in Directories /\ t[c].dirs \in Seq(Dirs) /\ t[c].files \in Seq(Files)
         /\ Len(t[c].dirs) \in Nat /\ Len(t[c].files) \in Nat
         /\ \A i \in 1 .. Len(t[c].dirs) : t[c].dirs[i] \in LiveIn(t) /\ t[c].dirs[i] \in Dirs
         /\ ToSet(t[c].dirs) = {t[c].dirs[i] : i \in 1 .. Len(t[c].dirs)}
<1>1. t[c] \in Directories
  BY DEF Sound, LiveIn
<1>2. t[c].dirs \in Seq(Dirs) /\ t[c].files \in Seq(Files)
  BY <1>1 DEF Directories
<1>3. Len(t[c].dirs) \in Nat /\ Len(t[c].files) \in Nat /\ DOMAIN t[c].dirs = 1 .. Len(t[c].dirs)
  BY <1>2, LenProperties
<1>4. ToSet(t[c].dirs) = {t[c].dirs[i] : i \in 1 .. Len(t[c].dirs)}
  BY <1>3 DEF ToSet
<1>5. \A i \in 1 .. Len(t[c].dirs) : t[c].dirs[i] \in LiveIn(t)
  BY <1>4 DEF Sound, HoldsRoot
<1>. QED  BY <1>1, <1>2, <1>3, <1>4, <1>5 DEF LiveIn

\* Reachable is one of the sets that hold the root, and the least.
LEMMA ReachFacts ==
  ASSUME NEW t, Sound(t)
  PROVE  /\ Reachable(t) \subseteq LiveIn(t)
         /\ HoldsRoot(t, Reachable(t))
         /\ \A S \in SUBSET LiveIn(t) : HoldsRoot(t, S) => Reachable(t) \subseteq S
<1>1. Reachable(t) = {d \in Dirs : \A S \in SUBSET LiveIn(t) : HoldsRoot(t, S) => d \in S}
  BY DEF Reachable, LiveIn
<1>2. HoldsRoot(t, LiveIn(t)) /\ LiveIn(t) \subseteq Dirs /\ LiveIn(t) \in SUBSET LiveIn(t)
  BY DEF Sound, LiveIn
<1>3. Reachable(t) \subseteq LiveIn(t)
  BY <1>1, <1>2
<1>4. \A S \in SUBSET LiveIn(t) : HoldsRoot(t, S) => Reachable(t) \subseteq S
  BY <1>1
<1>5. Root \in Reachable(t)
  BY <1>1, RootAssumption DEF HoldsRoot
<1>6. ASSUME NEW d \in Reachable(t), NEW e \in ToSet(t[d].dirs)
      PROVE  e \in Reachable(t)
  <2>1. e \in Dirs
    BY <1>2, <1>3 DEF HoldsRoot
  <2>2. ASSUME NEW S \in SUBSET LiveIn(t), HoldsRoot(t, S)
        PROVE  e \in S
    <3>1. d \in S
      BY <1>4, <2>2
    <3>. QED  BY <2>2, <3>1 DEF HoldsRoot
  <2>. QED  BY <1>1, <2>1, <2>2
<1>. QED  BY <1>3, <1>4, <1>5, <1>6 DEF HoldsRoot

\* A tree is saved with what is reached in it, which is then reached in what was saved.
LEMMA SavedTree ==
  ASSUME NEW t, Sound(t)
  PROVE  LET s == Saved(t)
         IN  /\ Sound(s) /\ LiveIn(s) = Reachable(s)
             /\ LiveIn(s) = Reachable(t) /\ LiveIn(s) \subseteq LiveIn(t)
             /\ \A d \in LiveIn(s) : s[d] = t[d]
<1> DEFINE s == Saved(t)
           R == Reachable(t)
<1>1. /\ R \subseteq LiveIn(t) /\ HoldsRoot(t, R)
      /\ \A S \in SUBSET LiveIn(t) : HoldsRoot(t, S) => R \subseteq S
  BY ReachFacts
<1>2. LiveIn(t) \subseteq Dirs /\ t \in [Dirs -> Directories \cup {None}]
  BY DEF LiveIn, Sound
<1> HIDE DEF R
<1>3. s = [d \in Dirs |-> IF d \in R THEN t[d] ELSE None]
  BY DEF Saved, R
<1>4. s \in [Dirs -> Directories \cup {None}]
  BY <1>2, <1>3
<1>5. \A d \in R : s[d] = t[d] /\ t[d] # None /\ d \in Dirs
  BY <1>1, <1>2, <1>3 DEF LiveIn
<1>6. LiveIn(s) = R
  <2>1. \A d \in Dirs : s[d] # None <=> d \in R
    BY <1>3, <1>5
  <2>. QED  BY <1>1, <1>2, <2>1 DEF LiveIn
<1> HIDE DEF s
<1>7. HoldsRoot(s, R)
  BY <1>1, <1>5 DEF HoldsRoot
<1>8. Sound(s)
  BY <1>4, <1>6, <1>7 DEF Sound
<1>9. Reachable(s) = R
  <2>1. Reachable(s) \subseteq R /\ HoldsRoot(s, Reachable(s))
    BY <1>6, <1>8, ReachFacts
  <2>2. HoldsRoot(t, Reachable(s))
    BY <1>5, <2>1 DEF HoldsRoot
  <2>3. Reachable(s) \in SUBSET LiveIn(t)
    BY <1>1, <2>1
  <2>. QED  BY <1>1, <2>1, <2>2, <2>3
<1>. QED  BY <1>1, <1>5, <1>6, <1>8, <1>9 DEF s, R

\* What is saved of a tree keeps what held of all of it.
LEMMA SavedKeeps ==
  ASSUME NEW t, Sound(t)
  PROVE  /\ Once(t) => Once(Saved(t))
         /\ Distinct(t) => Distinct(Saved(t))
<1> DEFINE s == Saved(t)
           R == LiveIn(s)
<1>1. /\ Sound(s) /\ R \subseteq LiveIn(t)
      /\ \A d \in R : s[d] = t[d]
  BY SavedTree
<1> HIDE DEF s
<1>2. Root \in R /\ \A c \in R : \A i \in 1 .. Len(s[c].dirs) : s[c].dirs[i] \in R
  BY <1>1, ChildrenOf DEF Sound, HoldsRoot
<1>3. Once(t) => Once(s)
  BY <1>1, SMTT(30) DEF Once
<1>4. ASSUME Distinct(t)
      PROVE  Distinct(s)
  <2>1. \A c \in R : \A i \in 1 .. Len(s[c].dirs) : DirName(s, c, i) = DirName(t, c, i)
    BY <1>1, <1>2 DEF DirName
  <2>2. \A c \in R : \A i \in 1 .. Len(s[c].files) : FileName(s, c, i) = FileName(t, c, i)
    BY <1>1 DEF FileName
  <2>3. ASSUME NEW c \in R
        PROVE  /\ \A i, j \in 1 .. Len(s[c].dirs) : DirName(s, c, i) = DirName(s, c, j) => i = j
               /\ \A i, j \in 1 .. Len(s[c].files) : FileName(s, c, i) = FileName(s, c, j) => i = j
               /\ \A i \in 1 .. Len(s[c].dirs), j \in 1 .. Len(s[c].files) :
                    DirName(s, c, i) # FileName(s, c, j)
    BY <1>1, <1>4, <2>1, <2>2 DEF Distinct
  <2>4. \A i \in 1 .. Len(s[Root].dirs) : DirName(s, Root, i) # FlushName
    BY <1>1, <1>2, <1>4, <2>1 DEF Distinct
  <2>5. \A i \in 1 .. Len(s[Root].files) : FileName(s, Root, i) # FlushName
    BY <1>1, <1>2, <1>4, <2>2 DEF Distinct
  <2>. QED  BY <2>3, <2>4, <2>5 DEF Distinct
<1>. QED  BY <1>3, <1>4 DEF s

-----------------------------------------------------------------------------
(***************************************************************************)
(* Edits of a tree.                                                        *)
(***************************************************************************)
\* Where nothing is done to the slices of directories, the tree stays in shape.
LEMMA SameShape ==
  ASSUME NEW t, Sound(t), NEW u \in [Dirs -> Directories \cup {None}], LiveIn(u) = LiveIn(t),
         \A b \in LiveIn(t) : u[b].dirs = t[b].dirs
  PROVE  Sound(u) /\ (Once(t) => Once(u)) /\ Reachable(u) = Reachable(t)
<1>1. LiveIn(t) \subseteq Dirs
  BY DEF LiveIn
<1>2. \A S \in SUBSET LiveIn(t) : HoldsRoot(u, S) <=> HoldsRoot(t, S)
  BY DEF HoldsRoot
<1>3. Sound(u)
  BY <1>2 DEF Sound
<1>4. Once(t) => Once(u)
  BY DEF Once
<1>5. Reachable(u) = Reachable(t)
  <2>1. /\ Reachable(t) = {d \in Dirs : \A S \in SUBSET LiveIn(t) : HoldsRoot(t, S) => d \in S}
        /\ Reachable(u) = {d \in Dirs : \A S \in SUBSET LiveIn(t) : HoldsRoot(u, S) => d \in S}
    BY DEF Reachable, LiveIn
  <2>. QED  BY <1>2, <2>1
<1>. QED  BY <1>3, <1>4, <1>5

\* The place in t of what is at place j of b's slice once element i of c's is removed.
Before(c, i, b, j) == IF b = c THEN Skip(i, j) ELSE j

\* u is t without element i of c's slice.
Without(t, c, i, u) ==
  /\ u \in [Dirs -> Directories \cup {None}]
  /\ LiveIn(u) = LiveIn(t)
  /\ u[c].dirs = RemoveAt(t[c].dirs, i)
  /\ \A b \in LiveIn(t) : b # c => u[b].dirs = t[b].dirs

LEMMA WithoutPlaces ==
  ASSUME NEW t, Sound(t), NEW c \in LiveIn(t), NEW i \in 1 .. Len(t[c].dirs), NEW u,
         Without(t, c, i, u)
  PROVE  /\ \A b \in LiveIn(t) : \A j \in 1 .. Len(u[b].dirs) :
              /\ Before(c, i, b, j) \in 1 .. Len(t[b].dirs)
              /\ u[b].dirs[j] = t[b].dirs[Before(c, i, b, j)]
              /\ b = c => Before(c, i, b, j) # i
         /\ \A b \in LiveIn(t) : \A j, k \in 1 .. Len(u[b].dirs) :
              Before(c, i, b, j) = Before(c, i, b, k) => j = k
<1>1. t[c].dirs \in Seq(Dirs) /\ Len(t[c].dirs) \in Nat
  BY ChildrenOf
<1>2. /\ Len(RemoveAt(t[c].dirs, i)) = Len(t[c].dirs) - 1
      /\ \A j \in 1 .. Len(t[c].dirs) - 1 :
           Skip(i, j) \in 1 .. Len(t[c].dirs) /\ RemoveAt(t[c].dirs, i)[j] = t[c].dirs[Skip(i, j)]
  BY <1>1, Removed
<1>3. i \in Nat
  BY <1>1
<1>4. /\ \A j \in 1 .. Len(u[c].dirs) :
           /\ j \in Nat /\ Skip(i, j) \in 1 .. Len(t[c].dirs)
           /\ u[c].dirs[j] = t[c].dirs[Skip(i, j)]
  <2>1. Len(u[c].dirs) = Len(t[c].dirs) - 1 /\ u[c].dirs = RemoveAt(t[c].dirs, i)
    BY <1>2 DEF Without
  <2>. QED  BY <1>1, <1>2, <2>1
<1>5. ASSUME NEW b \in LiveIn(t), NEW j \in 1 .. Len(u[b].dirs)
      PROVE  /\ Before(c, i, b, j) \in 1 .. Len(t[b].dirs)
             /\ u[b].dirs[j] = t[b].dirs[Before(c, i, b, j)]
             /\ b = c => Before(c, i, b, j) # i
  <2>1. CASE b = c
    BY <1>3, <1>4, <2>1, SkipIsInjective DEF Before
  <2>2. CASE b # c
    BY <2>2 DEF Before, Without
  <2>. QED  BY <2>1, <2>2
<1>6. ASSUME NEW b \in LiveIn(t), NEW j \in 1 .. Len(u[b].dirs), NEW k \in 1 .. Len(u[b].dirs),
             Before(c, i, b, j) = Before(c, i, b, k)
      PROVE  j = k
  <2>1. CASE b = c
    BY <1>3, <1>4, <1>6, <2>1, SkipIsInjective DEF Before
  <2>2. CASE b # c
    BY <1>6, <2>2 DEF Before
  <2>. QED  BY <2>1, <2>2
<1>. QED  BY <1>5, <1>6

\* A directory taken out of a slice is listed nowhere any more.
LEMMA WithoutShape ==
  ASSUME NEW t, Sound(t), Once(t), NEW c \in LiveIn(t), NEW i \in 1 .. Len(t[c].dirs), NEW u,
         Without(t, c, i, u)
  PROVE  /\ Sound(u) /\ Once(u)
         /\ \A b \in LiveIn(u) : \A j \in 1 .. Len(u[b].dirs) : u[b].dirs[j] # t[c].dirs[i]
<1>1. /\ \A b \in LiveIn(t) : \A j \in 1 .. Len(u[b].dirs) :
           /\ Before(c, i, b, j) \in 1 .. Len(t[b].dirs)
           /\ u[b].dirs[j] = t[b].dirs[Before(c, i, b, j)]
           /\ b = c => Before(c, i, b, j) # i
      /\ \A b \in LiveIn(t) : \A j, k \in 1 .. Len(u[b].dirs) :
           Before(c, i, b, j) = Before(c, i, b, k) => j = k
  BY WithoutPlaces
<1>2. LiveIn(u) = LiveIn(t) /\ u \in [Dirs -> Directories \cup {None}]
  BY DEF Without
<1>3. ASSUME NEW b \in LiveIn(t), NEW j \in 1 .. Len(u[b].dirs)
      PROVE  u[b].dirs[j] \in LiveIn(t) /\ u[b].dirs[j] # Root /\ u[b].dirs[j] # t[c].dirs[i]
  <2> DEFINE x == Before(c, i, b, j)
  <2>1. x \in 1 .. Len(t[b].dirs) /\ u[b].dirs[j] = t[b].dirs[x] /\ (b = c => x # i)
    BY <1>1
  <2> HIDE DEF x
  <2>2. t[b].dirs[x] \in LiveIn(t)
    BY <2>1, ChildrenOf
  <2>3. t[b].dirs[x] # Root /\ (t[b].dirs[x] = t[c].dirs[i] => b = c /\ x = i)
    BY <2>1 DEF Once
  <2>. QED  BY <2>1, <2>2, <2>3
<1>4. ASSUME NEW b \in LiveIn(t), NEW j \in 1 .. Len(u[b].dirs),
             NEW d \in LiveIn(t), NEW k \in 1 .. Len(u[d].dirs), u[b].dirs[j] = u[d].dirs[k]
      PROVE  b = d /\ j = k
  <2> DEFINE x == Before(c, i, b, j)
             y == Before(c, i, d, k)
  <2>1. x \in 1 .. Len(t[b].dirs) /\ y \in 1 .. Len(t[d].dirs) /\ t[b].dirs[x] = t[d].dirs[y]
    BY <1>1, <1>4
  <2> HIDE DEF x, y
  <2>2. b = d /\ x = y
    BY <2>1 DEF Once
  <2>. QED  BY <1>1, <2>2 DEF x, y
<1>5. Once(u)
  BY <1>2, <1>3, <1>4 DEF Once
<1>6. \A b \in LiveIn(t) : ToSet(u[b].dirs) \subseteq LiveIn(t)
  <2>1. ASSUME NEW b \in LiveIn(t)
        PROVE  ToSet(u[b].dirs) \subseteq LiveIn(t)
    <3>1. u[b] \in Directories
      BY <1>2 DEF LiveIn
    <3>2. DOMAIN u[b].dirs = 1 .. Len(u[b].dirs)
      BY <3>1, LenProperties DEF Directories
    <3>. QED  BY <1>3, <3>2 DEF ToSet
  <2>. QED  BY <2>1
<1>7. Sound(u)
  BY <1>2, <1>6 DEF Sound, HoldsRoot
<1>. QED  BY <1>2, <1>3, <1>5, <1>7

\* Names stay distinct: only the directory taken out may have another name in u.
LEMMA WithoutNames ==
  ASSUME NEW t, Sound(t), Once(t), Distinct(t),
         NEW c \in LiveIn(t), NEW i \in 1 .. Len(t[c].dirs), NEW u, Without(t, c, i, u),
         \A b \in LiveIn(t) : u[b].files = t[b].files,
         \A b \in LiveIn(t) : b # t[c].dirs[i] => u[b].name = t[b].name
  PROVE  Distinct(u)
<1>1. /\ \A b \in LiveIn(t) : \A j \in 1 .. Len(u[b].dirs) :
           /\ Before(c, i, b, j) \in 1 .. Len(t[b].dirs)
           /\ u[b].dirs[j] = t[b].dirs[Before(c, i, b, j)]
           /\ b = c => Before(c, i, b, j) # i
      /\ \A b \in LiveIn(t) : \A j, k \in 1 .. Len(u[b].dirs) :
           Before(c, i, b, j) = Before(c, i, b, k) => j = k
  BY WithoutPlaces
<1>2. /\ Sound(u)
      /\ \A b \in LiveIn(u) : \A j \in 1 .. Len(u[b].dirs) : u[b].dirs[j] # t[c].dirs[i]
  BY WithoutShape
<1>3. LiveIn(u) = LiveIn(t) /\ Root \in LiveIn(t)
  BY DEF Without, Sound, HoldsRoot
<1>4. \A b \in LiveIn(t) : \A j \in 1 .. Len(u[b].dirs) :
        DirName(u, b, j) = DirName(t, b, Before(c, i, b, j))
  <2>1. ASSUME NEW b \in LiveIn(t), NEW j \in 1 .. Len(u[b].dirs)
        PROVE  DirName(u, b, j) = DirName(t, b, Before(c, i, b, j))
    <3>1. u[b].dirs[j] \in LiveIn(t) /\ u[b].dirs[j] # t[c].dirs[i]
      BY <1>2, <1>3, ChildrenOf
    <3>. QED  BY <1>1, <3>1 DEF DirName
  <2>. QED  BY <2>1
<1>5. \A b \in LiveIn(t) : Len(u[b].files) = Len(t[b].files)
                           /\ \A j : FileName(u, b, j) = FileName(t, b, j)
  BY DEF FileName
<1>6. ASSUME NEW b \in LiveIn(t)
      PROVE  /\ \A j, k \in 1 .. Len(u[b].dirs) : DirName(u, b, j) = DirName(u, b, k) => j = k
             /\ \A j, k \in 1 .. Len(u[b].files) : FileName(u, b, j) = FileName(u, b, k) => j = k
             /\ \A j \in 1 .. Len(u[b].dirs), k \in 1 .. Len(u[b].files) :
                  DirName(u, b, j) # FileName(u, b, k)
  <2>1. ASSUME NEW j \in 1 .. Len(u[b].dirs), NEW k \in 1 .. Len(u[b].dirs),
               DirName(u, b, j) = DirName(u, b, k)
        PROVE  j = k
    <3>1. Before(c, i, b, j) = Before(c, i, b, k)
      BY <1>1, <1>4, <2>1 DEF Distinct
    <3>. QED  BY <1>1, <3>1
  <2>2. ASSUME NEW j \in 1 .. Len(u[b].dirs), NEW k \in 1 .. Len(u[b].files)
        PROVE  DirName(u, b, j) # FileName(u, b, k)
    BY <1>1, <1>4, <1>5, SMTT(30) DEF Distinct
  <2>3. \A j, k \in 1 .. Len(u[b].files) : FileName(u, b, j) = FileName(u, b, k) => j = k
    BY <1>5 DEF Distinct
  <2>. QED  BY <2>1, <2>2, <2>3
<1>7. \A j \in 1 .. Len(u[Root].dirs) : DirName(u, Root, j) # FlushName
  BY <1>1, <1>3, <1>4 DEF Distinct
<1>8. \A j \in 1 .. Len(u[Root].files) : FileName(u, Root, j) # FlushName
  BY <1>3, <1>5 DEF Distinct
<1>. QED  BY <1>3, <1>6, <1>7, <1>8 DEF Distinct

\* u is t with e at the end of c's slice.
With(t, c, e, u) ==
  /\ u \in [Dirs -> Directories \cup {None}]
  /\ LiveIn(u) = LiveIn(t)
  /\ u[c].dirs = Append(t[c].dirs, e)
  /\ \A b \in LiveIn(t) : b # c => u[b].dirs = t[b].dirs

\* What is at place j of b's slice in u: e, or what was there.
LEMMA WithPlaces ==
  ASSUME NEW t, Sound(t), NEW c \in LiveIn(t), NEW e, NEW u, With(t, c, e, u)
  PROVE  /\ \A b \in LiveIn(t) : \A j \in 1 .. Len(u[b].dirs) :
              \/ j \in 1 .. Len(t[b].dirs) /\ u[b].dirs[j] = t[b].dirs[j]
              \/ b = c /\ j = Len(t[c].dirs) + 1 /\ u[b].dirs[j] = e
<1> DEFINE n == Len(t[c].dirs)
<1>1. t[c].dirs \in Seq(Dirs) /\ n \in Nat /\ n = Len(t[c].dirs)
  BY ChildrenOf
<1> HIDE DEF n
<1>2. /\ Len(Append(t[c].dirs, e)) = n + 1
      /\ \A j \in 1 .. n : Append(t[c].dirs, e)[j] = t[c].dirs[j]
      /\ Append(t[c].dirs, e)[n + 1] = e
  BY <1>1
<1>3. \A j \in 1 .. Len(u[c].dirs) :
        \/ j \in 1 .. n /\ u[c].dirs[j] = t[c].dirs[j]
        \/ j = n + 1 /\ u[c].dirs[j] = e
  <2>1. Len(u[c].dirs) = n + 1 /\ u[c].dirs = Append(t[c].dirs, e)
    BY <1>2 DEF With
  <2>2. \A j \in 1 .. n + 1 : j \in 1 .. n \/ j = n + 1
    BY <1>1
  <2>. QED  BY <1>2, <2>1, <2>2
<1>4. \A b \in LiveIn(t) : b # c => u[b].dirs = t[b].dirs
  BY DEF With
<1>. QED  BY <1>1, <1>3, <1>4

\* e is listed nowhere.
Unlisted(t, e) == \A b \in LiveIn(t) : \A j \in 1 .. Len(t[b].dirs) : t[b].dirs[j] # e

\* A directory that is listed nowhere can be put in any slice.
LEMMA WithShape ==
  ASSUME NEW t, Sound(t), Once(t), NEW c \in LiveIn(t), NEW e \in LiveIn(t), e # Root,
         Unlisted(t, e), NEW u, With(t, c, e, u)
  PROVE  Sound(u) /\ Once(u)
<1>1. \A b \in LiveIn(t) : \A j \in 1 .. Len(u[b].dirs) :
        \/ j \in 1 .. Len(t[b].dirs) /\ u[b].dirs[j] = t[b].dirs[j]
        \/ b = c /\ j = Len(t[c].dirs) + 1 /\ u[b].dirs[j] = e
  BY WithPlaces
<1>2. LiveIn(u) = LiveIn(t) /\ u \in [Dirs -> Directories \cup {None}]
  BY DEF With
<1>3. ASSUME NEW b \in LiveIn(t), NEW j \in 1 .. Len(u[b].dirs)
      PROVE  u[b].dirs[j] \in LiveIn(t) /\ u[b].dirs[j] # Root
  <2>1. CASE j \in 1 .. Len(t[b].dirs) /\ u[b].dirs[j] = t[b].dirs[j]
    <3>1. t[b].dirs[j] \in LiveIn(t)
      BY <2>1, ChildrenOf
    <3>. QED  BY <2>1, <3>1 DEF Once
  <2>2. CASE u[b].dirs[j] = e
    BY <2>2
  <2>. QED  BY <1>1, <2>1, <2>2
<1>4. ASSUME NEW b \in LiveIn(t), NEW j \in 1 .. Len(u[b].dirs),
             NEW d \in LiveIn(t), NEW k \in 1 .. Len(u[d].dirs), u[b].dirs[j] = u[d].dirs[k]
      PROVE  b = d /\ j = k
  <2>1. CASE j \in 1 .. Len(t[b].dirs) /\ u[b].dirs[j] = t[b].dirs[j]
    <3>1. t[b].dirs[j] # e
      BY <2>1 DEF Unlisted
    <3>2. k \in 1 .. Len(t[d].dirs) /\ u[d].dirs[k] = t[d].dirs[k]
      BY <1>1, <1>4, <2>1, <3>1
    <3>3. t[b].dirs[j] = t[d].dirs[k]
      BY <1>4, <2>1, <3>2
    <3>4. \A x \in 1 .. Len(t[b].dirs), y \in 1 .. Len(t[d].dirs) :
            t[b].dirs[x] = t[d].dirs[y] => b = d /\ x = y
      BY DEF Once
    <3>. QED  BY <2>1, <3>2, <3>3, <3>4
  <2>2. CASE b = c /\ j = Len(t[c].dirs) + 1 /\ u[b].dirs[j] = e
    <3>1. ~(k \in 1 .. Len(t[d].dirs) /\ u[d].dirs[k] = t[d].dirs[k])
      BY <1>4, <2>2 DEF Unlisted
    <3>2. d = c /\ k = Len(t[c].dirs) + 1
      BY <1>1, <3>1
    <3>. QED  BY <2>2, <3>2
  <2>. QED  BY <1>1, <2>1, <2>2
<1>5. Once(u)
  BY <1>2, <1>3, <1>4 DEF Once
<1>6. ASSUME NEW b \in LiveIn(t)
      PROVE  ToSet(u[b].dirs) \subseteq LiveIn(t)
  <2>1. u[b] \in Directories
    BY <1>2 DEF LiveIn
  <2>2. DOMAIN u[b].dirs = 1 .. Len(u[b].dirs)
    BY <2>1, LenProperties DEF Directories
  <2>. QED  BY <1>3, <2>2 DEF ToSet
<1>7. Sound(u)
  BY <1>2, <1>6 DEF Sound, HoldsRoot
<1>. QED  BY <1>5, <1>7

\* No entry of c has the name n, nor the flush file where that is listed.
NoEntryNamed(t, c, n) ==
  /\ \A i \in 1 .. Len(t[c].dirs) : DirName(t, c, i) # n
  /\ \A i \in 1 .. Len(t[c].files) : FileName(t, c, i) # n
  /\ c = Root => n # FlushName

LEMMA WithNames ==
  ASSUME NEW t, Sound(t), Distinct(t), NEW c \in LiveIn(t), NEW e, NEW u, With(t, c, e, u),
         NoEntryNamed(t, c, t[e].name),
         \A b \in LiveIn(t) : u[b].files = t[b].files /\ u[b].name = t[b].name,
         e \in LiveIn(t)
  PROVE  Distinct(u)
<1>1. \A b \in LiveIn(t) : \A j \in 1 .. Len(u[b].dirs) :
        \/ j \in 1 .. Len(t[b].dirs) /\ u[b].dirs[j] = t[b].dirs[j]
        \/ b = c /\ j = Len(t[c].dirs) + 1 /\ u[b].dirs[j] = e
  BY WithPlaces
<1>2. LiveIn(u) = LiveIn(t) /\ Root \in LiveIn(t)
  BY DEF With, Sound, HoldsRoot
<1>3. \A b \in LiveIn(t) : \A j \in 1 .. Len(u[b].dirs) :
        \/ j \in 1 .. Len(t[b].dirs) /\ DirName(u, b, j) = DirName(t, b, j)
        \/ b = c /\ j = Len(t[c].dirs) + 1 /\ DirName(u, b, j) = t[e].name
  <2>1. ASSUME NEW b \in LiveIn(t), NEW j \in 1 .. Len(t[b].dirs), u[b].dirs[j] = t[b].dirs[j]
        PROVE  DirName(u, b, j) = DirName(t, b, j)
    <3>1. t[b].dirs[j] \in LiveIn(t)
      BY ChildrenOf
    <3>. QED  BY <2>1, <3>1 DEF DirName
  <2>2. ASSUME NEW b, NEW j, u[b].dirs[j] = e
        PROVE  DirName(u, b, j) = t[e].name
    BY <2>2 DEF DirName
  <2>. QED  BY <1>1, <2>1, <2>2
<1>4. \A b \in LiveIn(t) : Len(u[b].files) = Len(t[b].files)
                           /\ \A j : FileName(u, b, j) = FileName(t, b, j)
  BY DEF FileName
<1>5. ASSUME NEW b \in LiveIn(t), NEW j \in 1 .. Len(u[b].dirs), NEW k \in 1 .. Len(u[b].dirs),
             DirName(u, b, j) = DirName(u, b, k)
      PROVE  j = k
  <2>1. CASE j \in 1 .. Len(t[b].dirs) /\ DirName(u, b, j) = DirName(t, b, j)
    <3>1. ~(b = c /\ k = Len(t[c].dirs) + 1 /\ DirName(u, b, k) = t[e].name)
      BY <1>5, <2>1 DEF NoEntryNamed
    <3>2. k \in 1 .. Len(t[b].dirs) /\ DirName(u, b, k) = DirName(t, b, k)
      BY <1>3, <3>1
    <3>. QED  BY <1>5, <2>1, <3>2 DEF Distinct
  <2>2. CASE b = c /\ j = Len(t[c].dirs) + 1 /\ DirName(u, b, j) = t[e].name
    <3>1. ~(k \in 1 .. Len(t[b].dirs) /\ DirName(u, b, k) = DirName(t, b, k))
      BY <1>5, <2>2 DEF NoEntryNamed
    <3>. QED  BY <1>3, <2>2, <3>1
  <2>. QED  BY <1>3, <2>1, <2>2
<1>6. ASSUME NEW b \in LiveIn(t), NEW j \in 1 .. Len(u[b].dirs), NEW k \in 1 .. Len(u[b].files)
      PROVE  DirName(u, b, j) # FileName(u, b, k)
  <2>1. k \in 1 .. Len(t[b].files) /\ FileName(u, b, k) = FileName(t, b, k)
    BY <1>4
  <2>2. CASE j \in 1 .. Len(t[b].dirs) /\ DirName(u, b, j) = DirName(t, b, j)
    BY <2>1, <2>2 DEF Distinct
  <2>3. CASE b = c /\ DirName(u, b, j) = t[e].name
    BY <2>1, <2>3 DEF NoEntryNamed
  <2>. QED  BY <1>3, <2>2, <2>3
<1>7. \A b \in LiveIn(t) :
        \A j, k \in 1 .. Len(u[b].files) : FileName(u, b, j) = FileName(u, b, k) => j = k
  BY <1>4 DEF Distinct
<1>8. \A j \in 1 .. Len(u[Root].dirs) : DirName(u, Root, j) # FlushName
  BY <1>2, <1>3 DEF Distinct, NoEntryNamed
<1>9. \A j \in 1 .. Len(u[Root].files) : FileName(u, Root, j) # FlushName
  BY <1>2, <1>4 DEF Distinct
<1>. QED  BY <1>2, <1>5, <1>6, <1>7, <1>8, <1>9 DEF Distinct

-----------------------------------------------------------------------------
(***************************************************************************)
(* Edits of a slice of files.                                              *)
(***************************************************************************)
\* u is t with the files fs in directory c.
Refiled(t, c, fs, u) ==
  /\ u \in [Dirs -> Directories \cup {None}]
  /\ LiveIn(u) = LiveIn(t)
  /\ u[c].files = fs
  /\ \A b \in LiveIn(t) : u[b].dirs = t[b].dirs /\ u[b].name = t[b].name
  /\ \A b \in LiveIn(t) : b # c => u[b].files = t[b].files

LEMMA SetFiles ==
  ASSUME NEW t \in [Dirs -> Directories \cup {None}], NEW c \in LiveIn(t), NEW fs \in Seq(Files)
  PROVE  Refiled(t, c, fs, [t EXCEPT ![c].files = fs])
<1> DEFINE u == [t EXCEPT ![c].files = fs]
<1>1. c \in Dirs /\ t[c] \in Directories /\ t[c] # None
  BY DEF LiveIn
<1>2. [t[c] EXCEPT !.files = fs] = [name |-> t[c].name, dirs |-> t[c].dirs, files |-> fs]
  BY <1>1 DEF Directories
<1>3. u = [d \in Dirs |-> IF d = c THEN [name |-> t[c].name, dirs |-> t[c].dirs, files |-> fs] ELSE t[d]]
  BY <1>2
<1>4. [name |-> t[c].name, dirs |-> t[c].dirs, files |-> fs] \in Directories
  BY <1>1 DEF Directories
<1> HIDE DEF u
<1>5. u \in [Dirs -> Directories \cup {None}]
  BY <1>3, <1>4
<1>6. u[c] = [name |-> t[c].name, dirs |-> t[c].dirs, files |-> fs] /\ u[c] # None
  BY <1>1, <1>3, <1>4, NoDirectoryAssumption
<1>7. \A d \in Dirs : d # c => u[d] = t[d]
  BY <1>3
<1>8. LiveIn(u) = LiveIn(t)
  BY <1>1, <1>6, <1>7 DEF LiveIn
<1>9. \A b \in LiveIn(t) : b \in Dirs
  BY DEF LiveIn
<1>10. Refiled(t, c, fs, u)
  BY <1>5, <1>6, <1>7, <1>8, <1>9 DEF Refiled
<1>. QED  BY <1>10 DEF u

LEMMA RefiledShape ==
  ASSUME NEW t, Sound(t), NEW c, NEW fs, NEW u, Refiled(t, c, fs, u)
  PROVE  Sound(u) /\ (Once(t) => Once(u)) /\ Reachable(u) = Reachable(t)
BY SameShape DEF Refiled

\* The names of the directories stay, and those of the files elsewhere.
LEMMA RefiledNames ==
  ASSUME NEW t, Sound(t), Distinct(t), NEW c \in LiveIn(t), NEW fs, NEW u, Refiled(t, c, fs, u),
         \A i, j \in 1 .. Len(fs) : fs[i].name = fs[j].name => i = j,
         \A i \in 1 .. Len(t[c].dirs), j \in 1 .. Len(fs) : DirName(t, c, i) # fs[j].name,
         c = Root => \A i \in 1 .. Len(fs) : fs[i].name # FlushName
  PROVE  Distinct(u)
<1>1. LiveIn(u) = LiveIn(t) /\ Root \in LiveIn(t)
  BY DEF Refiled, Sound, HoldsRoot
<1>2. \A b \in LiveIn(t) : Len(u[b].dirs) = Len(t[b].dirs)
  BY DEF Refiled
<1>3. \A b \in LiveIn(t) : \A j \in 1 .. Len(t[b].dirs) : DirName(u, b, j) = DirName(t, b, j)
  <2>1. ASSUME NEW b \in LiveIn(t), NEW j \in 1 .. Len(t[b].dirs)
        PROVE  DirName(u, b, j) = DirName(t, b, j)
    <3>1. t[b].dirs[j] \in LiveIn(t)
      BY ChildrenOf
    <3>. QED  BY <3>1 DEF DirName, Refiled
  <2>. QED  BY <2>1
<1>4. \A b \in LiveIn(t) : b # c => Len(u[b].files) = Len(t[b].files)
                                    /\ \A j : FileName(u, b, j) = FileName(t, b, j)
  BY DEF FileName, Refiled
<1>5. Len(u[c].files) = Len(fs) /\ \A j : FileName(u, c, j) = fs[j].name
  BY DEF FileName, Refiled
<1>6. ASSUME NEW b \in LiveIn(t)
      PROVE  /\ \A i, j \in 1 .. Len(u[b].dirs) : DirName(u, b, i) = DirName(u, b, j) => i = j
             /\ \A i, j \in 1 .. Len(u[b].files) : FileName(u, b, i) = FileName(u, b, j) => i = j
             /\ \A i \in 1 .. Len(u[b].dirs), j \in 1 .. Len(u[b].files) :
                  DirName(u, b, i) # FileName(u, b, j)
  <2>1. \A i, j \in 1 .. Len(u[b].dirs) : DirName(u, b, i) = DirName(u, b, j) => i = j
    BY <1>2, <1>3 DEF Distinct
  <2>2. CASE b = c
    BY <1>2, <1>3, <1>5, <2>1, <2>2, SMTT(30)
  <2>3. CASE b # c
    BY <1>2, <1>3, <1>4, <2>1, <2>3 DEF Distinct
  <2>. QED  BY <2>2, <2>3
<1>7. \A i \in 1 .. Len(u[Root].dirs) : DirName(u, Root, i) # FlushName
  BY <1>1, <1>2, <1>3 DEF Distinct
<1>8. \A i \in 1 .. Len(u[Root].files) : FileName(u, Root, i) # FlushName
  <2>1. CASE c = Root
    BY <1>5, <2>1
  <2>2. CASE c # Root
    BY <1>1, <1>4, <2>2 DEF Distinct
  <2>. QED  BY <2>1, <2>2
<1>. QED  BY <1>1, <1>6, <1>7, <1>8 DEF Distinct

\* A file is taken out of a slice.
LEMMA FileCut ==
  ASSUME NEW t, Sound(t), Distinct(t), NEW c \in LiveIn(t), NEW i \in 1 .. Len(t[c].files),
         NEW u, Refiled(t, c, RemoveAt(t[c].files, i), u)
  PROVE  Distinct(u)
<1> DEFINE s  == t[c].files
           fs == RemoveAt(s, i)
           n  == Len(s)
<1>1. s \in Seq(Files) /\ n \in Nat /\ n = Len(s) /\ i \in 1 .. Len(s)
  BY ChildrenOf
<1>2. i \in Nat
  BY <1>1
<1>3. /\ Len(fs) = n - 1
      /\ \A j \in 1 .. n - 1 : Skip(i, j) \in 1 .. n /\ fs[j] = s[Skip(i, j)]
  BY <1>1, Removed
<1>4. /\ \A j, k \in 1 .. n : s[j].name = s[k].name => j = k
      /\ \A j \in 1 .. Len(t[c].dirs), k \in 1 .. n : DirName(t, c, j) # s[k].name
      /\ c = Root => \A k \in 1 .. n : s[k].name # FlushName
  BY <1>1 DEF Distinct, FileName
<1> HIDE DEF fs, n
<1>5. \A j \in 1 .. n - 1 : j \in Nat
  OBVIOUS
<1>6. \A j, k \in 1 .. Len(fs) : fs[j].name = fs[k].name => j = k
  <2>1. ASSUME NEW j \in 1 .. n - 1, NEW k \in 1 .. n - 1, fs[j].name = fs[k].name
        PROVE  j = k
    <3> DEFINE x == Skip(i, j)
               y == Skip(i, k)
    <3>1. x \in 1 .. n /\ y \in 1 .. n /\ s[x].name = s[y].name
      BY <1>3, <2>1
    <3> HIDE DEF x, y
    <3>2. x = y
      BY <1>4, <3>1
    <3>. QED  BY <1>2, <1>5, <3>2, SkipIsInjective DEF x, y
  <2>. QED  BY <1>3, <2>1
<1>7. /\ \A j \in 1 .. Len(t[c].dirs), k \in 1 .. Len(fs) : DirName(t, c, j) # fs[k].name
      /\ c = Root => \A k \in 1 .. Len(fs) : fs[k].name # FlushName
  BY <1>3, <1>4, SMTT(30)
<1>8. Refiled(t, c, fs, u)
  BY DEF fs
<1>. QED  BY <1>6, <1>7, <1>8, RefiledNames

\* A file is put at the end of a slice, under a name that is free there.
LEMMA FilePut ==
  ASSUME NEW t, Sound(t), Distinct(t), NEW c \in LiveIn(t), NEW f \in Files,
         NoEntryNamed(t, c, f.name), NEW u, Refiled(t, c, Append(t[c].files, f), u)
  PROVE  Distinct(u)
<1> DEFINE s  == t[c].files
           fs == Append(s, f)
           n  == Len(s)
<1>1. s \in Seq(Files) /\ n \in Nat /\ n = Len(s)
  BY ChildrenOf
<1>2. Len(fs) = n + 1 /\ (\A j \in 1 .. n : fs[j] = s[j]) /\ fs[n + 1] = f
  BY <1>1
<1>3. /\ \A j, k \in 1 .. n : s[j].name = s[k].name => j = k
      /\ \A j \in 1 .. Len(t[c].dirs), k \in 1 .. n : DirName(t, c, j) # s[k].name
      /\ c = Root => \A k \in 1 .. n : s[k].name # FlushName
      /\ \A j \in 1 .. Len(t[c].dirs) : DirName(t, c, j) # f.name
      /\ \A k \in 1 .. n : s[k].name # f.name
      /\ c = Root => f.name # FlushName
  BY <1>1 DEF Distinct, FileName, NoEntryNamed
<1> HIDE DEF fs, n
<1>4. \A j \in 1 .. Len(fs) :
        \/ j \in 1 .. n /\ fs[j] = s[j]
        \/ j = n + 1 /\ fs[j] = f
  <2>1. \A j \in 1 .. n + 1 : j \in 1 .. n \/ j = n + 1
    BY <1>1
  <2>. QED  BY <1>2, <2>1
<1>5. \A j, k \in 1 .. Len(fs) : fs[j].name = fs[k].name => j = k
  BY <1>3, <1>4
<1>6. /\ \A j \in 1 .. Len(t[c].dirs), k \in 1 .. Len(fs) : DirName(t, c, j) # fs[k].name
      /\ c = Root => \A k \in 1 .. Len(fs) : fs[k].name # FlushName
  BY <1>3, <1>4
<1>7. Refiled(t, c, fs, u)
  BY DEF fs
<1>. QED  BY <1>5, <1>6, <1>7, RefiledNames

-----------------------------------------------------------------------------
(***************************************************************************)
(* Finding entries.                                                        *)
(***************************************************************************)
LEMMA Least ==
  ASSUME NEW T \in SUBSET Nat, T # {}
  PROVE  \E x \in T : \A y \in T : x <= y
<1>1. IsWellFoundedOn(OpToRel(<, Nat), Nat)
  BY NatLessThanWellFounded
<1>2. PICK x \in T : \A y \in T : ~(<<y, x>> \in OpToRel(<, Nat))
  BY <1>1, WFMin
<1>3. \A y \in T : ~(y < x)
  BY <1>2 DEF OpToRel
<1>. QED  BY <1>3

LEMMA LeastIn ==
  ASSUME NEW n \in Nat, NEW T \in SUBSET (1 .. n), T # {}
  PROVE  Min(T) \in T
<1>1. T \in SUBSET Nat
  OBVIOUS
<1>2. \E x \in T : \A y \in T : x <= y
  BY <1>1, Least
<1>. QED  BY <1>2 DEF Min

\* What the searches of a slice find.
LEMMA DirFound ==
  ASSUME NEW d \in Live, Sound(tree), NEW n
  PROVE  /\ IndexOfDir(d, n) \in 0 .. Len(tree[d].dirs)
         /\ IndexOfDir(d, n) # 0 => DirName(tree, d, IndexOfDir(d, n)) = n
         /\ IndexOfDir(d, n) = 0 => \A i \in 1 .. Len(tree[d].dirs) : DirName(tree, d, i) # n
<1> DEFINE T == {i \in 1 .. Len(tree[d].dirs) : tree[tree[d].dirs[i]].name = n}
           m == Len(tree[d].dirs)
<1>1. IndexOfDir(d, n) = IF T # {} THEN Min(T) ELSE 0
  BY DEF IndexOfDir, SelectInSeq
<1>2. m \in Nat
  BY ChildrenOf DEF Live, LiveIn
<1>3. T \in SUBSET (1 .. m) /\ m = Len(tree[d].dirs)
  OBVIOUS
<1>4. \A i \in 1 .. m : i \in T <=> DirName(tree, d, i) = n
  BY DEF DirName
<1> HIDE DEF T, m
<1>5. CASE T # {}
  <2>1. Min(T) \in T
    BY <1>2, <1>3, <1>5, LeastIn
  <2>2. IndexOfDir(d, n) \in T
    BY <1>1, <1>5, <2>1
  <2>3. IndexOfDir(d, n) \in 1 .. m
    BY <1>3, <2>2
  <2>. QED  BY <1>2, <1>3, <1>4, <2>2, <2>3
<1>6. CASE T = {}
  <2>1. IndexOfDir(d, n) = 0
    BY <1>1, <1>6
  <2>2. \A i \in 1 .. m : DirName(tree, d, i) # n
    BY <1>4, <1>6
  <2>3. 0 \in 0 .. m
    BY <1>2
  <2>. QED  BY <1>3, <2>1, <2>2, <2>3
<1>. QED  BY <1>5, <1>6

LEMMA FileFound ==
  ASSUME NEW d \in Live, Sound(tree), NEW n
  PROVE  /\ IndexOfFile(d, n) \in 0 .. Len(tree[d].files)
         /\ IndexOfFile(d, n) # 0 => FileName(tree, d, IndexOfFile(d, n)) = n
         /\ IndexOfFile(d, n) = 0 => \A i \in 1 .. Len(tree[d].files) : FileName(tree, d, i) # n
<1> DEFINE T == {i \in 1 .. Len(tree[d].files) : tree[d].files[i].name = n}
           m == Len(tree[d].files)
<1>1. IndexOfFile(d, n) = IF T # {} THEN Min(T) ELSE 0
  BY DEF IndexOfFile, SelectInSeq
<1>2. m \in Nat
  BY ChildrenOf DEF Live, LiveIn
<1>3. T \in SUBSET (1 .. m) /\ m = Len(tree[d].files)
  OBVIOUS
<1>4. \A i \in 1 .. m : i \in T <=> FileName(tree, d, i) = n
  BY DEF FileName
<1> HIDE DEF T, m
<1>5. CASE T # {}
  <2>1. Min(T) \in T
    BY <1>2, <1>3, <1>5, LeastIn
  <2>2. IndexOfFile(d, n) \in T
    BY <1>1, <1>5, <2>1
  <2>3. IndexOfFile(d, n) \in 1 .. m
    BY <1>3, <2>2
  <2>. QED  BY <1>2, <1>3, <1>4, <2>2, <2>3
<1>6. CASE T = {}
  <2>1. IndexOfFile(d, n) = 0
    BY <1>1, <1>6
  <2>2. \A i \in 1 .. m : FileName(tree, d, i) # n
    BY <1>4, <1>6
  <2>3. 0 \in 0 .. m
    BY <1>2
  <2>. QED  BY <1>3, <2>1, <2>2, <2>3
<1>. QED  BY <1>5, <1>6

\* The directory below d of the name n, and the directories along the path p.
ChildNamed(d, n) ==
  IF d = None \/ IndexOfDir(d, n) = 0 THEN None ELSE tree[d].dirs[IndexOfDir(d, n)]

Along(p, m, g) == [i \in 0 .. m |-> IF i = 0 THEN Root ELSE ChildNamed(g[i - 1], p[i])]

LEMMA WalkExists ==
  ASSUME NEW p, NEW m \in Nat
  PROVE  \E g : g = Along(p, m, g)
<1> DEFINE T == {k \in Nat : ~\E g : g = Along(p, k, g)}
<1>1. SUFFICES ASSUME T # {}
               PROVE  FALSE
  OBVIOUS
<1>2. T \in SUBSET Nat /\ \A k \in Nat : k \in T <=> ~\E g : g = Along(p, k, g)
  OBVIOUS
<1> HIDE DEF T
<1>3. PICK k \in T : \A j \in T : k <= j
  BY <1>1, <1>2, Least
<1>4. CASE k = 0
  <2> DEFINE g == [i \in 0 .. 0 |-> Root]
  <2>1. g = Along(p, 0, g)
    BY DEF Along
  <2>. QED  BY <1>2, <1>3, <1>4, <2>1
<1>5. CASE k # 0
  <2>1. k \in Nat /\ k - 1 \in Nat /\ ~(k <= k - 1)
    BY <1>2, <1>3, <1>5
  <2>2. k - 1 \notin T
    BY <1>3, <2>1
  <2>3. PICK h : h = Along(p, k - 1, h)
    BY <1>2, <2>1, <2>2
  <2> DEFINE g == [i \in 0 .. k |-> IF i = k THEN ChildNamed(h[k - 1], p[k]) ELSE h[i]]
  <2>4. \A i \in 0 .. k - 1 : g[i] = h[i]
    BY <2>1
  <2>5. ASSUME NEW i \in 0 .. k
        PROVE  g[i] = IF i = 0 THEN Root ELSE ChildNamed(g[i - 1], p[i])
    <3>1. CASE i = 0
      <4>1. 0 \in 0 .. k - 1 /\ h[0] = Root
        BY <2>1, <2>3 DEF Along
      <4>. QED  BY <2>4, <3>1, <4>1
    <3>2. CASE i = k
      <4>1. k - 1 \in 0 .. k - 1 /\ k \in 0 .. k
        BY <2>1
      <4>. QED  BY <1>5, <2>4, <3>2, <4>1
    <3>3. CASE i # 0 /\ i # k
      <4>1. i \in 0 .. k - 1 /\ i - 1 \in 0 .. k - 1
        BY <2>1, <3>3
      <4>2. h[i] = ChildNamed(h[i - 1], p[i])
        BY <2>3, <3>3, <4>1 DEF Along
      <4>. QED  BY <2>4, <3>3, <4>1, <4>2
    <3>. QED  BY <3>1, <3>2, <3>3
  <2>6. g = Along(p, k, g)
    BY <2>5 DEF Along
  <2>. QED  BY <1>2, <1>3, <2>6
<1>. QED  BY <1>4, <1>5

\* A path leads to the root, to a directory that some slice lists, or nowhere.
LEMMA PathFound ==
  ASSUME Sound(tree), Once(tree), NEW p, Len(p) \in Nat
  PROVE  /\ FindDirectory(p) \in Live \cup {None}
         /\ Len(p) = 0 => FindDirectory(p) = Root
         /\ Len(p) # 0 => FindDirectory(p) # Root
<1> DEFINE m  == Len(p)
           at == CHOOSE g : g = Along(p, m, g)
<1>1. FindDirectory(p) = at[m]
  BY DEF FindDirectory, Along, ChildNamed
<1>2. at = Along(p, m, at)
  BY WalkExists
<1> HIDE DEF at
<1>3. m \in Nat /\ m = Len(p)
  OBVIOUS
<1> HIDE DEF m
<1>4. \A i \in 0 .. m : at[i] = IF i = 0 THEN Root ELSE ChildNamed(at[i - 1], p[i])
  BY <1>2 DEF Along
<1>5. ASSUME NEW d \in Live \cup {None}, NEW n
      PROVE  ChildNamed(d, n) \in Live \cup {None} /\ ChildNamed(d, n) # Root
  <2>1. CASE d = None \/ IndexOfDir(d, n) = 0
    BY <2>1, RootAssumption DEF ChildNamed
  <2>2. CASE d # None /\ IndexOfDir(d, n) # 0
    <3> DEFINE i == IndexOfDir(d, n)
    <3>1. d \in Live /\ d \in LiveIn(tree) /\ LiveIn(tree) = Live
      BY <1>5, <2>2 DEF Live, LiveIn
    <3>2. i \in 0 .. Len(tree[d].dirs) /\ i # 0 /\ Len(tree[d].dirs) \in Nat
      BY <2>2, <3>1, DirFound, ChildrenOf
    <3> HIDE DEF i
    <3>3. i \in 1 .. Len(tree[d].dirs)
      BY <3>2
    <3>4. tree[d].dirs[i] \in Live /\ tree[d].dirs[i] # Root
      BY <3>1, <3>3, ChildrenOf DEF Once
    <3>. QED  BY <2>2, <3>4 DEF ChildNamed, i
  <2>. QED  BY <2>1, <2>2
<1>6. Root \in Live
  BY DEF Sound, HoldsRoot, Live, LiveIn
<1>7. \A i \in 0 .. m : at[i] \in Live \cup {None}
  <2> DEFINE T == {i \in 0 .. m : at[i] \notin Live \cup {None}}
  <2>1. SUFFICES ASSUME T # {}
                 PROVE  FALSE
    OBVIOUS
  <2>2. T \in SUBSET Nat /\ T \subseteq 0 .. m
        /\ \A i \in 0 .. m : i \in T <=> at[i] \notin Live \cup {None}
    BY <1>3
  <2> HIDE DEF T
  <2>3. PICK i \in T : \A j \in T : i <= j
    BY <2>1, <2>2, Least
  <2>4. i \in 0 .. m /\ i # 0
    BY <1>4, <1>6, <2>2, <2>3
  <2>5. i - 1 \in 0 .. m /\ ~(i <= i - 1)
    BY <1>3, <2>4
  <2>6. at[i - 1] \in Live \cup {None}
    BY <2>2, <2>3, <2>5
  <2>7. at[i] = ChildNamed(at[i - 1], p[i])
    BY <1>4, <2>4
  <2>8. at[i] \in Live \cup {None}
    BY <1>5, <2>6, <2>7
  <2>. QED  BY <2>2, <2>3, <2>4, <2>8
<1>8. m \in 0 .. m /\ (m # 0 => m - 1 \in 0 .. m)
  BY <1>3
<1>9. m = 0 => at[m] = Root
  BY <1>4, <1>8
<1>10. m # 0 => at[m] # Root
  <2>1. SUFFICES ASSUME m # 0
                 PROVE  at[m] # Root
    OBVIOUS
  <2>2. at[m] = ChildNamed(at[m - 1], p[m]) /\ at[m - 1] \in Live \cup {None}
    BY <1>4, <1>7, <1>8, <2>1
  <2>. QED  BY <1>5, <2>2
<1>. QED  BY <1>1, <1>3, <1>7, <1>8, <1>9, <1>10

\* Where a request goes: the paths of Next lead to live directories, the root's only there.
LEMMA PathLeads ==
  ASSUME Sound(tree), Once(tree), NEW p \in DirPaths
  PROVE  /\ FindDirectory(p) \in Live
         /\ FindDirectory(p) = Root <=> p = <<>>
<1>1. PICK k \in 0 .. Cardinality(Dirs) - 1 : p \in [1 .. k -> Names]
  BY DEF DirPaths, Paths
<1>2. k \in Nat
  BY <1>1, DirsAssumption, FS_CardinalityType
<1>3. p \in Seq(Names) /\ Len(p) \in Nat
  <2>1. p \in Seq(Names)
    BY <1>1, <1>2
  <2>. QED  BY <2>1, LenProperties
<1>4. Len(p) = 0 <=> p = <<>>
  BY <1>3, EmptySeq
<1>5. FindDirectory(p) \in Live \cup {None} /\ FindDirectory(p) # None
  BY <1>3, PathFound DEF DirPaths
<1>. QED  BY <1>3, <1>4, <1>5, PathFound

LEMMA NameIsFree ==
  ASSUME Sound(tree), Once(tree), NEW p \in DirPaths, NEW n, ~HasEntry(FindDirectory(p), n),
         ~(p = <<>> /\ n = FlushName)
  PROVE  NoEntryNamed(tree, FindDirectory(p), n)
<1> DEFINE c == FindDirectory(p)
<1>1. c \in Live /\ (c = Root <=> p = <<>>)
  BY PathLeads
<1>2. IndexOfDir(c, n) = 0 /\ IndexOfFile(c, n) = 0
  BY DEF HasEntry
<1> HIDE DEF c
<1>3. \A i \in 1 .. Len(tree[c].dirs) : DirName(tree, c, i) # n
  BY <1>1, <1>2, DirFound
<1>4. \A i \in 1 .. Len(tree[c].files) : FileName(tree, c, i) # n
  BY <1>1, <1>2, FileFound
<1>5. NoEntryNamed(tree, c, n)
  BY <1>1, <1>3, <1>4 DEF NoEntryNamed
<1>. QED  BY <1>5 DEF c

-----------------------------------------------------------------------------
(***************************************************************************)
(* The handlers.                                                           *)
(***************************************************************************)
\* What every tree u that a handler leaves has to keep.
Keeps(u) ==
  /\ Sound(u)
  /\ Once(u)
  /\ LiveIn(u) = Reachable(u)

LEMMA CreateKeeps ==
  ASSUME IInv, NEW p \in DirPaths, NEW n \in Names, Create(p, n)
  PROVE  Keeps(tree') /\ highestUID' \in 0 .. MaxUID /\ (Distinct(tree) => Distinct(tree'))
<1> DEFINE c  == FindDirectory(p)
           f  == NewFile(n, NextFileUID)
           fs == Append(tree[c].files, f)
           u  == [tree EXCEPT ![c].files = fs]
<1>1. /\ n # FlushName /\ ~HasEntry(c, n) /\ highestUID < MaxUID
      /\ highestUID' = highestUID + 1 /\ tree' = u
  BY DEF Create, NextFileUID
<1>2. Sound(tree) /\ Once(tree) /\ LiveIn(tree) = Reachable(tree) /\ highestUID \in 0 .. MaxUID
  BY DEF IInv
<1>3. c \in LiveIn(tree) /\ tree \in [Dirs -> Directories \cup {None}]
  BY <1>2, PathLeads DEF Live, LiveIn, Sound
<1>4. highestUID + 1 \in 1 .. MaxUID /\ highestUID + 1 \in 0 .. MaxUID
  BY <1>1, <1>2, MaxUIDAssumption
<1>5. f \in Files /\ f.name = n
  BY <1>4 DEF NewFile, NextFileUID, Files
<1>6. NoEntryNamed(tree, c, n)
  BY <1>1, <1>2, NameIsFree
<1> HIDE DEF c, f
<1>7. fs \in Seq(Files)
  BY <1>2, <1>3, <1>5, ChildrenOf, AppendProperties
<1> HIDE DEF fs
<1>8. Refiled(tree, c, fs, u)
  BY <1>3, <1>7, SetFiles
<1> HIDE DEF u
<1>9. Sound(u) /\ Once(u) /\ Reachable(u) = Reachable(tree)
  BY <1>2, <1>8, RefiledShape
<1>10. LiveIn(u) = LiveIn(tree)
  BY <1>8 DEF Refiled
<1>11. Distinct(tree) => Distinct(u)
  <2>1. Refiled(tree, c, Append(tree[c].files, f), u)
    BY <1>8 DEF fs
  <2>2. NoEntryNamed(tree, c, f.name)
    BY <1>5, <1>6
  <2>. QED  BY <1>2, <1>3, <1>5, <2>1, <2>2, FilePut
<1>. QED  BY <1>1, <1>2, <1>4, <1>9, <1>10, <1>11 DEF Keeps

LEMMA RemoveFileKeeps ==
  ASSUME IInv, NEW p \in DirPaths, NEW n \in Names, RemoveFile(p, n)
  PROVE  Keeps(tree') /\ highestUID' \in 0 .. MaxUID /\ (Distinct(tree) => Distinct(tree'))
<1> DEFINE c  == FindDirectory(p)
           i  == IndexOfFile(c, n)
           fs == RemoveAt(tree[c].files, i)
           u  == [tree EXCEPT ![c].files = fs]
<1>1. i # 0 /\ highestUID' = highestUID /\ tree' = u
  BY DEF RemoveFile
<1>2. Sound(tree) /\ Once(tree) /\ LiveIn(tree) = Reachable(tree) /\ highestUID \in 0 .. MaxUID
  BY DEF IInv
<1>3. c \in LiveIn(tree) /\ c \in Live /\ tree \in [Dirs -> Directories \cup {None}]
  BY <1>2, PathLeads DEF Live, LiveIn, Sound
<1>4. i \in 0 .. Len(tree[c].files) /\ tree[c].files \in Seq(Files) /\ Len(tree[c].files) \in Nat
  BY <1>2, <1>3, FileFound, ChildrenOf
<1> HIDE DEF c, i
<1>5. i \in 1 .. Len(tree[c].files)
  BY <1>1, <1>4
<1>6. fs \in Seq(Files)
  BY <1>4, <1>5, Removed
<1> HIDE DEF fs
<1>7. Refiled(tree, c, fs, u)
  BY <1>3, <1>6, SetFiles
<1> HIDE DEF u
<1>8. Sound(u) /\ Once(u) /\ Reachable(u) = Reachable(tree)
  BY <1>2, <1>7, RefiledShape
<1>9. LiveIn(u) = LiveIn(tree)
  BY <1>7 DEF Refiled
<1>10. Distinct(tree) => Distinct(u)
  <2>1. Refiled(tree, c, RemoveAt(tree[c].files, i), u)
    BY <1>7 DEF fs
  <2>. QED  BY <1>2, <1>3, <1>5, <2>1, FileCut
<1>. QED  BY <1>1, <1>2, <1>8, <1>9, <1>10 DEF Keeps

\* The checks of Rename, of the directories it works on.
LEMMA RenameLeads ==
  ASSUME IInv, NEW p \in DirPaths, NEW q \in DirPaths, NEW old, NEW new, CanRename(p, old, q, new)
  PROVE  /\ FindDirectory(p) \in LiveIn(tree) /\ FindDirectory(p) \in Live
         /\ FindDirectory(q) \in LiveIn(tree) /\ FindDirectory(q) \in Live
         /\ NoEntryNamed(tree, FindDirectory(q), new)
<1>1. Sound(tree) /\ Once(tree)
  BY DEF IInv
<1>2. FindDirectory(p) \in Live /\ FindDirectory(q) \in Live
  BY <1>1, PathLeads
<1>3. NoEntryNamed(tree, FindDirectory(q), new)
  BY <1>1, NameIsFree DEF CanRename
<1>. QED  BY <1>2, <1>3 DEF Live, LiveIn

LEMMA RenameFileKeeps ==
  ASSUME IInv, NEW p \in DirPaths, NEW q \in DirPaths, NEW old \in Names, NEW new \in Names,
         RenameFile(p, old, q, new)
  PROVE  Keeps(tree') /\ highestUID' \in 0 .. MaxUID /\ (Distinct(tree) => Distinct(tree'))
<1> DEFINE from == FindDirectory(p)
           to   == FindDirectory(q)
           i    == IndexOfFile(from, old)
           g    == NewFile(new, tree[from].files[i].uid)
           fs   == RemoveAt(tree[from].files, i)
           cut  == [tree EXCEPT ![from].files = fs]
           hs   == Append(cut[to].files, g)
           u    == [cut EXCEPT ![to].files = hs]
<1>1. CanRename(p, old, q, new) /\ i # 0 /\ highestUID' = highestUID /\ tree' = u
  BY DEF RenameFile
<1>2. Sound(tree) /\ Once(tree) /\ LiveIn(tree) = Reachable(tree) /\ highestUID \in 0 .. MaxUID
  BY DEF IInv
<1>3. /\ from \in LiveIn(tree) /\ from \in Live /\ to \in LiveIn(tree)
      /\ NoEntryNamed(tree, to, new) /\ tree \in [Dirs -> Directories \cup {None}]
  BY <1>1, <1>2, RenameLeads DEF Sound
<1>4. i \in 0 .. Len(tree[from].files) /\ tree[from].files \in Seq(Files)
      /\ Len(tree[from].files) \in Nat
  BY <1>2, <1>3, FileFound, ChildrenOf
<1> HIDE DEF from, to, i
<1>5. i \in 1 .. Len(tree[from].files)
  BY <1>1, <1>4
<1>6. g \in Files /\ g.name = new
  <2>1. tree[from].files[i] \in Files
    BY <1>4, <1>5, ElementOfSeq
  <2>. QED  BY <2>1 DEF NewFile, Files
<1> HIDE DEF g
<1>7. /\ fs \in Seq(Files)
      /\ Len(fs) = Len(tree[from].files) - 1
      /\ \A j \in 1 .. Len(tree[from].files) - 1 :
           Skip(i, j) \in 1 .. Len(tree[from].files) /\ fs[j] = tree[from].files[Skip(i, j)]
  BY <1>4, <1>5, Removed
<1>8. fs = RemoveAt(tree[from].files, i)
  OBVIOUS
<1> HIDE DEF fs
<1>9. Refiled(tree, from, fs, cut)
  BY <1>3, <1>7, SetFiles
<1>10. cut \in [Dirs -> Directories \cup {None}] /\ LiveIn(cut) = LiveIn(tree)
  BY <1>9 DEF Refiled
<1> HIDE DEF cut
<1>11. Sound(cut) /\ Once(cut) /\ Reachable(cut) = Reachable(tree)
  BY <1>2, <1>9, RefiledShape
<1>12. Distinct(tree) => Distinct(cut)
  <2>1. Refiled(tree, from, RemoveAt(tree[from].files, i), cut)
    BY <1>8, <1>9
  <2>. QED  BY <1>2, <1>3, <1>5, <2>1, FileCut
<1>13. NoEntryNamed(cut, to, g.name)
  <2>1. ASSUME NEW j \in 1 .. Len(cut[to].dirs)
        PROVE  DirName(cut, to, j) # new
    <3>1. cut[to].dirs = tree[to].dirs
      BY <1>3, <1>9 DEF Refiled
    <3>2. tree[to].dirs[j] \in LiveIn(tree)
      BY <1>2, <1>3, <2>1, <3>1, ChildrenOf
    <3>3. DirName(cut, to, j) = DirName(tree, to, j)
      BY <1>9, <3>1, <3>2 DEF Refiled, DirName
    <3>. QED  BY <1>3, <2>1, <3>1, <3>3 DEF NoEntryNamed
  <2>2. ASSUME NEW j \in 1 .. Len(cut[to].files)
        PROVE  FileName(cut, to, j) # new
    <3>1. CASE to = from
      <4>1. cut[to].files = fs
        BY <1>9, <3>1 DEF Refiled
      <4>2. j \in 1 .. Len(tree[from].files) - 1
        BY <1>7, <2>2, <4>1
      <4> DEFINE x == Skip(i, j)
      <4>3. x \in 1 .. Len(tree[to].files) /\ FileName(cut, to, j) = FileName(tree, to, x)
        BY <1>7, <3>1, <4>1, <4>2 DEF FileName
      <4> HIDE DEF x
      <4>. QED  BY <1>3, <4>3 DEF NoEntryNamed
    <3>2. CASE to # from
      <4>1. cut[to].files = tree[to].files
        BY <1>3, <1>9, <3>2 DEF Refiled
      <4>. QED  BY <1>3, <2>2, <4>1 DEF NoEntryNamed, FileName
    <3>. QED  BY <3>1, <3>2
  <2>3. to = Root => new # FlushName
    BY <1>3 DEF NoEntryNamed
  <2>. QED  BY <1>6, <2>1, <2>2, <2>3 DEF NoEntryNamed
<1>14. to \in LiveIn(cut)
  BY <1>3, <1>10
<1>15. hs \in Seq(Files)
  <2>1. cut[to].files \in Seq(Files)
    BY <1>11, <1>14, ChildrenOf
  <2>. QED  BY <1>6, <2>1, AppendProperties
<1>16. hs = Append(cut[to].files, g)
  OBVIOUS
<1> HIDE DEF hs
<1>17. Refiled(cut, to, hs, u)
  BY <1>10, <1>14, <1>15, SetFiles
<1> HIDE DEF u
<1>18. Sound(u) /\ Once(u) /\ Reachable(u) = Reachable(cut)
  BY <1>11, <1>17, RefiledShape
<1>19. LiveIn(u) = LiveIn(tree)
  BY <1>10, <1>17 DEF Refiled
<1>20. Distinct(tree) => Distinct(u)
  <2>1. Refiled(cut, to, Append(cut[to].files, g), u)
    BY <1>16, <1>17
  <2>. QED  BY <1>6, <1>11, <1>12, <1>13, <1>14, <2>1, FilePut
<1>. QED  BY <1>1, <1>2, <1>11, <1>18, <1>19, <1>20 DEF Keeps

\* u is t with the directories ds in directory c.
Relisted(t, c, ds, u) ==
  /\ u \in [Dirs -> Directories \cup {None}]
  /\ LiveIn(u) = LiveIn(t)
  /\ u[c].dirs = ds
  /\ \A b \in LiveIn(t) : u[b].files = t[b].files /\ u[b].name = t[b].name
  /\ \A b \in LiveIn(t) : b # c => u[b].dirs = t[b].dirs

LEMMA SetDirs ==
  ASSUME NEW t \in [Dirs -> Directories \cup {None}], NEW c \in LiveIn(t), NEW ds \in Seq(Dirs)
  PROVE  Relisted(t, c, ds, [t EXCEPT ![c].dirs = ds])
<1> DEFINE u == [t EXCEPT ![c].dirs = ds]
           r == [name |-> t[c].name, dirs |-> ds, files |-> t[c].files]
<1>1. c \in Dirs /\ t[c] \in Directories /\ t[c] # None
  BY DEF LiveIn
<1>2. [t[c] EXCEPT !.dirs = ds] = r
  BY <1>1 DEF Directories
<1>3. u = [d \in Dirs |-> IF d = c THEN r ELSE t[d]]
  BY <1>2
<1>4. r \in Directories
  BY <1>1 DEF Directories
<1> HIDE DEF u
<1>5. u \in [Dirs -> Directories \cup {None}]
  BY <1>3, <1>4
<1>6. u[c] = r /\ u[c] # None
  BY <1>1, <1>3, <1>4, NoDirectoryAssumption
<1>7. \A d \in Dirs : d # c => u[d] = t[d]
  BY <1>3
<1>8. LiveIn(u) = LiveIn(t)
  BY <1>1, <1>6, <1>7 DEF LiveIn
<1>9. \A b \in LiveIn(t) : b \in Dirs
  BY DEF LiveIn
<1>10. Relisted(t, c, ds, u)
  BY <1>5, <1>6, <1>7, <1>8, <1>9 DEF Relisted
<1>. QED  BY <1>10 DEF u

\* u is t with the name n for directory x.
Renamed(t, x, n, u) ==
  /\ u \in [Dirs -> Directories \cup {None}]
  /\ LiveIn(u) = LiveIn(t)
  /\ u[x].name = n
  /\ \A b \in LiveIn(t) : u[b].files = t[b].files /\ u[b].dirs = t[b].dirs
  /\ \A b \in LiveIn(t) : b # x => u[b].name = t[b].name

LEMMA SetName ==
  ASSUME NEW t \in [Dirs -> Directories \cup {None}], NEW x \in LiveIn(t), NEW n \in Names
  PROVE  Renamed(t, x, n, [t EXCEPT ![x].name = n])
<1> DEFINE u == [t EXCEPT ![x].name = n]
           r == [name |-> n, dirs |-> t[x].dirs, files |-> t[x].files]
<1>1. x \in Dirs /\ t[x] \in Directories /\ t[x] # None
  BY DEF LiveIn
<1>2. [t[x] EXCEPT !.name = n] = r
  BY <1>1 DEF Directories
<1>3. u = [d \in Dirs |-> IF d = x THEN r ELSE t[d]]
  BY <1>2
<1>4. r \in Directories
  BY <1>1 DEF Directories
<1> HIDE DEF u
<1>5. u \in [Dirs -> Directories \cup {None}]
  BY <1>3, <1>4
<1>6. u[x] = r /\ u[x] # None
  BY <1>1, <1>3, <1>4, NoDirectoryAssumption
<1>7. \A d \in Dirs : d # x => u[d] = t[d]
  BY <1>3
<1>8. LiveIn(u) = LiveIn(t)
  BY <1>1, <1>6, <1>7 DEF LiveIn
<1>9. \A b \in LiveIn(t) : b \in Dirs
  BY DEF LiveIn
<1>10. \A b \in LiveIn(t) : u[b].files = t[b].files /\ u[b].dirs = t[b].dirs
  BY <1>6, <1>7, <1>9
<1>11. Renamed(t, x, n, u)
  BY <1>5, <1>6, <1>7, <1>8, <1>9, <1>10 DEF Renamed
<1>. QED  BY <1>11 DEF u

\* A tree that is in shape is saved in shape.
LEMMA SavedIsKept ==
  ASSUME NEW t, Sound(t), Once(t)
  PROVE  Keeps(Saved(t)) /\ (Distinct(t) => Distinct(Saved(t)))
BY SavedTree, SavedKeeps DEF Keeps

LEMMA RemoveDirKeeps ==
  ASSUME IInv, NEW p \in DirPaths, NEW n \in Names, RemoveDir(p, n)
  PROVE  Keeps(tree') /\ highestUID' \in 0 .. MaxUID /\ (Distinct(tree) => Distinct(tree'))
<1> DEFINE c  == FindDirectory(p)
           i  == IndexOfDir(c, n)
           ds == RemoveAt(tree[c].dirs, i)
           u  == [tree EXCEPT ![c].dirs = ds]
<1>1. i # 0 /\ highestUID' = highestUID /\ tree' = Saved(u)
  BY DEF RemoveDir
<1>2. Sound(tree) /\ Once(tree) /\ highestUID \in 0 .. MaxUID
  BY DEF IInv
<1>3. c \in LiveIn(tree) /\ c \in Live /\ tree \in [Dirs -> Directories \cup {None}]
  BY <1>2, PathLeads DEF Live, LiveIn, Sound
<1>4. i \in 0 .. Len(tree[c].dirs) /\ tree[c].dirs \in Seq(Dirs) /\ Len(tree[c].dirs) \in Nat
  BY <1>2, <1>3, DirFound, ChildrenOf
<1> HIDE DEF c, i
<1>5. i \in 1 .. Len(tree[c].dirs)
  BY <1>1, <1>4
<1>6. ds \in Seq(Dirs)
  BY <1>4, <1>5, Removed
<1>7. ds = RemoveAt(tree[c].dirs, i)
  OBVIOUS
<1> HIDE DEF ds
<1>8. Relisted(tree, c, ds, u)
  BY <1>3, <1>6, SetDirs
<1> HIDE DEF u
<1>9. Without(tree, c, i, u)
  BY <1>7, <1>8 DEF Without, Relisted
<1>10. Sound(u) /\ Once(u)
  BY <1>2, <1>3, <1>5, <1>9, WithoutShape
<1>11. Distinct(tree) => Distinct(u)
  <2>1. /\ \A b \in LiveIn(tree) : u[b].files = tree[b].files
        /\ \A b \in LiveIn(tree) : b # tree[c].dirs[i] => u[b].name = tree[b].name
    BY <1>8 DEF Relisted
  <2>. QED  BY <1>2, <1>3, <1>5, <1>9, <2>1, WithoutNames
<1>. QED  BY <1>1, <1>2, <1>10, <1>11, SavedIsKept

\* A directory that is not in use is made an empty one.
LEMMA MadeDir ==
  ASSUME NEW t, Sound(t), Once(t), NEW e \in Dirs \ LiveIn(t), NEW n \in Names
  PROVE  LET u == [t EXCEPT ![e] = NewDirectory(n)]
         IN  /\ Sound(u) /\ Once(u) /\ (Distinct(t) => Distinct(u))
             /\ LiveIn(u) = LiveIn(t) \cup {e} /\ e # Root /\ Unlisted(u, e)
             /\ u[e] = NewDirectory(n)
             /\ \A b \in LiveIn(t) : u[b] = t[b] /\ b # e
<1> DEFINE u == [t EXCEPT ![e] = NewDirectory(n)]
<1>1. t \in [Dirs -> Directories \cup {None}] /\ HoldsRoot(t, LiveIn(t)) /\ Root \in LiveIn(t)
  BY DEF Sound, HoldsRoot
<1>2. NewDirectory(n) \in Directories /\ NewDirectory(n) # None
  <2>1. NewDirectory(n) \in Directories
    BY EmptySeq DEF NewDirectory, Directories
  <2>. QED  BY <2>1, NoDirectoryAssumption
<1>3. u \in [Dirs -> Directories \cup {None}] /\ u[e] = NewDirectory(n)
  BY <1>1, <1>2
<1>4. \A b \in Dirs : b # e => u[b] = t[b]
  BY <1>1
<1>5. u[e].dirs = <<>> /\ u[e].files = <<>> /\ Len(u[e].dirs) = 0 /\ Len(u[e].files) = 0
  BY <1>3, EmptySeq DEF NewDirectory
<1> HIDE DEF u
<1>6. \A b \in LiveIn(t) : u[b] = t[b] /\ b # e /\ b \in Dirs
  BY <1>4 DEF LiveIn
<1>7. LiveIn(u) = LiveIn(t) \cup {e}
  BY <1>2, <1>3, <1>4 DEF LiveIn
<1>8. \A j : j \notin 1 .. Len(u[e].dirs) /\ j \notin 1 .. Len(u[e].files)
  BY <1>5
<1>9. \A b \in LiveIn(t) : \A j \in 1 .. Len(t[b].dirs) : t[b].dirs[j] \in LiveIn(t)
  BY ChildrenOf
<1>10. HoldsRoot(u, LiveIn(u))
  <2>1. ASSUME NEW b \in LiveIn(u)
        PROVE  ToSet(u[b].dirs) \subseteq LiveIn(u)
    <3>1. CASE b = e
      <4>1. ToSet(u[b].dirs) = {}
        BY <1>5, <3>1 DEF ToSet
      <4>. QED  BY <4>1
    <3>2. CASE b \in LiveIn(t)
      BY <1>1, <1>6, <1>7, <3>2 DEF HoldsRoot
    <3>. QED  BY <1>7, <3>1, <3>2
  <2>. QED  BY <1>1, <1>7, <2>1 DEF HoldsRoot
<1>11. Sound(u)
  BY <1>3, <1>10 DEF Sound
<1>12. Once(u)
  <2>1. \A b \in LiveIn(u) : b = e \/ (b \in LiveIn(t) /\ u[b] = t[b])
    BY <1>6, <1>7
  <2>2. /\ \A b, d \in LiveIn(t) : \A i \in 1 .. Len(t[b].dirs), j \in 1 .. Len(t[d].dirs) :
             t[b].dirs[i] = t[d].dirs[j] => b = d /\ i = j
        /\ \A b \in LiveIn(t) : \A i \in 1 .. Len(t[b].dirs) : t[b].dirs[i] # Root
    BY DEF Once
  <2>3. ASSUME NEW b \in LiveIn(u), NEW i \in 1 .. Len(u[b].dirs)
        PROVE  b \in LiveIn(t) /\ u[b] = t[b] /\ u[b].dirs[i] # Root
    BY <1>8, <2>1, <2>2, <2>3
  <2>4. ASSUME NEW b \in LiveIn(u), NEW i \in 1 .. Len(u[b].dirs),
               NEW d \in LiveIn(u), NEW j \in 1 .. Len(u[d].dirs), u[b].dirs[i] = u[d].dirs[j]
        PROVE  b = d /\ i = j
    BY <2>2, <2>3, <2>4
  <2>. QED  BY <2>3, <2>4 DEF Once
<1>13. Unlisted(u, e)
  BY <1>6, <1>7, <1>8, <1>9 DEF Unlisted
<1>14. ASSUME Distinct(t)
       PROVE  Distinct(u)
  <2>1. \A b \in LiveIn(t) : \A j \in 1 .. Len(u[b].dirs) : DirName(u, b, j) = DirName(t, b, j)
    BY <1>6, <1>9 DEF DirName
  <2>2. \A b \in LiveIn(t) : \A j : FileName(u, b, j) = FileName(t, b, j)
    BY <1>6 DEF FileName
  <2>3. ASSUME NEW b \in LiveIn(u)
        PROVE  /\ \A i, j \in 1 .. Len(u[b].dirs) : DirName(u, b, i) = DirName(u, b, j) => i = j
               /\ \A i, j \in 1 .. Len(u[b].files) : FileName(u, b, i) = FileName(u, b, j) => i = j
               /\ \A i \in 1 .. Len(u[b].dirs), j \in 1 .. Len(u[b].files) :
                    DirName(u, b, i) # FileName(u, b, j)
    <3>1. CASE b = e
      BY <1>8, <3>1
    <3>2. CASE b \in LiveIn(t)
      <4>1. u[b] = t[b]
        BY <1>6, <3>2
      <4>. QED  BY <1>14, <2>1, <2>2, <3>2, <4>1 DEF Distinct
    <3>. QED  BY <1>7, <3>1, <3>2
  <2>4. \A i \in 1 .. Len(u[Root].dirs) : DirName(u, Root, i) # FlushName
    BY <1>1, <1>6, <1>14, <2>1 DEF Distinct
  <2>5. \A i \in 1 .. Len(u[Root].files) : FileName(u, Root, i) # FlushName
    BY <1>1, <1>6, <1>14, <2>2 DEF Distinct
  <2>. QED  BY <2>3, <2>4, <2>5 DEF Distinct
<1>. QED  BY <1>1, <1>3, <1>6, <1>7, <1>11, <1>12, <1>13, <1>14 DEF u

LEMMA MkdirKeeps ==
  ASSUME IInv, NEW p \in DirPaths, NEW n \in Names, Mkdir(p, n)
  PROVE  Keeps(tree') /\ highestUID' \in 0 .. MaxUID /\ (Distinct(tree) => Distinct(tree'))
<1> DEFINE c == FindDirectory(p)
<1>1. n # FlushName /\ ~HasEntry(c, n) /\ highestUID' = highestUID
  BY DEF Mkdir
<1>2. PICK e \in Dirs \ Live :
        tree' = [tree EXCEPT ![c].dirs = Append(@, e), ![e] = NewDirectory(n)]
  BY DEF Mkdir
<1>3. Sound(tree) /\ Once(tree) /\ LiveIn(tree) = Reachable(tree) /\ highestUID \in 0 .. MaxUID
  BY DEF IInv
<1>4. c \in LiveIn(tree) /\ e \in Dirs \ LiveIn(tree) /\ e \in Dirs /\ c \in Dirs /\ c # e
  BY <1>2, <1>3, PathLeads DEF Live, LiveIn
<1>5. NoEntryNamed(tree, c, n)
  BY <1>1, <1>3, NameIsFree
<1> HIDE DEF c
<1> DEFINE mid == [tree EXCEPT ![e] = NewDirectory(n)]
           ds  == Append(tree[c].dirs, e)
           u   == [mid EXCEPT ![c].dirs = ds]
<1>6. tree' = u
  <2>1. tree \in [Dirs -> Directories \cup {None}]
    BY <1>3 DEF Sound
  <2>2. u = [d \in Dirs |-> IF d = c THEN [tree[c] EXCEPT !.dirs = ds]
                            ELSE IF d = e THEN NewDirectory(n) ELSE tree[d]]
    BY <1>4, <2>1
  <2>3. tree' = [d \in Dirs |-> IF d = c THEN [tree[c] EXCEPT !.dirs = ds]
                                ELSE IF d = e THEN NewDirectory(n) ELSE tree[d]]
    BY <1>2, <1>4, <2>1
  <2>. QED  BY <2>2, <2>3
<1>7. /\ Sound(mid) /\ Once(mid) /\ (Distinct(tree) => Distinct(mid))
      /\ LiveIn(mid) = LiveIn(tree) \cup {e} /\ e # Root /\ Unlisted(mid, e)
      /\ mid[e] = NewDirectory(n)
      /\ \A b \in LiveIn(tree) : mid[b] = tree[b] /\ b # e
  BY <1>3, <1>4, MadeDir
<1> HIDE DEF mid
<1>8. c \in LiveIn(mid) /\ e \in LiveIn(mid) /\ mid \in [Dirs -> Directories \cup {None}]
      /\ mid[c] = tree[c]
  BY <1>4, <1>7 DEF Sound
<1>9. ds \in Seq(Dirs) /\ ds = Append(mid[c].dirs, e)
  <2>1. tree[c].dirs \in Seq(Dirs)
    BY <1>3, <1>4, ChildrenOf
  <2>. QED  BY <1>4, <1>8, <2>1, AppendProperties
<1> HIDE DEF ds
<1>10. Relisted(mid, c, ds, u)
  BY <1>8, <1>9, SetDirs
<1> HIDE DEF u
<1>11. With(mid, c, e, u)
  BY <1>9, <1>10 DEF With, Relisted
<1>12. Sound(u) /\ Once(u)
  BY <1>7, <1>8, <1>11, WithShape
<1>13. Distinct(tree) => Distinct(u)
  <2>1. \A b \in LiveIn(mid) : u[b].files = mid[b].files /\ u[b].name = mid[b].name
    BY <1>10 DEF Relisted
  <2>2. mid[e].name = n
    BY <1>7 DEF NewDirectory
  <2>3. \A i \in 1 .. Len(mid[c].dirs) : DirName(mid, c, i) = DirName(tree, c, i)
    <3>1. \A i \in 1 .. Len(tree[c].dirs) : tree[c].dirs[i] \in LiveIn(tree)
      BY <1>3, <1>4, ChildrenOf
    <3>. QED  BY <1>7, <1>8, <3>1 DEF DirName
  <2>4. NoEntryNamed(mid, c, mid[e].name)
    BY <1>5, <1>8, <2>2, <2>3 DEF NoEntryNamed, FileName
  <2>. QED  BY <1>7, <1>8, <1>11, <2>1, <2>4, WithNames
\* The new directory is reached through c, the others as before.
<1>14. LiveIn(u) = Reachable(u)
  <2>1. LiveIn(u) = LiveIn(tree) \cup {e}
    BY <1>7, <1>11 DEF With
  <2> DEFINE R == Reachable(u)
             S == R \cap LiveIn(tree)
  <2>2. R \subseteq LiveIn(u) /\ HoldsRoot(u, R)
    BY <1>12, ReachFacts
  <2> HIDE DEF R
  <2>3. ASSUME NEW b \in S, NEW x \in ToSet(tree[b].dirs)
        PROVE  x \in S
    <3>1. x \in LiveIn(tree)
      BY <1>3, <2>3 DEF Sound, HoldsRoot
    <3>2. PICK j \in 1 .. Len(tree[b].dirs) : x = tree[b].dirs[j]
      <4>1. b \in LiveIn(tree)
        BY <2>3
      <4>2. tree[b].dirs \in Seq(Dirs)
        BY <1>3, <4>1, ChildrenOf
      <4>3. DOMAIN tree[b].dirs = 1 .. Len(tree[b].dirs)
        BY <4>2, LenProperties
      <4>. QED  BY <2>3, <4>3 DEF ToSet
    <3>3. x \in ToSet(u[b].dirs)
      <4>1. CASE b = c
        <5> DEFINE k == Len(tree[c].dirs)
        <5>1. tree[c].dirs \in Seq(Dirs) /\ k \in Nat /\ k = Len(tree[c].dirs)
          BY <1>3, <1>4, ChildrenOf
        <5> HIDE DEF k
        <5>2. Len(ds) = k + 1 /\ ds[j] = tree[c].dirs[j]
          BY <1>8, <1>9, <3>2, <4>1, <5>1
        <5>3. j \in 1 .. Len(ds)
          BY <3>2, <4>1, <5>1, <5>2
        <5>4. DOMAIN ds = 1 .. Len(ds)
          BY <1>9, LenProperties
        <5>5. u[b].dirs = ds
          BY <1>10, <4>1 DEF Relisted
        <5>. QED  BY <3>2, <4>1, <5>2, <5>3, <5>4, <5>5 DEF ToSet
      <4>2. CASE b # c
        <5>1. u[b].dirs = tree[b].dirs
          BY <1>7, <1>10, <2>3, <4>2 DEF Relisted
        <5>. QED  BY <2>3, <5>1
      <4>. QED  BY <4>1, <4>2
    <3>4. x \in R
      BY <2>2, <2>3, <3>3 DEF HoldsRoot
    <3>. QED  BY <3>1, <3>4
  <2>4. Root \in S
    BY <1>3, <2>2 DEF Sound, HoldsRoot
  <2>5. HoldsRoot(tree, S)
    BY <2>3, <2>4 DEF HoldsRoot
  <2>6. S \in SUBSET LiveIn(tree)
    OBVIOUS
  <2>7. Reachable(tree) \subseteq S
    BY <1>3, <2>5, <2>6, ReachFacts
  <2>8. LiveIn(tree) \subseteq R
    BY <1>3, <2>7
  <2>9. e \in ToSet(u[c].dirs)
    <3> DEFINE k == Len(tree[c].dirs)
    <3>1. tree[c].dirs \in Seq(Dirs) /\ k \in Nat
      BY <1>3, <1>4, ChildrenOf
    <3>2. Len(ds) = k + 1 /\ ds[k + 1] = e
      BY <1>4, <1>8, <1>9, <3>1, AppendProperties
    <3>3. k + 1 \in DOMAIN ds
      BY <1>9, <3>1, <3>2, LenProperties
    <3>4. u[c].dirs = ds
      BY <1>10 DEF Relisted
    <3>. QED  BY <3>2, <3>3, <3>4 DEF ToSet
  <2>10. e \in R
    BY <1>4, <2>2, <2>8, <2>9 DEF HoldsRoot
  <2>. QED  BY <2>1, <2>2, <2>8, <2>10 DEF R
<1>. QED  BY <1>1, <1>3, <1>6, <1>12, <1>13, <1>14 DEF Keeps

\* The new parent's pointer lands on a live directory or outside its slice.
LEMMA LandingIsLive ==
  ASSUME Sound(tree), NEW from \in Live, NEW i, NEW to \in Live
  PROVE  Landing(from, i, to) \in Live \cup {None}
<1> DEFINE s == tree[from].dirs
           T == {k \in 1 .. Len(s) : s[k] = to}
           j == IF T # {} THEN Min(T) ELSE 0
           m == Len(s)
<1>1. Landing(from, i, to) = IF j < i THEN to ELSE IF j < Len(s) THEN s[j + 1] ELSE None
  BY DEF Landing, SelectInSeq
<1>2. m \in Nat /\ m = Len(s) /\ T \in SUBSET (1 .. m)
      /\ \A k \in 1 .. Len(s) : s[k] \in Live
  BY ChildrenOf DEF Live, LiveIn
<1> HIDE DEF T, m
<1>3. j \in Nat
  <2>1. CASE T # {}
    <3>1. Min(T) \in T
      BY <1>2, <2>1, LeastIn
    <3>2. \A k \in T : k \in Nat
      BY <1>2
    <3>. QED  BY <2>1, <3>1, <3>2
  <2>2. CASE T = {}
    BY <2>2
  <2>. QED  BY <2>1, <2>2
<1> HIDE DEF j
<1>4. j < m => j + 1 \in 1 .. m
  BY <1>2, <1>3
<1>5. CASE j < i
  BY <1>1, <1>5
<1>6. CASE ~(j < i) /\ j < m
  <2> DEFINE k == j + 1
  <2>1. k \in 1 .. Len(s)
    BY <1>2, <1>4, <1>6
  <2>2. Landing(from, i, to) = s[k]
    BY <1>1, <1>2, <1>6
  <2> HIDE DEF k
  <2>. QED  BY <1>2, <2>1, <2>2
<1>7. CASE ~(j < i) /\ ~(j < m)
  BY <1>1, <1>2, <1>7
<1>. QED  BY <1>5, <1>6, <1>7

LEMMA RenameDirKeeps ==
  ASSUME IInv, NEW p \in DirPaths, NEW q \in DirPaths, NEW old \in Names, NEW new \in Names,
         RenameDir(p, old, q, new)
  PROVE  /\ Keeps(tree') /\ highestUID' \in 0 .. MaxUID
         /\ ~LaterSibling /\ Distinct(tree) => Distinct(tree')
<1> DEFINE from == FindDirectory(p)
           to   == FindDirectory(q)
           i    == IndexOfDir(from, old)
           d    == tree[from].dirs[i]
           cut  == [tree EXCEPT ![from].dirs = RemoveAt(@, i), ![d].name = new]
           land == Landing(from, i, to)
           put  == [cut EXCEPT ![land].dirs = Append(@, d)]
<1>1. /\ CanRename(p, old, q, new) /\ i # 0 /\ (LaterSibling \/ land = to)
      /\ tree' = (IF land = None THEN Saved(cut) ELSE Saved(put)) /\ highestUID' = highestUID
  BY DEF RenameDir
<1>2. Sound(tree) /\ Once(tree) /\ highestUID \in 0 .. MaxUID
      /\ tree \in [Dirs -> Directories \cup {None}]
  BY SMTT(30) DEF IInv, Sound
<1>3. /\ from \in LiveIn(tree) /\ from \in Live /\ to \in LiveIn(tree) /\ to \in Live
      /\ NoEntryNamed(tree, to, new)
  BY <1>1, RenameLeads
<1>4. i \in 0 .. Len(tree[from].dirs) /\ tree[from].dirs \in Seq(Dirs)
      /\ Len(tree[from].dirs) \in Nat
  BY <1>2, <1>3, DirFound, ChildrenOf
<1>5. land \in Live \cup {None}
  BY <1>2, <1>3, LandingIsLive, SMTT(30)
<1> HIDE DEF from, to, i, land
<1>6. i \in 1 .. Len(tree[from].dirs)
  <2> DEFINE n == Len(tree[from].dirs)
  <2>1. i # 0
    BY <1>1, Zenon
  <2>2. n \in Nat /\ i \in 0 .. n
    BY <1>4
  <2> HIDE DEF n
  <2>3. i \in 1 .. n
    BY <2>1, <2>2
  <2>. QED  BY <2>3 DEF n
<1>7. d \in LiveIn(tree) /\ d \in Dirs /\ d # Root
  BY <1>2, <1>3, <1>6, ChildrenOf DEF Once
<1> DEFINE ds  == RemoveAt(tree[from].dirs, i)
           mid == [tree EXCEPT ![from].dirs = ds]
           es  == Append(cut[land].dirs, d)
<1>8. ds \in Seq(Dirs) /\ ds = RemoveAt(tree[from].dirs, i)
  BY <1>4, <1>6, Removed
<1>9. d = tree[from].dirs[i]
  OBVIOUS
<1> HIDE DEF d
<1>10. cut = [mid EXCEPT ![d].name = new]
  OBVIOUS
<1> HIDE DEF ds
<1>11. Relisted(tree, from, ds, mid)
  BY <1>2, <1>3, <1>8, SetDirs
<1>12. mid \in [Dirs -> Directories \cup {None}] /\ d \in LiveIn(mid)
  BY <1>7, <1>11 DEF Relisted
<1> HIDE DEF mid, cut
<1>13. /\ cut \in [Dirs -> Directories \cup {None}] /\ LiveIn(cut) = LiveIn(mid) /\ cut[d].name = new
       /\ \A b \in LiveIn(mid) : cut[b].files = mid[b].files /\ cut[b].dirs = mid[b].dirs
       /\ \A b \in LiveIn(mid) : b # d => cut[b].name = mid[b].name
  <2>1. Renamed(mid, d, new, cut)
    BY <1>10, <1>12, SetName
  <2>. QED  BY <2>1 DEF Renamed
<1>14. Without(tree, from, i, cut)
  BY <1>3, <1>8, <1>11, <1>13 DEF Without, Relisted
<1>15. /\ Sound(cut) /\ Once(cut) /\ LiveIn(cut) = LiveIn(tree)
       /\ \A b \in LiveIn(cut) : \A j \in 1 .. Len(cut[b].dirs) : cut[b].dirs[j] # d
  BY <1>2, <1>3, <1>6, <1>9, <1>14, WithoutShape DEF Without
<1>16. /\ \A b \in LiveIn(tree) : cut[b].files = tree[b].files
       /\ \A b \in LiveIn(tree) : b # d => cut[b].name = tree[b].name
  BY <1>11, <1>13 DEF Relisted
<1>17. Distinct(tree) => Distinct(cut)
  BY <1>2, <1>3, <1>6, <1>9, <1>14, <1>16, WithoutNames
<1>18. CASE land = None
  BY <1>1, <1>2, <1>15, <1>17, <1>18, SavedIsKept
<1>19. CASE land # None
  <2>1. land \in LiveIn(cut) /\ d \in LiveIn(cut) /\ Unlisted(cut, d)
    BY <1>5, <1>7, <1>15, <1>19 DEF Live, LiveIn, Unlisted
  <2>2. es \in Seq(Dirs) /\ es = Append(cut[land].dirs, d)
    BY <1>7, <1>15, <2>1, ChildrenOf, AppendProperties
  <2>3. put = [cut EXCEPT ![land].dirs = es]
    OBVIOUS
  <2> HIDE DEF es, put
  <2>4. Relisted(cut, land, es, put)
    BY <1>13, <2>1, <2>2, <2>3, SetDirs
  <2>5. With(cut, land, d, put)
    BY <2>2, <2>4 DEF With, Relisted
  <2>6. Sound(put) /\ Once(put)
    BY <1>7, <1>15, <2>1, <2>5, WithShape
  <2>7. ASSUME ~LaterSibling, Distinct(tree)
        PROVE  Distinct(put)
    <3>1. land = to
      BY <1>1, <2>7
    <3>2. ASSUME NEW j \in 1 .. Len(cut[to].dirs)
          PROVE  DirName(cut, to, j) # new
      <4> DEFINE x == Before(from, i, to, j)
      <4>1. x \in 1 .. Len(tree[to].dirs) /\ cut[to].dirs[j] = tree[to].dirs[x]
        BY <1>2, <1>3, <1>6, <1>14, <3>2, WithoutPlaces
      <4> HIDE DEF x
      <4>2. tree[to].dirs[x] \in LiveIn(tree)
        BY <1>2, <1>3, <4>1, ChildrenOf
      <4>3. cut[to].dirs[j] # d
        BY <1>3, <1>15, <3>2
      <4>4. DirName(cut, to, j) = DirName(tree, to, x)
        BY <1>16, <4>1, <4>2, <4>3 DEF DirName
      <4>. QED  BY <1>3, <4>1, <4>4 DEF NoEntryNamed
    <3>3. NoEntryNamed(cut, land, cut[d].name)
      BY <1>3, <1>13, <1>16, <3>1, <3>2 DEF NoEntryNamed, FileName
    <3>4. \A b \in LiveIn(cut) : put[b].files = cut[b].files /\ put[b].name = cut[b].name
      BY <2>4 DEF Relisted
    <3>. QED  BY <1>15, <1>17, <2>1, <2>5, <2>7, <3>3, <3>4, WithNames
  <2>8. tree' = Saved(put)
    BY <1>1, <1>19
  <2>. QED  BY <1>1, <1>2, <2>6, <2>7, <2>8, SavedIsKept
<1>. QED  BY <1>18, <1>19, SMTT(30)

-----------------------------------------------------------------------------
(***************************************************************************)
(* The theorems.                                                           *)
(***************************************************************************)
LEMMA InitIInv == Init => IInv /\ Distinct(tree)
<1> SUFFICES ASSUME Init
             PROVE  IInv /\ Distinct(tree)
  OBVIOUS
<1> DEFINE r == NewDirectory(None)
<1>1. r \in Directories /\ r # None /\ r.dirs = <<>> /\ r.files = <<>>
  <2>1. r \in Directories /\ r.dirs = <<>> /\ r.files = <<>>
    BY EmptySeq DEF NewDirectory, Directories
  <2>. QED  BY <2>1, NoDirectoryAssumption
<1>2. tree = [d \in Dirs |-> IF d = Root THEN r ELSE None] /\ highestUID = 0
  BY DEF Init
<1> HIDE DEF r
<1>3. tree \in [Dirs -> Directories \cup {None}]
  BY <1>1, <1>2
<1>4. LiveIn(tree) = {Root} /\ tree[Root] = r
  BY <1>1, <1>2, RootAssumption DEF LiveIn
<1>5. ToSet(r.dirs) = {} /\ \A j : j \notin 1 .. Len(r.dirs) /\ j \notin 1 .. Len(r.files)
  <2>1. ToSet(r.dirs) = {}
    BY <1>1 DEF ToSet
  <2>2. Len(r.dirs) = 0 /\ Len(r.files) = 0
    BY <1>1, EmptySeq
  <2>. QED  BY <2>1, <2>2
<1>6. Sound(tree)
  <2>1. HoldsRoot(tree, LiveIn(tree))
    BY <1>4, <1>5 DEF HoldsRoot
  <2>. QED  BY <1>3, <2>1 DEF Sound
<1>7. Once(tree)
  BY <1>4, <1>5 DEF Once
<1>8. LiveIn(tree) = Reachable(tree)
  <2>1. Reachable(tree) \subseteq LiveIn(tree) /\ Root \in Reachable(tree)
    BY <1>6, ReachFacts DEF HoldsRoot
  <2>. QED  BY <1>4, <2>1
<1>9. Distinct(tree)
  BY <1>4, <1>5 DEF Distinct
<1>10. highestUID \in 0 .. MaxUID
  BY <1>2, MaxUIDAssumption
<1>. QED  BY <1>6, <1>7, <1>8, <1>9, <1>10 DEF IInv

LEMMA InvariantStep ==
  ASSUME IInv, [Next]_vars
  PROVE  IInv' /\ (~LaterSibling /\ NamesInv => NamesInv')
<1> DEFINE Step == /\ Keeps(tree') /\ highestUID' \in 0 .. MaxUID
                   /\ ~LaterSibling /\ Distinct(tree) => Distinct(tree')
<1> SUFFICES Step
  <2> HIDE DEF Step
  <2>1. ASSUME Step
        PROVE  IInv' /\ (~LaterSibling /\ NamesInv => NamesInv')
    <3>1. IInv'
      BY <2>1 DEF Step, IInv, Keeps
    <3>. QED  BY <2>1, <3>1 DEF Step, NamesInv
  <2>. QED  BY <2>1
<1>1. ASSUME NEW p \in DirPaths, NEW n \in Names, Create(p, n)
      PROVE  Step
  BY <1>1, CreateKeeps
<1>2. ASSUME NEW p \in DirPaths, NEW n \in Names, Mkdir(p, n)
      PROVE  Step
  BY <1>2, MkdirKeeps
<1>3. ASSUME NEW p \in DirPaths, NEW n \in Names, RemoveFile(p, n)
      PROVE  Step
  BY <1>3, RemoveFileKeeps
<1>4. ASSUME NEW p \in DirPaths, NEW n \in Names, RemoveDir(p, n)
      PROVE  Step
  BY <1>4, RemoveDirKeeps
<1>5. ASSUME NEW p \in DirPaths, NEW q \in DirPaths, NEW old \in Names, NEW new \in Names,
             RenameFile(p, old, q, new)
      PROVE  Step
  BY <1>5, RenameFileKeeps
<1>6. ASSUME NEW p \in DirPaths, NEW q \in DirPaths, NEW old \in Names, NEW new \in Names,
             RenameDir(p, old, q, new)
      PROVE  Step
  BY <1>6, RenameDirKeeps
<1>7. CASE UNCHANGED vars
  <2>1. tree' = tree /\ highestUID' = highestUID
    BY <1>7 DEF vars
  <2>. QED  BY <2>1 DEF IInv, Keeps
<1>8. CASE Next
  <2> HIDE DEF Step
  <2>1. CASE \E p \in DirPaths, n \in Names :
               Create(p, n) \/ Mkdir(p, n) \/ RemoveFile(p, n) \/ RemoveDir(p, n)
    BY <1>1, <1>2, <1>3, <1>4, <2>1
  <2>2. CASE \E p, q \in DirPaths, old, new \in Names :
               RenameFile(p, old, q, new) \/ RenameDir(p, old, q, new)
    BY <1>5, <1>6, <2>2
  <2>. QED  BY <1>8, <2>1, <2>2 DEF Next
<1>. QED  BY <1>7, <1>8

LEMMA InvariantTypes == IInv => TypeOK
<1> SUFFICES ASSUME IInv
             PROVE  TypeOK
  OBVIOUS
<1>1. Live = LiveIn(tree)
  BY DEF Live, LiveIn
<1>2. /\ \A c, d \in Live : \A i \in 1 .. Len(tree[c].dirs), j \in 1 .. Len(tree[d].dirs) :
           tree[c].dirs[i] = tree[d].dirs[j] => c = d /\ i = j
      /\ \A d \in Live : \A i \in 1 .. Len(tree[d].dirs) : tree[d].dirs[i] # Root
  BY <1>1 DEF IInv, Once
<1>3. /\ tree \in [Dirs -> Directories \cup {None}]
      /\ highestUID \in 0 .. MaxUID
      /\ Live = Reachable(tree)
  BY <1>1 DEF IInv, Sound
<1>. QED  BY <1>2, <1>3 DEF TypeOK

\* A sequence of three parts lists nothing twice if none does and no two share anything.
LEMMA ThreeParts ==
  ASSUME NEW S, NEW a \in Seq(S), NEW b \in Seq(S), NEW c \in Seq(S),
         \A i, j \in 1 .. Len(a) : a[i] = a[j] => i = j,
         \A i, j \in 1 .. Len(b) : b[i] = b[j] => i = j,
         \A i, j \in 1 .. Len(c) : c[i] = c[j] => i = j,
         \A i \in 1 .. Len(a), j \in 1 .. Len(b) : a[i] # b[j],
         \A i \in 1 .. Len(a), j \in 1 .. Len(c) : a[i] # c[j],
         \A i \in 1 .. Len(b), j \in 1 .. Len(c) : b[i] # c[j]
  PROVE  IsInjective(a \o b \o c)
<1> DEFINE ab  == a \o b
           abc == ab \o c
           k   == Len(a)
           m   == Len(b)
           n   == Len(c)
<1>1. k \in Nat /\ m \in Nat /\ n \in Nat
  BY LenProperties
<1>2. /\ ab \in Seq(S) /\ Len(ab) = k + m
      /\ \A i \in 1 .. k + m : ab[i] = IF i <= k THEN a[i] ELSE b[i - k]
  BY ConcatProperties
<1> HIDE DEF ab
<1>3. /\ abc \in Seq(S) /\ Len(abc) = Len(ab) + n
      /\ \A i \in 1 .. Len(ab) + n : abc[i] = IF i <= Len(ab) THEN ab[i] ELSE c[i - Len(ab)]
  <2>1. ab \in Seq(S) /\ c \in Seq(S)
    BY <1>2
  <2>. QED  BY ONLY <2>1, ConcatProperties, ZenonT(30)
<1>4. DOMAIN abc = 1 .. Len(abc)
  BY <1>3, LenProperties
<1> HIDE DEF abc
<1>5. DOMAIN abc = 1 .. k + m + n
  BY <1>2, <1>3, <1>4
<1>6. \A i \in 1 .. k + m + n :
        \/ i \in 1 .. k /\ abc[i] = a[i]
        \/ i - k \in 1 .. m /\ abc[i] = b[i - k]
        \/ i - (k + m) \in 1 .. n /\ abc[i] = c[i - (k + m)]
  <2>1. ASSUME NEW i \in 1 .. k + m + n
        PROVE  \/ i \in 1 .. k /\ abc[i] = a[i]
               \/ i - k \in 1 .. m /\ abc[i] = b[i - k]
               \/ i - (k + m) \in 1 .. n /\ abc[i] = c[i - (k + m)]
    <3> HIDE DEF k, m, n
    <3>1. abc[i] = IF i <= k + m THEN ab[i] ELSE c[i - (k + m)]
      BY <1>2, <1>3
    <3>2. CASE i <= k
      <4>1. i \in 1 .. k /\ i \in 1 .. k + m /\ i <= k + m
        BY <1>1, <3>2
      <4>. QED  BY <1>2, <3>1, <3>2, <4>1
    <3>3. CASE ~(i <= k) /\ i <= k + m
      <4>1. i - k \in 1 .. m /\ i \in 1 .. k + m
        BY <1>1, <3>3
      <4>. QED  BY <1>2, <3>1, <3>3, <4>1
    <3>4. CASE ~(i <= k + m)
      <4>1. i - (k + m) \in 1 .. n
        BY <1>1, <3>4
      <4>. QED  BY <3>1, <3>4, <4>1
    <3>5. i <= k => i <= k + m
      BY <1>1
    <3>. QED  BY <3>2, <3>3, <3>4
  <2>. QED  BY <2>1
<1>7. ASSUME NEW i \in 1 .. k + m + n, NEW j \in 1 .. k + m + n, abc[i] = abc[j]
      PROVE  i = j
  <2> DEFINE ib == i - k
             jb == j - k
             ic == i - (k + m)
             jc == j - (k + m)
  <2>1. /\ \/ i \in 1 .. k /\ abc[i] = a[i]
           \/ ib \in 1 .. m /\ abc[i] = b[ib]
           \/ ic \in 1 .. n /\ abc[i] = c[ic]
        /\ \/ j \in 1 .. k /\ abc[j] = a[j]
           \/ jb \in 1 .. m /\ abc[j] = b[jb]
           \/ jc \in 1 .. n /\ abc[j] = c[jc]
    BY <1>6
  <2>2. (ib = jb => i = j) /\ (ic = jc => i = j)
    BY <1>1
  <2> HIDE DEF ib, jb, ic, jc, k, m, n
  <2>3. /\ \A x, y \in 1 .. k : a[x] = a[y] => x = y
        /\ \A x, y \in 1 .. m : b[x] = b[y] => x = y
        /\ \A x, y \in 1 .. n : c[x] = c[y] => x = y
        /\ \A x \in 1 .. k, y \in 1 .. m : a[x] # b[y]
        /\ \A x \in 1 .. k, y \in 1 .. n : a[x] # c[y]
        /\ \A x \in 1 .. m, y \in 1 .. n : b[x] # c[y]
    BY DEF k, m, n
  <2>4. CASE i \in 1 .. k /\ abc[i] = a[i]
    BY <1>7, <2>1, <2>3, <2>4
  <2>5. CASE ib \in 1 .. m /\ abc[i] = b[ib]
    BY <1>7, <2>1, <2>2, <2>3, <2>5
  <2>6. CASE ic \in 1 .. n /\ abc[i] = c[ic]
    BY <1>7, <2>1, <2>2, <2>3, <2>6
  <2>. QED  BY <2>1, <2>4, <2>5, <2>6
<1>. QED  BY <1>5, <1>7 DEF IsInjective, abc, ab

LEMMA NamesAreFound ==
  ASSUME NamesInv, NEW p \in DirPaths
  PROVE  LET d == tree[FindDirectory(p)]
         IN  /\ IsInjective(ReadDirAll(p))
             /\ \A i \in 1 .. Len(d.dirs) : Lookup(p, tree[d.dirs[i]].name) = d.dirs[i]
             /\ \A i \in 1 .. Len(d.files) : Lookup(p, d.files[i].name) = d.files[i]
<1> DEFINE c == FindDirectory(p)
           k == Len(tree[c].dirs)
           m == Len(tree[c].files)
           S == Names \cup {None}
           a == [i \in 1 .. k |-> tree[tree[c].dirs[i]].name]
           b == [i \in 1 .. m |-> tree[c].files[i].name]
           e == IF p = <<>> THEN <<FlushName>> ELSE <<>>
<1>1. Sound(tree) /\ Once(tree) /\ Distinct(tree)
  BY DEF NamesInv, IInv
<1>2. c \in Live /\ c \in LiveIn(tree) /\ c # None /\ (c = Root <=> p = <<>>)
  BY <1>1, PathLeads, RootAssumption DEF Live, LiveIn
<1>3. ReadDirAll(p) = a \o b \o e
  BY DEF ReadDirAll
<1>4. \A n : Lookup(p, n) = CASE p = <<>> /\ n = FlushName -> "flush"
                              [] c = None                  -> "none"
                              [] IndexOfDir(c, n) # 0      -> tree[c].dirs[IndexOfDir(c, n)]
                              [] IndexOfFile(c, n) # 0     -> tree[c].files[IndexOfFile(c, n)]
                              [] OTHER                     -> "none"
  BY DEF Lookup
<1> HIDE DEF c
<1>5. k \in Nat /\ m \in Nat /\ tree[c].files \in Seq(Files)
      /\ \A i \in 1 .. k : tree[c].dirs[i] \in LiveIn(tree)
  BY <1>1, <1>2, ChildrenOf
<1>6. /\ \A i, j \in 1 .. k : DirName(tree, c, i) = DirName(tree, c, j) => i = j
      /\ \A i, j \in 1 .. m : FileName(tree, c, i) = FileName(tree, c, j) => i = j
      /\ \A i \in 1 .. k, j \in 1 .. m : DirName(tree, c, i) # FileName(tree, c, j)
      /\ p = <<>> => \A i \in 1 .. k : DirName(tree, c, i) # FlushName
      /\ p = <<>> => \A i \in 1 .. m : FileName(tree, c, i) # FlushName
  BY <1>1, <1>2 DEF Distinct
<1>7. /\ \A i \in 1 .. k : a[i] = DirName(tree, c, i)
      /\ \A i \in 1 .. m : b[i] = FileName(tree, c, i)
  BY DEF DirName, FileName
<1>8. a \in Seq(S) /\ Len(a) = k
  <2>1. \A i \in 1 .. k : tree[tree[c].dirs[i]].name \in S
    BY <1>1, <1>5, ChildrenOf DEF Directories
  <2>. QED  BY <1>5, <2>1
<1>9. b \in Seq(S) /\ Len(b) = m
  <2>1. ASSUME NEW i \in 1 .. m
        PROVE  tree[c].files[i].name \in S
    <3>1. tree[c].files[i] \in Files
      BY <1>5, <2>1, ElementOfSeq
    <3>. QED  BY <3>1 DEF Files
  <2>. QED  BY <1>5, <2>1
<1>10. /\ e \in Seq(S)
       /\ p = <<>> => Len(e) = 1 /\ e[1] = FlushName
       /\ p # <<>> => Len(e) = 0
  BY FlushNameAssumption
<1> HIDE DEF a, b, e, S, k, m
<1>11. IsInjective(ReadDirAll(p))
  <2>1. \A i, j \in 1 .. Len(a) : a[i] = a[j] => i = j
    BY <1>6, <1>7, <1>8
  <2>2. \A i, j \in 1 .. Len(b) : b[i] = b[j] => i = j
    BY <1>6, <1>7, <1>9
  <2>3. \A i \in 1 .. Len(e) : p = <<>> /\ i = 1 /\ e[i] = FlushName
    <3>1. CASE p = <<>>
      <4>1. Len(e) = 1 /\ e[1] = FlushName /\ \A i \in 1 .. 1 : i = 1
        BY <1>10, <3>1
      <4>. QED  BY <3>1, <4>1
    <3>2. CASE p # <<>>
      <4>1. Len(e) = 0 /\ \A i : i \notin 1 .. 0
        BY <1>10, <3>2
      <4>. QED  BY <4>1
    <3>. QED  BY <3>1, <3>2
  <2>4. \A i, j \in 1 .. Len(e) : e[i] = e[j] => i = j
    BY <2>3
  <2>5. \A i \in 1 .. Len(a), j \in 1 .. Len(b) : a[i] # b[j]
    BY <1>6, <1>7, <1>8, <1>9
  <2>6. \A i \in 1 .. Len(a), j \in 1 .. Len(e) : a[i] # e[j]
    BY <1>6, <1>7, <1>8, <2>3
  <2>7. \A i \in 1 .. Len(b), j \in 1 .. Len(e) : b[i] # e[j]
    BY <1>6, <1>7, <1>9, <2>3
  <2>8. IsInjective(a \o b \o e)
    BY <1>8, <1>9, <1>10, <2>1, <2>2, <2>4, <2>5, <2>6, <2>7, ThreeParts
  <2>. QED  BY <1>3, <2>8
<1>12. \A n : /\ IndexOfDir(c, n) \in 0 .. k
              /\ IndexOfDir(c, n) # 0 => DirName(tree, c, IndexOfDir(c, n)) = n
              /\ IndexOfDir(c, n) = 0 => \A i \in 1 .. k : DirName(tree, c, i) # n
              /\ IndexOfFile(c, n) \in 0 .. m
              /\ IndexOfFile(c, n) # 0 => FileName(tree, c, IndexOfFile(c, n)) = n
              /\ IndexOfFile(c, n) = 0 => \A i \in 1 .. m : FileName(tree, c, i) # n
  BY <1>1, <1>2, DirFound, FileFound DEF k, m
<1>13. ASSUME NEW i \in 1 .. k
       PROVE  Lookup(p, DirName(tree, c, i)) = tree[c].dirs[i]
  <2> DEFINE n == DirName(tree, c, i)
             x == IndexOfDir(c, n)
  <2>1. ~(p = <<>> /\ n = FlushName)
    BY <1>6
  <2>2. n = DirName(tree, c, i)
    OBVIOUS
  <2> HIDE DEF n
  <2>3. x # 0 /\ x \in 0 .. k /\ DirName(tree, c, x) = n
    BY <1>12, <2>2
  <2>4. x = i
    <3>1. x \in 1 .. k
      BY <1>5, <2>3
    <3> HIDE DEF x
    <3>. QED  BY <1>6, <2>2, <2>3, <3>1
  <2>5. IndexOfFile(c, n) = 0
    <3> DEFINE y == IndexOfFile(c, n)
    <3>1. y \in 0 .. m /\ (y # 0 => FileName(tree, c, y) = n)
      BY <1>12
    <3> HIDE DEF y
    <3>2. y # 0 => y \in 1 .. m
      BY <1>5, <3>1
    <3>3. y = 0
      BY <1>6, <2>2, <3>1, <3>2
    <3>. QED  BY <3>3 DEF y
  <2>6. Lookup(p, n) = tree[c].dirs[x]
    BY <1>2, <1>4, <2>1, <2>3, <2>5
  <2>. QED  BY <2>2, <2>4, <2>6
<1>14. ASSUME NEW i \in 1 .. m
       PROVE  Lookup(p, FileName(tree, c, i)) = tree[c].files[i]
  <2> DEFINE n == FileName(tree, c, i)
             x == IndexOfFile(c, n)
  <2>1. ~(p = <<>> /\ n = FlushName)
    BY <1>6
  <2>2. n = FileName(tree, c, i)
    OBVIOUS
  <2> HIDE DEF n
  <2>3. x # 0 /\ x \in 0 .. m /\ FileName(tree, c, x) = n
    BY <1>12, <2>2
  <2>4. x = i
    <3>1. x \in 1 .. m
      BY <1>5, <2>3
    <3> HIDE DEF x
    <3>. QED  BY <1>6, <2>2, <2>3, <3>1
  <2>5. IndexOfDir(c, n) = 0
    <3> DEFINE y == IndexOfDir(c, n)
    <3>1. y \in 0 .. k /\ (y # 0 => DirName(tree, c, y) = n)
      BY <1>12
    <3> HIDE DEF y
    <3>2. y # 0 => y \in 1 .. k
      BY <1>5, <3>1
    <3>3. y = 0
      BY <1>6, <2>2, <3>1, <3>2
    <3>. QED  BY <3>3 DEF y
  <2>6. Lookup(p, n) = tree[c].files[x]
    BY <1>2, <1>4, <2>1, <2>3, <2>5
  <2>. QED  BY <2>2, <2>4, <2>6
<1>. QED  BY <1>11, <1>13, <1>14 DEF c, k, m, DirName, FileName

\* The tree stays a tree whatever is asked of it, a directory moved into a later
\* sibling included: the directories kept are those that can be reached from the root,
\* and each is listed in one place.
THEOREM TypeCorrect == Spec => []TypeOK
<1>1. Init => IInv
  BY InitIInv
<1>2. IInv /\ [Next]_vars => IInv'
  BY InvariantStep
<1>3. IInv => TypeOK
  BY InvariantTypes
<1>. QED  BY <1>1, <1>2, <1>3, PTL DEF Spec

\* A directory lists each name once and a lookup of a listed name finds that entry (dir.go,
\* Lookup and ReadDirAll), as long as no directory is moved into a later sibling: there
\* Rename puts it into a directory whose names it did not look at.
THEOREM NamesAlwaysResolve ==
  ASSUME ~LaterSibling
  PROVE  Spec => []NamesResolve
<1>1. Init => NamesInv
  BY InitIInv DEF NamesInv
<1>2. NamesInv /\ [Next]_vars => NamesInv'
  BY InvariantStep DEF NamesInv
<1>3. NamesInv => NamesResolve
  BY NamesAreFound DEF NamesResolve
<1>. QED  BY <1>1, <1>2, <1>3, PTL DEF Spec

-----------------------------------------------------------------------------
(***************************************************************************)
(* Paths.                                                                  *)
(***************************************************************************)
\* A set of sequences that holds the empty one, and with each one those that are longer
\* by one element, holds all.
LEMMA SequenceInduction ==
  ASSUME NEW N, NEW S \in SUBSET Seq(N), <<>> \in S, \A p \in S, n \in N : Append(p, n) \in S
  PROVE  S = Seq(N)
<1> DEFINE T == {Len(p) : p \in Seq(N) \ S}
<1>1. SUFFICES ASSUME T # {}
               PROVE  FALSE
  OBVIOUS
<1>2. T \in SUBSET Nat
  BY LenProperties
<1> HIDE DEF T
<1>3. PICK k \in T : \A j \in T : k <= j
  BY <1>1, <1>2, Least
<1>4. PICK p \in Seq(N) \ S : k = Len(p)
  BY <1>3 DEF T
<1>5. PICK r \in Seq(N), n \in N : p = Append(r, n)
  BY <1>4, SequenceEmptyOrAppend
<1>6. Len(r) \in Nat /\ k = Len(r) + 1
  BY <1>4, <1>5, AppendProperties, LenProperties
<1>7. r \notin S
  BY <1>4, <1>5
<1>8. Len(r) \in T
  BY <1>7 DEF T
<1>. QED  BY <1>3, <1>6, <1>8

\* What is behind the prefix p of r.
Behind(p, r) == SubSeq(r, Len(p) + 1, Len(r))

LEMMA BehindPrefix ==
  ASSUME NEW N, NEW p \in Seq(N), NEW x \in Seq(N)
  PROVE  p \o x \in Seq(N) /\ IsPrefix(p, p \o x) /\ Behind(p, p \o x) = x
<1> DEFINE r == p \o x
           k == Len(p)
           m == Len(x)
<1>1. k \in Nat /\ m \in Nat /\ k = Len(p) /\ m = Len(x)
  BY LenProperties
<1>2. /\ r \in Seq(N) /\ Len(r) = k + m
      /\ \A i \in 1 .. k + m : r[i] = IF i <= k THEN p[i] ELSE x[i - k]
  BY ConcatProperties
<1> HIDE DEF r, k, m
<1>3. \A i \in 1 .. k + m : r[i] \in N
  BY <1>2, ElementOfSeq
<1>4. SubSeq(p, 1, k) = p
  BY <1>1, SubSeqFull
<1>5. SubSeq(r, 1, k) = p
  <2>1. \A i \in 1 .. k : r[i] \in N
    BY <1>1, <1>3
  <2>2. /\ SubSeq(r, 1, k) \in Seq(N) /\ Len(SubSeq(r, 1, k)) = k
        /\ \A i \in 1 .. k - 1 + 1 : SubSeq(r, 1, k)[i] = r[1 + i - 1]
    BY <1>1, <2>1, SubSeqProperties
  <2>3. \A i \in 1 .. k : SubSeq(r, 1, k)[i] = p[i]
    BY <1>1, <1>2, <2>2
  <2>. QED  BY <1>1, <2>2, <2>3, SeqEqual
<1>6. SubSeq(r, k + 1, k + m) = x
  <2> DEFINE s == SubSeq(r, k + 1, k + m)
  <2>1. \A i \in k + 1 .. k + m : r[i] \in N
    BY <1>1, <1>3
  <2>2. /\ s \in Seq(N) /\ Len(s) = IF k + 1 <= k + m THEN k + m - (k + 1) + 1 ELSE 0
        /\ \A i \in 1 .. k + m - (k + 1) + 1 : s[i] = r[k + 1 + i - 1]
    BY <1>1, <2>1, SubSeqProperties
  <2> HIDE DEF s
  <2>3. Len(s) = m
    BY <1>1, <2>2
  <2>4. ASSUME NEW i \in 1 .. m
        PROVE  s[i] = x[i]
    <3>1. i \in 1 .. k + m - (k + 1) + 1 /\ k + 1 + i - 1 = k + i /\ k + i \in 1 .. k + m
          /\ ~(k + i <= k) /\ k + i - k = i
      BY <1>1
    <3>2. s[i] = r[k + i]
      BY <2>2, <3>1
    <3> DEFINE j == k + i
    <3>3. j \in 1 .. k + m /\ ~(j <= k) /\ j - k = i
      BY <1>1
    <3> HIDE DEF j
    <3>4. r[j] = x[i]
      BY <1>2, <3>3
    <3>. QED  BY <3>2, <3>4 DEF j
  <2>5. s = x
    BY <1>1, <2>2, <2>3, <2>4, SeqEqual
  <2>. QED  BY <2>5 DEF s
<1>7. IsPrefix(p, r)
  <2>1. Len(p) <= Len(r)
    BY <1>1, <1>2
  <2>. QED  BY <1>1, <1>4, <1>5, <2>1 DEF IsPrefix
<1>8. Behind(p, r) = x
  BY <1>1, <1>2, <1>6 DEF Behind
<1>. QED  BY <1>2, <1>7, <1>8 DEF r

LEMMA PrefixAndRest ==
  ASSUME NEW N, NEW p \in Seq(N), NEW r \in Seq(N), IsPrefix(p, r)
  PROVE  Behind(p, r) \in Seq(N) /\ r = p \o Behind(p, r)
<1> DEFINE k == Len(p)
           m == Len(r)
<1>1. k \in Nat /\ m \in Nat /\ k = Len(p) /\ m = Len(r)
  BY LenProperties
<1>2. Len(p) <= Len(r) /\ SubSeq(p, 1, Len(p)) = SubSeq(r, 1, Len(p))
  BY DEF IsPrefix
<1> HIDE DEF k, m
<1>3. k <= m /\ SubSeq(r, 1, k) = p
  BY <1>1, <1>2, SubSeqFull
<1>4. \A i \in k + 1 .. m : r[i] \in N
  <2>1. ASSUME NEW i \in k + 1 .. m
        PROVE  r[i] \in N
    <3>1. i \in 1 .. Len(r)
      BY <1>1
    <3>. QED  BY <3>1, ElementOfSeq
  <2>. QED  BY <2>1
<1>5. SubSeq(r, k + 1, m) \in Seq(N)
  BY <1>1, <1>4, SubSeqProperties
<1>6. SubSeq(r, 1, k) \o SubSeq(r, k + 1, m) = SubSeq(r, 1, m)
  <2>1. 1 \in 1 .. Len(r) + 1 /\ k \in 1 - 1 .. Len(r) /\ m \in k .. Len(r)
    BY <1>1, <1>3
  <2>. QED  BY <2>1, ConcatAdjacentSubSeq
<1>7. SubSeq(r, 1, m) = r
  BY <1>1, SubSeqFull
<1>. QED  BY <1>1, <1>3, <1>5, <1>6, <1>7 DEF Behind

\* One element more at the end.
LEMMA AppendBelow ==
  ASSUME NEW N, NEW p \in Seq(N), NEW x \in Seq(N), NEW n \in N
  PROVE  p \o Append(x, n) = Append(p \o x, n)
<1>1. <<n>> \in Seq(N) /\ p \o x \in Seq(N)
  BY ConcatProperties
<1>2. Append(x, n) = x \o <<n>> /\ Append(p \o x, n) = (p \o x) \o <<n>>
  BY <1>1, AppendIsConcat
<1>. QED  BY <1>1, <1>2, ConcatAssociative

LEMMA PrefixOfAppend ==
  ASSUME NEW N, NEW p \in Seq(N), NEW r \in Seq(N), NEW n \in N
  PROVE  IsPrefix(p, Append(r, n)) <=> p = Append(r, n) \/ IsPrefix(p, r)
<1> DEFINE s == Append(r, n)
<1>1. s \in Seq(N)
  BY AppendProperties
<1>2. p \o <<>> = p /\ <<>> \in Seq(N)
  BY ConcatEmptySeq, EmptySeq
<1>3. p = s => IsPrefix(p, s)
  <2>1. IsPrefix(p, p \o <<>>)
    BY <1>2, BehindPrefix
  <2>. QED  BY <1>2, <2>1
<1>4. ASSUME IsPrefix(p, r)
      PROVE  IsPrefix(p, s)
  <2> DEFINE x == Behind(p, r)
  <2>1. x \in Seq(N) /\ r = p \o x
    BY <1>4, PrefixAndRest
  <2> HIDE DEF x
  <2>2. Append(x, n) \in Seq(N)
    BY <2>1, AppendProperties
  <2>3. p \o Append(x, n) = Append(p \o x, n)
    BY <2>1, AppendBelow
  <2>4. s = p \o Append(x, n)
    BY <2>1, <2>3
  <2> HIDE DEF s
  <2>. QED  BY <2>2, <2>4, BehindPrefix
<1>5. ASSUME IsPrefix(p, s), p # s
      PROVE  IsPrefix(p, r)
  <2> DEFINE x == Behind(p, s)
  <2>1. x \in Seq(N) /\ s = p \o x
    BY <1>1, <1>5, PrefixAndRest
  <2> HIDE DEF x, s
  <2>2. x # <<>>
    BY <1>2, <1>5, <2>1
  <2>3. PICK y \in Seq(N), k \in N : x = Append(y, k)
    BY <2>1, <2>2, SequenceEmptyOrAppend
  <2>4. s = Append(p \o y, k) /\ p \o y \in Seq(N)
    BY <2>1, <2>3, AppendBelow, ConcatProperties
  <2>5. Append(r, n) = Append(p \o y, k)
    BY <2>4 DEF s
  <2> DEFINE z == p \o y
  <2>6. z \in Seq(N) /\ Append(r, n) = Append(z, k) /\ k \in N
    BY <2>3, <2>4, <2>5
  <2> HIDE DEF z
  <2>7. r = z
    BY <2>6, AppendInjective
  <2>. QED  BY <2>3, <2>7, BehindPrefix DEF z
<1>. QED  BY <1>3, <1>4, <1>5

\* Front and Last take an element off again.
LEMMA AppendParts ==
  ASSUME NEW N, NEW p \in Seq(N), NEW n \in N
  PROVE  Front(Append(p, n)) = p /\ Last(Append(p, n)) = n
<1> DEFINE s == Append(p, n)
           k == Len(p)
<1>1. k \in Nat /\ k = Len(p)
  BY LenProperties
<1>2. s \in Seq(N) /\ Len(s) = k + 1 /\ s[k + 1] = n /\ \A i \in 1 .. k : s[i] = p[i]
  BY <1>1, AppendProperties
<1> HIDE DEF s, k
<1>3. SubSeq(s, 1, k) = p
  <2>1. \A i \in 1 .. k : s[i] \in N
    BY <1>1, <1>2, ElementOfSeq
  <2>2. /\ SubSeq(s, 1, k) \in Seq(N) /\ Len(SubSeq(s, 1, k)) = k
        /\ \A i \in 1 .. k - 1 + 1 : SubSeq(s, 1, k)[i] = s[1 + i - 1]
    BY <1>1, <2>1, SubSeqProperties
  <2>3. \A i \in 1 .. k : SubSeq(s, 1, k)[i] = p[i]
    BY <1>1, <1>2, <2>2
  <2>. QED  BY <1>1, <2>2, <2>3, SeqEqual
<1>4. Len(s) - 1 = k
  BY <1>1, <1>2
<1>. QED  BY <1>2, <1>3, <1>4 DEF Front, Last, s

LEMMA PrefixTooLong ==
  ASSUME NEW N, NEW p \in Seq(N)
  PROVE  /\ IsPrefix(p, <<>>) => p = <<>>
         /\ \A n \in N : ~IsPrefix(Append(p, n), p)
<1>1. Len(p) \in Nat
  BY LenProperties
<1>2. ASSUME IsPrefix(p, <<>>)
      PROVE  p = <<>>
  <2>1. Len(p) <= 0
    BY <1>2, EmptySeq DEF IsPrefix
  <2>2. Len(p) = 0
    BY <1>1, <2>1
  <2>. QED  BY <2>2, EmptySeq
<1>3. ASSUME NEW n \in N, IsPrefix(Append(p, n), p)
      PROVE  FALSE
  <2>1. Len(Append(p, n)) = Len(p) + 1
    BY AppendProperties
  <2>2. Len(Append(p, n)) <= Len(p)
    BY <1>3 DEF IsPrefix
  <2>. QED  BY <1>1, <2>1, <2>2
<1>. QED  BY <1>2, <1>3

-----------------------------------------------------------------------------
(***************************************************************************)
(* What the paths of a tree t lead to.                                     *)
(***************************************************************************)
Parts == Names \cup {None}
Routes == Seq(Parts)

\* Directory c lists directory d under the name n, and a file with the UID u.
Edge(t, c, n, d) ==
  c \in LiveIn(t) /\ \E i \in 1 .. Len(t[c].dirs) : t[c].dirs[i] = d /\ DirName(t, c, i) = n
Held(t, c, n, u) ==
  c \in LiveIn(t) /\ \E i \in 1 .. Len(t[c].files) : FileName(t, c, i) = n /\ t[c].files[i].uid = u

\* The directories g along the path p; p leads to d; p leads to a file; to an entry.
Walk(t, p, g) == g[0] = Root /\ \A i \in 1 .. Len(p) : Edge(t, g[i - 1], p[i], g[i])
Leads(t, p, d) == \E g : Walk(t, p, g) /\ g[Len(p)] = d
Filed(t, p, u) ==
  \E r \in Routes, n \in Parts : p = Append(r, n) /\ \E c : Leads(t, r, c) /\ Held(t, c, n, u)
Ent(t, p, v) == (v = Root /\ \E d : Leads(t, p, d)) \/ Filed(t, p, v)

\* How the tree u differs from t: the same paths lead to the same directories; directory
\* c holds a file more, or one less; there is an entry more at the path q, or one less;
\* what was at p and below is at q and below.
PathsKept(t, u) == \A r \in Routes : \A d : Leads(u, r, d) <=> Leads(t, r, d)
FilePutIn(t, u, c, n, e) ==
  \A b, x, v : Held(u, b, x, v) <=> Held(t, b, x, v) \/ (b = c /\ x = n /\ v = e)
FileCutFrom(t, u, c, n) ==
  \A b, x, v : Held(u, b, x, v) <=> Held(t, b, x, v) /\ ~(b = c /\ x = n)
EntryPut(t, u, q, e) == \A r \in Routes : \A v : Ent(u, r, v) <=> Ent(t, r, v) \/ (r = q /\ v = e)
EntryCut(t, u, q) == \A r \in Routes : \A v : Ent(u, r, v) <=> Ent(t, r, v) /\ r # q
EntriesMoved(t, u, p, q) ==
  /\ \A r \in Routes : ~IsPrefix(q, r) => \A v : Ent(u, r, v) <=> Ent(t, r, v) /\ ~IsPrefix(p, r)
  /\ \A r \in Routes : \A v : Ent(u, q \o r, v) <=> Ent(t, p \o r, v)

Shape(t) == Sound(t) /\ Once(t) /\ Distinct(t)

LEMMA LeadsRoot ==
  ASSUME NEW t
  PROVE  \A d : Leads(t, <<>>, d) <=> d = Root
<1>1. Len(<<>>) = 0 /\ \A i : i \notin 1 .. 0
  BY EmptySeq
<1>2. \A g : Walk(t, <<>>, g) <=> g[0] = Root
  BY <1>1 DEF Walk
<1> DEFINE h == [i \in {0} |-> Root]
<1>3. h[0] = Root
  OBVIOUS
<1>4. \E g : Walk(t, <<>>, g) /\ g[0] = Root
  BY <1>2, <1>3
<1>. QED  BY <1>1, <1>2, <1>4 DEF Leads

LEMMA LeadsOn ==
  ASSUME NEW t, NEW p \in Routes, NEW n \in Parts
  PROVE  \A d : Leads(t, Append(p, n), d) <=> \E c : Leads(t, p, c) /\ Edge(t, c, n, d)
<1> DEFINE s == Append(p, n)
           k == Len(p)
<1>1. k \in Nat /\ k = Len(p)
  BY LenProperties DEF Routes
<1>2. Len(s) = k + 1 /\ s[k + 1] = n /\ \A i \in 1 .. k : s[i] = p[i]
  BY <1>1, AppendProperties DEF Routes
<1> HIDE DEF s, k
<1>3. /\ k + 1 \in 1 .. k + 1 /\ k + 1 - 1 = k /\ 1 .. k \subseteq 1 .. k + 1
      /\ \A i \in 1 .. k + 1 : i \in 1 .. k \/ i = k + 1
      /\ k \in 0 .. k + 1 /\ k + 1 \in 0 .. k + 1 /\ ~(k + 1 <= k) /\ k <= k /\ 0 <= k
      /\ 0 \in 0 .. k + 1 /\ k + 1 # 0
  BY <1>1
<1>4. ASSUME NEW d, Leads(t, s, d)
      PROVE  \E c : Leads(t, p, c) /\ Edge(t, c, n, d)
  <2>1. PICK g : Walk(t, s, g) /\ g[Len(s)] = d
    BY <1>4 DEF Leads
  <2>2. g[0] = Root /\ \A i \in 1 .. k + 1 : Edge(t, g[i - 1], s[i], g[i])
    BY <1>2, <2>1 DEF Walk
  <2>3. Edge(t, g[k + 1 - 1], s[k + 1], g[k + 1])
    BY <1>3, <2>2
  <2>4. Edge(t, g[k], n, d)
    BY <1>2, <1>3, <2>1, <2>3
  <2>5. \A i \in 1 .. k : Edge(t, g[i - 1], p[i], g[i])
    BY <1>2, <1>3, <2>2
  <2>6. Walk(t, p, g)
    BY <1>1, <2>2, <2>5 DEF Walk
  <2>7. Leads(t, p, g[k])
    BY <1>1, <2>6 DEF Leads
  <2>. QED  BY <2>4, <2>7
<1>5. ASSUME NEW d, NEW c, Leads(t, p, c), Edge(t, c, n, d)
      PROVE  Leads(t, s, d)
  <2>1. PICK g : Walk(t, p, g) /\ g[k] = c
    BY <1>1, <1>5 DEF Leads
  <2>2. g[0] = Root /\ \A i \in 1 .. k : Edge(t, g[i - 1], p[i], g[i])
    BY <1>1, <2>1 DEF Walk
  <2> DEFINE h == [i \in 0 .. k + 1 |-> IF i <= k THEN g[i] ELSE d]
  <2>3. h[0] = Root /\ h[k] = c /\ h[k + 1] = d
    BY <1>3, <2>1, <2>2
  <2>4. ASSUME NEW i \in 1 .. k
        PROVE  Edge(t, h[i - 1], s[i], h[i])
    <3>1. i \in 0 .. k + 1 /\ i - 1 \in 0 .. k + 1 /\ i <= k /\ i - 1 <= k
      BY <1>1
    <3>2. h[i] = g[i] /\ h[i - 1] = g[i - 1]
      BY <3>1
    <3> HIDE DEF h
    <3>. QED  BY <1>2, <2>2, <3>2
  <2> HIDE DEF h
  <2>5. Edge(t, h[k + 1 - 1], s[k + 1], h[k + 1])
    BY <1>2, <1>3, <1>5, <2>3
  <2>6. \A i \in 1 .. k + 1 : Edge(t, h[i - 1], s[i], h[i])
    BY <1>3, <2>4, <2>5
  <2>7. Walk(t, s, h) /\ h[Len(s)] = d
    BY <1>2, <2>3, <2>6 DEF Walk
  <2>. QED  BY <2>7 DEF Leads
<1>. QED  BY <1>4, <1>5 DEF s

LEMMA EdgeFacts ==
  ASSUME NEW t, Shape(t)
  PROVE  /\ \A c, n, d : Edge(t, c, n, d) => /\ c \in LiveIn(t) /\ d \in LiveIn(t) /\ d # Root
                                             /\ n = t[d].name /\ n \in Parts
         /\ \A c, n, d, e : Edge(t, c, n, d) /\ Edge(t, c, n, e) => d = e
         /\ \A b, k, c, n, d : Edge(t, b, k, d) /\ Edge(t, c, n, d) => b = c /\ k = n
         /\ \A c, n, u : Held(t, c, n, u) => c \in LiveIn(t) /\ n \in Parts
         /\ \A c, n, u, v : Held(t, c, n, u) /\ Held(t, c, n, v) => u = v
         /\ \A c, n, d, u : ~(Edge(t, c, n, d) /\ Held(t, c, n, u))
<1>1. Sound(t) /\ Once(t) /\ Distinct(t)
  BY DEF Shape
<1>2. ASSUME NEW c, NEW n, NEW d, Edge(t, c, n, d)
      PROVE  /\ c \in LiveIn(t) /\ d \in LiveIn(t) /\ d # Root
             /\ n = t[d].name /\ n \in Parts
  <2>1. PICK i \in 1 .. Len(t[c].dirs) : t[c].dirs[i] = d /\ DirName(t, c, i) = n
    BY <1>2 DEF Edge
  <2>2. c \in LiveIn(t)
    BY <1>2 DEF Edge
  <2>3. d \in LiveIn(t) /\ d # Root
    BY <1>1, <2>1, <2>2, ChildrenOf DEF Once
  <2>4. n = t[d].name
    BY <2>1 DEF DirName
  <2>5. t[d] \in Directories
    BY <1>1, <2>3, ChildrenOf
  <2>. QED  BY <2>2, <2>3, <2>4, <2>5 DEF Directories, Parts
<1>3. ASSUME NEW c, NEW n, NEW d, NEW e, Edge(t, c, n, d), Edge(t, c, n, e)
      PROVE  d = e
  <2>1. PICK i \in 1 .. Len(t[c].dirs) : t[c].dirs[i] = d /\ DirName(t, c, i) = n
    BY <1>3 DEF Edge
  <2>2. PICK j \in 1 .. Len(t[c].dirs) : t[c].dirs[j] = e /\ DirName(t, c, j) = n
    BY <1>3 DEF Edge
  <2>3. i = j
    BY <1>1, <1>3, <2>1, <2>2 DEF Distinct, Edge
  <2>. QED  BY <2>1, <2>2, <2>3
<1>4. ASSUME NEW b, NEW k, NEW c, NEW n, NEW d, Edge(t, b, k, d), Edge(t, c, n, d)
      PROVE  b = c /\ k = n
  <2>1. b \in LiveIn(t) /\ c \in LiveIn(t) /\ k = t[d].name /\ n = t[d].name
    BY <1>2, <1>4
  <2>2. PICK i \in 1 .. Len(t[b].dirs) : t[b].dirs[i] = d
    BY <1>4 DEF Edge
  <2>3. PICK j \in 1 .. Len(t[c].dirs) : t[c].dirs[j] = d
    BY <1>4 DEF Edge
  <2>4. b = c
    BY <1>1, <2>1, <2>2, <2>3 DEF Once
  <2>. QED  BY <2>1, <2>4
<1>5. ASSUME NEW c, NEW n, NEW u, Held(t, c, n, u)
      PROVE  c \in LiveIn(t) /\ n \in Parts
  <2>1. c \in LiveIn(t)
    BY <1>5 DEF Held
  <2>2. PICK i \in 1 .. Len(t[c].files) : t[c].files[i].name = n
    BY <1>5 DEF Held, FileName
  <2>3. t[c].files[i] \in Files
    BY <1>1, <2>1, ChildrenOf, ElementOfSeq
  <2>. QED  BY <2>1, <2>2, <2>3 DEF Files, Parts
<1>6. ASSUME NEW c, NEW n, NEW u, NEW v, Held(t, c, n, u), Held(t, c, n, v)
      PROVE  u = v
  <2>1. PICK i \in 1 .. Len(t[c].files) : FileName(t, c, i) = n /\ t[c].files[i].uid = u
    BY <1>6 DEF Held
  <2>2. PICK j \in 1 .. Len(t[c].files) : FileName(t, c, j) = n /\ t[c].files[j].uid = v
    BY <1>6 DEF Held
  <2>3. i = j
    BY <1>1, <1>6, <2>1, <2>2 DEF Distinct, Held
  <2>. QED  BY <2>1, <2>2, <2>3
<1>7. ASSUME NEW c, NEW n, NEW d, NEW u, Edge(t, c, n, d), Held(t, c, n, u)
      PROVE  FALSE
  <2>1. PICK i \in 1 .. Len(t[c].dirs) : DirName(t, c, i) = n
    BY <1>7 DEF Edge
  <2>2. PICK j \in 1 .. Len(t[c].files) : FileName(t, c, j) = n
    BY <1>7 DEF Held
  <2>. QED  BY <1>1, <1>7, <2>1, <2>2 DEF Distinct, Edge
<1>. QED  BY <1>2, <1>3, <1>4, <1>5, <1>6, <1>7

\* A path leads to one directory, and a directory lies on one path.
LEMMA OneRoute ==
  ASSUME NEW t, Shape(t)
  PROVE  /\ \A p \in Routes : \A c, d : Leads(t, p, c) /\ Leads(t, p, d) => c = d
         /\ \A p, q \in Routes : \A d : Leads(t, p, d) /\ Leads(t, q, d) => p = q
<1>1. /\ \A c, n, d, e : Edge(t, c, n, d) /\ Edge(t, c, n, e) => d = e
      /\ \A b, k, c, n, d : Edge(t, b, k, d) /\ Edge(t, c, n, d) => b = c /\ k = n
      /\ \A c, n, d : Edge(t, c, n, d) => d # Root
  BY EdgeFacts
<1>2. <<>> \in Routes /\ \A p \in Routes, n \in Parts : Append(p, n) \in Routes
  BY EmptySeq, AppendProperties DEF Routes
<1> DEFINE S == {p \in Routes : \A c, d : Leads(t, p, c) /\ Leads(t, p, d) => c = d}
           U == {p \in Routes : \A q \in Routes : \A d : Leads(t, p, d) /\ Leads(t, q, d) => p = q}
<1>3. S = Routes
  <2>1. <<>> \in S
    BY <1>2, LeadsRoot
  <2>2. ASSUME NEW p \in S, NEW n \in Parts
        PROVE  Append(p, n) \in S
    <3>1. ASSUME NEW c, NEW d, Leads(t, Append(p, n), c), Leads(t, Append(p, n), d)
          PROVE  c = d
      <4>1. PICK a : Leads(t, p, a) /\ Edge(t, a, n, c)
        BY <3>1, LeadsOn
      <4>2. PICK b : Leads(t, p, b) /\ Edge(t, b, n, d)
        BY <3>1, LeadsOn
      <4>3. a = b
        BY <4>1, <4>2
      <4>. QED  BY <1>1, <4>1, <4>2, <4>3
    <3>. QED  BY <1>2, <3>1
  <2>3. S \in SUBSET Seq(Parts)
    BY DEF Routes
  <2> HIDE DEF S
  <2>. QED  BY <2>1, <2>2, <2>3, SequenceInduction DEF Routes
<1>4. U = Routes
  <2>1. \A q \in Routes : Leads(t, q, Root) => q = <<>>
    <3>1. ASSUME NEW q \in Routes, Leads(t, q, Root), q # <<>>
          PROVE  FALSE
      <4>1. PICK r \in Routes, k \in Parts : q = Append(r, k)
        BY <3>1, SequenceEmptyOrAppend DEF Routes
      <4>2. PICK a : Edge(t, a, k, Root)
        BY <3>1, <4>1, LeadsOn
      <4>. QED  BY <1>1, <4>2
    <3>. QED  BY <3>1
  <2>2. <<>> \in U
    BY <1>2, <2>1, LeadsRoot
  <2>3. ASSUME NEW p \in U, NEW n \in Parts
        PROVE  Append(p, n) \in U
    <3>1. ASSUME NEW q \in Routes, NEW d, Leads(t, Append(p, n), d), Leads(t, q, d)
          PROVE  Append(p, n) = q
      <4>1. PICK a : Leads(t, p, a) /\ Edge(t, a, n, d)
        BY <3>1, LeadsOn
      <4>2. q # <<>>
        BY <1>1, <3>1, <4>1, LeadsRoot
      <4>3. PICK r \in Routes, k \in Parts : q = Append(r, k)
        BY <4>2, SequenceEmptyOrAppend DEF Routes
      <4>4. PICK b : Leads(t, r, b) /\ Edge(t, b, k, d)
        BY <3>1, <4>3, LeadsOn
      <4>5. a = b /\ n = k
        BY <1>1, <4>1, <4>4
      <4>6. p = r
        BY <4>1, <4>4, <4>5
      <4>. QED  BY <4>3, <4>5, <4>6
    <3>. QED  BY <1>2, <3>1
  <2>4. U \in SUBSET Seq(Parts)
    BY DEF Routes
  <2> HIDE DEF U
  <2>. QED  BY <2>2, <2>3, <2>4, SequenceInduction DEF Routes
<1>. QED  BY <1>3, <1>4

LEMMA FiledOn ==
  ASSUME NEW t, NEW p \in Routes, NEW n \in Parts
  PROVE  \A u : Filed(t, Append(p, n), u) <=> \E c : Leads(t, p, c) /\ Held(t, c, n, u)
<1>1. \A r \in Routes, k \in Parts : Append(p, n) = Append(r, k) => p = r /\ n = k
  BY AppendInjective DEF Routes
<1>. QED  BY <1>1 DEF Filed

\* A path leads to one entry.
LEMMA EntryIsOne ==
  ASSUME NEW t, Shape(t), NEW p \in Routes
  PROVE  /\ \A d, u : ~(Leads(t, p, d) /\ Filed(t, p, u))
         /\ \A u, v : Filed(t, p, u) /\ Filed(t, p, v) => u = v
         /\ \A v, w : Ent(t, p, v) /\ Ent(t, p, w) => v = w
<1>1. /\ \A c, n, u, v : Held(t, c, n, u) /\ Held(t, c, n, v) => u = v
      /\ \A c, n, d, u : ~(Edge(t, c, n, d) /\ Held(t, c, n, u))
  BY EdgeFacts
<1>2. \A r \in Routes : \A c, d : Leads(t, r, c) /\ Leads(t, r, d) => c = d
  BY OneRoute
<1>3. ASSUME NEW u, Filed(t, p, u)
      PROVE  /\ \A d : ~Leads(t, p, d)
             /\ \A v : Filed(t, p, v) => u = v
  <2>1. PICK r \in Routes, n \in Parts : p = Append(r, n)
    BY <1>3 DEF Filed
  <2>2. PICK c : Leads(t, r, c) /\ Held(t, c, n, u)
    BY <1>3, <2>1, FiledOn
  <2>3. ASSUME NEW d, Leads(t, p, d)
        PROVE  FALSE
    <3>1. PICK b : Leads(t, r, b) /\ Edge(t, b, n, d)
      BY <2>1, <2>3, LeadsOn
    <3>. QED  BY <1>1, <1>2, <2>2, <3>1
  <2>4. ASSUME NEW v, Filed(t, p, v)
        PROVE  u = v
    <3>1. PICK b : Leads(t, r, b) /\ Held(t, b, n, v)
      BY <2>1, <2>4, FiledOn
    <3>. QED  BY <1>1, <1>2, <2>2, <3>1
  <2>. QED  BY <2>3, <2>4
<1>. QED  BY <1>3 DEF Ent

\* What is above an entry is a directory.
LEMMA EntryAbove ==
  ASSUME NEW t, NEW p \in Routes, NEW r \in Routes, NEW v, Ent(t, r, v), IsPrefix(p, r), p # r
  PROVE  \E c : Leads(t, p, c)
<1> DEFINE S == {s \in Routes : IsPrefix(p, s) /\ (\E d : Leads(t, s, d)) => \E c : Leads(t, p, c)}
<1>1. IsPrefix(p, <<>>) => p = <<>>
  BY PrefixTooLong DEF Routes
<1>2. S = Routes
  <2>1. <<>> \in S
    BY <1>1, EmptySeq DEF Routes
  <2>2. ASSUME NEW s \in S, NEW n \in Parts
        PROVE  Append(s, n) \in S
    <3>1. Append(s, n) \in Routes
      BY AppendProperties DEF Routes
    <3>2. ASSUME IsPrefix(p, Append(s, n)), NEW d, Leads(t, Append(s, n), d)
          PROVE  \E c : Leads(t, p, c)
      <4>1. p = Append(s, n) \/ IsPrefix(p, s)
        BY <3>2, PrefixOfAppend DEF Routes
      <4>2. \E c : Leads(t, s, c)
        BY <3>2, LeadsOn
      <4>. QED  BY <3>2, <4>1, <4>2
    <3>. QED  BY <3>1, <3>2
  <2>3. S \in SUBSET Seq(Parts)
    BY DEF Routes
  <2> HIDE DEF S
  <2>. QED  BY <2>1, <2>2, <2>3, SequenceInduction DEF Routes
<1>3. r # <<>>
  BY <1>1
<1>4. PICK s \in Routes, n \in Parts : r = Append(s, n)
  BY <1>3, SequenceEmptyOrAppend DEF Routes
<1>5. IsPrefix(p, s)
  BY <1>4, PrefixOfAppend DEF Routes
<1>6. \E d : Leads(t, s, d)
  <2>1. CASE \E d : Leads(t, r, d)
    BY <1>4, <2>1, LeadsOn
  <2>2. CASE Filed(t, r, v)
    BY <1>4, <2>2, FiledOn
  <2>. QED  BY <2>1, <2>2 DEF Ent
<1>. QED  BY <1>2, <1>5, <1>6

\* Where a path has no entry right below it there is none further below.
LEMMA NothingBelow ==
  ASSUME NEW t, NEW p \in Routes, \A n \in Parts : \A v : ~Ent(t, Append(p, n), v),
         NEW r \in Routes, NEW w, Ent(t, r, w), IsPrefix(p, r)
  PROVE  r = p
<1> DEFINE S == {s \in Routes : IsPrefix(p, s) /\ (\E v : Ent(t, s, v)) => s = p}
<1>1. <<>> \in S
  BY PrefixTooLong, EmptySeq DEF Routes
<1>2. ASSUME NEW s \in S, NEW n \in Parts
      PROVE  Append(s, n) \in S
  <2>1. Append(s, n) \in Routes
    BY AppendProperties DEF Routes
  <2>2. ASSUME IsPrefix(p, Append(s, n)), NEW v, Ent(t, Append(s, n), v), Append(s, n) # p
        PROVE  FALSE
    <3>1. IsPrefix(p, s)
      BY <2>2, PrefixOfAppend DEF Routes
    <3>2. \E d : Leads(t, s, d)
      <4>1. CASE \E d : Leads(t, Append(s, n), d)
        BY <4>1, LeadsOn
      <4>2. CASE Filed(t, Append(s, n), v)
        BY <4>2, FiledOn
      <4>. QED  BY <2>2, <4>1, <4>2 DEF Ent
    <3>3. s = p
      BY <3>1, <3>2 DEF Ent
    <3>. QED  BY <2>2, <3>3
  <2>. QED  BY <2>1, <2>2
<1>3. S \in SUBSET Seq(Parts)
  BY DEF Routes
<1> HIDE DEF S
<1>4. S = Routes
  BY <1>1, <1>2, <1>3, SequenceInduction DEF Routes
<1>. QED  BY <1>4 DEF S

-----------------------------------------------------------------------------
(***************************************************************************)
(* The tree as a map, and the edits of PathMap.                            *)
(***************************************************************************)
\* m is the map from the paths of t to what they lead to.
IsMap(m, t) ==
  /\ DOMAIN m \subseteq Routes
  /\ m = [p \in DOMAIN m |-> m[p]]
  /\ \A p \in Routes : \A v : Ent(t, p, v) <=> p \in DOMAIN m /\ m[p] = v

LEMMA MapMade ==
  ASSUME NEW t, NEW u, NEW m, NEW n, IsMap(m, t), IsMap(n, u),
         NEW p \in Routes, NEW k \in Parts, NEW e,
         Ent(t, p, Root), \A v : ~Ent(t, Append(p, k), v),
         e = Root \/ \A r \in Routes : ~Ent(t, r, e), EntryPut(t, u, Append(p, k), e)
  PROVE  PM!Edit(m, n)
<1> USE DEF EntryPut
<1> DEFINE q == Append(p, k)
<1>1. q \in Routes /\ Front(q) = p /\ q # <<>>
  BY AppendProperties, AppendParts DEF Routes
<1>2. /\ Ent(t, p, Root) /\ \A v : ~Ent(t, q, v)
      /\ \A r \in Routes : \A v : Ent(u, r, v) <=> Ent(t, r, v) \/ (r = q /\ v = e)
  OBVIOUS
<1> HIDE DEF q
<1>3. /\ DOMAIN m \subseteq Routes /\ DOMAIN n \subseteq Routes
      /\ \A r \in Routes : \A v : Ent(t, r, v) <=> r \in DOMAIN m /\ m[r] = v
      /\ \A r \in Routes : \A v : Ent(u, r, v) <=> r \in DOMAIN n /\ n[r] = v
  BY DEF IsMap
<1>4. q \notin DOMAIN m /\ q \in DOMAIN n /\ n[q] = e
  BY <1>1, <1>2, <1>3
<1>5. DOMAIN n = DOMAIN m \cup {q} /\ \A r \in DOMAIN m : n[r] = m[r]
  <2>1. \A r \in DOMAIN m : r \in DOMAIN n /\ n[r] = m[r]
    BY <1>2, <1>3
  <2>2. ASSUME NEW r \in DOMAIN n, r # q
        PROVE  r \in DOMAIN m
    <3>1. r \in Routes /\ Ent(u, r, n[r])
      BY <1>3
    <3>. QED  BY <1>2, <1>3, <2>2, <3>1
  <2>. QED  BY <1>4, <2>1, <2>2
<1>6. PM!CanMake(m, q, e)
  <2>1. p \in DOMAIN m /\ m[p] = Root
    BY <1>2, <1>3
  <2>2. PM!Free(m, q)
    BY <1>1, <1>4, <2>1 DEF PM!Free, PM!Front, Front
  <2>3. e = Root \/ \A r \in DOMAIN m : m[r] # e
    BY <1>3
  <2>. QED  BY <2>2, <2>3 DEF PM!CanMake
<1>7. n = PM!Made(m, q, e)
  <2>1. n = [r \in DOMAIN n |-> n[r]]
    BY DEF IsMap
  <2>2. n = [r \in DOMAIN m \cup {q} |-> IF r = q THEN e ELSE m[r]]
    BY <1>4, <1>5, <2>1
  <2>. QED  BY <2>2 DEF PM!Made
<1>. QED  BY <1>4, <1>6, <1>7 DEF PM!Edit

LEMMA MapDeleted ==
  ASSUME NEW t, NEW u, NEW m, NEW n, IsMap(m, t), IsMap(n, u),
         NEW p \in Routes, NEW e, Ent(t, p, e), p # <<>>,
         \A k \in Parts : \A v : ~Ent(t, Append(p, k), v), EntryCut(t, u, p)
  PROVE  PM!Edit(m, n)
<1> USE DEF EntryCut
<1>1. /\ DOMAIN m \subseteq Routes /\ DOMAIN n \subseteq Routes
      /\ \A r \in Routes : \A v : Ent(t, r, v) <=> r \in DOMAIN m /\ m[r] = v
      /\ \A r \in Routes : \A v : Ent(u, r, v) <=> r \in DOMAIN n /\ n[r] = v
  BY DEF IsMap
<1>2. p \in DOMAIN m
  BY <1>1
<1>3. DOMAIN n = DOMAIN m \ {p} /\ \A r \in DOMAIN n : n[r] = m[r]
  BY <1>1
<1>4. PM!CanDelete(m, p)
  <2>1. ASSUME NEW r \in DOMAIN m, IsPrefix(p, r)
        PROVE  r = p
    <3>1. r \in Routes /\ Ent(t, r, m[r])
      BY <1>1
    <3>. QED  BY <2>1, <3>1, NothingBelow
  <2>. QED  BY <2>1 DEF PM!CanDelete, PM!IsPrefix, IsPrefix
<1>5. n = PM!Deleted(m, p)
  <2>1. n = [r \in DOMAIN n |-> n[r]]
    BY DEF IsMap
  <2>2. n = [r \in DOMAIN m \ {p} |-> m[r]]
    BY <1>3, <2>1
  <2>. QED  BY <2>2 DEF PM!Deleted
<1>. QED  BY <1>2, <1>4, <1>5 DEF PM!Edit

LEMMA MapRenamed ==
  ASSUME NEW t, NEW u, NEW m, NEW n, IsMap(m, t), IsMap(n, u),
         NEW p \in Routes, NEW e, Ent(t, p, e), p # <<>>,
         NEW s \in Routes, NEW k \in Names, Ent(t, s, Root), \A v : ~Ent(t, Append(s, k), v),
         ~IsPrefix(p, Append(s, k)), EntriesMoved(t, u, p, Append(s, k))
  PROVE  PM!Edit(m, n)
<1> USE DEF EntriesMoved
<1> DEFINE q == Append(s, k)
<1>1. k \in Parts /\ q \in Routes /\ Front(q) = s /\ q # <<>>
  BY AppendProperties, AppendParts DEF Routes, Parts
<1>2. /\ \A v : ~Ent(t, q, v)
      /\ ~IsPrefix(p, q)
      /\ \A x \in Routes : \A v : Ent(u, q \o x, v) <=> Ent(t, p \o x, v)
      /\ \A r \in Routes : ~IsPrefix(q, r) => \A v : Ent(u, r, v) <=> Ent(t, r, v) /\ ~IsPrefix(p, r)
  OBVIOUS
<1>3. q \in {Append(r, x) : r \in DOMAIN m, x \in Names}
  BY DEF IsMap
<1> HIDE DEF q
<1>4. /\ DOMAIN m \subseteq Routes /\ DOMAIN n \subseteq Routes
      /\ \A r \in Routes : \A v : Ent(t, r, v) <=> r \in DOMAIN m /\ m[r] = v
      /\ \A r \in Routes : \A v : Ent(u, r, v) <=> r \in DOMAIN n /\ n[r] = v
  BY DEF IsMap
<1>5. p \in DOMAIN m
  BY <1>4
<1>6. PM!CanRename(m, p, q)
  <2>1. s \in DOMAIN m /\ m[s] = Root /\ q \notin DOMAIN m
    BY <1>1, <1>2, <1>4, ZenonT(60)
  <2>2. PM!Free(m, q)
    BY <1>1, <2>1 DEF PM!Free, PM!Front, Front
  <2>. QED  BY <1>2, <2>2 DEF PM!CanRename, PM!IsPrefix, IsPrefix
\* Nothing was at q or below.
<1>7. \A r \in DOMAIN m : ~IsPrefix(q, r)
  <2>1. ASSUME NEW r \in DOMAIN m, IsPrefix(q, r)
        PROVE  FALSE
    <3>1. r \in Routes /\ Ent(t, r, m[r])
      BY <1>4
    <3>2. q # r
      BY <1>2, <3>1
    <3>3. \E c : Leads(t, q, c)
      BY <1>1, <2>1, <3>1, <3>2, EntryAbove
    <3>. QED  BY <1>2, <3>3 DEF Ent
  <2>. QED  BY <2>1
<1> DEFINE To(r)   == IF IsPrefix(p, r) THEN q \o Behind(p, r) ELSE r
           From(r) == IF IsPrefix(q, r) THEN p \o Behind(q, r) ELSE r
\* What is at r now was at From(r), and what was at r is at To(r).
<1>8. ASSUME NEW r \in DOMAIN n
      PROVE  From(r) \in DOMAIN m /\ n[r] = m[From(r)] /\ r = To(From(r))
  <2>1. r \in Routes /\ Ent(u, r, n[r])
    BY <1>4
  <2>2. CASE IsPrefix(q, r)
    <3> DEFINE x == Behind(q, r)
    <3>1. x \in Routes /\ r = q \o x /\ From(r) = p \o x
      BY <1>1, <2>1, <2>2, PrefixAndRest DEF Routes
    <3> HIDE DEF x, From
    <3>2. p \o x \in Routes /\ IsPrefix(p, p \o x) /\ Behind(p, p \o x) = x
      BY <3>1, BehindPrefix DEF Routes
    <3>3. Ent(t, p \o x, n[r])
      BY <1>2, <2>1, <3>1
    <3>4. p \o x \in DOMAIN m /\ m[p \o x] = n[r]
      BY <1>4, <3>2, <3>3
    <3>. QED  BY <3>1, <3>2, <3>4
  <2>3. CASE ~IsPrefix(q, r)
    BY <1>2, <1>4, <2>1, <2>3
  <2>. QED  BY <2>2, <2>3
<1>9. ASSUME NEW r \in DOMAIN m
      PROVE  To(r) \in DOMAIN n
  <2>1. r \in Routes /\ Ent(t, r, m[r])
    BY <1>4
  <2>2. CASE IsPrefix(p, r)
    <3> DEFINE x == Behind(p, r)
    <3>1. x \in Routes /\ r = p \o x /\ To(r) = q \o x
      BY <2>1, <2>2, PrefixAndRest DEF Routes
    <3> HIDE DEF x, To
    <3>2. q \o x \in Routes
      BY <1>1, <3>1, BehindPrefix DEF Routes
    <3>3. Ent(u, q \o x, m[r])
      BY <1>2, <2>1, <3>1
    <3>. QED  BY <1>4, <3>1, <3>2, <3>3
  <2>3. CASE ~IsPrefix(p, r)
    BY <1>2, <1>4, <1>7, <2>1, <2>3
  <2>. QED  BY <2>2, <2>3
<1>10. n = PM!Renamed(m, p, q)
  <2>1. n = [r \in DOMAIN n |-> n[r]]
    BY DEF IsMap
  <2> HIDE DEF To, From
  <2>2. DOMAIN n = {To(r) : r \in DOMAIN m}
    BY <1>8, <1>9
  <2>3. n = [r \in {To(r) : r \in DOMAIN m} |-> m[From(r)]]
    BY <1>8, <2>1, <2>2
  <2>. QED  BY <2>3 DEF PM!Renamed, PM!IsPrefix, IsPrefix, To, From, Behind
<1>. QED  BY <1>3, <1>5, <1>6, <1>10 DEF PM!Edit

-----------------------------------------------------------------------------
(***************************************************************************)
(* How the entries change with the slices.                                 *)
(***************************************************************************)
\* Directories that list the same are reached by the same paths.
LEMMA SameRoutes ==
  ASSUME NEW t, NEW u, NEW R, Root \in R,
         \A c \in R : \A n, d : Edge(u, c, n, d) <=> Edge(t, c, n, d),
         \A c \in R : \A n, d : Edge(t, c, n, d) => d \in R
  PROVE  \A p \in Routes : \A d : (Leads(u, p, d) <=> Leads(t, p, d)) /\ (Leads(t, p, d) => d \in R)
<1> DEFINE S == {p \in Routes : \A d : (Leads(u, p, d) <=> Leads(t, p, d)) /\ (Leads(t, p, d) => d \in R)}
<1>1. <<>> \in S
  BY LeadsRoot, EmptySeq DEF Routes
<1>2. ASSUME NEW p \in S, NEW n \in Parts
      PROVE  Append(p, n) \in S
  <2>1. Append(p, n) \in Routes
    BY AppendProperties DEF Routes
  <2>2. /\ \A d : Leads(u, Append(p, n), d) <=> \E c : Leads(u, p, c) /\ Edge(u, c, n, d)
        /\ \A d : Leads(t, Append(p, n), d) <=> \E c : Leads(t, p, c) /\ Edge(t, c, n, d)
    BY LeadsOn
  <2>. QED  BY <2>1, <2>2
<1>3. S \in SUBSET Seq(Parts)
  BY DEF Routes
<1> HIDE DEF S
<1>4. S = Routes
  BY <1>1, <1>2, <1>3, SequenceInduction DEF Routes
<1>. QED  BY <1>4 DEF S

\* What is left out when a tree is saved no path leads to.
LEMMA SavedEntries ==
  ASSUME NEW t, Sound(t), NEW p \in Routes
  PROVE  \A v : Ent(Saved(t), p, v) <=> Ent(t, p, v)
<1> DEFINE s == Saved(t)
           R == LiveIn(s)
<1>1. Sound(t) /\ R = Reachable(t) /\ R \subseteq LiveIn(t) /\ \A d \in R : s[d] = t[d]
  BY SavedTree
<1>2. Root \in R /\ \A c \in R : ToSet(t[c].dirs) \subseteq R
  BY <1>1, ReachFacts DEF HoldsRoot
<1> HIDE DEF s
<1>3. \A c \in R : \A i \in 1 .. Len(t[c].dirs) : t[c].dirs[i] \in R
  <2>1. ASSUME NEW c \in R, NEW i \in 1 .. Len(t[c].dirs)
        PROVE  t[c].dirs[i] \in ToSet(t[c].dirs)
    <3>1. Sound(t) /\ c \in LiveIn(t)
      BY <1>1
    <3>2. ToSet(t[c].dirs) = {t[c].dirs[j] : j \in 1 .. Len(t[c].dirs)}
      BY ONLY <3>1, ChildrenOf, ZenonT(30)
    <3>. QED  BY <3>2
  <2>. QED  BY <1>2, <2>1
<1>4. ASSUME NEW c \in R
      PROVE  /\ \A n, d : Edge(s, c, n, d) <=> Edge(t, c, n, d)
             /\ \A n, d : Edge(t, c, n, d) => d \in R
             /\ \A n, v : Held(s, c, n, v) <=> Held(t, c, n, v)
  <2>1. c \in LiveIn(t) /\ s[c] = t[c]
    BY <1>1
  <2>2. \A i \in 1 .. Len(t[c].dirs) : DirName(s, c, i) = DirName(t, c, i)
    BY <1>1, <1>3, <2>1 DEF DirName
  <2>3. \A i : FileName(s, c, i) = FileName(t, c, i)
    BY <2>1 DEF FileName
  <2>4. \A n, d : Edge(s, c, n, d) <=> Edge(t, c, n, d)
    BY <2>1, <2>2 DEF Edge
  <2>5. \A n, d : Edge(t, c, n, d) => d \in R
    BY <1>3 DEF Edge
  <2>6. \A n, v : Held(s, c, n, v) <=> Held(t, c, n, v)
    BY <2>1, <2>3 DEF Held
  <2>. QED  BY <2>4, <2>5, <2>6
<1> HIDE DEF R
<1>5. \A r \in Routes : \A d : (Leads(s, r, d) <=> Leads(t, r, d)) /\ (Leads(t, r, d) => d \in R)
  BY <1>2, <1>4, SameRoutes
<1>6. \A v : Filed(s, p, v) <=> Filed(t, p, v)
  BY <1>4, <1>5 DEF Filed
<1>. QED  BY <1>5, <1>6 DEF Ent, s

\* A file more in directory c, which p leads to.
LEMMA EntPut ==
  ASSUME NEW t, NEW u, Shape(t), NEW p \in Routes, NEW c, Leads(t, p, c), NEW k \in Parts, NEW e,
         PathsKept(t, u), FilePutIn(t, u, c, k, e)
  PROVE  EntryPut(t, u, Append(p, k), e)
<1> USE DEF PathsKept, FilePutIn, EntryPut
<1>1. \A r \in Routes : Leads(t, r, c) => r = p
  BY OneRoute
<1>2. \A r \in Routes : \A v : Filed(u, r, v) <=> Filed(t, r, v) \/ (r = Append(p, k) /\ v = e)
  BY <1>1 DEF Filed
<1>. QED  BY <1>2 DEF Ent

\* A file less.
LEMMA EntCut ==
  ASSUME NEW t, NEW u, Shape(t), NEW p \in Routes, NEW c, Leads(t, p, c), NEW k \in Parts, NEW e,
         Held(t, c, k, e),
         PathsKept(t, u), FileCutFrom(t, u, c, k)
  PROVE  EntryCut(t, u, Append(p, k))
<1> USE DEF PathsKept, FileCutFrom, EntryCut
<1> DEFINE q == Append(p, k)
<1>1. /\ q \in Routes /\ Filed(t, q, e)
      /\ \A r \in Routes, n \in Parts : Append(r, n) = q <=> r = p /\ n = k
  BY FiledOn, AppendProperties, AppendInjective DEF Routes
<1> HIDE DEF q
<1>2. \A d : ~Leads(t, q, d)
  BY <1>1, EntryIsOne
<1>3. /\ \A r \in Routes : Leads(t, r, c) => r = p
      /\ \A d : Leads(t, p, d) => c = d
  BY OneRoute
<1>4. ASSUME NEW r \in Routes, NEW n \in Parts, NEW v
      PROVE  Filed(u, Append(r, n), v) <=> Filed(t, Append(r, n), v) /\ Append(r, n) # q
  <2>1. /\ Filed(u, Append(r, n), v) <=> \E b : Leads(u, r, b) /\ Held(u, b, n, v)
        /\ Filed(t, Append(r, n), v) <=> \E b : Leads(t, r, b) /\ Held(t, b, n, v)
    BY FiledOn
  <2>2. \A b : Leads(t, r, b) => (b = c /\ n = k <=> Append(r, n) = q)
    BY <1>1, <1>3
  <2>. QED  BY <2>1, <2>2
<1>5. ASSUME NEW r \in Routes, NEW v
      PROVE  Filed(u, r, v) <=> Filed(t, r, v) /\ r # q
  <2>1. CASE \E s \in Routes, n \in Parts : r = Append(s, n)
    BY <1>4, <2>1
  <2>2. CASE ~\E s \in Routes, n \in Parts : r = Append(s, n)
    BY <2>2 DEF Filed
  <2>. QED  BY <2>1, <2>2
<1>. QED  BY <1>2, <1>5 DEF Ent, q

\* A new directory e, with nothing in it.
LEMMA EntDirPut ==
  ASSUME NEW t, NEW u, Shape(t), NEW p \in Routes, NEW c, Leads(t, p, c), NEW k \in Parts,
         NEW e, e \notin LiveIn(t), e # c,
         \A b, n, x : Edge(u, b, n, x) <=> Edge(t, b, n, x) \/ (b = c /\ n = k /\ x = e),
         \A b, n, v : Held(u, b, n, v) <=> Held(t, b, n, v)
  PROVE  EntryPut(t, u, Append(p, k), Root)
<1> USE DEF EntryPut
<1> DEFINE q == Append(p, k)
           S == {r \in Routes : \A x : Leads(u, r, x) <=> Leads(t, r, x) \/ (r = q /\ x = e)}
<1>1. q \in Routes /\ q # <<>> /\ \A r \in Routes, n \in Parts : Append(r, n) = q <=> r = p /\ n = k
  BY AppendProperties, AppendInjective DEF Routes
<1> HIDE DEF q
<1>2. \A r \in Routes : Leads(t, r, c) => r = p
  BY OneRoute
<1>3. (\A n, x : ~Edge(t, e, n, x)) /\ (\A n, v : ~Held(t, e, n, v))
  BY DEF Edge, Held
<1>4. S = Routes
  <2>1. <<>> \in S
    BY <1>1, LeadsRoot, EmptySeq DEF Routes
  <2>2. ASSUME NEW r \in S, NEW n \in Parts
        PROVE  Append(r, n) \in S
    <3>1. r \in Routes /\ Append(r, n) \in Routes
      BY AppendProperties DEF Routes
    <3>2. /\ \A x : Leads(u, Append(r, n), x) <=> \E b : Leads(u, r, b) /\ Edge(u, b, n, x)
          /\ \A x : Leads(t, Append(r, n), x) <=> \E b : Leads(t, r, b) /\ Edge(t, b, n, x)
      BY LeadsOn
    <3>3. \A b : Leads(u, r, b) <=> Leads(t, r, b) \/ (r = q /\ b = e)
      OBVIOUS
    <3> HIDE DEF S
    <3>4. ASSUME NEW x
          PROVE  Leads(u, Append(r, n), x) <=> Leads(t, Append(r, n), x) \/ (Append(r, n) = q /\ x = e)
      <4>1. ASSUME Leads(u, Append(r, n), x)
            PROVE  Leads(t, Append(r, n), x) \/ (Append(r, n) = q /\ x = e)
        <5>1. PICK b : Leads(u, r, b) /\ Edge(u, b, n, x)
          BY <3>2, <4>1
        <5>2. b # e
          BY <1>3, <5>1
        <5>3. Leads(t, r, b)
          BY <3>3, <5>1, <5>2
        <5>. QED  BY <1>1, <1>2, <3>1, <3>2, <5>1, <5>3 DEF S
      <4>2. ASSUME Leads(t, Append(r, n), x)
            PROVE  Leads(u, Append(r, n), x)
        BY <3>2, <3>3, <4>2
      <4>3. ASSUME Append(r, n) = q, x = e
            PROVE  Leads(u, Append(r, n), x)
        <5>1. r = p /\ n = k
          BY <1>1, <4>3 DEF S
        <5>. QED  BY <3>2, <3>3, <4>3, <5>1
      <4>. QED  BY <4>1, <4>2, <4>3
    <3>. QED  BY <3>1, <3>4 DEF S
  <2>3. S \in SUBSET Seq(Parts)
    BY DEF Routes
  <2> HIDE DEF S
  <2>. QED  BY <2>1, <2>2, <2>3, SequenceInduction DEF Routes
<1>5. \A r \in Routes : \A x : Leads(u, r, x) <=> Leads(t, r, x) \/ (r = q /\ x = e)
  BY <1>4
<1> HIDE DEF S
<1>6. \A r \in Routes : \A v : Filed(u, r, v) <=> Filed(t, r, v)
  BY <1>3, <1>5 DEF Filed
<1>. QED  BY <1>5, <1>6 DEF Ent, q

\* A directory e with nothing in it less.
LEMMA EntDirCut ==
  ASSUME NEW t, NEW u, Shape(t), NEW p \in Routes, NEW c, Leads(t, p, c), NEW k \in Parts,
         NEW e, Edge(t, c, k, e),
         \A n, x : ~Edge(t, e, n, x), \A n, v : ~Held(t, e, n, v),
         \A b, n, x : Edge(u, b, n, x) <=> Edge(t, b, n, x) /\ x # e,
         \A b, n, v : Held(u, b, n, v) <=> Held(t, b, n, v)
  PROVE  EntryCut(t, u, Append(p, k))
<1> USE DEF EntryCut
<1> DEFINE q == Append(p, k)
           S == {r \in Routes : \A x : Leads(u, r, x) <=> Leads(t, r, x) /\ x # e}
<1>1. q \in Routes /\ Leads(t, q, e)
  BY LeadsOn, AppendProperties DEF Routes
<1> HIDE DEF q
<1>2. e # Root
  BY EdgeFacts
<1>3. S = Routes
  <2>1. <<>> \in S
    BY <1>2, LeadsRoot, EmptySeq DEF Routes
  <2>2. ASSUME NEW r \in S, NEW n \in Parts
        PROVE  Append(r, n) \in S
    <3>1. r \in Routes /\ Append(r, n) \in Routes
      BY AppendProperties DEF Routes
    <3>2. /\ \A x : Leads(u, Append(r, n), x) <=> \E b : Leads(u, r, b) /\ Edge(u, b, n, x)
          /\ \A x : Leads(t, Append(r, n), x) <=> \E b : Leads(t, r, b) /\ Edge(t, b, n, x)
      <4> HIDE DEF S
      <4>1. \A x : Leads(u, Append(r, n), x) <=> \E b : Leads(u, r, b) /\ Edge(u, b, n, x)
        BY <3>1, LeadsOn
      <4>2. \A x : Leads(t, Append(r, n), x) <=> \E b : Leads(t, r, b) /\ Edge(t, b, n, x)
        BY <3>1, LeadsOn
      <4>. QED  BY <4>1, <4>2
    <3>. QED  BY <3>1, <3>2
  <2>3. S \in SUBSET Seq(Parts)
    BY DEF Routes
  <2> HIDE DEF S
  <2>. QED  BY <2>1, <2>2, <2>3, SequenceInduction DEF Routes
<1>4. \A r \in Routes : \A x : Leads(u, r, x) <=> Leads(t, r, x) /\ x # e
  BY <1>3
<1> HIDE DEF S
<1>5. \A r \in Routes : \A v : Filed(u, r, v) <=> Filed(t, r, v)
  BY <1>4 DEF Filed
<1>6. (\A x : Leads(t, q, x) => x = e) /\ (\A r \in Routes : Leads(t, r, e) => r = q)
  BY <1>1, OneRoute
<1>7. \A v : ~Filed(t, q, v)
  BY <1>1, EntryIsOne
<1>8. \A r \in Routes : (\E x : Leads(u, r, x)) <=> (\E x : Leads(t, r, x)) /\ r # q
  BY <1>4, <1>6
<1>. QED  BY <1>5, <1>7, <1>8 DEF Ent, q

LEMMA RouteFacts ==
  /\ \A p, r \in Routes, n \in Parts : IsPrefix(p, Append(r, n)) <=> p = Append(r, n) \/ IsPrefix(p, r)
  /\ \A p, r \in Routes : p \o r \in Routes /\ IsPrefix(p, p \o r)
<1>1. ASSUME NEW p \in Routes, NEW r \in Routes, NEW n \in Parts
      PROVE  IsPrefix(p, Append(r, n)) <=> p = Append(r, n) \/ IsPrefix(p, r)
  BY PrefixOfAppend DEF Routes
<1>2. ASSUME NEW p \in Routes, NEW r \in Routes
      PROVE  p \o r \in Routes /\ IsPrefix(p, p \o r)
  BY BehindPrefix DEF Routes
<1>. QED  BY <1>1, <1>2

\* u is t with directory d, listed by from as old, listed by to as new.
Moved(t, u, d, to, new) ==
  /\ \A b, n, x : Edge(u, b, n, x) <=> (Edge(t, b, n, x) /\ x # d) \/ (b = to /\ n = new /\ x = d)
  /\ \A b, n, v : Held(u, b, n, v) <=> Held(t, b, n, v)

\* What the paths outside its new place lead to, and those from there on.
LEMMA MovedRoutes ==
  ASSUME NEW t, NEW u, Shape(t),
         NEW p \in Routes, NEW old \in Parts, NEW from, Leads(t, p, from),
         NEW d, Edge(t, from, old, d),
         NEW q \in Routes, NEW new \in Parts, NEW to, Leads(t, q, to),
         \A x : ~Edge(t, to, new, x),
         ~IsPrefix(Append(p, old), Append(q, new)), Moved(t, u, d, to, new)
  PROVE  /\ \A r \in Routes : ~IsPrefix(Append(q, new), r) =>
              \A x : Leads(u, r, x) <=> Leads(t, r, x) /\ ~IsPrefix(Append(p, old), r)
         /\ \A r \in Routes : \A x : Leads(u, Append(q, new) \o r, x) <=> Leads(t, Append(p, old) \o r, x)
<1> DEFINE P == Append(p, old)
           Q == Append(q, new)
<1>1. /\ P \in Routes /\ Q \in Routes /\ P # <<>> /\ Q # <<>>
      /\ \A r \in Routes, n \in Parts : Append(r, n) = Q <=> r = q /\ n = new
      /\ \A r \in Routes, n \in Parts : Append(r, n) \in Routes
  BY AppendProperties, AppendInjective DEF Routes
<1>2. /\ ~IsPrefix(P, Q) /\ ~IsPrefix(Q, <<>>) /\ ~IsPrefix(P, <<>>)
      /\ ~IsPrefix(P, p) /\ ~IsPrefix(Q, q)
  BY <1>1, PrefixTooLong DEF Routes
<1>3. ~IsPrefix(P, q)
  BY <1>1, <1>2, PrefixOfAppend DEF Routes
<1>4. Leads(t, P, d)
  BY LeadsOn
<1>5. \A r \in Routes, n \in Parts : /\ IsPrefix(P, Append(r, n)) <=> P = Append(r, n) \/ IsPrefix(P, r)
                                     /\ IsPrefix(Q, Append(r, n)) <=> Q = Append(r, n) \/ IsPrefix(Q, r)
  <2> HIDE DEF P, Q
  <2>. QED  BY <1>1, RouteFacts, Zenon
<1>6. /\ \A r \in Routes : \A b, c : Leads(t, r, b) /\ Leads(t, r, c) => b = c
      /\ \A r, s \in Routes : \A b : Leads(t, r, b) /\ Leads(t, s, b) => r = s
  BY OneRoute
<1>7. \A b, n : Edge(t, b, n, d) => b = from /\ n = old
  BY EdgeFacts
<1>8. \A b, n, x : Edge(u, b, n, x) <=> (Edge(t, b, n, x) /\ x # d) \/ (b = to /\ n = new /\ x = d)
  BY DEF Moved
<1>9. \A x : Leads(u, Q, x) <=> \E b : Leads(u, q, b) /\ Edge(u, b, new, x)
  BY LeadsOn
<1> HIDE DEF P, Q
<1>10. ASSUME NEW r \in Routes, NEW n \in Parts
       PROVE  /\ \A x : Leads(u, Append(r, n), x) <=> \E b : Leads(u, r, b) /\ Edge(u, b, n, x)
              /\ \A x : Leads(t, Append(r, n), x) <=> \E b : Leads(t, r, b) /\ Edge(t, b, n, x)
  BY LeadsOn
<1> DEFINE S == {r \in Routes : ~IsPrefix(Q, r) =>
                   \A x : Leads(u, r, x) <=> Leads(t, r, x) /\ ~IsPrefix(P, r)}
           T == {r \in Routes : \A x : Leads(u, Q \o r, x) <=> Leads(t, P \o r, x)}
<1>11. S = Routes
  <2>1. <<>> \in S
    BY <1>2, LeadsRoot, EmptySeq DEF Routes
  <2>2. ASSUME NEW r \in S, NEW n \in Parts
        PROVE  Append(r, n) \in S
    <3>1. r \in Routes /\ Append(r, n) \in Routes
      BY <1>1
    <3>2. ~IsPrefix(Q, r) => \A x : Leads(u, r, x) <=> Leads(t, r, x) /\ ~IsPrefix(P, r)
      OBVIOUS
    <3> HIDE DEF S
    <3>3. ASSUME ~IsPrefix(Q, Append(r, n)), NEW x
          PROVE  Leads(u, Append(r, n), x) <=> Leads(t, Append(r, n), x) /\ ~IsPrefix(P, Append(r, n))
      <4>1. Append(r, n) # Q /\ ~IsPrefix(Q, r)
        BY <1>5, <3>1, <3>3
      <4>2. ASSUME Leads(u, Append(r, n), x)
            PROVE  Leads(t, Append(r, n), x) /\ ~IsPrefix(P, Append(r, n))
        <5>1. PICK b : Leads(u, r, b) /\ Edge(u, b, n, x)
          BY <1>10, <3>1, <4>2
        <5>2. Leads(t, r, b) /\ ~IsPrefix(P, r)
          BY <3>2, <4>1, <5>1
        <5>3. ~(b = to /\ n = new)
          BY <1>1, <1>6, <3>1, <4>1, <5>2
        <5>4. Edge(t, b, n, x) /\ x # d
          BY <1>8, <5>1, <5>3
        <5>5. Leads(t, Append(r, n), x)
          BY <1>10, <3>1, <5>2, <5>4
        <5>6. P # Append(r, n)
          BY <1>4, <1>6, <3>1, <5>4, <5>5
        <5>. QED  BY <1>5, <3>1, <5>2, <5>5, <5>6
      <4>3. ASSUME Leads(t, Append(r, n), x), ~IsPrefix(P, Append(r, n))
            PROVE  Leads(u, Append(r, n), x)
        <5>1. PICK b : Leads(t, r, b) /\ Edge(t, b, n, x)
          BY <1>10, <3>1, <4>3
        <5>2. P # Append(r, n) /\ ~IsPrefix(P, r)
          BY <1>5, <3>1, <4>3
        <5>3. x # d
          <6>1. Leads(t, Append(r, n), d) => P = Append(r, n)
            BY <1>1, <1>4, <1>6, <3>1
          <6>. QED  BY <4>3, <5>2, <6>1
        <5>4. Leads(u, r, b) /\ Edge(u, b, n, x)
          BY <1>8, <3>2, <4>1, <5>1, <5>2, <5>3
        <5>. QED  BY <1>10, <3>1, <5>4
      <4>. QED  BY <4>2, <4>3
    <3>. QED  BY <3>1, <3>3 DEF S
  <2>3. S \in SUBSET Seq(Parts)
    BY DEF Routes
  <2> HIDE DEF S
  <2>. QED  BY <2>1, <2>2, <2>3, SequenceInduction DEF Routes
<1>12. \A r \in Routes : ~IsPrefix(Q, r) => \A x : Leads(u, r, x) <=> Leads(t, r, x) /\ ~IsPrefix(P, r)
  BY <1>11
<1> HIDE DEF S
<1>13. T = Routes
  <2>1. <<>> \in T
    <3>1. Q \o <<>> = Q /\ P \o <<>> = P /\ <<>> \in Routes
      BY <1>1, ConcatEmptySeq, EmptySeq DEF Routes
    <3>2. \A b : Leads(u, q, b) <=> b = to
      BY <1>2, <1>3, <1>6, <1>12
    <3>3. \A x : Edge(u, to, new, x) <=> x = d
      BY <1>8
    <3>4. \A x : Leads(u, Q, x) <=> x = d
      BY <1>9, <3>2, <3>3
    <3>5. \A x : Leads(t, P, x) <=> x = d
      BY <1>1, <1>4, <1>6
    <3>. QED  BY <3>1, <3>4, <3>5
  <2>2. ASSUME NEW r \in T, NEW n \in Parts
        PROVE  Append(r, n) \in T
    <3>1. r \in Routes /\ Append(r, n) \in Routes
      BY <1>1
    <3>2. \A x : Leads(u, Q \o r, x) <=> Leads(t, P \o r, x)
      OBVIOUS
    <3> HIDE DEF T
    <3> DEFINE y == Q \o r
               z == P \o r
    <3>3. /\ y \in Routes /\ z \in Routes /\ IsPrefix(P, z)
          /\ Q \o Append(r, n) = Append(y, n) /\ P \o Append(r, n) = Append(z, n)
      <4>1. Q \o r \in Routes /\ P \o r \in Routes /\ IsPrefix(P, P \o r)
        BY <1>1, <3>1, RouteFacts, Zenon
      <4>2. Q \o Append(r, n) = Append(Q \o r, n)
        BY <1>1, <3>1, AppendBelow DEF Routes
      <4>3. P \o Append(r, n) = Append(P \o r, n)
        BY <1>1, <3>1, AppendBelow DEF Routes
      <4>. QED  BY <4>1, <4>2, <4>3
    <3>4. \A x : Leads(u, y, x) <=> Leads(t, z, x)
      BY <3>2
    <3> HIDE DEF y, z
    <3>5. ASSUME NEW b, NEW x, Leads(t, z, b)
          PROVE  Edge(u, b, n, x) <=> Edge(t, b, n, x)
      <4>1. z # q /\ z # p
        BY <1>2, <1>3, <3>3
      <4>2. b # to /\ b # from
        BY <1>6, <3>3, <3>5, <4>1
      <4>. QED  BY <1>7, <1>8, <4>2
    <3>6. \A x : Leads(u, Append(y, n), x) <=> Leads(t, Append(z, n), x)
      BY <1>10, <3>3, <3>4, <3>5
    <3>. QED  BY <3>1, <3>3, <3>6 DEF T
  <2>3. T \in SUBSET Seq(Parts)
    BY DEF Routes
  <2> HIDE DEF T
  <2>. QED  BY <2>1, <2>2, <2>3, SequenceInduction DEF Routes
<1>14. \A r \in Routes : \A x : Leads(u, Q \o r, x) <=> Leads(t, P \o r, x)
  BY <1>13
<1>. QED  BY <1>12, <1>14 DEF P, Q

LEMMA EntDirMove ==
  ASSUME NEW t, NEW u, Shape(t),
         NEW p \in Routes, NEW old \in Parts, NEW from, Leads(t, p, from),
         NEW d, Edge(t, from, old, d),
         NEW q \in Routes, NEW new \in Parts, NEW to, Leads(t, q, to),
         \A x : ~Edge(t, to, new, x), \A v : ~Held(t, to, new, v),
         ~IsPrefix(Append(p, old), Append(q, new)), Moved(t, u, d, to, new)
  PROVE  EntriesMoved(t, u, Append(p, old), Append(q, new))
<1> USE DEF EntriesMoved
<1> DEFINE P == Append(p, old)
           Q == Append(q, new)
<1>1. /\ P \in Routes /\ Q \in Routes /\ P # <<>> /\ Q # <<>>
      /\ \A r \in Routes, n \in Parts : Append(r, n) \in Routes
  BY AppendProperties DEF Routes
<1>2. ~IsPrefix(P, Q) /\ ~IsPrefix(Q, q)
  BY <1>1, PrefixTooLong DEF Routes
<1>3. \A r \in Routes, n \in Parts : /\ IsPrefix(P, Append(r, n)) <=> P = Append(r, n) \/ IsPrefix(P, r)
                                     /\ IsPrefix(Q, Append(r, n)) <=> Q = Append(r, n) \/ IsPrefix(Q, r)
  <2> HIDE DEF P, Q
  <2>. QED  BY <1>1, RouteFacts, Zenon
<1>4. /\ \A r \in Routes : ~IsPrefix(Q, r) => \A x : Leads(u, r, x) <=> Leads(t, r, x) /\ ~IsPrefix(P, r)
      /\ \A r \in Routes : \A x : Leads(u, Q \o r, x) <=> Leads(t, P \o r, x)
  BY MovedRoutes
<1>5. Leads(t, P, d)
  BY LeadsOn
<1>6. \A v : Filed(u, Q, v) <=> \E c : Leads(u, q, c) /\ Held(u, c, new, v)
  BY FiledOn
<1> HIDE DEF P, Q
<1>7. \A v : ~Filed(t, P, v)
  BY <1>1, <1>5, EntryIsOne
<1>8. \A b, n, v : Held(u, b, n, v) <=> Held(t, b, n, v)
  BY DEF Moved
<1>9. ASSUME NEW r \in Routes, NEW n \in Parts
      PROVE  /\ \A v : Filed(u, Append(r, n), v) <=> \E c : Leads(u, r, c) /\ Held(u, c, n, v)
             /\ \A v : Filed(t, Append(r, n), v) <=> \E c : Leads(t, r, c) /\ Held(t, c, n, v)
  BY FiledOn
<1>10. \A r \in Routes : r # <<>> => \E s \in Routes, n \in Parts : r = Append(s, n)
  BY SequenceEmptyOrAppend DEF Routes
<1>11. \A v : ~Filed(t, <<>>, v) /\ ~Filed(u, <<>>, v)
  <2>1. \A s \in Routes, n \in Parts : Append(s, n) # <<>>
    BY AppendProperties DEF Routes
  <2>. QED  BY <2>1 DEF Filed
<1>12. ASSUME NEW r \in Routes, ~IsPrefix(Q, r), NEW v
       PROVE  Filed(u, r, v) <=> Filed(t, r, v) /\ ~IsPrefix(P, r)
  <2>1. CASE r = <<>>
    BY <1>11, <2>1
  <2>2. CASE r # <<>>
    <3>1. PICK s \in Routes, n \in Parts : r = Append(s, n)
      BY <1>10, <2>2
    <3>2. ~IsPrefix(Q, s) /\ (IsPrefix(P, r) <=> P = r \/ IsPrefix(P, s))
      BY <1>3, <1>12, <3>1
    <3>3. Filed(u, r, v) <=> ~IsPrefix(P, s) /\ Filed(t, r, v)
      BY <1>4, <1>8, <1>9, <3>1, <3>2
    <3>. QED  BY <1>7, <3>2, <3>3
  <2>. QED  BY <2>1, <2>2
<1>13. ASSUME NEW r \in Routes, NEW v
       PROVE  Filed(u, Q \o r, v) <=> Filed(t, P \o r, v)
  <2>1. CASE r = <<>>
    <3>1. Q \o r = Q /\ P \o r = P
      BY <1>1, <2>1, ConcatEmptySeq DEF Routes
    <3>2. \A c : Leads(u, q, c) => c = to
      BY <1>2, <1>4, OneRoute
    <3>3. ~Filed(u, Q, v)
      BY <1>6, <1>8, <3>2
    <3>. QED  BY <1>7, <3>1, <3>3
  <2>2. CASE r # <<>>
    <3>1. PICK s \in Routes, n \in Parts : r = Append(s, n)
      BY <1>10, <2>2
    <3> DEFINE y == Q \o s
               z == P \o s
    <3>2. y \in Routes /\ z \in Routes /\ Q \o r = Append(y, n) /\ P \o r = Append(z, n)
      <4>1. Q \o s \in Routes /\ P \o s \in Routes
        BY <1>1, RouteFacts, Zenon
      <4>2. Q \o Append(s, n) = Append(Q \o s, n)
        BY <1>1, <3>1, AppendBelow DEF Routes
      <4>3. P \o Append(s, n) = Append(P \o s, n)
        BY <1>1, <3>1, AppendBelow DEF Routes
      <4>. QED  BY <3>1, <4>1, <4>2, <4>3
    <3>3. \A x : Leads(u, y, x) <=> Leads(t, z, x)
      BY <1>4
    <3> HIDE DEF y, z
    <3>4. Filed(u, Append(y, n), v) <=> Filed(t, Append(z, n), v)
      BY <1>8, <1>9, <3>2, <3>3
    <3>. QED  BY <3>2, <3>4
  <2>. QED  BY <2>1, <2>2
<1>14. \A r \in Routes : ~IsPrefix(Q, r) => \A v : Ent(u, r, v) <=> Ent(t, r, v) /\ ~IsPrefix(P, r)
  BY <1>4, <1>12 DEF Ent
<1>15. \A r \in Routes : \A v : Ent(u, Q \o r, v) <=> Ent(t, P \o r, v)
  BY <1>4, <1>13 DEF Ent
<1>. QED  BY <1>14, <1>15 DEF P, Q

-----------------------------------------------------------------------------
(***************************************************************************)
(* What the edits of a slice do to what a directory lists.                 *)
(***************************************************************************)
\* Every place but i is kept.
LEMMA SkipBack ==
  ASSUME NEW n \in Nat, NEW i \in 1 .. n, NEW j \in 1 .. n, i # j
  PROVE  \E k \in 1 .. n - 1 : Skip(i, k) = j
<1>1. CASE j < i
  <2>1. j \in 1 .. n - 1
    BY <1>1
  <2>. QED  BY <1>1, <2>1 DEF Skip
<1>2. CASE ~(j < i)
  <2> DEFINE k == j - 1
  <2>1. k \in 1 .. n - 1 /\ ~(k < i) /\ k + 1 = j
    BY <1>2
  <2> HIDE DEF k
  <2>. QED  BY <2>1 DEF Skip
<1>. QED  BY <1>1, <1>2

LEMMA RefiledRoutes ==
  ASSUME NEW t, Shape(t), NEW c \in LiveIn(t), NEW fs, NEW u, Refiled(t, c, fs, u)
  PROVE  /\ PathsKept(t, u)
         /\ \A b, n, v : b # c => (Held(u, b, n, v) <=> Held(t, b, n, v))
         /\ \A n, v : Held(u, c, n, v) <=> \E i \in 1 .. Len(fs) : fs[i].name = n /\ fs[i].uid = v
<1>1. Sound(t) /\ LiveIn(u) = LiveIn(t) /\ Root \in LiveIn(t)
  BY DEF Shape, Refiled, Sound, HoldsRoot
<1>2. \A b \in LiveIn(t) : \A i \in 1 .. Len(t[b].dirs) : DirName(u, b, i) = DirName(t, b, i)
  <2>1. ASSUME NEW b \in LiveIn(t), NEW i \in 1 .. Len(t[b].dirs)
        PROVE  DirName(u, b, i) = DirName(t, b, i)
    <3>1. t[b].dirs[i] \in LiveIn(t)
      BY <1>1, ChildrenOf
    <3>. QED  BY <3>1 DEF DirName, Refiled
  <2>. QED  BY <2>1
<1>3. \A b, n, d : Edge(u, b, n, d) <=> Edge(t, b, n, d)
  BY <1>1, <1>2 DEF Edge, Refiled
<1>4. \A b, n, d : Edge(t, b, n, d) => d \in LiveIn(t)
  BY EdgeFacts
<1>5. \A r \in Routes : \A d : Leads(u, r, d) <=> Leads(t, r, d)
  <2> DEFINE R == LiveIn(t)
  <2>1. Root \in R /\ \A b \in R : \A n, d : Edge(t, b, n, d) => d \in R
    BY <1>1, <1>4
  <2> HIDE DEF R
  <2>. QED  BY <1>3, <2>1, SameRoutes
<1>6. \A b, n, v : b # c => (Held(u, b, n, v) <=> Held(t, b, n, v))
  BY <1>1 DEF Held, Refiled, FileName
<1>7. \A n, v : Held(u, c, n, v) <=> \E i \in 1 .. Len(fs) : fs[i].name = n /\ fs[i].uid = v
  BY <1>1 DEF Held, Refiled, FileName
<1>. QED  BY <1>5, <1>6, <1>7 DEF PathsKept

LEMMA HeldMore ==
  ASSUME NEW t, Shape(t), NEW c \in LiveIn(t), NEW f \in Files, NEW u,
         Refiled(t, c, Append(t[c].files, f), u)
  PROVE  FilePutIn(t, u, c, f.name, f.uid)
<1> USE DEF FilePutIn
<1> DEFINE s  == t[c].files
           fs == Append(s, f)
           m  == Len(s)
<1>1. s \in Seq(Files) /\ m \in Nat /\ m = Len(s)
  BY ChildrenOf DEF Shape
<1>2. Len(fs) = m + 1 /\ (\A j \in 1 .. m : fs[j] = s[j]) /\ fs[m + 1] = f
  BY <1>1
<1>3. \A n, v : Held(t, c, n, v) <=> \E i \in 1 .. m : s[i].name = n /\ s[i].uid = v
  BY DEF Held, FileName
<1> HIDE DEF fs, m
<1>4. /\ \A b, n, v : b # c => (Held(u, b, n, v) <=> Held(t, b, n, v))
      /\ \A n, v : Held(u, c, n, v) <=> \E i \in 1 .. Len(fs) : fs[i].name = n /\ fs[i].uid = v
  <2>1. Refiled(t, c, fs, u)
    BY DEF fs
  <2>. QED  BY <2>1, RefiledRoutes
<1>5. \A n, v : (\E i \in 1 .. Len(fs) : fs[i].name = n /\ fs[i].uid = v)
                  <=> (\E i \in 1 .. m : s[i].name = n /\ s[i].uid = v) \/ (n = f.name /\ v = f.uid)
  <2>1. (\A j \in 1 .. m + 1 : j \in 1 .. m \/ j = m + 1) /\ m + 1 \in 1 .. m + 1
        /\ \A j \in 1 .. m : j \in 1 .. m + 1
    BY <1>1
  <2>. QED  BY <1>2, <2>1
<1>6. \A n, v : Held(u, c, n, v) <=> Held(t, c, n, v) \/ (n = f.name /\ v = f.uid)
  <2> SUFFICES ASSUME NEW n, NEW v
               PROVE  Held(u, c, n, v) <=> Held(t, c, n, v) \/ (n = f.name /\ v = f.uid)
    OBVIOUS
  <2>1. Held(u, c, n, v) <=> \E i \in 1 .. Len(fs) : fs[i].name = n /\ fs[i].uid = v
    BY <1>4
  <2>2. Held(t, c, n, v) <=> \E i \in 1 .. m : s[i].name = n /\ s[i].uid = v
    BY <1>3
  <2>3. (\E i \in 1 .. Len(fs) : fs[i].name = n /\ fs[i].uid = v)
          <=> (\E i \in 1 .. m : s[i].name = n /\ s[i].uid = v) \/ (n = f.name /\ v = f.uid)
    BY <1>5, ZenonT(60)
  <2>. QED  BY ONLY <2>1, <2>2, <2>3
<1>. QED  BY <1>4, <1>6

LEMMA HeldLess ==
  ASSUME NEW t, Shape(t), NEW c \in LiveIn(t), NEW i \in 1 .. Len(t[c].files), NEW u,
         Refiled(t, c, RemoveAt(t[c].files, i), u)
  PROVE  FileCutFrom(t, u, c, FileName(t, c, i))
<1> USE DEF FileCutFrom
<1> DEFINE s  == t[c].files
           fs == RemoveAt(s, i)
           m  == Len(s)
<1>1. s \in Seq(Files) /\ m \in Nat /\ m = Len(s) /\ i \in 1 .. m
  BY ChildrenOf DEF Shape
<1>2. /\ Len(fs) = m - 1
      /\ \A j \in 1 .. m - 1 : Skip(i, j) \in 1 .. m /\ fs[j] = s[Skip(i, j)]
  BY <1>1, Removed
<1>3. /\ \A n, v : Held(t, c, n, v) <=> \E j \in 1 .. m : s[j].name = n /\ s[j].uid = v
      /\ \A j, k \in 1 .. m : s[j].name = s[k].name => j = k
      /\ FileName(t, c, i) = s[i].name
  BY DEF Held, FileName, Shape, Distinct
<1> HIDE DEF fs, m
<1>4. /\ \A b, n, v : b # c => (Held(u, b, n, v) <=> Held(t, b, n, v))
      /\ \A n, v : Held(u, c, n, v) <=> \E j \in 1 .. Len(fs) : fs[j].name = n /\ fs[j].uid = v
  <2>1. Refiled(t, c, fs, u)
    BY DEF fs
  <2>. QED  BY <2>1, RefiledRoutes
<1>5. \A j \in 1 .. m - 1 : Skip(i, j) \in 1 .. m /\ fs[j] = s[Skip(i, j)] /\ Skip(i, j) # i
  <2>1. \A j \in 1 .. m - 1 : j \in Nat
    BY <1>1
  <2>2. i \in Nat
    BY <1>1
  <2>. QED  BY <1>2, <2>1, <2>2, SkipIsInjective
<1>6. \A j \in 1 .. m : j # i => \E k \in 1 .. m - 1 : fs[k] = s[j]
  <2>1. ASSUME NEW j \in 1 .. m, j # i
        PROVE  \E k \in 1 .. m - 1 : fs[k] = s[j]
    <3>1. m \in Nat /\ i \in 1 .. m /\ j \in 1 .. m /\ i # j
      BY <1>1, <2>1
    <3>2. PICK k \in 1 .. m - 1 : Skip(i, k) = j
      BY ONLY <3>1, SkipBack, Zenon
    <3>. QED  BY <1>2, <3>2
  <2>. QED  BY <2>1
<1>7. ASSUME NEW n, NEW v
      PROVE  (\E j \in 1 .. m - 1 : fs[j].name = n /\ fs[j].uid = v)
               <=> (\E j \in 1 .. m : s[j].name = n /\ s[j].uid = v) /\ n # s[i].name
  <2>1. ASSUME NEW j \in 1 .. m - 1, fs[j].name = n, fs[j].uid = v
        PROVE  (\E k \in 1 .. m : s[k].name = n /\ s[k].uid = v) /\ n # s[i].name
    <3> DEFINE k == Skip(i, j)
    <3>1. k \in 1 .. m /\ k # i /\ fs[j] = s[k]
      BY <1>5
    <3> HIDE DEF k
    <3>. QED  BY <1>1, <1>3, <2>1, <3>1
  <2>2. ASSUME NEW j \in 1 .. m, s[j].name = n, s[j].uid = v, n # s[i].name
        PROVE  \E k \in 1 .. m - 1 : fs[k].name = n /\ fs[k].uid = v
    BY <1>6, <2>2
  <2>. QED  BY <2>1, <2>2
<1>8. \A n, v : Held(u, c, n, v) <=> Held(t, c, n, v) /\ n # FileName(t, c, i)
  BY <1>2, <1>3, <1>4, <1>7
<1>. QED  BY <1>4, <1>8

\* The files of two trees are the same.
LEMMA HeldSame ==
  ASSUME NEW t, NEW u, LiveIn(u) = LiveIn(t), \A b \in LiveIn(t) : u[b].files = t[b].files
  PROVE  \A b, n, v : Held(u, b, n, v) <=> Held(t, b, n, v)
BY DEF Held, FileName

LEMMA EdgeLess ==
  ASSUME NEW t, Shape(t), NEW c \in LiveIn(t), NEW i \in 1 .. Len(t[c].dirs), NEW u,
         Without(t, c, i, u), \A b \in LiveIn(t) : b # t[c].dirs[i] => u[b].name = t[b].name
  PROVE  \A b, n, x : Edge(u, b, n, x) <=> Edge(t, b, n, x) /\ x # t[c].dirs[i]
<1> DEFINE e == t[c].dirs[i]
           m == Len(t[c].dirs)
<1>1. /\ Sound(t) /\ Once(t) /\ LiveIn(u) = LiveIn(t)
      /\ u[c].dirs = RemoveAt(t[c].dirs, i)
      /\ \A b \in LiveIn(t) : b # c => u[b].dirs = t[b].dirs
      /\ \A b \in LiveIn(t) : b # e => u[b].name = t[b].name
  BY DEF Shape, Without
<1>2. /\ \A b \in LiveIn(u) : \A j \in 1 .. Len(u[b].dirs) : u[b].dirs[j] # e
      /\ Sound(u)
  BY <1>1, WithoutShape
<1>3. \A b \in LiveIn(t) : \A j \in 1 .. Len(u[b].dirs) :
        /\ Before(c, i, b, j) \in 1 .. Len(t[b].dirs)
        /\ u[b].dirs[j] = t[b].dirs[Before(c, i, b, j)]
  BY <1>1, WithoutPlaces
<1>4. t[c].dirs \in Seq(Dirs) /\ m \in Nat /\ m = Len(t[c].dirs) /\ i \in 1 .. m
  BY <1>1, ChildrenOf
<1>5. /\ Len(u[c].dirs) = m - 1
      /\ \A j \in 1 .. m - 1 : u[c].dirs[j] = t[c].dirs[Skip(i, j)]
  <2> DEFINE s == t[c].dirs
  <2>1. s \in Seq(Dirs) /\ i \in 1 .. Len(s) /\ m = Len(s) /\ u[c].dirs = RemoveAt(s, i)
    BY <1>1, <1>4
  <2> HIDE DEF s, m
  <2>2. Len(RemoveAt(s, i)) = m - 1 /\ \A j \in 1 .. m - 1 : RemoveAt(s, i)[j] = s[Skip(i, j)]
    BY <2>1, Removed
  <2>. QED  BY <2>1, <2>2 DEF s
<1> HIDE DEF m
<1>6. ASSUME NEW b, NEW n, NEW x, Edge(u, b, n, x)
      PROVE  Edge(t, b, n, x) /\ x # e
  <2>1. b \in LiveIn(t)
    BY <1>1, <1>6 DEF Edge
  <2>2. PICK j \in 1 .. Len(u[b].dirs) : u[b].dirs[j] = x /\ DirName(u, b, j) = n
    BY <1>6 DEF Edge
  <2>3. x # e /\ x \in LiveIn(t)
    BY <1>1, <1>2, <2>1, <2>2, ChildrenOf
  <2> DEFINE k == Before(c, i, b, j)
  <2>4. k \in 1 .. Len(t[b].dirs) /\ t[b].dirs[k] = x
    BY <1>3, <2>1, <2>2
  <2> HIDE DEF e, k
  <2>5. DirName(t, b, k) = n
    BY <1>1, <2>2, <2>3, <2>4 DEF DirName
  <2>. QED  BY <2>1, <2>3, <2>4, <2>5 DEF Edge
<1>7. ASSUME NEW b, NEW n, NEW x, Edge(t, b, n, x), x # e
      PROVE  Edge(u, b, n, x)
  <2>1. b \in LiveIn(t) /\ b \in LiveIn(u) /\ x \in LiveIn(t)
    BY <1>1, <1>7, EdgeFacts
  <2>2. PICK j \in 1 .. Len(t[b].dirs) : t[b].dirs[j] = x /\ DirName(t, b, j) = n
    BY <1>7 DEF Edge
  <2>3. \E k \in 1 .. Len(u[b].dirs) : u[b].dirs[k] = x
    <3>1. CASE b = c
      <4>1. m \in Nat /\ i \in 1 .. m /\ j \in 1 .. m /\ i # j
        BY <1>4, <1>7, <2>2, <3>1
      <4>2. PICK k \in 1 .. m - 1 : Skip(i, k) = j
        BY ONLY <4>1, SkipBack, Zenon
      <4>. QED  BY <1>5, <2>2, <3>1, <4>2
    <3>2. CASE b # c
      BY <1>1, <2>1, <2>2, <3>2
    <3>. QED  BY <3>1, <3>2
  <2>4. PICK k \in 1 .. Len(u[b].dirs) : u[b].dirs[k] = x
    BY <2>3
  <2> HIDE DEF e
  <2>5. DirName(u, b, k) = n
    BY <1>1, <1>7, <2>1, <2>2, <2>4 DEF DirName
  <2>. QED  BY <2>1, <2>4, <2>5 DEF Edge
<1>. QED  BY <1>6, <1>7

LEMMA EdgeMore ==
  ASSUME NEW t, Sound(t), NEW c \in LiveIn(t), NEW e, NEW u, With(t, c, e, u),
         \A b \in LiveIn(t) : u[b].name = t[b].name, e \in LiveIn(t)
  PROVE  \A b, n, x : Edge(u, b, n, x) <=> Edge(t, b, n, x) \/ (b = c /\ n = t[e].name /\ x = e)
<1> DEFINE m == Len(t[c].dirs)
<1>1. /\ LiveIn(u) = LiveIn(t)
      /\ u[c].dirs = Append(t[c].dirs, e)
      /\ \A b \in LiveIn(t) : b # c => u[b].dirs = t[b].dirs
      /\ \A b \in LiveIn(t) : u[b].name = t[b].name
  BY DEF With
<1>2. t[c].dirs \in Seq(Dirs) /\ m \in Nat /\ m = Len(t[c].dirs)
  BY ChildrenOf
<1>3. Len(u[c].dirs) = m + 1 /\ (\A j \in 1 .. m : u[c].dirs[j] = t[c].dirs[j]) /\ u[c].dirs[m + 1] = e
  BY <1>1, <1>2
<1> HIDE DEF m
<1>4. \A b \in LiveIn(t) : \A j \in 1 .. Len(u[b].dirs) :
        \/ j \in 1 .. Len(t[b].dirs) /\ u[b].dirs[j] = t[b].dirs[j]
        \/ b = c /\ j = Len(t[c].dirs) + 1 /\ u[b].dirs[j] = e
  BY WithPlaces
<1>5. \A b \in LiveIn(t) : \A j \in 1 .. Len(t[b].dirs) : t[b].dirs[j] \in LiveIn(t)
  BY ChildrenOf
<1>6. ASSUME NEW b, NEW n, NEW x, Edge(u, b, n, x)
      PROVE  Edge(t, b, n, x) \/ (b = c /\ n = t[e].name /\ x = e)
  <2>1. b \in LiveIn(t)
    BY <1>1, <1>6 DEF Edge
  <2>2. PICK j \in 1 .. Len(u[b].dirs) : u[b].dirs[j] = x /\ DirName(u, b, j) = n
    BY <1>6 DEF Edge
  <2>3. CASE j \in 1 .. Len(t[b].dirs) /\ u[b].dirs[j] = t[b].dirs[j]
    <3>1. DirName(t, b, j) = n
      BY <1>1, <1>5, <2>1, <2>2, <2>3 DEF DirName
    <3>. QED  BY <2>1, <2>2, <2>3, <3>1 DEF Edge
  <2>4. CASE b = c /\ u[b].dirs[j] = e
    BY <1>1, <2>2, <2>4 DEF DirName
  <2>. QED  BY <1>4, <2>1, <2>3, <2>4
<1>7. ASSUME NEW b, NEW n, NEW x, Edge(t, b, n, x)
      PROVE  Edge(u, b, n, x)
  <2>1. b \in LiveIn(t) /\ b \in LiveIn(u)
    BY <1>1, <1>7 DEF Edge
  <2>2. PICK j \in 1 .. Len(t[b].dirs) : t[b].dirs[j] = x /\ DirName(t, b, j) = n
    BY <1>7 DEF Edge
  <2>3. j \in 1 .. Len(u[b].dirs) /\ u[b].dirs[j] = x
    <3>1. CASE b = c
      <4>1. j \in 1 .. m /\ j \in 1 .. m + 1
        BY <1>2, <2>2, <3>1
      <4>. QED  BY <1>3, <2>2, <3>1, <4>1
    <3>2. CASE b # c
      BY <1>1, <2>1, <2>2, <3>2
    <3>. QED  BY <3>1, <3>2
  <2>4. DirName(u, b, j) = n
    BY <1>1, <1>5, <2>1, <2>2, <2>3 DEF DirName
  <2>. QED  BY <2>1, <2>3, <2>4 DEF Edge
<1>8. Edge(u, c, t[e].name, e)
  <2>1. m + 1 \in 1 .. Len(u[c].dirs)
    BY <1>2, <1>3
  <2>2. DirName(u, c, m + 1) = t[e].name
    BY <1>1, <1>3 DEF DirName
  <2>. QED  BY <1>1, <1>3, <2>1, <2>2 DEF Edge
<1>. QED  BY <1>6, <1>7, <1>8

-----------------------------------------------------------------------------
(***************************************************************************)
(* Entries is the map of the tree.                                         *)
(***************************************************************************)
LEMMA ChildEdge ==
  ASSUME NamesInv, NEW c, NEW n, NEW d
  PROVE  Edge(tree, c, n, d) <=> c \in Live /\ d # None /\ ChildNamed(c, n) = d
<1>1. Shape(tree) /\ Sound(tree) /\ Live = LiveIn(tree) /\ None \notin Live
  BY RootAssumption DEF NamesInv, IInv, Shape, Live, LiveIn
<1> DEFINE i == IndexOfDir(c, n)
           m == Len(tree[c].dirs)
<1>2. c \in Live => /\ i \in 0 .. m /\ m \in Nat
                    /\ i # 0 => DirName(tree, c, i) = n
                    /\ i = 0 => \A j \in 1 .. m : DirName(tree, c, j) # n
  BY <1>1, DirFound, ChildrenOf
<1>3. ChildNamed(c, n) = IF c = None \/ i = 0 THEN None ELSE tree[c].dirs[i]
  BY DEF ChildNamed
<1>4. m = Len(tree[c].dirs)
  OBVIOUS
<1> HIDE DEF i, m
<1>5. ASSUME Edge(tree, c, n, d)
      PROVE  c \in Live /\ d # None /\ ChildNamed(c, n) = d
  <2>1. c \in Live /\ d \in Live
    BY <1>1, <1>5, EdgeFacts
  <2>2. PICK j \in 1 .. m : tree[c].dirs[j] = d /\ DirName(tree, c, j) = n
    BY <1>4, <1>5 DEF Edge
  <2>3. i # 0 /\ i \in 1 .. m
    BY <1>2, <2>1, <2>2
  <2>4. i = j
    BY <1>1, <1>2, <1>4, <2>1, <2>2, <2>3 DEF Shape, Distinct
  <2>. QED  BY <1>1, <1>3, <2>1, <2>2, <2>3, <2>4
<1>6. ASSUME c \in Live, d # None, ChildNamed(c, n) = d
      PROVE  Edge(tree, c, n, d)
  <2>1. i # 0 /\ tree[c].dirs[i] = d
    BY <1>3, <1>6
  <2>2. i \in 1 .. m
    BY <1>2, <1>6, <2>1
  <2>. QED  BY <1>1, <1>2, <1>4, <1>6, <2>1, <2>2 DEF Edge
<1>. QED  BY <1>5, <1>6

LEMMA DirectoryFound ==
  ASSUME NamesInv, NEW p \in Routes
  PROVE  \A d : Leads(tree, p, d) <=> d = FindDirectory(p) /\ d # None
<1> DEFINE m  == Len(p)
           at == CHOOSE g : g = Along(p, m, g)
<1>1. FindDirectory(p) = at[m]
  BY DEF FindDirectory, Along, ChildNamed
<1>2. m \in Nat /\ m = Len(p)
  BY LenProperties DEF Routes
<1>3. at = Along(p, m, at)
  BY <1>2, WalkExists
<1> HIDE DEF at, m
<1>4. \A i \in 0 .. m : at[i] = IF i = 0 THEN Root ELSE ChildNamed(at[i - 1], p[i])
  BY <1>3 DEF Along
<1>5. m \in 0 .. m /\ 0 \in 0 .. m
  BY <1>2
<1>6. /\ \A c, n, d : Edge(tree, c, n, d) <=> c \in Live /\ d # None /\ ChildNamed(c, n) = d
      /\ \A n : ChildNamed(None, n) = None
      /\ \A c, n, d : Edge(tree, c, n, d) => d \in Live
  <2>1. Shape(tree) /\ Live = LiveIn(tree)
    BY DEF NamesInv, IInv, Shape, Live, LiveIn
  <2>2. \A c, n, d : Edge(tree, c, n, d) => d \in Live
    BY <2>1, EdgeFacts
  <2>. QED  BY <2>2, ChildEdge DEF ChildNamed
<1>7. ASSUME NEW d, Leads(tree, p, d)
      PROVE  d = at[m] /\ d # None
  <2>1. PICK g : Walk(tree, p, g) /\ g[m] = d
    BY <1>2, <1>7 DEF Leads
  <2>2. g[0] = Root /\ \A i \in 1 .. m : Edge(tree, g[i - 1], p[i], g[i])
    BY <1>2, <2>1 DEF Walk
  <2> DEFINE T == {i \in 0 .. m : at[i] # g[i]}
  <2>3. T \in SUBSET Nat /\ \A i \in 0 .. m : i \in T <=> at[i] # g[i]
    BY <1>2
  <2>4. T \subseteq 0 .. m
    OBVIOUS
  <2> HIDE DEF T
  <2>5. T = {}
    <3>1. SUFFICES ASSUME T # {}
                   PROVE  FALSE
      OBVIOUS
    <3>2. PICK i \in T : \A j \in T : i <= j
      BY <2>3, <3>1, Least
    <3>3. i \in 0 .. m /\ i # 0
      BY <1>4, <1>5, <2>2, <2>3, <2>4, <3>2
    <3>4. i - 1 \in 0 .. m /\ ~(i <= i - 1) /\ i \in 1 .. m
      BY <1>2, <3>3
    <3>5. at[i - 1] = g[i - 1]
      BY <2>3, <3>2, <3>4
    <3>6. at[i] = ChildNamed(g[i - 1], p[i])
      BY <1>4, <3>3, <3>5
    <3>7. at[i] = g[i]
      BY <1>6, <2>2, <3>4, <3>6
    <3>. QED  BY <2>3, <3>2, <3>3, <3>7
  <2>6. at[m] = d
    BY <1>5, <2>1, <2>3, <2>5
  <2>7. d # None
    <3>1. CASE m = 0
      BY <2>1, <2>2, <3>1, RootAssumption
    <3>2. CASE m # 0
      <4>1. m \in 1 .. m
        BY <1>2, <3>2
      <4>. QED  BY <1>6, <2>1, <2>2, <4>1
    <3>. QED  BY <3>1, <3>2
  <2>. QED  BY <2>6, <2>7
<1>8. ASSUME at[m] # None
      PROVE  Leads(tree, p, at[m])
  \* The first directory that is missing, and the ones behind it.
  <2> DEFINE T == {i \in 0 .. m : at[i] \notin Live}
  <2>1. T \in SUBSET Nat /\ T \subseteq 0 .. m /\ \A i \in 0 .. m : i \in T <=> at[i] \notin Live
    BY <1>2
  <2> HIDE DEF T
  <2>2. Root \in Live
    BY DEF NamesInv, IInv, Sound, HoldsRoot, Live, LiveIn
  <2>3. T = {}
    <3>1. SUFFICES ASSUME T # {}
                   PROVE  FALSE
      OBVIOUS
    <3>2. PICK i \in T : \A j \in T : i <= j
      BY <2>1, <3>1, Least
    <3>3. i \in 0 .. m /\ i # 0 /\ at[i] \notin Live
      BY <1>4, <1>5, <2>1, <2>2, <3>2
    <3>4. i - 1 \in 0 .. m /\ ~(i <= i - 1)
      BY <1>2, <3>3
    <3>5. at[i - 1] \in Live /\ at[i] = ChildNamed(at[i - 1], p[i])
      BY <1>4, <2>1, <3>2, <3>3, <3>4
    <3>6. at[i] = None
      BY <1>6, <3>3, <3>5
    <3> DEFINE U == {j \in i .. m : at[j] # None}
    <3>7. U \in SUBSET Nat /\ U \subseteq i .. m /\ \A j \in i .. m : j \in U <=> at[j] # None
      BY <1>2, <3>3
    <3> HIDE DEF U
    <3>8. m \in U
      <4>1. m \in i .. m
        BY <1>2, <3>3
      <4>. QED  BY <1>8, <3>7, <4>1
    <3>9. PICK j \in U : \A k \in U : j <= k
      BY <3>7, <3>8, Least
    <3>10. j \in i .. m /\ j # i
      BY <3>6, <3>7, <3>9
    <3>11. j \in 0 .. m /\ j # 0 /\ j - 1 \in i .. m /\ ~(j <= j - 1)
      BY <1>2, <3>3, <3>10
    <3>12. at[j - 1] = None
      BY <3>7, <3>9, <3>11
    <3>13. at[j] = None
      BY <1>4, <1>6, <3>11, <3>12
    <3>. QED  BY <3>7, <3>9, <3>10, <3>13
  <2>4. \A i \in 0 .. m : at[i] \in Live
    BY <2>1, <2>3
  <2>5. ASSUME NEW i \in 1 .. m
        PROVE  Edge(tree, at[i - 1], p[i], at[i])
    <3>1. i \in 0 .. m /\ i # 0 /\ i - 1 \in 0 .. m
      BY <1>2
    <3>2. at[i - 1] \in Live /\ at[i] \in Live /\ at[i] = ChildNamed(at[i - 1], p[i])
      BY <1>4, <2>4, <3>1
    <3>3. None \notin Live
      BY RootAssumption DEF Live
    <3>. QED  BY <1>6, <3>2, <3>3
  <2>6. at[0] = Root
    BY <1>4, <1>5
  <2>7. Walk(tree, p, at)
    BY <1>2, <2>5, <2>6 DEF Walk
  <2>. QED  BY <1>2, <2>7 DEF Leads
<1>. QED  BY <1>1, <1>7, <1>8

LEMMA FileIsFound ==
  ASSUME NamesInv, NEW p \in Routes, NEW u, Filed(tree, p, u)
  PROVE  FindFile(p) = u
<1>1. PICK r \in Routes, n \in Parts : p = Append(r, n)
  BY DEF Filed
<1>2. PICK c : Leads(tree, r, c) /\ Held(tree, c, n, u)
  BY <1>1, FiledOn
<1>3. FindDirectory(r) = c /\ c # None
  BY <1>2, DirectoryFound
<1>4. Front(p) = r /\ Last(p) = n /\ p # <<>>
  BY <1>1, AppendParts, AppendProperties DEF Routes
<1> DEFINE i == IndexOfFile(c, n)
           m == Len(tree[c].files)
<1>5. FindFile(p) = IF i = 0 THEN 0 ELSE tree[c].files[i].uid
  BY <1>3, <1>4 DEF FindFile
<1>6. Sound(tree) /\ Distinct(tree) /\ c \in Live /\ c \in LiveIn(tree)
  BY <1>2 DEF NamesInv, IInv, Held, Live, LiveIn
<1>7. /\ i \in 0 .. m /\ m \in Nat
      /\ i # 0 => FileName(tree, c, i) = n
      /\ i = 0 => \A j \in 1 .. m : FileName(tree, c, j) # n
  BY <1>6, FileFound, ChildrenOf
<1>8. PICK j \in 1 .. m : FileName(tree, c, j) = n /\ tree[c].files[j].uid = u
  BY <1>2 DEF Held
<1>9. \A x, y \in 1 .. m : FileName(tree, c, x) = FileName(tree, c, y) => x = y
  BY <1>6 DEF Distinct
<1> HIDE DEF i, m
<1>10. i # 0 /\ i \in 1 .. m
  BY <1>7, <1>8
<1>11. i = j
  BY <1>7, <1>8, <1>9, <1>10
<1>. QED  BY <1>5, <1>8, <1>10, <1>11

LEMMA ToSetConcat ==
  ASSUME NEW S, NEW a \in Seq(S), NEW b \in Seq(S)
  PROVE  ToSet(a \o b) = ToSet(a) \cup ToSet(b)
<1> DEFINE k == Len(a)
           m == Len(b)
           s == a \o b
<1>1. k \in Nat /\ m \in Nat /\ DOMAIN a = 1 .. k /\ DOMAIN b = 1 .. m
  BY LenProperties
<1>2. s \in Seq(S) /\ Len(s) = k + m /\ \A i \in 1 .. k + m : s[i] = IF i <= k THEN a[i] ELSE b[i - k]
  BY ConcatProperties
<1>3. DOMAIN s = 1 .. Len(s)
  BY <1>2, LenProperties
<1> HIDE DEF s, k, m
<1>4. /\ ToSet(s) = {s[i] : i \in 1 .. k + m}
      /\ ToSet(a) = {a[i] : i \in 1 .. k}
      /\ ToSet(b) = {b[i] : i \in 1 .. m}
  BY <1>1, <1>2, <1>3 DEF ToSet
<1>5. ASSUME NEW i \in 1 .. k + m
      PROVE  s[i] \in ToSet(a) \cup ToSet(b)
  <2>1. CASE i <= k
    BY <1>1, <1>2, <1>4, <2>1
  <2>2. CASE ~(i <= k)
    <3> DEFINE j == i - k
    <3>1. j \in 1 .. m /\ s[i] = b[j]
      BY <1>1, <1>2, <2>2
    <3> HIDE DEF j
    <3>. QED  BY <1>4, <3>1
  <2>. QED  BY <2>1, <2>2
<1>6. ASSUME NEW i \in 1 .. k
      PROVE  a[i] \in ToSet(s)
  <2>1. i \in 1 .. k + m /\ i <= k
    BY <1>1
  <2>. QED  BY <1>2, <1>4, <2>1
<1>7. ASSUME NEW i \in 1 .. m
      PROVE  b[i] \in ToSet(s)
  <2> DEFINE j == i + k
  <2>1. j \in 1 .. k + m /\ ~(j <= k) /\ j - k = i
    BY <1>1
  <2> HIDE DEF j
  <2>. QED  BY <1>2, <1>4, <2>1
<1>8. ToSet(s) = ToSet(a) \cup ToSet(b)
  BY <1>4, <1>5, <1>6, <1>7
<1>. QED  BY <1>8 DEF s

\* What is listed at a path are the directories and the files of the directory there.
LEMMA ListedNames ==
  ASSUME NamesInv, NEW p \in Routes
  PROVE  \A n : n \in Listed(p) <=>
           \E c : Leads(tree, p, c) /\ ((\E d : Edge(tree, c, n, d)) \/ (\E u : Held(tree, c, n, u)))
<1> DEFINE c == FindDirectory(p)
           k == Len(tree[c].dirs)
           m == Len(tree[c].files)
           S == Names \cup {None}
           a == [i \in 1 .. k |-> tree[tree[c].dirs[i]].name]
           b == [i \in 1 .. m |-> tree[c].files[i].name]
           e == IF p = <<>> THEN <<FlushName>> ELSE <<>>
           x == IF p = <<>> THEN {FlushName} ELSE {}
<1>1. Sound(tree) /\ Once(tree) /\ Distinct(tree) /\ Shape(tree)
  BY DEF NamesInv, IInv, Shape
<1>2. \A d : Leads(tree, p, d) <=> d = c /\ d # None
  BY DirectoryFound
<1>3. CASE c = None
  <2>1. Listed(p) = {}
    BY <1>3 DEF Listed
  <2>. QED  BY <1>2, <1>3, <2>1
<1>4. CASE c # None
  <2>1. Listed(p) = ToSet(a \o b \o e) \ x
    BY <1>4 DEF Listed, ReadDirAll
  <2>2. Leads(tree, p, c) /\ c \in LiveIn(tree) /\ (c = Root => p = <<>>) /\ (p = <<>> => c = Root)
    <3>1. Leads(tree, p, c)
      BY <1>2, <1>4
    <3>2. p = <<>> => c = Root
      BY <3>1, LeadsRoot
    <3>3. Leads(tree, <<>>, Root) /\ <<>> \in Routes
      BY LeadsRoot, EmptySeq DEF Routes
    <3>4. c = Root => p = <<>>
      BY <1>1, <3>1, <3>3, OneRoute
    <3>5. c \in LiveIn(tree)
      <4>1. Len(p) \in Nat
        BY LenProperties DEF Routes
      <4>2. c \in Live \cup {None}
        BY <1>1, <4>1, PathFound
      <4>. QED  BY <1>4, <4>2 DEF Live, LiveIn
    <3>. QED  BY <3>1, <3>2, <3>4, <3>5
  <2> HIDE DEF c
  <2>3. k \in Nat /\ m \in Nat /\ tree[c].files \in Seq(Files)
        /\ \A i \in 1 .. k : tree[c].dirs[i] \in LiveIn(tree)
    BY <1>1, <2>2, ChildrenOf
  <2>4. /\ \A i \in 1 .. k : a[i] = DirName(tree, c, i)
        /\ \A i \in 1 .. m : b[i] = FileName(tree, c, i)
    BY DEF DirName, FileName
  <2>5. a \in Seq(S)
    <3>1. \A i \in 1 .. k : tree[tree[c].dirs[i]].name \in S
      BY <1>1, <2>3, ChildrenOf DEF Directories
    <3>. QED  BY <2>3, <3>1
  <2>6. b \in Seq(S)
    <3>1. ASSUME NEW i \in 1 .. m
          PROVE  tree[c].files[i].name \in S
      <4>1. tree[c].files[i] \in Files
        BY <2>3, <3>1, ElementOfSeq
      <4>. QED  BY <4>1 DEF Files
    <3>. QED  BY <2>3, <3>1
  <2>7. e \in Seq(S) /\ ToSet(e) = x
    <3>1. CASE p = <<>>
      <4>1. DOMAIN <<FlushName>> = {1} /\ <<FlushName>>[1] = FlushName
        OBVIOUS
      <4>. QED  BY <3>1, <4>1, FlushNameAssumption DEF ToSet
    <3>2. CASE p # <<>>
      <4>1. DOMAIN <<>> = {} /\ <<>> \in Seq(S)
        BY EmptySeq
      <4>. QED  BY <3>2, <4>1 DEF ToSet
    <3>. QED  BY <3>1, <3>2
  <2>8. DOMAIN a = 1 .. k /\ DOMAIN b = 1 .. m
    OBVIOUS
  <2>9. /\ ToSet(a) = {DirName(tree, c, i) : i \in 1 .. k}
        /\ ToSet(b) = {FileName(tree, c, i) : i \in 1 .. m}
    <3> HIDE DEF a, b, k, m
    <3>. QED  BY <2>4, <2>8 DEF ToSet
  <2> HIDE DEF a, b, e, S
  <2>10. ToSet(a \o b \o e) = (ToSet(a) \cup ToSet(b)) \cup ToSet(e)
    <3>1. a \o b \in Seq(S)
      BY <2>5, <2>6, ConcatProperties
    <3> DEFINE ab == a \o b
    <3>2. ab \in Seq(S)
      BY <3>1
    <3> HIDE DEF ab
    <3>3. ToSet(ab \o e) = ToSet(ab) \cup ToSet(e)
      BY <2>7, <3>2, ToSetConcat
    <3>4. ToSet(a \o b) = ToSet(a) \cup ToSet(b)
      BY <2>5, <2>6, ToSetConcat
    <3>. QED  BY <3>3, <3>4 DEF ab
  <2>11. \A n \in x : (\A i \in 1 .. k : DirName(tree, c, i) # n) /\ (\A i \in 1 .. m : FileName(tree, c, i) # n)
    BY <1>1, <2>2 DEF Distinct
  <2>12. Listed(p) = ToSet(a) \cup ToSet(b)
    BY <2>1, <2>7, <2>9, <2>10, <2>11
  <2>13. /\ \A n : (\E d : Edge(tree, c, n, d)) <=> \E i \in 1 .. k : DirName(tree, c, i) = n
         /\ \A n : (\E u : Held(tree, c, n, u)) <=> \E i \in 1 .. m : FileName(tree, c, i) = n
    BY <2>2 DEF Edge, Held
  <2>14. \A d : Leads(tree, p, d) <=> d = c
    BY <1>2, <1>4
  <2> HIDE DEF k, m
  <2>15. \A n : n \in Listed(p) <=> (\E i \in 1 .. k : DirName(tree, c, i) = n) \/ (\E i \in 1 .. m : FileName(tree, c, i) = n)
    BY <2>9, <2>12
  <2>. QED  BY <2>13, <2>14, <2>15
<1>. QED  BY <1>3, <1>4

\* No path is longer than there are directories: those along it are all different.
LEMMA RoutesAreShort ==
  ASSUME NEW t, Shape(t), NEW p \in Routes, NEW d, Leads(t, p, d)
  PROVE  Len(p) + 1 <= Cardinality(Dirs)
<1> DEFINE Near(n) == {v \in Dirs : \E r \in Routes : Leads(t, r, v) /\ Len(r) <= n}
           S == {r \in Routes : (\E v : Leads(t, r, v)) =>
                   \E V \in SUBSET Near(Len(r)) : IsFiniteSet(V) /\ Cardinality(V) = Len(r) + 1}
<1>1. \A r \in Routes : Len(r) \in Nat
  BY LenProperties DEF Routes
<1>2. Root \in Dirs /\ <<>> \in Routes /\ Len(<<>>) = 0
  BY RootAssumption, EmptySeq DEF Routes
<1>3. <<>> \in S
  <2>1. Root \in Near(0)
    BY <1>2, LeadsRoot
  <2>2. IsFiniteSet({Root}) /\ Cardinality({Root}) = 1
    BY FS_Singleton
  <2>3. {Root} \in SUBSET Near(Len(<<>>)) /\ Cardinality({Root}) = Len(<<>>) + 1
    BY <1>2, <2>1, <2>2
  <2>. QED  BY <1>2, <2>2, <2>3
<1>4. ASSUME NEW r \in S, NEW n \in Parts
      PROVE  Append(r, n) \in S
  <2> DEFINE s == Append(r, n)
             k == Len(r)
  <2>1. s \in Routes /\ Len(s) = k + 1 /\ k \in Nat /\ r \in Routes /\ k = Len(r)
    BY <1>1, AppendProperties DEF Routes
  <2>2. \A v : Leads(t, s, v) <=> \E c : Leads(t, r, c) /\ Edge(t, c, n, v)
    BY <2>1, LeadsOn
  <2>3. (\E v : Leads(t, r, v)) => \E V \in SUBSET Near(k) : IsFiniteSet(V) /\ Cardinality(V) = k + 1
    BY <1>4
  <2> HIDE DEF s, k
  <2>4. ASSUME NEW v, Leads(t, s, v)
        PROVE  \E V \in SUBSET Near(k + 1) : IsFiniteSet(V) /\ Cardinality(V) = k + 1 + 1
    <3>1. PICK c : Leads(t, r, c) /\ Edge(t, c, n, v)
      BY <2>2, <2>4
    <3>2. PICK V \in SUBSET Near(k) : IsFiniteSet(V) /\ Cardinality(V) = k + 1
      BY <2>3, <3>1
    <3>3. v \in Dirs
      BY <3>1, EdgeFacts DEF LiveIn
    <3>4. v \notin V
      <4>1. SUFFICES ASSUME v \in V
                     PROVE  FALSE
        OBVIOUS
      <4>2. PICK w \in Routes : Leads(t, w, v) /\ Len(w) <= k
        BY <3>2, <4>1
      <4>3. w = s
        BY <2>1, <2>4, <4>2, OneRoute
      <4>. QED  BY <2>1, <4>2, <4>3
    <3>5. v \in Near(k + 1)
      <4>1. Len(s) <= k + 1
        BY <2>1
      <4>. QED  BY <2>1, <2>4, <3>3, <4>1
    <3>6. \A w \in Near(k) : w \in Near(k + 1)
      <4>1. ASSUME NEW w \in Routes, Len(w) <= k
            PROVE  Len(w) <= k + 1
        BY <1>1, <2>1, <4>1
      <4>. QED  BY <4>1
    <3> HIDE DEF Near
    <3>7. V \cup {v} \in SUBSET Near(k + 1)
      BY <3>2, <3>5, <3>6
    <3>8. IsFiniteSet(V \cup {v}) /\ Cardinality(V \cup {v}) = Cardinality(V) + 1
      BY <3>2, <3>4, FS_AddElement
    <3>. QED  BY <3>2, <3>7, <3>8
  <2>. QED  BY <2>1, <2>4 DEF s
<1>5. S \in SUBSET Seq(Parts)
  BY DEF Routes
<1> HIDE DEF S
<1>6. S = Routes
  BY <1>3, <1>4, <1>5, SequenceInduction DEF Routes
<1>7. PICK V \in SUBSET Near(Len(p)) : IsFiniteSet(V) /\ Cardinality(V) = Len(p) + 1
  BY <1>6 DEF S
<1>8. V \subseteq Dirs
  BY <1>7
<1>9. Cardinality(V) <= Cardinality(Dirs)
  BY <1>8, DirsAssumption, FS_Subset
<1>. QED  BY <1>7, <1>9

\* The paths that lead to an entry.
EntryPaths(t) == {p \in Routes : \E v : Ent(t, p, v)}

LEMMA EntryPathsStep ==
  ASSUME NamesInv
  PROVE  /\ <<>> \in EntryPaths(tree)
         /\ \A p \in Routes : \A n : n \in Listed(p) => /\ n \in Parts /\ p \in EntryPaths(tree)
                                                        /\ Append(p, n) \in EntryPaths(tree)
         /\ \A p \in EntryPaths(tree) : p # <<>> =>
              \E r \in EntryPaths(tree) : \E n \in Listed(r) : p = Append(r, n)
         /\ \A p \in EntryPaths(tree) : Len(p) <= Cardinality(Dirs)
<1>1. Shape(tree) /\ <<>> \in Routes
  BY EmptySeq DEF NamesInv, IInv, Shape, Routes
<1>2. <<>> \in EntryPaths(tree)
  BY <1>1, LeadsRoot DEF EntryPaths, Ent
<1>3. ASSUME NEW p \in Routes, NEW n, n \in Listed(p)
      PROVE  n \in Parts /\ p \in EntryPaths(tree) /\ Append(p, n) \in EntryPaths(tree)
  <2>1. PICK c : Leads(tree, p, c) /\ ((\E d : Edge(tree, c, n, d)) \/ (\E u : Held(tree, c, n, u)))
    BY <1>3, ListedNames
  <2>2. n \in Parts
    BY <1>1, <2>1, EdgeFacts
  <2>3. Append(p, n) \in Routes
    BY <2>2, AppendProperties DEF Routes
  <2>4. \E v : Ent(tree, Append(p, n), v)
    <3>1. CASE \E d : Edge(tree, c, n, d)
      BY <2>1, <2>2, <3>1, LeadsOn DEF Ent
    <3>2. CASE \E u : Held(tree, c, n, u)
      BY <2>1, <2>2, <3>2, FiledOn DEF Ent
    <3>. QED  BY <2>1, <3>1, <3>2
  <2>5. \E v : Ent(tree, p, v)
    BY <2>1 DEF Ent
  <2>. QED  BY <2>2, <2>3, <2>4, <2>5 DEF EntryPaths
<1>4. ASSUME NEW p \in EntryPaths(tree), p # <<>>
      PROVE  \E r \in EntryPaths(tree) : \E n \in Listed(r) : p = Append(r, n)
  <2>1. PICK r \in Routes, n \in Parts : p = Append(r, n)
    BY <1>4, SequenceEmptyOrAppend DEF Routes, EntryPaths
  <2>2. PICK v : Ent(tree, p, v)
    BY DEF EntryPaths
  <2>3. \E c : Leads(tree, r, c) /\ ((\E d : Edge(tree, c, n, d)) \/ (\E u : Held(tree, c, n, u)))
    <3>1. CASE \E d : Leads(tree, p, d)
      BY <2>1, <3>1, LeadsOn
    <3>2. CASE Filed(tree, p, v)
      BY <2>1, <3>2, FiledOn
    <3>. QED  BY <2>2, <3>1, <3>2 DEF Ent
  <2>4. n \in Listed(r)
    BY <2>3, ListedNames
  <2>5. r \in EntryPaths(tree)
    BY <1>3, <2>4
  <2>. QED  BY <2>1, <2>4, <2>5
<1>5. ASSUME NEW p \in EntryPaths(tree)
      PROVE  Len(p) <= Cardinality(Dirs)
  <2>1. Cardinality(Dirs) \in Nat
    BY DirsAssumption, FS_CardinalityType
  <2>2. PICK v : Ent(tree, p, v)
    BY DEF EntryPaths
  <2>3. p \in Routes /\ Len(p) \in Nat
    BY LenProperties DEF Routes, EntryPaths
  <2>4. CASE \E d : Leads(tree, p, d)
    <3>1. Len(p) + 1 <= Cardinality(Dirs)
      BY <1>1, <2>3, <2>4, RoutesAreShort
    <3>. QED  BY <2>1, <2>3, <3>1
  <2>5. CASE Filed(tree, p, v)
    <3>1. PICK r \in Routes, n \in Parts : p = Append(r, n) /\ \E c : Leads(tree, r, c)
      BY <2>5 DEF Filed
    <3>2. Len(r) + 1 <= Cardinality(Dirs)
      BY <1>1, <3>1, RoutesAreShort
    <3>3. Len(p) = Len(r) + 1
      BY <3>1, AppendProperties DEF Routes
    <3>. QED  BY <3>2, <3>3
  <2>. QED  BY <2>2, <2>4, <2>5 DEF Ent
<1>. QED  BY <1>2, <1>3, <1>4, <1>5

\* One level of the listing after the other.
Levels(g) ==
  [n \in Nat |-> IF n = 0 THEN {<<>>}
                 ELSE UNION {{Append(p, x) : x \in Listed(p)} : p \in g[n - 1]}]

LEMMA NextLevel ==
  ASSUME NEW S
  PROVE  \A q : q \in UNION {{Append(p, x) : x \in Listed(p)} : p \in S}
                 <=> \E p \in S : \E x \in Listed(p) : q = Append(p, x)
<1> DEFINE Below(p) == {Append(p, x) : x \in Listed(p)}
<1>1. \A p, q : q \in Below(p) <=> \E x \in Listed(p) : q = Append(p, x)
  OBVIOUS
<1> HIDE DEF Below
<1>2. \A q : q \in UNION {Below(p) : p \in S} <=> \E p \in S : q \in Below(p)
  OBVIOUS
<1>3. \A q : q \in UNION {Below(p) : p \in S} <=> \E p \in S : \E x \in Listed(p) : q = Append(p, x)
  BY <1>1, <1>2
<1>. QED  BY <1>3 DEF Below

LEMMA ListedPathsAre ==
  ASSUME NamesInv
  PROVE  ListedPaths = EntryPaths(tree)
<1> DEFINE E  == EntryPaths(tree)
           f  == [n \in Nat |-> {p \in E : Len(p) = n}]
           at == CHOOSE g : g = Levels(g)
           N  == Cardinality(Dirs)
<1>1. ListedPaths = UNION {at[n] : n \in 0 .. N}
  BY DEF ListedPaths, Levels
<1>2. /\ <<>> \in E /\ E \subseteq Routes
      /\ \A p \in Routes : \A n : n \in Listed(p) => n \in Parts /\ p \in E /\ Append(p, n) \in E
      /\ \A p \in E : p # <<>> => \E r \in E : \E n \in Listed(r) : p = Append(r, n)
      /\ \A p \in E : Len(p) <= N
  BY EntryPathsStep DEF EntryPaths
<1>3. N \in Nat
  BY DirsAssumption, FS_CardinalityType
<1>4. /\ \A p \in Routes : Len(p) \in Nat /\ (Len(p) = 0 <=> p = <<>>)
      /\ \A p \in Routes, n \in Parts : Len(Append(p, n)) = Len(p) + 1
  <2>1. ASSUME NEW p \in Routes
        PROVE  Len(p) \in Nat /\ (Len(p) = 0 <=> p = <<>>)
    BY LenProperties, EmptySeq DEF Routes
  <2>2. ASSUME NEW p \in Routes, NEW n \in Parts
        PROVE  Len(Append(p, n)) = Len(p) + 1
    BY AppendProperties DEF Routes
  <2>. QED  BY <2>1, <2>2
<1> HIDE DEF E, N
<1>5. ASSUME NEW n \in Nat, n # 0
      PROVE  f[n] = UNION {{Append(p, x) : x \in Listed(p)} : p \in f[n - 1]}
  <2>1. n - 1 \in Nat /\ n - 1 + 1 = n
    BY <1>5
  <2>2. f[n] = {p \in E : Len(p) = n} /\ f[n - 1] = {p \in E : Len(p) = n - 1}
    BY <2>1
  <2> HIDE DEF f
  <2>3. ASSUME NEW p \in f[n]
        PROVE  \E r \in f[n - 1] : \E x \in Listed(r) : p = Append(r, x)
    <3>1. p \in E /\ p \in Routes /\ Len(p) = n /\ p # <<>>
      BY <1>2, <1>4, <1>5, <2>2
    <3>2. PICK r \in E : \E x \in Listed(r) : p = Append(r, x)
      BY <1>2, <3>1
    <3>3. PICK x \in Listed(r) : p = Append(r, x)
      BY <3>2
    <3>4. r \in Routes /\ x \in Parts
      BY <1>2, <3>2, <3>3
    <3>5. Len(r) \in Nat /\ n = Len(r) + 1
      BY <1>4, <3>1, <3>3, <3>4
    <3>6. Len(r) = n - 1
      BY <3>5
    <3>. QED  BY <2>2, <3>2, <3>3, <3>6
  <2>4. ASSUME NEW r \in f[n - 1], NEW x \in Listed(r)
        PROVE  Append(r, x) \in f[n]
    <3>1. r \in E /\ r \in Routes /\ Len(r) = n - 1
      BY <1>2, <2>2
    <3>2. x \in Parts /\ Append(r, x) \in E
      BY <1>2, <2>4, <3>1
    <3>3. Len(Append(r, x)) = n
      BY <1>4, <2>1, <3>1, <3>2
    <3>. QED  BY <2>2, <3>2, <3>3
  <2> DEFINE U == UNION {{Append(p, x) : x \in Listed(p)} : p \in f[n - 1]}
  <2>5. \A p : p \in U <=> \E r \in f[n - 1] : \E x \in Listed(r) : p = Append(r, x)
    BY NextLevel
  <2> HIDE DEF U
  <2>6. f[n] = U
    BY <2>3, <2>4, <2>5, ZenonT(60)
  <2>. QED  BY <2>6 DEF U
<1>6. f[0] = {<<>>}
  <2>1. f[0] = {p \in E : Len(p) = 0}
    OBVIOUS
  <2>2. \A p \in E : Len(p) = 0 <=> p = <<>>
    BY <1>2, <1>4
  <2>. QED  BY <1>2, <2>1, <2>2
<1>7. f = Levels(f)
  <2>1. \A n \in Nat : f[n] = IF n = 0 THEN {<<>>}
                              ELSE UNION {{Append(p, x) : x \in Listed(p)} : p \in f[n - 1]}
    BY <1>5, <1>6
  <2>2. f = [n \in Nat |-> f[n]]
    OBVIOUS
  <2> HIDE DEF f
  <2>. QED  BY <2>1, <2>2 DEF Levels
<1>8. at = Levels(at)
  <2>1. \E g : g = Levels(g)
    BY <1>7
  <2>. QED  BY <2>1
<1> HIDE DEF at
<1>9. \A n \in Nat : at[n] = IF n = 0 THEN {<<>>}
                             ELSE UNION {{Append(p, x) : x \in Listed(p)} : p \in at[n - 1]}
  BY <1>8 DEF Levels
<1>10. \A n \in Nat : f[n] = {p \in E : Len(p) = n}
  OBVIOUS
<1> HIDE DEF f
<1>11. \A n \in Nat : at[n] = f[n]
  <2> DEFINE T == {n \in Nat : at[n] # f[n]}
  <2>1. SUFFICES ASSUME T # {}
                 PROVE  FALSE
    OBVIOUS
  <2>2. T \in SUBSET Nat /\ \A n \in Nat : n \in T <=> at[n] # f[n]
    OBVIOUS
  <2> HIDE DEF T
  <2>3. PICK n \in T : \A j \in T : n <= j
    BY <2>1, <2>2, Least
  <2>4. n \in Nat /\ n # 0
    BY <1>6, <1>9, <2>2, <2>3
  <2>5. n - 1 \in Nat /\ ~(n <= n - 1)
    BY <2>4
  <2>6. at[n - 1] = f[n - 1]
    BY <2>2, <2>3, <2>5
  <2>7. at[n] = UNION {{Append(p, x) : x \in Listed(p)} : p \in at[n - 1]}
    BY <1>9, <2>4
  <2>8. f[n] = UNION {{Append(p, x) : x \in Listed(p)} : p \in f[n - 1]}
    BY <1>5, <2>4
  <2>9. at[n] = f[n]
    BY <2>6, <2>7, <2>8
  <2>. QED  BY <2>2, <2>3, <2>4, <2>9
<1>12. ASSUME NEW p \in E
       PROVE  p \in ListedPaths
  <2>1. Len(p) \in 0 .. N /\ Len(p) \in Nat
    BY <1>2, <1>3, <1>4
  <2>2. p \in at[Len(p)]
    BY <1>10, <1>11, <2>1
  <2>. QED  BY <1>1, <2>1, <2>2
<1>13. ASSUME NEW p \in ListedPaths
       PROVE  p \in E
  <2>1. PICK n \in 0 .. N : p \in at[n]
    BY <1>1, <1>13
  <2>2. n \in Nat
    BY <1>3
  <2>. QED  BY <1>10, <1>11, <2>1, <2>2
<1>14. ListedPaths = E
  BY <1>12, <1>13
<1>. QED  BY <1>14 DEF E

LEMMA EntriesAreMap ==
  ASSUME NamesInv
  PROVE  IsMap(Entries, tree)
<1>1. DOMAIN Entries = EntryPaths(tree) /\ Entries = [p \in DOMAIN Entries |-> Entries[p]]
      /\ \A p \in EntryPaths(tree) : Entries[p] = Entry(p)
  BY ListedPathsAre DEF Entries
<1>2. Shape(tree)
  BY DEF NamesInv, IInv, Shape
<1>3. ASSUME NEW p \in Routes, NEW v, Ent(tree, p, v)
      PROVE  Entry(p) = v
  <2>1. \A d : Leads(tree, p, d) <=> d = FindDirectory(p) /\ d # None
    BY DirectoryFound
  <2>2. CASE \E d : Leads(tree, p, d)
    <3>1. FindDirectory(p) # None
      BY <2>1, <2>2
    <3>2. Entry(p) = Root /\ Ent(tree, p, Root)
      BY <2>2, <3>1 DEF Entry, Ent
    <3>. QED  BY <1>2, <1>3, <3>2, EntryIsOne
  <2>3. CASE Filed(tree, p, v)
    <3>1. FindDirectory(p) = None
      BY <1>2, <2>1, <2>3, EntryIsOne
    <3>2. FindFile(p) = v
      BY <2>3, FileIsFound
    <3>. QED  BY <3>1, <3>2 DEF Entry
  <2>. QED  BY <1>3, <2>2, <2>3 DEF Ent
<1>4. \A p \in Routes : \A v : Ent(tree, p, v) <=> p \in EntryPaths(tree) /\ Entry(p) = v
  BY <1>3 DEF EntryPaths
<1>5. EntryPaths(tree) \subseteq Routes
  BY DEF EntryPaths
<1>. QED  BY <1>1, <1>4, <1>5 DEF IsMap

-----------------------------------------------------------------------------
(***************************************************************************)
(* What the handlers do to the entries.                                    *)
(***************************************************************************)
\* The UIDs given so far.
Numbered(t, h) == \A b, n, v : Held(t, b, n, v) => v \in 1 .. h

LEMMA NumberedSaved ==
  ASSUME NEW t, Sound(t), NEW h, Numbered(t, h)
  PROVE  Numbered(Saved(t), h)
<1> DEFINE s == Saved(t)
<1>1. LiveIn(s) \subseteq LiveIn(t) /\ \A d \in LiveIn(s) : s[d] = t[d]
  BY SavedTree
<1> HIDE DEF s
<1>2. \A b, n, v : Held(s, b, n, v) => Held(t, b, n, v)
  BY <1>1 DEF Held, FileName
<1>3. Numbered(s, h)
  BY <1>2 DEF Numbered
<1>. QED  BY <1>3 DEF s

\* Where a request goes.
LEMMA RequestLeads ==
  ASSUME NamesInv, NEW p \in DirPaths
  PROVE  /\ Shape(tree) /\ p \in Routes
         /\ Leads(tree, p, FindDirectory(p)) /\ Ent(tree, p, Root)
         /\ FindDirectory(p) \in LiveIn(tree) /\ FindDirectory(p) \in Live
<1>1. Shape(tree)
  BY DEF NamesInv, IInv, Shape
<1>2. p \in Routes
  <2>1. PICK k \in 0 .. Cardinality(Dirs) - 1 : p \in [1 .. k -> Names]
    BY DEF DirPaths, Paths
  <2>2. k \in Nat
    BY <2>1, DirsAssumption, FS_CardinalityType
  <2>3. p \in [1 .. k -> Parts]
    BY <2>1 DEF Parts
  <2>. QED  BY <2>2, <2>3 DEF Routes
<1>3. FindDirectory(p) \in Live
  BY PathLeads DEF NamesInv, IInv
<1>4. Leads(tree, p, FindDirectory(p))
  BY <1>2, <1>3, DirectoryFound, RootAssumption DEF Live
<1>. QED  BY <1>1, <1>2, <1>3, <1>4 DEF Live, LiveIn, Ent

LEMMA FreeEntry ==
  ASSUME NEW t, Shape(t), NEW p \in Routes, NEW c, Leads(t, p, c), NEW n \in Parts, NoEntryNamed(t, c, n)
  PROVE  /\ \A x : ~Edge(t, c, n, x)
         /\ \A v : ~Held(t, c, n, v)
         /\ \A v : ~Ent(t, Append(p, n), v)
<1>1. \A x : ~Edge(t, c, n, x)
  BY DEF NoEntryNamed, Edge
<1>2. \A v : ~Held(t, c, n, v)
  BY DEF NoEntryNamed, Held
<1>3. \A b : Leads(t, p, b) => b = c
  BY OneRoute
<1>4. \A x : ~Leads(t, Append(p, n), x)
  <2>1. \A x : Leads(t, Append(p, n), x) <=> \E b : Leads(t, p, b) /\ Edge(t, b, n, x)
    BY LeadsOn
  <2>. QED  BY <1>1, <1>3, <2>1
<1>5. \A v : ~Filed(t, Append(p, n), v)
  <2>1. \A v : Filed(t, Append(p, n), v) <=> \E b : Leads(t, p, b) /\ Held(t, b, n, v)
    BY FiledOn
  <2>. QED  BY <1>2, <1>3, <2>1
<1>. QED  BY <1>1, <1>2, <1>4, <1>5 DEF Ent

LEMMA CreateEdits ==
  ASSUME NamesInv, Numbered(tree, highestUID), NEW p \in DirPaths, NEW n \in Names, Create(p, n),
         NEW m, NEW k, IsMap(m, tree), IsMap(k, tree')
  PROVE  PM!Edit(m, k) /\ Numbered(tree', highestUID')
<1> DEFINE c  == FindDirectory(p)
           f  == NewFile(n, NextFileUID)
           fs == Append(tree[c].files, f)
           u  == [tree EXCEPT ![c].files = fs]
<1>1. /\ n # FlushName /\ ~HasEntry(c, n) /\ highestUID < MaxUID
      /\ highestUID' = highestUID + 1 /\ tree' = u
  BY DEF Create, NextFileUID
<1>2. /\ Sound(tree) /\ Once(tree) /\ highestUID \in 0 .. MaxUID
      /\ tree \in [Dirs -> Directories \cup {None}] /\ n \in Parts
  BY DEF NamesInv, IInv, Sound, Parts
<1>3. /\ Shape(tree) /\ p \in Routes /\ Leads(tree, p, c) /\ Ent(tree, p, Root)
      /\ c \in LiveIn(tree) /\ c \in Live
  BY RequestLeads
<1>4. highestUID \in Nat /\ highestUID + 1 \in 1 .. MaxUID
  BY <1>1, <1>2, MaxUIDAssumption
<1>5. f \in Files /\ f.name = n /\ f.uid = highestUID + 1
  BY <1>4 DEF NewFile, NextFileUID, Files
<1>6. NoEntryNamed(tree, c, n)
  BY <1>1, <1>2, NameIsFree
<1> HIDE DEF c, f
<1>7. fs \in Seq(Files)
  BY <1>2, <1>3, <1>5, ChildrenOf, AppendProperties
<1>8. fs = Append(tree[c].files, f)
  OBVIOUS
<1> HIDE DEF fs
<1>9. Refiled(tree, c, fs, u)
  BY <1>2, <1>3, <1>7, SetFiles
<1> DEFINE e == highestUID + 1
<1>e. e = highestUID + 1
  OBVIOUS
<1> HIDE DEF u, e
<1>10. FilePutIn(tree, u, c, n, e)
  BY <1>e, <1>3, <1>5, <1>8, <1>9, HeldMore
<1>11. PathsKept(tree, u)
  BY <1>3, <1>9, RefiledRoutes
<1>12. EntryPut(tree, u, Append(p, n), e)
  <2>1. /\ Shape(tree) /\ p \in Routes /\ Leads(tree, p, c) /\ n \in Parts
        /\ PathsKept(tree, u)
        /\ FilePutIn(tree, u, c, n, e)
    BY <1>2, <1>3, <1>10, <1>11
  <2>. QED  BY ONLY <2>1, EntPut
<1>13. \A v : ~Ent(tree, Append(p, n), v)
  BY <1>2, <1>3, <1>6, FreeEntry
<1>14. \A b, x : ~Held(tree, b, x, e)
  <2>1. e \notin 1 .. highestUID
    BY <1>4, <1>e
  <2>. QED  BY <2>1 DEF Numbered
<1>15. e = Root \/ \A r \in Routes : ~Ent(tree, r, e)
  BY <1>14 DEF Ent, Filed
<1>16. PM!Edit(m, k)
  <2>1. IsMap(k, u)
    BY <1>1
  <2>2. /\ IsMap(m, tree) /\ IsMap(k, u) /\ p \in Routes /\ n \in Parts /\ Ent(tree, p, Root)
        /\ \A v : ~Ent(tree, Append(p, n), v)
        /\ e = Root \/ \A r \in Routes : ~Ent(tree, r, e)
        /\ EntryPut(tree, u, Append(p, n), e)
    BY <1>2, <1>3, <1>12, <1>13, <1>15, <2>1
  <2>. QED  BY ONLY <2>2, MapMade
<1>17. Numbered(u, e)
  <2>1. 1 .. highestUID \subseteq 1 .. e /\ e \in 1 .. e
    BY <1>4, <1>e
  <2>. QED  BY <1>10, <2>1 DEF Numbered, FilePutIn
<1>. QED  BY <1>1, <1>e, <1>16, <1>17

LEMMA RemoveFileEdits ==
  ASSUME NamesInv, Numbered(tree, highestUID), NEW p \in DirPaths, NEW n \in Names, RemoveFile(p, n),
         NEW m, NEW k, IsMap(m, tree), IsMap(k, tree')
  PROVE  PM!Edit(m, k) /\ Numbered(tree', highestUID')
<1> DEFINE c  == FindDirectory(p)
           i  == IndexOfFile(c, n)
           fs == RemoveAt(tree[c].files, i)
           u  == [tree EXCEPT ![c].files = fs]
           e  == tree[c].files[i].uid
<1>1. i # 0 /\ highestUID' = highestUID /\ tree' = u
  BY DEF RemoveFile
<1>2. Sound(tree) /\ tree \in [Dirs -> Directories \cup {None}] /\ n \in Parts
  BY DEF NamesInv, IInv, Sound, Parts
<1>3. /\ Shape(tree) /\ p \in Routes /\ Leads(tree, p, c)
      /\ c \in LiveIn(tree) /\ c \in Live
  BY RequestLeads
<1>4. i \in 0 .. Len(tree[c].files) /\ tree[c].files \in Seq(Files) /\ Len(tree[c].files) \in Nat
      /\ (i # 0 => FileName(tree, c, i) = n)
  BY <1>2, <1>3, FileFound, ChildrenOf
<1> HIDE DEF c, i
<1>5. i \in 1 .. Len(tree[c].files) /\ FileName(tree, c, i) = n
  BY <1>1, <1>4
<1>6. fs \in Seq(Files)
  BY <1>4, <1>5, Removed
<1>7. fs = RemoveAt(tree[c].files, i)
  OBVIOUS
<1> HIDE DEF fs
<1>8. Refiled(tree, c, fs, u)
  BY <1>2, <1>3, <1>6, SetFiles
<1> HIDE DEF u
<1>9. FileCutFrom(tree, u, c, n)
  BY <1>3, <1>5, <1>7, <1>8, HeldLess
<1>10. PathsKept(tree, u)
  BY <1>3, <1>8, RefiledRoutes
<1>11. Held(tree, c, n, e)
  BY <1>3, <1>5 DEF Held
<1> HIDE DEF e
<1>12. EntryCut(tree, u, Append(p, n))
  BY <1>2, <1>3, <1>9, <1>10, <1>11, EntCut
<1> DEFINE q == Append(p, n)
<1>13. q \in Routes /\ q # <<>> /\ Filed(tree, q, e) /\ Ent(tree, q, e)
  BY <1>2, <1>3, <1>11, FiledOn, AppendProperties DEF Routes, Ent
<1> HIDE DEF q
<1>14. ASSUME NEW x \in Parts, NEW v, Ent(tree, Append(q, x), v)
       PROVE  FALSE
  <2>1. \E d : Leads(tree, q, d)
    <3>1. CASE \E d : Leads(tree, Append(q, x), d)
      BY <1>13, <3>1, LeadsOn
    <3>2. CASE Filed(tree, Append(q, x), v)
      BY <1>13, <3>2, FiledOn
    <3>. QED  BY <1>14, <3>1, <3>2 DEF Ent
  <2>. QED  BY <1>3, <1>13, <2>1, EntryIsOne
<1>15. PM!Edit(m, k)
  <2>1. IsMap(k, u)
    BY <1>1
  <2>2. EntryCut(tree, u, q)
    BY <1>12 DEF q
  <2>. QED  BY <1>13, <1>14, <2>1, <2>2, MapDeleted
<1>16. Numbered(u, highestUID)
  BY <1>9 DEF Numbered, FileCutFrom
<1>. QED  BY <1>1, <1>15, <1>16

LEMMA RenameFileEdits ==
  ASSUME NamesInv, Numbered(tree, highestUID),
         NEW p \in DirPaths, NEW q \in DirPaths, NEW old \in Names, NEW new \in Names,
         RenameFile(p, old, q, new),
         NEW m, NEW k, IsMap(m, tree), IsMap(k, tree')
  PROVE  PM!Edit(m, k) /\ Numbered(tree', highestUID')
<1> DEFINE from == FindDirectory(p)
           to   == FindDirectory(q)
           i    == IndexOfFile(from, old)
           e    == tree[from].files[i].uid
           g    == NewFile(new, e)
           fs   == RemoveAt(tree[from].files, i)
           cut  == [tree EXCEPT ![from].files = fs]
           hs   == Append(cut[to].files, g)
           u    == [cut EXCEPT ![to].files = hs]
<1>1. /\ CanRename(p, old, q, new) /\ i # 0 /\ highestUID' = highestUID /\ tree' = u
      /\ ~IsPrefix(Append(p, old), Append(q, new))
  BY DEF RenameFile, CanRename, NotInside
<1>2. /\ Sound(tree) /\ Once(tree) /\ Distinct(tree) /\ IInv
      /\ tree \in [Dirs -> Directories \cup {None}] /\ old \in Parts /\ new \in Parts
  BY DEF NamesInv, IInv, Sound, Parts
<1>3. /\ Shape(tree) /\ p \in Routes /\ Leads(tree, p, from) /\ q \in Routes /\ Leads(tree, q, to)
      /\ from \in LiveIn(tree) /\ from \in Live /\ to \in LiveIn(tree) /\ Ent(tree, q, Root)
  BY RequestLeads
<1>4. NoEntryNamed(tree, to, new)
  BY <1>1, <1>2, RenameLeads
<1>5. i \in 0 .. Len(tree[from].files) /\ tree[from].files \in Seq(Files)
      /\ Len(tree[from].files) \in Nat /\ (i # 0 => FileName(tree, from, i) = old)
  BY <1>2, <1>3, FileFound, ChildrenOf
<1> HIDE DEF from, to, i
<1>6. i \in 1 .. Len(tree[from].files) /\ FileName(tree, from, i) = old
  BY <1>1, <1>5
<1>7. g \in Files /\ g.name = new /\ g.uid = e
  <2>1. tree[from].files[i] \in Files
    BY <1>5, <1>6, ElementOfSeq
  <2>. QED  BY <2>1 DEF NewFile, Files
<1>8. Held(tree, from, old, e)
  BY <1>3, <1>6 DEF Held
<1> HIDE DEF g, e
<1>9. fs \in Seq(Files)
  BY <1>5, <1>6, Removed
<1>10. fs = RemoveAt(tree[from].files, i)
  OBVIOUS
<1> HIDE DEF fs
<1>11. Refiled(tree, from, fs, cut)
  BY <1>2, <1>3, <1>9, SetFiles
<1>12. cut \in [Dirs -> Directories \cup {None}] /\ LiveIn(cut) = LiveIn(tree)
  BY <1>11 DEF Refiled
<1> HIDE DEF cut
<1>13. Shape(cut)
  <2>1. Sound(cut) /\ Once(cut)
    BY <1>2, <1>11, RefiledShape
  <2>2. Refiled(tree, from, RemoveAt(tree[from].files, i), cut)
    BY <1>10, <1>11
  <2>3. Distinct(cut)
    BY <1>2, <1>3, <1>6, <2>2, FileCut
  <2>. QED  BY <2>1, <2>3 DEF Shape
\* Without the file.
<1>14. FileCutFrom(tree, cut, from, old)
  BY <1>3, <1>6, <1>10, <1>11, HeldLess
<1>15. PathsKept(tree, cut)
  BY <1>3, <1>11, RefiledRoutes
<1>16. EntryCut(tree, cut, Append(p, old))
  BY <1>2, <1>3, <1>8, <1>14, <1>15, EntCut
<1>17. to \in LiveIn(cut) /\ Leads(cut, q, to)
  BY <1>3, <1>12, <1>15 DEF PathsKept
<1>18. hs \in Seq(Files)
  <2>1. cut[to].files \in Seq(Files)
    BY <1>13, <1>17, ChildrenOf DEF Shape
  <2>. QED  BY <1>7, <2>1, AppendProperties
<1>19. hs = Append(cut[to].files, g)
  OBVIOUS
<1> HIDE DEF hs
<1>20. Refiled(cut, to, hs, u)
  BY <1>12, <1>17, <1>18, SetFiles
<1> HIDE DEF u
\* And with it at its new place.
<1>21. FilePutIn(cut, u, to, new, e)
  BY <1>7, <1>13, <1>17, <1>19, <1>20, HeldMore
<1>22. PathsKept(cut, u)
  BY <1>13, <1>17, <1>20, RefiledRoutes
<1>23. EntryPut(cut, u, Append(q, new), e)
  <2>1. /\ Shape(cut) /\ q \in Routes /\ Leads(cut, q, to) /\ new \in Parts
        /\ PathsKept(cut, u)
        /\ FilePutIn(cut, u, to, new, e)
    BY <1>2, <1>3, <1>13, <1>17, <1>21, <1>22
  <2>. QED  BY ONLY <2>1, EntPut
<1> DEFINE P == Append(p, old)
           Q == Append(q, new)
<1>24. /\ P \in Routes /\ P # <<>> /\ Filed(tree, P, e) /\ Ent(tree, P, e) /\ Q \in Routes
  BY <1>2, <1>3, <1>8, FiledOn, AppendProperties DEF Routes, Ent
<1>25. (\A v : ~Ent(tree, Q, v)) /\ ~IsPrefix(P, Q)
  BY <1>1, <1>2, <1>3, <1>4, FreeEntry
<1>26. \A r \in Routes : \A v : Ent(u, r, v) <=> (Ent(tree, r, v) /\ r # P) \/ (r = Q /\ v = e)
  BY <1>16, <1>23 DEF EntryCut, EntryPut
<1> HIDE DEF P, Q
\* Nothing is below a file, and nothing at or below where nothing was.
<1>27. \A v : Ent(tree, P, v) <=> v = e
  BY <1>3, <1>24, EntryIsOne
<1>28. ASSUME NEW r \in Routes, NEW v, Ent(tree, r, v), IsPrefix(P, r), r # P
       PROVE  FALSE
  <2>1. \E c : Leads(tree, P, c)
    BY <1>24, <1>28, EntryAbove
  <2>. QED  BY <1>3, <1>24, <2>1, EntryIsOne
<1>29. ASSUME NEW r \in Routes, NEW v, Ent(tree, r, v), IsPrefix(Q, r)
       PROVE  FALSE
  <2>1. Q # r
    BY <1>25, <1>29
  <2>2. \E c : Leads(tree, Q, c)
    BY <1>24, <1>29, <2>1, EntryAbove
  <2>. QED  BY <1>25, <2>2 DEF Ent
<1>30. \A r \in Routes : ~IsPrefix(Q, r) => \A v : Ent(u, r, v) <=> Ent(tree, r, v) /\ ~IsPrefix(P, r)
  <2>1. IsPrefix(P, P) /\ IsPrefix(Q, Q)
    <3>1. <<>> \in Routes /\ P \o <<>> = P /\ Q \o <<>> = Q
      BY <1>24, EmptySeq, ConcatEmptySeq DEF Routes
    <3>2. IsPrefix(P, P \o <<>>) /\ IsPrefix(Q, Q \o <<>>)
      BY <1>24, <3>1, RouteFacts
    <3>. QED  BY <3>1, <3>2
  <2>. QED  BY <1>26, <1>28, <2>1
<1>31. ASSUME NEW x \in Routes, NEW v
       PROVE  Ent(u, Q \o x, v) <=> Ent(tree, P \o x, v)
  <2>1. /\ P \o x \in Routes /\ IsPrefix(P, P \o x) /\ Q \o x \in Routes /\ IsPrefix(Q, Q \o x)
    BY <1>24, RouteFacts
  <2>2. P \o <<>> = P /\ Q \o <<>> = Q
    BY <1>24, ConcatEmptySeq DEF Routes
  <2>3. CASE x = <<>>
    BY <1>24, <1>25, <1>26, <1>27, <2>2, <2>3
  <2>4. CASE x # <<>>
    <3>1. Behind(P, P \o x) = x /\ Behind(Q, Q \o x) = x
      BY <1>24, BehindPrefix DEF Routes
    <3>2. Behind(P, P \o <<>>) = <<>> /\ Behind(Q, Q \o <<>>) = <<>>
      BY <1>24, EmptySeq, BehindPrefix DEF Routes
    <3>3. P \o x # P /\ Q \o x # Q
      BY <2>2, <2>4, <3>1, <3>2
    <3>4. ~Ent(tree, P \o x, v) /\ ~Ent(tree, Q \o x, v)
      BY <1>28, <1>29, <2>1, <3>3
    <3>. QED  BY <1>26, <2>1, <3>3, <3>4
  <2>. QED  BY <2>3, <2>4
<1>32. PM!Edit(m, k)
  <2>1. IsMap(k, u)
    BY <1>1
  <2>2. /\ \A v : ~Ent(tree, Append(q, new), v)
        /\ ~IsPrefix(P, Append(q, new))
        /\ EntriesMoved(tree, u, P, Append(q, new))
    BY <1>25, <1>30, <1>31 DEF EntriesMoved, Q
  <2>. QED  BY <1>3, <1>24, <2>1, <2>2, MapRenamed
<1>33. Numbered(u, highestUID)
  BY <1>8, <1>14, <1>21 DEF Numbered, FilePutIn, FileCutFrom
<1>. QED  BY <1>1, <1>32, <1>33

\* A slice is edited: names and files stay.
LEMMA RelistedFiles ==
  ASSUME NEW t, NEW c, NEW ds, NEW u, Relisted(t, c, ds, u)
  PROVE  /\ \A b, n, v : Held(u, b, n, v) <=> Held(t, b, n, v)
         /\ \A b \in LiveIn(t) : u[b].name = t[b].name
<1>1. LiveIn(u) = LiveIn(t) /\ \A b \in LiveIn(t) : u[b].files = t[b].files /\ u[b].name = t[b].name
  BY DEF Relisted
<1>. QED  BY <1>1, HeldSame

LEMMA MkdirEdits ==
  ASSUME NamesInv, Numbered(tree, highestUID), NEW p \in DirPaths, NEW n \in Names, Mkdir(p, n),
         NEW m, NEW k, IsMap(m, tree), IsMap(k, tree')
  PROVE  PM!Edit(m, k) /\ Numbered(tree', highestUID')
<1> DEFINE c == FindDirectory(p)
<1>1. n # FlushName /\ ~HasEntry(c, n) /\ highestUID' = highestUID
  BY DEF Mkdir
<1>2. PICK e \in Dirs \ Live :
        tree' = [tree EXCEPT ![c].dirs = Append(@, e), ![e] = NewDirectory(n)]
  BY DEF Mkdir
<1>3. /\ Sound(tree) /\ Once(tree) /\ tree \in [Dirs -> Directories \cup {None}] /\ n \in Parts
  BY DEF NamesInv, IInv, Sound, Parts
<1>4. /\ Shape(tree) /\ p \in Routes /\ Leads(tree, p, c) /\ Ent(tree, p, Root)
      /\ c \in LiveIn(tree) /\ c \in Live
  BY RequestLeads
<1>5. e \in Dirs \ LiveIn(tree) /\ e \in Dirs /\ c \in Dirs /\ c # e /\ e \notin LiveIn(tree)
  BY <1>2, <1>4 DEF Live, LiveIn
<1>6. NoEntryNamed(tree, c, n)
  BY <1>1, <1>3, NameIsFree
<1> HIDE DEF c
<1> DEFINE mid == [tree EXCEPT ![e] = NewDirectory(n)]
           ds  == Append(tree[c].dirs, e)
           u   == [mid EXCEPT ![c].dirs = ds]
<1>7. tree' = u
  <2>1. u = [d \in Dirs |-> IF d = c THEN [tree[c] EXCEPT !.dirs = ds]
                            ELSE IF d = e THEN NewDirectory(n) ELSE tree[d]]
    BY <1>3, <1>5
  <2>2. tree' = [d \in Dirs |-> IF d = c THEN [tree[c] EXCEPT !.dirs = ds]
                                ELSE IF d = e THEN NewDirectory(n) ELSE tree[d]]
    BY <1>2, <1>3, <1>5
  <2>. QED  BY <2>1, <2>2
<1>8. /\ Sound(mid) /\ Once(mid)
      /\ LiveIn(mid) = LiveIn(tree) \cup {e} /\ mid[e] = NewDirectory(n)
      /\ \A b \in LiveIn(tree) : mid[b] = tree[b] /\ b # e
  BY <1>3, <1>5, MadeDir
<1> HIDE DEF mid
<1>9. c \in LiveIn(mid) /\ e \in LiveIn(mid) /\ mid \in [Dirs -> Directories \cup {None}]
      /\ mid[c] = tree[c] /\ mid[e].name = n
  BY <1>4, <1>8 DEF Sound, NewDirectory
<1>10. ds \in Seq(Dirs) /\ ds = Append(mid[c].dirs, e)
  <2>1. tree[c].dirs \in Seq(Dirs)
    BY <1>3, <1>4, ChildrenOf
  <2>. QED  BY <1>5, <1>9, <2>1, AppendProperties
<1> HIDE DEF ds
<1>11. Relisted(mid, c, ds, u)
  BY <1>9, <1>10, SetDirs
<1> HIDE DEF u
<1>12. With(mid, c, e, u)
  BY <1>10, <1>11 DEF With, Relisted
\* The new directory lists nothing, and the others what they listed.
<1>13. mid[e].dirs = <<>> /\ mid[e].files = <<>> /\ \A i : i \notin 1 .. Len(<<>>)
  BY <1>8, EmptySeq DEF NewDirectory
<1>14. \A b, x, y : Edge(mid, b, x, y) <=> Edge(tree, b, x, y)
  <2>1. \A b \in LiveIn(tree) : \A i \in 1 .. Len(tree[b].dirs) : DirName(mid, b, i) = DirName(tree, b, i)
    <3>1. \A b \in LiveIn(tree) : \A i \in 1 .. Len(tree[b].dirs) : tree[b].dirs[i] \in LiveIn(tree)
      BY <1>3, ChildrenOf
    <3>. QED  BY <1>8, <3>1 DEF DirName
  <2>2. \A b \in LiveIn(tree) : \A x, y : Edge(mid, b, x, y) <=> Edge(tree, b, x, y)
    BY <1>8, <2>1 DEF Edge
  <2>3. \A x, y : ~Edge(mid, e, x, y)
    BY <1>13 DEF Edge
  <2>4. \A b, x, y : /\ Edge(mid, b, x, y) => b = e \/ b \in LiveIn(tree)
                     /\ Edge(tree, b, x, y) => b \in LiveIn(tree)
    BY <1>8 DEF Edge
  <2>. QED  BY <2>2, <2>3, <2>4
<1>15. \A b, x, v : Held(mid, b, x, v) <=> Held(tree, b, x, v)
  <2>1. \A b \in LiveIn(tree) : \A x, v : Held(mid, b, x, v) <=> Held(tree, b, x, v)
    BY <1>8 DEF Held, FileName
  <2>2. \A x, v : ~Held(mid, e, x, v)
    BY <1>13 DEF Held
  <2>3. \A b, x, v : /\ Held(mid, b, x, v) => b = e \/ b \in LiveIn(tree)
                     /\ Held(tree, b, x, v) => b \in LiveIn(tree)
    BY <1>8 DEF Held
  <2>. QED  BY <2>1, <2>2, <2>3
<1>16. /\ \A b, x, v : Held(u, b, x, v) <=> Held(mid, b, x, v)
       /\ \A b \in LiveIn(mid) : u[b].name = mid[b].name
  BY <1>11, RelistedFiles
<1>17. \A b, x, y : Edge(u, b, x, y) <=> Edge(mid, b, x, y) \/ (b = c /\ x = n /\ y = e)
  BY <1>8, <1>9, <1>12, <1>16, EdgeMore
<1>18. \A b, x, y : Edge(u, b, x, y) <=> Edge(tree, b, x, y) \/ (b = c /\ x = n /\ y = e)
  BY <1>14, <1>17
<1>19. \A b, x, v : Held(u, b, x, v) <=> Held(tree, b, x, v)
  BY <1>15, <1>16
<1>20. EntryPut(tree, u, Append(p, n), Root)
  BY <1>3, <1>4, <1>5, <1>18, <1>19, EntDirPut
<1>21. \A v : ~Ent(tree, Append(p, n), v)
  BY <1>3, <1>4, <1>6, FreeEntry
<1>22. PM!Edit(m, k)
  <2>1. IsMap(k, u)
    BY <1>7
  <2>. QED  BY <1>3, <1>4, <1>20, <1>21, <2>1, MapMade
<1>23. Numbered(u, highestUID)
  BY <1>19 DEF Numbered
<1>. QED  BY <1>1, <1>7, <1>22, <1>23

LEMMA RemoveDirEdits ==
  ASSUME NamesInv, Numbered(tree, highestUID), NEW p \in DirPaths, NEW n \in Names, RemoveDir(p, n),
         NEW m, NEW k, IsMap(m, tree), IsMap(k, tree')
  PROVE  PM!Edit(m, k) /\ Numbered(tree', highestUID')
<1> DEFINE c  == FindDirectory(p)
           i  == IndexOfDir(c, n)
           d  == tree[c].dirs[i]
           ds == RemoveAt(tree[c].dirs, i)
           u  == [tree EXCEPT ![c].dirs = ds]
<1>1. i # 0 /\ IsEmpty(d) /\ highestUID' = highestUID /\ tree' = Saved(u)
  BY DEF RemoveDir
<1>2. Sound(tree) /\ Once(tree) /\ tree \in [Dirs -> Directories \cup {None}] /\ n \in Parts
  BY DEF NamesInv, IInv, Sound, Parts
<1>3. /\ Shape(tree) /\ p \in Routes /\ Leads(tree, p, c)
      /\ c \in LiveIn(tree) /\ c \in Live
  BY RequestLeads
<1>4. /\ i \in 0 .. Len(tree[c].dirs) /\ tree[c].dirs \in Seq(Dirs) /\ Len(tree[c].dirs) \in Nat
      /\ (i # 0 => DirName(tree, c, i) = n)
  BY <1>2, <1>3, DirFound, ChildrenOf
<1> HIDE DEF c, i
<1>5. i \in 1 .. Len(tree[c].dirs) /\ DirName(tree, c, i) = n
  BY <1>1, <1>4
<1>6. Edge(tree, c, n, d)
  BY <1>3, <1>5 DEF Edge
<1>7. (\A x, y : ~Edge(tree, d, x, y)) /\ (\A x, v : ~Held(tree, d, x, v))
  <2>1. tree[d].dirs = <<>> /\ tree[d].files = <<>> /\ \A j : j \notin 1 .. Len(<<>>)
    BY <1>1, EmptySeq DEF IsEmpty
  <2>. QED  BY <2>1 DEF Edge, Held
<1>8. ds \in Seq(Dirs)
  BY <1>4, <1>5, Removed
<1>9. ds = RemoveAt(tree[c].dirs, i) /\ d = tree[c].dirs[i]
  OBVIOUS
<1> HIDE DEF ds, d
<1>10. Relisted(tree, c, ds, u)
  BY <1>2, <1>3, <1>8, SetDirs
<1> HIDE DEF u
<1>11. Without(tree, c, i, u)
  BY <1>9, <1>10 DEF Without, Relisted
<1>12. Sound(u)
  BY <1>2, <1>3, <1>5, <1>11, WithoutShape
<1>13. /\ \A b, x, v : Held(u, b, x, v) <=> Held(tree, b, x, v)
       /\ \A b \in LiveIn(tree) : u[b].name = tree[b].name
  BY <1>10, RelistedFiles
<1>14. \A b, x, y : Edge(u, b, x, y) <=> Edge(tree, b, x, y) /\ y # d
  BY <1>3, <1>5, <1>9, <1>11, <1>13, EdgeLess
<1>15. EntryCut(tree, u, Append(p, n))
  BY <1>2, <1>3, <1>6, <1>7, <1>13, <1>14, EntDirCut
<1> DEFINE q == Append(p, n)
           s == Saved(u)
<1>16. q \in Routes /\ q # <<>> /\ Leads(tree, q, d) /\ Ent(tree, q, Root)
  <2>1. q \in Routes /\ q # <<>>
    BY <1>2, <1>3, AppendProperties DEF Routes
  <2>2. Leads(tree, q, d)
    BY <1>2, <1>3, <1>6, LeadsOn
  <2>. QED  BY <2>1, <2>2 DEF Ent
<1>17. EntryCut(tree, s, q)
  BY <1>12, <1>15, SavedEntries DEF EntryCut
<1>18. tree' = s
  BY <1>1
<1> HIDE DEF q, s
<1>19. ASSUME NEW x \in Parts, NEW v, Ent(tree, Append(q, x), v)
       PROVE  FALSE
  <2>1. \A b : Leads(tree, q, b) => b = d
    BY <1>3, <1>16, OneRoute
  <2>2. CASE \E y : Leads(tree, Append(q, x), y)
    <3>1. \E y : \E b : Leads(tree, q, b) /\ Edge(tree, b, x, y)
      BY <1>16, <2>2, LeadsOn
    <3>. QED  BY <1>7, <2>1, <3>1
  <2>3. CASE Filed(tree, Append(q, x), v)
    <3>1. \E b : Leads(tree, q, b) /\ Held(tree, b, x, v)
      BY <1>16, <2>3, FiledOn
    <3>. QED  BY <1>7, <2>1, <3>1
  <2>. QED  BY <1>19, <2>2, <2>3 DEF Ent
<1>20. PM!Edit(m, k)
  <2>1. IsMap(k, s)
    BY <1>18
  <2>. QED  BY <1>16, <1>17, <1>19, <2>1, MapDeleted
<1>21. Numbered(s, highestUID)
  <2>1. Numbered(u, highestUID)
    BY <1>13 DEF Numbered
  <2>. QED  BY <1>12, <2>1, NumberedSaved DEF s
<1>. QED  BY <1>1, <1>18, <1>20, <1>21

LEMMA RenameDirEdits ==
  ASSUME ~LaterSibling, NamesInv, Numbered(tree, highestUID),
         NEW p \in DirPaths, NEW q \in DirPaths, NEW old \in Names, NEW new \in Names,
         RenameDir(p, old, q, new),
         NEW m, NEW k, IsMap(m, tree), IsMap(k, tree')
  PROVE  PM!Edit(m, k) /\ Numbered(tree', highestUID')
<1> DEFINE from == FindDirectory(p)
           to   == FindDirectory(q)
           i    == IndexOfDir(from, old)
           d    == tree[from].dirs[i]
           cut  == [tree EXCEPT ![from].dirs = RemoveAt(@, i), ![d].name = new]
           put  == [cut EXCEPT ![to].dirs = Append(@, d)]
<1>1. /\ Sound(tree) /\ Once(tree) /\ tree \in [Dirs -> Directories \cup {None}]
      /\ old \in Parts /\ new \in Parts /\ IInv
  BY DEF NamesInv, IInv, Sound, Parts
<1>2. /\ Shape(tree) /\ p \in Routes /\ Leads(tree, p, from) /\ q \in Routes /\ Leads(tree, q, to)
      /\ from \in LiveIn(tree) /\ from \in Live /\ to \in LiveIn(tree) /\ to \in Live
      /\ Ent(tree, q, Root)
  BY RequestLeads, SMTT(30)
<1>3. /\ CanRename(p, old, q, new) /\ i # 0 /\ tree' = Saved(put) /\ highestUID' = highestUID
      /\ ~IsPrefix(Append(p, old), Append(q, new))
  <2> DEFINE land == Landing(from, i, to)
  <2>1. /\ CanRename(p, old, q, new) /\ i # 0 /\ land = to /\ highestUID' = highestUID
        /\ tree' = IF land = None THEN Saved(cut) ELSE Saved([cut EXCEPT ![land].dirs = Append(@, d)])
    BY DEF RenameDir
  <2> HIDE DEF land
  <2>2. to # None
    BY <1>2, RootAssumption, SMTT(30) DEF Live
  <2>3. tree' = Saved(put)
    BY <2>1, <2>2, ZenonT(60)
  <2>. QED  BY <2>1, <2>3, ZenonT(60) DEF CanRename, NotInside
<1>4. NoEntryNamed(tree, to, new)
  BY <1>1, <1>3, RenameLeads
<1>5. /\ i \in 0 .. Len(tree[from].dirs) /\ tree[from].dirs \in Seq(Dirs)
      /\ Len(tree[from].dirs) \in Nat /\ (i # 0 => DirName(tree, from, i) = old)
  BY <1>1, <1>2, DirFound, ChildrenOf, SMTT(30)
<1> HIDE DEF from, to, i
<1>6. i \in 1 .. Len(tree[from].dirs) /\ DirName(tree, from, i) = old
  <2> DEFINE n == Len(tree[from].dirs)
  <2>1. n \in Nat /\ i \in 0 .. n /\ i # 0
    BY <1>3, <1>5
  <2> HIDE DEF n
  <2>2. i \in 1 .. n
    BY <2>1
  <2>. QED  BY <1>3, <1>5, <2>2, ZenonT(60) DEF n
<1>7. d \in LiveIn(tree) /\ d \in Dirs /\ d # Root
  BY <1>1, <1>2, <1>6, ChildrenOf DEF Once
<1>8. Edge(tree, from, old, d)
  BY <1>2, <1>6 DEF Edge
<1> DEFINE ds  == RemoveAt(tree[from].dirs, i)
           mid == [tree EXCEPT ![from].dirs = ds]
           es  == Append(cut[to].dirs, d)
<1>9. ds \in Seq(Dirs) /\ ds = RemoveAt(tree[from].dirs, i)
  BY <1>5, <1>6, Removed
<1>10. d = tree[from].dirs[i]
  OBVIOUS
<1> HIDE DEF d
<1>11. cut = [mid EXCEPT ![d].name = new]
  OBVIOUS
<1> HIDE DEF ds
<1>12. Relisted(tree, from, ds, mid)
  BY <1>1, <1>2, <1>9, SetDirs
<1>13. mid \in [Dirs -> Directories \cup {None}] /\ d \in LiveIn(mid)
  BY <1>7, <1>12 DEF Relisted
<1> HIDE DEF mid, cut
<1>14. Renamed(mid, d, new, cut)
  BY <1>11, <1>13, SetName
<1>15. Without(tree, from, i, cut)
  BY <1>2, <1>9, <1>12, <1>14 DEF Without, Relisted, Renamed
<1>16. /\ Sound(cut) /\ Once(cut) /\ LiveIn(cut) = LiveIn(tree)
       /\ \A b \in LiveIn(cut) : \A j \in 1 .. Len(cut[b].dirs) : cut[b].dirs[j] # d
  BY <1>1, <1>2, <1>6, <1>10, <1>15, WithoutShape DEF Without
<1>17. /\ \A b \in LiveIn(tree) : cut[b].files = tree[b].files
       /\ \A b \in LiveIn(tree) : b # d => cut[b].name = tree[b].name
       /\ cut[d].name = new
  BY <1>12, <1>14 DEF Relisted, Renamed
\* Taken out of the old slice.
<1>18. \A b, n, x : Edge(cut, b, n, x) <=> Edge(tree, b, n, x) /\ x # d
  BY <1>2, <1>6, <1>10, <1>15, <1>17, EdgeLess
<1>19. \A b, n, v : Held(cut, b, n, v) <=> Held(tree, b, n, v)
  BY <1>16, <1>17, HeldSame
<1>20. to \in LiveIn(cut) /\ d \in LiveIn(cut) /\ Unlisted(cut, d)
  BY <1>2, <1>7, <1>16 DEF Unlisted
<1>21. es \in Seq(Dirs) /\ es = Append(cut[to].dirs, d)
  BY <1>7, <1>16, <1>20, ChildrenOf, AppendProperties
<1>22. put = [cut EXCEPT ![to].dirs = es]
  OBVIOUS
<1> HIDE DEF es, put
<1>23. Relisted(cut, to, es, put)
  BY <1>16, <1>20, <1>21, <1>22, SetDirs DEF Sound
<1>24. With(cut, to, d, put)
  BY <1>21, <1>23 DEF With, Relisted
<1>25. Sound(put)
  BY <1>7, <1>16, <1>20, <1>24, WithShape
<1>26. /\ \A b, n, v : Held(put, b, n, v) <=> Held(cut, b, n, v)
       /\ \A b \in LiveIn(cut) : put[b].name = cut[b].name
  BY <1>23, RelistedFiles
\* And put into the new one.
<1>27. \A b, n, x : Edge(put, b, n, x) <=> Edge(cut, b, n, x) \/ (b = to /\ n = new /\ x = d)
  BY <1>16, <1>17, <1>20, <1>24, <1>26, EdgeMore
<1>28. Moved(tree, put, d, to, new)
  BY <1>18, <1>19, <1>26, <1>27 DEF Moved
<1> DEFINE P == Append(p, old)
           s == Saved(put)
<1>29. /\ \A x : ~Edge(tree, to, new, x)
       /\ \A v : ~Held(tree, to, new, v)
       /\ \A v : ~Ent(tree, Append(q, new), v)
  BY <1>1, <1>2, <1>4, FreeEntry
<1>30. EntriesMoved(tree, put, P, Append(q, new))
  <2>1. /\ Shape(tree) /\ p \in Routes /\ old \in Parts /\ Leads(tree, p, from) /\ Edge(tree, from, old, d)
        /\ q \in Routes /\ new \in Parts /\ Leads(tree, q, to)
        /\ (\A x : ~Edge(tree, to, new, x)) /\ (\A v : ~Held(tree, to, new, v))
        /\ ~IsPrefix(Append(p, old), Append(q, new)) /\ Moved(tree, put, d, to, new)
    BY <1>1, <1>2, <1>3, <1>8, <1>28, <1>29
  <2>. QED  BY ONLY <2>1, EntDirMove
<1>31. EntriesMoved(tree, s, P, Append(q, new))
  <2>1. \A r \in Routes : \A v : Ent(s, r, v) <=> Ent(put, r, v)
    BY <1>25, SavedEntries
  <2>2. \A r \in Routes : Append(q, new) \o r \in Routes
    BY <1>1, <1>2, AppendProperties, ConcatProperties DEF Routes
  <2> HIDE DEF s, P
  <2>. QED  BY <1>30, <2>1, <2>2 DEF EntriesMoved
<1>32. P \in Routes /\ P # <<>> /\ Leads(tree, P, d) /\ Ent(tree, P, Root) /\ ~IsPrefix(P, Append(q, new))
  BY <1>1, <1>2, <1>3, <1>8, LeadsOn, AppendProperties DEF Routes, Ent
<1>33. tree' = s
  BY <1>3
<1> HIDE DEF P, s
<1>34. PM!Edit(m, k)
  <2>1. IsMap(k, s)
    BY <1>33
  <2>. QED  BY <1>2, <1>29, <1>31, <1>32, <2>1, MapRenamed
<1>35. Numbered(s, highestUID)
  <2>1. Numbered(put, highestUID)
    BY <1>19, <1>26 DEF Numbered
  <2>. QED  BY <1>25, <2>1, NumberedSaved DEF s
<1>. QED  BY <1>3, <1>33, <1>34, <1>35

LEMMA OneMap ==
  ASSUME NEW t, NEW m, NEW n, IsMap(m, t), IsMap(n, t)
  PROVE  n = m
<1>1. DOMAIN n = DOMAIN m /\ \A p \in DOMAIN m : n[p] = m[p]
  BY DEF IsMap
<1>2. m = [p \in DOMAIN m |-> m[p]] /\ n = [p \in DOMAIN n |-> n[p]]
  BY DEF IsMap
<1>. QED  BY <1>1, <1>2

\* A step of the tree is an edit of its map, or none.
LEMMA EditStep ==
  ASSUME ~LaterSibling, NamesInv, Numbered(tree, highestUID),
         IsMap(Entries, tree), IsMap(Entries', tree'), [Next]_vars
  PROVE  (PM!Next \/ Entries' = Entries) /\ Numbered(tree', highestUID')
<1> DEFINE Step == PM!Edit(Entries, Entries') /\ Numbered(tree', highestUID')
<1>1. ASSUME NEW p \in DirPaths, NEW n \in Names, Create(p, n)
      PROVE  Step
  BY <1>1, CreateEdits
<1>2. ASSUME NEW p \in DirPaths, NEW n \in Names, Mkdir(p, n)
      PROVE  Step
  BY <1>2, MkdirEdits
<1>3. ASSUME NEW p \in DirPaths, NEW n \in Names, RemoveFile(p, n)
      PROVE  Step
  BY <1>3, RemoveFileEdits
<1>4. ASSUME NEW p \in DirPaths, NEW n \in Names, RemoveDir(p, n)
      PROVE  Step
  BY <1>4, RemoveDirEdits
<1>5. ASSUME NEW p \in DirPaths, NEW q \in DirPaths, NEW old \in Names, NEW new \in Names,
             RenameFile(p, old, q, new)
      PROVE  Step
  BY <1>5, RenameFileEdits
<1>6. ASSUME NEW p \in DirPaths, NEW q \in DirPaths, NEW old \in Names, NEW new \in Names,
             RenameDir(p, old, q, new)
      PROVE  Step
  BY <1>6, RenameDirEdits
<1>7. CASE UNCHANGED vars
  <2>1. tree' = tree /\ highestUID' = highestUID
    BY <1>7 DEF vars
  <2>2. Entries' = Entries
    BY <2>1, OneMap
  <2>. QED  BY <2>1, <2>2
<1>8. CASE Next
  <2>1. ASSUME Step
        PROVE  PM!Next
    BY <2>1 DEF PM!Next
  <2> SUFFICES Step
    BY <2>1
  <2> HIDE DEF Step
  <2>2. CASE \E p \in DirPaths, n \in Names :
               Create(p, n) \/ Mkdir(p, n) \/ RemoveFile(p, n) \/ RemoveDir(p, n)
    BY <1>1, <1>2, <1>3, <1>4, <2>2
  <2>3. CASE \E p, q \in DirPaths, old, new \in Names :
               RenameFile(p, old, q, new) \/ RenameDir(p, old, q, new)
    BY <1>5, <1>6, <2>3
  <2>. QED  BY <1>8, <2>2, <2>3 DEF Next
<1>. QED  BY <1>7, <1>8

LEMMA InitEntries ==
  ASSUME Init
  PROVE  PM!Init /\ Numbered(tree, highestUID)
<1>1. NamesInv
  BY InitIInv DEF NamesInv
<1>2. IsMap(Entries, tree)
  BY <1>1, EntriesAreMap
<1>3. Shape(tree)
  BY <1>1 DEF NamesInv, IInv, Shape
<1>4. LiveIn(tree) = {Root} /\ tree[Root].dirs = <<>> /\ tree[Root].files = <<>>
  <2>1. tree[Root] = NewDirectory(None) /\ \A d \in Dirs : d # Root => tree[d] = None
    BY RootAssumption DEF Init
  <2>2. Root \in LiveIn(tree)
    BY <1>3 DEF Shape, Sound, HoldsRoot
  <2>. QED  BY <2>1, <2>2 DEF LiveIn, NewDirectory
<1>5. Len(<<>>) = 0 /\ \A i : i \notin 1 .. 0
  BY EmptySeq
<1>6. /\ \A c, n, d : ~Edge(tree, c, n, d)
      /\ \A c, n, u : ~Held(tree, c, n, u)
  BY <1>4, <1>5 DEF Edge, Held
<1>7. ASSUME NEW p \in Routes, NEW n \in Parts, NEW v
      PROVE  ~Ent(tree, Append(p, n), v)
  <2>1. \A d : ~Leads(tree, Append(p, n), d)
    BY <1>6, LeadsOn
  <2>2. \A u : ~Filed(tree, Append(p, n), u)
    BY <1>6, FiledOn
  <2>. QED  BY <2>1, <2>2 DEF Ent
<1>8. ASSUME NEW p \in Routes, NEW v, Ent(tree, p, v)
      PROVE  p = <<>>
  <2>1. p # <<>> => \E r \in Routes, n \in Parts : p = Append(r, n)
    BY SequenceEmptyOrAppend DEF Routes
  <2>. QED  BY <1>7, <1>8, <2>1
<1>9. Ent(tree, <<>>, Root) /\ <<>> \in Routes
  BY LeadsRoot, EmptySeq DEF Ent, Routes
<1>10. DOMAIN Entries = {<<>>} /\ Entries[<<>>] = Root
  <2>1. /\ DOMAIN Entries \subseteq Routes
        /\ \A p \in Routes : \A v : Ent(tree, p, v) <=> p \in DOMAIN Entries /\ Entries[p] = v
    BY <1>2 DEF IsMap
  <2>. QED  BY <1>8, <1>9, <2>1
<1>11. Entries = [p \in DOMAIN Entries |-> Entries[p]]
  BY <1>2 DEF IsMap
<1>12. Entries = [p \in {<<>>} |-> Root]
  BY <1>10, <1>11
<1>. QED  BY <1>6, <1>12 DEF PM!Init, Numbered

\* The map from paths to entries is the one a mounted letter promises: a handler that
\* changes it makes, deletes or renames the one entry its request names, with what is
\* below it, and leaves every other path alone (README.mkd, "create, read, rename and
\* delete operations are fully supported").
THEOREM EveryEditIsOnePath ==
  ASSUME ~LaterSibling
  PROVE  Spec => PathMapSpec
<1> DEFINE Uids == Numbered(tree, highestUID)
           Map  == IsMap(Entries, tree)
<1>1. Init => NamesInv /\ Uids /\ PM!Init
  BY InitIInv, InitEntries DEF NamesInv
<1>2. NamesInv /\ [Next]_vars => NamesInv'
  BY InvariantStep DEF NamesInv
<1>3. NamesInv => Map
  BY EntriesAreMap
<1>4. NamesInv /\ Uids /\ Map /\ Map' /\ [Next]_vars => (PM!Next \/ Entries' = Entries) /\ Uids'
  <2> SUFFICES ASSUME NamesInv, Uids, Map, Map', [Next]_vars
               PROVE  (PM!Next \/ Entries' = Entries) /\ Uids'
    OBVIOUS
  <2>1. IsMap(Entries, tree) /\ IsMap(Entries', tree') /\ Numbered(tree, highestUID)
    OBVIOUS
  <2>. QED  BY <2>1, EditStep
<1>5. NamesInv /\ Uids /\ NamesInv' /\ [Next]_vars => [PM!Next]_Entries /\ Uids'
  <2> HIDE DEF Uids, Map
  <2>1. NamesInv' => Map'
    BY <1>3, PTL
  <2>. QED  BY <1>3, <1>4, <2>1
<1> HIDE DEF Uids, Map
<1>. QED  BY <1>1, <1>2, <1>5, PTL DEF Spec, PathMapSpec, PM!Spec

=============================================================================
