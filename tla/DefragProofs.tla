---------------------------- MODULE DefragProofs ----------------------------
(***************************************************************************)
(* Theorems about defrag, for every index and data partition the letter    *)
(* can have, the ones earlier failures have left inconsistent included,    *)
(* and for any number of files to move.                                    *)
(***************************************************************************)
EXTENDS Defrag, TapeStoreProofs, FiniteSetTheorems

-----------------------------------------------------------------------------
(***************************************************************************)
(* The first hole.                                                         *)
(***************************************************************************)
LEMMA FirstHole ==
  ASSUME cache \in Indexes, CanDefrag
  PROVE  /\ HoleStart \in 0 .. Len(dataPart)
         /\ \A i \in 1 .. Len(cache.avail) : HoleStart <= cache.avail[i]
<1> DEFINE B == {cache.avail[i] : i \in 1 .. Len(cache.avail)}
<1>1. cache.avail \in Seq(Nat) /\ cache.avail # <<>>
  BY DEF Indexes, CanDefrag
<1>2. 1 \in 1 .. Len(cache.avail)
  BY <1>1, EmptySeq, LenProperties
<1>3. B \in SUBSET Nat /\ B # {}
  BY <1>2, AvailTyped
<1>4. \E b \in B : \A y \in B : b <= y
  <2> HIDE DEF B
  <2>. QED  BY <1>3, Least
<1>5. \E b \in B : \A i \in 1 .. Len(cache.avail) : b <= cache.avail[i]
  BY <1>4
<1>6. HoleStart = CHOOSE b \in B : \A i \in 1 .. Len(cache.avail) : b <= cache.avail[i]
  BY DEF HoleStart
<1>7. HoleStart \in B /\ \A i \in 1 .. Len(cache.avail) : HoleStart <= cache.avail[i]
  <2> HIDE DEF B
  <2>. QED  BY <1>5, <1>6
<1>8. HoleStart <= Len(dataPart) /\ HoleStart \in Nat
  BY <1>3, <1>7 DEF CanDefrag
<1>. QED  BY <1>7, <1>8

-----------------------------------------------------------------------------
(***************************************************************************)
(* The order the files are moved in.                                       *)
(***************************************************************************)
BlockOf(p) == cache.files[p].extent.block

LEMMA MovedTyped ==
  ASSUME cache \in Indexes, NEW p \in ToMove
  PROVE  /\ p \in Paths /\ HasExtent(cache.files[p]) /\ cache.files[p] \in Files
         /\ cache.files[p].extent \in Extents
         /\ BlockOf(p) \in Nat /\ HoleStart <= BlockOf(p)
BY ExtentTyped DEF ToMove, BlockOf

\* The file of lowest block in front of a sorted list of the others.
LEMMA SortedWithFirst ==
  ASSUME cache \in Indexes, NEW T \in SUBSET ToMove, NEW n \in Nat, n # 0,
         NEW x \in T, \A p \in T : BlockOf(x) <= BlockOf(p),
         NEW s \in [1 .. n - 1 -> T \ {x}], InTapeOrder(s)
  PROVE  \E r \in [1 .. n -> T] : InTapeOrder(r)
<1> DEFINE r == [i \in 1 .. n |-> IF i = 1 THEN x ELSE s[i - 1]]
<1>1. \A i \in 1 .. n : i # 1 => i - 1 \in 1 .. n - 1
  OBVIOUS
<1>2. r \in [1 .. n -> T]
  BY <1>1
<1>3. ASSUME NEW i \in 1 .. n, NEW j \in 1 .. n, i < j
      PROVE  r[i] # r[j] /\ BlockOf(r[i]) <= BlockOf(r[j])
  <2>1. r[j] = s[j - 1] /\ j - 1 \in 1 .. n - 1 /\ s[j - 1] \in T \ {x}
    BY <1>1, <1>3
  <2>2. CASE i = 1
    BY <2>1, <2>2
  <2>3. CASE i # 1
    <3>1. r[i] = s[i - 1] /\ i - 1 \in 1 .. n - 1 /\ i - 1 < j - 1
      BY <1>1, <1>3, <2>3
    <3>2. s[i - 1] # s[j - 1] /\ BlockOf(s[i - 1]) <= BlockOf(s[j - 1])
      BY <2>1, <3>1 DEF InTapeOrder, BlockOf
    <3>. QED  BY <2>1, <3>1, <3>2
  <2>. QED  BY <2>2, <2>3
<1>4. InTapeOrder(r)
  <2>1. DOMAIN r = 1 .. n
    OBVIOUS
  <2> HIDE DEF r
  <2>. QED  BY <1>3, <2>1 DEF InTapeOrder, BlockOf
<1>. QED  BY <1>2, <1>4

Sortable(T, n) == \E s \in [1 .. n -> T] : InTapeOrder(s)

LEMMA FilesSortable ==
  ASSUME cache \in Indexes, IsFiniteSet(ToMove)
  PROVE  \A n \in Nat : \A T \in SUBSET ToMove : Cardinality(T) = n => Sortable(T, n)
<1> DEFINE Bad == {n \in Nat : \E T \in SUBSET ToMove : Cardinality(T) = n /\ ~Sortable(T, n)}
<1>1. SUFFICES ASSUME Bad # {} PROVE FALSE
  OBVIOUS
<1>2. PICK n \in Bad : \A m \in Bad : n <= m
  <2>1. Bad \in SUBSET Nat
    OBVIOUS
  <2> HIDE DEF Bad
  <2>. QED  BY <1>1, <2>1, Least
<1>3. n \in Nat
  BY <1>2
<1>4. PICK T \in SUBSET ToMove : Cardinality(T) = n /\ ~Sortable(T, n)
  BY <1>2
<1>5. IsFiniteSet(T)
  BY FS_Subset
<1>6. n # 0
  <2>1. SUFFICES ASSUME n = 0 PROVE FALSE
    OBVIOUS
  <2>2. <<>> \in [1 .. 0 -> T] /\ 1 .. 0 = {} /\ DOMAIN <<>> = {}
    OBVIOUS
  <2>3. InTapeOrder(<<>>)
    BY <2>2 DEF InTapeOrder
  <2>. QED  BY <1>4, <2>1, <2>2, <2>3 DEF Sortable
<1>7. T # {}
  BY <1>4, <1>6, FS_EmptySet
<1> DEFINE B == {BlockOf(p) : p \in T}
<1>8. B \in SUBSET Nat /\ B # {}
  BY <1>7, MovedTyped
<1>9. PICK b \in B : \A y \in B : b <= y
  <2> HIDE DEF B
  <2>. QED  BY <1>8, Least
<1>10. PICK x \in T : \A p \in T : BlockOf(x) <= BlockOf(p)
  BY <1>9
<1>11. n - 1 \in Nat /\ Cardinality(T \ {x}) = n - 1 /\ ~(n <= n - 1)
  <2>1. Cardinality(T \ {x}) = Cardinality(T) - 1
    BY <1>5, FS_RemoveElement
  <2>. QED  BY <1>3, <1>4, <1>6, <2>1
<1>12. n - 1 \notin Bad
  <2> HIDE DEF Bad
  <2>. QED  BY <1>2, <1>11
<1>13. T \ {x} \in SUBSET ToMove
  OBVIOUS
<1>14. Sortable(T \ {x}, n - 1)
  BY <1>11, <1>12, <1>13
<1>15. PICK s \in [1 .. n - 1 -> T \ {x}] : InTapeOrder(s)
  BY <1>14 DEF Sortable
<1>16. Sortable(T, n)
  BY <1>3, <1>6, <1>10, <1>15, SortedWithFirst DEF Sortable
<1>. QED  BY <1>4, <1>16

\* TapeOrder lists every file to move, each once.
LEMMA OrderIsComplete ==
  ASSUME cache \in Indexes
  PROVE  /\ Len(TapeOrder) \in Nat
         /\ \A i \in 1 .. Len(TapeOrder) : TapeOrder[i] \in ToMove
         /\ \A i, j \in 1 .. Len(TapeOrder) : i # j => TapeOrder[i] # TapeOrder[j]
         /\ \A p \in ToMove : \E i \in 1 .. Len(TapeOrder) : TapeOrder[i] = p
<1> DEFINE n == Cardinality(ToMove)
           s == TapeOrder
<1>1. IsFiniteSet(ToMove) /\ n \in Nat
  <2>1. ToMove \in SUBSET Paths
    BY DEF ToMove
  <2>. QED  BY <2>1, PathsAssumption, FS_Subset, FS_CardinalityType
<1>2. \E t \in [1 .. n -> ToMove] : InTapeOrder(t)
  <2>1. ToMove \in SUBSET ToMove
    OBVIOUS
  <2>. QED  BY <1>1, <2>1, FilesSortable DEF Sortable
<1>3. s \in [1 .. n -> ToMove] /\ InTapeOrder(s)
  BY <1>2 DEF TapeOrder
<1> HIDE DEF s
<1>4. s \in Seq(ToMove) /\ Len(s) = n
  <2>1. s \in Seq(ToMove)
    BY <1>1, <1>3, SeqDef
  <2>2. Len(s) \in Nat /\ 1 .. Len(s) = 1 .. n
    BY <1>3, <2>1, LenProperties
  <2>. QED  BY <1>1, <2>1, <2>2, DomainLength
<1>5. \A i, j \in 1 .. n : i # j => s[i] # s[j]
  <2>1. SUFFICES ASSUME NEW i \in 1 .. n, NEW j \in 1 .. n, i # j PROVE s[i] # s[j]
    OBVIOUS
  <2>2. DOMAIN s = 1 .. n
    BY <1>3
  <2>3. i < j \/ j < i
    BY <1>1, <2>1
  <2>. QED  BY <1>3, <2>2, <2>3 DEF InTapeOrder
<1>6. \A p \in ToMove : \E i \in 1 .. n : s[i] = p
  <2>1. s \in Injection(1 .. n, ToMove)
    BY <1>3, <1>5 DEF Injection, IsInjective
  <2>2. IsFiniteSet(1 .. n) /\ Cardinality(1 .. n) = n
    BY <1>1, FS_Interval
  <2>3. s \in Surjection(1 .. n, ToMove)
    BY <1>1, <2>1, <2>2, FS_Injection
  <2>. QED  BY <2>3 DEF Surjection
<1>. QED  BY <1>1, <1>3, <1>4, <1>5, <1>6 DEF s

-----------------------------------------------------------------------------
(***************************************************************************)
(* The recursion of Rewritten has a solution, so Rewritten is one.         *)
(***************************************************************************)
\* What follows s once the n-th file is written again.
NextWritten(s, n) ==
  [log |-> AppendFileData(s.log, Staged(TapeOrder[n])),
   files |-> [s.files EXCEPT ![TapeOrder[n]].extent =
                [block |-> NextBlock(s.log), count |-> Len(Staged(TapeOrder[n]))]]]

NoneWritten == [log |-> TruncateAt(dataPart, HoleStart), files |-> cache.files]

\* f holds partition and files after up to n of them.
WrittenUpTo(f, n) ==
  /\ f[0] = NoneWritten
  /\ \A i \in 1 .. n : f[i] = NextWritten(f[i - 1], i)

LEMMA SomeWritten == \A n \in Nat : \E f : WrittenUpTo(f, n)
<1> DEFINE Bad == {n \in Nat : ~ \E f : WrittenUpTo(f, n)}
<1>1. SUFFICES ASSUME Bad # {} PROVE FALSE
  OBVIOUS
<1>2. PICK x \in Bad : \A y \in Bad : x <= y
  BY <1>1, Least
<1>3. CASE x = 0
  <2>1. WrittenUpTo([i \in Nat |-> NoneWritten], 0)
    BY DEF WrittenUpTo
  <2>. QED  BY <1>2, <1>3, <2>1
<1>4. CASE x # 0
  <2>1. x - 1 \in Nat /\ x \in Nat /\ x - 1 \notin Bad
    BY <1>2, <1>4
  <2>2. PICK f : WrittenUpTo(f, x - 1)
    BY <2>1
  <2> DEFINE g == [i \in Nat |-> IF i = x THEN NextWritten(f[x - 1], x) ELSE f[i]]
  <2>3. g[0] = NoneWritten
    BY <1>4, <2>1, <2>2 DEF WrittenUpTo
  <2>4. ASSUME NEW i \in 1 .. x
        PROVE  g[i] = NextWritten(g[i - 1], i)
    <3>1. i \in Nat /\ i - 1 \in Nat /\ i - 1 # x
      BY <2>1
    <3>2. g[i - 1] = f[i - 1]
      BY <3>1
    <3>3. CASE i = x
      <4>1. g[i] = NextWritten(f[x - 1], x)
        BY <3>1, <3>3
      <4>. QED  BY <3>2, <3>3, <4>1
    <3>4. CASE i # x
      <4>1. g[i] = f[i] /\ i \in 1 .. x - 1
        BY <2>1, <3>1, <3>4
      <4>2. f[i] = NextWritten(f[i - 1], i)
        BY <2>2, <4>1 DEF WrittenUpTo
      <4>. QED  BY <3>2, <4>1, <4>2
    <3>. QED  BY <3>3, <3>4
  <2>5. WrittenUpTo(g, x)
    <3> HIDE DEF g
    <3>. QED  BY <2>3, <2>4 DEF WrittenUpTo
  <2>. QED  BY <1>2, <2>5
<1>. QED  BY <1>3, <1>4

LEMMA RewrittenStep ==
  ASSUME Len(TapeOrder) \in Nat
  PROVE  WrittenUpTo(Rewritten, Len(TapeOrder))
<1> DEFINE N == Len(TapeOrder)
           Next1(f) == [n \in 0 .. N |-> IF n = 0 THEN NoneWritten ELSE NextWritten(f[n - 1], n)]
<1>1. PICK f : WrittenUpTo(f, N)
  BY SomeWritten
<1> DEFINE r == [n \in 0 .. N |-> f[n]]
<1>2. r = Next1(r)
  <2>1. \A n \in 0 .. N : r[n] = IF n = 0 THEN NoneWritten ELSE NextWritten(r[n - 1], n)
    <3>1. SUFFICES ASSUME NEW n \in 0 .. N
                   PROVE  r[n] = IF n = 0 THEN NoneWritten ELSE NextWritten(r[n - 1], n)
      OBVIOUS
    <3>2. CASE n = 0
      BY <1>1, <3>2 DEF WrittenUpTo
    <3>3. CASE n # 0
      <4>1. n \in 1 .. N /\ n - 1 \in 0 .. N
        BY <3>3
      <4>2. f[n] = NextWritten(f[n - 1], n)
        BY <1>1, <4>1 DEF WrittenUpTo
      <4>3. r[n] = f[n] /\ r[n - 1] = f[n - 1]
        BY <4>1
      <4>. QED  BY <3>3, <4>2, <4>3
    <3>. QED  BY <3>2, <3>3
  <2>2. r = [n \in 0 .. N |-> r[n]]
    OBVIOUS
  <2> HIDE DEF r
  <2>. QED  BY <2>1, <2>2
<1>3. Rewritten = CHOOSE s : s = Next1(s)
  BY DEF Rewritten, NoneWritten, NextWritten
<1>4. Rewritten = Next1(Rewritten)
  <2> HIDE DEF Next1, r
  <2>. QED  BY <1>2, <1>3
<1>5. \A n \in 0 .. N : Rewritten[n] = IF n = 0 THEN NoneWritten ELSE NextWritten(Rewritten[n - 1], n)
  <2> DEFINE w == Rewritten
  <2>1. w = Next1(w)
    BY <1>4
  <2> HIDE DEF w
  <2>2. \A n \in 0 .. N : w[n] = IF n = 0 THEN NoneWritten ELSE NextWritten(w[n - 1], n)
    BY <2>1
  <2>. QED  BY <2>2 DEF w
<1>6. 0 \in 0 .. N /\ \A n \in 1 .. N : n \in 0 .. N /\ n # 0
  OBVIOUS
<1>. QED  BY <1>5, <1>6 DEF WrittenUpTo

-----------------------------------------------------------------------------
(***************************************************************************)
(* The invariant: what TapeStore keeps whatever fails.  The extents need   *)
(* not be live: a defrag that stopped has left the cache referring to      *)
(* blocks that are gone.                                                   *)
(***************************************************************************)
DInv == TypeInv /\ Covers /\ MarksInPlace(dataPart)

LEMMA DefragTyped ==
  ASSUME DInv, CanDefrag
  PROVE  /\ cache \in Indexes /\ LengthCoversIn(cache)
         /\ dataPart \in LogOf(Contents) /\ MarksInPlace(dataPart) /\ Len(dataPart) \in Nat
         /\ HoleStart \in 0 .. Len(dataPart) /\ HoleStart \in Nat
<1>1. cache \in Indexes /\ LengthCoversIn(cache)
      /\ dataPart \in LogOf(Contents) /\ MarksInPlace(dataPart)
  BY DEF DInv, TypeInv, Inv, TypeOK, Covers, CanDefrag
<1>2. HoleStart \in 0 .. Len(dataPart)
  BY <1>1, FirstHole
<1>3. Len(dataPart) \in Nat
  BY <1>1, LenProperties DEF LogOf
<1>4. HoleStart \in Nat
  BY <1>2
<1>. QED  BY <1>1, <1>2, <1>3, <1>4, Zenon

\* A file to move has been read: it is all there, and not empty.
LEMMA StagedIsFile ==
  ASSUME DInv, CanDefrag, NEW p \in ToMove
  PROVE  /\ Staged(p) \in Contents
         /\ Len(Staged(p)) \in 1 .. MaxLength
         /\ Len(Staged(p)) <= cache.files[p].length
         /\ IsDataBlock(dataPart, BlockOf(p))
<1> DEFINE f == cache.files[p]
           r == ReadAt(dataPart, f.extent.block)
<1>1. f \in Files /\ HasExtent(f) /\ f.extent \in Extents /\ p \in Paths
      /\ f.extent.count \in 1 .. MaxLength /\ f.length \in 0 .. MaxLength
  BY DefragTyped, MovedTyped DEF Files, Extents
<1>2. f.extent.count <= f.length
  BY <1>1, DefragTyped DEF LengthCoversIn
<1>3. Staged(p) # EIO /\ Staged(p) = ReadFileData(dataPart, f)
  BY DEF CanDefrag, Readable, Staged
<1>4. f.extent # None /\ f.length # 0 /\ MaxLength \in Nat
  BY <1>1, <1>2, BoundsAssumption DEF HasExtent
<1>5. /\ IsDataBlock(dataPart, f.extent.block)
      /\ f.extent.count <= Len(r.data)
      /\ Staged(p) = SubSeq(r.data, 1, f.extent.count)
  <2> HIDE DEF f
  <2>1. (IF f.length < f.extent.count THEN f.length ELSE f.extent.count) = f.extent.count
    BY <1>1, <1>2, <1>4
  <2>. QED  BY <1>3, <1>4, <2>1 DEF ReadFileData
<1>6. Staged(p) \in Contents
  BY <1>1, <1>3, ReadIsContent, DefragTyped
<1>7. Len(Staged(p)) = f.extent.count
  <2> HIDE DEF f
  <2>1. r \in Records(Contents) /\ r.type = "data"
    BY <1>5, DefragTyped, ElementOfSeq DEF LogOf, IsDataBlock, HasBlock, ReadAt
  <2>2. r.data \in Contents
    BY <2>1, RecordKinds
  <2>3. r.data \in Seq(Bytes) /\ Len(r.data) \in Nat
    BY <2>2, ContentIsSeq, LenProperties
  <2>4. \A i \in 1 .. f.extent.count : r.data[i] \in Bytes
    BY <1>1, <1>4, <1>5, <2>3, ElementOfSeq
  <2> HIDE DEF r
  <2>5. Len(SubSeq(r.data, 1, f.extent.count)) = f.extent.count
    BY <1>1, <1>4, <2>3, <2>4, SubSeqProperties
  <2>. QED  BY <1>5, <2>5
<1>. QED  BY <1>1, <1>2, <1>5, <1>6, <1>7 DEF BlockOf

-----------------------------------------------------------------------------
(***************************************************************************)
(* What the rewriting has made after n files.                              *)
(***************************************************************************)
\* The first n files moved.
Moved(n) == {TapeOrder[i] : i \in 1 .. n}

\* A data partition of the type, with every record below the hole in place.
KeepsBelowHole(log) ==
  /\ log \in LogOf(Contents) /\ MarksInPlace(log)
  /\ HoleStart <= Len(log)
  /\ SamePrefix(dataPart, log, HoleStart)

\* f is file p at its new place.
InPlace(log, f, p) ==
  /\ f \in Files /\ f.length = cache.files[p].length /\ f.extent \in Extents
  /\ f.extent.count = Len(Staged(p))
  /\ IsDataBlock(log, f.extent.block)
  /\ ReadAt(log, f.extent.block).data = Staged(p)

FilesInPlace(log, files, M) ==
  /\ files \in [Paths -> Files \cup {None}]
  /\ \A p \in Paths \ M : files[p] = cache.files[p]
  /\ \A p \in M : InPlace(log, files[p], p)

\* From the hole on, every data block is a moved file's.
NoHoles(log, files, M) ==
  \A b \in Nat : b >= HoleStart /\ IsDataBlock(log, b) =>
                   \E p \in M : files[p].extent.block = b

WellWritten(s, n) ==
  /\ KeepsBelowHole(s.log)
  /\ ToMove # {} => HoleStart <= NextBlock(s.log)
  /\ FilesInPlace(s.log, s.files, Moved(n))
  /\ NoHoles(s.log, s.files, Moved(n))

LEMMA TruncatedInPlace ==
  ASSUME NEW S, NEW log \in LogOf(S), NEW b \in 0 .. Len(log), MarksInPlace(log)
  PROVE  MarksInPlace(TruncateAt(log, b))
<1> DEFINE cut == TruncateAt(log, b)
<1>1. Len(log) \in Nat /\ Len(cut) = b /\ \A i \in 1 .. b : cut[i] = log[i]
  BY Truncated, LenProperties DEF LogOf
<1> HIDE DEF cut
<1>2. ASSUME NEW i \in 1 .. Len(cut)
      PROVE  /\ cut[i].type = "eod" => i = Len(cut)
             /\ i > 3 /\ cut[i].type = "filemark" => cut[i - 1].type = "data"
  <2>1. i \in 1 .. Len(log) /\ cut[i] = log[i] /\ (i > 3 => cut[i - 1] = log[i - 1])
    BY <1>1
  <2>. QED  BY <1>1, <2>1 DEF MarksInPlace
<1>. QED  BY <1>2 DEF MarksInPlace, cut

\* Nothing written yet.  If there is a file to move, the record in front of the
\* hole is no end-of-data record, which an append would drop.
LEMMA NoneWellWritten ==
  ASSUME DInv, CanDefrag
  PROVE  WellWritten(NoneWritten, 0)
<1> DEFINE cut == TruncateAt(dataPart, HoleStart)
           h == HoleStart
<1>1. /\ cache \in Indexes /\ dataPart \in LogOf(Contents) /\ MarksInPlace(dataPart)
      /\ Len(dataPart) \in Nat /\ h \in 0 .. Len(dataPart) /\ h \in Nat
  BY DefragTyped
<1>2. cut \in LogOf(Contents) /\ Len(cut) = h /\ \A i \in 1 .. h : cut[i] = dataPart[i]
  BY <1>1, Truncated
<1>3. MarksInPlace(cut)
  BY <1>1, TruncatedInPlace
<1>4. NoneWritten.log = cut /\ NoneWritten.files = cache.files /\ Moved(0) = {}
  BY DEF NoneWritten, Moved
<1> HIDE DEF cut
<1>5. KeepsBelowHole(cut)
  BY <1>1, <1>2, <1>3 DEF KeepsBelowHole, SamePrefix
<1>6. ASSUME ToMove # {} PROVE h <= NextBlock(cut)
  <2>1. PICK p \in ToMove : TRUE
    BY <1>6
  <2>2. BlockOf(p) \in Nat /\ h <= BlockOf(p) /\ BlockOf(p) <= Len(dataPart) - 1
    BY <1>1, MovedTyped, StagedIsFile DEF IsDataBlock, HasBlock
  <2>3. ~LastIsEOD(cut)
    <3>1. SUFFICES ASSUME LastIsEOD(cut) PROVE FALSE
      OBVIOUS
    <3>2. h > 0 /\ cut[h].type = "eod"
      BY <1>2, <3>1 DEF LastIsEOD
    <3>3. h \in 1 .. Len(dataPart) /\ dataPart[h].type = "eod"
      BY <1>1, <1>2, <3>2
    <3>4. h = Len(dataPart)
      BY <1>1, <3>3 DEF MarksInPlace
    <3>. QED  BY <1>1, <2>2, <3>4
  <2>. QED  BY <1>1, <1>2, <2>3 DEF NextBlock, WithoutEOD
<1>7. FilesInPlace(cut, cache.files, {})
  BY <1>1 DEF FilesInPlace, Indexes
<1>8. NoHoles(cut, cache.files, {})
  BY <1>1, <1>2 DEF NoHoles, IsDataBlock, HasBlock
<1>. QED  BY <1>4, <1>5, <1>6, <1>7, <1>8 DEF WellWritten

\* An append, however far it gets, keeps what lies below the hole.
LEMMA AppendKeepsBelow ==
  ASSUME DInv, CanDefrag, NEW log, KeepsBelowHole(log), HoleStart <= NextBlock(log),
         NEW c \in Contents, NEW k \in 0 .. 3
  PROVE  KeepsBelowHole(AppendUpTo(log, c, k))
<1> DEFINE new == AppendUpTo(log, c, k)
           h == HoleStart
           m == NextBlock(log)
<1>1. log \in LogOf(Contents) /\ MarksInPlace(log) /\ SamePrefix(dataPart, log, h)
      /\ h \in Nat /\ h <= m
  BY DefragTyped DEF KeepsBelowHole
<1>2. new \in LogOf(Contents) /\ MarksInPlace(new)
  BY <1>1, AppendKeepsData, AppendInPlace
<1>3. m \in 0 .. Len(log) /\ Len(new) = m + k /\ SamePrefix(log, new, m)
  BY <1>1, AppendShape
<1>4. Len(log) \in Nat
  BY <1>1, LenProperties DEF LogOf
<1> HIDE DEF new, h, m
<1>5. h <= Len(new)
  BY <1>1, <1>3, <1>4
<1>6. SamePrefix(dataPart, new, h)
  BY <1>1, <1>3, <1>4 DEF SamePrefix
<1>. QED  BY <1>2, <1>5, <1>6 DEF KeepsBelowHole, new, h

\* One more file: it is appended, and nothing written before moves.
LEMMA NextWellWritten ==
  ASSUME DInv, CanDefrag, NEW s, NEW n \in 1 .. Len(TapeOrder), WellWritten(s, n - 1)
  PROVE  WellWritten(NextWritten(s, n), n)
<1> DEFINE p == TapeOrder[n]
           c == Staged(p)
           log == s.log
           new == AppendFileData(log, c)
           m == NextBlock(log)
           M == Moved(n - 1)
           files == s.files
           e == [block |-> m, count |-> Len(c)]
           files2 == [files EXCEPT ![p].extent = e]
<1>1. /\ cache \in Indexes /\ Len(TapeOrder) \in Nat /\ HoleStart \in Nat
      /\ p \in ToMove /\ p \in Paths /\ cache.files[p] \in Files
  BY DefragTyped, OrderIsComplete, MovedTyped
<1>2. p \notin M /\ Moved(n) = M \cup {p} /\ M \subseteq Paths /\ M \subseteq ToMove
  <2>1. \A i \in 1 .. n - 1 : i \in 1 .. Len(TapeOrder) /\ i # n
    BY <1>1
  <2>2. \A i \in 1 .. n - 1 : TapeOrder[i] # p /\ TapeOrder[i] \in ToMove
    BY <1>1, <2>1, OrderIsComplete
  <2>3. \A i : i \in 1 .. n <=> i \in 1 .. n - 1 \/ i = n
    BY <1>1
  <2>4. Moved(n) = M \cup {p}
    BY <2>3 DEF Moved
  <2>5. p \notin M /\ M \subseteq ToMove
    BY <2>2 DEF Moved
  <2>. QED  BY <2>4, <2>5 DEF ToMove
<1>3. c \in Contents /\ Len(c) \in 1 .. MaxLength
  BY <1>1, StagedIsFile
<1>4. /\ KeepsBelowHole(log) /\ HoleStart <= m /\ log \in LogOf(Contents)
      /\ FilesInPlace(log, files, M) /\ NoHoles(log, files, M)
  BY <1>1 DEF WellWritten, KeepsBelowHole
<1>5. NextWritten(s, n).log = new /\ NextWritten(s, n).files = files2
  BY DEF NextWritten
<1>6. 3 \in 0 .. 3 /\ new = AppendUpTo(log, c, 3)
  BY DEF AppendFileData
<1>7. /\ m \in Nat /\ IsDataBlock(new, m) /\ ReadAt(new, m).data = c
      /\ ~IsDataBlock(log, m) /\ m < NextBlock(new)
      /\ DataKept(log, new) /\ new \in LogOf(Contents)
  BY <1>3, <1>4, <1>6, AppendIsFresh, NextAfterAppend, AppendKeepsData DEF DataRecord
<1>8. \A b \in Nat : IsDataBlock(new, b) => IsDataBlock(log, b) \/ b = m
  BY <1>3, <1>4, <1>6, AppendShape
<1>9. KeepsBelowHole(new)
  BY <1>3, <1>4, <1>6, AppendKeepsBelow
<1>10. files \in [Paths -> Files \cup {None}] /\ files[p] = cache.files[p]
  BY <1>1, <1>2, <1>4 DEF FilesInPlace
<1>11. NextBlock(new) \in Nat
  BY <1>7, EODDropped DEF NextBlock
<1> HIDE DEF p, c, log, new, m, M, files
<1>12. e \in Extents /\ e.block = m /\ e.count = Len(c)
  BY <1>3, <1>7 DEF Extents
<1>13. /\ files2[p] = [files[p] EXCEPT !.extent = e]
       /\ files2[p] \in Files /\ files2[p].length = cache.files[p].length
       /\ files2[p].extent = e
       /\ \A q \in Paths : q # p => files2[q] = files[q]
       /\ files2 \in [Paths -> Files \cup {None}]
  <2>1. files2[p] = [files[p] EXCEPT !.extent = e]
        /\ \A q \in Paths : q # p => files2[q] = files[q]
    BY <1>1, <1>10
  <2>2. [files[p] EXCEPT !.extent = e] \in Files
        /\ [files[p] EXCEPT !.extent = e].length = cache.files[p].length
        /\ [files[p] EXCEPT !.extent = e].extent = e
    BY <1>1, <1>10, <1>12 DEF Files
  <2>3. files2 \in [Paths -> Files \cup {None}]
    BY <1>1, <1>10, <2>1, <2>2
  <2>. QED  BY <2>1, <2>2, <2>3
<1> HIDE DEF files2, e
<1>14. InPlace(new, files2[p], p)
  BY <1>7, <1>12, <1>13 DEF InPlace, c
<1>15. ASSUME NEW q \in M PROVE InPlace(new, files2[q], q)
  <2>1. InPlace(log, files[q], q) /\ files2[q] = files[q]
    BY <1>2, <1>4, <1>13 DEF FilesInPlace
  <2>2. files[q].extent.block \in Nat
    BY <2>1 DEF InPlace, Extents
  <2>. QED  BY <1>7, <2>1, <2>2 DEF InPlace, DataKept
<1>16. FilesInPlace(new, files2, M \cup {p})
  <2>1. \A q \in Paths \ (M \cup {p}) : files2[q] = cache.files[q]
    BY <1>4, <1>13 DEF FilesInPlace
  <2>. QED  BY <1>13, <1>14, <1>15, <2>1 DEF FilesInPlace
<1>17. NoHoles(new, files2, M \cup {p})
  <2>1. SUFFICES ASSUME NEW b \in Nat, b >= HoleStart, IsDataBlock(new, b)
                 PROVE  \E q \in M \cup {p} : files2[q].extent.block = b
    BY DEF NoHoles
  <2>2. CASE b = m
    BY <1>12, <1>13, <2>2
  <2>3. CASE b # m
    <3>1. PICK q \in M : files[q].extent.block = b
      BY <1>4, <1>8, <2>1, <2>3 DEF NoHoles
    <3>2. files2[q] = files[q]
      BY <1>2, <1>13, <3>1
    <3>. QED  BY <3>1, <3>2
  <2>. QED  BY <2>2, <2>3
<1>18. HoleStart <= NextBlock(new)
  BY <1>1, <1>4, <1>7, <1>11
<1>. QED  BY <1>2, <1>5, <1>9, <1>16, <1>17, <1>18 DEF WellWritten

LEMMA AllWellWritten ==
  ASSUME DInv, CanDefrag
  PROVE  /\ Len(TapeOrder) \in Nat
         /\ \A n \in 0 .. Len(TapeOrder) : WellWritten(Rewritten[n], n)
<1> DEFINE N == Len(TapeOrder)
           Bad == {n \in Nat : n <= N /\ ~WellWritten(Rewritten[n], n)}
<1>1. N \in Nat
  BY DefragTyped, OrderIsComplete
<1>2. WrittenUpTo(Rewritten, N)
  BY <1>1, RewrittenStep
<1>3. Bad = {}
  <2>1. SUFFICES ASSUME Bad # {} PROVE FALSE
    OBVIOUS
  <2>2. PICK n \in Bad : \A i \in Bad : n <= i
    <3>1. Bad \in SUBSET Nat
      OBVIOUS
    <3> HIDE DEF Bad
    <3>. QED  BY <2>1, <3>1, Least
  <2>3. n \in Nat /\ n <= N /\ ~WellWritten(Rewritten[n], n)
    OBVIOUS
  <2>4. n # 0
    BY <1>2, <2>3, NoneWellWritten DEF WrittenUpTo
  <2>5. n \in 1 .. N /\ n - 1 \in Nat /\ n - 1 <= N /\ ~(n <= n - 1)
    BY <1>1, <2>3, <2>4
  <2>6. WellWritten(Rewritten[n - 1], n - 1)
    BY <2>2, <2>5
  <2>7. Rewritten[n] = NextWritten(Rewritten[n - 1], n)
    BY <1>2, <2>5 DEF WrittenUpTo
  <2>. QED  BY <2>3, <2>5, <2>6, <2>7, NextWellWritten
<1>4. \A n \in 0 .. N : n \in Nat /\ n <= N
  BY <1>1
<1>5. \A n \in 0 .. N : WellWritten(Rewritten[n], n)
  BY <1>3, <1>4
<1>. QED  BY <1>1, <1>5

\* The end: every file to move has been.
LEMMA CompactedWell ==
  ASSUME DInv, CanDefrag
  PROVE  /\ KeepsBelowHole(Compacted.log)
         /\ FilesInPlace(Compacted.log, Compacted.files, ToMove)
         /\ NoHoles(Compacted.log, Compacted.files, ToMove)
<1>1. Len(TapeOrder) \in Nat /\ WellWritten(Compacted, Len(TapeOrder))
  BY AllWellWritten DEF Compacted
<1>2. Moved(Len(TapeOrder)) = ToMove
  BY OrderIsComplete, DefragTyped DEF Moved
<1>. QED  BY <1>1, <1>2 DEF WellWritten

-----------------------------------------------------------------------------
(***************************************************************************)
(* What the files read as.                                                 *)
(***************************************************************************)
\* A file below the hole reads as before, an unreadable one as unreadable.
LEMMA SparedReads ==
  ASSUME DInv, CanDefrag, NEW log, KeepsBelowHole(log),
         NEW p \in Paths \ ToMove, cache.files[p] # None
  PROVE  ReadFileData(log, cache.files[p]) = ReadFileData(dataPart, cache.files[p])
<1> DEFINE f == cache.files[p]
           b == f.extent.block
           h == HoleStart
<1>1. cache \in Indexes /\ Len(dataPart) \in Nat /\ h \in 0 .. Len(dataPart)
      /\ log \in LogOf(Contents) /\ h <= Len(log) /\ SamePrefix(dataPart, log, h)
  BY DefragTyped DEF KeepsBelowHole
<1>2. CASE ~HasExtent(f)
  BY <1>2 DEF HasExtent, ReadFileData
<1>3. CASE HasExtent(f)
  <2>1. b \in Nat
    BY <1>1, <1>3, ExtentTyped
  <2>2. b < h
    <3>1. ~(b >= h)
      BY <1>3 DEF ToMove
    <3>. QED  BY <1>1, <2>1, <3>1
  <2>3. Len(log) \in Nat
    BY <1>1, LenProperties DEF LogOf
  <2>4. b + 1 \in 1 .. h /\ b \in 0 .. Len(log) - 1 /\ b \in 0 .. Len(dataPart) - 1
    <3>1. h \in Nat /\ h <= Len(dataPart) /\ h <= Len(log)
      BY <1>1
    <3> HIDE DEF h, b
    <3>. QED  BY <1>1, <2>1, <2>2, <2>3, <3>1
  <2>5. log[b + 1] = dataPart[b + 1]
    BY <1>1, <2>4 DEF SamePrefix
  <2>6. ReadAt(log, b) = ReadAt(dataPart, b)
        /\ (IsDataBlock(log, b) <=> IsDataBlock(dataPart, b))
    BY <2>4, <2>5 DEF IsDataBlock, HasBlock, ReadAt
  <2>. QED  BY <2>6 DEF ReadFileData
<1>. QED  BY <1>2, <1>3

\* A moved file reads as what was staged.
LEMMA MovedReads ==
  ASSUME DInv, CanDefrag, NEW log, NEW p \in ToMove, NEW f, InPlace(log, f, p)
  PROVE  ReadFileData(log, f) = Staged(p)
<1> DEFINE c == Staged(p)
<1>1. c \in Contents /\ Len(c) \in 1 .. MaxLength /\ Len(c) <= cache.files[p].length
  BY StagedIsFile
<1>2. c \in Seq(Bytes) /\ Len(c) \in Nat /\ MaxLength \in Nat
  BY <1>1, ContentIsSeq, LenProperties, BoundsAssumption
<1>3. /\ f.length \in 0 .. MaxLength /\ Len(c) <= f.length /\ f.extent.count = Len(c)
      /\ f.extent # None /\ IsDataBlock(log, f.extent.block)
      /\ ReadAt(log, f.extent.block).data = c
  BY <1>1, NoFileAssumption DEF InPlace, Files
<1> HIDE DEF c
<1>4. SubSeq(c, 1, Len(c)) = c
  <2>1. \A i \in 1 .. Len(c) : c[i] \in Bytes
    BY <1>2, ElementOfSeq
  <2>2. /\ SubSeq(c, 1, Len(c)) \in Seq(Bytes)
        /\ Len(SubSeq(c, 1, Len(c))) = Len(c)
        /\ \A i \in 1 .. Len(c) : SubSeq(c, 1, Len(c))[i] = c[i]
    BY <1>2, <2>1
  <2>. QED  BY <1>2, <2>2, SeqEqual
<1>5. f.length # 0
      /\ (IF f.length < f.extent.count THEN f.length ELSE f.extent.count) = Len(c)
  BY <1>1, <1>2, <1>3
<1>6. ReadFileData(log, f) = SubSeq(c, 1, Len(c))
  BY <1>2, <1>3, <1>5 DEF ReadFileData
<1>. QED  BY <1>4, <1>6 DEF c

-----------------------------------------------------------------------------
(***************************************************************************)
(* The steps of the command.                                               *)
(***************************************************************************)
\* The data partition after the command, whatever became of it.
LEMMA DefragsData ==
  ASSUME DInv, Defragments
  PROVE  CanDefrag /\ KeepsBelowHole(dataPart')
<1>1. CanDefrag
  BY DEF Defragments, CmdDefrag, CmdDefragStops, CmdDefragSaveFails
<1>2. CASE dataPart' = Compacted.log
  BY <1>1, <1>2, CompactedWell
<1>3. ASSUME NEW n \in 0 .. Len(TapeOrder), n < Len(TapeOrder),
             dataPart' \in FailedAppends(Rewritten[n].log, Staged(TapeOrder[n + 1]))
      PROVE  KeepsBelowHole(dataPart')
  <2> DEFINE log == Rewritten[n].log
             c == Staged(TapeOrder[n + 1])
  <2>1. Len(TapeOrder) \in Nat /\ WellWritten(Rewritten[n], n)
    BY <1>1, AllWellWritten
  <2>2. n + 1 \in 1 .. Len(TapeOrder)
    BY <1>3, <2>1
  <2>3. TapeOrder[n + 1] \in ToMove
    BY <1>1, <2>2, OrderIsComplete, DefragTyped
  <2>4. KeepsBelowHole(log) /\ HoleStart <= NextBlock(log) /\ c \in Contents
    BY <1>1, <2>1, <2>3, StagedIsFile DEF WellWritten
  <2>5. \A k \in 0 .. 2 : k \in 0 .. 3
    OBVIOUS
  <2>6. dataPart' \in FailedAppends(log, c)
    BY <1>3
  <2> HIDE DEF log, c
  <2>7. dataPart' = log \/ \E k \in 0 .. 3 : dataPart' = AppendUpTo(log, c, k)
    BY <2>5, <2>6 DEF FailedAppends
  <2>. QED  BY <1>1, <2>4, <2>7, AppendKeepsBelow
<1>4. dataPart' = Compacted.log \/ \E n \in 0 .. Len(TapeOrder) :
        n < Len(TapeOrder) /\ dataPart' \in FailedAppends(Rewritten[n].log, Staged(TapeOrder[n + 1]))
  BY DEF Defragments, CmdDefrag, CmdDefragStops, CmdDefragSaveFails
<1>. QED  BY <1>1, <1>2, <1>3, <1>4

\* The index after a defrag that succeeds.
LEMMA DefragsIndex ==
  ASSUME DInv, CmdDefrag
  PROVE  /\ cache \in Indexes /\ cache' \in Indexes /\ LengthCoversIn(cache')
         /\ FilesInPlace(dataPart', cache'.files, ToMove)
         /\ NoHoles(dataPart', cache'.files, ToMove)
<1>1. CanDefrag /\ dataPart' = Compacted.log
      /\ cache' = [cache EXCEPT !.files = Compacted.files, !.avail = <<>>]
  BY DEF CmdDefrag
<1>2. cache \in Indexes /\ LengthCoversIn(cache)
  BY <1>1, DefragTyped
<1>3. FilesInPlace(dataPart', Compacted.files, ToMove)
      /\ NoHoles(dataPart', Compacted.files, ToMove)
  BY <1>1, CompactedWell
<1>4. Compacted.files \in [Paths -> Files \cup {None}]
  BY <1>3 DEF FilesInPlace
<1> DEFINE files == Compacted.files
<1> HIDE DEF files
<1>5. cache' \in Indexes /\ cache'.files = files
  <2>1. <<>> \in Seq(Nat)
    BY EmptySeq
  <2>2. files \in [Paths -> Files \cup {None}]
        /\ cache' = [cache EXCEPT !.files = files, !.avail = <<>>]
    BY <1>1, <1>4 DEF files
  <2>. QED  BY <1>2, <2>1, <2>2 DEF Indexes
<1>6. LengthCoversIn(cache')
  <2>1. SUFFICES ASSUME NEW p \in Paths, HasExtent(files[p])
                 PROVE  files[p].extent.count <= files[p].length
    BY <1>5 DEF LengthCoversIn
  <2>2. CASE p \in ToMove
    <3>1. InPlace(dataPart', files[p], p)
      BY <1>3, <2>2 DEF FilesInPlace, files
    <3>. QED  BY <1>1, <2>2, <3>1, StagedIsFile DEF InPlace
  <2>3. CASE p \notin ToMove
    <3>1. files[p] = cache.files[p]
      BY <1>3, <2>3 DEF FilesInPlace, files
    <3>. QED  BY <1>2, <2>1, <3>1 DEF LengthCoversIn
  <2>. QED  BY <2>2, <2>3
<1>. QED  BY <1>2, <1>3, <1>5, <1>6 DEF files

LEMMA DefragKeepsInv ==
  ASSUME DInv, Defragments
  PROVE  DInv'
<1>1. CanDefrag /\ KeepsBelowHole(dataPart')
  BY DefragsData
<1>2. UNCHANGED <<idxPart, loaded, mounted, handle>> /\ ~mounted
  BY <1>1 DEF Defragments, CmdDefrag, CmdDefragStops, CmdDefragSaveFails, CanDefrag
<1>3. cache' \in Indexes \cup {None} /\ (cache' # None => LengthCoversIn(cache'))
  <2>1. CASE CmdDefrag
    BY <2>1, DefragsIndex
  <2>2. CASE CmdDefragStops \/ CmdDefragSaveFails
    <3>1. cache' = cache
      BY <2>2 DEF CmdDefragStops, CmdDefragSaveFails
    <3>. QED  BY <1>1, <3>1, DefragTyped
  <2>. QED  BY <2>1, <2>2 DEF Defragments
<1>4. dataPart' \in LogOf(Contents) /\ MarksInPlace(dataPart')
  BY <1>1 DEF KeepsBelowHole
<1>5. TypeOK'
  BY <1>2, <1>3, <1>4 DEF DInv, TypeInv, Inv, TypeOK
<1>6. MountedHasCache' /\ DirtyHasData' /\ LabelsThere'
  BY <1>2 DEF DInv, TypeInv, Inv, MountedHasCache, DirtyHasData, LabelsThere
<1>7. ~NoStaleCache(AllFaults)
  BY DEF NoStaleCache, AllFaults
<1>8. TapeIndexOK(AllFaults)'
  BY <1>2, <1>7 DEF DInv, TypeInv, Inv, TapeIndexOK, TapeIndex, NoStaleCache
<1>9. CacheOK(AllFaults)'
  BY <1>7 DEF CacheOK, NoStaleCache
<1>10. Covers'
  BY <1>2, <1>3 DEF DInv, Covers, TapeIndex
<1>11. TypeInv'
  BY <1>5, <1>6, <1>8, <1>9 DEF TypeInv, Inv
<1>. QED  BY <1>4, <1>10, <1>11 DEF DInv

LEMMA InitDInv == Init => DInv
BY InitInv, InitCovers, InitMarks DEF DInv, TypeInv

LEMMA DefragStepInv == DInv /\ [DefragNext]_vars => DInv'
<1>1. DInv /\ [Next]_vars => DInv'
  <2>1. TypeInv /\ [Next]_vars => TypeInv'
    BY StepTypeInv
  <2>2. TypeInv /\ MarksInPlace(dataPart) /\ [Next]_vars => MarksInPlace(dataPart)'
    BY MarksStep
  <2>3. TypeInv /\ Covers /\ [Next]_vars => Covers'
    BY CoversStep
  <2>. QED  BY <2>1, <2>2, <2>3 DEF DInv
<1>2. DInv /\ Defragments => DInv'
  BY DefragKeepsInv
<1>. QED  BY <1>1, <1>2 DEF DefragNext, Defragments

LEMMA DefragInv == DefragSpec => []DInv
BY InitDInv, DefragStepInv, PTL DEF DefragSpec

\* No defrag, stopped anywhere or not, leaves a state out of its types.
THEOREM DefragTypeCorrect == DefragSpec => []TypeOK
<1>1. DInv => TypeOK
  BY DEF DInv, TypeInv, Inv
<1>. QED  BY <1>1, DefragInv, PTL

-----------------------------------------------------------------------------
(***************************************************************************)
(* The theorems.                                                           *)
(***************************************************************************)
\* Compaction leaves every file as it reads (tapefs.go, Defrag): moved behind the
\* first hole, each file is found there with what was staged, and no append on
\* the way has cut into the files below it.
THEOREM FilesSurviveDefrag == DefragSpec => DefragKeepsFiles
<1>1. ASSUME DInv, CmdDefrag
      PROVE  Current' = Current
  <2>1. CanDefrag /\ KeepsBelowHole(dataPart')
    BY <1>1, DefragsData DEF Defragments
  <2>2. /\ cache \in Indexes /\ cache' \in Indexes
        /\ FilesInPlace(dataPart', cache'.files, ToMove)
    BY <1>1, DefragsIndex
  <2>3. loaded /\ loaded' /\ cache # None /\ cache' # None
    BY <1>1, <2>1, <2>2, NoneAssumption DEF CmdDefrag, CanDefrag
  <2>4. ASSUME NEW p \in Paths
        PROVE  (IF cache'.files[p] = None THEN None ELSE ReadFileData(dataPart', cache'.files[p]))
                 = (IF cache.files[p] = None THEN None ELSE ReadFileData(dataPart, cache.files[p]))
    <3>1. CASE p \in ToMove
      <4>1. InPlace(dataPart', cache'.files[p], p)
        BY <2>2, <3>1 DEF FilesInPlace
      <4>2. cache'.files[p] # None /\ cache.files[p] # None
        BY <2>2, <3>1, <4>1, MovedTyped, NoFileAssumption DEF InPlace
      <4>3. ReadFileData(dataPart', cache'.files[p]) = Staged(p)
        BY <1>1, <2>1, <3>1, <4>1, MovedReads
      <4>. QED  BY <4>2, <4>3 DEF Staged
    <3>2. CASE p \notin ToMove
      <4>1. cache'.files[p] = cache.files[p]
        BY <2>2, <3>2 DEF FilesInPlace
      <4>. QED  BY <1>1, <2>1, <3>2, <4>1, SparedReads
    <3>. QED  BY <3>1, <3>2
  <2>5. FilesOf(cache)' = FilesOf(cache)
    BY <2>4 DEF FilesOf
  <2>. QED  BY <2>3, <2>5 DEF Current
<1>2. DInv /\ [DefragNext]_vars => [CmdDefrag => Current' = Current]_vars
  BY <1>1
<1>. QED  BY <1>2, DefragInv, PTL DEF DefragSpec, DefragKeepsFiles

\* A defrag that stops half-way costs only files it had to move.
THEOREM PrefixSurvivesDefrag == DefragSpec => DefragSparesPrefix
<1>1. ASSUME DInv, Defragments, NEW p \in Paths \ ToMove
      PROVE  Current'[p] = Current[p]
  <2>1. CanDefrag /\ KeepsBelowHole(dataPart')
    BY <1>1, DefragsData
  <2>2. loaded /\ loaded' /\ cache # None /\ cache' # None
        /\ cache'.files[p] = cache.files[p]
    <3>1. loaded /\ loaded' /\ cache # None
      BY <1>1, <2>1 DEF Defragments, CmdDefrag, CmdDefragStops, CmdDefragSaveFails, CanDefrag
    <3>2. CASE CmdDefrag
      BY <1>1, <3>1, <3>2, DefragsIndex, NoneAssumption DEF FilesInPlace
    <3>3. CASE cache' = cache
      BY <3>1, <3>3
    <3>. QED  BY <1>1, <3>1, <3>2, <3>3 DEF Defragments, CmdDefragStops, CmdDefragSaveFails
  <2>3. cache.files[p] # None =>
          ReadFileData(dataPart', cache.files[p]) = ReadFileData(dataPart, cache.files[p])
    BY <1>1, <2>1, SparedReads
  <2>4. /\ Current[p] = IF cache.files[p] = None THEN None ELSE ReadFileData(dataPart, cache.files[p])
        /\ Current'[p] = IF cache'.files[p] = None THEN None
                         ELSE ReadFileData(dataPart', cache'.files[p])
    BY <2>2 DEF Current, FilesOf
  <2>. QED  BY <2>2, <2>3, <2>4
<1>2. DInv /\ [DefragNext]_vars =>
        [Defragments => \A p \in Paths \ ToMove : Current'[p] = Current[p]]_vars
  BY <1>1
<1>. QED  BY <1>2, DefragInv, PTL DEF DefragSpec, DefragSparesPrefix

\* From the first hole on, a defragmented tape holds nothing but files.
THEOREM DefragLeavesNoHole == DefragSpec => DefragCompacts
<1>1. ASSUME DInv, CmdDefrag, NEW b \in 0 .. Len(dataPart') - 1, IsDataBlock(dataPart', b),
             NEW i \in 1 .. Len(cache.avail), cache.avail[i] <= b
      PROVE  \E p \in Paths : HasExtent(cache'.files[p]) /\ cache'.files[p].extent.block = b
  <2>1. cache \in Indexes /\ CanDefrag /\ FilesInPlace(dataPart', cache'.files, ToMove)
        /\ NoHoles(dataPart', cache'.files, ToMove)
    BY <1>1, DefragsIndex DEF CmdDefrag
  <2>2. b \in Nat /\ HoleStart <= b
    <3>1. HoleStart <= cache.avail[i] /\ HoleStart \in Nat /\ cache.avail[i] \in Nat
      BY <1>1, <2>1, FirstHole, DefragTyped, AvailTyped
    <3>. QED  BY <1>1, <3>1
  <2>3. PICK p \in ToMove : cache'.files[p].extent.block = b
    BY <1>1, <2>1, <2>2 DEF NoHoles
  <2>4. InPlace(dataPart', cache'.files[p], p) /\ p \in Paths
    BY <2>1, MovedTyped DEF FilesInPlace
  <2>5. HasExtent(cache'.files[p])
    BY <2>4, NoFileAssumption DEF InPlace, HasExtent
  <2>. QED  BY <2>3, <2>4, <2>5
<1>2. DInv /\ [DefragNext]_vars =>
        [CmdDefrag =>
          \A b \in 0 .. Len(dataPart') - 1 :
            /\ IsDataBlock(dataPart', b)
            /\ \E i \in 1 .. Len(cache.avail) : cache.avail[i] <= b
            => \E p \in Paths : HasExtent(cache'.files[p]) /\ cache'.files[p].extent.block = b]_vars
  BY <1>1
<1>. QED  BY <1>2, DefragInv, PTL DEF DefragSpec, DefragCompacts

=============================================================================
