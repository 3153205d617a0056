-------------------------- MODULE TapeStoreProofs --------------------------
(***************************************************************************)
(* Theorems about a tape letter, for every set of paths and handles, every *)
(* bound and every choice of faults: its types, the consistency of every   *)
(* index somebody can read files through, and that it implements the map   *)
(* of files FileMap: every step is, seen through Current and Saved, one    *)
(* step of FileMap or none.  Around it, what a step may never do to a      *)
(* buffer and to the generation of the index, and the layout of the data.  *)
(***************************************************************************)
EXTENDS TapeStore, TapeLogProofs

-----------------------------------------------------------------------------
(***************************************************************************)
(* Contents of files and buffers.                                          *)
(***************************************************************************)
LEMMA DomainLength ==
  ASSUME NEW m \in Nat, NEW n \in Nat, 1 .. m = 1 .. n
  PROVE  m = n
<1>1. CASE m < n
  <2>1. n \in 1 .. n /\ n \notin 1 .. m
    BY <1>1
  <2>. QED  BY <2>1
<1>2. CASE n < m
  <2>1. m \in 1 .. m /\ m \notin 1 .. n
    BY <1>2
  <2>. QED  BY <2>1
<1>. QED  BY <1>1, <1>2

\* Contents are the sequences of at most MaxLength bytes.
LEMMA ContentIsSeq ==
  ASSUME NEW c \in Contents
  PROVE  c \in Seq(Bytes) /\ Len(c) \in 0 .. MaxLength
<1>1. PICK n \in 0 .. MaxLength : c \in [1 .. n -> Bytes]
  BY DEF Contents
<1>2. n \in Nat
  BY BoundsAssumption
<1>3. c \in Seq(Bytes)
  BY <1>1, <1>2, SeqDef
<1>4. Len(c) \in Nat /\ 1 .. Len(c) = 1 .. n
  BY <1>1, <1>3, LenProperties
<1>. QED  BY <1>2, <1>3, <1>4, DomainLength

LEMMA SeqIsContent ==
  ASSUME NEW c \in Seq(Bytes), Len(c) \in 0 .. MaxLength
  PROVE  c \in Contents
BY LenProperties DEF Contents

\* What ReadFileData returns for an existing file is EIO or a content.
LEMMA ReadIsContent ==
  ASSUME NEW log \in LogOf(Contents), NEW f \in Files
  PROVE  ReadFileData(log, f) \in Contents \cup {EIO}
<1>1. <<>> \in Contents
  <2>1. <<>> \in Seq(Bytes) /\ Len(<<>>) \in 0 .. MaxLength
    BY EmptySeq, BoundsAssumption
  <2>. QED  BY <2>1, SeqIsContent
<1>2. CASE /\ f.length # 0 /\ f.extent # None
           /\ IsDataBlock(log, f.extent.block)
           /\ f.extent.count <= Len(ReadAt(log, f.extent.block).data)
  <2> DEFINE r == ReadAt(log, f.extent.block)
             n == IF f.length < f.extent.count THEN f.length ELSE f.extent.count
  <2>1. r \in Records(Contents) /\ r.type = "data"
    BY <1>2, ElementOfSeq DEF LogOf, IsDataBlock, HasBlock, ReadAt
  <2>2. r.data \in Contents
    BY <2>1, RecordKinds
  <2>3. r.data \in Seq(Bytes) /\ Len(r.data) \in 0 .. MaxLength
    BY <2>2, ContentIsSeq
  <2>4. f.extent \in Extents /\ f.length \in 0 .. MaxLength
    BY <1>2 DEF Files
  <2>5. n \in 0 .. Len(r.data)
    <3>1. f.extent.count \in 1 .. MaxLength /\ f.extent.count <= Len(r.data)
      BY <1>2, <2>4 DEF Extents
    <3>. QED  BY <2>3, <2>4, <3>1, BoundsAssumption
  <2> HIDE DEF r, n
  <2>6. \A i \in 1 .. n : r.data[i] \in Bytes
    BY <2>3, <2>5, ElementOfSeq
  <2>7. SubSeq(r.data, 1, n) \in Seq(Bytes)
        /\ Len(SubSeq(r.data, 1, n)) = IF 1 <= n THEN n - 1 + 1 ELSE 0
    BY <2>3, <2>5, <2>6, SubSeqProperties
  <2>8. SubSeq(r.data, 1, n) \in Contents
    <3>1. Len(SubSeq(r.data, 1, n)) \in 0 .. MaxLength
      BY <2>3, <2>5, <2>7, BoundsAssumption
    <3>. QED  BY <2>7, <3>1, SeqIsContent
  <2>. QED  BY <1>2, <2>8 DEF ReadFileData, r, n
<1>. QED  BY <1>1, <1>2 DEF ReadFileData

\* A write within the longest length leaves a content, never an empty one.
LEMMA WriteAtIsContent ==
  ASSUME NEW buf \in Contents, NEW off \in 0 .. MaxLength - 1, NEW b \in Bytes
  PROVE  WriteAt(buf, off, b) \in Contents \ {<<>>}
<1>1. buf \in Seq(Bytes) /\ Len(buf) \in 0 .. MaxLength
  BY ContentIsSeq
<1> DEFINE n == IF off < Len(buf) THEN Len(buf) ELSE off + 1
<1>2. n \in 1 .. MaxLength /\ n \in Nat
  BY <1>1, BoundsAssumption
<1>3. \A i \in 1 .. n :
        (IF i = off + 1 THEN b ELSE IF i <= Len(buf) THEN buf[i] ELSE 0) \in Bytes
  BY <1>1, ElementOfSeq, BytesAssumption
<1>4. WriteAt(buf, off, b) \in [1 .. n -> Bytes]
  BY <1>3 DEF WriteAt
<1> HIDE DEF n
<1>5. WriteAt(buf, off, b) \in Contents
  BY <1>2, <1>4 DEF Contents
<1>6. WriteAt(buf, off, b) # <<>>
  <2>1. WriteAt(buf, off, b) \in Seq(Bytes)
    BY <1>5, ContentIsSeq
  <2>2. Len(WriteAt(buf, off, b)) \in Nat
        /\ 1 .. Len(WriteAt(buf, off, b)) = 1 .. n
    BY <1>4, <2>1, LenProperties
  <2>3. Len(WriteAt(buf, off, b)) = n
    BY <1>2, <2>2, DomainLength
  <2>. QED  BY <1>2, <2>3, EmptySeq
<1>. QED  BY <1>5, <1>6

-----------------------------------------------------------------------------
(***************************************************************************)
(* A consistent index: what ExtentsLive, LengthCovers and BlocksPartitioned*)
(* say of one index idx over the data partition log.                       *)
(***************************************************************************)
ExtentsLiveIn(idx, log) ==
  \A p \in Paths : HasExtent(idx.files[p]) =>
    /\ IsDataBlock(log, idx.files[p].extent.block)
    /\ Len(ReadAt(log, idx.files[p].extent.block).data) = idx.files[p].extent.count

LengthCoversIn(idx) ==
  \A p \in Paths : HasExtent(idx.files[p]) =>
    idx.files[p].extent.count <= idx.files[p].length

FilesApart(idx) ==
  \A p, q \in Paths :
    p # q /\ HasExtent(idx.files[p]) /\ HasExtent(idx.files[q]) =>
      idx.files[p].extent.block # idx.files[q].extent.block

AvailFree(idx, log) ==
  \A i \in 1 .. Len(idx.avail) :
    /\ IsDataBlock(log, idx.avail[i])
    /\ \A j \in 1 .. Len(idx.avail) : i # j => idx.avail[i] # idx.avail[j]
    /\ \A p \in Paths :
         HasExtent(idx.files[p]) => idx.files[p].extent.block # idx.avail[i]

IndexOK(idx, log) ==
  ExtentsLiveIn(idx, log) /\ LengthCoversIn(idx) /\ FilesApart(idx) /\ AvailFree(idx, log)

\* A block no file and no available space of idx is at.
Unused(idx, b) ==
  /\ \A p \in Paths : HasExtent(idx.files[p]) => idx.files[p].extent.block # b
  /\ \A i \in 1 .. Len(idx.avail) : idx.avail[i] # b

\* idx2 is idx with file f at p.
FileSet(idx, idx2, p, f) ==
  idx2 \in Indexes /\ idx2.files = [idx.files EXCEPT ![p] = f]

LEMMA ExtentTyped ==
  ASSUME NEW idx \in Indexes, NEW p \in Paths, HasExtent(idx.files[p])
  PROVE  /\ idx.files[p] \in Files
         /\ idx.files[p].extent \in Extents
         /\ idx.files[p].extent.block \in Nat
BY DEF Indexes, Files, Extents, HasExtent

LEMMA AvailTyped ==
  ASSUME NEW idx \in Indexes, NEW i \in 1 .. Len(idx.avail)
  PROVE  idx.avail[i] \in Nat
<1>1. idx.avail \in Seq(Nat)
  BY DEF Indexes
<1>. QED  BY <1>1, ElementOfSeq

\* An index stays consistent as long as no data block is lost: the argument for
\* the committed index, which no flush touches.
LEMMA IndexOKKept ==
  ASSUME NEW idx \in Indexes, NEW log, NEW log2, IndexOK(idx, log), DataKept(log, log2)
  PROVE  IndexOK(idx, log2)
<1>1. ExtentsLiveIn(idx, log2)
  <2>1. SUFFICES ASSUME NEW p \in Paths, HasExtent(idx.files[p])
                 PROVE  /\ IsDataBlock(log2, idx.files[p].extent.block)
                        /\ Len(ReadAt(log2, idx.files[p].extent.block).data)
                             = idx.files[p].extent.count
    BY DEF ExtentsLiveIn
  <2>2. idx.files[p].extent.block \in Nat
    BY <2>1, ExtentTyped
  <2>. QED  BY <2>1, <2>2 DEF IndexOK, ExtentsLiveIn, DataKept
<1>2. AvailFree(idx, log2)
  <2>1. \A i \in 1 .. Len(idx.avail) : IsDataBlock(log2, idx.avail[i])
    BY AvailTyped DEF IndexOK, AvailFree, DataKept
  <2>. QED  BY <2>1 DEF IndexOK, AvailFree
<1>. QED  BY <1>1, <1>2 DEF IndexOK

\* The block an append reports belongs to nothing in a consistent index.
LEMMA FreshIsUnused ==
  ASSUME NEW idx, NEW log, NEW b, IndexOK(idx, log), ~IsDataBlock(log, b)
  PROVE  Unused(idx, b)
BY DEF IndexOK, ExtentsLiveIn, AvailFree, Unused

\* A file without an extent, or with the one that was there, disturbs nothing.
LEMMA ExtentReused ==
  ASSUME NEW idx \in Indexes, NEW idx2, NEW log, NEW p \in Paths, NEW f,
         IndexOK(idx, log), FileSet(idx, idx2, p, f), idx2.avail = idx.avail,
         HasExtent(f) => /\ HasExtent(idx.files[p])
                         /\ f.extent = idx.files[p].extent
                         /\ f.extent.count <= f.length
  PROVE  IndexOK(idx2, log)
<1>1. \A q \in Paths : idx2.files[q] = IF q = p THEN f ELSE idx.files[q]
  BY DEF FileSet, Indexes
<1>2. \A q \in Paths : HasExtent(idx2.files[q]) =>
        HasExtent(idx.files[q]) /\ idx2.files[q].extent = idx.files[q].extent
  BY <1>1
<1>3. ExtentsLiveIn(idx2, log)
  BY <1>2 DEF IndexOK, ExtentsLiveIn
<1>4. LengthCoversIn(idx2)
  BY <1>1 DEF IndexOK, LengthCoversIn
<1>5. FilesApart(idx2)
  BY <1>2 DEF IndexOK, FilesApart
<1>6. AvailFree(idx2, log)
  BY <1>2 DEF IndexOK, AvailFree
<1>. QED  BY <1>3, <1>4, <1>5, <1>6 DEF IndexOK

\* The extent of p goes to the available spaces; the new file has none, or one
\* at a block nothing used.
LEMMA ExtentFreed ==
  ASSUME NEW idx \in Indexes, NEW idx2, NEW log, NEW p \in Paths, NEW f,
         IndexOK(idx, log), FileSet(idx, idx2, p, f),
         idx.files[p] # None, idx2.avail = Freed(idx.avail, idx.files[p]),
         HasExtent(f) => /\ IsDataBlock(log, f.extent.block)
                         /\ Len(ReadAt(log, f.extent.block).data) = f.extent.count
                         /\ f.extent.count <= f.length
                         /\ Unused(idx, f.extent.block)
  PROVE  IndexOK(idx2, log)
<1>1. \A q \in Paths : idx2.files[q] = IF q = p THEN f ELSE idx.files[q]
  BY DEF FileSet, Indexes
<1>2. ExtentsLiveIn(idx2, log)
  BY <1>1 DEF IndexOK, ExtentsLiveIn
<1>3. LengthCoversIn(idx2)
  BY <1>1 DEF IndexOK, LengthCoversIn
<1>4. FilesApart(idx2)
  BY <1>1 DEF IndexOK, FilesApart, Unused
<1>5. AvailFree(idx2, log)
  <2>1. CASE idx.files[p].extent = None
    <3>1. idx2.avail = idx.avail
      BY <2>1 DEF Freed
    <3>. QED  BY <1>1, <3>1 DEF IndexOK, AvailFree, Unused
  <2>2. CASE idx.files[p].extent # None
    <3> DEFINE b == idx.files[p].extent.block
               n == Len(idx.avail)
    <3>1. HasExtent(idx.files[p]) /\ b \in Nat
      BY <2>2, ExtentTyped DEF HasExtent
    <3>2. idx.avail \in Seq(Nat) /\ n \in Nat /\ idx2.avail = Append(idx.avail, b)
      BY <2>2, LenProperties DEF Freed, Indexes
    <3>3. Len(idx2.avail) = n + 1
          /\ \A i \in 1 .. n + 1 : idx2.avail[i] = IF i = n + 1 THEN b ELSE idx.avail[i]
      BY <3>1, <3>2
    <3>4. IsDataBlock(log, b) /\ \A i \in 1 .. n : idx.avail[i] # b
      BY <3>1 DEF IndexOK, ExtentsLiveIn, AvailFree
    <3>5. \A q \in Paths : HasExtent(idx2.files[q]) =>
            /\ idx2.files[q].extent.block # b
            /\ \A i \in 1 .. n : idx2.files[q].extent.block # idx.avail[i]
      <4>1. SUFFICES ASSUME NEW q \in Paths, HasExtent(idx2.files[q])
                     PROVE  /\ idx2.files[q].extent.block # b
                            /\ \A i \in 1 .. n : idx2.files[q].extent.block # idx.avail[i]
        OBVIOUS
      <4>2. CASE q = p
        BY <1>1, <3>1, <4>1, <4>2 DEF Unused
      <4>3. CASE q # p
        BY <1>1, <3>1, <4>1, <4>3 DEF IndexOK, FilesApart, AvailFree
      <4>. QED  BY <4>2, <4>3
    <3> HIDE DEF b, n
    <3>6. \A i \in 1 .. n : IsDataBlock(log, idx.avail[i])
          /\ \A j \in 1 .. n : i # j => idx.avail[i] # idx.avail[j]
      BY DEF IndexOK, AvailFree, n
    <3>7. \A i \in 1 .. n + 1 : i # n + 1 => i \in 1 .. n
      BY <3>2
    <3>. QED  BY <3>2, <3>3, <3>4, <3>5, <3>6, <3>7 DEF AvailFree
  <2>. QED  BY <2>1, <2>2
<1>. QED  BY <1>2, <1>3, <1>4, <1>5 DEF IndexOK

\* Two paths exchange what they name.
LEMMA FileRenamed ==
  ASSUME NEW idx \in Indexes, NEW idx2 \in Indexes, NEW log,
         NEW p \in Paths, NEW q \in Paths, p # q, IndexOK(idx, log),
         idx2.avail = idx.avail,
         idx2.files = [idx.files EXCEPT ![p] = None, ![q] = idx.files[p]]
  PROVE  IndexOK(idx2, log)
<1>1. \A r \in Paths : idx2.files[r] = IF r = q THEN idx.files[p]
                                        ELSE IF r = p THEN None ELSE idx.files[r]
  BY DEF Indexes
<1>2. ~HasExtent(None)
  BY DEF HasExtent
<1>3. \A r \in Paths : HasExtent(idx2.files[r]) =>
        r # p /\ idx2.files[r] = idx.files[IF r = q THEN p ELSE r]
  BY <1>1, <1>2
<1>4. ExtentsLiveIn(idx2, log)
  BY <1>3 DEF IndexOK, ExtentsLiveIn
<1>5. LengthCoversIn(idx2)
  BY <1>3 DEF IndexOK, LengthCoversIn
<1>6. FilesApart(idx2)
  BY <1>3 DEF IndexOK, FilesApart
<1>7. AvailFree(idx2, log)
  BY <1>3 DEF IndexOK, AvailFree
<1>. QED  BY <1>4, <1>5, <1>6, <1>7 DEF IndexOK

-----------------------------------------------------------------------------
(***************************************************************************)
(* The inductive invariant.  ExtentsLive and its companions speak of the   *)
(* indexes that can be read; what keeps them true is that a dirty buffer   *)
(* is never empty (an extent holds at least a byte), that a loaded letter  *)
(* still has its labels (so an index is rewritten in its place), and that  *)
(* the index on the tape is consistent even while nobody can load it.      *)
(*                                                                         *)
(* Consistency needs the cache to belong to the tape, which an init that   *)
(* cannot save it spoils.  Inv(F) is the invariant where no fault outside  *)
(* F occurs; of AllFaults it claims the types only.                        *)
(***************************************************************************)
NoStaleCache(F) == "initsave" \notin F

DirtyHasData ==
  \A h \in Handles : Dirty(handle[h]) => handle[h].wbuf \in Contents \ {<<>>}

LabelsThere == loaded => IndexBlock <= Len(idxPart)

TapeIndexOK(F) ==
  IsDataBlock(idxPart, IndexBlock) =>
    TapeIndex \in Indexes /\ (NoStaleCache(F) => IndexOK(TapeIndex, dataPart))

CacheOK(F) == NoStaleCache(F) /\ loaded /\ cache # None => IndexOK(cache, dataPart)

Inv(F) ==
  /\ TypeOK /\ MountedHasCache /\ DirtyHasData /\ LabelsThere
  /\ TapeIndexOK(F) /\ CacheOK(F)

IInv == Inv(Faults)

TypeInv == Inv(AllFaults)

InitSaves == "initsave" \notin Faults

-----------------------------------------------------------------------------
(***************************************************************************)
(* A freshly formatted tape.                                               *)
(***************************************************************************)
LEMMA EmptyIndexOK ==
  ASSUME NEW log
  PROVE  EmptyIndex \in Indexes /\ IndexOK(EmptyIndex, log)
<1>1. EmptyIndex \in Indexes
  BY EmptySeq DEF EmptyIndex, Indexes
<1>2. EmptyIndex.avail = <<>> /\ \A p \in Paths : ~HasExtent(EmptyIndex.files[p])
  BY DEF EmptyIndex, HasExtent
<1>3. AvailFree(EmptyIndex, log)
  BY <1>2, EmptySeq DEF AvailFree
<1>4. ExtentsLiveIn(EmptyIndex, log) /\ LengthCoversIn(EmptyIndex) /\ FilesApart(EmptyIndex)
  BY <1>2 DEF ExtentsLiveIn, LengthCoversIn, FilesApart
<1>. QED  BY <1>1, <1>3, <1>4 DEF IndexOK

LEMMA BlankParts ==
  /\ BlankIndexPart \in LogOf(Indexes \cup {<<>>})
  /\ Len(BlankIndexPart) = 6
  /\ BlankIndexPart[4] = DataRecord(EmptyIndex)
  /\ BlankDataPart \in LogOf(Contents)
  /\ Len(BlankDataPart) = 4
<1>1. <<>> \in Contents
  <2>1. <<>> \in Seq(Bytes) /\ Len(<<>>) \in 0 .. MaxLength
    BY EmptySeq, BoundsAssumption
  <2>. QED  BY <2>1, SeqIsContent
<1>2. EmptyIndex \in Indexes
  BY EmptyIndexOK
<1>3. \A S : Filemark \in Records(S) /\ EODMark \in Records(S)
  BY DEF Records
<1>4. \A S, c : c \in S => DataRecord(c) \in Records(S)
  BY DEF Records, DataRecord
<1>5. Label \in Records(Contents) /\ Label \in Records(Indexes \cup {<<>>})
      /\ DataRecord(EmptyIndex) \in Records(Indexes \cup {<<>>})
  BY <1>1, <1>2, <1>4 DEF Label
<1>. QED  BY <1>3, <1>5 DEF BlankIndexPart, BlankDataPart, LogOf

\* However far a format got, the index block is absent or the empty index.
LEMMA FormattedUpTo ==
  ASSUME NEW k \in 0 .. 6
  PROVE  /\ SubSeq(BlankIndexPart, 1, k) \in LogOf(Indexes \cup {<<>>})
         /\ IsDataBlock(SubSeq(BlankIndexPart, 1, k), IndexBlock) =>
              ReadAt(SubSeq(BlankIndexPart, 1, k), IndexBlock).data = EmptyIndex
<1> DEFINE new == TruncateAt(BlankIndexPart, k)
<1>1. k \in 0 .. Len(BlankIndexPart)
  BY BlankParts
<1>2. new \in LogOf(Indexes \cup {<<>>}) /\ Len(new) = k
      /\ \A i \in 1 .. k : new[i] = BlankIndexPart[i]
  BY <1>1, BlankParts, Truncated
<1>3. SubSeq(BlankIndexPart, 1, k) = new
  BY DEF TruncateAt
<1> HIDE DEF new
<1>4. IsDataBlock(new, IndexBlock) => ReadAt(new, IndexBlock) = DataRecord(EmptyIndex)
  BY <1>2, BlankParts DEF IsDataBlock, HasBlock, ReadAt, IndexBlock
<1>5. DataRecord(EmptyIndex).data = EmptyIndex
  BY DEF DataRecord
<1>. QED  BY <1>2, <1>3, <1>4, <1>5

LEMMA InitInv ==
  ASSUME NEW F
  PROVE  Init => Inv(F)
<1>1. <<>> \in LogOf(Indexes \cup {<<>>}) /\ <<>> \in LogOf(Contents) /\ Len(<<>>) = 0
  BY EmptySeq DEF LogOf
<1>2. SUFFICES ASSUME Init PROVE Inv(F)
  OBVIOUS
<1>3. TypeOK
  BY <1>1, <1>2 DEF Init, TypeOK, NoHandles
<1>4. MountedHasCache /\ LabelsThere /\ CacheOK(F)
  BY <1>2 DEF Init, MountedHasCache, LabelsThere, CacheOK
<1>5. DirtyHasData
  BY <1>2 DEF Init, DirtyHasData, NoHandles, Dirty
<1>6. TapeIndexOK(F)
  BY <1>1, <1>2 DEF Init, TapeIndexOK, IsDataBlock, HasBlock, IndexBlock
<1>. QED  BY <1>3, <1>4, <1>5, <1>6 DEF Inv

-----------------------------------------------------------------------------
(***************************************************************************)
(* Commands of the daemon.                                                 *)
(***************************************************************************)
LEMMA InitCommandKeeps ==
  ASSUME NEW F, Faults \subseteq F
  PROVE  Inv(F) /\ (CmdInit \/ CmdInitSaveFails) => Inv(F)'
<1>1. SUFFICES ASSUME Inv(F), CmdInit \/ CmdInitSaveFails PROVE Inv(F)'
  OBVIOUS
<1>2. /\ ~mounted /\ mounted' = mounted /\ handle' = handle /\ loaded'
      /\ idxPart' = BlankIndexPart /\ dataPart' = BlankDataPart
      /\ cache' = EmptyIndex \/ (cache' = cache /\ ~NoStaleCache(F))
  BY <1>1 DEF CmdInit, CmdInitSaveFails, NoStaleCache
<1>3. TypeOK'
  <2>1. cache' \in Indexes \cup {None}
    BY <1>1, <1>2, EmptyIndexOK DEF Inv, TypeOK
  <2>. QED  BY <1>1, <1>2, <2>1, BlankParts DEF Inv, TypeOK, CmdInit, CmdInitSaveFails
<1>4. MountedHasCache' /\ LabelsThere'
  BY <1>2, BlankParts DEF MountedHasCache, LabelsThere, IndexBlock
<1>5. DirtyHasData'
  BY <1>1, <1>2 DEF Inv, DirtyHasData
<1>6. TapeIndexOK(F)'
  <2>1. ReadAt(BlankIndexPart, IndexBlock).data = EmptyIndex
    BY BlankParts DEF ReadAt, IndexBlock, DataRecord
  <2>. QED  BY <1>2, <2>1, EmptyIndexOK DEF TapeIndexOK, TapeIndex
<1>7. CacheOK(F)'
  BY <1>2, EmptyIndexOK DEF CacheOK
<1>. QED  BY <1>3, <1>4, <1>5, <1>6, <1>7 DEF Inv

\* What a format that fails leaves: a beginning of the index partition, and a data
\* partition as it was or a beginning of a new one.
LEMMA FormatStopped ==
  ASSUME CmdInitFormatFails
  PROVE  /\ \/ \E k \in 0 .. 6 : idxPart' = SubSeq(BlankIndexPart, 1, k)
            \/ idxPart' = BlankIndexPart
         /\ \/ dataPart' = dataPart \/ dataPart' = <<>>
            \/ \E k \in 1 .. 4 : dataPart' = SubSeq(BlankDataPart, 1, k)
<1>1. SubSeq(BlankIndexPart, 1, 0) = <<>>
  BY BlankParts, EmptySeq
<1>2. CASE idxPart' = <<>> /\ UNCHANGED dataPart
  <2>1. 0 \in 0 .. 6 /\ idxPart' = SubSeq(BlankIndexPart, 1, 0)
    BY <1>1, <1>2
  <2>. QED  BY <1>2, <2>1, Zenon
<1>3. CASE (\E k \in 0 .. 6 : idxPart' = SubSeq(BlankIndexPart, 1, k)) /\ dataPart' = <<>>
  BY <1>3, Zenon
<1>4. CASE idxPart' = BlankIndexPart /\ \E k \in 1 .. 4 : dataPart' = SubSeq(BlankDataPart, 1, k)
  BY <1>4, Zenon
<1>. QED  BY <1>2, <1>3, <1>4, Zenon DEF CmdInitFormatFails

LEMMA FormatFailsKeeps ==
  ASSUME NEW F
  PROVE  Inv(F) /\ CmdInitFormatFails => Inv(F)'
<1>1. SUFFICES ASSUME Inv(F), CmdInitFormatFails PROVE Inv(F)'
  OBVIOUS
<1>2. /\ ~mounted /\ mounted' = mounted /\ handle' = handle /\ ~loaded' /\ cache' = cache
      /\ loaded' \in BOOLEAN
  BY <1>1 DEF CmdInitFormatFails
<1>3. /\ idxPart' \in LogOf(Indexes \cup {<<>>})
      /\ IsDataBlock(idxPart', IndexBlock) => ReadAt(idxPart', IndexBlock).data = EmptyIndex
  <2>1. CASE \E k \in 0 .. 6 : idxPart' = SubSeq(BlankIndexPart, 1, k)
    BY <2>1, FormattedUpTo
  <2>2. CASE idxPart' = BlankIndexPart
    BY <2>2, BlankParts DEF ReadAt, IndexBlock, DataRecord
  <2>. QED  BY <1>1, <2>1, <2>2, FormatStopped
<1>4. dataPart' \in LogOf(Contents)
  <2>1. CASE dataPart' = <<>>
    BY <2>1, EmptySeq DEF LogOf
  <2>2. ASSUME NEW k \in 1 .. 4, dataPart' = SubSeq(BlankDataPart, 1, k)
        PROVE  dataPart' \in LogOf(Contents)
    <3>1. k \in 0 .. Len(BlankDataPart)
      BY BlankParts
    <3>2. TruncateAt(BlankDataPart, k) \in LogOf(Contents)
      BY <3>1, BlankParts, Truncated
    <3>. QED  BY <2>2, <3>2 DEF TruncateAt
  <2>3. CASE dataPart' = dataPart
    BY <1>1, <2>3 DEF Inv, TypeOK
  <2>. QED  BY <1>1, <2>1, <2>2, <2>3, FormatStopped
<1>5. TypeOK'
  BY <1>1, <1>2, <1>3, <1>4 DEF Inv, TypeOK
<1>6. MountedHasCache' /\ LabelsThere' /\ CacheOK(F)'
  BY <1>2 DEF MountedHasCache, LabelsThere, CacheOK
<1>7. DirtyHasData'
  BY <1>1, <1>2 DEF Inv, DirtyHasData
<1>8. TapeIndexOK(F)'
  BY <1>3, EmptyIndexOK DEF TapeIndexOK, TapeIndex
<1>. QED  BY <1>5, <1>6, <1>7, <1>8 DEF Inv

LEMMA LoadKeeps ==
  ASSUME NEW F
  PROVE  Inv(F) /\ CmdLoad => Inv(F)'
<1>1. SUFFICES ASSUME Inv(F), CmdLoad PROVE Inv(F)'
  OBVIOUS
<1>2. /\ IsDataBlock(idxPart, IndexBlock)
      /\ cache' = TapeIndex /\ loaded'
      /\ idxPart' = idxPart /\ dataPart' = dataPart /\ mounted' = mounted /\ handle' = handle
  BY <1>1 DEF CmdLoad, Loadable, tape
<1>3. TapeIndex \in Indexes /\ (NoStaleCache(F) => IndexOK(TapeIndex, dataPart))
  BY <1>1, <1>2 DEF Inv, TapeIndexOK
<1>4. TypeOK'
  BY <1>1, <1>2, <1>3 DEF Inv, TypeOK, CmdLoad
<1>5. MountedHasCache'
  BY <1>2, <1>3, NoneAssumption DEF MountedHasCache
<1>6. LabelsThere'
  <2>1. Len(idxPart) \in Nat
    BY <1>1, LenProperties DEF Inv, TypeOK, LogOf
  <2>. QED  BY <1>2, <2>1 DEF LabelsThere, IsDataBlock, HasBlock, IndexBlock
<1>7. DirtyHasData'
  BY <1>1, <1>2 DEF Inv, DirtyHasData
<1>8. TapeIndexOK(F)' /\ CacheOK(F)'
  BY <1>2, <1>3 DEF TapeIndexOK, TapeIndex, CacheOK
<1>. QED  BY <1>4, <1>5, <1>6, <1>7, <1>8 DEF Inv

\* A higher generation changes nothing an index says about blocks.
LEMMA NextGenOK ==
  ASSUME NEW log, cache \in Indexes
  PROVE  /\ NextGen \in Indexes
         /\ IndexOK(cache, log) => IndexOK(NextGen, log)
<1>1. NextGen \in Indexes /\ NextGen.files = cache.files /\ NextGen.avail = cache.avail
  <2>1. NextGen = [gen |-> cache.gen + 1, files |-> cache.files, avail |-> cache.avail]
    BY DEF NextGen, Indexes
  <2>2. /\ cache.gen + 1 \in Nat
        /\ cache.files \in [Paths -> Files \cup {None}]
        /\ cache.avail \in Seq(Nat)
    BY DEF Indexes
  <2>. QED  BY <2>1, <2>2 DEF Indexes
<1> HIDE DEF NextGen
<1>2. ExtentsLiveIn(cache, log) => ExtentsLiveIn(NextGen, log)
  BY <1>1 DEF ExtentsLiveIn
<1>3. LengthCoversIn(cache) => LengthCoversIn(NextGen)
  BY <1>1 DEF LengthCoversIn
<1>4. FilesApart(cache) => FilesApart(NextGen)
  BY <1>1 DEF FilesApart
<1>5. AvailFree(cache, log) => AvailFree(NextGen, log)
  BY <1>1 DEF AvailFree
<1>. QED  BY <1>1, <1>2, <1>3, <1>4, <1>5 DEF IndexOK

\* FlushIndex, as far as it gets, with or without the save of the cache.
LEMMA FlushIndexKeeps ==
  ASSUME NEW F, Inv(F), loaded, cache # None,
         idxPart' \in FailedIndexWrites(idxPart, NextGen), cache' \in {cache, NextGen},
         UNCHANGED <<dataPart, loaded, mounted, handle>>
  PROVE  Inv(F)'
<1>1. cache \in Indexes /\ (NoStaleCache(F) => IndexOK(cache, dataPart))
  BY DEF Inv, TypeOK, CacheOK
<1>2. NextGen \in Indexes /\ (NoStaleCache(F) => IndexOK(NextGen, dataPart))
  BY <1>1, NextGenOK
<1>3. idxPart \in LogOf(Indexes \cup {<<>>}) /\ IndexBlock <= Len(idxPart)
  BY DEF Inv, TypeOK, LabelsThere
<1>4. CASE idxPart' = idxPart
  <2>1. TypeOK'
    BY <1>1, <1>2, <1>4 DEF Inv, TypeOK
  <2>2. MountedHasCache'
    BY <1>1, <1>2, NoneAssumption DEF Inv, MountedHasCache
  <2>3. LabelsThere' /\ DirtyHasData' /\ TapeIndexOK(F)'
    BY <1>4 DEF Inv, LabelsThere, DirtyHasData, TapeIndexOK, TapeIndex
  <2>4. CacheOK(F)'
    BY <1>1, <1>2 DEF CacheOK
  <2>. QED  BY <2>1, <2>2, <2>3, <2>4 DEF Inv
<1>5. ASSUME NEW k \in 0 .. 3, idxPart' = WriteIndexUpTo(idxPart, NextGen, k)
      PROVE  Inv(F)'
  <2>1. /\ idxPart' \in LogOf(Indexes \cup {<<>>})
        /\ Len(idxPart') = 3 + k
        /\ k > 0 => idxPart'[4] = DataRecord(NextGen)
    <3>1. NextGen \in Indexes \cup {<<>>}
      BY <1>2
    <3>2. /\ WriteIndexUpTo(idxPart, NextGen, k) \in LogOf(Indexes \cup {<<>>})
          /\ Len(WriteIndexUpTo(idxPart, NextGen, k)) = 3 + k
          /\ SamePrefix(idxPart, WriteIndexUpTo(idxPart, NextGen, k), 3)
          /\ WrittenAt(WriteIndexUpTo(idxPart, NextGen, k), 3, IndexRecords(NextGen), k)
      <4>1. k \in 0 .. 3
        BY <1>5
      <4>. QED  BY <1>3, <3>1, <4>1, IndexWritten, Zenon
    <3>3. IndexRecords(NextGen)[1] = DataRecord(NextGen)
      BY <3>1, RecordsWritten
    <3> DEFINE new == WriteIndexUpTo(idxPart, NextGen, k)
    <3>4. /\ new \in LogOf(Indexes \cup {<<>>})
          /\ Len(new) = 3 + k
          /\ WrittenAt(new, 3, IndexRecords(NextGen), k)
      BY <3>2
    <3>5. idxPart' = new
      BY <1>5
    <3> HIDE DEF new
    <3>6. k > 0 => new[4] = DataRecord(NextGen)
      <4>1. k > 0 => 1 \in 1 .. k
        OBVIOUS
      <4>2. \A i \in 1 .. k : new[3 + i] = IndexRecords(NextGen)[i]
        BY <3>4 DEF WrittenAt
      <4>. QED  BY <3>3, <4>1, <4>2
    <3>. QED  BY <3>4, <3>5, <3>6
  <2>2. TypeOK'
    BY <1>1, <1>2, <2>1 DEF Inv, TypeOK
  <2>3. MountedHasCache'
    BY <1>1, <1>2, NoneAssumption DEF Inv, MountedHasCache
  <2>4. LabelsThere'
    BY <2>1 DEF LabelsThere, IndexBlock
  <2>5. DirtyHasData'
    BY DEF Inv, DirtyHasData
  <2>6. TapeIndexOK(F)'
    <3>1. ASSUME IsDataBlock(idxPart', IndexBlock)
          PROVE  ReadAt(idxPart', IndexBlock) = DataRecord(NextGen)
      BY <2>1, <3>1 DEF IsDataBlock, HasBlock, ReadAt, IndexBlock
    <3>2. DataRecord(NextGen).data = NextGen
      BY DEF DataRecord
    <3>. QED  BY <1>2, <3>1, <3>2 DEF TapeIndexOK, TapeIndex
  <2>7. CacheOK(F)'
    BY <1>1, <1>2 DEF CacheOK
  <2>. QED  BY <2>2, <2>3, <2>4, <2>5, <2>6, <2>7 DEF Inv
<1>. QED  BY <1>4, <1>5 DEF FailedIndexWrites

LEMMA CommitKeeps ==
  ASSUME NEW F
  PROVE  Inv(F) /\ (CmdCommit \/ FlushHandleWrite) => Inv(F)'
<1>1. SUFFICES ASSUME Inv(F), CmdCommit \/ FlushHandleWrite PROVE Inv(F)'
  OBVIOUS
<1>2. loaded /\ cache # None
  BY <1>1 DEF CmdCommit, FlushHandleWrite, FlushIndex, FlushIndexFails,
              FlushIndexSaveFails, Inv, MountedHasCache
<1>3. idxPart' \in FailedIndexWrites(idxPart, NextGen)
  <2>1. WriteIndex(idxPart, NextGen) \in FailedIndexWrites(idxPart, NextGen)
    BY DEF WriteIndex, FailedIndexWrites
  <2>. QED  BY <1>1, <2>1 DEF CmdCommit, FlushHandleWrite, FlushIndex, FlushIndexFails,
                              FlushIndexSaveFails
<1>4. cache' \in {cache, NextGen} /\ UNCHANGED <<dataPart, loaded, mounted, handle>>
  BY <1>1 DEF CmdCommit, FlushHandleWrite, FlushIndex, FlushIndexFails, FlushIndexSaveFails
<1>. QED  BY <1>1, <1>2, <1>3, <1>4, FlushIndexKeeps

\* Commands that touch neither the tape nor, but for discard, the cache.
LEMMA EntryKeeps ==
  ASSUME NEW F
  PROVE  Inv(F) /\ (CmdDiscard \/ CloseEntry \/ CmdMount \/ CmdUmount \/ Crash) => Inv(F)'
<1>1. SUFFICES ASSUME Inv(F), CmdDiscard \/ CloseEntry \/ CmdMount \/ CmdUmount \/ Crash
               PROVE  Inv(F)'
  OBVIOUS
<1>2. /\ idxPart' = idxPart /\ dataPart' = dataPart
      /\ loaded' = loaded \/ loaded' = FALSE
      /\ cache' = cache \/ (cache' = None /\ loaded' = FALSE)
      /\ handle' = handle \/ handle' = NoHandles
  BY <1>1 DEF CmdDiscard, CloseEntry, CmdMount, CmdUmount, Crash, tape
<1>3. TypeOK'
  BY <1>1, <1>2 DEF Inv, TypeOK, NoHandles, CmdDiscard, CloseEntry, CmdMount, CmdUmount, Crash
<1>4. MountedHasCache'
  BY <1>1 DEF Inv, MountedHasCache, CmdDiscard, CloseEntry, CmdMount, CmdUmount, Crash, tape
<1>5. LabelsThere' /\ TapeIndexOK(F)' /\ CacheOK(F)'
  BY <1>1, <1>2 DEF Inv, LabelsThere, TapeIndexOK, TapeIndex, CacheOK
<1>6. DirtyHasData'
  BY <1>1, <1>2 DEF Inv, DirtyHasData, NoHandles, Dirty
<1>. QED  BY <1>3, <1>4, <1>5, <1>6 DEF Inv

-----------------------------------------------------------------------------
(***************************************************************************)
(* FUSE handlers: each replaces the cache by another index of the same     *)
(* tape, or leaves it.                                                     *)
(***************************************************************************)
\* What a handler has to establish: the data partition lost no data, the new
\* cache is consistent over it, the handles are typed.
LEMMA HandlerKeeps ==
  ASSUME NEW F, Inv(F), UNCHANGED <<idxPart, loaded, mounted>>,
         dataPart' \in LogOf(Contents), DataKept(dataPart, dataPart'),
         cache' \in Indexes, NoStaleCache(F) /\ loaded => IndexOK(cache', dataPart'),
         handle' \in [Handles -> OpenHandles \cup {None}], DirtyHasData'
  PROVE  Inv(F)'
<1>1. TypeOK' /\ MountedHasCache' /\ LabelsThere'
  BY NoneAssumption DEF Inv, TypeOK, MountedHasCache, LabelsThere
<1>2. TapeIndexOK(F)'
  BY IndexOKKept DEF Inv, TapeIndexOK, TapeIndex
<1>3. CacheOK(F)'
  BY DEF CacheOK
<1>. QED  BY <1>1, <1>2, <1>3 DEF Inv

LEMMA SameDataKept ==
  ASSUME NEW log
  PROVE  DataKept(log, log)
BY DEF DataKept

\* A mounted letter's cache.
LEMMA MountedCache ==
  ASSUME NEW F, Inv(F), mounted
  PROVE  loaded /\ cache \in Indexes /\ (NoStaleCache(F) => IndexOK(cache, dataPart))
BY DEF Inv, TypeOK, MountedHasCache, CacheOK

LEMMA NewHandleKeeps ==
  ASSUME NEW F, Inv(F), NEW p \in Paths, NEW h \in Handles,
         handle' = [handle EXCEPT ![h] = NewHandle(p)]
  PROVE  handle' \in [Handles -> OpenHandles \cup {None}] /\ DirtyHasData'
<1>1. NewHandle(p) \in OpenHandles /\ ~NewHandle(p).dirty
  BY DEF NewHandle, OpenHandles
<1>. QED  BY <1>1 DEF Inv, TypeOK, DirtyHasData, Dirty

LEMMA NewFileTyped ==
  NewFile \in Files /\ ~HasExtent(NewFile)
BY BoundsAssumption DEF NewFile, Files, HasExtent

LEMMA FreedTyped ==
  ASSUME NEW idx \in Indexes, NEW p \in Paths, idx.files[p] # None
  PROVE  Freed(idx.avail, idx.files[p]) \in Seq(Nat)
<1>1. idx.avail \in Seq(Nat) /\ idx.files[p] \in Files
  BY DEF Indexes
<1>2. idx.files[p].extent # None => idx.files[p].extent.block \in Nat
  BY <1>1 DEF Files, Extents
<1>. QED  BY <1>1, <1>2 DEF Freed

LEMMA CreateKeeps ==
  ASSUME NEW F, NEW p \in Paths, NEW h \in Handles
  PROVE  Inv(F) /\ Create(p, h) => Inv(F)'
<1>1. SUFFICES ASSUME Inv(F), Create(p, h) PROVE Inv(F)'
  OBVIOUS
<1>2. loaded /\ cache \in Indexes /\ (NoStaleCache(F) => IndexOK(cache, dataPart))
  BY <1>1, MountedCache DEF Create
<1>3. cache' = [cache EXCEPT !.files[p] = NewFile]
      /\ UNCHANGED <<idxPart, dataPart, loaded, mounted>>
  BY <1>1 DEF Create, tape
<1>4. FileSet(cache, cache', p, NewFile) /\ cache'.avail = cache.avail
  BY <1>2, <1>3, NewFileTyped DEF FileSet, Indexes
<1>5. NoStaleCache(F) => IndexOK(cache', dataPart)
  BY <1>2, <1>4, NewFileTyped, ExtentReused
<1>6. handle' \in [Handles -> OpenHandles \cup {None}] /\ DirtyHasData'
  BY <1>1, NewHandleKeeps DEF Create
<1>7. dataPart' \in LogOf(Contents) /\ DataKept(dataPart, dataPart')
  BY <1>1, <1>3, SameDataKept DEF Inv, TypeOK
<1>. QED  BY <1>1, <1>3, <1>4, <1>5, <1>6, <1>7, HandlerKeeps DEF FileSet

LEMMA OpenKeeps ==
  ASSUME NEW F, NEW p \in Paths, NEW h \in Handles
  PROVE  Inv(F) /\ Open(p, h) => Inv(F)'
<1>1. SUFFICES ASSUME Inv(F), Open(p, h) PROVE Inv(F)'
  OBVIOUS
<1>2. loaded /\ cache \in Indexes /\ (NoStaleCache(F) => IndexOK(cache, dataPart))
  BY <1>1, MountedCache DEF Open
<1>3. cache' = cache /\ UNCHANGED <<idxPart, dataPart, loaded, mounted>>
  BY <1>1 DEF Open, tape
<1>4. handle' \in [Handles -> OpenHandles \cup {None}] /\ DirtyHasData'
  BY <1>1, NewHandleKeeps DEF Open
<1>5. dataPart' \in LogOf(Contents) /\ DataKept(dataPart, dataPart')
  BY <1>1, <1>3, SameDataKept DEF Inv, TypeOK
<1>. QED  BY <1>1, <1>2, <1>3, <1>4, <1>5, HandlerKeeps

LEMMA OpenTruncateKeeps ==
  ASSUME NEW F, NEW p \in Paths, NEW h \in Handles
  PROVE  Inv(F) /\ OpenTruncate(p, h) => Inv(F)'
<1>1. SUFFICES ASSUME Inv(F), OpenTruncate(p, h) PROVE Inv(F)'
  OBVIOUS
<1>2. loaded /\ cache \in Indexes /\ (NoStaleCache(F) => IndexOK(cache, dataPart))
  BY <1>1, MountedCache DEF OpenTruncate
<1>3. /\ cache.files[p] # None
      /\ cache' = [cache EXCEPT !.files[p] = NewFile, !.avail = Freed(@, cache.files[p])]
      /\ UNCHANGED <<idxPart, dataPart, loaded, mounted>>
  BY <1>1 DEF OpenTruncate, Exists, tape
<1>4. FileSet(cache, cache', p, NewFile) /\ cache'.avail = Freed(cache.avail, cache.files[p])
  BY <1>2, <1>3, NewFileTyped, FreedTyped DEF FileSet, Indexes
<1>5. NoStaleCache(F) => IndexOK(cache', dataPart)
  BY <1>2, <1>3, <1>4, NewFileTyped, ExtentFreed
<1>6. handle' \in [Handles -> OpenHandles \cup {None}] /\ DirtyHasData'
  BY <1>1, NewHandleKeeps DEF OpenTruncate
<1>7. dataPart' \in LogOf(Contents) /\ DataKept(dataPart, dataPart')
  BY <1>1, <1>3, SameDataKept DEF Inv, TypeOK
<1>. QED  BY <1>1, <1>3, <1>4, <1>5, <1>6, <1>7, HandlerKeeps DEF FileSet

LEMMA RemoveKeeps ==
  ASSUME NEW F, NEW p \in Paths
  PROVE  Inv(F) /\ Remove(p) => Inv(F)'
<1>1. SUFFICES ASSUME Inv(F), Remove(p) PROVE Inv(F)'
  OBVIOUS
<1>2. loaded /\ cache \in Indexes /\ (NoStaleCache(F) => IndexOK(cache, dataPart))
  BY <1>1, MountedCache DEF Remove
<1>3. /\ cache.files[p] # None
      /\ cache' = [cache EXCEPT !.files[p] = None, !.avail = Freed(@, cache.files[p])]
      /\ UNCHANGED <<idxPart, dataPart, loaded, mounted, handle>>
  BY <1>1 DEF Remove, Exists, tape
<1>4. FileSet(cache, cache', p, None) /\ cache'.avail = Freed(cache.avail, cache.files[p])
  BY <1>2, <1>3, FreedTyped DEF FileSet, Indexes
<1>5. ~HasExtent(None)
  BY DEF HasExtent
<1>6. NoStaleCache(F) => IndexOK(cache', dataPart)
  BY <1>2, <1>3, <1>4, <1>5, ExtentFreed
<1>7. handle' \in [Handles -> OpenHandles \cup {None}] /\ DirtyHasData'
  BY <1>1, <1>3 DEF Inv, TypeOK, DirtyHasData
<1>8. dataPart' \in LogOf(Contents) /\ DataKept(dataPart, dataPart')
  BY <1>1, <1>3, SameDataKept DEF Inv, TypeOK
<1>. QED  BY <1>1, <1>3, <1>4, <1>6, <1>7, <1>8, HandlerKeeps DEF FileSet

LEMMA RenameKeeps ==
  ASSUME NEW F, NEW p \in Paths, NEW q \in Paths
  PROVE  Inv(F) /\ Rename(p, q) => Inv(F)'
<1>1. SUFFICES ASSUME Inv(F), Rename(p, q) PROVE Inv(F)'
  OBVIOUS
<1>2. loaded /\ cache \in Indexes /\ (NoStaleCache(F) => IndexOK(cache, dataPart))
  BY <1>1, MountedCache DEF Rename
<1>3. /\ p # q
      /\ cache' = [cache EXCEPT !.files = [@ EXCEPT ![p] = None, ![q] = cache.files[p]]]
      /\ UNCHANGED <<idxPart, dataPart, loaded, mounted, handle>>
  BY <1>1 DEF Rename, Exists, tape
<1>4. /\ cache' \in Indexes /\ cache'.avail = cache.avail
      /\ cache'.files = [cache.files EXCEPT ![p] = None, ![q] = cache.files[p]]
  BY <1>2, <1>3 DEF Indexes
<1>5. NoStaleCache(F) => IndexOK(cache', dataPart)
  BY <1>2, <1>3, <1>4, FileRenamed
<1>6. handle' \in [Handles -> OpenHandles \cup {None}] /\ DirtyHasData'
  BY <1>1, <1>3 DEF Inv, TypeOK, DirtyHasData
<1>7. dataPart' \in LogOf(Contents) /\ DataKept(dataPart, dataPart')
  BY <1>1, <1>3, SameDataKept DEF Inv, TypeOK
<1>. QED  BY <1>1, <1>3, <1>4, <1>5, <1>6, <1>7, HandlerKeeps

-----------------------------------------------------------------------------
(***************************************************************************)
(* Writes and flushes.                                                     *)
(***************************************************************************)
LEMMA HandleTyped ==
  ASSUME NEW F, Inv(F), NEW h \in Handles, handle[h] # None
  PROVE  /\ handle[h] \in OpenHandles
         /\ handle[h].path \in Paths
         /\ handle[h].dirty => handle[h].wbuf \in Contents \ {<<>>}
BY DEF Inv, TypeOK, DirtyHasData, Dirty, OpenHandles

\* A handle that may buffer has a buffer to write to.
LEMMA BufferTyped ==
  ASSUME NEW F, Inv(F), mounted, NEW h \in Handles, handle[h] # None, CanBuffer(handle[h])
  PROVE  /\ Buffered(handle[h]) \in OpenHandles
         /\ Buffered(handle[h]).wbuf \in Contents
         /\ Buffered(handle[h]).path = handle[h].path
         /\ Buffered(handle[h]).dirty => Buffered(handle[h]).wbuf # <<>>
<1>1. handle[h] \in OpenHandles /\ handle[h].path \in Paths
      /\ (handle[h].dirty => handle[h].wbuf \in Contents \ {<<>>})
  BY HandleTyped
<1>2. CASE handle[h].wbuf # None
  BY <1>1, <1>2 DEF Buffered, OpenHandles
<1>3. CASE handle[h].wbuf = None
  <2>1. cache \in Indexes /\ dataPart \in LogOf(Contents)
    BY MountedCache DEF Inv, TypeOK
  <2>2. cache.files[handle[h].path] \in Files /\ Preload(handle[h]) # EIO
    BY <1>1, <1>3, <2>1 DEF CanBuffer, Exists, Indexes
  <2>3. Preload(handle[h]) \in Contents
    BY <2>1, <2>2, ReadIsContent DEF Preload
  <2>4. Buffered(handle[h]) = [handle[h] EXCEPT !.wbuf = Preload(handle[h])]
    BY <1>3 DEF Buffered
  <2>5. ~handle[h].dirty
    BY <1>1, <1>3, NoneAssumption
  <2>. QED  BY <1>1, <2>3, <2>4, <2>5 DEF OpenHandles
<1>. QED  BY <1>2, <1>3

\* Putting one handle back, dirty only with data, keeps the handles typed.
LEMMA HandleReplaced ==
  ASSUME NEW F, Inv(F), NEW h \in Handles, NEW hd \in OpenHandles \cup {None},
         Dirty(hd) => hd.wbuf \in Contents \ {<<>>},
         handle' = [handle EXCEPT ![h] = hd]
  PROVE  handle' \in [Handles -> OpenHandles \cup {None}] /\ DirtyHasData'
BY DEF Inv, TypeOK, DirtyHasData

LEMMA WriteKeeps ==
  ASSUME NEW F, NEW h \in Handles, NEW off \in 0 .. MaxLength - 1, NEW b \in Bytes
  PROVE  Inv(F) /\ Write(h, off, b) => Inv(F)'
<1>1. SUFFICES ASSUME Inv(F), Write(h, off, b) PROVE Inv(F)'
  OBVIOUS
<1> DEFINE hd == Buffered(handle[h])
           new == [hd EXCEPT !.wbuf = WriteAt(hd.wbuf, off, b), !.dirty = TRUE]
<1>2. /\ mounted /\ handle[h] # None /\ CanBuffer(handle[h])
      /\ handle' = [handle EXCEPT ![h] = new]
      /\ UNCHANGED <<idxPart, dataPart, loaded, mounted>>
  BY <1>1 DEF Write, tape
<1>3. hd \in OpenHandles /\ hd.wbuf \in Contents /\ hd.path \in Paths
  BY <1>1, <1>2, BufferTyped, HandleTyped
<1>4. WriteAt(hd.wbuf, off, b) \in Contents \ {<<>>}
  BY <1>3, WriteAtIsContent
<1>5. \/ cache' = cache
      \/ /\ cache.files[hd.path] # None
         /\ off + 1 > cache.files[hd.path].length
         /\ cache' = [cache EXCEPT !.files[hd.path].length = off + 1]
  BY <1>1 DEF Write, Exists
<1> HIDE DEF hd
<1>6. new \in OpenHandles /\ new.wbuf \in Contents \ {<<>>}
  BY <1>3, <1>4 DEF OpenHandles
<1> HIDE DEF new
<1>7. handle' \in [Handles -> OpenHandles \cup {None}] /\ DirtyHasData'
  BY <1>1, <1>2, <1>6, HandleReplaced
<1>8. loaded /\ cache \in Indexes /\ (NoStaleCache(F) => IndexOK(cache, dataPart))
  BY <1>1, <1>2, MountedCache
<1>9. cache' \in Indexes /\ (NoStaleCache(F) => IndexOK(cache', dataPart))
  <2>1. CASE cache' = cache
    BY <1>8, <2>1
  <2>2. CASE /\ cache.files[hd.path] # None
             /\ off + 1 > cache.files[hd.path].length
             /\ cache' = [cache EXCEPT !.files[hd.path].length = off + 1]
    <3> DEFINE f == [cache.files[hd.path] EXCEPT !.length = off + 1]
    <3>1. cache.files[hd.path] \in Files
      BY <1>3, <1>8, <2>2 DEF Indexes
    <3>2. f \in Files /\ f.extent = cache.files[hd.path].extent /\ f.length = off + 1
      BY <3>1, BoundsAssumption DEF Files
    <3>3. cache' = [cache EXCEPT !.files[hd.path] = f]
      BY <2>2
    <3> HIDE DEF f
    <3>4. FileSet(cache, cache', hd.path, f) /\ cache'.avail = cache.avail
      BY <1>3, <1>8, <3>2, <3>3 DEF FileSet, Indexes
    <3>5. ASSUME NoStaleCache(F), HasExtent(f)
          PROVE  HasExtent(cache.files[hd.path]) /\ f.extent.count <= f.length
      <4>1. HasExtent(cache.files[hd.path])
        BY <2>2, <3>2, <3>5 DEF HasExtent
      <4>2. cache.files[hd.path].extent.count <= cache.files[hd.path].length
        BY <1>3, <1>8, <3>5, <4>1 DEF IndexOK, LengthCoversIn
      <4>3. /\ cache.files[hd.path].extent.count \in Int
            /\ cache.files[hd.path].length \in Int
        BY <1>3, <1>8, <4>1, ExtentTyped, BoundsAssumption DEF Files, Extents
      <4>. QED  BY <2>2, <3>2, <4>1, <4>2, <4>3
    <3>6. NoStaleCache(F) => IndexOK(cache', dataPart)
      BY <1>3, <1>8, <3>2, <3>4, <3>5, ExtentReused
    <3>. QED  BY <3>4, <3>6 DEF FileSet
  <2>. QED  BY <1>5, <2>1, <2>2
<1>10. dataPart' \in LogOf(Contents) /\ DataKept(dataPart, dataPart')
  BY <1>1, <1>2, SameDataKept DEF Inv, TypeOK
<1>. QED  BY <1>1, <1>2, <1>7, <1>9, <1>10, HandlerKeeps

LEMMA WriteBeyondLimitKeeps ==
  ASSUME NEW F, NEW h \in Handles, NEW off \in 0 .. MaxLength - 1
  PROVE  Inv(F) /\ WriteBeyondLimit(h, off) => Inv(F)'
<1>1. SUFFICES ASSUME Inv(F), WriteBeyondLimit(h, off) PROVE Inv(F)'
  OBVIOUS
<1>2. /\ mounted /\ handle[h] # None /\ CanBuffer(handle[h])
      /\ handle' = [handle EXCEPT ![h] = Buffered(handle[h])]
      /\ UNCHANGED <<idxPart, dataPart, cache, loaded, mounted>>
  BY <1>1 DEF WriteBeyondLimit, tape
<1>3. /\ Buffered(handle[h]) \in OpenHandles
      /\ Dirty(Buffered(handle[h])) => Buffered(handle[h]).wbuf \in Contents \ {<<>>}
  BY <1>1, <1>2, BufferTyped DEF Dirty
<1>4. handle' \in [Handles -> OpenHandles \cup {None}] /\ DirtyHasData'
  BY <1>1, <1>2, <1>3, HandleReplaced
<1>5. loaded /\ cache \in Indexes /\ (NoStaleCache(F) => IndexOK(cache, dataPart))
  BY <1>1, <1>2, MountedCache
<1>6. dataPart' \in LogOf(Contents) /\ DataKept(dataPart, dataPart')
  BY <1>1, <1>2, SameDataKept DEF Inv, TypeOK
<1>. QED  BY <1>1, <1>2, <1>4, <1>5, <1>6, HandlerKeeps

\* The cache after a flush that stored content c as file p.
LEMMA StoredIndexOK ==
  ASSUME NEW F, Inv(F), loaded, NEW p \in Paths, NEW c \in Contents \ {<<>>},
         cache \in Indexes, cache.files[p] # None, NoStaleCache(F) => IndexOK(cache, dataPart)
  PROVE  /\ StoredIndex(p, c) \in Indexes
         /\ NoStaleCache(F) => IndexOK(StoredIndex(p, c), AppendFileData(dataPart, c))
<1> DEFINE new == AppendFileData(dataPart, c)
           e == [block |-> NextBlock(dataPart), count |-> Len(c)]
           f == [length |-> Len(c), extent |-> e]
<1>1. dataPart \in LogOf(Contents)
  BY DEF Inv, TypeOK
<1>2. Len(c) \in 1 .. MaxLength
  <2>1. c \in Seq(Bytes) /\ Len(c) \in 0 .. MaxLength
    BY ContentIsSeq
  <2>2. Len(c) # 0
    BY <2>1, EmptySeq
  <2>. QED  BY <2>1, <2>2, BoundsAssumption
<1>3. /\ NextBlock(dataPart) \in Nat
      /\ IsDataBlock(new, NextBlock(dataPart))
      /\ ReadAt(new, NextBlock(dataPart)) = DataRecord(c)
      /\ ~IsDataBlock(dataPart, NextBlock(dataPart))
  BY <1>1, AppendIsFresh
<1>4. DataKept(dataPart, new)
  <2>1. 3 \in 0 .. 3
    OBVIOUS
  <2>. QED  BY <1>1, <2>1, AppendKeepsData DEF AppendFileData
<1>5. e \in Extents /\ f \in Files /\ f.extent = e /\ f.length = Len(c)
      /\ e.block = NextBlock(dataPart) /\ e.count = Len(c)
  BY <1>2, <1>3, BoundsAssumption DEF Extents, Files
<1>6. StoredIndex(p, c) = [cache EXCEPT !.files[p] = f, !.avail = Freed(@, cache.files[p])]
  BY DEF StoredIndex
<1> HIDE DEF f, e, new
<1>7. FileSet(cache, StoredIndex(p, c), p, f)
      /\ StoredIndex(p, c).avail = Freed(cache.avail, cache.files[p])
  <2>1. Freed(cache.avail, cache.files[p]) \in Seq(Nat)
    BY FreedTyped, Zenon
  <2>2. /\ StoredIndex(p, c).gen = cache.gen
        /\ StoredIndex(p, c).files = [cache.files EXCEPT ![p] = f]
        /\ StoredIndex(p, c).avail = Freed(cache.avail, cache.files[p])
        /\ StoredIndex(p, c) = [gen |-> cache.gen,
                                files |-> [cache.files EXCEPT ![p] = f],
                                avail |-> Freed(cache.avail, cache.files[p])]
    BY <1>6 DEF Indexes
  <2>3. StoredIndex(p, c) \in Indexes
    BY <1>5, <2>1, <2>2 DEF Indexes
  <2>. QED  BY <2>2, <2>3 DEF FileSet
<1>8. ASSUME NoStaleCache(F)
      PROVE  IndexOK(StoredIndex(p, c), new)
  <2>1. IndexOK(cache, new) /\ Unused(cache, f.extent.block)
    BY <1>3, <1>4, <1>5, <1>8, IndexOKKept, FreshIsUnused
  <2>2. DataRecord(c).data = c
    BY DEF DataRecord
  <2>3. /\ IsDataBlock(new, f.extent.block)
        /\ Len(ReadAt(new, f.extent.block).data) = f.extent.count
        /\ f.extent.count <= f.length
    BY <1>2, <1>3, <1>5, <2>2
  <2>. QED  BY <1>7, <2>1, <2>3, ExtentFreed
<1>. QED  BY <1>7, <1>8 DEF FileSet, new

LEMMA FlushBufferKeeps ==
  ASSUME NEW F, NEW h \in Handles, NEW open \in BOOLEAN
  PROVE  Inv(F) /\ mounted /\ handle[h] # None /\ FlushBuffer(h, open) => Inv(F)'
<1>1. SUFFICES ASSUME Inv(F), mounted, handle[h] # None, FlushBuffer(h, open) PROVE Inv(F)'
  OBVIOUS
<1>2. loaded /\ cache \in Indexes /\ (NoStaleCache(F) => IndexOK(cache, dataPart))
  BY <1>1, MountedCache
<1>3. /\ handle[h] \in OpenHandles /\ handle[h].path \in Paths
      /\ handle[h].dirty => handle[h].wbuf \in Contents \ {<<>>}
  BY <1>1, HandleTyped
<1>4. dataPart \in LogOf(Contents)
  BY <1>1 DEF Inv, TypeOK
<1>5. Cleaned(handle[h], open) \in OpenHandles \cup {None} /\ ~Dirty(Cleaned(handle[h], open))
  BY <1>3 DEF Cleaned, OpenHandles, Dirty
<1>6. CASE FlushClean(h, open) \/ FlushNoEntry(h, open)
  <2>1. UNCHANGED <<idxPart, dataPart, cache, loaded, mounted>>
    BY <1>6 DEF FlushClean, FlushNoEntry, tape
  <2>2. \E hd \in {None, handle[h], Cleaned(handle[h], open)} :
          handle' = [handle EXCEPT ![h] = hd]
    BY <1>6 DEF FlushClean, FlushNoEntry
  <2>3. handle' \in [Handles -> OpenHandles \cup {None}] /\ DirtyHasData'
    <3>1. PICK hd \in {None, handle[h], Cleaned(handle[h], open)} :
            handle' = [handle EXCEPT ![h] = hd]
      BY <2>2
    <3>2. hd \in OpenHandles \cup {None} /\ (Dirty(hd) => hd.wbuf \in Contents \ {<<>>})
      BY <1>3, <1>5 DEF Dirty
    <3>. QED  BY <1>1, <3>1, <3>2, HandleReplaced
  <2>. QED  BY <1>1, <1>2, <1>4, <2>1, <2>3, SameDataKept, HandlerKeeps
<1>7. CASE FlushStores(h, open) \/ FlushSaveFails(h, open)
  <2>1. /\ handle[h].dirty /\ cache.files[handle[h].path] # None
        /\ dataPart' = AppendFileData(dataPart, handle[h].wbuf)
        /\ handle' = [handle EXCEPT ![h] = Cleaned(handle[h], open)]
        /\ cache' \in {cache, StoredIndex(handle[h].path, handle[h].wbuf)}
        /\ UNCHANGED <<idxPart, loaded, mounted>>
    BY <1>7 DEF FlushStores, FlushSaveFails, Flushable, Exists
  <2>2. handle[h].wbuf \in Contents \ {<<>>}
    BY <1>3, <2>1
  <2>3. dataPart' \in LogOf(Contents) /\ DataKept(dataPart, dataPart')
    <3>1. 3 \in 0 .. 3
      OBVIOUS
    <3>. QED  BY <1>4, <2>1, <2>2, <3>1, AppendKeepsData DEF AppendFileData
  <2>4. cache' \in Indexes /\ (NoStaleCache(F) => IndexOK(cache', dataPart'))
    <3>1. CASE cache' = cache
      BY <1>2, <2>3, <3>1, IndexOKKept
    <3>2. CASE cache' = StoredIndex(handle[h].path, handle[h].wbuf)
      BY <1>1, <1>2, <1>3, <2>1, <2>2, <3>2, StoredIndexOK
    <3>. QED  BY <2>1, <3>1, <3>2
  <2>5. handle' \in [Handles -> OpenHandles \cup {None}] /\ DirtyHasData'
    BY <1>1, <1>5, <2>1, HandleReplaced
  <2>. QED  BY <1>1, <2>1, <2>3, <2>4, <2>5, HandlerKeeps
<1>8. CASE FlushAppendFails(h, open)
  <2>1. /\ handle[h].dirty
        /\ dataPart' \in FailedAppends(dataPart, handle[h].wbuf)
        /\ handle' = [handle EXCEPT ![h] = [handle[h] EXCEPT !.open = open]]
        /\ UNCHANGED <<idxPart, cache, loaded, mounted>>
    BY <1>8 DEF FlushAppendFails, Flushable
  <2>2. dataPart' \in LogOf(Contents) /\ DataKept(dataPart, dataPart')
    BY <1>3, <1>4, <2>1, FailedAppendKeepsData
  <2>3. NoStaleCache(F) => IndexOK(cache', dataPart')
    BY <1>2, <2>1, <2>2, IndexOKKept
  <2>4. handle' \in [Handles -> OpenHandles \cup {None}] /\ DirtyHasData'
    <3>1. [handle[h] EXCEPT !.open = open] \in OpenHandles
          /\ [handle[h] EXCEPT !.open = open].wbuf \in Contents \ {<<>>}
      BY <1>3, <2>1 DEF OpenHandles
    <3>. QED  BY <1>1, <2>1, <3>1, HandleReplaced
  <2>. QED  BY <1>1, <1>2, <2>1, <2>2, <2>3, <2>4, HandlerKeeps
<1>. QED  BY <1>1, <1>6, <1>7, <1>8 DEF FlushBuffer

-----------------------------------------------------------------------------
LEMMA StepInv ==
  ASSUME NEW F, Faults \subseteq F
  PROVE  Inv(F) /\ [Next]_vars => Inv(F)'
<1>1. SUFFICES ASSUME Inv(F), [Next]_vars PROVE Inv(F)'
  OBVIOUS
<1>2. CASE UNCHANGED vars
  BY <1>1, <1>2 DEF vars, Inv, TypeOK, MountedHasCache, DirtyHasData, LabelsThere,
                    TapeIndexOK, TapeIndex, CacheOK
<1>3. CASE DaemonStep
  BY <1>1, <1>3, InitCommandKeeps, FormatFailsKeeps, LoadKeeps, CommitKeeps, EntryKeeps
     DEF DaemonStep
<1>4. CASE NameStep
  BY <1>1, <1>4, CreateKeeps, OpenKeeps, OpenTruncateKeeps, RemoveKeeps, RenameKeeps,
     CommitKeeps DEF NameStep
<1>5. CASE HandleStep
  <2>1. PICK h \in Handles :
          \/ \E off \in 0 .. (MaxLength - 1), b \in Bytes : Write(h, off, b)
          \/ \E off \in 0 .. (MaxLength - 1) : WriteBeyondLimit(h, off)
          \/ Flush(h) \/ Release(h) \/ CmdFlushFiles(h)
    BY <1>5 DEF HandleStep
  <2>2. CASE Flush(h) \/ Release(h) \/ CmdFlushFiles(h)
    <3>1. /\ mounted /\ handle[h] # None
          /\ FlushBuffer(h, TRUE) \/ FlushBuffer(h, FALSE) \/ FlushBuffer(h, handle[h].open)
      BY <2>2 DEF Flush, Release, CmdFlushFiles
    <3>2. handle[h].open \in BOOLEAN
      BY <1>1, <3>1, HandleTyped DEF OpenHandles
    <3>. QED  BY <1>1, <3>1, <3>2, FlushBufferKeeps
  <2>. QED  BY <1>1, <2>1, <2>2, WriteKeeps, WriteBeyondLimitKeeps
<1>. QED  BY <1>1, <1>2, <1>3, <1>4, <1>5 DEF Next

\* The invariant holds of every behavior of a tape letter.
THEOREM Consistent == Spec => []IInv
<1>1. Init => IInv
  BY InitInv DEF IInv
<1>2. IInv /\ [Next]_vars => IInv'
  BY StepInv DEF IInv
<1>. QED  BY <1>1, <1>2, PTL DEF Spec

\* Its types do, whatever the faults are.
LEMMA StepTypeInv == TypeInv /\ [Next]_vars => TypeInv'
BY StepInv, FaultsAssumption DEF TypeInv

LEMMA Typed == Spec => []TypeInv
<1>1. Init => TypeInv
  BY InitInv DEF TypeInv
<1>. QED  BY <1>1, StepTypeInv, PTL DEF Spec

-----------------------------------------------------------------------------
(***************************************************************************)
(* What the invariant gives.                                               *)
(***************************************************************************)
\* Every variable of the letter keeps its type: in particular a flush never
\* records an empty extent, and the index block of a loadable tape always
\* parses as an index (tapefs.go, ReadIndexFromTape).
THEOREM TypeCorrect == Spec => []TypeOK
<1>1. IInv => TypeOK
  BY DEF IInv, Inv
<1>. QED  BY <1>1, Consistent, PTL

\* The mounted file system always finds its cache file and its tape, whatever
\* commands and faults there are (daemon/commands.go, cmdMount).
THEOREM CacheWhileMounted == Spec => []MountedHasCache
<1>1. IInv => MountedHasCache
  BY DEF IInv, Inv
<1>. QED  BY <1>1, Consistent, PTL

\* An index somebody can read files through is consistent.
LEMMA ReachableOK ==
  ASSUME IInv, InitSaves, NEW idx \in ReachableIndexes
  PROVE  IndexOK(idx, dataPart)
<1>1. CASE idx = cache /\ loaded /\ cache # None
  BY <1>1 DEF IInv, Inv, CacheOK, InitSaves, NoStaleCache
<1>2. CASE Loadable /\ idx = TapeIndex
  BY <1>2 DEF IInv, Inv, TapeIndexOK, Loadable, InitSaves, NoStaleCache
<1>. QED  BY <1>1, <1>2 DEF ReachableIndexes

\* As long as init saves the cache of the tape it formats: no crash, failed
\* append, torn commit, reload or order of flushes ever leaves a readable index
\* with an extent whose data is not on the tape.
THEOREM ExtentsAlwaysLive ==
  ASSUME InitSaves
  PROVE  Spec => []ExtentsLive
<1>1. IInv => ExtentsLive
  BY ReachableOK DEF ExtentsLive, IndexOK, ExtentsLiveIn
<1>. QED  BY <1>1, Consistent, PTL

\* Under the same condition every block is one file's, or available once, or
\* neither: never two of these (fs/dir.go, Remove; fs/file.go, Open and
\* flushBuffer).
THEOREM BlocksAlwaysPartitioned ==
  ASSUME InitSaves
  PROVE  Spec => []BlocksPartitioned
<1>1. IInv => BlocksPartitioned
  BY ReachableOK DEF BlocksPartitioned, IndexOK, FilesApart, AvailFree
<1>. QED  BY <1>1, Consistent, PTL

-----------------------------------------------------------------------------
(***************************************************************************)
(* What the files of an index read as.                                     *)
(***************************************************************************)
\* FilesOf, over any data partition.
FilesIn(idx, log) ==
  [p \in Paths |-> IF idx.files[p] = None THEN None ELSE ReadFileData(log, idx.files[p])]

\* Every file of a consistent index can be read.
LEMMA FileReads ==
  ASSUME NEW idx \in Indexes, NEW log \in LogOf(Contents), IndexOK(idx, log),
         NEW p \in Paths, idx.files[p] # None
  PROVE  ReadFileData(log, idx.files[p]) \in Contents
<1>1. idx.files[p] \in Files
  BY DEF Indexes
<1> DEFINE f == idx.files[p]
<1>2. CASE f.length = 0 \/ f.extent = None
  <2>1. <<>> \in Seq(Bytes) /\ Len(<<>>) \in 0 .. MaxLength
    BY EmptySeq, BoundsAssumption
  <2>2. <<>> \in Contents
    BY <2>1, SeqIsContent
  <2>. QED  BY <1>2, <2>2 DEF ReadFileData
<1>3. CASE f.length # 0 /\ f.extent # None
  <2> DEFINE r == ReadAt(log, f.extent.block)
             n == IF f.length < f.extent.count THEN f.length ELSE f.extent.count
  <2>1. HasExtent(f)
    BY <1>3 DEF HasExtent
  <2>2. IsDataBlock(log, f.extent.block) /\ Len(r.data) = f.extent.count
    BY <2>1 DEF IndexOK, ExtentsLiveIn
  <2>3. r \in Records(Contents) /\ r.type = "data"
    BY <2>2, ElementOfSeq DEF LogOf, IsDataBlock, HasBlock, ReadAt
  <2>4. r.data \in Contents
    BY <2>3, RecordKinds
  <2>5. r.data \in Seq(Bytes) /\ Len(r.data) \in 0 .. MaxLength
    BY <2>4, ContentIsSeq
  <2>6. f.extent.count \in 1 .. MaxLength /\ f.length \in 0 .. MaxLength
    BY <1>1, <2>1, ExtentTyped DEF Files, Extents
  <2>7. n \in 0 .. Len(r.data)
    BY <2>2, <2>5, <2>6, BoundsAssumption
  <2>8. ReadFileData(log, f) = SubSeq(r.data, 1, n)
    BY <1>3, <2>2, <2>6 DEF ReadFileData
  <2> HIDE DEF f, r, n
  <2>9. \A i \in 1 .. n : r.data[i] \in Bytes
    BY <2>5, <2>7, ElementOfSeq
  <2>10. SubSeq(r.data, 1, n) \in Seq(Bytes)
         /\ Len(SubSeq(r.data, 1, n)) = IF 1 <= n THEN n - 1 + 1 ELSE 0
    BY <2>5, <2>7, <2>9, SubSeqProperties
  <2>11. Len(SubSeq(r.data, 1, n)) \in 0 .. MaxLength
    BY <2>5, <2>7, <2>10, BoundsAssumption
  <2>. QED  BY <2>8, <2>10, <2>11, SeqIsContent DEF f
<1>. QED  BY <1>2, <1>3

\* So a consistent index is a map from paths to contents.
LEMMA FilesAreAMap ==
  ASSUME NEW idx \in Indexes, NEW log \in LogOf(Contents), IndexOK(idx, log)
  PROVE  /\ FilesIn(idx, log) \in [Paths -> Contents \cup {None}]
         /\ \A p \in Paths : FilesIn(idx, log)[p] = None <=> idx.files[p] = None
         /\ FilesIn(idx, log) # None
<1>1. \A p \in Paths : FilesIn(idx, log)[p] =
        IF idx.files[p] = None THEN None ELSE ReadFileData(log, idx.files[p])
  BY DEF FilesIn
<1>2. FilesIn(idx, log) \in [Paths -> Contents \cup {None}]
  BY FileReads DEF FilesIn
<1>3. \A p \in Paths : idx.files[p] # None => ReadFileData(log, idx.files[p]) # None
  BY FileReads, NoneAssumption
<1>. QED  BY <1>1, <1>2, <1>3, NoMapAssumption

\* As long as no data block is lost, every file of a consistent index reads as
\* it did.
LEMMA FilesKept ==
  ASSUME NEW idx \in Indexes, NEW log, NEW log2, IndexOK(idx, log), DataKept(log, log2)
  PROVE  FilesIn(idx, log2) = FilesIn(idx, log)
<1>1. ASSUME NEW p \in Paths, idx.files[p] # None
      PROVE  ReadFileData(log2, idx.files[p]) = ReadFileData(log, idx.files[p])
  <2>1. CASE HasExtent(idx.files[p])
    <3>1. idx.files[p].extent.block \in Nat
      BY <2>1, ExtentTyped
    <3>2. IsDataBlock(log, idx.files[p].extent.block)
      BY <2>1 DEF IndexOK, ExtentsLiveIn
    <3>3. /\ IsDataBlock(log2, idx.files[p].extent.block)
          /\ ReadAt(log2, idx.files[p].extent.block) = ReadAt(log, idx.files[p].extent.block)
      BY <3>1, <3>2 DEF DataKept
    <3>. QED  BY <3>2, <3>3 DEF ReadFileData
  <2>2. CASE ~HasExtent(idx.files[p])
    BY <1>1, <2>2 DEF HasExtent, ReadFileData
  <2>. QED  BY <2>1, <2>2
<1>. QED  BY <1>1 DEF FilesIn

\* A freshly appended content reads back.
LEMMA AppendedReads ==
  ASSUME NEW log \in LogOf(Contents), NEW c \in Contents, c # <<>>, NEW f,
         f.length = Len(c), f.extent = [block |-> NextBlock(log), count |-> Len(c)],
         f.extent \in Extents
  PROVE  ReadFileData(AppendFileData(log, c), f) = c
<1>1. c \in Seq(Bytes) /\ Len(c) \in Nat
  BY ContentIsSeq, BoundsAssumption
<1>2. Len(c) # 0
  BY <1>1, EmptySeq
<1>3. /\ IsDataBlock(AppendFileData(log, c), NextBlock(log))
      /\ ReadAt(AppendFileData(log, c), NextBlock(log)).data = c
  BY AppendIsFresh DEF DataRecord
<1>4. SubSeq(c, 1, Len(c)) = c
  <2>1. \A i \in 1 .. Len(c) : c[i] \in Bytes
    BY <1>1, ElementOfSeq
  <2>2. /\ SubSeq(c, 1, Len(c)) \in Seq(Bytes)
        /\ Len(SubSeq(c, 1, Len(c))) = Len(c)
        /\ \A i \in 1 .. Len(c) : SubSeq(c, 1, Len(c))[i] = c[i]
    BY <1>1
  <2>. QED  BY <1>1, <2>2, SeqEqual
<1>5. f.extent.block = NextBlock(log) /\ f.extent.count = Len(c) /\ f.extent # None
  BY NoFileAssumption
<1>. QED  BY <1>1, <1>2, <1>3, <1>4, <1>5 DEF ReadFileData

-----------------------------------------------------------------------------
(***************************************************************************)
(* What the map sees of the state.                                         *)
(***************************************************************************)
\* A loaded letter has the label of its data partition, and so has any data
\* partition long enough to be loaded.
DataLabelThere == loaded \/ HasBlock(dataPart, 1) => IsDataBlock(dataPart, 1)

RInv == IInv /\ DataLabelThere

\* Current and Saved, as functions of the state's parts.
CurrentOf(l, idx, log) == IF l /\ idx # None THEN FilesIn(idx, log) ELSE None

SavedOf(ipart, log) ==
  IF /\ HasBlock(ipart, 1) /\ HasBlock(log, 1)
     /\ IsDataBlock(ipart, IndexBlock)
  THEN FilesIn(ReadAt(ipart, IndexBlock).data, log) ELSE None

LEMMA Seen ==
  /\ Current = CurrentOf(loaded, cache, dataPart)
  /\ Saved = SavedOf(idxPart, dataPart)
  /\ Current' = CurrentOf(loaded', cache', dataPart')
  /\ Saved' = SavedOf(idxPart', dataPart')
BY DEF Current, Saved, CurrentOf, SavedOf, FilesOf, FilesIn, Loadable, TapeIndex

\* The empty index reads as the empty map.
LEMMA BlankSeen ==
  ASSUME NEW log
  PROVE  FilesIn(EmptyIndex, log) = FM!Blank
BY DEF FilesIn, EmptyIndex, FM!Blank

\* What a handler leaves of the tape: no data block lost, the label there.
LEMMA LabelKept ==
  ASSUME RInv, UNCHANGED <<idxPart, loaded>>, DataKept(dataPart, dataPart'),
         dataPart' = dataPart \/ loaded
  PROVE  DataLabelThere'
<1>1. 1 \in Nat
  OBVIOUS
<1>. QED  BY <1>1 DEF RInv, DataLabelThere, DataKept

\* Then the tape's copy is seen unchanged.
LEMMA SavedKept ==
  ASSUME RInv, InitSaves, UNCHANGED <<idxPart, loaded>>,
         DataKept(dataPart, dataPart'), DataLabelThere',
         dataPart' = dataPart \/ loaded
  PROVE  Saved' = Saved
<1>1. HasBlock(dataPart', 1) <=> HasBlock(dataPart, 1)
  BY DEF RInv, DataLabelThere, IsDataBlock
<1>2. CASE ~(HasBlock(idxPart, 1) /\ HasBlock(dataPart, 1) /\ IsDataBlock(idxPart, IndexBlock))
  BY <1>1, <1>2, Seen DEF SavedOf
<1>3. CASE HasBlock(idxPart, 1) /\ HasBlock(dataPart, 1) /\ IsDataBlock(idxPart, IndexBlock)
  <2>1. TapeIndex \in Indexes /\ IndexOK(TapeIndex, dataPart)
    BY <1>3 DEF RInv, IInv, Inv, InitSaves, NoStaleCache, TapeIndexOK
  <2>2. FilesIn(TapeIndex, dataPart') = FilesIn(TapeIndex, dataPart)
    BY <2>1, FilesKept
  <2>. QED  BY <1>1, <1>3, <2>2, Seen DEF SavedOf, TapeIndex
<1>. QED  BY <1>2, <1>3

\* A mounted letter shows its cache as a map.
LEMMA MountedSeen ==
  ASSUME RInv, InitSaves, loaded, cache # None
  PROVE  /\ Current = FilesIn(cache, dataPart)
         /\ Current # None
         /\ Current \in [Paths -> Contents \cup {None}]
         /\ \A p \in Paths : Current[p] = None <=> ~Exists(p)
         /\ cache \in Indexes /\ IndexOK(cache, dataPart) /\ dataPart \in LogOf(Contents)
<1>1. cache \in Indexes /\ IndexOK(cache, dataPart) /\ dataPart \in LogOf(Contents)
  BY DEF RInv, IInv, Inv, InitSaves, NoStaleCache, CacheOK, TypeOK
<1>2. Current = FilesIn(cache, dataPart)
  BY Seen DEF CurrentOf
<1>. QED  BY <1>1, <1>2, FilesAreAMap DEF Exists

\* A handler that puts file f at p, and leaves every other file as it was.
LEMMA FileChanged ==
  ASSUME RInv, InitSaves, loaded, cache # None, loaded', NEW p \in Paths, NEW f,
         FileSet(cache, cache', p, f), DataKept(dataPart, dataPart')
  PROVE  Current' = [Current EXCEPT ![p] = IF f = None THEN None
                                           ELSE ReadFileData(dataPart', f)]
<1>1. /\ Current = FilesIn(cache, dataPart)
      /\ cache \in Indexes /\ IndexOK(cache, dataPart)
  BY MountedSeen
<1>2. FilesIn(cache, dataPart) = FilesIn(cache, dataPart')
  BY <1>1, FilesKept
<1>3. Current' = FilesIn(cache', dataPart')
  BY Seen, NoneAssumption DEF CurrentOf, FileSet
<1>4. \A q \in Paths : cache'.files[q] = IF q = p THEN f ELSE cache.files[q]
  BY <1>1 DEF FileSet, Indexes
<1> DEFINE log == dataPart'
           idx == cache'
<1>5. \A q \in Paths : idx.files[q] = IF q = p THEN f ELSE cache.files[q]
  BY <1>4
<1> HIDE DEF log, idx
<1>6. FilesIn(idx, log) = [FilesIn(cache, log) EXCEPT ![p] =
                             IF f = None THEN None ELSE ReadFileData(log, f)]
  BY <1>5 DEF FilesIn
<1>. QED  BY <1>1, <1>2, <1>3, <1>6 DEF log, idx

-----------------------------------------------------------------------------
(***************************************************************************)
(* The commands of the daemon.                                             *)
(***************************************************************************)
LEMMA InitRefines == Init => FM!Init /\ DataLabelThere
<1>1. Len(<<>>) = 0
  OBVIOUS
<1>2. SUFFICES ASSUME Init PROVE FM!Init /\ DataLabelThere
  OBVIOUS
<1>3. ~HasBlock(dataPart, 1) /\ ~loaded
  BY <1>1, <1>2 DEF Init, HasBlock
<1>. QED  BY <1>3, Seen DEF FM!Init, CurrentOf, SavedOf, DataLabelThere

\* A format starts both maps over.
LEMMA FormatRefines ==
  CmdInit => FM!Format /\ DataLabelThere'
<1>1. SUFFICES ASSUME CmdInit PROVE FM!Format /\ DataLabelThere'
  OBVIOUS
<1>2. idxPart' = BlankIndexPart /\ dataPart' = BlankDataPart /\ cache' = EmptyIndex /\ loaded'
  BY <1>1 DEF CmdInit
<1>3. EmptyIndex # None
  BY EmptyIndexOK, NoneAssumption
<1>4. Len(BlankIndexPart) = 6 /\ Len(BlankDataPart) = 4
      /\ BlankIndexPart[4] = DataRecord(EmptyIndex) /\ BlankDataPart[2] = DataRecord(<<>>)
  BY BlankParts DEF BlankDataPart, Label
<1>5. IsDataBlock(BlankIndexPart, IndexBlock) /\ IsDataBlock(BlankDataPart, 1)
      /\ HasBlock(BlankIndexPart, 1) /\ HasBlock(BlankDataPart, 1)
      /\ ReadAt(BlankIndexPart, IndexBlock).data = EmptyIndex
  BY <1>4 DEF IsDataBlock, HasBlock, ReadAt, IndexBlock, DataRecord
<1>. QED
  BY <1>2, <1>3, <1>5, Seen, BlankSeen DEF FM!Format, CurrentOf, SavedOf, DataLabelThere

\* A format that fails leaves no map, or an empty one to load.
LEMMA FormatFailsRefines ==
  RInv /\ CmdInitFormatFails => FM!FormatFails /\ DataLabelThere'
<1>1. SUFFICES ASSUME RInv, CmdInitFormatFails PROVE FM!FormatFails /\ DataLabelThere'
  OBVIOUS
<1>2. ~loaded'
  BY <1>1 DEF CmdInitFormatFails
<1>3. IsDataBlock(idxPart', IndexBlock) => ReadAt(idxPart', IndexBlock).data = EmptyIndex
  <2>1. CASE \E k \in 0 .. 6 : idxPart' = SubSeq(BlankIndexPart, 1, k)
    BY <2>1, FormattedUpTo
  <2>2. CASE idxPart' = BlankIndexPart
    BY <2>2, BlankParts DEF ReadAt, IndexBlock, DataRecord
  <2>. QED  BY <1>1, <2>1, <2>2, FormatStopped
<1>4. HasBlock(dataPart', 1) => IsDataBlock(dataPart', 1)
  <2>1. CASE dataPart' = dataPart
    BY <1>1, <2>1 DEF RInv, DataLabelThere
  <2>2. CASE dataPart' = <<>>
    BY <2>2, EmptySeq DEF HasBlock
  <2>3. ASSUME NEW k \in 1 .. 4, dataPart' = SubSeq(BlankDataPart, 1, k)
        PROVE  HasBlock(dataPart', 1) => IsDataBlock(dataPart', 1)
    <3>1. k \in 0 .. Len(BlankDataPart)
      BY BlankParts
    <3>2. /\ Len(TruncateAt(BlankDataPart, k)) = k
          /\ \A i \in 1 .. k : TruncateAt(BlankDataPart, k)[i] = BlankDataPart[i]
      BY <3>1, BlankParts, Truncated
    <3>3. dataPart' = TruncateAt(BlankDataPart, k)
      BY <2>3 DEF TruncateAt
    <3>4. BlankDataPart[2].type = "data"
      BY DEF BlankDataPart, Label, DataRecord
    <3>. QED  BY <3>2, <3>3, <3>4 DEF IsDataBlock, HasBlock, ReadAt
  <2>. QED  BY <1>1, <2>1, <2>2, <2>3, FormatStopped
<1>. QED
  BY <1>2, <1>3, <1>4, Seen, BlankSeen DEF FM!FormatFails, CurrentOf, SavedOf, DataLabelThere

\* A load goes back to what the tape holds.
LEMMA LoadRefines ==
  RInv /\ InitSaves /\ CmdLoad => FM!Revert /\ DataLabelThere'
<1>1. SUFFICES ASSUME RInv, InitSaves, CmdLoad PROVE FM!Revert /\ DataLabelThere'
  OBVIOUS
<1>2. /\ Loadable /\ cache' = TapeIndex /\ loaded'
      /\ idxPart' = idxPart /\ dataPart' = dataPart
  BY <1>1 DEF CmdLoad, tape
<1>3. /\ TapeIndex \in Indexes /\ IndexOK(TapeIndex, dataPart)
      /\ dataPart \in LogOf(Contents)
  BY <1>1, <1>2 DEF RInv, IInv, Inv, InitSaves, NoStaleCache, TypeOK, TapeIndexOK, Loadable
<1>4. Saved = FilesIn(TapeIndex, dataPart) /\ Saved' = Saved
  BY <1>2, Seen DEF SavedOf, Loadable, TapeIndex
<1>5. Current' = FilesIn(TapeIndex, dataPart)
  BY <1>2, <1>3, NoneAssumption, Seen DEF CurrentOf
<1>6. FilesIn(TapeIndex, dataPart) # None
  BY <1>3, FilesAreAMap
<1>7. DataLabelThere'
  BY <1>1, <1>2 DEF RInv, DataLabelThere, Loadable
<1>. QED  BY <1>4, <1>5, <1>6, <1>7 DEF FM!Revert

\* Commands that close, discard, mount or unmount, and the end of the daemon.
LEMMA EntryRefines ==
  ASSUME RInv, CmdDiscard \/ CloseEntry \/ CmdMount \/ CmdUmount \/ Crash
  PROVE  (FM!Forget \/ UNCHANGED FM!vars) /\ DataLabelThere'
<1>1. /\ idxPart' = idxPart /\ dataPart' = dataPart
      /\ ~loaded' \/ (loaded' = loaded /\ cache' = cache)
  BY DEF CmdDiscard, CloseEntry, CmdMount, CmdUmount, Crash, tape
<1>2. DataLabelThere'
  BY <1>1 DEF RInv, DataLabelThere
<1>3. Saved' = Saved
  BY <1>1, Seen
<1>4. Current' = None \/ Current' = Current
  BY <1>1, Seen DEF CurrentOf
<1>. QED  BY <1>2, <1>3, <1>4 DEF FM!Forget, FM!vars

\* A higher generation reads as the same files.
LEMMA CommitRefines ==
  ASSUME RInv, InitSaves, CmdCommit \/ FlushHandleWrite
  PROVE  (FM!Commit \/ FM!TornCommit \/ UNCHANGED FM!vars) /\ DataLabelThere'
<1>1. loaded /\ cache # None /\ cache \in Indexes
  BY DEF CmdCommit, FlushHandleWrite, FlushIndex, FlushIndexFails, FlushIndexSaveFails,
         RInv, IInv, Inv, MountedHasCache, TypeOK
<1>2. /\ idxPart' \in FailedIndexWrites(idxPart, NextGen)
      /\ cache' \in {cache, NextGen} /\ UNCHANGED <<dataPart, loaded>>
  <2>1. WriteIndex(idxPart, NextGen) \in FailedIndexWrites(idxPart, NextGen)
    BY DEF WriteIndex, FailedIndexWrites
  <2>. QED  BY <2>1 DEF CmdCommit, FlushHandleWrite, FlushIndex, FlushIndexFails,
                        FlushIndexSaveFails
<1>3. NextGen \in Indexes /\ NextGen.files = cache.files
  BY <1>1, NextGenOK DEF NextGen, Indexes
<1>4. FilesIn(NextGen, dataPart) = FilesIn(cache, dataPart)
  BY <1>3 DEF FilesIn
<1>5. Current = FilesIn(cache, dataPart) /\ Current' = Current /\ Current # None
  <2>1. NextGen # None
    BY <1>3, NoneAssumption
  <2>2. Current' = FilesIn(cache', dataPart)
    BY <1>1, <1>2, <2>1, Seen DEF CurrentOf
  <2>. QED  BY <1>1, <1>2, <1>4, <2>2, MountedSeen
<1>6. DataLabelThere'
  BY <1>2 DEF RInv, DataLabelThere
<1>7. HasBlock(dataPart, 1)
  BY <1>1 DEF RInv, DataLabelThere, IsDataBlock
<1>8. CASE idxPart' = idxPart
  BY <1>2, <1>5, <1>6, <1>8, Seen DEF FM!vars
<1>9. ASSUME NEW k \in 0 .. 3, idxPart' = WriteIndexUpTo(idxPart, NextGen, k)
      PROVE  FM!Commit \/ FM!TornCommit
  <2>1. idxPart \in LogOf(Indexes \cup {<<>>}) /\ IndexBlock <= Len(idxPart)
    BY <1>1 DEF RInv, IInv, Inv, TypeOK, LabelsThere
  <2>2. NextGen \in Indexes \cup {<<>>}
    BY <1>3
  <2> DEFINE ng == NextGen
             new == WriteIndexUpTo(idxPart, ng, k)
  <2>3. ng \in Indexes \cup {<<>>} /\ idxPart' = new
    BY <1>9, <2>2
  <2> HIDE DEF ng
  <2>4. /\ Len(new) = 3 + k
        /\ WrittenAt(new, 3, IndexRecords(ng), k)
    BY <1>9, <2>1, <2>3, IndexWritten, ZenonT(60)
  <2>5. IndexRecords(ng)[1] = DataRecord(ng)
    BY <2>3, RecordsWritten
  <2> HIDE DEF new
  <2>6. CASE k = 0
    <3>1. ~IsDataBlock(new, IndexBlock)
      BY <2>4, <2>6 DEF IsDataBlock, HasBlock, IndexBlock
    <3>2. Saved' = None
      BY <2>3, <3>1, Seen DEF SavedOf
    <3>. QED  BY <1>5, <3>2 DEF FM!TornCommit
  <2>7. CASE k # 0
    <3>1. new[4] = DataRecord(ng)
      <4>1. 1 \in 1 .. k
        BY <2>7
      <4>2. new[3 + 1] = IndexRecords(ng)[1]
        BY <2>4, <4>1 DEF WrittenAt
      <4>. QED  BY <2>5, <4>2
    <3>2. /\ IsDataBlock(new, IndexBlock) /\ HasBlock(new, 1)
          /\ ReadAt(new, IndexBlock).data = ng
      BY <2>4, <2>7, <3>1 DEF IsDataBlock, HasBlock, ReadAt, IndexBlock, DataRecord
    <3>3. Saved' = FilesIn(ng, dataPart)
      BY <1>2, <1>7, <2>3, <3>2, Seen DEF SavedOf
    <3>. QED  BY <1>4, <1>5, <3>3 DEF FM!Commit, ng
  <2>. QED  BY <2>6, <2>7
<1>. QED  BY <1>2, <1>6, <1>8, <1>9 DEF FailedIndexWrites

-----------------------------------------------------------------------------
(***************************************************************************)
(* The FUSE handlers.                                                      *)
(***************************************************************************)
\* What the handlers on names have in common: a mounted letter, whose tape they
\* leave alone.
LEMMA NameHandler ==
  ASSUME RInv, InitSaves, mounted, UNCHANGED <<tape, loaded>>
  PROVE  /\ loaded /\ cache # None /\ loaded'
         /\ dataPart' = dataPart /\ DataKept(dataPart, dataPart')
         /\ Saved' = Saved /\ DataLabelThere'
<1>1. loaded /\ cache # None
  BY DEF RInv, IInv, Inv, MountedHasCache
<1>2. DataKept(dataPart, dataPart')
  BY SameDataKept DEF tape
<1>. QED  BY <1>1, <1>2, LabelKept, SavedKept DEF tape

LEMMA CreateRefines ==
  ASSUME RInv, InitSaves, NEW p \in Paths, NEW h \in Handles, Create(p, h)
  PROVE  FM!Create(p) /\ DataLabelThere'
<1>1. mounted /\ UNCHANGED <<tape, loaded>> /\ ~Exists(p)
      /\ cache' = [cache EXCEPT !.files[p] = NewFile]
  BY DEF Create
<1>2. /\ loaded /\ cache # None /\ loaded' /\ DataKept(dataPart, dataPart')
      /\ Saved' = Saved /\ DataLabelThere'
  BY <1>1, NameHandler
<1>3. cache \in Indexes /\ Current # None /\ Current[p] = None
  BY <1>1, <1>2, MountedSeen
<1>4. FileSet(cache, cache', p, NewFile)
  BY <1>1, <1>3, NewFileTyped DEF FileSet, Indexes
<1>5. NewFile # None /\ ReadFileData(dataPart', NewFile) = <<>>
  BY NoFileAssumption, NewFileTyped DEF ReadFileData, NewFile
<1>6. Current' = [Current EXCEPT ![p] = <<>>]
  BY <1>2, <1>4, <1>5, FileChanged
<1>. QED  BY <1>2, <1>3, <1>6 DEF FM!Create

LEMMA OpenRefines ==
  ASSUME RInv, InitSaves, NEW p \in Paths, NEW h \in Handles, Open(p, h)
  PROVE  UNCHANGED FM!vars /\ DataLabelThere'
<1>1. mounted /\ UNCHANGED <<tape, loaded, cache>>
  BY DEF Open
<1>2. Saved' = Saved /\ DataLabelThere' /\ dataPart' = dataPart
  BY <1>1, NameHandler
<1>. QED  BY <1>1, <1>2, Seen DEF FM!vars

LEMMA OpenTruncateRefines ==
  ASSUME RInv, InitSaves, NEW p \in Paths, NEW h \in Handles, OpenTruncate(p, h)
  PROVE  (\E c \in Contents : FM!Store(p, c)) /\ DataLabelThere'
<1>1. mounted /\ UNCHANGED <<tape, loaded>> /\ Exists(p)
      /\ cache' = [cache EXCEPT !.files[p] = NewFile, !.avail = Freed(@, cache.files[p])]
  BY DEF OpenTruncate
<1>2. /\ loaded /\ cache # None /\ loaded' /\ DataKept(dataPart, dataPart')
      /\ Saved' = Saved /\ DataLabelThere'
  BY <1>1, NameHandler
<1>3. cache \in Indexes /\ Current # None /\ Current[p] # None
  BY <1>1, <1>2, MountedSeen
<1>4. FileSet(cache, cache', p, NewFile)
  BY <1>1, <1>3, NewFileTyped, FreedTyped DEF FileSet, Indexes, Exists
<1>5. NewFile # None /\ ReadFileData(dataPart', NewFile) = <<>>
  BY NoFileAssumption, NewFileTyped DEF ReadFileData, NewFile
<1>6. Current' = [Current EXCEPT ![p] = <<>>]
  BY <1>2, <1>4, <1>5, FileChanged
<1>7. <<>> \in Contents
  <2>1. <<>> \in Seq(Bytes) /\ Len(<<>>) \in 0 .. MaxLength
    BY EmptySeq, BoundsAssumption
  <2>. QED  BY <2>1, SeqIsContent
<1>. QED  BY <1>2, <1>3, <1>6, <1>7 DEF FM!Store

LEMMA RemoveRefines ==
  ASSUME RInv, InitSaves, NEW p \in Paths, Remove(p)
  PROVE  FM!Remove(p) /\ DataLabelThere'
<1>1. mounted /\ UNCHANGED <<tape, loaded>> /\ Exists(p)
      /\ cache' = [cache EXCEPT !.files[p] = None, !.avail = Freed(@, cache.files[p])]
  BY DEF Remove
<1>2. /\ loaded /\ cache # None /\ loaded' /\ DataKept(dataPart, dataPart')
      /\ Saved' = Saved /\ DataLabelThere'
  BY <1>1, NameHandler
<1>3. cache \in Indexes /\ Current # None /\ Current[p] # None
  BY <1>1, <1>2, MountedSeen
<1>4. FileSet(cache, cache', p, None)
  BY <1>1, <1>3, FreedTyped DEF FileSet, Indexes, Exists
<1>5. Current' = [Current EXCEPT ![p] = None]
  BY <1>2, <1>4, FileChanged
<1>. QED  BY <1>2, <1>3, <1>5 DEF FM!Remove

LEMMA RenameRefines ==
  ASSUME RInv, InitSaves, NEW p \in Paths, NEW q \in Paths, Rename(p, q)
  PROVE  FM!Rename(p, q) /\ DataLabelThere'
<1>1. mounted /\ UNCHANGED <<tape, loaded>> /\ Exists(p) /\ ~Exists(q)
      /\ cache' = [cache EXCEPT !.files = [@ EXCEPT ![p] = None, ![q] = cache.files[p]]]
  BY DEF Rename
<1>2. /\ loaded /\ cache # None /\ loaded' /\ dataPart' = dataPart
      /\ Saved' = Saved /\ DataLabelThere'
  BY <1>1, NameHandler
<1>3. /\ cache \in Indexes /\ Current # None /\ Current[p] # None /\ Current[q] = None
      /\ Current = FilesIn(cache, dataPart)
  BY <1>1, <1>2, MountedSeen
<1>4. /\ cache' \in Indexes
      /\ cache'.files = [cache.files EXCEPT ![p] = None, ![q] = cache.files[p]]
  BY <1>1, <1>3 DEF Indexes
<1>5. Current' = FilesIn(cache', dataPart)
  BY <1>2, <1>4, NoneAssumption, Seen DEF CurrentOf
<1> DEFINE idx == cache'
<1>6. \A r \in Paths : idx.files[r] = IF r = q THEN cache.files[p]
                                      ELSE IF r = p THEN None ELSE cache.files[r]
  BY <1>3, <1>4 DEF Indexes
<1> HIDE DEF idx
<1>7. FilesIn(idx, dataPart) = [FilesIn(cache, dataPart) EXCEPT
                                  ![p] = None, ![q] = FilesIn(cache, dataPart)[p]]
  BY <1>6 DEF FilesIn
<1>. QED  BY <1>2, <1>3, <1>5, <1>7 DEF FM!Rename, idx

\* A file that only grew in length reads as before: what it reads ends where
\* its extent does.
LEMMA GrownReadsSame ==
  ASSUME NEW log, NEW f \in Files, NEW n \in 0 .. MaxLength, n > f.length,
         HasExtent(f) => f.extent.count <= f.length
  PROVE  ReadFileData(log, [f EXCEPT !.length = n]) = ReadFileData(log, f)
<1> DEFINE g == [f EXCEPT !.length = n]
<1>1. g.length = n /\ g.extent = f.extent /\ n \in Nat /\ f.length \in Nat /\ n # 0
  BY BoundsAssumption DEF Files
<1>2. f # None
  BY NoFileAssumption
<1> HIDE DEF g
<1>3. CASE f.extent = None
  BY <1>1, <1>3 DEF ReadFileData, g
<1>4. CASE f.extent # None
  <2>1. f.extent.count \in Nat /\ f.extent.count <= f.length /\ f.extent.count # 0
    BY <1>2, <1>4, BoundsAssumption DEF HasExtent, Files, Extents
  <2>2. f.length # 0 /\ ~(n < f.extent.count)
        /\ (f.length < f.extent.count <=> FALSE)
    BY <1>1, <2>1
  <2>. QED  BY <1>1, <1>4, <2>1, <2>2 DEF ReadFileData, g
<1>. QED  BY <1>3, <1>4

LEMMA WriteRefines ==
  ASSUME RInv, InitSaves, NEW h \in Handles, NEW off \in 0 .. MaxLength - 1, NEW b \in Bytes,
         Write(h, off, b)
  PROVE  UNCHANGED FM!vars /\ DataLabelThere'
<1> DEFINE p == Buffered(handle[h]).path
<1>1. mounted /\ UNCHANGED <<tape, loaded>> /\ handle[h] # None /\ CanBuffer(handle[h])
  BY DEF Write
<1>2. /\ loaded /\ cache # None /\ loaded' /\ dataPart' = dataPart
      /\ DataKept(dataPart, dataPart') /\ Saved' = Saved /\ DataLabelThere'
  BY <1>1, NameHandler
<1>3. p \in Paths
  BY <1>1, BufferTyped, HandleTyped DEF RInv, IInv
<1>4. \/ cache' = cache
      \/ /\ cache.files[p] # None
         /\ off + 1 > cache.files[p].length
         /\ cache' = [cache EXCEPT !.files[p].length = off + 1]
  BY DEF Write, Exists
<1> HIDE DEF p
<1>5. CASE cache' = cache
  BY <1>1, <1>2, <1>5, Seen DEF FM!vars
<1>6. CASE /\ cache.files[p] # None
           /\ off + 1 > cache.files[p].length
           /\ cache' = [cache EXCEPT !.files[p].length = off + 1]
  <2>1. /\ cache \in Indexes /\ IndexOK(cache, dataPart)
        /\ Current = FilesIn(cache, dataPart)
        /\ Current \in [Paths -> Contents \cup {None}]
    BY <1>2, MountedSeen
  <2> DEFINE f == cache.files[p]
             g == [f EXCEPT !.length = off + 1]
  <2>2. f \in Files /\ (HasExtent(f) => f.extent.count <= f.length)
    BY <1>3, <1>6, <2>1 DEF Indexes, IndexOK, LengthCoversIn
  <2>3. off + 1 \in 0 .. MaxLength /\ off + 1 > f.length
    BY <1>6, BoundsAssumption
  <2>4. g \in Files /\ cache' = [cache EXCEPT !.files[p] = g]
    BY <1>6, <2>2, <2>3 DEF Files
  <2>5. ReadFileData(dataPart, g) = ReadFileData(dataPart, f)
    BY <2>2, <2>3, GrownReadsSame
  <2>6. Current[p] = ReadFileData(dataPart, f)
    BY <1>3, <1>6, <2>1 DEF FilesIn
  <2> HIDE DEF f, g
  <2>7. FileSet(cache, cache', p, g)
    BY <1>3, <2>1, <2>4 DEF FileSet, Indexes
  <2>8. g # None
    BY <2>4, NoFileAssumption
  <2>9. Current' = [Current EXCEPT ![p] = ReadFileData(dataPart', g)]
    BY <1>2, <1>3, <2>7, <2>8, FileChanged
  <2>10. [Current EXCEPT ![p] = Current[p]] = Current
    BY <2>1
  <2>. QED  BY <1>2, <2>5, <2>6, <2>9, <2>10 DEF FM!vars
<1>. QED  BY <1>4, <1>5, <1>6

LEMMA WriteBeyondLimitRefines ==
  ASSUME RInv, InitSaves, NEW h \in Handles, NEW off \in 0 .. MaxLength - 1,
         WriteBeyondLimit(h, off)
  PROVE  UNCHANGED FM!vars /\ DataLabelThere'
<1>1. mounted /\ UNCHANGED <<tape, loaded, cache>>
  BY DEF WriteBeyondLimit
<1>2. Saved' = Saved /\ DataLabelThere' /\ dataPart' = dataPart
  BY <1>1, NameHandler
<1>. QED  BY <1>1, <1>2, Seen DEF FM!vars

\* The cache a flush saves reads as before, but for the content it stored.
LEMMA StoredReads ==
  ASSUME RInv, InitSaves, loaded, cache # None, loaded',
         NEW p \in Paths, NEW c \in Contents \ {<<>>}, Exists(p),
         dataPart' = AppendFileData(dataPart, c), cache' = StoredIndex(p, c)
  PROVE  Current' = [Current EXCEPT ![p] = c]
<1> DEFINE e == [block |-> NextBlock(dataPart), count |-> Len(c)]
           f == [length |-> Len(c), extent |-> e]
<1>1. cache \in Indexes /\ dataPart \in LogOf(Contents)
  BY MountedSeen
<1>2. Len(c) \in 1 .. MaxLength
  <2>1. c \in Seq(Bytes) /\ Len(c) \in 0 .. MaxLength
    BY ContentIsSeq
  <2>2. Len(c) # 0
    BY <2>1, EmptySeq
  <2>. QED  BY <2>1, <2>2, BoundsAssumption
<1>3. NextBlock(dataPart) \in Nat
  BY <1>1, AppendIsFresh
<1>4. e \in Extents /\ f \in Files /\ f.length = Len(c) /\ f.extent = e
  BY <1>2, <1>3, BoundsAssumption DEF Extents, Files
<1>5. ReadFileData(AppendFileData(dataPart, c), f) = c
  <2>1. f.extent = [block |-> NextBlock(dataPart), count |-> Len(c)]
    OBVIOUS
  <2>. QED  BY <1>1, <1>4, <2>1, AppendedReads
<1>6. DataKept(dataPart, dataPart')
  <2>1. 3 \in 0 .. 3
    OBVIOUS
  <2>. QED  BY <1>1, <2>1, AppendKeepsData DEF AppendFileData
<1>7. cache' = [cache EXCEPT !.files[p] = f, !.avail = Freed(@, cache.files[p])]
  BY DEF StoredIndex
<1> HIDE DEF e, f
<1>8. FileSet(cache, cache', p, f)
  <2>1. cache' \in Indexes
    <3>1. StoredIndex(p, c) \in Indexes
      BY <1>1, MountedSeen, StoredIndexOK DEF RInv, IInv, InitSaves, NoStaleCache, Exists
    <3>. QED  BY <3>1
  <2>2. cache'.files = [cache.files EXCEPT ![p] = f]
    BY <1>1, <1>7 DEF Indexes
  <2>. QED  BY <2>1, <2>2 DEF FileSet
<1>9. f # None
  BY <1>4, NoFileAssumption
<1>. QED  BY <1>5, <1>6, <1>8, <1>9, FileChanged

LEMMA FlushRefines ==
  ASSUME RInv, InitSaves, NEW h \in Handles, NEW open \in BOOLEAN,
         mounted, handle[h] # None, FlushBuffer(h, open)
  PROVE  /\ UNCHANGED FM!vars \/ \E p \in Paths, c \in Contents : FM!Store(p, c)
         /\ DataLabelThere'
<1>1. loaded /\ cache # None /\ cache \in Indexes
  BY DEF RInv, IInv, Inv, MountedHasCache, TypeOK
<1>2. /\ handle[h].path \in Paths
      /\ handle[h].dirty => handle[h].wbuf \in Contents \ {<<>>}
  BY HandleTyped DEF RInv, IInv
<1>3. /\ Current = FilesIn(cache, dataPart) /\ Current # None
      /\ \A p \in Paths : Current[p] = None <=> ~Exists(p)
      /\ IndexOK(cache, dataPart) /\ dataPart \in LogOf(Contents)
  BY <1>1, MountedSeen
<1>4. UNCHANGED <<idxPart, loaded>>
  BY DEF FlushBuffer, FlushClean, FlushNoEntry, FlushStores, FlushAppendFails,
         FlushSaveFails, tape
<1>5. DataKept(dataPart, dataPart')
  <2>1. CASE FlushClean(h, open) \/ FlushNoEntry(h, open)
    BY <2>1, SameDataKept DEF FlushClean, FlushNoEntry, tape
  <2>2. CASE FlushStores(h, open) \/ FlushSaveFails(h, open)
    <3>1. handle[h].dirty /\ dataPart' = AppendFileData(dataPart, handle[h].wbuf)
      BY <2>2 DEF FlushStores, FlushSaveFails, Flushable
    <3>2. 3 \in 0 .. 3 /\ handle[h].wbuf \in Contents
      BY <1>2, <3>1
    <3>. QED  BY <1>3, <3>1, <3>2, AppendKeepsData DEF AppendFileData
  <2>3. CASE FlushAppendFails(h, open)
    <3>1. handle[h].wbuf \in Contents /\ dataPart' \in FailedAppends(dataPart, handle[h].wbuf)
      BY <1>2, <2>3 DEF FlushAppendFails, Flushable
    <3>. QED  BY <1>3, <3>1, FailedAppendKeepsData
  <2>. QED  BY <2>1, <2>2, <2>3 DEF FlushBuffer
<1>6. DataLabelThere' /\ Saved' = Saved
  BY <1>1, <1>4, <1>5, LabelKept, SavedKept
<1>7. CASE cache' = cache
  <2>1. FilesIn(cache, dataPart') = FilesIn(cache, dataPart)
    BY <1>1, <1>3, <1>5, FilesKept
  <2>2. Current' = Current
    BY <1>1, <1>3, <1>4, <1>7, <2>1, Seen DEF CurrentOf
  <2>. QED  BY <1>6, <2>2 DEF FM!vars
<1>8. CASE FlushStores(h, open)
  <2>1. /\ handle[h].wbuf \in Contents \ {<<>>} /\ Exists(handle[h].path)
        /\ dataPart' = AppendFileData(dataPart, handle[h].wbuf)
        /\ cache' = StoredIndex(handle[h].path, handle[h].wbuf)
    BY <1>2, <1>8 DEF FlushStores, Flushable
  <2>2. Current' = [Current EXCEPT ![handle[h].path] = handle[h].wbuf]
    BY <1>1, <1>2, <1>4, <2>1, StoredReads
  <2>3. FM!Store(handle[h].path, handle[h].wbuf)
    BY <1>2, <1>3, <1>6, <2>1, <2>2 DEF FM!Store
  <2>. QED  BY <1>2, <1>6, <2>1, <2>3
<1>. QED
  BY <1>7, <1>8 DEF FlushBuffer, FlushClean, FlushNoEntry, FlushAppendFails, FlushSaveFails

-----------------------------------------------------------------------------
(***************************************************************************)
(* The refinement.                                                         *)
(***************************************************************************)
LEMMA StepRefines ==
  ASSUME InitSaves, RInv, [Next]_vars
  PROVE  [FM!Next]_(FM!vars) /\ DataLabelThere'
<1>1. CASE UNCHANGED vars
  BY <1>1, Seen DEF vars, FM!vars, RInv, DataLabelThere
<1>2. CASE DaemonStep
  <2>1. CASE CmdInit
    BY <2>1, FormatRefines DEF FM!Next
  <2>2. CASE CmdInitFormatFails
    BY <2>2, FormatFailsRefines DEF FM!Next
  <2>3. CASE CmdLoad
    BY <2>3, LoadRefines DEF FM!Next
  <2>4. CASE CmdCommit
    BY <2>4, CommitRefines DEF FM!Next
  <2>5. CASE CmdDiscard \/ CloseEntry \/ CmdMount \/ CmdUmount \/ Crash
    BY <2>5, EntryRefines DEF FM!Next
  <2>. QED  BY <1>2, <2>1, <2>2, <2>3, <2>4, <2>5 DEF DaemonStep, CmdInitSaveFails, InitSaves
<1>3. CASE NameStep
  <2>1. CASE \E p \in Paths, h \in Handles : Create(p, h)
    BY <2>1, CreateRefines DEF FM!Next
  <2>2. CASE \E p \in Paths, h \in Handles : Open(p, h)
    BY <2>2, OpenRefines
  <2>3. CASE \E p \in Paths, h \in Handles : OpenTruncate(p, h)
    BY <2>3, OpenTruncateRefines DEF FM!Next
  <2>4. CASE \E p \in Paths : Remove(p)
    BY <2>4, RemoveRefines DEF FM!Next
  <2>5. CASE \E p, q \in Paths : Rename(p, q)
    BY <2>5, RenameRefines DEF FM!Next
  <2>6. CASE FlushHandleWrite
    BY <2>6, CommitRefines DEF FM!Next
  <2>. QED  BY <1>3, <2>1, <2>2, <2>3, <2>4, <2>5, <2>6 DEF NameStep
<1>4. CASE HandleStep
  <2>1. PICK h \in Handles :
          \/ \E off \in 0 .. (MaxLength - 1), b \in Bytes : Write(h, off, b)
          \/ \E off \in 0 .. (MaxLength - 1) : WriteBeyondLimit(h, off)
          \/ Flush(h) \/ Release(h) \/ CmdFlushFiles(h)
    BY <1>4 DEF HandleStep
  <2>2. CASE Flush(h) \/ Release(h) \/ CmdFlushFiles(h)
    <3>1. /\ mounted /\ handle[h] # None
          /\ FlushBuffer(h, TRUE) \/ FlushBuffer(h, FALSE) \/ FlushBuffer(h, handle[h].open)
      BY <2>2 DEF Flush, Release, CmdFlushFiles
    <3>2. handle[h].open \in BOOLEAN
      BY <3>1, HandleTyped DEF OpenHandles, RInv, IInv
    <3>3. PICK open \in BOOLEAN : FlushBuffer(h, open)
      BY <3>1, <3>2
    <3>. QED  BY <3>1, <3>3, FlushRefines DEF FM!Next
  <2>. QED  BY <2>1, <2>2, WriteRefines, WriteBeyondLimitRefines
<1>. QED  BY <1>1, <1>2, <1>3, <1>4 DEF Next

\* A tape letter implements the map of files, for any number of paths and
\* handles, any bounds, and every fault but a cache that init could not save:
\* each command and each handler changes one file of the current map, or commits,
\* formats or goes back as a whole, and a crash, a failed append or a torn commit
\* changes nothing else (daemon/commands.go, fs/tapefs.go, fs/file.go).
THEOREM ImplementsFileMap ==
  ASSUME InitSaves
  PROVE  Spec => FileMapSpec
<1>1. Init => RInv /\ FM!Init
  BY InitInv, InitRefines DEF RInv, IInv
<1>2. RInv /\ [Next]_vars => RInv' /\ [FM!Next]_(FM!vars)
  BY StepInv, StepRefines DEF RInv, IInv
<1>. QED  BY <1>1, <1>2, PTL DEF Spec, FileMapSpec, FM!Spec

-----------------------------------------------------------------------------
(***************************************************************************)
(* What a step may never do to a buffer.                                   *)
(***************************************************************************)
\* Once a flush has stored a content, its path reads as that content.
LEMMA StoredReadsBack ==
  ASSUME IInv, mounted, loaded', NEW p \in Paths, NEW c \in Contents \ {<<>>}, Exists(p),
         dataPart' = AppendFileData(dataPart, c), cache' = StoredIndex(p, c)
  PROVE  Current'[p] = c
<1> DEFINE e == [block |-> NextBlock(dataPart), count |-> Len(c)]
           f == [length |-> Len(c), extent |-> e]
<1>1. /\ loaded /\ cache \in Indexes /\ (InitSaves => IndexOK(cache, dataPart))
      /\ dataPart \in LogOf(Contents)
  BY MountedCache DEF IInv, Inv, InitSaves, NoStaleCache, TypeOK
<1>2. Len(c) \in 1 .. MaxLength
  <2>1. c \in Seq(Bytes) /\ Len(c) \in 0 .. MaxLength
    BY ContentIsSeq
  <2>2. Len(c) # 0
    BY <2>1, EmptySeq
  <2>. QED  BY <2>1, <2>2, BoundsAssumption
<1>3. NextBlock(dataPart) \in Nat
  BY <1>1, AppendIsFresh
<1>4. e \in Extents /\ f \in Files /\ f.length = Len(c) /\ f.extent = e
  BY <1>2, <1>3, BoundsAssumption DEF Extents, Files
<1>5. ReadFileData(AppendFileData(dataPart, c), f) = c
  <2>1. f.extent = [block |-> NextBlock(dataPart), count |-> Len(c)]
    OBVIOUS
  <2>. QED  BY <1>1, <1>4, <2>1, AppendedReads
<1>6. cache' = [cache EXCEPT !.files[p] = f, !.avail = Freed(@, cache.files[p])]
  BY DEF StoredIndex
<1> HIDE DEF e, f
<1>7. cache' \in Indexes
  <2>1. StoredIndex(p, c) \in Indexes
    BY <1>1, StoredIndexOK DEF Exists, IInv, InitSaves, NoStaleCache
  <2>. QED  BY <2>1
<1>8. cache'.files[p] = f /\ f # None
  BY <1>1, <1>4, <1>6, NoFileAssumption DEF Indexes
<1>9. Current' = FilesIn(cache', dataPart')
  BY <1>7, NoneAssumption, Seen DEF CurrentOf
<1>. QED  BY <1>5, <1>8, <1>9 DEF FilesIn

\* A handle that was dirty and no longer is: only a flush that stored its
\* buffer, or found no entry for it, has done that.
LEMMA BufferStep ==
  ASSUME "flushsave" \notin Faults, IInv, Next, NEW h \in Handles,
         Dirty(handle[h]), mounted', ~Dirty(handle'[h]), Exists(handle[h].path)
  PROVE  Current'[handle[h].path] = handle[h].wbuf
<1>1. handle[h] \in OpenHandles /\ handle[h].path \in Paths
      /\ handle[h] # None /\ handle[h].dirty /\ handle[h].wbuf \in Contents \ {<<>>}
  BY HandleTyped DEF Dirty, IInv
<1>2. handle \in [Handles -> OpenHandles \cup {None}]
  BY DEF IInv, Inv, TypeOK
<1>3. handle'[h] # handle[h]
  OBVIOUS
<1>4. ~DaemonStep
  BY <1>3 DEF DaemonStep, CmdInit, CmdInitFormatFails, CmdInitSaveFails, CmdLoad, CmdCommit,
       FlushIndex, FlushIndexFails, FlushIndexSaveFails, CmdDiscard, CloseEntry, CmdMount,
       CmdUmount, Crash
<1>5. ~NameStep
  <2>1. ASSUME NEW p \in Paths, NEW g \in Handles,
               Create(p, g) \/ Open(p, g) \/ OpenTruncate(p, g)
        PROVE  FALSE
    <3>1. handle[g] = None /\ handle' = [handle EXCEPT ![g] = NewHandle(p)]
      BY <2>1 DEF Create, Open, OpenTruncate
    <3>. QED  BY <1>1, <1>2, <1>3, <3>1
  <2>. QED
    BY <1>3, <2>1 DEF NameStep, Remove, Rename, FlushHandleWrite, FlushIndex,
                      FlushIndexFails, FlushIndexSaveFails
<1>6. PICK g \in Handles :
        \/ \E off \in 0 .. (MaxLength - 1), b \in Bytes : Write(g, off, b)
        \/ \E off \in 0 .. (MaxLength - 1) : WriteBeyondLimit(g, off)
        \/ Flush(g) \/ Release(g) \/ CmdFlushFiles(g)
  BY <1>4, <1>5 DEF Next, HandleStep
<1>7. ASSUME NEW off \in 0 .. (MaxLength - 1), NEW b \in Bytes, Write(g, off, b)
      PROVE  FALSE
  <2> DEFINE hd == Buffered(handle[g])
             new == [hd EXCEPT !.wbuf = WriteAt(hd.wbuf, off, b), !.dirty = TRUE]
  <2>1. mounted /\ handle[g] # None /\ CanBuffer(handle[g])
        /\ handle' = [handle EXCEPT ![g] = new]
    BY <1>7 DEF Write
  <2>2. g = h
    BY <1>2, <1>3, <2>1
  <2>3. hd \in OpenHandles /\ hd.wbuf \in Contents
    BY <2>1, BufferTyped DEF IInv
  <2>4. WriteAt(hd.wbuf, off, b) \in Contents
    BY <2>3, WriteAtIsContent
  <2> HIDE DEF hd
  <2>5. new \in OpenHandles /\ new.dirty
    BY <2>3, <2>4 DEF OpenHandles
  <2> HIDE DEF new
  <2>. QED  BY <1>2, <2>1, <2>2, <2>5, NoHandleAssumption DEF Dirty
<1>8. ASSUME NEW off \in 0 .. (MaxLength - 1), WriteBeyondLimit(g, off)
      PROVE  FALSE
  <2>1. mounted /\ handle[g] # None /\ CanBuffer(handle[g])
        /\ handle' = [handle EXCEPT ![g] = Buffered(handle[g])]
    BY <1>8 DEF WriteBeyondLimit
  <2>2. g = h
    BY <1>2, <1>3, <2>1
  <2>3. handle[h].wbuf # None
    BY <1>1, NoneAssumption
  <2>. QED  BY <1>2, <1>3, <2>1, <2>2, <2>3 DEF Buffered
<1>9. PICK open \in BOOLEAN : mounted /\ handle[g] # None /\ FlushBuffer(g, open)
  <2>1. /\ mounted /\ handle[g] # None
        /\ FlushBuffer(g, TRUE) \/ FlushBuffer(g, FALSE) \/ FlushBuffer(g, handle[g].open)
    BY <1>6, <1>7, <1>8 DEF Flush, Release, CmdFlushFiles
  <2>2. handle[g].open \in BOOLEAN
    BY <2>1, HandleTyped DEF OpenHandles, IInv
  <2>. QED  BY <2>1, <2>2
<1>10. g = h
  BY <1>2, <1>3, <1>9 DEF FlushBuffer, FlushClean, FlushNoEntry, FlushStores,
       FlushAppendFails, FlushSaveFails
<1>11. ~FlushClean(h, open) /\ ~FlushNoEntry(h, open) /\ ~FlushSaveFails(h, open)
  BY <1>1 DEF FlushClean, FlushNoEntry, FlushSaveFails
<1>12. ~FlushAppendFails(h, open)
  <2>1. SUFFICES ASSUME FlushAppendFails(h, open) PROVE FALSE
    OBVIOUS
  <2>2. handle'[h] = [handle[h] EXCEPT !.open = open]
    BY <1>2, <2>1 DEF FlushAppendFails
  <2>3. [handle[h] EXCEPT !.open = open] \in OpenHandles
        /\ [handle[h] EXCEPT !.open = open].dirty
    BY <1>1 DEF OpenHandles
  <2>. QED  BY <2>2, <2>3, NoHandleAssumption DEF Dirty
<1>13. FlushStores(h, open)
  BY <1>9, <1>10, <1>11, <1>12 DEF FlushBuffer
<1>. QED
  <2>1. /\ dataPart' = AppendFileData(dataPart, handle[h].wbuf)
        /\ cache' = StoredIndex(handle[h].path, handle[h].wbuf)
        /\ loaded' = loaded
    BY <1>13 DEF FlushStores
  <2>2. loaded
    BY <1>9, MountedCache DEF IInv
  <2>. QED  BY <1>1, <1>9, <2>1, <2>2, StoredReadsBack

\* Unless the save after an append fails, no handle of a mounted letter stops
\* being dirty before its path reads as its buffer: however appends fail, in
\* whatever order handles are flushed, closed and released (file.go, flushBuffer).
THEOREM BuffersAlwaysKept ==
  ASSUME "flushsave" \notin Faults
  PROVE  Spec => BufferKept
<1> DEFINE Kept == \A h \in Handles :
             Dirty(handle[h]) /\ mounted' /\ ~Dirty(handle'[h]) /\ Exists(handle[h].path) =>
               Current'[handle[h].path] = handle[h].wbuf
<1>1. IInv /\ [Next]_vars => [Kept]_vars
  BY BufferStep
<1>2. BufferKept <=> [][Kept]_vars
  BY PTL DEF BufferKept
<1> HIDE DEF Kept
<1>. QED  BY <1>1, <1>2, Consistent, PTL DEF Spec

-----------------------------------------------------------------------------
(***************************************************************************)
(* Steps that leave the index partition and the generation alone.          *)
(***************************************************************************)
\* The FUSE handlers, flushfiles included; a write to /.tapefuse_flush is a
\* commit.
Handler ==
  \/ \E p \in Paths, h \in Handles : Create(p, h) \/ Open(p, h) \/ OpenTruncate(p, h)
  \/ \E p \in Paths : Remove(p)
  \/ \E p, q \in Paths : Rename(p, q)
  \/ HandleStep

LEMMA StepKinds ==
  Next <=> \/ CmdInit \/ CmdInitSaveFails \/ CmdInitFormatFails \/ CmdLoad
           \/ CmdCommit \/ FlushHandleWrite
           \/ CmdDiscard \/ CloseEntry \/ CmdMount \/ CmdUmount \/ Crash
           \/ Handler
BY DEF Next, DaemonStep, NameStep, Handler

\* A handler, as far as the tape's index and the generation are concerned.
LEMMA HandlerFrame ==
  ASSUME TypeInv, Handler
  PROVE  /\ mounted /\ loaded /\ UNCHANGED <<idxPart, loaded>>
         /\ cache \in Indexes /\ cache' \in Indexes /\ cache'.gen = cache.gen
<1>1. mounted /\ UNCHANGED <<idxPart, loaded, mounted>>
  BY ZenonT(60) DEF Handler, Create, Open, OpenTruncate, Remove, Rename, HandleStep, Write,
         WriteBeyondLimit, Flush, Release, CmdFlushFiles, FlushBuffer, FlushClean,
         FlushNoEntry, FlushStores, FlushAppendFails, FlushSaveFails, tape
<1>2. loaded /\ cache \in Indexes
  BY <1>1, MountedCache DEF TypeInv
<1>3. cache' \in Indexes
  <2>1. TypeInv'
    BY StepTypeInv, StepKinds
  <2>. QED  BY <1>1, <2>1 DEF TypeInv, Inv, TypeOK, MountedHasCache
<1>4. cache'.gen = cache.gen
  <2>1. CASE HandleStep
    <3>1. PICK h \in Handles :
            \/ \E off \in 0 .. (MaxLength - 1), b \in Bytes : Write(h, off, b)
            \/ \E off \in 0 .. (MaxLength - 1) : WriteBeyondLimit(h, off)
            \/ Flush(h) \/ Release(h) \/ CmdFlushFiles(h)
      BY <2>1 DEF HandleStep
    <3>2. ASSUME NEW off \in 0 .. (MaxLength - 1), NEW b \in Bytes, Write(h, off, b)
          PROVE  cache'.gen = cache.gen
      <4>1. PICK p : \/ cache' = cache
                     \/ cache' = [cache EXCEPT !.files[p].length = off + 1]
        BY <3>2 DEF Write
      <4>. QED  BY <1>2, <4>1 DEF Indexes
    <3>3. ASSUME NEW open, FlushBuffer(h, open)
          PROVE  cache'.gen = cache.gen
      <4>1. CASE FlushStores(h, open)
        BY <1>2, <4>1 DEF FlushStores, StoredIndex, Indexes
      <4>. QED  BY <3>3, <4>1 DEF FlushBuffer, FlushClean, FlushNoEntry, FlushAppendFails,
                                  FlushSaveFails
    <3>. QED  BY <3>1, <3>2, <3>3 DEF WriteBeyondLimit, Flush, Release, CmdFlushFiles
  <2>. QED
    BY <1>2, <2>1 DEF Handler, Create, Open, OpenTruncate, Remove, Rename, Indexes
<1>. QED  BY <1>1, <1>2, <1>3, <1>4, ZenonT(30)

\* What a commit leaves at the index block: what was there, nothing, or the
\* index it writes.
LEMMA CommitFrame ==
  ASSUME TypeInv, CmdCommit \/ FlushHandleWrite
  PROVE  /\ loaded /\ loaded' /\ cache \in Indexes
         /\ NextGen \in Indexes /\ NextGen.gen = cache.gen + 1
         /\ cache' \in {cache, NextGen}
         /\ \/ idxPart' = idxPart /\ cache' = cache /\ "commit" \in Faults
            \/ ~IsDataBlock(idxPart', IndexBlock) /\ cache' = cache
            \/ TapeIndex' = NextGen /\ (cache' = NextGen \/ "commit" \in Faults
                                                         \/ "commitsave" \in Faults)
<1>1. loaded /\ loaded' /\ cache # None /\ cache \in Indexes
  BY DEF CmdCommit, FlushHandleWrite, FlushIndex, FlushIndexFails, FlushIndexSaveFails,
         TypeInv, Inv, MountedHasCache, TypeOK
<1>2. NextGen \in Indexes /\ NextGen.gen = cache.gen + 1
  BY <1>1, NextGenOK DEF NextGen, Indexes
<1> DEFINE ng == NextGen
<1>3. idxPart \in LogOf(Indexes \cup {<<>>}) /\ IndexBlock <= Len(idxPart)
      /\ ng \in Indexes \cup {<<>>}
  BY <1>1, <1>2 DEF TypeInv, Inv, TypeOK, LabelsThere
<1> HIDE DEF ng
<1>4. ASSUME NEW k \in 0 .. 3
      PROVE  LET new == WriteIndexUpTo(idxPart, ng, k)
             IN IF k = 0 THEN ~IsDataBlock(new, IndexBlock)
                ELSE ReadAt(new, IndexBlock).data = ng
  <2> DEFINE new == WriteIndexUpTo(idxPart, ng, k)
  <2>1. Len(new) = 3 + k /\ WrittenAt(new, 3, IndexRecords(ng), k)
    BY <1>3, <1>4, IndexWritten, ZenonT(60)
  <2>2. IndexRecords(ng)[1] = DataRecord(ng)
    BY <1>3, RecordsWritten
  <2> HIDE DEF new
  <2>3. k = 0 => ~IsDataBlock(new, IndexBlock)
    BY <2>1 DEF IsDataBlock, HasBlock, IndexBlock
  <2>4. k # 0 => ReadAt(new, IndexBlock) = DataRecord(ng)
    <3>1. k # 0 => 1 \in 1 .. k
      OBVIOUS
    <3>2. k # 0 => new[3 + 1] = IndexRecords(ng)[1]
      BY <2>1, <3>1 DEF WrittenAt
    <3>. QED  BY <2>2, <3>2 DEF ReadAt, IndexBlock
  <2>. QED  BY <2>3, <2>4 DEF new, DataRecord
<1>5. CASE idxPart' = WriteIndex(idxPart, NextGen)
  <2>1. ReadAt(idxPart', IndexBlock).data = NextGen
    BY <1>4, <1>5 DEF WriteIndex, ng
  <2>2. cache' = NextGen \/ (cache' = cache /\ ("commit" \in Faults \/ "commitsave" \in Faults))
    BY DEF CmdCommit, FlushHandleWrite, FlushIndex, FlushIndexFails, FlushIndexSaveFails
  <2>. QED  BY <1>1, <1>2, <2>1, <2>2 DEF TapeIndex
<1>6. CASE FlushIndexFails
  <2>1. cache' = cache /\ "commit" \in Faults
        /\ idxPart' \in FailedIndexWrites(idxPart, NextGen)
    BY <1>6 DEF FlushIndexFails
  <2>2. CASE idxPart' = idxPart
    BY <1>1, <1>2, <2>1, <2>2
  <2>3. ASSUME NEW k \in 0 .. 3, idxPart' = WriteIndexUpTo(idxPart, ng, k)
        PROVE  ~IsDataBlock(idxPart', IndexBlock) \/ TapeIndex' = NextGen
    BY <1>4, <2>3 DEF TapeIndex, ng
  <2>. QED  BY <1>1, <1>2, <2>1, <2>2, <2>3 DEF FailedIndexWrites, ng
<1>. QED
  BY <1>5, <1>6 DEF CmdCommit, FlushHandleWrite, FlushIndex, FlushIndexSaveFails

-----------------------------------------------------------------------------
(***************************************************************************)
(* Lengths, of the cache whether loaded or not and of the index on tape    *)
(* whether it can be loaded or not.                                        *)
(***************************************************************************)
Covers ==
  /\ cache # None => LengthCoversIn(cache)
  /\ IsDataBlock(idxPart, IndexBlock) => LengthCoversIn(TapeIndex)

\* A handler puts a file there as it was, one without an extent, one grown, or one
\* whose extent holds all of it.
LEMMA HandlerCovers ==
  ASSUME TypeInv, Handler, LengthCoversIn(cache)
  PROVE  LengthCoversIn(cache')
<1>1. mounted /\ loaded /\ cache \in Indexes
  BY HandlerFrame
<1>2. SUFFICES ASSUME NEW r \in Paths, HasExtent(cache'.files[r])
               PROVE  cache'.files[r].extent.count <= cache'.files[r].length
  BY DEF LengthCoversIn
<1>3. ASSUME NEW q \in Paths, cache'.files[r] = cache.files[q]
      PROVE  cache'.files[r].extent.count <= cache'.files[r].length
  BY <1>2, <1>3 DEF LengthCoversIn
<1>4. ~HasExtent(None) /\ ~HasExtent(NewFile)
  BY NewFileTyped DEF HasExtent
<1>5. ASSUME NEW p \in Paths, NEW f, NEW idx,
             idx.files = [cache.files EXCEPT ![p] = f], cache' = idx,
             r = p => cache'.files[r].extent.count <= cache'.files[r].length
      PROVE  cache'.files[r].extent.count <= cache'.files[r].length
  <2>1. r # p => cache'.files[r] = cache.files[r]
    BY <1>1, <1>5 DEF Indexes
  <2>. QED  BY <1>3, <1>5, <2>1
<1>6. CASE \E p \in Paths, h \in Handles : Create(p, h) \/ Open(p, h) \/ OpenTruncate(p, h)
  <2>1. PICK p \in Paths, h \in Handles : Create(p, h) \/ Open(p, h) \/ OpenTruncate(p, h)
    BY <1>6
  <2>2. CASE cache' = cache
    BY <1>3, <2>2
  <2>3. CASE cache' # cache
    <3>1. cache'.files = [cache.files EXCEPT ![p] = NewFile]
      BY <1>1, <2>1, <2>3 DEF Create, Open, OpenTruncate, Indexes
    <3>2. r = p => cache'.files[r] = NewFile
      BY <1>1, <3>1 DEF Indexes
    <3>. QED  BY <1>2, <1>4, <1>5, <3>1, <3>2
  <2>. QED  BY <2>2, <2>3
<1>7. CASE \E p \in Paths : Remove(p)
  <2>1. PICK p \in Paths : Remove(p)
    BY <1>7
  <2>2. cache'.files = [cache.files EXCEPT ![p] = None]
    BY <1>1, <2>1 DEF Remove, Indexes
  <2>3. r = p => cache'.files[r] = None
    BY <1>1, <2>2 DEF Indexes
  <2>. QED  BY <1>2, <1>4, <1>5, <2>2, <2>3
<1>8. CASE \E p, q \in Paths : Rename(p, q)
  <2>1. PICK p \in Paths, q \in Paths : Rename(p, q)
    BY <1>8
  <2>2. cache'.files = [cache.files EXCEPT ![p] = None, ![q] = cache.files[p]]
    BY <1>1, <2>1 DEF Rename, Indexes
  <2>3. cache'.files[r] \in {None, cache.files[p], cache.files[r]}
    BY <1>1, <2>2 DEF Indexes
  <2>. QED  BY <1>2, <1>3, <1>4, <2>3
<1>9. CASE HandleStep
  <2>1. PICK h \in Handles :
          \/ \E off \in 0 .. (MaxLength - 1), b \in Bytes : Write(h, off, b)
          \/ \E off \in 0 .. (MaxLength - 1) : WriteBeyondLimit(h, off)
          \/ Flush(h) \/ Release(h) \/ CmdFlushFiles(h)
    BY <1>9 DEF HandleStep
  <2>2. CASE cache' = cache
    BY <1>3, <2>2
  <2>3. ASSUME NEW off \in 0 .. (MaxLength - 1), NEW b \in Bytes, Write(h, off, b), cache' # cache
        PROVE  cache'.files[r].extent.count <= cache'.files[r].length
    <3> DEFINE p == Buffered(handle[h]).path
    <3>1. /\ handle[h] # None /\ CanBuffer(handle[h])
          /\ cache.files[p] # None /\ off + 1 > cache.files[p].length
          /\ cache' = [cache EXCEPT !.files[p].length = off + 1]
      BY <2>3 DEF Write, Exists
    <3>2. p \in Paths
      BY <1>1, <3>1, BufferTyped, HandleTyped DEF TypeInv
    <3> HIDE DEF p
    <3> DEFINE f == [cache.files[p] EXCEPT !.length = off + 1]
    <3>3. cache'.files = [cache.files EXCEPT ![p] = f]
      BY <1>1, <3>1 DEF Indexes
    <3>4. cache.files[p] \in Files
      BY <1>1, <3>1, <3>2 DEF Indexes
    <3>5. f.extent = cache.files[p].extent /\ f.length = off + 1 /\ f # None
      BY <3>4, NoFileAssumption, BoundsAssumption DEF Files
    <3> HIDE DEF f
    <3>6. ASSUME r = p
          PROVE  cache'.files[r].extent.count <= cache'.files[r].length
      <4>1. cache'.files[r] = f
        BY <1>1, <3>2, <3>3, <3>6 DEF Indexes
      <4>2. HasExtent(cache.files[p])
        BY <1>2, <3>1, <3>5, <4>1 DEF HasExtent
      <4>3. cache.files[p].extent.count <= cache.files[p].length
        BY <3>2, <4>2 DEF LengthCoversIn
      <4>4. cache.files[p].extent.count \in Int /\ cache.files[p].length \in Int
        BY <1>1, <3>2, <3>4, <4>2, ExtentTyped, BoundsAssumption DEF Files, Extents
      <4>. QED  BY <3>1, <3>5, <4>1, <4>3, <4>4
    <3>. QED  BY <1>5, <3>2, <3>3, <3>6
  <2>4. ASSUME NEW open, FlushStores(h, open), mounted, handle[h] # None
        PROVE  cache'.files[r].extent.count <= cache'.files[r].length
    <3> DEFINE p == handle[h].path
               n == Len(handle[h].wbuf)
               f == [length |-> n, extent |-> [block |-> NextBlock(dataPart), count |-> n]]
    <3>1. p \in Paths /\ handle[h].wbuf \in Contents
      BY <2>4, HandleTyped DEF TypeInv, FlushStores, Flushable
    <3>2. n \in Int
      BY <3>1, ContentIsSeq, BoundsAssumption
    <3>3. cache'.files = [cache.files EXCEPT ![p] = f]
      BY <1>1, <2>4 DEF FlushStores, StoredIndex, Indexes
    <3>4. f.extent.count = n /\ f.length = n
      OBVIOUS
    <3> HIDE DEF f, n, p
    <3>5. r = p => cache'.files[r] = f
      BY <1>1, <3>1, <3>3 DEF Indexes
    <3>. QED  BY <1>5, <3>1, <3>2, <3>3, <3>4, <3>5
  <2>5. ASSUME NEW open, FlushBuffer(h, open), mounted, handle[h] # None
        PROVE  cache'.files[r].extent.count <= cache'.files[r].length
    BY <2>2, <2>4, <2>5 DEF FlushBuffer, FlushClean, FlushNoEntry, FlushAppendFails, FlushSaveFails
  <2>. QED
    BY <1>1, <2>1, <2>2, <2>3, <2>5 DEF WriteBeyondLimit, Flush, Release, CmdFlushFiles
<1>. QED  BY <1>6, <1>7, <1>8, <1>9 DEF Handler

LEMMA CoversStep ==
  ASSUME TypeInv, Covers, [Next]_vars
  PROVE  Covers'
<1>1. CASE UNCHANGED vars
  BY <1>1 DEF vars, Covers, TapeIndex
<1>2. LengthCoversIn(EmptyIndex) /\ ReadAt(BlankIndexPart, IndexBlock).data = EmptyIndex
  BY EmptyIndexOK, BlankParts DEF IndexOK, ReadAt, IndexBlock, DataRecord
<1>3. CASE CmdInit \/ CmdInitSaveFails
  <2>1. idxPart' = BlankIndexPart /\ cache' \in {cache, EmptyIndex}
    BY <1>3 DEF CmdInit, CmdInitSaveFails
  <2>. QED  BY <1>2, <2>1 DEF Covers, TapeIndex
<1>4. CASE CmdInitFormatFails
  <2>1. IsDataBlock(idxPart', IndexBlock) => TapeIndex' = EmptyIndex
    <3>1. CASE \E k \in 0 .. 6 : idxPart' = SubSeq(BlankIndexPart, 1, k)
      BY <3>1, FormattedUpTo DEF TapeIndex
    <3>2. CASE idxPart' = BlankIndexPart
      BY <1>2, <3>2 DEF TapeIndex
    <3>. QED  BY <1>4, <3>1, <3>2, FormatStopped
  <2>2. cache' = cache
    BY <1>4 DEF CmdInitFormatFails
  <2>. QED  BY <1>2, <2>1, <2>2 DEF Covers
<1>5. CASE CmdLoad
  <2>1. IsDataBlock(idxPart, IndexBlock) /\ cache' = TapeIndex /\ idxPart' = idxPart
    BY <1>5 DEF CmdLoad, Loadable, tape
  <2>. QED  BY <2>1 DEF Covers, TapeIndex
<1>6. CASE CmdCommit \/ FlushHandleWrite
  <2>1. LengthCoversIn(cache) /\ cache \in Indexes
    BY <1>6, CommitFrame, NoneAssumption DEF Covers
  <2>2. LengthCoversIn(NextGen)
    <3>1. NextGen.files = cache.files
      BY <2>1 DEF NextGen, Indexes
    <3>. QED  BY <2>1, <3>1 DEF LengthCoversIn
  <2>. QED  BY <1>6, <2>1, <2>2, CommitFrame DEF Covers, TapeIndex
<1>7. CASE CmdDiscard \/ CloseEntry \/ CmdMount \/ CmdUmount \/ Crash
  <2>1. idxPart' = idxPart /\ cache' \in {cache, None}
    BY <1>7 DEF CmdDiscard, CloseEntry, CmdMount, CmdUmount, Crash, tape
  <2>. QED  BY <2>1 DEF Covers, TapeIndex
<1>8. CASE Handler
  <2>1. cache # None /\ idxPart' = idxPart
    BY <1>8, HandlerFrame, NoneAssumption
  <2>2. LengthCoversIn(cache')
    BY <1>8, <2>1, HandlerCovers DEF Covers
  <2>. QED  BY <2>1, <2>2 DEF Covers, TapeIndex
<1>. QED  BY <1>1, <1>3, <1>4, <1>5, <1>6, <1>7, <1>8, StepKinds

LEMMA InitCovers == Init => Covers
<1>1. Len(<<>>) = 0
  OBVIOUS
<1>. QED  BY <1>1 DEF Init, Covers, IsDataBlock, HasBlock, IndexBlock

\* Whatever fails, the length of a file never falls below its extent (fs/file.go, Write
\* and flushBuffer).
THEOREM LengthsAlwaysCover == Spec => []LengthCovers
<1>1. Covers => LengthCovers
  <2>1. SUFFICES ASSUME Covers, NEW idx \in ReachableIndexes, NEW p \in Paths,
                        HasExtent(idx.files[p])
                 PROVE  idx.files[p].extent.count <= idx.files[p].length
    BY DEF LengthCovers
  <2>2. LengthCoversIn(idx)
    BY <2>1 DEF ReachableIndexes, Loadable, Covers
  <2>. QED  BY <2>1, <2>2 DEF LengthCoversIn
<1>. QED  BY <1>1, InitCovers, CoversStep, Typed, PTL DEF Spec

-----------------------------------------------------------------------------
(***************************************************************************)
(* The generation of the index.                                            *)
(***************************************************************************)
CommitsSave == "commit" \notin Faults /\ "commitsave" \notin Faults

\* The cache of a loaded letter is at most one generation behind its tape, and
\* behind it at all only after a commit that failed.
GenInv ==
  /\ cache # None => cache.gen >= 1
  /\ IsDataBlock(idxPart, IndexBlock) => TapeIndex.gen >= 1
  /\ loaded /\ cache # None /\ IsDataBlock(idxPart, IndexBlock) =>
       cache.gen + 1 >= TapeIndex.gen /\ (CommitsSave => cache.gen >= TapeIndex.gen)

LEMMA GenTyped ==
  ASSUME TypeInv
  PROVE  /\ cache # None => cache \in Indexes /\ cache.gen \in Nat
         /\ IsDataBlock(idxPart, IndexBlock) => TapeIndex \in Indexes /\ TapeIndex.gen \in Nat
BY DEF TypeInv, Inv, TypeOK, TapeIndexOK, Indexes

LEMMA GenStep ==
  ASSUME TypeInv, GenInv, [Next]_vars
  PROVE  GenInv'
<1>1. CASE UNCHANGED vars
  BY <1>1 DEF vars, GenInv, TapeIndex
<1>2. EmptyIndex.gen = 1 /\ ReadAt(BlankIndexPart, IndexBlock).data = EmptyIndex
  BY BlankParts DEF EmptyIndex, ReadAt, IndexBlock, DataRecord
<1>3. CASE CmdInit \/ CmdInitSaveFails
  <2>1. idxPart' = BlankIndexPart /\ cache' \in {cache, EmptyIndex}
    BY <1>3 DEF CmdInit, CmdInitSaveFails
  <2>2. TapeIndex'.gen = 1
    BY <1>2, <2>1 DEF TapeIndex
  <2>3. cache' # None => cache'.gen >= 1 /\ cache'.gen \in Nat
    BY <1>2, <2>1, GenTyped DEF GenInv
  <2>. QED  BY <2>2, <2>3 DEF GenInv
<1>4. CASE CmdInitFormatFails
  <2>1. IsDataBlock(idxPart', IndexBlock) => TapeIndex'.gen = 1
    <3>1. CASE \E k \in 0 .. 6 : idxPart' = SubSeq(BlankIndexPart, 1, k)
      BY <1>2, <3>1, FormattedUpTo DEF TapeIndex
    <3>2. CASE idxPart' = BlankIndexPart
      BY <1>2, <3>2 DEF TapeIndex
    <3>. QED  BY <1>4, <3>1, <3>2, FormatStopped
  <2>2. cache' = cache /\ ~loaded'
    BY <1>4 DEF CmdInitFormatFails
  <2>. QED  BY <2>1, <2>2 DEF GenInv
<1>5. CASE CmdLoad
  <2>1. /\ IsDataBlock(idxPart, IndexBlock) /\ cache' = TapeIndex /\ idxPart' = idxPart
    BY <1>5 DEF CmdLoad, Loadable, tape
  <2>. QED  BY <2>1, GenTyped DEF GenInv, TapeIndex
<1>6. CASE CmdCommit \/ FlushHandleWrite
  BY <1>6, CommitFrame, GenTyped, NoneAssumption DEF GenInv, CommitsSave, TapeIndex
<1>7. CASE CmdDiscard \/ CloseEntry \/ CmdMount \/ CmdUmount \/ Crash
  <2>1. /\ idxPart' = idxPart
        /\ cache' = cache \/ cache' = None
        /\ loaded' => loaded
    BY <1>7 DEF CmdDiscard, CloseEntry, CmdMount, CmdUmount, Crash, tape
  <2>. QED  BY <2>1 DEF GenInv, TapeIndex
<1>8. CASE Handler
  BY <1>8, HandlerFrame, NoneAssumption DEF GenInv, TapeIndex
<1>. QED  BY <1>1, <1>3, <1>4, <1>5, <1>6, <1>7, <1>8, StepKinds

\* The index on the tape after a step: the one before it, a newer one, or a
\* format's.
LEMMA GenMoves ==
  ASSUME TypeInv, GenInv, [Next]_vars, Loadable, Loadable', idxPart' # BlankIndexPart
  PROVE  TapeIndex' # TapeIndex =>
           \/ TapeIndex'.gen > TapeIndex.gen
           \/ cache.gen < TapeIndex.gen /\ TapeIndex'.gen = TapeIndex.gen /\ ~CommitsSave
<1>1. IsDataBlock(idxPart, IndexBlock) /\ IsDataBlock(idxPart', IndexBlock)
      /\ HasBlock(dataPart', 1) /\ TapeIndex.gen \in Nat
  BY GenTyped DEF Loadable
<1>2. CASE idxPart' = idxPart
  BY <1>1, <1>2 DEF TapeIndex
<1>3. CASE CmdCommit \/ FlushHandleWrite
  BY <1>1, <1>2, <1>3, CommitFrame, GenTyped, NoneAssumption DEF GenInv, CommitsSave
<1>4. ~CmdInit /\ ~CmdInitSaveFails
  BY DEF CmdInit, CmdInitSaveFails
<1>5. ~CmdInitFormatFails
  <2>1. Len(<<>>) = 0
    OBVIOUS
  <2>2. CmdInitFormatFails => idxPart' = <<>> \/ dataPart' = <<>>
    BY DEF CmdInitFormatFails
  <2>. QED  BY <1>1, <2>1, <2>2 DEF IsDataBlock, HasBlock, IndexBlock
<1>6. CASE \/ CmdLoad \/ CmdDiscard \/ CloseEntry \/ CmdMount \/ CmdUmount \/ Crash
           \/ UNCHANGED vars
  BY <1>2, <1>6 DEF CmdLoad, CmdDiscard, CloseEntry, CmdMount, CmdUmount, Crash, tape, vars
<1>7. CASE Handler
  BY <1>2, <1>7, HandlerFrame
<1>. QED  BY <1>3, <1>4, <1>5, <1>6, <1>7, StepKinds

LEMMA InitGenInv == Init => GenInv
<1>1. Len(<<>>) = 0
  OBVIOUS
<1>. QED  BY <1>1 DEF Init, GenInv, IsDataBlock, HasBlock, IndexBlock

\* However commits, loads, failures and crashes follow each other, an index that a commit
\* puts on the tape is newer than the one before it, or takes its number because the
\* cache is behind the tape (tapefs.go, FlushIndex; commands.go, cmdCommit).
THEOREM GenerationAlwaysGrows == Spec => GenerationGrows
<1> DEFINE Grows == Loadable /\ Loadable' /\ TapeIndex' # TapeIndex /\ idxPart' # BlankIndexPart =>
                      \/ TapeIndex'.gen > TapeIndex.gen
                      \/ cache.gen < TapeIndex.gen /\ TapeIndex'.gen = TapeIndex.gen
<1>1. TypeInv /\ GenInv /\ [Next]_vars => [Grows]_vars
  BY GenMoves
<1>2. TypeInv /\ GenInv /\ [Next]_vars => GenInv'
  BY GenStep
<1>3. GenerationGrows <=> [][Grows]_vars
  BY PTL DEF GenerationGrows
<1> HIDE DEF Grows
<1>. QED  BY <1>1, <1>2, <1>3, InitGenInv, Typed, PTL DEF Spec

\* The cache falls behind only by a commit that fails: where none does, no number is
\* on the tape twice between two formats.
THEOREM GenerationNeverReused ==
  ASSUME CommitsSave
  PROVE  Spec => [][Loadable /\ Loadable' /\ TapeIndex' # TapeIndex /\ idxPart' # BlankIndexPart
                      => TapeIndex'.gen > TapeIndex.gen]_vars
<1> DEFINE Newer == Loadable /\ Loadable' /\ TapeIndex' # TapeIndex /\ idxPart' # BlankIndexPart
                      => TapeIndex'.gen > TapeIndex.gen
<1>1. TypeInv /\ GenInv /\ [Next]_vars => [Newer]_vars
  BY GenMoves
<1>2. TypeInv /\ GenInv /\ [Next]_vars => GenInv'
  BY GenStep
<1>3. Spec => [][Newer]_vars
  <2> HIDE DEF Newer
  <2>. QED  BY <1>1, <1>2, InitGenInv, Typed, PTL DEF Spec
<1>. QED  BY <1>3

-----------------------------------------------------------------------------
(***************************************************************************)
(* The layout of the data partition.                                       *)
(***************************************************************************)
\* Behind the labels, every filemark closes a data record, and an end-of-data
\* record is the last one.
MarksInPlace(log) ==
  \A i \in 1 .. Len(log) :
    /\ log[i].type = "eod" => i = Len(log)
    /\ i > 3 /\ log[i].type = "filemark" => log[i - 1].type = "data"

LabelsFirst(log) == \A i \in 1 .. Len(log) : i <= 3 => log[i] = BlankDataPart[i]

\* Dropping the end-of-data record leaves none.
LEMMA NoEODLeft ==
  ASSUME NEW S, NEW log \in LogOf(S), MarksInPlace(log)
  PROVE  \A i \in 1 .. Len(WithoutEOD(log)) :
           /\ WithoutEOD(log)[i].type # "eod"
           /\ i > 3 /\ WithoutEOD(log)[i].type = "filemark" => WithoutEOD(log)[i - 1].type = "data"
<1>1. /\ Len(log) \in Nat /\ Len(WithoutEOD(log)) \in 0 .. Len(log)
      /\ \A i \in 1 .. Len(WithoutEOD(log)) : WithoutEOD(log)[i] = log[i]
  BY EODDropped, LenProperties DEF LogOf
<1>2. LastIsEOD(log) => Len(WithoutEOD(log)) = Len(log) - 1
  <2>1. SUFFICES ASSUME LastIsEOD(log) PROVE Len(WithoutEOD(log)) = Len(log) - 1
    OBVIOUS
  <2>2. Len(log) - 1 \in 0 .. Len(log)
    BY <1>1, <2>1 DEF LastIsEOD
  <2>. QED  BY <2>1, <2>2, Truncated DEF WithoutEOD
<1>3. ASSUME NEW i \in 1 .. Len(WithoutEOD(log))
      PROVE  /\ WithoutEOD(log)[i].type # "eod"
             /\ i > 3 /\ WithoutEOD(log)[i].type = "filemark" =>
                  WithoutEOD(log)[i - 1].type = "data"
  <2>1. i \in 1 .. Len(log) /\ WithoutEOD(log)[i] = log[i]
        /\ (i > 3 => i - 1 \in 1 .. Len(WithoutEOD(log)) /\ WithoutEOD(log)[i - 1] = log[i - 1])
    BY <1>1
  <2>2. log[i].type # "eod"
    BY <1>1, <1>2, <2>1 DEF MarksInPlace, LastIsEOD
  <2>. QED  BY <2>1, <2>2 DEF MarksInPlace
<1>. QED  BY <1>3

\* An append, however far it gets, keeps the layout.
LEMMA AppendInPlace ==
  ASSUME NEW S, NEW log \in LogOf(S), NEW c \in S, NEW k \in 0 .. 3, MarksInPlace(log)
  PROVE  /\ MarksInPlace(AppendUpTo(log, c, k))
         /\ LabelsFirst(log) /\ 3 <= Len(log) =>
              LabelsFirst(AppendUpTo(log, c, k)) /\ 3 <= Len(AppendUpTo(log, c, k))
<1> DEFINE cut == WithoutEOD(log)
           new == AppendUpTo(log, c, k)
           n == Len(cut)
<1>1. /\ cut \in LogOf(S) /\ n \in 0 .. Len(log) /\ Len(log) \in Nat /\ n \in Nat
      /\ Len(log) - 1 <= n
      /\ \A i \in 1 .. n : cut[i] = log[i]
  BY EODDropped, LenProperties DEF LogOf
<1>2. \A i \in 1 .. n : /\ cut[i].type # "eod"
                        /\ i > 3 /\ cut[i].type = "filemark" => cut[i - 1].type = "data"
  BY NoEODLeft
<1>3. FileRecords(c) \in LogOf(S) /\ Len(FileRecords(c)) = 3
      /\ FileRecords(c)[1].type = "data" /\ FileRecords(c)[2].type = "filemark"
      /\ FileRecords(c)[3].type = "eod"
  BY RecordsWritten DEF FileRecords, DataRecord, Filemark, EODMark
<1>4. /\ Len(new) = n + k
      /\ SamePrefix(cut, new, n)
      /\ WrittenAt(new, n, FileRecords(c), k)
  BY <1>1, <1>3, Extended DEF AppendUpTo
<1> HIDE DEF cut, new, n
<1>5. \A i \in 1 .. n : new[i] = cut[i]
  BY <1>4 DEF SamePrefix
<1>6. /\ k >= 1 => new[n + 1].type = "data"
      /\ k >= 2 => new[n + 2].type = "filemark"
      /\ k >= 3 => new[n + 3].type = "eod"
  BY <1>3, <1>4 DEF WrittenAt
<1>7. ASSUME NEW i \in 1 .. Len(new)
      PROVE  /\ new[i].type = "eod" => i = Len(new)
             /\ i > 3 /\ new[i].type = "filemark" => new[i - 1].type = "data"
  <2>1. CASE i \in 1 .. n
    <3>1. new[i] = cut[i] /\ (i > 3 => new[i - 1] = cut[i - 1])
      BY <1>1, <1>5, <2>1
    <3>. QED  BY <1>2, <2>1, <3>1
  <2>2. CASE i = n + 1
    BY <1>1, <1>4, <1>6, <2>2
  <2>3. CASE i = n + 2
    <3>1. k >= 2 /\ i - 1 = n + 1
      BY <1>1, <1>4, <2>3
    <3>. QED  BY <1>6, <2>3, <3>1
  <2>4. CASE i = n + 3
    <3>1. k >= 3 /\ i = Len(new)
      BY <1>1, <1>4, <2>4
    <3>. QED  BY <1>6, <2>4, <3>1
  <2>. QED  BY <1>1, <1>4, <2>1, <2>2, <2>3, <2>4
<1>8. ASSUME LabelsFirst(log), 3 <= Len(log)
      PROVE  LabelsFirst(new) /\ 3 <= Len(new)
  <2>1. log[3] = BlankDataPart[3]
    BY <1>1, <1>8 DEF LabelsFirst
  <2>2. BlankDataPart[3].type = "filemark"
    BY DEF BlankDataPart, Filemark
  <2>3. n >= 3
    <3>1. SUFFICES ASSUME n < 3 PROVE FALSE
      BY <1>1
    <3>2. Len(log) = 3 /\ n = 2
      <4> DEFINE m == Len(log)
      <4>1. m \in Nat /\ n \in Nat /\ m - 1 <= n /\ 3 <= m /\ n < 3
        BY <1>1, <1>8, <3>1
      <4> HIDE DEF m
      <4>2. m = 3 /\ n = 2
        BY <4>1
      <4>. QED  BY <4>2 DEF m
    <3>3. ~LastIsEOD(log)
      BY <2>1, <2>2, <3>2 DEF LastIsEOD
    <3>. QED  BY <3>2, <3>3 DEF WithoutEOD, cut, n
  <2>4. \A i \in 1 .. 3 : new[i] = log[i]
    BY <1>1, <1>5, <2>3
  <2>5. \A i \in 1 .. 3 : log[i] = BlankDataPart[i]
    BY <1>1, <1>8 DEF LabelsFirst
  <2>. QED  BY <1>1, <1>4, <2>3, <2>4, <2>5 DEF LabelsFirst
<1>9. MarksInPlace(new)
  BY <1>7 DEF MarksInPlace
<1>. QED  BY <1>8, <1>9 DEF new

\* A tape freshly formatted, completely or up to its k-th record.
LEMMA BlankInPlace ==
  ASSUME NEW k \in 0 .. 4
  PROVE  /\ MarksInPlace(TruncateAt(BlankDataPart, k))
         /\ LabelsFirst(TruncateAt(BlankDataPart, k))
         /\ MarksInPlace(BlankDataPart) /\ LabelsFirst(BlankDataPart)
<1> DEFINE new == TruncateAt(BlankDataPart, k)
<1>1. k \in 0 .. Len(BlankDataPart) /\ Len(BlankDataPart) = 4
  BY BlankParts
<1>2. Len(new) = k /\ \A i \in 1 .. k : new[i] = BlankDataPart[i]
  BY <1>1, BlankParts, Truncated
<1>3. /\ BlankDataPart[1].type = "data" /\ BlankDataPart[2].type = "data"
      /\ BlankDataPart[3].type = "filemark" /\ BlankDataPart[4].type = "eod"
  BY DEF BlankDataPart, Label, DataRecord, Filemark, EODMark
<1> HIDE DEF new
<1>4. MarksInPlace(BlankDataPart) /\ LabelsFirst(BlankDataPart)
  BY <1>1, <1>3 DEF MarksInPlace, LabelsFirst
<1>5. MarksInPlace(new) /\ LabelsFirst(new)
  BY <1>2, <1>3 DEF MarksInPlace, LabelsFirst
<1>. QED  BY <1>4, <1>5 DEF new

\* What a handler does to the data partition: nothing, or an append as far as it
\* gets.
LEMMA HandlerAppends ==
  ASSUME TypeInv, Handler, dataPart' # dataPart
  PROVE  \E c \in Contents, k \in 0 .. 3 : dataPart' = AppendUpTo(dataPart, c, k)
<1>1. PICK h, open :
        /\ h \in Handles /\ mounted /\ handle[h] # None
        /\ FlushStores(h, open) \/ FlushAppendFails(h, open) \/ FlushSaveFails(h, open)
  <2>1. PICK h, open : h \in Handles /\ mounted /\ handle[h] # None /\ FlushBuffer(h, open)
    BY ZenonT(60) DEF Handler, Create, Open, OpenTruncate, Remove, Rename, HandleStep, Write,
         WriteBeyondLimit, Flush, Release, CmdFlushFiles, tape
  <2>2. ~FlushClean(h, open) /\ ~FlushNoEntry(h, open)
    BY DEF FlushClean, FlushNoEntry, tape
  <2>. QED  BY <2>1, <2>2, SMTT(30) DEF FlushBuffer
<1> DEFINE c == handle[h].wbuf
<1>2. c \in Contents
  <2>1. handle[h].dirty
    BY <1>1 DEF FlushStores, FlushAppendFails, FlushSaveFails, Flushable
  <2>. QED  BY <1>1, <2>1, HandleTyped DEF TypeInv
<1>3. \E k \in 0 .. 3 : dataPart' = AppendUpTo(dataPart, c, k)
  <2>1. CASE dataPart' = AppendFileData(dataPart, c)
    <3>1. 3 \in 0 .. 3
      OBVIOUS
    <3>. QED  BY <2>1, <3>1 DEF AppendFileData
  <2>2. CASE dataPart' \in FailedAppends(dataPart, c)
    <3>1. \A k \in 0 .. 2 : k \in 0 .. 3
      OBVIOUS
    <3>. QED  BY <2>2, <3>1 DEF FailedAppends
  <2>. QED  BY <1>1, <2>1, <2>2 DEF FlushStores, FlushAppendFails, FlushSaveFails
<1> HIDE DEF c
<1>. QED  BY <1>2, <1>3

\* No step of the letter, failed ones included, leaves a record out of place.
LEMMA MarksStep ==
  ASSUME TypeInv, MarksInPlace(dataPart), [Next]_vars
  PROVE  MarksInPlace(dataPart')
<1>1. CASE UNCHANGED dataPart
  BY <1>1
<1>2. CASE CmdInit \/ CmdInitSaveFails
  <2>1. dataPart' = BlankDataPart /\ 4 \in 0 .. 4
    BY <1>2 DEF CmdInit, CmdInitSaveFails
  <2>. QED  BY <2>1, BlankInPlace
<1>3. CASE CmdInitFormatFails
  <2>1. CASE dataPart' = <<>>
    BY <2>1 DEF MarksInPlace
  <2>2. ASSUME NEW k \in 1 .. 4, dataPart' = SubSeq(BlankDataPart, 1, k)
        PROVE  MarksInPlace(dataPart')
    <3>1. k \in 0 .. 4 /\ dataPart' = TruncateAt(BlankDataPart, k)
      BY <2>2 DEF TruncateAt
    <3>. QED  BY <3>1, BlankInPlace
  <2>. QED  BY <1>1, <1>3, <2>1, <2>2, FormatStopped
<1>4. CASE Handler /\ dataPart' # dataPart
  <2>1. PICK c \in Contents, k \in 0 .. 3 : dataPart' = AppendUpTo(dataPart, c, k)
    BY <1>4, HandlerAppends
  <2>2. dataPart \in LogOf(Contents)
    BY DEF TypeInv, Inv, TypeOK
  <2>. QED  BY <2>1, <2>2, AppendInPlace
<1>5. CASE CmdLoad \/ CmdCommit \/ FlushHandleWrite \/ CmdDiscard \/ CloseEntry \/ CmdMount
           \/ CmdUmount \/ Crash
  <2>1. UNCHANGED dataPart
    BY <1>5 DEF CmdLoad, CmdCommit, FlushHandleWrite, FlushIndex, FlushIndexFails,
         FlushIndexSaveFails, CmdDiscard, CloseEntry, CmdMount, CmdUmount, Crash, tape
  <2>. QED  BY <1>1, <2>1
<1>. QED  BY <1>1, <1>2, <1>3, <1>4, <1>5, StepKinds DEF vars

LEMMA InitMarks == Init => MarksInPlace(dataPart)
<1>1. Len(<<>>) = 0
  OBVIOUS
<1>. QED  BY <1>1 DEF Init, MarksInPlace

\* However often appends fail, and even where formats do, no end-of-data record is
\* left before another record, and no filemark without its data (tapefs.go,
\* AppendFileData and its LastRecordType check).
THEOREM MarksAlwaysInPlace == Spec => []MarksInPlace(dataPart)
<1>1. TypeInv /\ MarksInPlace(dataPart) /\ [Next]_vars => MarksInPlace(dataPart)'
  BY MarksStep
<1>. QED  BY <1>1, InitMarks, Typed, PTL DEF Spec

\* The labels, where formats do not fail.
LabelsInv ==
  /\ LabelsFirst(dataPart)
  /\ loaded \/ dataPart # <<>> => 3 <= Len(dataPart)

LEMMA LabelsStep ==
  ASSUME TypeInv, MarksInPlace(dataPart), "format" \notin Faults, LabelsInv, [Next]_vars
  PROVE  LabelsInv'
<1>1. CASE dataPart' = dataPart /\ (loaded' => loaded)
  BY <1>1 DEF LabelsInv
<1>2. CASE CmdInit \/ CmdInitSaveFails
  <2>1. dataPart' = BlankDataPart /\ 4 \in 0 .. 4
    BY <1>2 DEF CmdInit, CmdInitSaveFails
  <2>. QED  BY <2>1, BlankInPlace, BlankParts DEF LabelsInv
<1>3. ~CmdInitFormatFails
  BY DEF CmdInitFormatFails
<1>4. CASE CmdLoad
  <2>1. Len(<<>>) = 0
    OBVIOUS
  <2>2. dataPart' = dataPart /\ dataPart # <<>>
    BY <1>4, <2>1 DEF CmdLoad, Loadable, HasBlock, tape
  <2>. QED  BY <2>2 DEF LabelsInv
<1>5. CASE CmdDiscard \/ CloseEntry \/ CmdMount \/ CmdUmount \/ Crash
  <2>1. dataPart' = dataPart /\ (loaded' => loaded)
    BY <1>5 DEF CmdDiscard, CloseEntry, CmdMount, CmdUmount, Crash, tape
  <2>. QED  BY <1>1, <2>1
<1>6. CASE CmdCommit \/ FlushHandleWrite
  <2>1. UNCHANGED <<dataPart, loaded>>
    BY <1>6 DEF CmdCommit, FlushHandleWrite, FlushIndex, FlushIndexFails, FlushIndexSaveFails
  <2>. QED  BY <1>1, <2>1
<1>7. CASE Handler
  <2>1. loaded /\ loaded' = loaded /\ dataPart \in LogOf(Contents)
    BY <1>7, HandlerFrame DEF TypeInv, Inv, TypeOK
  <2>2. CASE dataPart' = dataPart
    BY <1>1, <2>1, <2>2
  <2>3. CASE dataPart' # dataPart
    <3>1. PICK c \in Contents, k \in 0 .. 3 : dataPart' = AppendUpTo(dataPart, c, k)
      BY <1>7, <2>3, HandlerAppends
    <3> DEFINE new == AppendUpTo(dataPart, c, k)
    <3>2. LabelsFirst(dataPart) /\ 3 <= Len(dataPart) => LabelsFirst(new) /\ 3 <= Len(new)
      BY <2>1, AppendInPlace
    <3> HIDE DEF new
    <3>. QED  BY <2>1, <3>1, <3>2 DEF LabelsInv, new
  <2>. QED  BY <2>2, <2>3
<1>. QED
  BY <1>1, <1>2, <1>3, <1>4, <1>5, <1>6, <1>7, StepKinds DEF vars

\* Where formats do not fail, the labels are in front of them.
THEOREM DataAlwaysLaidOut ==
  ASSUME "format" \notin Faults
  PROVE  Spec => []DataLayout
<1>1. TypeInv /\ MarksInPlace(dataPart) /\ LabelsInv => DataLayout
  <2>1. SUFFICES ASSUME LabelsInv, MarksInPlace(dataPart), NEW i \in 1 .. Len(dataPart)
                 PROVE  IF i <= 3 THEN dataPart[i] = BlankDataPart[i]
                        ELSE /\ dataPart[i].type = "eod" => i = Len(dataPart)
                             /\ dataPart[i].type = "filemark" => dataPart[i - 1].type = "data"
    BY DEF DataLayout
  <2>2. i \in Nat
    OBVIOUS
  <2>3. i <= 3 => dataPart[i] = BlankDataPart[i]
    BY <2>1 DEF LabelsInv, LabelsFirst
  <2>4. /\ dataPart[i].type = "eod" => i = Len(dataPart)
        /\ i > 3 /\ dataPart[i].type = "filemark" => dataPart[i - 1].type = "data"
    BY <2>1 DEF MarksInPlace
  <2>. QED  BY <2>2, <2>3, <2>4
<1>2. TypeInv /\ MarksInPlace(dataPart) /\ LabelsInv /\ [Next]_vars => LabelsInv'
  BY LabelsStep
<1>3. Init => LabelsInv
  <2>1. Len(<<>>) = 0
    OBVIOUS
  <2>. QED  BY <2>1 DEF Init, LabelsInv, LabelsFirst
<1>. QED  BY <1>1, <1>2, <1>3, MarksAlwaysInPlace, Typed, PTL DEF Spec

=============================================================================
