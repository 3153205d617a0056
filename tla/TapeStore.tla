----------------------------- MODULE TapeStore -----------------------------
(***************************************************************************)
(* One tape letter of the daemon on a file-backed tape: the two partitions *)
(* of the image, the index cached on disk, the FUSE mount and its open     *)
(* file handles.  Every command of package daemon and every FUSE handler   *)
(* of package fs is one action, taken as a whole; the interleavings inside *)
(* a handler are the subject of module FileHandle.                         *)
(*                                                                         *)
(* A handler that can fail after it has changed something has a failing    *)
(* action too, enabled when its fault is in Faults:                        *)
(*   "format"     FormatTape stops part-way                                *)
(*   "initsave"   init cannot save the cache after it formatted the tape   *)
(*   "commit"     FlushIndex stops part-way                                *)
(*   "commitsave" commit cannot save the cache after FlushIndex            *)
(*   "append"     AppendFileData stops part-way                            *)
(*   "flushsave"  a flush cannot save the cache after AppendFileData       *)
(*   "writesave"  a write cannot save the grown length                     *)
(*   "crash"      the daemon dies and is started again                     *)
(* A handler that fails before it changes anything is a stuttering step.   *)
(*                                                                         *)
(* Bounds: MaxLength is the longest file, MaxBlocks the number of blocks   *)
(* the data partition has room for (an append beyond it fails), MaxGen the *)
(* last generation number a commit writes.                                 *)
(***************************************************************************)
EXTENDS TapeLog

CONSTANTS
  Paths,        \* absolute paths of files
  Handles,      \* FUSE file handles
  Bytes,        \* byte values; 0 fills the holes a write leaves
  MaxLength, MaxBlocks, MaxGen,
  BufferLimit,  \* BufferConfig.MaxBytes, 0 for no limit
  Faults,
  None,         \* no file, no extent, no buffer, no handle, no index
  EIO           \* the result of a read that fails

Contents == UNION {[1 .. n -> Bytes] : n \in 0 .. MaxLength}

AllFaults == {"format", "initsave", "commit", "commitsave",
              "append", "flushsave", "writesave", "crash"}

ASSUME BytesAssumption == 0 \in Bytes
ASSUME BoundsAssumption ==
  /\ MaxLength \in Nat \ {0}
  /\ MaxBlocks \in Nat
  /\ MaxGen \in Nat
  /\ BufferLimit \in Nat
ASSUME FaultsAssumption == Faults \subseteq AllFaults

-----------------------------------------------------------------------------
(***************************************************************************)
(* The index.  A file flushed by the daemon has no extent or exactly one,  *)
(* which starts at byte 0 of its block.                                    *)
(***************************************************************************)
Extents == [block : Nat, count : 1 .. MaxLength]

Files == [length : 0 .. MaxLength, extent : Extents \cup {None}]

Indexes == [gen : Nat, files : [Paths -> Files \cup {None}], avail : Seq(Nat)]

NewFile == [length |-> 0, extent |-> None]

\* A missing cache file is no index, a missing buffer no content.
ASSUME NoneAssumption == None \notin Indexes /\ None \notin Contents

\* Nor is it an extent, a file, or a map from paths to what is read there.
ASSUME NoFileAssumption == None \notin Extents /\ None \notin Files
ASSUME NoMapAssumption == None \notin [Paths -> Contents \cup {None}]

EmptyIndex == [gen |-> 1, files |-> [p \in Paths |-> None], avail |-> <<>>]

\* The available spaces once the extent of file f is freed.
Freed(avail, f) ==
  IF f.extent = None THEN avail ELSE Append(avail, f.extent.block)

\* ReadFileData: all of file f, EIO if its extent cannot be read.  The bytes
\* beyond the extent, if the file is longer, are not there.
ReadFileData(log, f) ==
  IF f.length = 0 \/ f.extent = None THEN <<>>
  ELSE IF /\ IsDataBlock(log, f.extent.block)
          /\ f.extent.count <= Len(ReadAt(log, f.extent.block).data)
       THEN SubSeq(ReadAt(log, f.extent.block).data, 1,
                   IF f.length < f.extent.count THEN f.length ELSE f.extent.count)
       ELSE EIO

\* Slip: the offset is ignored.
SlipWriteAtEnd(buf, off, b) == Append(buf, b)

\* WriteAt of a buffer: byte b at offset off, zeros in the hole before it.
WriteAt(buf, off, b) ==
  [i \in 1 .. (IF off < Len(buf) THEN Len(buf) ELSE off + 1) |->
     IF i = off + 1 THEN b ELSE IF i <= Len(buf) THEN buf[i] ELSE 0]

WithinLimit(n) == BufferLimit = 0 \/ n <= BufferLimit

(***************************************************************************)
(* A handle: the path it was opened with, its buffer, whether the buffer   *)
(* holds data not yet on tape, and whether the kernel still has it open.   *)
(* A released handle stays while its buffer is dirty: it is still in       *)
(* FS.handles, where flushfiles finds it.                                  *)
(***************************************************************************)
OpenHandles ==
  [path : Paths, wbuf : Contents \cup {None}, dirty : BOOLEAN, open : BOOLEAN]

ASSUME NoHandleAssumption == None \notin OpenHandles

NewHandle(p) == [path |-> p, wbuf |-> None, dirty |-> FALSE, open |-> TRUE]

\* The labels of both partitions; nothing here tells their payloads apart.
Label == DataRecord(<<>>)

BlankIndexPart == <<Label, Label, Filemark, DataRecord(EmptyIndex), Filemark, Filemark>>
BlankDataPart == <<Label, Label, Filemark, EODMark>>

VARIABLES
  idxPart,   \* index partition
  dataPart,  \* data partition
  cache,     \* the index file under /tmp/ltape/index, None if there is none
  loaded,    \* entry.tapeFS # nil
  mounted,   \* entry.mountPoint # ""
  handle     \* the open handles, and the released ones still dirty

tape == <<idxPart, dataPart>>
vars == <<idxPart, dataPart, cache, loaded, mounted, handle>>

TypeOK ==
  /\ idxPart \in LogOf(Indexes \cup {<<>>})
  /\ dataPart \in LogOf(Contents)
  /\ cache \in Indexes \cup {None}
  /\ loaded \in BOOLEAN
  /\ mounted \in BOOLEAN
  /\ handle \in [Handles -> OpenHandles \cup {None}]

NoHandles == [h \in Handles |-> None]

\* A tape never formatted, no daemon state.
Init ==
  /\ idxPart = <<>>
  /\ dataPart = <<>>
  /\ cache = None
  /\ loaded = FALSE
  /\ mounted = FALSE
  /\ handle = NoHandles

\* Opening the partitions reads block 1 of both; the index is block 3.
Loadable ==
  /\ HasBlock(idxPart, 1) /\ HasBlock(dataPart, 1)
  /\ IsDataBlock(idxPart, IndexBlock)

TapeIndex == ReadAt(idxPart, IndexBlock).data

-----------------------------------------------------------------------------
(***************************************************************************)
(* Commands of the daemon.                                                 *)
(***************************************************************************)
CmdInit ==
  /\ ~mounted
  /\ idxPart' = BlankIndexPart
  /\ dataPart' = BlankDataPart
  /\ cache' = EmptyIndex
  /\ loaded' = TRUE
  /\ UNCHANGED <<mounted, handle>>

\* Both images are created empty, the index image first; then the index partition is
\* written, the data partition, and both are synced.  If the data image cannot be
\* created it is left as it was.  The entry was closed before.
CmdInitFormatFails ==
  /\ "format" \in Faults
  /\ ~mounted
  /\ \/ idxPart' = <<>> /\ UNCHANGED dataPart
     \/ /\ \E k \in 0 .. 6 : idxPart' = SubSeq(BlankIndexPart, 1, k)
        /\ dataPart' = <<>>
     \/ /\ idxPart' = BlankIndexPart
        /\ \E k \in 1 .. 4 : dataPart' = SubSeq(BlankDataPart, 1, k)
  /\ loaded' = FALSE
  /\ UNCHANGED <<cache, mounted, handle>>

\* The entry keeps the formatted tape open, the cache is the one left behind
\* by whatever was loaded before.
CmdInitSaveFails ==
  /\ "initsave" \in Faults
  /\ ~mounted
  /\ idxPart' = BlankIndexPart
  /\ dataPart' = BlankDataPart
  /\ loaded' = TRUE
  /\ UNCHANGED <<cache, mounted, handle>>

\* There is no check that the letter is not mounted.
CmdLoad ==
  /\ Loadable
  /\ cache' = TapeIndex
  /\ loaded' = TRUE
  /\ UNCHANGED <<tape, mounted, handle>>

\* Slip: a commit keeps the generation.
SlipSameGen == cache

NextGen == [cache EXCEPT !.gen = @ + 1]

\* FlushIndex and the save of the cache, as commit and a write to
\* /.tapefuse_flush both do them.
FlushIndex ==
  /\ cache # None
  /\ cache.gen < MaxGen
  /\ idxPart' = WriteIndex(idxPart, NextGen)
  /\ cache' = NextGen
  /\ UNCHANGED <<dataPart, loaded, mounted, handle>>

\* FlushIndex changes its own copy of the index; the cache keeps the old
\* generation.
FlushIndexFails ==
  /\ "commit" \in Faults
  /\ cache # None
  /\ cache.gen < MaxGen
  /\ idxPart' \in FailedIndexWrites(idxPart, NextGen)
  /\ UNCHANGED <<dataPart, cache, loaded, mounted, handle>>

FlushIndexSaveFails ==
  /\ "commitsave" \in Faults
  /\ cache # None
  /\ cache.gen < MaxGen
  /\ idxPart' = WriteIndex(idxPart, NextGen)
  /\ UNCHANGED <<dataPart, cache, loaded, mounted, handle>>

CmdCommit == loaded /\ (FlushIndex \/ FlushIndexFails \/ FlushIndexSaveFails)

FlushHandleWrite == mounted /\ (FlushIndex \/ FlushIndexFails \/ FlushIndexSaveFails)

\* Slip: no check that the letter is not mounted.
SlipDiscardMounted ==
  /\ cache' = None
  /\ loaded' = FALSE
  /\ UNCHANGED <<tape, mounted, handle>>

CmdDiscard ==
  /\ ~mounted
  /\ cache' = None
  /\ loaded' = FALSE
  /\ UNCHANGED <<tape, mounted, handle>>

\* unassign, and eject of a letter that is not mounted: the cache stays.
CloseEntry ==
  /\ ~mounted
  /\ loaded' = FALSE
  /\ UNCHANGED <<tape, cache, mounted, handle>>

CmdMount ==
  /\ ~mounted
  /\ loaded
  /\ cache # None
  /\ mounted' = TRUE
  /\ UNCHANGED <<tape, cache, loaded, handle>>

\* The kernel refuses to unmount while a file is open.  A released handle
\* whose flush failed goes with the mount, and its buffer with it.
CmdUmount ==
  /\ mounted
  /\ \A h \in Handles : handle[h] # None => ~handle[h].open
  /\ mounted' = FALSE
  /\ handle' = NoHandles
  /\ UNCHANGED <<tape, cache, loaded>>

\* The mount dies with the daemon; the cache file and the tape stay.
Crash ==
  /\ "crash" \in Faults
  /\ loaded' = FALSE
  /\ mounted' = FALSE
  /\ handle' = NoHandles
  /\ UNCHANGED <<tape, cache>>

-----------------------------------------------------------------------------
(***************************************************************************)
(* FUSE handlers on names.                                                 *)
(***************************************************************************)
Exists(p) == cache.files[p] # None

Create(p, h) ==
  /\ mounted /\ handle[h] = None
  /\ ~Exists(p)
  /\ cache' = [cache EXCEPT !.files[p] = NewFile]
  /\ handle' = [handle EXCEPT ![h] = NewHandle(p)]
  /\ UNCHANGED <<tape, loaded, mounted>>

Open(p, h) ==
  /\ mounted /\ handle[h] = None
  /\ Exists(p)
  /\ handle' = [handle EXCEPT ![h] = NewHandle(p)]
  /\ UNCHANGED <<tape, cache, loaded, mounted>>

\* Slip: the extent is freed and kept.
SlipKeepsExtent(p, h) ==
  /\ mounted /\ handle[h] = None
  /\ Exists(p)
  /\ cache' = [cache EXCEPT !.avail = Freed(@, cache.files[p])]
  /\ handle' = [handle EXCEPT ![h] = NewHandle(p)]
  /\ UNCHANGED <<tape, loaded, mounted>>

OpenTruncate(p, h) ==
  /\ mounted /\ handle[h] = None
  /\ Exists(p)
  /\ cache' = [cache EXCEPT !.files[p] = NewFile,
                            !.avail = Freed(@, cache.files[p])]
  /\ handle' = [handle EXCEPT ![h] = NewHandle(p)]
  /\ UNCHANGED <<tape, loaded, mounted>>

Remove(p) ==
  /\ mounted
  /\ Exists(p)
  /\ cache' = [cache EXCEPT !.files[p] = None,
                            !.avail = Freed(@, cache.files[p])]
  /\ UNCHANGED <<tape, loaded, mounted, handle>>

\* Slip: a file already at the new path is replaced.
SlipRenameOver(p, q) ==
  /\ mounted
  /\ Exists(p) /\ p # q
  /\ cache' = [cache EXCEPT !.files = [@ EXCEPT ![p] = None, ![q] = cache.files[p]]]
  /\ UNCHANGED <<tape, loaded, mounted, handle>>

Rename(p, q) ==
  /\ mounted
  /\ Exists(p) /\ ~Exists(q)
  /\ cache' = [cache EXCEPT !.files = [@ EXCEPT ![p] = None, ![q] = cache.files[p]]]
  /\ UNCHANGED <<tape, loaded, mounted, handle>>

-----------------------------------------------------------------------------
(***************************************************************************)
(* Write: the first one of a handle preloads the buffer from the tape.  A  *)
(* write carries one byte.                                                 *)
(***************************************************************************)
Preload(hd) == ReadFileData(dataPart, cache.files[hd.path])

\* The handle with its buffer, as the second half of Write finds it.
Buffered(hd) == IF hd.wbuf = None THEN [hd EXCEPT !.wbuf = Preload(hd)] ELSE hd

\* ENOENT, EIO and ENOSPC returns of the first half.
CanBuffer(hd) ==
  hd.wbuf = None =>
    Exists(hd.path) /\ Preload(hd) # EIO /\ WithinLimit(Len(Preload(hd)))

\* Slip: the length becomes the end of the write, lower or higher.
SlipSetsLength(h, off, b) ==
  /\ mounted
  /\ handle[h] # None /\ handle[h].open /\ CanBuffer(handle[h])
  /\ WithinLimit(off + 1)
  /\ LET hd == Buffered(handle[h])
     IN /\ handle' = [handle EXCEPT ![h] =
                        [hd EXCEPT !.wbuf = WriteAt(hd.wbuf, off, b), !.dirty = TRUE]]
        /\ IF Exists(hd.path)
           THEN cache' = [cache EXCEPT !.files[hd.path].length = off + 1]
           ELSE UNCHANGED cache
  /\ UNCHANGED <<tape, loaded, mounted>>

Write(h, off, b) ==
  /\ mounted
  /\ handle[h] # None /\ handle[h].open /\ CanBuffer(handle[h])
  /\ WithinLimit(off + 1)
  /\ LET hd == Buffered(handle[h])
     IN /\ handle' = [handle EXCEPT ![h] =
                        [hd EXCEPT !.wbuf = WriteAt(hd.wbuf, off, b), !.dirty = TRUE]]
        /\ IF Exists(hd.path) /\ off + 1 > cache.files[hd.path].length
           THEN \/ cache' = [cache EXCEPT !.files[hd.path].length = off + 1]
                \/ "writesave" \in Faults /\ UNCHANGED cache
           ELSE UNCHANGED cache
  /\ UNCHANGED <<tape, loaded, mounted>>

\* ENOSPC of the buffer itself: the buffer was created, nothing was written.
WriteBeyondLimit(h, off) ==
  /\ mounted
  /\ handle[h] # None /\ handle[h].open /\ CanBuffer(handle[h])
  /\ ~WithinLimit(off + 1)
  /\ handle' = [handle EXCEPT ![h] = Buffered(handle[h])]
  /\ UNCHANGED <<tape, cache, loaded, mounted>>

-----------------------------------------------------------------------------
(***************************************************************************)
(* flushBuffer, called by Flush (a descriptor is closed), by Release (the  *)
(* last one is) and by flushfiles.  open says whether the kernel keeps the *)
(* handle open.                                                            *)
(***************************************************************************)
\* The handle once flushBuffer has let go of its buffer.
Cleaned(hd, open) ==
  IF open THEN [hd EXCEPT !.wbuf = None, !.dirty = FALSE] ELSE None

\* Nothing pending: a clean buffer stays with the handle.
FlushClean(h, open) ==
  /\ ~handle[h].dirty
  /\ handle' = [handle EXCEPT ![h] = IF open THEN @ ELSE None]
  /\ UNCHANGED <<tape, cache, loaded, mounted>>

\* The path names no file any more: the buffer is closed.
FlushNoEntry(h, open) ==
  /\ handle[h].dirty
  /\ ~Exists(handle[h].path)
  /\ handle' = [handle EXCEPT ![h] = Cleaned(@, open)]
  /\ UNCHANGED <<tape, cache, loaded, mounted>>

Flushable(h) == handle[h].dirty /\ Exists(handle[h].path)

HasRoom(c) == Len(AppendFileData(dataPart, c)) <= MaxBlocks

\* The index with the extents of p freed and its one new extent in place.
StoredIndex(p, c) ==
  [cache EXCEPT
     !.files[p] = [length |-> Len(c),
                   extent |-> [block |-> NextBlock(dataPart), count |-> Len(c)]],
     !.avail = Freed(@, cache.files[p])]

FlushStores(h, open) ==
  /\ Flushable(h)
  /\ HasRoom(handle[h].wbuf)
  /\ dataPart' = AppendFileData(dataPart, handle[h].wbuf)
  /\ cache' = StoredIndex(handle[h].path, handle[h].wbuf)
  /\ handle' = [handle EXCEPT ![h] = Cleaned(@, open)]
  /\ UNCHANGED <<idxPart, loaded, mounted>>

\* Slip: the buffer is not put back.
SlipNotRestored(h, open) ==
  /\ Flushable(h)
  /\ "append" \in Faults \/ ~HasRoom(handle[h].wbuf)
  /\ dataPart' \in {log \in FailedAppends(dataPart, handle[h].wbuf) : Len(log) <= MaxBlocks}
  /\ handle' = [handle EXCEPT ![h] = Cleaned(@, open)]
  /\ UNCHANGED <<idxPart, cache, loaded, mounted>>

\* The buffer is put back for a later flush.
FlushAppendFails(h, open) ==
  /\ Flushable(h)
  /\ "append" \in Faults \/ ~HasRoom(handle[h].wbuf)
  /\ dataPart' \in {log \in FailedAppends(dataPart, handle[h].wbuf) : Len(log) <= MaxBlocks}
  /\ handle' = [handle EXCEPT ![h].open = open]
  /\ UNCHANGED <<idxPart, cache, loaded, mounted>>

\* The data is on tape but no index says so, and the buffer is not put back.
FlushSaveFails(h, open) ==
  /\ "flushsave" \in Faults
  /\ Flushable(h)
  /\ HasRoom(handle[h].wbuf)
  /\ dataPart' = AppendFileData(dataPart, handle[h].wbuf)
  /\ handle' = [handle EXCEPT ![h] = Cleaned(@, open)]
  /\ UNCHANGED <<idxPart, cache, loaded, mounted>>

FlushBuffer(h, open) ==
  \/ FlushClean(h, open) \/ FlushNoEntry(h, open) \/ FlushStores(h, open)
  \/ FlushAppendFails(h, open) \/ FlushSaveFails(h, open)

Flush(h) == mounted /\ handle[h] # None /\ handle[h].open /\ FlushBuffer(h, TRUE)

Release(h) == mounted /\ handle[h] # None /\ handle[h].open /\ FlushBuffer(h, FALSE)

\* flushfiles goes through FS.handles, where the released handles are too.
CmdFlushFiles(h) == mounted /\ handle[h] # None /\ FlushBuffer(h, handle[h].open)

-----------------------------------------------------------------------------
DaemonStep ==
  \/ CmdInit \/ CmdInitFormatFails \/ CmdInitSaveFails
  \/ CmdLoad \/ CmdCommit \/ CmdDiscard \/ CloseEntry
  \/ CmdMount \/ CmdUmount
  \/ Crash

NameStep ==
  \/ \E p \in Paths, h \in Handles : Create(p, h) \/ Open(p, h) \/ OpenTruncate(p, h)
  \/ \E p \in Paths : Remove(p)
  \/ \E p, q \in Paths : Rename(p, q)
  \/ FlushHandleWrite

HandleStep ==
  \E h \in Handles :
    \/ \E off \in 0 .. (MaxLength - 1), b \in Bytes : Write(h, off, b)
    \/ \E off \in 0 .. (MaxLength - 1) : WriteBeyondLimit(h, off)
    \/ Flush(h) \/ Release(h) \/ CmdFlushFiles(h)

Next == DaemonStep \/ NameStep \/ HandleStep

Spec == Init /\ [][Next]_vars

-----------------------------------------------------------------------------
(***************************************************************************)
(* Properties.                                                             *)
(***************************************************************************)
\* The indexes somebody can still read files through: the cache while the
\* letter is loaded, and the one on the tape.
ReachableIndexes ==
  {idx \in {cache} : loaded /\ idx # None} \cup (IF Loadable THEN {TapeIndex} ELSE {})

HasExtent(f) == f # None /\ f.extent # None

\* Every extent of a reachable index (the committed one included, however many
\* flushes, failed appends, crashes and reloads came after the commit) points
\* at a data record that holds all the bytes it claims.
ExtentsLive ==
  \A idx \in ReachableIndexes, p \in Paths :
    HasExtent(idx.files[p]) =>
      LET e == idx.files[p].extent
      IN IsDataBlock(dataPart, e.block) /\ Len(ReadAt(dataPart, e.block).data) = e.count

\* A file is never shorter than what its extent stores: the length a write
\* raises ahead of the data, and every path that replaces the extent, agree.
LengthCovers ==
  \A idx \in ReachableIndexes, p \in Paths :
    HasExtent(idx.files[p]) => idx.files[p].extent.count <= idx.files[p].length

\* No block belongs to two files, none is both in use and available, none is
\* available twice: the lists Remove, Open and flushBuffer append to and the
\* extents they drop stay complementary.
BlocksPartitioned ==
  \A idx \in ReachableIndexes :
    /\ \A p, q \in Paths :
         p # q /\ HasExtent(idx.files[p]) /\ HasExtent(idx.files[q]) =>
           idx.files[p].extent.block # idx.files[q].extent.block
    /\ \A i \in 1 .. Len(idx.avail) :
         /\ IsDataBlock(dataPart, idx.avail[i])
         /\ \A j \in 1 .. Len(idx.avail) : i # j => idx.avail[i] # idx.avail[j]
         /\ \A p \in Paths :
              HasExtent(idx.files[p]) => idx.files[p].extent.block # idx.avail[i]

\* While the file system is mounted the letter stays loaded and its cache file
\* exists, whatever commands run meanwhile: loadIndex never fails in a handler.
MountedHasCache == mounted => loaded /\ cache # None

FilesOf(idx) ==
  [p \in Paths |-> IF idx.files[p] = None THEN None ELSE ReadFileData(dataPart, idx.files[p])]

\* What reads return while the letter is loaded, and what a load would return.
Current == IF loaded /\ cache # None THEN FilesOf(cache) ELSE None
Saved == IF Loadable THEN FilesOf(TapeIndex) ELSE None

FM == INSTANCE FileMap WITH
        current <- Current, saved <- Saved,
        EmptyFile <- <<>>, Absent <- None, NoMap <- None

\* The letter implements the abstract map: each step changes one file, or is a
\* commit, a format or a return to what the tape holds; no file is lost or
\* altered on the way, and a crash costs at most what was not committed.
FileMapSpec == FM!Spec

Dirty(hd) == hd # None /\ hd.dirty

\* While mounted, a handle stops being dirty only if its buffer is what the
\* file at its path now reads as, or that path names no file.
BufferKept ==
  [][\A h \in Handles :
       Dirty(handle[h]) /\ mounted' /\ ~Dirty(handle'[h]) /\ Exists(handle[h].path) =>
         Current'[handle[h].path] = handle[h].wbuf]_vars

\* A commit "increments the generation number": over any run of commits, failures,
\* crashes and loads an index put on the tape has a higher generation than the one
\* it replaces.  Only a format starts again; and a commit takes the number
\* that is on the tape if the cache is behind it, as one leaves it that reached the
\* tape and could not save the cache.
GenerationGrows ==
  [][Loadable /\ Loadable' /\ TapeIndex' # TapeIndex /\ idxPart' # BlankIndexPart =>
       \/ TapeIndex'.gen > TapeIndex.gen
       \/ cache.gen < TapeIndex.gen /\ TapeIndex'.gen = TapeIndex.gen]_vars

\* After its labels the data partition is made of data records, each followed
\* by at most one filemark, and at most one end-of-data record, the last one:
\* an append after a failed one never leaves an end-of-data record behind,
\* where LastRecordType would no longer find it.
DataLayout ==
  \A i \in 1 .. Len(dataPart) :
    IF i <= 3 THEN dataPart[i] = BlankDataPart[i]
    ELSE /\ dataPart[i].type = "eod" => i = Len(dataPart)
         /\ dataPart[i].type = "filemark" => dataPart[i - 1].type = "data"

=============================================================================
