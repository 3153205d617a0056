------------------------------- MODULE Defrag -------------------------------
(***************************************************************************)
(* The defrag command of a letter: TapeStore with one more operation, the  *)
(* only one that removes blocks of live files from the data partition and  *)
(* writes them again elsewhere.                                            *)
(*                                                                         *)
(* Two more faults: "defrag" stops it between two tape operations after    *)
(* the truncation, "defragsave" fails to save the index it has changed.    *)
(***************************************************************************)
EXTENDS TapeStore, FiniteSets

LOCAL Fn == INSTANCE Functions

CONSTANTS
  Limits,       \* staging limits a user may give; 0 or less is no limit
  DefragFaults

\* An index has finitely many files.
ASSUME PathsAssumption == IsFiniteSet(Paths)
ASSUME DefragAssumption ==
  /\ Limits \subseteq Int
  /\ DefragFaults \subseteq {"defrag", "defragsave"}

\* Slip: the available space listed first.
SlipFirstListed == cache.avail[1]

\* The first hole: the lowest available block.
HoleStart ==
  CHOOSE b \in {cache.avail[i] : i \in 1 .. Len(cache.avail)} :
    \A i \in 1 .. Len(cache.avail) : b <= cache.avail[i]

\* The files the truncation at the hole would destroy, in tape order.
ToMove == {p \in Paths : /\ HasExtent(cache.files[p])
                         /\ cache.files[p].extent.block >= HoleStart}

InTapeOrder(s) ==
  \A i, j \in DOMAIN s :
    i < j => /\ s[i] # s[j]
             /\ cache.files[s[i]].extent.block <= cache.files[s[j]].extent.block

TapeOrder == CHOOSE s \in [1 .. Cardinality(ToMove) -> ToMove] : InTapeOrder(s)

\* The sum of their lengths as the index gives them.
StagedBytes == Fn!FoldFunction(+, 0, [p \in ToMove |-> cache.files[p].length])

WithinStaging(limit) == limit <= 0 \/ StagedBytes <= limit

\* Every file to move has been read into the staging directory.
Staged(p) == ReadFileData(dataPart, cache.files[p])

Readable == \A p \in ToMove : Staged(p) # EIO

\* Slip: the new block is counted before the end-of-data record is dropped.
SlipBlockBeforeEOD ==
  LET step[n \in 0 .. Len(TapeOrder)] ==
        IF n = 0 THEN [log |-> TruncateAt(dataPart, HoleStart), files |-> cache.files]
        ELSE LET s == step[n - 1]
                 p == TapeOrder[n]
             IN [log |-> AppendFileData(s.log, Staged(p)),
                 files |-> [s.files EXCEPT ![p].extent =
                              [block |-> Len(s.log), count |-> Len(Staged(p))]]]
  IN step

\* Slip: the data of every file is cut off, and that of the moved ones rewritten.
SlipCutsAll ==
  LET step[n \in 0 .. Len(TapeOrder)] ==
        IF n = 0 THEN [log |-> TruncateAt(dataPart, IndexBlock), files |-> cache.files]
        ELSE LET s == step[n - 1]
                 p == TapeOrder[n]
             IN [log |-> AppendFileData(s.log, Staged(p)),
                 files |-> [s.files EXCEPT ![p].extent =
                              [block |-> NextBlock(s.log), count |-> Len(Staged(p))]]]
  IN step

\* Partition and files once the first n staged files are written again.
Rewritten ==
  LET step[n \in 0 .. Len(TapeOrder)] ==
        IF n = 0 THEN [log |-> TruncateAt(dataPart, HoleStart), files |-> cache.files]
        ELSE LET s == step[n - 1]
                 p == TapeOrder[n]
             IN [log |-> AppendFileData(s.log, Staged(p)),
                 files |-> [s.files EXCEPT ![p].extent =
                              [block |-> NextBlock(s.log), count |-> Len(Staged(p))]]]
  IN step

Compacted == Rewritten[Len(TapeOrder)]

CanDefrag ==
  /\ ~mounted /\ loaded /\ cache # None
  /\ cache.avail # <<>>
  /\ HoleStart <= Len(dataPart)
  /\ \E limit \in Limits : WithinStaging(limit)
  /\ Readable

CmdDefrag ==
  /\ CanDefrag
  /\ dataPart' = Compacted.log
  /\ cache' = [cache EXCEPT !.files = Compacted.files, !.avail = <<>>]
  /\ UNCHANGED <<idxPart, loaded, mounted, handle>>

\* An error after the truncation: the first n files are back on the tape,
\* perhaps part of the next one, and the saved index knows nothing of it.
CmdDefragStops ==
  /\ "defrag" \in DefragFaults
  /\ CanDefrag
  /\ \E n \in 0 .. Len(TapeOrder) :
       IF n < Len(TapeOrder)
       THEN dataPart' \in FailedAppends(Rewritten[n].log, Staged(TapeOrder[n + 1]))
       ELSE dataPart' = Compacted.log   \* the final Sync fails
  /\ UNCHANGED <<idxPart, cache, loaded, mounted, handle>>

CmdDefragSaveFails ==
  /\ "defragsave" \in DefragFaults
  /\ CanDefrag
  /\ dataPart' = Compacted.log
  /\ UNCHANGED <<idxPart, cache, loaded, mounted, handle>>

DefragNext == Next \/ CmdDefrag \/ CmdDefragStops \/ CmdDefragSaveFails

DefragSpec == Init /\ [][DefragNext]_vars

-----------------------------------------------------------------------------
\* A step of the command, whatever becomes of it.
Defragments == CmdDefrag \/ CmdDefragStops \/ CmdDefragSaveFails

\* Compaction moves data under the files and leaves every file as it reads.
DefragKeepsFiles == [][CmdDefrag => Current' = Current]_vars

\* Even one that stops half-way spares the files below the first hole.
DefragSparesPrefix ==
  [][Defragments => \A p \in Paths \ ToMove : Current'[p] = Current[p]]_vars

\* It leaves no hole: from the first hole on, every data block is a file's.
DefragCompacts ==
  [][CmdDefrag =>
       \A b \in 0 .. Len(dataPart') - 1 :
         /\ IsDataBlock(dataPart', b)
         /\ \E i \in 1 .. Len(cache.avail) : cache.avail[i] <= b
         => \E p \in Paths : HasExtent(cache'.files[p]) /\ cache'.files[p].extent.block = b]_vars

=============================================================================
