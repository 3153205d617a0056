------------------------------ MODULE TapeLog ------------------------------
(***************************************************************************)
(* A tape partition as the rest of the program sees it through the         *)
(* interface tape.Tape: an append-only log of records that can only be cut *)
(* at its tail.  A partition is a sequence; the code's block number b is   *)
(* the sequence's element b + 1.                                           *)
(*                                                                         *)
(* WriteRecord, WriteFilemark and WriteEOD each append one record, so an   *)
(* operation that writes several records and fails part-way is the same    *)
(* operation cut after its first k records: the "UpTo" operators take that *)
(* k.  How a record is framed in bytes in the image file is below the      *)
(* level of this module.                                                   *)
(***************************************************************************)
EXTENDS Integers, Sequences

DataRecord(c) == [type |-> "data", data |-> c]
Filemark == [type |-> "filemark"]
EODMark == [type |-> "eod"]

\* The partitions whose data records carry members of S.
Records(S) == [type : {"data"}, data : S] \cup {Filemark, EODMark}
LogOf(S) == Seq(Records(S))

\* ReadAt reads block b only if b is below the number of blocks written.
HasBlock(log, b) == b \in 0 .. (Len(log) - 1)
ReadAt(log, b) == log[b + 1]
IsDataBlock(log, b) == HasBlock(log, b) /\ ReadAt(log, b).type = "data"

\* TruncateAt keeps the blocks below b.
TruncateAt(log, b) == SubSeq(log, 1, b)

LastIsEOD(log) == Len(log) > 0 /\ log[Len(log)].type = "eod"

-----------------------------------------------------------------------------
(***************************************************************************)
(* Appending a file to the data partition: drop the end-of-data record if  *)
(* it is the last one, then write the data, a filemark and a new           *)
(* end-of-data record.                                                     *)
(***************************************************************************)
\* Slip: the old end-of-data record stays.
SlipEODStays(log) == log

WithoutEOD(log) == IF LastIsEOD(log) THEN TruncateAt(log, Len(log) - 1) ELSE log

\* The first k of the records recs, written at the end.
WriteUpTo(log, recs, k) == log \o SubSeq(recs, 1, k)

FileRecords(c) == <<DataRecord(c), Filemark, EODMark>>

AppendUpTo(log, c, k) == WriteUpTo(WithoutEOD(log), FileRecords(c), k)

AppendFileData(log, c) == AppendUpTo(log, c, 3)

\* Slip: counted before the end-of-data record is dropped.
SlipCountsEOD(log) == Len(log)

\* The block number AppendFileData reports for the data it wrote.
NextBlock(log) == Len(WithoutEOD(log))

\* What an append that returns an error can have done to the partition: failed
\* before the truncation, after it, or after one or two of the three records.
FailedAppends(log, c) == {log} \cup {AppendUpTo(log, c, k) : k \in 0 .. 2}

-----------------------------------------------------------------------------
(***************************************************************************)
(* Rewriting the index: always at block 3 of the index partition, closed   *)
(* by two filemarks.                                                       *)
(***************************************************************************)
IndexBlock == 3

IndexRecords(idx) == <<DataRecord(idx), Filemark, Filemark>>

WriteIndexUpTo(log, idx, k) ==
  WriteUpTo(TruncateAt(log, IndexBlock), IndexRecords(idx), k)

WriteIndex(log, idx) == WriteIndexUpTo(log, idx, 3)

\* k = 3 is a failing Sync after all three records.
FailedIndexWrites(log, idx) ==
  {log} \cup {WriteIndexUpTo(log, idx, k) : k \in 0 .. 3}

=============================================================================
