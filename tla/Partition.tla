----------------------------- MODULE Partition -----------------------------
(***************************************************************************)
(* A partition image (partition.go): how records are framed in a file, the *)
(* index of block offsets kept in memory, and its reconstruction when the  *)
(* image is opened.  The file is a sequence of cells: a record is a cell   *)
(* for its type, a cell for its length and a cell for each byte.  A length *)
(* is kept modulo Width, the 2^32 of the code.                             *)
(*                                                                         *)
(* A write that fails leaves any number of its cells in the file, and the *)
(* next write goes behind them, also after a TruncateAt(nextBlock): so a   *)
(* commit does that is tried again, and any append to the data partition.  *)
(***************************************************************************)
EXTENDS Naturals, Sequences

CONSTANTS
  Bytes,      \* byte values; a cell of the file holds one, or a type, or a length
  Width,
  MaxData,    \* bound: the longest data of a record
  MaxCells,   \* bound: the longest file
  Broken      \* the result of a scan that fails

ASSUME WidthAssumption == Width \in Nat \ {0}
ASSUME BytesAssumption == 0 \in Bytes /\ Bytes \subseteq Nat
ASSUME BoundAssumption == MaxData \in Nat /\ MaxCells \in Nat
ASSUME BrokenAssumption == Broken \notin Seq(Nat)

VARIABLES
  file,       \* the image file
  open,       \* whether a Partition has it open
  blockIndex  \* Partition.blockIndex; the last one, while the file is closed

vars == <<file, open, blockIndex>>

Contents == UNION {[1 .. n -> Bytes] : n \in 0 .. MaxData}

RecordData == 0
RecordFilemark == 1
RecordEOD == 2

RawRecords ==
  [type : {RecordData}, data : Contents]
    \cup [type : {RecordFilemark, RecordEOD}, data : {<<>>}]

\* Slip: the length counts the header.
SlipLengthWithHeader(rec) == <<rec.type, 2 + Len(rec.data)>> \o rec.data

Framed(rec) == <<rec.type, Len(rec.data) % Width>> \o rec.data

HeaderLen == 2

\* The fields of the record at an offset.
TypeAt(off) == file[off + 1]
LenAt(off) == file[off + 2]
DataAt(off) == SubSeq(file, off + 3, off + 2 + LenAt(off))

nextBlock == Len(blockIndex)

Init == file = <<>> /\ open = FALSE /\ blockIndex = <<>>

-----------------------------------------------------------------------------
(***************************************************************************)
(* Opening.                                                                *)
(***************************************************************************)
\* Slip: a header at the very end of the file is not looked at.
SlipMissLast ==
  LET scan[off \in Nat] ==
        IF off + HeaderLen >= Len(file) THEN <<>>
        ELSE IF off + HeaderLen + LenAt(off) > Len(file) THEN Broken
        ELSE LET rest == scan[off + HeaderLen + LenAt(off)]
             IN  IF rest = Broken THEN Broken ELSE <<off>> \o rest
  IN  scan[0]

\* The offsets of the records of the file, one after the other; Broken if a header
\* is short or a record ends beyond the file.
Rebuilt ==
  LET scan[off \in Nat] ==
        IF off >= Len(file) THEN <<>>
        ELSE IF \/ off + HeaderLen > Len(file)
                \/ off + HeaderLen + LenAt(off) > Len(file)
             THEN Broken
             ELSE LET rest == scan[off + HeaderLen + LenAt(off)]
                  IN  IF rest = Broken THEN Broken ELSE <<off>> \o rest
  IN  scan[0]

Create ==
  /\ ~open
  /\ file' = <<>>
  /\ open' = TRUE
  /\ blockIndex' = <<>>

\* A scan that fails closes the file again and changes nothing.
Open ==
  /\ ~open
  /\ Rebuilt # Broken
  /\ open' = TRUE
  /\ blockIndex' = Rebuilt
  /\ UNCHANGED file

\* Also what is left when the process is killed: the file, as it is.
Close ==
  /\ open
  /\ open' = FALSE
  /\ UNCHANGED <<file, blockIndex>>

-----------------------------------------------------------------------------
(***************************************************************************)
(* Writing.                                                                *)
(***************************************************************************)
\* A write to an open image. MaxCells is the bound of the model: the code writes
\* as long as the disk takes it.
CanWrite(rec) == open /\ Len(file) + Len(Framed(rec)) <= MaxCells

WriteRecord(rec) ==
  /\ CanWrite(rec)
  /\ file' = file \o Framed(rec)
  /\ blockIndex' = Append(blockIndex, Len(file))
  /\ UNCHANGED open

WriteRecordFails(rec) ==
  /\ CanWrite(rec)
  /\ \E k \in 0 .. (Len(Framed(rec)) - 1) : file' = file \o SubSeq(Framed(rec), 1, k)
  /\ UNCHANGED <<open, blockIndex>>

BlocksBelow(b) == SubSeq(blockIndex, 1, b)

\* With b the number of blocks the file keeps its size, a torn record included.
TruncateAt(b) ==
  /\ open
  /\ file' = IF b = nextBlock THEN file ELSE SubSeq(file, 1, blockIndex[b + 1])
  /\ blockIndex' = BlocksBelow(b)
  /\ UNCHANGED open

\* What OverwriteBlock writes over len bytes.
ZeroPadded(len, data) == [i \in 1 .. len |-> IF i <= Len(data) THEN data[i] ELSE 0]

\* The file with the cells s from offset off on.
Patched(off, s) ==
  [i \in DOMAIN file |-> IF i > off /\ i <= off + Len(s) THEN s[i - off] ELSE file[i]]

\* A failing one stops after its first k bytes.
OverwriteBlock(b, data) ==
  LET off == blockIndex[b + 1]
      new == ZeroPadded(LenAt(off), data)
  IN  /\ open
      /\ Len(data) <= LenAt(off)
      /\ \E k \in 0 .. Len(new) : file' = Patched(off + HeaderLen, SubSeq(new, 1, k))
      /\ UNCHANGED <<open, blockIndex>>

Next ==
  \/ Create \/ Open \/ Close
  \/ \E rec \in RawRecords : WriteRecord(rec) \/ WriteRecordFails(rec)
  \/ \E b \in 0 .. nextBlock : TruncateAt(b)
  \/ \E b \in 0 .. (nextBlock - 1), data \in Contents : OverwriteBlock(b, data)

Spec == Init /\ [][Next]_vars

-----------------------------------------------------------------------------
(***************************************************************************)
(* Properties.                                                             *)
(***************************************************************************)
TypeOK ==
  /\ file \in Seq(Bytes \cup (0 .. Width - 1) \cup {RecordData, RecordFilemark, RecordEOD})
  /\ open \in BOOLEAN
  /\ blockIndex \in Seq(Nat)

\* The records the block index leads to.
TL == INSTANCE TapeLog

ReadAt(b) ==
  LET off == blockIndex[b + 1]
  IN  CASE TypeAt(off) = RecordData     -> TL!DataRecord(DataAt(off))
        [] TypeAt(off) = RecordFilemark -> TL!Filemark
        [] TypeAt(off) = RecordEOD      -> TL!EODMark
        [] OTHER                        -> [type |-> "unknown"]

Log == [i \in 1 .. nextBlock |-> ReadAt(i - 1)]

\* The records of the block index follow one another from the start of the file.
BlocksAdjoin ==
  \A i \in 1 .. nextBlock :
    blockIndex[i] = IF i = 1 THEN 0
                    ELSE blockIndex[i - 1] + HeaderLen + LenAt(blockIndex[i - 1])

\* What opening the image would make of it: what it is, nothing, or who knows.
Image ==
  CASE Rebuilt = blockIndex             -> "whole"
    [] Rebuilt = Broken /\ BlocksAdjoin -> "torn"
    [] OTHER                            -> "spoiled"

RL == INSTANCE RecordLog WITH Data <- Contents, log <- Log, image <- Image

\* The image is the log the code above it takes it for: while it is open a write is
\* one record or nothing; "keeping all subsequent block offsets valid" (OverwriteBlock)
\* holds of every other method too; an image is opened as what was written, and one
\* torn by a failed write is not opened at all, unless it was written to since.
RecordLogSpec == RL!Spec

=============================================================================
