------------------------------ MODULE SCSITape ------------------------------
(***************************************************************************)
(* The SCSI tape drive (scsi_linux.go, scsi_io_linux.go) under the         *)
(* operations of TapeFS that use it.  Both partitions are regions of one   *)
(* tape: the index region starts at block 0, the data region at block      *)
(* DataOffset.  SCSITape keeps a table of the types of the blocks, the     *)
(* number of the block to write next and, to save seeks, the block it      *)
(* believes the head to be at.                                             *)
(*                                                                         *)
(* A call of the drive can fail, so a method is an operator that takes the *)
(* state of the device to the set of its outcomes; Then chains them and    *)
(* stops at the first error, as the code does.  Each operation of TapeFS   *)
(* holds its lock throughout and is one action.                            *)
(*                                                                         *)
(* The tape and the position of the head are the drive's: a write puts its *)
(* block at the head and ends the tape behind it.  The faults of a drive:  *)
(*   "position"  a seek, a space or a rewind fails                         *)
(*   "mark"      writing a filemark, or flushing the buffer, fails         *)
(*   "write"     writing data fails                                        *)
(*   "read"      a read fails with EIO, the head before or after the block *)
(* A tape of MaxBlocks blocks is full, and any write fails.                *)
(***************************************************************************)
EXTENDS TapeLog

CONSTANTS
  Contents,       \* what a file, or a label, can be
  Indexes, Blank, \* the indexes; the one a format writes
  MaxBlocks,
  Faults,
  DoubleMarkEnds, \* whether the drive reports the second of two marks as EIO
  Uses,           \* whether there is a "trim", a defrag that moves nothing
  Unknown,        \* unknownTapePos
  None            \* no index

ASSUME FaultsAssumption == Faults \subseteq {"position", "mark", "write", "read"}
ASSUME UsesAssumption == Uses \subseteq {"trim"}
ASSUME BoundAssumption == MaxBlocks \in Nat
ASSUME UnknownAssumption == Unknown \notin Nat
ASSUME BlankAssumption == Blank \in Indexes /\ None \notin Indexes
ASSUME DoubleMarkEndsAssumption == DoubleMarkEnds \in BOOLEAN

VARIABLES
  dev,  \* med: the tape; head: the block the head is at; types: blockTypes;
        \* writePos; tapPos
  open  \* whether the letter holds the device open

vars == <<dev, open>>

Label == DataRecord("label")
Blocks == {Label, Filemark} \cup [type : {"data"}, data : Contents \cup Indexes]
Types == {"data", "filemark", "eod"}

DataOffset == 6

\* What openSCSITape starts from, and what is left of the device once closed; either
\* way of opening it rewinds first.
Closed(d) == [d EXCEPT !.head = 0, !.types = <<>>, !.writePos = 0, !.tapPos = Unknown]

Init ==
  /\ dev = [med |-> <<>>, head |-> 0, types |-> <<>>, writePos |-> 0, tapPos |-> Unknown]
  /\ open = FALSE

-----------------------------------------------------------------------------
(***************************************************************************)
(* Outcomes.                                                               *)
(***************************************************************************)
Ok(d) == {[dev |-> d, ok |-> TRUE]}
Fail(d) == {[dev |-> d, ok |-> FALSE]}

Then(S, Op(_)) == UNION {IF o.ok THEN Op(o.dev) ELSE {o} : o \in S}

\* Slip: the position is kept after an error.
SlipKeepPos(d) == d

Lost(d) == [d EXCEPT !.tapPos = Unknown]

\* A call of the drive that fails may have moved the head.
Failed(d) == Fail(Lost([d EXCEPT !.head = 0]))

MayFail(fault, d) == IF fault \in Faults THEN Failed(d) ELSE {}

-----------------------------------------------------------------------------
(***************************************************************************)
(* Positioning.                                                            *)
(***************************************************************************)
\* Where one space over block i of the table takes the head from h, Unknown if it
\* fails: over a filemark, to behind the next one on tape; over a record, to behind
\* the record, unless a filemark is there.
SpacedOver(d, i, h) ==
  LET marks == {j \in h + 1 .. Len(d.med) : d.med[j] = Filemark}
  IN  IF h = Unknown THEN Unknown
      ELSE IF d.types[i] = "data"
      THEN IF h < Len(d.med) /\ d.med[h + 1] # Filemark THEN h + 1 ELSE Unknown
      ELSE IF marks = {} THEN Unknown
      ELSE CHOOSE j \in marks : \A k \in marks : j <= k

\* Where the head is after a rewind and one space over each of the first blocks of the
\* table.
Spaces(d) ==
  LET at[i \in Nat] == IF i = 0 THEN 0 ELSE SpacedOver(d, i, at[i - 1]) IN at

Spaced(d, b) == Spaces(d)[b]

\* Slip: the position is that of the block behind.
SlipBlockBehind(d, b) ==
  MayFail("position", d) \cup
  (IF b = d.writePos THEN Ok([d EXCEPT !.head = Len(d.med), !.tapPos = b])
   ELSE IF Spaced(d, b) = Unknown THEN Failed(d)
   ELSE Ok([d EXCEPT !.head = Spaced(d, b), !.tapPos = b + 1]))

positionTo(d, b) ==
  MayFail("position", d) \cup
  (IF b = d.writePos THEN Ok([d EXCEPT !.head = Len(d.med), !.tapPos = b])
   ELSE IF Spaced(d, b) = Unknown THEN Failed(d)
   ELSE Ok([d EXCEPT !.head = Spaced(d, b), !.tapPos = b]))

\* Both ways of writing, and reading, seek only if the head is not known to be there.
At(d, b) == IF d.tapPos = b THEN Ok(d) ELSE positionTo(d, b)

-----------------------------------------------------------------------------
(***************************************************************************)
(* Writing and reading a block.                                            *)
(***************************************************************************)
Put(d, rec) ==
  IF d.head >= MaxBlocks THEN Failed(d)
  ELSE Ok([d EXCEPT !.med = Append(SubSeq(@, 1, d.head), rec),
                    !.head = @ + 1,
                    !.types = Append(SubSeq(@, 1, d.writePos), rec.type),
                    !.tapPos = d.writePos + 1,
                    !.writePos = @ + 1])

writeRecord(d, c) ==
  Then(At(d, d.writePos), LAMBDA e : MayFail("write", e) \cup Put(e, DataRecord(c)))

writeFilemark(d) ==
  Then(At(d, d.writePos), LAMBDA e : MayFail("mark", e) \cup Put(e, Filemark))

\* The same mark, told apart in the table only.
WriteEOD(d) ==
  Then(writeFilemark(d), LAMBDA e : Ok([e EXCEPT !.types[Len(e.types)] = "eod"]))

\* An error of the flush leaves the position as it was.
Sync(d) == Ok(d) \cup (IF "mark" \in Faults THEN Fail(d) ELSE {})

\* Nothing is written: the blocks from b on are on the tape until the next write.
truncateAt(d, b) ==
  IF b > Len(d.types) THEN Fail(d)
  ELSE Then(positionTo(d, b),
            LAMBDA e : Ok([e EXCEPT !.types = SubSeq(@, 1, b), !.writePos = b]))

\* Where a read at block h of the tape ends with EIO although nothing is wrong.
EndsAt(d, h) ==
  \/ h = Len(d.med)
  \/ DoubleMarkEnds /\ h > 0 /\ d.med[h] = Filemark /\ d.med[h + 1] = Filemark

\* EIO is taken for the end of the data and leaves tapPos alone.
readOne(d) ==
  IF EndsAt(d, d.head) THEN Fail(d)
  ELSE Ok([d EXCEPT !.head = @ + 1, !.tapPos = @ + 1])
         \cup (IF "read" \in Faults THEN Fail(d) \cup Fail([d EXCEPT !.head = @ + 1]) ELSE {})

ReadBlock(d, b) == IF b >= Len(d.types) THEN Fail(d) ELSE Then(At(d, b), readOne)

-----------------------------------------------------------------------------
(***************************************************************************)
(* Opening.                                                                *)
(***************************************************************************)
\* The table of a scan that ends at block n; the last mark stands for the end.
Scanned(med, n) ==
  [i \in 1 .. n |-> IF med[i] # Filemark THEN "data" ELSE IF i = n THEN "eod" ELSE "filemark"]

\* Slip: the write position is one block short, before the last mark.
SlipBeforeMark(d) ==
  LET n == CHOOSE h \in 0 .. Len(d.med) : EndsAt(d, h) /\ \A k \in 0 .. h - 1 : ~EndsAt(d, k)
  IN  Ok([d EXCEPT !.head = n, !.tapPos = n, !.types = Scanned(d.med, n), !.writePos = n - 1])

scan(d) ==
  LET end  == CHOOSE h \in 0 .. Len(d.med) : EndsAt(d, h) /\ \A k \in 0 .. h - 1 : ~EndsAt(d, k)
      ends == IF "read" \in Faults THEN 0 .. end ELSE {end}
  IN  MayFail("position", d) \cup
      UNION {Ok([d EXCEPT !.head = n, !.tapPos = n,
                          !.types = Scanned(d.med, n), !.writePos = n]) : n \in ends}

ThenWrite(S, c) == Then(S, LAMBDA e : writeRecord(e, c))
ThenMark(S) == Then(S, writeFilemark)

initialize(d) ==
  LET rewound == MayFail("position", d) \cup
                 Ok([d EXCEPT !.head = 0, !.tapPos = 0, !.types = <<>>, !.writePos = 0])
      labels  == ThenMark(ThenWrite(ThenWrite(rewound, "label"), "label"))
  IN  Then(ThenMark(ThenMark(ThenWrite(labels, Blank))), Sync)

\* The label is block 1, the index block 3; a mark cannot be parsed.
IsData(d, b) == b < Len(d.types) /\ d.types[b + 1] = "data"

ThenParse(S, b) == Then(S, LAMBDA e : IF IsData(e, b) THEN ReadBlock(e, b) ELSE Fail(e))

\* An operation that opens the device: it stays open if nothing failed.
Opening(S) ==
  /\ ~open
  /\ \E o \in S : /\ dev' = IF o.ok THEN o.dev ELSE Closed(o.dev)
                  /\ open' = o.ok

Format == Opening(ThenParse(initialize(dev), 1))

Load == Opening(ThenParse(ThenParse(scan(dev), 1), 3))

Close == open /\ open' = FALSE /\ dev' = Closed(dev)

-----------------------------------------------------------------------------
(***************************************************************************)
(* The operations of TapeFS on the two regions.                            *)
(***************************************************************************)
Using(S) == open /\ (\E o \in S : dev' = o.dev) /\ UNCHANGED open

\* A write of the data region that lands before it is an error, made after the write.
Region(S, d) ==
  {IF o.ok /\ d.writePos < DataOffset THEN [o EXCEPT !.ok = FALSE] ELSE o : o \in S}

\* AppendFileData, without and with its check of the last record.
AppendRecords(d, c) ==
  LET data == Region(writeRecord(d, c), d)
      mark == Then(data, LAMBDA e : Region(writeFilemark(e), e))
  IN  Then(mark, LAMBDA e : Region(WriteEOD(e), e))

\* Slip: the end of the data is not looked for.
SlipNoEODCheck(d, c) == AppendRecords(d, c)

appendFileData(d, c) ==
  LET last == Len(d.types) - 1
  IN  IF last >= DataOffset /\ d.types[last + 1] = "eod"
      THEN Then(truncateAt(d, last), LAMBDA e : AppendRecords(e, c))
      ELSE AppendRecords(d, c)

AppendFile(c) == Using(appendFileData(dev, c))

\* FlushIndex: the index region knows nothing of the data region behind it.
flushIndex(d, idx) ==
  LET written == ThenWrite(truncateAt(d, IndexBlock), idx)
  IN  Then(ThenMark(ThenMark(written)), Sync)

Commit(idx) == Using(flushIndex(dev, idx))

Read(b) == Using(ReadBlock(dev, b))

\* A defrag from block b on that moves the files with the contents moved, none or one.
Defrag(b, moved) ==
  LET cut   == truncateAt(dev, b)
      files == IF moved = {} THEN cut
               ELSE Then(cut, LAMBDA e : UNION {appendFileData(e, c) : c \in moved})
  IN  /\ IsData(dev, b)
      /\ moved = {} => "trim" \in Uses
      /\ Using(Then(files, Sync))

Next ==
  \/ Format \/ Load \/ Close
  \/ \E c \in Contents : AppendFile(c)
  \/ \E idx \in Indexes : Commit(idx)
  \/ \E b \in 0 .. (Len(dev.types) - 1) : Read(b)
  \/ \E b \in DataOffset .. (Len(dev.types) - 1), moved \in {{}} \cup {{c} : c \in Contents} :
       Defrag(b, moved)

Spec == Init /\ [][Next]_vars

-----------------------------------------------------------------------------
(***************************************************************************)
(* Properties.                                                             *)
(***************************************************************************)
TypeOK ==
  /\ dev.med \in Seq(Blocks) /\ Len(dev.med) <= MaxBlocks
  /\ dev.head \in 0 .. MaxBlocks
  /\ dev.types \in Seq(Types)
  /\ dev.writePos \in 0 .. MaxBlocks
  /\ dev.tapPos \in (0 .. MaxBlocks) \cup {Unknown}
  /\ open \in BOOLEAN

\* "Set to unknownTapePos when position is uncertain": a position the code believes
\* in is where the head is, through every error and every skipped seek.
HeadTracked == dev.tapPos # Unknown => dev.head = dev.tapPos

\* Between operations the table describes the tape, block by block, and the next
\* write goes behind the last one.
TableMatches ==
  open =>
    /\ dev.writePos = Len(dev.med)
    /\ Len(dev.types) = Len(dev.med)
    /\ \A i \in 1 .. Len(dev.med) : dev.types[i] = "data" <=> dev.med[i] # Filemark

\* The two partitions: block IndexBlock, and what the table says is behind the index
\* region.  Of a closed device it is what a scan would say.
Table == IF open THEN dev.types ELSE Scanned(dev.med, Len(dev.med))

Block(i) ==
  IF Table[i] = "data" /\ i <= Len(dev.med) THEN dev.med[i] ELSE [type |-> Table[i]]

DataRegion == [i \in 1 .. (Len(Table) - DataOffset) |-> Block(i + DataOffset)]

TapeIndex ==
  IF Len(dev.med) > IndexBlock /\ dev.med[IndexBlock + 1] \in [type : {"data"}, data : Indexes]
  THEN dev.med[IndexBlock + 1].data ELSE None

TP == INSTANCE TwoPartitions WITH Data <- Contents, index <- TapeIndex, data <- DataRegion

\* The upper layers "address the index partition and data partition independently":
\* no operation on one region changes the other, and an append is an append.
TwoPartitionsSpec == TP!Spec

\* What the drive does provide, over any sequence of formats, loads, files, commits and
\* defrags that fail anywhere: an append is an append, it, a defrag and a load leave the
\* index alone, and a commit leaves its index, and no data behind it.
OneTapeSpec == TP!OneTapeSpec

=============================================================================
