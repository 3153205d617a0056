--------------------------- MODULE TapeLogProofs ---------------------------
(***************************************************************************)
(* What the operators of TapeLog keep and change, for partitions of any    *)
(* length and payloads of any kind.                                        *)
(***************************************************************************)
EXTENDS TapeLog, SequenceTheorems, WellFoundedInduction, TLAPS

\* A set of numbers that is not empty has a least one.
LEMMA Least ==
  ASSUME NEW T \in SUBSET Nat, T # {}
  PROVE  \E x \in T : \A y \in T : x <= y
<1>1. IsWellFoundedOn(OpToRel(<, Nat), Nat)
  BY NatLessThanWellFounded
<1>2. PICK x \in T : \A y \in T : ~(<<y, x>> \in OpToRel(<, Nat))
  BY <1>1, WFMin
<1>3. \A y \in T : ~(y < x)
  BY <1>2 DEF OpToRel
<1>. QED  BY <1>3

\* Every data block of log is in log2, at its place and with its payload.
DataKept(log, log2) ==
  \A b \in Nat : IsDataBlock(log, b) =>
                   IsDataBlock(log2, b) /\ ReadAt(log2, b) = ReadAt(log, b)

\* The first n records of log are those of log2.
SamePrefix(log, log2, n) == \A i \in 1 .. n : log2[i] = log[i]

\* The first k records of recs are in log, from block b on.
WrittenAt(log, b, recs, k) == \A i \in 1 .. k : log[b + i] = recs[i]

-----------------------------------------------------------------------------
\* The records an append or an index rewrite puts on tape.
LEMMA RecordsWritten ==
  ASSUME NEW S, NEW c \in S
  PROVE  /\ FileRecords(c) \in LogOf(S)
         /\ Len(FileRecords(c)) = 3
         /\ FileRecords(c)[1] = DataRecord(c)
         /\ IndexRecords(c) \in LogOf(S)
         /\ Len(IndexRecords(c)) = 3
         /\ IndexRecords(c)[1] = DataRecord(c)
<1>1. DataRecord(c) \in Records(S) /\ Filemark \in Records(S) /\ EODMark \in Records(S)
  BY DEF DataRecord, Records
<1>. QED  BY <1>1 DEF FileRecords, IndexRecords, LogOf

\* The three kinds of record are told apart by their type.
LEMMA RecordKinds ==
  ASSUME NEW S, NEW r \in Records(S), r.type = "data"
  PROVE  r \in [type : {"data"}, data : S] /\ r = DataRecord(r.data) /\ r.data \in S
<1>1. Filemark.type # "data" /\ EODMark.type # "data"
  BY DEF Filemark, EODMark
<1>2. r \in [type : {"data"}, data : S]
  BY <1>1 DEF Records
<1>. QED  BY <1>2 DEF DataRecord

\* Cutting the tail leaves a prefix.
LEMMA Truncated ==
  ASSUME NEW S, NEW log \in LogOf(S), NEW b \in 0 .. Len(log)
  PROVE  /\ TruncateAt(log, b) \in LogOf(S)
         /\ Len(TruncateAt(log, b)) = b
         /\ \A i \in 1 .. b : TruncateAt(log, b)[i] = log[i]
<1>1. Len(log) \in Nat /\ \A i \in 1 .. b : log[i] \in Records(S)
  BY LenProperties, ElementOfSeq DEF LogOf
<1>2. /\ SubSeq(log, 1, b) \in Seq(Records(S))
      /\ Len(SubSeq(log, 1, b)) = IF 1 <= b THEN b - 1 + 1 ELSE 0
      /\ \A i \in 1 .. b - 1 + 1 : SubSeq(log, 1, b)[i] = log[1 + i - 1]
  BY <1>1, SubSeqProperties
<1>. QED  BY <1>1, <1>2 DEF TruncateAt, LogOf

\* Dropping the end-of-data record loses no data block.
LEMMA EODDropped ==
  ASSUME NEW S, NEW log \in LogOf(S)
  PROVE  /\ WithoutEOD(log) \in LogOf(S)
         /\ Len(WithoutEOD(log)) \in 0 .. Len(log)
         /\ Len(log) - 1 <= Len(WithoutEOD(log))
         /\ \A i \in 1 .. Len(WithoutEOD(log)) : WithoutEOD(log)[i] = log[i]
         /\ DataKept(log, WithoutEOD(log))
<1>0. Len(log) \in Nat
  BY LenProperties DEF LogOf
<1>1. CASE LastIsEOD(log)
  <2>1. Len(log) - 1 \in 0 .. Len(log) /\ log[Len(log)].type = "eod"
    BY <1>0, <1>1 DEF LastIsEOD
  <2>2. /\ WithoutEOD(log) \in LogOf(S)
        /\ Len(WithoutEOD(log)) = Len(log) - 1
        /\ \A i \in 1 .. Len(log) - 1 : WithoutEOD(log)[i] = log[i]
    BY <1>1, <2>1, Truncated DEF WithoutEOD
  <2>3. ASSUME NEW b \in Nat, IsDataBlock(log, b)
        PROVE  IsDataBlock(WithoutEOD(log), b) /\ ReadAt(WithoutEOD(log), b) = ReadAt(log, b)
    <3>1. b \in 0 .. Len(log) - 1 /\ log[b + 1].type = "data"
      BY <2>3 DEF IsDataBlock, HasBlock, ReadAt
    <3>2. b + 1 \in 1 .. Len(log) - 1
      BY <1>0, <2>1, <3>1
    <3>. QED  BY <1>0, <2>2, <3>1, <3>2 DEF IsDataBlock, HasBlock, ReadAt
  <2>. QED  BY <1>0, <2>2, <2>3 DEF DataKept
<1>2. CASE ~LastIsEOD(log)
  BY <1>0, <1>2 DEF WithoutEOD, DataKept
<1>. QED  BY <1>1, <1>2

\* Records written behind a log leave every one before them.
LEMMA Extended ==
  ASSUME NEW S, NEW log \in LogOf(S), NEW t \in LogOf(S), NEW k \in 0 .. 3, Len(t) = 3
  PROVE  /\ WriteUpTo(log, t, k) \in LogOf(S)
         /\ Len(WriteUpTo(log, t, k)) = Len(log) + k
         /\ SamePrefix(log, WriteUpTo(log, t, k), Len(log))
         /\ WrittenAt(WriteUpTo(log, t, k), Len(log), t, k)
         /\ DataKept(log, WriteUpTo(log, t, k))
<1>1. Len(log) \in Nat
  BY LenProperties DEF LogOf
<1>2. SubSeq(t, 1, k) \in LogOf(S) /\ Len(SubSeq(t, 1, k)) = k
      /\ \A i \in 1 .. k : SubSeq(t, 1, k)[i] = t[i]
  <2>1. k \in 0 .. Len(t)
    OBVIOUS
  <2>2. /\ TruncateAt(t, k) \in LogOf(S)
        /\ Len(TruncateAt(t, k)) = k
        /\ \A i \in 1 .. k : TruncateAt(t, k)[i] = t[i]
    BY <2>1, Truncated
  <2>. QED  BY <2>2 DEF TruncateAt
<1> DEFINE new == WriteUpTo(log, t, k)
<1>3. new = log \o SubSeq(t, 1, k)
  BY DEF WriteUpTo
<1> HIDE DEF new
<1>4. /\ new \in Seq(Records(S))
      /\ Len(new) = Len(log) + Len(SubSeq(t, 1, k))
      /\ \A i \in 1 .. Len(log) + Len(SubSeq(t, 1, k)) :
           new[i] = IF i <= Len(log) THEN log[i] ELSE SubSeq(t, 1, k)[i - Len(log)]
  BY <1>2, <1>3, ConcatProperties DEF LogOf
<1>5. SamePrefix(log, new, Len(log))
  BY <1>1, <1>2, <1>4 DEF SamePrefix
<1>6. WrittenAt(new, Len(log), t, k)
  <2>1. SUFFICES ASSUME NEW i \in 1 .. k
                 PROVE  new[Len(log) + i] = t[i]
    BY DEF WrittenAt
  <2>2. Len(log) + i \in 1 .. Len(log) + k /\ ~(Len(log) + i <= Len(log))
        /\ (Len(log) + i) - Len(log) = i
    BY <1>1
  <2>. QED  BY <1>2, <1>4, <2>2
<1>7. DataKept(log, new)
  BY <1>1, <1>2, <1>4, <1>5 DEF DataKept, IsDataBlock, HasBlock, ReadAt, SamePrefix
<1>. QED  BY <1>2, <1>4, <1>5, <1>6, <1>7 DEF LogOf, new

LEMMA DataKeptTransitive ==
  ASSUME NEW a, NEW b, NEW c, DataKept(a, b), DataKept(b, c)
  PROVE  DataKept(a, c)
BY DEF DataKept

-----------------------------------------------------------------------------
\* However far an append to the data partition gets (README: "the index must
\* never refer to blocks never written"), every data block there before it is
\* still there: AppendFileData never costs a file its data.
THEOREM AppendKeepsData ==
  ASSUME NEW S, NEW log \in LogOf(S), NEW c \in S, NEW k \in 0 .. 3
  PROVE  /\ AppendUpTo(log, c, k) \in LogOf(S)
         /\ DataKept(log, AppendUpTo(log, c, k))
         /\ Len(AppendUpTo(log, c, k)) = Len(WithoutEOD(log)) + k
<1>1. FileRecords(c) \in LogOf(S) /\ Len(FileRecords(c)) = 3
  BY RecordsWritten
<1>2. WithoutEOD(log) \in LogOf(S) /\ DataKept(log, WithoutEOD(log))
  BY EODDropped
<1> DEFINE new == WriteUpTo(WithoutEOD(log), FileRecords(c), k)
<1>3. new \in LogOf(S) /\ Len(new) = Len(WithoutEOD(log)) + k
      /\ DataKept(WithoutEOD(log), new)
  BY <1>1, <1>2, Extended
<1>4. AppendUpTo(log, c, k) = new
  BY DEF AppendUpTo
<1> HIDE DEF new
<1>. QED  BY <1>2, <1>3, <1>4, DataKeptTransitive

\* The block AppendFileData returns holds the payload, and it was no data block
\* before: the extent flushBuffer records belongs to one file only.
THEOREM AppendIsFresh ==
  ASSUME NEW S, NEW log \in LogOf(S), NEW c \in S
  PROVE  /\ NextBlock(log) \in Nat
         /\ IsDataBlock(AppendFileData(log, c), NextBlock(log))
         /\ ReadAt(AppendFileData(log, c), NextBlock(log)) = DataRecord(c)
         /\ ~IsDataBlock(log, NextBlock(log))
<1>0. Len(log) \in Nat /\ Len(WithoutEOD(log)) \in Nat
  BY EODDropped, LenProperties DEF LogOf
<1>1. FileRecords(c) \in LogOf(S) /\ Len(FileRecords(c)) = 3
      /\ FileRecords(c)[1] = DataRecord(c)
  BY RecordsWritten
<1>2. WithoutEOD(log) \in LogOf(S)
  BY EODDropped
<1>3. /\ Len(AppendFileData(log, c)) = Len(WithoutEOD(log)) + 3
      /\ AppendFileData(log, c)[Len(WithoutEOD(log)) + 1] = DataRecord(c)
  <2> DEFINE new == WriteUpTo(WithoutEOD(log), FileRecords(c), 3)
  <2>1. 3 \in 0 .. 3
    OBVIOUS
  <2>2. Len(new) = Len(WithoutEOD(log)) + 3
        /\ WrittenAt(new, Len(WithoutEOD(log)), FileRecords(c), 3)
    BY <1>1, <1>2, <2>1, Extended
  <2>3. AppendFileData(log, c) = new
    BY DEF AppendUpTo, AppendFileData
  <2> HIDE DEF new
  <2>. QED  BY <1>1, <2>2, <2>3 DEF WrittenAt
<1>4. ~IsDataBlock(log, NextBlock(log))
  <2>1. SUFFICES ASSUME IsDataBlock(log, NextBlock(log))
                 PROVE  FALSE
    OBVIOUS
  <2>2. IsDataBlock(WithoutEOD(log), NextBlock(log))
    BY <1>0, <2>1, EODDropped DEF DataKept, NextBlock
  <2>. QED  BY <1>0, <2>2 DEF IsDataBlock, HasBlock, NextBlock
<1>. QED
  BY <1>0, <1>3, <1>4 DEF IsDataBlock, HasBlock, ReadAt, NextBlock, DataRecord

\* An append, however far it gets, leaves the records below the block it reports
\* where they are, and writes at most one data block, that one.
LEMMA AppendShape ==
  ASSUME NEW S, NEW log \in LogOf(S), NEW c \in S, NEW k \in 0 .. 3
  PROVE  /\ NextBlock(log) \in 0 .. Len(log)
         /\ Len(AppendUpTo(log, c, k)) = NextBlock(log) + k
         /\ SamePrefix(log, AppendUpTo(log, c, k), NextBlock(log))
         /\ \A b \in Nat : IsDataBlock(AppendUpTo(log, c, k), b) =>
                             IsDataBlock(log, b) \/ b = NextBlock(log)
<1> DEFINE cut == WithoutEOD(log)
           new == AppendUpTo(log, c, k)
           n == Len(cut)
<1>1. /\ cut \in LogOf(S) /\ n \in 0 .. Len(log) /\ n \in Nat /\ Len(log) \in Nat
      /\ \A i \in 1 .. n : cut[i] = log[i]
  BY EODDropped, LenProperties DEF LogOf
<1>2. /\ FileRecords(c) \in LogOf(S) /\ Len(FileRecords(c)) = 3
      /\ FileRecords(c)[2].type # "data" /\ FileRecords(c)[3].type # "data"
  BY RecordsWritten DEF FileRecords, Filemark, EODMark
<1>3. /\ Len(new) = n + k
      /\ SamePrefix(cut, new, n)
      /\ WrittenAt(new, n, FileRecords(c), k)
  BY <1>1, <1>2, Extended DEF AppendUpTo
<1>4. NextBlock(log) = n
  BY DEF NextBlock
<1> HIDE DEF cut, new, n
<1>5. \A i \in 1 .. n : new[i] = log[i]
  BY <1>1, <1>3 DEF SamePrefix
<1>6. ASSUME NEW b \in Nat, IsDataBlock(new, b), b # n
      PROVE  IsDataBlock(log, b)
  <2>1. b \in 0 .. n + k - 1 /\ new[b + 1].type = "data"
    BY <1>1, <1>3, <1>6 DEF IsDataBlock, HasBlock, ReadAt
  <2>2. \A i \in 1 .. k : new[n + i] = FileRecords(c)[i]
    BY <1>3 DEF WrittenAt
  <2>3. b < n
    <3>1. SUFFICES ASSUME b > n PROVE FALSE
      BY <1>1, <1>6
    <3>2. b + 1 = n + 2 \/ b + 1 = n + 3
      BY <1>1, <2>1, <3>1
    <3>3. CASE b + 1 = n + 2
      <4>1. 2 \in 1 .. k
        BY <1>1, <2>1, <3>3
      <4>. QED  BY <1>2, <2>1, <2>2, <3>3, <4>1
    <3>4. CASE b + 1 = n + 3
      <4>1. 3 \in 1 .. k
        BY <1>1, <2>1, <3>4
      <4>. QED  BY <1>2, <2>1, <2>2, <3>4, <4>1
    <3>. QED  BY <3>2, <3>3, <3>4
  <2>4. b + 1 \in 1 .. n /\ b \in 0 .. Len(log) - 1
    BY <1>1, <1>6, <2>3
  <2>. QED  BY <1>5, <2>1, <2>4 DEF IsDataBlock, HasBlock, ReadAt
<1>7. SamePrefix(log, new, n)
  BY <1>5 DEF SamePrefix
<1>8. \A b \in Nat : IsDataBlock(new, b) => IsDataBlock(log, b) \/ b = n
  BY <1>6
<1>. QED  BY <1>1, <1>3, <1>4, <1>7, <1>8 DEF new

\* The next append goes behind the data of this one.
LEMMA NextAfterAppend ==
  ASSUME NEW S, NEW log \in LogOf(S), NEW c \in S
  PROVE  NextBlock(log) < NextBlock(AppendFileData(log, c))
<1> DEFINE new == AppendFileData(log, c)
<1>1. 3 \in 0 .. 3
  OBVIOUS
<1>2. new \in LogOf(S) /\ Len(new) = NextBlock(log) + 3 /\ NextBlock(log) \in 0 .. Len(log)
  BY <1>1, AppendKeepsData, AppendShape DEF AppendFileData
<1> HIDE DEF new
<1>3. Len(new) - 1 <= NextBlock(new) /\ NextBlock(new) \in 0 .. Len(new) /\ Len(log) \in Nat
  BY <1>2, EODDropped, LenProperties DEF NextBlock, LogOf
<1>. QED  BY <1>2, <1>3 DEF new

\* A failed append, at whatever step, leaves every data block alone.
LEMMA FailedAppendKeepsData ==
  ASSUME NEW S, NEW log \in LogOf(S), NEW c \in S, NEW new \in FailedAppends(log, c)
  PROVE  new \in LogOf(S) /\ DataKept(log, new) /\ Len(log) - 1 <= Len(new)
<1>0. Len(log) \in Nat /\ Len(WithoutEOD(log)) \in Nat
      /\ Len(log) - 1 <= Len(WithoutEOD(log))
  BY EODDropped, LenProperties DEF LogOf
<1>1. CASE new = log
  BY <1>0, <1>1 DEF DataKept
<1>2. ASSUME NEW k \in 0 .. 2, new = AppendUpTo(log, c, k)
      PROVE  new \in LogOf(S) /\ DataKept(log, new) /\ Len(log) - 1 <= Len(new)
  <2>1. k \in 0 .. 3
    BY <1>2
  <2>2. /\ AppendUpTo(log, c, k) \in LogOf(S)
        /\ DataKept(log, AppendUpTo(log, c, k))
        /\ Len(AppendUpTo(log, c, k)) = Len(WithoutEOD(log)) + k
    BY <2>1, AppendKeepsData
  <2>. QED  BY <1>0, <1>2, <2>2
<1>. QED  BY <1>1, <1>2 DEF FailedAppends

\* Rewriting the index, as far as it gets: the labels stay, and the records
\* of the new index follow them.
LEMMA IndexWritten ==
  ASSUME NEW S, NEW log \in LogOf(S), IndexBlock <= Len(log), NEW idx \in S, NEW k \in 0 .. 3
  PROVE  /\ WriteIndexUpTo(log, idx, k) \in LogOf(S)
         /\ Len(WriteIndexUpTo(log, idx, k)) = 3 + k
         /\ SamePrefix(log, WriteIndexUpTo(log, idx, k), 3)
         /\ WrittenAt(WriteIndexUpTo(log, idx, k), 3, IndexRecords(idx), k)
<1>1. Len(log) \in Nat /\ 3 \in 0 .. Len(log)
  BY LenProperties DEF LogOf, IndexBlock
<1>2. /\ TruncateAt(log, 3) \in LogOf(S)
      /\ Len(TruncateAt(log, 3)) = 3
      /\ \A i \in 1 .. 3 : TruncateAt(log, 3)[i] = log[i]
  BY <1>1, Truncated
<1>3. IndexRecords(idx) \in LogOf(S) /\ Len(IndexRecords(idx)) = 3
  BY RecordsWritten
<1> DEFINE new == WriteUpTo(TruncateAt(log, 3), IndexRecords(idx), k)
<1>4. /\ new \in LogOf(S)
      /\ Len(new) = Len(TruncateAt(log, 3)) + k
      /\ SamePrefix(TruncateAt(log, 3), new, Len(TruncateAt(log, 3)))
      /\ WrittenAt(new, Len(TruncateAt(log, 3)), IndexRecords(idx), k)
  BY <1>2, <1>3, Extended
<1>5. WriteIndexUpTo(log, idx, k) = new
  BY DEF WriteIndexUpTo, IndexBlock
<1> HIDE DEF new
<1>6. SamePrefix(log, new, 3)
  BY <1>2, <1>4 DEF SamePrefix
<1>. QED  BY <1>2, <1>4, <1>5, <1>6

=============================================================================
