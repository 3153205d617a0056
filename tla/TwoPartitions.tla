--------------------------- MODULE TwoPartitions ---------------------------
(***************************************************************************)
(* What TapeFS takes a loaded tape for: an index and a data partition that *)
(* are "addressed independently" (README.mkd), the second one the log of   *)
(* module TapeLog.                                                         *)
(*                                                                         *)
(* OneTapeSpec is what is left of that where both are on one tape: a       *)
(* commit ends the tape behind the index.                                  *)
(***************************************************************************)
EXTENDS TapeLog

CONSTANTS Data, Indexes, Blank, None

VARIABLES index, data

vars == <<index, data>>

Init == index = None /\ data = <<>>

\* A format that fails may leave no index, or the blank one.
Format == index' \in {Blank, None} /\ data' = <<>>

Commit == index' \in Indexes /\ UNCHANGED data

\* An append, or one that fails.
AppendFile ==
  /\ \E c \in Data : data' \in {AppendFileData(data, c)} \cup FailedAppends(data, c)
  /\ UNCHANGED index

\* Everything from block b on makes room for one file moved there, or for nothing.
Defrag ==
  /\ \E b \in 0 .. Len(data), c \in Data, k \in 0 .. 3 :
       data' = WriteUpTo(TruncateAt(data, b), FileRecords(c), k)
  /\ UNCHANGED index

\* On tape the end of the data is a filemark like any other; after a reload the
\* last one stands for it.
Relabel(log) ==
  IF log # <<>> /\ log[Len(log)] = Filemark THEN [log EXCEPT ![Len(log)] = EODMark] ELSE log

Reload == data' = Relabel(data) /\ UNCHANGED index

Next == Format \/ Commit \/ AppendFile \/ Defrag \/ Reload

Spec == Init /\ [][Next]_vars

CommitEnds == index' \in Indexes /\ data' = <<>>

OneTapeNext == Format \/ CommitEnds \/ AppendFile \/ Defrag \/ Reload

OneTapeSpec == Init /\ [][OneTapeNext]_vars

=============================================================================
