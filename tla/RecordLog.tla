----------------------------- MODULE RecordLog -----------------------------
(***************************************************************************)
(* What a partition image promises to the code above it: the log of module *)
(* TapeLog, of which a record is written whole or not at all, which can be *)
(* cut at its tail, and which is the same after the image has been closed  *)
(* and opened again.                                                       *)
(*                                                                         *)
(* The last promise is kept only while the image is whole.  One write that *)
(* fails part-way makes it torn: it cannot be opened again, but is never   *)
(* opened as something else, and cutting off a record heals it.  If a torn *)
(* image is written to, nothing is promised of what opening it gives.      *)
(***************************************************************************)
EXTENDS TapeLog

CONSTANT Data   \* what a data record can carry: sequences of bytes

VARIABLES log, open, image

vars == <<log, open, image>>

Images == {"whole", "torn", "spoiled"}

Init == log = <<>> /\ ~open /\ image = "whole"

Create == ~open /\ open' = TRUE /\ log' = <<>> /\ image' = "whole"

Open ==
  /\ ~open /\ open'
  /\ image # "torn"
  /\ image = "whole" => UNCHANGED <<log, image>>

Close == open /\ ~open' /\ UNCHANGED <<log, image>>

Write ==
  /\ \E rec \in Records(Data) : log' = Append(log, rec)
  /\ image = "whole" => image' = "whole"

WriteFails ==
  /\ UNCHANGED log
  /\ image = "whole" => image' \in {"whole", "torn"}

\* A cut at the end of the log cuts nothing, a torn record neither.
Truncate ==
  \E b \in 0 .. Len(log) :
    /\ log' = TruncateAt(log, b)
    /\ IF b = Len(log) THEN UNCHANGED image
       ELSE image # "spoiled" => image' = "whole"

\* The bytes of new over those of old, the rest of old zeroed.
Padded(old, new) == [i \in 1 .. Len(old) |-> IF i <= Len(new) THEN new[i] ELSE 0]

\* Rewriting a block in place; the first k bytes only if it fails part-way.
Overwrite ==
  \E b \in 0 .. (Len(log) - 1), new \in Data :
    /\ IsDataBlock(log, b)
    /\ Len(new) <= Len(log[b + 1].data)
    /\ \E k \in 0 .. Len(log[b + 1].data) :
         log' = [log EXCEPT ![b + 1].data =
                   SubSeq(Padded(@, new), 1, k) \o SubSeq(@, k + 1, Len(@))]
    /\ image # "spoiled" => UNCHANGED image

Edit == open /\ open' /\ image' \in Images /\ (Write \/ WriteFails \/ Truncate \/ Overwrite)

Next == Create \/ Open \/ Close \/ Edit

Spec == Init /\ [][Next]_vars

=============================================================================
