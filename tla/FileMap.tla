------------------------------ MODULE FileMap ------------------------------
(***************************************************************************)
(* What a tape letter promises its user: a map from paths to file contents *)
(* that is edited one file at a time (current), and a copy of it that the  *)
(* tape keeps (saved).  The copy changes only when the user commits or     *)
(* formats; going back to it is the only way the current map changes as a  *)
(* whole.                                                                  *)
(*                                                                         *)
(* NoMap stands for a map that does not exist (nothing is loaded; the tape *)
(* holds no index), Absent for a path with no file.                        *)
(***************************************************************************)
CONSTANTS Paths, Contents, EmptyFile, Absent, NoMap

VARIABLES current, saved

vars == <<current, saved>>

Maps == [Paths -> Contents \cup {Absent}]

Blank == [p \in Paths |-> Absent]

Init == current = NoMap /\ saved = NoMap

\* Both the loaded map and the tape's copy start over empty.
Format ==
  /\ current' = Blank
  /\ saved' = Blank

\* A format that fails: nothing is loaded and the tape holds nothing, or an
\* empty map.
FormatFails ==
  /\ current' = NoMap
  /\ saved' \in {NoMap, Blank}

\* Load: the tape's copy becomes the current map.
Revert ==
  /\ saved # NoMap
  /\ current' = saved
  /\ UNCHANGED saved

Commit ==
  /\ current # NoMap
  /\ saved' = current
  /\ UNCHANGED current

\* A commit whose write fails after it has removed the old copy.
TornCommit ==
  /\ current # NoMap
  /\ saved' = NoMap
  /\ UNCHANGED current

\* Discard, unassign, eject, or the end of the daemon.
Forget ==
  /\ current' = NoMap
  /\ UNCHANGED saved

Create(p) ==
  /\ current # NoMap
  /\ current[p] = Absent
  /\ current' = [current EXCEPT ![p] = EmptyFile]
  /\ UNCHANGED saved

Store(p, c) ==
  /\ current # NoMap
  /\ current[p] # Absent
  /\ current' = [current EXCEPT ![p] = c]
  /\ UNCHANGED saved

Remove(p) ==
  /\ current # NoMap
  /\ current[p] # Absent
  /\ current' = [current EXCEPT ![p] = Absent]
  /\ UNCHANGED saved

Rename(p, q) ==
  /\ current # NoMap
  /\ current[p] # Absent
  /\ current[q] = Absent
  /\ current' = [current EXCEPT ![p] = Absent, ![q] = current[p]]
  /\ UNCHANGED saved

Next ==
  \/ Format \/ FormatFails \/ Revert \/ Commit \/ TornCommit \/ Forget
  \/ \E p \in Paths : Create(p) \/ Remove(p)
  \/ \E p \in Paths, c \in Contents : Store(p, c)
  \/ \E p, q \in Paths : Rename(p, q)

Spec == Init /\ [][Next]_vars

=============================================================================
