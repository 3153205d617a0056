---------------------------- MODULE MCTapeStore ----------------------------
(***************************************************************************)
(* Instances of TapeStore for TLC.                                         *)
(***************************************************************************)
EXTENDS TapeStore, TLC

CONSTANTS p1, p2, h1, h2

\* A torn index partition is only explored with at most one file on the tape.
TornBound == Len(idxPart) < 6 => Len(dataPart) <= 6

Symmetry == Permutations(Paths) \cup Permutations(Handles)

=============================================================================
