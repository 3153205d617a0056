---------------------------- MODULE MCSCSITape -----------------------------
(***************************************************************************)
(* Instances of SCSITape for TLC.                                          *)
(***************************************************************************)
EXTENDS SCSITape, TLC

CONSTANTS f1, f2, i0, i1

Symmetry == Permutations(Contents)

=============================================================================
