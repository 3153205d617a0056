---------------------------- MODULE MCFileHandle ----------------------------
(***************************************************************************)
(* Instances of FileHandle for TLC.                                        *)
(***************************************************************************)
EXTENDS FileHandle, TLC

CONSTANTS p1, p2, h1, h2, c1, c2, f1

\* A file of its own for each handle, or one file for both.
OwnFiles == (h1 :> p1) @@ (h2 :> p2)
OneHandle == h1 :> p1

Symmetry == Permutations(Clients)

=============================================================================
