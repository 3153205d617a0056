---------------------------- MODULE MCNamespace ----------------------------
(***************************************************************************)
(* Instances of Namespace for TLC.                                         *)
(***************************************************************************)
EXTENDS Namespace, TLC

CONSTANTS r, d1, d2, d3, a, b, flush

Symmetry == Permutations(Dirs \ {Root}) \cup Permutations(Names \ {FlushName})

=============================================================================
