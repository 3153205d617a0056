------------------------------ MODULE MCDefrag ------------------------------
(***************************************************************************)
(* Instances of Defrag for TLC.                                            *)
(***************************************************************************)
EXTENDS Defrag, TLC

CONSTANTS p1, p2, h1

\* A letter whose defrags fail again and again frees the same blocks over and
\* over; the bound is on the list of available spaces.
AvailBound == cache # None => Len(cache.avail) <= 2

\* A cache that refers to blocks that are not there, which a defrag or an init
\* that failed has left behind, is not explored further.
LiveCache ==
  cache # None =>
    \A p \in Paths :
      HasExtent(cache.files[p]) => IsDataBlock(dataPart, cache.files[p].extent.block)

Symmetry == Permutations(Paths)

=============================================================================
