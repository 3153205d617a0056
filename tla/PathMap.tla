------------------------------ MODULE PathMap ------------------------------
(***************************************************************************)
(* What a mounted letter promises about names: a map from paths to entries *)
(* in which every parent is a directory.  A path is a sequence of names,   *)
(* the root the empty one; an entry is Directory or a file, told apart by  *)
(* its UID.                                                                *)
(***************************************************************************)
EXTENDS Naturals, SequencesExt

CONSTANTS PathNames, Directory

VARIABLE entries

(***************************************************************************)
(* The edits, as operators on a map m: when they are possible and the map  *)
(* they make of it.                                                        *)
(***************************************************************************)
\* A place where an entry can be put: it is free and its parent is there.
Free(m, p) ==
  /\ p # <<>> /\ p \notin DOMAIN m
  /\ Front(p) \in DOMAIN m /\ m[Front(p)] = Directory

\* A new entry; a file's UID is one no other file has.
CanMake(m, p, e) ==
  /\ Free(m, p)
  /\ e = Directory \/ \A r \in DOMAIN m : m[r] # e

Made(m, p, e) == [r \in DOMAIN m \cup {p} |-> IF r = p THEN e ELSE m[r]]

\* A file, or a directory with nothing in it.
CanDelete(m, p) == p # <<>> /\ \A r \in DOMAIN m : IsPrefix(p, r) => r = p

Deleted(m, p) == [r \in DOMAIN m \ {p} |-> m[r]]

CanRename(m, p, q) == p # <<>> /\ Free(m, q) /\ ~IsPrefix(p, q)

\* Everything at and below p is found at and below q, the rest where it was.
Renamed(m, p, q) ==
  LET To(r)   == IF IsPrefix(p, r) THEN q \o SubSeq(r, Len(p) + 1, Len(r)) ELSE r
      From(r) == IF IsPrefix(q, r) THEN p \o SubSeq(r, Len(q) + 1, Len(r)) ELSE r
  IN  [r \in {To(s) : s \in DOMAIN m} |-> m[From(r)]]

-----------------------------------------------------------------------------
Init == entries = [p \in {<<>>} |-> Directory]

\* One edit takes the map m to the map n.
Edit(m, n) ==
  LET spots == {Append(p, x) : p \in DOMAIN m, x \in PathNames}
  IN  \/ \E p \in DOMAIN n \ DOMAIN m : CanMake(m, p, n[p]) /\ n = Made(m, p, n[p])
      \/ \E p \in DOMAIN m : CanDelete(m, p) /\ n = Deleted(m, p)
      \/ \E p \in DOMAIN m, q \in spots : CanRename(m, p, q) /\ n = Renamed(m, p, q)

Next == \E m \in {entries}, n \in {entries'} : Edit(m, n)

Spec == Init /\ [][Next]_entries

=============================================================================
