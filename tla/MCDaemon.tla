------------------------------ MODULE MCDaemon ------------------------------
(***************************************************************************)
(* Instances of Daemon for TLC.                                            *)
(***************************************************************************)
EXTENDS Daemon

CONSTANTS c1, c2, r1, m1, m2

\* The first connection gives every command, the other those that release d.mu
\* half-way: two that do not can only wait for one another.
GivenBy == [c \in Clients |-> IF c = c1 THEN Commands ELSE {"umount", "eject"}]

=============================================================================
