--------------------------- MODULE MCNotifications ---------------------------
(* Small instances of Notifications for TLC. *)
EXTENDS Notifications, TLC

CONSTANTS i1, i2, s1, s2, e1, e2, n1

Symmetry == Permutations(Instances) \cup Permutations(Sockets) \cup Permutations(Events)
=============================================================================
