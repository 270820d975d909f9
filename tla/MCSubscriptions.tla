-------------------------- MODULE MCSubscriptions --------------------------
(* Small instances of Subscriptions for TLC. *)
EXTENDS Subscriptions, TLC

CONSTANTS s1, s2

\* Sockets are interchangeable; calls are numbered, so that they need not be.
Symmetry == Permutations(Subs)
=============================================================================
