---------------------------- MODULE MCWebhooks ----------------------------
(* Small instances of Webhooks for TLC. *)
EXTENDS Webhooks, TLC

CONSTANTS h1, h2, p1, p2

Symmetry == Permutations(Hooks) \cup Permutations(Pulls)
=============================================================================
