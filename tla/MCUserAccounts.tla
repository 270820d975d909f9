--------------------------- MODULE MCUserAccounts ---------------------------
(* Small instances of UserAccounts for TLC. *)
EXTENDS UserAccounts, TLC

CONSTANTS r1, r2, r3, seed, u1, u2, e1, e2, dark, light

SeedOne == {seed}
SeedOneEmail == [u \in {seed} |-> e1]

\* Requests start out alike, and so do the ids nobody has yet; e-mails and
\* themes do not, the seeded account holds one of each.
Symmetry == Permutations(Requests) \cup Permutations(Ids \ Seeded)
=============================================================================
