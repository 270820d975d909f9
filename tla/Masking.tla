------------------------------- MODULE Masking -------------------------------
(***************************************************************************)
(* What the log shows of a request: RequestMiddleware replaces passwords   *)
(* when it finds some.  An object is whether it has a sensitive field, and *)
(* the objects below it in the order of their keys.                        *)
(***************************************************************************)
EXTENDS Naturals, Sequences, SequencesExt

CONSTANTS
  Depth, \* bound of the levels of an object
  Width  \* bound of the objects below one

ASSUME BodiesAssumption == {Depth, Width} \subseteq Nat

\* Objects of at most n levels, each with at most Width below it.
Bodies[n \in Nat] ==
  IF n = 0 THEN {} ELSE [secret : BOOLEAN, below : BoundedSeq(Bodies[n - 1], Width)]

JsonBodies == Bodies[Depth]

\* checkFieldsExistence: the answer of each object below replaces that of the one
\* before.
Found[o \in JsonBodies] == o.secret \/ FoldLeft(LAMBDA found, b : Found[b], FALSE, o.below)

\* replaceFields, at every depth.
Replaced[o \in JsonBodies] == [secret |-> FALSE,
                               below |-> [i \in DOMAIN o.below |-> Replaced[o.below[i]]]]

\* Mutant: only the fields of the object itself are replaced.
FlatLogged(o) == IF Found[o] THEN [o EXCEPT !.secret = FALSE] ELSE o

\* maskSensitiveData
Logged(o) == IF Found[o] THEN Replaced[o] ELSE o

-----------------------------------------------------------------------------
(* Reference *)

\* There is a password somewhere in the object.
Secret[o \in JsonBodies] == o.secret \/ \E i \in DOMAIN o.below : Secret[o.below[i]]

\* The object has no password, and neither has the last object below it, nor the
\* last below that one.
Screened[o \in JsonBodies] == ~o.secret /\ (o.below # <<>> => Screened[Last(o.below)])
=============================================================================
