--------------------------------- MODULE Calls ---------------------------------
(***************************************************************************)
(* What the modules about requests of the HTTP API share.                  *)
(***************************************************************************)
CONSTANT Requests  \* requests, each made once

\* A field that may be absent is a set of at most one value.
Optional(S) == {f \in SUBSET S : \A x, y \in f : x = y}
Or(field, default) == IF field = {} THEN default ELSE CHOOSE x \in field : TRUE
===============================================================================
