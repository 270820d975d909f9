--------------------------- MODULE MCEventsQueue ---------------------------
(* Small instances of EventsQueue for TLC. *)
EXTENDS EventsQueue

CONSTANTS m1, m2, c1, c2
=============================================================================
