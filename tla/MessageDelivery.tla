--------------------------- MODULE MessageDelivery ---------------------------
(***************************************************************************)
(* What the events queue promises of a message, whatever its instances,    *)
(* its batches and what fails: a message is sent or lost, a lost one is    *)
(* never handled, one that was sent is handled once or more often and may  *)
(* leave the queue only then; what left never returns, although an         *)
(* instance that still holds a copy may handle it once more.               *)
(* Module EventsQueue implements this specification.                       *)
(***************************************************************************)
CONSTANT Msgs

VARIABLES place,   \* message -> Places
          handled  \* messages that were handled

vars == <<place, handled>>

Places == {"unsent", "lost", "pending", "gone"}

Init == place = [m \in Msgs |-> "unsent"] /\ handled = {}

Move(m, from, to) == /\ place[m] = from
                     /\ place' = [place EXCEPT ![m] = to]
                     /\ UNCHANGED handled

Send(m) == Move(m, "unsent", "pending")
Lose(m) == Move(m, "unsent", "lost")
Remove(m) == m \in handled /\ Move(m, "pending", "gone")

Handle(m) == /\ place[m] \in {"pending", "gone"}
             /\ handled' = handled \cup {m}
             /\ UNCHANGED place

Next == \E m \in Msgs : Send(m) \/ Lose(m) \/ Handle(m) \/ Remove(m)

Spec == Init /\ [][Next]_vars
=============================================================================
