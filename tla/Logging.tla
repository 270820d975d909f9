------------------------------- MODULE Logging -------------------------------
(***************************************************************************)
(* Whose request the lines of the log name.  The ResponseInterceptor of a  *)
(* controller, and with it its logger, is there once for all requests: the *)
(* id it is given when a request enters is the one it logs with when an    *)
(* answer leaves.                                                          *)
(***************************************************************************)
EXTENDS Calls, Naturals

CONSTANT Controllers

VARIABLES
  stamp,   \* controller -> the request its logger names, 0 for none
  misnamed \* history: <<r, o>> where the answer of r was logged with the id of o

logging == <<stamp, misnamed>>

LoggingOK == /\ stamp \in [Controllers -> Requests \cup {0}]
             /\ misnamed \subseteq Requests \X Requests

LoggingInit == /\ stamp = [c \in Controllers |-> 0]
               /\ misnamed = {}

\* Mutant: the id is only set while the logger has none.
FirstStamped(r, c) == IF stamp[c] = 0 THEN r ELSE stamp[c]

Stamped(r, c) == r

\* intercept, before the handler; what is answered at once is logged in this step,
\* with the id that was set.
Enter(r, c) == /\ stamp' = [stamp EXCEPT ![c] = Stamped(r, c)]
               /\ UNCHANGED misnamed

\* The request a line names.
Named(c) == stamp[c]

\* tap and catchError, when the handler has ended.
Leave(r, c) == /\ misnamed' = misnamed \cup ({<<r, Named(c)>>} \ {<<r, r>>})
               /\ UNCHANGED stamp
=============================================================================
