-------------------------- MODULE AccountLifecycle --------------------------
(***************************************************************************)
(* What the user use cases promise about an account, whatever the order in *)
(* which their database calls interleave: an account is one user row and   *)
(* one preference row, it is registered, completed, closed preference      *)
(* first, and never comes back; two accounts never hold the same e-mail,   *)
(* not even a closed one and a new one.                                    *)
(* Module UserAccounts implements this specification.                      *)
(***************************************************************************)
CONSTANTS Ids,      \* primary keys of the Users table
          Emails,   \* e-mail addresses
          NULL      \* no e-mail: the account does not exist

VARIABLES status,   \* Ids -> Status
          email     \* Ids -> Emails or NULL

vars == <<status, email>>

\* "registered": user row without preference row; "closing": preference row
\* soft-deleted, user row still live.
Status == {"absent", "registered", "complete", "closing", "closed"}

Free(e) == \A u \in Ids : email[u] # e

Init == /\ status \in [Ids -> {"absent", "complete"}]
        /\ email \in [Ids -> Emails \cup {NULL}]
        /\ \A u \in Ids : email[u] = NULL <=> status[u] = "absent"
        /\ \A u, v \in Ids : email[u] = email[v] /\ email[u] # NULL => u = v

Register(u, e) == /\ status[u] = "absent"
                  /\ Free(e)
                  /\ status' = [status EXCEPT ![u] = "registered"]
                  /\ email' = [email EXCEPT ![u] = e]

Move(u, from, to) == /\ status[u] = from
                     /\ status' = [status EXCEPT ![u] = to]
                     /\ UNCHANGED email

Complete(u) == Move(u, "registered", "complete")
Suspend(u) == Move(u, "complete", "closing")
Close(u) == Move(u, "closing", "closed")

\* An update that was allowed before the account was closed may still land
\* on the closed row; one of an account that was never completed may not.
Rename(u, e) == /\ status[u] \in {"complete", "closing", "closed"}
                /\ Free(e)
                /\ email' = [email EXCEPT ![u] = e]
                /\ UNCHANGED status

Next == \E u \in Ids :
          \/ Complete(u) \/ Suspend(u) \/ Close(u)
          \/ \E e \in Emails : Register(u, e) \/ Rename(u, e)

Spec == Init /\ [][Next]_vars
=============================================================================
