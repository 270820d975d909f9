------------------------------- MODULE Webhooks -------------------------------
(***************************************************************************)
(* Webhooks: a hook is registered for a schema and kept in Redis for a     *)
(* day; an event pulls the hooks of its schema, which calls their          *)
(* endpoints and deletes them.  Events are handled one by one in an        *)
(* instance, but several instances pull at once.  The calls and the        *)
(* deletes of a pull are all started before any of them is awaited, the    *)
(* deletes are awaited first, and any query may reject.                    *)
(***************************************************************************)
EXTENDS Naturals

CONSTANTS Hooks,  \* ids of the hooks that may be registered
          Pulls   \* events that pull hooks, of one and the same schema

VARIABLES
  schema,   \* hook -> responseSchema, seen from the schema of the events
  due,      \* hooks whose sendAt has passed, or that have none
  saving,   \* hook -> query its registration waits for
  key,      \* hook -> its key in Redis
  pc,       \* pull -> what it waits for, or how it ended
  unread,   \* pull -> hooks that its list returned and that are still to get
  read,     \* pull -> hooks it has got
  empty,    \* pull -> hooks whose key had no value any more
  lost,     \* pull -> hooks whose GET rejected
  broken,   \* pulls of which an endpoint failed before the deletes were answered
  deletes,  \* pull -> hooks whose DEL was sent and not answered
  requests, \* pull -> hooks whose endpoint was called and has not answered
  called,   \* history: pull -> hooks whose endpoint it called
  expired,  \* history: hooks whose time to live ran out
  met,      \* history: pairs of pulls that ran at the same time
  ready     \* history: pull -> hooks that were in Redis and due when it listed, and
            \* have neither been called nor run out by then or since

hooks == <<schema, due>>
mem == <<unread, read, empty, lost, broken>>
history == <<called, expired, met, ready>>
vars == <<hooks, saving, key, pc, mem, deletes, requests, history>>

-----------------------------------------------------------------------------
(* Data *)

\* The pattern of list matches a schema that only starts like the event's;
\* a hook of any other schema is never listed and is left out.
SchemaKinds == {"same", "longer"}

Awaits == {"keys", "gets", "deletes", "requests"}
\* thrown: in the loop; cut: by a DEL; failed: by an endpoint; the handler logs
\* all of them.
Ends == {"done", "thrown", "cut", "failed", "crashed"}
Running(p) == pc[p] \in Awaits
WasCalled(h) == \E p \in Pulls : h \in called[p]

TypeOK == /\ schema \in [Hooks -> SchemaKinds]
          /\ due \subseteq Hooks
          /\ saving \in [Hooks -> {"idle", "set", "expire", "done", "failed"}]
          /\ key \in [Hooks -> {"absent", "bare", "expires"}]
          /\ pc \in [Pulls -> {"idle"} \cup Awaits \cup Ends]
          /\ \A S \in {unread, read, empty, lost} : S \in [Pulls -> SUBSET Hooks]
          /\ broken \subseteq Pulls
          /\ deletes \in [Pulls -> SUBSET Hooks]
          /\ requests \in [Pulls -> SUBSET Hooks]
          /\ called \in [Pulls -> SUBSET Hooks]
          /\ \A p \in Pulls : /\ requests[p] \subseteq called[p]
                              /\ pc[p] = "deletes" => deletes[p] # {}
          /\ expired \subseteq Hooks
          /\ met \subseteq SUBSET Pulls
          /\ ready \in [Pulls -> SUBSET Hooks]

Init == /\ schema \in [Hooks -> SchemaKinds]
        /\ due \in SUBSET Hooks
        /\ saving = [h \in Hooks |-> "idle"]
        /\ key = [h \in Hooks |-> "absent"]
        /\ pc = [p \in Pulls |-> "idle"]
        /\ unread = [p \in Pulls |-> {}]
        /\ read = [p \in Pulls |-> {}]
        /\ empty = [p \in Pulls |-> {}]
        /\ lost = [p \in Pulls |-> {}]
        /\ broken = {}
        /\ deletes = [p \in Pulls |-> {}]
        /\ requests = [p \in Pulls |-> {}]
        /\ called = [p \in Pulls |-> {}]
        /\ expired = {} /\ met = {}
        /\ ready = [p \in Pulls |-> {}]

-----------------------------------------------------------------------------
(* Registration and time *)

Saves(h, from, to) == saving[h] = from /\ saving' = [saving EXCEPT ![h] = to]

\* registerEventHook; a query without a schema is refused and changes nothing.
Register(h) == /\ Saves(h, "idle", "set")
               /\ UNCHANGED <<hooks, key, pc, mem, deletes, requests, history>>

SetKey(h) == /\ Saves(h, "set", "expire")
             /\ key' = [key EXCEPT ![h] = "bare"]
             /\ UNCHANGED <<hooks, pc, mem, deletes, requests, history>>

\* EXPIRE of a key that a pull has deleted meanwhile does nothing.
ExpireKey(h) == /\ Saves(h, "expire", "done")
                /\ key' = [key EXCEPT ![h] = IF @ = "absent" THEN @ ELSE "expires"]
                /\ UNCHANGED <<hooks, pc, mem, deletes, requests, history>>

FailSave(h) == /\ Saves(h, "set", "failed") \/ Saves(h, "expire", "failed")
               /\ UNCHANGED <<hooks, key, pc, mem, deletes, requests, history>>

\* sendAt passes.
BecomeDue(h) == /\ h \notin due
                /\ due' = due \cup {h}
                /\ UNCHANGED <<schema, saving, key, pc, mem, deletes, requests, history>>

Settled(done) == ready' = [p \in Pulls |-> ready[p] \ done]

\* The time to live runs out.
Expire(h) == /\ key[h] = "expires"
             /\ key' = [key EXCEPT ![h] = "absent"]
             /\ expired' = expired \cup {h}
             /\ Settled({h})
             /\ UNCHANGED <<hooks, saving, pc, mem, deletes, requests, called, met>>

-----------------------------------------------------------------------------
(* pullHook *)

Start(p) == /\ pc[p] = "idle"
            /\ pc' = [pc EXCEPT ![p] = "keys"]
            /\ met' = met \cup {{p, q} : q \in {o \in Pulls : Running(o)}}
            /\ UNCHANGED <<hooks, saving, key, mem, deletes, requests, called, expired, ready>>

Keys(p) == /\ pc[p] = "keys"
           /\ LET found == {h \in Hooks : key[h] # "absent"} IN
              /\ pc' = [pc EXCEPT ![p] = IF found = {} THEN "done" ELSE "gets"]
              /\ unread' = [unread EXCEPT ![p] = found]
              /\ ready' = [ready EXCEPT ![p] = {h \in found \cap due : ~WasCalled(h)}]
           /\ UNCHANGED <<hooks, saving, key, read, empty, lost, broken, deletes, requests,
                          called, expired, met>>

\* One of the GETs is answered, perhaps by null, or rejects.
Get(p) ==
  /\ pc[p] = "gets"
  /\ \E h \in unread[p] :
       /\ unread' = [unread EXCEPT ![p] = @ \ {h}]
       /\ \/ key[h] # "absent" /\ read' = [read EXCEPT ![p] = @ \cup {h}] /\ UNCHANGED <<empty, lost>>
          \/ key[h] = "absent" /\ empty' = [empty EXCEPT ![p] = @ \cup {h}] /\ UNCHANGED <<read, lost>>
          \/ lost' = [lost EXCEPT ![p] = @ \cup {h}] /\ UNCHANGED <<read, empty>>
  /\ UNCHANGED <<hooks, saving, key, pc, broken, deletes, requests, history>>

\* Mutant: the comparison with sendAt is the wrong way round.
UndueEntries(p, seen) == {h \in seen : h \notin due \/ h \in empty[p]}

\* The entries whose sendAt has passed; a key without value has none.
DueEntries(p, seen) == {h \in seen : h \in due \/ h \in empty[p]}

\* Mutants: the delete stands outside the condition on sendAt, or only forgets
\* the keys that are gone anyway.
HastyToDelete(p, seen) == seen
EmptyToDelete(p, seen) == DueEntries(p, seen) \cap empty[p]

ToDelete(p, seen) == DueEntries(p, seen)

\* The variables of the call are gone.
Forget(p) == /\ unread' = [unread EXCEPT ![p] = {}]
             /\ read' = [read EXCEPT ![p] = {}]
             /\ empty' = [empty EXCEPT ![p] = {}]
             /\ lost' = [lost EXCEPT ![p] = {}]
             /\ broken' = broken \ {p}

\* The loop, without an await: the endpoint of every due hook is called and its
\* DEL is sent.  An entry whose GET rejected has no key and getId throws: the
\* entries after it, in the order of KEYS, are left.
Loop(p) ==
  /\ pc[p] = "gets" /\ unread[p] = {}
  /\ \E seen \in SUBSET (read[p] \cup empty[p]) :
       LET calls == DueEntries(p, seen) \cap read[p]
           dels == ToDelete(p, seen)
       IN /\ lost[p] = {} => seen = read[p] \cup empty[p]
          /\ requests' = [requests EXCEPT ![p] = calls]
          /\ called' = [called EXCEPT ![p] = calls]
          /\ Settled(calls)
          /\ deletes' = [deletes EXCEPT ![p] = dels]
          /\ pc' = [pc EXCEPT ![p] = IF lost[p] # {} THEN "thrown"
                                       ELSE IF dels # {} THEN "deletes"
                                       ELSE IF calls # {} THEN "requests"
                                       ELSE "done"]
  /\ Forget(p)
  /\ UNCHANGED <<hooks, saving, key, expired, met>>

\* The key to delete is made of the event's schema and what is left of the
\* listed key: that of a hook of a longer schema is nobody's.
KeyGone(h) == key' = IF schema[h] = "same" THEN [key EXCEPT ![h] = "absent"] ELSE key

Deleted(p, h) == /\ h \in deletes[p]
                 /\ deletes' = [deletes EXCEPT ![p] = @ \ {h}]
                 /\ UNCHANGED <<hooks, saving, mem, requests, history>>

\* A DEL is answered; after the last one the endpoints are awaited.
Delete(p, h) ==
  /\ Deleted(p, h)
  /\ KeyGone(h)
  /\ pc' = [pc EXCEPT ![p] = IF @ # "deletes" \/ deletes[p] # {h} THEN @
                               ELSE IF p \in broken THEN "failed"
                               ELSE IF requests[p] = {} THEN "done" ELSE "requests"]

\* Mutant: the rejection wakes nobody.
SilentRejectDelete(p, h) == Deleted(p, h) /\ (KeyGone(h) \/ UNCHANGED key) /\ UNCHANGED pc

\* A DEL rejects, executed or not: the others go on, nobody waits any more.
RejectDelete(p, h) ==
  /\ Deleted(p, h)
  /\ KeyGone(h) \/ UNCHANGED key
  /\ pc' = [pc EXCEPT ![p] = IF @ = "deletes" THEN "cut" ELSE @]

Answered(p, h) == /\ h \in requests[p]
                  /\ requests' = [requests EXCEPT ![p] = @ \ {h}]
                  /\ UNCHANGED <<hooks, saving, key, deletes, history>>

Respond(p, h) ==
  /\ Answered(p, h)
  /\ pc' = [pc EXCEPT ![p] = IF @ = "requests" /\ requests[p] = {h} THEN "done" ELSE @]
  /\ UNCHANGED mem

\* The endpoint fails and so do the retries.  Where the requests are not awaited
\* yet, or never, this is an unhandled rejection and the program closes: Crash
\* may follow.
FailRequest(p, h) ==
  /\ Answered(p, h)
  /\ pc' = [pc EXCEPT ![p] = IF @ = "requests" THEN "failed" ELSE @]
  /\ broken' = broken \cup (IF pc[p] = "deletes" THEN {p} ELSE {})
  /\ UNCHANGED <<unread, read, empty, lost>>

\* KEYS rejects.
FailKeys(p) == /\ pc[p] = "keys"
               /\ pc' = [pc EXCEPT ![p] = "thrown"]
               /\ UNCHANGED <<hooks, saving, key, mem, deletes, requests, history>>

\* The instance dies; what it sent to Redis is on its way.
Crash(p) == /\ Running(p)
            /\ pc' = [pc EXCEPT ![p] = "crashed"]
            /\ Forget(p)
            /\ requests' = [requests EXCEPT ![p] = {}]
            /\ ready' = [ready EXCEPT ![p] = {}]
            /\ UNCHANGED <<hooks, saving, key, deletes, called, expired, met>>

-----------------------------------------------------------------------------
Saving(h) == Register(h) \/ SetKey(h) \/ ExpireKey(h) \/ FailSave(h)

Step(p) == \/ Keys(p) \/ FailKeys(p) \/ Get(p) \/ Loop(p)
           \/ \E h \in Hooks : \/ Delete(p, h) \/ RejectDelete(p, h)
                               \/ Respond(p, h) \/ FailRequest(p, h)

\* Every hook was pulled or has run out.
Idle == /\ \A p \in Pulls : pc[p] \in Ends /\ deletes[p] = {} /\ requests[p] = {}
        /\ UNCHANGED vars

Next == \/ \E h \in Hooks : Saving(h) \/ BecomeDue(h) \/ Expire(h)
        \/ \E p \in Pulls : Start(p) \/ Step(p) \/ Crash(p)
        \/ Idle

Spec == Init /\ [][Next]_vars

-----------------------------------------------------------------------------
(* Properties *)

Cut(p) == pc[p] \in {"thrown", "cut", "crashed"}

\* A hook that was stored and is not in Redis any more was called, or its day
\* was over: no pull forgets a hook it did not call, whatever fails.
DeletedWasCalled ==
  \A h \in Hooks : saving[h] \in {"expire", "done"} /\ key[h] = "absent" =>
                     WasCalled(h) \/ h \in expired

\* Two pulls call the same hook only when they overlapped or a Redis query of
\* one failed: deletes that are sent along with the calls do their work.
CalledTwiceHasACause ==
  \A p, q \in Pulls : \A h \in called[p] \cap called[q] :
    p # q /\ schema[h] = "same" => {p, q} \in met \/ Cut(p) \/ Cut(q)

\* A hook that is due when a pull lists it is called, by this pull before it goes on
\* or by another, unless it runs out before it is read or the loop throws.
DueHooksAreCalled ==
  \A p \in Pulls : pc[p] \in {"deletes", "requests", "done", "cut", "failed"} => ready[p] = {}
=============================================================================
