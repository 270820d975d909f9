-------------------------- MODULE SubscriptionsProofs --------------------------
(***************************************************************************)
(* The safety properties of Subscriptions, for any sockets and any calls.  *)
(* What they rest on: of two calls of one socket that run at the same      *)
(* time, both know it; so what a call that knows of no other has read      *)
(* still holds when it acts on it.                                         *)
(***************************************************************************)
EXTENDS Subscriptions, FiniteSetTheorems, TLAPS

\* What a task waits for and holds on to: until it starts, nothing.
Locals == \A t \in Tasks :
            /\ pc[t] = "idle" <=> job[t] = NULL
            /\ pc[t] = "idle" => mem[t] = Blank
            /\ job[t] # NULL /\ job[t].kind # "list" => job[t].sub \in Subs
            /\ pc[t] \in {"update", "load", "delete"} =>
                 /\ mem[t].doc \in Tasks /\ docs[mem[t].doc] # NULL
                 /\ job[mem[t].doc].sub = job[t].sub

\* A document carries the subscriptionId of the save that inserted it.
Origin == \A d \in Tasks : docs[d] # NULL =>
            /\ job[d] # NULL /\ job[d].kind \in Saves
            /\ Stored(d) => docs[d].sub = job[d].sub

\* Tasks of one socket that run at the same time know it.
Overlap == \A t, q \in Tasks :
             t # q /\ Running(t) /\ Running(q) /\ job[t].sub = job[q].sub => {t, q} \subseteq raced

\* A save that inserts beside another document of its socket was overlapped by the save
\* of that one.
Inserts == \A d, t \in Tasks :
             /\ d # t /\ Stored(d)
             /\ Stored(t) \/ pc[t] = "insert"
             /\ job[d].sub = job[t].sub
             => {d, t} \subseteq raced

\* Somebody asked for the socket to listen.
Asked(s) == \E t \in Tasks : On(t, s) /\ job[t].kind \in Saves /\ job[t].flag

\* Only then does a document or what a save has read back say so.
Wanted == /\ \A d \in Tasks : Stored(d) /\ docs[d].listen => Asked(docs[d].sub)
          /\ \A t \in Tasks : job[t] # NULL /\ job[t].kind \in Saves /\ mem[t].val.listen =>
               Asked(job[t].sub)

\* Between SET and EXPIRE a task is there, or it was cut.
Timed == \A s \in Subs : cache[s] # NULL /\ ~cache[s].expires =>
           \E t \in Tasks : On(t, s) /\ pc[t] \in {"expire", "failed"}

\* A delete of the socket that was cut or overlapped, and one that is about to remove
\* the key.
Torn(s) == \E t \in Tasks : On(t, s) /\ job[t].kind \in Deletes /\ (t \in raced \/ pc[t] = "failed")
Uncaching(s) == \E t \in Tasks : On(t, s) /\ job[t].kind \in Deletes /\ pc[t] = "uncache"

\* What is cached, or about to be, has a document, or had one until such a delete.
Backed == \A s \in Subs :
            /\ cache[s] # NULL => DocsOf(s) # {} \/ Torn(s) \/ Uncaching(s)
            /\ \A t \in Tasks : On(t, s) /\ pc[t] \in {"update", "load", "set"} =>
                 DocsOf(s) # {} \/ Torn(s)

\* The key agrees with a document of its socket.
Agrees(s) == \E d \in DocsOf(s) : cache[s].sub = s /\ cache[s].listen = docs[d].listen

\* The task that makes it agree again.
Mending(s) == \E t \in Tasks : On(t, s) /\ \/ job[t].kind \in Saves /\ pc[t] \in {"load", "set"}
                                           \/ job[t].kind \in Deletes /\ pc[t] = "uncache"

\* Where no task overlapped or failed, what is cached is the document, and so is what
\* a task holds of it.
Fresh == \A s \in Subs : Orderly(s) =>
           /\ cache[s] # NULL => Agrees(s) \/ Mending(s)
           /\ \A t \in Tasks : On(t, s) =>
                /\ pc[t] \in {"update", "load"} => mem[t].doc \in DocsOf(s)
                /\ pc[t] = "set" => \E d \in DocsOf(s) : mem[t].val = docs[d]

Parts == /\ Locals /\ Origin /\ Overlap /\ Inserts /\ Wanted /\ ListenersAsked /\ Timed
         /\ Backed /\ Fresh
Inv == TypeOK /\ Parts

-----------------------------------------------------------------------------
(* Types *)

\* No call has been made.
LEMMA InitInv == Init => Inv
<1> SUFFICES ASSUME Init PROVE Inv
  OBVIOUS
<1> USE NullAssumption DEF Init
<1>1. TypeOK
  BY DEF TypeOK, Blank, Memory, DefaultEntity, Entity
<1>2. Locals /\ Origin /\ Overlap /\ Inserts
  BY DEF Locals, Origin, Overlap, Inserts, Running, Queries, Stored
<1>3. Wanted /\ ListenersAsked /\ Timed
  BY DEF Wanted, ListenersAsked, Timed, Stored
<1>4. Backed /\ Fresh
  BY DEF Backed, Fresh, On
<1> QED
  BY <1>1, <1>2, <1>3, <1>4 DEF Inv, Parts

\* What a document or an entry is, is neither null nor deleted.
LEMMA Different ==
  /\ NULL \notin Subs /\ GONE \notin Subs /\ NULL \notin Tasks /\ NULL # GONE
  /\ \A e \in Entity : e # NULL /\ e # GONE
  /\ \A e \in Entry : e # NULL
  /\ \A j \in Job : j # NULL
BY NullAssumption

\* A task begins: with the first query of a call that is well formed.
LEMMA BeginStarts ==
  ASSUME TypeOK, NEW t \in Tasks, Begin(t)
  PROVE  /\ \E j \in Job, p \in {"find", "read", "keys"} :
              Start(t, j, p) /\ (j.kind # "list" => j.sub \in Subs)
         /\ room' \subseteq room
         /\ \A s \in room' : conn[s] = "open" => conn'[s] = "open"
         /\ conn' \in [Subs -> {"new", "open", "closed"}]
<1>1. ASSUME NEW s \in Subs, Connect(t, s)
      PROVE  /\ Start(t, Call("connect", s, FALSE), "find")
             /\ room' \subseteq room
             /\ \A o \in room' : conn[o] = "open" => conn'[o] = "open"
             /\ conn' \in [Subs -> {"new", "open", "closed"}]
  BY <1>1 DEF Connect, TypeOK
<1>2. ASSUME NEW s \in Subs, Reconnect(t, s)
      PROVE  /\ \E l \in BOOLEAN : Start(t, Call("reconnect", s, l), "find")
             /\ UNCHANGED <<conn, room>>
  BY <1>2 DEF Reconnect
<1>3. ASSUME NEW s \in Subs, Disconnect(t, s)
      PROVE  /\ Start(t, Call("disconnect", s, FALSE), "find")
             /\ room' \subseteq room
             /\ \A o \in room' : conn[o] = "open" => conn'[o] = "open"
             /\ conn' \in [Subs -> {"new", "open", "closed"}]
  BY <1>3 DEF Disconnect, TypeOK
<1>4. \A s \in Subs, l \in BOOLEAN, k \in Saves \cup Deletes \cup {"find"} :
        /\ Call(k, s, l) \in Job
        /\ Call(k, s, l).sub \in Subs
  BY DEF Call, Job
<1>5. \A l \in BOOLEAN : Call("list", NULL, l) \in Job /\ Call("list", NULL, l).kind = "list"
  BY DEF Call, Job
<1>6. CASE \E s \in Subs : Connect(t, s)
  BY <1>1, <1>4, <1>6 DEF Saves
<1>7. CASE \E s \in Subs : Reconnect(t, s)
  BY <1>2, <1>4, <1>7 DEF Saves, TypeOK
<1>8. CASE \E s \in Subs : Disconnect(t, s)
  BY <1>3, <1>4, <1>8 DEF Deletes
<1>9. CASE Request(t)
  BY <1>4, <1>5, <1>9 DEF Request, Saves, Deletes, TypeOK
<1> QED
  BY <1>6, <1>7, <1>8, <1>9 DEF Begin

\* A task goes on.
LEMMA GotoType ==
  ASSUME TypeOK, NEW t \in Tasks, NEW p \in Queries \cup {"done", "failed"}, NEW m \in Memory,
         Goto(t, p, m)
  PROVE  /\ job' \in [Tasks -> Job \cup {NULL}]
         /\ pc' \in [Tasks -> Queries \cup {"idle", "done", "failed"}]
         /\ mem' \in [Tasks -> Memory]
         /\ raced' \subseteq Tasks
BY DEF Goto, TypeOK

LEMMA BlankType == Blank \in Memory /\ DefaultEntity \in Entity
BY DEF Blank, Memory, DefaultEntity, Entity

\* A step keeps the types.
LEMMA StepType == TypeOK /\ Locals /\ [Next]_vars => TypeOK'
<1> SUFFICES ASSUME TypeOK, Locals, [Next]_vars PROVE TypeOK'
  OBVIOUS
<1> USE GotoType, BlankType DEF stores, sockets, At
<1>a. \A t \in Tasks : /\ mem[t] \in Memory
                       /\ docs[t] \in Entity \cup {NULL, GONE}
  BY DEF TypeOK
<1>b. \A t \in Tasks : pc[t] # "idle" => job[t] \in Job
  BY DEF TypeOK, Locals
<1>1. ASSUME NEW t \in Tasks, Begin(t) PROVE TypeOK'
  <2>1. PICK j \in Job, p \in {"find", "read", "keys"} : Start(t, j, p)
    BY <1>1, BeginStarts
  <2>2. UNCHANGED <<stores, mem>> /\ raced' \subseteq Tasks
    BY <2>1 DEF Start, TypeOK
  <2>3. job' \in [Tasks -> Job \cup {NULL}] /\ pc' \in [Tasks -> Queries \cup {"idle", "done", "failed"}]
    BY <2>1 DEF Start, TypeOK, Queries
  <2>4. room' \subseteq room /\ conn' \in [Subs -> {"new", "open", "closed"}]
    BY <1>1, BeginStarts
  <2> QED
    BY <2>2, <2>3, <2>4 DEF TypeOK
<1>2. ASSUME NEW t \in Tasks, Find(t) PROVE TypeOK'
  <2>1. \E p \in Queries, m \in Memory : Goto(t, p, m)
    BY <1>2, <1>a DEF Find, Memory, Queries, DocsOf
  <2> QED
    BY <2>1, <1>2 DEF Find, TypeOK
<1>3. ASSUME NEW t \in Tasks, Insert(t) PROVE TypeOK'
  <2>1. \E p \in Queries, m \in Memory : Goto(t, p, m)
    BY <1>3, <1>a DEF Insert, Memory, Queries
  <2>2. docs' \in [Tasks -> Entity \cup {NULL, GONE}]
    BY <1>3, <1>b DEF Insert, TypeOK, Entity, Job
  <2> QED
    BY <2>1, <2>2, <1>3 DEF Insert, TypeOK
<1>4. ASSUME NEW t \in Tasks, Update(t) PROVE TypeOK'
  <2>1. \E p \in Queries, m \in Memory : Goto(t, p, m)
    BY <1>4, <1>a DEF Update, Queries
  <2>2. docs' \in [Tasks -> Entity \cup {NULL, GONE}]
    BY <1>4, <1>b, <1>a DEF Update, TypeOK, Entity, Job, Locals, Stored
  <2> QED
    BY <2>1, <2>2, <1>4 DEF Update, TypeOK
<1>5. ASSUME NEW t \in Tasks, Load(t) PROVE TypeOK'
  <2>1. mem[t].doc \in Tasks
    BY <1>5 DEF Load, Locals
  <2>2. \E p \in Queries, m \in Memory : Goto(t, p, m)
    BY <1>5, <2>1, <1>a DEF Load, Queries, Stored, Memory
  <2> QED
    BY <2>2, <1>5 DEF Load, TypeOK
<1>6. ASSUME NEW t \in Tasks, SetKey(t) PROVE TypeOK'
  <2>1. \E p \in Queries, m \in Memory : Goto(t, p, m)
    BY <1>6, <1>a DEF SetKey, Queries
  <2>2. cache' \in [Subs -> Entry \cup {NULL}]
    BY <1>6, <1>a DEF SetKey, TypeOK, Entry, Entity, Memory
  <2> QED
    BY <2>1, <2>2, <1>6 DEF SetKey, TypeOK
<1>7. ASSUME NEW t \in Tasks, ExpireKey(t) PROVE TypeOK'
  <2>1. \E p \in Queries \cup {"done"}, m \in Memory : Goto(t, p, m)
    BY <1>7, <1>a DEF ExpireKey, Queries, Return
  <2>2. cache' \in [Subs -> Entry \cup {NULL}]
    BY <1>7 DEF ExpireKey, TypeOK, Entry
  <2>3. room' \subseteq Subs
    BY <1>7, <1>b, Different DEF ExpireKey, TypeOK, Locals, Saves, Queries
  <2> QED
    BY <2>1, <2>2, <2>3, <1>7 DEF ExpireKey, TypeOK
<1>8. ASSUME NEW t \in Tasks, DeleteDoc(t) \/ Uncache(t) \/ Announce(t) \/ Reply(t) PROVE TypeOK'
  <2>1. \E p \in Queries \cup {"done"}, m \in Memory : Goto(t, p, m)
    BY <1>8 DEF DeleteDoc, Uncache, Announce, Reply, Queries, Return
  <2> QED
    BY <2>1, <1>8 DEF DeleteDoc, Uncache, Announce, Reply, TypeOK
<1>9. ASSUME NEW t \in Tasks, ReadKey(t) PROVE TypeOK'
  <2>1. job[t].sub \in Subs
    BY <1>9, <1>b, Different DEF ReadKey, Locals
  <2>2. \E p \in Queries, m \in Memory : Goto(t, p, m)
    BY <1>9, <2>1, <1>a DEF ReadKey, Queries, Memory, TypeOK, Entry, Entity
  <2> QED
    BY <2>2, <1>9 DEF ReadKey, TypeOK
<1>10. ASSUME NEW t \in Tasks, Fetch(t) PROVE TypeOK'
  <2>1. \E p \in Queries \cup {"done"}, m \in Memory : Goto(t, p, m)
    BY <1>10, <1>a DEF Fetch, Queries, Memory, Return, DocsOf, Stored
  <2> QED
    BY <2>1, <1>10 DEF Fetch, TypeOK
<1>11. ASSUME NEW t \in Tasks, Keys(t) \/ FindMany(t) PROVE TypeOK'
  <2>1. \E p \in Queries, m \in Memory : Goto(t, p, m)
    BY <1>11, <1>a DEF Keys, FindMany, Queries, Memory, Entity, Stored
  <2> QED
    BY <2>1, <1>11 DEF Keys, FindMany, TypeOK
<1>12. ASSUME NEW t \in Tasks, GetKey(t) \/ LoseKey(t) PROVE TypeOK'
  <2>1. \E s \in mem[t].keys : \E id \in Subs \cup {NULL} : Got(t, s, id)
    BY <1>12, <1>a DEF GetKey, LoseKey, TypeOK, Memory, Entry
  <2>2. PICK s \in mem[t].keys, id \in Subs \cup {NULL} : Got(t, s, id)
    BY <2>1
  <2> DEFINE m == [mem[t] EXCEPT !.keys = mem[t].keys \ {s}, !.listed = mem[t].listed \cup {id}]
  <2>3. m \in Memory
    BY <1>a DEF Memory
  <2>4. Goto(t, "gets", m) \/ Goto(t, "reply", m) \/ Goto(t, "many", m)
    BY <2>2, Zenon DEF Got, UseCache
  <2>5. \E p \in Queries : Goto(t, p, m)
    BY <2>4 DEF Queries
  <2> QED
    BY <2>3, <2>5, <1>12 DEF GetKey, LoseKey, TypeOK
<1>13. ASSUME NEW t \in Tasks, Abort(t) PROVE TypeOK'
  BY <1>13 DEF Abort, TypeOK
<1>14. ASSUME NEW s \in Subs, Expire(s) PROVE TypeOK'
  BY <1>14 DEF Expire, TypeOK
<1>15. CASE Crash
  BY <1>15 DEF Crash, TypeOK
<1>16. CASE UNCHANGED vars
  BY <1>16 DEF vars, TypeOK
<1> QED
  BY <1>1, <1>2, <1>3, <1>4, <1>5, <1>6, <1>7, <1>8, <1>9, <1>10, <1>11, <1>12, <1>13, <1>14,
    <1>15, <1>16 DEF Next, Step, AllDone

-----------------------------------------------------------------------------
(* What lasts *)

\* The other steps of a task, which look at no key and no document of its socket.
Quiet1(t) == /\ pc[t] \in {"announce", "fetch", "keys", "gets", "many", "reply"}
             /\ \E p \in {"gets", "many", "reply", "done"}, m \in Memory :
                  Goto(t, p, m) /\ m.val \in {mem[t].val, DefaultEntity}
             /\ UNCHANGED <<stores, sockets>>

\* A call is what it was made for, and what happened to it cannot be undone.
Lasting == /\ \A t \in Tasks : job[t] # NULL => job'[t] = job[t]
           /\ raced \subseteq raced'
           /\ \A t \in Tasks : pc[t] = "failed" => pc'[t] = "failed"

LEMMA QuietSteps ==
  ASSUME TypeOK, NEW t \in Tasks,
         Announce(t) \/ Keys(t) \/ GetKey(t) \/ LoseKey(t) \/ FindMany(t) \/ Reply(t)
           \/ (Fetch(t) /\ pc'[t] # "set")
  PROVE  Quiet1(t)
<1> USE BlankType DEF At
<1>a. mem[t] \in Memory /\ (\A d \in Tasks : docs[d] \in Entity \cup {NULL, GONE})
      /\ (\A s \in Subs : cache[s] \in Entry \cup {NULL})
  BY DEF TypeOK
<1>1. CASE Announce(t) \/ Reply(t)
  BY <1>1 DEF Announce, Reply, Return, Quiet1, Blank
<1>2. CASE Keys(t)
  <2> DEFINE m == [mem[t] EXCEPT !.keys = {s \in Subs : cache[s] # NULL}]
  <2>1. m \in Memory /\ m.val = mem[t].val
    BY <1>a DEF Memory
  <2> QED
    BY <2>1, <1>2 DEF Keys, Quiet1
<1>3. CASE FindMany(t)
  <2> DEFINE m == [mem[t] EXCEPT !.listed = {docs[d].sub : d \in {e \in Tasks : Stored(e)}}]
  <2>1. m \in Memory /\ m.val = mem[t].val
    BY <1>a DEF Memory, Stored, Entity
  <2> QED
    BY <2>1, <1>3 DEF FindMany, Quiet1
<1>4. CASE GetKey(t) \/ LoseKey(t)
  <2>1. PICK s \in mem[t].keys : \E id \in Subs \cup {NULL} : Got(t, s, id)
    BY <1>4, <1>a DEF GetKey, LoseKey, Memory, Entry
  <2>2. PICK id \in Subs \cup {NULL} : Got(t, s, id)
    BY <2>1
  <2> DEFINE m == [mem[t] EXCEPT !.keys = mem[t].keys \ {s}, !.listed = mem[t].listed \cup {id}]
  <2>3. m \in Memory /\ m.val = mem[t].val
    BY <1>a DEF Memory
  <2>4. Goto(t, "gets", m) \/ Goto(t, "reply", m) \/ Goto(t, "many", m)
    BY <2>2, Zenon DEF Got, UseCache
  <2>5. pc[t] = "gets" /\ UNCHANGED <<stores, sockets>>
    BY <1>4 DEF GetKey, LoseKey
  <2> HIDE DEF m
  <2> QED
    BY <2>3, <2>4, <2>5 DEF Quiet1
<1>5. CASE Fetch(t) /\ pc'[t] # "set"
  <2>1. Return(t)
    BY <1>5 DEF Fetch, Goto, TypeOK
  <2> QED
    BY <2>1, <1>5 DEF Fetch, Return, Quiet1, Blank
<1> QED
  BY <1>1, <1>2, <1>3, <1>4, <1>5

\* Calls, overlaps and failures last, and so does what they explain.
LEMMA LastingSteps ==
  ASSUME TypeOK, Locals, [Next]_vars
  PROVE  Lasting
<1> USE DEF Lasting, At
<1>1. ASSUME NEW t \in Tasks, Begin(t) PROVE Lasting
  <2>1. PICK j \in Job, p \in {"find", "read", "keys"} : Start(t, j, p)
    BY <1>1, BeginStarts
  <2> QED
    BY <2>1 DEF Start, TypeOK, Locals
<1>2. ASSUME NEW t \in Tasks, NEW p, NEW m, Running(t), Goto(t, p, m) PROVE Lasting
  BY <1>2 DEF Goto, TypeOK, Running, Queries
<1>3. ASSUME NEW t \in Tasks, Step(t) \/ Abort(t) \/ LoseKey(t) PROVE Lasting
  <2>0. CASE Find(t)
    <3>1. Running(t) /\ \E p, m : Goto(t, p, m)
      BY <2>0, Zenon DEF Find, Running, Queries
    <3> QED
      BY <3>1, <1>2
  <2>1. CASE Insert(t) \/ Update(t) \/ Load(t)
    BY <2>1, <1>2 DEF Insert, Update, Load, Running, Queries
  <2>2. CASE SetKey(t) \/ ExpireKey(t)
    BY <2>2, <1>2 DEF SetKey, ExpireKey, Return, Running, Queries
  <2>3. CASE DeleteDoc(t) \/ Uncache(t)
    BY <2>3, <1>2 DEF DeleteDoc, Uncache, Return, Running, Queries
  <2>4. CASE ReadKey(t)
    BY <2>4, <1>2 DEF ReadKey, Running, Queries
  <2>5. CASE Fetch(t)
    <3>1. Running(t) /\ \E p, m : Goto(t, p, m)
      BY <2>5, Zenon DEF Fetch, Return, Running, Queries
    <3> QED
      BY <3>1, <1>2
  <2>6. CASE Announce(t) \/ Keys(t) \/ GetKey(t) \/ LoseKey(t) \/ FindMany(t) \/ Reply(t)
    BY <2>6, <1>2, QuietSteps DEF Quiet1, Running, Queries
  <2>7. CASE Abort(t)
    BY <2>7, <1>2 DEF Abort
  <2> QED
    BY <1>3, <2>0, <2>1, <2>2, <2>3, <2>4, <2>5, <2>6, <2>7 DEF Step
<1>4. CASE Crash
  BY <1>4 DEF Crash, TypeOK
<1>5. CASE (\E s \in Subs : Expire(s)) \/ UNCHANGED vars
  BY <1>5 DEF Expire, vars
<1> QED
  BY <1>1, <1>3, <1>4, <1>5 DEF Next, AllDone

LEMMA Explained ==
  ASSUME TypeOK, Lasting, NEW s \in Subs
  PROVE  /\ \A t \in Tasks : On(t, s) => On(t, s)'
         /\ Asked(s) => Asked(s)'
         /\ Torn(s) => Torn(s)'
         /\ Orderly(s)' => Orderly(s)
BY DEF Lasting, On, Asked, Torn, Orderly, TypeOK

\* A task of a socket has been made and runs.
LEMMA Own ==
  ASSUME TypeOK, Locals, NEW t \in Tasks, Running(t), job[t].kind # "list"
  PROVE  job[t] \in Job /\ job[t].sub \in Subs /\ On(t, job[t].sub)
BY DEF TypeOK, Locals, Running, Queries, On

\* Two tasks that run for one socket know of each other.
LEMMA Together ==
  ASSUME TypeOK, Locals, Overlap, NEW t \in Tasks, NEW q \in Tasks, t # q, Running(t), Running(q),
         job[t].kind # "list", job[q].sub = job[t].sub
  PROVE  /\ {t, q} \subseteq raced
         /\ On(q, job[t].sub)
         /\ ~Orderly(job[t].sub)
         /\ job[t].kind \in Deletes \/ job[q].kind \in Deletes => Torn(job[t].sub)
<1>1. {t, q} \subseteq raced
  BY DEF Overlap
<1>2. On(t, job[t].sub) /\ On(q, job[t].sub)
  BY Own, Different DEF On, Locals, Running, Queries, TypeOK
<1> QED
  BY <1>1, <1>2 DEF Orderly, Torn

-----------------------------------------------------------------------------
(* Steps *)

\* A task starts: it has stored nothing, and has raced if its socket had a task running.
LEMMA StepBegin ==
  ASSUME Inv, TypeOK', Lasting, NEW t \in Tasks, Begin(t)
  PROVE  Parts'
<1> USE Different, BlankType DEF Inv, Parts, At, stores, sockets
<1>a. \A s \in Subs : (Asked(s) => Asked(s)') /\ (Torn(s) => Torn(s)') /\ (Orderly(s)' => Orderly(s))
  BY Explained
<1>b. \A s \in Subs, q \in Tasks : On(q, s) => On(q, s)'
  BY Explained
<1>p. PICK j \in Job, p \in {"find", "read", "keys"} :
        Start(t, j, p) /\ (j.kind # "list" => j.sub \in Subs)
  BY BeginStarts
<1>e. /\ UNCHANGED <<docs, cache, mem>>
      /\ pc[t] = "idle" /\ job[t] = NULL /\ mem[t] = Blank
      /\ job'[t] = j /\ pc'[t] = p
      /\ \A q \in Tasks : q # t => pc'[q] = pc[q] /\ job'[q] = job[q]
      /\ raced \subseteq raced'
      /\ \A q \in Tasks : q # t /\ Running(q) /\ job[q].sub = j.sub => {t, q} \subseteq raced'
      /\ room' \subseteq room
      /\ \A s \in room' : conn[s] = "open" => conn'[s] = "open"
  <2>1. raced' = raced \cup {q \in Tasks : Running(q) /\ Meet(job[q], j)}
                    \cup {q \in {t} : \E o \in Tasks : Running(o) /\ Meet(j, job[o])}
    BY <1>p DEF Start
  <2>2. \A q \in Tasks : Running(q) /\ job[q].sub = j.sub => {t, q} \subseteq raced'
    BY <2>1 DEF Meet
  <2>3. room' \subseteq room /\ \A s \in room' : conn[s] = "open" => conn'[s] = "open"
    BY BeginStarts
  <2>4. /\ UNCHANGED <<docs, cache, mem>>
        /\ pc[t] = "idle" /\ job'[t] = j /\ pc'[t] = p
        /\ \A q \in Tasks : q # t => pc'[q] = pc[q] /\ job'[q] = job[q]
    BY <1>p DEF Start, TypeOK
  <2>5. job[t] = NULL /\ mem[t] = Blank
    BY <2>4 DEF Locals
  <2> QED
    BY <2>1, <2>2, <2>3, <2>4, <2>5
<1>1. Locals'
  BY <1>e, <1>p DEF Locals, Origin
<1>2. Origin'
  BY <1>e DEF Origin, Stored
<1>3. Overlap'
  BY <1>e DEF Overlap, Running
<1>4. Inserts'
  BY <1>e DEF Inserts, Origin, Stored
<1>5. Wanted'
  <2>1. ASSUME NEW d \in Tasks, Stored(d)', docs'[d].listen
        PROVE  Asked(docs[d].sub)' /\ docs'[d] = docs[d]
    <3>1. Stored(d) /\ docs'[d] = docs[d] /\ docs[d].listen /\ docs[d].sub \in Subs
      BY <1>e, <2>1 DEF Stored, Origin, Locals, Saves
    <3> DEFINE s == docs[d].sub
    <3>2. Asked(s)
      BY <3>1 DEF Wanted
    <3> QED
      BY <1>a, <1>e, <3>1, <3>2 DEF Asked, On
  <2>2. ASSUME NEW q \in Tasks, job'[q] # NULL, job'[q].kind \in Saves, mem'[q].val.listen
        PROVE  Asked(job[q].sub)'
    <3>1. q # t /\ job'[q] = job[q] /\ mem'[q] = mem[q]
      BY <1>e, <2>2 DEF Blank, DefaultEntity
    <3> QED
      BY <1>a, <1>e, <2>2, <3>1 DEF Wanted, Asked, On, Locals, Saves
  <2> QED
    BY <1>e, <2>1, <2>2 DEF Wanted, Stored, Asked, On
<1>6. ListenersAsked'
  BY <1>e DEF ListenersAsked, On
<1>7. Timed'
  BY <1>e DEF Timed, On
<1>8. Backed'
  BY <1>a, <1>e, <1>p DEF Backed, DocsOf, Stored, Origin, Uncaching, On
<1>9. Fresh'
  <2> SUFFICES ASSUME NEW s \in Subs, Orderly(s)'
      PROVE  /\ cache'[s] # NULL => Agrees(s)' \/ Mending(s)'
             /\ \A q \in Tasks : On(q, s)' =>
                  /\ pc'[q] \in {"update", "load"} => mem'[q].doc \in DocsOf(s)'
                  /\ pc'[q] = "set" => \E d \in DocsOf(s)' : mem'[q].val = docs'[d]
    BY DEF Fresh
  <2>1. Orderly(s) /\ (Agrees(s) => Agrees(s)') /\ DocsOf(s)' = DocsOf(s)
    BY <1>a, <1>e DEF Agrees, DocsOf, Stored
  <2>2. \A q \in Tasks : q # t => (On(q, s)' <=> On(q, s))
    BY <1>e DEF On
  <2>3. Mending(s) => Mending(s)'
    BY <1>e DEF Mending, On
  <2> QED
    BY <1>e, <1>p, <2>1, <2>2, <2>3 DEF Fresh
<1> QED
  BY <1>1, <1>2, <1>3, <1>4, <1>5, <1>6, <1>7, <1>8, <1>9

\* A query that only moves its task on leaves the records as they are.
LEMMA StepQuiet ==
  ASSUME Inv, TypeOK', Lasting, NEW t \in Tasks, Quiet1(t)
  PROVE  Parts'
<1> USE Different, BlankType DEF Inv, Parts, At, stores, sockets
<1>a. \A s \in Subs : (Asked(s) => Asked(s)') /\ (Torn(s) => Torn(s)') /\ (Orderly(s)' => Orderly(s))
  BY Explained
<1>b. \A s \in Subs, q \in Tasks : On(q, s) => On(q, s)'
  BY Explained
<1>1. Locals'
  BY DEF Quiet1, Goto, Locals
<1>2. Origin'
  BY DEF Quiet1, Origin, Stored, Lasting
<1>3. Overlap'
  BY DEF Quiet1, Goto, Overlap, Running, TypeOK
<1>4. Inserts'
  BY DEF Quiet1, Goto, Inserts, Stored
<1>5. Wanted'
  BY DEF Quiet1, Goto, Wanted, Asked, On, Stored, DefaultEntity
<1>6. ListenersAsked'
  BY DEF Quiet1, ListenersAsked, On, Lasting
<1>7. Timed'
  BY DEF Quiet1, Goto, Timed, On
<1>8. Backed'
  BY DEF Quiet1, Goto, Backed, DocsOf, Stored, Torn, Uncaching, On
<1>9. Fresh'
  BY DEF Quiet1, Goto, Fresh, Deletes, Orderly, Agrees, Mending, DocsOf, Stored, Origin, On
<1> QED
  BY <1>1, <1>2, <1>3, <1>4, <1>5, <1>6, <1>7, <1>8, <1>9

\* The first query tells a save or a delete which document there is, if any.
LEMMA StepFind ==
  ASSUME Inv, TypeOK', Lasting, NEW t \in Tasks, Find(t)
  PROVE  Parts'
<1> USE Different, BlankType DEF Inv, Parts, At, stores, sockets
<1>a. \A s \in Subs : (Asked(s) => Asked(s)') /\ (Torn(s) => Torn(s)') /\ (Orderly(s)' => Orderly(s))
  BY Explained
<1>b. \A s \in Subs, q \in Tasks : On(q, s) => On(q, s)'
  BY Explained
<1>c. /\ Running(t) /\ job[t] \in Job /\ job[t].sub \in Subs /\ On(t, job[t].sub)
      /\ pc[t] \in Queries /\ job[t].kind # "list"
  BY Own DEF Find, Running, Queries, Saves, Deletes
<1>d. \A q \in Tasks : q # t /\ Running(q) /\ job[q].sub = job[t].sub =>
        /\ {t, q} \subseteq raced /\ ~Orderly(job[t].sub)
        /\ job[t].kind \in Deletes \/ job[q].kind \in Deletes => Torn(job[t].sub)
  BY <1>c, Together
<1>e. /\ job' = job /\ raced' = raced
      /\ \A q \in Tasks : q # t => pc'[q] = pc[q] /\ mem'[q] = mem[q]
      /\ UNCHANGED <<docs, cache, conn, room>>
      /\ pc[t] = "find" /\ mem'[t].val = mem[t].val
      /\ \/ /\ DocsOf(job[t].sub) = {} /\ mem'[t] = mem[t]
            /\ \/ job[t].kind \in Saves /\ pc'[t] = "insert"
               \/ job[t].kind \in Deletes /\ pc'[t] = "uncache"
         \/ /\ mem'[t].doc \in DocsOf(job[t].sub)
            /\ \/ job[t].kind \in Saves /\ pc'[t] = "update"
               \/ job[t].kind \in Deletes /\ pc'[t] = "delete"
  BY DEF Find, Goto, Memory, TypeOK
<1>1. Locals'
  BY <1>e DEF Locals, Origin, DocsOf, Stored
<1>2. Origin'
  BY <1>e DEF Origin, Stored
<1>3. Overlap'
  BY <1>e DEF Overlap, Running, TypeOK
<1>4. Inserts'
  BY <1>e DEF Inserts, Origin, Stored, DocsOf
<1>5. Wanted'
  BY <1>b, <1>c, <1>e DEF Wanted, Asked, Lasting, Origin, Locals, Stored, DefaultEntity, Saves,
     Running
<1>6. ListenersAsked'
  BY <1>e DEF ListenersAsked, On
<1>7. Timed'
  BY <1>e DEF Timed, On
<1>8. Backed'
  BY <1>a, <1>b, <1>c, <1>d, <1>e DEF Backed, Saves, Deletes, DocsOf, Stored, Origin, Overlap,
     Uncaching, On, Running
<1>9. Fresh'
  BY <1>a, <1>b, <1>c, <1>d, <1>e DEF Fresh, Saves, Deletes, Orderly, Agrees, Mending, DocsOf,
     Stored, Origin, Locals, Overlap, On, Running, Queries, TypeOK
<1> QED
  BY <1>1, <1>2, <1>3, <1>4, <1>5, <1>6, <1>7, <1>8, <1>9

\* A document is inserted by a save that found none: only an overlapping one could
\* have stored another for the socket since.
LEMMA StepInsert ==
  ASSUME Inv, TypeOK', Lasting, NEW t \in Tasks, Insert(t)
  PROVE  Parts'
<1> USE Different, BlankType DEF Inv, Parts, At, stores, sockets
<1>a. \A s \in Subs : (Asked(s) => Asked(s)') /\ (Torn(s) => Torn(s)') /\ (Orderly(s)' => Orderly(s))
  BY Explained
<1>b. \A s \in Subs, q \in Tasks : On(q, s) => On(q, s)'
  BY Explained
<1>c. /\ Running(t) /\ job[t] \in Job /\ job[t].sub \in Subs /\ On(t, job[t].sub)
      /\ pc[t] \in Queries /\ job[t].kind # "list"
  BY Own DEF Insert, Running, Queries, Saves
<1>d. \A q \in Tasks : q # t /\ Running(q) /\ job[q].sub = job[t].sub =>
        /\ {t, q} \subseteq raced /\ ~Orderly(job[t].sub)
        /\ job[t].kind \in Deletes \/ job[q].kind \in Deletes => Torn(job[t].sub)
  BY <1>c, Together
<1>e. /\ job' = job /\ raced' = raced
      /\ \A q \in Tasks : q # t => pc'[q] = pc[q] /\ mem'[q] = mem[q]
      /\ UNCHANGED <<cache, conn, room>>
      /\ pc[t] = "insert" /\ pc'[t] = "load" /\ job[t].kind \in Saves
      /\ mem'[t].doc = t /\ mem'[t].val = mem[t].val
      /\ docs'[t] = [sub |-> job[t].sub, listen |-> job[t].flag] /\ Stored(t)'
      /\ \A d \in Tasks : d # t => docs'[d] = docs[d] /\ Stored(d)' = Stored(d)
      /\ DocsOf(job[t].sub)' = DocsOf(job[t].sub) \cup {t}
      /\ \A s \in Subs : s # job[t].sub => DocsOf(s)' = DocsOf(s)
  BY <1>c DEF Insert, Goto, Stored, DocsOf, Origin, Entity, Job, TypeOK
<1>1. Locals'
  BY <1>e DEF Locals, Stored
<1>2. Origin'
  BY <1>e DEF Origin, Locals
<1>3. Overlap'
  BY <1>e DEF Overlap, Running, TypeOK
<1>4. Inserts'
  BY <1>e DEF Inserts, Overlap, Running, TypeOK
<1>5. Wanted'
  BY <1>a, <1>b, <1>c, <1>d, <1>e DEF Wanted, Asked, On, Lasting, Origin, Locals, Blank,
     DefaultEntity, Saves, Deletes, Running, Queries
<1>6. ListenersAsked'
  BY <1>e DEF ListenersAsked, On, Lasting
<1>7. Timed'
  BY <1>e DEF Timed, On
<1>8. Backed'
  BY <1>b, <1>c, <1>e DEF Backed, Saves, Deletes, DocsOf, Stored, Torn, Uncaching, On
<1>9. Fresh'
  <2> SUFFICES ASSUME NEW s \in Subs, Orderly(s)'
      PROVE  /\ cache'[s] # NULL => Agrees(s)' \/ Mending(s)'
             /\ \A q \in Tasks : On(q, s)' =>
                  /\ pc'[q] \in {"update", "load"} => mem'[q].doc \in DocsOf(s)'
                  /\ pc'[q] = "set" => \E d \in DocsOf(s)' : mem'[q].val = docs'[d]
    BY DEF Fresh
  <2>1. Orderly(s) /\ \A q \in Tasks : On(q, s)' <=> On(q, s)
    BY <1>a, <1>e DEF On
  <2>2. CASE s = job[t].sub
    <3>1. \A q \in Tasks : On(q, s) /\ q # t => ~Running(q)
      BY <1>d, <2>1, <2>2 DEF On
    <3>2. Mending(s)' /\ t \in DocsOf(s)'
      BY <1>c, <1>e, <2>2 DEF Mending, On
    <3> QED
      BY <1>e, <2>1, <3>1, <3>2 DEF Running, Queries
  <2>3. CASE s # job[t].sub
    <3>1. DocsOf(s)' = DocsOf(s) /\ \A d \in DocsOf(s) : docs'[d] = docs[d]
      BY <1>e, <2>3 DEF DocsOf
    <3>2. (Agrees(s) => Agrees(s)') /\ (Mending(s) => Mending(s)')
      BY <1>e, <3>1 DEF Agrees, Mending, On
    <3>3. \A q \in Tasks : On(q, s) => q # t
      BY <2>3 DEF On
    <3> QED
      BY <1>e, <2>1, <3>1, <3>2, <3>3 DEF Fresh
  <2> QED
    BY <2>2, <2>3
<1> QED
  BY <1>1, <1>2, <1>3, <1>4, <1>5, <1>6, <1>7, <1>8, <1>9

\* The flag of the document that was found is set; that it is gone is no error.
LEMMA StepUpdate ==
  ASSUME Inv, TypeOK', Lasting, NEW t \in Tasks, Update(t)
  PROVE  Parts'
<1> USE Different, BlankType DEF Inv, Parts, At, stores, sockets
<1>a. \A s \in Subs : (Asked(s) => Asked(s)') /\ (Torn(s) => Torn(s)') /\ (Orderly(s)' => Orderly(s))
  BY Explained
<1>b. \A s \in Subs, q \in Tasks : On(q, s) => On(q, s)'
  BY Explained
<1>c. /\ Running(t) /\ job[t] \in Job /\ job[t].sub \in Subs /\ On(t, job[t].sub)
      /\ pc[t] \in Queries /\ job[t].kind # "list"
  BY Own DEF Update, Running, Queries, Saves
<1>d. \A q \in Tasks : q # t /\ Running(q) /\ job[q].sub = job[t].sub =>
        /\ {t, q} \subseteq raced /\ ~Orderly(job[t].sub)
        /\ job[t].kind \in Deletes \/ job[q].kind \in Deletes => Torn(job[t].sub)
  BY <1>c, Together
<1>e. /\ job' = job /\ raced' = raced
      /\ \A q \in Tasks : q # t => pc'[q] = pc[q] /\ mem'[q] = mem[q]
      /\ UNCHANGED <<cache, conn, room>>
      /\ pc[t] = "update" /\ pc'[t] = "load" /\ job[t].kind \in Saves /\ mem'[t] = mem[t]
      /\ \A d \in Tasks : /\ Stored(d)' = Stored(d) /\ (docs'[d] # NULL => docs[d] # NULL)
                          /\ (docs[d] # NULL => docs'[d] # NULL)
                          /\ Stored(d) => docs'[d].sub = docs[d].sub
                          /\ d # mem[t].doc => docs'[d] = docs[d]
      /\ Stored(mem[t].doc) => docs'[mem[t].doc].listen = job[t].flag
      /\ \A s \in Subs : DocsOf(s)' = DocsOf(s)
  <2>1. /\ pc[t] = "update" /\ Goto(t, "load", mem[t]) /\ job[t].kind \in Saves
        /\ UNCHANGED <<cache, conn, room>>
    BY DEF Update
  <2>2. mem[t].doc \in Tasks /\ docs[mem[t].doc] # NULL
    BY <2>1 DEF Locals
  <2>3. IF Stored(mem[t].doc)
          THEN docs' = [docs EXCEPT ![mem[t].doc].listen = job[t].flag]
          ELSE docs' = docs
    BY DEF Update
  <2>4. \A d \in Tasks : Stored(d) => docs[d] \in Entity
    BY DEF Stored, TypeOK
  <2>5. \A d \in Tasks : /\ Stored(d) => docs'[d] \in Entity /\ docs'[d].sub = docs[d].sub
                         /\ ~Stored(d) \/ d # mem[t].doc => docs'[d] = docs[d]
    BY <1>c, <2>3, <2>4 DEF Entity, Job, TypeOK
  <2>6. \A d \in Tasks : Stored(d)' = Stored(d)
    BY <2>5 DEF Stored
  <2>7. Stored(mem[t].doc) => docs'[mem[t].doc].listen = job[t].flag
    BY <2>2, <2>3, <2>4 DEF Entity, TypeOK
  <2>8. \A s \in Subs : DocsOf(s)' = DocsOf(s)
    BY <2>5, <2>6 DEF DocsOf
  <2> QED
    BY <2>1, <2>2, <2>5, <2>6, <2>7, <2>8 DEF Goto, Stored, TypeOK
<1>1. Locals'
  BY <1>e DEF Locals, Origin, DocsOf
<1>2. Origin'
  BY <1>e DEF Origin
<1>3. Overlap'
  BY <1>e DEF Overlap, Running, TypeOK
<1>4. Inserts'
  BY <1>e DEF Inserts
<1>5. Wanted'
  BY <1>e DEF Wanted, Asked, On, Lasting, Origin, Locals
<1>6. ListenersAsked'
  BY <1>e DEF ListenersAsked, On
<1>7. Timed'
  BY <1>e DEF Timed, On
<1>8. Backed'
  BY <1>e DEF Backed, Saves, Deletes, Torn, Uncaching, On
<1>9. Fresh'
  <2> SUFFICES ASSUME NEW s \in Subs, Orderly(s)'
      PROVE  /\ cache'[s] # NULL => Agrees(s)' \/ Mending(s)'
             /\ \A q \in Tasks : On(q, s)' =>
                  /\ pc'[q] \in {"update", "load"} => mem'[q].doc \in DocsOf(s)'
                  /\ pc'[q] = "set" => \E d \in DocsOf(s)' : mem'[q].val = docs'[d]
    BY DEF Fresh
  <2>1. Orderly(s) /\ \A q \in Tasks : On(q, s)' <=> On(q, s)
    BY <1>a, <1>e DEF On
  <2>2. CASE s = job[t].sub
    <3>1. \A q \in Tasks : On(q, s) /\ q # t => ~Running(q)
      BY <1>d, <2>1, <2>2 DEF On
    <3>2. Mending(s)' /\ mem[t].doc \in DocsOf(s)'
      BY <1>c, <1>e, <2>1, <2>2 DEF Mending, Fresh
    <3> QED
      BY <1>e, <2>1, <3>1, <3>2 DEF Running, Queries
  <2>3. CASE s # job[t].sub
    <3>1. DocsOf(s)' = DocsOf(s) /\ \A d \in DocsOf(s) : docs'[d] = docs[d]
      BY <1>e, <2>3 DEF DocsOf, Origin, Locals
    <3>2. (Agrees(s) => Agrees(s)') /\ (Mending(s) => Mending(s)')
      BY <1>e, <3>1 DEF Agrees, Mending, On
    <3>3. \A q \in Tasks : On(q, s) => q # t
      BY <2>3 DEF On
    <3> QED
      BY <1>e, <2>1, <3>1, <3>2, <3>3 DEF Fresh
  <2> QED
    BY <2>2, <2>3
<1> QED
  BY <1>1, <1>2, <1>3, <1>4, <1>5, <1>6, <1>7, <1>8, <1>9

\* What is read back is the document, or the default entity when it is gone.
LEMMA StepLoad ==
  ASSUME Inv, TypeOK', Lasting, NEW t \in Tasks, Load(t)
  PROVE  Parts'
<1> USE Different, BlankType DEF Inv, Parts, At, stores, sockets
<1>a. \A s \in Subs : (Asked(s) => Asked(s)') /\ (Torn(s) => Torn(s)') /\ (Orderly(s)' => Orderly(s))
  BY Explained
<1>b. \A s \in Subs, q \in Tasks : On(q, s) => On(q, s)'
  BY Explained
<1>c. /\ Running(t) /\ job[t] \in Job /\ job[t].sub \in Subs /\ On(t, job[t].sub)
      /\ pc[t] \in Queries /\ job[t].kind # "list"
  BY Own DEF Load, Running, Queries, Saves
<1>d. \A q \in Tasks : q # t /\ Running(q) /\ job[q].sub = job[t].sub =>
        /\ {t, q} \subseteq raced /\ ~Orderly(job[t].sub)
        /\ job[t].kind \in Deletes \/ job[q].kind \in Deletes => Torn(job[t].sub)
  BY <1>c, Together
<1>1. Locals'
  BY DEF Load, Goto, Locals, TypeOK
<1>2. Origin'
  BY DEF Load, Origin, Stored, Lasting
<1>3. Overlap'
  BY DEF Load, Goto, Overlap, Running, TypeOK
<1>4. Inserts'
  BY DEF Load, Goto, Inserts, Stored
<1>5. Wanted'
  BY <1>a, <1>b, <1>c, <1>d DEF Load, Goto, Wanted, Asked, On, Lasting, Origin, Locals, Stored,
     Blank, DefaultEntity, Saves, Deletes, Running, Queries
<1>6. ListenersAsked'
  BY DEF Load, ListenersAsked, On, Lasting
<1>7. Timed'
  BY DEF Load, Goto, Timed, On
<1>8. Backed'
  BY <1>c DEF Load, Goto, Backed, DocsOf, Stored, Torn, Uncaching, On
<1>9. Fresh'
  BY <1>a, <1>b, <1>c, <1>d DEF Load, Goto, Fresh, Saves, Deletes, Orderly, Agrees, Mending,
     DocsOf, Stored, Origin, Locals, Overlap, On, Running, Queries, TypeOK
<1> QED
  BY <1>1, <1>2, <1>3, <1>4, <1>5, <1>6, <1>7, <1>8, <1>9

\* The key is written without its time to live: its task still has to set it.
LEMMA StepSetKey ==
  ASSUME Inv, TypeOK', Lasting, NEW t \in Tasks, SetKey(t)
  PROVE  Parts'
<1> USE Different, BlankType DEF Inv, Parts, At, stores, sockets
<1>a. \A s \in Subs : (Asked(s) => Asked(s)') /\ (Torn(s) => Torn(s)') /\ (Orderly(s)' => Orderly(s))
  BY Explained
<1>b. \A s \in Subs, q \in Tasks : On(q, s) => On(q, s)'
  BY Explained
<1>c. /\ Running(t) /\ job[t] \in Job /\ job[t].sub \in Subs /\ On(t, job[t].sub)
      /\ pc[t] \in Queries /\ job[t].kind # "list"
  BY Own DEF SetKey, Running, Queries, Saves
<1>d. \A q \in Tasks : q # t /\ Running(q) /\ job[q].sub = job[t].sub =>
        /\ {t, q} \subseteq raced /\ ~Orderly(job[t].sub)
        /\ job[t].kind \in Deletes \/ job[q].kind \in Deletes => Torn(job[t].sub)
  BY <1>c, Together
<1>1. Locals'
  BY DEF SetKey, Goto, Locals
<1>2. Origin'
  BY DEF SetKey, Origin, Stored, Lasting
<1>3. Overlap'
  BY DEF SetKey, Goto, Overlap, Running, TypeOK
<1>4. Inserts'
  BY DEF SetKey, Goto, Inserts, Stored
<1>5. Wanted'
  BY <1>a, <1>b, <1>c, <1>d DEF SetKey, Goto, Wanted, Asked, On, Lasting, Origin, Locals,
     Stored, Blank, DefaultEntity, Saves, Deletes, Running, Queries
<1>6. ListenersAsked'
  BY <1>b DEF SetKey, ListenersAsked, On, Lasting
<1>7. Timed'
  BY <1>b DEF SetKey, Goto, Timed, On, Locals, TypeOK
<1>8. Backed'
  BY <1>a, <1>b, <1>c, <1>d DEF SetKey, Goto, Backed, Saves, Deletes, DocsOf, Stored, Origin,
     Locals, Overlap, Torn, Uncaching, On, Running, Queries
<1>9. Fresh'
  BY <1>a, <1>b, <1>c, <1>d DEF SetKey, Goto, Fresh, Saves, Deletes, Orderly, Agrees, Mending,
     DocsOf, Stored, Origin, Locals, Overlap, On, Running, Queries, TypeOK
<1> QED
  BY <1>1, <1>2, <1>3, <1>4, <1>5, <1>6, <1>7, <1>8, <1>9

\* The key gets its time to live, and a reconnection joins or leaves the room.
LEMMA StepExpireKey ==
  ASSUME Inv, TypeOK', Lasting, NEW t \in Tasks, ExpireKey(t)
  PROVE  Parts'
<1> USE Different, BlankType DEF Inv, Parts, At, stores, sockets
<1>a. \A s \in Subs : (Asked(s) => Asked(s)') /\ (Torn(s) => Torn(s)') /\ (Orderly(s)' => Orderly(s))
  BY Explained
<1>b. \A s \in Subs, q \in Tasks : On(q, s) => On(q, s)'
  BY Explained
<1>c. /\ Running(t) /\ job[t] \in Job /\ job[t].sub \in Subs /\ On(t, job[t].sub)
      /\ pc[t] \in Queries /\ job[t].kind # "list"
  BY Own DEF ExpireKey, Running, Queries, Saves
<1>d. \A q \in Tasks : q # t /\ Running(q) /\ job[q].sub = job[t].sub =>
        /\ {t, q} \subseteq raced /\ ~Orderly(job[t].sub)
        /\ job[t].kind \in Deletes \/ job[q].kind \in Deletes => Torn(job[t].sub)
  BY <1>c, Together
<1>e. /\ job' = job /\ raced' = raced
      /\ \A q \in Tasks : q # t => pc'[q] = pc[q] /\ mem'[q] = mem[q]
      /\ UNCHANGED <<docs, conn>>
      /\ pc[t] = "expire" /\ pc'[t] \in {"announce", "done"} /\ mem'[t].val \in {mem[t].val, DefaultEntity}
      /\ \A s \in Subs : s # job[t].sub => cache'[s] = cache[s]
      /\ LET s == job[t].sub IN
         IF cache[s] = NULL THEN cache'[s] = NULL
           ELSE /\ cache'[s] # NULL /\ cache'[s].expires
                /\ cache'[s].sub = cache[s].sub /\ cache'[s].listen = cache[s].listen
      /\ \/ room' \subseteq room
         \/ /\ job[t].kind = "reconnect" /\ mem[t].val.listen
            /\ conn[job[t].sub] = "open" /\ room' = room \cup {job[t].sub}
  <2>1. /\ pc[t] = "expire" /\ UNCHANGED <<docs, conn>>
        /\ Goto(t, "announce", mem[t]) \/ Goto(t, "done", Blank)
        /\ cache' = IF cache[job[t].sub] = NULL THEN cache
                      ELSE [cache EXCEPT ![job[t].sub].expires = TRUE]
        /\ room' = IF job[t].kind # "reconnect" THEN room
                      ELSE IF mem[t].val.listen /\ conn[job[t].sub] = "open" THEN room \cup {job[t].sub}
                      ELSE room \ {job[t].sub}
    BY Zenon DEF ExpireKey, Return
  <2>2. cache[job[t].sub] # NULL => cache[job[t].sub] \in Entry
    BY <1>c DEF TypeOK
  <2>3. /\ \A q \in Tasks : q # t => pc'[q] = pc[q] /\ mem'[q] = mem[q]
        /\ pc'[t] \in {"announce", "done"} /\ mem'[t].val \in {mem[t].val, DefaultEntity}
        /\ job' = job /\ raced' = raced
    BY <2>1 DEF Goto, Blank, TypeOK
  <2>4. \A s \in Subs : s # job[t].sub => cache'[s] = cache[s]
    BY <1>c, <2>1 DEF TypeOK
  <2>5. LET s == job[t].sub IN
        IF cache[s] = NULL THEN cache'[s] = NULL
          ELSE /\ cache'[s] # NULL /\ cache'[s].expires
               /\ cache'[s].sub = cache[s].sub /\ cache'[s].listen = cache[s].listen
    <3>1. CASE cache[job[t].sub] = NULL
      BY <2>1, <3>1
    <3>2. CASE cache[job[t].sub] # NULL
      <4>1. cache'[job[t].sub] = [cache[job[t].sub] EXCEPT !.expires = TRUE]
        BY <1>c, <2>1, <3>2 DEF TypeOK
      <4>2. cache'[job[t].sub] \in Entry
        BY <4>1, <2>2, <3>2 DEF Entry
      <4> QED
        BY <4>1, <4>2, <2>2, <3>2 DEF Entry
    <3> QED
      BY <3>1, <3>2
  <2>6. \/ room' \subseteq room
        \/ /\ job[t].kind = "reconnect" /\ mem[t].val.listen
           /\ conn[job[t].sub] = "open" /\ room' = room \cup {job[t].sub}
    <3>1. CASE job[t].kind = "reconnect" /\ mem[t].val.listen /\ conn[job[t].sub] = "open"
      BY <2>1, <3>1
    <3>2. CASE ~(job[t].kind = "reconnect" /\ mem[t].val.listen /\ conn[job[t].sub] = "open")
      <4>1. room' = room \/ room' = room \ {job[t].sub}
        BY <2>1, <3>2, Zenon
      <4>2. room' \subseteq room
        BY <4>1
      <4> QED
        BY <4>2, Zenon
    <3> QED
      BY <3>1, <3>2
  <2> QED
    BY <2>1, <2>3, <2>4, <2>5, <2>6
<1>1. Locals'
  BY <1>e DEF Locals
<1>2. Origin'
  BY <1>e DEF Origin, Stored
<1>3. Overlap'
  BY <1>e DEF Overlap, Running, TypeOK
<1>4. Inserts'
  BY <1>e DEF Inserts, Stored
<1>5. Wanted'
  BY <1>a, <1>b, <1>c, <1>d, <1>e DEF Wanted, Asked, On, Lasting, Origin, Locals, Stored,
     Blank, DefaultEntity, Saves, Deletes, Running, Queries, TypeOK
<1>6. ListenersAsked'
  BY <1>e DEF ListenersAsked, Wanted, On, Asked, Lasting, Saves, Locals
<1>7. Timed'
  BY <1>e DEF Timed, On
<1>8. Backed'
  BY <1>a, <1>b, <1>c, <1>d, <1>e DEF Backed, Saves, Deletes, DocsOf, Stored, Origin, Overlap,
     Uncaching, On, Queries
<1>9. Fresh'
  BY <1>a, <1>b, <1>c, <1>d, <1>e DEF Fresh, Saves, Deletes, Orderly, Agrees, Mending, DocsOf,
     Stored, Origin, Locals, Overlap, On, Running, Queries, TypeOK
<1> QED
  BY <1>1, <1>2, <1>3, <1>4, <1>5, <1>6, <1>7, <1>8, <1>9

\* The document goes, and the key is all that its task has left to delete.
LEMMA StepDeleteDoc ==
  ASSUME Inv, TypeOK', Lasting, NEW t \in Tasks, DeleteDoc(t)
  PROVE  Parts'
<1> USE Different, BlankType DEF Inv, Parts, At, stores, sockets
<1>a. \A s \in Subs : (Asked(s) => Asked(s)') /\ (Torn(s) => Torn(s)') /\ (Orderly(s)' => Orderly(s))
  BY Explained
<1>b. \A s \in Subs, q \in Tasks : On(q, s) => On(q, s)'
  BY Explained
<1>c. /\ Running(t) /\ job[t] \in Job /\ job[t].sub \in Subs /\ On(t, job[t].sub)
      /\ pc[t] \in Queries /\ job[t].kind # "list"
  BY Own DEF DeleteDoc, Running, Queries, Deletes
<1>d. \A q \in Tasks : q # t /\ Running(q) /\ job[q].sub = job[t].sub =>
        /\ {t, q} \subseteq raced /\ ~Orderly(job[t].sub)
        /\ job[t].kind \in Deletes \/ job[q].kind \in Deletes => Torn(job[t].sub)
  BY <1>c, Together
<1>1. Locals'
  BY DEF DeleteDoc, Goto, Locals, TypeOK
<1>2. Origin'
  BY DEF DeleteDoc, Origin, Stored, Locals, Lasting
<1>3. Overlap'
  BY DEF DeleteDoc, Goto, Overlap, Running, Queries
<1>4. Inserts'
  BY <1>a DEF DeleteDoc, Goto, Inserts, Origin, Stored
<1>5. Wanted'
  BY <1>a, <1>b, <1>c, <1>d DEF DeleteDoc, Goto, Wanted, Asked, On, Lasting, Origin, Locals,
     Stored, Blank, DefaultEntity, Saves, Deletes, Running, Queries
<1>6. ListenersAsked'
  BY DEF DeleteDoc, ListenersAsked, On, Lasting
<1>7. Timed'
  BY DEF DeleteDoc, Goto, Timed, On
<1>8. Backed'
  <2> SUFFICES ASSUME NEW s \in Subs
      PROVE  /\ cache'[s] # NULL => DocsOf(s)' # {} \/ Torn(s)' \/ Uncaching(s)'
             /\ \A q \in Tasks : On(q, s)' /\ pc'[q] \in {"update", "load", "set"} =>
                  DocsOf(s)' # {} \/ Torn(s)'
    BY DEF Backed
  <2>1. cache'[s] = cache[s]
    BY DEF DeleteDoc
  <2>2. \A q \in Tasks : On(q, s)' /\ pc'[q] \in {"update", "load", "set"} =>
          q # t /\ Running(q) /\ On(q, s) /\ pc[q] = pc'[q]
    BY DEF DeleteDoc, Goto, On, Running, TypeOK
  <2>3. CASE s = job[t].sub
    <3>1. Uncaching(s)'
      BY <1>c, <2>3 DEF DeleteDoc, Goto, Uncaching, On, TypeOK
    <3>2. \A q \in Tasks : q # t /\ Running(q) /\ On(q, s) => Torn(s)'
      BY <1>a, <1>d, <2>3 DEF DeleteDoc, On
    <3> QED
      BY <2>2, <3>1, <3>2
  <2>4. CASE s # job[t].sub
    <3>1. DocsOf(s)' = DocsOf(s)
      BY <2>4 DEF DeleteDoc, DocsOf, Stored, Origin, Locals
    <3>2. Uncaching(s) => Uncaching(s)'
      BY DEF DeleteDoc, Goto, Uncaching, On
    <3> QED
      BY <1>a, <2>1, <2>2, <3>1, <3>2 DEF Backed
  <2> QED
    BY <2>3, <2>4
<1>9. Fresh'
  BY <1>a, <1>b, <1>c, <1>d DEF DeleteDoc, Goto, Fresh, Saves, Deletes, Orderly, Agrees,
     Mending, DocsOf, Stored, Origin, Locals, Overlap, On, Running, Queries, TypeOK
<1> QED
  BY <1>1, <1>2, <1>3, <1>4, <1>5, <1>6, <1>7, <1>8, <1>9

\* The key goes too, whether or not the delete found a document.
LEMMA StepUncache ==
  ASSUME Inv, TypeOK', Lasting, NEW t \in Tasks, Uncache(t)
  PROVE  Parts'
<1> USE Different, BlankType DEF Inv, Parts, At, stores, sockets
<1>a. \A s \in Subs : (Asked(s) => Asked(s)') /\ (Torn(s) => Torn(s)') /\ (Orderly(s)' => Orderly(s))
  BY Explained
<1>b. \A s \in Subs, q \in Tasks : On(q, s) => On(q, s)'
  BY Explained
<1>c. /\ Running(t) /\ job[t] \in Job /\ job[t].sub \in Subs /\ On(t, job[t].sub)
      /\ pc[t] \in Queries /\ job[t].kind # "list"
  BY Own DEF Uncache, Running, Queries, Deletes
<1>d. \A q \in Tasks : q # t /\ Running(q) /\ job[q].sub = job[t].sub =>
        /\ {t, q} \subseteq raced /\ ~Orderly(job[t].sub)
        /\ job[t].kind \in Deletes \/ job[q].kind \in Deletes => Torn(job[t].sub)
  BY <1>c, Together
<1>1. Locals'
  BY DEF Uncache, Return, Goto, Locals
<1>2. Origin'
  BY DEF Uncache, Origin, Stored, Lasting
<1>3. Overlap'
  BY DEF Uncache, Return, Goto, Overlap, Running, TypeOK
<1>4. Inserts'
  BY DEF Uncache, Return, Goto, Inserts, Stored
<1>5. Wanted'
  BY DEF Uncache, Return, Goto, Wanted, Asked, On, Locals, Stored, DefaultEntity, Saves, Deletes
<1>6. ListenersAsked'
  BY DEF Uncache, ListenersAsked, On, Lasting
<1>7. Timed'
  BY DEF Uncache, Return, Goto, Timed, On
<1>8. Backed'
  BY <1>a, <1>b DEF Uncache, Return, Goto, Backed, Saves, Deletes, DocsOf, Stored, Uncaching,
     On, TypeOK
<1>9. Fresh'
  BY <1>a, <1>b, <1>c DEF Uncache, Return, Goto, Fresh, Saves, Deletes, Orderly, Agrees,
     Mending, DocsOf, Stored, On, TypeOK
<1> QED
  BY <1>1, <1>2, <1>3, <1>4, <1>5, <1>6, <1>7, <1>8, <1>9

\* A read takes the entity of the key, or goes on to the database.
LEMMA StepReadKey ==
  ASSUME Inv, TypeOK', Lasting, NEW t \in Tasks, ReadKey(t)
  PROVE  Parts'
<1> USE Different, BlankType DEF Inv, Parts, At, stores, sockets
<1>a. \A s \in Subs : (Asked(s) => Asked(s)') /\ (Torn(s) => Torn(s)') /\ (Orderly(s)' => Orderly(s))
  BY Explained
<1>b. \A s \in Subs, q \in Tasks : On(q, s) => On(q, s)'
  BY Explained
<1>c. /\ Running(t) /\ job[t] \in Job /\ job[t].sub \in Subs /\ On(t, job[t].sub)
      /\ pc[t] \in Queries /\ job[t].kind # "list"
  BY Own DEF ReadKey, Running, Queries
<1>d. \A q \in Tasks : q # t /\ Running(q) /\ job[q].sub = job[t].sub =>
        /\ {t, q} \subseteq raced /\ ~Orderly(job[t].sub)
        /\ job[t].kind \in Deletes \/ job[q].kind \in Deletes => Torn(job[t].sub)
  BY <1>c, Together
<1>e. /\ job' = job /\ raced' = raced
      /\ \A q \in Tasks : q # t => pc'[q] = pc[q] /\ mem'[q] = mem[q]
      /\ UNCHANGED <<docs, cache, conn, room>>
      /\ pc[t] = "read" /\ job[t].kind = "find" /\ mem'[t].doc = mem[t].doc
      /\ \/ pc'[t] = "fetch" /\ mem'[t] = mem[t]
         \/ /\ pc'[t] = "set" /\ cache[job[t].sub] # NULL
            /\ mem'[t].val = [sub |-> cache[job[t].sub].sub, listen |-> cache[job[t].sub].listen]
  BY DEF ReadKey, Goto, Memory, TypeOK
<1>1. Locals'
  BY <1>e DEF Locals
<1>2. Origin'
  BY <1>e DEF Origin, Stored
<1>3. Overlap'
  BY <1>e DEF Overlap, Running, TypeOK
<1>4. Inserts'
  BY <1>e DEF Inserts, Stored
<1>5. Wanted'
  BY <1>a, <1>b, <1>c, <1>d, <1>e DEF Wanted, Asked, On, Lasting, Origin, Locals, Stored,
     Blank, DefaultEntity, Saves, Deletes, Running, Queries, TypeOK
<1>6. ListenersAsked'
  BY <1>a, <1>b, <1>c, <1>e DEF ListenersAsked, TypeOK
<1>7. Timed'
  BY <1>e DEF Timed, On
<1>8. Backed'
  BY <1>a, <1>b, <1>c, <1>d, <1>e DEF Backed, Saves, Deletes, DocsOf, Stored, Origin, Overlap,
     Uncaching, On, Running, Queries
<1>9. Fresh'
  <2> SUFFICES ASSUME NEW s \in Subs, Orderly(s)'
      PROVE  /\ cache'[s] # NULL => Agrees(s)' \/ Mending(s)'
             /\ \A q \in Tasks : On(q, s)' =>
                  /\ pc'[q] \in {"update", "load"} => mem'[q].doc \in DocsOf(s)'
                  /\ pc'[q] = "set" => \E d \in DocsOf(s)' : mem'[q].val = docs'[d]
    BY DEF Fresh
  <2>1. Orderly(s) /\ \A q \in Tasks : On(q, s)' <=> On(q, s)
    BY <1>a, <1>e DEF On
  <2>2. CASE s = job[t].sub
    <3>1. \A q \in Tasks : On(q, s) /\ q # t => ~Running(q)
      BY <1>d, <2>1, <2>2 DEF On
    <3>2. (Agrees(s) => Agrees(s)') /\ DocsOf(s)' = DocsOf(s) /\ UNCHANGED <<docs, cache>>
      BY <1>e DEF Agrees, DocsOf, Stored
    <3>3. ~Mending(s)
      BY <1>e, <3>1 DEF Mending, Running, Queries
    <3>4. cache[s] # NULL => \E d \in DocsOf(s) :
            [sub |-> cache[s].sub, listen |-> cache[s].listen] = docs[d]
      BY <2>1, <3>3 DEF Fresh, Agrees, DocsOf, Stored, Entity, TypeOK
    <3> QED
      BY <1>e, <2>1, <2>2, <3>1, <3>2, <3>3, <3>4 DEF Running, Queries, Fresh
  <2>3. CASE s # job[t].sub
    <3>1. DocsOf(s)' = DocsOf(s) /\ UNCHANGED <<docs, cache>>
      BY <1>e DEF DocsOf, Stored
    <3>2. (Agrees(s) => Agrees(s)') /\ (Mending(s) => Mending(s)')
      BY <1>e, <3>1 DEF Agrees, Mending, On
    <3>3. \A q \in Tasks : On(q, s) => q # t
      BY <2>3 DEF On
    <3> QED
      BY <1>e, <2>1, <3>1, <3>2, <3>3 DEF Fresh
  <2> QED
    BY <2>2, <2>3
<1> QED
  BY <1>1, <1>2, <1>3, <1>4, <1>5, <1>6, <1>7, <1>8, <1>9

\* A read takes a document from the database, and goes on to put it into the cache.
LEMMA StepFetch ==
  ASSUME Inv, TypeOK', Lasting, NEW t \in Tasks, Fetch(t) /\ pc'[t] = "set"
  PROVE  Parts'
<1> USE Different, BlankType DEF Inv, Parts, At, stores, sockets
<1>a. \A s \in Subs : (Asked(s) => Asked(s)') /\ (Torn(s) => Torn(s)') /\ (Orderly(s)' => Orderly(s))
  BY Explained
<1>b. \A s \in Subs, q \in Tasks : On(q, s) => On(q, s)'
  BY Explained
<1>c. /\ Running(t) /\ job[t] \in Job /\ job[t].sub \in Subs /\ On(t, job[t].sub)
      /\ pc[t] \in Queries /\ job[t].kind # "list"
  BY Own DEF Fetch, Running, Queries
<1>d. \A q \in Tasks : q # t /\ Running(q) /\ job[q].sub = job[t].sub =>
        /\ {t, q} \subseteq raced /\ ~Orderly(job[t].sub)
        /\ job[t].kind \in Deletes \/ job[q].kind \in Deletes => Torn(job[t].sub)
  BY <1>c, Together
<1>e. /\ job' = job /\ raced' = raced
      /\ \A q \in Tasks : q # t => pc'[q] = pc[q] /\ mem'[q] = mem[q]
      /\ UNCHANGED <<docs, cache, conn, room>>
      /\ pc[t] = "fetch" /\ pc'[t] = "set" /\ job[t].kind = "find"
      /\ \E d \in DocsOf(job[t].sub) : mem'[t].val = docs[d]
  BY DEF Fetch, Goto, Return, Memory, TypeOK
<1>1. Locals'
  BY <1>e DEF Locals
<1>2. Origin'
  BY <1>e DEF Origin, Stored
<1>3. Overlap'
  BY <1>e DEF Overlap, Running, TypeOK
<1>4. Inserts'
  BY <1>e DEF Inserts, Stored
<1>5. Wanted'
  BY <1>a, <1>e DEF Wanted, Asked, On, Origin, Stored, Saves
<1>6. ListenersAsked'
  BY <1>e DEF ListenersAsked, On
<1>7. Timed'
  BY <1>e DEF Timed, On
<1>8. Backed'
  BY <1>e DEF Backed, DocsOf, Stored, Torn, Uncaching, On
<1>9. Fresh'
  BY <1>a, <1>c, <1>d, <1>e DEF Fresh, Orderly, Agrees, Mending, DocsOf, Stored, Overlap, On
<1> QED
  BY <1>1, <1>2, <1>3, <1>4, <1>5, <1>6, <1>7, <1>8, <1>9

\* A query fails: its task is over, and what it had not yet written stays missing.
LEMMA StepAbort ==
  ASSUME Inv, TypeOK', Lasting, NEW t \in Tasks, Abort(t)
  PROVE  Parts'
<1> USE Different, BlankType DEF Inv, Parts, At, stores, sockets
<1>a. \A s \in Subs : (Asked(s) => Asked(s)') /\ (Torn(s) => Torn(s)') /\ (Orderly(s)' => Orderly(s))
  BY Explained
<1>b. \A s \in Subs, q \in Tasks : On(q, s) => On(q, s)'
  BY Explained
<1>1. Locals'
  BY DEF Abort, Goto, Locals, Running, Queries, TypeOK
<1>2. Origin'
  BY DEF Abort, Origin, Stored, Lasting
<1>3. Overlap'
  BY DEF Abort, Goto, Overlap, Running
<1>4. Inserts'
  BY DEF Abort, Goto, Inserts, Stored
<1>5. Wanted'
  BY DEF Abort, Goto, Wanted, Asked, On, Lasting, Origin, Stored, Blank, DefaultEntity
<1>6. ListenersAsked'
  BY DEF Abort, ListenersAsked, On, Lasting
<1>7. Timed'
  BY DEF Abort, Goto, Timed, On
<1>8. Backed'
  BY DEF Abort, Goto, Backed, DocsOf, Stored, Torn, Uncaching, On
<1>9. Fresh'
  BY <1>a DEF Abort, Goto, Fresh, Saves, Orderly, Agrees, Mending, DocsOf, Stored, On, TypeOK
<1> QED
  BY <1>1, <1>2, <1>3, <1>4, <1>5, <1>6, <1>7, <1>8, <1>9

\* A key whose time is up leaves the cache.
LEMMA StepExpire ==
  ASSUME Inv, TypeOK', Lasting, NEW s \in Subs, Expire(s)
  PROVE  Parts'
<1> USE Different, BlankType DEF Inv, Parts, At, stores, sockets
<1>a. \A k \in Subs : (Asked(k) => Asked(k)') /\ (Torn(k) => Torn(k)') /\ (Orderly(k)' => Orderly(k))
  BY Explained
<1>b. \A k \in Subs, q \in Tasks : On(q, k) => On(q, k)'
  BY Explained
<1>1. Locals'
  BY DEF Expire, Locals
<1>2. Origin'
  BY DEF Expire, Origin, Stored
<1>3. Overlap'
  BY DEF Expire, Overlap, Running
<1>4. Inserts'
  BY DEF Expire, Inserts, Stored
<1>5. Wanted'
  BY DEF Expire, Wanted, Asked, On, Stored
<1>6. ListenersAsked'
  BY DEF Expire, ListenersAsked, On
<1>7. Timed'
  BY DEF Expire, Timed, On
<1>8. Backed'
  BY DEF Expire, Backed, DocsOf, Stored, Torn, Uncaching, On
<1>9. Fresh'
  BY DEF Expire, Fresh, Orderly, Agrees, Mending, DocsOf, Stored, On
<1> QED
  BY <1>1, <1>2, <1>3, <1>4, <1>5, <1>6, <1>7, <1>8, <1>9

\* The process ends: no task is running, no socket is open and the room is empty.
LEMMA StepCrash ==
  ASSUME Inv, TypeOK', Lasting, Crash
  PROVE  Parts'
<1> USE Different, BlankType DEF Inv, Parts, At, stores, sockets
<1>a. \A s \in Subs : (Asked(s) => Asked(s)') /\ (Torn(s) => Torn(s)') /\ (Orderly(s)' => Orderly(s))
  BY Explained
<1>b. \A s \in Subs, q \in Tasks : On(q, s) => On(q, s)'
  BY Explained
<1>1. Locals'
  BY DEF Crash, Locals, Running, Queries
<1>2. Origin'
  BY DEF Crash, Origin, Stored
<1>3. Overlap'
  BY DEF Crash, Overlap, Running
<1>4. Inserts'
  BY DEF Crash, Inserts, Stored
<1>5. Wanted'
  BY DEF Crash, Wanted, Asked, On, Locals, Stored, Blank, DefaultEntity
<1>6. ListenersAsked'
  BY DEF Crash, ListenersAsked
<1>7. Timed'
  BY DEF Crash, Timed, On
<1>8. Backed'
  BY DEF Crash, Backed, DocsOf, Stored, Torn, Uncaching, On
<1>9. Fresh'
  BY <1>a DEF Crash, Fresh, Saves, Deletes, Orderly, Agrees, Mending, DocsOf, Stored, Origin,
     Locals, Overlap, On, Queries
<1> QED
  BY <1>1, <1>2, <1>3, <1>4, <1>5, <1>6, <1>7, <1>8, <1>9

\* Nothing happens.
LEMMA StepIdle ==
  ASSUME Inv, TypeOK', Lasting, UNCHANGED vars
  PROVE  Parts'
<1> USE Different, BlankType DEF Inv, Parts, At, stores, sockets
<1>a. \A s \in Subs : (Asked(s) => Asked(s)') /\ (Torn(s) => Torn(s)') /\ (Orderly(s)' => Orderly(s))
  BY Explained
<1>b. \A s \in Subs, q \in Tasks : On(q, s) => On(q, s)'
  BY Explained
<1>1. Locals'
  BY DEF vars, Locals
<1>2. Origin'
  BY DEF vars, Origin, Stored
<1>3. Overlap'
  BY DEF vars, Overlap, Running
<1>4. Inserts'
  BY DEF vars, Inserts, Stored
<1>5. Wanted'
  BY DEF vars, Wanted, Asked, On, Stored
<1>6. ListenersAsked'
  BY DEF vars, ListenersAsked, On
<1>7. Timed'
  BY DEF vars, Timed, On
<1>8. Backed'
  BY DEF vars, Backed, DocsOf, Stored, Torn, Uncaching, On
<1>9. Fresh'
  BY DEF vars, Fresh, Orderly, Agrees, Mending, DocsOf, Stored, On
<1> QED
  BY <1>1, <1>2, <1>3, <1>4, <1>5, <1>6, <1>7, <1>8, <1>9

-----------------------------------------------------------------------------
(* Theorems *)

\* The invariant holds after every step.
LEMMA StepInv == Inv /\ [Next]_vars => Inv'
<1> SUFFICES ASSUME Inv, [Next]_vars PROVE Inv'
  OBVIOUS
<1>1. TypeOK' /\ Lasting
  BY StepType, LastingSteps DEF Inv, Parts
<1>2. TypeOK
  BY DEF Inv
<1>3. ASSUME NEW t \in Tasks, Begin(t) PROVE Parts'
  BY <1>1, <1>3, StepBegin
<1>4. ASSUME NEW t \in Tasks, Quiet1(t) PROVE Parts'
  BY <1>1, <1>4, StepQuiet
<1>5. ASSUME NEW t \in Tasks, Step(t) PROVE Parts'
  <2>1. CASE Find(t) \/ Insert(t) \/ Update(t) \/ Load(t)
    BY <1>1, <2>1, StepFind, StepInsert, StepUpdate, StepLoad
  <2>2. CASE SetKey(t) \/ ExpireKey(t)
    BY <1>1, <2>2, StepSetKey, StepExpireKey
  <2>3. CASE DeleteDoc(t) \/ Uncache(t)
    BY <1>1, <2>3, StepDeleteDoc, StepUncache
  <2>4. CASE ReadKey(t) \/ Fetch(t)
    BY <1>1, <1>2, <1>4, <2>4, StepReadKey, StepFetch, QuietSteps
  <2>5. CASE Announce(t) \/ Keys(t) \/ GetKey(t) \/ FindMany(t) \/ Reply(t)
    BY <1>2, <1>4, <2>5, QuietSteps
  <2> QED
    BY <1>5, <2>1, <2>2, <2>3, <2>4, <2>5 DEF Step
<1>6. ASSUME NEW t \in Tasks, Abort(t) \/ LoseKey(t) PROVE Parts'
  BY <1>1, <1>2, <1>4, <1>6, StepAbort, QuietSteps
<1>7. ASSUME NEW s \in Subs, Expire(s) PROVE Parts'
  BY <1>1, <1>7, StepExpire
<1>8. ASSUME Crash PROVE Parts'
  BY <1>1, <1>8, StepCrash
<1>9. ASSUME UNCHANGED vars PROVE Parts'
  BY <1>1, <1>9, StepIdle
<1>10. Parts'
  BY <1>3, <1>5, <1>6, <1>7, <1>8, <1>9 DEF Next, AllDone
<1> QED
  BY <1>1, <1>10 DEF Inv

\* Every behaviour keeps the invariant.
THEOREM Invariance == Spec => []Inv
<1>1. Init => Inv
  BY InitInv
<1>2. Inv /\ [Next]_vars => Inv'
  BY StepInv
<1> QED
  BY <1>1, <1>2, PTL DEF Spec

\* Types: what a task has read back is always an entity, the default one at worst.
THEOREM TypeCorrect == Spec => []TypeOK
<1>1. Inv => TypeOK
  BY DEF Inv
<1> QED
  BY <1>1, Invariance, PTL

\* A set without two different members has one at most.
LEMMA AtMostOne ==
  ASSUME NEW S, \A d, e \in S : d = e
  PROVE  Cardinality(S) \in Nat /\ Cardinality(S) <= 1
<1>1. CASE S = {}
  BY <1>1, FS_EmptySet
<1>2. CASE S # {}
  <2>1. PICK d \in S : TRUE
    BY <1>2
  <2>2. S = {d}
    BY <2>1
  <2> QED
    BY <2>2, FS_Singleton
<1> QED
  BY <1>1, <1>2

\* Two documents of one socket are those of two saves that overlapped.
LEMMA Doubles ==
  ASSUME Inv, NEW s \in Subs, NEW d \in DocsOf(s), NEW e \in DocsOf(s), d # e
  PROVE  /\ {d, e} \subseteq raced
         /\ \A o \in {d, e} : On(o, s) /\ job[o].kind \in Saves
<1> USE DEF Inv, Parts, DocsOf, Origin, Inserts, Stored, On
<1> QED
  OBVIOUS

\* DuplicatesHaveACause: the two saves that overlapped are those that inserted.
THEOREM DuplicatesExplained == Spec => []DuplicatesHaveACause
<1>1. Inv => DuplicatesHaveACause
  <2> SUFFICES ASSUME Inv, NEW s \in Subs, Cardinality(DocsOf(s)) > 1
               PROVE  \E t, q \in raced : t # q /\ \A o \in {t, q} : On(o, s) /\ job[o].kind \in Saves
    BY DEF DuplicatesHaveACause
  <2>1. PICK d \in DocsOf(s), e \in DocsOf(s) : d # e
    BY AtMostOne
  <2> QED
    BY <2>1, Doubles
<1> QED
  BY <1>1, Invariance, PTL

\* ListenersAsked: whoever is in the room is connected and asked for it.
THEOREM RoomExplained == Spec => []ListenersAsked
<1>1. Inv => ListenersAsked
  BY DEF Inv, Parts
<1> QED
  BY <1>1, Invariance, PTL

\* KeysExpire: a key without a time to live was left by a task that was cut.
THEOREM KeysTimed == Spec => []KeysExpire
<1>1. Inv => KeysExpire
  BY DEF Inv, Parts, Timed, KeysExpire, Quiet, Running, Queries
<1> QED
  BY <1>1, Invariance, PTL

\* GhostsHaveACause: a key without a document was left by a delete that was cut or
\* overlapped.
THEOREM GhostsExplained == Spec => []GhostsHaveACause
<1>1. Inv => GhostsHaveACause
  BY DEF Inv, Parts, Backed, Torn, Uncaching, GhostsHaveACause, Quiet, Running, Queries
<1> QED
  BY <1>1, Invariance, PTL

\* OrderlySocketsAgree: calls of one socket that follow each other leave it consistent.
THEOREM OrderlyAgree == Spec => []OrderlySocketsAgree
<1>1. Inv => OrderlySocketsAgree
  <2> SUFFICES ASSUME Inv, NEW s \in Subs, Orderly(s), Quiet(s)
               PROVE  /\ Cardinality(DocsOf(s)) <= 1
                      /\ cache[s] # NULL => \E d \in DocsOf(s) : /\ cache[s].sub = s
                                                                 /\ cache[s].listen = docs[d].listen
    BY DEF OrderlySocketsAgree
  <2>1. \A d, e \in DocsOf(s) : d = e
    BY Doubles DEF Orderly, DocsOf
  <2>2. ~Mending(s)
    BY DEF Mending, Quiet, Running, Queries
  <2> QED
    BY <2>1, <2>2, AtMostOne DEF Inv, Parts, Fresh, Agrees
<1> QED
  BY <1>1, Invariance, PTL
=============================================================================
