---------------------------- MODULE Subscriptions ----------------------------
(***************************************************************************)
(* The subscriptions of WebSocket clients: one document per socket id in   *)
(* MongoDB, a copy of it in Redis, the room of the sockets that want to    *)
(* hear of new connections.  SubscriptionService is called by the socket   *)
(* server (connect, reconnect, disconnect) and by GraphQL and REST         *)
(* (create or update, remove, find, list), and every call is a task that   *)
(* is suspended at each query.  Nothing orders the tasks of one socket, no *)
(* index makes subscriptionId unique, and any query may be the last one of *)
(* its task (Abort) or of the process (Crash).                             *)
(***************************************************************************)
EXTENDS FiniteSets, Naturals

CONSTANTS Subs,   \* socket ids, which are the subscription ids
          Tasks,  \* calls of the service, numbered in the order they come
          NULL,   \* null, or a document not inserted yet
          GONE    \* in the place of a deleted document: an _id is not used again

VARIABLES
  docs,       \* collection: _id -> document, NULL or GONE; a call inserts one
              \* document at most, and its number stands for the _id
  cache,      \* Redis, keys subscriptions:<id>: id -> entry or NULL
  conn,       \* socket id -> connection
  room,       \* members of the room new_connections
  job,        \* task -> what it was called for
  pc,         \* task -> the query it waits for
  mem,        \* task -> its local variables
  raced       \* history: tasks that ran at the same time as another on their socket

stores == <<docs, cache>>
sockets == <<conn, room>>
vars == <<docs, cache, conn, room, job, pc, mem, raced>>

-----------------------------------------------------------------------------
(* Data.  Of a subscription only newConnectionsListen is kept. *)

Entity == [sub : Subs \cup {NULL}, listen : BOOLEAN]
Entry == [sub : Subs \cup {NULL}, listen : BOOLEAN, expires : BOOLEAN]

Saves == {"connect", "reconnect", "write"}
Deletes == {"disconnect", "remove"}

\* flag: the newConnections to save; the useCache of a list.
Job == [kind : Saves \cup Deletes \cup {"find", "list"}, sub : Subs \cup {NULL}, flag : BOOLEAN]
Call(kind, s, flag) == [kind |-> kind, sub |-> s, flag |-> flag]

\* doc: the _id found or inserted; val: the entity read; keys: keys still to
\* get; listed: the result of list, NULL for an entity without an id.
Memory == [doc : Tasks \cup {NULL}, val : Entity, keys : SUBSET Subs,
           listed : SUBSET (Subs \cup {NULL})]

\* new SubscriptionEntity(null): every field has its default.
DefaultEntity == [sub |-> NULL, listen |-> FALSE]
Blank == [doc |-> NULL, val |-> DefaultEntity, keys |-> {}, listed |-> {}]

Queries == {"find", "insert", "update", "load", "read", "set", "expire", "announce",
            "delete", "uncache", "fetch", "keys", "gets", "many", "reply"}
Running(t) == pc[t] \in Queries

\* Undefined values differ from all others.
ASSUME NullAssumption ==
  /\ Tasks \subseteq Nat
  /\ NULL # GONE /\ {NULL, GONE} \cap (Subs \cup Tasks) = {}
  /\ {NULL, GONE} \cap (Entity \cup Entry \cup Job) = {}

TypeOK == /\ docs \in [Tasks -> Entity \cup {NULL, GONE}]
          /\ cache \in [Subs -> Entry \cup {NULL}]
          /\ conn \in [Subs -> {"new", "open", "closed"}]
          /\ room \subseteq Subs
          /\ job \in [Tasks -> Job \cup {NULL}]
          /\ pc \in [Tasks -> Queries \cup {"idle", "done", "failed"}]
          /\ mem \in [Tasks -> Memory]
          /\ raced \subseteq Tasks

Init == /\ docs = [d \in Tasks |-> NULL]
        /\ cache = [s \in Subs |-> NULL]
        /\ conn = [s \in Subs |-> "new"]
        /\ room = {}
        /\ job = [t \in Tasks |-> NULL]
        /\ pc = [t \in Tasks |-> "idle"]
        /\ mem = [t \in Tasks |-> Blank]
        /\ raced = {}

Stored(d) == docs[d] \notin {NULL, GONE}
DocsOf(s) == {d \in Tasks : Stored(d) /\ docs[d].sub = s}

-----------------------------------------------------------------------------
(* Control of a task *)

\* A list meets every task, another task those of its socket.
Meet(j, k) == j.sub = k.sub \/ j.kind = "list"

Start(t, j, p) ==
  /\ pc[t] = "idle"
  /\ \A q \in Tasks : q < t => pc[q] # "idle"
  /\ job' = [job EXCEPT ![t] = j]
  /\ pc' = [pc EXCEPT ![t] = p]
  /\ raced' = raced \cup {q \in Tasks : Running(q) /\ Meet(job[q], j)}
                    \cup {q \in {t} : \E o \in Tasks : Running(o) /\ Meet(j, job[o])}
  /\ UNCHANGED <<stores, mem>>

At(t, p, kinds) == pc[t] = p /\ job[t].kind \in kinds

Goto(t, p, m) == /\ pc' = [pc EXCEPT ![t] = p]
                 /\ mem' = [mem EXCEPT ![t] = m]
                 /\ UNCHANGED <<job, raced>>

Return(t) == Goto(t, "done", Blank)

-----------------------------------------------------------------------------
(* What starts a task *)

\* handleConnection
Connect(t, s) == /\ conn[s] = "new"
                 /\ conn' = [conn EXCEPT ![s] = "open"]
                 /\ Start(t, Call("connect", s, FALSE), "find")
                 /\ UNCHANGED room

\* handleReconnect, a message of an open socket; a flag that is left out is
\* saved as FALSE.
Reconnect(t, s) == /\ conn[s] = "open"
                   /\ \E l \in BOOLEAN : Start(t, Call("reconnect", s, l), "find")
                   /\ UNCHANGED <<conn, room>>

\* The socket leaves its rooms, then handleDisconnect deletes.
Disconnect(t, s) == /\ conn[s] = "open"
                    /\ conn' = [conn EXCEPT ![s] = "closed"]
                    /\ room' = room \ {s}
                    /\ Start(t, Call("disconnect", s, FALSE), "find")

\* GraphQL, for any id: createConnection and updateConnection, removeConnection,
\* findConnection, findConnections; the REST list may skip the cache.
Request(t) ==
  /\ \/ \E s \in Subs, l \in BOOLEAN : Start(t, Call("write", s, l), "find")
     \/ \E s \in Subs : Start(t, Call("remove", s, FALSE), "find")
     \/ \E s \in Subs : Start(t, Call("find", s, FALSE), "read")
     \/ \E useCache \in BOOLEAN : Start(t, Call("list", NULL, useCache), "keys")
  /\ UNCHANGED <<conn, room>>

-----------------------------------------------------------------------------
(* save *)

\* Mutants: a save that does not look for a document; a delete that only knows
\* the cache.
BlindFind(t) ==
  /\ At(t, "find", Saves \cup Deletes)
  /\ LET s == job[t].sub IN
     \/ /\ job[t].kind \in Saves \/ DocsOf(s) = {}
        /\ Goto(t, IF job[t].kind \in Saves THEN "insert" ELSE "uncache", mem[t])
     \/ \E d \in DocsOf(s) : /\ job[t].kind \in Deletes
                            /\ Goto(t, "delete", [mem[t] EXCEPT !.doc = d])
  /\ UNCHANGED <<stores, sockets>>

CacheOnlyFind(t) ==
  /\ At(t, "find", Saves \cup Deletes)
  /\ LET s == job[t].sub IN
     \/ /\ job[t].kind \in Deletes \/ DocsOf(s) = {}
        /\ Goto(t, IF job[t].kind \in Saves THEN "insert" ELSE "uncache", mem[t])
     \/ \E d \in DocsOf(s) : /\ job[t].kind \in Saves
                            /\ Goto(t, "update", [mem[t] EXCEPT !.doc = d])
  /\ UNCHANGED <<stores, sockets>>

\* findOne({ subscriptionId }): any of the documents with that id.
Find(t) ==
  /\ At(t, "find", Saves \cup Deletes)
  /\ LET s == job[t].sub IN
     \/ /\ DocsOf(s) = {}
        /\ Goto(t, IF job[t].kind \in Saves THEN "insert" ELSE "uncache", mem[t])
     \/ \E d \in DocsOf(s) :
          Goto(t, IF job[t].kind \in Saves THEN "update" ELSE "delete",
               [mem[t] EXCEPT !.doc = d])
  /\ UNCHANGED <<stores, sockets>>

Insert(t) ==
  /\ At(t, "insert", Saves)
  /\ docs' = [docs EXCEPT ![t] = [sub |-> job[t].sub, listen |-> job[t].flag]]
  /\ Goto(t, "load", [mem[t] EXCEPT !.doc = t])
  /\ UNCHANGED <<cache, sockets>>

\* updateOne matches nothing, and does not fail, when the document is gone.
Update(t) ==
  /\ At(t, "update", Saves)
  /\ docs' = IF Stored(mem[t].doc)
               THEN [docs EXCEPT ![mem[t].doc].listen = job[t].flag]
               ELSE docs
  /\ Goto(t, "load", mem[t])
  /\ UNCHANGED <<cache, sockets>>

\* Mutant: null is not replaced by the default entity.
RawLoad(t) ==
  /\ At(t, "load", Saves)
  /\ Goto(t, "set", [mem[t] EXCEPT !.val = docs[mem[t].doc]])
  /\ UNCHANGED <<stores, sockets>>

\* The document is read back by _id; if it is gone the entity is the default.
Load(t) ==
  /\ At(t, "load", Saves)
  /\ Goto(t, "set", [Blank EXCEPT !.val = IF Stored(mem[t].doc) THEN docs[mem[t].doc]
                                                           ELSE DefaultEntity])
  /\ UNCHANGED <<stores, sockets>>

-----------------------------------------------------------------------------
(* The cache *)

\* Mutant: SET without EXPIRE.
BareSetKey(t) ==
  /\ At(t, "set", Saves \cup {"find"})
  /\ cache' = [cache EXCEPT ![job[t].sub] =
                 [sub |-> mem[t].val.sub, listen |-> mem[t].val.listen, expires |-> FALSE]]
  /\ IF job[t].kind = "connect" THEN Goto(t, "announce", mem[t]) ELSE Return(t)
  /\ UNCHANGED <<docs, sockets>>

\* RedisClient.set is SET, which clears the time to live, and then EXPIRE.
SetKey(t) ==
  /\ At(t, "set", Saves \cup {"find"})
  /\ cache' = [cache EXCEPT ![job[t].sub] =
                 [sub |-> mem[t].val.sub, listen |-> mem[t].val.listen, expires |-> FALSE]]
  /\ Goto(t, "expire", mem[t])
  /\ UNCHANGED <<docs, sockets>>

\* Mutant: every reconnect joins the room.
AlwaysJoin(t) ==
  /\ At(t, "expire", Saves \cup {"find"})
  /\ LET s == job[t].sub IN
     /\ cache' = IF cache[s] = NULL THEN cache ELSE [cache EXCEPT ![s].expires = TRUE]
     /\ IF job[t].kind = "connect" THEN Goto(t, "announce", mem[t]) ELSE Return(t)
     /\ room' = IF job[t].kind = "reconnect" /\ conn[s] = "open" THEN room \cup {s} ELSE room
  /\ UNCHANGED <<docs, conn>>

\* Back from the cache: find returns, connect goes on to announce, reconnect
\* joins or leaves the room by what the document says.  A socket that is gone
\* joins nothing.
ExpireKey(t) ==
  /\ At(t, "expire", Saves \cup {"find"})
  /\ LET s == job[t].sub IN
     /\ cache' = IF cache[s] = NULL THEN cache ELSE [cache EXCEPT ![s].expires = TRUE]
     /\ IF job[t].kind = "connect" THEN Goto(t, "announce", mem[t]) ELSE Return(t)
     /\ room' = IF job[t].kind # "reconnect" THEN room
                  ELSE IF mem[t].val.listen /\ conn[s] = "open" THEN room \cup {s}
                  ELSE room \ {s}
  /\ UNCHANGED <<docs, conn>>

\* The NEW_CONNECTION event goes to the queue; the producer swallows the error
\* of one that could not be sent.
Announce(t) == /\ At(t, "announce", {"connect"})
               /\ Return(t)
               /\ UNCHANGED <<stores, sockets>>

\* The time to live runs out.
Expire(s) == /\ cache[s] # NULL /\ cache[s].expires
             /\ cache' = [cache EXCEPT ![s] = NULL]
             /\ UNCHANGED <<docs, sockets, job, pc, mem, raced>>

-----------------------------------------------------------------------------
(* delete *)

DeleteDoc(t) ==
  /\ At(t, "delete", Deletes)
  /\ docs' = [docs EXCEPT ![mem[t].doc] = GONE]
  /\ Goto(t, "uncache", Blank)
  /\ UNCHANGED <<cache, sockets>>

\* Mutant: the key is left to expire.
ForgetfulUncache(t) ==
  /\ At(t, "uncache", Deletes)
  /\ Return(t)
  /\ UNCHANGED <<stores, sockets>>

Uncache(t) ==
  /\ At(t, "uncache", Deletes)
  /\ cache' = [cache EXCEPT ![job[t].sub] = NULL]
  /\ Return(t)
  /\ UNCHANGED <<docs, sockets>>

-----------------------------------------------------------------------------
(* get *)

\* A hit is written to the cache again, with a new time to live.
ReadKey(t) ==
  /\ At(t, "read", {"find"})
  /\ LET hit == cache[job[t].sub] IN
     IF hit = NULL THEN Goto(t, "fetch", mem[t])
       ELSE Goto(t, "set", [mem[t] EXCEPT !.val = [sub |-> hit.sub, listen |-> hit.listen]])
  /\ UNCHANGED <<stores, sockets>>

\* Mutant: what is not found is cached as the default entity.
EagerFetch(t) ==
  /\ At(t, "fetch", {"find"})
  /\ \/ DocsOf(job[t].sub) = {} /\ Goto(t, "set", mem[t])
     \/ \E d \in DocsOf(job[t].sub) : Goto(t, "set", [mem[t] EXCEPT !.val = docs[d]])
  /\ UNCHANGED <<stores, sockets>>

\* A miss is looked up in MongoDB, and is not found if it is not there.
Fetch(t) ==
  /\ At(t, "fetch", {"find"})
  /\ \/ DocsOf(job[t].sub) = {} /\ Return(t)
     \/ \E d \in DocsOf(job[t].sub) : Goto(t, "set", [mem[t] EXCEPT !.val = docs[d]])
  /\ UNCHANGED <<stores, sockets>>

-----------------------------------------------------------------------------
(* list: KEYS, a GET per key, and MongoDB if nothing was cached or the      *)
(* cache is not wanted                                                      *)

UseCache(t) == job[t].flag

Keys(t) ==
  /\ At(t, "keys", {"list"})
  /\ LET found == {s \in Subs : cache[s] # NULL} IN
     Goto(t, IF found = {} THEN "many" ELSE "gets", [mem[t] EXCEPT !.keys = found])
  /\ UNCHANGED <<stores, sockets>>

Got(t, s, id) ==
  LET rest == mem[t].keys \ {s}
      m == [mem[t] EXCEPT !.keys = rest, !.listed = mem[t].listed \cup {id}]
  IN CASE rest # {} -> Goto(t, "gets", m)
       [] rest = {} /\ UseCache(t) -> Goto(t, "reply", m)
       [] rest = {} /\ ~UseCache(t) -> Goto(t, "many", m)

\* A key that is gone since KEYS yields an entity without an id.
GetKey(t) ==
  /\ At(t, "gets", {"list"})
  /\ \E s \in mem[t].keys : Got(t, s, IF cache[s] = NULL THEN NULL ELSE cache[s].sub)
  /\ UNCHANGED <<stores, sockets>>

FindMany(t) ==
  /\ At(t, "many", {"list"})
  /\ Goto(t, "reply", [mem[t] EXCEPT !.listed = {docs[d].sub : d \in {e \in Tasks : Stored(e)}}])
  /\ UNCHANGED <<stores, sockets>>

\* The entities are answered.
Reply(t) == /\ At(t, "reply", {"list"})
            /\ Return(t)
            /\ UNCHANGED <<stores, sockets>>

-----------------------------------------------------------------------------
(* Failures *)

\* A query rejects; what the task did before stays (a query that was executed
\* and then rejects is its step and an Abort at the next).  The producer and
\* the GETs of a list do not let errors through.
Abort(t) == /\ Running(t) /\ pc[t] \notin {"announce", "gets", "reply"}
            /\ Goto(t, "failed", Blank)
            /\ UNCHANGED <<stores, sockets>>

\* Promise.allSettled: a GET that rejects yields an entity without an id.
LoseKey(t) == /\ At(t, "gets", {"list"})
              /\ \E s \in mem[t].keys : Got(t, s, NULL)
              /\ UNCHANGED <<stores, sockets>>

\* The process dies: no handler runs for the sockets it had.
Crash == /\ (\E s \in Subs : conn[s] = "open") \/ (\E t \in Tasks : Running(t))
         /\ conn' = [s \in Subs |-> IF conn[s] = "open" THEN "closed" ELSE conn[s]]
         /\ room' = {}
         /\ pc' = [t \in Tasks |-> IF Running(t) THEN "failed" ELSE pc[t]]
         /\ mem' = [t \in Tasks |-> IF Running(t) THEN Blank ELSE mem[t]]
         /\ UNCHANGED <<stores, job, raced>>

-----------------------------------------------------------------------------
Begin(t) == \/ \E s \in Subs : Connect(t, s) \/ Reconnect(t, s) \/ Disconnect(t, s)
            \/ Request(t)

Step(t) == \/ Find(t) \/ Insert(t) \/ Update(t) \/ Load(t)
           \/ SetKey(t) \/ ExpireKey(t) \/ Announce(t)
           \/ DeleteDoc(t) \/ Uncache(t)
           \/ ReadKey(t) \/ Fetch(t)
           \/ Keys(t) \/ GetKey(t) \/ FindMany(t) \/ Reply(t)

AllDone == /\ \A t \in Tasks : pc[t] \in {"done", "failed"}
           /\ UNCHANGED vars

Next == \/ \E t \in Tasks : Begin(t) \/ Step(t) \/ Abort(t) \/ LoseKey(t)
        \/ \E s \in Subs : Expire(s)
        \/ Crash
        \/ AllDone

\* Every query settles, and Redis drops a key some time after its time is up.
Fairness == /\ \A t \in Tasks : WF_vars(Step(t))
            /\ \A s \in Subs : WF_vars(Expire(s))

Spec == Init /\ [][Next]_vars

\* The same without failures, for what the code alone decides.
HealthySpec == Init /\ [][\/ \E t \in Tasks : Begin(t) \/ Step(t)
                          \/ \E s \in Subs : Expire(s)
                          \/ AllDone]_vars
FairSpec == HealthySpec /\ Fairness

-----------------------------------------------------------------------------
(* Properties *)

On(t, s) == job[t] # NULL /\ job[t].sub = s
Quiet(s) == \A t \in Tasks : On(t, s) => ~Running(t)
Orderly(s) == \A t \in Tasks : On(t, s) => t \notin raced /\ pc[t] # "failed"

\* Calls for one socket that follow each other, whatever those for other
\* sockets do, leave one document at most and a cache that agrees with it.
OrderlySocketsAgree ==
  \A s \in Subs : Orderly(s) /\ Quiet(s) =>
    /\ Cardinality(DocsOf(s)) <= 1
    /\ cache[s] # NULL => \E d \in DocsOf(s) : /\ cache[s].sub = s
                                               /\ cache[s].listen = docs[d].listen

\* Two documents with one subscriptionId come from two saves of that socket
\* that overlapped: no failure and no crash alone brings them about.
DuplicatesHaveACause ==
  \A s \in Subs : Cardinality(DocsOf(s)) > 1 =>
    \E t, q \in raced : t # q /\ \A o \in {t, q} : On(o, s) /\ job[o].kind \in Saves

\* A cached subscription without a document is what a delete left that was
\* cut, or that ran while the same socket was saved or read.
GhostsHaveACause ==
  \A s \in Subs : cache[s] # NULL /\ DocsOf(s) = {} /\ Quiet(s) =>
    \E t \in Tasks : On(t, s) /\ job[t].kind \in Deletes /\ (t \in raced \/ pc[t] = "failed")

\* However tasks overlap, only an open socket is in the room, and only when
\* it sent a reconnect and somebody asked for it to listen.
ListenersAsked ==
  \A s \in room :
    /\ conn[s] = "open"
    /\ \E t \in Tasks : On(t, s) /\ job[t].kind = "reconnect"
    /\ \E t \in Tasks : On(t, s) /\ job[t].kind \in Saves /\ job[t].flag

\* SET and EXPIRE are two queries and SET undoes an earlier EXPIRE; still,
\* unless a task was cut between them, no key stays without a time to live.
KeysExpire ==
  \A s \in Subs : cache[s] # NULL /\ Quiet(s) =>
    cache[s].expires \/ \E t \in Tasks : On(t, s) /\ pc[t] = "failed"

\* A socket that closed is forgotten, unless a call for it overlapped another
\* or GraphQL saved it again.
ClosedSocketsForgotten ==
  \A s \in Subs : conn[s] = "closed" ~>
    \/ DocsOf(s) = {} /\ cache[s] = NULL
    \/ \E t \in Tasks : On(t, s) /\ (t \in raced \/ job[t].kind = "write")

-----------------------------------------------------------------------------
(* What the documentation says and the code does not do *)

\* docs/swagger.yaml, GET /api/subscriptions: "List websockets subscriptions".
\* A list that no other call overlaps shows every stored subscription.
ListIsComplete ==
  \A t \in Tasks \ raced : pc[t] = "reply" =>
    \A d \in Tasks : Stored(d) => docs[d].sub \in mem[t].listed
=============================================================================
