----------------------------- MODULE Notifications -----------------------------
(***************************************************************************)
(* Who hears of an event.  The instance that handles an event passes it to *)
(* its own socket client, which is connected, most of the time, to the     *)
(* socket server of the same instance; the server emits it to the sockets  *)
(* of a room or to all others.  Any client may send the same two messages. *)
(* Rooms are kept by each instance for its own sockets.  What a connection *)
(* was saved with is in Subscriptions, how an event gets here in           *)
(* EventsQueue.                                                            *)
(***************************************************************************)
EXTENDS Naturals, SequencesExt

CONSTANTS Instances, \* instances of the program
          Sockets,   \* external sockets, each of them connects once
          Events,    \* receptions of events that are valid
          Notes,     \* messages of external clients
          Attempts,  \* reconnectionAttempts (3)
          MaxBreaks  \* bound on lost connections and crashes

ASSUME NotificationsAssumption == /\ Attempts \in Nat \ {0} /\ MaxBreaks \in Nat
                                  /\ Events \cap Notes = {}
                                  /\ "nowhere" \notin Instances

VARIABLES
  home,    \* socket -> the instance it connects to
  conn,    \* socket -> connection
  room,    \* sockets in the room new_connections of their instance
  up,      \* instances whose own client is connected
  left,    \* instance -> attempts to connect that its client has left
  outbox,  \* instance -> packets its client keeps until it is connected
  wire,    \* instance -> packets on their way to its server
  at,      \* event or note -> the instance that handled it
  heard,   \* socket -> what it heard, in this order
  breaks,  \* connections lost and crashes so far
  order,   \* history: instance -> the events it handled, in this order
  meant,   \* history: event -> sockets it was for, and has been for ever since
  broken   \* history: events that were lost with a connection or an instance

sockets == <<conn, room>>
client == <<up, left, outbox, wire>>
history == <<order, meant, broken>>
vars == <<home, sockets, client, at, heard, breaks, history>>

-----------------------------------------------------------------------------
(* Data *)

Kinds == {"broadcast", "emit_private"}
Rooms == {"new_connections"}

\* to: socketIdsOrRooms, nothing where it is left out; keys: whether the message has
\* any; object: whether it is an object, or the JSON of one.
Packets == [id : Events \cup Notes, kind : Kinds, to : SUBSET (Sockets \cup Rooms),
            keys : BOOLEAN, object : BOOLEAN]

\* What the service of subscriptions makes of an event.
Emit(e, rooms) == [id |-> e, kind |-> "emit_private", to |-> rooms, keys |-> TRUE, object |-> TRUE]
Broadcast(e) == [id |-> e, kind |-> "broadcast", to |-> {}, keys |-> TRUE, object |-> TRUE]

Ids(packets) == {p.id : p \in ToSet(packets)}
Open == {s \in Sockets : conn[s] = "open"}

TypeOK == /\ home \in [Sockets -> Instances]
          /\ conn \in [Sockets -> {"new", "open", "closed"}]
          /\ room \subseteq Open
          /\ up \subseteq Instances
          /\ left \in [Instances -> 0 .. Attempts + 1]
          /\ outbox \in [Instances -> Seq(Packets)]
          /\ wire \in [Instances -> Seq(Packets)]
          /\ \A i \in Instances : IF i \in up THEN outbox[i] = <<>> /\ left[i] # 0 ELSE wire[i] = <<>>
          /\ at \in [Events \cup Notes -> Instances \cup {"nowhere"}]
          /\ heard \in [Sockets -> Seq(Events \cup Notes)]
          /\ breaks \in 0 .. MaxBreaks
          /\ order \in [Instances -> Seq(Events)]
          /\ meant \in [Events -> SUBSET Sockets]
          /\ broken \subseteq Events

Init == /\ home \in [Sockets -> Instances]
        /\ conn = [s \in Sockets |-> "new"]
        /\ room = {} /\ up = {}
        /\ left = [i \in Instances |-> Attempts + 1]
        /\ outbox = [i \in Instances |-> <<>>]
        /\ wire = [i \in Instances |-> <<>>]
        /\ at = [x \in Events \cup Notes |-> "nowhere"]
        /\ heard = [s \in Sockets |-> <<>>]
        /\ breaks = 0
        /\ order = [i \in Instances |-> <<>>]
        /\ meant = [e \in Events |-> {}]
        /\ broken = {}

-----------------------------------------------------------------------------
(* Sockets *)

Connect(s) == /\ conn[s] = "new"
              /\ conn' = [conn EXCEPT ![s] = "open"]
              /\ UNCHANGED <<home, room, client, at, heard, breaks, history>>

Forget(gone) == meant' = [e \in Events |-> meant[e] \ gone]

\* Mutant: a socket that closes stays in its room.
ForgetfulClose(gone) == /\ conn' = [s \in Sockets |-> IF s \in gone THEN "closed" ELSE conn[s]]
                        /\ Forget(gone)
                        /\ UNCHANGED room

Close(gone) == /\ conn' = [s \in Sockets |-> IF s \in gone THEN "closed" ELSE conn[s]]
               /\ room' = room \ gone
               /\ Forget(gone)

Disconnect(s) == /\ s \in Open /\ Close({s})
                 /\ UNCHANGED <<home, client, at, heard, breaks, order, broken>>

\* An event for the room that has not been emitted yet.
ForRoom(e) == \E i \in Instances : \E p \in ToSet(wire[i]) \cup ToSet(outbox[i]) :
                p.id = e /\ p.kind = "emit_private"

\* Joins or leaves the room, as the subscription was saved; a save that fails is
\* answered with an error and changes nothing here.
Reconnect(s) ==
  /\ s \in Open
  /\ \/ room' = room \cup {s} /\ UNCHANGED meant
     \/ /\ room' = room \ {s}
        /\ meant' = [e \in Events |-> IF ForRoom(e) THEN meant[e] \ {s} ELSE meant[e]]
  /\ UNCHANGED <<home, conn, client, at, heard, breaks, order, broken>>

\* The cron task disconnects every socket of an instance whose client is not
\* connected.
Kick(i) == /\ i \notin up
           /\ LET gone == {s \in Open : home[s] = i} IN gone # {} /\ Close(gone)
           /\ UNCHANGED <<home, client, at, heard, breaks, order, broken>>

-----------------------------------------------------------------------------
(* The server *)

\* The guard is only asked where the event has a handler, and then it is a known one.
Passes(p) == p.keys

\* Whom a message names: what cannot be parsed is a text, which names nobody.
Named(p) == IF p.object THEN p.to ELSE {}

\* Broadcast goes to all sockets but the sender, emit_private to whom it names, the
\* sender too; without a name it is dropped.
Listeners(i, p, sender) ==
  {s \in Open : /\ home[s] = i
                /\ CASE p.kind = "broadcast" -> s \notin sender
                     [] p.kind = "emit_private" -> s \in Named(p) \/ (s \in room /\ Rooms \subseteq Named(p))}

Emitted(i, p, sender) ==
  heard' = [s \in Sockets |-> IF s \in Listeners(i, p, sender) THEN Append(heard[s], p.id) ELSE heard[s]]

\* Mutant: packets that wait are handled in any order.
HastyReceive(i) == /\ \E k \in DOMAIN wire[i] : /\ Emitted(i, wire[i][k], {})
                                                /\ wire' = [wire EXCEPT ![i] = RemoveAt(@, k)]
                   /\ UNCHANGED <<home, sockets, up, left, outbox, at, breaks, history>>

\* The server of an instance handles a packet of the instance's own client, which is
\* no socket that listens.
Receive(i) == /\ wire[i] # <<>>
              /\ Emitted(i, Head(wire[i]), {})
              /\ wire' = [wire EXCEPT ![i] = Tail(@)]
              /\ UNCHANGED <<home, sockets, up, left, outbox, at, breaks, history>>

\* The sender hears that it was refused, which is not kept.
Refused(p) == ~Passes(p) /\ UNCHANGED heard

\* A client's own message: whatever it says, to whomever it names.
Note(s, n) ==
  /\ s \in Open /\ at[n] = "nowhere"
  /\ at' = [at EXCEPT ![n] = home[s]]
  /\ \E p \in {q \in Packets : q.id = n} :
       Refused(p) \/ (Passes(p) /\ Emitted(home[s], p, {s}))
  /\ UNCHANGED <<home, sockets, client, breaks, history>>

-----------------------------------------------------------------------------
(* The own client of an instance *)

\* Mutant: what is sent without a connection is dropped.
VolatileSend(i, p) == /\ wire' = IF i \in up THEN [wire EXCEPT ![i] = Append(@, p)] ELSE wire
                      /\ UNCHANGED outbox

\* Sent, or kept until there is a connection.
Send(i, p) == IF i \in up
                THEN wire' = [wire EXCEPT ![i] = Append(@, p)] /\ UNCHANGED outbox
                ELSE outbox' = [outbox EXCEPT ![i] = Append(@, p)] /\ UNCHANGED wire

\* A new connection is for those that asked for it, another event for everyone, at
\* whatever instance.
Handle(i, e) ==
  /\ at[e] = "nowhere"
  /\ at' = [at EXCEPT ![e] = i]
  /\ order' = [order EXCEPT ![i] = Append(@, e)]
  /\ \/ /\ Send(i, Emit(e, Rooms))
        /\ meant' = [meant EXCEPT ![e] = room]
     \/ /\ Send(i, Broadcast(e))
        /\ meant' = [meant EXCEPT ![e] = Open]
  /\ UNCHANGED <<home, sockets, up, left, heard, breaks, broken>>

Dial(i) == /\ i \notin up /\ left[i] # 0
           /\ up' = up \cup {i}
           /\ wire' = [wire EXCEPT ![i] = outbox[i]]
           /\ outbox' = [outbox EXCEPT ![i] = <<>>]
           /\ UNCHANGED <<home, sockets, left, at, heard, breaks, history>>

\* The last attempt that fails: nobody asks the client to connect again.
FailDial(i) == /\ i \notin up /\ left[i] # 0
               /\ left' = [left EXCEPT ![i] = @ - 1]
               /\ UNCHANGED <<home, sockets, up, outbox, wire, at, heard, breaks, history>>

\* What was sent and did not arrive is lost.
Break(i, packets, attempts) ==
  /\ breaks < MaxBreaks /\ breaks' = breaks + 1
  /\ broken' = broken \cup Ids(packets)
  /\ up' = up \ {i}
  /\ left' = [left EXCEPT ![i] = attempts]
  /\ wire' = [wire EXCEPT ![i] = <<>>]

Drop(i) == /\ i \in up /\ Break(i, wire[i], Attempts)
           /\ UNCHANGED <<home, sockets, outbox, at, heard, order, meant>>

\* The process dies and is started again.
Crash(i) == /\ Break(i, wire[i] \o outbox[i], Attempts + 1)
            /\ outbox' = [outbox EXCEPT ![i] = <<>>]
            /\ Close({s \in Open : home[s] = i})
            /\ UNCHANGED <<home, at, heard, order>>

-----------------------------------------------------------------------------
Rest == /\ \A x \in Events : at[x] # "nowhere"
        /\ \A i \in Instances : wire[i] = <<>>
        /\ UNCHANGED vars

Next == \/ \E s \in Sockets : \/ Connect(s) \/ Disconnect(s) \/ Reconnect(s)
                              \/ \E n \in Notes : Note(s, n)
        \/ \E i \in Instances : \/ Receive(i) \/ Dial(i) \/ FailDial(i) \/ Drop(i) \/ Crash(i) \/ Kick(i)
                                \/ \E e \in Events : Handle(i, e)
        \/ Rest

Spec == Init /\ [][Next]_vars

-----------------------------------------------------------------------------
(* Properties *)

\* Instance i has handled x, and another event y after it.
Told(i, x) == Contains(order[i], x)
Follows(i, x, y) ==
  x # y /\ \E k, l \in DOMAIN order[i] : k < l /\ order[i][k] = x /\ order[i][l] = y

\* A socket hears of the events in the order in which its instance handled them, and
\* of none twice, whatever the connection of the instance's client went through.
HeardInOrder ==
  \A s \in Sockets : \A n \in DOMAIN heard[s] : heard[s][n] \in Events =>
    /\ Told(home[s], heard[s][n])
    /\ \A m \in 1 .. (n - 1) : heard[s][m] \in Events => Follows(home[s], heard[s][m], heard[s][n])

\* A socket that an event is for, from when it is handled, hears of it, unless it is
\* connected to another instance or the event broke with a connection; until then
\* the event waits: on its way, or for the client to be connected again.
UnheardHasACause ==
  \A e \in Events : \A s \in meant[e] :
    LET i == at[e] IN
    \/ Contains(heard[s], e)
    \/ home[s] # i
    \/ e \in broken
    \/ i \in up /\ e \in Ids(wire[i])
    \/ i \notin up /\ e \in Ids(outbox[i])
=============================================================================
