-------------------------- MODULE NotificationsProofs --------------------------
(***************************************************************************)
(* What sockets hear, for any instances, sockets and events.  What waits   *)
(* at an instance, kept by its client or on its way, waits in the order in *)
(* which it was handled, after everything that was heard of before.        *)
(***************************************************************************)
EXTENDS Notifications, SequenceTheorems, TLAPS

\* x was handled and told of in this order: each before those after it.
Ordered(i, q) == \A n \in DOMAIN q :
                   /\ q[n].id \in Events /\ Told(i, q[n].id)
                   /\ \A m \in 1 .. (n - 1) : Follows(i, q[m].id, q[n].id)

\* What waits follows what was heard.
Later(i, q) == \A s \in Sockets : home[s] = i =>
                 \A m \in DOMAIN heard[s], n \in DOMAIN q :
                   heard[s][m] \in Events => Follows(i, heard[s][m], q[n].id)

\* A packet reaches those that its event is for.
Reach(p) == \A s \in meant[p.id] :
              /\ conn[s] = "open"
              /\ \/ p.kind = "broadcast"
                 \/ p.kind = "emit_private" /\ s \in room /\ Rooms \subseteq Named(p)
Reaches(q) == \A n \in DOMAIN q : Reach(q[n])

Waiting == \A i \in Instances : \A q \in {wire[i], outbox[i]} :
             Ordered(i, q) /\ Later(i, q) /\ Reaches(q)

\* An event is for nobody before an instance handles it, and one only does.
Handled == /\ \A e \in Events : meant[e] # {} => at[e] \in Instances
           /\ \A i \in Instances : \A e \in Events : Told(i, e) => at[e] = i

Parts == Waiting /\ Handled /\ HeardInOrder /\ UnheardHasACause
Inv == TypeOK /\ Parts

\* An event waits at an instance, where it is sought.
Pending(i, e) == IF i \in up THEN e \in Ids(wire[i]) ELSE e \in Ids(outbox[i])

-----------------------------------------------------------------------------
(* Sequences *)

\* What Append adds, and what it keeps.
LEMMA Appended ==
  ASSUME NEW S, NEW q \in Seq(S), NEW x \in S
  PROVE  /\ Append(q, x) \in Seq(S)
         /\ DOMAIN q = 1 .. Len(q) /\ Len(q) \in Nat
         /\ DOMAIN Append(q, x) = 1 .. (Len(q) + 1)
         /\ \A n \in DOMAIN q : Append(q, x)[n] = q[n]
         /\ Append(q, x)[Len(q) + 1] = x
BY AppendProperties, LenProperties

\* What Tail leaves.
LEMMA Tailed ==
  ASSUME NEW S, NEW q \in Seq(S), q # <<>>
  PROVE  /\ Tail(q) \in Seq(S) /\ Head(q) = q[1] /\ 1 \in DOMAIN q
         /\ DOMAIN q = 1 .. Len(q) /\ Len(q) \in Nat
         /\ DOMAIN Tail(q) = 1 .. (Len(q) - 1)
         /\ \A n \in DOMAIN Tail(q) : n + 1 \in DOMAIN q /\ Tail(q)[n] = q[n + 1]
BY HeadTailProperties, LenProperties, EmptySeq

\* Ids of packets, one by one.
LEMMA IdsOf ==
  ASSUME NEW S, NEW q \in Seq(S)
  PROVE  \A e : e \in Ids(q) <=> \E n \in DOMAIN q : q[n].id = e
BY DEF Ids, ToSet

\* Append adds one Id.
LEMMA IdsAppended ==
  ASSUME NEW S, NEW q \in Seq(S), NEW x \in S
  PROVE  \A e : e \in Ids(Append(q, x)) <=> e \in Ids(q) \/ e = x.id
<1> DEFINE r == Append(q, x)
<1>0. /\ r \in Seq(S) /\ DOMAIN r = 1 .. (Len(q) + 1) /\ r[Len(q) + 1] = x
      /\ DOMAIN q = 1 .. Len(q) /\ Len(q) \in Nat /\ \A n \in DOMAIN q : r[n] = q[n]
  BY Appended
<1> HIDE DEF r
<1>1. \A e : e \in Ids(r) <=> \E n \in DOMAIN r : r[n].id = e
  BY <1>0, IdsOf
<1>2. \A e : e \in Ids(q) <=> \E n \in DOMAIN q : q[n].id = e
  BY IdsOf
<1>3. \A e : e \in Ids(r) <=> e \in Ids(q) \/ e = x.id
  BY <1>0, <1>1, <1>2
<1> QED
  BY <1>3 DEF r

\* Tail leaves out one Id.
LEMMA IdsTailed ==
  ASSUME NEW S, NEW q \in Seq(S), q # <<>>
  PROVE  \A e : e \in Ids(q) => e \in Ids(Tail(q)) \/ e = Head(q).id
<1> DEFINE r == Tail(q)
<1>0. /\ r \in Seq(S) /\ Head(q) = q[1] /\ DOMAIN q = 1 .. Len(q) /\ Len(q) \in Nat
      /\ DOMAIN r = 1 .. (Len(q) - 1) /\ \A n \in DOMAIN r : r[n] = q[n + 1]
  BY Tailed
<1> HIDE DEF r
<1>1. \A e : e \in Ids(r) <=> \E n \in DOMAIN r : r[n].id = e
  BY <1>0, IdsOf
<1>2. \A e : e \in Ids(q) <=> \E n \in DOMAIN q : q[n].id = e
  BY IdsOf
<1>3. \A n \in DOMAIN q : n = 1 \/ (n - 1 \in DOMAIN r /\ r[n - 1] = q[n])
  BY <1>0
<1>4. \A e : e \in Ids(q) => e \in Ids(r) \/ e = Head(q).id
  BY <1>0, <1>1, <1>2, <1>3
<1> QED
  BY <1>4 DEF r

\* What has been heard stays heard.
LEMMA ContainsAppended ==
  ASSUME NEW S, NEW q \in Seq(S), NEW x \in S
  PROVE  \A e : Contains(Append(q, x), e) <=> Contains(q, e) \/ e = x
BY Appended DEF Contains

-----------------------------------------------------------------------------
(* Histories *)

\* The order is kept when nothing is handled, and extended when something is.
LEMMA SameOrder ==
  ASSUME order' = order
  PROVE  \A i, x, y : Told(i, x)' = Told(i, x) /\ Follows(i, x, y)' = Follows(i, x, y)
BY DEF Told, Follows

\* What is handled follows all that was handled before.
LEMMA MoreOrder ==
  ASSUME TypeOK, NEW i \in Instances, NEW e \in Events,
         order' = [order EXCEPT ![i] = Append(@, e)]
  PROVE  /\ \A j \in Instances : \A x, y : /\ Told(j, x) => Told(j, x)'
                                           /\ Follows(j, x, y) => Follows(j, x, y)'
         /\ \A j \in Instances : \A x : Told(j, x)' => Told(j, x) \/ (j = i /\ x = e)
         /\ Told(i, e)'
         /\ \A x : Told(i, x) /\ x # e => Follows(i, x, e)'
<1>1. order[i] \in Seq(Events) /\ order'[i] = Append(order[i], e)
      /\ \A j \in Instances : j # i => order'[j] = order[j]
  BY DEF TypeOK
<1>2. \A x : Told(i, x)' <=> Told(i, x) \/ x = e
  BY <1>1, ContainsAppended DEF Told
<1>3. \A j \in Instances : \A x, y : j # i => /\ Told(j, x)' <=> Told(j, x)
                                              /\ Follows(j, x, y)' <=> Follows(j, x, y)
  BY <1>1 DEF Told, Follows
<1>4. \A x, y : Follows(i, x, y) => Follows(i, x, y)'
  BY <1>1, Appended DEF Follows
<1>5. ASSUME NEW x, Told(i, x), x # e PROVE Follows(i, x, e)'
  <2>1. PICK k \in 1 .. Len(order[i]) : order[i][k] = x
    BY <1>5 DEF Told, Contains
  <2>2. /\ k \in DOMAIN order'[i] /\ Len(order[i]) + 1 \in DOMAIN order'[i] /\ k < Len(order[i]) + 1
        /\ order'[i][k] = x /\ order'[i][Len(order[i]) + 1] = e
    BY <1>1, <2>1, Appended
  <2> QED
    BY <1>5, <2>2 DEF Follows
<1> QED
  BY <1>2, <1>3, <1>4, <1>5

\* A message that is emitted is heard by its listeners, and by nobody else.
LEMMA EmittedHeard ==
  ASSUME TypeOK, NEW i \in Instances, NEW p \in Packets, NEW S, Emitted(i, p, S)
  PROVE  /\ heard' \in [Sockets -> Seq(Events \cup Notes)]
         /\ \A s \in Sockets : \/ heard'[s] = heard[s] /\ s \notin Listeners(i, p, S)
                               \/ heard'[s] = Append(heard[s], p.id) /\ s \in Listeners(i, p, S)
         /\ \A s \in Sockets : \A e : Contains(heard[s], e) => Contains(heard'[s], e)
         /\ \A s \in Listeners(i, p, S) : home[s] = i /\ Contains(heard'[s], p.id)
<1>1. p.id \in Events \cup Notes /\ \A s \in Sockets : heard[s] \in Seq(Events \cup Notes)
  BY DEF Packets, TypeOK
<1>2. \A s \in Sockets : Append(heard[s], p.id) \in Seq(Events \cup Notes)
  BY <1>1, Appended
<1>3. \A s \in Sockets :
        heard'[s] = IF s \in Listeners(i, p, S) THEN Append(heard[s], p.id) ELSE heard[s]
  BY DEF Emitted
<1>4. heard' \in [Sockets -> Seq(Events \cup Notes)]
  BY <1>1, <1>2 DEF Emitted
<1>5. \A s \in Sockets : \A e :
        Contains(Append(heard[s], p.id), e) <=> Contains(heard[s], e) \/ e = p.id
  BY <1>1, ContainsAppended
<1> QED
  BY <1>3, <1>4, <1>5 DEF Listeners, Open

-----------------------------------------------------------------------------
(* Types *)

\* Nothing has been handled at first.
LEMMA InitInv == Init => Inv
<1> SUFFICES ASSUME Init PROVE Inv
  OBVIOUS
<1>1. \A T : <<>> \in Seq(T)
  BY EmptySeq
<1>2. TypeOK
  BY <1>1, NotificationsAssumption DEF Init, TypeOK
<1>3. Waiting
  BY DEF Init, Waiting, Ordered, Later, Reaches
<1>4. Handled
  BY NotificationsAssumption DEF Init, Handled, Told, Contains
<1>5. HeardInOrder /\ UnheardHasACause
  BY DEF Init, HeardInOrder, UnheardHasACause
<1> QED
  BY <1>2, <1>3, <1>4, <1>5 DEF Inv, Parts

\* The packets of an instance are those of its events.
LEMMA OwnIds ==
  ASSUME TypeOK, Waiting, NEW i \in Instances
  PROVE  Ids(wire[i]) \subseteq Events /\ Ids(outbox[i]) \subseteq Events
<1>1. wire[i] \in Seq(Packets) /\ outbox[i] \in Seq(Packets)
  BY DEF TypeOK
<1>2. Ordered(i, wire[i]) /\ Ordered(i, outbox[i])
  BY DEF Waiting
<1> QED
  BY <1>1, <1>2, IdsOf DEF Ordered

\* What is sent is a packet, and goes to the end of what waits.
LEMMA Sent ==
  ASSUME TypeOK, NEW i \in Instances, NEW p \in Packets, Send(i, p)
  PROVE  /\ wire' \in [Instances -> Seq(Packets)] /\ outbox' \in [Instances -> Seq(Packets)]
         /\ \/ i \in up /\ wire'[i] = Append(wire[i], p) /\ outbox'[i] = outbox[i]
            \/ i \notin up /\ outbox'[i] = Append(outbox[i], p) /\ wire'[i] = wire[i]
         /\ \A j \in Instances : j # i => wire'[j] = wire[j] /\ outbox'[j] = outbox[j]
<1>1. wire[i] \in Seq(Packets) /\ outbox[i] \in Seq(Packets)
  BY DEF TypeOK
<1>2. Append(wire[i], p) \in Seq(Packets) /\ Append(outbox[i], p) \in Seq(Packets)
  BY <1>1, Appended
<1> QED
  BY <1>1, <1>2 DEF Send, TypeOK

\* The packets of the service.
LEMMA Made ==
  ASSUME NEW e \in Events
  PROVE  /\ Emit(e, Rooms) \in Packets /\ Emit(e, Rooms).id = e /\ Emit(e, Rooms).kind = "emit_private"
         /\ Named(Emit(e, Rooms)) = Rooms
         /\ Broadcast(e) \in Packets /\ Broadcast(e).id = e /\ Broadcast(e).kind = "broadcast"
BY DEF Emit, Broadcast, Packets, Kinds, Named

\* A step keeps the types.
LEMMA StepType == TypeOK /\ Waiting /\ [Next]_vars => TypeOK'
<1> SUFFICES ASSUME TypeOK, Waiting, [Next]_vars PROVE TypeOK'
  OBVIOUS
<1> USE NotificationsAssumption DEF sockets, client, history
<1>1. ASSUME NEW s \in Sockets, Connect(s) PROVE TypeOK'
  BY <1>1 DEF Connect, TypeOK, Open
<1>2. ASSUME NEW gone \in SUBSET Open, Close(gone)
      PROVE  /\ conn' \in [Sockets -> {"new", "open", "closed"}] /\ room' \subseteq Open'
             /\ meant' \in [Events -> SUBSET Sockets]
  BY <1>2 DEF Close, Forget, TypeOK, Open
<1>3. ASSUME NEW s \in Sockets, Disconnect(s) PROVE TypeOK'
  BY <1>2, <1>3 DEF Disconnect, TypeOK
<1>4. ASSUME NEW s \in Sockets, Reconnect(s) PROVE TypeOK'
  <2>1. room' \subseteq room \cup {s} /\ s \in Open /\ UNCHANGED conn
    BY <1>4 DEF Reconnect
  <2>2. meant' \in [Events -> SUBSET Sockets]
    <3>1. meant \in [Events -> SUBSET Sockets]
      BY DEF TypeOK
    <3>2. \/ meant' = meant
          \/ meant' = [e \in Events |-> IF ForRoom(e) THEN meant[e] \ {s} ELSE meant[e]]
      BY <1>4, Zenon DEF Reconnect
    <3>3. \A e \in Events : meant[e] \ {s} \in SUBSET Sockets
      BY <3>1
    <3> QED
      BY <3>1, <3>2, <3>3
  <2>3. room' \subseteq Open'
    BY <2>1 DEF TypeOK, Open
  <2> QED
    BY <1>4, <2>2, <2>3 DEF Reconnect, TypeOK
<1>5. ASSUME NEW s \in Sockets, NEW n \in Notes, Note(s, n) PROVE TypeOK'
  <2>1. home[s] \in Instances
    BY DEF TypeOK
  <2>2. heard' \in [Sockets -> Seq(Events \cup Notes)]
    BY <1>5, <2>1, EmittedHeard DEF Note, Refused, TypeOK
  <2> QED
    BY <1>5, <2>1, <2>2 DEF Note, TypeOK, Open
<1>6. ASSUME NEW i \in Instances, Receive(i) PROVE TypeOK'
  <2>1. wire[i] \in Seq(Packets) /\ wire[i] # <<>>
    BY <1>6 DEF Receive, TypeOK
  <2>2. Head(wire[i]) \in Packets /\ Tail(wire[i]) \in Seq(Packets)
    BY <2>1, HeadTailProperties
  <2>3. heard' \in [Sockets -> Seq(Events \cup Notes)]
    BY <1>6, <2>2, EmittedHeard DEF Receive
  <2>4. i \in up
    BY <2>1 DEF TypeOK
  <2> QED
    BY <1>6, <2>2, <2>3, <2>4 DEF Receive, TypeOK, Open
<1>7. ASSUME NEW i \in Instances, Dial(i) \/ FailDial(i) PROVE TypeOK'
  <2>1. CASE Dial(i)
    <3>1. /\ wire' = [wire EXCEPT ![i] = outbox[i]] /\ outbox' = [outbox EXCEPT ![i] = <<>>]
          /\ up' = up \cup {i} /\ left[i] # 0 /\ UNCHANGED <<home, conn, room, left, at, heard, breaks, history>>
      BY <2>1 DEF Dial
    <3>2. wire' \in [Instances -> Seq(Packets)] /\ outbox' \in [Instances -> Seq(Packets)]
      BY <3>1, EmptySeq DEF TypeOK
    <3> QED
      BY <3>1, <3>2 DEF TypeOK, Open
  <2>2. CASE FailDial(i)
    BY <2>2 DEF FailDial, TypeOK, Open
  <2> QED
    BY <1>7, <2>1, <2>2
<1>8. ASSUME NEW i \in Instances, NEW n \in {Attempts, Attempts + 1},
             NEW q \in {wire[i], wire[i] \o outbox[i]}, Break(i, q, n)
      PROVE  /\ up' \subseteq Instances /\ left' \in [Instances -> 0 .. Attempts + 1]
             /\ wire' \in [Instances -> Seq(Packets)] /\ breaks' \in 0 .. MaxBreaks
             /\ broken' \subseteq Events
  <2>1. wire[i] \in Seq(Packets) /\ outbox[i] \in Seq(Packets)
    BY DEF TypeOK
  <2>2. q \in {wire[i], outbox[i]}
    <3>1. wire[i] = <<>> \/ outbox[i] = <<>>
      BY DEF TypeOK
    <3>2. wire[i] \o <<>> = wire[i] /\ <<>> \o outbox[i] = outbox[i]
      BY <2>1, ConcatEmptySeq
    <3> QED
      BY <3>1, <3>2
  <2>3. Ids(q) \subseteq Events
    BY <2>2, OwnIds
  <2> QED
    BY <1>8, <2>3, EmptySeq DEF Break, TypeOK
<1>9. ASSUME NEW i \in Instances, Drop(i) PROVE TypeOK'
  BY <1>8, <1>9 DEF Drop, Break, TypeOK, Open
<1>10. ASSUME NEW i \in Instances, Crash(i) PROVE TypeOK'
  <2>1. outbox' \in [Instances -> Seq(Packets)]
    BY <1>10, EmptySeq DEF Crash, TypeOK
  <2>2. /\ conn' \in [Sockets -> {"new", "open", "closed"}] /\ room' \subseteq Open'
        /\ meant' \in [Events -> SUBSET Sockets]
    BY <1>2, <1>10 DEF Crash
  <2>3. /\ up' \subseteq Instances /\ left' \in [Instances -> 0 .. Attempts + 1]
        /\ wire' \in [Instances -> Seq(Packets)] /\ breaks' \in 0 .. MaxBreaks
        /\ broken' \subseteq Events
    BY <1>8, <1>10 DEF Crash
  <2> QED
    BY <1>10, <2>1, <2>2, <2>3 DEF Crash, Break, TypeOK
<1>11. ASSUME NEW i \in Instances, Kick(i) PROVE TypeOK'
  <2>1. /\ conn' \in [Sockets -> {"new", "open", "closed"}] /\ room' \subseteq Open'
        /\ meant' \in [Events -> SUBSET Sockets]
    BY <1>2, <1>11 DEF Kick
  <2> QED
    BY <1>11, <2>1 DEF Kick, TypeOK
<1>12. ASSUME NEW i \in Instances, NEW e \in Events, Handle(i, e) PROVE TypeOK'
  <2>1. PICK p \in {Emit(e, Rooms), Broadcast(e)} : Send(i, p)
    BY <1>12 DEF Handle
  <2>2. /\ wire' \in [Instances -> Seq(Packets)] /\ outbox' \in [Instances -> Seq(Packets)]
        /\ \/ i \in up /\ wire'[i] = Append(wire[i], p) /\ outbox'[i] = outbox[i]
           \/ i \notin up /\ outbox'[i] = Append(outbox[i], p) /\ wire'[i] = wire[i]
        /\ \A j \in Instances : j # i => wire'[j] = wire[j] /\ outbox'[j] = outbox[j]
    BY <2>1, Made, Sent
  <2>3. order' \in [Instances -> Seq(Events)]
    <3>1. Append(order[i], e) \in Seq(Events)
      BY Appended DEF TypeOK
    <3> QED
      BY <1>12, <3>1 DEF Handle, TypeOK
  <2>4. meant' \in [Events -> SUBSET Sockets]
    <3>1. meant' = [meant EXCEPT ![e] = room] \/ meant' = [meant EXCEPT ![e] = Open]
      BY <1>12, Zenon DEF Handle
    <3>2. room \in SUBSET Sockets /\ Open \in SUBSET Sockets /\ meant \in [Events -> SUBSET Sockets]
      BY DEF TypeOK, Open
    <3> HIDE DEF Open
    <3> QED
      BY <3>1, <3>2
  <2> QED
    BY <1>12, <2>2, <2>3, <2>4 DEF Handle, TypeOK, Open
<1>13. ASSUME UNCHANGED vars PROVE TypeOK'
  BY <1>13 DEF vars, TypeOK, Open
<1> QED
  BY <1>1, <1>3, <1>4, <1>5, <1>6, <1>7, <1>9, <1>10, <1>11, <1>12, <1>13 DEF Next, Rest

-----------------------------------------------------------------------------
(* Steps *)

\* What waits is kept in order by a step that handles and emits nothing.
LEMMA CalmWaiting ==
  ASSUME TypeOK, Waiting, UNCHANGED <<home, order, heard>>,
         \A i \in Instances : {wire'[i], outbox'[i]} \subseteq {wire[i], outbox[i], <<>>},
         \A i \in Instances : \A q \in {wire[i], outbox[i]} : \A n \in DOMAIN q : Reach(q[n])'
  PROVE  Waiting'
<1>1. \A i, x, y : Told(i, x)' = Told(i, x) /\ Follows(i, x, y)' = Follows(i, x, y)
  BY SameOrder
<1> SUFFICES ASSUME NEW i \in Instances, NEW q \in {wire'[i], outbox'[i]}
             PROVE  Ordered(i, q)' /\ Later(i, q)' /\ Reaches(q)'
  BY DEF Waiting
<1>2. CASE q = <<>>
  BY <1>2 DEF Ordered, Later, Reaches
<1>3. CASE q \in {wire[i], outbox[i]}
  <2>1. Ordered(i, q) /\ Later(i, q)
    BY <1>3 DEF Waiting
  <2>2. Ordered(i, q)'
    BY <1>1, <2>1 DEF Ordered
  <2>3. Later(i, q)'
    BY <1>1, <2>1 DEF Later
  <2>4. Reaches(q)'
    BY <1>3 DEF Reaches
  <2> QED
    BY <2>2, <2>3, <2>4
<1> QED
  BY <1>2, <1>3

\* So is what was heard.
LEMMA CalmHeard ==
  ASSUME HeardInOrder, UNCHANGED <<home, order, heard>>
  PROVE  HeardInOrder'
<1>1. \A i, x, y : Told(i, x)' = Told(i, x) /\ Follows(i, x, y)' = Follows(i, x, y)
  BY SameOrder
<1> QED
  BY <1>1 DEF HeardInOrder

\* Nothing is handled, and events lose some of those that they are for.
LEMMA CalmHandled ==
  ASSUME Handled, UNCHANGED <<order, at>>, \A e \in Events : meant'[e] \subseteq meant[e]
  PROVE  Handled'
<1>1. \A i, x, y : Told(i, x)' = Told(i, x) /\ Follows(i, x, y)' = Follows(i, x, y)
  BY SameOrder
<1> QED
  BY <1>1 DEF Handled

\* An event that is not heard keeps its cause, or breaks.
LEMMA CalmUnheard ==
  ASSUME UnheardHasACause, Handled, UNCHANGED <<home, at>>, broken \subseteq broken',
         \A e \in Events : meant'[e] \subseteq meant[e],
         \A s \in Sockets, e \in Events : Contains(heard[s], e) => Contains(heard'[s], e),
         \A i \in Instances, e \in Events : Pending(i, e) => Pending(i, e)' \/ e \in broken',
         TypeOK
  PROVE  UnheardHasACause'
<1> SUFFICES ASSUME NEW e \in Events, NEW s \in meant'[e],
                    ~Contains(heard'[s], e), home[s] = at[e], e \notin broken'
             PROVE  Pending(at[e], e)'
  BY DEF UnheardHasACause, Pending
<1>1. s \in meant[e] /\ s \in Sockets /\ at[e] \in Instances
  BY DEF TypeOK, Handled
<1>2. Pending(at[e], e)
  BY <1>1 DEF UnheardHasACause, Pending
<1> QED
  BY <1>1, <1>2

\* A socket that connects is not meant yet.
LEMMA StepConnect ==
  ASSUME Inv, NEW s \in Sockets, Connect(s)
  PROVE  Parts'
<1> USE DEF Inv, Parts
<1>1. UNCHANGED <<home, room, up, left, outbox, wire, at, heard, order, meant, broken>>
  BY DEF Connect, client, history
<1>2. \A o \in Sockets : conn[o] = "open" => conn'[o] = "open"
  BY DEF Connect, TypeOK
<1>3. ASSUME NEW i \in Instances, NEW q \in {wire[i], outbox[i]}, NEW n \in DOMAIN q
      PROVE  Reach(q[n])'
  <2>1. Reach(q[n]) /\ q[n].id \in Events
    BY <1>3 DEF Waiting, Ordered, Reaches
  <2>2. meant[q[n].id] \subseteq Sockets
    BY <2>1 DEF TypeOK
  <2> QED
    BY <1>1, <1>2, <2>1, <2>2 DEF Reach
<1>4. Waiting'
  BY <1>1, <1>3, CalmWaiting
<1>5. Handled' /\ HeardInOrder'
  BY <1>1, CalmHandled, CalmHeard
<1>6. UnheardHasACause'
  BY <1>1 DEF UnheardHasACause
<1> QED
  BY <1>4, <1>5, <1>6

\* A connection that closes takes its socket out of the room and of what is meant.
LEMMA Closed ==
  ASSUME TypeOK, Waiting, NEW gone \in SUBSET Open, Close(gone)
  PROVE  /\ \A i \in Instances : \A q \in {wire[i], outbox[i]} : \A n \in DOMAIN q : Reach(q[n])'
         /\ \A e \in Events : meant'[e] \subseteq meant[e]
<1>1. \A e \in Events : meant'[e] = meant[e] \ gone
  BY DEF Close, Forget, TypeOK
<1>2. \A o \in Sockets \ gone : conn'[o] = conn[o] /\ (o \in room => o \in room')
  BY DEF Close
<1>3. \A e \in Events : meant[e] \subseteq Sockets
  BY DEF TypeOK
<1>4. ASSUME NEW i \in Instances, NEW q \in {wire[i], outbox[i]}, NEW n \in DOMAIN q
      PROVE  Reach(q[n])'
  <2>1. q[n].id \in Events /\ Reach(q[n])
    BY <1>4 DEF Waiting, Ordered, Reaches
  <2> QED
    BY <1>1, <1>2, <1>3, <2>1 DEF Reach
<1> QED
  BY <1>1, <1>4

\* Sockets that close are out of their rooms, and no event is for them.
LEMMA StepClose ==
  ASSUME Inv, NEW gone \in SUBSET Open, Close(gone),
         UNCHANGED <<home, client, at, heard, order, broken>>
  PROVE  Parts'
<1> USE DEF Inv, Parts
<1>1. UNCHANGED <<home, up, left, outbox, wire, at, heard, order, broken>>
  BY DEF client
<1>2. Waiting'
  BY <1>1, Closed, CalmWaiting
<1>3. Handled' /\ HeardInOrder'
  BY <1>1, Closed, CalmHandled, CalmHeard
<1>4. UnheardHasACause'
  BY <1>1, Closed, CalmUnheard DEF Pending
<1> QED
  BY <1>2, <1>3, <1>4

\* A socket that leaves the room loses the events for the room that wait.
LEMMA StepReconnect ==
  ASSUME Inv, NEW s \in Sockets, Reconnect(s)
  PROVE  Parts'
<1> USE DEF Inv, Parts
<1>1. UNCHANGED <<home, conn, up, left, outbox, wire, at, heard, order, broken>>
  BY DEF Reconnect, client
<1>2. \A e \in Events :
        /\ meant'[e] \subseteq meant[e]
        /\ ForRoom(e) => meant'[e] \subseteq meant[e] \ {s} \/ room \subseteq room'
  BY DEF Reconnect, TypeOK
<1>3. room \ {s} \subseteq room'
  BY DEF Reconnect
<1>4. ASSUME NEW i \in Instances, NEW q \in {wire[i], outbox[i]}, NEW n \in DOMAIN q
      PROVE  Reach(q[n])'
  <2>1. q[n].id \in Events /\ Reach(q[n])
    BY <1>4 DEF Waiting, Ordered, Reaches
  <2>2. q[n].kind = "emit_private" => ForRoom(q[n].id)
    BY <1>4 DEF ForRoom, ToSet
  <2> QED
    BY <1>1, <1>2, <1>3, <2>1, <2>2 DEF Reach
<1>5. Waiting'
  BY <1>1, <1>4, CalmWaiting
<1>6. Handled' /\ HeardInOrder'
  BY <1>1, <1>2, CalmHandled, CalmHeard
<1>7. UnheardHasACause'
  BY <1>1, <1>2, CalmUnheard DEF Pending
<1> QED
  BY <1>5, <1>6, <1>7

\* What a socket hears besides is no event, or one that follows those it has heard.
LEMMA Hearing ==
  ASSUME TypeOK, HeardInOrder, UNCHANGED <<home, order>>, NEW x \in Events \cup Notes,
         \A s \in Sockets :
           \/ heard'[s] = heard[s]
           \/ /\ heard'[s] = Append(heard[s], x)
              /\ x \in Events => /\ Told(home[s], x)
                                 /\ \A m \in DOMAIN heard[s] : heard[s][m] \in Events =>
                                      Follows(home[s], heard[s][m], x)
  PROVE  HeardInOrder'
<1>1. \A i, y, z : Told(i, y)' = Told(i, y) /\ Follows(i, y, z)' = Follows(i, y, z)
  BY SameOrder
<1> SUFFICES ASSUME NEW s \in Sockets, NEW n \in DOMAIN heard'[s], heard'[s][n] \in Events
             PROVE  /\ Told(home[s], heard'[s][n])
                    /\ \A m \in 1 .. (n - 1) : heard'[s][m] \in Events =>
                         Follows(home[s], heard'[s][m], heard'[s][n])
  BY <1>1 DEF HeardInOrder
<1>2. heard[s] \in Seq(Events \cup Notes)
  BY DEF TypeOK
<1>3. CASE heard'[s] = heard[s]
  BY <1>3 DEF HeardInOrder
<1>4. CASE heard'[s] # heard[s]
  <2>1. heard'[s] = Append(heard[s], x)
    BY <1>4
  <2>2. /\ DOMAIN heard[s] = 1 .. Len(heard[s]) /\ Len(heard[s]) \in Nat
        /\ DOMAIN heard'[s] = 1 .. (Len(heard[s]) + 1)
        /\ \A m \in DOMAIN heard[s] : heard'[s][m] = heard[s][m]
        /\ heard'[s][Len(heard[s]) + 1] = x
    BY <1>2, <2>1, Appended
  <2>3. CASE n \in DOMAIN heard[s]
    BY <2>2, <2>3 DEF HeardInOrder
  <2>4. CASE n = Len(heard[s]) + 1
    BY <1>4, <2>2, <2>4
  <2> QED
    BY <2>2, <2>3, <2>4
<1> QED
  BY <1>3, <1>4

\* A client's own message is no event.
LEMMA StepNote ==
  ASSUME Inv, NEW s \in Sockets, NEW n \in Notes, Note(s, n)
  PROVE  Parts'
<1> USE DEF Inv, Parts
<1>1. UNCHANGED <<home, conn, room, up, left, outbox, wire, order, meant, broken>>
  BY DEF Note, sockets, client, history
<1>2. \A o \in Sockets : heard'[o] = heard[o] \/ heard'[o] = Append(heard[o], n)
  <2>1. CASE heard' = heard
    BY <2>1
  <2>2. CASE heard' # heard
    <3>1. PICK p \in {q \in Packets : q.id = n} : Emitted(home[s], p, {s})
      BY <2>2 DEF Note, Refused
    <3> QED
      BY <3>1, EmittedHeard DEF TypeOK
  <2> QED
    BY <2>1, <2>2
<1>3. n \notin Events /\ at'[n] \in Instances /\ \A e \in Events : at'[e] = at[e]
  BY NotificationsAssumption DEF Note, TypeOK
<1>4. \A o \in Sockets : heard[o] \in Seq(Events \cup Notes)
  BY DEF TypeOK
<1>5. HeardInOrder'
  BY <1>1, <1>2, <1>3, Hearing
<1>6. \A i, x, y : Told(i, x)' = Told(i, x) /\ Follows(i, x, y)' = Follows(i, x, y)
  BY <1>1, SameOrder
<1>7. \A o \in Sockets : \A m \in DOMAIN heard'[o] : heard'[o][m] \in Events =>
        m \in DOMAIN heard[o] /\ heard'[o][m] = heard[o][m]
  <2> SUFFICES ASSUME NEW o \in Sockets
               PROVE  \A m \in DOMAIN heard'[o] : heard'[o][m] \in Events =>
                        m \in DOMAIN heard[o] /\ heard'[o][m] = heard[o][m]
    OBVIOUS
  <2>1. /\ DOMAIN heard[o] = 1 .. Len(heard[o]) /\ Len(heard[o]) \in Nat
        /\ DOMAIN Append(heard[o], n) = 1 .. (Len(heard[o]) + 1)
        /\ \A m \in DOMAIN heard[o] : Append(heard[o], n)[m] = heard[o][m]
        /\ Append(heard[o], n)[Len(heard[o]) + 1] = n
    BY <1>4, Appended
  <2> QED
    BY <1>2, <1>3, <2>1
<1>8. Waiting'
  <2> SUFFICES ASSUME NEW i \in Instances, NEW q \in {wire[i], outbox[i]}
               PROVE  Ordered(i, q)' /\ Later(i, q)' /\ Reaches(q)'
    BY <1>1 DEF Waiting
  <2>1. Ordered(i, q) /\ Later(i, q) /\ Reaches(q)
    BY DEF Waiting
  <2>2. Ordered(i, q)'
    BY <1>6, <2>1 DEF Ordered
  <2>3. Later(i, q)'
    BY <1>1, <1>6, <1>7, <2>1 DEF Later
  <2>4. Reaches(q)'
    BY <1>1, <2>1 DEF Reaches, Reach
  <2> QED
    BY <2>2, <2>3, <2>4
<1>9. Handled'
  BY <1>1, <1>3, <1>6 DEF Handled
<1>10. \A o \in Sockets, e \in Events : Contains(heard[o], e) => Contains(heard'[o], e)
  <2>1. \A o \in Sockets : \A e : Contains(Append(heard[o], n), e) <=> Contains(heard[o], e) \/ e = n
    BY <1>4, ContainsAppended
  <2> QED
    BY <1>2, <2>1
<1>11. UnheardHasACause'
  BY <1>1, <1>3, <1>10 DEF UnheardHasACause, TypeOK
<1> QED
  BY <1>5, <1>8, <1>9, <1>11

\* The first packet on the wire is heard by all that its event is for, and what follows
\* it on the wire follows it in the order.
LEMMA StepReceive ==
  ASSUME Inv, NEW i \in Instances, Receive(i)
  PROVE  Parts'
<1> USE DEF Inv, Parts
<1> DEFINE p == Head(wire[i])
           rest == Tail(wire[i])
<1>1. UNCHANGED <<home, conn, room, up, left, outbox, at, order, meant, broken>>
  BY DEF Receive, sockets, history
<1>2. /\ wire[i] \in Seq(Packets) /\ wire[i] # <<>> /\ Emitted(i, p, {})
      /\ wire' = [wire EXCEPT ![i] = rest]
  BY DEF Receive, TypeOK
<1>3. /\ p = wire[i][1] /\ 1 \in DOMAIN wire[i] /\ rest \in Seq(Packets)
      /\ DOMAIN wire[i] = 1 .. Len(wire[i]) /\ Len(wire[i]) \in Nat
      /\ DOMAIN rest = 1 .. (Len(wire[i]) - 1)
      /\ \A n \in DOMAIN rest : n + 1 \in DOMAIN wire[i] /\ rest[n] = wire[i][n + 1]
  BY <1>2, Tailed
<1>4. p \in Packets
  BY <1>2, HeadTailProperties
<1>5. /\ wire'[i] = rest
      /\ \A j \in Instances : j # i => wire'[j] = wire[j]
  BY <1>2 DEF TypeOK
<1>6. \A e : e \in Ids(wire[i]) => e \in Ids(rest) \/ e = p.id
  BY <1>2, IdsTailed
<1> HIDE DEF p, rest
<1>7. Ordered(i, wire[i]) /\ Later(i, wire[i]) /\ Reaches(wire[i])
  BY DEF Waiting
<1>8. p.id \in Events /\ Told(i, p.id) /\ Reach(p)
  BY <1>3, <1>7 DEF Ordered, Reaches
<1>9. \A s \in Sockets : home[s] = i =>
        \A m \in DOMAIN heard[s] : heard[s][m] \in Events => Follows(i, heard[s][m], p.id)
  BY <1>3, <1>7 DEF Later
<1>10. \A s \in Sockets : \/ heard'[s] = heard[s]
                          \/ heard'[s] = Append(heard[s], p.id) /\ home[s] = i
  BY <1>2, <1>4, EmittedHeard
<1>11. HeardInOrder'
  BY <1>1, <1>8, <1>9, <1>10, Hearing
<1>12. \A j, x, y : Told(j, x)' = Told(j, x) /\ Follows(j, x, y)' = Follows(j, x, y)
  BY <1>1, SameOrder
<1>13. ASSUME NEW n \in DOMAIN rest
       PROVE  /\ rest[n].id \in Events /\ Told(i, rest[n].id) /\ Follows(i, p.id, rest[n].id)
              /\ \A m \in 1 .. (n - 1) : Follows(i, rest[m].id, rest[n].id)
              /\ Reach(rest[n])
  <2>1. n \in Nat /\ n + 1 \in DOMAIN wire[i] /\ rest[n] = wire[i][n + 1] /\ 1 \in 1 .. n
    BY <1>3
  <2>2. \A m \in 1 .. n : Follows(i, wire[i][m].id, wire[i][n + 1].id)
    BY <1>7, <2>1 DEF Ordered
  <2>3. ASSUME NEW m \in 1 .. (n - 1) PROVE Follows(i, rest[m].id, rest[n].id)
    <3>1. m \in Nat /\ n - 1 <= Len(wire[i]) - 1 /\ m <= n - 1 /\ 1 <= m
      BY <1>3, <2>1
    <3>2. m \in 1 .. (Len(wire[i]) - 1) /\ m + 1 \in 1 .. n
      BY <1>3, <2>1, <3>1
    <3>3. rest[m] = wire[i][m + 1]
      BY <1>3, <3>2
    <3> QED
      BY <2>1, <2>2, <3>2, <3>3
  <2>4. Follows(i, p.id, rest[n].id)
    BY <1>3, <2>1, <2>2
  <2>5. rest[n].id \in Events /\ Told(i, rest[n].id) /\ Reach(rest[n])
    BY <1>7, <2>1 DEF Ordered, Reaches
  <2> QED
    BY <2>3, <2>4, <2>5
<1>14. ASSUME NEW j \in Instances, NEW q \in {wire'[j], outbox'[j]}
       PROVE  Ordered(j, q)' /\ Reaches(q)' /\ Later(j, q)
  <2>1. CASE j = i /\ q = rest
    <3>1. Ordered(j, q)'
      BY <1>12, <1>13, <2>1 DEF Ordered
    <3>2. Reaches(q)'
      BY <1>1, <1>13, <2>1 DEF Reaches, Reach
    <3>3. Later(j, q)
      BY <1>3, <1>7, <2>1 DEF Later
    <3> QED
      BY <3>1, <3>2, <3>3
  <2>2. CASE q \in {wire[j], outbox[j]}
    <3>1. Ordered(j, q) /\ Reaches(q) /\ Later(j, q)
      BY <2>2 DEF Waiting
    <3> QED
      BY <1>1, <1>12, <3>1 DEF Ordered, Reaches, Reach
  <2> QED
    BY <1>1, <1>5, <2>1, <2>2
<1>15. ASSUME NEW j \in Instances, NEW q \in {wire'[j], outbox'[j]}, NEW n \in DOMAIN q, j = i
       PROVE  Follows(i, p.id, q[n].id)
  <2>1. q = rest \/ q = <<>>
    BY <1>1, <1>2, <1>5, <1>15 DEF TypeOK
  <2> QED
    BY <1>13, <1>15, <2>1
<1>16. Waiting'
  <2> SUFFICES ASSUME NEW j \in Instances, NEW q \in {wire'[j], outbox'[j]} PROVE Later(j, q)'
    BY <1>14 DEF Waiting
  <2> SUFFICES ASSUME NEW s \in Sockets, home[s] = j, NEW m \in DOMAIN heard'[s], NEW n \in DOMAIN q,
                      heard'[s][m] \in Events
               PROVE  Follows(j, heard'[s][m], q[n].id)
    BY <1>1, <1>12 DEF Later
  <2>1. Later(j, q)
    BY <1>14
  <2>2. CASE heard'[s] = heard[s]
    BY <2>1, <2>2 DEF Later
  <2>3. CASE heard'[s] = Append(heard[s], p.id) /\ home[s] = i
    <3>1. (m \in DOMAIN heard[s] /\ heard'[s][m] = heard[s][m]) \/ heard'[s][m] = p.id
      <4>1. heard[s] \in Seq(Events \cup Notes)
        BY DEF TypeOK
      <4> QED
        BY <1>8, <2>3, <4>1, Appended
    <3> QED
      BY <1>15, <2>1, <2>3, <3>1 DEF Later
  <2> QED
    BY <1>10, <2>2, <2>3
<1>17. Handled'
  BY <1>1, CalmHandled
<1>18. UnheardHasACause'
  <2> SUFFICES ASSUME NEW e \in Events, NEW s \in meant[e], home[s] = at[e], e \notin broken,
                      ~Contains(heard'[s], e)
               PROVE  Pending(at[e], e)'
    BY <1>1 DEF UnheardHasACause, Pending
  <2>1. s \in Sockets /\ at[e] \in Instances
    BY DEF TypeOK, Handled
  <2>2. ~Contains(heard[s], e)
    BY <1>2, <1>4, <2>1, EmittedHeard
  <2>3. Pending(at[e], e)
    BY <2>2 DEF UnheardHasACause, Pending
  <2>4. CASE at[e] = i /\ e = p.id
    <3>1. s \in Listeners(i, p, {})
      BY <1>8, <2>1, <2>4 DEF Listeners, Reach, Open
    <3> QED
      BY <1>2, <1>4, <2>4, <3>1, EmittedHeard
  <2>5. CASE ~(at[e] = i /\ e = p.id)
    BY <1>1, <1>5, <1>6, <2>1, <2>3, <2>5 DEF Pending
  <2> QED
    BY <2>4, <2>5
<1> QED
  BY <1>11, <1>16, <1>17, <1>18

\* The client connects: what it kept goes on the wire. Or an attempt fails.
LEMMA StepDial ==
  ASSUME Inv, NEW i \in Instances, Dial(i) \/ FailDial(i)
  PROVE  Parts'
<1> USE DEF Inv, Parts
<1>1. UNCHANGED <<home, conn, room, at, heard, order, meant, broken>>
  BY DEF Dial, FailDial, sockets, history
<1>2. \/ up' = up /\ wire' = wire /\ outbox' = outbox
      \/ /\ i \notin up /\ up' = up \cup {i} /\ wire'[i] = outbox[i] /\ outbox'[i] = <<>>
         /\ \A j \in Instances : j # i => wire'[j] = wire[j] /\ outbox'[j] = outbox[j]
  BY DEF Dial, FailDial, TypeOK
<1>3. \A j \in Instances : {wire'[j], outbox'[j]} \subseteq {wire[j], outbox[j], <<>>}
  BY <1>2
<1>4. \A j \in Instances : \A q \in {wire[j], outbox[j]} : \A n \in DOMAIN q : Reach(q[n])'
  BY <1>1 DEF Waiting, Reaches, Reach
<1>5. Waiting'
  BY <1>1, <1>3, <1>4, CalmWaiting
<1>6. Handled' /\ HeardInOrder'
  BY <1>1, CalmHandled, CalmHeard
<1>7. \A j \in Instances, e \in Events : Pending(j, e) => Pending(j, e)'
  BY <1>2 DEF Pending
<1>8. UnheardHasACause'
  BY <1>1, <1>7, CalmUnheard
<1> QED
  BY <1>5, <1>6, <1>8

\* A connection that is lost takes the wire with it.
LEMMA StepDrop ==
  ASSUME Inv, NEW i \in Instances, Drop(i)
  PROVE  Parts'
<1> USE DEF Inv, Parts
<1>1. UNCHANGED <<home, conn, room, outbox, at, heard, order, meant>>
  BY DEF Drop, sockets
<1>2. /\ i \in up /\ up' = up \ {i} /\ broken' = broken \cup Ids(wire[i])
      /\ wire'[i] = <<>> /\ \A j \in Instances : j # i => wire'[j] = wire[j]
  BY DEF Drop, Break, TypeOK
<1>3. \A j \in Instances : {wire'[j], outbox'[j]} \subseteq {wire[j], outbox[j], <<>>}
  BY <1>1, <1>2
<1>4. \A j \in Instances : \A q \in {wire[j], outbox[j]} : \A n \in DOMAIN q : Reach(q[n])'
  BY <1>1 DEF Waiting, Reaches, Reach
<1>5. Waiting'
  BY <1>1, <1>3, <1>4, CalmWaiting
<1>6. Handled' /\ HeardInOrder'
  BY <1>1, CalmHandled, CalmHeard
<1>7. \A j \in Instances, e \in Events : Pending(j, e) => Pending(j, e)' \/ e \in broken'
  BY <1>1, <1>2 DEF Pending
<1>8. UnheardHasACause'
  BY <1>1, <1>2, <1>7, CalmUnheard
<1> QED
  BY <1>5, <1>6, <1>8

\* An instance that dies takes what it kept, too, and its sockets.
LEMMA StepCrash ==
  ASSUME Inv, NEW i \in Instances, Crash(i)
  PROVE  Parts'
<1> USE DEF Inv, Parts
<1> DEFINE gone == {s \in Open : home[s] = i}
           lost == wire[i] \o outbox[i]
<1>1. UNCHANGED <<home, at, heard, order>> /\ Close(gone) /\ gone \in SUBSET Open
  BY DEF Crash
<1>2. /\ up' = up \ {i} /\ broken' = broken \cup Ids(lost)
      /\ wire'[i] = <<>> /\ outbox'[i] = <<>>
      /\ \A j \in Instances : j # i => wire'[j] = wire[j] /\ outbox'[j] = outbox[j]
  BY DEF Crash, Break, TypeOK
<1>3. IF i \in up THEN lost = wire[i] ELSE lost = outbox[i]
  <2>1. wire[i] \in Seq(Packets) /\ outbox[i] \in Seq(Packets)
    BY DEF TypeOK
  <2>2. wire[i] \o <<>> = wire[i] /\ <<>> \o outbox[i] = outbox[i]
    BY <2>1, ConcatEmptySeq
  <2> QED
    BY <2>2 DEF TypeOK
<1> HIDE DEF gone, lost
<1>4. \A j \in Instances : {wire'[j], outbox'[j]} \subseteq {wire[j], outbox[j], <<>>}
  BY <1>2
<1>5. /\ \A j \in Instances : \A q \in {wire[j], outbox[j]} : \A n \in DOMAIN q : Reach(q[n])'
      /\ \A e \in Events : meant'[e] \subseteq meant[e]
  BY <1>1, Closed
<1>6. Waiting'
  BY <1>1, <1>4, <1>5, CalmWaiting
<1>7. Handled' /\ HeardInOrder'
  BY <1>1, <1>5, CalmHandled, CalmHeard
<1>8. \A j \in Instances, e \in Events : Pending(j, e) => Pending(j, e)' \/ e \in broken'
  BY <1>2, <1>3 DEF Pending
<1>9. UnheardHasACause'
  BY <1>1, <1>2, <1>5, <1>8, CalmUnheard
<1> QED
  BY <1>6, <1>7, <1>9

\* What an instance handles goes behind everything that it has handled.
LEMMA StepHandle ==
  ASSUME Inv, NEW i \in Instances, NEW e \in Events, Handle(i, e)
  PROVE  Parts'
<1> USE DEF Inv, Parts
<1>1. /\ at[e] = "nowhere" /\ at'[e] = i /\ \A x \in Events : x # e => at'[x] = at[x]
      /\ order' = [order EXCEPT ![i] = Append(@, e)]
      /\ UNCHANGED <<home, conn, room, up, heard, broken>>
  BY DEF Handle, TypeOK, sockets
<1>2. PICK p \in Packets : /\ Send(i, p) /\ p.id = e
                           /\ \A x \in Events : x # e => meant'[x] = meant[x]
                           /\ Reach(p)'
  <2>1. CASE Send(i, Emit(e, Rooms)) /\ meant' = [meant EXCEPT ![e] = room]
    <3>1. meant'[e] = room /\ \A x \in Events : x # e => meant'[x] = meant[x]
      BY <2>1 DEF TypeOK
    <3>2. Reach(Emit(e, Rooms))'
      BY <1>1, <3>1, Made DEF Reach, TypeOK, Open
    <3> QED
      BY <2>1, <3>1, <3>2, Made
  <2>2. CASE Send(i, Broadcast(e)) /\ meant' = [meant EXCEPT ![e] = Open]
    <3>1. meant'[e] = Open /\ \A x \in Events : x # e => meant'[x] = meant[x]
      BY <2>2 DEF TypeOK
    <3>2. Reach(Broadcast(e))'
      BY <1>1, <3>1, Made DEF Reach, Open
    <3> QED
      BY <2>2, <3>1, <3>2, Made
  <2> QED
    BY <2>1, <2>2, Zenon DEF Handle
<1>3. /\ \/ i \in up /\ wire'[i] = Append(wire[i], p) /\ outbox'[i] = outbox[i]
         \/ i \notin up /\ outbox'[i] = Append(outbox[i], p) /\ wire'[i] = wire[i]
      /\ \A j \in Instances : j # i => wire'[j] = wire[j] /\ outbox'[j] = outbox[j]
  BY <1>2, Sent
<1>4. /\ \A j \in Instances : \A x, y : /\ Told(j, x) => Told(j, x)'
                                        /\ Follows(j, x, y) => Follows(j, x, y)'
      /\ \A j \in Instances : \A x : Told(j, x)' => Told(j, x) \/ (j = i /\ x = e)
      /\ Told(i, e)'
      /\ \A x : Told(i, x) /\ x # e => Follows(i, x, e)'
  BY <1>1, MoreOrder
<1>5. \A j \in Instances, x \in Events : Told(j, x) => x # e
  BY <1>1, NotificationsAssumption DEF Handled
<1>6. \A j \in Instances : \A q \in {wire[j], outbox[j]} :
        Ordered(j, q)' /\ Later(j, q)' /\ Reaches(q)'
  <2> SUFFICES ASSUME NEW j \in Instances, NEW q \in {wire[j], outbox[j]}
               PROVE  Ordered(j, q)' /\ Later(j, q)' /\ Reaches(q)'
    OBVIOUS
  <2>1. Ordered(j, q) /\ Later(j, q) /\ Reaches(q)
    BY DEF Waiting
  <2>2. Ordered(j, q)'
    BY <1>4, <2>1 DEF Ordered
  <2>3. Later(j, q)'
    BY <1>1, <1>4, <2>1 DEF Later
  <2>4. \A n \in DOMAIN q : q[n].id \in Events /\ q[n].id # e
    BY <1>5, <2>1 DEF Ordered
  <2>5. Reaches(q)'
    BY <1>1, <1>2, <2>1, <2>4 DEF Reaches, Reach
  <2> QED
    BY <2>2, <2>3, <2>5
<1>7. ASSUME NEW q \in {wire[i], outbox[i]}
      PROVE  Ordered(i, Append(q, p))' /\ Later(i, Append(q, p))' /\ Reaches(Append(q, p))'
  <2> DEFINE r == Append(q, p)
  <2>1. q \in Seq(Packets)
    BY DEF TypeOK
  <2>2. /\ DOMAIN q = 1 .. Len(q) /\ Len(q) \in Nat /\ DOMAIN r = 1 .. (Len(q) + 1)
        /\ \A n \in DOMAIN q : r[n] = q[n]
        /\ r[Len(q) + 1] = p
    BY <2>1, Appended
  <2> HIDE DEF r
  <2>3. Ordered(i, q)' /\ Later(i, q)' /\ Reaches(q)'
    BY <1>6
  <2>4. \A n \in DOMAIN q : q[n].id \in Events /\ Told(i, q[n].id)
    BY DEF Waiting, Ordered
  <2>5. \A n \in DOMAIN q : Follows(i, q[n].id, p.id)'
    BY <1>2, <1>4, <1>5, <2>4
  <2>6. Ordered(i, r)'
    BY <1>2, <1>4, <2>2, <2>3, <2>5 DEF Ordered
  <2>7. \A s \in Sockets : home[s] = i =>
          \A m \in DOMAIN heard[s] : heard[s][m] \in Events => Follows(i, heard[s][m], p.id)'
    <3>1. \A s \in Sockets : home[s] = i =>
            \A m \in DOMAIN heard[s] : heard[s][m] \in Events => Told(i, heard[s][m])
      BY DEF HeardInOrder
    <3> QED
      BY <1>1, <1>2, <1>4, <1>5, <3>1
  <2>8. Later(i, r)'
    BY <1>1, <2>2, <2>3, <2>7 DEF Later
  <2>9. Reaches(r)'
    BY <1>2, <2>2, <2>3 DEF Reaches
  <2> QED
    BY <2>6, <2>8, <2>9 DEF r
<1>8. Waiting'
  <2> SUFFICES ASSUME NEW j \in Instances, NEW q \in {wire'[j], outbox'[j]}
               PROVE  Ordered(j, q)' /\ Later(j, q)' /\ Reaches(q)'
    BY DEF Waiting
  <2>1. CASE q \in {wire[j], outbox[j]}
    BY <1>6, <2>1
  <2>2. CASE j = i /\ q \in {Append(wire[i], p), Append(outbox[i], p)}
    BY <1>7, <2>2
  <2> QED
    BY <1>3, <2>1, <2>2
<1>9. Handled'
  BY <1>1, <1>2, <1>4, <1>5 DEF Handled
<1>10. HeardInOrder'
  <2>1. \A s \in Sockets : home[s] \in Instances
    BY DEF TypeOK
  <2> QED
    BY <1>1, <1>4, <2>1 DEF HeardInOrder
<1>11. ASSUME NEW x \in Events, NEW s \in meant'[x], home[s] = at'[x], x \notin broken,
              ~Contains(heard[s], x), NEW j, j = at'[x]
       PROVE  Pending(j, x)'
  <2>1. wire[i] \in Seq(Packets) /\ outbox[i] \in Seq(Packets)
    BY DEF TypeOK
  <2>2. \A y : /\ y \in Ids(Append(wire[i], p)) <=> y \in Ids(wire[i]) \/ y = e
               /\ y \in Ids(Append(outbox[i], p)) <=> y \in Ids(outbox[i]) \/ y = e
    BY <1>2, <2>1, IdsAppended
  <2>3. CASE x = e
    <3>1. j = i
      BY <1>1, <1>11, <2>3
    <3> QED
      BY <1>1, <1>3, <2>2, <2>3, <3>1 DEF Pending
  <2>4. CASE x # e
    <3>1. s \in meant[x] /\ j = at[x] /\ j \in Instances
      BY <1>1, <1>2, <1>11, <2>4 DEF Handled
    <3>2. Pending(j, x)
      BY <1>11, <3>1 DEF UnheardHasACause, Pending
    <3>3. j # i => wire'[j] = wire[j] /\ outbox'[j] = outbox[j]
      BY <1>3, <3>1
    <3>4. CASE j = i
      BY <1>1, <1>3, <2>2, <3>2, <3>4 DEF Pending
    <3>5. CASE j # i
      BY <1>1, <3>2, <3>3, <3>5 DEF Pending
    <3> QED
      BY <3>4, <3>5
  <2> QED
    BY <2>3, <2>4
<1>12. UnheardHasACause'
  BY <1>1, <1>11 DEF UnheardHasACause, Pending
<1> QED
  BY <1>8, <1>9, <1>10, <1>12

-----------------------------------------------------------------------------
(* Theorems *)

\* The invariant holds after every step.
LEMMA StepInv == Inv /\ [Next]_vars => Inv'
<1> SUFFICES ASSUME Inv, [Next]_vars PROVE Inv'
  OBVIOUS
<1>1. TypeOK'
  BY StepType DEF Inv, Parts
<1>2. ASSUME NEW s \in Sockets, Connect(s) \/ Reconnect(s) PROVE Parts'
  BY <1>2, StepConnect, StepReconnect
<1>3. ASSUME NEW s \in Sockets, Disconnect(s) PROVE Parts'
  <2>1. {s} \in SUBSET Open /\ Close({s}) /\ UNCHANGED <<home, client, at, heard, order, broken>>
    BY <1>3 DEF Disconnect
  <2> QED
    BY <2>1, StepClose
<1>4. ASSUME NEW s \in Sockets, NEW n \in Notes, Note(s, n) PROVE Parts'
  BY <1>4, StepNote
<1>5. ASSUME NEW i \in Instances, Receive(i) \/ Dial(i) \/ FailDial(i) PROVE Parts'
  BY <1>5, StepReceive, StepDial
<1>6. ASSUME NEW i \in Instances, Drop(i) \/ Crash(i) PROVE Parts'
  BY <1>6, StepDrop, StepCrash
<1>7. ASSUME NEW i \in Instances, Kick(i) PROVE Parts'
  <2>1. PICK gone \in SUBSET Open : Close(gone)
    BY <1>7 DEF Kick
  <2>2. UNCHANGED <<home, client, at, heard, order, broken>>
    BY <1>7 DEF Kick
  <2> QED
    BY <2>1, <2>2, StepClose
<1>8. ASSUME NEW i \in Instances, NEW e \in Events, Handle(i, e) PROVE Parts'
  BY <1>8, StepHandle
<1>9. ASSUME UNCHANGED vars PROVE Parts'
  <2>1. UNCHANGED <<home, conn, room, up, left, outbox, wire, at, heard, order, meant, broken>>
    BY <1>9 DEF vars, sockets, client, history
  <2>2. \A j \in Instances : \A q \in {wire[j], outbox[j]} : \A n \in DOMAIN q : Reach(q[n])'
    BY <2>1 DEF Inv, Parts, Waiting, Reaches, Reach
  <2>3. Waiting' /\ Handled' /\ HeardInOrder'
    BY <2>1, <2>2, CalmWaiting, CalmHandled, CalmHeard DEF Inv, Parts
  <2> QED
    BY <2>1, <2>3 DEF Inv, Parts, UnheardHasACause
<1>10. Parts'
  BY <1>2, <1>3, <1>4, <1>5, <1>6, <1>7, <1>8, <1>9 DEF Next, Rest
<1> QED
  BY <1>1, <1>10 DEF Inv

\* Every behaviour keeps the invariant.
THEOREM Invariance == Spec => []Inv
<1>1. Init => Inv
  BY InitInv
<1>2. Inv /\ [Next]_vars => Inv'
  BY StepInv
<1> QED
  BY <1>1, <1>2, PTL DEF Spec

\* Types: a client keeps packets only while it is not connected, and has some on the
\* wire only while it is.
THEOREM TypeCorrect == Spec => []TypeOK
<1>1. Inv => TypeOK
  BY DEF Inv
<1> QED
  BY <1>1, Invariance, PTL

\* HeardInOrder: sockets hear of the events of their instance in the order in which it
\* handled them, and of none twice.
THEOREM InOrder == Spec => []HeardInOrder
<1>1. Inv => HeardInOrder
  BY DEF Inv, Parts
<1> QED
  BY <1>1, Invariance, PTL

\* UnheardHasACause: an event that a socket has not heard of, and that is for it, was
\* handled elsewhere, waits, or broke with a connection.
THEOREM UnheardExplained == Spec => []UnheardHasACause
<1>1. Inv => UnheardHasACause
  BY DEF Inv, Parts
<1> QED
  BY <1>1, Invariance, PTL
=============================================================================
