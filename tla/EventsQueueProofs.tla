-------------------------- MODULE EventsQueueProofs --------------------------
(***************************************************************************)
(* Theorems about EventsQueue, for any messages and instances and for any  *)
(* batch size, limit of errors and number of faults.                       *)
(***************************************************************************)
EXTENDS EventsQueue, SequenceTheorems, TLAPS

-----------------------------------------------------------------------------
(* The inductive invariant *)

\* Where a consumer waits tells what it has done for its current message.
Progress(c) ==
  /\ pc[c] = "hook" => body[Current(c)] = "event" /\ emitted[Current(c)] > 0
  /\ pc[c] = "store" => body[Current(c)] = "unprocessable"
  /\ pc[c] = "delete" => Handled(Current(c))

\* A message that can be received once more has paid for it with a fault.
Receivable(m) == \/ queue[m] \in {"unsent", "queued"}
                 \/ queue[m] \in Consumers /\ ~Holds(queue[m], m)

Paid == \A m \in Msgs : Receivable(m) => received[m] <= faults

\* A consumer holds only what was sent.
In(m, s) == \E i \in DOMAIN s : s[i] = m

Sent == \A c \in Consumers : \A m \in Msgs :
          In(m, batch[c]) => queue[m] \notin {"unsent", "lost"}

Inv == /\ TypeOK
       /\ \A c \in Consumers : Progress(c)
       /\ DeletedWasHandled
       /\ AtLeastOnce
       /\ Paid
       /\ Sent

-----------------------------------------------------------------------------
(* Sequences, counters and types *)

LEMMA HeadAndTail ==
  ASSUME NEW s \in Seq(Msgs), s # <<>>
  PROVE  /\ Head(s) \in Msgs /\ Head(s) = s[1]
         /\ Tail(s) \in Seq(Msgs)
         /\ Len(s) \in Nat /\ Len(s) >= 1 /\ DOMAIN s = 1 .. Len(s)
         /\ Len(Tail(s)) = Len(s) - 1 /\ DOMAIN Tail(s) = 1 .. Len(s) - 1
         /\ \A i \in 1 .. Len(s) - 1 : Tail(s)[i] = s[i + 1]
         /\ Len(s) > 1 <=> Tail(s) # <<>>
<1>1. Len(s) \in Nat /\ Len(s) >= 1 /\ DOMAIN s = 1 .. Len(s)
  BY EmptySeq, LenProperties
<1>2. Head(s) = s[1] /\ Head(s) \in Msgs
  BY <1>1, HeadTailProperties, ElementOfSeq
<1>3. Tail(s) \in Seq(Msgs) /\ Len(Tail(s)) = Len(s) - 1
  BY HeadTailProperties
<1>4. \A i \in 1 .. Len(s) - 1 : Tail(s)[i] = s[i + 1]
  BY <1>1, <1>3, HeadTailProperties
<1>5. DOMAIN Tail(s) = 1 .. Len(s) - 1
  BY <1>3, LenProperties
<1>6. Len(s) > 1 <=> Tail(s) # <<>>
  <2>1. PICK t \in Seq(Msgs) : t = Tail(s)
    BY <1>3
  <2>2. t = <<>> => Len(t) = 0
    BY EmptySeq
  <2>3. t # <<>> => Len(t) \in Nat \ {0}
    BY EmptySeq
  <2> QED
    BY <1>1, <1>3, <2>1, <2>2, <2>3
<1> QED
  BY <1>1, <1>2, <1>3, <1>4, <1>5, <1>6

LEMMA BumpType ==
  ASSUME NEW count \in [Msgs -> Nat], NEW m \in Msgs
  PROVE  /\ Bump(count, m) \in [Msgs -> Nat]
         /\ Bump(count, m)[m] > 0 /\ Bump(count, m)[m] <= count[m] + 1
         /\ \A k \in Msgs : k # m => Bump(count, m)[k] = count[k]
BY SizesAssumption DEF Bump

\* A consumer that is busy has a current message.
LEMMA CurrentType ==
  ASSUME TypeOK, NEW c \in Consumers, pc[c] \in {"execute", "hook", "store", "delete"}
  PROVE  /\ batch[c] \in Seq(Msgs) /\ batch[c] # <<>>
         /\ Current(c) \in Msgs /\ Current(c) = Head(batch[c])
<1>1. batch[c] \in Seq(Msgs) /\ batch[c] # <<>>
  BY DEF TypeOK
<1> QED
  BY <1>1, HeadAndTail DEF Current

LEMMA InitInv == Init => Inv
<1> SUFFICES ASSUME Init PROVE Inv
  OBVIOUS
<1>1. TypeOK
  BY SizesAssumption DEF Init, TypeOK
<1>2. \A c \in Consumers : Progress(c)
  BY DEF Init, Progress
<1>3. DeletedWasHandled /\ AtLeastOnce /\ Paid
  BY DEF Init, DeletedWasHandled, AtLeastOnce, Paid
<1>4. Sent
  BY EmptySeq DEF Init, Sent, In
<1> QED
  BY <1>1, <1>2, <1>3, <1>4 DEF Inv

\* A consumer that stops, counts an error or goes on keeps the types.
Consistent == /\ batch \in [Consumers -> Seq(Msgs)]
              /\ pc \in [Consumers -> {"poll", "execute", "hook", "store", "delete", "down"}]
              /\ \A c \in Consumers : pc[c] \in {"poll", "down"} <=> batch[c] = <<>>
              /\ errorsCount \in [Consumers -> 0 .. MaxErrors - 1]

LEMMA StopType ==
  ASSUME Consistent, NEW c \in Consumers, Stop(c)
  PROVE  Consistent'
<1>1. <<>> \in Seq(Msgs)
  BY EmptySeq
<1> QED
  BY <1>1 DEF Consistent, Stop

LEMMA CountErrorType ==
  ASSUME Consistent, NEW c \in Consumers, CountError(c)
  PROVE  Consistent'
<1>1. <<>> \in Seq(Msgs)
  BY EmptySeq
<1>2. CASE errorsCount[c] + 1 < MaxErrors
  <2>1. errorsCount[c] + 1 \in 0 .. MaxErrors - 1
    BY <1>2, SizesAssumption DEF Consistent
  <2>2. /\ errorsCount' = [errorsCount EXCEPT ![c] = errorsCount[c] + 1]
        /\ batch' = [batch EXCEPT ![c] = <<>>]
        /\ pc' = [pc EXCEPT ![c] = "poll"]
    BY <1>2 DEF CountError
  <2>3. errorsCount' \in [Consumers -> 0 .. MaxErrors - 1]
    BY <2>1, <2>2 DEF Consistent
  <2> QED
    BY <1>1, <2>2, <2>3 DEF Consistent
<1>3. CASE ~(errorsCount[c] + 1 < MaxErrors)
  BY <1>3, StopType DEF CountError
<1> QED
  BY <1>2, <1>3

LEMMA AdvanceType ==
  ASSUME Consistent, NEW c \in Consumers, pc[c] = "delete", Advance(c)
  PROVE  Consistent'
<1>1. batch[c] \in Seq(Msgs) /\ batch[c] # <<>>
  BY DEF Consistent
<1>2. /\ Tail(batch[c]) \in Seq(Msgs)
      /\ Len(batch[c]) > 1 <=> Tail(batch[c]) # <<>>
  BY <1>1, HeadAndTail
<1>3. 0 \in 0 .. MaxErrors - 1
  BY SizesAssumption
<1>4. batch' = [batch EXCEPT ![c] = Tail(batch[c])]
  BY DEF Advance, Consistent
<1>5. batch' \in [Consumers -> Seq(Msgs)]
  BY <1>2, <1>4 DEF Consistent
<1>6. /\ errorsCount' \in [Consumers -> 0 .. MaxErrors - 1]
      /\ pc' \in [Consumers -> {"poll", "execute", "hook", "store", "delete", "down"}]
  BY <1>3 DEF Advance, Consistent
<1>7. ASSUME NEW d \in Consumers
      PROVE  (pc'[d] \in {"poll", "down"} <=> batch'[d] = <<>>)
  <2>1. CASE d = c
    <3>1. batch'[c] = Tail(batch[c])
      BY <1>4 DEF Consistent
    <3>2. pc'[c] = IF Len(batch[c]) > 1 THEN "execute" ELSE "poll"
      BY DEF Advance, Consistent
    <3> QED
      BY <1>2, <2>1, <3>1, <3>2
  <2>2. CASE d # c
    BY <1>4, <2>2 DEF Advance, Consistent
  <2> QED
    BY <2>1, <2>2
<1> QED
  BY <1>5, <1>6, <1>7 DEF Consistent

\* What a reception takes is a sequence of queued messages.
LEMMA BatchType ==
  ASSUME NEW ms \in UNION {[1 .. n -> {m \in Msgs : queue[m] = "queued"}] : n \in 1 .. BatchSize}
  PROVE  /\ ms \in Seq(Msgs) /\ ms # <<>> /\ 1 \in DOMAIN ms
         /\ \A i \in DOMAIN ms : ms[i] \in Msgs /\ queue[ms[i]] = "queued"
<1>1. PICK n \in 1 .. BatchSize : ms \in [1 .. n -> {m \in Msgs : queue[m] = "queued"}]
  OBVIOUS
<1>2. n \in Nat /\ n >= 1 /\ DOMAIN ms = 1 .. n
  BY <1>1, SizesAssumption
<1>3. \A i \in DOMAIN ms : ms[i] \in Msgs /\ queue[ms[i]] = "queued"
  BY <1>1, <1>2
<1>4. ms \in [1 .. n -> Msgs]
  BY <1>1, <1>2, <1>3
<1>5. ms \in Seq(Msgs)
  BY <1>2, <1>4, SeqDef
<1>6. ms # <<>>
  BY <1>2, <1>5, EmptySeq, LenProperties
<1> QED
  BY <1>2, <1>3, <1>5, <1>6

LEMMA TypeNext == TypeOK /\ [Next]_vars => TypeOK'
<1> SUFFICES ASSUME TypeOK, [Next]_vars PROVE TypeOK'
  OBVIOUS
<1>1. Consistent
  BY DEF TypeOK, Consistent
<1>2. ASSUME NEW m \in Msgs, Dispatch(m)
      PROVE  TypeOK'
  BY <1>2 DEF Dispatch, Outcomes, TypeOK, history
<1>3. ASSUME NEW m \in Msgs, Reappear(m)
      PROVE  TypeOK'
  <2>1. faults' \in 0 .. MaxFaults
    BY <1>3, SizesAssumption DEF Reappear, Fault, TypeOK
  <2> QED
    BY <1>3, <2>1 DEF Reappear, TypeOK, history
<1>4. ASSUME NEW c \in Consumers, Receive(c)
      PROVE  TypeOK'
  <2>1. PICK ms \in UNION {[1 .. n -> {m \in Msgs : queue[m] = "queued"}] : n \in 1 .. BatchSize} :
          /\ batch' = [batch EXCEPT ![c] = ms]
          /\ queue' = [m \in Msgs |-> IF \E i \in DOMAIN ms : ms[i] = m THEN c ELSE queue[m]]
          /\ received' = [m \in Msgs |-> IF \E i \in DOMAIN ms : ms[i] = m
                                           THEN Bump(received, m)[m] ELSE received[m]]
    BY <1>4 DEF Receive
  <2>2. ms \in Seq(Msgs) /\ ms # <<>>
    BY <2>1, BatchType
  <2>3. /\ pc' = [pc EXCEPT ![c] = "execute"]
        /\ UNCHANGED <<body, errorsCount, faults, emitted, pulled, stored>>
    BY <1>4 DEF Receive
  <2>4. batch' \in [Consumers -> Seq(Msgs)]
    BY <2>1, <2>2 DEF TypeOK
  <2>5. \A d \in Consumers : pc'[d] \in {"poll", "down"} <=> batch'[d] = <<>>
    BY <2>1, <2>2, <2>3 DEF TypeOK
  <2>6. queue' \in [Msgs -> {"unsent", "lost", "queued", "gone"} \cup Consumers]
    BY <2>1 DEF TypeOK
  <2>7. \A m \in Msgs : Bump(received, m)[m] \in Nat
    BY BumpType DEF TypeOK
  <2>8. received' \in [Msgs -> Nat]
    BY <2>1, <2>7 DEF TypeOK
  <2> QED
    BY <2>3, <2>4, <2>5, <2>6, <2>8 DEF TypeOK
<1>5. ASSUME NEW c \in Consumers, Execute(c)
      PROVE  TypeOK'
  <2>1. Current(c) \in Msgs
    BY <1>5, CurrentType DEF Execute, Waits
  <2>2. emitted' \in [Msgs -> Nat]
    BY <1>5, <2>1, BumpType DEF Execute, TypeOK
  <2>3. body[Current(c)] \in Bodies
    BY <2>1 DEF TypeOK
  <2>4. /\ pc' \in [Consumers -> {"poll", "execute", "hook", "store", "delete", "down"}]
        /\ \A d \in Consumers : pc'[d] \in {"poll", "down"} <=> pc[d] \in {"poll", "down"}
    BY <1>5, <2>3 DEF Execute, Waits, TypeOK, Bodies
  <2> QED
    BY <1>5, <2>2, <2>4 DEF Execute, TypeOK
<1>6. ASSUME NEW c \in Consumers, Hook(c)
      PROVE  TypeOK'
  <2>1. Current(c) \in Msgs
    BY <1>6, CurrentType DEF Hook, Waits
  <2> QED
    BY <1>6, <2>1 DEF Hook, Waits, TypeOK
<1>7. ASSUME NEW c \in Consumers, Store(c)
      PROVE  TypeOK'
  <2>1. Current(c) \in Msgs
    BY <1>7, CurrentType DEF Store, Waits
  <2>2. stored' \in [Msgs -> Nat]
    BY <1>7, <2>1, BumpType DEF Store, TypeOK
  <2> QED
    BY <1>7, <2>2 DEF Store, Waits, TypeOK
<1>8. ASSUME NEW c \in Consumers, Delete(c)
      PROVE  TypeOK'
  <2>1. Consistent'
    BY <1>1, <1>8, AdvanceType DEF Delete, Waits
  <2>2. queue' \in [Msgs -> {"unsent", "lost", "queued", "gone"} \cup Consumers]
    BY <1>8 DEF Delete, TypeOK
  <2> QED
    BY <1>8, <2>1, <2>2 DEF Delete, TypeOK, Consistent, history
<1>9. ASSUME NEW c \in Consumers, Fail(c)
      PROVE  TypeOK'
  <2>1. Consistent'
    BY <1>1, <1>9, CountErrorType, StopType DEF Fail
  <2>2. faults' \in 0 .. MaxFaults
    BY <1>9, SizesAssumption DEF Fail, Fault, TypeOK
  <2>3. queue' \in [Msgs -> {"unsent", "lost", "queued", "gone"} \cup Consumers]
    BY <1>9 DEF Fail, TypeOK
  <2>4. stored' \in [Msgs -> Nat]
    <3>1. CASE UNCHANGED stored
      BY <3>1 DEF TypeOK
    <3>2. CASE Waits(c, "store") /\ stored' = Bump(stored, Current(c))
      <4>1. Current(c) \in Msgs
        BY <3>2, CurrentType DEF Waits
      <4> QED
        BY <3>2, <4>1, BumpType DEF TypeOK
    <3> QED
      BY <1>9, <3>1, <3>2 DEF Fail
  <2> QED
    BY <1>9, <2>1, <2>2, <2>3, <2>4 DEF Fail, TypeOK, Consistent
<1>10. ASSUME NEW c \in Consumers, Crash(c)
       PROVE  TypeOK'
  <2>1. Consistent'
    BY <1>1, <1>10, StopType DEF Crash
  <2>2. faults' \in 0 .. MaxFaults
    BY <1>10, SizesAssumption DEF Crash, Fault, TypeOK
  <2> QED
    BY <1>10, <2>1, <2>2 DEF Crash, TypeOK, Consistent, history
<1>11. ASSUME NEW c \in Consumers, Restart(c)
       PROVE  TypeOK'
  BY <1>11, SizesAssumption DEF Restart, Waits, TypeOK, history
<1>12. CASE UNCHANGED vars
  BY <1>12 DEF vars, TypeOK
<1> QED
  BY <1>2, <1>3, <1>4, <1>5, <1>6, <1>7, <1>8, <1>9, <1>10, <1>11, <1>12
  DEF Next, Step, ReceiveNothing

-----------------------------------------------------------------------------
(* What was handled stays handled *)

Grows == /\ body' = body
         /\ \A m \in Msgs : /\ emitted[m] > 0 => emitted'[m] > 0
                            /\ stored[m] > 0 => stored'[m] > 0
                            /\ m \in pulled => m \in pulled'

LEMMA BumpGrows ==
  ASSUME NEW count \in [Msgs -> Nat], NEW m \in Msgs, NEW k \in Msgs, count[k] > 0
  PROVE  Bump(count, m)[k] > 0
BY BumpType

LEMMA StepsGrow == TypeOK /\ [Next]_vars => Grows
<1> SUFFICES ASSUME TypeOK, [Next]_vars PROVE Grows
  OBVIOUS
<1>1. CASE UNCHANGED <<body, emitted, pulled, stored>>
  BY <1>1 DEF Grows
<1>2. ASSUME NEW c \in Consumers, Execute(c)
      PROVE  Grows
  <2>1. Current(c) \in Msgs
    BY <1>2, CurrentType DEF Execute, Waits
  <2> QED
    BY <1>2, <2>1, BumpGrows DEF Execute, TypeOK, Grows
<1>3. ASSUME NEW c \in Consumers, Hook(c)
      PROVE  Grows
  BY <1>3 DEF Hook, Grows
<1>4. ASSUME NEW c \in Consumers, Store(c)
      PROVE  Grows
  <2>1. Current(c) \in Msgs
    BY <1>4, CurrentType DEF Store, Waits
  <2> QED
    BY <1>4, <2>1, BumpGrows DEF Store, TypeOK, Grows
<1>5. ASSUME NEW c \in Consumers, Fail(c)
      PROVE  Grows
  <2>1. CASE UNCHANGED stored
    BY <1>1, <1>5, <2>1 DEF Fail
  <2>2. CASE Waits(c, "store") /\ stored' = Bump(stored, Current(c))
    <3>1. Current(c) \in Msgs
      BY <2>2, CurrentType DEF Waits
    <3> QED
      BY <1>5, <2>2, <3>1, BumpGrows DEF Fail, TypeOK, Grows
  <2> QED
    BY <1>5, <2>1, <2>2 DEF Fail
<1> QED
  BY <1>1, <1>2, <1>3, <1>4, <1>5
  DEF Next, Step, Dispatch, Outcomes, Reappear, Receive, ReceiveNothing, Delete, Crash, Restart, vars, history

LEMMA HandledGrows ==
  ASSUME TypeOK, Grows, NEW m \in Msgs, Handled(m)
  PROVE  Handled(m)'
<1>1. body[m] \in Bodies
  BY DEF TypeOK
<1> QED
  BY <1>1 DEF Grows, Handled, Bodies

\* A consumer that waits where it waited, for the same message, has made the
\* same progress.
LEMMA ProgressKept ==
  ASSUME TypeOK, Grows, NEW c \in Consumers, Progress(c), pc'[c] = pc[c], batch'[c] = batch[c]
  PROVE  Progress(c)'
<1>1. CASE pc[c] \in {"execute", "hook", "store", "delete"}
  <2>1. Current(c) \in Msgs /\ Current(c)' = Current(c)
    BY <1>1, CurrentType DEF Current
  <2>2. Handled(Current(c)) => Handled(Current(c))'
    BY <2>1, HandledGrows DEF Handled
  <2> QED
    BY <2>1, <2>2 DEF Progress, Grows
<1>2. CASE pc[c] \notin {"execute", "hook", "store", "delete"}
  BY <1>2 DEF Progress
<1> QED
  BY <1>1, <1>2

LEMMA ProgressNext == Inv /\ [Next]_vars => \A d \in Consumers : Progress(d)'
<1> SUFFICES ASSUME Inv, [Next]_vars, NEW d \in Consumers PROVE Progress(d)'
  OBVIOUS
<1>1. TypeOK /\ Grows /\ Progress(d) /\ pc \in [Consumers -> {"poll", "execute", "hook", "store", "delete", "down"}]
  BY StepsGrow DEF Inv, TypeOK
<1>2. CASE pc'[d] = pc[d] /\ batch'[d] = batch[d]
  BY <1>1, <1>2, ProgressKept
<1>3. CASE pc'[d] \in {"poll", "execute", "down"}
  BY <1>3 DEF Progress
<1>4. ASSUME NEW c \in Consumers, Execute(c), c = d
      PROVE  Progress(d)'
  <2>1. Current(d) \in Msgs /\ Current(d)' = Current(d)
    BY <1>1, <1>4, CurrentType DEF Execute, Waits, Current
  <2>2. body[Current(d)] \in Bodies
    BY <1>1, <2>1 DEF TypeOK
  <2>3. body' = body /\ (body[Current(d)] # "unprocessable" => emitted'[Current(d)] > 0)
    BY <1>1, <1>4, <2>1, BumpType DEF Execute, TypeOK
  <2>4. CASE body[Current(d)] = "connection"
    <3>1. pc'[d] = "delete"
      BY <1>1, <1>4, <2>4 DEF Execute
    <3> QED
      BY <2>1, <2>3, <2>4, <3>1 DEF Progress, Handled
  <2>5. CASE body[Current(d)] = "event"
    <3>1. pc'[d] = "hook"
      BY <1>1, <1>4, <2>5 DEF Execute
    <3> QED
      BY <2>1, <2>3, <2>5, <3>1 DEF Progress
  <2>6. CASE body[Current(d)] = "unprocessable"
    <3>1. pc'[d] = "store"
      BY <1>1, <1>4, <2>6 DEF Execute
    <3> QED
      BY <2>1, <2>3, <2>6, <3>1 DEF Progress
  <2> QED
    BY <2>2, <2>4, <2>5, <2>6 DEF Bodies
<1>5. ASSUME NEW c \in Consumers, Hook(c), c = d
      PROVE  Progress(d)'
  <2>1. Current(d) \in Msgs /\ Current(d)' = Current(d)
    BY <1>1, <1>5, CurrentType DEF Hook, Waits, Current
  <2>2. /\ pc'[d] = "delete" /\ body'[Current(d)] = "event"
        /\ emitted'[Current(d)] > 0 /\ Current(d) \in pulled'
    BY <1>1, <1>5 DEF Hook, Waits, Progress
  <2> QED
    BY <2>1, <2>2 DEF Progress, Handled
<1>6. ASSUME NEW c \in Consumers, Store(c), c = d
      PROVE  Progress(d)'
  <2>1. Current(d) \in Msgs /\ Current(d)' = Current(d)
    BY <1>1, <1>6, CurrentType DEF Store, Waits, Current
  <2>2. stored'[Current(d)] > 0
    BY <1>1, <1>6, <2>1, BumpType DEF Store, TypeOK
  <2>3. pc'[d] = "delete" /\ body'[Current(d)] = "unprocessable"
    BY <1>1, <1>6 DEF Store, Waits, Progress
  <2> QED
    BY <2>1, <2>2, <2>3 DEF Progress, Handled
<1>7. ASSUME NEW c \in Consumers, c # d, Step(c) \/ Fail(c) \/ Crash(c) \/ Restart(c)
      PROVE  pc'[d] = pc[d] /\ batch'[d] = batch[d]
  BY <1>1, <1>7
  DEF Step, Receive, Execute, Hook, Store, Delete, Advance, Fail, CountError, Crash, Stop, Restart, Inv, TypeOK
<1>8. ASSUME Receive(d) \/ Delete(d) \/ Fail(d) \/ Crash(d) \/ Restart(d)
      PROVE  pc'[d] \in {"poll", "execute", "down"}
  BY <1>1, <1>8
  DEF Receive, Delete, Advance, Fail, CountError, Crash, Stop, Restart
<1>9. ASSUME NEW m \in Msgs, Dispatch(m) \/ Reappear(m)
      PROVE  pc'[d] = pc[d] /\ batch'[d] = batch[d]
  BY <1>9 DEF Dispatch, Outcomes, Reappear
<1>10. UNCHANGED vars => pc'[d] = pc[d] /\ batch'[d] = batch[d]
  BY DEF vars
<1> QED
  BY <1>2, <1>3, <1>4, <1>5, <1>6, <1>7, <1>8, <1>9, <1>10 DEF Next, Step, ReceiveNothing

-----------------------------------------------------------------------------
(* Nothing leaves the queue unhandled *)

LEMMA DeletedNext == Inv /\ [Next]_vars => DeletedWasHandled'
<1> SUFFICES ASSUME Inv, [Next]_vars, NEW m \in Msgs, queue'[m] = "gone"
             PROVE  Handled(m)'
  BY DEF DeletedWasHandled
<1>1. TypeOK /\ Grows
  BY StepsGrow DEF Inv
<1>2. CASE queue[m] = "gone"
  BY <1>1, <1>2, HandledGrows DEF Inv, DeletedWasHandled
<1>3. CASE \E c \in Consumers : Waits(c, "delete") /\ m = Current(c)
  <2>1. Handled(m)
    BY <1>3 DEF Inv, Progress, Waits
  <2> QED
    BY <1>1, <2>1, HandledGrows
<1>4. ASSUME queue[m] # "gone"
      PROVE  \E c \in Consumers : Waits(c, "delete") /\ m = Current(c)
  <2>1. ASSUME NEW k \in Msgs, Dispatch(k) \/ Reappear(k)
        PROVE  FALSE
    BY <1>1, <1>4, <2>1 DEF Dispatch, Outcomes, Reappear, TypeOK
  <2>2. ASSUME NEW c \in Consumers, Receive(c)
        PROVE  FALSE
    BY <1>4, <2>2, SizesAssumption DEF Receive
  <2>3. ASSUME NEW c \in Consumers, Delete(c)
        PROVE  Waits(c, "delete") /\ m = Current(c)
    BY <1>1, <1>4, <2>3 DEF Delete, TypeOK
  <2>4. ASSUME NEW c \in Consumers, Fail(c)
        PROVE  Waits(c, "delete") /\ m = Current(c)
    BY <1>1, <1>4, <2>4 DEF Fail, TypeOK
  <2> QED
    BY <1>4, <2>1, <2>2, <2>3, <2>4
    DEF Next, Step, Execute, Hook, Store, ReceiveNothing, Crash, Restart, vars
<1> QED
  BY <1>2, <1>3, <1>4

-----------------------------------------------------------------------------
(* Every reception but the first is paid for *)

LEMMA InTail ==
  ASSUME NEW s \in Seq(Msgs), s # <<>>, NEW m
  PROVE  In(m, s) <=> m = Head(s) \/ In(m, Tail(s))
<1>1. /\ Head(s) = s[1] /\ Len(s) \in Nat /\ Len(s) >= 1 /\ DOMAIN s = 1 .. Len(s)
      /\ DOMAIN Tail(s) = 1 .. Len(s) - 1
      /\ \A i \in 1 .. Len(s) - 1 : Tail(s)[i] = s[i + 1]
  BY HeadAndTail
<1>2. ASSUME In(m, s), m # Head(s)
      PROVE  In(m, Tail(s))
  <2>1. PICK i \in 1 .. Len(s) : s[i] = m
    BY <1>1, <1>2 DEF In
  <2>2. i - 1 \in 1 .. Len(s) - 1 /\ s[(i - 1) + 1] = m
    BY <1>1, <1>2, <2>1
  <2>3. Tail(s)[i - 1] = m
    BY <1>1, <2>2
  <2> QED
    BY <1>1, <2>2, <2>3 DEF In
<1>3. ASSUME In(m, Tail(s))
      PROVE  In(m, s)
  <2>1. PICK i \in 1 .. Len(s) - 1 : Tail(s)[i] = m
    BY <1>1, <1>3 DEF In
  <2>2. i + 1 \in 1 .. Len(s) /\ s[i + 1] = m
    BY <1>1, <2>1
  <2> QED
    BY <1>1, <2>2 DEF In
<1>4. m = Head(s) => In(m, s)
  BY <1>1 DEF In
<1> QED
  BY <1>2, <1>3, <1>4

\* A step that touches neither queue nor batches nor receptions takes nothing
\* back.
LEMMA PaidKept ==
  ASSUME Inv, UNCHANGED <<queue, batch, received, faults>>
  PROVE  AtLeastOnce' /\ Paid'
BY DEF Inv, AtLeastOnce, Paid, Receivable, Holds

\* A fault pays for every message at once.
LEMMA PaidByFault ==
  ASSUME Inv, Fault, UNCHANGED received
  PROVE  AtLeastOnce' /\ Paid'
<1>1. \A m \in Msgs : received[m] \in Nat /\ received[m] <= 1 + faults
  BY DEF Inv, TypeOK, AtLeastOnce
<1>2. faults \in Nat /\ faults' = faults + 1
  BY SizesAssumption DEF Inv, TypeOK, Fault
<1> QED
  BY <1>1, <1>2 DEF AtLeastOnce, Paid

LEMMA PaidNext == Inv /\ [Next]_vars => AtLeastOnce' /\ Paid'
<1> SUFFICES ASSUME Inv, [Next]_vars PROVE AtLeastOnce' /\ Paid'
  OBVIOUS
<1>1. TypeOK /\ AtLeastOnce /\ Paid /\ faults \in Nat
  BY SizesAssumption DEF Inv, TypeOK
<1>2. ASSUME NEW m \in Msgs, Dispatch(m)
      PROVE  AtLeastOnce' /\ Paid'
  <2>1. \A k \in Msgs : Receivable(k)' => Receivable(k)
    BY <1>1, <1>2, SizesAssumption DEF Dispatch, Outcomes, TypeOK, Receivable, Holds
  <2> QED
    BY <1>1, <1>2, <2>1 DEF Dispatch, Outcomes, AtLeastOnce, Paid, history
<1>3. ASSUME NEW m \in Msgs, Reappear(m)
      PROVE  AtLeastOnce' /\ Paid'
  <2>1. CASE Holds(queue[m], m)
    BY <1>3, <2>1, PaidByFault DEF Reappear, history
  <2>2. CASE ~Holds(queue[m], m)
    <3>1. Receivable(m)
      BY <1>3, <2>2 DEF Reappear, Receivable
    <3>2. \A k \in Msgs : Receivable(k)' => Receivable(k)
      BY <1>1, <1>3, <3>1 DEF Reappear, TypeOK, Receivable, Holds
    <3> QED
      BY <1>1, <1>3, <2>2, <3>2 DEF Reappear, AtLeastOnce, Paid, history
  <2> QED
    BY <2>1, <2>2
<1>4. ASSUME NEW c \in Consumers, Receive(c)
      PROVE  AtLeastOnce' /\ Paid'
  <2>1. PICK ms \in UNION {[1 .. n -> {m \in Msgs : queue[m] = "queued"}] : n \in 1 .. BatchSize} :
          /\ batch' = [batch EXCEPT ![c] = ms]
          /\ queue' = [m \in Msgs |-> IF In(m, ms) THEN c ELSE queue[m]]
          /\ received' = [m \in Msgs |-> IF In(m, ms) THEN Bump(received, m)[m] ELSE received[m]]
    BY <1>4 DEF Receive, In
  <2>2. \A m \in Msgs : In(m, ms) => queue[m] = "queued"
    BY <2>1, BatchType DEF In
  <2>3. faults' = faults /\ batch[c] = <<>>
    BY <1>1, <1>4 DEF Receive, Waits, TypeOK
  <2>4. ASSUME NEW m \in Msgs, In(m, ms)
        PROVE  received'[m] <= 1 + faults /\ ~Receivable(m)'
    <3>1. received[m] <= faults
      BY <1>1, <2>2, <2>4 DEF Paid, Receivable
    <3>2. received'[m] <= received[m] + 1 /\ received[m] \in Nat /\ received'[m] \in Nat
      <4>1. received \in [Msgs -> Nat]
        BY <1>1 DEF TypeOK
      <4>2. received'[m] = Bump(received, m)[m]
        BY <2>1, <2>4
      <4>3. /\ Bump(received, m) \in [Msgs -> Nat]
            /\ Bump(received, m)[m] <= received[m] + 1
        BY <4>1, BumpType
      <4> QED
        BY <4>1, <4>2, <4>3
    <3>3. queue'[m] = c /\ batch'[c] = ms
      BY <1>1, <2>1, <2>4 DEF TypeOK
    <3>4. c \notin {"unsent", "queued"}
      BY SizesAssumption
    <3> QED
      BY <1>1, <2>4, <3>1, <3>2, <3>3, <3>4 DEF Receivable, Holds, In
  <2>5. ASSUME NEW m \in Msgs, ~In(m, ms)
        PROVE  received'[m] = received[m] /\ (Receivable(m)' => Receivable(m))
    <3>1. received'[m] = received[m] /\ queue'[m] = queue[m]
      BY <2>1, <2>5
    <3>2. \A d \in Consumers : Holds(d, m) => Holds(d, m)'
      BY <1>1, <2>1, <2>3, <3>1 DEF Holds, TypeOK
    <3> QED
      BY <3>1, <3>2 DEF Receivable
  <2> QED
    BY <1>1, <2>3, <2>4, <2>5 DEF AtLeastOnce, Paid
<1>5. ASSUME NEW c \in Consumers, Delete(c)
      PROVE  AtLeastOnce' /\ Paid'
  <2>1. batch[c] \in Seq(Msgs) /\ batch[c] # <<>> /\ Current(c) = Head(batch[c]) /\ Current(c) \in Msgs
    BY <1>1, <1>5, CurrentType DEF Delete, Waits
  <2>2. batch' = [batch EXCEPT ![c] = Tail(batch[c])]
    BY <1>1, <1>5 DEF Delete, Advance, TypeOK
  <2>3. ASSUME NEW m \in Msgs, Receivable(m)'
        PROVE  Receivable(m)
    <3>1. queue'[m] = queue[m] /\ (m = Current(c) => queue[m] # c)
      BY <1>1, <1>5, <2>1, <2>3, SizesAssumption DEF Delete, TypeOK, Receivable
    <3>2. ASSUME NEW d \in Consumers, queue[m] = d, Holds(d, m)
          PROVE  Holds(d, m)'
      <4>1. CASE d = c
        <5>1. In(m, batch[c]) /\ m # Head(batch[c])
          BY <2>1, <3>1, <3>2, <4>1 DEF Holds, In
        <5>2. In(m, Tail(batch[c]))
          BY <2>1, <5>1, InTail
        <5>3. batch'[c] = Tail(batch[c])
          BY <1>1, <2>2 DEF TypeOK
        <5> QED
          BY <3>1, <3>2, <4>1, <5>2, <5>3 DEF Holds, In
      <4>2. CASE d # c
        BY <1>1, <2>2, <3>1, <3>2, <4>2 DEF Holds, TypeOK
      <4> QED
        BY <4>1, <4>2
    <3> QED
      BY <2>3, <3>1, <3>2 DEF Receivable
  <2> QED
    BY <1>1, <1>5, <2>3 DEF Delete, AtLeastOnce, Paid, history
<1>6. ASSUME NEW c \in Consumers, Fail(c) \/ Crash(c)
      PROVE  AtLeastOnce' /\ Paid'
  BY <1>6, PaidByFault DEF Fail, Crash, history
<1>7. ASSUME NEW c \in Consumers, Execute(c) \/ Hook(c) \/ Store(c) \/ Restart(c) \/ ReceiveNothing(c)
      PROVE  AtLeastOnce' /\ Paid'
  BY <1>7, PaidKept DEF Execute, Hook, Store, Restart, ReceiveNothing, vars, history
<1>8. CASE UNCHANGED vars
  BY <1>8, PaidKept DEF vars
<1> QED
  BY <1>2, <1>3, <1>4, <1>5, <1>6, <1>7, <1>8 DEF Next, Step

-----------------------------------------------------------------------------
(* Only what was sent is held *)

\* A step that gives a consumer nothing new and takes nothing back to the producer.
LEMMA SentKept ==
  ASSUME Sent,
         \A c \in Consumers : \A m \in Msgs : In(m, batch'[c]) => In(m, batch[c]),
         \A m \in Msgs : queue[m] \notin {"unsent", "lost"} => queue'[m] \notin {"unsent", "lost"}
  PROVE  Sent'
BY DEF Sent, In

LEMMA SentNext == Inv /\ [Next]_vars => Sent'
<1> SUFFICES ASSUME Inv, [Next]_vars PROVE Sent'
  OBVIOUS
<1>1. TypeOK /\ Sent
  BY DEF Inv
<1>2. \A m : ~In(m, <<>>)
  BY EmptySeq DEF In
<1>3. ASSUME NEW m \in Msgs, Dispatch(m) \/ Reappear(m)
      PROVE  Sent'
  <2>1. \A k \in Msgs : queue[k] \notin {"unsent", "lost"} => queue'[k] \notin {"unsent", "lost"}
    BY <1>1, <1>3 DEF Dispatch, Reappear, TypeOK
  <2> QED
    BY <1>1, <1>3, <2>1, SentKept DEF Dispatch, Reappear
<1>4. ASSUME NEW c \in Consumers, Receive(c)
      PROVE  Sent'
  <2>1. PICK ms \in UNION {[1 .. n -> {m \in Msgs : queue[m] = "queued"}] : n \in 1 .. BatchSize} :
          /\ batch' = [batch EXCEPT ![c] = ms]
          /\ queue' = [m \in Msgs |-> IF In(m, ms) THEN c ELSE queue[m]]
    BY <1>4 DEF Receive, In
  <2>2. c \notin {"unsent", "lost"}
    BY SizesAssumption
  <2>3. \A d \in Consumers \ {c} : batch'[d] = batch[d]
    BY <1>1, <2>1 DEF TypeOK
  <2>4. batch'[c] = ms
    BY <1>1, <2>1 DEF TypeOK
  <2> QED
    BY <1>1, <2>1, <2>2, <2>3, <2>4 DEF Sent, In
<1>5. ASSUME NEW c \in Consumers, Delete(c)
      PROVE  Sent'
  <2>1. batch[c] \in Seq(Msgs) /\ batch[c] # <<>> /\ Current(c) \in Msgs
    BY <1>1, <1>5, CurrentType DEF Delete, Waits
  <2>2. batch' = [batch EXCEPT ![c] = Tail(batch[c])]
    BY <1>1, <1>5 DEF Delete, Advance, TypeOK
  <2>3. \A m : In(m, Tail(batch[c])) => In(m, batch[c])
    BY <2>1, InTail
  <2>4. \A d \in Consumers : \A m \in Msgs : In(m, batch'[d]) => In(m, batch[d])
    BY <1>1, <2>2, <2>3 DEF TypeOK
  <2>5. \A k \in Msgs : queue[k] \notin {"unsent", "lost"} => queue'[k] \notin {"unsent", "lost"}
    BY <1>1, <1>5 DEF Delete, TypeOK
  <2> QED
    BY <1>1, <2>4, <2>5, SentKept
<1>6. ASSUME NEW c \in Consumers, Fail(c) \/ Crash(c)
      PROVE  Sent'
  <2>1. batch' = [batch EXCEPT ![c] = <<>>]
    BY <1>6 DEF Fail, Crash, CountError, Stop
  <2>2. \A d \in Consumers : \A m \in Msgs : In(m, batch'[d]) => In(m, batch[d])
    BY <1>1, <1>2, <2>1 DEF TypeOK
  <2>3. \A k \in Msgs : queue[k] \notin {"unsent", "lost"} => queue'[k] \notin {"unsent", "lost"}
    BY <1>1, <1>6 DEF Fail, Crash, TypeOK
  <2> QED
    BY <1>1, <2>2, <2>3, SentKept
<1>7. CASE UNCHANGED <<batch, queue>>
  BY <1>1, <1>7 DEF Sent, In
<1> QED
  BY <1>3, <1>4, <1>5, <1>6, <1>7
  DEF Next, Step, Execute, Hook, Store, ReceiveNothing, Restart, vars

-----------------------------------------------------------------------------
(* Theorems *)

THEOREM Invariance == Spec => []Inv
<1>1. Inv /\ [Next]_vars => Inv'
  BY TypeNext, ProgressNext, DeletedNext, PaidNext, SentNext DEF Inv
<1> QED
  BY InitInv, <1>1, PTL DEF Spec

\* Every variable keeps its type; an instance that runs has counted fewer
\* errors than stop it.
THEOREM TypeCorrect == Spec => []TypeOK
<1>1. Inv => TypeOK
  BY DEF Inv
<1> QED
  BY Invariance, <1>1, PTL

\* No message is deleted from the queue before it was emitted and its hooks
\* pulled, or stored, by whichever instance.
THEOREM NothingIsDropped == Spec => []DeletedWasHandled
<1>1. Inv => DeletedWasHandled
  BY DEF Inv
<1> QED
  BY Invariance, <1>1, PTL

\* A message is received once, and once more for each fault at most.
THEOREM RedeliveriesArePaid == Spec => []AtLeastOnce
<1>1. Inv => AtLeastOnce
  BY DEF Inv
<1> QED
  BY Invariance, <1>1, PTL

-----------------------------------------------------------------------------
(* Refinement *)

\* A step that moves no message and handles none is a stutter of the delivery.
LEMMA StutterDelivery ==
  ASSUME \A m \in Msgs : Place(m)' = Place(m) /\ (Handled(m)' <=> Handled(m))
  PROVE  UNCHANGED Delivery!vars
BY DEF Delivery!vars

LEMMA MoveDelivery ==
  ASSUME NEW m \in Msgs, NEW from, NEW to, Place(m) = from, Place(m)' = to,
         \A k \in Msgs \ {m} : Place(k)' = Place(k),
         \A k \in Msgs : Handled(k)' <=> Handled(k)
  PROVE  Delivery!Move(m, from, to)
BY DEF Delivery!Move

LEMMA HandleDelivery ==
  ASSUME NEW m \in Msgs, Place(m) \in {"pending", "gone"}, Handled(m)',
         \A k \in Msgs : Place(k)' = Place(k),
         \A k \in Msgs \ {m} : Handled(k)' <=> Handled(k)
  PROVE  Delivery!Handle(m)
BY DEF Delivery!Handle

LEMMA InitDelivery == Init => Delivery!Init
<1> SUFFICES ASSUME Init PROVE Delivery!Init
  OBVIOUS
<1>1. \A m \in Msgs : Place(m) = "unsent"
  BY DEF Init, Place
<1>2. \A m \in Msgs : ~Handled(m)
  <2> TAKE m \in Msgs
  <2>1. body[m] \in Bodies /\ ~(emitted[m] > 0) /\ ~(stored[m] > 0)
    BY DEF Init
  <2> QED
    BY <2>1 DEF Handled, Bodies
<1> QED
  BY <1>1, <1>2 DEF Delivery!Init

\* A consumer handles its current message, which was sent.
LEMMA HandlerStep ==
  ASSUME Inv, NEW c \in Consumers, pc[c] \in {"execute", "hook", "store"}, Grows,
         NEW m \in Msgs, m = Current(c), UNCHANGED queue,
         \A k \in Msgs \ {m} : /\ emitted'[k] = emitted[k] /\ stored'[k] = stored[k]
                               /\ k \in pulled' <=> k \in pulled
  PROVE  [Delivery!Next]_(Delivery!vars)
<1>1. TypeOK /\ Sent
  BY DEF Inv
<1>2. batch[c] \in Seq(Msgs) /\ batch[c] # <<>> /\ m = Head(batch[c])
  BY <1>1, CurrentType
<1>3. In(m, batch[c])
  BY <1>2, HeadAndTail DEF In
<1>4. Place(m) \in {"pending", "gone"}
  BY <1>1, <1>3 DEF Sent, Place
<1>5. \A k \in Msgs : Place(k)' = Place(k)
  BY DEF Place
<1>6. \A k \in Msgs \ {m} : Handled(k)' <=> Handled(k)
  BY DEF Handled, Grows
<1>7. CASE Handled(m)'
  <2>1. Delivery!Handle(m)
    BY <1>4, <1>5, <1>6, <1>7, HandleDelivery
  <2> QED
    BY <2>1 DEF Delivery!Next
<1>8. CASE ~Handled(m)'
  <2>1. ~Handled(m)
    BY <1>1, <1>8, HandledGrows
  <2>2. \A k \in Msgs : Handled(k)' <=> Handled(k)
    BY <1>6, <1>8, <2>1
  <2>3. UNCHANGED Delivery!vars
    BY <1>5, <2>2, StutterDelivery
  <2> QED
    BY <2>3
<1> QED
  BY <1>7, <1>8

\* A consumer removes its current message, which was handled.
LEMMA RemoverStep ==
  ASSUME Inv, NEW c \in Consumers, Waits(c, "delete"), NEW m \in Msgs, m = Current(c),
         UNCHANGED <<body, emitted, pulled, stored>>,
         UNCHANGED queue \/ queue' = [queue EXCEPT ![m] = "gone"]
  PROVE  [Delivery!Next]_(Delivery!vars)
<1>1. TypeOK /\ Sent
  BY DEF Inv
<1>2. batch[c] \in Seq(Msgs) /\ batch[c] # <<>> /\ m = Head(batch[c])
  BY <1>1, CurrentType DEF Waits
<1>3. In(m, batch[c])
  BY <1>2, HeadAndTail DEF In
<1>4. Place(m) \in {"pending", "gone"} /\ Handled(m)
  BY <1>1, <1>3 DEF Inv, Sent, Place, Progress, Waits
<1>5. \A k \in Msgs : Handled(k)' <=> Handled(k)
  BY DEF Handled
<1>6. \A k \in Msgs \ {m} : Place(k)' = Place(k)
  BY <1>1 DEF Place, TypeOK
<1>7. CASE Place(m)' = Place(m)
  <2>1. UNCHANGED Delivery!vars
    BY <1>5, <1>6, <1>7, StutterDelivery
  <2> QED
    BY <2>1
<1>8. CASE Place(m)' # Place(m)
  <2>1. Place(m) = "pending" /\ Place(m)' = "gone"
    BY <1>1, <1>4, <1>8 DEF Place, TypeOK
  <2>2. Delivery!Move(m, "pending", "gone")
    BY <1>5, <1>6, <2>1, MoveDelivery
  <2>3. Delivery!Remove(m)
    BY <1>4, <2>2 DEF Delivery!Remove
  <2> QED
    BY <2>3 DEF Delivery!Next
<1> QED
  BY <1>7, <1>8

LEMMA DeliveryStep == Inv /\ [Next]_vars => [Delivery!Next]_(Delivery!vars)
<1> SUFFICES ASSUME Inv, [Next]_vars PROVE [Delivery!Next]_(Delivery!vars)
  OBVIOUS
<1>1. TypeOK /\ Grows
  BY StepsGrow DEF Inv
<1>2. ASSUME NEW m \in Msgs, Dispatch(m)
      PROVE  [Delivery!Next]_(Delivery!vars)
  <2>1. \A k \in Msgs : Handled(k)' <=> Handled(k)
    BY <1>2 DEF Dispatch, Handled, history
  <2>2. \A k \in Msgs \ {m} : Place(k)' = Place(k)
    BY <1>1, <1>2 DEF Dispatch, Place, TypeOK
  <2>3. Place(m) = "unsent" /\ Place(m)' \in {"pending", "lost"}
    BY <1>1, <1>2 DEF Dispatch, Outcomes, Place, TypeOK
  <2>4. Delivery!Send(m) \/ Delivery!Lose(m)
    BY <2>1, <2>2, <2>3, MoveDelivery DEF Delivery!Send, Delivery!Lose
  <2> QED
    BY <2>4 DEF Delivery!Next
<1>3. ASSUME NEW m \in Msgs, Reappear(m)
      PROVE  [Delivery!Next]_(Delivery!vars)
  <2>1. \A k \in Msgs : Place(k)' = Place(k)
    BY <1>1, <1>3, SizesAssumption DEF Reappear, Place, TypeOK
  <2> QED
    BY <1>3, <2>1, StutterDelivery DEF Reappear, Handled, history
<1>4. ASSUME NEW c \in Consumers, Receive(c)
      PROVE  [Delivery!Next]_(Delivery!vars)
  <2>1. PICK ms \in UNION {[1 .. n -> {m \in Msgs : queue[m] = "queued"}] : n \in 1 .. BatchSize} :
          queue' = [m \in Msgs |-> IF In(m, ms) THEN c ELSE queue[m]]
    BY <1>4 DEF Receive, In
  <2>2. \A m \in Msgs : In(m, ms) => queue[m] = "queued"
    BY <2>1, BatchType DEF In
  <2>3. \A k \in Msgs : Place(k)' = Place(k)
    BY <2>1, <2>2, SizesAssumption DEF Place
  <2> QED
    BY <1>4, <2>3, StutterDelivery DEF Receive, Handled
<1>5. ASSUME NEW c \in Consumers, Execute(c) \/ Hook(c) \/ Store(c)
      PROVE  [Delivery!Next]_(Delivery!vars)
  <2>1. pc[c] \in {"execute", "hook", "store"} /\ UNCHANGED queue
    BY <1>5 DEF Execute, Hook, Store, Waits
  <2>2. PICK m \in Msgs : m = Current(c)
    BY <1>1, <2>1, CurrentType
  <2>3. \A k \in Msgs \ {m} : /\ Bump(emitted, m)[k] = emitted[k]
                              /\ Bump(stored, m)[k] = stored[k]
    BY <1>1, BumpType DEF TypeOK
  <2>4. \A k \in Msgs \ {m} : /\ emitted'[k] = emitted[k] /\ stored'[k] = stored[k]
                              /\ k \in pulled' <=> k \in pulled
    BY <1>5, <2>2, <2>3 DEF Execute, Hook, Store
  <2> QED
    BY <1>1, <2>1, <2>2, <2>4, HandlerStep
<1>6. ASSUME NEW c \in Consumers, Delete(c)
      PROVE  [Delivery!Next]_(Delivery!vars)
  <2>1. PICK m \in Msgs : m = Current(c)
    BY <1>1, <1>6, CurrentType DEF Delete, Waits
  <2> QED
    BY <1>6, <2>1, RemoverStep DEF Delete, history
<1>7. ASSUME NEW c \in Consumers, Fail(c)
      PROVE  [Delivery!Next]_(Delivery!vars)
  <2>1. CASE Waits(c, "store") /\ stored' = Bump(stored, Current(c))
    <3>1. pc[c] = "store" /\ UNCHANGED <<queue, emitted, pulled>>
      BY <1>7, <2>1 DEF Fail, Waits
    <3>2. PICK m \in Msgs : m = Current(c)
      BY <1>1, <3>1, CurrentType
    <3>3. \A k \in Msgs \ {m} : stored'[k] = stored[k]
      BY <1>1, <2>1, <3>2, BumpType DEF TypeOK
    <3> QED
      BY <1>1, <3>1, <3>2, <3>3, HandlerStep
  <2>2. CASE UNCHANGED stored /\ Waits(c, "delete")
    <3>1. PICK m \in Msgs : m = Current(c)
      BY <1>1, <2>2, CurrentType DEF Waits
    <3> QED
      BY <1>7, <2>2, <3>1, RemoverStep DEF Fail
  <2>3. CASE UNCHANGED stored /\ ~Waits(c, "delete")
    BY <1>7, <2>3, StutterDelivery DEF Fail, Place, Handled
  <2> QED
    BY <1>7, <2>1, <2>2, <2>3 DEF Fail
<1>8. CASE UNCHANGED <<body, queue, emitted, pulled, stored>>
  BY <1>8, StutterDelivery DEF Place, Handled
<1> QED
  BY <1>2, <1>3, <1>4, <1>5, <1>6, <1>7, <1>8
  DEF Next, Step, ReceiveNothing, Crash, Restart, vars, history

\* Producer, instances and SQS together keep the promise of the queue: sent, handled,
\* and only then gone for good.
THEOREM Refinement == Spec => ImplementsDelivery
BY InitDelivery, DeliveryStep, Invariance, PTL DEF Spec, ImplementsDelivery, Delivery!Spec
=============================================================================
