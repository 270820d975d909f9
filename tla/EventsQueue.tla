----------------------------- MODULE EventsQueue -----------------------------
(***************************************************************************)
(* The events queue: the producer sends to SQS, each instance of the       *)
(* program has one consumer that receives batches, handles their messages  *)
(* in order and deletes each one when it is done.  SQS delivers at least   *)
(* once and in any order: a message that is received and not deleted       *)
(* within its visibility timeout is received again, perhaps by another     *)
(* instance while the first still works on it.                             *)
(***************************************************************************)
EXTENDS FiniteSets, Naturals, Sequences

CONSTANTS Msgs,       \* messages the producer is asked to send
          Consumers,  \* instances of the program
          BatchSize,  \* messages of one reception (10)
          MaxErrors,  \* errors in a row that stop an instance (20)
          MaxFaults   \* bound on what may go wrong: rejections, delays, crashes

ASSUME SizesAssumption == /\ BatchSize \in Nat \ {0} /\ MaxErrors \in Nat \ {0}
                          /\ MaxFaults \in Nat
                          /\ Consumers \cap {"unsent", "lost", "queued", "gone"} = {}

VARIABLES
  body,         \* message -> what its body asks for
  queue,        \* message -> where it is; a consumer: received, hidden from others
  batch,        \* consumer -> messages of its batch that are not done
  pc,           \* consumer -> the call it waits for
  errorsCount,  \* consumer -> EventsQueueConsumer.errorsCount
  faults,       \* what went wrong so far
  received,     \* history: message -> times it was received
  emitted,      \* history: message -> times it was passed to the socket client
  pulled,       \* history: messages whose hooks were pulled
  stored        \* history: message -> times it was stored as unprocessed

history == <<received, emitted, pulled, stored>>
vars == <<body, queue, batch, pc, errorsCount, faults, received, emitted, pulled, stored>>

\* Events other than NEW_CONNECTION are broadcast and pull hooks.  An
\* unprocessable body is not JSON or not of the schema, or there is no socket
\* client to emit with.
Bodies == {"connection", "event", "unprocessable"}

TypeOK == /\ body \in [Msgs -> Bodies]
          /\ queue \in [Msgs -> {"unsent", "lost", "queued", "gone"} \cup Consumers]
          /\ batch \in [Consumers -> Seq(Msgs)]
          /\ pc \in [Consumers -> {"poll", "execute", "hook", "store", "delete", "down"}]
          /\ \A c \in Consumers : pc[c] \in {"poll", "down"} <=> batch[c] = <<>>
          /\ errorsCount \in [Consumers -> 0 .. MaxErrors - 1]
          /\ faults \in 0 .. MaxFaults
          /\ received \in [Msgs -> Nat]
          /\ emitted \in [Msgs -> Nat]
          /\ stored \in [Msgs -> Nat]
          /\ pulled \subseteq Msgs

Init == /\ body \in [Msgs -> Bodies]
        /\ queue = [m \in Msgs |-> "unsent"]
        /\ batch = [c \in Consumers |-> <<>>]
        /\ pc = [c \in Consumers |-> "poll"]
        /\ errorsCount = [c \in Consumers |-> 0]
        /\ faults = 0 /\ pulled = {}
        /\ received = [m \in Msgs |-> 0]
        /\ emitted = [m \in Msgs |-> 0]
        /\ stored = [m \in Msgs |-> 0]

\* Histories count no further than a message can come (see AtLeastOnce).
Bump(count, m) == [count EXCEPT ![m] = IF @ < MaxFaults + 2 THEN @ + 1 ELSE @]

Fault == faults < MaxFaults /\ faults' = faults + 1

-----------------------------------------------------------------------------
(* Producer and queue *)

\* What the caller cannot tell apart.
Outcomes == {"queued", "lost"}

\* A rejected send is logged and answered with null: the caller does not know.
Dispatch(m) ==
  /\ queue[m] = "unsent"
  /\ \E to \in Outcomes : queue' = [queue EXCEPT ![m] = to]
  /\ UNCHANGED <<body, batch, pc, errorsCount, faults, history>>

Holds(c, m) == queue[m] = c /\ \E i \in DOMAIN batch[c] : batch[c][i] = m

\* The visibility timeout runs out: of a message whose consumer gave up, or,
\* a fault, of one that its consumer has still to finish.
Reappear(m) ==
  /\ queue[m] \in Consumers
  /\ IF Holds(queue[m], m) THEN Fault ELSE UNCHANGED faults
  /\ queue' = [queue EXCEPT ![m] = "queued"]
  /\ UNCHANGED <<body, batch, pc, errorsCount, history>>

-----------------------------------------------------------------------------
(* Consumer *)

Waits(c, p) == pc[c] = p
Current(c) == Head(batch[c])

\* Up to BatchSize of the messages, in the order SQS likes.
Receive(c) ==
  /\ Waits(c, "poll")
  /\ \E ms \in UNION {[1 .. n -> {m \in Msgs : queue[m] = "queued"}] : n \in 1 .. BatchSize} :
       /\ \A i, j \in DOMAIN ms : ms[i] = ms[j] => i = j
       /\ batch' = [batch EXCEPT ![c] = ms]
       /\ queue' = [m \in Msgs |-> IF \E i \in DOMAIN ms : ms[i] = m THEN c ELSE queue[m]]
       /\ received' = [m \in Msgs |-> IF \E i \in DOMAIN ms : ms[i] = m
                                        THEN Bump(received, m)[m] ELSE received[m]]
  /\ pc' = [pc EXCEPT ![c] = "execute"]
  /\ UNCHANGED <<body, errorsCount, faults, emitted, pulled, stored>>

\* A reception may come back empty.
ReceiveNothing(c) == Waits(c, "poll") /\ UNCHANGED vars

\* Mutant: the insert of what cannot be processed is not awaited.
HastyExecute(c) ==
  /\ Waits(c, "execute")
  /\ LET m == Current(c) IN
     /\ pc' = [pc EXCEPT ![c] = IF body[m] = "event" THEN "hook" ELSE "delete"]
     /\ emitted' = IF body[m] = "unprocessable" THEN emitted ELSE Bump(emitted, m)
  /\ UNCHANGED <<body, queue, batch, errorsCount, faults, received, pulled, stored>>

\* execute: a new connection is emitted to its room, another event to all.
Execute(c) ==
  /\ Waits(c, "execute")
  /\ LET m == Current(c) IN
     /\ pc' = [pc EXCEPT ![c] = CASE body[m] = "connection" -> "delete"
                                  [] body[m] = "event" -> "hook"
                                  [] body[m] = "unprocessable" -> "store"]
     /\ emitted' = IF body[m] = "unprocessable" THEN emitted ELSE Bump(emitted, m)
  /\ UNCHANGED <<body, queue, batch, errorsCount, faults, received, pulled, stored>>

\* pullHook settles; that it rejects is logged.
Hook(c) ==
  /\ Waits(c, "hook")
  /\ pulled' = pulled \cup {Current(c)}
  /\ pc' = [pc EXCEPT ![c] = "delete"]
  /\ UNCHANGED <<body, queue, batch, errorsCount, faults, received, emitted, stored>>

Store(c) ==
  /\ Waits(c, "store")
  /\ stored' = Bump(stored, Current(c))
  /\ pc' = [pc EXCEPT ![c] = "delete"]
  /\ UNCHANGED <<body, queue, batch, errorsCount, faults, received, emitted, pulled>>

Stop(c) == /\ pc' = [pc EXCEPT ![c] = "down"]
           /\ batch' = [batch EXCEPT ![c] = <<>>]
           /\ UNCHANGED errorsCount

\* The loop goes on to the next message, or to the next reception.
Advance(c) == /\ batch' = [batch EXCEPT ![c] = Tail(@)]
              /\ pc' = [pc EXCEPT ![c] = IF Len(batch[c]) > 1 THEN "execute" ELSE "poll"]
              /\ errorsCount' = [errorsCount EXCEPT ![c] = 0]

\* Mutant: execute answers false for what it stored.
KeepingDelete(c) ==
  /\ Waits(c, "delete")
  /\ LET m == Current(c) IN
     \/ body[m] # "unprocessable" /\ queue' = [queue EXCEPT ![m] = "gone"]
     \/ (queue[m] # c \/ body[m] = "unprocessable") /\ UNCHANGED queue
  /\ Advance(c)
  /\ UNCHANGED <<body, faults, history>>

\* With the receipt of an earlier reception SQS answers well and may keep the
\* message.
Delete(c) ==
  /\ Waits(c, "delete")
  /\ LET m == Current(c) IN
     \/ queue' = [queue EXCEPT ![m] = "gone"]
     \/ queue[m] # c /\ UNCHANGED queue
  /\ Advance(c)
  /\ UNCHANGED <<body, faults, history>>

\* Mutant: one error more.
LenientCountError(c) ==
  IF errorsCount[c] < MaxErrors
    THEN /\ errorsCount' = [errorsCount EXCEPT ![c] = @ + 1]
         /\ batch' = [batch EXCEPT ![c] = <<>>]
         /\ pc' = [pc EXCEPT ![c] = "poll"]
    ELSE Stop(c)

\* onError counts; the error that is too many is thrown into the poll loop,
\* where nothing catches it, and the program closes.
CountError(c) ==
  IF errorsCount[c] + 1 < MaxErrors
    THEN /\ errorsCount' = [errorsCount EXCEPT ![c] = @ + 1]
         /\ batch' = [batch EXCEPT ![c] = <<>>]
         /\ pc' = [pc EXCEPT ![c] = "poll"]
    ELSE Stop(c)

\* A reception rejects, or the query that stores or deletes does, and the rest
\* of the batch is given up.  The library reports the latter with the batch as
\* an error, or as a processing error: onProcessingError then tries to store
\* the batch as one document, which rejects, and the program closes.  The query
\* may have been executed all the same.
Fail(c) ==
  /\ pc[c] \in {"poll", "store", "delete"}
  /\ Fault
  /\ CountError(c) \/ (pc[c] # "poll" /\ Stop(c))
  /\ \/ UNCHANGED queue
     \/ Waits(c, "delete") /\ queue' = [queue EXCEPT ![Current(c)] = "gone"]
  /\ \/ UNCHANGED stored
     \/ Waits(c, "store") /\ stored' = Bump(stored, Current(c))
  /\ UNCHANGED <<body, received, emitted, pulled>>

Crash(c) == /\ pc[c] # "down"
            /\ Fault
            /\ Stop(c)
            /\ UNCHANGED <<body, queue, history>>

Restart(c) == /\ Waits(c, "down")
              /\ pc' = [pc EXCEPT ![c] = "poll"]
              /\ errorsCount' = [errorsCount EXCEPT ![c] = 0]
              /\ UNCHANGED <<body, queue, batch, faults, history>>

-----------------------------------------------------------------------------
Step(c) == Receive(c) \/ Execute(c) \/ Hook(c) \/ Store(c) \/ Delete(c)

Next == \/ \E m \in Msgs : Dispatch(m) \/ Reappear(m)
        \/ \E c \in Consumers : Step(c) \/ ReceiveNothing(c) \/ Fail(c) \/ Crash(c) \/ Restart(c)

\* Every call settles and an abandoned message reappears; nobody has to
\* restart an instance.
Fairness == /\ \A c \in Consumers : WF_vars(Step(c))
            /\ \A m \in Msgs : WF_vars(Reappear(m) /\ UNCHANGED faults)

Spec == Init /\ [][Next]_vars
FairSpec == Spec /\ Fairness

-----------------------------------------------------------------------------
(* Properties *)

\* An event is emitted and its hooks are pulled, what cannot be processed is
\* stored.
Handled(m) ==
  CASE body[m] = "connection" -> emitted[m] > 0
    [] body[m] = "event" -> emitted[m] > 0 /\ m \in pulled
    [] body[m] = "unprocessable" -> stored[m] > 0

\* What left the queue was handled, even when another instance deleted it or
\* the one that handled it died.
DeletedWasHandled == \A m \in Msgs : queue[m] = "gone" => Handled(m)

\* The order of all this: whatever instances, batches, receptions and faults do, a
\* message that was lost is never handled, what was handled stays so, only what was
\* handled leaves, one message in a step, and nothing that left is queued again.
Place(m) == IF queue[m] \in {"unsent", "lost", "gone"} THEN queue[m] ELSE "pending"

Delivery == INSTANCE MessageDelivery WITH place <- [m \in Msgs |-> Place(m)],
                                          handled <- {m \in Msgs : Handled(m)}

ImplementsDelivery == Delivery!Spec

\* A message comes again only when something went wrong: every fault costs a
\* message one more reception at most.
AtLeastOnce == \A m \in Msgs : received[m] <= 1 + faults

\* Everything queued leaves the queue while an instance runs: no message that
\* cannot be processed blocks the ones behind it.
EveryMessageLeaves ==
  \A m \in Msgs : queue[m] = "queued" ~>
    queue[m] = "gone" \/ \A c \in Consumers : pc[c] = "down"
=============================================================================
