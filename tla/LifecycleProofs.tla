---------------------------- MODULE LifecycleProofs ----------------------------
(***************************************************************************)
(* What closing the process guarantees, for any number of closes that      *)
(* overlap and any sockets.  The invariant says of each close, by where it *)
(* is, what has been torn down by then: by itself or by one before it.     *)
(***************************************************************************)
EXTENDS Lifecycle, TLAPS

\* The calls of onModuleDestroy are behind close c.
Past(c) == pc[c] \notin {"idle", "destroy"}

\* The stores that a close has been at when it does p next.
Visited(p) == IF p \in {"dispose", "shutdown", "done"} THEN Stores
                                                      ELSE {s \in Stores : <<s, p>> \in Order}

\* No close begins before the start, and the stores are not closed but by one.
Untouched == app = "creating" => \A c \in Closes : pc[c] = "idle"
ClosedByClose == app \in Started /\ connected # Stores => \E c \in Closes : Past(c)

\* A close that comes before the port is open is remembered.
EarlyKnown == app \in {"initializing", "listening"} =>
                \A c \in Closes : Past(c) => "early" \in gaps

\* What onModuleDestroy leaves.
Destroyed == \A c \in Closes : Past(c) =>
               /\ Clients \subseteq down \/ "threw" \in gaps
               /\ gaps = {} => cron # "on" /\ Servers \subseteq down

\* What beforeApplicationShutdown leaves.
Settled == \A c \in Closes : Visited(pc[c]) \cap connected \subseteq unclosed

\* What Nest's own dispose leaves: the socket server stays closed, the HTTP server
\* unless it begins to listen afterwards.
Disposed == \A c \in Closes : pc[c] \in {"shutdown", "done"} =>
              /\ sockets = {} /\ "server" \in down
              /\ Servers \subseteq down \/ "early" \in gaps

ExitByClose == app = "success" => \E c \in Closes : pc[c] = "done"

\* A flag that is down, or was when it was read, is the work of a close.
FlagsByClose == kicked \/ ~task.stores => \E c \in Closes : pc[c] # "idle"

Inv == /\ TypeOK /\ Untouched /\ ClosedByClose /\ EarlyKnown
       /\ Destroyed /\ Settled /\ Disposed /\ ExitByClose /\ FlagsByClose

-----------------------------------------------------------------------------
(* The order of the stores *)

\* A close begins with the first store that is connected: it skips none that is.
LEMMA FirstStore ==
  ASSUME NEW S \in SUBSET Stores
  PROVE  /\ FirstOf(S) \in Stores \cup {"dispose"}
         /\ Visited(FirstOf(S)) \cap S = {}
<1>1. CASE S = {}
  BY <1>1 DEF FirstOf
<1>2. CASE S # {}
  <2>1. \E s \in S : \A t \in S \ {s} : <<s, t>> \in Order
    BY <1>2 DEF Stores, Order
  <2>2. FirstOf(S) \in S /\ \A t \in S \ {FirstOf(S)} : <<FirstOf(S), t>> \in Order
    BY <1>2, <2>1 DEF FirstOf
  <2> HIDE DEF FirstOf
  <2> QED
    BY <2>2 DEF Visited, Stores, Order
<1> QED
  BY <1>1, <1>2

\* The close that is at s goes on with the first store behind it: what it skips was
\* not connected, or was visited before.
LEMMA NextStore ==
  ASSUME NEW s \in Stores, NEW S \in SUBSET Stores
  PROVE  /\ FirstOf(Behind(s) \cap S) \in Stores \cup {"dispose"}
         /\ Visited(FirstOf(Behind(s) \cap S)) \cap S \subseteq Visited(s) \cup {s}
<1> DEFINE rest == Behind(s) \cap S
<1>1. rest \in SUBSET Stores
  BY DEF Behind
<1>2. S \subseteq Visited(s) \cup {s} \cup rest
  BY DEF Behind, Visited, Stores, Order
<1>3. rest \subseteq S
  OBVIOUS
<1> HIDE DEF rest
<1>4. /\ FirstOf(rest) \in Stores \cup {"dispose"}
      /\ Visited(FirstOf(rest)) \cap rest = {}
  BY <1>1, FirstStore
<1>5. Visited(FirstOf(rest)) \cap S \subseteq Visited(s) \cup {s}
  BY <1>2, <1>3, <1>4
<1> QED
  BY <1>4, <1>5 DEF rest

\* The calls of onModuleDestroy from the third on close every server and client.
LEMMA WholeTeardown == /\ Len(Teardown) = 8
                       /\ {Teardown[i] : i \in 3..8} = Servers \cup Clients
                       /\ \A n \in 0..8 : {Teardown[i] : i \in 3..n} \subseteq Servers \cup Clients
<1>1. Len(Teardown) = 8
  BY DEF Teardown
<1>2. /\ Teardown[3] = "server" /\ Teardown[4] = "http" /\ Teardown[5] = "sqs"
      /\ Teardown[6] = "sns" /\ Teardown[7] = "s3" /\ Teardown[8] = "cognito"
  BY DEF Teardown
<1>3. \A i \in 3..8 : i = 3 \/ i = 4 \/ i = 5 \/ i = 6 \/ i = 7 \/ i = 8
  OBVIOUS
<1>4. \A i \in 3..8 : Teardown[i] \in Servers \cup Clients
  BY <1>2, <1>3 DEF Servers, Clients
<1>5. \A x \in Servers \cup Clients : \E i \in 3..8 : x = Teardown[i]
  BY <1>2 DEF Servers, Clients
<1> QED
  BY <1>1, <1>4, <1>5

-----------------------------------------------------------------------------
(* Types *)

\* The parts of the invariant but for the types.
Parts == /\ Untouched /\ ClosedByClose /\ EarlyKnown /\ Destroyed
         /\ Settled /\ Disposed /\ ExitByClose /\ FlagsByClose

\* Nothing was closed before the start.
LEMMA InitInv == Init => Inv
<1>1. ASSUME Init PROVE TypeOK
  BY <1>1 DEF Init, TypeOK, Started, Task, Resting
<1>2. ASSUME Init PROVE Parts
  BY <1>2 DEF Init, Parts, Untouched, ClosedByClose, EarlyKnown, Destroyed, Settled, Disposed,
    ExitByClose, FlagsByClose, Past, Visited, Order, Started, Resting
<1> QED
  BY <1>1, <1>2 DEF Inv, Parts

\* A step keeps the types, also of the store a close goes on with.
LEMMA StepType == TypeOK /\ [Next]_vars => TypeOK'
<1> SUFFICES ASSUME TypeOK, [Next]_vars PROVE TypeOK'
  OBVIOUS
<1> USE DEF TypeOK, Started, history, links
<1>1. ASSUME Create \/ FailCreate \/ Mount \/ Listen \/ FailListen PROVE TypeOK'
  BY <1>1 DEF Create, FailCreate, Mount, Listen, FailListen
<1>2. ASSUME NEW c \in Closes, Signal(c) PROVE TypeOK'
  BY <1>2 DEF Signal, Goto
<1>3. ASSUME NEW c \in Closes, Destroy(c) PROVE TypeOK'
  BY <1>3, FirstStore, WholeTeardown DEF Destroy, Goto, Disconnect, Stoppable
<1>4. ASSUME NEW c \in Closes, Settle(c) PROVE TypeOK'
  BY <1>4, NextStore DEF Settle, Goto
<1>5. ASSUME NEW c \in Closes, Dispose(c) \/ Shutdown(c) PROVE TypeOK'
  BY <1>5 DEF Dispose, Shutdown, Goto, Disconnect
<1>6. ASSUME Fire PROVE TypeOK'
  <2>1. task' \in Task
    BY <1>6, Zenon DEF Fire, Task, OwnConnected
  <2> QED
    BY <1>6, <2>1 DEF Fire
<1>7. ASSUME Sync PROVE TypeOK'
  <2>1. task' \in Task
    BY <1>7 DEF Sync, Task
  <2> QED
    BY <1>7, <2>1 DEF Sync
<1>8. ASSUME Decide PROVE TypeOK'
  <2>1. task' \in Task
    BY <1>8 DEF Decide, Task, Resting
  <2>2. kicked' \in BOOLEAN
    BY <1>8 DEF Decide
  <2> QED
    BY <1>8, <2>1, <2>2 DEF Decide, Disconnect
<1>9. ASSUME NEW s \in Sockets, Connect(s) \/ Leave(s) PROVE TypeOK'
  BY <1>9 DEF Connect, Leave
<1>10. ASSUME Dial \/ UNCHANGED vars PROVE TypeOK'
  BY <1>10 DEF Dial, vars
<1> QED
  BY <1>1, <1>2, <1>3, <1>4, <1>5, <1>6, <1>7, <1>8, <1>9, <1>10 DEF Next, Closing, Ended

-----------------------------------------------------------------------------
(* Steps *)

\* A step keeps what is known of each close by where it is.
LEMMA StepInv == Inv /\ [Next]_vars => Parts'
<1> SUFFICES ASSUME Inv, [Next]_vars PROVE Parts'
  OBVIOUS
<1>0. TypeOK'
  BY StepType DEF Inv
<1> USE DEF Inv, Started, history, links
<1>1. ASSUME Create \/ FailCreate PROVE Parts'
  BY <1>1 DEF Parts, Create, FailCreate, Untouched, ClosedByClose, EarlyKnown, Destroyed, Settled,
    Disposed, ExitByClose, FlagsByClose, Past, Visited, Order
<1>2. ASSUME Mount \/ FailListen PROVE Parts'
  BY <1>2 DEF Parts, Mount, FailListen, Untouched, ClosedByClose, EarlyKnown, Destroyed, Settled,
    Disposed, ExitByClose, FlagsByClose, Past, Visited, Order
<1>3. ASSUME Listen PROVE Parts'
  BY <1>3 DEF Parts, Listen, Untouched, ClosedByClose, EarlyKnown, Destroyed, Settled,
    Disposed, ExitByClose, FlagsByClose, Past, Servers, Clients, Visited, Order
<1>4. ASSUME NEW c \in Closes, Signal(c) PROVE Parts'
  BY <1>4 DEF Parts, Signal, Goto, Untouched, ClosedByClose, EarlyKnown, Destroyed, Settled,
    Disposed, ExitByClose, FlagsByClose, Past, Visited, Order, TypeOK
<1>5. ASSUME NEW c \in Closes, Destroy(c) PROVE Parts'
  <2>1. PICK n \in 0..Len(Teardown) :
          /\ n >= 1 => cron' = "off"
          /\ n < 1 => cron' = cron
          /\ sockets' \subseteq sockets
          /\ down' = down \cup {Teardown[i] : i \in 3..n}
          /\ n < Len(Teardown) => "threw" \in gaps'
    BY <1>5 DEF Destroy, Disconnect
  <2>2. /\ "threw" \in gaps' \/ (Servers \cup Clients \subseteq down' /\ cron' # "on")
        /\ down \subseteq down' /\ gaps \subseteq gaps' /\ sockets' \subseteq sockets
        /\ cron # "on" => cron' # "on"
        /\ app \in {"initializing", "listening"} => "early" \in gaps'
    BY <1>5, <2>1, WholeTeardown DEF Destroy
  <2>3. /\ pc[c] = "destroy" /\ pc' = [pc EXCEPT ![c] = FirstOf(connected)]
        /\ FirstOf(connected) \in Stores \cup {"dispose"}
        /\ Visited(FirstOf(connected)) \cap connected = {}
        /\ UNCHANGED <<app, connected, unclosed, kicked, task>>
    BY <1>5, FirstStore DEF Destroy, Goto, TypeOK
  <2>4. /\ Past(c)' /\ \A d \in Closes \ {c} : pc'[d] = pc[d]
        /\ pc'[c] \notin {"shutdown", "done", "idle"}
        /\ pc'[c] = FirstOf(connected)
    BY <2>3 DEF Past, TypeOK, Stores
  <2> QED
    BY <2>2, <2>3, <2>4 DEF Parts, Untouched, ClosedByClose, EarlyKnown, Destroyed, Settled,
      Disposed, ExitByClose, FlagsByClose, Past
<1>6. ASSUME NEW c \in Closes, Settle(c) PROVE Parts'
  <2> DEFINE next == FirstOf(Behind(pc[c]) \cap connected')
  <2>1. /\ pc[c] \in Stores /\ pc' = [pc EXCEPT ![c] = next]
        /\ connected' \subseteq connected /\ unclosed \subseteq unclosed'
        /\ pc[c] \in connected' => pc[c] \in unclosed'
        /\ UNCHANGED <<app, down, cron, task, sockets, gaps, kicked>>
    BY <1>6 DEF Settle, Goto
  <2>2. /\ next \in Stores \cup {"dispose"}
        /\ Visited(next) \cap connected' \subseteq Visited(pc[c]) \cup {pc[c]}
    BY <1>0, <2>1, NextStore DEF TypeOK
  <2> HIDE DEF next
  <2>3. /\ Past(c) /\ Past(c)' /\ \A d \in Closes \ {c} : pc'[d] = pc[d]
        /\ pc'[c] = next /\ pc'[c] \notin {"shutdown", "done", "idle"}
        /\ pc[c] \notin {"shutdown", "done", "idle"}
    BY <2>1, <2>2 DEF Past, TypeOK, Stores
  <2>4. Settled'
    BY <2>1, <2>2, <2>3 DEF Settled
  <2> QED
    BY <2>1, <2>3, <2>4 DEF Parts, Untouched, ClosedByClose, EarlyKnown, Destroyed,
      Disposed, ExitByClose, FlagsByClose, Past
<1>7. ASSUME NEW c \in Closes, Dispose(c) PROVE Parts'
  BY <1>7 DEF Parts, Dispose, Goto, Disconnect, Untouched, ClosedByClose, EarlyKnown, Destroyed, Settled,
    Disposed, ExitByClose, FlagsByClose, Past, Visited, Order, TypeOK, Servers
<1>8. ASSUME NEW c \in Closes, Shutdown(c) PROVE Parts'
  BY <1>8 DEF Parts, Shutdown, Goto, Untouched, ClosedByClose, EarlyKnown, Destroyed, Settled,
    Disposed, ExitByClose, FlagsByClose, Past, Visited, Order, TypeOK
<1>9. ASSUME Fire PROVE Parts'
  BY <1>9 DEF Parts, Fire, Untouched, ClosedByClose, EarlyKnown, Destroyed, Settled,
    Disposed, ExitByClose, FlagsByClose, Past, Running, TypeOK
<1>10. ASSUME Sync PROVE Parts'
  <2>1. task'.stores = task.stores
    BY <1>10 DEF Sync, TypeOK, Task
  <2> QED
    BY <1>10, <2>1 DEF Parts, Sync, Untouched, ClosedByClose, EarlyKnown, Destroyed, Settled,
      Disposed, ExitByClose, FlagsByClose, Past
<1>11. ASSUME Decide PROVE Parts'
  <2>1. sockets' \subseteq sockets /\ task'.stores
    BY <1>11 DEF Decide, Disconnect, Resting
  <2> QED
    BY <1>11, <2>1 DEF Parts, Decide, Untouched, ClosedByClose, EarlyKnown, Destroyed, Settled,
      Disposed, ExitByClose, FlagsByClose, Past
<1>12. ASSUME NEW s \in Sockets, Connect(s) \/ Leave(s) PROVE Parts'
  BY <1>12 DEF Parts, Connect, Leave, Accepting, Untouched, ClosedByClose, EarlyKnown, Destroyed, Settled,
    Disposed, ExitByClose, FlagsByClose, Past
<1>13. ASSUME Dial \/ UNCHANGED vars PROVE Parts'
  BY <1>13 DEF Parts, Dial, vars, Untouched, ClosedByClose, EarlyKnown, Destroyed, Settled,
    Disposed, ExitByClose, FlagsByClose, Past
<1> QED
  BY <1>1, <1>2, <1>3, <1>4, <1>5, <1>6, <1>7, <1>8, <1>9, <1>10, <1>11, <1>12, <1>13
  DEF Next, Closing, Ended

\* Inv holds in every state, for any closes and sockets.
THEOREM Invariance == Spec => []Inv
<1>1. Init => Inv
  BY InitInv
<1>2. Inv /\ [Next]_vars => Inv'
  BY StepType, StepInv DEF Inv, Parts
<1> QED
  BY <1>1, <1>2, PTL DEF Spec

-----------------------------------------------------------------------------
(* Theorems *)

\* The variables of the process keep their types.
THEOREM TypeCorrect == Spec => []TypeOK
<1>1. Inv => TypeOK
  BY DEF Inv
<1> QED
  BY <1>1, Invariance, PTL

\* No store is closed under a cron job that runs or a server that accepts, unless
\* a call of a teardown threw or a close came before the start was over: a store
\* that is closed has a close behind its teardown.
THEOREM ServersFirst == Spec => []ServersStopFirst
<1>1. Inv => ServersStopFirst
  BY DEF Inv, ServersStopFirst, ClosedByClose, Destroyed, Started
<1> QED
  BY <1>1, Invariance, PTL

\* The close that ends the process has torn down what it leaves behind.
THEOREM TornDown == Spec => []TornDownAtExit
<1>1. Inv => TornDownAtExit
  BY DEF Inv, TornDownAtExit, ExitByClose, Destroyed, Disposed, Past
<1> QED
  BY <1>1, Invariance, PTL

\* The close that ends the process has visited every store.
THEOREM OpenExplained == Spec => []OpenAtExitHasACause
<1>1. Inv => OpenAtExitHasACause
  BY DEF Inv, OpenAtExitHasACause, ExitByClose, Settled, Visited, TypeOK
<1> QED
  BY <1>1, Invariance, PTL

\* Only a close makes a flag of a store drive the cron task.
THEOREM KicksExplained == Spec => []StoresKickOnlyAtClose
<1>1. Inv => StoresKickOnlyAtClose
  BY DEF Inv, StoresKickOnlyAtClose, FlagsByClose
<1> QED
  BY <1>1, Invariance, PTL

================================================================================
