------------------------------ MODULE Lifecycle ------------------------------
(***************************************************************************)
(* One process from its start to its exit.  Every signal, uncaught error   *)
(* and unhandled rejection calls nestApp.close(), also while an earlier    *)
(* close is under way; the hooks of LifecycleService then run once for     *)
(* each call.  Beside them runs the cron task that looks at the backing    *)
(* services and disconnects the sockets, and the socket client by which    *)
(* the process is connected to its own socket server.                      *)
(***************************************************************************)
EXTENDS Naturals, Sequences

CONSTANTS Closes,  \* calls of nestApp.close() that may happen
          Sockets  \* sockets that may connect

VARIABLES
  app,       \* how far the start is, or how the process ended
  testing,   \* environment = TEST: the hooks do not end the process
  pc,        \* close -> what it does next, or the store it waits for
  down,      \* servers and clients that were closed or destroyed
  cron,      \* the cron job in the registry of the scheduler
  task,      \* the run of the cron task that is under way
  sockets,   \* sockets that are connected
  own,       \* the process's own socket client
  connected, \* stores whose isConnected / isInitialized is set
  gaps,      \* history: a call of a teardown threw, or it came before listening
  unclosed,  \* history: stores whose disconnect failed
  kicked     \* history: a store's flag made the task disconnect the sockets

history == <<gaps, unclosed, kicked>>
links == <<sockets, own>>
vars == <<app, testing, pc, down, cron, task, links, connected, history>>

-----------------------------------------------------------------------------
(* Data *)

Stores == {"redis", "mongo", "database"}
Servers == {"server", "http"}
Clients == {"sqs", "sns", "s3", "cognito"}

\* Mutant: one of the clients is forgotten.
ShortTeardown == <<"cron", "sockets", "server", "http", "sqs", "sns", "s3">>

\* Mutant: the HTTP server is left for Nest to close.
PoliteTeardown == <<"cron", "sockets", "server", "sqs", "sns", "s3", "cognito">>

\* The calls of onModuleDestroy.
Teardown == <<"cron", "sockets", "server", "http", "sqs", "sns", "s3", "cognito">>

Started == {"initializing", "listening", "serving", "mute"}
Running == app \in Started \cup {"creating"}
Task == [at : {"idle", "sync", "decide"}, stores : BOOLEAN, client : BOOLEAN]
Resting == [at |-> "idle", stores |-> TRUE, client |-> TRUE]

TypeOK == /\ app \in Started \cup {"creating", "success", "failure"}
          /\ testing \in BOOLEAN
          /\ pc \in [Closes -> {"idle", "destroy", "dispose", "shutdown", "done"} \cup Stores]
          /\ down \subseteq Servers \cup Clients
          /\ cron \in {"absent", "on", "off"}
          /\ app \in {"creating", "initializing"} => cron = "absent"
          /\ task \in Task
          /\ sockets \subseteq Sockets
          /\ own \in {"unset", "trying", "on", "lost"}
          /\ connected \subseteq Stores
          /\ gaps \subseteq {"threw", "early"}
          /\ unclosed \subseteq Stores
          /\ kicked \in BOOLEAN

\* The socket client is only made where SOCKET_ENV is enabled.
Init == /\ app = "creating"
        /\ testing \in BOOLEAN
        /\ pc = [c \in Closes |-> "idle"]
        /\ down = {}
        /\ cron = "absent"
        /\ task = Resting
        /\ sockets = {}
        /\ own \in {"unset", "trying"}
        /\ connected = {}
        /\ gaps = {} /\ unclosed = {} /\ kicked = FALSE

-----------------------------------------------------------------------------
(* Start *)

\* NestFactory.create: the clients of Redis and MongoDB set their flag when
\* they are made, the database is initialized.
Create == /\ app = "creating"
          /\ app' = "initializing"
          /\ connected' = Stores
          /\ UNCHANGED <<testing, pc, down, cron, task, links, history>>

\* A client cannot be made, or the database cannot be reached.
FailCreate == /\ app = "creating"
              /\ app' = "failure"
              /\ UNCHANGED <<testing, pc, down, cron, task, links, connected, history>>

\* Mutant: the job is mounted while the modules are still being initialized.
EagerMount == /\ app = "initializing" /\ cron = "absent"
              /\ app' \in {"initializing", "listening"}
              /\ cron' = "on"
              /\ UNCHANGED <<testing, pc, down, task, links, connected, history>>

\* Before it opens the port, listen() runs the bootstrap hooks: the scheduler
\* mounts the cron job.
Mount == /\ app = "initializing"
         /\ app' = "listening"
         /\ cron' = "on"
         /\ UNCHANGED <<testing, pc, down, task, links, connected, history>>

\* A close of the HTTP server before it listens is lost.
Listen == /\ app = "listening"
          /\ app' = "serving"
          /\ down' = down \ {"http"}
          /\ UNCHANGED <<testing, pc, cron, task, links, connected, history>>

\* validateKnownExceptions: one of the application's own exceptions is dropped,
\* any other error ends the process.
FailListen == /\ app \in {"initializing", "listening"}
              /\ app' \in {"mute", "failure"}
              /\ UNCHANGED <<testing, pc, down, cron, task, links, connected, history>>

-----------------------------------------------------------------------------
(* Close *)

Goto(c, p) == pc' = [pc EXCEPT ![c] = p]

\* A signal, an uncaught error or an unhandled rejection.
Signal(c) == /\ app \in Started
             /\ pc[c] = "idle"
             /\ Goto(c, "destroy")
             /\ UNCHANGED <<app, testing, down, cron, task, links, connected, history>>

\* beforeApplicationShutdown closes the stores in this order.
Order == {<<"redis", "mongo">>, <<"redis", "database">>, <<"mongo", "database">>}

Behind(s) == {t \in Stores : <<s, t>> \in Order}
FirstOf(S) == IF S = {} THEN "dispose"
                        ELSE CHOOSE s \in S : \A t \in S \ {s} : <<s, t>> \in Order

\* disconnectAllSockets: the own client takes it as the server's will and does
\* not connect again.
Disconnect == /\ sockets' = {}
              /\ own' = IF own = "on" THEN "lost" ELSE own

\* stopCron throws where the registry does not know the job.
Stoppable == cron # "absent"

\* onModuleDestroy: one try around all the calls, the first that throws skips
\* those after it.
Destroy(c) ==
  /\ Running /\ pc[c] = "destroy"
  /\ \E n \in 0..Len(Teardown) :
       /\ ~Stoppable => n = 0
       /\ cron' = IF n >= 1 THEN "off" ELSE cron
       /\ IF n >= 2 THEN Disconnect ELSE UNCHANGED links
       /\ down' = down \cup {Teardown[i] : i \in 3..n}
       /\ gaps' = gaps \cup (IF n < Len(Teardown) THEN {"threw"} ELSE {})
                       \cup (IF app \in {"initializing", "listening"} THEN {"early"} ELSE {})
  /\ Goto(c, FirstOf(connected))
  /\ UNCHANGED <<app, testing, task, connected, unclosed, kicked>>

\* Mutant: the stores share one try.
CarelessSettle(c) ==
  /\ Running /\ pc[c] \in Stores
  /\ \/ /\ connected' = connected \ {pc[c]}
        /\ Goto(c, FirstOf(Behind(pc[c]) \cap connected'))
        /\ UNCHANGED unclosed
     \/ /\ unclosed' = unclosed \cup {pc[c]}
        /\ Goto(c, "dispose")
        /\ UNCHANGED connected
  /\ UNCHANGED <<app, testing, down, cron, task, links, gaps, kicked>>

\* beforeApplicationShutdown: the disconnect of a store is answered, or fails,
\* which nobody is told of; then the flag of the next store is looked at.
Settle(c) ==
  /\ Running /\ pc[c] \in Stores
  /\ \/ connected' = connected \ {pc[c]} /\ UNCHANGED unclosed
     \/ unclosed' = unclosed \cup {pc[c]} /\ UNCHANGED connected
  /\ Goto(c, FirstOf(Behind(pc[c]) \cap connected'))
  /\ UNCHANGED <<app, testing, down, cron, task, links, gaps, kicked>>

\* Mutant: connections that are still open are not forced to close.
PatientDispose(c) == /\ Running /\ pc[c] = "dispose"
                     /\ sockets = {}
                     /\ Goto(c, "shutdown")
                     /\ down' = down \cup Servers
                     /\ Disconnect
                     /\ UNCHANGED <<app, testing, cron, task, connected, history>>

\* Nest closes both servers itself, whatever the hooks did, with the connections
\* that are still open (forceCloseConnections).
Dispose(c) == /\ Running /\ pc[c] = "dispose"
              /\ Goto(c, "shutdown")
              /\ down' = down \cup Servers
              /\ Disconnect
              /\ UNCHANGED <<app, testing, cron, task, connected, history>>

\* onApplicationShutdown: the scheduler forgets its jobs, the process exits.
Shutdown(c) == /\ Running /\ pc[c] = "shutdown"
               /\ Goto(c, "done")
               /\ cron' = "absent"
               /\ app' = IF testing THEN app ELSE "success"
               /\ UNCHANGED <<testing, down, task, links, connected, history>>

-----------------------------------------------------------------------------
(* Cron *)

\* testConnection: isInitialized is set when the connection is made and reset when
\* it is destroyed, no outage changes it.
Tested == "database" \in connected

\* isConnected() of the socket client, which throws where there is none.
Answering == own # "unset"
OwnConnected == own = "on"

\* Mutant: the socket client is asked first, and nothing after it where there is none.
HastyFire == /\ Running /\ cron = "on" /\ task.at = "idle"
             /\ task' = [at |-> IF Answering /\ ~Tested THEN "sync" ELSE "decide",
                         stores |-> Answering /\ connected = Stores,
                         client |-> OwnConnected]
             /\ UNCHANGED <<app, testing, pc, down, cron, links, connected, history>>

\* The task reads the flags of the stores, then it asks the socket client; where
\* that throws the database is not looked after.
Fire == /\ Running /\ cron = "on" /\ task.at = "idle"
        /\ task' = [at |-> IF Answering /\ ~Tested THEN "sync" ELSE "decide",
                    stores |-> connected = Stores,
                    client |-> OwnConnected]
        /\ UNCHANGED <<app, testing, pc, down, cron, links, connected, history>>

\* synchronize() of a database that is not initialized throws, which is logged;
\* the second test finds what the first one did.
Sync == /\ Running /\ task.at = "sync"
        /\ task' = [task EXCEPT !.at = "decide"]
        /\ UNCHANGED <<app, testing, pc, down, cron, links, connected, history>>

Decide == /\ Running /\ task.at = "decide"
          /\ task' = Resting
          /\ IF task.stores /\ task.client
               THEN UNCHANGED links
               ELSE Disconnect
          /\ kicked' = (kicked \/ ~task.stores)
          /\ UNCHANGED <<app, testing, pc, down, cron, connected, gaps, unclosed>>

-----------------------------------------------------------------------------
(* Sockets and stores *)

Accepting == app = "serving" /\ "server" \notin down /\ "http" \notin down

Connect(s) == /\ Accepting /\ s \notin sockets
              /\ sockets' = sockets \cup {s}
              /\ UNCHANGED <<app, testing, pc, down, cron, task, own, connected, history>>

Leave(s) == /\ Running /\ s \in sockets
            /\ sockets' = sockets \ {s}
            /\ UNCHANGED <<app, testing, pc, down, cron, task, own, connected, history>>

\* The own client connects, loses its connection and tries again, or gives up
\* after three attempts.
Dial == /\ Running /\ app # "creating"
        /\ \/ own = "trying" /\ Accepting /\ own' = "on"
           \/ own = "on" /\ own' = "trying"
           \/ own = "trying" /\ own' = "lost"
        /\ UNCHANGED <<app, testing, pc, down, cron, task, sockets, connected, history>>

-----------------------------------------------------------------------------
Closing(c) == Destroy(c) \/ Settle(c) \/ Dispose(c) \/ Shutdown(c)

\* In tests the process stays when its closes are over.
Ended == /\ Running => testing /\ \A c \in Closes : pc[c] = "done"
         /\ UNCHANGED vars

Next == \/ Create \/ FailCreate \/ Mount \/ Listen \/ FailListen
        \/ \E c \in Closes : Signal(c) \/ Closing(c)
        \/ Fire \/ Sync \/ Decide
        \/ \E s \in Sockets : Connect(s) \/ Leave(s)
        \/ Dial
        \/ Ended

\* Every disconnect settles, the rest is the process's own code.
Fairness == \A c \in Closes : WF_vars(Closing(c))

Spec == Init /\ [][Next]_vars
FairSpec == Spec /\ Fairness

-----------------------------------------------------------------------------
(* Properties *)

\* A store is closed only after the cron job was stopped and both servers were
\* closed, so that nothing new reaches it: also when several closes overlap,
\* unless a call of a teardown threw or a close came before the start was over.
ServersStopFirst ==
  /\ app \in {"serving", "mute"}
  /\ connected # Stores /\ gaps = {}
  => cron # "on" /\ Servers \subseteq down

\* A process that ends well has destroyed its clients unless a call of a teardown
\* threw; in any case it has no socket left, and has closed both servers unless
\* it began to listen while it was closing.
TornDownAtExit ==
  app = "success" => /\ sockets = {}
                     /\ Clients \subseteq down \/ "threw" \in gaps
                     /\ Servers \subseteq down \/ "early" \in gaps

\* A store is left open at the exit only when its own disconnect failed:
\* no failure of another store, and no close that overtakes, skips it.
OpenAtExitHasACause == app = "success" => connected \subseteq unclosed

\* A store's flag never makes the cron task disconnect the sockets while the
\* process serves: it does so for want of the process's own socket client, or
\* because a close has reset the flag between two of its reads.
StoresKickOnlyAtClose ==
  kicked => \E c \in Closes : pc[c] # "idle"

\* A close that has begun ends the process, outside of tests, whatever throws
\* or is unclosed on its way.
CloseEnds == \A c \in Closes : pc[c] = "destroy" ~> ~Running \/ testing
=============================================================================
