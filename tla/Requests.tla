------------------------------- MODULE Requests -------------------------------
(***************************************************************************)
(* A request of the HTTP API from its arrival to its answer: the log line, *)
(* the guards of rate and authorization, the validation, the handler and   *)
(* the filter that turns errors into answers.  The handlers are those of   *)
(* the health check, of users but the delete, of files, of the list of the *)
(* subscriptions and of the registration of a hook, as far as each of them *)
(* awaits something outside of the process.                                *)
(***************************************************************************)
EXTENDS Throttling, UserList, Profiles, Files, Masking, Logging

CONSTANT Mixes \* name -> what may come in one behaviour: the inputs of each handler,
                \* the number of requests, of time steps and of changed accounts

VARIABLES
  mix,    \* that of this behaviour
  at,     \* request -> what it waits for, and how it ended
  answer, \* request -> the name of its status
  leaks,  \* history: bodies of which the log has shown a password
  route,  \* request -> its handler
  wanted, \* request -> the object it asks for
  app     \* whether the process serves, or was closed

own == <<at, answer, leaks, route, wanted, logging>>
vars == <<throttling, users, listing, profiles, files, own, mix, app>>

\* The handlers.  What a request gives one of them is the empty set where it is
\* not valid, otherwise the set of its value.
ProfileRoutes == {"create", "login", "get", "update"}
Routes == ProfileRoutes \cup {"check", "list", "upload", "download", "hook", "subscriptions"}

\* The controllers of the handlers.
ControllerOf(h) == CASE h = "check" -> "default"
                     [] h \in ProfileRoutes \cup {"list"} -> "users"
                     [] h \in {"upload", "download"} -> "files"
                     [] h = "hook" -> "hooks"
                     [] h = "subscriptions" -> "subscriptions"

\* The document of a body is a text, where it is there and not falsy, or it is not.
Inputs(bodies, data) ==
  [token : {"valid", "none", "expired", "forged"}, body : bodies, document : {"text", "other"},
   data : Optional(data)]

\* What a handler takes.
DataOf(h) == CASE h \in ProfileRoutes -> ProfileData(h)
               [] h \in {"check", "hook", "subscriptions"} -> {TRUE}
               [] h = "list" -> Queries(Nat, Nat, SUBSET Accounts)
               [] h = "upload" -> Uploads(Stems)
               [] h = "download" -> ObjectKeys

ASSUME RequestsAssumption ==
  /\ Requests \subseteq Nat \ {0}
  /\ Routes \subseteq Keys
  /\ {ControllerOf(h) : h \in Routes} \subseteq Controllers

ASSUME MixesAssumption == \A m \in DOMAIN Mixes :
  /\ \A h \in Routes : Mixes[m].inputs[h] \subseteq Inputs(Bodies[Depth], DataOf(h))
  /\ Mixes[m].people \subseteq Tables
  /\ {Mixes[m].requests, Mixes[m].clock, Mixes[m].changes} \subseteq Nat

Waiting == {"ids", "rows", "count", "account", "disk", "put", "get", "save", "cached", "documents"}
Statuses == Ends \cup {"none", "contract", "invalidToken", "manyRequests"}

TypeOK == /\ ThrottlingOK /\ UserListOK /\ ProfilesOK /\ FilesOK /\ LoggingOK
          /\ mix \in DOMAIN Mixes
          /\ at \in [Requests -> Waiting \cup {"idle", "answered", "hung", "cut"}]
          /\ answer \in [Requests -> Statuses]
          /\ route \in [Requests -> Routes]
          /\ wanted \in [Requests -> ObjectKeys]
          /\ app \in {"serving", "closed"}
          /\ app = "closed" => \A r \in Requests : at[r] \notin Waiting
          /\ \A r \in Requests : answer[r] # "none" <=> at[r] = "answered"
          /\ \A r \in Requests : at[r] = "account" <=> work[r].next \in Pending /\ at[r] # "cut"
          /\ \A r \in Requests : Listed(r) <=> route[r] = "list" /\ answer[r] = "ok"

Init == /\ ThrottlingInit /\ UserListInit /\ FilesInit /\ LoggingInit
        /\ mix \in DOMAIN Mixes
        /\ people \in Mixes[mix].people
        /\ work = [r \in Requests |-> NoWork]
        /\ Mixes[mix].changes = 0 => active = {}
        /\ at = [r \in Requests |-> "idle"]
        /\ answer = [r \in Requests |-> "none"]
        /\ leaks = {}
        /\ route = [r \in Requests |-> "check"]
        /\ wanted = [r \in Requests |-> CHOOSE k \in ObjectKeys : TRUE]
        /\ app = "serving"

-----------------------------------------------------------------------------
(* Arrival *)

Await(r, what) == at' = [at EXCEPT ![r] = what] /\ UNCHANGED answer

Answer(r, status) == /\ at' = [at EXCEPT ![r] = "answered"]
                     /\ answer' = [answer EXCEPT ![r] = status]

\* Every handler but the health check and the login has the AuthGuard.
Guarded(h) == h \notin {"check", "login"}

\* decodeJwt: a token that expired or has a wrong signature has no content.
Content(i) == i.token = "valid"

List(r, q) == /\ BeginList(r, q)
              /\ Await(r, IF Paginated(q) THEN "ids" ELSE "rows")
              /\ UNCHANGED <<profiles, files, wanted>>

\* A body that the pipe of the handler refuses does not reach it.
Profile(r, h, d) == /\ Accepted(h, d.body)
                    /\ BeginProfile(r, h, d)
                    /\ Await(r, "account")
                    /\ UNCHANGED <<users, listing, files, wanted>>

\* The handler trims the name of the header without looking whether there is one.
Upload(r, f) ==
  /\ IF f.header = "absent"
       THEN Answer(r, "internal") /\ UNCHANGED files
       ELSE /\ BeginUpload(r, f)
            /\ IF Storable(f) THEN Await(r, "put") ELSE Answer(r, "created")
  /\ UNCHANGED <<users, listing, profiles>>

\* What the headers ask for.
Want(r, k) == wanted' = [wanted EXCEPT ![r] = k]

Download(r, k) == /\ Want(r, k)
                  /\ Await(r, "get")
                  /\ UNCHANGED <<users, listing, profiles, files>>

Refuse(r, status) == Answer(r, status) /\ UNCHANGED <<users, listing, profiles, files, wanted>>

\* What touches nothing of the other handlers.
Ask(r, what) == Await(r, what) /\ UNCHANGED <<users, listing, profiles, files, wanted>>

\* The handlers of which the body is transformed before it is validated: replace is
\* called on a document that is not falsy, and throws unless it is a text.
Transformed == {"create", "update"}
Throws(h, i) == h \in Transformed /\ i.document = "other"

\* The handler up to the first answer it waits for.  Its contract is checked before
\* it begins, but for the path of a download, whose error it wraps, and for an upload,
\* which waits for its file before anything is checked.
Handle(r, h, i) ==
  \/ i.data = {} /\ h # "upload" /\ Refuse(r, IF h = "download" THEN "internal" ELSE "contract")
  \/ i.data # {} /\ h = "check" /\ Refuse(r, "ok")
  \/ h = "list" /\ \E q \in i.data : List(r, q)
  \/ h \in ProfileRoutes /\ \E d \in i.data : \/ ~Accepted(h, d.body) /\ Refuse(r, "contract")
                                           \/ Profile(r, h, d)
  \/ h = "upload" /\ Ask(r, "disk")
  \/ h = "download" /\ \E k \in i.data : Download(r, k)
  \/ i.data # {} /\ h = "hook" /\ Ask(r, "save")
  \/ i.data # {} /\ h = "subscriptions" /\ Ask(r, "cached")

\* The log line, the guards of rate and authorization, the pipes, the handler.  The
\* filter throws at what a transformation throws, as at every error without a
\* response, and the request is never answered.  Requests are numbered in the order
\* in which they arrive.
Arrive(r) ==
  /\ app = "serving"
  /\ at[r] = "idle" /\ \A o \in Requests : o < r => at[o] # "idle"
  /\ r <= Mixes[mix].requests
  /\ \E h \in Routes : \E i \in Mixes[mix].inputs[h] :
       /\ leaks' = leaks \cup (IF Secret[Logged(i.body)] THEN {i.body} ELSE {})
       /\ route' = [route EXCEPT ![r] = h]
       /\ Hit(h)
       /\ \/ ~Allowed(h) /\ Refuse(r, "manyRequests") /\ UNCHANGED logging
          \/ Allowed(h) /\ Guarded(h) /\ ~Content(i) /\ Refuse(r, "invalidToken") /\ UNCHANGED logging
          \/ /\ Allowed(h) /\ (Guarded(h) => Content(i))
             /\ Enter(r, ControllerOf(h))
             /\ IF Throws(h, i) THEN Ask(r, "hung") ELSE Handle(r, h, i)
  /\ UNCHANGED <<mix, app>>

-----------------------------------------------------------------------------
(* Answers of the databases, the disk, the bucket and Redis *)

rest == <<throttling, leaks, route, wanted, mix, app>>

Ended(r) == at'[r] \notin Waiting
Log(r) == IF Ended(r) THEN Leave(r, ControllerOf(route[r])) ELSE UNCHANGED logging

\* The rows of an empty page are not asked for.
Ids(r) == /\ at[r] = "ids" /\ FetchIds(r)
          /\ Await(r, IF listing'[r].ids = <<>> THEN "count" ELSE "rows")
          /\ UNCHANGED <<profiles, files, rest>>

RowsOf(r) == /\ at[r] = "rows" /\ FetchRows(r)
             /\ Await(r, "count")
             /\ UNCHANGED <<profiles, files, rest>>

Count(r) == /\ at[r] = "count" /\ CountRows(r)
            /\ Answer(r, "ok")
            /\ UNCHANGED <<profiles, files, rest>>

Account(r) == /\ at[r] = "account" /\ ProfileStep(r)
              /\ IF work'[r].next \in Ends THEN Answer(r, work'[r].next) ELSE Await(r, "account")
              /\ UNCHANGED <<users, listing, files, rest>>

\* FileInterceptor has the form, and multer its file on the disk, if there is one.
OnDisk(r) == /\ at[r] = "disk"
             /\ \E i \in Mixes[mix].inputs["upload"] :
                  \/ i.data = {} /\ Refuse(r, "contract")
                  \/ \E f \in i.data : Upload(r, f)
             /\ UNCHANGED rest

Saved(r) == /\ at[r] = "put" /\ Put(r)
            /\ Answer(r, "created")
            /\ UNCHANGED <<users, listing, profiles, rest>>

Read(r) == /\ at[r] = "get"
           /\ IF bucket[wanted[r]] = {}
                THEN Answer(r, "internal") /\ UNCHANGED files
                ELSE Get(r, wanted[r]) /\ Answer(r, "ok")
           /\ UNCHANGED <<users, listing, profiles, rest>>

Registered(r) == /\ at[r] = "save"
                 /\ Answer(r, "created")
                 /\ UNCHANGED <<users, listing, profiles, files, rest>>

\* The subscriptions in the cache are the answer, unless there are none or the stored
\* ones are asked for.
Cached(r) == /\ at[r] = "cached"
             /\ Answer(r, "ok") \/ Await(r, "documents")
             /\ UNCHANGED <<users, listing, profiles, files, rest>>

Documents(r) == /\ at[r] = "documents"
                /\ Answer(r, "ok")
                /\ UNCHANGED <<users, listing, profiles, files, rest>>

\* Mutant: the errors of the repository are not wrapped.
HastyWrapped == {"put", "get"}

\* Where the errors of PostgreSQL and of S3 are wrapped as exceptions, which the filter
\* answers.
Wrapped == {"ids", "rows", "count", "account", "put", "get"}

\* The errors of the disk, of Redis and of MongoDB are not: there, too, the filter
\* throws, and the request is never answered.
Fail(r) == /\ at[r] \in Waiting
           /\ IF at[r] = "put" THEN FailPut(r) ELSE UNCHANGED files
           /\ IF at[r] = "account" THEN FailProfile(r) ELSE UNCHANGED profiles
           /\ IF at[r] \in Wrapped THEN Answer(r, "internal") ELSE Await(r, "hung")
           /\ UNCHANGED <<users, listing, rest>>

\* What the filter throws is an unhandled rejection, which closes the process with
\* the connections that are open.
Close == /\ app = "serving"
         /\ \E r \in Requests : at[r] = "hung"
         /\ app' = "closed"
         /\ at' = [r \in Requests |-> IF at[r] \in Waiting THEN "cut" ELSE at[r]]
         /\ UNCHANGED <<throttling, users, listing, profiles, files, answer, leaks, route, wanted,
                        logging, mix>>

-----------------------------------------------------------------------------
\* Time passes, and other requests change the accounts.
Elapse == now < Mixes[mix].clock /\ Tick /\ UNCHANGED <<users, listing, profiles, files, own, mix, app>>

Outside == /\ changes < Mixes[mix].changes
           /\ AddAccount \/ SoftDelete
           /\ UNCHANGED <<throttling, profiles, files, own, mix, app>>

Over == /\ \/ app = "closed"
           \/ \A r \in 1..Mixes[mix].requests : at[r] = "answered"
        /\ UNCHANGED vars

Next == \/ \E r \in Requests :
             \/ Arrive(r)
             \/ /\ \/ Ids(r) \/ RowsOf(r) \/ Count(r) \/ Account(r)
                   \/ OnDisk(r) \/ Saved(r) \/ Read(r)
                   \/ Registered(r) \/ Cached(r) \/ Documents(r) \/ Fail(r)
                /\ Log(r)
        \/ Close \/ Elapse \/ Outside \/ Over

Spec == Init /\ [][Next]_vars

-----------------------------------------------------------------------------
(* Properties *)

\* A password is only seen in the log where checkFieldsExistence overlooks it: the
\* body itself has none, nor has the last object below it, nor the last below that.
SecretsLoggedHaveACause == \A body \in leaks : Screened[body]

\* The handlers an error of which no one may have wrapped.
Unwrapped == Transformed \cup {"upload", "hook", "subscriptions"}

\* A request stays without an answer only where its error reached the filter unwrapped,
\* before it had touched an account or stored a file: its document is no text, the
\* disk did not take its file, Redis or MongoDB failed; or because the process closed
\* at the error of another one of this kind.
UnansweredHasACause ==
  /\ \A r \in Requests : at[r] = "hung" =>
       /\ route[r] \in Unwrapped
       /\ work[r] = NoWork
       /\ \A k \in ObjectKeys : \A o \in bucket[k] : o.from # r
  /\ (\E r \in Requests : at[r] = "cut") => \E o \in Requests : at[o] = "hung"

\* An answer is logged with the id of another request only where that one came later
\* and entered the same controller: never with that of one that was there before.
LinesNameTheirRequest ==
  \A l \in misnamed :
    /\ l[1] < l[2]
    /\ ControllerOf(route[l[1]]) = ControllerOf(route[l[2]])
    /\ answer[l[2]] \notin {"manyRequests", "invalidToken"}
=============================================================================
