# Verification of the Node DDD boilerplate

TLA+ models of the program under `src/src/modules`, TLC runs that check them on
small instances, and proofs checked by TLAPS. Paths below are relative to
`src/src/modules` unless they start with `src/`.

## 1. The system

A NestJS process serves REST, GraphQL and WebSocket clients, keeps users in
PostgreSQL (TypeORM), subscriptions in MongoDB with copies in Redis, webhooks in
Redis, and exchanges events through an SQS queue that it both fills and drains.
Several instances may run against the same stores; `docker-compose.yml` gives the
service no restart policy.

JavaScript runs one function at a time, but every `await` lets another request
run. There is no transaction, lock or retry around the queries of a use case: the
hard part of this code is what happens *between* two awaited calls.

| component | state | operations | talks to |
|---|---|---|---|
| User accounts (`app/user`) | tables `Users`, `UserPreferences` (soft-deleted rows stay); the JWTs it has signed | create, login, get, update, delete | PostgreSQL; tokens come back through `AuthGuard` |
| User list (`app/user/usecases/ListUsers`, `user.query.ts`) | none: two or three queries | list with limit, page, order, filters | PostgreSQL |
| Subscriptions (`app/subscription`, `graphql/connections`, `events/websocket/server`) | collection `subscriptions`, keys `subscriptions:*` with a time to live, the open sockets and the room `new_connections` | connect, reconnect, disconnect; save, get, list, delete | MongoDB, Redis, socket.io, the event producer |
| Events queue (`events/queue`) | the SQS queue, one batch and one error count per instance, collection `unprocessedMessages` | dispatch; receive, execute, store, delete; count errors | SQS, MongoDB, the socket client, webhooks |
| Socket client and guard (`events/websocket`) | the connection of an instance to its own server, packets kept or under way | send, reconnect, give up; guard, emit, broadcast | the socket server of the same instance |
| Webhooks (`app/hook`) | keys `hooks:<schema>:<id>` with a time to live | register; pull (list, call, delete) | Redis, HTTP endpoints |
| Lifecycle (`core/start`, `core/configs/nestListen`) | which servers, clients and stores are open | start; close on signals, uncaught exceptions and unhandled rejections | all of them |
| Cron (`core/cron`) | its job in the scheduler's registry | every 5 minutes: test the stores, disconnect all sockets when one is away | all stores, the socket server and client |
| Throttler (`api/guards`) | three counters per client and handler (library) | admit or refuse a request | - |
| Files and reports (`app/file`, `app/reports`) | the bucket | upload, download | S3 |
| HTTP pipeline (`api`, `core/errors`) | the response interceptor of each controller | log, guard, validate, answer, turn errors into answers | all handlers |
| Cryptography, validation, logging, configuration | one logger per user of it | hash, sign, parse, write a line | - |

How they interact: a socket that connects is saved as a subscription and then
announced by an event; the event comes back through the queue, perhaps in another
instance, passes through that instance's own socket client and is emitted to the
room. Every other event is broadcast and pulls the webhooks of its schema. A
subscription is written by the socket handlers, by GraphQL and, as a cache refill,
by every read. An error that nothing catches, in any of them, closes the process;
so does an answer that the exception filter cannot give.

What is hard, and what makes each part correct:

* **User accounts**: one account is two rows written by separate queries, and an
  update or delete acts on a copy it read some queries earlier. Correct means: no
  two rows with one e-mail, no live preference of a deleted user, rows written
  only by the account's own token, an acknowledged create or delete never undone;
  and, of each field, that it changes only where a request gave it and is what the
  answers said.
* **User list**: the ids of a page, its rows and the total are separate queries, and
  the page of number zero is the whole list. Correct means: pages partition the list.
* **Subscriptions**: three places (document, cached copy, room) are written
  without any order between the tasks of a socket. Correct means: they agree
  wherever the tasks of a socket did not overlap or fail, every disagreement has
  one of the named causes, and a closed socket is forgotten.
* **Events queue**: delivery is at least once, a batch of ten is handled under one
  visibility timeout, an error in the middle gives up the rest. Correct means:
  nothing leaves the queue unhandled, each extra delivery is paid for by a fault,
  and a message that cannot be processed does not block the others.
* **Notifications**: the client of an instance reconnects three times and then never
  again, sends what it kept once it is connected, and reaches the sockets of its own
  instance only. Correct means: order is kept, nothing is heard twice, and what is not
  heard has a cause.
* **Webhooks**: calls and deletes are started together and awaited apart, and two
  instances may pull at once. Correct means: no hook is deleted uncalled, none is
  called twice without an overlap or a failure, and none that is due is passed over.
* **Lifecycle and cron**: every signal and every uncaught error starts a close, also
  during another one; one `try` surrounds eight calls. Correct means: the servers stop
  before the stores, nothing is left open without a failure of its own, a close ends.
* **Throttler, files, pipeline, logging**: sliding windows that count refused calls
  too; a content type that decides how bytes are read; a masking that looks into nested
  bodies; errors that nobody wraps, of a transformation, the disk, Redis or MongoDB, at which
  the filter throws as well; one interceptor for all requests of a controller.

The hazards, each at its line and with the properties that watch it, are listed
in `PROJECT.json`.

## 2. Modules

| module | models | composes or refines |
|---|---|---|
| `AccountLifecycle` | what an account promises: absent, registered, complete, closing, closed; e-mails unique | - |
| `UserAccounts` | the user use cases, one action per query | implements `AccountLifecycle` (`ImplementsLifecycle`) |
| `Subscriptions` | SubscriptionService and its callers, one action per query | - |
| `MessageDelivery` | what the queue promises: sent or lost, handled, and only then gone for good | - |
| `EventsQueue` | producer, SQS, consumers, handler | implements `MessageDelivery` (`ImplementsDelivery`); stands for a webhook pull by one step that settles |
| `Notifications` | socket clients, servers and rooms of several instances | begins where `EventsQueue` hands over an event |
| `Webhooks` | registration and pullHook, one action per query or answer | what `Hook` of `EventsQueue` abstracts |
| `Lifecycle` | start, closes and cron task of one process | what `Crash` and `Stop` of the others abstract |
| `Calls` | what the modules on HTTP requests share | - |
| `Throttling` | the windows of the throttlers | part of `Requests` |
| `UserList` | queries, rows and totals of a list | part of `Requests` |
| `Profiles` | every field of an account, from body to columns and back | part of `Requests` |
| `Files` | keys, encodings, the bucket | part of `Requests` |
| `Masking` | what the log shows of a body | part of `Requests` |
| `Logging` | the logger that all requests of a controller share | part of `Requests` |
| `Requests` | a request from its arrival to its answer | composes the six above |
| `UserAccountsProofs`, `SubscriptionsProofs`, `EventsQueueProofs`, `NotificationsProofs`, `WebhooksProofs`, `LifecycleProofs`, `RequestsProofs` | theorems | each extends the module it is named after |
| `ProfilesProofs` | lemmas on the accounts | extends `Profiles`; used by `RequestsProofs` |
| `MC...` | constants, inputs and symmetry for TLC | each extends the module it is named after |

Operators called *Mutant* in a comment are plausible mistakes: each is put in the
place of the definition that follows it, and the property named with it in
`PROJECT.json` is then violated. They are in no specification.

### UserAccounts

`users` and `prefs` map ids to rows (`NULL`: no row; `live`: `deletedAt` not set),
`tokens` is the set of signed JWTs (they outlive their user). A request has a
`call` (its validated input and its agent), a `pc` (the query it waits for), the
id it works on, what it has `seen` of the user, and its `answer`. One action is
one awaited query with the code that runs up to the next one; `Abort` is the query
that rejects, or a process that dies: earlier writes stay. `ViewUser`/`ViewPref`
are the two branches of `Promise.all`. The visibility rules are those of TypeORM
on soft-deleted rows: hidden from `find*` and from joins, seen by
`update(id, ...)` and by the UNIQUE constraints. Of the fields only e-mail, theme,
`deletedAt` and `deletedBy` are kept; whether a password matches is a free choice.
The other fields are in `Profiles`.

### Subscriptions

`docs` is the collection (a call inserts one document at most, so that the number
of the call stands for the `_id`; `GONE` is a deleted one), `cache` the Redis keys
with whether they expire, `conn` and `room` the sockets, and each call of the
service is a task with `job`, `pc` and `mem`. `SET` and `EXPIRE` are two steps;
`KEYS` and every `GET` of a list are steps too. `raced` is a history variable: the
tasks that ran at the same time as another one of their socket. `Abort` is a query
that rejects, `Crash` the process that dies, for whose sockets no handler runs.

### EventsQueue

`queue` says where a message is (a consumer's name: received and hidden from the
others), `batch`, `pc` and `errorsCount` belong to each instance. SQS is external:
a message that was received and not deleted comes back (`Reappear`), as a fault
while its consumer still works on it, freely once the consumer gave up; a DEL with
the receipt of an earlier reception succeeds and may keep the message. `Fail` is a
rejected query with what the sqs-consumer library makes of it: an error event
(`onError` counts it), or a processing error whose handler tries to store the
whole batch as one document and rejects, which closes the program. `received`,
`emitted`, `pulled` and `stored` are histories. As a `MessageDelivery` a message is
`pending` as long as it is queued or received, and handled once the histories say so.

### Notifications

`home` is the instance a socket connects to. The own client of an instance is
connected (`up`), trying (`left` attempts), or has given up; what it sends is on the
`wire` or waits in the `outbox`, and a lost connection loses the wire. `Handle` is the
event as `SubscriptionService` passes it on, `Note` what a client may send by itself,
`Receive` the handlers of the server behind their guard. `Kick` is the cron task of an
instance whose client is away. `meant` is a history: the sockets an event was for when
it was handled and that have stayed since; `order` and `broken` are histories too.

### Webhooks

`key` is the Redis key of each hook, `saving` its registration, and each pull has a
`pc`, what KEYS and the GETs returned (`unread`, `read`, `empty`, `lost`), whether an
endpoint failed before its time (`broken`), and the DELs and HTTP requests that
are in flight. `Loop` is the synchronous loop of `pullHook`: it starts every call
and every DEL at once, and throws at an entry that a rejected GET left without a key.
A schema is only known as equal to the event's or longer than it (list matches by
prefix, and the DEL of such a hook goes to a key that is nobody's). `FailRequest`
while nobody awaits the requests yet is an unhandled rejection; the program then
closes, which is a `Crash`. `called`, `expired`, `met` and `ready` are histories;
`ready` are the hooks that were due when a pull listed them and that nobody has called
since, nor their day ended.

### Lifecycle

`app` is how far the start has come or how the process ended, `pc` where each call of
`nestApp.close()` is: the hooks of `LifecycleService` run once for each call. `Destroy`
is `onModuleDestroy`, whose first call that throws skips the rest; `Settle` is one
store of `beforeApplicationShutdown`, whose flag is looked at only then; `Dispose` is
what Nest closes itself, `Shutdown` the exit. `Fire`, `Sync` and `Decide` are the cron
task: it reads the flags, waits, and acts on what it has read. `own` is the process's
own socket client. `gaps`, `unclosed` and `kicked` are histories.

### Requests and its parts

`Arrive` is everything that happens before the first answer is awaited: the log line
(`Masking`), the throttlers (`Throttling`), the token, the transformation of the body
(`Throws`: the `replace` of a document that is no text, before anything validates it), the
contract, the handler's beginning and, of what is answered at once, the answer. Then one
action per answer of the database, the disk, the bucket or Redis; `Fail` is the one that
rejects. Where nobody wraps the error (`Wrapped`), the filter throws as well: the request
is `hung`, and `Close` is the end of the process at the unhandled rejection, with the
requests that still wait. Closes by a signal are in `Lifecycle`, the delete of a user in
`UserAccounts`. A request waits for `at`, and ended with `answer`; `Log` is the line that
the interceptor writes then. An upload waits for its file on the disk (`OnDisk`) between
the interceptor and the handler, so that even one that is answered at once may be logged
with the id of a later request.

* `Throttling`: `hits`, per handler and throttler, are the numbers of the calls that
  still count. The guard stops at the first throttler that refuses; those before it have counted the call.
* `UserList`: accounts are numbered in the order of their creation; a paginated query
  fetches ids, then rows, then a count, and `AddAccount` and `SoftDelete` come between
  them. An order by a column that is null everywhere is any order.
* `Profiles`: a field is the empty set or the set of its value in a body, a value or
  `Null` in an entity. `Accepted` and `Parsed` are the schemas, `Entity` and
  `Attributes` constructor and `getAttributes` (which drops what is null), `Merged`
  TypeORM's update, `MustUpdate` the comparison that may skip one. `Hash` gives two
  passwords one hash, as `Cryptography.hashing` may.
* `Files`: `KeyOf` drops what stands between the first and the last point of a name,
  and reads it as ASCII; `Encoding` decides by type, then by the key.
* `Masking`: `Found` is `checkFieldsExistence` (the answer of the last object below
  counts), `Replaced` is `replaceFields`, `Logged` is `maskSensitiveData`; all are recursive
  functions on objects of at most `Depth` levels with at most `Width` objects below each.
  `Secret` and `Screened` are the reference.
* `Logging`: `stamp` is the request id a controller's interceptor holds.

## 3. Runs

| run | instance | shows |
|---|---|---|
| `users` | 3 requests, 3 ids (1 seeded), 2 e-mails, 1 theme | the safety and action properties of `UserAccounts`, and the refinement of `AccountLifecycle` |
| `users_live` | 2 requests, 2 themes | `ClosingEnds` |
| `users_conflict`, `users_missing` | 2 requests, no failures | violations: the documented 409 and 404 are answered as internal errors |
| `subs` | 3 calls, 2 sockets | all safety properties of `Subscriptions`, with failures and crashes |
| `subs_live` | 3 calls, 1 socket, no failures | `ClosedSocketsForgotten` |
| `subs_list` | 3 calls, 2 sockets, no failures | violation: a list leaves out stored subscriptions |
| `queue` | 2 messages, 2 instances, batches of 2, 2 errors, 2 faults | the safety of `EventsQueue`, the refinement of `MessageDelivery`, and `EveryMessageLeaves` |
| `hooks` | 2 hooks, 2 pulls | all properties of `Webhooks`, with failures and crashes |
| `lifecycle` | 2 closes, 1 socket beside the process's own | the safety of `Lifecycle`, and `CloseEnds` |
| `events` | 2 instances, 2 sockets, 2 events, 1 message of a client, 1 break | order and causes of what sockets hear and do not |
| `requests` | up to 4 requests of the kinds below | the properties of `Requests` and its parts |

**Bounds.** Requests, calls, pulls, hooks, events and closes happen once each, so that
the numbers above bound a run. Three requests are what the worst user scenario takes
(a rename between the login and the delete of another request); three calls let a
save, a delete and a read of one socket overlap in any order; two instances and two
messages let one message be handled twice at the same time while another waits
behind it in a batch; two closes are what it takes for one to overtake the other
between any two of its steps, and a third does nothing new to either. `MaxErrors` is 20
in the code and 2 in the runs, the least for which counting, resetting and stopping
differ; `Attempts` is 3 and 1, after which a client has given up for good. `MaxFaults`
bounds what may go wrong in `EventsQueue` (rejections, late handling, crashes);
histories count no further than `MaxFaults + 2`, beyond what `AtLeastOnce` allows.
`MaxBreaks` bounds lost connections and crashes in `Notifications`, `MaxTime` the clock
of `Throttling`, `MaxChanges` the accounts that come and go beside a list. The proofs
have none of these bounds.

`Mixes` (in `MCRequests`) says what may come in one behaviour of `Requests`, each mix
with the inputs that can disturb one another: `rate` is four calls within three units of
time under two throttlers; `pages` two lists with equal limits and any page while an
account is added or deleted; `list` one list of every combination of parameters, zero
and absent ones too; `file` two uploads or downloads of every name, content and type,
`twins` three of files that share a key; `errors` two requests of any handler with any
token, valid or not, the list of the subscriptions and, of create and update, any
document of a refused body among them; `body` every body of three levels, with up to two objects below each; `meeting` two of create, login,
get and update of accounts that have a preference, have none or are not there; `account`
one of them with every body of the fields that matter. A mix is small because what
it leaves out cannot touch what it keeps: lists, files, hooks and subscriptions share no
state with accounts.

Symmetry is used in `users`, `users_conflict`, `users_missing`, `subs`, `events` and
`hooks`, for interchangeable requests, ids, sockets, instances, events, hooks and pulls;
in `users` also for `[][A]_vars` properties and the refinement, none of which names
an element of a symmetric set. Runs that check liveness do not use it.

**Fairness.** A query that was sent settles: with an answer, with an error of its
driver, or, for HTTP, by the timeout and the bounded retries of
`AbstractRestClient`; so each `Step` of a user request, of a subscription call and of a
consumer is weakly fair, and so is each step of a close (`Closing`). Redis drops a key
some time after its time is up (`Expire` in `subs_live`), and SQS shows an abandoned
message again (`Reappear` without a fault in `queue`). Nobody has to send a request,
connect a socket, register a hook, start a pull, close or restart an instance.
`Webhooks`, `Notifications` and `Requests` state no fairness: what must not be passed
over there is stated as an invariant of the moment when it would have been
(`DueHooksAreCalled`, `UnheardHasACause`, `UnansweredHasACause`).

**Exceptions stated in the properties** are what the code really does, and each
is a hazard with its line: overlapping saves of one socket leave two documents;
a delete that overlaps a read leaves a ghost in the cache; a socket that
disconnects while its connect is being saved is never forgotten; an account whose
creation was cut can never be used; hooks of a longer schema are called at every
event; an event is heard at the instance that handled it only; the cron task
disconnects all sockets of a process that has no connected client of its own; one call
of the teardown that throws leaves what comes after it; page 0 is the whole list, not
the first page; a password below an object that is not the last of its siblings
is logged; a request is never answered, and ends the process with every other open
request, when the document of a create or update is no text, when multer cannot keep the
file of an upload, when the registration of a hook meets a failing Redis, or the list of
the subscriptions a failing Redis or MongoDB; a binary file sent as text is not
what comes back; a line may carry the id of a later request of the same controller.

## 4. Disagreements with the documentation

* `src/docs/swagger.yaml` promises 409 for a create that conflicts; an e-mail held
  by a soft-deleted user, or taken since the check, is answered with 500
  (`users_conflict`).
* It promises 404 for a user that does not exist; `UserService.getById` turns its
  own not-found into an internal error (`users_missing`).
* It describes `GET /api/subscriptions` as the list of the subscriptions; the
  service returns what is cached as soon as one key is there (`subs_list`).

## 5. Theorems

Each is proved for every value of the constants, from one inductive invariant of its
module: `Inv` (`Invariance`), in `RequestsProofs` `IInv` (`Inductive`). What the runs check is seldom inductive; `Inv` adds what
has been established by where a request, call, pull or close is suspended, and what
no other one can undo. Each step is a lemma of its own.

`UserAccountsProofs`, from `SeedAssumption` (the seeded accounts have distinct
e-mails) and `NullAssumption` (undefined is no value of anything):

* `TypeCorrect`, `NoOrphanedPreference`, `TornExplained`, `OkDurable`: the invariants
  of `users`; `EmailsUnique`, `OwnersDelete` and `NoTokenForTornAccounts`, which no run
  states: the refinement and the other properties cover them;
* `OwnersWrite`: the action property `OnlyOwnerWrites`;
* `Refinement`: `UserAccounts` implements `AccountLifecycle`.

That a delete sets `deletedBy` to the owner rests on what the request established
queries earlier. So `Inv` says that an id is known and its row exists (`Identified`),
the permission check was passed with a token of that id (`Allowed`), the preference is
gone before the user is deleted (`PreferenceGone`), a create reads back an account with
both rows (`Created`). Rows are never removed and rows of other users are not touched
(`RowsPersist`, `OthersStay`), which keeps these facts from step to step.

`SubscriptionsProofs`, from `NullAssumption`:

* `TypeCorrect`, `DuplicatesExplained`, `RoomExplained`, `KeysTimed`,
  `GhostsExplained`, `OrderlyAgree`: all invariants of `subs`.

Of two tasks of one socket that run at the same time both are in `raced` (`Overlap`); so
what a task that is not in it has read still holds when it acts on it. From there:
a save inserts beside another document only if it was overlapped by the save of that
one (`Inserts`); a key has a document, or a delete is about to remove it, or a delete
was cut or overlapped (`Backed`); where no task was overlapped or cut, the key
agrees with the document or a task is on its way to mend it (`Fresh`).

`EventsQueueProofs`, from `SizesAssumption`:

* `TypeCorrect`: among the types, that a consumer is idle exactly when its batch is
  empty and that the error count stays below the limit;
* `NothingIsDropped` (`DeletedWasHandled`, which no run states, since the refinement has
  it): `Progress` says what a consumer has done for its current message by where it
  waits, and histories only grow;
* `RedeliveriesArePaid` (`AtLeastOnce`): the invariant `Paid` says that a message that
  can be received again (queued, or abandoned by its consumer) was received no more
  often than there were faults; every step that makes a message receivable again
  after a reception is a fault or follows one;
* `Refinement`: `EventsQueue` implements `MessageDelivery`. What a consumer holds was
  sent (`Sent`), so that handling it is a step of the promise even where another
  instance has removed it meanwhile.

`NotificationsProofs`, from `NotificationsAssumption` (events are no notes, and
"nowhere" is no instance):

* `TypeCorrect`, `InOrder` (`HeardInOrder`), `UnheardExplained` (`UnheardHasACause`).

What an instance keeps, or has on the wire, waits in the order in which it was handled
(`Ordered`), after everything that its sockets have heard (`Later`), and each packet
still reaches every socket that its event is for (`Reaches`). An event is for nobody
before an instance handles it, and only one does (`Handled`). So hearing of the next
packet extends an order, and the packet that leaves the wire is heard.

`WebhooksProofs`, without assumptions:

* `TypeCorrect`, `NoneForgotten` (`DeletedWasCalled`), `TwiceExplained`
  (`CalledTwiceHasACause`), `DueCalled` (`DueHooksAreCalled`).

A key that is gone does not come back, and only a DEL that goes with a call, or its
time to live, removes it (`Kept`); a pull that ended well has had all its DELs answered
(`Answers`); so what it has called, a pull that did not overlap it never lists
(`Exclusive`). A hook that is ready was read before the loop, and called in it (`Ready`).

`LifecycleProofs`, without assumptions, for any number of closes:

* `TypeCorrect`, `ServersFirst`, `TornDown`, `OpenExplained`, `KicksExplained`: the
  safety properties of `lifecycle`.

The invariant says of each close, by where it is, which servers and clients were torn
down (`Destroyed`, `Disposed`) and which stores were visited (`Settled`), by itself or
by one before it. A close that is overtaken skips a store only when its flag is down
already (`NextStore`).

`RequestsProofs` proves what the run `requests` checks, for any requests, inputs,
accounts and bounds:

* `TypeCorrect` (`TypeOK`), `RateKept` (`RateRespected`), `PagesPartitioned`
  (`PagesPartition`), `FilesWhole` (`FilesComeBackWhole`), `UnansweredExplained`
  (`UnansweredHasACause`), `AnswersKept` (`AnswersHold`), `LinesNamed`
  (`LinesNameTheirRequest`), `SecretsExplained` (`SecretsLoggedHaveACause`), and the action
  property `ChangesGiven` (`OnlyGivenFieldsChange`);
* `PagesAsAsked` (`PagesExact`), which no run states: a page of a sorted list that saw the
  accounts as they are holds exactly those that stand in its places. It says more than
  `PagesPartition`: no account falls between two pages;
* `LogShows`: what `maskSensitiveData` logs of a body has a password exactly where the body
  has one, and `checkFieldsExistence` overlooks it.

It assumes of the constants what the code gives: throttlers have limits and times
(`ThrottlersAssumption`, from `RequestRateConstants`), accounts are finitely many and numbered
in the order of their creation (`AccountsAssumption`), digits and hashes of texts are texts,
and null is none (`TextsAssumption`), a name that contains a binary extension still does
when it was read as ASCII (`HintsAssumption`: those extensions are ASCII), there are names and extensions of
files (`NamesAssumption`), depth and width of a body are numbers (`BodiesAssumption`), handlers have a throttled key and a controller (`RequestsAssumption`),
and what comes in has the shape of a request of its handler, valid or not
(`MixesAssumption`).

`IInv` has a part for each component, and one that joins them, `Course`: where a request
is suspended, which handler it is in and which part works for it. From there the other
parts know which step may have changed their variables.

* `Counted`: the hits of a window are in time, and what was let in is among them as long as
  it is. A window that has room then has fewer calls than its limit.
* `Gathered`, `Seen`: what a list has read was there between its beginning and its last
  query. A list beside which nothing changed has read the sorted accounts (`PageFits`);
  two of them agree on where an account stands (`Ranked`: as many as come up to it), and
  the places of two pages do not meet (`Apart`). `Ceiling` is the arithmetic of the total.
* `Came`, `Sent`: an object has the key and encoding of the request that sent it
  (`Encoded`), which waits for the bucket or has ended (`Upon`).
* `Fits`, `Bare`: where a request waits is a place of its handler, and one that waits for the
  disk, Redis or MongoDB, or was hung, has begun nothing on an account. So what `Fail`
  leaves without an answer is one of `Unwrapped`, and nothing is half done with it.
* `Entered`: a request holds its controller's logger from its entry on; requests
  enter in the order of their numbers, so the id of another one is a later one.
* `Places`, `Alone`: an account is there where a request waits for it, and no two requests
  insert one preference. `Promise` says of each request under way what it has given, and
  that the column has it unless another request gave it a value (`Contested`); `Shows`
  that what was read for an answer was there.
* `Unmasked`, for the log, is inductive beside `IInv`. It rests on `LogShows`, for which
  the recursive functions of `Masking` are shown to exist (`BodiesExist`, `Recursion`), and
  what they compute is proved level by level. The induction theorems of the library take
  an operator, which the provers cannot instantiate; `Climb` is the induction they can
  use: a set that holds 0, and with a number the next, holds all numbers. It follows from
  the well-foundedness of the numbers (`WFMin`).

Only model-checked: all liveness (`ClosingEnds`, `ClosedSocketsForgotten`,
`EveryMessageLeaves`, `CloseEnds`): weak fairness is stated with `ENABLED`, which the
installed provers do not reason about. And the three violations, which are single
behaviours.

## 6. Not modelled

* Cognito and SNS, and the operations of the SQS, S3 and socket clients that no use case
  calls: wrappers of one SDK call each, without state.
* Ciphers, signatures and date helpers (`Cryptography`, `dates`): pure conversions no
  property tells apart. `createdAt` of an answer, time zones and the salt of a hash are
  left out with them.
* Wording and fields of errors, the parser of external errors, log levels and
  transports, swagger, environment, telemetry: output and constants.
* What the body parser of express refuses, before `RequestMiddleware`: the filter throws
  there too, but within express, which answers.
* Lists: limits and pages that are negative or no integers, and the order by `updatedAt`.
* Profiles: deletion, which is in `UserAccounts`, and permissions, likewise.
* Rooms and sockets of several instances in `Subscriptions`: it has one process, whose
  crash closes all sockets; several are in `Notifications`, without the stores.
* A redelivered event in `Notifications`: it is a new event there; how often one is
  delivered is `AtLeastOnce` of `EventsQueue`.
* Scripts, development mocks and migrations, which are not part of the running program;
  the migration's constraints and the seed's rows are in `UserAccounts`.
* External code is modelled from how `src/` uses it: SQS and sqs-consumer
  (`Receive`, `Reappear`, part of `Fail`), socket.io rooms and reconnection, Redis
  expiry, the throttler's storage, Nest's own closing of its servers (`Dispose`).

## 7. Plan

What could be added, in order of importance:

1. The retries of `AbstractRestClient` inside `Webhooks`: an endpoint may get one request
   more than once.
2. `EventsQueue` composed with `Webhooks` and `Notifications`, a redelivered event pulling
   and emitting again. Between them stands one step of each side: `Execute` and `Hook`
   of `EventsQueue`, `Handle` of `Notifications`, `Start` of `Webhooks`.
3. An abstract specification of a subscription (known or forgotten) with its refinement;
   the exceptions above leave it few promises.
