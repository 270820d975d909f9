---------------------------- MODULE UserAccounts ----------------------------
(***************************************************************************)
(* The user use cases (create, login, get, update, delete) as they run in  *)
(* one Nest process: every request is an async function that is suspended  *)
(* at each database call, so the calls of different requests interleave.   *)
(* One action is one awaited database call together with the code that     *)
(* runs up to the next one.  There is no transaction around the calls of a *)
(* request, and any of them may be the last one (Abort).                   *)
(*                                                                         *)
(* A row of Users or UserPreferences is kept after a soft delete; TypeORM  *)
(* hides it from find*, but neither from update(id, ...) nor from the      *)
(* UNIQUE constraints.                                                     *)
(***************************************************************************)
EXTENDS Naturals

CONSTANTS Requests,   \* the requests that may arrive, each at most once
          Ids,        \* keys the database can generate
          Emails,
          Themes,
          Seeded,     \* ids of the accounts that exist at the start
          SeedEmail,  \* their e-mails
          SeedTheme,  \* their theme
          NULL        \* undefined, or SQL NULL

ASSUME SeedAssumption ==
  /\ Seeded \subseteq Ids
  /\ SeedEmail \in [Seeded -> Emails]
  /\ SeedTheme \in Themes
  /\ \A u, v \in Seeded : SeedEmail[u] = SeedEmail[v] => u = v

VARIABLES
  users,   \* table Users: id -> row or NULL
  prefs,   \* table UserPreferences: owner's id -> row or NULL
  tokens,  \* the JWTs the service has signed (they outlive their user)
  call,    \* request -> what was asked
  pc,      \* request -> the database call it waits for
  uid,     \* request -> id of the user it works on
  seen,    \* request -> what it read of the user before writing
  answer   \* request -> how it ended

vars == <<users, prefs, tokens, call, pc, uid, seen, answer>>

-----------------------------------------------------------------------------
(* Data *)

Token == [username : Emails, clientId : Ids]
UserRow == [email : Emails, live : BOOLEAN, deletedBy : Ids \cup {NULL}]
PrefRow == [theme : Themes, live : BOOLEAN]

Ops == {"create", "login", "get", "update", "delete"}
Call == [op : Ops, agent : Token \cup {NULL}, id : Ids \cup {NULL},
         email : Emails \cup {NULL}, theme : Themes \cup {NULL}]
Snapshot == [email : Emails \cup {NULL}, joined : Themes \cup {NULL},
             theme : Themes \cup {NULL}]
NoSnapshot == [email |-> NULL, joined |-> NULL, theme |-> NULL]

DbCalls == {"findByEmail", "insertUser", "insertPref", "readUser", "readPref",
            "updateUser", "reloadUser", "updatePref", "reloadPref",
            "deletePref", "deleteUser", "view", "viewUser", "viewPref"}
Answers == {"ok", "invalidToken", "conflict", "notFound", "unauthorized",
            "business", "internal"}

\* undefined and SQL NULL are no value of any of these.
ASSUME NullAssumption ==
  /\ NULL \notin Ids /\ NULL \notin Emails /\ NULL \notin Themes /\ NULL \notin Token
  /\ NULL \notin UserRow /\ NULL \notin PrefRow
  /\ NULL \notin Call /\ NULL \notin Answers

\* The bodies the validation pipes let through, per operation.
CallsOf(op) ==
  CASE op = "create" -> [op : {op}, agent : tokens \cup {NULL}, id : {NULL},
                         email : Emails, theme : Themes]
    [] op = "login"  -> [op : {op}, agent : {NULL}, id : {NULL},
                         email : Emails, theme : {NULL}]
    [] op = "update" -> [op : {op}, agent : tokens \cup {NULL}, id : Ids,
                         email : Emails \cup {NULL}, theme : Themes \cup {NULL}]
    [] OTHER         -> [op : {op}, agent : tokens \cup {NULL}, id : Ids,
                         email : {NULL}, theme : {NULL}]

TypeOK == /\ users \in [Ids -> UserRow \cup {NULL}]
          /\ prefs \in [Ids -> PrefRow \cup {NULL}]
          /\ tokens \subseteq Token
          /\ call \in [Requests -> Call \cup {NULL}]
          /\ pc \in [Requests -> DbCalls \cup {"idle", "done"}]
          /\ uid \in [Requests -> Ids \cup {NULL}]
          /\ seen \in [Requests -> Snapshot]
          /\ answer \in [Requests -> Answers \cup {NULL}]

Init == /\ users = [u \in Ids |-> IF u \in Seeded
                      THEN [email |-> SeedEmail[u], live |-> TRUE, deletedBy |-> NULL]
                      ELSE NULL]
        /\ prefs = [u \in Ids |-> IF u \in Seeded
                      THEN [theme |-> SeedTheme, live |-> TRUE] ELSE NULL]
        /\ tokens = {[username |-> SeedEmail[u], clientId |-> u] : u \in Seeded}
        /\ call = [r \in Requests |-> NULL]
        /\ pc = [r \in Requests |-> "idle"]
        /\ uid = [r \in Requests |-> NULL]
        /\ seen = [r \in Requests |-> NoSnapshot]
        /\ answer = [r \in Requests |-> NULL]

-----------------------------------------------------------------------------
(* The database as the repositories see it *)

UserVisible(u) == users[u] # NULL /\ users[u].live
PrefLive(u) == prefs[u] # NULL /\ prefs[u].live

\* findOne({ where: { user: { id } } }) joins Users, whose soft-deleted rows
\* the join drops.
PrefVisible(u) == UserVisible(u) /\ PrefLive(u)

\* UNIQUE(email) counts every row, the soft-deleted ones too.
EmailTaken(e, u) == \E v \in Ids \ {u} : users[v] # NULL /\ users[v].email = e

-----------------------------------------------------------------------------
(* Control of a request *)

Goto(r, p) == /\ pc' = [pc EXCEPT ![r] = p]
              /\ UNCHANGED <<seen, answer>>

Keep(r, s, p) == /\ pc' = [pc EXCEPT ![r] = p]
                 /\ seen' = [seen EXCEPT ![r] = s]
                 /\ UNCHANGED answer

\* The function returns or throws; its locals are gone.
Answer(r, a) == /\ pc' = [pc EXCEPT ![r] = "done"]
                /\ answer' = [answer EXCEPT ![r] = a]
                /\ seen' = [seen EXCEPT ![r] = NoSnapshot]

At(r, p, ops) == pc[r] = p /\ call[r].op \in ops

FirstCall(op) == CASE op \in {"create", "login"} -> "findByEmail"
                   [] op = "get" -> "view"
                   [] OTHER -> "readUser"

\* Controller: AuthGuard lets a signed token through, whoever it names and
\* whether or not that user still exists; login has no guard.
Receive(r) ==
  /\ pc[r] = "idle"
  /\ \E op \in Ops : \E c \in CallsOf(op) :
       /\ call' = [call EXCEPT ![r] = c]
       /\ uid' = [uid EXCEPT ![r] = c.id]
       /\ IF c.agent = NULL /\ op # "login"
            THEN Answer(r, "invalidToken")
            ELSE Goto(r, FirstCall(op))
  /\ UNCHANGED <<users, prefs, tokens>>

\* The awaited query rejects, or the process dies: nothing of it is applied,
\* what earlier queries of the request wrote stays.
Abort(r) == /\ pc[r] \in DbCalls
            /\ Answer(r, "internal")
            /\ UNCHANGED <<users, prefs, tokens, call, uid>>

-----------------------------------------------------------------------------
(* Create *)

\* getByEmail of create and of login: soft-deleted users are not found.
FindByEmail(r) ==
  /\ At(r, "findByEmail", {"create", "login"})
  /\ \/ /\ \E u \in Ids : /\ UserVisible(u)
                          /\ users[u].email = call[r].email
                          /\ IF call[r].op = "create"
                               THEN Answer(r, "conflict") /\ UNCHANGED uid
                               ELSE /\ Goto(r, "readUser")
                                    /\ uid' = [uid EXCEPT ![r] = u]
     \/ /\ \A u \in Ids : UserVisible(u) => users[u].email # call[r].email
        /\ IF call[r].op = "create" THEN Goto(r, "insertUser")
                                    ELSE Answer(r, "notFound")
        /\ UNCHANGED uid
  /\ UNCHANGED <<users, prefs, tokens, call>>

\* The e-mail may have been taken since, or be held by a soft-deleted row:
\* the INSERT violates UNIQUE(email) and the service answers "internal".
InsertUser(r) ==
  /\ At(r, "insertUser", {"create"})
  /\ \/ /\ EmailTaken(call[r].email, NULL)
        /\ Answer(r, "internal")
        /\ UNCHANGED <<users, uid>>
     \/ /\ ~EmailTaken(call[r].email, NULL)
        /\ \E u \in Ids :
             /\ users[u] = NULL
             /\ users' = [users EXCEPT ![u] =
                            [email |-> call[r].email, live |-> TRUE, deletedBy |-> NULL]]
             /\ uid' = [uid EXCEPT ![r] = u]
        /\ Goto(r, "insertPref")
  /\ UNCHANGED <<prefs, tokens, call>>

\* Mutant: the insert is not awaited, a refused one goes unnoticed.
UnawaitedInsertPref(r) ==
  /\ At(r, "insertPref", {"create"})
  /\ \/ UNCHANGED prefs
     \/ prefs' = [prefs EXCEPT ![uid[r]] = [theme |-> call[r].theme, live |-> TRUE]]
  /\ Goto(r, "view")
  /\ UNCHANGED <<users, tokens, call, uid>>

\* UNIQUE(userId) refuses a second preference row of the same user.
InsertPref(r) ==
  /\ At(r, "insertPref", {"create"})
  /\ IF prefs[uid[r]] # NULL
       THEN Answer(r, "internal") /\ UNCHANGED prefs
       ELSE /\ prefs' = [prefs EXCEPT ![uid[r]] = [theme |-> call[r].theme, live |-> TRUE]]
            /\ Goto(r, "view")
  /\ UNCHANGED <<users, tokens, call, uid>>

-----------------------------------------------------------------------------
(* Login, update and delete read the user, then the preference *)

\* getById; login also compares the password it was given with the row's.
ReadUser(r) ==
  /\ At(r, "readUser", {"login", "update", "delete"})
  /\ IF ~UserVisible(uid[r])
       THEN Answer(r, "internal")
       ELSE \/ Keep(r, [email |-> users[uid[r]].email,
                        joined |-> IF PrefLive(uid[r]) THEN prefs[uid[r]].theme ELSE NULL,
                        theme |-> NULL], "readPref")
            \/ call[r].op = "login" /\ Answer(r, "unauthorized")
  /\ UNCHANGED <<users, prefs, tokens, call, uid>>

\* Mutant: the user name alone decides.
IsAllowedByUsername(agent, u, mail) == agent.username = mail

IsAllowedToManageUser(agent, u, mail) == agent.username = mail /\ agent.clientId = u

Changes(input, old) == input # NULL /\ input # old
MustUpdateUser(c, s) == Changes(c.email, s.email) \/ Changes(c.theme, s.joined)
MustUpdatePreference(c, s) == Changes(c.theme, s.theme)

\* Where an update goes after the permission check, and after the user row.
AfterUser(c, s) == IF MustUpdatePreference(c, s) THEN "updatePref" ELSE "view"

\* Mutant: delete goes for the user row and leaves the preference.
UserFirstWrite(c, s) == CASE c.op = "delete" -> "deleteUser"
                          [] MustUpdateUser(c, s) -> "updateUser"
                          [] OTHER -> AfterUser(c, s)

FirstWrite(c, s) == CASE c.op = "delete" -> "deletePref"
                      [] MustUpdateUser(c, s) -> "updateUser"
                      [] OTHER -> AfterUser(c, s)

\* getByUserId, then, without another await: login signs its token, update
\* and delete check the permission on the user read before.
ReadPref(r) ==
  /\ At(r, "readPref", {"login", "update", "delete"})
  /\ LET s == [seen[r] EXCEPT !.theme = prefs[uid[r]].theme] IN
     IF ~PrefVisible(uid[r])
       THEN Answer(r, "internal") /\ UNCHANGED tokens
       ELSE IF call[r].op = "login"
         THEN /\ tokens' = tokens \cup {[username |-> s.email, clientId |-> uid[r]]}
              /\ Answer(r, "ok")
         ELSE /\ IF IsAllowedToManageUser(call[r].agent, uid[r], s.email)
                   THEN Keep(r, s, FirstWrite(call[r], s))
                   ELSE Answer(r, "business")
              /\ UNCHANGED tokens
  /\ UNCHANGED <<users, prefs, call, uid>>

-----------------------------------------------------------------------------
(* Update *)

\* Mutant: the entity read before is written back whole, deletedAt included.
WholeRowUpdateUser(r) ==
  /\ At(r, "updateUser", {"update"})
  /\ users' = [users EXCEPT ![uid[r]] =
                 [email |-> seen[r].email, live |-> TRUE, deletedBy |-> NULL]]
  /\ Goto(r, "reloadUser")
  /\ UNCHANGED <<prefs, tokens, call, uid>>

\* UPDATE Users ... WHERE id: undefined fields are skipped, a soft-deleted
\* row is written like any other.
UpdateUser(r) ==
  /\ At(r, "updateUser", {"update"})
  /\ LET mail == call[r].email IN
     IF mail # NULL /\ EmailTaken(mail, uid[r])
       THEN Answer(r, "internal") /\ UNCHANGED users
       ELSE /\ users' = IF mail = NULL THEN users
                          ELSE [users EXCEPT ![uid[r]].email = mail]
            /\ Goto(r, "reloadUser")
  /\ UNCHANGED <<prefs, tokens, call, uid>>

\* The repository reads the row back; a row soft-deleted meanwhile is null,
\* a conflict that the service turns into "internal".
ReloadUser(r) ==
  /\ At(r, "reloadUser", {"update"})
  /\ IF UserVisible(uid[r]) THEN Goto(r, AfterUser(call[r], seen[r]))
                            ELSE Answer(r, "internal")
  /\ UNCHANGED <<users, prefs, tokens, call, uid>>

UpdatePref(r) ==
  /\ At(r, "updatePref", {"update"})
  /\ prefs' = [prefs EXCEPT ![uid[r]].theme = call[r].theme]
  /\ Goto(r, "reloadPref")
  /\ UNCHANGED <<users, tokens, call, uid>>

\* findOne by the preference's own id: no join with Users.
ReloadPref(r) ==
  /\ At(r, "reloadPref", {"update"})
  /\ IF PrefLive(uid[r]) THEN Goto(r, "view") ELSE Answer(r, "internal")
  /\ UNCHANGED <<users, prefs, tokens, call, uid>>

-----------------------------------------------------------------------------
(* Delete: preference first, then user, both soft, by UPDATE ... WHERE id *)

\* Mutant: the preference's result is taken for the user's.
HastyDeletePref(r) ==
  /\ At(r, "deletePref", {"delete"})
  /\ prefs' = [prefs EXCEPT ![uid[r]].live = FALSE]
  /\ Answer(r, "ok")
  /\ UNCHANGED <<users, tokens, call, uid>>

DeletePref(r) ==
  /\ At(r, "deletePref", {"delete"})
  /\ prefs' = [prefs EXCEPT ![uid[r]].live = FALSE]
  /\ Goto(r, "deleteUser")
  /\ UNCHANGED <<users, tokens, call, uid>>

\* Mutant: the agent's user name is recorded in the place of its id.
NamedDeleteUser(r) ==
  /\ At(r, "deleteUser", {"delete"})
  /\ users' = [users EXCEPT ![uid[r]].live = FALSE,
                            ![uid[r]].deletedBy = call[r].agent.username]
  /\ Answer(r, "ok")
  /\ UNCHANGED <<prefs, tokens, call, uid>>

\* deleteOne answers true whatever the number of affected rows.
DeleteUser(r) ==
  /\ At(r, "deleteUser", {"delete"})
  /\ users' = [users EXCEPT ![uid[r]].live = FALSE,
                            ![uid[r]].deletedBy = call[r].agent.clientId]
  /\ Answer(r, "ok")
  /\ UNCHANGED <<prefs, tokens, call, uid>>

-----------------------------------------------------------------------------
(* Promise.all([getById, getByUserId]): two queries in either order, the    *)
(* first rejection ends the request.                                        *)

ViewUser(r) ==
  /\ pc[r] \in {"view", "viewUser"}
  /\ IF ~UserVisible(uid[r]) THEN Answer(r, "internal")
       ELSE IF pc[r] = "view" THEN Goto(r, "viewPref") ELSE Answer(r, "ok")
  /\ UNCHANGED <<users, prefs, tokens, call, uid>>

ViewPref(r) ==
  /\ pc[r] \in {"view", "viewPref"}
  /\ IF ~PrefVisible(uid[r]) THEN Answer(r, "internal")
       ELSE IF pc[r] = "view" THEN Goto(r, "viewUser") ELSE Answer(r, "ok")
  /\ UNCHANGED <<users, prefs, tokens, call, uid>>

-----------------------------------------------------------------------------
Step(r) == \/ FindByEmail(r) \/ InsertUser(r) \/ InsertPref(r)
           \/ ReadUser(r) \/ ReadPref(r)
           \/ UpdateUser(r) \/ ReloadUser(r) \/ UpdatePref(r) \/ ReloadPref(r)
           \/ DeletePref(r) \/ DeleteUser(r)
           \/ ViewUser(r) \/ ViewPref(r)

AllAnswered == /\ \A r \in Requests : pc[r] = "done"
               /\ UNCHANGED vars

Next == \/ \E r \in Requests : Receive(r) \/ Step(r) \/ Abort(r)
        \/ AllAnswered

\* Every query settles, by an answer or by an error of the driver.
Fairness == \A r \in Requests : WF_vars(Step(r))

Spec == Init /\ [][Next]_vars
FairSpec == Spec /\ Fairness

\* The same without failing queries, for what the code alone decides.
HealthySpec == Init /\ [][(\E r \in Requests : Receive(r) \/ Step(r)) \/ AllAnswered]_vars

-----------------------------------------------------------------------------
(* Properties *)

\* Two rows of Users never hold the same e-mail, although create checks and
\* inserts in two separate queries and update does not check at all.
OneRowPerEmail ==
  \A u, v \in Ids :
    users[u] # NULL /\ users[v] # NULL /\ users[u].email = users[v].email => u = v

\* A user is never soft-deleted before its preference: whatever deletes and
\* updates interleave, a deleted account leaves no live preference behind.
DeletedLeavesNoPreference ==
  \A u \in Ids : users[u] # NULL /\ ~users[u].live =>
                   prefs[u] # NULL /\ ~prefs[u].live

\* A deleted account was deleted by its owner: a token keeps the e-mail of
\* the login, and that e-mail may belong to somebody else by now.
DeletedByOwner ==
  \A u \in Ids : users[u] # NULL =>
                   users[u].deletedBy = IF users[u].live THEN NULL ELSE u

\* An account whose creation was cut between the two inserts gets no token,
\* so nobody can act in its name.
TokensOfCompleteAccounts ==
  \A t \in tokens : users[t.clientId] # NULL /\ prefs[t.clientId] # NULL

Creates(r, u) == call[r] # NULL /\ call[r].op = "create" /\ uid[r] = u
Deletes(r, u) == call[r] # NULL /\ call[r].op = "delete" /\ uid[r] = u

\* A live user without a live preference is the work of a create or a delete
\* that stands between its two writes or was cut there: no other
\* interleaving tears the pair apart.
TornAccountsHaveACause ==
  \A u \in Ids : UserVisible(u) /\ ~PrefLive(u) =>
    \E r \in Requests :
      IF prefs[u] = NULL
        THEN Creates(r, u) /\ (pc[r] = "insertPref" \/ answer[r] = "internal")
        ELSE Deletes(r, u) /\ (pc[r] = "deleteUser" \/ answer[r] = "internal")

\* What "ok" told the client stays true: the account it created has both its
\* rows, the account it deleted is closed, whatever runs besides.
OkIsDurable ==
  \A r \in Requests : answer[r] = "ok" /\ call[r].op \in {"create", "delete"} =>
    /\ users[uid[r]] # NULL /\ prefs[uid[r]] # NULL
    /\ call[r].op = "delete" => ~users[uid[r]].live /\ ~prefs[uid[r]].live

\* An existing row is only written by a request whose token names its id,
\* although the permission was checked on a copy read some queries earlier.
WritesByOwner ==
  \A u \in Ids :
    (users[u] # NULL /\ users'[u] # users[u]) \/ (prefs[u] # NULL /\ prefs'[u] # prefs[u])
      => \E r \in Requests : /\ pc'[r] # pc[r]
                             /\ call[r].agent # NULL /\ call[r].agent.clientId = u
OnlyOwnerWrites == [][WritesByOwner]_vars

\* The interleaved use cases implement the life of an account.
StatusOf(u) == CASE users[u] = NULL -> "absent"
                 [] users[u] # NULL /\ ~users[u].live -> "closed"
                 [] users[u] # NULL /\ users[u].live /\ prefs[u] = NULL -> "registered"
                 [] users[u] # NULL /\ users[u].live /\ prefs[u] # NULL ->
                      IF prefs[u].live THEN "complete" ELSE "closing"
EmailOf(u) == IF users[u] = NULL THEN NULL ELSE users[u].email

Lifecycle == INSTANCE AccountLifecycle
               WITH status <- [u \in Ids |-> StatusOf(u)],
                    email <- [u \in Ids |-> EmailOf(u)]
ImplementsLifecycle == Lifecycle!Spec

\* When every query of a delete settles, an account whose preference is gone
\* is closed in the end, or the delete was cut and its client told so.
ClosingEnds ==
  \A u \in Ids : StatusOf(u) = "closing" ~>
    \/ StatusOf(u) = "closed"
    \/ \E r \in Requests : Deletes(r, u) /\ answer[r] = "internal"

-----------------------------------------------------------------------------
(* What the documentation says and the code does not do *)

\* docs/swagger.yaml, GET /api/users/{userId}: 404 for a resource not found.
\* Asking for a user that never existed answers "notFound".
MissingUserIsNotFound ==
  \A r \in Requests :
    pc[r] = "done" /\ call[r].op = "get" /\ call[r].agent # NULL =>
      (users[call[r].id] = NULL => answer[r] = "notFound")

\* docs/swagger.yaml, POST /api/users: 409 for a conflict.  A create refused
\* because of its e-mail, with a healthy database, answers "conflict".
TakenEmailIsConflict ==
  \A r \in Requests :
    pc[r] = "done" /\ call[r].op = "create" /\ call[r].agent # NULL =>
      (uid[r] = NULL => answer[r] = "conflict")
=============================================================================
