------------------------- MODULE UserAccountsProofs -------------------------
(***************************************************************************)
(* Theorems about UserAccounts, for any set of requests, ids, e-mails and  *)
(* themes.  The inductive invariant says, of each place where a request    *)
(* can be suspended, what the queries before that place have established   *)
(* and no other request can undo.                                          *)
(***************************************************************************)
EXTENDS UserAccounts, TLAPS

-----------------------------------------------------------------------------
(* The inductive invariant *)

\* Queries of a request that has read or written the user's row.
RowKnown == {"insertPref", "readPref", "updateUser", "reloadUser", "updatePref",
             "reloadPref", "deletePref", "deleteUser"}

\* Queries behind the permission check.
Managing == {"updateUser", "reloadUser", "updatePref", "reloadPref",
             "deletePref", "deleteUser"}

Views == {"view", "viewUser", "viewPref"}

\* A request that has been received has a call, with the fields the validation
\* requires, and one that passed the guard has an agent.
Called(r) ==
  /\ pc[r] # "idle" => call[r] # NULL
  /\ pc[r] \in DbCalls /\ call[r].op = "create" =>
       call[r].email # NULL /\ call[r].theme # NULL
  /\ pc[r] = "updatePref" => call[r].theme # NULL
  /\ pc[r] \in DbCalls /\ call[r].op # "login" => call[r].agent # NULL

\* Only a request that has ended has an answer, and one that succeeded worked
\* on a user.
Answered(r) == /\ pc[r] # "done" => answer[r] = NULL
               /\ answer[r] = "ok" => uid[r] # NULL

\* Behind the first query there is a user id; rows are never removed.
Identified(r) ==
  /\ pc[r] \in DbCalls \ {"findByEmail", "insertUser"} => uid[r] # NULL
  /\ pc[r] \in RowKnown => users[uid[r]] # NULL

\* The second read of login, update and delete knows the user's e-mail.
Noted(r) == pc[r] = "readPref" => seen[r].email # NULL

\* A request that writes an existing account was allowed to.
Allowed(r) == pc[r] \in Managing => /\ prefs[uid[r]] # NULL
                                    /\ call[r].op \in {"update", "delete"}
                                    /\ call[r].agent.clientId = uid[r]

\* Delete goes for the user once the preference is gone.
PreferenceGone(r) == pc[r] = "deleteUser" => ~prefs[uid[r]].live

\* Create reads back an account with both its rows; delete reads nothing back.
Created(r) == pc[r] \in Views =>
  /\ call[r].op # "delete"
  /\ call[r].op = "create" => users[uid[r]] # NULL /\ prefs[uid[r]] # NULL

PreferenceHasUser == \A u \in Ids : prefs[u] # NULL => users[u] # NULL

Inv == /\ TypeOK
       /\ \A r \in Requests : /\ Called(r) /\ Answered(r) /\ Identified(r) /\ Noted(r)
                              /\ Allowed(r) /\ PreferenceGone(r) /\ Created(r)
       /\ PreferenceHasUser
       /\ OneRowPerEmail
       /\ DeletedLeavesNoPreference
       /\ DeletedByOwner
       /\ TokensOfCompleteAccounts
       /\ TornAccountsHaveACause
       /\ OkIsDurable

-----------------------------------------------------------------------------
(* Types *)

LEMMA CallsAreCalls ==
  ASSUME TypeOK, NEW op \in Ops, NEW c \in CallsOf(op)
  PROVE  /\ c \in Call /\ c.op = op
         /\ op \in {"get", "update", "delete"} => c.id \in Ids
         /\ op = "create" => c.email \in Emails /\ c.theme \in Themes
BY DEF TypeOK, CallsOf, Call, Ops

LEMMA GotoType ==
  ASSUME TypeOK, NEW r \in Requests, NEW p \in DbCalls, Goto(r, p)
  PROVE  /\ pc' \in [Requests -> DbCalls \cup {"idle", "done"}]
         /\ seen' \in [Requests -> Snapshot]
         /\ answer' \in [Requests -> Answers \cup {NULL}]
BY DEF TypeOK, Goto

LEMMA KeepType ==
  ASSUME TypeOK, NEW r \in Requests, NEW p \in DbCalls, NEW s \in Snapshot, Keep(r, s, p)
  PROVE  /\ pc' \in [Requests -> DbCalls \cup {"idle", "done"}]
         /\ seen' \in [Requests -> Snapshot]
         /\ answer' \in [Requests -> Answers \cup {NULL}]
BY DEF TypeOK, Keep

LEMMA AnswerType ==
  ASSUME TypeOK, NEW r \in Requests, NEW a \in Answers, Answer(r, a)
  PROVE  /\ pc' \in [Requests -> DbCalls \cup {"idle", "done"}]
         /\ seen' \in [Requests -> Snapshot]
         /\ answer' \in [Requests -> Answers \cup {NULL}]
<1>1. NoSnapshot \in Snapshot
  BY DEF NoSnapshot, Snapshot
<1> QED
  BY <1>1 DEF TypeOK, Answer

LEMMA InitInv == Init => Inv
<1> SUFFICES ASSUME Init PROVE Inv
  OBVIOUS
<1>1. TypeOK
  BY SeedAssumption DEF Init, TypeOK, UserRow, PrefRow, Token, Snapshot, NoSnapshot
<1>2. \A r \in Requests : /\ Called(r) /\ Answered(r) /\ Identified(r) /\ Noted(r)
                          /\ Allowed(r) /\ PreferenceGone(r) /\ Created(r)
  BY NullAssumption
  DEF Init, Called, Answered, Answers, Identified, Noted, Allowed, PreferenceGone, Created,
      DbCalls, RowKnown, Managing, Views
<1>3. \A u \in Ids : IF u \in Seeded
        THEN /\ users[u] # NULL /\ prefs[u] # NULL /\ users[u].email = SeedEmail[u]
             /\ users[u].live /\ users[u].deletedBy = NULL /\ prefs[u].live
        ELSE users[u] = NULL /\ prefs[u] = NULL
  <2> TAKE u \in Ids
  <2>1. CASE u \in Seeded
    <3>1. users[u] = [email |-> SeedEmail[u], live |-> TRUE, deletedBy |-> NULL]
          /\ prefs[u] = [theme |-> SeedTheme, live |-> TRUE]
      BY <2>1 DEF Init
    <3>2. users[u] \in UserRow /\ prefs[u] \in PrefRow
      BY <3>1, <2>1, SeedAssumption DEF UserRow, PrefRow
    <3>3. users[u] # NULL /\ prefs[u] # NULL
      BY <3>2, NullAssumption
    <3>4. users[u].email = SeedEmail[u] /\ users[u].deletedBy = NULL
      BY <3>1
    <3>5. users[u].live /\ prefs[u].live
      BY <3>1
    <3> QED
      BY <2>1, <3>3, <3>4, <3>5
  <2>2. CASE u \notin Seeded
    BY <2>2 DEF Init
  <2> QED
    BY <2>1, <2>2
<1>4. PreferenceHasUser /\ OneRowPerEmail /\ DeletedLeavesNoPreference /\ DeletedByOwner
  BY <1>3, SeedAssumption
  DEF PreferenceHasUser, OneRowPerEmail, DeletedLeavesNoPreference, DeletedByOwner
<1>5. TokensOfCompleteAccounts /\ TornAccountsHaveACause
  BY <1>3, SeedAssumption
  DEF Init, TokensOfCompleteAccounts, TornAccountsHaveACause, UserVisible, PrefLive
<1>6. OkIsDurable
  BY NullAssumption DEF Init, OkIsDurable, Answers
<1> QED
  BY <1>1, <1>2, <1>3, <1>4, <1>5, <1>6 DEF Inv

-----------------------------------------------------------------------------
(* What one step does to the rows and to the other requests *)

\* The row a request is about to write exists.
LEMMA KnownRows ==
  ASSUME Inv, NEW r \in Requests, pc[r] \in RowKnown
  PROVE  /\ uid[r] \in Ids /\ users[uid[r]] \in UserRow /\ call[r] \in Call
         /\ pc[r] \in Managing => /\ prefs[uid[r]] \in PrefRow
                                  /\ call[r].agent \in Token
                                  /\ call[r].agent.clientId = uid[r]
<1>1. RowKnown \subseteq DbCalls \ {"findByEmail", "insertUser"}
  BY DEF RowKnown, DbCalls
<1>2. uid[r] \in Ids /\ users[uid[r]] \in UserRow
  BY <1>1 DEF Inv, TypeOK, Identified
<1>3. call[r] \in Call
  BY <1>1 DEF Inv, TypeOK, Called, DbCalls
<1>4. ASSUME pc[r] \in Managing
      PROVE  prefs[uid[r]] \in PrefRow /\ call[r].agent \in Token
             /\ call[r].agent.clientId = uid[r]
  <2>1. prefs[uid[r]] \in PrefRow /\ call[r].agent.clientId = uid[r]
    BY <1>2, <1>4 DEF Inv, TypeOK, Allowed
  <2>2. call[r].op # "login" /\ call[r].agent # NULL
    BY <1>1, <1>4 DEF Inv, Allowed, Called
  <2>3. call[r].agent \in Token
    BY <1>3, <2>2 DEF Call
  <2> QED
    BY <2>1, <2>3
<1> QED
  BY <1>2, <1>3, <1>4

\* The four writes of an existing row.
LEMMA UpdateUserRow ==
  ASSUME Inv, NEW r \in Requests, UpdateUser(r), users' # users
  PROVE  /\ uid[r] \in Ids /\ users[uid[r]] # NULL
         /\ ~EmailTaken(call[r].email, uid[r])
         /\ users'[uid[r]] \in UserRow
         /\ users'[uid[r]].email = call[r].email
         /\ users'[uid[r]].live = users[uid[r]].live
         /\ users'[uid[r]].deletedBy = users[uid[r]].deletedBy
         /\ \A u \in Ids \ {uid[r]} : users'[u] = users[u]
<1>1. pc[r] \in RowKnown
  BY DEF UpdateUser, At, RowKnown
<1>2. uid[r] \in Ids /\ users[uid[r]] \in UserRow /\ call[r] \in Call
  BY <1>1, KnownRows
<1>3. /\ call[r].email # NULL /\ ~EmailTaken(call[r].email, uid[r])
      /\ users' = [users EXCEPT ![uid[r]].email = call[r].email]
  BY DEF UpdateUser
<1>4. call[r].email \in Emails
  BY <1>2, <1>3 DEF Call
<1>5. /\ users'[uid[r]] = [users[uid[r]] EXCEPT !.email = call[r].email]
      /\ \A u \in Ids \ {uid[r]} : users'[u] = users[u]
  BY <1>2, <1>3 DEF Inv, TypeOK
<1>6. /\ users'[uid[r]] \in UserRow
      /\ users'[uid[r]].email = call[r].email
      /\ users'[uid[r]].live = users[uid[r]].live
      /\ users'[uid[r]].deletedBy = users[uid[r]].deletedBy
  BY <1>2, <1>4, <1>5 DEF UserRow
<1> QED
  BY <1>2, <1>3, <1>5, <1>6, NullAssumption

LEMMA UpdatePrefRow ==
  ASSUME Inv, NEW r \in Requests, UpdatePref(r)
  PROVE  /\ prefs'[uid[r]] = [prefs[uid[r]] EXCEPT !.theme = call[r].theme]
         /\ prefs'[uid[r]] \in PrefRow
         /\ prefs'[uid[r]].live = prefs[uid[r]].live
         /\ \A u \in Ids \ {uid[r]} : prefs'[u] = prefs[u]
<1>1. pc[r] \in RowKnown /\ pc[r] \in Managing /\ pc[r] = "updatePref"
  BY DEF UpdatePref, At, RowKnown, Managing
<1>2. uid[r] \in Ids /\ prefs[uid[r]] \in PrefRow /\ call[r] \in Call
  BY <1>1, KnownRows
<1>3. call[r].theme \in Themes
  BY <1>1, <1>2 DEF Inv, Called, Call
<1>4. prefs' = [prefs EXCEPT ![uid[r]].theme = call[r].theme]
  BY DEF UpdatePref
<1> QED
  BY <1>2, <1>3, <1>4 DEF Inv, TypeOK, PrefRow

LEMMA DeletePrefRow ==
  ASSUME Inv, NEW r \in Requests, DeletePref(r)
  PROVE  /\ prefs'[uid[r]] = [prefs[uid[r]] EXCEPT !.live = FALSE]
         /\ prefs'[uid[r]] \in PrefRow /\ ~prefs'[uid[r]].live
         /\ \A u \in Ids \ {uid[r]} : prefs'[u] = prefs[u]
<1>1. pc[r] \in RowKnown /\ pc[r] \in Managing
  BY DEF DeletePref, At, RowKnown, Managing
<1>2. uid[r] \in Ids /\ prefs[uid[r]] \in PrefRow
  BY <1>1, KnownRows
<1>3. prefs' = [prefs EXCEPT ![uid[r]].live = FALSE]
  BY DEF DeletePref
<1> QED
  BY <1>2, <1>3 DEF Inv, TypeOK, PrefRow

LEMMA DeleteUserRow ==
  ASSUME Inv, NEW r \in Requests, DeleteUser(r)
  PROVE  /\ users'[uid[r]] \in UserRow
         /\ ~users'[uid[r]].live /\ users'[uid[r]].deletedBy = uid[r]
         /\ users'[uid[r]].email = users[uid[r]].email
         /\ \A u \in Ids \ {uid[r]} : users'[u] = users[u]
<1>1. pc[r] \in RowKnown /\ pc[r] \in Managing
  BY DEF DeleteUser, At, RowKnown, Managing
<1>2. uid[r] \in Ids /\ users[uid[r]] \in UserRow /\ call[r].agent.clientId = uid[r]
  BY <1>1, KnownRows
<1>3. users' = [users EXCEPT ![uid[r]].live = FALSE,
                             ![uid[r]].deletedBy = call[r].agent.clientId]
  BY DEF DeleteUser
<1> QED
  BY <1>2, <1>3 DEF Inv, TypeOK, UserRow

LEMMA InsertUserRow ==
  ASSUME Inv, NEW r \in Requests, InsertUser(r), users' # users \/ pc'[r] # "done"
  PROVE  \E u \in Ids :
           /\ users[u] = NULL /\ prefs[u] = NULL
           /\ users'[u] \in UserRow /\ users'[u].live /\ users'[u].deletedBy = NULL
           /\ users'[u].email = call[r].email /\ ~EmailTaken(call[r].email, NULL)
           /\ \A v \in Ids \ {u} : users'[v] = users[v]
           /\ uid' = [uid EXCEPT ![r] = u]
           /\ Goto(r, "insertPref")
<1>1. call[r] \in Call /\ call[r].email \in Emails
  BY DEF Inv, TypeOK, Called, InsertUser, At, DbCalls, Call
<1>2. PICK u \in Ids :
        /\ users[u] = NULL
        /\ users' = [users EXCEPT ![u] =
                       [email |-> call[r].email, live |-> TRUE, deletedBy |-> NULL]]
        /\ uid' = [uid EXCEPT ![r] = u]
  BY DEF InsertUser, Answer, Inv, TypeOK
<1>3. Goto(r, "insertPref") /\ ~EmailTaken(call[r].email, NULL)
  BY DEF InsertUser, Answer, Inv, TypeOK
<1>4. prefs[u] = NULL
  BY <1>2 DEF Inv, PreferenceHasUser
<1>5. users'[u] = [email |-> call[r].email, live |-> TRUE, deletedBy |-> NULL]
      /\ \A v \in Ids \ {u} : users'[v] = users[v]
  BY <1>2 DEF Inv, TypeOK
<1>6. users'[u] \in UserRow /\ users'[u].live /\ users'[u].deletedBy = NULL
      /\ users'[u].email = call[r].email
  BY <1>1, <1>5 DEF UserRow
<1> QED
  BY <1>2, <1>3, <1>4, <1>5, <1>6

LEMMA InsertPrefRow ==
  ASSUME Inv, NEW r \in Requests, InsertPref(r), prefs' # prefs \/ pc'[r] # "done"
  PROVE  /\ uid[r] \in Ids /\ users[uid[r]] # NULL /\ users[uid[r]].live
         /\ prefs[uid[r]] = NULL
         /\ prefs'[uid[r]] \in PrefRow /\ prefs'[uid[r]].live
         /\ \A u \in Ids \ {uid[r]} : prefs'[u] = prefs[u]
<1>1. pc[r] \in RowKnown /\ pc[r] \in DbCalls /\ call[r].op = "create"
  BY DEF InsertPref, At, RowKnown, DbCalls
<1>2. uid[r] \in Ids /\ call[r] \in Call /\ users[uid[r]] # NULL
  BY <1>1, KnownRows DEF Inv, Identified
<1>3. call[r].theme \in Themes
  BY <1>1, <1>2 DEF Inv, Called, Call
<1>4. /\ prefs[uid[r]] = NULL
      /\ prefs' = [prefs EXCEPT ![uid[r]] = [theme |-> call[r].theme, live |-> TRUE]]
  BY DEF InsertPref, Answer, Inv, TypeOK
<1>5. users[uid[r]].live
  BY <1>2, <1>4 DEF Inv, DeletedLeavesNoPreference
<1>6. prefs'[uid[r]] = [theme |-> call[r].theme, live |-> TRUE]
      /\ \A u \in Ids \ {uid[r]} : prefs'[u] = prefs[u]
  BY <1>2, <1>4 DEF Inv, TypeOK
<1>7. prefs'[uid[r]] \in PrefRow /\ prefs'[uid[r]].live
  BY <1>3, <1>6 DEF PrefRow
<1> QED
  BY <1>2, <1>4, <1>5, <1>6, <1>7

-----------------------------------------------------------------------------
(* Type correctness *)

LEMMA FirstWriteType ==
  ASSUME NEW c, NEW s
  PROVE  FirstWrite(c, s) \in DbCalls /\ AfterUser(c, s) \in DbCalls
BY DEF FirstWrite, AfterUser, DbCalls

LEMMA TypeStep ==
  ASSUME Inv, NEW r \in Requests, Receive(r) \/ Step(r) \/ Abort(r)
  PROVE  TypeOK'
<1> USE DEF Inv
<1>1. CASE Receive(r)
  <2>1. PICK op \in Ops : \E c \in CallsOf(op) :
          /\ call' = [call EXCEPT ![r] = c] /\ uid' = [uid EXCEPT ![r] = c.id]
          /\ IF c.agent = NULL /\ op # "login" THEN Answer(r, "invalidToken")
                                               ELSE Goto(r, FirstCall(op))
    BY <1>1 DEF Receive
  <2>2. PICK c \in CallsOf(op) :
          /\ call' = [call EXCEPT ![r] = c] /\ uid' = [uid EXCEPT ![r] = c.id]
          /\ IF c.agent = NULL /\ op # "login" THEN Answer(r, "invalidToken")
                                               ELSE Goto(r, FirstCall(op))
    BY <2>1
  <2>3. c \in Call /\ FirstCall(op) \in DbCalls /\ "invalidToken" \in Answers
    BY CallsAreCalls DEF FirstCall, DbCalls, Answers
  <2> QED
    BY <1>1, <2>2, <2>3, GotoType, AnswerType DEF TypeOK, Receive, Call
<1>2. CASE Abort(r)
  BY <1>2, AnswerType DEF Abort, TypeOK, Answers
<1>3. CASE FindByEmail(r)
  <2>1. {"conflict", "notFound"} \subseteq Answers /\ {"readUser", "insertUser"} \subseteq DbCalls
    BY DEF Answers, DbCalls
  <2> QED
    BY <1>3, <2>1, GotoType, AnswerType DEF FindByEmail, TypeOK
<1>4. CASE InsertUser(r)
  <2>1. "internal" \in Answers /\ "insertPref" \in DbCalls
    BY DEF Answers, DbCalls
  <2>2. users' \in [Ids -> UserRow \cup {NULL}]
    BY <1>4, InsertUserRow DEF InsertUser, TypeOK
  <2> QED
    BY <1>4, <2>1, <2>2, GotoType, AnswerType DEF InsertUser, TypeOK
<1>5. CASE InsertPref(r)
  <2>1. "internal" \in Answers /\ "view" \in DbCalls
    BY DEF Answers, DbCalls
  <2>2. prefs' \in [Ids -> PrefRow \cup {NULL}]
    BY <1>5, InsertPrefRow DEF InsertPref, TypeOK
  <2> QED
    BY <1>5, <2>1, <2>2, GotoType, AnswerType DEF InsertPref, TypeOK
<1>6. CASE ReadUser(r)
  <2>1. {"internal", "unauthorized"} \subseteq Answers /\ "readPref" \in DbCalls
    BY DEF Answers, DbCalls
  <2>2. ASSUME UserVisible(uid[r])
        PROVE  [email |-> users[uid[r]].email,
                joined |-> IF PrefLive(uid[r]) THEN prefs[uid[r]].theme ELSE NULL,
                theme |-> NULL] \in Snapshot
    <3>1. uid[r] \in Ids
      BY <1>6 DEF ReadUser, At, Identified, TypeOK, DbCalls
    <3> QED
      BY <2>2, <3>1 DEF TypeOK, UserVisible, PrefLive, UserRow, PrefRow, Snapshot
  <2> QED
    BY <1>6, <2>1, <2>2, KeepType, AnswerType DEF ReadUser, TypeOK
<1>7. CASE ReadPref(r)
  <2>1. {"internal", "ok", "business"} \subseteq Answers
    BY DEF Answers
  <2>2. uid[r] \in Ids
    BY <1>7, KnownRows DEF ReadPref, At, RowKnown
  <2>3. ASSUME PrefVisible(uid[r])
        PROVE  [seen[r] EXCEPT !.theme = prefs[uid[r]].theme] \in Snapshot
    BY <2>2, <2>3 DEF TypeOK, PrefVisible, PrefLive, PrefRow, Snapshot
  <2>4. tokens' \subseteq Token
    <3>1. ASSUME tokens' # tokens
          PROVE  tokens' = tokens \cup {[username |-> seen[r].email, clientId |-> uid[r]]}
                 /\ pc[r] = "readPref"
      BY <1>7, <3>1 DEF ReadPref, At, TypeOK, Snapshot
    <3>2. pc[r] = "readPref" => seen[r].email # NULL
      BY DEF Noted
    <3> QED
      BY <2>2, <3>1, <3>2 DEF TypeOK, Snapshot, Token
  <2> QED
    BY <1>7, <2>1, <2>3, <2>4, KeepType, AnswerType, FirstWriteType DEF ReadPref, TypeOK
<1>8. CASE UpdateUser(r)
  <2>1. "internal" \in Answers /\ "reloadUser" \in DbCalls
    BY DEF Answers, DbCalls
  <2>2. users' \in [Ids -> UserRow \cup {NULL}]
    BY <1>8, UpdateUserRow DEF UpdateUser, TypeOK
  <2> QED
    BY <1>8, <2>1, <2>2, GotoType, AnswerType DEF UpdateUser, TypeOK
<1>9. CASE ReloadUser(r)
  <2>1. "internal" \in Answers
    BY DEF Answers
  <2> QED
    BY <1>9, <2>1, FirstWriteType, GotoType, AnswerType DEF ReloadUser, TypeOK
<1>10. CASE UpdatePref(r)
  <2>1. "reloadPref" \in DbCalls
    BY DEF DbCalls
  <2>2. prefs' \in [Ids -> PrefRow \cup {NULL}]
    BY <1>10, UpdatePrefRow DEF UpdatePref, TypeOK
  <2> QED
    BY <1>10, <2>1, <2>2, GotoType DEF UpdatePref, TypeOK
<1>11. CASE ReloadPref(r)
  <2>1. "internal" \in Answers /\ "view" \in DbCalls
    BY DEF Answers, DbCalls
  <2> QED
    BY <1>11, <2>1, GotoType, AnswerType DEF ReloadPref, TypeOK
<1>12. CASE DeletePref(r)
  <2>1. "deleteUser" \in DbCalls
    BY DEF DbCalls
  <2>2. prefs' \in [Ids -> PrefRow \cup {NULL}]
    BY <1>12, DeletePrefRow DEF DeletePref, TypeOK
  <2> QED
    BY <1>12, <2>1, <2>2, GotoType DEF DeletePref, TypeOK
<1>13. CASE DeleteUser(r)
  <2>1. "ok" \in Answers
    BY DEF Answers
  <2>2. users' \in [Ids -> UserRow \cup {NULL}]
    BY <1>13, DeleteUserRow DEF DeleteUser, TypeOK
  <2> QED
    BY <1>13, <2>1, <2>2, AnswerType DEF DeleteUser, TypeOK
<1>14. CASE ViewUser(r) \/ ViewPref(r)
  <2>1. {"internal", "ok"} \subseteq Answers /\ {"viewUser", "viewPref"} \subseteq DbCalls
    BY DEF Answers, DbCalls
  <2> QED
    BY <1>14, <2>1, GotoType, AnswerType DEF ViewUser, ViewPref, TypeOK
<1> QED
  BY <1>1, <1>2, <1>3, <1>4, <1>5, <1>6, <1>7, <1>8, <1>9, <1>10, <1>11, <1>12,
     <1>13, <1>14 DEF Step

-----------------------------------------------------------------------------
(* Rows are never removed, and a soft delete is never undone *)

LEMMA RowsPersist ==
  ASSUME Inv, NEW r \in Requests, Receive(r) \/ Step(r) \/ Abort(r), NEW u \in Ids
  PROVE  /\ users[u] # NULL => /\ users'[u] # NULL
                               /\ ~users[u].live => ~users'[u].live
         /\ prefs[u] # NULL => /\ prefs'[u] # NULL
                               /\ ~prefs[u].live => ~prefs'[u].live
<1>1. CASE InsertUser(r) /\ users' # users
  BY <1>1, InsertUserRow DEF InsertUser
<1>2. CASE InsertPref(r) /\ prefs' # prefs
  BY <1>2, InsertPrefRow DEF InsertPref
<1>3. CASE UpdateUser(r) /\ users' # users
  BY <1>3, UpdateUserRow, NullAssumption DEF UpdateUser
<1>4. CASE UpdatePref(r)
  BY <1>4, UpdatePrefRow, NullAssumption DEF UpdatePref
<1>5. CASE DeletePref(r)
  BY <1>5, DeletePrefRow, NullAssumption DEF DeletePref
<1>6. CASE DeleteUser(r)
  BY <1>6, DeleteUserRow, NullAssumption DEF DeleteUser
<1>7. CASE UNCHANGED <<users, prefs>>
  BY <1>7
<1> QED
  BY <1>1, <1>2, <1>3, <1>4, <1>5, <1>6, <1>7
  DEF Step, Receive, Abort, FindByEmail, InsertUser, InsertPref, ReadUser, ReadPref,
      UpdateUser, ReloadUser, ReloadPref, ViewUser, ViewPref

\* A step of one request leaves the others where they are.
LEMMA OthersStay ==
  ASSUME Inv, NEW r \in Requests, Receive(r) \/ Step(r) \/ Abort(r),
         NEW q \in Requests, q # r
  PROVE  /\ pc'[q] = pc[q] /\ call'[q] = call[q] /\ uid'[q] = uid[q]
         /\ seen'[q] = seen[q] /\ answer'[q] = answer[q]
BY DEF Inv, TypeOK, Step, Receive, Abort, FindByEmail, InsertUser, InsertPref, ReadUser,
       ReadPref, UpdateUser, ReloadUser, UpdatePref, ReloadPref, DeletePref, DeleteUser,
       ViewUser, ViewPref, Goto, Keep, Answer

-----------------------------------------------------------------------------
(* Where requests are suspended *)

LEMMA OthersControl ==
  ASSUME Inv, NEW r \in Requests, Receive(r) \/ Step(r) \/ Abort(r),
         NEW q \in Requests, q # r
  PROVE  (/\ Called(q) /\ Answered(q) /\ Identified(q) /\ Noted(q)
          /\ Allowed(q) /\ PreferenceGone(q) /\ Created(q))'
<1>1. /\ pc'[q] = pc[q] /\ call'[q] = call[q] /\ uid'[q] = uid[q]
      /\ seen'[q] = seen[q] /\ answer'[q] = answer[q]
  BY OthersStay
<1>2. (Called(q) /\ Answered(q) /\ Noted(q))'
  BY <1>1 DEF Inv, Called, Answered, Noted
<1>3. ASSUME pc[q] \in DbCalls \ {"findByEmail", "insertUser"} PROVE uid[q] \in Ids
  BY <1>3 DEF Inv, TypeOK, Identified
<1>4. /\ RowKnown \subseteq DbCalls \ {"findByEmail", "insertUser"}
      /\ Managing \subseteq DbCalls \ {"findByEmail", "insertUser"}
      /\ Views \subseteq DbCalls \ {"findByEmail", "insertUser"}
      /\ "deleteUser" \in Managing
  BY DEF RowKnown, Managing, Views, DbCalls
<1>5. Identified(q)'
  BY <1>1, <1>3, <1>4, RowsPersist DEF Inv, Identified
<1>6. (Allowed(q) /\ PreferenceGone(q))'
  BY <1>1, <1>3, <1>4, RowsPersist DEF Inv, Allowed, PreferenceGone
<1>7. Created(q)'
  BY <1>1, <1>3, <1>4, RowsPersist DEF Inv, Created
<1> QED
  BY <1>2, <1>5, <1>6, <1>7

LEMMA ReceiveControl ==
  ASSUME Inv, NEW r \in Requests, Receive(r)
  PROVE  (/\ Called(r) /\ Answered(r) /\ Identified(r) /\ Noted(r)
          /\ Allowed(r) /\ PreferenceGone(r) /\ Created(r))'
<1>1. PICK op \in Ops : \E c \in CallsOf(op) :
        /\ call' = [call EXCEPT ![r] = c] /\ uid' = [uid EXCEPT ![r] = c.id]
        /\ IF c.agent = NULL /\ op # "login" THEN Answer(r, "invalidToken")
                                             ELSE Goto(r, FirstCall(op))
  BY DEF Receive
<1>2. PICK c \in CallsOf(op) :
        /\ call' = [call EXCEPT ![r] = c] /\ uid' = [uid EXCEPT ![r] = c.id]
        /\ IF c.agent = NULL /\ op # "login" THEN Answer(r, "invalidToken")
                                             ELSE Goto(r, FirstCall(op))
  BY <1>1
<1>3. /\ c \in Call /\ c.op = op /\ c # NULL
      /\ op \in {"get", "update", "delete"} => c.id # NULL
      /\ op = "create" => c.email # NULL /\ c.theme # NULL
  BY CallsAreCalls, NullAssumption DEF Inv
<1>4. call'[r] = c /\ uid'[r] = c.id /\ pc[r] = "idle"
  BY <1>2 DEF Inv, TypeOK, Receive
<1>5. \/ pc'[r] = "done"
      \/ /\ pc'[r] = FirstCall(op) /\ answer'[r] = answer[r]
         /\ c.agent = NULL => op = "login"
  BY <1>2 DEF Inv, TypeOK, Goto, Answer
<1>6. FirstCall(op) \in {"findByEmail", "view", "readUser"}
      /\ (FirstCall(op) # "findByEmail" => op \in {"get", "update", "delete"})
      /\ (FirstCall(op) = "view" => op = "get")
  BY DEF FirstCall, Ops
<1>7. Answered(r)'
  BY <1>2, <1>4, <1>5, NullAssumption DEF Inv, TypeOK, Answered, Answer, Goto, Answers
<1> QED
  BY <1>3, <1>4, <1>5, <1>6, <1>7 DEF Inv, Called, Identified, Noted, Allowed,
     PreferenceGone, Created, DbCalls, RowKnown, Managing, Views

LEMMA StepControl ==
  ASSUME Inv, NEW r \in Requests, Step(r) \/ Abort(r)
  PROVE  (/\ Called(r) /\ Answered(r) /\ Identified(r) /\ Noted(r)
          /\ Allowed(r) /\ PreferenceGone(r) /\ Created(r))'
<1> USE DEF Inv, TypeOK, At, Goto, Keep, Answer
<1>1. CASE Abort(r)
  BY <1>1, NullAssumption
  DEF Abort, Called, Answered, Identified, Noted, Allowed, PreferenceGone, Created,
      DbCalls, RowKnown, Managing, Views
<1>2. CASE Step(r)
  <2>1. TypeOK'
    BY <1>2, TypeStep
  <2>2. \A u \in Ids : /\ users[u] # NULL => users'[u] # NULL
                       /\ prefs[u] # NULL => prefs'[u] # NULL
    BY <1>2, RowsPersist
  <2>3. Called(r)'
    BY <1>2, <2>1, NullAssumption
    DEF Called, DbCalls, AfterUser, FirstWrite, MustUpdatePreference, Changes, Call, Ops,
        Step, FindByEmail, InsertUser, InsertPref, ReadUser, ReadPref, UpdateUser,
        ReloadUser, UpdatePref, ReloadPref, DeletePref, DeleteUser, ViewUser, ViewPref
  <2>4. Answered(r)'
    BY <1>2, NullAssumption DEF Answered, Answers, Identified, DbCalls, Step, FindByEmail, InsertUser, InsertPref, ReadUser,
       ReadPref, UpdateUser, ReloadUser, UpdatePref, ReloadPref, DeletePref, DeleteUser,
       ViewUser, ViewPref
  <2>5. Allowed(r)'
    BY <1>2, <2>1, <2>2, NullAssumption
    DEF Allowed, Managing, DbCalls, AfterUser, FirstWrite, IsAllowedToManageUser,
        PrefVisible, PrefLive, Step, FindByEmail, InsertUser, InsertPref, ReadUser, ReadPref,
        UpdateUser, ReloadUser, UpdatePref, ReloadPref, DeletePref, DeleteUser, ViewUser,
        ViewPref
  <2>6. Identified(r)'
    <3>1. CASE InsertUser(r)
      <4>1. ASSUME pc'[r] # "done" PROVE uid'[r] \in Ids /\ users'[uid'[r]] # NULL
        BY <3>1, <4>1, InsertUserRow, NullAssumption
      <4> QED
        BY <4>1, NullAssumption DEF Identified, DbCalls, RowKnown
    <3>2. CASE UpdateUser(r)
      <4>1. uid[r] \in Ids /\ users'[uid[r]] # NULL
        BY <3>2, <2>2, KnownRows, NullAssumption DEF UpdateUser, RowKnown
      <4> QED
        BY <3>2, <4>1, NullAssumption DEF UpdateUser, Identified, DbCalls, RowKnown
    <3>3. CASE FindByEmail(r) \/ InsertPref(r) \/ ReadUser(r)
      BY <3>3, <2>2, NullAssumption
      DEF FindByEmail, InsertPref, ReadUser, Identified, DbCalls, RowKnown, UserVisible
    <3>4. CASE ReadPref(r) \/ ReloadUser(r) \/ UpdatePref(r) \/ ReloadPref(r)
      BY <3>4, <2>2, NullAssumption
      DEF ReadPref, ReloadUser, UpdatePref, ReloadPref, AfterUser, FirstWrite, Identified,
          DbCalls, RowKnown
    <3>5. CASE DeletePref(r) \/ DeleteUser(r) \/ ViewUser(r) \/ ViewPref(r)
      BY <3>5, <2>2, NullAssumption
      DEF DeletePref, DeleteUser, ViewUser, ViewPref, Identified, DbCalls, RowKnown
    <3> QED
      BY <1>2, <3>1, <3>2, <3>3, <3>4, <3>5 DEF Step
  <2>7. Noted(r)'
    <3>1. CASE ReadUser(r)
      <4>1. ASSUME pc'[r] = "readPref"
            PROVE  UserVisible(uid[r]) /\ seen'[r].email = users[uid[r]].email
        BY <3>1, <4>1 DEF ReadUser
      <4>2. uid[r] \in Ids
        BY <3>1 DEF ReadUser, Identified, DbCalls
      <4> QED
        BY <4>1, <4>2, NullAssumption DEF Noted, UserVisible, UserRow
    <3>2. CASE ~ReadUser(r)
      BY <1>2, <3>2 DEF Noted, AfterUser, FirstWrite, Step, FindByEmail, InsertUser,
         InsertPref, ReadPref, UpdateUser, ReloadUser, UpdatePref, ReloadPref, DeletePref,
         DeleteUser, ViewUser, ViewPref
    <3> QED
      BY <3>1, <3>2
  <2>8. PreferenceGone(r)'
    <3>1. CASE DeletePref(r)
      BY <3>1, DeletePrefRow DEF DeletePref, PreferenceGone
    <3>2. CASE ReadPref(r) \/ ReloadUser(r)
      BY <3>2 DEF ReadPref, ReloadUser, AfterUser, FirstWrite, PreferenceGone
    <3>3. CASE ~(DeletePref(r) \/ ReadPref(r) \/ ReloadUser(r))
      BY <1>2, <3>3 DEF PreferenceGone, Step, FindByEmail, InsertUser, InsertPref, ReadUser,
         UpdateUser, UpdatePref, ReloadPref, DeleteUser, ViewUser, ViewPref
    <3> QED
      BY <3>1, <3>2, <3>3
  <2>9. Created(r)'
    <3>1. CASE InsertPref(r)
      <4>1. /\ call'[r].op = "create"
            /\ pc'[r] # "done" => prefs'[uid'[r]] # NULL /\ users'[uid'[r]] # NULL
        BY <3>1, <2>2, InsertPrefRow, NullAssumption DEF InsertPref
      <4> QED
        BY <4>1 DEF Created, Views
    <3>2. CASE ViewUser(r) \/ ViewPref(r)
      BY <3>2 DEF ViewUser, ViewPref, Created, Views
    <3>3. CASE ReadPref(r)
      <4>1. ASSUME pc'[r] \in Views
            PROVE  pc'[r] = FirstWrite(call[r], seen'[r])
                   /\ call[r].op \in {"update", "delete"} /\ call' = call
        BY <3>3, <4>1 DEF ReadPref, Views
      <4> QED
        BY <4>1 DEF Created, Views, FirstWrite
    <3>4. CASE ReloadUser(r) \/ ReloadPref(r)
      BY <3>4 DEF ReloadUser, ReloadPref, Created
    <3>5. CASE ~(InsertPref(r) \/ ViewUser(r) \/ ViewPref(r) \/ ReadPref(r)
                  \/ ReloadUser(r) \/ ReloadPref(r))
      BY <1>2, <3>5 DEF Created, Views, Step, FindByEmail, InsertUser, ReadUser, UpdateUser,
         UpdatePref, DeletePref, DeleteUser
    <3> QED
      BY <3>1, <3>2, <3>3, <3>4, <3>5
  <2> QED
    BY <2>3, <2>4, <2>5, <2>6, <2>7, <2>8, <2>9
<1> QED
  BY <1>1, <1>2

-----------------------------------------------------------------------------
(* The tables and the tokens *)

LEMMA TablesStep ==
  ASSUME Inv, NEW r \in Requests, Receive(r) \/ Step(r) \/ Abort(r)
  PROVE  (/\ PreferenceHasUser /\ OneRowPerEmail
          /\ DeletedLeavesNoPreference /\ DeletedByOwner)'
<1> USE DEF Inv
<1>1. CASE InsertUser(r) /\ users' # users
  <2>1. prefs' = prefs
    BY <1>1 DEF InsertUser
  <2>2. PICK u \in Ids :
          /\ users[u] = NULL /\ prefs[u] = NULL
          /\ users'[u] \in UserRow /\ users'[u].live /\ users'[u].deletedBy = NULL
          /\ users'[u].email = call[r].email /\ ~EmailTaken(call[r].email, NULL)
          /\ \A v \in Ids \ {u} : users'[v] = users[v]
    BY <1>1, InsertUserRow
  <2>3. OneRowPerEmail'
    BY <2>2, NullAssumption DEF OneRowPerEmail, EmailTaken
  <2>4. (PreferenceHasUser /\ DeletedLeavesNoPreference /\ DeletedByOwner)'
    BY <2>1, <2>2 DEF PreferenceHasUser, DeletedLeavesNoPreference, DeletedByOwner
  <2> QED
    BY <2>3, <2>4
<1>2. CASE InsertPref(r) /\ prefs' # prefs
  <2>1. users' = users
    BY <1>2 DEF InsertPref
  <2> QED
    BY <1>2, <2>1, InsertPrefRow
    DEF PreferenceHasUser, OneRowPerEmail, DeletedLeavesNoPreference, DeletedByOwner
<1>3. CASE UpdateUser(r) /\ users' # users
  <2>1. prefs' = prefs
    BY <1>3 DEF UpdateUser
  <2>2. /\ uid[r] \in Ids /\ users[uid[r]] # NULL /\ users'[uid[r]] # NULL
        /\ users'[uid[r]].live = users[uid[r]].live
        /\ users'[uid[r]].deletedBy = users[uid[r]].deletedBy
    BY <1>3, UpdateUserRow, NullAssumption
  <2>3. OneRowPerEmail'
    BY <1>3, <2>2, UpdateUserRow DEF OneRowPerEmail, EmailTaken
  <2>4. (PreferenceHasUser /\ DeletedLeavesNoPreference)'
    BY <1>3, <2>1, <2>2, UpdateUserRow DEF PreferenceHasUser, DeletedLeavesNoPreference
  <2>5. DeletedByOwner'
    BY <1>3, <2>1, <2>2, UpdateUserRow DEF DeletedByOwner
  <2> QED
    BY <2>3, <2>4, <2>5
<1>4. CASE UpdatePref(r) \/ DeletePref(r)
  <2>1. users' = users /\ pc[r] \in Managing /\ pc[r] \in RowKnown
    BY <1>4 DEF UpdatePref, DeletePref, At, Managing, RowKnown
  <2>2. /\ prefs[uid[r]] # NULL /\ prefs'[uid[r]] # NULL
        /\ ~prefs[uid[r]].live => ~prefs'[uid[r]].live
        /\ \A u \in Ids \ {uid[r]} : prefs'[u] = prefs[u]
    BY <1>4, <2>1, KnownRows, UpdatePrefRow, DeletePrefRow, NullAssumption
  <2> QED
    BY <2>1, <2>2
    DEF PreferenceHasUser, OneRowPerEmail, DeletedLeavesNoPreference, DeletedByOwner
<1>5. CASE DeleteUser(r)
  <2>1. /\ prefs' = prefs /\ prefs[uid[r]] # NULL /\ ~prefs[uid[r]].live
        /\ users[uid[r]] # NULL /\ users'[uid[r]] # NULL /\ uid[r] \in Ids
    BY <1>5, KnownRows, DeleteUserRow, NullAssumption
    DEF DeleteUser, At, RowKnown, Managing, PreferenceGone, Allowed, Identified
  <2>2. /\ ~users'[uid[r]].live /\ users'[uid[r]].deletedBy = uid[r]
        /\ users'[uid[r]].email = users[uid[r]].email
        /\ \A u \in Ids \ {uid[r]} : users'[u] = users[u]
    BY <1>5, DeleteUserRow
  <2>3. OneRowPerEmail'
    BY <2>1, <2>2 DEF OneRowPerEmail
  <2>4. DeletedByOwner'
    BY <2>1, <2>2 DEF DeletedByOwner
  <2>5. (PreferenceHasUser /\ DeletedLeavesNoPreference)'
    BY <2>1, <2>2 DEF PreferenceHasUser, DeletedLeavesNoPreference
  <2> QED
    BY <2>3, <2>4, <2>5
<1>6. CASE UNCHANGED <<users, prefs>>
  BY <1>6
  DEF PreferenceHasUser, OneRowPerEmail, DeletedLeavesNoPreference, DeletedByOwner
<1> QED
  BY <1>1, <1>2, <1>3, <1>4, <1>5, <1>6
  DEF Step, Receive, Abort, FindByEmail, InsertUser, InsertPref, ReadUser, ReadPref,
      UpdateUser, ReloadUser, ReloadPref, ViewUser, ViewPref

LEMMA TokensStep ==
  ASSUME Inv, NEW r \in Requests, Receive(r) \/ Step(r) \/ Abort(r)
  PROVE  TokensOfCompleteAccounts'
<1>1. TokensOfCompleteAccounts /\ \A t \in tokens : t.clientId \in Ids
  BY DEF Inv, TypeOK, Token
<1>2. CASE UNCHANGED tokens
  BY <1>1, <1>2, RowsPersist DEF TokensOfCompleteAccounts
<1>3. CASE tokens' # tokens
  <2>1. ReadPref(r)
    BY <1>3 DEF Step, Receive, Abort, FindByEmail, InsertUser, InsertPref, ReadUser,
       UpdateUser, ReloadUser, UpdatePref, ReloadPref, DeletePref, DeleteUser, ViewUser,
       ViewPref
  <2>2. /\ PrefVisible(uid[r])
        /\ tokens' = tokens \cup {[username |-> seen[r].email, clientId |-> uid[r]]}
        /\ UNCHANGED <<users, prefs>>
    BY <1>3, <2>1 DEF ReadPref
  <2> QED
    BY <1>1, <2>2 DEF TokensOfCompleteAccounts, PrefVisible, UserVisible, PrefLive
<1> QED
  BY <1>2, <1>3

-----------------------------------------------------------------------------
(* What requests are answerable for *)

LEMMA TornStep ==
  ASSUME Inv, NEW r \in Requests, Receive(r) \/ Step(r) \/ Abort(r)
  PROVE  TornAccountsHaveACause'
<1> SUFFICES ASSUME NEW u \in Ids, UserVisible(u)', ~PrefLive(u)'
             PROVE  (\E q \in Requests :
                       IF prefs[u] = NULL
                         THEN Creates(q, u) /\ (pc[q] = "insertPref" \/ answer[q] = "internal")
                         ELSE Deletes(q, u) /\ (pc[q] = "deleteUser" \/ answer[q] = "internal"))'
  BY DEF TornAccountsHaveACause
<1> USE DEF Inv
<1>1. CASE UserVisible(u) /\ ~PrefLive(u) /\ (prefs[u] = NULL <=> prefs'[u] = NULL)
  \* The account was torn before, and the witness of then still is one.
  <2>1. PICK q \in Requests :
          IF prefs[u] = NULL
            THEN Creates(q, u) /\ (pc[q] = "insertPref" \/ answer[q] = "internal")
            ELSE Deletes(q, u) /\ (pc[q] = "deleteUser" \/ answer[q] = "internal")
    BY <1>1 DEF TornAccountsHaveACause
  <2>2. CASE q # r
    BY <1>1, <2>1, <2>2, OthersStay DEF Creates, Deletes
  <2>3. CASE q = r
    <3>1. answer[r] = "internal" => pc[r] = "done"
      BY NullAssumption DEF Answered, Answers
    <3>2. pc[r] \in {"insertPref", "deleteUser"}
      BY <2>1, <2>3, <3>1 DEF Step, Receive, Abort, FindByEmail, InsertUser, InsertPref,
         ReadUser, ReadPref, UpdateUser, ReloadUser, UpdatePref, ReloadPref, DeletePref,
         DeleteUser, ViewUser, ViewPref, At, DbCalls
    <3>3. CASE Abort(r)
      BY <1>1, <2>1, <2>3, <3>3 DEF Abort, Answer, TypeOK, Creates, Deletes
    <3>4. CASE InsertPref(r)
      <4>1. uid[r] = u /\ prefs[u] = NULL /\ prefs'[u] = NULL
        BY <1>1, <2>1, <2>3, <3>1, <3>4 DEF InsertPref, At, Creates, Deletes
      <4>2. pc'[r] = "view"
        BY <3>4, <4>1 DEF InsertPref, Goto, TypeOK
      <4> QED
        BY <3>4, <4>1, <4>2, InsertPrefRow, NullAssumption
    <3>5. CASE DeleteUser(r)
      <4>1. uid[r] = u
        BY <2>1, <2>3, <3>1, <3>5 DEF DeleteUser, At, Creates, Deletes
      <4> QED
        BY <3>5, <4>1, DeleteUserRow DEF UserVisible
    <3> QED
      BY <3>2, <3>3, <3>4, <3>5
      DEF Step, Receive, FindByEmail, InsertUser, ReadUser, ReadPref, UpdateUser, ReloadUser,
          UpdatePref, ReloadPref, DeletePref, ViewUser, ViewPref, At
  <2> QED
    BY <2>2, <2>3
<1>2. CASE users'[u] = users[u] /\ prefs'[u] = prefs[u]
  BY <1>1, <1>2 DEF UserVisible, PrefLive
<1>3. CASE InsertUser(r) /\ users'[u] # users[u]
  <2>1. prefs' = prefs /\ call' = call /\ call[r].op = "create" /\ call[r] # NULL
    BY <1>3 DEF InsertUser, At, Called
  <2>2. prefs[u] = NULL /\ uid' = [uid EXCEPT ![r] = u] /\ Goto(r, "insertPref")
    BY <1>3, InsertUserRow
  <2> QED
    BY <2>1, <2>2 DEF Goto, Creates, TypeOK
<1>4. CASE DeletePref(r) /\ prefs'[u] # prefs[u]
  <2>1. uid[r] = u /\ prefs'[u] # NULL
    BY <1>4, DeletePrefRow, NullAssumption
  <2>2. /\ pc'[r] = "deleteUser" /\ call' = call /\ uid' = uid
        /\ call[r] # NULL /\ call[r].op = "delete"
    BY <1>4 DEF DeletePref, At, Goto, TypeOK, Called
  <2> QED
    BY <2>1, <2>2 DEF Deletes
<1>5. CASE InsertPref(r) /\ prefs'[u] # prefs[u]
  BY <1>5, InsertPrefRow, NullAssumption DEF PrefLive
<1>6. CASE DeleteUser(r) /\ users'[u] # users[u]
  BY <1>6, DeleteUserRow DEF UserVisible
<1>7. CASE UpdateUser(r) /\ users'[u] # users[u]
  <2>1. prefs' = prefs
    BY <1>7 DEF UpdateUser
  <2>2. users[u] # NULL /\ users'[u].live = users[u].live
    BY <1>7, UpdateUserRow
  <2> QED
    BY <1>1, <2>1, <2>2 DEF UserVisible, PrefLive
<1>8. CASE UpdatePref(r) /\ prefs'[u] # prefs[u]
  <2>1. users' = users /\ uid[r] = u /\ prefs[u] # NULL
    BY <1>8, UpdatePrefRow DEF UpdatePref, At, Allowed, Managing
  <2>2. prefs'[u] # NULL /\ prefs'[u].live = prefs[u].live
    BY <1>8, <2>1, UpdatePrefRow, NullAssumption
  <2> QED
    BY <1>1, <2>1, <2>2 DEF UserVisible, PrefLive
<1> QED
  BY <1>2, <1>3, <1>4, <1>5, <1>6, <1>7, <1>8
  DEF Step, Receive, Abort, FindByEmail, InsertUser, InsertPref, ReadUser, ReadPref,
      UpdateUser, ReloadUser, UpdatePref, ReloadPref, DeletePref, DeleteUser, ViewUser, ViewPref

LEMMA OkStep ==
  ASSUME Inv, NEW r \in Requests, Receive(r) \/ Step(r) \/ Abort(r)
  PROVE  OkIsDurable'
<1> SUFFICES ASSUME NEW q \in Requests, answer'[q] = "ok",
                    (call[q].op \in {"create", "delete"})'
             PROVE  (/\ users[uid[q]] # NULL /\ prefs[uid[q]] # NULL
                     /\ call[q].op = "delete" => ~users[uid[q]].live /\ ~prefs[uid[q]].live)'
  BY DEF OkIsDurable
<1> USE DEF Inv
<1>1. CASE answer[q] = "ok"
  <2>1. pc[q] = "done" /\ uid[q] \in Ids
    BY <1>1, NullAssumption DEF Answered, Answers, TypeOK
  <2>2. call'[q] = call[q] /\ uid'[q] = uid[q]
    BY <2>1, OthersStay DEF Step, Receive, Abort, FindByEmail, InsertUser, InsertPref,
       ReadUser, ReadPref, UpdateUser, ReloadUser, UpdatePref, ReloadPref, DeletePref,
       DeleteUser, ViewUser, ViewPref, At, DbCalls
  <2> QED
    BY <1>1, <2>1, <2>2, RowsPersist DEF OkIsDurable
<1>2. CASE answer[q] # "ok"
  <2>1. q = r
    BY <1>2, OthersStay
  <2>2. CASE DeleteUser(r)
    <3>1. /\ call'[r].op = "delete" /\ uid'[r] = uid[r]
          /\ prefs' = prefs /\ ~prefs[uid[r]].live /\ prefs[uid[r]] # NULL
      BY <2>2 DEF DeleteUser, At, PreferenceGone, Allowed, Managing
    <3> QED
      BY <2>1, <2>2, <3>1, DeleteUserRow, NullAssumption
  <2>3. CASE ViewUser(r) \/ ViewPref(r)
    <3>1. Created(r) /\ pc[r] \in Views /\ UNCHANGED <<users, prefs, call, uid>>
      BY <2>3 DEF ViewUser, ViewPref, Views
    <3> QED
      BY <2>1, <3>1 DEF Created
  <2>4. CASE ReadPref(r)
    <3>1. call'[r].op # "login" /\ answer'[r] = "ok" /\ answer[r] # "ok"
          /\ answer \in [Requests -> Answers \cup {NULL}]
      BY <1>2, <2>1 DEF TypeOK
    <3> QED
      BY <2>4, <3>1 DEF ReadPref, Keep, Answer
  <2>5. ReadPref(r) \/ DeleteUser(r) \/ ViewUser(r) \/ ViewPref(r)
    <3>1. answer \in [Requests -> Answers \cup {NULL}] /\ answer'[r] = "ok" /\ answer[r] # "ok"
      BY <1>2, <2>1 DEF TypeOK
    <3>2. ~Receive(r) /\ ~Abort(r)
      BY <3>1 DEF Receive, Abort, Goto, Answer
    <3>3. ~FindByEmail(r) /\ ~InsertUser(r) /\ ~InsertPref(r) /\ ~ReadUser(r)
      BY <3>1 DEF FindByEmail, InsertUser, InsertPref, ReadUser, Goto, Keep, Answer
    <3>4. ~UpdateUser(r) /\ ~ReloadUser(r) /\ ~UpdatePref(r) /\ ~ReloadPref(r) /\ ~DeletePref(r)
      BY <3>1 DEF UpdateUser, ReloadUser, UpdatePref, ReloadPref, DeletePref, Goto, Answer
    <3> QED
      BY <3>2, <3>3, <3>4 DEF Step
  <2> QED
    BY <2>2, <2>3, <2>4, <2>5
<1> QED
  BY <1>1, <1>2

-----------------------------------------------------------------------------
(* The theorems *)

LEMMA InvStep == Inv /\ [Next]_vars => Inv'
<1> SUFFICES ASSUME Inv, [Next]_vars PROVE Inv'
  OBVIOUS
<1>1. ASSUME NEW r \in Requests, Receive(r) \/ Step(r) \/ Abort(r)
      PROVE  Inv'
  <2>1. TypeOK' /\ TokensOfCompleteAccounts' /\ TornAccountsHaveACause' /\ OkIsDurable'
    BY <1>1, TypeStep, TokensStep, TornStep, OkStep
  <2>2. (/\ PreferenceHasUser /\ OneRowPerEmail
         /\ DeletedLeavesNoPreference /\ DeletedByOwner)'
    BY <1>1, TablesStep
  <2>3. ASSUME NEW q \in Requests
        PROVE  (/\ Called(q) /\ Answered(q) /\ Identified(q) /\ Noted(q)
                /\ Allowed(q) /\ PreferenceGone(q) /\ Created(q))'
    BY <1>1, ReceiveControl, StepControl, OthersControl
  <2> QED
    BY <2>1, <2>2, <2>3 DEF Inv
<1>2. CASE UNCHANGED vars
  BY <1>2
  DEF vars, Inv, TypeOK, Called, Answered, Identified, Noted, Allowed, PreferenceGone,
      Created, PreferenceHasUser, OneRowPerEmail, DeletedLeavesNoPreference, DeletedByOwner,
      TokensOfCompleteAccounts, TornAccountsHaveACause, OkIsDurable, UserVisible, PrefLive,
      Creates, Deletes
<1> QED
  BY <1>1, <1>2 DEF Next, AllAnswered

\* Every reachable state satisfies the inductive invariant.
THEOREM Invariance == Spec => []Inv
BY InitInv, InvStep, PTL DEF Spec

\* Every variable keeps its type; in particular no query ever runs on the row
\* of an undefined id.
THEOREM TypeCorrect == Spec => []TypeOK
<1>1. Inv => TypeOK
  BY DEF Inv
<1> QED
  BY <1>1, Invariance, PTL

\* Create and update, although they check nothing or check too early, never
\* leave two rows of Users with the same e-mail.
THEOREM EmailsUnique == Spec => []OneRowPerEmail
<1>1. Inv => OneRowPerEmail
  BY DEF Inv
<1> QED
  BY <1>1, Invariance, PTL

\* The order of the two soft deletes and the updates that write no deletedAt
\* keep a deleted user from having a live preference.
THEOREM NoOrphanedPreference == Spec => []DeletedLeavesNoPreference
<1>1. Inv => DeletedLeavesNoPreference
  BY DEF Inv
<1> QED
  BY <1>1, Invariance, PTL

\* isAllowedToManageUser compares the id as well as the e-mail, so that only
\* its owner deletes an account, even when e-mails change hands.
THEOREM OwnersDelete == Spec => []DeletedByOwner
<1>1. Inv => DeletedByOwner
  BY DEF Inv
<1> QED
  BY <1>1, Invariance, PTL

\* Login reads both rows before it signs: an account cut in two by a failed
\* create never gets a token.
THEOREM NoTokenForTornAccounts == Spec => []TokensOfCompleteAccounts
<1>1. Inv => TokensOfCompleteAccounts
  BY DEF Inv
<1> QED
  BY <1>1, Invariance, PTL

\* An account with one live row of two is the work of a create or a delete
\* that is between its writes or answered "internal".
THEOREM TornExplained == Spec => []TornAccountsHaveACause
<1>1. Inv => TornAccountsHaveACause
  BY DEF Inv
<1> QED
  BY <1>1, Invariance, PTL

\* What the client was told by the "ok" of a create or of a delete stays true.
THEOREM OkDurable == Spec => []OkIsDurable
<1>1. Inv => OkIsDurable
  BY DEF Inv
<1> QED
  BY <1>1, Invariance, PTL

LEMMA WriterStep ==
  ASSUME Inv, NEW r \in Requests, Receive(r) \/ Step(r) \/ Abort(r)
  PROVE  WritesByOwner
<1> SUFFICES ASSUME NEW u \in Ids,
                    \/ users[u] # NULL /\ users'[u] # users[u]
                    \/ prefs[u] # NULL /\ prefs'[u] # prefs[u]
             PROVE  \E q \in Requests : /\ pc'[q] # pc[q]
                                        /\ call[q].agent # NULL /\ call[q].agent.clientId = u
  BY DEF WritesByOwner
<1>1. (UpdateUser(r) /\ users' # users) \/ UpdatePref(r) \/ DeletePref(r) \/ DeleteUser(r)
  <2>1. ~InsertUser(r)
    BY InsertUserRow DEF InsertUser
  <2>2. ~InsertPref(r)
    BY InsertPrefRow DEF InsertPref
  <2>3. ~UNCHANGED <<users, prefs>>
    OBVIOUS
  <2> QED
    BY <2>1, <2>2, <2>3 DEF Step, Receive, Abort, FindByEmail, ReadUser, ReadPref, UpdateUser,
       ReloadUser, ReloadPref, ViewUser, ViewPref
<1>2. pc[r] \in Managing /\ pc[r] \in RowKnown
  BY <1>1 DEF UpdateUser, UpdatePref, DeletePref, DeleteUser, At, Managing, RowKnown
<1>3. call[r].agent \in Token /\ call[r].agent.clientId = uid[r]
  BY <1>2, KnownRows
<1>4. uid[r] = u
  BY <1>1, UpdateUserRow, UpdatePrefRow, DeletePrefRow, DeleteUserRow
  DEF UpdateUser, UpdatePref, DeletePref, DeleteUser
<1>5. pc'[r] # pc[r]
  BY <1>1 DEF UpdateUser, UpdatePref, DeletePref, DeleteUser, At, Goto, Answer, Inv, TypeOK
<1> QED
  BY <1>3, <1>4, <1>5, NullAssumption

\* An existing row is only written by a request whose token names that user:
\* the permission check, made on a copy read earlier, is never outrun.
THEOREM OwnersWrite == Spec => OnlyOwnerWrites
<1>1. Inv /\ [Next]_vars => [WritesByOwner]_vars
  <2> SUFFICES ASSUME Inv, Next PROVE WritesByOwner \/ UNCHANGED vars
    OBVIOUS
  <2> QED
    BY WriterStep DEF Next, AllAnswered
<1> QED
  BY <1>1, Invariance, PTL DEF Spec, OnlyOwnerWrites

-----------------------------------------------------------------------------
(* Refinement *)

\* A step that changes no status and no e-mail is a stutter of the account.
LEMMA StutterLifecycle ==
  ASSUME \A u \in Ids : StatusOf(u)' = StatusOf(u) /\ EmailOf(u)' = EmailOf(u)
  PROVE  UNCHANGED Lifecycle!vars
BY DEF Lifecycle!vars

LEMMA MoveLifecycle ==
  ASSUME NEW u \in Ids, NEW from, NEW to, StatusOf(u) = from, StatusOf(u)' = to,
         \A v \in Ids \ {u} : StatusOf(v)' = StatusOf(v),
         \A v \in Ids : EmailOf(v)' = EmailOf(v)
  PROVE  Lifecycle!Move(u, from, to)
BY DEF Lifecycle!Move

LEMMA LifecycleInit == Init => Lifecycle!Init
<1> SUFFICES ASSUME Init PROVE Lifecycle!Init
  OBVIOUS
<1>1. TypeOK /\ DeletedByOwner
  BY InitInv DEF Inv
<1>2. \A u \in Ids : IF u \in Seeded
        THEN StatusOf(u) = "complete" /\ EmailOf(u) = SeedEmail[u]
        ELSE StatusOf(u) = "absent" /\ EmailOf(u) = NULL
  <2> TAKE u \in Ids
  <2>1. CASE u \in Seeded
    <3>1. users[u] = [email |-> SeedEmail[u], live |-> TRUE, deletedBy |-> NULL]
          /\ prefs[u] = [theme |-> SeedTheme, live |-> TRUE]
      BY <2>1 DEF Init
    <3>2. users[u] \in UserRow /\ prefs[u] \in PrefRow
      BY <3>1, <2>1, SeedAssumption DEF UserRow, PrefRow
    <3>3. users[u] # NULL /\ prefs[u] # NULL
      BY <3>2, NullAssumption
    <3>4. users[u].email = SeedEmail[u]
      BY <3>1
    <3>5. users[u].live /\ prefs[u].live
      BY <3>1
    <3> QED
      BY <2>1, <3>3, <3>4, <3>5 DEF StatusOf, EmailOf
  <2>2. CASE u \notin Seeded
    BY <2>2 DEF Init, StatusOf, EmailOf
  <2> QED
    BY <2>1, <2>2
<1> QED
  BY <1>2, SeedAssumption, NullAssumption DEF Lifecycle!Init

LEMMA LifecycleStep ==
  ASSUME Inv, NEW r \in Requests, Receive(r) \/ Step(r) \/ Abort(r)
  PROVE  [Lifecycle!Next]_(Lifecycle!vars)
<1> USE DEF Inv
<1>1. CASE InsertUser(r) /\ users' # users
  <2>1. prefs' = prefs /\ call[r].email \in Emails
    BY <1>1 DEF InsertUser, At, Called, TypeOK, Call, DbCalls
  <2>2. PICK u \in Ids :
          /\ users[u] = NULL /\ prefs[u] = NULL
          /\ users'[u] \in UserRow /\ users'[u].live /\ users'[u].deletedBy = NULL
          /\ users'[u].email = call[r].email /\ ~EmailTaken(call[r].email, NULL)
          /\ \A v \in Ids \ {u} : users'[v] = users[v]
    BY <1>1, InsertUserRow
  <2>3. StatusOf(u) = "absent" /\ StatusOf(u)' = "registered" /\ EmailOf(u)' = call[r].email
    BY <2>1, <2>2, NullAssumption DEF StatusOf, EmailOf
  <2>4. \A v \in Ids \ {u} : StatusOf(v)' = StatusOf(v) /\ EmailOf(v)' = EmailOf(v)
    BY <2>1, <2>2 DEF StatusOf, EmailOf
  <2>5. \A v \in Ids : EmailOf(v) # call[r].email
    BY <2>1, <2>2, NullAssumption DEF EmailOf, EmailTaken
  <2>6. Lifecycle!Register(u, call[r].email)
    BY <2>3, <2>4, <2>5 DEF Lifecycle!Register, Lifecycle!Free
  <2> QED
    BY <2>1, <2>6 DEF Lifecycle!Next
<1>2. CASE InsertPref(r) /\ prefs' # prefs
  <2>1. PICK u \in Ids :
          /\ users' = users /\ users[u] # NULL /\ users[u].live /\ prefs[u] = NULL
          /\ prefs'[u] # NULL /\ prefs'[u].live
          /\ \A v \in Ids \ {u} : prefs'[v] = prefs[v]
    BY <1>2, InsertPrefRow, NullAssumption DEF InsertPref
  <2>2. StatusOf(u) = "registered" /\ StatusOf(u)' = "complete"
    BY <2>1 DEF StatusOf
  <2>3. /\ \A v \in Ids \ {u} : StatusOf(v)' = StatusOf(v)
        /\ \A v \in Ids : EmailOf(v)' = EmailOf(v)
    BY <2>1 DEF StatusOf, EmailOf
  <2>4. Lifecycle!Complete(u)
    BY <2>1, <2>2, <2>3, MoveLifecycle DEF Lifecycle!Complete
  <2> QED
    BY <2>1, <2>4 DEF Lifecycle!Next
<1>3. CASE UpdateUser(r) /\ users' # users
  <2>1. /\ prefs' = prefs /\ prefs[uid[r]] # NULL /\ call[r].email \in Emails
    BY <1>3 DEF UpdateUser, At, Allowed, Managing, Called, DbCalls, TypeOK, Call
  <2>2. PICK u \in Ids, e \in Emails :
          /\ prefs[u] # NULL /\ users[u] # NULL /\ ~EmailTaken(e, u)
          /\ users'[u] # NULL /\ users'[u].email = e /\ users'[u].live = users[u].live
          /\ \A v \in Ids \ {u} : users'[v] = users[v]
    BY <1>3, <2>1, UpdateUserRow, NullAssumption
  <2>3. \A v \in Ids : StatusOf(v)' = StatusOf(v)
    BY <2>1, <2>2 DEF StatusOf
  <2>4. EmailOf(u)' = e /\ \A v \in Ids \ {u} : EmailOf(v)' = EmailOf(v)
    BY <2>2 DEF EmailOf
  <2>5. CASE EmailOf(u) = e
    BY <2>3, <2>4, <2>5, StutterLifecycle
  <2>6. CASE EmailOf(u) # e
    <3>1. \A v \in Ids : EmailOf(v) # e
      BY <2>1, <2>2, <2>6, NullAssumption DEF EmailOf, EmailTaken
    <3>2. StatusOf(u) \in {"complete", "closing", "closed"}
      BY <2>1, <2>2 DEF StatusOf
    <3>3. Lifecycle!Rename(u, e)
      BY <2>2, <2>3, <2>4, <3>1, <3>2 DEF Lifecycle!Rename, Lifecycle!Free
    <3> QED
      BY <2>1, <2>2, <3>3 DEF Lifecycle!Next
  <2> QED
    BY <2>5, <2>6
<1>4. CASE UpdatePref(r)
  <2>1. /\ users' = users /\ prefs[uid[r]] # NULL /\ prefs'[uid[r]] # NULL
        /\ prefs'[uid[r]].live = prefs[uid[r]].live
        /\ \A v \in Ids \ {uid[r]} : prefs'[v] = prefs[v]
    BY <1>4, UpdatePrefRow, NullAssumption DEF UpdatePref, At, Allowed, Managing
  <2>2. \A v \in Ids : StatusOf(v)' = StatusOf(v) /\ EmailOf(v)' = EmailOf(v)
    BY <2>1 DEF StatusOf, EmailOf
  <2> QED
    BY <2>2, StutterLifecycle
<1>5. CASE DeletePref(r)
  <2>1. PICK u \in Ids :
          /\ users' = users /\ users[u] # NULL /\ prefs[u] # NULL
          /\ prefs'[u] # NULL /\ ~prefs'[u].live
          /\ \A v \in Ids \ {u} : prefs'[v] = prefs[v]
    BY <1>5, DeletePrefRow, KnownRows, NullAssumption
    DEF DeletePref, At, Allowed, Managing, RowKnown
  <2>2. /\ \A v \in Ids \ {u} : StatusOf(v)' = StatusOf(v)
        /\ \A v \in Ids : EmailOf(v)' = EmailOf(v)
    BY <2>1 DEF StatusOf, EmailOf
  <2>3. CASE users[u].live /\ prefs[u].live
    <3>1. StatusOf(u) = "complete" /\ StatusOf(u)' = "closing"
      BY <2>1, <2>3 DEF StatusOf
    <3>2. Lifecycle!Suspend(u)
      BY <2>1, <2>2, <3>1, MoveLifecycle DEF Lifecycle!Suspend
    <3> QED
      BY <2>1, <3>2 DEF Lifecycle!Next
  <2>4. CASE ~(users[u].live /\ prefs[u].live)
    <3>1. StatusOf(u)' = StatusOf(u)
      BY <2>1, <2>4 DEF StatusOf
    <3> QED
      BY <2>2, <3>1, StutterLifecycle
  <2> QED
    BY <2>3, <2>4
<1>6. CASE DeleteUser(r)
  <2>1. /\ prefs' = prefs /\ uid[r] \in Ids /\ users[uid[r]] # NULL
        /\ prefs[uid[r]] # NULL /\ ~prefs[uid[r]].live
    BY <1>6, KnownRows, NullAssumption
    DEF DeleteUser, At, Allowed, Managing, RowKnown, PreferenceGone
  <2>2. PICK u \in Ids :
          /\ users[u] # NULL /\ prefs[u] # NULL /\ ~prefs[u].live
          /\ users'[u] # NULL /\ ~users'[u].live /\ users'[u].email = users[u].email
          /\ \A v \in Ids \ {u} : users'[v] = users[v]
    BY <1>6, <2>1, DeleteUserRow, NullAssumption
  <2>3. /\ \A v \in Ids \ {u} : StatusOf(v)' = StatusOf(v)
        /\ \A v \in Ids : EmailOf(v)' = EmailOf(v)
    BY <2>1, <2>2 DEF StatusOf, EmailOf
  <2>4. StatusOf(u)' = "closed"
    BY <2>2 DEF StatusOf
  <2>5. CASE users[u].live
    <3>1. StatusOf(u) = "closing"
      BY <2>2, <2>5 DEF StatusOf
    <3>2. Lifecycle!Close(u)
      BY <2>1, <2>3, <2>4, <3>1, MoveLifecycle DEF Lifecycle!Close
    <3> QED
      BY <2>1, <3>2 DEF Lifecycle!Next
  <2>6. CASE ~users[u].live
    <3>1. StatusOf(u) = "closed"
      BY <2>2, <2>6 DEF StatusOf
    <3> QED
      BY <2>3, <2>4, <3>1, StutterLifecycle
  <2> QED
    BY <2>5, <2>6
<1>7. CASE UNCHANGED <<users, prefs>>
  <2>1. \A v \in Ids : StatusOf(v)' = StatusOf(v) /\ EmailOf(v)' = EmailOf(v)
    BY <1>7 DEF StatusOf, EmailOf
  <2> QED
    BY <2>1, StutterLifecycle
<1> QED
  BY <1>1, <1>2, <1>3, <1>4, <1>5, <1>6, <1>7
  DEF Step, Receive, Abort, FindByEmail, InsertUser, InsertPref, ReadUser, ReadPref,
      UpdateUser, ReloadUser, ReloadPref, ViewUser, ViewPref

\* The interleaved queries of the use cases implement the life of an account:
\* registered, completed, renamed, closed preference first, never reopened.
THEOREM Refinement == Spec => ImplementsLifecycle
<1>1. Inv /\ [Next]_vars => [Lifecycle!Next]_(Lifecycle!vars)
  <2> SUFFICES ASSUME Inv, [Next]_vars PROVE [Lifecycle!Next]_(Lifecycle!vars)
    OBVIOUS
  <2>1. CASE UNCHANGED vars
    <3>1. \A v \in Ids : StatusOf(v)' = StatusOf(v) /\ EmailOf(v)' = EmailOf(v)
      BY <2>1 DEF vars, StatusOf, EmailOf
    <3> QED
      BY <3>1, StutterLifecycle
  <2> QED
    BY <2>1, LifecycleStep DEF Next, AllAnswered
<1> QED
  BY <1>1, LifecycleInit, Invariance, PTL DEF Spec, ImplementsLifecycle, Lifecycle!Spec
=============================================================================
