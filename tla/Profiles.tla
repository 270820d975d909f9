------------------------------- MODULE Profiles -------------------------------
(***************************************************************************)
(* The fields of an account on their way through the program: from the     *)
(* body of a request, by the validation, the entity and the mapper, to the *)
(* columns of two rows, and from there to the answer.  The requests create,*)
(* login, get and update run query by query.  Who may act for whom, and    *)
(* what a deletion leaves, are in UserAccounts: here an account stays, and *)
(* an update comes with the id of its token.                               *)
(***************************************************************************)
EXTENDS Calls, FiniteSets

CONSTANTS People,    \* keys of the table Users
          Texts,     \* what a field may be, "" for one that is blank
          Digits(_), \* what is left of a text without all but its digits
          Strong,    \* the texts that passwordPattern accepts
          Hash(_),   \* hash of a password: its characters count by their low bytes
          Null       \* SQL NULL; null or undefined in an entity

ASSUME TextsAssumption == /\ {"", "DEFAULT"} \subseteq Texts
                          /\ \A x \in Texts : Digits(x) \in Texts /\ Hash(x) \in Texts
                          /\ Null \notin Texts

VARIABLES
  people, \* key -> its row of Users and its row of UserPreferences, if any
  work    \* request -> what it was given, has read, shows, and its next query

profiles == <<people, work>>

-----------------------------------------------------------------------------
(* Fields *)

Required == {"fullName", "email", "password"}
Details == {"phone", "docType", "document", "fu"}
Columns == Required \cup Details
PreferenceColumns == {"imagePath", "defaultTheme"}
LoginFields == {"email", "password"}
Themes == {"DEFAULT", "LIGHT", "DARK"}

Blank(columns) == [c \in columns |-> {}]
Body(fields, preference) == [user |-> fields, preference |-> preference]

StrongPassword(field) == field \subseteq Strong

\* The schemas.  A detail may be blank; a name, an e-mail or a password may not.
Acceptable(body) ==
  /\ \A c \in Required : "" \notin body.user[c]
  /\ StrongPassword(body.user["password"])
  /\ \A p \in body.preference : p["defaultTheme"] \subseteq Themes

Complete(body) == \A c \in Required : body.user[c] # {}

Credentials(body) == /\ body.preference = {}
                     /\ \A c \in Columns : body.user[c] # {} <=> c \in LoginFields

Accepted(op, body) == /\ Acceptable(body)
                      /\ op = "create" => Complete(body)
                      /\ op = "login" => Credentials(body)

\* Only the digits of a document are kept, and a detail that is blank, by then, is
\* as if it were absent.
OnlyDigits(field) == {Digits(x) : x \in field}

Cleaned(fields) ==
  [c \in Columns |-> CASE c = "document" -> OnlyDigits(fields[c]) \ {""}
                       [] c \in Details \ {"document"} -> fields[c] \ {""}
                       [] OTHER -> fields[c]]

\* The default theme is that of a preference without one, not that of none.
CleanedPreference(op, p) ==
  [imagePath |-> p.imagePath \ {""},
   defaultTheme |-> IF op = "create" THEN {Or(p.defaultTheme, "DEFAULT")} ELSE p.defaultTheme]

Parsed(op, body) == Body(Cleaned(body.user), {CleanedPreference(op, p) : p \in body.preference})

\* What the constructors of the entities keep, and what getAttributes gives back.
Entity(fields) == [c \in DOMAIN fields |-> Or(fields[c], Null)]

\* Mutant: a detail that is null is given back as null.
NullableAttributes(e) == [c \in DOMAIN e |-> IF c \in Details THEN {e[c]} ELSE {e[c]} \ {Null}]

Attributes(e) == [c \in DOMAIN e |-> {e[c]} \ {Null}]

\* A row that is read, but for the columns that are not selected.
Loaded(row, hidden) == [c \in DOMAIN row |-> IF c \in hidden THEN Null ELSE row[c]]

\* getById, with the sensitive columns always.
Hidden(withoutPassword) == IF withoutPassword THEN {"password"} ELSE {}

HashOf(field) == {Hash(x) : x \in field}
Protected(fields) == [fields EXCEPT !["password"] = HashOf(@)]
WithoutPassword(e) == [e EXCEPT !["password"] = ""]

\* TypeORM leaves out of an UPDATE what is undefined.
Merged(row, attributes) == [c \in DOMAIN row |-> Or(attributes[c], row[c])]

\* Mutant: it takes a change of every field that is given.
StrictMustUpdate(e, fields) == /\ \E c \in DOMAIN fields : fields[c] # {}
                               /\ \A c \in DOMAIN fields : fields[c] # {e[c]}

\* A password is always a change: the entity was read without.
MustUpdate(e, fields) == \E c \in DOMAIN fields : fields[c] # {} /\ fields[c] # {e[c]}

-----------------------------------------------------------------------------
(* State *)

Nobody == [user |-> {}, preference |-> {}]
RowsOver(columns) == [columns -> Texts \cup {Null}]

NoEntity == [user |-> Entity(Blank(Columns)), preference |-> Entity(Blank(PreferenceColumns))]
Entities == [user : RowsOver(Columns), preference : RowsOver(PreferenceColumns)]

NoWork == [op |-> "none", next |-> "none", id |-> {}, agent |-> "",
           body |-> Body(Blank(Columns), {}), seen |-> NoEntity, shown |-> {}]

Pending == {"find", "insert", "insertPreference", "look", "lookPreference",
            "write", "writePreference", "view"}
Done == {"ok", "created"}
Ends == Done \cup {"conflict", "notFound", "unauthorized", "business", "internal"}

\* The tables: an account without a user has no preference.
Tables == {t \in [People -> [user : Optional(RowsOver(Columns)),
                             preference : Optional(RowsOver(PreferenceColumns))]] :
             \A p \in People : t[p].user = {} => t[p].preference = {}}

\* What a request comes with: only those of get and update name an account.
ProfileBodies == [user : [Columns -> Optional(Texts)],
                  preference : Optional([PreferenceColumns -> Optional(Texts)])]
ProfileData(op) == {d \in [id : Optional(People), agent : Texts, body : ProfileBodies] :
                      d.id = {} <=> op \in {"create", "login"}}

ProfilesOK ==
  /\ people \in Tables
  /\ \A r \in Requests : /\ work[r].next \in Pending \cup Ends \cup {"none"}
                         /\ work[r].seen \in Entities
                         /\ work[r].id \in Optional(People)

Go(r, w, next) == work' = [work EXCEPT ![r] = [w EXCEPT !.next = next]]
Id(r) == CHOOSE p \in People : work[r].id = {p}

\* What a body sets: of the user, and of the preference, which may not be given.
Preference(w) == Or(w.body.preference, Blank(PreferenceColumns))
UserValues(w) == Attributes(Entity(Protected(w.body.user)))
PreferenceValues(w) == Attributes(Entity(Preference(w)))

\* The row of an account there is, and the accounts with an e-mail.
Row(p) == CHOOSE row \in people[p].user : TRUE
With(e) == {p \in People : \E row \in people[p].user : {row["email"]} = e}

-----------------------------------------------------------------------------
(* Operations *)

\* The body is valid; agent is the e-mail of the token.
BeginProfile(r, op, d) ==
  /\ Go(r, [NoWork EXCEPT !.op = op, !.id = d.id, !.agent = d.agent, !.body = Parsed(op, d.body)],
        CASE op \in {"create", "login"} -> "find" [] op = "get" -> "view" [] op = "update" -> "look")
  /\ UNCHANGED people

Find(r) == LET w == work[r] IN
  /\ w.next = "find"
  /\ \/ /\ w.op = "create"
        /\ Go(r, w, IF With(w.body.user["email"]) # {} THEN "conflict" ELSE "insert")
     \/ /\ w.op = "login" /\ With(w.body.user["email"]) = {}
        /\ Go(r, w, "notFound")
     \/ \E p \in With(w.body.user["email"]) :
          w.op = "login" /\ Go(r, [w EXCEPT !.id = {p}], "look")
  /\ UNCHANGED people

\* The e-mails are unique in the table.
Insert(r) == LET w == work[r] IN
  /\ w.next = "insert"
  /\ \/ With(w.body.user["email"]) # {} /\ Go(r, w, "internal") /\ UNCHANGED people
     \/ \E p \in People :
          /\ With(w.body.user["email"]) = {} /\ people[p] = Nobody
          /\ people' = [people EXCEPT ![p].user = {Entity(UserValues(w))}]
          /\ Go(r, [w EXCEPT !.id = {p}], "insertPreference")

InsertPreference(r) == LET w == work[r] IN
  /\ w.next = "insertPreference"
  /\ people' = [people EXCEPT ![Id(r)].preference = {Entity(PreferenceValues(w))}]
  /\ Go(r, w, "view")

\* An account that its registration left without a preference is read with an
\* empty one.
Joined(p) == Entity(Attributes(Or(people[p].preference, Entity(Blank(PreferenceColumns)))))

SameHash(w, row) == HashOf(w.body.user["password"]) = {row["password"]}

Look(r) == LET w == work[r] IN
  /\ w.next = "look"
  /\ IF people[Id(r)].user = {} THEN Go(r, w, "internal")
       ELSE Go(r, [w EXCEPT !.seen = [user |-> Loaded(Row(Id(r)), Hidden(w.op = "update")),
                                      preference |-> Joined(Id(r))]],
               IF w.op = "login" /\ ~SameHash(w, Row(Id(r))) THEN "unauthorized"
                                                             ELSE "lookPreference")
  /\ UNCHANGED people

\* The e-mail of the token and that of the row, not that of the body.
MayUpdate(w) == w.agent = w.seen.user["email"]

MustUpdatePreference(e, w) == MustUpdate(e, Preference(w))
AfterWrite(w) == IF MustUpdatePreference(w.seen.preference, w) THEN "writePreference" ELSE "view"

\* The preference that came with the user decides, with its fields, about the row of
\* the user; the one that is read now decides about its own.
FirstWrite(joined, w) ==
  IF MustUpdate(w.seen.user, w.body.user) \/ MustUpdatePreference(joined, w)
    THEN "write" ELSE AfterWrite(w)

\* A login shows the account without its password.
LookPreference(r) ==
  LET w == work[r]
      read == [w EXCEPT !.seen.preference = Joined(Id(r))]
  IN /\ w.next = "lookPreference"
     /\ CASE people[Id(r)].preference = {} -> Go(r, w, "internal")
          [] people[Id(r)].preference # {} /\ w.op = "login" ->
               Go(r, [read EXCEPT !.seen.user = WithoutPassword(@)], "ok")
          [] people[Id(r)].preference # {} /\ w.op = "update" ->
               Go(r, read, IF MayUpdate(w) THEN FirstWrite(w.seen.preference, read) ELSE "business")
     /\ UNCHANGED people

\* The row is read again: it is there.
Write(r) == LET w == work[r] IN
  /\ w.next = "write"
  /\ \/ /\ With(w.body.user["email"]) \ w.id # {}
        /\ Go(r, w, "internal") /\ UNCHANGED people
     \/ /\ With(w.body.user["email"]) \ w.id = {}
        /\ people' = [people EXCEPT ![Id(r)].user = {Merged(Row(Id(r)), UserValues(w))}]
        /\ Go(r, w, AfterWrite(w))

WritePreference(r) == LET w == work[r] IN
  /\ w.next = "writePreference"
  /\ people' = [people EXCEPT ![Id(r)].preference =
                  {Merged(row, PreferenceValues(w)) : row \in @}]
  /\ Go(r, w, "view")

\* The user as an answer shows it: get overwrites the password it has not read.
Shown(w, row) == IF w.op = "get" THEN WithoutPassword(row) ELSE row

\* The two rows of the answer are read at once, and come in any order; with either
\* of them missing the request fails.
View(r) == LET w == work[r] IN
  /\ w.next = "view"
  /\ \E part \in {"user", "preference"} \ w.shown :
       IF people[Id(r)][part] = {} THEN Go(r, w, "internal")
         ELSE LET e == IF part = "user" THEN Shown(w, Loaded(Row(Id(r)), Hidden(TRUE))) ELSE Joined(Id(r))
                  v == [w EXCEPT !.seen[part] = e, !.shown = @ \cup {part}]
              IN Go(r, v, CASE v.shown # {"user", "preference"} -> "view"
                            [] v.shown = {"user", "preference"} ->
                                 IF w.op = "create" THEN "created" ELSE "ok")
  /\ UNCHANGED people

ProfileStep(r) == \/ Find(r) \/ Insert(r) \/ InsertPreference(r) \/ Look(r) \/ LookPreference(r)
                  \/ Write(r) \/ WritePreference(r) \/ View(r)

FailProfile(r) == Go(r, work[r], "internal") /\ UNCHANGED people

-----------------------------------------------------------------------------
(* Properties *)

\* What the body of request r gives of a part of account p.
Given(r, p, part) ==
  IF work[r].id # {p} \/ work[r].op \notin {"create", "update"} THEN Blank(Columns \cup PreferenceColumns)
    ELSE IF part = "user" THEN Protected(work[r].body.user) ELSE Preference(work[r])

\* A column of an account that exists only changes at a request that gives it a
\* value, and to that value: no update, whatever blank or absent fields it comes
\* with, empties a column or touches another, and no account disappears.
OnlyGivenFieldsChange ==
  [][\A p \in People : \A part \in {"user", "preference"} :
       \A row \in people[p][part] : \E new \in people'[p][part] : \A c \in DOMAIN row :
         new[c] # row[c] => \E r \in Requests : {new[c]} = Given(r, p, part)[c]]_people

\* What a request promises of a column: the value it gave, otherwise the one it
\* shows.
Promised(r, part) ==
  LET given == Given(r, Id(r), part)
  IN [c \in DOMAIN work[r].seen[part] |-> Or(given[c], work[r].seen[part][c])]

\* An account is as an answer says, unless another request gave the column a value:
\* also where an update was skipped on what it read before.  No answer shows a
\* password.
AnswersHold ==
  \A r \in Requests : work[r].next \in Done =>
    /\ work[r].seen.user["password"] \in {"", Null}
    /\ \A part \in {"user", "preference"} : \A row \in people[Id(r)][part] :
         \A c \in DOMAIN row :
           \/ row[c] = Promised(r, part)[c]
           \/ c = "password" /\ Given(r, Id(r), part)[c] = {}
           \/ \E o \in Requests \ {r} : Given(o, Id(r), part)[c] # {}
=============================================================================
