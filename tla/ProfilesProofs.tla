---------------------------- MODULE ProfilesProofs ----------------------------
(***************************************************************************)
(* The fields of accounts, for any accounts, texts and requests.           *)
(***************************************************************************)
EXTENDS Profiles, TLAPS

Parts == {"user", "preference"}
Operations == {"create", "login", "get", "update"}
Nexts == Pending \cup Ends \cup {"none"}

AccountRows == [user : Optional(RowsOver(Columns)), preference : Optional(RowsOver(PreferenceColumns))]
Works == [op : Operations \cup {"none"}, next : Nexts, id : Optional(People), agent : Texts,
          body : ProfileBodies, seen : Entities, shown : SUBSET Parts]

Types == people \in [People -> AccountRows] /\ work \in [Requests -> Works]

\* An account without a user has no preference.
Rooted == \A p \in People : people[p].user = {} => people[p].preference = {}

-----------------------------------------------------------------------------
(* Where requests are *)

\* A request begins, with a body that is accepted.
Begin(r) == /\ work[r] = NoWork
            /\ \E op \in Operations : \E d \in ProfileData(op) :
                 Accepted(op, d.body) /\ BeginProfile(r, op, d)

\* Where a request waits, for account p if it has one: what it is, and that its
\* account is there.
Placed(r, p) ==
  /\ work[r].next = "insertPreference" => people[p].user # {} /\ people[p].preference = {}
  /\ work[r].next \in {"lookPreference", "write", "writePreference"} => people[p].user # {}

Places == \A r \in Requests :
  /\ work[r].next \in {"find", "insert"} => work[r].op \in {"create", "login"}
  /\ work[r].next \in {"insert", "insertPreference"} => work[r].op = "create"
  /\ work[r].next \in {"look", "lookPreference"} => work[r].op \in {"login", "update"}
  /\ work[r].next \in {"write", "writePreference"} => work[r].op = "update"
  /\ work[r].next \in Pending \ {"find", "insert"} => work[r].id # {}
  /\ \A p \in People : work[r].id = {p} => Placed(r, p)

\* No two requests insert the preference of one account.
Alone == \A r, q \in Requests :
  r # q /\ work[r].next = "insertPreference" /\ work[q].next = "insertPreference" =>
    work[r].id # work[q].id

ProfilesInv == Types /\ Rooted /\ Places /\ Alone

-----------------------------------------------------------------------------
(* Fields *)

\* A field is absent or has one value.
LEMMA Fields ==
  ASSUME NEW S
  PROVE  /\ {} \in Optional(S)
         /\ \A x \in S : {x} \in Optional(S)
         /\ \A f \in Optional(S) : f = {} \/ \E x \in S : f = {x}
BY DEF Optional

\* Or gives the value, or the default.
LEMMA Values ==
  /\ \A d : Or({}, d) = d
  /\ \A x, d : Or({x}, d) = x
BY DEF Or

\* The value of a field is one of its set.
LEMMA OrType ==
  ASSUME NEW S, NEW T, NEW f \in Optional(S), NEW d \in T
  PROVE  Or(f, d) \in S \cup T
<1>1. CASE f = {}
  BY <1>1, Values
<1>2. ASSUME NEW x \in S, f = {x} PROVE Or(f, d) \in S \cup T
  <2>1. Or(f, d) = x
    BY <1>2, Values
  <2> QED
    BY <2>1
<1> QED
  BY <1>1, <1>2, Fields

\* The account of a request.
LEMMA IdOf ==
  ASSUME NEW r \in Requests, NEW p \in People, work[r].id = {p}
  PROVE  Id(r) = p
BY DEF Id

\* The row of an account.
LEMMA RowOf ==
  ASSUME NEW p \in People, NEW row, people[p].user = {row}
  PROVE  Row(p) = row
BY DEF Row

\* What entities keep of fields, and give back.
LEMMA EntityType ==
  ASSUME NEW C, NEW f \in [C -> Optional(Texts)]
  PROVE  /\ Entity(f) \in RowsOver(C)
         /\ Attributes(Entity(f)) \in [C -> Optional(Texts)]
         /\ \A c \in C : Attributes(Entity(f))[c] \in {{}, f[c]}
<1>1. \A c \in C : f[c] \in Optional(Texts)
  OBVIOUS
<1>2. DOMAIN f = C
  OBVIOUS
<1>3. \A c \in C : Or(f[c], Null) \in Texts \cup {Null}
  BY <1>1, OrType
<1>4. Entity(f) = [c \in C |-> Or(f[c], Null)]
  BY <1>2 DEF Entity
<1>5. Entity(f) \in RowsOver(C)
  BY <1>3, <1>4 DEF RowsOver
<1>6. Attributes(Entity(f)) = [c \in C |-> {Or(f[c], Null)} \ {Null}]
  BY <1>4 DEF Attributes
<1>7. \A c \in C : {Or(f[c], Null)} \ {Null} \in {{}, f[c]}
  <2> SUFFICES ASSUME NEW c \in C PROVE {Or(f[c], Null)} \ {Null} \in {{}, f[c]}
    OBVIOUS
  <2>1. CASE f[c] = {}
    BY <2>1, Values
  <2>2. ASSUME NEW x \in Texts, f[c] = {x} PROVE {Or(f[c], Null)} \ {Null} \in {{}, f[c]}
    BY <2>2, Values
  <2> QED
    BY <1>1, <2>1, <2>2, Fields
<1>8. \A c \in C : Attributes(Entity(f))[c] \in {{}, f[c]}
  BY <1>6, <1>7
<1>9. Attributes(Entity(f)) \in [C -> Optional(Texts)]
  <2>1. \A c \in C : {Or(f[c], Null)} \ {Null} \in Optional(Texts)
    <3>1. {} \in Optional(Texts)
      BY Fields
    <3> QED
      BY <1>1, <1>7, <3>1
  <2> QED
    BY <1>6, <2>1
<1> QED
  BY <1>5, <1>8, <1>9

\* An UPDATE keeps what it is not given.
LEMMA MergedRows ==
  ASSUME NEW C, NEW row \in RowsOver(C), NEW f \in [C -> Optional(Texts)]
  PROVE  /\ Merged(row, f) \in RowsOver(C) /\ DOMAIN row = C
         /\ \A c \in C : Merged(row, f)[c] # row[c] => f[c] = {Merged(row, f)[c]}
<1>1. DOMAIN row = C /\ Merged(row, f) = [c \in C |-> Or(f[c], row[c])]
  BY DEF Merged, RowsOver
<1>2. ASSUME NEW c \in C
      PROVE  /\ Or(f[c], row[c]) \in Texts \cup {Null}
             /\ Or(f[c], row[c]) # row[c] => f[c] = {Or(f[c], row[c])}
  <2>1. row[c] \in Texts \cup {Null} /\ f[c] \in Optional(Texts)
    BY DEF RowsOver
  <2>2. CASE f[c] = {}
    BY <2>1, <2>2, Values
  <2>3. ASSUME NEW x \in Texts, f[c] = {x}
        PROVE  Or(f[c], row[c]) \in Texts \cup {Null} /\ f[c] = {Or(f[c], row[c])}
    BY <2>3, Values
  <2> QED
    BY <2>1, <2>2, <2>3, Fields
<1> QED
  BY <1>1, <1>2 DEF RowsOver

-----------------------------------------------------------------------------
(* What requests keep *)

\* A body that is parsed is one.
LEMMA ParsedType ==
  ASSUME NEW op \in Operations, NEW body \in ProfileBodies
  PROVE  Parsed(op, body) \in ProfileBodies
<1>1. body.user \in [Columns -> Optional(Texts)]
      /\ body.preference \in Optional([PreferenceColumns -> Optional(Texts)])
  BY DEF ProfileBodies
<1>2. \A f \in Optional(Texts) : OnlyDigits(f) \in Optional(Texts) /\ f \ {""} \in Optional(Texts)
  <2> SUFFICES ASSUME NEW f \in Optional(Texts)
               PROVE  OnlyDigits(f) \in Optional(Texts) /\ f \ {""} \in Optional(Texts)
    OBVIOUS
  <2>1. CASE f = {}
    <3>1. OnlyDigits(f) = {} /\ f \ {""} = {} /\ {} \in Optional(Texts)
      BY <2>1, Fields DEF OnlyDigits
    <3> QED
      BY <3>1
  <2>2. ASSUME NEW x \in Texts, f = {x}
        PROVE  OnlyDigits(f) \in Optional(Texts) /\ f \ {""} \in Optional(Texts)
    <3>1. OnlyDigits(f) = {Digits(x)} /\ (f \ {""} = {} \/ f \ {""} = {x})
      BY <2>2 DEF OnlyDigits
    <3>2. {Digits(x)} \in Optional(Texts)
      BY TextsAssumption, Fields
    <3>3. {} \in Optional(Texts) /\ {x} \in Optional(Texts)
      BY Fields
    <3> QED
      BY <3>1, <3>2, <3>3
  <2> QED
    BY <2>1, <2>2, Fields
<1>3. Cleaned(body.user) \in [Columns -> Optional(Texts)]
  BY <1>1, <1>2 DEF Cleaned
<1>4. \A q \in [PreferenceColumns -> Optional(Texts)] :
        CleanedPreference(op, q) \in [PreferenceColumns -> Optional(Texts)]
  <2> SUFFICES ASSUME NEW q \in [PreferenceColumns -> Optional(Texts)]
               PROVE  CleanedPreference(op, q) \in [PreferenceColumns -> Optional(Texts)]
    OBVIOUS
  <2>1. q.imagePath \in Optional(Texts) /\ q.defaultTheme \in Optional(Texts)
    BY DEF PreferenceColumns
  <2>2. {Or(q.defaultTheme, "DEFAULT")} \in Optional(Texts)
    BY <2>1, OrType, Fields, TextsAssumption
  <2> DEFINE new == CleanedPreference(op, q)
  <2>3. new = [imagePath |-> new.imagePath, defaultTheme |-> new.defaultTheme]
    BY DEF CleanedPreference
  <2>4. new.imagePath \in Optional(Texts) /\ new.defaultTheme \in Optional(Texts)
    BY <1>2, <2>1, <2>2 DEF CleanedPreference
  <2> HIDE DEF new
  <2>5. new \in [imagePath : Optional(Texts), defaultTheme : Optional(Texts)]
    BY <2>3, <2>4
  <2>6. DOMAIN new = PreferenceColumns /\ new = [c \in PreferenceColumns |-> new[c]]
    BY <2>3 DEF PreferenceColumns
  <2>7. \A c \in PreferenceColumns : new[c] \in Optional(Texts)
    BY <2>4 DEF PreferenceColumns
  <2>8. new \in [PreferenceColumns -> Optional(Texts)]
    BY <2>6, <2>7
  <2> QED
    BY <2>8 DEF new
<1>5. {CleanedPreference(op, q) : q \in body.preference}
        \in Optional([PreferenceColumns -> Optional(Texts)])
  <2>1. CASE body.preference = {}
    <3>1. {CleanedPreference(op, q) : q \in body.preference} = {}
      BY <2>1
    <3>2. {} \in Optional([PreferenceColumns -> Optional(Texts)])
      BY Fields
    <3> QED
      BY <3>1, <3>2
  <2>2. ASSUME NEW q \in [PreferenceColumns -> Optional(Texts)], body.preference = {q}
        PROVE  {CleanedPreference(op, x) : x \in body.preference}
                 \in Optional([PreferenceColumns -> Optional(Texts)])
    <3>1. {CleanedPreference(op, x) : x \in body.preference} = {CleanedPreference(op, q)}
      BY <2>2
    <3>2. CleanedPreference(op, q) \in [PreferenceColumns -> Optional(Texts)]
      BY <1>4, <2>2
    <3> HIDE DEF CleanedPreference
    <3>3. \A x \in [PreferenceColumns -> Optional(Texts)] :
            {x} \in Optional([PreferenceColumns -> Optional(Texts)])
      BY Fields
    <3> QED
      BY <3>1, <3>2, <3>3
  <2> QED
    BY <1>1, <2>1, <2>2, Fields
<1> QED
  BY <1>3, <1>5 DEF Parsed, Body, ProfileBodies

\* The values that a request writes are those that it was given.
LEMMA Valued ==
  ASSUME NEW w \in Works
  PROVE  /\ UserValues(w) \in [Columns -> Optional(Texts)]
         /\ Entity(UserValues(w)) \in RowsOver(Columns)
         /\ \A c \in Columns : UserValues(w)[c] \in {{}, Protected(w.body.user)[c]}
         /\ PreferenceValues(w) \in [PreferenceColumns -> Optional(Texts)]
         /\ Entity(PreferenceValues(w)) \in RowsOver(PreferenceColumns)
         /\ \A c \in PreferenceColumns : PreferenceValues(w)[c] \in {{}, Preference(w)[c]}
<1>1. w.body.user \in [Columns -> Optional(Texts)]
      /\ w.body.preference \in Optional([PreferenceColumns -> Optional(Texts)])
  BY DEF Works, ProfileBodies
<1>2. Protected(w.body.user) \in [Columns -> Optional(Texts)]
  <2>1. "password" \in Columns /\ w.body.user["password"] \in Optional(Texts)
    BY <1>1 DEF Columns, Required
  <2>2. HashOf(w.body.user["password"]) \in Optional(Texts)
    <3>1. CASE w.body.user["password"] = {}
      <4>1. HashOf(w.body.user["password"]) = {} /\ {} \in Optional(Texts)
        BY <3>1, Fields DEF HashOf
      <4> QED
        BY <4>1
    <3>2. ASSUME NEW x \in Texts, w.body.user["password"] = {x}
          PROVE  HashOf(w.body.user["password"]) \in Optional(Texts)
      <4>1. HashOf(w.body.user["password"]) = {Hash(x)}
        BY <3>2 DEF HashOf
      <4>2. {Hash(x)} \in Optional(Texts)
        BY Fields, TextsAssumption
      <4> QED
        BY <4>1, <4>2
    <3> QED
      BY <2>1, <3>1, <3>2, Fields
  <2> QED
    BY <1>1, <2>2 DEF Protected
<1>3. Preference(w) \in [PreferenceColumns -> Optional(Texts)]
  <2>1. CASE w.body.preference = {}
    <3>1. Preference(w) = Blank(PreferenceColumns)
      BY <2>1, Values DEF Preference
    <3>2. {} \in Optional(Texts)
      BY Fields
    <3> QED
      BY <3>1, <3>2 DEF Blank
  <2>2. ASSUME NEW q \in [PreferenceColumns -> Optional(Texts)], w.body.preference = {q}
        PROVE  Preference(w) \in [PreferenceColumns -> Optional(Texts)]
    <3>1. Preference(w) = q
      BY <2>2, Values DEF Preference
    <3> QED
      BY <3>1
  <2> QED
    BY <1>1, <2>1, <2>2, Fields
<1>4. /\ UserValues(w) \in [Columns -> Optional(Texts)]
      /\ \A c \in Columns : UserValues(w)[c] \in {{}, Protected(w.body.user)[c]}
  BY <1>2, EntityType DEF UserValues
<1>5. /\ PreferenceValues(w) \in [PreferenceColumns -> Optional(Texts)]
      /\ \A c \in PreferenceColumns : PreferenceValues(w)[c] \in {{}, Preference(w)[c]}
  BY <1>3, EntityType DEF PreferenceValues
<1> QED
  BY <1>4, <1>5, EntityType

\* What is read of a row has its columns.
LEMMA ReadType ==
  ASSUME NEW C, NEW row \in RowsOver(C)
  PROVE  /\ \A hidden : Loaded(row, hidden) \in RowsOver(C)
         /\ WithoutPassword(row) \in RowsOver(C)
         /\ Entity(Attributes(row)) \in RowsOver(C)
<1>1. row \in [C -> Texts \cup {Null}] /\ DOMAIN row = C
  BY DEF RowsOver
<1>2. \A hidden : Loaded(row, hidden) \in RowsOver(C)
  BY <1>1 DEF Loaded, RowsOver
<1>3. WithoutPassword(row) \in RowsOver(C)
  BY <1>1, TextsAssumption DEF WithoutPassword, RowsOver
<1>4. \A c \in C : {row[c]} \ {Null} \in Optional(Texts)
  <2>1. \A c \in C : \/ {row[c]} \ {Null} = {}
                     \/ row[c] \in Texts /\ {row[c]} \ {Null} = {row[c]}
    <3> SUFFICES ASSUME NEW c \in C
                 PROVE  \/ {row[c]} \ {Null} = {}
                        \/ row[c] \in Texts /\ {row[c]} \ {Null} = {row[c]}
      OBVIOUS
    <3>1. row[c] = Null \/ (row[c] \in Texts /\ row[c] # Null)
      BY <1>1
    <3> QED
      BY <3>1
  <2>2. {} \in Optional(Texts) /\ \A x \in Texts : {x} \in Optional(Texts)
    BY Fields
  <2> QED
    BY <2>1, <2>2
<1>5. Attributes(row) \in [C -> Optional(Texts)]
  BY <1>1, <1>4 DEF Attributes
<1> QED
  BY <1>2, <1>3, <1>5, EntityType

\* The preference that is read, or an empty one.
LEMMA JoinedType ==
  ASSUME Types, NEW p \in People
  PROVE  Joined(p) \in RowsOver(PreferenceColumns)
<1>1. people[p].preference \in Optional(RowsOver(PreferenceColumns))
  BY DEF Types, AccountRows
<1>2. Entity(Blank(PreferenceColumns)) \in RowsOver(PreferenceColumns)
  <2>1. {} \in Optional(Texts)
    BY Fields
  <2>2. Blank(PreferenceColumns) \in [PreferenceColumns -> Optional(Texts)]
    BY <2>1 DEF Blank
  <2> QED
    BY <2>2, EntityType
<1>3. Or(people[p].preference, Entity(Blank(PreferenceColumns))) \in RowsOver(PreferenceColumns)
  BY <1>1, <1>2, OrType
<1> QED
  BY <1>3, ReadType DEF Joined

\* Parts of an account that is there.
LEMMA RowType ==
  ASSUME Types, NEW p \in People
  PROVE  /\ people[p].user # {} => Row(p) \in RowsOver(Columns) /\ people[p].user = {Row(p)}
         /\ people[p].user \in Optional(RowsOver(Columns))
         /\ people[p].preference \in Optional(RowsOver(PreferenceColumns))
<1>1. people[p] \in AccountRows
  BY DEF Types
<1>2. people[p].user \in Optional(RowsOver(Columns))
      /\ people[p].preference \in Optional(RowsOver(PreferenceColumns))
  BY <1>1 DEF AccountRows
<1>3. people[p].user # {} => \E row \in RowsOver(Columns) : people[p].user = {row}
  BY <1>2, Fields
<1> QED
  BY <1>2, <1>3, RowOf

\* A request goes on, and no other does.
LEMMA Going ==
  ASSUME Types, NEW r \in Requests, NEW w \in Works, NEW n \in Nexts, Go(r, w, n)
  PROVE  /\ work' \in [Requests -> Works]
         /\ work'[r].next = n /\ work'[r].op = w.op /\ work'[r].id = w.id /\ work'[r].body = w.body
         /\ work'[r].seen = w.seen /\ work'[r].shown = w.shown
         /\ \A q \in Requests : q # r => work'[q] = work[q]
<1>1. [w EXCEPT !.next = n] \in Works
  BY DEF Works
<1>2. work'[r] = [w EXCEPT !.next = n] /\ \A q \in Requests : q # r => work'[q] = work[q]
  BY DEF Go, Types
<1>3. work' \in [Requests -> Works]
  BY <1>1 DEF Go, Types
<1>4. /\ [w EXCEPT !.next = n].next = n /\ [w EXCEPT !.next = n].op = w.op
      /\ [w EXCEPT !.next = n].id = w.id /\ [w EXCEPT !.next = n].body = w.body
      /\ [w EXCEPT !.next = n].seen = w.seen /\ [w EXCEPT !.next = n].shown = w.shown
  BY DEF Works
<1> QED
  BY <1>2, <1>3, <1>4

\* The invariant is kept by a request that goes where its account allows.
LEMMA Moved ==
  ASSUME ProfilesInv, NEW r \in Requests, NEW w \in Works, NEW n \in Nexts, Go(r, w, n),
         people' \in [People -> AccountRows], Rooted',
         \A p \in People : people[p].user # {} => people'[p].user # {},
         n \in {"find", "insert"} => w.op \in {"create", "login"},
         n \in {"insert", "insertPreference"} => w.op = "create",
         n \in {"look", "lookPreference"} => w.op \in {"login", "update"},
         n \in {"write", "writePreference"} => w.op = "update",
         n \in Pending \ {"find", "insert"} => w.id # {},
         \A p \in People : w.id = {p} =>
           /\ n = "insertPreference" => people'[p].user # {} /\ people'[p].preference = {}
           /\ n \in {"lookPreference", "write", "writePreference"} => people'[p].user # {},
         \A q \in Requests, p \in People :
           q # r /\ work[q].next = "insertPreference" /\ work[q].id = {p} =>
             people'[p].preference = {} /\ (n = "insertPreference" => w.id # {p})
  PROVE  ProfilesInv'
<1>1. /\ work' \in [Requests -> Works]
      /\ work'[r].next = n /\ work'[r].op = w.op /\ work'[r].id = w.id
      /\ \A q \in Requests : q # r => work'[q] = work[q]
  <2>1. Types
    BY DEF ProfilesInv
  <2> QED
    BY <2>1, Going, Zenon
<1>2. Types'
  BY <1>1 DEF Types
<1>3. Places'
  <2> SUFFICES ASSUME NEW q \in Requests
               PROVE  /\ work'[q].next \in {"find", "insert"} => work'[q].op \in {"create", "login"}
                      /\ work'[q].next \in {"insert", "insertPreference"} => work'[q].op = "create"
                      /\ work'[q].next \in {"look", "lookPreference"} => work'[q].op \in {"login", "update"}
                      /\ work'[q].next \in {"write", "writePreference"} => work'[q].op = "update"
                      /\ work'[q].next \in Pending \ {"find", "insert"} => work'[q].id # {}
                      /\ \A p \in People : work'[q].id = {p} => Placed(q, p)'
    BY DEF Places
  <2>1. CASE q = r
    BY <1>1, <2>1 DEF Placed
  <2>2. CASE q # r
    BY <1>1, <2>2 DEF ProfilesInv, Places, Placed
  <2> QED
    BY <2>1, <2>2
<1>4. Alone'
  <2>1. \A q \in Requests : work[q].next = "insertPreference" => \E p \in People : work[q].id = {p}
    <3> SUFFICES ASSUME NEW q \in Requests, work[q].next = "insertPreference"
                 PROVE  \E p \in People : work[q].id = {p}
      OBVIOUS
    <3>1. work[q].id \in Optional(People) /\ work[q].id # {}
      BY DEF ProfilesInv, Types, Works, Places, Pending
    <3> QED
      BY <3>1, Fields
  <2> QED
    BY <1>1, <2>1 DEF Alone, ProfilesInv
<1> QED
  BY <1>2, <1>3, <1>4 DEF ProfilesInv

\* The same of one that reads.
LEMMA Reading ==
  ASSUME ProfilesInv, UNCHANGED people, NEW r \in Requests, NEW w \in Works, NEW n \in Nexts, Go(r, w, n),
         n # "insertPreference",
         n \in {"find", "insert"} => w.op \in {"create", "login"},
         n = "insert" => w.op = "create",
         n \in {"look", "lookPreference"} => w.op \in {"login", "update"},
         n \in {"write", "writePreference"} => w.op = "update",
         n \in Pending \ {"find", "insert"} => w.id # {},
         \A p \in People : w.id = {p} /\ n \in {"lookPreference", "write", "writePreference"} =>
           people[p].user # {}
  PROVE  ProfilesInv'
<1>1. people' \in [People -> AccountRows] /\ Rooted'
  BY DEF ProfilesInv, Types, Rooted
<1>2. \A q \in Requests, p \in People : work[q].next = "insertPreference" /\ work[q].id = {p} =>
        people[p].preference = {}
  BY DEF ProfilesInv, Places, Placed
<1> QED
  BY <1>1, <1>2, Moved

\* The same of one that writes, and then is done or writes again.
LEMMA Writing ==
  ASSUME ProfilesInv, NEW r \in Requests, NEW n \in {"writePreference", "view"}, Go(r, work[r], n),
         NEW p \in People, work[r].id = {p}, n = "writePreference" => work[r].op = "update",
         people' \in [People -> AccountRows], Rooted',
         \A o \in People : people[o].user # {} => people'[o].user # {},
         people[p].user # {},
         \A q \in Requests, o \in People :
           q # r /\ work[q].next = "insertPreference" /\ work[q].id = {o} =>
             people'[o].preference = {}
  PROVE  ProfilesInv'
<1>1. work[r] \in Works
  BY DEF ProfilesInv, Types
<1>2. n \in Nexts /\ n \notin {"find", "insert", "insertPreference", "look", "lookPreference", "write"}
  BY DEF Nexts, Pending
<1>3. \A o \in People : work[r].id = {o} => people'[o].user # {}
  OBVIOUS
<1>4. \A o \in People : work[r].id = {o} =>
        /\ n = "insertPreference" => people'[o].user # {} /\ people'[o].preference = {}
        /\ n \in {"lookPreference", "write", "writePreference"} => people'[o].user # {}
  BY <1>2, <1>3
<1>5. \A q \in Requests, o \in People :
        q # r /\ work[q].next = "insertPreference" /\ work[q].id = {o} =>
          people'[o].preference = {} /\ (n = "insertPreference" => work[r].id # {o})
  BY <1>2
<1>6. work[r].id # {}
  OBVIOUS
<1> QED
  BY <1>1, <1>2, <1>4, <1>5, <1>6, Moved

-----------------------------------------------------------------------------
(* Steps *)

\* The account of a request that has one.
LEMMA Owner ==
  ASSUME ProfilesInv, NEW r \in Requests, work[r].next \in Pending \ {"find", "insert"}
  PROVE  \E p \in People : work[r].id = {p} /\ Id(r) = p /\ Placed(r, p)
<1>1. work[r].id \in Optional(People) /\ work[r].id # {}
  BY DEF ProfilesInv, Types, Works, Places
<1>2. PICK p \in People : work[r].id = {p}
  BY <1>1, Fields
<1> QED
  BY <1>2, IdOf DEF ProfilesInv, Places

\* A request of which the body is valid goes to its first query.
LEMMA StepBegin ==
  ASSUME ProfilesInv, NEW r \in Requests, Begin(r)
  PROVE  ProfilesInv'
<1>1. PICK op \in Operations : \E d \in ProfileData(op) : BeginProfile(r, op, d)
  BY DEF Begin
<1>0. PICK d \in ProfileData(op) : BeginProfile(r, op, d)
  BY <1>1
<1> DEFINE w == [NoWork EXCEPT !.op = op, !.id = d.id, !.agent = d.agent,
                               !.body = Parsed(op, d.body)]
           n == CASE op \in {"create", "login"} -> "find" [] op = "get" -> "view"
                  [] op = "update" -> "look"
<1>2. Go(r, w, n) /\ UNCHANGED people
  BY <1>0 DEF BeginProfile
<1>3. /\ d.id \in Optional(People) /\ d.agent \in Texts /\ Parsed(op, d.body) \in ProfileBodies
      /\ d.id = {} <=> op \in {"create", "login"}
  BY ParsedType DEF ProfileData
<1>4. NoEntity \in Entities
  <2>1. {} \in Optional(Texts)
    BY Fields
  <2>2. \A C : Blank(C) \in [C -> Optional(Texts)]
    BY <2>1 DEF Blank
  <2> QED
    BY <2>2, EntityType DEF NoEntity, Entities
<1>5. NoWork \in Works
  <2>1. {} \in Optional(Texts) /\ {} \in Optional(People)
        /\ {} \in Optional([PreferenceColumns -> Optional(Texts)])
    BY Fields
  <2>2. Body(Blank(Columns), {}) \in ProfileBodies
    BY <2>1 DEF Body, Blank, ProfileBodies
  <2> QED
    BY <1>4, <2>1, <2>2, TextsAssumption DEF NoWork, Works, Nexts
<1>6. n \in {"find", "view", "look"} /\ (n = "find" <=> op \in {"create", "login"})
      /\ (n = "look" <=> op = "update")
  BY DEF Operations
<1> HIDE DEF w, n
<1>7. w \in Works /\ w.op = op /\ w.id = d.id
  BY <1>3, <1>5 DEF Works, w
<1>8. n \in Nexts
  BY <1>6 DEF Nexts, Pending
<1> QED
  BY <1>2, <1>3, <1>6, <1>7, <1>8, Reading

\* A request that fails.
LEMMA StepFail ==
  ASSUME ProfilesInv, NEW r \in Requests, FailProfile(r)
  PROVE  ProfilesInv' /\ UNCHANGED people
<1>1. Go(r, work[r], "internal") /\ UNCHANGED people
  BY DEF FailProfile
<1>2. work[r] \in Works /\ "internal" \in Nexts /\ "internal" \notin Pending
  BY DEF ProfilesInv, Types, Nexts, Ends, Pending
<1> QED
  BY <1>1, <1>2, Reading DEF Pending

\* The account is sought by its e-mail.
LEMMA StepFind ==
  ASSUME ProfilesInv, NEW r \in Requests, Find(r)
  PROVE  ProfilesInv' /\ UNCHANGED people
<1>1. work[r] \in Works /\ work[r].next = "find" /\ UNCHANGED people
  BY DEF Find, ProfilesInv, Types
<1>2. \A n \in Ends : n \notin Pending
  BY DEF Ends, Done, Pending
<1>3. CASE work[r].op = "create" /\ \E n \in {"conflict", "insert"} : Go(r, work[r], n)
  <2>1. PICK n \in {"conflict", "insert"} : Go(r, work[r], n)
    BY <1>3
  <2>2. n \in Nexts /\ n \notin Pending \ {"find", "insert"}
    BY DEF Nexts, Pending, Ends
  <2> QED
    BY <1>1, <1>3, <2>1, <2>2, Reading
<1>4. CASE Go(r, work[r], "notFound")
  <2>1. "notFound" \in Nexts /\ "notFound" \notin Pending
    BY <1>2 DEF Nexts, Ends
  <2> QED
    BY <1>1, <1>4, <2>1, Reading
<1>5. ASSUME NEW p \in People, work[r].op = "login", Go(r, [work[r] EXCEPT !.id = {p}], "look")
      PROVE  ProfilesInv'
  <2> DEFINE w == [work[r] EXCEPT !.id = {p}]
  <2>1. {p} \in Optional(People)
    BY Fields
  <2>2. w \in Works /\ w.op = work[r].op /\ w.id = {p} /\ Go(r, w, "look")
    BY <1>1, <1>5, <2>1 DEF Works
  <2>3. "look" \in Nexts
    BY DEF Nexts, Pending
  <2> HIDE DEF w
  <2> QED
    BY <1>1, <1>5, <2>2, <2>3, Reading
<1> QED
  BY <1>1, <1>3, <1>4, <1>5 DEF Find, With

\* The account is read.
LEMMA StepLook ==
  ASSUME ProfilesInv, NEW r \in Requests, Look(r)
  PROVE  ProfilesInv' /\ UNCHANGED people
<1>1. /\ work[r] \in Works /\ work[r].next = "look" /\ UNCHANGED people
      /\ work[r].op \in {"login", "update"}
  BY DEF Look, ProfilesInv, Types, Places
<1>2. PICK p \in People : work[r].id = {p} /\ Id(r) = p
  BY <1>1, Owner DEF Pending
<1>3. /\ "internal" \in Nexts /\ "internal" \notin Pending
      /\ "unauthorized" \in Nexts /\ "unauthorized" \notin Pending
      /\ "lookPreference" \in Nexts
  BY DEF Nexts, Ends, Pending
<1>4. CASE Go(r, work[r], "internal")
  BY <1>1, <1>3, <1>4, Reading
<1>5. CASE people[p].user # {}
  <2> DEFINE w == [work[r] EXCEPT !.seen = [user |-> Loaded(Row(p), Hidden(work[r].op = "update")),
                                            preference |-> Joined(p)]]
  <2>1. Row(p) \in RowsOver(Columns) /\ Joined(p) \in RowsOver(PreferenceColumns)
    BY <1>5, RowType, JoinedType DEF ProfilesInv
  <2>2. [user |-> Loaded(Row(p), Hidden(work[r].op = "update")), preference |-> Joined(p)] \in Entities
    BY <2>1, ReadType DEF Entities
  <2>3. w \in Works /\ w.op = work[r].op /\ w.id = work[r].id
    BY <1>1, <2>2 DEF Works
  <2>4. PICK n \in {"unauthorized", "lookPreference"} : Go(r, w, n)
    BY <1>2, <1>5 DEF Look
  <2> HIDE DEF w
  <2> QED
    BY <1>1, <1>2, <1>3, <1>5, <2>3, <2>4, Reading
<1> QED
  BY <1>1, <1>2, <1>4, <1>5 DEF Look

\* The preference is read, and the permission and the first write decided.
LEMMA StepLookPreference ==
  ASSUME ProfilesInv, NEW r \in Requests, LookPreference(r)
  PROVE  ProfilesInv' /\ UNCHANGED people
<1>1. /\ work[r] \in Works /\ work[r].next = "lookPreference" /\ UNCHANGED people
      /\ work[r].op \in {"login", "update"}
  BY DEF LookPreference, ProfilesInv, Types, Places
<1>2. PICK p \in People : work[r].id = {p} /\ Id(r) = p /\ people[p].user # {}
  BY <1>1, Owner DEF Pending, Placed
<1> DEFINE read == [work[r] EXCEPT !.seen.preference = Joined(p)]
           shown == [read EXCEPT !.seen.user = WithoutPassword(@)]
<1>3. /\ Joined(p) \in RowsOver(PreferenceColumns)
      /\ work[r].seen.user \in RowsOver(Columns)
      /\ WithoutPassword(work[r].seen.user) \in RowsOver(Columns)
  BY <1>1, JoinedType, ReadType DEF ProfilesInv, Works, Entities
<1>4. /\ read \in Works /\ read.op = work[r].op /\ read.id = work[r].id
      /\ shown \in Works /\ shown.op = work[r].op /\ shown.id = work[r].id
  BY <1>1, <1>3 DEF Works, Entities
<1>5. \/ Go(r, work[r], "internal")
      \/ Go(r, shown, "ok")
      \/ work[r].op = "update" /\ \E n \in {"business", "write", "writePreference", "view"} : Go(r, read, n)
  <2>1. CASE people[p].preference = {}
    BY <1>2, <2>1 DEF LookPreference
  <2>2. CASE people[p].preference # {} /\ work[r].op = "login"
    BY <1>2, <2>2 DEF LookPreference
  <2>3. CASE people[p].preference # {} /\ work[r].op = "update"
    BY <1>2, <2>3 DEF LookPreference, FirstWrite, AfterWrite
  <2> QED
    BY <1>1, <2>1, <2>2, <2>3
<1> HIDE DEF read, shown
<1>6. /\ {"internal", "ok", "business", "write", "writePreference", "view"} \subseteq Nexts
      /\ {"internal", "ok", "business"} \cap Pending = {}
  BY DEF Nexts, Ends, Done, Pending
<1>7. CASE Go(r, work[r], "internal")
  BY <1>1, <1>6, <1>7, Reading
<1>8. CASE Go(r, shown, "ok")
  BY <1>1, <1>4, <1>6, <1>8, Reading
<1>9. ASSUME work[r].op = "update",
             NEW n \in {"business", "write", "writePreference", "view"}, Go(r, read, n)
      PROVE  ProfilesInv'
  BY <1>1, <1>2, <1>4, <1>6, <1>9, Reading
<1> QED
  BY <1>1, <1>5, <1>7, <1>8, <1>9

\* A part of the answer is read.
LEMMA StepView ==
  ASSUME ProfilesInv, NEW r \in Requests, View(r)
  PROVE  ProfilesInv' /\ UNCHANGED people
<1>1. work[r] \in Works /\ work[r].next = "view" /\ UNCHANGED people
  BY DEF View, ProfilesInv, Types
<1>2. PICK p \in People : work[r].id = {p} /\ Id(r) = p
  BY <1>1, Owner DEF Pending
<1>3. /\ {"internal", "view", "created", "ok"} \subseteq Nexts
      /\ {"internal", "created", "ok"} \cap Pending = {}
  BY DEF Nexts, Ends, Done, Pending
<1> DEFINE e(part) == IF part = "user" THEN Shown(work[r], Loaded(Row(p), Hidden(TRUE))) ELSE Joined(p)
           v(part) == [work[r] EXCEPT !.seen[part] = e(part), !.shown = @ \cup {part}]
<1>4. PICK part \in Parts :
        \/ Go(r, work[r], "internal")
        \/ people[p][part] # {} /\ \E n \in {"view", "created", "ok"} : Go(r, v(part), n)
  BY <1>2 DEF View, Parts
<1>5. CASE Go(r, work[r], "internal")
  BY <1>1, <1>3, <1>5, Reading
<1>6. ASSUME people[p][part] # {}, NEW n \in {"view", "created", "ok"}, Go(r, v(part), n)
      PROVE  ProfilesInv'
  <2>1. Joined(p) \in RowsOver(PreferenceColumns)
    BY JoinedType DEF ProfilesInv
  <2>2. part = "user" => Shown(work[r], Loaded(Row(p), Hidden(TRUE))) \in RowsOver(Columns)
    BY <1>6, RowType, ReadType DEF Shown, ProfilesInv
  <2>3. /\ work[r].seen \in Entities /\ work[r].shown \in SUBSET Parts
    BY <1>1 DEF Works
  <2>4. CASE part = "user"
    <3>1. [work[r].seen EXCEPT !["user"] = Shown(work[r], Loaded(Row(p), Hidden(TRUE)))] \in Entities
      BY <2>2, <2>3, <2>4 DEF Entities
    <3>2. v(part) \in Works /\ v(part).op = work[r].op /\ v(part).id = work[r].id
      BY <1>1, <2>3, <2>4, <3>1 DEF Works, Parts
    <3> HIDE DEF v
    <3> QED
      BY <1>1, <1>2, <1>3, <1>6, <3>2, Reading
  <2>5. CASE part = "preference"
    <3>1. [work[r].seen EXCEPT !["preference"] = Joined(p)] \in Entities
      BY <2>1, <2>3 DEF Entities
    <3>2. v(part) \in Works /\ v(part).op = work[r].op /\ v(part).id = work[r].id
      BY <1>1, <2>3, <2>5, <3>1 DEF Works, Parts
    <3> HIDE DEF v
    <3> QED
      BY <1>1, <1>2, <1>3, <1>6, <3>2, Reading
  <2> QED
    BY <2>4, <2>5 DEF Parts
<1> QED
  BY <1>1, <1>4, <1>5, <1>6

-----------------------------------------------------------------------------
(* Changes *)

\* A row whose changes request r gave.
GivenBy(r, p, part, row, new) ==
  /\ DOMAIN new = DOMAIN row
  /\ \A c \in DOMAIN row : new[c] # row[c] => {new[c]} = Given(r, p, part)[c]

OnlyGivenBy(r) == \A p \in People : \A part \in Parts : \A row \in people[p][part] :
  \E new : people'[p][part] = {new} /\ GivenBy(r, p, part, row, new)

\* The rows of the accounts, one at most of each part.
LEMMA OneRow ==
  ASSUME Types, NEW p \in People, NEW part \in Parts, NEW row \in people[p][part]
  PROVE  people[p][part] = {row}
<1>1. /\ people[p].user \in Optional(RowsOver(Columns))
      /\ people[p].preference \in Optional(RowsOver(PreferenceColumns))
  BY RowType
<1>2. \A x, y \in people[p][part] : x = y
  BY <1>1 DEF Optional, Parts
<1> QED
  BY <1>2

\* A row that stays is not changed.
LEMMA Stays ==
  ASSUME Types, NEW p \in People, NEW part \in Parts, people'[p][part] = people[p][part], NEW r
  PROVE  \A row \in people[p][part] :
           \E new : people'[p][part] = {new} /\ GivenBy(r, p, part, row, new)
<1> SUFFICES ASSUME NEW row \in people[p][part]
             PROVE  \E new : people'[p][part] = {new} /\ GivenBy(r, p, part, row, new)
  OBVIOUS
<1>1. people'[p][part] = {row}
  BY OneRow
<1>2. GivenBy(r, p, part, row, row)
  BY DEF GivenBy
<1> QED
  BY <1>1, <1>2

LEMMA AllStay ==
  ASSUME Types, UNCHANGED people, NEW r
  PROVE  OnlyGivenBy(r)
BY Stays DEF OnlyGivenBy

\* A user is registered where there was none.
LEMMA StepInsert ==
  ASSUME ProfilesInv, NEW r \in Requests, Insert(r)
  PROVE  ProfilesInv' /\ OnlyGivenBy(r)
<1>1. work[r] \in Works /\ work[r].next = "insert" /\ work[r].op = "create"
  BY DEF Insert, ProfilesInv, Types, Places
<1>2. /\ {"internal", "insertPreference"} \subseteq Nexts /\ "internal" \notin Pending
  BY DEF Nexts, Ends, Pending
<1>3. CASE Go(r, work[r], "internal") /\ UNCHANGED people
  <2>1. ProfilesInv'
    BY <1>1, <1>2, <1>3, Reading DEF Pending
  <2>2. OnlyGivenBy(r)
    BY <1>3, AllStay DEF ProfilesInv
  <2> QED
    BY <2>1, <2>2
<1>4. ASSUME NEW p \in People, people[p] = Nobody,
             people' = [people EXCEPT ![p].user = {Entity(UserValues(work[r]))}],
             Go(r, [work[r] EXCEPT !.id = {p}], "insertPreference")
      PROVE  ProfilesInv' /\ OnlyGivenBy(r)
  <2> DEFINE w == [work[r] EXCEPT !.id = {p}]
             new == Entity(UserValues(work[r]))
  <2>1. {p} \in Optional(People) /\ {new} \in Optional(RowsOver(Columns))
    BY <1>1, Fields, Valued
  <2>2. w \in Works /\ w.op = "create" /\ w.id = {p} /\ Go(r, w, "insertPreference")
    BY <1>1, <1>4, <2>1 DEF Works
  <2>3. people \in [People -> AccountRows] /\ people[p].user = {} /\ people[p].preference = {}
    BY <1>4 DEF Nobody, ProfilesInv, Types
  <2> HIDE DEF w, new
  <2>4. /\ people' \in [People -> AccountRows]
        /\ people'[p].user = {new} /\ people'[p].preference = {}
        /\ \A q \in People : q # p => people'[q] = people[q]
    BY <1>4, <2>1, <2>3 DEF AccountRows, new
  <2>5. Rooted' /\ \A q \in People : people[q].user # {} => people'[q].user # {}
    BY <2>3, <2>4 DEF ProfilesInv, Rooted
  <2>6. \A q \in Requests, o \in People : work[q].next = "insertPreference" /\ work[q].id = {o} =>
          people'[o].preference = {} /\ o # p
    BY <2>3, <2>4 DEF ProfilesInv, Places, Placed
  <2>7. ProfilesInv'
    <3>1. "insertPreference" \in Nexts
      BY <1>2
    <3>2. \A o \in People : w.id = {o} => people'[o].user # {} /\ people'[o].preference = {}
      BY <2>2, <2>4
    <3>3. \A q \in Requests, o \in People : work[q].next = "insertPreference" /\ work[q].id = {o} =>
            people'[o].preference = {} /\ w.id # {o}
      BY <2>2, <2>6
    <3> QED
      BY <2>2, <2>4, <2>5, <3>1, <3>2, <3>3, Moved
  <2>8. OnlyGivenBy(r)
    <3>1. \A part \in Parts : people[p][part] = {}
      BY <2>3 DEF Parts
    <3> QED
      BY <2>4, <3>1, Stays DEF OnlyGivenBy, ProfilesInv
  <2> QED
    BY <2>7, <2>8
<1> QED
  BY <1>1, <1>3, <1>4 DEF Insert

\* The preference of a registration, of which the account has none.
LEMMA StepInsertPreference ==
  ASSUME ProfilesInv, NEW r \in Requests, InsertPreference(r)
  PROVE  ProfilesInv' /\ OnlyGivenBy(r)
<1>1. /\ work[r] \in Works /\ work[r].next = "insertPreference" /\ work[r].op = "create"
      /\ people \in [People -> AccountRows]
  BY DEF InsertPreference, ProfilesInv, Types, Places
<1>2. PICK p \in People : /\ work[r].id = {p} /\ Id(r) = p
                          /\ people[p].user # {} /\ people[p].preference = {}
  BY <1>1, Owner DEF Pending, Placed
<1> DEFINE new == Entity(PreferenceValues(work[r]))
<1>3. {new} \in Optional(RowsOver(PreferenceColumns))
  BY <1>1, Fields, Valued
<1>4. people' = [people EXCEPT ![p].preference = {new}] /\ Go(r, work[r], "view")
  BY <1>2 DEF InsertPreference
<1> HIDE DEF new
<1>5. /\ people' \in [People -> AccountRows]
      /\ people'[p].user = people[p].user /\ people'[p].preference = {new}
      /\ \A q \in People : q # p => people'[q] = people[q]
  BY <1>1, <1>3, <1>4 DEF AccountRows
<1>6. Rooted' /\ \A q \in People : people[q].user # {} => people'[q].user # {}
  BY <1>2, <1>5 DEF ProfilesInv, Rooted
<1>7. \A q \in Requests, o \in People : q # r /\ work[q].next = "insertPreference" /\ work[q].id = {o} =>
        people'[o].preference = {}
  <2>1. \A q \in Requests : q # r /\ work[q].next = "insertPreference" => work[q].id # {p}
    BY <1>1, <1>2 DEF ProfilesInv, Alone
  <2> QED
    BY <1>5, <2>1 DEF ProfilesInv, Places, Placed
<1>8. ProfilesInv'
  BY <1>1, <1>2, <1>4, <1>5, <1>6, <1>7, Writing
<1>9. OnlyGivenBy(r)
  <2>1. people[p]["preference"] = {} /\ people'[p]["user"] = people[p]["user"]
    BY <1>2, <1>5
  <2>2. \A part \in Parts : part = "preference" \/ part = "user"
    BY DEF Parts
  <2> QED
    BY <1>5, <2>1, <2>2, Stays DEF OnlyGivenBy, ProfilesInv
<1> QED
  BY <1>8, <1>9

\* The row of the user is merged with what the request gives.
LEMMA StepWrite ==
  ASSUME ProfilesInv, NEW r \in Requests, Write(r)
  PROVE  ProfilesInv' /\ OnlyGivenBy(r)
<1>1. /\ work[r] \in Works /\ work[r].next = "write" /\ work[r].op = "update"
      /\ people \in [People -> AccountRows]
  BY DEF Write, ProfilesInv, Types, Places
<1>2. PICK p \in People : work[r].id = {p} /\ Id(r) = p /\ people[p].user # {}
  BY <1>1, Owner DEF Pending, Placed
<1>3. /\ {"internal", "writePreference", "view"} \subseteq Nexts /\ "internal" \notin Pending
  BY DEF Nexts, Ends, Pending
<1>4. CASE Go(r, work[r], "internal") /\ UNCHANGED people
  <2>1. ProfilesInv'
    BY <1>1, <1>3, <1>4, Reading
  <2>2. OnlyGivenBy(r)
    BY <1>4, AllStay DEF ProfilesInv
  <2> QED
    BY <2>1, <2>2
<1>5. CASE /\ people' = [people EXCEPT ![p].user = {Merged(Row(p), UserValues(work[r]))}]
           /\ Go(r, work[r], AfterWrite(work[r]))
  <2> DEFINE new == Merged(Row(p), UserValues(work[r]))
  <2>1. /\ Row(p) \in RowsOver(Columns) /\ people[p].user = {Row(p)}
        /\ UserValues(work[r]) \in [Columns -> Optional(Texts)]
        /\ \A c \in Columns : UserValues(work[r])[c] \in {{}, Protected(work[r].body.user)[c]}
    BY <1>1, <1>2, RowType, Valued DEF ProfilesInv
  <2>2. /\ new \in RowsOver(Columns) /\ DOMAIN Row(p) = Columns
        /\ \A c \in Columns : new[c] # Row(p)[c] => {new[c]} = Protected(work[r].body.user)[c]
    <3>1. /\ new \in RowsOver(Columns) /\ DOMAIN Row(p) = Columns
          /\ \A c \in Columns : new[c] # Row(p)[c] => UserValues(work[r])[c] = {new[c]}
      BY <2>1, MergedRows
    <3> QED
      BY <2>1, <3>1
  <2>3. {new} \in Optional(RowsOver(Columns))
    BY <2>2, Fields
  <2>4. people' = [people EXCEPT ![p].user = {new}]
    BY <1>5
  <2> HIDE DEF new
  <2>5. /\ people' \in [People -> AccountRows]
        /\ people'[p].user = {new} /\ people'[p].preference = people[p].preference
        /\ \A q \in People : q # p => people'[q] = people[q]
    BY <1>1, <2>3, <2>4 DEF AccountRows
  <2>6. Rooted' /\ \A q \in People : people[q].user # {} => people'[q].user # {}
    BY <1>2, <2>5 DEF ProfilesInv, Rooted
  <2>7. \A q \in Requests, o \in People : work[q].next = "insertPreference" /\ work[q].id = {o} =>
          people'[o].preference = {}
    BY <2>5 DEF ProfilesInv, Places, Placed
  <2>8. ProfilesInv'
    <3>1. PICK n \in {"writePreference", "view"} : Go(r, work[r], n)
      BY <1>5 DEF AfterWrite
    <3> QED
      BY <1>1, <1>2, <2>5, <2>6, <2>7, <3>1, Writing
  <2>9. OnlyGivenBy(r)
    <3>1. Given(r, p, "user") = Protected(work[r].body.user)
      BY <1>1, <1>2 DEF Given
    <3>2. GivenBy(r, p, "user", Row(p), new)
      BY <2>2, <3>1 DEF GivenBy, RowsOver
    <3>3. \A row \in people[p]["user"] :
            \E x : people'[p]["user"] = {x} /\ GivenBy(r, p, "user", row, x)
      BY <2>1, <2>5, <3>2
    <3>4. people'[p]["preference"] = people[p]["preference"]
      BY <2>5
    <3>5. \A part \in Parts : part = "preference" \/ part = "user"
      BY DEF Parts
    <3> QED
      BY <2>5, <3>3, <3>4, <3>5, Stays DEF OnlyGivenBy, ProfilesInv
  <2> QED
    BY <2>8, <2>9
<1> QED
  BY <1>1, <1>2, <1>4, <1>5 DEF Write

\* The row of the preference is merged with what the request gives.
LEMMA StepWritePreference ==
  ASSUME ProfilesInv, NEW r \in Requests, WritePreference(r)
  PROVE  ProfilesInv' /\ OnlyGivenBy(r)
<1>1. /\ work[r] \in Works /\ work[r].next = "writePreference" /\ work[r].op = "update"
      /\ people \in [People -> AccountRows]
  BY DEF WritePreference, ProfilesInv, Types, Places
<1>2. PICK p \in People : work[r].id = {p} /\ Id(r) = p /\ people[p].user # {}
  BY <1>1, Owner DEF Pending, Placed
<1> DEFINE merged(row) == Merged(row, PreferenceValues(work[r]))
           new == {merged(row) : row \in people[p].preference}
<1>3. /\ people[p].preference \in Optional(RowsOver(PreferenceColumns))
      /\ PreferenceValues(work[r]) \in [PreferenceColumns -> Optional(Texts)]
      /\ \A c \in PreferenceColumns : PreferenceValues(work[r])[c] \in {{}, Preference(work[r])[c]}
  BY <1>1, RowType, Valued DEF ProfilesInv
<1>4. \A row \in people[p].preference : row \in RowsOver(PreferenceColumns)
  BY <1>3 DEF Optional
<1>5. \A row \in people[p].preference :
        /\ merged(row) \in RowsOver(PreferenceColumns) /\ DOMAIN row = PreferenceColumns
        /\ \A c \in PreferenceColumns :
             merged(row)[c] # row[c] => {merged(row)[c]} = Preference(work[r])[c]
  BY <1>3, <1>4, MergedRows
<1>6. people' = [people EXCEPT ![p].preference = new] /\ Go(r, work[r], "view")
  BY <1>2 DEF WritePreference
<1> HIDE DEF merged
<1>7. new \in Optional(RowsOver(PreferenceColumns)) /\ (people[p].preference = {} => new = {})
  <2>1. CASE people[p].preference = {}
    <3>1. new = {} /\ {} \in Optional(RowsOver(PreferenceColumns))
      BY <2>1, Fields
    <3> QED
      BY <3>1
  <2>2. ASSUME NEW row \in RowsOver(PreferenceColumns), people[p].preference = {row}
        PROVE  new \in Optional(RowsOver(PreferenceColumns))
    <3>1. new = {merged(row)} /\ {merged(row)} \in Optional(RowsOver(PreferenceColumns))
      BY <1>5, <2>2, Fields
    <3> QED
      BY <3>1
  <2> QED
    BY <1>3, <2>1, <2>2, Fields
<1>8. \A row \in people[p].preference : merged(row) \in new
  OBVIOUS
<1> HIDE DEF new
<1>9. /\ people' \in [People -> AccountRows]
      /\ people'[p].user = people[p].user /\ people'[p].preference = new
      /\ \A q \in People : q # p => people'[q] = people[q]
  BY <1>1, <1>6, <1>7 DEF AccountRows
<1>10. Rooted' /\ \A q \in People : people[q].user # {} => people'[q].user # {}
  BY <1>2, <1>9 DEF ProfilesInv, Rooted
<1>11. \A q \in Requests, o \in People : work[q].next = "insertPreference" /\ work[q].id = {o} =>
         people'[o].preference = {}
  BY <1>7, <1>9 DEF ProfilesInv, Places, Placed
<1>12. ProfilesInv'
  BY <1>1, <1>2, <1>6, <1>9, <1>10, <1>11, Writing
<1>13. OnlyGivenBy(r)
  <2>1. Given(r, p, "preference") = Preference(work[r])
    BY <1>1, <1>2 DEF Given
  <2>2. \A row \in people[p].preference : GivenBy(r, p, "preference", row, merged(row))
    BY <1>5, <2>1 DEF GivenBy, RowsOver
  <2>3. \A row \in people[p]["preference"] :
          \E x : people'[p]["preference"] = {x} /\ GivenBy(r, p, "preference", row, x)
    <3>1. \A row \in people[p].preference : new = {merged(row)}
      BY <1>3 DEF new, Optional
    <3> QED
      BY <1>9, <2>2, <3>1
  <2>4. people'[p]["user"] = people[p]["user"]
    BY <1>9
  <2>5. \A part \in Parts : part = "preference" \/ part = "user"
    BY DEF Parts
  <2> QED
    BY <1>9, <2>3, <2>4, <2>5, Stays DEF OnlyGivenBy, ProfilesInv
<1> QED
  BY <1>12, <1>13

-----------------------------------------------------------------------------
(* What requests do to the accounts *)

\* At first, and while no request goes on.
LEMMA ProfilesFirst ==
  ASSUME people \in Tables, \A r \in Requests : work[r] = NoWork, work \in [Requests -> Works]
  PROVE  ProfilesInv
<1>0. NoWork.next = "none"
  BY DEF NoWork
<1>1. \A r \in Requests : work[r].next = "none"
  BY <1>0
<1>2. Places /\ Alone
  BY <1>1 DEF Places, Placed, Alone, Pending
<1>3. Types /\ Rooted
  BY DEF Tables, Types, Rooted, AccountRows
<1> QED
  BY <1>2, <1>3 DEF ProfilesInv

\* Every step keeps the invariant, and changes of the rows only what is given.
LEMMA ProfilesMove ==
  ASSUME ProfilesInv, NEW r \in Requests, Begin(r) \/ ProfileStep(r) \/ FailProfile(r)
  PROVE  ProfilesInv' /\ OnlyGivenBy(r)
<1>1. UNCHANGED people => OnlyGivenBy(r)
  BY AllStay DEF ProfilesInv
<1>2. CASE Begin(r)
  BY <1>1, <1>2, StepBegin DEF Begin, BeginProfile
<1>3. CASE ProfileStep(r)
  BY <1>1, <1>3, StepFind, StepInsert, StepInsertPreference, StepLook, StepLookPreference, StepWrite,
     StepWritePreference, StepView DEF ProfileStep
<1>4. CASE FailProfile(r)
  BY <1>1, <1>4, StepFail
<1> QED
  BY <1>2, <1>3, <1>4

LEMMA ProfilesRest ==
  ASSUME ProfilesInv, UNCHANGED profiles
  PROVE  ProfilesInv'
BY DEF profiles, ProfilesInv, Types, Rooted, Places, Placed, Alone

\* Types: every row has its columns, and every request is for one account at most.
LEMMA ProfilesTyped == ProfilesInv => ProfilesOK
<1> SUFFICES ASSUME ProfilesInv PROVE ProfilesOK
  OBVIOUS
<1>1. people \in Tables
  BY DEF ProfilesInv, Types, Rooted, Tables, AccountRows
<1>2. \A r \in Requests : work[r] \in Works
  BY DEF ProfilesInv, Types
<1> QED
  BY <1>1, <1>2 DEF ProfilesOK, Works, Nexts
-----------------------------------------------------------------------------
(* What requests promise *)

\* The part of its account that a request has read and not yet written: the row is as
\* it was read.
Fresh(r, part) ==
  \/ part = "user" /\ work[r].next \in {"lookPreference", "write"}
  \/ part = "preference" /\ work[r].next \in {"write", "writePreference"}

\* The part that it has written, or needed not to, or that it answers: the row is as
\* promised.
Settled(r, part) ==
  \/ work[r].next \in Done
  \/ work[r].next = "view" /\ (work[r].op # "get" \/ part \in work[r].shown)
  \/ part = "user" /\ work[r].next \in {"insertPreference", "writePreference"}

\* Another request gives the column a value.
Contested(r, p, part, c) == \E o \in Requests \ {r} : Given(o, p, part)[c] # {}

Kept(r, p, part, row, c) ==
  \/ Contested(r, p, part, c)
  \/ Fresh(r, part) /\ (c = "password" \/ row[c] = work[r].seen[part][c])
  \/ Settled(r, part) /\ (\/ c = "password" /\ Given(r, p, part)[c] = {}
                          \/ row[c] = Or(Given(r, p, part)[c], work[r].seen[part][c]))

Holds(r, p, part) ==
  Fresh(r, part) \/ Settled(r, part) =>
    /\ people[p][part] # {}
    /\ \A row \in people[p][part] : \A c \in DOMAIN row : Kept(r, p, part, row, c)

Promise(r) == \A p \in People : work[r].id = {p} => \A part \in Parts : Holds(r, p, part)

\* What a request shows so far: no password, and nothing of a registration.
Shows(r) ==
  /\ work[r].next \in Pending \ {"view"} => work[r].shown = {}
  /\ work[r].next \in Done \/ "user" \in work[r].shown => work[r].seen.user["password"] \in {"", Null}
  /\ work[r].op = "update" /\ work[r].next \in {"lookPreference", "write"} =>
       work[r].seen.user["password"] = Null
  /\ work[r].op = "create" /\ work[r].next \in {"find", "insert"} => work[r].id = {}
  /\ work[r].op = "create" /\ work[r].next \in {"find", "insert", "insertPreference"} =>
       work[r].seen = NoEntity
  /\ work[r].next \in Done => work[r].id # {}

AnswersInv == \A r \in Requests : Promise(r) /\ Shows(r)

\* What a request was given stays.
Follows(r) ==
  \/ work[r].op \in {"none", "login"}
  \/ /\ work'[r].op = work[r].op /\ work'[r].body = work[r].body
     /\ work[r].id # {} => work'[r].id = work[r].id

\* A value that is given for a column of an account is given ever after.
LEMMA GivenStays ==
  ASSUME ProfilesInv, NEW r \in Requests, Follows(r), NEW p \in People, NEW part \in Parts, NEW c,
         c \in Columns \cup PreferenceColumns, Given(r, p, part)[c] # {}
  PROVE  Given(r, p, part)' = Given(r, p, part)
<1>1. Blank(Columns \cup PreferenceColumns)[c] = {}
  BY DEF Blank
<1>2. work[r].id = {p} /\ work[r].op \in {"create", "update"}
  BY <1>1 DEF Given
<1>3. /\ work'[r].op = work[r].op /\ work'[r].body = work[r].body
      /\ work'[r].id = work[r].id
  BY <1>2 DEF Follows
<1>4. Preference(work[r])' = Preference(work[r])
  BY <1>3 DEF Preference
<1> QED
  BY <1>3, <1>4 DEF Given

\* The columns of a row.
LEMMA RowColumns ==
  ASSUME Types, NEW p \in People, NEW part \in Parts, NEW row \in people[p][part]
  PROVE  /\ DOMAIN row \subseteq Columns \cup PreferenceColumns
         /\ part = "user" => row \in RowsOver(Columns) /\ DOMAIN row = Columns
         /\ part = "preference" => row \in RowsOver(PreferenceColumns) /\ DOMAIN row = PreferenceColumns
<1>1. /\ people[p].user \subseteq RowsOver(Columns)
      /\ people[p].preference \subseteq RowsOver(PreferenceColumns)
  BY RowType DEF Optional
<1> QED
  BY <1>1 DEF Parts, RowsOver

\* What another request promises holds as long as the rows only change as they are
\* given.
LEMMA Bystander ==
  ASSUME ProfilesInv, NEW r \in Requests, OnlyGivenBy(r), Follows(r),
         NEW q \in Requests \ {r}, \A o \in Requests \ {r} : work'[o] = work[o],
         Promise(q), Shows(q)
  PROVE  Promise(q)' /\ Shows(q)'
<1>1. work'[q] = work[q]
  OBVIOUS
<1>2. Shows(q)'
  BY <1>1 DEF Shows
<1>3. \A part : Fresh(q, part)' = Fresh(q, part) /\ Settled(q, part)' = Settled(q, part)
  BY <1>1 DEF Fresh, Settled
<1>4. ASSUME NEW p \in People, work[q].id = {p}, NEW part \in Parts,
             Fresh(q, part) \/ Settled(q, part)
      PROVE  /\ people'[p][part] # {}
             /\ \A new \in people'[p][part] : \A c \in DOMAIN new : Kept(q, p, part, new, c)'
  <2>1. people[p][part] # {} /\ \A row \in people[p][part] : \A c \in DOMAIN row : Kept(q, p, part, row, c)
    BY <1>4 DEF Promise, Holds
  <2>2. PICK row \in people[p][part] : TRUE
    BY <2>1
  <2>3. PICK new : people'[p][part] = {new} /\ GivenBy(r, p, part, row, new)
    BY DEF OnlyGivenBy
  <2>4. ASSUME NEW c \in DOMAIN row PROVE Kept(q, p, part, new, c)'
    <3>1. c \in Columns \cup PreferenceColumns
      BY RowColumns DEF ProfilesInv
    <3>2. \A o \in Requests : Given(o, p, part)[c] # {} => Given(o, p, part)' = Given(o, p, part)
      <4> SUFFICES ASSUME NEW o \in Requests, Given(o, p, part)[c] # {}
                   PROVE  Given(o, p, part)' = Given(o, p, part)
        OBVIOUS
      <4>1. CASE o = r
        BY <3>1, <4>1, GivenStays
      <4>2. CASE o # r
        BY <4>2 DEF Given, Preference
      <4> QED
        BY <4>1, <4>2
    <3>3. CASE Contested(q, p, part, c)
      <4>1. Contested(q, p, part, c)'
        BY <3>2, <3>3 DEF Contested
      <4> QED
        BY <4>1 DEF Kept
    <3>4. CASE ~Contested(q, p, part, c)
      <4>1. Given(r, p, part)[c] = {}
        BY <3>4 DEF Contested
      <4>2. new[c] = row[c]
        BY <2>3, <4>1 DEF GivenBy
      <4>3. Given(q, p, part)' = Given(q, p, part)
        BY <1>1 DEF Given, Preference
      <4>4. Kept(q, p, part, row, c)
        BY <2>1
      <4> QED
        BY <1>1, <1>3, <3>4, <4>2, <4>3, <4>4 DEF Kept
    <3> QED
      BY <3>3, <3>4
  <2> QED
    BY <2>3, <2>4 DEF GivenBy
<1>5. Promise(q)'
  BY <1>1, <1>3, <1>4 DEF Promise, Holds
<1> QED
  BY <1>2, <1>5

-----------------------------------------------------------------------------
(* What rows and entities are after a step *)

\* Columns have no null value in a text.
LEMMA EntityValues ==
  ASSUME NEW C, NEW f \in [C -> Optional(Texts)]
  PROVE  /\ DOMAIN Entity(f) = C
         /\ \A c \in C : Entity(f)[c] = Or(f[c], Null)
         /\ \A c \in C : Attributes(Entity(f))[c] = f[c]
         /\ DOMAIN Attributes(Entity(f)) = C
         /\ DOMAIN Entity(Attributes(Entity(f))) = C
         /\ \A c \in C : Entity(Attributes(Entity(f)))[c] = Or(f[c], Null)
<1>1. DOMAIN f = C /\ Entity(f) = [c \in C |-> Or(f[c], Null)]
  BY DEF Entity
<1>2. Attributes(Entity(f)) = [c \in C |-> {Or(f[c], Null)} \ {Null}]
  BY <1>1 DEF Attributes
<1>3. \A c \in C : {Or(f[c], Null)} \ {Null} = f[c]
  <2> SUFFICES ASSUME NEW c \in C PROVE {Or(f[c], Null)} \ {Null} = f[c]
    OBVIOUS
  <2>1. CASE f[c] = {}
    <3>1. Or(f[c], Null) = Null
      BY <2>1, Values
    <3> QED
      BY <2>1, <3>1
  <2>2. ASSUME NEW x \in Texts, f[c] = {x} PROVE {Or(f[c], Null)} \ {Null} = f[c]
    <3>1. Or(f[c], Null) = x /\ x # Null
      BY <2>2, Values, TextsAssumption
    <3> QED
      BY <2>2, <3>1
  <2>3. f[c] \in Optional(Texts)
    OBVIOUS
  <2> QED
    BY <2>1, <2>2, <2>3, Fields
<1>4. \A c \in C : Attributes(Entity(f))[c] = f[c]
  BY <1>2, <1>3
<1>5. DOMAIN Attributes(Entity(f)) = C
  BY <1>2
<1>6. Entity(Attributes(Entity(f))) = [c \in C |-> Or(f[c], Null)]
  BY <1>4, <1>5 DEF Entity
<1> QED
  BY <1>1, <1>4, <1>5, <1>6

\* A row that is read and given back is the same.
LEMMA ReadBack ==
  ASSUME NEW C, NEW row \in RowsOver(C)
  PROVE  /\ DOMAIN Entity(Attributes(row)) = C
         /\ \A c \in C : Entity(Attributes(row))[c] = row[c]
<1>1. DOMAIN row = C /\ Attributes(row) = [c \in C |-> {row[c]} \ {Null}]
  BY DEF Attributes, RowsOver
<1>2. Entity(Attributes(row)) = [c \in C |-> Or({row[c]} \ {Null}, Null)]
  BY <1>1 DEF Entity
<1>3. \A c \in C : Or({row[c]} \ {Null}, Null) = row[c]
  <2> SUFFICES ASSUME NEW c \in C PROVE Or({row[c]} \ {Null}, Null) = row[c]
    OBVIOUS
  <2>1. CASE row[c] = Null
    <3>1. {row[c]} \ {Null} = {}
      BY <2>1
    <3> QED
      BY <2>1, <3>1, Values
  <2>2. CASE row[c] # Null
    <3>1. {row[c]} \ {Null} = {row[c]}
      BY <2>2
    <3> QED
      BY <3>1, Values
  <2> QED
    BY <2>1, <2>2
<1> QED
  BY <1>2, <1>3

\* The preference that is read is that of the row.
LEMMA JoinedRow ==
  ASSUME Types, NEW p \in People, NEW row \in people[p].preference
  PROVE  \A c \in DOMAIN row : Joined(p)[c] = row[c]
<1>1. people[p].preference = {row} /\ row \in RowsOver(PreferenceColumns)
  <2>1. people[p].preference \in Optional(RowsOver(PreferenceColumns))
    BY RowType
  <2> QED
    BY <2>1 DEF Optional
<1>2. Joined(p) = Entity(Attributes(row))
  BY <1>1, Values DEF Joined
<1> QED
  BY <1>1, <1>2, ReadBack DEF RowsOver

\* What a request gives, as values: those of its body.
LEMMA GivenType ==
  ASSUME NEW w \in Works
  PROVE  /\ Protected(w.body.user) \in [Columns -> Optional(Texts)]
         /\ Preference(w) \in [PreferenceColumns -> Optional(Texts)]
         /\ \A c \in Columns \ {"password"} : Protected(w.body.user)[c] = w.body.user[c]
         /\ w.body.user["password"] \in Optional(Texts)
         /\ Protected(w.body.user)["password"] # {} => w.body.user["password"] # {}
<1>1. w.body.user \in [Columns -> Optional(Texts)]
      /\ w.body.preference \in Optional([PreferenceColumns -> Optional(Texts)])
  BY DEF Works, ProfileBodies
<1>2. "password" \in Columns
  BY DEF Columns, Required
<1>3. Protected(w.body.user) = [w.body.user EXCEPT !["password"] = HashOf(@)]
  BY DEF Protected
<1>4. HashOf(w.body.user["password"]) \in Optional(Texts)
  <2>1. ASSUME NEW x \in Texts, w.body.user["password"] = {x}
        PROVE  HashOf(w.body.user["password"]) \in Optional(Texts)
    <3>1. HashOf(w.body.user["password"]) = {Hash(x)} /\ Hash(x) \in Texts
      BY <2>1, TextsAssumption DEF HashOf
    <3> QED
      BY <3>1, Fields
  <2>2. CASE w.body.user["password"] = {}
    <3>1. HashOf(w.body.user["password"]) = {} /\ {} \in Optional(Texts)
      BY <2>2, Fields DEF HashOf
    <3> QED
      BY <3>1
  <2> QED
    BY <1>1, <1>2, <2>1, <2>2, Fields
<1>5. Protected(w.body.user) \in [Columns -> Optional(Texts)]
  BY <1>1, <1>3, <1>4
<1>6. Preference(w) \in [PreferenceColumns -> Optional(Texts)]
  <2>1. Blank(PreferenceColumns) \in [PreferenceColumns -> Optional(Texts)]
    BY Fields DEF Blank
  <2>2. CASE w.body.preference = {}
    BY <2>1, <2>2, Values DEF Preference
  <2>3. ASSUME NEW q \in [PreferenceColumns -> Optional(Texts)], w.body.preference = {q}
        PROVE  Preference(w) \in [PreferenceColumns -> Optional(Texts)]
    <3>1. Preference(w) = q
      BY <2>3, Values DEF Preference
    <3> QED
      BY <3>1
  <2> QED
    BY <1>1, <2>2, <2>3, Fields
<1>7. \A c \in Columns \ {"password"} : Protected(w.body.user)[c] = w.body.user[c]
  BY <1>1, <1>3
<1>8. Protected(w.body.user)["password"] = HashOf(w.body.user["password"])
  BY <1>1, <1>2, <1>3
<1>9. HashOf({}) = {}
  BY DEF HashOf
<1> QED
  BY <1>1, <1>2, <1>5, <1>6, <1>7, <1>8, <1>9

\* A merged row has the value that is given, or its own.
LEMMA MergedValues ==
  ASSUME NEW C, NEW row \in RowsOver(C), NEW f \in [C -> Optional(Texts)]
  PROVE  \A c \in C : Merged(row, Attributes(Entity(f)))[c] = Or(f[c], row[c])
<1>1. DOMAIN row = C
  BY DEF RowsOver
<1>2. \A c \in C : Attributes(Entity(f))[c] = f[c]
  BY EntityValues
<1> HIDE DEF Attributes
<1> QED
  BY <1>1, <1>2 DEF Merged

\* Where no update is needed, what is given is there.
LEMMA Needless ==
  ASSUME NEW e, NEW f, ~MustUpdate(e, f), NEW c \in DOMAIN f
  PROVE  Or(f[c], e[c]) = e[c]
<1>1. f[c] = {} \/ f[c] = {e[c]}
  BY DEF MustUpdate
<1> QED
  BY <1>1, Values

\* What requests give to their account.
LEMMA GivenTo ==
  ASSUME NEW r, NEW p, work[r].id = {p}
  PROVE  /\ work[r].op \in {"create", "update"} =>
              /\ Given(r, p, "user") = Protected(work[r].body.user)
              /\ Given(r, p, "preference") = Preference(work[r])
         /\ work[r].op \notin {"create", "update"} =>
              \A part : \A c \in Columns \cup PreferenceColumns : Given(r, p, part)[c] = {}
BY DEF Given, Blank

-----------------------------------------------------------------------------
(* What a step leaves of the promises of its own request *)

\* The other requests give what they gave.
LEMMA OthersGive ==
  ASSUME NEW r \in Requests, \A o \in Requests \ {r} : work'[o] = work[o]
  PROVE  \A p, part, c : Contested(r, p, part, c)' = Contested(r, p, part, c)
BY DEF Contested, Given, Preference

\* A part that is still as it was read.
LEMMA StillFresh ==
  ASSUME NEW r \in Requests, \A o \in Requests \ {r} : work'[o] = work[o],
         NEW p \in People, NEW part \in Parts, people'[p][part] = people[p][part],
         Holds(r, p, part), Fresh(r, part), Fresh(r, part)', ~Settled(r, part),
         work'[r].seen[part] = work[r].seen[part]
  PROVE  Holds(r, p, part)'
BY OthersGive DEF Holds, Kept

\* A part that is still as it was promised.
LEMMA StillSettled ==
  ASSUME NEW r \in Requests, \A o \in Requests \ {r} : work'[o] = work[o],
         NEW p \in People, NEW part \in Parts, people'[p][part] = people[p][part],
         Holds(r, p, part), Settled(r, part), Settled(r, part)', ~Fresh(r, part),
         work'[r].seen[part] = work[r].seen[part], Given(r, p, part)' = Given(r, p, part)
  PROVE  Holds(r, p, part)'
BY OthersGive DEF Holds, Kept

\* A part that is as it was read, and that needs no write.
LEMMA Spared ==
  ASSUME NEW r \in Requests, \A o \in Requests \ {r} : work'[o] = work[o],
         NEW p \in People, NEW part \in Parts, people'[p][part] = people[p][part],
         Holds(r, p, part), Fresh(r, part), ~Settled(r, part), Settled(r, part)',
         \A row \in people[p][part] : \A c \in DOMAIN row :
           IF c = "password" THEN Given(r, p, part)'[c] = {}
             ELSE Or(Given(r, p, part)'[c], work'[r].seen[part][c]) = work[r].seen[part][c]
  PROVE  Holds(r, p, part)'
<1>1. people'[p][part] # {}
  BY DEF Holds
<1>2. ASSUME NEW row \in people'[p][part], NEW c \in DOMAIN row PROVE Kept(r, p, part, row, c)'
  <2>1. Kept(r, p, part, row, c)
    BY <1>2 DEF Holds
  <2>2. CASE Contested(r, p, part, c)
    BY <2>2, OthersGive DEF Kept
  <2>3. CASE c = "password"
    BY <1>2, <2>3 DEF Kept
  <2>4. CASE c # "password" /\ row[c] = work[r].seen[part][c]
    BY <1>2, <2>4 DEF Kept
  <2> QED
    BY <2>1, <2>2, <2>3, <2>4 DEF Kept
<1> QED
  BY <1>1, <1>2 DEF Holds

\* A request of a registration that is written, or of which a row is merged.
LEMMA Written ==
  ASSUME NEW r \in Requests, NEW p \in People, NEW part \in Parts, NEW new,
         people'[p][part] = {new}, ~Fresh(r, part)', Settled(r, part)',
         \A c \in DOMAIN new :
           \/ Contested(r, p, part, c)'
           \/ c = "password" /\ Given(r, p, part)'[c] = {}
           \/ new[c] = Or(Given(r, p, part)'[c], work'[r].seen[part][c])
  PROVE  Holds(r, p, part)'
<1>1. ASSUME NEW c \in DOMAIN new PROVE Kept(r, p, part, new, c)'
  BY <1>1 DEF Kept
<1> QED
  BY <1>1 DEF Holds

\* A request that promises nothing.
LEMMA Quiet ==
  ASSUME ProfilesInv, NEW r \in Requests, Shows(r), NEW w \in Works, NEW n \in Nexts, Go(r, w, n),
         w.op = work[r].op, w.body = work[r].body, w.shown = work[r].shown,
         w.id = work[r].id \/ w.op = "login", w.seen = work[r].seen \/ (w.shown = {} /\ n \notin Pending),
         n \in {"conflict", "notFound", "unauthorized", "business", "internal", "insert", "look"},
         n \in Pending => work[r].next = "find"
  PROVE  Promise(r)' /\ Shows(r)' /\ Follows(r)
<1>1. /\ work'[r].next = n /\ work'[r].op = w.op /\ work'[r].id = w.id /\ work'[r].body = w.body
      /\ work'[r].seen = w.seen /\ work'[r].shown = w.shown
  BY Going DEF ProfilesInv
<1>2. n \notin Done /\ n \notin {"view", "insertPreference", "lookPreference", "write", "writePreference"}
  BY DEF Done
<1>3. \A part : ~Fresh(r, part)' /\ ~Settled(r, part)'
  BY <1>1, <1>2 DEF Fresh, Settled
<1>4. Promise(r)'
  BY <1>3 DEF Promise, Holds
<1>5. Shows(r)'
  BY <1>1, <1>2 DEF Shows, Pending
<1>6. Follows(r)
  BY <1>1 DEF Follows
<1> QED
  BY <1>4, <1>5, <1>6

-----------------------------------------------------------------------------
(* What each step promises *)

LEMMA NullEntity ==
  /\ \A c \in Columns : NoEntity.user[c] = Null
  /\ \A c \in PreferenceColumns : NoEntity.preference[c] = Null
<1>1. \A C : Blank(C) \in [C -> Optional(Texts)] /\ \A c \in C : Blank(C)[c] = {}
  BY Fields DEF Blank
<1>2. \A C : \A c \in C : Entity(Blank(C))[c] = Or({}, Null)
  BY <1>1, EntityValues
<1>3. NoEntity.user = Entity(Blank(Columns)) /\ NoEntity.preference = Entity(Blank(PreferenceColumns))
  BY DEF NoEntity
<1> QED
  BY <1>2, <1>3, Values

LEMMA AnswerFail ==
  ASSUME ProfilesInv, NEW r \in Requests, Shows(r), FailProfile(r)
  PROVE  Promise(r)' /\ Shows(r)' /\ Follows(r)
<1>1. Go(r, work[r], "internal") /\ work[r] \in Works
  BY DEF FailProfile, ProfilesInv, Types
<1>2. "internal" \in Nexts /\ "internal" \notin Pending
  BY DEF Nexts, Ends, Pending
<1> QED
  BY <1>1, <1>2, Quiet

LEMMA AnswerFind ==
  ASSUME ProfilesInv, NEW r \in Requests, Shows(r), Find(r)
  PROVE  Promise(r)' /\ Shows(r)' /\ Follows(r)
<1>1. work[r] \in Works /\ work[r].next = "find"
  BY DEF Find, ProfilesInv, Types
<1>2. {"conflict", "insert", "notFound", "look"} \subseteq Nexts
  BY DEF Nexts, Ends, Pending
<1>3. ASSUME NEW n \in {"conflict", "insert", "notFound"}, Go(r, work[r], n)
      PROVE  Promise(r)' /\ Shows(r)' /\ Follows(r)
  <2>1. n \in Nexts /\ n \in {"conflict", "notFound", "unauthorized", "business", "internal", "insert", "look"}
    BY <1>2
  <2> QED
    BY <1>1, <1>3, <2>1, Quiet
<1>4. ASSUME NEW p \in People, work[r].op = "login", Go(r, [work[r] EXCEPT !.id = {p}], "look")
      PROVE  Promise(r)' /\ Shows(r)' /\ Follows(r)
  <2> DEFINE w == [work[r] EXCEPT !.id = {p}]
  <2>1. {p} \in Optional(People)
    BY Fields
  <2>2. /\ w \in Works /\ w.op = work[r].op /\ w.body = work[r].body /\ w.shown = work[r].shown
        /\ w.seen = work[r].seen /\ Go(r, w, "look")
    BY <1>1, <1>4, <2>1 DEF Works
  <2> HIDE DEF w
  <2> QED
    BY <1>1, <1>2, <1>4, <2>2, Quiet
<1>5. \/ \E n \in {"conflict", "insert", "notFound"} : Go(r, work[r], n)
      \/ \E p \in People : work[r].op = "login" /\ Go(r, [work[r] EXCEPT !.id = {p}], "look")
  BY DEF Find, With
<1> QED
  BY <1>3, <1>4, <1>5

LEMMA AnswerBegin ==
  ASSUME ProfilesInv, NEW r \in Requests, Begin(r)
  PROVE  Promise(r)' /\ Shows(r)' /\ Follows(r)
<1>1. PICK op \in Operations : \E d \in ProfileData(op) : BeginProfile(r, op, d)
  BY DEF Begin
<1>2. PICK d \in ProfileData(op) : BeginProfile(r, op, d)
  BY <1>1
<1> DEFINE w == [NoWork EXCEPT !.op = op, !.id = d.id, !.agent = d.agent,
                               !.body = Parsed(op, d.body)]
           n == CASE op \in {"create", "login"} -> "find" [] op = "get" -> "view"
                  [] op = "update" -> "look"
<1>3. work' = [work EXCEPT ![r] = [w EXCEPT !.next = n]]
  BY <1>2 DEF BeginProfile, Go
<1>4. n \in {"find", "view", "look"} /\ (n = "view" <=> op = "get")
  BY DEF Operations
<1> HIDE DEF n
<1>5. /\ [w EXCEPT !.next = n].next = n /\ [w EXCEPT !.next = n].op = op
      /\ [w EXCEPT !.next = n].id = d.id
      /\ [w EXCEPT !.next = n].seen = NoEntity /\ [w EXCEPT !.next = n].shown = {}
  BY DEF NoWork
<1> HIDE DEF w
<1>6. /\ work'[r].next = n /\ work'[r].op = op /\ work'[r].id = d.id
      /\ work'[r].seen = NoEntity /\ work'[r].shown = {}
  BY <1>3, <1>5 DEF ProfilesInv, Types
<1>7. d.id = {} <=> op \in {"create", "login"}
  BY DEF ProfileData
<1>8. n \notin Done
  BY <1>4 DEF Done
<1>9. Promise(r)'
  BY <1>4, <1>6, <1>8 DEF Promise, Holds, Fresh, Settled
<1>10. Shows(r)'
  BY <1>4, <1>6, <1>7, <1>8 DEF Shows
<1>11. Follows(r)
  <2>1. NoWork.op = "none"
    BY DEF NoWork
  <2>2. work[r].op = "none"
    BY <2>1 DEF Begin
  <2> QED
    BY <2>2 DEF Follows
<1> QED
  BY <1>9, <1>10, <1>11

\* A registration has written the user: it is as it was given, and as it is not yet seen.
LEMMA AnswerInsert ==
  ASSUME ProfilesInv, ProfilesInv', NEW r \in Requests, Shows(r), Insert(r)
  PROVE  Promise(r)' /\ Shows(r)' /\ Follows(r)
<1>1. work[r] \in Works /\ work[r].next = "insert" /\ work[r].op = "create"
  BY DEF Insert, ProfilesInv, Types, Places
<1>2. work[r].id = {} /\ work[r].seen = NoEntity /\ work[r].shown = {}
  BY <1>1 DEF Shows, Pending
<1>3. CASE Go(r, work[r], "internal")
  <2>1. "internal" \in Nexts /\ "internal" \notin Pending
    BY DEF Nexts, Ends, Pending
  <2> QED
    BY <1>1, <1>3, <2>1, Quiet
<1>4. ASSUME NEW p \in People,
             people' = [people EXCEPT ![p].user = {Entity(UserValues(work[r]))}],
             Go(r, [work[r] EXCEPT !.id = {p}], "insertPreference")
      PROVE  Promise(r)' /\ Shows(r)' /\ Follows(r)
  <2> DEFINE w == [work[r] EXCEPT !.id = {p}]
             new == Entity(UserValues(work[r]))
             f == Protected(work[r].body.user)
  <2>1. {p} \in Optional(People)
    BY Fields
  <2>2. /\ w \in Works /\ w.op = "create" /\ w.id = {p} /\ w.body = work[r].body
        /\ w.seen = NoEntity /\ w.shown = {} /\ Go(r, w, "insertPreference")
    BY <1>1, <1>2, <1>4, <2>1 DEF Works
  <2> HIDE DEF w
  <2>3. "insertPreference" \in Nexts /\ "insertPreference" \notin Done
    BY DEF Nexts, Pending, Done
  <2>4. /\ work'[r].next = "insertPreference" /\ work'[r].op = "create" /\ work'[r].id = {p}
        /\ work'[r].body = work[r].body /\ work'[r].seen = NoEntity /\ work'[r].shown = {}
    BY <2>2, <2>3, Going DEF ProfilesInv
  <2>5. f \in [Columns -> Optional(Texts)]
    BY <1>1, GivenType
  <2>6. DOMAIN new = Columns /\ \A c \in Columns : new[c] = Or(f[c], Null)
    BY <2>5, EntityValues DEF UserValues
  <2>7. people'[p].user = {new}
    BY <1>4 DEF ProfilesInv, Types, AccountRows
  <2>8. Given(r, p, "user")' = f
    BY <2>4 DEF Given
  <2> HIDE DEF new, f
  <2>9. Holds(r, p, "user")'
    <3>1. ~Fresh(r, "user")' /\ Settled(r, "user")' /\ people'[p]["user"] = {new}
      BY <2>3, <2>4, <2>7 DEF Fresh, Settled
    <3>2. \A c \in Columns : work'[r].seen["user"][c] = Null
      BY <2>4, NullEntity
    <3>3. \A c \in DOMAIN new : new[c] = Or(Given(r, p, "user")'[c], work'[r].seen["user"][c])
      BY <2>6, <2>8, <3>2
    <3>4. "user" \in Parts
      BY DEF Parts
    <3> QED
      BY <3>1, <3>3, <3>4, Written
  <2>10. Holds(r, p, "preference")'
    BY <2>3, <2>4 DEF Holds, Fresh, Settled
  <2>11. Promise(r)'
    BY <2>4, <2>9, <2>10 DEF Promise, Parts
  <2>12. Shows(r)'
    BY <2>3, <2>4 DEF Shows
  <2>13. Follows(r)
    BY <1>1, <1>2, <2>4 DEF Follows
  <2> QED
    BY <2>11, <2>12, <2>13
<1> QED
  BY <1>3, <1>4 DEF Insert

\* A registration has written the preference.
LEMMA AnswerInsertPreference ==
  ASSUME ProfilesInv, NEW r \in Requests, Promise(r), Shows(r), InsertPreference(r)
  PROVE  Promise(r)' /\ Shows(r)' /\ Follows(r)
<1>1. /\ work[r] \in Works /\ work[r].next = "insertPreference" /\ work[r].op = "create"
      /\ people \in [People -> AccountRows]
  BY DEF InsertPreference, ProfilesInv, Types, Places
<1>2. PICK p \in People : work[r].id = {p} /\ Id(r) = p
  BY <1>1, Owner DEF Pending
<1>3. work[r].seen = NoEntity /\ work[r].shown = {}
  BY <1>1 DEF Shows, Pending
<1> DEFINE f == Preference(work[r])
           new == Entity(PreferenceValues(work[r]))
<1>4. people' = [people EXCEPT ![p].preference = {new}] /\ Go(r, work[r], "view")
  BY <1>2 DEF InsertPreference
<1>5. f \in [PreferenceColumns -> Optional(Texts)]
  BY <1>1, GivenType
<1>6. DOMAIN new = PreferenceColumns /\ \A c \in PreferenceColumns : new[c] = Or(f[c], Null)
  BY <1>5, EntityValues DEF PreferenceValues
<1> HIDE DEF new
<1>7. people'[p].preference = {new} /\ people'[p].user = people[p].user
  BY <1>1, <1>4 DEF AccountRows
<1>8. "view" \in Nexts /\ "view" \notin Done
  BY DEF Nexts, Pending, Done
<1>9. /\ work'[r].next = "view" /\ work'[r].op = "create" /\ work'[r].id = {p}
      /\ work'[r].body = work[r].body /\ work'[r].seen = NoEntity /\ work'[r].shown = {}
      /\ \A o \in Requests \ {r} : work'[o] = work[o]
  BY <1>1, <1>2, <1>3, <1>4, <1>8, Going DEF ProfilesInv
<1>10. /\ Given(r, p, "preference")' = f
       /\ Given(r, p, "user")' = Given(r, p, "user")
  BY <1>1, <1>2, <1>9 DEF Given, Preference
<1> HIDE DEF f
<1>11. \A part \in Parts : Settled(r, part)' /\ ~Fresh(r, part)'
  BY <1>9 DEF Settled, Fresh
<1>12. Holds(r, p, "user")'
  <2>1. Holds(r, p, "user") /\ Settled(r, "user") /\ ~Fresh(r, "user") /\ "user" \in Parts
    BY <1>1, <1>2 DEF Promise, Parts, Settled, Fresh
  <2> QED
    BY <1>3, <1>7, <1>9, <1>10, <1>11, <2>1, StillSettled
<1>13. Holds(r, p, "preference")'
  <2>1. \A c \in PreferenceColumns : work'[r].seen["preference"][c] = Null
    BY <1>9, NullEntity
  <2>2. \A c \in DOMAIN new : new[c] = Or(Given(r, p, "preference")'[c], work'[r].seen["preference"][c])
    BY <1>6, <1>10, <2>1
  <2>3. "preference" \in Parts
    BY DEF Parts
  <2> QED
    BY <1>7, <1>11, <2>2, <2>3, Written
<1>14. Promise(r)'
  BY <1>9, <1>12, <1>13 DEF Promise, Parts
<1>15. Shows(r)'
  BY <1>8, <1>9 DEF Shows
<1>16. Follows(r)
  BY <1>2, <1>9, <1>1 DEF Follows
<1> QED
  BY <1>14, <1>15, <1>16

\* The user is read: its row is as it was read, but for a password that is hidden.
LEMMA AnswerLook ==
  ASSUME ProfilesInv, NEW r \in Requests, Shows(r), Look(r)
  PROVE  Promise(r)' /\ Shows(r)' /\ Follows(r)
<1>1. /\ work[r] \in Works /\ work[r].next = "look" /\ UNCHANGED people
      /\ work[r].op \in {"login", "update"}
  BY DEF Look, ProfilesInv, Types, Places
<1>2. PICK p \in People : work[r].id = {p} /\ Id(r) = p
  BY <1>1, Owner DEF Pending
<1>3. /\ {"internal", "unauthorized", "lookPreference"} \subseteq Nexts
      /\ "internal" \notin Pending /\ "unauthorized" \notin Pending
      /\ "lookPreference" \notin Done
  BY DEF Nexts, Ends, Pending, Done
<1>4. work[r].shown = {}
  BY <1>1 DEF Shows, Pending
<1>5. CASE Go(r, work[r], "internal")
  BY <1>1, <1>3, <1>5, Quiet
<1>6. CASE people[p].user # {}
  <2> DEFINE e == Loaded(Row(p), Hidden(work[r].op = "update"))
             w == [work[r] EXCEPT !.seen = [user |-> e, preference |-> Joined(p)]]
  <2>1. /\ Row(p) \in RowsOver(Columns) /\ Joined(p) \in RowsOver(PreferenceColumns)
        /\ people[p].user = {Row(p)}
    BY <1>6, RowType, JoinedType DEF ProfilesInv
  <2>2. [user |-> e, preference |-> Joined(p)] \in Entities
    BY <2>1, ReadType DEF Entities
  <2>3. DOMAIN Row(p) = Columns
    BY <2>1 DEF RowsOver
  <2>4. /\ \A c \in Columns \ {"password"} : e[c] = Row(p)[c]
        /\ work[r].op = "update" => e["password"] = Null
    <3>1. "password" \in Columns
      BY DEF Columns, Required
    <3> QED
      BY <2>3, <3>1 DEF Loaded, Hidden
  <2>5. PICK n \in {"unauthorized", "lookPreference"} : Go(r, w, n)
    BY <1>2, <1>6 DEF Look
  <2> HIDE DEF e
  <2>6. /\ w \in Works /\ w.op = work[r].op /\ w.id = work[r].id /\ w.body = work[r].body
        /\ w.shown = {} /\ w.seen.user = e
    BY <1>1, <1>4, <2>2 DEF Works
  <2> HIDE DEF w
  <2>7. CASE n = "unauthorized"
    BY <1>1, <1>3, <1>4, <2>5, <2>6, <2>7, Quiet
  <2>8. CASE n = "lookPreference"
    <3>1. /\ work'[r].next = "lookPreference" /\ work'[r].op = work[r].op /\ work'[r].id = {p}
          /\ work'[r].body = work[r].body /\ work'[r].shown = {} /\ work'[r].seen.user = e
      BY <1>2, <1>3, <2>5, <2>6, <2>8, Going DEF ProfilesInv
    <3>2. Fresh(r, "user")' /\ ~Fresh(r, "preference")'
      BY <3>1 DEF Fresh
    <3>3. Holds(r, p, "user")'
      <4>1. ASSUME NEW row, row = Row(p), NEW c \in Columns PROVE Kept(r, p, "user", row, c)'
        <5>1. c = "password" \/ row[c] = work'[r].seen["user"][c]
          BY <2>4, <3>1, <4>1
        <5> QED
          BY <3>2, <5>1 DEF Kept
      <4>2. people'[p]["user"] = {Row(p)}
        BY <1>1, <2>1
      <4> QED
        BY <2>3, <4>1, <4>2 DEF Holds
    <3>4. Holds(r, p, "preference")'
      BY <1>3, <3>1, <3>2 DEF Holds, Settled
    <3>5. Promise(r)'
      BY <3>1, <3>3, <3>4 DEF Promise, Parts
    <3>6. Shows(r)'
      BY <1>1, <1>3, <2>4, <3>1 DEF Shows
    <3> QED
      BY <3>1, <3>5, <3>6, <1>2 DEF Follows
  <2> QED
    BY <2>5, <2>7, <2>8
<1> QED
  BY <1>1, <1>2, <1>5, <1>6 DEF Look

\* The preference is read: both rows are as they were read, or as promised where
\* nothing is to be written.
LEMMA AnswerLookPreference ==
  ASSUME ProfilesInv, NEW r \in Requests, Promise(r), Shows(r), LookPreference(r)
  PROVE  Promise(r)' /\ Shows(r)' /\ Follows(r)
<1>1. /\ work[r] \in Works /\ work[r].next = "lookPreference" /\ UNCHANGED people
      /\ work[r].op \in {"login", "update"}
  BY DEF LookPreference, ProfilesInv, Types, Places
<1>2. PICK p \in People : work[r].id = {p} /\ Id(r) = p
  BY <1>1, Owner DEF Pending
<1> DEFINE read == [work[r] EXCEPT !.seen.preference = Joined(p)]
           shown == [read EXCEPT !.seen.user = WithoutPassword(@)]
           Post(w, n) == /\ work'[r].next = n /\ work'[r].op = w.op /\ work'[r].id = w.id
                         /\ work'[r].body = w.body /\ work'[r].seen = w.seen /\ work'[r].shown = w.shown
                         /\ \A o \in Requests \ {r} : work'[o] = work[o]
<1>3. /\ Joined(p) \in RowsOver(PreferenceColumns)
      /\ work[r].seen.user \in RowsOver(Columns)
      /\ WithoutPassword(work[r].seen.user) \in RowsOver(Columns)
  BY <1>1, JoinedType, ReadType DEF ProfilesInv, Works, Entities
<1>4. /\ read \in Works /\ read.op = work[r].op /\ read.id = work[r].id /\ read.body = work[r].body
      /\ read.shown = work[r].shown
      /\ read.seen.user = work[r].seen.user /\ read.seen.preference = Joined(p)
      /\ shown \in Works /\ shown.op = work[r].op /\ shown.id = work[r].id /\ shown.body = work[r].body
      /\ shown.shown = work[r].shown
      /\ shown.seen.user = WithoutPassword(work[r].seen.user) /\ shown.seen.preference = Joined(p)
  BY <1>1, <1>3 DEF Works, Entities
<1>5. work[r].shown = {}
  BY <1>1 DEF Shows, Pending
<1>6. /\ {"internal", "ok", "business", "write", "writePreference", "view"} \subseteq Nexts
      /\ {"internal", "ok", "business"} \cap Pending = {}
      /\ {"write", "writePreference", "view"} \cap Done = {} /\ "ok" \in Done
  BY DEF Nexts, Ends, Done, Pending
<1>7. /\ \A row \in people[p].user : row \in RowsOver(Columns) /\ DOMAIN row = Columns
      /\ \A row \in people[p].preference : row \in RowsOver(PreferenceColumns) /\ DOMAIN row = PreferenceColumns
  <2>1. {"user", "preference"} \subseteq Parts
    BY DEF Parts
  <2> QED
    BY <2>1, RowColumns DEF ProfilesInv
<1>8. /\ Holds(r, p, "user") /\ Fresh(r, "user") /\ ~Settled(r, "user")
  BY <1>1, <1>2 DEF Promise, Parts, Fresh, Settled, Done
<1>9. CASE Go(r, work[r], "internal")
  BY <1>1, <1>6, <1>9, Quiet
<1>10. CASE people[p].preference # {} /\ work[r].op = "login" /\ Go(r, shown, "ok")
  <2> HIDE DEF read, shown
  <2>1. Post(shown, "ok")
    BY <1>4, <1>6, <1>10, Going DEF ProfilesInv
  <2>2. work'[r].id = {p} /\ work'[r].op = "login"
    BY <1>2, <1>4, <1>10, <2>1
  <2>3. \A part : \A c \in Columns \cup PreferenceColumns : Given(r, p, part)'[c] = {}
    BY <2>2 DEF Given, Blank
  <2>4. \A part \in Parts : ~Fresh(r, part)' /\ Settled(r, part)'
    BY <1>6, <2>1 DEF Fresh, Settled
  <2>5. Holds(r, p, "user")'
    <3>1. ASSUME NEW row \in people[p]["user"], NEW c \in DOMAIN row
          PROVE  /\ Given(r, p, "user")'[c] = {}
                 /\ c # "password" => work'[r].seen["user"][c] = work[r].seen["user"][c]
      <4>1. c \in Columns /\ DOMAIN work[r].seen.user = Columns
        BY <1>3, <1>7, <3>1 DEF RowsOver
      <4>2. Given(r, p, "user")'[c] = {}
        BY <2>3, <4>1
      <4>3. work'[r].seen.user = WithoutPassword(work[r].seen.user)
        BY <1>4, <2>1
      <4> QED
        BY <4>1, <4>2, <4>3 DEF WithoutPassword
    <3>2. \A row \in people[p]["user"] : \A c \in DOMAIN row :
            IF c = "password" THEN Given(r, p, "user")'[c] = {}
              ELSE Or(Given(r, p, "user")'[c], work'[r].seen["user"][c]) = work[r].seen["user"][c]
      BY <3>1, Values
    <3>3. "user" \in Parts /\ people'[p]["user"] = people[p]["user"]
      BY <1>1 DEF Parts
    <3> QED
      BY <1>8, <2>1, <2>4, <3>2, <3>3, Spared
  <2>6. Holds(r, p, "preference")'
    <3>1. PICK row \in people[p].preference : people[p].preference = {row}
      <4>1. people[p].preference \in Optional(RowsOver(PreferenceColumns))
        BY RowType DEF ProfilesInv
      <4> QED
        BY <1>10, <4>1, Fields
    <3>2. \A c \in DOMAIN row : Joined(p)[c] = row[c]
      BY JoinedRow DEF ProfilesInv
    <3>3. \A c \in DOMAIN row : row[c] = Or(Given(r, p, "preference")'[c], work'[r].seen["preference"][c])
      BY <1>4, <1>7, <2>1, <2>3, <3>2, Values
    <3>4. "preference" \in Parts /\ people'[p]["preference"] = {row}
      BY <1>1, <3>1 DEF Parts
    <3> QED
      BY <2>4, <3>3, <3>4, Written
  <2>7. Promise(r)'
    BY <2>2, <2>5, <2>6 DEF Promise, Parts
  <2>8. Shows(r)'
    <3>1. work'[r].seen.user["password"] = ""
      <4>1. "password" \in Columns
        BY DEF Columns, Required
      <4> QED
        BY <1>3, <1>4, <2>1, <4>1 DEF WithoutPassword, RowsOver
    <3>2. "ok" \notin Pending
      BY <1>6
    <3> QED
      BY <2>1, <2>2, <3>1, <3>2 DEF Shows
  <2> QED
    BY <1>10, <2>7, <2>8 DEF Follows
<1>11. CASE Go(r, read, "business")
  <2> HIDE DEF read, shown
  <2> QED
    BY <1>1, <1>4, <1>5, <1>6, <1>11, Quiet
<1>12. CASE /\ people[p].preference # {} /\ work[r].op = "update"
            /\ Go(r, read, FirstWrite(work[r].seen.preference, read))
  <2> DEFINE n == FirstWrite(work[r].seen.preference, read)
             f == Protected(work[r].body.user)
             g == Preference(work[r])
  <2>1. /\ n \in {"write", "writePreference", "view"}
        /\ n = "view" => ~MustUpdate(Joined(p), g)
        /\ n # "write" => ~MustUpdate(work[r].seen.user, work[r].body.user)
    <3>1. Preference(read) = g
      BY <1>4 DEF Preference
    <3> QED
      BY <1>4, <3>1 DEF FirstWrite, AfterWrite, MustUpdatePreference
  <2>0. Go(r, read, n)
    BY <1>12
  <2> HIDE DEF read, shown, n
  <2>2. Post(read, n)
    BY <1>4, <1>6, <2>0, <2>1, Going DEF ProfilesInv
  <2>3. work'[r].id = {p} /\ work'[r].op = "update" /\ work'[r].body = work[r].body
    BY <1>2, <1>4, <1>12, <2>2
  <2>4. Given(r, p, "user")' = f /\ Given(r, p, "preference")' = g
    BY <2>3 DEF Given, Preference
  <2>5. /\ f \in [Columns -> Optional(Texts)] /\ g \in [PreferenceColumns -> Optional(Texts)]
        /\ \A c \in Columns \ {"password"} : f[c] = work[r].body.user[c]
        /\ work[r].body.user["password"] \in Optional(Texts)
        /\ f["password"] # {} => work[r].body.user["password"] # {}
    BY <1>1, GivenType
  <2>6. DOMAIN work[r].body.user = Columns /\ "password" \in Columns
    BY <1>1 DEF Works, ProfileBodies, Columns, Required
  <2> HIDE DEF f, g
  <2>7. Holds(r, p, "user")'
    <3>1. "user" \in Parts /\ people'[p]["user"] = people[p]["user"]
          /\ work'[r].seen["user"] = work[r].seen["user"]
      BY <1>1, <1>4, <2>2 DEF Parts
    <3>2. CASE n = "write"
      <4>1. Fresh(r, "user")'
        BY <2>2, <3>2 DEF Fresh
      <4> QED
        BY <1>8, <2>2, <3>1, <4>1, StillFresh
    <3>3. CASE n # "write"
      <4>1. Settled(r, "user")'
        BY <2>1, <2>2, <2>3, <3>3 DEF Settled
      <4>2. f["password"] = {}
        <5>1. work[r].seen.user["password"] = Null
          BY <1>1, <1>12 DEF Shows
        <5>2. work[r].body.user["password"] = {} \/ work[r].body.user["password"] = {Null}
          BY <2>1, <2>6, <3>3, <5>1 DEF MustUpdate
        <5>3. work[r].body.user["password"] # {Null}
          BY <2>5, TextsAssumption DEF Optional
        <5> QED
          BY <2>5, <5>2, <5>3
      <4>3. ASSUME NEW row \in people[p]["user"], NEW c \in DOMAIN row
            PROVE  IF c = "password" THEN Given(r, p, "user")'[c] = {}
                     ELSE Or(Given(r, p, "user")'[c], work'[r].seen["user"][c]) = work[r].seen["user"][c]
        <5>1. c \in Columns
          BY <1>7, <4>3
        <5>2. CASE c = "password"
          BY <2>4, <4>2, <5>2
        <5>3. CASE c # "password"
          <6>1. Given(r, p, "user")'[c] = work[r].body.user[c]
            BY <2>4, <2>5, <5>1, <5>3
          <6>2. Or(work[r].body.user[c], work[r].seen.user[c]) = work[r].seen.user[c]
            BY <2>1, <2>6, <3>3, <5>1, Needless
          <6> QED
            BY <3>1, <5>3, <6>1, <6>2
        <5> QED
          BY <5>2, <5>3
      <4> QED
        BY <1>8, <2>2, <3>1, <4>1, <4>3, Spared
    <3> QED
      BY <3>2, <3>3
  <2>8. Holds(r, p, "preference")'
    <3>1. PICK row \in people[p].preference : people[p].preference = {row}
      <4>1. people[p].preference \in Optional(RowsOver(PreferenceColumns))
        BY RowType DEF ProfilesInv
      <4> QED
        BY <1>12, <4>1, Fields
    <3>2. \A c \in DOMAIN row : row[c] = work'[r].seen["preference"][c] /\ Joined(p)[c] = row[c]
      BY <1>4, <2>2, JoinedRow DEF ProfilesInv
    <3>3. DOMAIN row = PreferenceColumns /\ DOMAIN g = PreferenceColumns
      BY <1>7, <2>5
    <3>4. people'[p]["preference"] = {row} /\ "preference" \in Parts
      BY <1>1, <3>1 DEF Parts
    <3>5. CASE n = "view"
      <4>1. ~Fresh(r, "preference")' /\ Settled(r, "preference")'
        BY <2>2, <2>3, <3>5 DEF Fresh, Settled
      <4>2. \A c \in DOMAIN row : Or(g[c], Joined(p)[c]) = Joined(p)[c]
        BY <2>1, <3>3, <3>5, Needless
      <4>3. \A c \in DOMAIN row : row[c] = Or(Given(r, p, "preference")'[c], work'[r].seen["preference"][c])
        BY <2>4, <3>2, <4>2
      <4> QED
        BY <3>4, <4>1, <4>3, Written
    <3>6. CASE n # "view"
      <4>1. Fresh(r, "preference")'
        BY <2>1, <2>2, <3>6 DEF Fresh
      <4>2. \A c \in DOMAIN row : Kept(r, p, "preference", row, c)'
        BY <3>2, <4>1 DEF Kept
      <4> QED
        BY <3>4, <4>2 DEF Holds
    <3> QED
      BY <3>5, <3>6
  <2>9. Promise(r)'
    BY <2>3, <2>7, <2>8 DEF Promise, Parts
  <2>10. Shows(r)'
    <3>1. work'[r].next \notin Done /\ work'[r].shown = {} /\ work'[r].op = "update"
      BY <1>4, <1>5, <1>6, <2>1, <2>2, <2>3
    <3>2. work'[r].seen.user["password"] = Null
      BY <1>1, <1>4, <1>12, <2>2 DEF Shows
    <3> QED
      BY <3>1, <3>2 DEF Shows
  <2> QED
    BY <1>2, <2>3, <1>12, <2>9, <2>10 DEF Follows
<1>13. \/ Go(r, work[r], "internal")
       \/ people[p].preference # {} /\ work[r].op = "login" /\ Go(r, shown, "ok")
       \/ Go(r, read, "business")
       \/ /\ people[p].preference # {} /\ work[r].op = "update"
          /\ Go(r, read, FirstWrite(work[r].seen.preference, read))
  <2>1. CASE people[p].preference = {}
    BY <1>2, <2>1 DEF LookPreference
  <2>2. CASE people[p].preference # {} /\ work[r].op = "login"
    BY <1>2, <2>2 DEF LookPreference
  <2>3. CASE people[p].preference # {} /\ work[r].op = "update"
    <3>1. CASE MayUpdate(work[r])
      BY <1>2, <2>3, <3>1 DEF LookPreference
    <3>2. CASE ~MayUpdate(work[r])
      BY <1>2, <2>3, <3>2 DEF LookPreference
    <3> QED
      BY <3>1, <3>2
  <2> QED
    BY <1>1, <2>1, <2>2, <2>3
<1> QED
  BY <1>9, <1>10, <1>11, <1>12, <1>13

\* The user is written: what was given, over what was read.
LEMMA AnswerWrite ==
  ASSUME ProfilesInv, NEW r \in Requests, Promise(r), Shows(r), Write(r)
  PROVE  Promise(r)' /\ Shows(r)' /\ Follows(r)
<1>1. /\ work[r] \in Works /\ work[r].next = "write" /\ work[r].op = "update"
      /\ people \in [People -> AccountRows]
  BY DEF Write, ProfilesInv, Types, Places
<1>2. PICK p \in People : work[r].id = {p} /\ Id(r) = p /\ people[p].user # {}
  BY <1>1, Owner DEF Pending, Placed
<1>3. /\ {"internal", "writePreference", "view"} \subseteq Nexts /\ "internal" \notin Pending
      /\ {"writePreference", "view"} \cap Done = {}
  BY DEF Nexts, Ends, Pending, Done
<1>4. CASE Go(r, work[r], "internal")
  BY <1>1, <1>3, <1>4, Quiet
<1>5. CASE /\ people' = [people EXCEPT ![p].user = {Merged(Row(p), UserValues(work[r]))}]
           /\ Go(r, work[r], AfterWrite(work[r]))
  <2> DEFINE new == Merged(Row(p), UserValues(work[r]))
             n == AfterWrite(work[r])
             f == Protected(work[r].body.user)
             g == Preference(work[r])
  <2>1. /\ n \in {"writePreference", "view"}
        /\ n = "view" => ~MustUpdate(work[r].seen.preference, g)
    BY DEF AfterWrite, MustUpdatePreference
  <2>2. Go(r, work[r], n)
    BY <1>5
  <2> HIDE DEF n
  <2>3. /\ work'[r].next = n /\ work'[r].op = "update" /\ work'[r].id = {p}
        /\ work'[r].body = work[r].body /\ work'[r].seen = work[r].seen
        /\ work'[r].shown = work[r].shown
        /\ \A o \in Requests \ {r} : work'[o] = work[o]
    BY <1>1, <1>2, <1>3, <2>1, <2>2, Going DEF ProfilesInv
  <2>4. /\ Given(r, p, "user")' = f /\ Given(r, p, "preference")' = g
    BY <2>3 DEF Given, Preference
  <2>5. f \in [Columns -> Optional(Texts)] /\ g \in [PreferenceColumns -> Optional(Texts)]
    BY <1>1, GivenType
  <2>6. /\ Row(p) \in RowsOver(Columns) /\ people[p].user = {Row(p)} /\ DOMAIN Row(p) = Columns
    BY <1>2, RowType DEF ProfilesInv, RowsOver
  <2>7. DOMAIN new = Columns /\ \A c \in Columns : new[c] = Or(f[c], Row(p)[c])
    <3>1. DOMAIN new = Columns
      BY <2>6 DEF Merged
    <3>2. \A c \in Columns : new[c] = Or(f[c], Row(p)[c])
      BY <2>5, <2>6, MergedValues DEF UserValues
    <3> QED
      BY <3>1, <3>2
  <2>8. people'[p].user = {new} /\ people'[p].preference = people[p].preference
    BY <1>1, <1>5 DEF AccountRows
  <2> HIDE DEF new, f, g
  <2>9. /\ Holds(r, p, "user") /\ Fresh(r, "user") /\ ~Settled(r, "user")
        /\ Holds(r, p, "preference") /\ Fresh(r, "preference") /\ ~Settled(r, "preference")
    BY <1>1, <1>2 DEF Promise, Parts, Fresh, Settled, Done
  <2>10. Holds(r, p, "user")'
    <3>1. ~Fresh(r, "user")' /\ Settled(r, "user")'
      BY <2>1, <2>3 DEF Fresh, Settled
    <3>2. ASSUME NEW row, row = Row(p), NEW c \in Columns
          PROVE  \/ Contested(r, p, "user", c)'
                 \/ c = "password" /\ Given(r, p, "user")'[c] = {}
                 \/ new[c] = Or(Given(r, p, "user")'[c], work'[r].seen["user"][c])
      <4>1. Kept(r, p, "user", row, c)
        BY <2>6, <2>9, <3>2 DEF Holds
      <4>2. \/ Contested(r, p, "user", c) \/ c = "password" \/ row[c] = work[r].seen["user"][c]
        BY <2>9, <4>1 DEF Kept
      <4>3. f[c] # {} => \A d, e : Or(f[c], d) = Or(f[c], e)
        BY DEF Or
      <4>4. new[c] = Or(f[c], row[c])
        BY <2>7, <3>2
      <4>5. Contested(r, p, "user", c) => Contested(r, p, "user", c)'
        BY <2>3, OthersGive
      <4> QED
        BY <2>3, <2>4, <4>2, <4>3, <4>4, <4>5
    <3>3. "user" \in Parts /\ people'[p]["user"] = {new}
      BY <2>8 DEF Parts
    <3> QED
      BY <2>7, <3>1, <3>2, <3>3, Written
  <2>11. Holds(r, p, "preference")'
    <3>1. "preference" \in Parts /\ people'[p]["preference"] = people[p]["preference"]
          /\ work'[r].seen["preference"] = work[r].seen["preference"]
      BY <2>3, <2>8 DEF Parts
    <3>2. CASE n = "writePreference"
      <4>1. Fresh(r, "preference")'
        BY <2>3, <3>2 DEF Fresh
      <4> QED
        BY <2>3, <2>9, <3>1, <4>1, StillFresh
    <3>3. CASE n = "view"
      <4>1. Settled(r, "preference")'
        BY <2>3, <3>3 DEF Settled
      <4>2. ASSUME NEW row \in people[p]["preference"], NEW c \in DOMAIN row
            PROVE  /\ c # "password"
                   /\ Or(Given(r, p, "preference")'[c], work'[r].seen["preference"][c])
                        = work[r].seen["preference"][c]
        <5>1. c \in PreferenceColumns
          BY <3>1, <4>2, RowColumns DEF ProfilesInv
        <5>2. c # "password" /\ c \in DOMAIN g
          BY <2>5, <5>1 DEF PreferenceColumns
        <5>3. Or(g[c], work[r].seen.preference[c]) = work[r].seen.preference[c]
          BY <2>1, <3>3, <5>2, Needless
        <5> QED
          BY <2>3, <2>4, <5>2, <5>3
      <4> QED
        BY <2>3, <2>9, <3>1, <4>1, <4>2, Spared
    <3> QED
      BY <2>1, <3>2, <3>3
  <2>12. Promise(r)'
    BY <2>3, <2>10, <2>11 DEF Promise, Parts
  <2>13. Shows(r)'
    <3>1. work[r].shown = {}
      BY <1>1 DEF Shows, Pending
    <3> QED
      BY <1>3, <2>1, <2>3, <3>1 DEF Shows
  <2> QED
    BY <1>1, <1>2, <2>3, <2>12, <2>13 DEF Follows
<1> QED
  BY <1>1, <1>2, <1>4, <1>5 DEF Write

\* The preference is written, after the user.
LEMMA AnswerWritePreference ==
  ASSUME ProfilesInv, NEW r \in Requests, Promise(r), Shows(r), WritePreference(r)
  PROVE  Promise(r)' /\ Shows(r)' /\ Follows(r)
<1>1. /\ work[r] \in Works /\ work[r].next = "writePreference" /\ work[r].op = "update"
      /\ people \in [People -> AccountRows]
  BY DEF WritePreference, ProfilesInv, Types, Places
<1>2. PICK p \in People : work[r].id = {p} /\ Id(r) = p
  BY <1>1, Owner DEF Pending
<1>3. /\ Holds(r, p, "user") /\ ~Fresh(r, "user") /\ Settled(r, "user")
      /\ Holds(r, p, "preference") /\ Fresh(r, "preference") /\ ~Settled(r, "preference")
  BY <1>1, <1>2 DEF Promise, Parts, Fresh, Settled, Done
<1>4. PICK row \in RowsOver(PreferenceColumns) : people[p].preference = {row}
  <2>1. people[p].preference # {}
    BY <1>3 DEF Holds
  <2>2. people[p].preference \in Optional(RowsOver(PreferenceColumns))
    BY RowType DEF ProfilesInv
  <2> QED
    BY <2>1, <2>2, Fields
<1> DEFINE new == Merged(row, PreferenceValues(work[r]))
           g == Preference(work[r])
<1>5. people' = [people EXCEPT ![p].preference = {new}] /\ Go(r, work[r], "view")
  <2>1. {Merged(x, PreferenceValues(work[r])) : x \in people[p].preference} = {new}
    BY <1>4
  <2>2. people' = [people EXCEPT ![p].preference =
                     {Merged(x, PreferenceValues(work[r])) : x \in people[p].preference}]
    BY <1>2 DEF WritePreference
  <2> QED
    BY <2>1, <2>2 DEF WritePreference
<1>6. g \in [PreferenceColumns -> Optional(Texts)] /\ DOMAIN row = PreferenceColumns
  BY <1>1, <1>4, GivenType DEF RowsOver
<1>7. DOMAIN new = PreferenceColumns /\ \A c \in PreferenceColumns : new[c] = Or(g[c], row[c])
  <2>1. DOMAIN new = PreferenceColumns
    BY <1>6 DEF Merged
  <2>2. \A c \in PreferenceColumns : new[c] = Or(g[c], row[c])
    BY <1>6, MergedValues DEF PreferenceValues
  <2> QED
    BY <2>1, <2>2
<1> HIDE DEF new
<1>8. people'[p].preference = {new} /\ people'[p].user = people[p].user
  BY <1>1, <1>5 DEF AccountRows
<1>9. "view" \in Nexts /\ "view" \notin Done
  BY DEF Nexts, Pending, Done
<1>10. /\ work'[r].next = "view" /\ work'[r].op = "update" /\ work'[r].id = {p}
       /\ work'[r].body = work[r].body /\ work'[r].seen = work[r].seen
       /\ work'[r].shown = work[r].shown
       /\ \A o \in Requests \ {r} : work'[o] = work[o]
  BY <1>1, <1>2, <1>5, <1>9, Going DEF ProfilesInv
<1>11. /\ Given(r, p, "preference")' = g
       /\ Given(r, p, "user")' = Given(r, p, "user")
  BY <1>1, <1>2, <1>10 DEF Given, Preference
<1> HIDE DEF g
<1>12. \A part \in Parts : Settled(r, part)' /\ ~Fresh(r, part)'
  BY <1>10 DEF Settled, Fresh
<1>13. Holds(r, p, "user")'
  <2>1. /\ "user" \in Parts /\ people'[p]["user"] = people[p]["user"]
        /\ work'[r].seen["user"] = work[r].seen["user"]
    BY <1>8, <1>10 DEF Parts
  <2> QED
    BY <1>3, <1>10, <1>11, <1>12, <2>1, StillSettled
<1>14. Holds(r, p, "preference")'
  <2>1. ASSUME NEW c \in DOMAIN new
        PROVE  \/ Contested(r, p, "preference", c)'
               \/ new[c] = Or(Given(r, p, "preference")'[c], work'[r].seen["preference"][c])
    <3>1. c \in PreferenceColumns /\ c # "password"
      BY <1>7, <2>1 DEF PreferenceColumns
    <3>2. Kept(r, p, "preference", row, c)
      BY <1>3, <1>4, <1>6, <3>1 DEF Holds
    <3>3. Contested(r, p, "preference", c) \/ row[c] = work[r].seen["preference"][c]
      BY <1>3, <3>1, <3>2 DEF Kept
    <3>4. Contested(r, p, "preference", c) => Contested(r, p, "preference", c)'
      BY <1>10, OthersGive
    <3> QED
      BY <1>7, <1>10, <1>11, <3>1, <3>3, <3>4
  <2>2. "preference" \in Parts /\ people'[p]["preference"] = {new}
    BY <1>8 DEF Parts
  <2> QED
    BY <1>12, <2>1, <2>2, Written
<1>15. Promise(r)'
  BY <1>10, <1>13, <1>14 DEF Promise, Parts
<1>16. Shows(r)'
  <2>1. work[r].shown = {}
    BY <1>1 DEF Shows, Pending
  <2> QED
    BY <1>9, <1>10, <2>1 DEF Shows
<1> QED
  BY <1>1, <1>2, <1>10, <1>15, <1>16 DEF Follows

\* A part of the answer is read: as promised where the request gave a value, and
\* where it gave none as it is read now.
LEMMA AnswerView ==
  ASSUME ProfilesInv, NEW r \in Requests, Promise(r), Shows(r), View(r)
  PROVE  Promise(r)' /\ Shows(r)' /\ Follows(r)
<1>1. work[r] \in Works /\ work[r].next = "view" /\ UNCHANGED people
  BY DEF View, ProfilesInv, Types
<1>2. PICK p \in People : work[r].id = {p} /\ Id(r) = p
  BY <1>1, Owner DEF Pending
<1>3. /\ {"internal", "view", "created", "ok"} \subseteq Nexts
      /\ "internal" \notin Pending /\ {"view"} \cap Done = {} /\ {"created", "ok"} \cap Pending = {}
      /\ {"created", "ok"} \subseteq Done
  BY DEF Nexts, Ends, Done, Pending
<1> DEFINE e(part) == IF part = "user" THEN Shown(work[r], Loaded(Row(p), Hidden(TRUE))) ELSE Joined(p)
           v(part) == [work[r] EXCEPT !.seen[part] = e(part), !.shown = @ \cup {part}]
<1>4. PICK part \in Parts :
        \/ Go(r, work[r], "internal")
        \/ people[p][part] # {} /\ \E n \in {"view", "created", "ok"} :
             Go(r, v(part), n) /\ (n # "view" => v(part).shown = Parts)
  BY <1>2 DEF View, Parts
<1>5. CASE Go(r, work[r], "internal")
  BY <1>1, <1>3, <1>5, Quiet
<1>6. ASSUME people[p][part] # {}, NEW n \in {"view", "created", "ok"}, Go(r, v(part), n),
             n # "view" => v(part).shown = Parts
      PROVE  Promise(r)' /\ Shows(r)' /\ Follows(r)
  <2>1. PICK row : people[p][part] = {row}
    <3>1. PICK row \in people[p][part] : TRUE
      BY <1>6
    <3> QED
      BY <3>1, OneRow DEF ProfilesInv
  <2>2. part = "user" => row \in RowsOver(Columns) /\ Row(p) = row /\ DOMAIN row = Columns
    BY <2>1, RowColumns, RowOf DEF ProfilesInv
  <2>3. part = "preference" => row \in RowsOver(PreferenceColumns) /\ DOMAIN row = PreferenceColumns
    BY <2>1, RowColumns DEF ProfilesInv
  <2>4. /\ \A c \in DOMAIN row \ {"password"} : e(part)[c] = row[c]
        /\ part = "user" => e(part)["password"] \in {"", Null}
    <3>1. CASE part = "user"
      <4>1. "password" \in Columns
        BY DEF Columns, Required
      <4> QED
        BY <2>2, <3>1, <4>1 DEF Shown, Loaded, Hidden, WithoutPassword
    <3>2. CASE part = "preference"
      BY <2>1, <3>2, JoinedRow DEF ProfilesInv
    <3> QED
      BY <3>1, <3>2 DEF Parts
  <2>5. part = "user" => e(part) \in RowsOver(Columns)
    BY <2>2, ReadType DEF Shown
  <2>6. part = "preference" => e(part) \in RowsOver(PreferenceColumns)
    BY JoinedType DEF ProfilesInv
  <2> DEFINE x == e(part)
  <2>7. /\ v(part) = [work[r] EXCEPT !.seen[part] = x, !.shown = @ \cup {part}]
        /\ \A c \in DOMAIN row \ {"password"} : x[c] = row[c]
        /\ part = "user" => x["password"] \in {"", Null}
    BY <2>4
  <2> HIDE DEF e, x
  <2>8. /\ v(part) \in Works /\ v(part).op = work[r].op /\ v(part).id = work[r].id
        /\ v(part).body = work[r].body /\ v(part).shown = work[r].shown \cup {part}
        /\ v(part).seen[part] = x
        /\ \A other \in Parts \ {part} : v(part).seen[other] = work[r].seen[other]
    <3>1. x = e(part) /\ work[r].seen \in Entities /\ work[r].shown \in SUBSET Parts
      BY <1>1 DEF x, Works
    <3>2. [work[r].seen EXCEPT ![part] = x] \in Entities
      BY <2>5, <2>6, <3>1 DEF Entities, Parts
    <3> QED
      BY <1>1, <2>7, <3>1, <3>2 DEF Works, Entities, Parts
  <2> HIDE DEF v
  <2>9. /\ work'[r].next = n /\ work'[r].op = work[r].op /\ work'[r].id = {p}
        /\ work'[r].body = work[r].body /\ work'[r].seen = v(part).seen
        /\ work'[r].shown = work[r].shown \cup {part}
        /\ \A o \in Requests \ {r} : work'[o] = work[o]
    BY <1>2, <1>3, <1>6, <2>8, Going DEF ProfilesInv
  <2>10. \A any : Given(r, p, any)' = Given(r, p, any)
    BY <1>2, <2>9 DEF Given, Preference
  <2>11. \A any \in Parts : ~Fresh(r, any) /\ ~Fresh(r, any)'
    BY <1>1, <2>9 DEF Fresh
  <2>12. Settled(r, part)'
    BY <1>3, <2>9 DEF Settled
  <2>13. Holds(r, p, part)'
    <3>1. ASSUME NEW c \in DOMAIN row
          PROVE  \/ Contested(r, p, part, c)'
                 \/ c = "password" /\ Given(r, p, part)'[c] = {}
                 \/ row[c] = Or(Given(r, p, part)'[c], work'[r].seen[part][c])
      <4>1. CASE Given(r, p, part)[c] = {}
        <5>1. c # "password" => row[c] = work'[r].seen[part][c]
          BY <2>7, <2>8, <2>9, <3>1
        <5> QED
          BY <2>10, <4>1, <5>1, Values
      <4>2. CASE Given(r, p, part)[c] # {}
        <5>1. work[r].op # "get"
          <6>1. c \in Columns \cup PreferenceColumns
            BY <2>1, <3>1, RowColumns DEF ProfilesInv
          <6> QED
            BY <1>2, <4>2, <6>1 DEF Given, Blank
        <5>2. Settled(r, part) /\ Holds(r, p, part)
          BY <1>1, <1>2, <5>1 DEF Settled, Promise
        <5>3. Kept(r, p, part, row, c)
          BY <2>1, <3>1, <5>2 DEF Holds
        <5>4. Contested(r, p, part, c) \/ row[c] = Or(Given(r, p, part)[c], work[r].seen[part][c])
          BY <2>11, <4>2, <5>3 DEF Kept
        <5>5. Contested(r, p, part, c) => Contested(r, p, part, c)'
          BY <2>9, OthersGive
        <5>6. \A d, b : Or(Given(r, p, part)[c], d) = Or(Given(r, p, part)[c], b)
          BY <4>2 DEF Or
        <5> QED
          BY <2>10, <5>4, <5>5, <5>6
      <4> QED
        BY <4>1, <4>2
    <3>2. people'[p][part] = {row}
      BY <1>1, <2>1
    <3> QED
      BY <2>11, <2>12, <3>1, <3>2, Written
  <2>14. ASSUME NEW other \in Parts \ {part} PROVE Holds(r, p, other)'
    <3>1. CASE Settled(r, other)'
      <4>1. Settled(r, other)
        <5>1. CASE n = "view"
          BY <1>1, <1>3, <2>9, <2>14, <3>1, <5>1 DEF Settled
        <5>2. CASE n # "view"
          BY <1>1, <1>6, <2>8, <2>14, <5>2 DEF Settled
        <5> QED
          BY <5>1, <5>2
      <4>2. Holds(r, p, other)
        BY <1>2 DEF Promise
      <4>3. work'[r].seen[other] = work[r].seen[other] /\ people'[p][other] = people[p][other]
        BY <1>1, <2>8, <2>9
      <4> QED
        BY <2>9, <2>10, <2>11, <3>1, <4>1, <4>2, <4>3, StillSettled
    <3>2. CASE ~Settled(r, other)'
      BY <2>11, <3>2 DEF Holds
    <3> QED
      BY <3>1, <3>2
  <2>15. Promise(r)'
    BY <2>9, <2>13, <2>14 DEF Promise
  <2>16. Shows(r)'
    <3>1. work'[r].next \in Done \/ "user" \in work'[r].shown => work'[r].seen.user["password"] \in {"", Null}
      <4> SUFFICES ASSUME work'[r].next \in Done \/ "user" \in work'[r].shown
                   PROVE  work'[r].seen.user["password"] \in {"", Null}
        OBVIOUS
      <4>1. CASE part = "user"
        BY <2>7, <2>8, <2>9, <4>1
      <4>2. CASE part # "user"
        <5>1. "user" \in work[r].shown
          BY <1>3, <1>6, <2>8, <2>9, <4>2 DEF Parts
        <5>2. work'[r].seen.user = work[r].seen.user
          BY <2>8, <2>9, <4>2 DEF Parts
        <5> QED
          BY <5>1, <5>2 DEF Shows
      <4> QED
        BY <4>1, <4>2
    <3> QED
      BY <1>3, <2>9, <3>1 DEF Shows
  <2> QED
    BY <1>2, <2>9, <2>15, <2>16 DEF Follows
<1> QED
  BY <1>4, <1>5, <1>6

-----------------------------------------------------------------------------
(* Promises are kept *)

LEMMA AnswersFirst ==
  ASSUME \A r \in Requests : work[r] = NoWork
  PROVE  AnswersInv
<1>1. /\ NoWork.next = "none" /\ NoWork.op = "none" /\ NoWork.shown = {}
  BY DEF NoWork
<1>2. "none" \notin Done /\ "none" \notin Pending
  BY DEF Done, Pending
<1> SUFFICES ASSUME NEW r \in Requests PROVE Promise(r) /\ Shows(r)
  BY DEF AnswersInv
<1>3. work[r].next = "none" /\ work[r].op = "none" /\ work[r].shown = {}
  BY <1>1
<1>4. Promise(r)
  BY <1>2, <1>3 DEF Promise, Holds, Fresh, Settled
<1>5. Shows(r)
  BY <1>2, <1>3 DEF Shows
<1> QED
  BY <1>4, <1>5

\* A step leads its own request on, and no other.
LEMMA Onward ==
  ASSUME ProfilesInv, NEW r \in Requests, Begin(r) \/ ProfileStep(r) \/ FailProfile(r)
  PROVE  /\ Begin(r) => work'[r].next \in Pending
         /\ ProfileStep(r) => work[r].next \in Pending /\ work'[r].next \in Pending \cup Ends
         /\ FailProfile(r) => work'[r].next = "internal"
         /\ \A o \in Requests \ {r} : work'[o] = work[o]
<1>1. work' \in [Requests -> Works] /\ work[r] \in Works /\ work \in [Requests -> Works]
  BY ProfilesMove DEF ProfilesInv, Types
<1>2. ASSUME NEW w, NEW n, Go(r, w, n)
      PROVE  work'[r].next = n /\ \A o \in Requests \ {r} : work'[o] = work[o]
  <2>1. work' = [work EXCEPT ![r] = [w EXCEPT !.next = n]]
    BY <1>2 DEF Go
  <2>2. work'[r] = [w EXCEPT !.next = n] /\ work'[r] \in Works
    BY <1>1, <2>1
  <2>3. "next" \in DOMAIN [w EXCEPT !.next = n]
    BY <2>2 DEF Works
  <2>4. [w EXCEPT !.next = n].next = n
    BY <2>3
  <2> QED
    BY <1>1, <2>1, <2>2, <2>4
<1>3. ASSUME Begin(r) PROVE \E w : \E n \in {"find", "view", "look"} : Go(r, w, n)
  BY <1>3 DEF Begin, BeginProfile, Operations
<1>4. ASSUME ProfileStep(r)
      PROVE  work[r].next \in Pending /\ \E w : \E n \in Pending \cup Ends : Go(r, w, n)
  <2> USE DEF Pending, Ends, Done
  <2>1. CASE Find(r)
    BY <2>1 DEF Find
  <2>2. CASE Insert(r)
    BY <2>2 DEF Insert
  <2>3. CASE InsertPreference(r)
    BY <2>3 DEF InsertPreference
  <2>4. CASE Look(r)
    BY <2>4 DEF Look
  <2>5. CASE LookPreference(r)
    <3>1. work[r].op \in {"login", "update"} /\ work[r].next = "lookPreference"
      BY <2>5 DEF LookPreference, ProfilesInv, Places
    <3>2. CASE people[Id(r)].preference = {}
      BY <2>5, <3>2 DEF LookPreference
    <3>3. CASE people[Id(r)].preference # {} /\ work[r].op = "login"
      BY <2>5, <3>3 DEF LookPreference
    <3>4. CASE people[Id(r)].preference # {} /\ work[r].op = "update"
      <4>1. \A j, w : FirstWrite(j, w) \in {"write", "writePreference", "view"}
        BY DEF FirstWrite, AfterWrite
      <4>2. \E w : \E n \in {"business", "write", "writePreference", "view"} : Go(r, w, n)
        BY <2>5, <3>4, <4>1 DEF LookPreference
      <4> QED
        BY <3>1, <4>2
    <3> QED
      BY <3>1, <3>2, <3>3, <3>4
  <2>6. CASE Write(r)
    <3>1. \A w : AfterWrite(w) \in {"writePreference", "view"}
      BY DEF AfterWrite
    <3> QED
      BY <2>6, <3>1 DEF Write
  <2>7. CASE WritePreference(r)
    BY <2>7 DEF WritePreference
  <2>8. CASE View(r)
    <3>1. \E w : \E n \in {"internal", "view", "created", "ok"} : Go(r, w, n)
      BY <2>8 DEF View
    <3> QED
      BY <2>8, <3>1 DEF View
  <2> QED
    BY <1>4, <2>1, <2>2, <2>3, <2>4, <2>5, <2>6, <2>7, <2>8 DEF ProfileStep
<1>5. ASSUME FailProfile(r) PROVE Go(r, work[r], "internal")
  BY <1>5 DEF FailProfile
<1>6. {"find", "view", "look"} \subseteq Pending
  BY DEF Pending
<1> QED
  BY <1>2, <1>3, <1>4, <1>5, <1>6

\* Every step keeps what the requests promise: its own by its case, the others as it
\* only changes what it gives.
LEMMA AnswersMove ==
  ASSUME ProfilesInv, AnswersInv, NEW r \in Requests, Begin(r) \/ ProfileStep(r) \/ FailProfile(r)
  PROVE  AnswersInv'
<1>1. ProfilesInv' /\ OnlyGivenBy(r)
  BY ProfilesMove
<1>2. Promise(r) /\ Shows(r)
  BY DEF AnswersInv
<1>3. Promise(r)' /\ Shows(r)' /\ Follows(r)
  <2>1. CASE Begin(r)
    BY <2>1, AnswerBegin
  <2>2. CASE ProfileStep(r)
    BY <1>1, <1>2, <2>2, AnswerFind, AnswerInsert, AnswerInsertPreference, AnswerLook,
       AnswerLookPreference, AnswerWrite, AnswerWritePreference, AnswerView DEF ProfileStep
  <2>3. CASE FailProfile(r)
    BY <1>2, <2>3, AnswerFail
  <2> QED
    BY <2>1, <2>2, <2>3
<1>4. ASSUME NEW q \in Requests \ {r} PROVE Promise(q)' /\ Shows(q)'
  BY <1>1, <1>3, <1>4, Onward, Bystander DEF AnswersInv
<1>5. \A q \in Requests : Promise(q)' /\ Shows(q)'
  BY <1>3, <1>4
<1> QED
  BY <1>5 DEF AnswersInv

LEMMA AnswersRest ==
  ASSUME AnswersInv, UNCHANGED profiles
  PROVE  AnswersInv'
<1>1. work' = work /\ people' = people
  BY DEF profiles
<1>2. \A r, p, part : Given(r, p, part)' = Given(r, p, part)
  BY <1>1 DEF Given, Preference
<1>3. \A r, part : Fresh(r, part)' = Fresh(r, part) /\ Settled(r, part)' = Settled(r, part)
  BY <1>1 DEF Fresh, Settled
<1>4. \A r, p, part, row, c : Kept(r, p, part, row, c)' = Kept(r, p, part, row, c)
  BY <1>1, <1>2, <1>3 DEF Kept, Contested
<1>5. \A r \in Requests : Promise(r)' /\ Shows(r)'
  BY <1>1, <1>3, <1>4 DEF AnswersInv, Promise, Holds, Shows
<1> QED
  BY <1>5 DEF AnswersInv

\* What is promised at the end is what the answers say.
LEMMA AnswersAtLast ==
  ASSUME ProfilesInv, AnswersInv
  PROVE  AnswersHold
<1> SUFFICES ASSUME NEW r \in Requests, work[r].next \in Done
             PROVE  /\ work[r].seen.user["password"] \in {"", Null}
                    /\ \A part \in {"user", "preference"} : \A row \in people[Id(r)][part] :
                         \A c \in DOMAIN row :
                           \/ row[c] = Promised(r, part)[c]
                           \/ c = "password" /\ Given(r, Id(r), part)[c] = {}
                           \/ \E o \in Requests \ {r} : Given(o, Id(r), part)[c] # {}
  BY DEF AnswersHold
<1>1. Promise(r) /\ Shows(r) /\ work[r] \in Works
  BY DEF AnswersInv, ProfilesInv, Types
<1>2. PICK p \in People : work[r].id = {p} /\ Id(r) = p
  <2>1. work[r].id \in Optional(People) /\ work[r].id # {}
    BY <1>1 DEF Shows, Works
  <2> QED
    BY <2>1, Fields, IdOf
<1>3. ASSUME NEW part \in Parts, NEW row \in people[p][part], NEW c \in DOMAIN row
      PROVE  \/ row[c] = Promised(r, part)[c]
             \/ c = "password" /\ Given(r, p, part)[c] = {}
             \/ \E o \in Requests \ {r} : Given(o, p, part)[c] # {}
  <2>1. Settled(r, part) /\ ~Fresh(r, part)
    BY DEF Settled, Fresh, Done
  <2>2. Kept(r, p, part, row, c)
    BY <1>1, <1>2, <1>3, <2>1 DEF Promise, Holds
  <2>3. DOMAIN work[r].seen[part] = DOMAIN row
    <3>1. work[r].seen.user \in RowsOver(Columns) /\ work[r].seen.preference \in RowsOver(PreferenceColumns)
      BY <1>1 DEF Works, Entities
    <3> QED
      BY <1>3, <3>1, RowColumns DEF ProfilesInv, RowsOver, Parts
  <2>4. Promised(r, part)[c] = Or(Given(r, p, part)[c], work[r].seen[part][c])
    BY <1>2, <2>3 DEF Promised
  <2> QED
    BY <2>1, <2>2, <2>4 DEF Kept, Contested
<1>4. work[r].seen.user["password"] \in {"", Null}
  BY <1>1 DEF Shows
<1> QED
  BY <1>2, <1>3, <1>4 DEF Parts
=============================================================================
