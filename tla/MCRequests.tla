----------------------------- MODULE MCRequests ------------------------------
(***************************************************************************)
(* What may come in one behaviour, and the file names.                     *)
(***************************************************************************)
EXTENDS Requests

MCThrottlers == <<[limit |-> 2, ttl |-> 1], [limit |-> 3, ttl |-> 3]>>

MCDigits(x) == CASE x = "letters" -> "" [] x = "1-2" -> "12" [] OTHER -> x

\* Two passwords of which the hash is the same.
MCHash(x) == IF x \in {"strong", "twin"} THEN "hash1" ELSE "hash2"

\* Two stems of which the accents are lost, and that are one name afterwards.
MCAscii(s) == IF s \in {"acute", "grave"} THEN "lost" ELSE s

Plain == [secret |-> FALSE, below |-> <<>>]

None == [h \in Routes |-> {}]
Of(h, data) == [None EXCEPT ![h] = [token : {"valid"}, body : {Plain}, document : {"text"},
                                    data : {{x} : x \in data}]]

Page(q) == q.limit # {} /\ q.page # {} /\ q.order # {} /\ q.sortBy = {} /\ ~q.selectSoftDeleted

\* Two files that are stored under one key.
Twins == [stem : {"acute", "grave"}, extension : {"txt"}, header : {""},
          binary : BOOLEAN, content : {"full"}, type : {"binary", "other"}]

\* With any token, valid or not.
Tokened(data) == {i \in Inputs({Plain}, data) : i.document = "text"}
AnyDocument == {i \in Inputs({Plain}, {}) : i.data = {}}

AnyRoute ==
  [None EXCEPT !["check"] = {i \in Tokened({TRUE}) : i.data # {}},
               !["hook"] = Tokened({TRUE}),
               !["subscriptions"] = Tokened({TRUE}),
               !["create"] = AnyDocument,
               !["update"] = AnyDocument,
               !["list"] = Tokened({[AnyQuery EXCEPT !.limit = {1}, !.page = {1}]}),
               !["upload"] = Tokened({[AnyUpload EXCEPT !.header = "absent"], [AnyUpload EXCEPT !.content = "full"]}),
               !["download"] = Tokened({<<"notes", "txt">>})]

-----------------------------------------------------------------------------
(* Accounts *)

Fields(f) == [c \in Columns |-> IF c \in DOMAIN f THEN f[c] ELSE {}]
Preferences(images, themes) == [imagePath : images, defaultTheme : themes]

\* An account with an e-mail and some details, and one whose registration stopped.
Ann == [user |-> Entity(Fields([fullName |-> {"Ann"}, email |-> {"ann"}, password |-> {"hash1"},
                                fu |-> {"AA"}, document |-> {"12"}])),
        preference |-> [imagePath |-> Null, defaultTheme |-> "LIGHT"]]
Registrations == {[p \in People |-> Nobody],
           [p \in People |-> IF p = 1 THEN [user |-> {Ann.user}, preference |-> {Ann.preference}] ELSE Nobody],
           [p \in People |-> IF p = 1 THEN [user |-> {Ann.user}, preference |-> {}] ELSE Nobody]}
Absent == {[p \in People |-> Nobody]}

Given1(fields, preference) == {[id |-> {1}, agent |-> "ann", body |-> Body(Fields(fields), preference)]}
Creation(fields) == [id |-> {}, agent |-> "ann",
                     body |-> Body(Fields([fullName |-> {"Bo"}, password |-> {"other"}] @@ fields), {})]

Login(e, p) == [id |-> {}, agent |-> "", body |-> Body(Fields([email |-> {e}, password |-> {p}]), {})]

\* Requests that meet: they give the same fields, equal and different values.
Meeting ==
  [Of("get", Given1(<<>>, {}))
   EXCEPT !["update"] = Of("update", UNION {
             Given1([fu |-> {"AA"}], {}),
             Given1([fu |-> {"BB"}, phone |-> {""}], {}),
             Given1([fu |-> {"AA"}, phone |-> {"12"}], {}),
             Given1([fu |-> {"AA"}, email |-> {"bo"}], {[imagePath |-> {"png"}, defaultTheme |-> {}]}),
             Given1([password |-> {"other"}], {}),
             Given1(<<>>, {[imagePath |-> {}, defaultTheme |-> {"DARK"}]})})["update"],
          !["create"] = Of("create", {Creation([email |-> {"bo"}])})["create"],
          !["login"] = Of("login", {Login("ann", "twin"), Login("bo", "strong")})["login"]]

MeetingAccounts == [inputs |-> Meeting, requests |-> 2, clock |-> 0, changes |-> 0, people |-> Registrations]

\* Every body of a set, on its own.
Bodies1 ==
  {Body(Fields([fullName |-> n, email |-> {"bo"}, password |-> w, document |-> d, phone |-> h]), p) :
     n \in {{}, {""}, {"Bo"}}, w \in {{}, {"weak"}, {"strong"}}, h \in Optional({"", "1-2"}),
     d \in Optional({"", "letters", "1-2"}),
     p \in Optional(Preferences(Optional({"", "png"}), Optional({"", "DARK"})))}

AnyAccount == [inputs |-> [None EXCEPT
                 !["create"] = [token : {"valid"}, body : {Plain}, document : {"text"},
                                data : {{[id |-> {}, agent |-> "ann", body |-> b]} : b \in Bodies1}],
                 !["update"] = [token : {"valid"}, body : {Plain}, document : {"text"},
                                data : {{[id |-> {1}, agent |-> a, body |-> b]} : a \in {"ann", "bo"}, b \in Bodies1}],
                 !["login"] = [token : {"none"}, body : {Plain}, document : {"text"},
                               data : {{[id |-> {}, agent |-> "", body |-> b]} : b \in Bodies1}]],
               requests |-> 1, clock |-> 0, changes |-> 0, people |-> Registrations]

-----------------------------------------------------------------------------
Rate == [inputs |-> Of("check", {TRUE}), requests |-> 4, clock |-> 3, changes |-> 0, people |-> Absent]

TwoPages == [inputs |-> Of("list", {q \in Queries({1, 2}, {1, 2}, {Accounts}) : Page(q)}),
           requests |-> 2, clock |-> 0, changes |-> 1, people |-> Absent]

AnyList == [inputs |-> Of("list", Queries({0, 2}, {0, 1}, {Accounts, {1, 3}})),
            requests |-> 1, clock |-> 0, changes |-> 1, people |-> Absent]

AnyFile == [inputs |-> [Of("upload", {f \in Uploads({"acute"}) : /\ f.stem \in {"wavy", "grave"}
                                                                 /\ f.header # "absent"})
                        EXCEPT !["download"] = Of("download", ObjectKeys)["download"]],
            requests |-> 2, clock |-> 0, changes |-> 0, people |-> Absent]

TwinFiles == [inputs |-> [Of("upload", Twins)
                          EXCEPT !["download"] = Of("download", {<<"lost", "txt">>})["download"]],
              requests |-> 3, clock |-> 0, changes |-> 0, people |-> Absent]

Errors == [inputs |-> AnyRoute, requests |-> 2, clock |-> 0, changes |-> 0, people |-> Absent]

AnyBody == [inputs |-> [None EXCEPT !["hook"] = [token : {"valid"}, body : Bodies[Depth],
                                                 document : {"text"}, data : {{TRUE}}]],
            requests |-> 1, clock |-> 0, changes |-> 0, people |-> Absent]

MCMixes == [m \in {"rate", "pages", "list", "file", "twins", "errors", "body", "meeting", "account"} |->
              CASE m = "rate" -> Rate
                [] m = "pages" -> TwoPages
                [] m = "list" -> AnyList
                [] m = "file" -> AnyFile
                [] m = "twins" -> TwinFiles
                [] m = "errors" -> Errors
                [] m = "body" -> AnyBody
                [] m = "meeting" -> MeetingAccounts
                [] m = "account" -> AnyAccount]
=============================================================================
