------------------------------- MODULE UserList -------------------------------
(***************************************************************************)
(* The list of users: from the query of the request to the queries of the  *)
(* database, and the page that is answered.  The accounts are numbered in  *)
(* the order in which they were created.  Other requests add and delete    *)
(* accounts between the queries of one list.                               *)
(***************************************************************************)
EXTENDS Calls, Naturals, Sequences, FiniteSets, SequencesExt

CONSTANTS Accounts,  \* a set of naturals
          Infinity,  \* what a division by zero gives, larger than any number of pages
          MaxChanges \* bound of the accounts added and deleted

ASSUME AccountsAssumption == /\ Accounts \subseteq Nat /\ IsFiniteSet(Accounts)
                             /\ MaxChanges \in Nat

VARIABLES
  active,      \* accounts in the table
  softDeleted, \* accounts whose deletedAt is set
  changes,     \* history: accounts added and deleted so far
  listing      \* request -> its query and what the database has answered

users == <<active, softDeleted, changes>>

-----------------------------------------------------------------------------
(* Query *)

\* limit, page, order and sortBy, selectSoftDeleted, and the accounts whose name
\* holds the searchTerm.
Queries(limits, pages, names) ==
  [limit : Optional(limits), page : Optional(pages),
   order : Optional({"ASC", "DESC"}), sortBy : Optional({"createdAt", "deletedAt"}),
   selectSoftDeleted : BOOLEAN, named : names]

\* buildPaginationParams: only when both are given and neither is zero.
Paginated(q) == Or(q.limit, 0) # 0 /\ Or(q.page, 0) # 0

\* Mutant: the first page is page 1.
EagerSkip(q) == (Or(q.page, 0) - 1) * Or(q.limit, 0)

Skip(q) == Or(q.page, 0) * Or(q.limit, 0)

\* buildWhereParams; TypeORM itself leaves soft-deleted rows out.
Matching(q) == {a \in q.named \cap active :
                  /\ a \notin softDeleted
                  /\ q.selectSoftDeleted => a \in softDeleted}

\* buildPaginationParams: sorted if an order or a column is given, by createdAt
\* unless the column is.  deletedAt is null in all the rows, so that their order
\* is arbitrary, as it is without an order.
ByCreation(q) == q.order \cup q.sortBy # {} /\ Or(q.sortBy, "createdAt") = "createdAt"

Sorted(q, s) == \A i, j \in DOMAIN s : i < j =>
                  IF q.order = {"DESC"} THEN s[i] > s[j] ELSE s[i] < s[j]

\* The orders in which the database may return the rows of S.
Rows(q, S) == {s \in SetToSeqs(S) : ByCreation(q) => Sorted(q, s)}

PageOf(q, s) ==
  IF Paginated(q) THEN SubSeq(s, Skip(q) + 1, Min({Skip(q) + Or(q.limit, 0), Len(s)})) ELSE s

\* Math.ceil(totalItems / (limit ?? 1)) || 1
TotalPages(q, n) ==
  LET size == Or(q.limit, 1)
  IN CASE n = 0 -> 1
       [] n # 0 /\ size = 0 -> Infinity
       [] OTHER -> (n + size - 1) \div size

-----------------------------------------------------------------------------
(* State *)

AnyQuery == [limit |-> {}, page |-> {}, order |-> {}, sortBy |-> {},
             selectSoftDeleted |-> FALSE, named |-> Accounts]

\* Of an answered list total is given.
Listing(q) == [query |-> q, ids |-> <<>>, rows |-> <<>>, total |-> {},
               since |-> changes, until |-> changes]
Listed(r) == listing[r].total # {}

UserListInit == /\ active \in {{a \in Accounts : a <= n} : n \in Accounts \cup {0}}
                /\ softDeleted \in SUBSET active
                /\ changes = 0
                /\ listing = [r \in Requests |-> Listing(AnyQuery)]

UserListOK == /\ active \subseteq Accounts /\ softDeleted \subseteq active
              /\ changes \in 0..MaxChanges
              /\ \A r \in Requests : LET l == listing[r] IN
                   /\ {ToSet(l.ids), ToSet(l.rows)} \subseteq SUBSET active
                   /\ l.since <= l.until /\ l.until <= changes
                   /\ Paginated(l.query) => ToSet(l.rows) \subseteq ToSet(l.ids)

BeginList(r, q) == /\ listing' = [listing EXCEPT ![r] = Listing(q)]
                   /\ UNCHANGED users

\* A page of rows joined with their preferences takes two queries: the ids of the
\* page, then the rows of these ids under the same conditions.
FetchIds(r) == LET q == listing[r].query IN
  /\ \E s \in Rows(q, Matching(q)) : listing' = [listing EXCEPT ![r].ids = PageOf(q, s)]
  /\ UNCHANGED users

\* Mutant: the second query forgets the ids.
CarelessSelected(r) == Matching(listing[r].query)

Selected(r) == LET q == listing[r].query
               IN {a \in Matching(q) : Paginated(q) => a \in ToSet(listing[r].ids)}

FetchRows(r) ==
  /\ \E s \in Rows(listing[r].query, Selected(r)) :
       listing' = [listing EXCEPT ![r].rows = s]
  /\ UNCHANGED users

\* findAndCount: the rows are counted after they were read.
CountRows(r) ==
  /\ listing' = [listing EXCEPT ![r].total = {Cardinality(Matching(listing[r].query))},
                                ![r].until = changes]
  /\ UNCHANGED users

\* Other requests create an account, or delete one softly.
AddAccount == \E a \in Accounts \ active :
  /\ changes < MaxChanges
  /\ \A b \in active : b < a
  /\ active' = active \cup {a}
  /\ changes' = changes + 1
  /\ UNCHANGED <<softDeleted, listing>>

SoftDelete == \E a \in active \ softDeleted :
  /\ changes < MaxChanges
  /\ softDeleted' = softDeleted \cup {a}
  /\ changes' = changes + 1
  /\ UNCHANGED <<active, listing>>

-----------------------------------------------------------------------------
(* Properties *)

Steady(r) == listing[r].since = listing[r].until
Pages(r) == TotalPages(listing[r].query, Or(listing[r].total, 0))
PageNumber(r) == Or(listing[r].query.page, 0)

\* While no account is added or deleted, the pages of a sorted list are disjoint,
\* none holds more than the limit, and a page is empty exactly when its number is
\* not below the total of pages: from page 1 on, as page 0 is the whole list.
PagesPartition ==
  \A r \in Requests : Listed(r) /\ Paginated(listing[r].query) /\ Steady(r) =>
    /\ Len(listing[r].rows) <= Or(listing[r].query.limit, 0)
    /\ listing[r].rows # <<>> <=> PageNumber(r) < Pages(r)
    /\ \A o \in Requests :
         /\ Listed(o) /\ Steady(o) /\ listing[o].since = listing[r].since
         /\ ByCreation(listing[r].query)
         /\ [listing[o].query EXCEPT !.page = listing[r].query.page] = listing[r].query
         /\ PageNumber(o) > PageNumber(r)
         => ToSet(listing[o].rows) \cap ToSet(listing[r].rows) = {}
=============================================================================
