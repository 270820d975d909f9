---------------------------- MODULE RequestsProofs ----------------------------
(***************************************************************************)
(* The requests of the HTTP API, for any requests, inputs and bounds: the  *)
(* rate of the calls, the fields of the accounts, the answers, the files,  *)
(* the pages of the list, and the names in the log.                        *)
(***************************************************************************)
EXTENDS Requests, ProfilesProofs, FiniteSetTheorems, SequenceTheorems, WellFoundedInduction

-----------------------------------------------------------------------------
(* The rate *)

\* The calls of k that are in the time of throttler i at t.
InTime(k, i, t) == {n \in DOMAIN calls[k] : calls[k][n].at + Throttlers[i].ttl > t}

\* What counts is in time, and what was let in counts as long as it is.
Counted(k, i) == /\ hits[k][i] \subseteq InTime(k, i, now)
                 /\ {n \in InTime(k, i, now) : calls[k][n].allowed} \subseteq hits[k][i]

RateInv == /\ ThrottlingOK
           /\ \A k \in Keys, i \in Ranks : Counted(k, i)
           /\ RateRespected

-----------------------------------------------------------------------------
\* Throttlers have a limit and a time.
LEMMA Limits == \A i \in Ranks : Throttlers[i].limit \in Nat /\ Throttlers[i].ttl \in Nat \ {0}
<1> DEFINE T == [limit : Nat, ttl : Nat \ {0}]
<1>1. Throttlers \in Seq(T)
  BY ThrottlersAssumption
<1> HIDE DEF T
<1>2. \A i \in Ranks : Throttlers[i] \in T
  BY <1>1, ElementOfSeq, LenProperties DEF Ranks
<1> QED
  BY <1>2 DEF T

\* Calls are numbered from 1, and there are finitely many.
LEMMA Numbers ==
  ASSUME ThrottlingOK, NEW k \in Keys
  PROVE  /\ DOMAIN calls[k] = 1 .. Len(calls[k]) /\ Len(calls[k]) \in Nat
         /\ \A n \in DOMAIN calls[k] : calls[k][n].at \in 0 .. MaxTime /\ calls[k][n].allowed \in BOOLEAN
         /\ \A S \in SUBSET DOMAIN calls[k] : IsFiniteSet(S) /\ Cardinality(S) \in Nat
<1> DEFINE Call == [at : 0 .. MaxTime, allowed : BOOLEAN]
<1>1. calls[k] \in Seq(Call)
  BY DEF ThrottlingOK
<1>2. DOMAIN calls[k] = 1 .. Len(calls[k]) /\ Len(calls[k]) \in Nat
  BY <1>1, LenProperties
<1>3. \A n \in DOMAIN calls[k] : calls[k][n] \in Call
  BY <1>1, <1>2, ElementOfSeq
<1>4. IsFiniteSet(DOMAIN calls[k])
  BY <1>2, FS_Interval
<1>5. \A S \in SUBSET DOMAIN calls[k] : IsFiniteSet(S) /\ Cardinality(S) \in Nat
  BY <1>4, FS_Subset, FS_CardinalityType
<1> QED
  BY <1>2, <1>3, <1>5

\* A call of k leaves what it was before, and adds the last one.
LEMMA Called ==
  ASSUME ThrottlingOK, NEW k \in Keys, Hit(k)
  PROVE  /\ now' = now
         /\ \A h \in Keys : h # k => calls'[h] = calls[h] /\ hits'[h] = hits[h]
         /\ calls' \in [Keys -> Seq([at : 0 .. MaxTime, allowed : BOOLEAN])]
         /\ Len(calls[k]) \in Nat /\ DOMAIN calls[k] = 1 .. Len(calls[k])
         /\ DOMAIN calls'[k] = 1 .. (Len(calls[k]) + 1)
         /\ \A n \in DOMAIN calls[k] : calls'[k][n] = calls[k][n]
         /\ calls'[k][Len(calls[k]) + 1] = [at |-> now, allowed |-> Allowed(k)]
<1> DEFINE Call == [at : 0 .. MaxTime, allowed : BOOLEAN]
           c == [at |-> now, allowed |-> Allowed(k)]
<1>1. c \in Call
  BY DEF ThrottlingOK, Allowed
<1>2. calls[k] \in Seq(Call) /\ calls'[k] = Append(calls[k], c)
  BY DEF ThrottlingOK, Hit
<1> HIDE DEF c
<1>3. /\ Append(calls[k], c) \in Seq(Call)
      /\ Len(calls[k]) \in Nat /\ DOMAIN calls[k] = 1 .. Len(calls[k])
      /\ DOMAIN Append(calls[k], c) = 1 .. (Len(calls[k]) + 1)
      /\ \A n \in DOMAIN calls[k] : Append(calls[k], c)[n] = calls[k][n]
      /\ Append(calls[k], c)[Len(calls[k]) + 1] = c
  BY <1>1, <1>2, AppendProperties, LenProperties
<1>4. calls' = [calls EXCEPT ![k] = Append(calls[k], c)]
  BY DEF Hit, c
<1>5. calls' \in [Keys -> Seq(Call)]
  BY <1>3, <1>4 DEF ThrottlingOK
<1>6. now' = now /\ \A h \in Keys : h # k => calls'[h] = calls[h] /\ hits'[h] = hits[h]
  BY DEF Hit, ThrottlingOK
<1> QED
  BY <1>2, <1>3, <1>5, <1>6 DEF c

\* A throttler that has counted fewer calls than its limit lets in fewer, and one that
\* refuses has as many in its time.
LEMMA Measured ==
  ASSUME ThrottlingOK, NEW k \in Keys, NEW i \in Ranks, Counted(k, i)
  PROVE  IF i \in Exceeded(k)
           THEN Cardinality(InTime(k, i, now)) >= Throttlers[i].limit
           ELSE Cardinality({n \in InTime(k, i, now) : calls[k][n].allowed}) < Throttlers[i].limit
<1> DEFINE A == InTime(k, i, now)
           B == {n \in A : calls[k][n].allowed}
<1>1. hits[k][i] \subseteq A /\ B \subseteq hits[k][i] /\ A \in SUBSET DOMAIN calls[k]
  BY DEF Counted, InTime
<1> HIDE DEF A, B
<1>2. /\ \A S \in {A, B, hits[k][i]} : IsFiniteSet(S) /\ Cardinality(S) \in Nat
  BY <1>1, Numbers
<1>3. Cardinality(B) <= Cardinality(hits[k][i]) /\ Cardinality(hits[k][i]) <= Cardinality(A)
  BY <1>1, <1>2, FS_Subset
<1>4. IF i \in Exceeded(k) THEN Cardinality(A) >= Throttlers[i].limit
                           ELSE Cardinality(B) < Throttlers[i].limit
  BY <1>2, <1>3, Limits DEF Exceeded
<1> QED
  BY <1>4 DEF A, B

-----------------------------------------------------------------------------
\* No call at first.
LEMMA RateFirst == ThrottlingInit => RateInv
<1> SUFFICES ASSUME ThrottlingInit PROVE RateInv
  OBVIOUS
<1>1. \A k \in Keys : calls[k] = <<>> /\ DOMAIN calls[k] = {}
  BY EmptySeq DEF ThrottlingInit
<1>2. \A T : <<>> \in Seq(T)
  BY EmptySeq
<1>3. ThrottlingOK
  BY <1>1, <1>2, ThrottlersAssumption DEF ThrottlingInit, ThrottlingOK
<1>4. \A k \in Keys, i \in Ranks : hits[k][i] = {}
  BY DEF ThrottlingInit
<1> QED
  BY <1>1, <1>3, <1>4 DEF RateInv, Counted, InTime, RateRespected

\* Time passes: hits are forgotten exactly when they are out of time.
LEMMA RateTick ==
  ASSUME RateInv, Tick
  PROVE  RateInv'
<1> USE DEF RateInv
<1>1. /\ calls' = calls /\ now \in Nat /\ now' = now + 1 /\ now' \in 0 .. MaxTime
      /\ hits' = [k \in Keys |-> [i \in Ranks |->
                    {n \in hits[k][i] : calls[k][n].at + Throttlers[i].ttl > now'}]]
  BY ThrottlersAssumption DEF Tick, ThrottlingOK
<1>2. \A k \in Keys, i \in Ranks :
        hits'[k][i] = {n \in hits[k][i] : calls[k][n].at + Throttlers[i].ttl > now'}
  BY <1>1
<1>3. ThrottlingOK'
  BY <1>1 DEF ThrottlingOK, Ranks
<1>4. ASSUME NEW k \in Keys, NEW i \in Ranks PROVE Counted(k, i)'
  <2>1. Counted(k, i)
    OBVIOUS
  <2>2. \A n \in DOMAIN calls[k] : calls[k][n].at \in Nat
    BY Numbers
  <2>3. /\ InTime(k, i, now)' \subseteq InTime(k, i, now)
        /\ \A n \in InTime(k, i, now)' : calls[k][n].at + Throttlers[i].ttl > now'
    BY <1>1, <2>2, Limits DEF InTime
  <2>4. hits'[k][i] \subseteq InTime(k, i, now)'
    BY <1>1, <1>2, <2>1 DEF Counted, InTime
  <2>5. {n \in InTime(k, i, now)' : calls[k][n].allowed} \subseteq hits'[k][i]
    BY <1>2, <2>1, <2>3 DEF Counted
  <2> QED
    BY <1>1, <2>4, <2>5 DEF Counted
<1>5. RateRespected'
  BY <1>1 DEF RateRespected, Before, Ranks
<1> QED
  BY <1>3, <1>4, <1>5 DEF Ranks

\* A call is let in if no throttler has its limit, and counted by those that do not
\* come after one that refuses.
LEMMA RateHit ==
  ASSUME RateInv, NEW k \in Keys, Hit(k)
  PROVE  RateInv'
<1> USE DEF RateInv
<1> DEFINE last == Len(calls[k]) + 1
<1>1. /\ now' = now
      /\ \A h \in Keys : h # k => calls'[h] = calls[h] /\ hits'[h] = hits[h]
      /\ calls' \in [Keys -> Seq([at : 0 .. MaxTime, allowed : BOOLEAN])]
      /\ last \in Nat \ {0} /\ DOMAIN calls[k] = 1 .. (last - 1) /\ DOMAIN calls'[k] = 1 .. last
      /\ \A n \in DOMAIN calls[k] : calls'[k][n] = calls[k][n]
      /\ calls'[k][last] = [at |-> now, allowed |-> Allowed(k)]
  <2>1. last \in Nat \ {0} /\ last - 1 = Len(calls[k])
    BY Called
  <2> QED
    BY <2>1, Called
<1>2. /\ DOMAIN hits' = Keys
      /\ hits'[k] = [i \in Ranks |-> IF i \in Counting(k) THEN hits[k][i] \cup {last} ELSE hits[k][i]]
  BY DEF Hit, ThrottlingOK
<1>3. now \in 0 .. MaxTime /\ \A n \in DOMAIN calls[k] : calls[k][n].at \in 0 .. MaxTime
  BY Numbers DEF ThrottlingOK
<1> HIDE DEF last
<1>4. ThrottlingOK'
  <2>1. DOMAIN calls[k] \subseteq DOMAIN calls'[k] /\ last \in DOMAIN calls'[k]
    <3>1. \A n \in 1 .. (last - 1) : n \in 1 .. last
      BY <1>1
    <3> QED
      BY <1>1, <3>1
  <2>2. hits[k] \in [Ranks -> SUBSET DOMAIN calls[k]]
    BY DEF ThrottlingOK
  <2>3. hits'[k] \in [Ranks -> SUBSET DOMAIN calls'[k]]
    BY <1>2, <2>1, <2>2
  <2>4. \A h \in Keys : hits'[h] \in [Ranks -> SUBSET DOMAIN calls'[h]]
    BY <1>1, <2>3 DEF ThrottlingOK
  <2> QED
    BY <1>1, <1>2, <1>3, <2>4 DEF ThrottlingOK, Ranks
<1>5. \A i \in Ranks : InTime(k, i, now)' = InTime(k, i, now) \cup {last}
  <2> SUFFICES ASSUME NEW i \in Ranks PROVE InTime(k, i, now)' = InTime(k, i, now) \cup {last}
    OBVIOUS
  <2>1. \A n \in 1 .. last : n = last \/ n \in DOMAIN calls[k]
    BY <1>1
  <2>2. calls'[k][last].at + Throttlers[i].ttl > now /\ last \in 1 .. last
    <3>1. calls'[k][last].at = now /\ now \in Nat /\ Throttlers[i].ttl \in Nat \ {0}
      BY <1>1, <1>3, Limits, ThrottlersAssumption
    <3> QED
      BY <1>1, <3>1
  <2> QED
    BY <1>1, <2>1, <2>2 DEF InTime
<1>6. ASSUME NEW h \in Keys, NEW i \in Ranks PROVE Counted(h, i)'
  <2>1. Counted(h, i)
    OBVIOUS
  <2>2. CASE h # k
    BY <1>1, <2>1, <2>2 DEF Counted, InTime
  <2>3. CASE h = k
    <3>1. hits'[k][i] \subseteq InTime(k, i, now)'
      BY <1>2, <1>5, <2>1, <2>3 DEF Counted
    <3>2. Allowed(k) => last \in hits'[k][i]
      BY <1>2 DEF Allowed, Counting
    <3>3. \A n \in InTime(k, i, now) : calls'[k][n] = calls[k][n]
      BY <1>1 DEF InTime
    <3>4. {n \in InTime(k, i, now)' : calls'[k][n].allowed} \subseteq hits'[k][i]
      <4> SUFFICES ASSUME NEW n \in InTime(k, i, now)', calls'[k][n].allowed PROVE n \in hits'[k][i]
        OBVIOUS
      <4>1. CASE n = last
        BY <1>1, <3>2, <4>1
      <4>2. CASE n \in InTime(k, i, now)
        BY <1>2, <2>1, <2>3, <3>3, <4>2 DEF Counted
      <4> QED
        BY <1>5, <4>1, <4>2
    <3> QED
      BY <2>3, <3>1, <3>4 DEF Counted
  <2> QED
    BY <2>2, <2>3
<1>7. ASSUME NEW h \in Keys, NEW n \in DOMAIN calls'[h]
      PROVE  IF calls'[h][n].allowed
               THEN \A i \in Ranks :
                      Cardinality({m \in Before(h, n, i)' : calls'[h][m].allowed}) < Throttlers[i].limit
               ELSE \E i \in Ranks : Cardinality(Before(h, n, i)') >= Throttlers[i].limit
  <2>1. CASE h # k \/ n # last
    <3>1. n \in DOMAIN calls[h] /\ DOMAIN calls[h] = 1 .. Len(calls[h]) /\ Len(calls[h]) \in Nat
      BY <1>1, <2>1, Numbers
    <3>2. \A m \in DOMAIN calls[h] : calls'[h][m] = calls[h][m]
      BY <1>1
    <3>3. \A m \in 1 .. (n - 1) : m \in DOMAIN calls[h]
      BY <3>1
    <3>4. \A i : Before(h, n, i)' = Before(h, n, i)
      BY <3>1, <3>2, <3>3 DEF Before
    <3>5. \A i : {m \in Before(h, n, i)' : calls'[h][m].allowed} = {m \in Before(h, n, i) : calls[h][m].allowed}
      BY <3>2, <3>3, <3>4 DEF Before
    <3> QED
      BY <3>1, <3>2, <3>4, <3>5 DEF RateRespected
  <2>2. CASE h = k /\ n = last
    <3>1. \A i : Before(k, n, i)' = InTime(k, i, now)
      <4>1. \A m \in 1 .. (n - 1) : calls'[k][m] = calls[k][m]
        BY <1>1, <2>2
      <4>0. calls'[k][n].at = now
        BY <1>1, <2>2
      <4>2. \A i : Before(k, n, i)' = {m \in 1 .. (n - 1) : calls[k][m].at + Throttlers[i].ttl > now}
        BY <4>0, <4>1 DEF Before
      <4> QED
        BY <1>1, <2>2, <4>2 DEF InTime
    <3>2. \A i : {m \in Before(k, n, i)' : calls'[k][m].allowed}
                   = {m \in InTime(k, i, now) : calls[k][m].allowed}
      BY <1>1, <2>2, <3>1 DEF InTime
    <3>3. calls'[k][n].allowed = (Exceeded(k) = {}) /\ Exceeded(k) \subseteq Ranks
      BY <1>1, <2>2 DEF Allowed, Exceeded
    <3>4. \A i \in Ranks : Counted(k, i)
      OBVIOUS
    <3>5. CASE calls'[k][n].allowed
      <4>1. \A i \in Ranks : i \notin Exceeded(k)
        BY <3>3, <3>5
      <4>2. \A i \in Ranks :
              Cardinality({m \in InTime(k, i, now) : calls[k][m].allowed}) < Throttlers[i].limit
        BY <3>4, <4>1, Measured
      <4> QED
        BY <2>2, <3>2, <3>5, <4>2
    <3>6. CASE ~calls'[k][n].allowed
      <4>1. PICK i \in Ranks : i \in Exceeded(k)
        BY <3>3, <3>6
      <4>2. Cardinality(InTime(k, i, now)) >= Throttlers[i].limit
        BY <3>4, <4>1, Measured
      <4> QED
        BY <2>2, <3>1, <3>6, <4>2
    <3> QED
      BY <3>5, <3>6
  <2> QED
    BY <2>1, <2>2
<1>8. RateRespected'
  BY <1>7 DEF RateRespected, Ranks
<1> QED
  BY <1>4, <1>6, <1>8 DEF Ranks

LEMMA RateRest ==
  ASSUME RateInv, UNCHANGED throttling
  PROVE  RateInv'
<1>1. now' = now /\ hits' = hits /\ calls' = calls
  BY DEF throttling
<1>2. ThrottlingOK'
  BY <1>1 DEF RateInv, ThrottlingOK, Ranks
<1>3. RateRespected'
  BY <1>1 DEF RateInv, RateRespected, Before, Ranks
<1>4. \A k \in Keys, i \in Ranks : Counted(k, i)'
  BY <1>1 DEF RateInv, Counted, InTime
<1> QED
  BY <1>2, <1>3, <1>4 DEF RateInv, Ranks

-----------------------------------------------------------------------------
(* The steps *)

\* The handlers that wait for something, and that may stay without an answer.
Fits(what, h) ==
  /\ what \in {"ids", "rows", "count"} => h = "list"
  /\ what = "account" => h \in ProfileRoutes
  /\ what \in {"disk", "put"} => h = "upload"
  /\ what = "get" => h = "download"
  /\ what = "save" => h = "hook"
  /\ what \in {"cached", "documents"} => h = "subscriptions"
  /\ what = "hung" => h \in Unwrapped

\* What becomes of a request that arrives.
Turned(r) == /\ \E status \in {"manyRequests", "invalidToken"} : Refuse(r, status)
             /\ UNCHANGED logging

Admitted(r, h) ==
  \/ \E status \in {"internal", "contract", "ok"} : Refuse(r, status) /\ (status = "ok" => h = "check")
  \/ h = "list" /\ \E q \in Queries(Nat, Nat, SUBSET Accounts) : List(r, q)
  \/ h \in ProfileRoutes /\ \E d \in ProfileData(h) : Profile(r, h, d)
  \/ h = "download" /\ \E k \in ObjectKeys : Download(r, k)
  \/ \E what \in {"disk", "save", "cached", "hung"} : Ask(r, what) /\ Fits(what, h)

\* What a request that waits does next.
Serves(r) == \/ Ids(r) \/ RowsOf(r) \/ Count(r) \/ Account(r)
             \/ OnDisk(r) \/ Saved(r) \/ Read(r)
             \/ Registered(r) \/ Cached(r) \/ Documents(r) \/ Fail(r)

LEMMA InputData ==
  ASSUME NEW B, NEW D, NEW i \in Inputs(B, D)
  PROVE  i.data \in Optional(D)
BY DEF Inputs

LEMMA Arrival ==
  ASSUME mix \in DOMAIN Mixes, NEW r \in Requests, Arrive(r)
  PROVE  /\ app = "serving" /\ at[r] = "idle" /\ \A o \in Requests : o < r => at[o] # "idle"
         /\ UNCHANGED <<mix, app>>
         /\ \E h \in Routes : /\ route' = [route EXCEPT ![r] = h]
                              /\ h \in Keys /\ Hit(h)
                              /\ Turned(r) \/ (Enter(r, ControllerOf(h)) /\ Admitted(r, h))
<1>1. /\ app = "serving" /\ at[r] = "idle" /\ \A o \in Requests : o < r => at[o] # "idle"
      /\ UNCHANGED <<mix, app>>
  BY DEF Arrive
<1>2. PICK h \in Routes : \E i \in Mixes[mix].inputs[h] :
        /\ route' = [route EXCEPT ![r] = h] /\ Hit(h)
        /\ \/ ~Allowed(h) /\ Refuse(r, "manyRequests") /\ UNCHANGED logging
           \/ Allowed(h) /\ Guarded(h) /\ ~Content(i) /\ Refuse(r, "invalidToken") /\ UNCHANGED logging
           \/ /\ Allowed(h) /\ (Guarded(h) => Content(i))
              /\ Enter(r, ControllerOf(h))
              /\ IF Throws(h, i) THEN Ask(r, "hung") ELSE Handle(r, h, i)
  BY DEF Arrive
<1>3. PICK i \in Mixes[mix].inputs[h] :
        /\ route' = [route EXCEPT ![r] = h] /\ Hit(h)
        /\ \/ Turned(r)
           \/ Enter(r, ControllerOf(h)) /\ IF Throws(h, i) THEN Ask(r, "hung") ELSE Handle(r, h, i)
  BY <1>2 DEF Turned
<1>4. i.data \in Optional(DataOf(h)) /\ h \in Keys
  <2>1. Mixes[mix].inputs[h] \subseteq Inputs(Bodies[Depth], DataOf(h))
    BY MixesAssumption
  <2>2. h \in Keys
    BY RequestsAssumption
  <2>3. i \in Inputs(Bodies[Depth], DataOf(h))
    BY <2>1
  <2> QED
    BY <2>2, <2>3, InputData
<1>5. ASSUME Handle(r, h, i) PROVE Admitted(r, h)
  <2>1. \A d \in i.data : d \in DataOf(h)
    BY <1>4 DEF Optional
  <2>2. CASE i.data = {} /\ Refuse(r, IF h = "download" THEN "internal" ELSE "contract")
    BY <2>2 DEF Admitted
  <2>3. CASE h = "check" /\ Refuse(r, "ok")
    BY <2>3 DEF Admitted
  <2>4. ASSUME h = "list", NEW q \in i.data, List(r, q) PROVE Admitted(r, h)
    <3>1. q \in Queries(Nat, Nat, SUBSET Accounts)
      BY <2>1, <2>4 DEF DataOf, ProfileRoutes
    <3> QED
      BY <2>4, <3>1 DEF Admitted
  <2>5. ASSUME h \in ProfileRoutes, NEW d \in i.data, Refuse(r, "contract") \/ Profile(r, h, d)
        PROVE  Admitted(r, h)
    <3>1. d \in ProfileData(h)
      BY <2>1, <2>5 DEF DataOf, ProfileRoutes
    <3> QED
      BY <2>5, <3>1 DEF Admitted
  <2>6. ASSUME h = "download", NEW k \in i.data, Download(r, k) PROVE Admitted(r, h)
    <3>1. k \in ObjectKeys
      BY <2>1, <2>6 DEF DataOf, ProfileRoutes
    <3> QED
      BY <2>6, <3>1 DEF Admitted
  <2>7. CASE \/ h = "upload" /\ Ask(r, "disk")
             \/ h = "hook" /\ Ask(r, "save")
             \/ h = "subscriptions" /\ Ask(r, "cached")
    BY <2>7 DEF Admitted, Fits
  <2> QED
    BY <1>5, <2>2, <2>3, <2>4, <2>5, <2>6, <2>7 DEF Handle
<1>6. ASSUME Throws(h, i), Ask(r, "hung") PROVE Admitted(r, h)
  BY <1>6 DEF Admitted, Throws, Fits, Unwrapped
<1> QED
  BY <1>1, <1>3, <1>4, <1>5, <1>6

-----------------------------------------------------------------------------
(* The course of a request *)

\* Where a request has not touched an account, whatever its handler.
Bare == {"idle", "disk", "save", "cached", "documents", "hung"}

\* How far a request has come, and on which of the handlers.
InCourse(r) ==
  /\ answer[r] # "none" <=> at[r] = "answered"
  /\ at[r] = "account" <=> work[r].next \in Pending /\ at[r] # "cut"
  /\ Listed(r) <=> route[r] = "list" /\ answer[r] = "ok"
  /\ at[r] \in Bare => work[r] = NoWork
  /\ at[r] = "cut" => app = "closed"
  /\ Fits(at[r], route[r])
  /\ at[r] # "idle" => \A o \in Requests : o < r => at[o] # "idle"

Course ==
  /\ mix \in DOMAIN Mixes
  /\ at \in [Requests -> Waiting \cup {"idle", "answered", "hung", "cut"}]
  /\ answer \in [Requests -> Statuses]
  /\ route \in [Requests -> Routes]
  /\ wanted \in [Requests -> ObjectKeys]
  /\ app \in {"serving", "closed"}
  /\ app = "closed" => /\ \A r \in Requests : at[r] \notin Waiting
                       /\ \E o \in Requests : at[o] = "hung"
  /\ \A r \in Requests : InCourse(r)

LEMMA CourseFirst ==
  ASSUME Init
  PROVE  Course /\ people \in Tables /\ work \in [Requests -> Works]
<1>1. /\ mix \in DOMAIN Mixes /\ app = "serving"
      /\ at = [r \in Requests |-> "idle"] /\ answer = [r \in Requests |-> "none"]
      /\ route = [r \in Requests |-> "check"]
      /\ work = [r \in Requests |-> NoWork]
      /\ wanted = [r \in Requests |-> CHOOSE k \in ObjectKeys : TRUE]
      /\ listing = [r \in Requests |-> Listing(AnyQuery)]
      /\ people \in Mixes[mix].people
  BY DEF Init, UserListInit
<1>2. "check" \in Routes /\ "none" \in Statuses
  BY DEF Routes, Statuses
<1>3. \E k \in ObjectKeys : TRUE
  <2>1. PICK s \in Stems, e \in Extensions : TRUE
    BY NamesAssumption
  <2>2. <<Ascii(s), Ascii(e)>> \in ObjectKeys
    BY DEF ObjectKeys
  <2> QED
    BY <2>2
<1>4. (CHOOSE k \in ObjectKeys : TRUE) \in ObjectKeys
  BY <1>3
<1>5. NoWork.next = "none" /\ "none" \notin Pending
  BY DEF NoWork, Pending
<1>6. Listing(AnyQuery).total = {}
  BY DEF Listing
<1>7. \A r \in Requests : InCourse(r)
  BY <1>1, <1>5, <1>6 DEF InCourse, Listed, Fits
<1>8. people \in Tables
  BY <1>1, MixesAssumption
<1>9. NoWork \in Works
  <2>1. Entity(Blank(Columns)) \in RowsOver(Columns)
        /\ Entity(Blank(PreferenceColumns)) \in RowsOver(PreferenceColumns)
    <3>1. Blank(Columns) \in [Columns -> Optional(Texts)]
          /\ Blank(PreferenceColumns) \in [PreferenceColumns -> Optional(Texts)]
      BY Fields DEF Blank
    <3> QED
      BY <3>1, EntityType
  <2>2. NoEntity \in Entities
    BY <2>1 DEF NoEntity, Entities
  <2>3. Body(Blank(Columns), {}) \in ProfileBodies
    BY Fields DEF Body, Blank, ProfileBodies
  <2>4. {} \in Optional(People) /\ "" \in Texts /\ "none" \in Nexts
    BY Fields, TextsAssumption DEF Nexts
  <2> QED
    BY <2>2, <2>3, <2>4 DEF NoWork, Works
<1> QED
  BY <1>1, <1>2, <1>4, <1>7, <1>8, <1>9 DEF Course

\* A request that goes on, or is answered, while the process serves; those before it
\* have arrived.
LEMMA Course1 ==
  ASSUME Course, app = "serving", NEW r \in Requests,
         NEW what \in Waiting \cup {"answered", "hung"}, NEW status \in Statuses,
         at' = [at EXCEPT ![r] = what], answer' = [answer EXCEPT ![r] = status],
         status # "none" <=> what = "answered",
         route' \in [Requests -> Routes], wanted' \in [Requests -> ObjectKeys], UNCHANGED <<mix, app>>,
         \A o \in Requests \ {r} : /\ route'[o] = route[o] /\ work'[o] = work[o]
                                   /\ listing'[o].total = listing[o].total,
         what = "account" <=> work'[r].next \in Pending,
         listing'[r].total # {} <=> route'[r] = "list" /\ status = "ok",
         Fits(what, route'[r]),
         what \in Bare => work'[r] = NoWork,
         \A o \in Requests : o < r => at[o] # "idle"
  PROVE  Course'
<1>1. /\ at'[r] = what /\ answer'[r] = status
      /\ \A o \in Requests \ {r} : at'[o] = at[o] /\ answer'[o] = answer[o]
      /\ at' \in [Requests -> Waiting \cup {"idle", "answered", "hung", "cut"}]
      /\ answer' \in [Requests -> Statuses]
  BY DEF Course
<1>2. what \notin {"idle", "cut"}
  BY DEF Waiting
<1>3. \A o \in Requests : at[o] # "idle" => at'[o] # "idle"
  BY <1>1, <1>2
<1>4. InCourse(r)'
  BY <1>1, <1>2, <1>3 DEF InCourse, Listed, Fits
<1>5. ASSUME NEW o \in Requests \ {r} PROVE InCourse(o)'
  <2>1. InCourse(o)
    BY DEF Course
  <2>2. at'[o] # "idle" => \A q \in Requests : q < o => at'[q] # "idle"
    BY <1>1, <1>3, <2>1 DEF InCourse
  <2>3. /\ at'[o] = at[o] /\ answer'[o] = answer[o] /\ route'[o] = route[o] /\ work'[o] = work[o]
        /\ listing'[o].total = listing[o].total /\ app' = app
    BY <1>1
  <2> QED
    BY <2>1, <2>2, <2>3 DEF InCourse, Listed, Fits
<1> QED
  BY <1>1, <1>4, <1>5 DEF Course

-----------------------------------------------------------------------------
(* The list *)

\* The rows of a set, in any order.
LEMMA Ordered ==
  ASSUME NEW S, IsFiniteSet(S), NEW s \in SetToSeqs(S)
  PROVE  /\ s \in Seq(S) /\ Len(s) = Cardinality(S) /\ Len(s) \in Nat
         /\ DOMAIN s = 1 .. Len(s) /\ ToSet(s) = S
         /\ \A i, j \in DOMAIN s : i # j => s[i] # s[j]
<1> DEFINE n == Cardinality(S)
<1>1. n \in Nat /\ IsFiniteSet(1 .. n) /\ Cardinality(1 .. n) = n
  BY FS_CardinalityType, FS_Interval
<1>2. s \in [1 .. n -> S] /\ \A i, j \in 1 .. n : i # j => s[i] # s[j]
  BY DEF SetToSeqs
<1> HIDE DEF n
<1>3. s \in Seq(S) /\ Len(s) = n /\ DOMAIN s = 1 .. n
  BY <1>1, <1>2
<1>4. s \in Injection(1 .. n, S)
  BY <1>2 DEF Injection, IsInjective
<1>5. s \in Surjection(1 .. n, S)
  BY <1>1, <1>4, FS_Injection DEF n
<1>6. ToSet(s) = S
  BY <1>3, <1>5 DEF ToSet, Surjection
<1> QED
  BY <1>1, <1>2, <1>3, <1>6 DEF n

LEMMA MinOf ==
  ASSUME NEW a \in Nat, NEW b \in Nat
  PROVE  Min({a, b}) = IF a <= b THEN a ELSE b
<1> DEFINE m == IF a <= b THEN a ELSE b
<1>1. m \in {a, b} /\ \A y \in {a, b} : m <= y
  OBVIOUS
<1>2. \A x \in {a, b} : (\A y \in {a, b} : x <= y) => x = m
  OBVIOUS
<1> QED
  BY <1>1, <1>2 DEF Min

\* The page of a query: as many rows as its limit, after as many as its pages before.
LEMMA Paged ==
  ASSUME NEW q \in Queries(Nat, Nat, SUBSET Accounts), Paginated(q),
         NEW S, IsFiniteSet(S), NEW s \in SetToSeqs(S)
  PROVE  /\ Or(q.limit, 0) \in Nat \ {0} /\ Or(q.page, 0) \in Nat \ {0} /\ Skip(q) \in Nat
         /\ Skip(q) = Or(q.page, 0) * Or(q.limit, 0)
         /\ PageOf(q, s) \in Seq(S)
         /\ Len(PageOf(q, s)) \in Nat /\ Len(PageOf(q, s)) <= Or(q.limit, 0)
         /\ PageOf(q, s) # <<>> <=> Skip(q) < Cardinality(S)
         /\ \A x \in ToSet(PageOf(q, s)) :
              \E i \in DOMAIN s : x = s[i] /\ Skip(q) < i /\ i <= Skip(q) + Or(q.limit, 0)
<1> DEFINE l == Or(q.limit, 0)
           k == Skip(q)
           n == Cardinality(S)
           m == Min({k + l, n})
<1>1. l \in Nat \ {0} /\ Or(q.page, 0) \in Nat \ {0}
  <2>1. q.limit \in Optional(Nat) /\ q.page \in Optional(Nat)
    BY DEF Queries
  <2>2. Or(q.limit, 0) \in Nat \cup Nat /\ Or(q.page, 0) \in Nat \cup Nat
    BY <2>1, OrType
  <2> QED
    BY <2>2 DEF Paginated
<1>2. k \in Nat /\ k = Or(q.page, 0) * l
  BY <1>1 DEF Skip
<1>3. /\ s \in Seq(S) /\ Len(s) = n /\ n \in Nat /\ DOMAIN s = 1 .. n
  BY Ordered
<1>4. PageOf(q, s) = SubSeq(s, k + 1, m)
  BY <1>3 DEF PageOf
<1> HIDE DEF k, l, n
<1>5. m = IF k + l <= n THEN k + l ELSE n
  <2>1. k + l \in Nat /\ n \in Nat
    BY <1>1, <1>2, <1>3
  <2>2. \A a, b \in Nat : Min({a, b}) = IF a <= b THEN a ELSE b
    BY MinOf
  <2> QED
    BY <2>1, <2>2
<1> HIDE DEF m
<1>6. m \in Nat /\ k + 1 \in Int /\ m \in Int /\ m <= n /\ m <= k + l
  BY <1>1, <1>2, <1>3, <1>5
<1>7. \A i \in (k + 1) .. m : i \in DOMAIN s /\ s[i] \in S
  <2>1. \A i \in (k + 1) .. m : i \in 1 .. n
    BY <1>2, <1>3, <1>6
  <2>2. \A i \in 1 .. n : s[i] \in S
    BY <1>3, ElementOfSeq
  <2> QED
    BY <1>3, <2>1, <2>2
<1>8. /\ SubSeq(s, k + 1, m) \in Seq(S)
      /\ Len(SubSeq(s, k + 1, m)) = IF k + 1 <= m THEN m - (k + 1) + 1 ELSE 0
      /\ \A i \in 1 .. (m - (k + 1) + 1) : SubSeq(s, k + 1, m)[i] = s[(k + 1) + i - 1]
  BY <1>6, <1>7, SubSeqProperties
<1>9. Len(PageOf(q, s)) \in Nat /\ Len(PageOf(q, s)) <= l
  BY <1>1, <1>2, <1>4, <1>6, <1>8
<1>10. PageOf(q, s) # <<>> <=> k < n
  <2>1. PageOf(q, s) # <<>> <=> Len(PageOf(q, s)) # 0
    BY <1>4, <1>8, EmptySeq
  <2>2. Len(PageOf(q, s)) # 0 <=> k + 1 <= m
    BY <1>2, <1>4, <1>6, <1>8
  <2> QED
    BY <1>1, <1>2, <1>3, <1>5, <2>1, <2>2
<1>11. ASSUME NEW x \in ToSet(PageOf(q, s))
       PROVE  \E i \in DOMAIN s : x = s[i] /\ k < i /\ i <= k + l
  <2>1. PICK j \in DOMAIN PageOf(q, s) : x = PageOf(q, s)[j]
    BY DEF ToSet
  <2>2. DOMAIN PageOf(q, s) = 1 .. Len(PageOf(q, s))
    BY <1>4, <1>8, LenProperties
  <2>3. j \in 1 .. (m - (k + 1) + 1) /\ j \in Nat /\ j >= 1
    BY <1>2, <1>4, <1>6, <1>8, <2>1, <2>2
  <2>4. (k + 1) + j - 1 \in (k + 1) .. m /\ (k + 1) + j - 1 = k + j
    BY <1>2, <1>6, <2>3
  <2>5. x = s[k + j] /\ k + j \in DOMAIN s
    BY <1>4, <1>7, <1>8, <2>1, <2>3, <2>4
  <2> QED
    BY <1>1, <1>2, <1>6, <2>3, <2>4, <2>5
<1> QED
  BY <1>1, <1>2, <1>4, <1>8, <1>9, <1>10, <1>11 DEF k, l, n

\* The list of a request, and the accounts, as far as they can be.
Lists == [query : Queries(Nat, Nat, SUBSET Accounts), ids : Seq(Accounts), rows : Seq(Accounts),
          total : Optional(Nat), since : Nat, until : Nat]

ListType == /\ listing \in [Requests -> Lists]
            /\ active \subseteq Accounts /\ softDeleted \subseteq active
            /\ changes \in 0 .. MaxChanges

\* The order of a list by its query.
LEMMA Rowed ==
  ASSUME ListType, NEW q, NEW S \in SUBSET active, NEW s \in Rows(q, S)
  PROVE  /\ IsFiniteSet(S) /\ s \in SetToSeqs(S)
         /\ s \in Seq(Accounts) /\ ToSet(s) = S /\ ToSet(s) \subseteq active
         /\ Len(s) = Cardinality(S) /\ Cardinality(S) \in Nat
<1>1. IsFiniteSet(S) /\ s \in SetToSeqs(S)
  BY AccountsAssumption, FS_Subset DEF ListType, Rows
<1>2. s \in Seq(S) /\ ToSet(s) = S /\ Len(s) = Cardinality(S) /\ Len(s) \in Nat
  BY <1>1, Ordered
<1>3. s \in Seq(Accounts)
  BY <1>2, SeqMonotonic DEF ListType
<1> QED
  BY <1>1, <1>2, <1>3

\* A page of it.
LEMMA Pageful ==
  ASSUME ListType, NEW q \in Queries(Nat, Nat, SUBSET Accounts), NEW S \in SUBSET active,
         NEW s \in Rows(q, S)
  PROVE  PageOf(q, s) \in Seq(Accounts) /\ ToSet(PageOf(q, s)) \subseteq S
<1>1. /\ IsFiniteSet(S) /\ s \in SetToSeqs(S) /\ s \in Seq(Accounts) /\ ToSet(s) = S
  BY Rowed
<1>2. CASE ~Paginated(q)
  BY <1>1, <1>2 DEF PageOf
<1>3. CASE Paginated(q)
  <2>1. /\ PageOf(q, s) \in Seq(S)
        /\ \A x \in ToSet(PageOf(q, s)) : \E i \in DOMAIN s : x = s[i]
    <3>1. PageOf(q, s) \in Seq(S)
      BY <1>1, <1>3, Paged
    <3>2. \A x \in ToSet(PageOf(q, s)) :
            \E i \in DOMAIN s : x = s[i] /\ Skip(q) < i /\ i <= Skip(q) + Or(q.limit, 0)
      BY <1>1, <1>3, Paged
    <3> QED
      BY <3>1, <3>2
  <2>2. PageOf(q, s) \in Seq(Accounts)
    BY <2>1, SeqMonotonic DEF ListType
  <2> QED
    BY <1>1, <2>1, <2>2 DEF ToSet
<1> QED
  BY <1>2, <1>3

LEMMA MatchingActive == \A q : Matching(q) \subseteq active
BY DEF Matching

\* What a step of the list does to it.
LEMMA ListBegins ==
  ASSUME ListType, NEW r \in Requests, NEW q \in Queries(Nat, Nat, SUBSET Accounts), BeginList(r, q)
  PROVE  /\ ListType' /\ UNCHANGED users
         /\ listing'[r] = Listing(q) /\ listing'[r].query = q /\ listing'[r].since = changes
         /\ listing'[r].ids = <<>> /\ listing'[r].rows = <<>> /\ listing'[r].total = {}
         /\ listing'[r].until = changes
         /\ \A o \in Requests \ {r} : listing'[o] = listing[o]
<1>1. changes \in Nat
  BY AccountsAssumption DEF ListType
<1>2. <<>> \in Seq(Accounts) /\ {} \in Optional(Nat)
  BY EmptySeq, Fields
<1>3. /\ Listing(q) \in Lists /\ Listing(q).query = q /\ Listing(q).since = changes
      /\ Listing(q).ids = <<>> /\ Listing(q).rows = <<>> /\ Listing(q).total = {}
      /\ Listing(q).until = changes
  BY <1>1, <1>2 DEF Listing, Lists
<1>4. listing' = [listing EXCEPT ![r] = Listing(q)] /\ UNCHANGED users
  BY DEF BeginList
<1> HIDE DEF Listing
<1>5. /\ listing' \in [Requests -> Lists] /\ listing'[r] = Listing(q)
      /\ \A o \in Requests \ {r} : listing'[o] = listing[o]
  BY <1>3, <1>4 DEF ListType
<1> QED
  BY <1>3, <1>4, <1>5 DEF ListType, users

LEMMA ListFinds ==
  ASSUME ListType, NEW r \in Requests, FetchIds(r)
  PROVE  /\ ListType' /\ UNCHANGED users
         /\ \E s \in Rows(listing[r].query, Matching(listing[r].query)) :
              listing'[r].ids = PageOf(listing[r].query, s)
         /\ listing'[r].query = listing[r].query /\ listing'[r].rows = listing[r].rows
         /\ listing'[r].total = listing[r].total /\ listing'[r].since = listing[r].since
         /\ listing'[r].until = listing[r].until
         /\ \A o \in Requests \ {r} : listing'[o] = listing[o]
<1> DEFINE l == listing[r]
           q == l.query
<1>1. l \in Lists /\ q \in Queries(Nat, Nat, SUBSET Accounts)
  BY DEF ListType, Lists
<1>2. PICK s \in Rows(q, Matching(q)) : listing' = [listing EXCEPT ![r].ids = PageOf(q, s)]
  BY DEF FetchIds
<1> DEFINE p == PageOf(q, s)
<1>3. p \in Seq(Accounts)
  BY <1>1, MatchingActive, Pageful
<1> HIDE DEF p
<1>4. listing' = [listing EXCEPT ![r].ids = p]
  BY <1>2 DEF p
<1>5. [l EXCEPT !.ids = p] \in Lists
  BY <1>1, <1>3 DEF Lists
<1>6. /\ listing' \in [Requests -> Lists] /\ listing'[r] = [l EXCEPT !.ids = p]
      /\ \A o \in Requests \ {r} : listing'[o] = listing[o]
  BY <1>4, <1>5 DEF ListType
<1>7. /\ listing'[r].ids = p
      /\ listing'[r].query = l.query /\ listing'[r].rows = l.rows
      /\ listing'[r].total = l.total /\ listing'[r].since = l.since
      /\ listing'[r].until = l.until
  BY <1>1, <1>6 DEF Lists
<1>8. UNCHANGED users
  BY DEF FetchIds
<1> QED
  BY <1>6, <1>7, <1>8 DEF ListType, users, p

LEMMA ListReads ==
  ASSUME ListType, NEW r \in Requests, FetchRows(r)
  PROVE  /\ ListType' /\ UNCHANGED users
         /\ listing'[r].rows \in Rows(listing[r].query, Selected(r))
         /\ listing'[r].query = listing[r].query /\ listing'[r].ids = listing[r].ids
         /\ listing'[r].total = listing[r].total /\ listing'[r].since = listing[r].since
         /\ listing'[r].until = listing[r].until
         /\ \A o \in Requests \ {r} : listing'[o] = listing[o]
<1> DEFINE l == listing[r]
<1>1. l \in Lists
  BY DEF ListType
<1>2. PICK s \in Rows(l.query, Selected(r)) : listing' = [listing EXCEPT ![r].rows = s]
  BY DEF FetchRows
<1>3. Selected(r) \subseteq active
  BY MatchingActive DEF Selected
<1>4. s \in Seq(Accounts)
  BY <1>3, Rowed
<1>5. [l EXCEPT !.rows = s] \in Lists
  BY <1>1, <1>4 DEF Lists
<1>6. /\ listing' \in [Requests -> Lists] /\ listing'[r] = [l EXCEPT !.rows = s]
      /\ \A o \in Requests \ {r} : listing'[o] = listing[o]
  BY <1>2, <1>5 DEF ListType
<1>7. /\ listing'[r].rows = s
      /\ listing'[r].query = l.query /\ listing'[r].ids = l.ids
      /\ listing'[r].total = l.total /\ listing'[r].since = l.since
      /\ listing'[r].until = l.until
  BY <1>1, <1>6 DEF Lists
<1>8. UNCHANGED users
  BY DEF FetchRows
<1> QED
  BY <1>6, <1>7, <1>8 DEF ListType, users

LEMMA ListCounts ==
  ASSUME ListType, NEW r \in Requests, CountRows(r)
  PROVE  /\ ListType' /\ UNCHANGED users
         /\ listing'[r].total = {Cardinality(Matching(listing[r].query))} /\ listing'[r].until = changes
         /\ listing'[r].query = listing[r].query /\ listing'[r].ids = listing[r].ids
         /\ listing'[r].rows = listing[r].rows /\ listing'[r].since = listing[r].since
         /\ \A o \in Requests \ {r} : listing'[o] = listing[o]
<1> DEFINE l == listing[r]
           n == Cardinality(Matching(l.query))
<1>1. l \in Lists /\ changes \in Nat
  BY AccountsAssumption DEF ListType
<1>2. listing' = [listing EXCEPT ![r].total = {n}, ![r].until = changes] /\ UNCHANGED users
  BY DEF CountRows
<1>3. n \in Nat
  <2>1. IsFiniteSet(Matching(l.query))
    BY AccountsAssumption, MatchingActive, FS_Subset DEF ListType
  <2> QED
    BY <2>1, FS_CardinalityType
<1> HIDE DEF n
<1>4. {n} \in Optional(Nat)
  BY <1>3, Fields
<1>5. [l EXCEPT !.total = {n}, !.until = changes] \in Lists
  BY <1>1, <1>4 DEF Lists
<1>6. /\ listing' \in [Requests -> Lists] /\ listing'[r] = [l EXCEPT !.total = {n}, !.until = changes]
      /\ \A o \in Requests \ {r} : listing'[o] = listing[o]
  BY <1>2, <1>5 DEF ListType
<1>7. /\ listing'[r].total = {n} /\ listing'[r].until = changes
      /\ listing'[r].query = l.query /\ listing'[r].ids = l.ids
      /\ listing'[r].rows = l.rows /\ listing'[r].since = l.since
  BY <1>1, <1>6 DEF Lists
<1> QED
  BY <1>2, <1>6, <1>7 DEF ListType, users, n

LEMMA AccountsChange ==
  ASSUME ListType, AddAccount \/ SoftDelete
  PROVE  /\ ListType' /\ UNCHANGED listing
         /\ changes \in Nat /\ changes' = changes + 1 /\ active \subseteq active'
<1>1. changes \in 0 .. MaxChanges /\ MaxChanges \in Nat
  BY AccountsAssumption DEF ListType
<1>2. /\ UNCHANGED listing /\ changes < MaxChanges /\ changes' = changes + 1
      /\ active \subseteq active' /\ active' \subseteq Accounts /\ softDeleted' \subseteq active'
  BY DEF ListType, AddAccount, SoftDelete
<1>3. changes' \in 0 .. MaxChanges
  BY <1>1, <1>2
<1> QED
  BY <1>1, <1>2, <1>3 DEF ListType

-----------------------------------------------------------------------------
(* The course of a request, step by step *)

\* A request that waits has no answer yet.
LEMMA Unanswered ==
  ASSUME Course, NEW r \in Requests, at[r] # "answered"
  PROVE  /\ answer[r] = "none" /\ listing[r].total = {}
         /\ \A what : Await(r, what) =>
              at' = [at EXCEPT ![r] = what] /\ answer' = [answer EXCEPT ![r] = "none"]
<1>1. answer[r] = "none" /\ ~Listed(r)
  BY DEF Course, InCourse
<1>2. answer = [answer EXCEPT ![r] = "none"]
  BY <1>1 DEF Course
<1> QED
  BY <1>1, <1>2 DEF Await, Listed

\* The profile of a request that arrives.
LEMMA ProfileBegins ==
  ASSUME Course, NEW r \in Requests, at[r] = "idle", NEW h \in ProfileRoutes, NEW d \in ProfileData(h),
         Profile(r, h, d)
  PROVE  Begin(r)
<1>1. work[r] = NoWork
  BY DEF Course, InCourse, Bare
<1>2. h \in Operations
  BY DEF Operations, ProfileRoutes
<1> QED
  BY <1>1, <1>2 DEF Begin, Profile

LEMMA CourseArrive ==
  ASSUME Course, ListType, ProfilesInv, NEW r \in Requests, Arrive(r)
  PROVE  Course'
<1>1. /\ app = "serving" /\ at[r] = "idle" /\ UNCHANGED <<mix, app>>
      /\ \A o \in Requests : o < r => at[o] # "idle"
  BY Arrival DEF Course
<1>2. PICK h \in Routes : /\ route' = [route EXCEPT ![r] = h]
                          /\ Turned(r) \/ Admitted(r, h)
  BY Arrival DEF Course
<1>3. /\ route' \in [Requests -> Routes] /\ route'[r] = h
      /\ \A o \in Requests \ {r} : route'[o] = route[o]
  BY <1>2 DEF Course
<1>4. /\ work[r] = NoWork /\ work[r].next \notin Pending /\ listing[r].total = {} /\ wanted \in [Requests -> ObjectKeys]
      /\ \A what : Await(r, what) =>
              at' = [at EXCEPT ![r] = what] /\ answer' = [answer EXCEPT ![r] = "none"]
  <2>1. work[r] = NoWork
    BY <1>1 DEF Course, InCourse, Bare
  <2>2. NoWork.next = "none" /\ "none" \notin Pending
    BY DEF NoWork, Pending
  <2> QED
    BY <1>1, <2>1, <2>2, Unanswered DEF Course
<1>5. /\ {"manyRequests", "invalidToken", "internal", "contract", "ok", "created", "none"} \subseteq Statuses
      /\ {"ids", "rows", "account", "disk", "get", "save", "cached"} \subseteq Waiting
      /\ "answered" \notin Waiting
  BY DEF Statuses, Ends, Done, Waiting
<1>6. ASSUME NEW status \in {"manyRequests", "invalidToken", "internal", "contract", "ok"},
             Refuse(r, status), status = "ok" => h = "check"
      PROVE  Course'
  <2>1. /\ at' = [at EXCEPT ![r] = "answered"] /\ answer' = [answer EXCEPT ![r] = status]
        /\ work' = work /\ listing' = listing /\ wanted' = wanted
    BY <1>6 DEF Refuse, Answer, profiles
  <2>2. status \in Statuses /\ status # "none"
    BY <1>5
  <2> QED
    BY <1>1, <1>3, <1>4, <1>6, <2>1, <2>2, Course1 DEF Fits, Bare
<1>7. ASSUME NEW what \in {"ids", "rows", "disk", "get", "save", "cached", "hung"}, Await(r, what),
             work' = work, wanted' \in [Requests -> ObjectKeys],
             \A o \in Requests \ {r} : listing'[o].total = listing[o].total, listing'[r].total = {},
             Fits(what, h)
      PROVE  Course'
  <2>1. what \in Waiting \cup {"hung"} /\ "none" \in Statuses
    BY <1>5
  <2>2. at' = [at EXCEPT ![r] = what] /\ answer' = [answer EXCEPT ![r] = "none"]
    BY <1>4, <1>7
  <2>3. what # "answered" /\ what # "account"
    OBVIOUS
  <2> QED
    BY <1>1, <1>3, <1>4, <1>7, <2>1, <2>2, <2>3, Course1
<1>8. ASSUME h = "list", NEW q \in Queries(Nat, Nat, SUBSET Accounts), List(r, q) PROVE Course'
  <2>1. /\ listing'[r].total = {} /\ \A o \in Requests \ {r} : listing'[o] = listing[o]
    BY <1>8, ListBegins DEF List
  <2>2. PICK what \in {"ids", "rows"} : Await(r, what)
    BY <1>8 DEF List
  <2>3. work' = work /\ wanted' = wanted /\ Fits(what, h)
    BY <1>8 DEF List, profiles, Fits
  <2> QED
    BY <1>4, <1>7, <2>1, <2>2, <2>3
<1>9. ASSUME h \in ProfileRoutes, NEW d \in ProfileData(h), Profile(r, h, d) PROVE Course'
  <2>1. Begin(r)
    BY <1>1, <1>9, ProfileBegins
  <2>2. work'[r].next \in Pending /\ \A o \in Requests \ {r} : work'[o] = work[o]
    BY <2>1, Onward
  <2>3. /\ at' = [at EXCEPT ![r] = "account"] /\ answer' = [answer EXCEPT ![r] = "none"]
        /\ listing' = listing /\ wanted' = wanted
    BY <1>4, <1>9 DEF Profile
  <2>4. h # "list" /\ Fits("account", h) /\ "account" \notin Bare
    BY <1>9 DEF ProfileRoutes, Fits, Bare
  <2> QED
    BY <1>1, <1>3, <1>4, <1>5, <1>9, <2>2, <2>3, <2>4, Course1
<1>10. ASSUME h = "download", NEW k \in ObjectKeys, Download(r, k) PROVE Course'
  <2>1. work' = work /\ listing' = listing /\ wanted' \in [Requests -> ObjectKeys] /\ Await(r, "get")
    BY <1>4, <1>10 DEF Download, profiles, Want
  <2>2. Fits("get", h)
    BY <1>10 DEF Fits
  <2> QED
    BY <1>4, <1>7, <2>1, <2>2
<1>11. ASSUME NEW what \in {"disk", "save", "cached", "hung"}, Ask(r, what), Fits(what, h) PROVE Course'
  <2>1. work' = work /\ wanted' = wanted /\ listing' = listing /\ Await(r, what)
    BY <1>11 DEF Ask, profiles
  <2> QED
    BY <1>4, <1>7, <1>11, <2>1
<1>12. CASE Turned(r)
  BY <1>6, <1>12 DEF Turned
<1>13. CASE Admitted(r, h)
  BY <1>6, <1>8, <1>9, <1>10, <1>11, <1>13 DEF Admitted
<1> QED
  BY <1>2, <1>12, <1>13

\* A request that waits serves, and the others are where they were.
LEMMA CourseServe ==
  ASSUME Course, ListType, ProfilesInv, NEW r \in Requests, Serves(r)
  PROVE  Course'
<1> USE DEF rest
<1>1. at[r] \in Waiting /\ route' = route /\ wanted' = wanted /\ UNCHANGED <<mix, app>>
  BY DEF Serves, Ids, RowsOf, Count, Account, OnDisk, Saved, Read, Registered, Cached, Documents, Fail,
         Waiting, Refuse
<1>2. /\ app = "serving" /\ at[r] \notin {"idle", "answered", "cut"}
      /\ \A o \in Requests : o < r => at[o] # "idle"
  <2>1. at[r] \notin {"idle", "answered", "cut"} /\ app # "closed"
    BY <1>1 DEF Waiting, Course
  <2> QED
    BY <2>1 DEF Course, InCourse
<1>3. /\ route \in [Requests -> Routes] /\ wanted \in [Requests -> ObjectKeys]
      /\ listing[r].total = {}
      /\ \A what : Await(r, what) =>
              at' = [at EXCEPT ![r] = what] /\ answer' = [answer EXCEPT ![r] = "none"]
  BY <1>2, Unanswered DEF Course
<1>4. /\ {"ok", "created", "internal", "contract", "none"} \subseteq Statuses /\ Ends \subseteq Statuses
      /\ {"ids", "rows", "count", "account", "put", "documents"} \subseteq Waiting
      /\ "answered" \notin Waiting
  BY DEF Statuses, Ends, Done, Waiting
<1>5. at[r] # "account" => work[r].next \notin Pending
  BY <1>2 DEF Course, InCourse
<1>6. ASSUME NEW status \in Statuses \ {"none"}, Answer(r, status), work' = work, at[r] # "account",
             \A o \in Requests \ {r} : listing'[o].total = listing[o].total,
             listing'[r].total # {} <=> route[r] = "list" /\ status = "ok"
      PROVE  Course'
  <2>1. at' = [at EXCEPT ![r] = "answered"] /\ answer' = [answer EXCEPT ![r] = status]
    BY <1>6 DEF Answer
  <2> QED
    BY <1>1, <1>2, <1>3, <1>5, <1>6, <2>1, Course1 DEF Fits, Bare
<1>7. ASSUME NEW what \in {"rows", "count", "put", "documents", "hung"}, Await(r, what), work' = work,
             \A o \in Requests : listing'[o].total = listing[o].total, Fits(what, route[r]),
             at[r] # "account", what \in Bare => at[r] \in Bare
      PROVE  Course'
  <2>0. what \in Bare => work[r] = NoWork
    BY <1>7 DEF Course, InCourse
  <2>1. what \in Waiting \cup {"hung"} /\ what # "answered" /\ what # "account"
    BY <1>4
  <2>2. at' = [at EXCEPT ![r] = what] /\ answer' = [answer EXCEPT ![r] = "none"]
    BY <1>3, <1>7
  <2> QED
    BY <1>1, <1>2, <1>3, <1>4, <1>5, <1>7, <2>0, <2>1, <2>2, Course1
<1> DEFINE Rests(what) == Fits(what, route[r]) /\ what \notin Bare
<1>8. CASE Ids(r)
  <2>1. /\ at[r] = "ids" /\ Rests("rows") /\ Rests("count")
    BY <1>8 DEF Ids, Course, InCourse, Fits, Bare
  <2>2. /\ \A o \in Requests : listing'[o].total = listing[o].total
    BY <1>8, ListFinds DEF Ids
  <2>3. work' = work
    BY <1>8 DEF Ids, profiles
  <2> QED
    BY <1>7, <1>8, <2>1, <2>2, <2>3 DEF Ids
<1>9. CASE RowsOf(r)
  <2>1. /\ at[r] = "rows" /\ Rests("count")
    BY <1>9 DEF RowsOf, Course, InCourse, Fits, Bare
  <2>2. /\ \A o \in Requests : listing'[o].total = listing[o].total
    BY <1>9, ListReads DEF RowsOf
  <2>3. work' = work
    BY <1>9 DEF RowsOf, profiles
  <2> QED
    BY <1>7, <1>9, <2>1, <2>2, <2>3 DEF RowsOf
<1>10. CASE Count(r)
  <2>1. /\ route[r] = "list" /\ at[r] = "count"
    BY <1>10 DEF Count, Course, InCourse, Fits
  <2>2. /\ listing'[r].total # {} /\ \A o \in Requests \ {r} : listing'[o].total = listing[o].total
    BY <1>10, ListCounts DEF Count
  <2>3. work' = work /\ Answer(r, "ok")
    BY <1>10 DEF Count, profiles
  <2> QED
    BY <1>4, <1>6, <2>1, <2>2, <2>3
<1>11. CASE Account(r)
  <2>1. /\ route[r] \in ProfileRoutes /\ "list" \notin ProfileRoutes /\ ProfileStep(r)
        /\ listing' = listing
    BY <1>11 DEF Account, Course, InCourse, Fits, ProfileRoutes
  <2>2. work'[r].next \in Pending \cup Ends /\ \A o \in Requests \ {r} : work'[o] = work[o]
    BY <2>1, Onward
  <2>3. CASE work'[r].next \in Ends
    <3>1. work'[r].next \notin Pending /\ work'[r].next # "none"
      BY <2>3 DEF Ends, Done, Pending
    <3>2. /\ at' = [at EXCEPT ![r] = "answered"] /\ answer' = [answer EXCEPT ![r] = work'[r].next]
          /\ work'[r].next \in Statuses
      BY <1>4, <1>11, <2>3 DEF Account, Answer
    <3>3. \A s : route[r] = "list" /\ s = "ok" <=> FALSE
      BY <2>1
    <3> QED
      BY <1>1, <1>2, <1>3, <2>1, <2>2, <3>1, <3>2, Course1 DEF Fits, Bare
  <2>4. CASE work'[r].next \notin Ends
    <3>1. at' = [at EXCEPT ![r] = "account"] /\ answer' = [answer EXCEPT ![r] = "none"]
      BY <1>3, <1>11, <2>4 DEF Account
    <3> QED
      BY <1>1, <1>2, <1>3, <1>4, <2>1, <2>2, <2>4, <3>1, Course1 DEF Fits, Bare
  <2> QED
    BY <2>3, <2>4
<1>12. ASSUME NEW status \in {"created", "internal", "contract", "ok"}, Answer(r, status),
              work' = work, listing' = listing, at[r] # "account", route[r] # "list"
       PROVE  Course'
  BY <1>3, <1>4, <1>6, <1>12
<1>13. CASE OnDisk(r)
  <2>1. route[r] = "upload" /\ at[r] = "disk"
    BY <1>13 DEF OnDisk, Course, InCourse, Fits
  <2>2. /\ work' = work /\ listing' = listing
        /\ Await(r, "put") \/ \E status \in {"created", "internal", "contract"} : Answer(r, status)
    BY <1>13 DEF OnDisk, Refuse, Upload, profiles
  <2>3. Rests("put")
    BY <2>1 DEF Fits, Bare
  <2> QED
    BY <1>7, <1>12, <2>1, <2>2, <2>3
<1>14. CASE Saved(r) \/ Read(r) \/ Registered(r) \/ Cached(r) \/ Documents(r)
  <2>1. /\ route[r] # "list" /\ at[r] # "account"
        /\ Cached(r) => Fits("documents", route[r]) /\ at[r] \in Bare
    BY <1>14 DEF Saved, Read, Registered, Cached, Documents, Course, InCourse, Fits, Bare
  <2>2. /\ work' = work /\ listing' = listing
        /\ \/ Cached(r) /\ Await(r, "documents")
           \/ \E status \in {"created", "internal", "ok"} : Answer(r, status)
    BY <1>14 DEF Saved, Read, Registered, Cached, Documents, profiles
  <2> QED
    BY <1>7, <1>12, <2>1, <2>2
<1>15. CASE Fail(r)
  <2>1. listing' = listing
    BY <1>15 DEF Fail
  <2>2. CASE at[r] = "account"
    <3>1. FailProfile(r) /\ Answer(r, "internal")
      BY <1>15, <2>2 DEF Fail, Wrapped
    <3>2. /\ work'[r].next = "internal" /\ \A o \in Requests \ {r} : work'[o] = work[o]
          /\ "internal" \notin Pending
      BY <3>1, Onward DEF Pending
    <3> QED
      BY <1>1, <1>2, <1>3, <1>4, <2>1, <3>1, <3>2, Course1 DEF Answer, Fits, Bare
  <2>3. CASE at[r] # "account" /\ at[r] \in Wrapped
    BY <1>3, <1>4, <1>6, <1>15, <2>1, <2>3 DEF Fail, profiles
  <2>4. CASE at[r] \notin Wrapped
    <3>1. at[r] \in {"disk", "save", "cached", "documents"} /\ at[r] \in Bare
      BY <1>1, <2>4 DEF Waiting, Wrapped, Bare
    <3>2. Fits("hung", route[r])
      BY <3>1 DEF Course, InCourse, Fits, Unwrapped
    <3>3. Await(r, "hung") /\ work' = work
      BY <1>15, <2>4, <3>1 DEF Fail, profiles
    <3> QED
      BY <1>7, <2>1, <3>1, <3>2, <3>3
  <2> QED
    BY <2>2, <2>3, <2>4
<1> QED
  BY <1>8, <1>9, <1>10, <1>11, <1>13, <1>14, <1>15 DEF Serves

\* The process is closed: what waits is cut.
LEMMA CourseClose ==
  ASSUME Course, Close
  PROVE  Course'
<1>1. /\ app' = "closed" /\ at' = [r \in Requests |-> IF at[r] \in Waiting THEN "cut" ELSE at[r]]
      /\ UNCHANGED <<answer, route, wanted, work, listing, mix>>
      /\ \E r \in Requests : at[r] = "hung"
  BY DEF Close, profiles
<1>2. {"idle", "answered", "hung", "cut"} \cap Waiting = {}
  BY DEF Waiting
<1>3. /\ \A r \in Requests : at'[r] \notin Waiting
      /\ \A r \in Requests : at[r] = "idle" <=> at'[r] = "idle"
      /\ \A r \in Requests : at[r] = "answered" <=> at'[r] = "answered"
      /\ \A r \in Requests : at[r] = "hung" <=> at'[r] = "hung"
      /\ \A r \in Requests : at'[r] = "cut" <=> at[r] = "cut" \/ at[r] \in Waiting
  BY <1>1, <1>2
<1>4. ASSUME NEW r \in Requests PROVE InCourse(r)'
  <2>1. InCourse(r)
    BY DEF Course
  <2>2. at'[r] # "account" /\ (at'[r] \in Bare => at[r] \in Bare) /\ Fits(at'[r], route[r])
    <3>1. at'[r] = at[r] \/ at'[r] = "cut"
      BY <1>1
    <3> QED
      BY <1>3, <2>1, <3>1 DEF Waiting, InCourse, Fits, Bare
  <2>3. work[r].next \in Pending /\ at[r] # "cut" => at'[r] = "cut"
    <3>1. "account" \in Waiting
      BY DEF Waiting
    <3> QED
      BY <1>3, <2>1, <3>1 DEF InCourse
  <2>4. work[r].next \in Pending => at'[r] = "cut"
    BY <1>3, <2>3
  <2> QED
    BY <1>1, <1>3, <2>1, <2>2, <2>4 DEF InCourse, Listed, Fits
<1>5. /\ at' \in [Requests -> Waiting \cup {"idle", "answered", "hung", "cut"}]
      /\ \E r \in Requests : at'[r] = "hung"
  BY <1>1, <1>3 DEF Course
<1> QED
  BY <1>1, <1>3, <1>4, <1>5 DEF Course

LEMMA CourseRest ==
  ASSUME Course, UNCHANGED <<mix, at, answer, route, wanted, app, listing, work>>
  PROVE  Course'
<1>1. \A r \in Requests : InCourse(r)'
  BY DEF Course, InCourse, Listed, Fits
<1> QED
  BY <1>1 DEF Course

-----------------------------------------------------------------------------
(* The pages of the list *)

LEMMA Times == \A a, b, l \in Nat : a <= b => a * l <= b * l
OBVIOUS

LEMMA Plus == \A a, l \in Nat : (a + 1) * l = a * l + l
OBVIOUS

\* The pages of n rows, l on each, are those whose rows before are fewer than n.
LEMMA Ceiling ==
  ASSUME NEW n \in Nat \ {0}, NEW l \in Nat \ {0}, NEW p \in Nat
  PROVE  p < (n + l - 1) \div l <=> p * l < n
<1> DEFINE d == (n + l - 1) \div l
<1>1. d \in Nat /\ d * l <= n + l - 1 /\ n <= d * l
  OBVIOUS
<1> HIDE DEF d
<1>2. ASSUME p < d PROVE p * l < n
  <2> DEFINE x == p * l
             y == d * l
             z == (p + 1) * l
  <2>1. x \in Nat /\ y \in Nat /\ z \in Nat
    BY <1>1
  <2>2. z <= y
    BY <1>1, <1>2, Times
  <2>3. z = x + l
    BY Plus
  <2>4. y <= n + l - 1
    BY <1>1
  <2> HIDE DEF x, y, z
  <2>5. x < n
    BY <2>1, <2>2, <2>3, <2>4
  <2> QED
    BY <2>5 DEF x
<1>3. ASSUME p >= d PROVE p * l >= n
  <2>1. d * l <= p * l /\ d * l \in Nat /\ p * l \in Nat
    BY <1>1, <1>3, Times
  <2> QED
    BY <1>1, <2>1
<1> QED
  BY <1>1, <1>2, <1>3 DEF d

\* The accounts of S up to a, in the order of the list.
Upto(q, S, a) == {y \in S : IF q.order = {"DESC"} THEN y >= a ELSE y <= a}

\* Where an account stands in a sorted list is how many stand up to there.
LEMMA Ranked ==
  ASSUME NEW q, NEW S \in SUBSET Nat, IsFiniteSet(S), NEW s \in SetToSeqs(S), Sorted(q, s),
         NEW i \in DOMAIN s
  PROVE  i = Cardinality(Upto(q, S, s[i]))
<1> DEFINE T == {y \in S : IF q.order = {"DESC"} THEN y >= s[i] ELSE y <= s[i]}
           f == [j \in 1 .. i |-> s[j]]
<1>1. /\ DOMAIN s = 1 .. Len(s) /\ Len(s) \in Nat /\ ToSet(s) = S
      /\ \A j \in DOMAIN s : s[j] \in S
      /\ \A j, k \in DOMAIN s : j # k => s[j] # s[k]
  <2>1. ToSet(s) = S /\ \A j \in DOMAIN s : s[j] \in ToSet(s)
    BY Ordered DEF ToSet
  <2> QED
    BY <2>1, Ordered
<1>2. i \in Nat /\ \A j \in 1 .. i : j \in DOMAIN s
  BY <1>1
<1>3. \A j, k \in DOMAIN s : j < k => IF q.order = {"DESC"} THEN s[j] > s[k] ELSE s[j] < s[k]
  BY DEF Sorted
<1>4. \A j \in DOMAIN s : s[j] \in Nat
  BY <1>1
<1>5. \A j \in DOMAIN s : s[j] \in T <=> j <= i
  <2> SUFFICES ASSUME NEW j \in DOMAIN s PROVE s[j] \in T <=> j <= i
    OBVIOUS
  <2>1. j \in Nat /\ s[j] \in Nat /\ s[i] \in Nat /\ s[j] \in S
    BY <1>1, <1>4
  <2>2. CASE j < i
    <3>1. IF q.order = {"DESC"} THEN s[j] > s[i] ELSE s[j] < s[i]
      BY <1>3, <2>2
    <3> QED
      BY <1>2, <2>1, <2>2, <3>1
  <2>3. CASE j = i
    BY <1>2, <2>1, <2>3
  <2>4. CASE j > i
    <3>1. IF q.order = {"DESC"} THEN s[i] > s[j] ELSE s[i] < s[j]
      BY <1>3, <2>4
    <3> QED
      BY <1>2, <2>1, <2>4, <3>1
  <2> QED
    BY <1>2, <2>1, <2>2, <2>3, <2>4
<1>6. \A y \in T : \E j \in 1 .. i : s[j] = y
  <2> SUFFICES ASSUME NEW y \in T PROVE \E j \in 1 .. i : s[j] = y
    OBVIOUS
  <2>1. PICK j \in DOMAIN s : s[j] = y
    BY <1>1 DEF ToSet
  <2>2. j <= i
    BY <1>5, <2>1
  <2> QED
    BY <1>1, <1>2, <2>1, <2>2
<1>7. \A j \in 1 .. i : s[j] \in T
  BY <1>2, <1>5
<1> HIDE DEF T
<1>8. f \in Bijection(1 .. i, T)
  BY <1>1, <1>2, <1>6, <1>7 DEF Bijection, Injection, Surjection, IsInjective
<1>9. IsFiniteSet(1 .. i) /\ Cardinality(1 .. i) = i
  BY <1>2, FS_Interval
<1>10. Cardinality(T) = i
  BY <1>8, <1>9, FS_Bijection DEF ExistsBijection
<1> QED
  BY <1>10 DEF T, Upto

\* A list has no more accounts than places.
LEMMA Rooms ==
  ASSUME NEW T, NEW s \in Seq(T)
  PROVE  Cardinality(ToSet(s)) <= Len(s) /\ Cardinality(ToSet(s)) \in Nat /\ (s = <<>> <=> ToSet(s) = {})
<1>1. Len(s) \in Nat /\ DOMAIN s = 1 .. Len(s) /\ s \in [1 .. Len(s) -> T]
  BY LenProperties
<1>2. s \in Surjection(1 .. Len(s), ToSet(s))
  <2>1. \A i \in 1 .. Len(s) : s[i] \in ToSet(s)
    BY <1>1 DEF ToSet
  <2>2. s \in [1 .. Len(s) -> ToSet(s)]
    BY <1>1, <2>1
  <2>3. \A y \in ToSet(s) : \E i \in 1 .. Len(s) : s[i] = y
    BY <1>1 DEF ToSet
  <2> QED
    BY <2>2, <2>3 DEF Surjection
<1>3. IsFiniteSet(1 .. Len(s)) /\ Cardinality(1 .. Len(s)) = Len(s)
  BY <1>1, FS_Interval
<1>4. IsFiniteSet(ToSet(s)) /\ Cardinality(ToSet(s)) <= Len(s)
  BY <1>2, <1>3, FS_Surjection
<1>5. Cardinality(ToSet(s)) \in Nat
  BY <1>4, FS_CardinalityType
<1>6. s # <<>> => 1 \in DOMAIN s
  BY <1>1, EmptySeq
<1>7. s = <<>> => DOMAIN s = {}
  BY EmptySeq
<1>8. s = <<>> <=> ToSet(s) = {}
  BY <1>6, <1>7 DEF ToSet
<1> QED
  BY <1>4, <1>5, <1>8

\* Two queries that differ in their page only.
LEMMA Turning ==
  ASSUME NEW q \in Queries(Nat, Nat, SUBSET Accounts), NEW p \in Queries(Nat, Nat, SUBSET Accounts),
         [p EXCEPT !.page = q.page] = q
  PROVE  /\ p.limit = q.limit /\ p.order = q.order /\ p.sortBy = q.sortBy
         /\ p.selectSoftDeleted = q.selectSoftDeleted /\ p.named = q.named
         /\ ByCreation(p) = ByCreation(q) /\ Matching(p) = Matching(q)
<1> DEFINE c == [p EXCEPT !.page = q.page]
<1>1. /\ c.limit = p.limit /\ c.order = p.order /\ c.sortBy = p.sortBy
      /\ c.selectSoftDeleted = p.selectSoftDeleted /\ c.named = p.named
  BY DEF Queries
<1>2. /\ p.limit = q.limit /\ p.order = q.order /\ p.sortBy = q.sortBy
      /\ p.selectSoftDeleted = q.selectSoftDeleted /\ p.named = q.named
  BY <1>1
<1> QED
  BY <1>2 DEF ByCreation, Matching

\* Later pages of a sorted list hold other rows.
LEMMA Apart ==
  ASSUME NEW q \in Queries(Nat, Nat, SUBSET Accounts), NEW p \in Queries(Nat, Nat, SUBSET Accounts),
         [p EXCEPT !.page = q.page] = q, Paginated(q), Or(p.page, 0) > Or(q.page, 0), ByCreation(q),
         NEW S \in SUBSET Accounts, NEW s \in Rows(q, S), NEW t \in Rows(p, S)
  PROVE  ToSet(PageOf(p, t)) \cap ToSet(PageOf(q, s)) = {}
<1> DEFINE l == Or(q.limit, 0)
           a == Or(q.page, 0)
           b == Or(p.page, 0)
<1>1. /\ p.limit = q.limit /\ p.order = q.order /\ ByCreation(p)
  BY Turning
<1>2. IsFiniteSet(S) /\ S \in SUBSET Nat
  BY AccountsAssumption, FS_Subset
<1>3. s \in SetToSeqs(S) /\ t \in SetToSeqs(S) /\ Sorted(q, s) /\ Sorted(p, t)
  BY <1>1 DEF Rows
<1>4. /\ l \in Nat \ {0} /\ a \in Nat /\ Skip(q) = a * l /\ Skip(q) \in Nat
      /\ \A x \in ToSet(PageOf(q, s)) :
           \E i \in DOMAIN s : x = s[i] /\ Skip(q) < i /\ i <= Skip(q) + l
  BY <1>2, <1>3, Paged
<1>5. b \in Nat
  <2>1. p.page \in Optional(Nat)
    BY DEF Queries
  <2>2. Or(p.page, 0) \in Nat \cup Nat
    BY <2>1, OrType
  <2> QED
    BY <2>2
<1>6. Paginated(p)
  BY <1>1, <1>4, <1>5 DEF Paginated
<1>7. /\ Skip(p) = b * l /\ Skip(p) \in Nat
      /\ \A x \in ToSet(PageOf(p, t)) :
           \E j \in DOMAIN t : x = t[j] /\ Skip(p) < j /\ j <= Skip(p) + l
  <2>1. /\ Skip(p) = b * Or(p.limit, 0) /\ Skip(p) \in Nat
        /\ \A x \in ToSet(PageOf(p, t)) :
             \E j \in DOMAIN t : x = t[j] /\ Skip(p) < j /\ j <= Skip(p) + Or(p.limit, 0)
    BY <1>2, <1>3, <1>6, Paged
  <2> QED
    BY <1>1, <2>1
<1>8. Skip(q) + l <= Skip(p)
  <2>1. (a + 1) * l <= b * l
    <3>1. a + 1 \in Nat /\ a + 1 <= b
      BY <1>4, <1>5
    <3> QED
      BY <1>4, <1>5, <3>1, Times
  <2>2. (a + 1) * l = a * l + l
    BY <1>4, Plus
  <2> QED
    BY <1>4, <1>7, <2>1, <2>2
<1> SUFFICES ASSUME NEW x \in ToSet(PageOf(p, t)), x \in ToSet(PageOf(q, s)) PROVE FALSE
  OBVIOUS
<1>9. PICK i \in DOMAIN s : x = s[i] /\ i <= Skip(q) + l
  BY <1>4
<1>10. PICK j \in DOMAIN t : x = t[j] /\ Skip(p) < j
  BY <1>7
<1>11. i = Cardinality(Upto(q, S, s[i]))
  BY <1>2, <1>3, Ranked
<1>12. j = Cardinality(Upto(p, S, t[j]))
  BY <1>2, <1>3, Ranked
<1>13. i = j
  <2>1. Upto(p, S, t[j]) = Upto(q, S, s[i])
    BY <1>1, <1>9, <1>10 DEF Upto
  <2> QED
    BY <1>11, <1>12, <2>1
<1>14. i \in Nat
  BY <1>2, <1>3, Ordered
<1> HIDE DEF l
<1> QED
  BY <1>4, <1>7, <1>8, <1>9, <1>10, <1>13, <1>14

-----------------------------------------------------------------------------
\* What a list has read, by how far its request has come.
Gathered(r) == LET l == listing[r] IN
  /\ at[r] = "ids" => l.rows = <<>>
  /\ ToSet(l.ids) \subseteq active /\ ToSet(l.rows) \subseteq active
  /\ l.since <= l.until /\ l.until <= changes
  /\ Paginated(l.query) => ToSet(l.rows) \subseteq ToSet(l.ids)
  /\ ByCreation(l.query) => Sorted(l.query, l.rows)

\* While the accounts are those of its begin, it has read a page of them.
Seen(r) == LET l == listing[r] IN
  Paginated(l.query) /\ l.since = changes =>
    /\ at[r] \in {"rows", "count"} \/ Listed(r) =>
         \E s \in Rows(l.query, Matching(l.query)) : l.ids = PageOf(l.query, s)
    /\ at[r] = "count" \/ Listed(r) => ToSet(l.rows) = ToSet(l.ids) /\ Len(l.rows) <= Len(l.ids)
    /\ Listed(r) => l.total = {Cardinality(Matching(l.query))}

\* What PagesPartition says of one page, and of a later one.
PageFits(r) == Listed(r) /\ Paginated(listing[r].query) /\ Steady(r) =>
                 /\ Len(listing[r].rows) <= Or(listing[r].query.limit, 0)
                 /\ listing[r].rows # <<>> <=> PageNumber(r) < Pages(r)

PagesApart(r, o) ==
  /\ Listed(r) /\ Paginated(listing[r].query) /\ Steady(r)
  /\ Listed(o) /\ Steady(o) /\ listing[o].since = listing[r].since
  /\ ByCreation(listing[r].query)
  /\ [listing[o].query EXCEPT !.page = listing[r].query.page] = listing[r].query
  /\ PageNumber(o) > PageNumber(r)
  => ToSet(listing[o].rows) \cap ToSet(listing[r].rows) = {}

ListInv == /\ ListType
           /\ \A r \in Requests : Gathered(r) /\ Seen(r) /\ PageFits(r)
           /\ \A r, o \in Requests : PagesApart(r, o)

LEMMA Partitioned == ListInv => PagesPartition
BY DEF ListInv, PageFits, PagesApart, PagesPartition

\* A list without rows is in any order.
LEMMA Unordered == \A q : Sorted(q, <<>>)
<1>1. DOMAIN <<>> = {}
  BY EmptySeq
<1> QED
  BY <1>1 DEF Sorted

LEMMA ListFirst ==
  ASSUME Init
  PROVE  ListInv
<1>1. /\ active \in {{a \in Accounts : a <= n} : n \in Accounts \cup {0}}
      /\ softDeleted \in SUBSET active /\ changes = 0
      /\ listing = [r \in Requests |-> Listing(AnyQuery)] /\ at = [r \in Requests |-> "idle"]
  BY DEF Init, UserListInit
<1>2. AnyQuery \in Queries(Nat, Nat, SUBSET Accounts)
  BY Fields DEF AnyQuery, Queries
<1>3. <<>> \in Seq(Accounts) /\ {} \in Optional(Nat) /\ ToSet(<<>>) = {}
  <2>1. <<>> \in Seq(Accounts)
    BY EmptySeq
  <2> QED
    BY <2>1, Fields, Rooms
<1>4. Listing(AnyQuery) \in Lists
  BY <1>1, <1>2, <1>3 DEF Listing, Lists
<1>5. ListType
  BY <1>1, <1>4, AccountsAssumption DEF ListType
<1>6. ASSUME NEW r \in Requests
      PROVE  /\ listing[r].ids = <<>> /\ listing[r].rows = <<>> /\ ~Listed(r)
             /\ listing[r].since = 0 /\ listing[r].until = 0 /\ at[r] = "idle"
  BY <1>1 DEF Listing, Listed
<1>7. \A r \in Requests : Gathered(r) /\ Seen(r) /\ PageFits(r)
  BY <1>1, <1>3, <1>6, Unordered DEF Gathered, Seen, PageFits
<1>8. \A r, o \in Requests : PagesApart(r, o)
  BY <1>6 DEF PagesApart
<1> QED
  BY <1>5, <1>7, <1>8 DEF ListInv

\* A step that leaves the lists and the accounts, and brings no request to a list.
LEMMA ListRest ==
  ASSUME ListInv, UNCHANGED <<listing, users>>,
         \A o \in Requests : at'[o] \in {"ids", "rows", "count"} => at'[o] = at[o]
  PROVE  ListInv'
<1>1. /\ listing' = listing /\ active' = active /\ softDeleted' = softDeleted /\ changes' = changes
  BY DEF users
<1>2. \A q : Matching(q)' = Matching(q)
  BY <1>1 DEF Matching
<1>3. ListType'
  BY <1>1 DEF ListInv, ListType
<1>4. ASSUME NEW r \in Requests PROVE Gathered(r)' /\ Seen(r)' /\ PageFits(r)'
  <2>1. Gathered(r) /\ Seen(r) /\ PageFits(r) /\ Listed(r)' = Listed(r)
    BY <1>1 DEF ListInv, Listed
  <2>2. Gathered(r)'
    BY <1>1, <2>1 DEF Gathered
  <2>3. Seen(r)'
    BY <1>1, <1>2, <2>1 DEF Seen
  <2>4. PageFits(r)'
    BY <1>1, <2>1 DEF PageFits, Steady, PageNumber, Pages
  <2> QED
    BY <2>2, <2>3, <2>4
<1>5. \A r, o \in Requests : PagesApart(r, o)'
  BY <1>1 DEF ListInv, PagesApart, Listed, Steady, PageNumber
<1> QED
  BY <1>3, <1>4, <1>5 DEF ListInv

\* A step of one list, which the others keep.
LEMMA ListOwn ==
  ASSUME ListInv, ListType', UNCHANGED users, NEW r \in Requests,
         \A o \in Requests \ {r} : listing'[o] = listing[o] /\ at'[o] = at[o],
         Gathered(r)', Seen(r)', PageFits(r)',
         \A o \in Requests : PagesApart(r, o)' /\ PagesApart(o, r)'
  PROVE  ListInv'
<1>1. active' = active /\ softDeleted' = softDeleted /\ changes' = changes
  BY DEF users
<1>2. \A q : Matching(q)' = Matching(q)
  BY <1>1 DEF Matching
<1>3. ASSUME NEW o \in Requests \ {r} PROVE Gathered(o)' /\ Seen(o)' /\ PageFits(o)'
  <2>1. Gathered(o) /\ Seen(o) /\ PageFits(o)
    BY DEF ListInv
  <2>2. listing'[o] = listing[o] /\ at'[o] = at[o] /\ Listed(o)' = Listed(o)
    BY DEF Listed
  <2>3. Gathered(o)'
    BY <1>1, <2>1, <2>2 DEF Gathered
  <2>4. Seen(o)'
    BY <1>1, <1>2, <2>1, <2>2 DEF Seen
  <2>5. PageFits(o)'
    BY <2>1, <2>2 DEF PageFits, Steady, PageNumber, Pages
  <2> QED
    BY <2>3, <2>4, <2>5
<1>4. ASSUME NEW p \in Requests \ {r}, NEW o \in Requests \ {r} PROVE PagesApart(p, o)'
  <2>1. PagesApart(p, o)
    BY DEF ListInv
  <2>2. listing'[o] = listing[o] /\ listing'[p] = listing[p]
    OBVIOUS
  <2> QED
    BY <2>1, <2>2 DEF PagesApart, Listed, Steady, PageNumber
<1>5. \A p, o \in Requests : PagesApart(p, o)'
  BY <1>4
<1> QED
  BY <1>3, <1>5 DEF ListInv

\* A list that has not ended says nothing of its page.
LEMMA ListSilent ==
  ASSUME ListInv, ListType', UNCHANGED users, NEW r \in Requests,
         \A o \in Requests \ {r} : listing'[o] = listing[o] /\ at'[o] = at[o],
         Gathered(r)', Seen(r)', listing'[r].total = {}
  PROVE  ListInv'
<1>1. ~Listed(r)'
  BY DEF Listed
<1>2. PageFits(r)' /\ \A o \in Requests : PagesApart(r, o)' /\ PagesApart(o, r)'
  BY <1>1 DEF PageFits, PagesApart
<1> QED
  BY <1>2, ListOwn

LEMMA ListBegin ==
  ASSUME ListInv, Course, NEW r \in Requests, NEW q \in Queries(Nat, Nat, SUBSET Accounts), List(r, q)
  PROVE  ListInv'
<1>1. /\ ListType' /\ UNCHANGED users
      /\ listing'[r] = Listing(q) /\ listing'[r].query = q /\ listing'[r].since = changes
      /\ listing'[r].ids = <<>> /\ listing'[r].rows = <<>> /\ listing'[r].total = {}
      /\ listing'[r].until = changes
      /\ \A o \in Requests \ {r} : listing'[o] = listing[o]
  BY ListBegins DEF List, ListInv
<1>2. /\ at'[r] = IF Paginated(q) THEN "ids" ELSE "rows"
      /\ \A o \in Requests \ {r} : at'[o] = at[o]
  BY DEF List, Await, Course
<1>3. changes \in Nat /\ changes' = changes /\ ToSet(<<>>) = {}
  <2>1. <<>> \in Seq({})
    BY EmptySeq
  <2>2. ToSet(<<>>) = {}
    BY <2>1, Rooms
  <2> QED
    BY <1>1, <2>2, AccountsAssumption DEF users, ListInv, ListType
<1>4. Gathered(r)'
  BY <1>1, <1>3, Unordered DEF Gathered
<1>5. Seen(r)'
  BY <1>1, <1>2 DEF Seen, Listed
<1> QED
  BY <1>1, <1>2, <1>4, <1>5, ListSilent

LEMMA ListIds ==
  ASSUME ListInv, Course, NEW r \in Requests, Ids(r)
  PROVE  ListInv'
<1> DEFINE l == listing[r]
           q == l.query
<1>1. /\ ListType' /\ UNCHANGED users
      /\ \E s \in Rows(q, Matching(q)) : listing'[r].ids = PageOf(q, s)
      /\ listing'[r].query = q /\ listing'[r].rows = l.rows
      /\ listing'[r].total = l.total /\ listing'[r].since = l.since
      /\ listing'[r].until = l.until
      /\ \A o \in Requests \ {r} : listing'[o] = listing[o]
  BY ListFinds DEF Ids, ListInv
<1>2. /\ at[r] = "ids" /\ l.total = {} /\ q \in Queries(Nat, Nat, SUBSET Accounts) /\ Gathered(r)
  BY Unanswered DEF Ids, ListInv, ListType, Lists
<1>3. /\ at'[r] = IF listing'[r].ids = <<>> THEN "count" ELSE "rows"
      /\ \A o \in Requests \ {r} : at'[o] = at[o]
  BY DEF Ids, Await, Course
<1>4. PICK s \in Rows(q, Matching(q)) : listing'[r].ids = PageOf(q, s)
  BY <1>1
<1>5. ToSet(PageOf(q, s)) \subseteq active
  BY <1>2, <1>4, Pageful, MatchingActive DEF ListInv
<1>6. /\ l.rows = <<>> /\ l.since <= l.until /\ l.until <= changes
      /\ active' = active /\ softDeleted' = softDeleted /\ changes' = changes
  BY <1>1, <1>2 DEF Gathered, users
<1>7. ToSet(<<>>) = {} /\ Len(<<>>) <= Len(<<>>)
  <2>1. <<>> \in Seq({}) /\ Len(<<>>) = 0
    BY EmptySeq
  <2>2. ToSet(<<>>) = {}
    BY <2>1, Rooms
  <2> QED
    BY <2>1, <2>2
<1>8. Gathered(r)'
  BY <1>1, <1>4, <1>5, <1>6, <1>7, Unordered DEF Gathered
<1>9. Matching(q)' = Matching(q)
  BY <1>1, <1>6 DEF Matching
<1>10. at'[r] = "count" => listing'[r].rows = <<>> /\ listing'[r].ids = <<>>
  BY <1>1, <1>3, <1>6
<1>11. at'[r] = "count" => /\ ToSet(listing'[r].rows) = ToSet(listing'[r].ids)
                           /\ Len(listing'[r].rows) <= Len(listing'[r].ids)
  BY <1>7, <1>10
<1>12. Seen(r)'
  BY <1>1, <1>2, <1>4, <1>9, <1>11 DEF Seen, Listed
<1> QED
  BY <1>1, <1>2, <1>3, <1>8, <1>12, ListSilent

LEMMA ListRows ==
  ASSUME ListInv, Course, NEW r \in Requests, RowsOf(r)
  PROVE  ListInv'
<1> DEFINE l == listing[r]
           q == l.query
<1>1. /\ ListType' /\ UNCHANGED users
      /\ listing'[r].rows \in Rows(q, Selected(r))
      /\ listing'[r].query = q /\ listing'[r].ids = l.ids
      /\ listing'[r].total = l.total /\ listing'[r].since = l.since
      /\ listing'[r].until = l.until
      /\ \A o \in Requests \ {r} : listing'[o] = listing[o]
  BY ListReads DEF RowsOf, ListInv
<1>2. /\ at[r] = "rows" /\ l.total = {} /\ q \in Queries(Nat, Nat, SUBSET Accounts)
      /\ Gathered(r) /\ Seen(r) /\ l.ids \in Seq(Accounts)
  BY Unanswered DEF RowsOf, ListInv, ListType, Lists
<1>3. /\ at'[r] = "count" /\ \A o \in Requests \ {r} : at'[o] = at[o]
  BY DEF RowsOf, Await, Course
<1>4. Selected(r) \subseteq Matching(q) /\ (Paginated(q) => Selected(r) \subseteq ToSet(l.ids))
  BY DEF Selected
<1>5. /\ ToSet(listing'[r].rows) = Selected(r) /\ Selected(r) \subseteq active
      /\ Len(listing'[r].rows) = Cardinality(Selected(r))
  <2>1. Selected(r) \in SUBSET active
    BY <1>4, MatchingActive
  <2> QED
    BY <1>1, <2>1, Rowed DEF ListInv
<1>6. active' = active /\ softDeleted' = softDeleted /\ changes' = changes
  BY <1>1 DEF users
<1>7. Gathered(r)'
  <2>1. ByCreation(q) => Sorted(q, listing'[r].rows)
    BY <1>1 DEF Rows
  <2> QED
    BY <1>1, <1>2, <1>3, <1>4, <1>5, <1>6, <2>1 DEF Gathered
<1>8. Matching(q)' = Matching(q)
  BY <1>1, <1>6 DEF Matching
<1>9. ASSUME Paginated(q), l.since = changes
      PROVE  /\ \E s \in Rows(q, Matching(q)) : l.ids = PageOf(q, s)
             /\ ToSet(listing'[r].rows) = ToSet(l.ids)
             /\ Len(listing'[r].rows) <= Len(l.ids)
  <2>1. PICK s \in Rows(q, Matching(q)) : l.ids = PageOf(q, s)
    BY <1>2, <1>9 DEF Seen
  <2>2. ToSet(l.ids) \subseteq Matching(q)
    <3>1. Matching(q) \in SUBSET active /\ ListType
      BY MatchingActive DEF ListInv
    <3>2. ToSet(PageOf(q, s)) \subseteq Matching(q)
      BY <1>2, <3>1, Pageful
    <3> QED
      BY <2>1, <3>2
  <2>3. Selected(r) = ToSet(l.ids)
    BY <1>9, <2>2 DEF Selected
  <2>4. Cardinality(ToSet(l.ids)) <= Len(l.ids)
    BY <1>2, Rooms
  <2> QED
    BY <1>5, <2>1, <2>3, <2>4
<1>10. Seen(r)'
  BY <1>1, <1>2, <1>6, <1>8, <1>9 DEF Seen, Listed
<1> QED
  BY <1>1, <1>2, <1>3, <1>7, <1>10, ListSilent

\* The count of a list that saw the same accounts throughout tells its pages.
LEMMA ListCount ==
  ASSUME ListInv, Course, NEW r \in Requests, Count(r)
  PROVE  ListInv'
<1> DEFINE l == listing[r]
           q == l.query
           m == listing'[r]
<1>1. /\ ListType' /\ UNCHANGED users
      /\ m.total = {Cardinality(Matching(q))} /\ m.until = changes
      /\ m.query = q /\ m.ids = l.ids /\ m.rows = l.rows /\ m.since = l.since
      /\ \A o \in Requests \ {r} : listing'[o] = listing[o]
  BY ListCounts DEF Count, ListInv
<1>2. /\ at[r] = "count" /\ q \in Queries(Nat, Nat, SUBSET Accounts)
      /\ Gathered(r) /\ Seen(r) /\ l.ids \in Seq(Accounts) /\ l.rows \in Seq(Accounts)
      /\ l.since \in Nat /\ l.until \in Nat /\ changes \in Nat
  <2>1. at[r] = "count" /\ l \in Lists /\ Gathered(r) /\ Seen(r)
    BY DEF Count, ListInv, ListType
  <2>2. changes \in Nat
    BY AccountsAssumption DEF ListInv, ListType
  <2> QED
    BY <2>1, <2>2 DEF Lists
<1>3. /\ at'[r] = "answered" /\ \A o \in Requests \ {r} : at'[o] = at[o]
  BY DEF Count, Answer, Course
<1>4. active' = active /\ softDeleted' = softDeleted /\ changes' = changes
  BY <1>1 DEF users
<1>5. \A p : Matching(p)' = Matching(p)
  BY <1>4 DEF Matching
<1>6. Gathered(r)'
  BY <1>1, <1>2, <1>3, <1>4 DEF Gathered
<1>7. Seen(r)'
  BY <1>1, <1>2, <1>3, <1>4, <1>5 DEF Seen
<1>8. ASSUME NEW o \in Requests, Paginated(listing'[o].query), listing'[o].since = changes, Listed(o)'
      PROVE  /\ listing'[o].query \in Queries(Nat, Nat, SUBSET Accounts)
             /\ Matching(listing'[o].query) \in SUBSET active
             /\ \E s \in Rows(listing'[o].query, Matching(listing'[o].query)) :
                  listing'[o].ids = PageOf(listing'[o].query, s)
             /\ ToSet(listing'[o].rows) = ToSet(listing'[o].ids)
             /\ Len(listing'[o].rows) <= Len(listing'[o].ids)
             /\ listing'[o].total = {Cardinality(Matching(listing'[o].query))}
             /\ listing'[o].rows \in Seq(Accounts)
  <2>1. Seen(o)'
    <3>1. CASE o # r
      <4>1. Seen(o) /\ listing'[o] = listing[o] /\ at'[o] = at[o]
        BY <1>1, <1>3, <3>1 DEF ListInv
      <4> QED
        BY <1>4, <1>5, <4>1 DEF Seen, Listed
    <3> QED
      BY <1>7, <3>1
  <2>2. listing'[o] \in Lists
    BY <1>1 DEF ListType
  <2> QED
    BY <1>4, <1>5, <1>8, <2>1, <2>2, MatchingActive DEF Seen, Lists
<1>9. ASSUME Paginated(q), l.since = changes
      PROVE  /\ Len(m.rows) <= Or(q.limit, 0)
             /\ m.rows # <<>> <=> Or(q.page, 0) < TotalPages(q, Cardinality(Matching(q)))
  <2> DEFINE n == Cardinality(Matching(q))
  <2>1. /\ Matching(q) \in SUBSET active
        /\ ToSet(m.rows) = ToSet(m.ids) /\ Len(m.rows) <= Len(m.ids)
    BY <1>1, <1>2, <1>9, MatchingActive DEF Seen
  <2>2. PICK s \in Rows(q, Matching(q)) : m.ids = PageOf(q, s)
    BY <1>1, <1>2, <1>9 DEF Seen
  <2>3. IsFiniteSet(Matching(q)) /\ s \in SetToSeqs(Matching(q)) /\ n \in Nat
    BY <2>1, Rowed DEF ListInv
  <2>4. /\ Or(q.limit, 0) \in Nat \ {0} /\ Or(q.page, 0) \in Nat \ {0}
        /\ Skip(q) = Or(q.page, 0) * Or(q.limit, 0)
        /\ Len(PageOf(q, s)) \in Nat /\ Len(PageOf(q, s)) <= Or(q.limit, 0)
        /\ PageOf(q, s) # <<>> <=> Skip(q) < n
    BY <1>2, <1>9, <2>3, Paged
  <2> HIDE DEF n
  <2>5. Len(m.rows) \in Nat /\ (m.rows = <<>> <=> m.ids = <<>>)
    BY <1>1, <1>2, <2>1, LenProperties, Rooms
  <2>6. Len(m.rows) <= Or(q.limit, 0)
    BY <2>1, <2>2, <2>4, <2>5
  <2>7. Or(q.limit, 1) = Or(q.limit, 0)
    <3>1. q.limit # {}
      BY <2>4 DEF Or
    <3> QED
      BY <3>1 DEF Or
  <2>8. Or(q.page, 0) < TotalPages(q, n) <=> Skip(q) < n
    <3>1. CASE n = 0
      <4>1. TotalPages(q, n) = 1 /\ Skip(q) \in Nat
        BY <2>4, <3>1 DEF TotalPages
      <4> QED
        BY <2>4, <3>1, <4>1
    <3>2. CASE n # 0
      <4>1. TotalPages(q, n) = (n + Or(q.limit, 0) - 1) \div Or(q.limit, 0)
        BY <2>4, <2>7, <3>2 DEF TotalPages
      <4> QED
        BY <2>3, <2>4, <3>2, <4>1, Ceiling
    <3> QED
      BY <3>1, <3>2
  <2> QED
    BY <2>2, <2>4, <2>5, <2>6, <2>8 DEF n
<1>10. PageFits(r)'
  <2>1. Or(m.total, 0) = Cardinality(Matching(q))
    BY <1>1, Values
  <2> QED
    BY <1>1, <1>9, <2>1 DEF PageFits, Steady, PageNumber, Pages
<1>11. ASSUME NEW a \in Requests, NEW b \in Requests, r \in {a, b} PROVE PagesApart(a, b)'
  <2> SUFFICES ASSUME Listed(a)', Paginated(listing'[a].query), Steady(a)',
                      Listed(b)', Steady(b)', listing'[b].since = listing'[a].since,
                      ByCreation(listing'[a].query),
                      [listing'[b].query EXCEPT !.page = listing'[a].query.page] = listing'[a].query,
                      PageNumber(b)' > PageNumber(a)'
               PROVE  ToSet(listing'[b].rows) \cap ToSet(listing'[a].rows) = {}
    BY DEF PagesApart
  <2>1. listing'[a].since = changes /\ listing'[b].since = changes
    BY <1>1, <1>11 DEF Steady
  <2>2. /\ listing'[a].query \in Queries(Nat, Nat, SUBSET Accounts)
        /\ Matching(listing'[a].query) \in SUBSET active
        /\ \E s \in Rows(listing'[a].query, Matching(listing'[a].query)) :
             listing'[a].ids = PageOf(listing'[a].query, s)
        /\ ToSet(listing'[a].rows) = ToSet(listing'[a].ids)
    BY <1>8, <2>1
  <2>3. listing'[b].query \in Queries(Nat, Nat, SUBSET Accounts)
    BY <1>1 DEF ListType, Lists
  <2>4. /\ Matching(listing'[b].query) = Matching(listing'[a].query)
        /\ listing'[b].query.limit = listing'[a].query.limit
    BY <2>2, <2>3, Turning
  <2>5. Paginated(listing'[b].query)
    <3>1. Or(listing'[a].query.page, 0) \in Nat /\ Or(listing'[b].query.page, 0) \in Nat
      <4>1. listing'[a].query.page \in Optional(Nat) /\ listing'[b].query.page \in Optional(Nat)
        BY <2>2, <2>3 DEF Queries
      <4>2. \A f \in Optional(Nat) : Or(f, 0) \in Nat \cup Nat
        BY OrType
      <4> QED
        BY <4>1, <4>2
    <3>2. Or(listing'[b].query.page, 0) > Or(listing'[a].query.page, 0)
      BY DEF PageNumber
    <3>3. Or(listing'[b].query.page, 0) # 0
      BY <3>1, <3>2
    <3> QED
      BY <2>4, <3>3 DEF Paginated
  <2>6. /\ \E s \in Rows(listing'[b].query, Matching(listing'[b].query)) :
             listing'[b].ids = PageOf(listing'[b].query, s)
        /\ ToSet(listing'[b].rows) = ToSet(listing'[b].ids)
    BY <1>8, <2>1, <2>5
  <2>7. PICK s \in Rows(listing'[a].query, Matching(listing'[a].query)) :
          listing'[a].ids = PageOf(listing'[a].query, s)
    BY <2>2
  <2>8. PICK t \in Rows(listing'[b].query, Matching(listing'[a].query)) :
          listing'[b].ids = PageOf(listing'[b].query, t)
    BY <2>4, <2>6
  <2>9. Matching(listing'[a].query) \in SUBSET Accounts
    BY <2>2 DEF ListInv, ListType
  <2>10. Or(listing'[b].query.page, 0) > Or(listing'[a].query.page, 0)
    BY DEF PageNumber
  <2>11. ToSet(PageOf(listing'[b].query, t)) \cap ToSet(PageOf(listing'[a].query, s)) = {}
    BY <2>2, <2>3, <2>9, <2>10, Apart
  <2> QED
    BY <2>2, <2>6, <2>7, <2>8, <2>11
<1> QED
  BY <1>1, <1>3, <1>6, <1>7, <1>10, <1>11, ListOwn

\* Other requests change the accounts: the lists that go on began before.
LEMMA ListOutside ==
  ASSUME ListInv, AddAccount \/ SoftDelete, UNCHANGED at
  PROVE  ListInv'
<1>1. /\ ListType' /\ listing' = listing /\ at' = at
      /\ changes \in Nat /\ changes' = changes + 1 /\ active \subseteq active'
  BY AccountsChange DEF ListInv
<1>2. ASSUME NEW r \in Requests PROVE Gathered(r)' /\ Seen(r)' /\ PageFits(r)'
  <2>1. Gathered(r) /\ PageFits(r) /\ Listed(r)' = Listed(r)
    BY <1>1 DEF ListInv, Listed
  <2>2. listing[r].since \in Nat /\ listing[r].until \in Nat
    BY DEF ListInv, ListType, Lists
  <2>3. listing[r].since # changes' /\ listing[r].until <= changes'
    BY <1>1, <2>1, <2>2 DEF Gathered
  <2>4. Gathered(r)'
    BY <1>1, <2>1, <2>3 DEF Gathered
  <2>5. Seen(r)'
    BY <1>1, <2>3 DEF Seen
  <2>6. PageFits(r)'
    BY <1>1, <2>1 DEF PageFits, Steady, PageNumber, Pages
  <2> QED
    BY <2>4, <2>5, <2>6
<1>3. \A r, o \in Requests : PagesApart(r, o)'
  BY <1>1 DEF ListInv, PagesApart, Listed, Steady, PageNumber
<1> QED
  BY <1>1, <1>2, <1>3 DEF ListInv

-----------------------------------------------------------------------------
(* The files *)

\* Where a request may have stored a file.
Upon == {"put", "answered", "cut"}

\* An object was sent by a request that may have, and is what became of its file.
Came(o) == /\ o \in Objects /\ at[o.from] \in Upon
           /\ o.whole = Object(o.from, upload[o.from].file).whole

\* What an upload that waits, or that was answered well, has stored.
Sent(r) == LET f == upload[r].file IN
  /\ at[r] = "put" => f.header # "absent"
  /\ upload[r].done /\ Storable(f) => KeyOf(f) \in ObjectKeys /\ bucket[KeyOf(f)] # {}

FilesInv == /\ FilesOK
            /\ upload \in [Requests -> [file : Uploads(Stems), done : BOOLEAN]]
            /\ \A r \in Requests : Sent(r)
            /\ \A k \in ObjectKeys : \A o \in bucket[k] : Came(o)
            /\ \A r \in Requests : \A o \in fetched[r] : Came(o)

\* A file has a key unless its header is absent.
LEMMA Keyed ==
  ASSUME NEW f \in Uploads(Stems), f.header # "absent"
  PROVE  KeyOf(f) \in ObjectKeys
<1>1. NameOf(f) \in Stems /\ f.extension \in Extensions
  BY DEF Uploads, NameOf
<1> QED
  BY <1>1 DEF KeyOf, ObjectKeys

\* A binary file that is read as text has a type or a name that says so.
LEMMA Encoded ==
  ASSUME NEW r, NEW f \in Uploads(Stems), ~Object(r, f).whole
  PROVE  f.type = "text" \/ (f.type = "other" /\ ~Hinted(<<NameOf(f), f.extension>>))
<1>1. Encoding(KeyOf(f), f.type) # "binary" /\ f.type \in {"text", "binary", "other"}
  BY DEF Object, Uploads
<1>2. CASE f.type = "other"
  <2>1. ~Hinted(KeyOf(f))
    BY <1>1, <1>2 DEF Encoding
  <2>2. Ascii(NameOf(f)) \notin Hints /\ Ascii(f.extension) \notin Hints
    BY <2>1 DEF Hinted, KeyOf
  <2>3. NameOf(f) \notin Hints /\ f.extension \notin Hints
    BY <2>2, HintsAssumption
  <2> QED
    BY <1>2, <2>3 DEF Hinted
<1>3. CASE f.type = "binary"
  BY <1>1, <1>3 DEF Encoding
<1> QED
  BY <1>1, <1>2, <1>3

LEMMA WholeFiles == FilesInv => FilesComeBackWhole
<1> SUFFICES ASSUME FilesInv PROVE FilesComeBackWhole
  OBVIOUS
<1>1. \A r \in Requests : LET f == upload[r].file IN
        upload[r].done /\ Storable(f) => bucket[KeyOf(f)] # {}
  BY DEF FilesInv, Sent
<1>2. ASSUME NEW r \in Requests, NEW o \in fetched[r]
      PROVE  LET f == upload[o.from].file IN
               \/ o.whole
               \/ f.type = "text"
               \/ f.type = "other" /\ ~Hinted(<<NameOf(f), f.extension>>)
  <2> DEFINE f == upload[o.from].file
  <2>1. Came(o) /\ o.from \in Requests
    BY DEF FilesInv, Came, Objects
  <2>2. f \in Uploads(Stems)
    BY <2>1 DEF FilesInv
  <2>3. o.whole = Object(o.from, f).whole
    BY <2>1 DEF Came
  <2> HIDE DEF f
  <2>4. o.whole \/ f.type = "text" \/ (f.type = "other" /\ ~Hinted(<<NameOf(f), f.extension>>))
    BY <2>2, <2>3, Encoded
  <2> QED
    BY <2>4 DEF f
<1> QED
  BY <1>1, <1>2 DEF FilesComeBackWhole

LEMMA FilesFirst ==
  ASSUME Init
  PROVE  FilesInv
<1>1. /\ bucket = [k \in ObjectKeys |-> {}]
      /\ upload = [r \in Requests |-> [file |-> AnyUpload, done |-> FALSE]]
      /\ fetched = [r \in Requests |-> {}] /\ at = [r \in Requests |-> "idle"]
  BY DEF Init, FilesInit
<1>2. AnyUpload \in Uploads(Stems)
  <2>1. (CHOOSE s \in Stems : TRUE) \in Stems /\ (CHOOSE e \in Extensions : TRUE) \in Extensions
    BY NamesAssumption
  <2> QED
    BY <2>1 DEF AnyUpload, Uploads
<1>3. IsFiniteSet({}) /\ Cardinality({}) = 0
  BY FS_EmptySet
<1>4. \A k \in ObjectKeys : Cardinality(bucket[k]) <= 1
  BY <1>1, <1>3
<1>5. FilesOK
  BY <1>1, <1>4 DEF FilesOK
<1>6. upload \in [Requests -> [file : Uploads(Stems), done : BOOLEAN]]
  BY <1>1, <1>2
<1>7. \A r \in Requests : Sent(r)
  BY <1>1 DEF Sent
<1> QED
  BY <1>1, <1>5, <1>6, <1>7 DEF FilesInv

LEMMA FilesRest ==
  ASSUME FilesInv, UNCHANGED files,
         \A r \in Requests : (at'[r] = "put" => at[r] = "put") /\ (at[r] \in Upon => at'[r] \in Upon)
  PROVE  FilesInv'
<1>1. bucket' = bucket /\ upload' = upload /\ fetched' = fetched
  BY DEF files
<1>2. \A r \in Requests : Sent(r)'
  BY <1>1 DEF FilesInv, Sent
<1>3. \A o : Came(o) => Came(o)'
  BY <1>1 DEF Came, Objects
<1>4. FilesOK'
  BY <1>1 DEF FilesInv, FilesOK
<1> QED
  BY <1>1, <1>2, <1>3, <1>4 DEF FilesInv

\* A file arrives: nothing of its request is stored before.
LEMMA FilesUpload ==
  ASSUME FilesInv, Course, NEW r \in Requests, NEW f \in Uploads(Stems), at[r] = "disk", Upload(r, f)
  PROVE  FilesInv'
<1>1. /\ \A o \in Requests \ {r} : at'[o] = at[o]
      /\ at[r] \notin Upon
  BY DEF Upload, Await, Answer, Course, Upon
<1>2. CASE f.header = "absent"
  <2>1. UNCHANGED files /\ at'[r] = "answered"
    BY <1>2 DEF Upload, Answer, Course
  <2> QED
    BY <1>1, <2>1, FilesRest
<1>3. CASE f.header # "absent"
  <2>1. /\ upload' = [upload EXCEPT ![r] = [file |-> f, done |-> ~Storable(f)]]
        /\ bucket' = bucket /\ fetched' = fetched
    BY <1>3 DEF Upload, BeginUpload
  <2>2. [file |-> f, done |-> ~Storable(f)] \in [file : Uploads(Stems), done : BOOLEAN]
    BY DEF Storable
  <2>3. /\ upload' \in [Requests -> [file : Uploads(Stems), done : BOOLEAN]]
        /\ upload'[r].file = f /\ upload'[r].done = ~Storable(f)
        /\ \A o \in Requests \ {r} : upload'[o] = upload[o]
    BY <2>1, <2>2 DEF FilesInv
  <2>4. Sent(r)'
    BY <1>3, <2>3 DEF Sent
  <2>5. \A o \in Requests \ {r} : Sent(o)'
    BY <1>1, <2>1, <2>3 DEF FilesInv, Sent
  <2>6. \A o : Came(o) => Came(o)'
    <3> SUFFICES ASSUME NEW o, Came(o) PROVE Came(o)'
      OBVIOUS
    <3>1. o.from \in Requests \ {r} /\ at[o.from] \in Upon /\ o \in Objects
      BY <1>1 DEF Came, Objects
    <3>2. upload'[o.from] = upload[o.from] /\ at'[o.from] = at[o.from]
      BY <1>1, <2>3, <3>1
    <3> QED
      BY <3>1, <3>2 DEF Came, Objects
  <2>7. FilesOK'
    BY <2>1 DEF FilesInv, FilesOK
  <2> QED
    BY <2>1, <2>3, <2>4, <2>5, <2>6, <2>7 DEF FilesInv
<1> QED
  BY <1>2, <1>3

\* The object arrives in the bucket, answered or not, or it does not.
LEMMA FilesPut ==
  ASSUME FilesInv, Course, NEW r \in Requests, at[r] = "put", Put(r) \/ FailPut(r),
         \A o \in Requests \ {r} : at'[o] = at[o], at'[r] = "answered"
  PROVE  FilesInv'
<1> DEFINE f == upload[r].file
           k == KeyOf(f)
<1>1. f \in Uploads(Stems) /\ k \in ObjectKeys
  <2>1. f \in Uploads(Stems) /\ f.header # "absent"
    BY DEF FilesInv, Sent
  <2> QED
    BY <2>1, Keyed
<1>2. fetched' = fetched /\ (Stored(r) \/ (UNCHANGED files /\ ~Put(r)))
  BY DEF Put, FailPut, files
<1>3. CASE UNCHANGED files
  BY <1>3, FilesRest DEF Upon
<1>4. CASE Stored(r)
  <2>0. PICK x : x = Object(r, f)
    OBVIOUS
  <2>1. x \in Objects /\ x.from = r /\ x = Object(r, f)
    BY <2>0 DEF Object, Objects
  <2>2. bucket' = [bucket EXCEPT ![k] = {x}]
    BY <1>4, <2>0 DEF Stored
  <2>3. /\ upload' \in [Requests -> [file : Uploads(Stems), done : BOOLEAN]]
        /\ \A o \in Requests : upload'[o].file = upload[o].file
        /\ \A o \in Requests \ {r} : upload'[o] = upload[o]
    BY DEF FilesInv, Put, FailPut
  <2> HIDE DEF k
  <2>4. /\ bucket \in [ObjectKeys -> SUBSET Objects]
        /\ bucket' \in [ObjectKeys -> SUBSET Objects] /\ bucket'[k] = {x}
        /\ \A j \in ObjectKeys : j # k => bucket'[j] = bucket[j]
    BY <1>1, <2>1, <2>2 DEF FilesInv, FilesOK
  <2>5. FilesOK'
    <3>1. Cardinality({x}) = 1
      BY FS_Singleton
    <3>2. \A j \in ObjectKeys : bucket'[j] = {x} \/ bucket'[j] = bucket[j]
      BY <2>4
    <3>3. ASSUME NEW j \in ObjectKeys PROVE Cardinality(bucket'[j]) <= 1
      <4>1. CASE bucket'[j] = {x}
        BY <3>1, <4>1
      <4>2. CASE bucket'[j] = bucket[j]
        BY <4>2 DEF FilesInv, FilesOK
      <4> QED
        BY <3>2, <4>1, <4>2
    <3> QED
      BY <1>2, <2>4, <3>3 DEF FilesInv, FilesOK, Objects
  <2>6. ASSUME NEW o \in Requests PROVE Sent(o)'
    <3>1. at'[o] # "put" \/ at'[o] = at[o]
      OBVIOUS
    <3>2. CASE o = r
      <4>1. upload'[o].file = f /\ at'[o] = "answered" /\ bucket'[k] # {} /\ k = KeyOf(f)
        BY <2>3, <2>4, <3>2 DEF k
      <4> QED
        BY <1>1, <4>1 DEF Sent
    <3>3. CASE o # r
      <4>1. upload'[o] = upload[o] /\ at'[o] = at[o] /\ Sent(o)
        BY <2>3, <3>3 DEF FilesInv
      <4>2. \A j \in ObjectKeys : bucket[j] # {} => bucket'[j] # {}
        BY <2>4
      <4> QED
        BY <4>1, <4>2 DEF Sent
    <3> QED
      BY <3>2, <3>3
  <2>7. \A o : Came(o) => Came(o)'
    <3> SUFFICES ASSUME NEW o, Came(o) PROVE Came(o)'
      OBVIOUS
    <3>1. o \in Objects /\ o.from \in Requests /\ at'[o.from] \in Upon
      BY DEF Came, Objects, Upon
    <3> QED
      BY <2>3, <3>1 DEF Came, Objects
  <2>8. Came(x)'
    BY <2>1, <2>3 DEF Came, Objects, Upon
  <2>9. \A j \in ObjectKeys : \A o \in bucket'[j] : Came(o)'
    BY <2>4, <2>7, <2>8 DEF FilesInv
  <2>10. \A q \in Requests : \A o \in fetched'[q] : Came(o)'
    BY <1>2, <2>7 DEF FilesInv
  <2> QED
    BY <2>3, <2>5, <2>6, <2>9, <2>10 DEF FilesInv
<1> QED
  BY <1>2, <1>3, <1>4

\* What is in the bucket is downloaded as it is.
LEMMA FilesGet ==
  ASSUME FilesInv, NEW r \in Requests, NEW k \in ObjectKeys, Get(r, k),
         \A o \in Requests \ {r} : at'[o] = at[o], at'[r] = "answered"
  PROVE  FilesInv'
<1>1. bucket' = bucket /\ upload' = upload /\ fetched' = [fetched EXCEPT ![r] = bucket[k]]
  BY DEF Get
<1>2. FilesOK'
  BY <1>1 DEF FilesInv, FilesOK, Objects
<1>3. \A o \in Requests : Sent(o)'
  BY <1>1 DEF FilesInv, Sent
<1>4. \A o : Came(o) => Came(o)'
  BY <1>1 DEF Came, Objects, Upon
<1>5. \A q \in Requests : \A o \in fetched'[q] : Came(o)
  BY <1>1 DEF FilesInv, FilesOK
<1> QED
  BY <1>1, <1>2, <1>3, <1>4, <1>5 DEF FilesInv

-----------------------------------------------------------------------------
(* The names in the log *)

\* A request that has passed the guards, and with them entered its controller.
Entered(r) == at[r] # "idle" /\ answer[r] \notin {"manyRequests", "invalidToken"}

\* The logger of a controller names the last request that entered it.
LogInv ==
  /\ LoggingOK
  /\ \A r \in Requests : Entered(r) => stamp[ControllerOf(route[r])] >= r
  /\ \A c \in Controllers, r \in Requests :
       stamp[c] = r => Entered(r) /\ ControllerOf(route[r]) = c
  /\ \A l \in misnamed : /\ l[1] < l[2] /\ Entered(l[1]) /\ Entered(l[2])
                         /\ ControllerOf(route[l[1]]) = ControllerOf(route[l[2]])

LEMMA NamedLines == LogInv => LinesNameTheirRequest
BY DEF LogInv, LinesNameTheirRequest, Entered

\* The controller of every request is one.
LEMMA Controlled ==
  ASSUME Course, LogInv, NEW r \in Requests
  PROVE  /\ ControllerOf(route[r]) \in Controllers
         /\ stamp[ControllerOf(route[r])] \in Requests \cup {0}
         /\ \A q \in Requests : q \in Nat \ {0}
<1>1. route[r] \in Routes
  BY DEF Course
<1>2. ControllerOf(route[r]) \in Controllers
  BY <1>1, RequestsAssumption
<1> QED
  BY <1>2, RequestsAssumption DEF LogInv, LoggingOK

LEMMA LogFirst ==
  ASSUME Init
  PROVE  LogInv
<1>1. /\ stamp = [c \in Controllers |-> 0] /\ misnamed = {} /\ at = [r \in Requests |-> "idle"]
  BY DEF Init, LoggingInit
<1>2. \A r \in Requests : r # 0
  BY RequestsAssumption
<1> QED
  BY <1>1, <1>2 DEF LogInv, LoggingOK, Entered

\* Who is named stays named, where the requests that entered are as they were.
LEMMA LogRest ==
  ASSUME LogInv, UNCHANGED <<logging, route, answer>>,
         \A r \in Requests : at'[r] = "idle" <=> at[r] = "idle"
  PROVE  LogInv'
<1>1. stamp' = stamp /\ misnamed' = misnamed /\ route' = route
  BY DEF logging
<1>2. \A r \in Requests : Entered(r)' = Entered(r)
  BY DEF Entered
<1>3. LoggingOK /\ LoggingOK'
  BY <1>1 DEF LogInv, LoggingOK
<1>4. \A l \in misnamed : l[1] \in Requests /\ l[2] \in Requests
  BY <1>3 DEF LoggingOK
<1>5. \A c \in Controllers, r \in Requests :
        stamp'[c] = r => Entered(r)' /\ ControllerOf(route'[r]) = c
  BY <1>1, <1>2 DEF LogInv
<1>6. \A r \in Requests : Entered(r)' => stamp'[ControllerOf(route'[r])] >= r
  BY <1>1, <1>2 DEF LogInv
<1>7. \A l \in misnamed' : /\ l[1] < l[2] /\ Entered(l[1])' /\ Entered(l[2])'
                           /\ ControllerOf(route'[l[1]]) = ControllerOf(route'[l[2]])
  BY <1>1, <1>2, <1>4 DEF LogInv
<1> QED
  BY <1>3, <1>5, <1>6, <1>7 DEF LogInv

\* Where a request that arrives lands.
LEMMA Landing ==
  ASSUME Course, NEW r \in Requests, NEW h \in Routes, Turned(r) \/ Admitted(r, h)
  PROVE  /\ at'[r] # "idle" /\ \A o \in Requests \ {r} : at'[o] = at[o] /\ answer'[o] = answer[o]
         /\ Admitted(r, h) /\ at[r] = "idle" => answer'[r] \notin {"manyRequests", "invalidToken"}
         /\ Turned(r) => answer'[r] \in {"manyRequests", "invalidToken"}
<1>1. \A what : Await(r, what) =>
        /\ at'[r] = what /\ answer'[r] = answer[r]
        /\ \A o \in Requests \ {r} : at'[o] = at[o] /\ answer'[o] = answer[o]
  BY DEF Await, Course
<1>2. \A status : Answer(r, status) =>
        /\ at'[r] = "answered" /\ answer'[r] = status
        /\ \A o \in Requests \ {r} : at'[o] = at[o] /\ answer'[o] = answer[o]
  BY DEF Answer, Course
<1>3. ASSUME Admitted(r, h)
      PROVE  \/ \E what \in Waiting \cup {"hung"} : Await(r, what)
             \/ \E status \in {"internal", "contract", "ok"} : Answer(r, status)
  BY <1>3 DEF Admitted, Refuse, List, Profile, Download, Ask, Waiting
<1>4. at[r] = "idle" => answer[r] = "none"
  BY DEF Course, InCourse
<1>5. ASSUME Admitted(r, h)
      PROVE  /\ at'[r] # "idle" /\ \A o \in Requests \ {r} : at'[o] = at[o] /\ answer'[o] = answer[o]
             /\ at[r] = "idle" => answer'[r] \notin {"manyRequests", "invalidToken"}
  <2>1. CASE \E what \in Waiting \cup {"hung"} : Await(r, what)
    BY <1>1, <1>4, <2>1 DEF Waiting
  <2>2. CASE \E status \in {"internal", "contract", "ok"} : Answer(r, status)
    BY <1>2, <2>2
  <2> QED
    BY <1>3, <1>5, <2>1, <2>2
<1>6. ASSUME Turned(r)
      PROVE  /\ at'[r] # "idle" /\ \A o \in Requests \ {r} : at'[o] = at[o] /\ answer'[o] = answer[o]
             /\ answer'[r] \in {"manyRequests", "invalidToken"}
  BY <1>2, <1>6 DEF Turned, Refuse
<1> QED
  BY <1>5, <1>6

LEMMA LogArrive ==
  ASSUME LogInv, Course, NEW r \in Requests, Arrive(r)
  PROVE  LogInv'
<1>1. at[r] = "idle"
  BY Arrival DEF Course
<1>2. PICK h \in Routes : /\ route' = [route EXCEPT ![r] = h]
                          /\ (Turned(r) /\ UNCHANGED logging) \/ (Enter(r, ControllerOf(h)) /\ Admitted(r, h))
  BY Arrival DEF Course, Turned
<1> DEFINE c == ControllerOf(h)
<1>3. /\ route'[r] = h /\ \A o \in Requests \ {r} : route'[o] = route[o]
      /\ c \in Controllers /\ ~Entered(r) /\ LoggingOK
  BY <1>1, <1>2, RequestsAssumption DEF Course, Entered, LogInv
<1> HIDE DEF c
<1>4. /\ \A o \in Requests \ {r} : Entered(o)' = Entered(o)
      /\ Turned(r) => ~Entered(r)'
      /\ Admitted(r, h) => Entered(r)'
  BY <1>1, <1>2, Landing DEF Entered
<1>5. \A l \in misnamed : l[1] \in Requests \ {r} /\ l[2] \in Requests \ {r}
  BY <1>3 DEF LoggingOK, LogInv
<1>6. \A d \in Controllers : stamp[d] # r
  BY <1>3 DEF LogInv
<1>7. ASSUME UNCHANGED misnamed
      PROVE  \A l \in misnamed' : /\ l[1] < l[2] /\ Entered(l[1])' /\ Entered(l[2])'
                                  /\ ControllerOf(route'[l[1]]) = ControllerOf(route'[l[2]])
  BY <1>3, <1>4, <1>5, <1>7 DEF LogInv
<1>8. CASE Turned(r) /\ UNCHANGED logging
  <2>1. stamp' = stamp /\ misnamed' = misnamed
    BY <1>8 DEF logging
  <2>2. \A o \in Requests : Entered(o)' => stamp'[ControllerOf(route'[o])] >= o
    BY <1>3, <1>4, <1>8, <2>1 DEF LogInv
  <2>4. \A d \in Controllers, q \in Requests :
          stamp'[d] = q => Entered(q)' /\ ControllerOf(route'[q]) = d
    BY <1>3, <1>4, <1>6, <2>1 DEF LogInv
  <2>5. LoggingOK'
    BY <1>3, <2>1 DEF LoggingOK
  <2> QED
    BY <1>7, <2>1, <2>2, <2>4, <2>5 DEF LogInv
<1>9. CASE Enter(r, c) /\ Admitted(r, h)
  <2>1. /\ misnamed' = misnamed /\ stamp' \in [Controllers -> Requests \cup {0}]
        /\ stamp'[c] = r /\ \A d \in Controllers : d # c => stamp'[d] = stamp[d]
    BY <1>3, <1>9 DEF Enter, Stamped, LoggingOK
  <2>2. ASSUME NEW o \in Requests, Entered(o)' PROVE stamp'[ControllerOf(route'[o])] >= o
    <3>1. o \in Nat /\ r \in Nat
      BY RequestsAssumption
    <3>2. CASE o = r
      BY <1>3, <2>1, <3>1, <3>2 DEF c
    <3>3. CASE o # r
      <4>1. Entered(o) /\ route'[o] = route[o]
        BY <1>3, <1>4, <2>2, <3>3
      <4>2. ~(r < o)
        BY <1>1, <4>1 DEF Entered, Course, InCourse
      <4>3. ControllerOf(route[o]) \in Controllers /\ stamp[ControllerOf(route[o])] >= o
        BY <4>1, Controlled DEF LogInv
      <4> QED
        BY <2>1, <3>1, <4>1, <4>2, <4>3
    <3> QED
      BY <3>2, <3>3
  <2>3. ASSUME NEW d \in Controllers, NEW q \in Requests, stamp'[d] = q
        PROVE  Entered(q)' /\ ControllerOf(route'[q]) = d
    <3>1. CASE d = c
      <4>1. q = r /\ Entered(r)' /\ ControllerOf(route'[r]) = c
        BY <1>3, <1>4, <1>9, <2>1, <2>3, <3>1 DEF c
      <4> QED
        BY <3>1, <4>1
    <3>2. CASE d # c
      <4>1. stamp[d] = q /\ q # r
        BY <1>6, <2>1, <2>3, <3>2
      <4>2. Entered(q) /\ ControllerOf(route[q]) = d
        BY <4>1 DEF LogInv
      <4> QED
        BY <1>3, <1>4, <4>1, <4>2
    <3> QED
      BY <3>1, <3>2
  <2>4. LoggingOK'
    BY <1>3, <2>1 DEF LoggingOK
  <2> QED
    BY <1>7, <2>1, <2>2, <2>3, <2>4 DEF LogInv
<1> QED
  BY <1>2, <1>8, <1>9 DEF c

\* What an upload sends is one.
LEMMA Chosen ==
  ASSUME mix \in DOMAIN Mixes, NEW i \in Mixes[mix].inputs["upload"], NEW f \in i.data
  PROVE  f \in Uploads(Stems)
<1>1. "upload" \in Routes /\ DataOf("upload") = Uploads(Stems)
  BY DEF Routes, DataOf, ProfileRoutes
<1>2. Mixes[mix].inputs["upload"] \subseteq Inputs(Bodies[Depth], Uploads(Stems))
  BY <1>1, MixesAssumption
<1>3. i \in Inputs(Bodies[Depth], Uploads(Stems))
  BY <1>2
<1>4. i.data \in Optional(Uploads(Stems))
  BY <1>3, InputData
<1> QED
  BY <1>4 DEF Optional

\* Where a request that serves goes.
LEMMA Serving ==
  ASSUME Course, ProfilesInv, NEW r \in Requests, Serves(r)
  PROVE  /\ at[r] \in Waiting /\ at'[r] # "idle" /\ UNCHANGED route
         /\ answer[r] = "none" /\ answer'[r] \notin {"manyRequests", "invalidToken"}
         /\ \A o \in Requests \ {r} : at'[o] = at[o] /\ answer'[o] = answer[o]
<1>1. \A what : Await(r, what) =>
        /\ at'[r] = what /\ answer'[r] = answer[r]
        /\ \A o \in Requests \ {r} : at'[o] = at[o] /\ answer'[o] = answer[o]
  BY DEF Await, Course
<1>2. \A status : Answer(r, status) =>
        /\ at'[r] = "answered" /\ answer'[r] = status
        /\ \A o \in Requests \ {r} : at'[o] = at[o] /\ answer'[o] = answer[o]
  BY DEF Answer, Course
<1>3. at[r] \in Waiting /\ UNCHANGED route
  BY DEF Serves, Ids, RowsOf, Count, Account, OnDisk, Saved, Read, Registered, Cached, Documents, Fail,
         Waiting, rest
<1>4. answer[r] = "none"
  <2>1. at[r] # "answered"
    BY <1>3 DEF Waiting
  <2> QED
    BY <2>1 DEF Course, InCourse
<1>5. \/ \E what \in {"rows", "count", "account", "put", "documents", "hung"} : Await(r, what)
      \/ \E status \in Ends \cup {"contract"} : Answer(r, status)
  BY DEF Serves, Ids, RowsOf, Count, Account, OnDisk, Saved, Read, Registered, Cached, Documents, Fail,
         Refuse, Upload, Ends, Done
<1>6. "manyRequests" \notin Ends /\ "invalidToken" \notin Ends
  BY DEF Ends, Done
<1>7. CASE \E what \in {"rows", "count", "account", "put", "documents", "hung"} : Await(r, what)
  BY <1>1, <1>3, <1>4, <1>7
<1>8. CASE \E status \in Ends \cup {"contract"} : Answer(r, status)
  BY <1>2, <1>3, <1>4, <1>6, <1>8
<1> QED
  BY <1>5, <1>7, <1>8

\* The line of an answer names its request, or a later one of its controller.
LEMMA LogServe ==
  ASSUME LogInv, Course, ProfilesInv, NEW r \in Requests, Serves(r),
         Log(r)
  PROVE  LogInv'
<1> DEFINE c == ControllerOf(route[r])
<1>1. /\ at[r] \in Waiting /\ at'[r] # "idle" /\ route' = route
      /\ answer[r] = "none" /\ answer'[r] \notin {"manyRequests", "invalidToken"}
      /\ \A o \in Requests \ {r} : at'[o] = at[o] /\ answer'[o] = answer[o]
  BY Serving
<1>2. Entered(r)
  BY <1>1 DEF Entered, Waiting
<1>3. \A o \in Requests : Entered(o)' = Entered(o)
  BY <1>1, <1>2 DEF Entered
<1>4. /\ c \in Controllers /\ stamp[c] \in Requests \cup {0} /\ stamp[c] >= r
      /\ \A q \in Requests : q \in Nat \ {0}
  BY <1>2, Controlled DEF LogInv
<1>5. stamp[c] \in Requests /\ r \in Nat /\ stamp[c] \in Nat
  BY <1>4
<1> HIDE DEF c
<1>6. PICK q \in Requests : q = stamp[c]
  BY <1>5
<1>7. q >= r /\ q \in Nat /\ Entered(q) /\ ControllerOf(route[q]) = c
  BY <1>4, <1>5, <1>6 DEF LogInv
<1>8. stamp' = stamp /\ (misnamed' = misnamed \/ misnamed' = misnamed \cup ({<<r, q>>} \ {<<r, r>>}))
  BY <1>6 DEF Log, Leave, Named, logging, c
<1>9. \A l \in misnamed' : l \in misnamed \/ (l = <<r, q>> /\ q # r)
  BY <1>8
<1>10. LoggingOK /\ LoggingOK'
  BY <1>8 DEF LogInv, LoggingOK
<1>11. \A l \in misnamed : l[1] \in Requests /\ l[2] \in Requests
  BY <1>10 DEF LoggingOK
<1>12. ASSUME NEW l \in misnamed'
       PROVE  /\ l[1] < l[2] /\ Entered(l[1])' /\ Entered(l[2])'
              /\ ControllerOf(route'[l[1]]) = ControllerOf(route'[l[2]])
  <2>1. CASE l \in misnamed
    BY <1>1, <1>3, <1>11, <2>1 DEF LogInv
  <2>2. CASE l = <<r, q>> /\ q # r
    <3>1. l[1] = r /\ l[2] = q /\ r < q
      BY <1>5, <1>7, <2>2
    <3>2. Entered(r)' /\ Entered(q)'
      BY <1>2, <1>3, <1>7
    <3> QED
      BY <1>1, <1>7, <3>1, <3>2 DEF c
  <2> QED
    BY <1>9, <2>1, <2>2
<1>13. \A o \in Requests : Entered(o)' => stamp'[ControllerOf(route'[o])] >= o
  BY <1>1, <1>3, <1>8 DEF LogInv
<1>14. \A d \in Controllers, o \in Requests : stamp'[d] = o => Entered(o)' /\ ControllerOf(route'[o]) = d
  BY <1>1, <1>3, <1>8 DEF LogInv
<1> QED
  BY <1>10, <1>12, <1>13, <1>14 DEF LogInv

-----------------------------------------------------------------------------
(* The masking of the log *)

\* A set that holds 0, and with a number the next one, holds them all.
LEMMA Climb ==
  ASSUME NEW T, 0 \in T, \A n \in Nat : n \in T => n + 1 \in T
  PROVE  Nat \subseteq T
<1> SUFFICES ASSUME Nat \ T # {} PROVE FALSE
  OBVIOUS
<1> DEFINE R == OpToRel(<, Nat)
<1>1. IsWellFoundedOn(R, Nat)
  BY NatLessThanWellFounded
<1>2. PICK x \in Nat \ T : \A y \in Nat \ T : ~ (<<y, x>> \in R)
  <2> HIDE DEF R
  <2> QED
    BY <1>1, WFMin
<1>3. x # 0 /\ x - 1 \in Nat /\ x - 1 + 1 = x
  OBVIOUS
<1>4. x - 1 \in T
  <2>1. <<x - 1, x>> \in R
    BY <1>3 DEF OpToRel
  <2> QED
    BY <2>1, <1>2, <1>3
<1> QED
  BY <1>3, <1>4, <1>2

\* BoundedSeq is the sequences up to a length.
LEMMA Sized ==
  ASSUME NEW S, NEW s
  PROVE  s \in BoundedSeq(S, Width) <=> s \in Seq(S) /\ Len(s) <= Width
<1>1. ASSUME s \in BoundedSeq(S, Width) PROVE s \in Seq(S) /\ Len(s) <= Width
  <2>1. PICK m \in 0 .. Width : s \in [1 .. m -> S]
    BY <1>1 DEF BoundedSeq, SeqOf
  <2>2. s \in Seq(S) /\ DOMAIN s = 1 .. m /\ DOMAIN s = 1 .. Len(s) /\ Len(s) \in Nat
    BY <2>1, BodiesAssumption
  <2> QED
    BY <2>1, <2>2, BodiesAssumption
<1>2. ASSUME s \in Seq(S), Len(s) <= Width PROVE s \in BoundedSeq(S, Width)
  <2>1. Len(s) \in Nat /\ s \in [1 .. Len(s) -> S]
    BY <1>2, LenProperties
  <2> QED
    BY <1>2, <2>1, BodiesAssumption DEF BoundedSeq, SeqOf
<1> QED
  BY <1>1, <1>2

\* A fold whose answer replaces the one before answers what the last element answers.
LEMMA LastFold ==
  ASSUME NEW g, NEW S, NEW s \in BoundedSeq(S, Width)
  PROVE FoldLeft(LAMBDA found, b : g[b], FALSE, s) = IF s = <<>> THEN FALSE ELSE g[Last(s)]
<1> DEFINE F(it, ss) == IF ss = {} THEN FALSE ELSE LET x == Max(ss) IN g[s[x]]
           D == DOMAIN s
           h == [ss \in SUBSET D |-> IF ss = {} THEN FALSE ELSE LET x == Max(ss) IN g[s[x]]]
           it == CHOOSE it : it = [ss \in SUBSET D |-> IF ss = {} THEN FALSE ELSE LET x == Max(ss) IN g[s[x]]]
<1>1. FoldLeft(LAMBDA found, b : g[b], FALSE, s) = it[D]
  BY DEF FoldLeft, MapThenFoldSet
<1>2. \E e : e = [ss \in SUBSET D |-> IF ss = {} THEN FALSE ELSE LET x == Max(ss) IN g[s[x]]]
  OBVIOUS
<1>3. it = [ss \in SUBSET D |-> IF ss = {} THEN FALSE ELSE LET x == Max(ss) IN g[s[x]]]
  <2> HIDE DEF D
  <2> QED
    BY <1>2, Zenon
<1>4. s \in Seq(S) /\ D = 1 .. Len(s) /\ Len(s) \in Nat
  BY Sized
<1>5. it[D] = IF D = {} THEN FALSE ELSE g[s[Max(D)]]
  <2>1. D \in SUBSET D OBVIOUS
  <2> HIDE DEF D, it
  <2> QED
    BY <1>3, <2>1
<1>6. D = {} <=> s = <<>>
  <2>1. s = <<>> <=> Len(s) = 0
    BY <1>4, EmptySeq
  <2>2. Len(s) = 0 => 1 .. Len(s) = {}
    OBVIOUS
  <2>3. Len(s) # 0 => 1 \in 1 .. Len(s)
    BY <1>4
  <2>4. D = {} <=> Len(s) = 0
    <3> HIDE DEF D
    <3> QED
      BY <1>4, <2>2, <2>3
  <2> QED
    BY <2>1, <2>4
<1>7. ASSUME s # <<>> PROVE Max(D) = Len(s)
  <2>1. Len(s) \in D /\ \A y \in D : y <= Len(s)
    BY <1>4, <1>6, <1>7
  <2>2. \A m \in D : (\A y \in D : m >= y) => m = Len(s)
    BY <1>4, <2>1
  <2> HIDE DEF D
  <2> QED
    BY <2>1, <2>2, <1>4 DEF Max
<1> HIDE DEF D, it
<1> QED
  BY <1>1, <1>5, <1>6, <1>7 DEF Last

\* The objects over those of S, and those of n levels by a table of the lower ones.
Around(S) == [secret : BOOLEAN, below : BoundedSeq(S, Width)]
Storey(g, n) == IF n = 0 THEN {} ELSE Around(g[n - 1])

\* There is a table that defines each level by the one below.
LEMMA BodiesExist == Bodies = [n \in Nat |-> Storey(Bodies, n)]
<1> DEFINE T == {n \in Nat : \E g : /\ DOMAIN g = 0 .. n
                                    /\ \A i \in 0 .. n : g[i] = Storey(g, i)}
           U == {n \in Nat : \A g, h : /\ \A i \in 0 .. n : g[i] = Storey(g, i)
                                       /\ \A i \in 0 .. n : h[i] = Storey(h, i)
                                       => g[n] = h[n]}
<1>1. Nat \subseteq T
  <2>1. 0 \in T
    <3> DEFINE g == [i \in 0 .. 0 |-> {}]
    <3>1. DOMAIN g = 0 .. 0 /\ \A i \in 0 .. 0 : g[i] = Storey(g, i)
      BY DEF Storey
    <3> QED
      BY <3>1
  <2>2. ASSUME NEW n \in Nat, n \in T PROVE n + 1 \in T
    <3>1. PICK g : DOMAIN g = 0 .. n /\ \A i \in 0 .. n : g[i] = Storey(g, i)
      BY <2>2
    <3> DEFINE h == [i \in 0 .. n + 1 |-> IF i = n + 1 THEN Storey(g, n + 1) ELSE g[i]]
    <3>2. DOMAIN h = 0 .. n + 1 OBVIOUS
    <3>3. ASSUME NEW i \in 0 .. n + 1 PROVE h[i] = Storey(h, i)
      <4>1. i # 0 => i - 1 \in 0 .. n /\ i - 1 \in 0 .. n + 1 /\ i - 1 # n + 1
        OBVIOUS
      <4>2. i # 0 => h[i - 1] = g[i - 1]
        BY <4>1
      <4>3. Storey(h, i) = Storey(g, i)
        BY <4>2 DEF Storey
      <4>4. i # n + 1 => i \in 0 .. n
        OBVIOUS
      <4> QED
        BY <4>3, <4>4, <3>1
    <3> HIDE DEF h
    <3> QED
      BY <3>2, <3>3
  <2> HIDE DEF T
  <2> QED
    BY <2>1, <2>2, Climb
<1>2. Nat \subseteq U
  <2>1. 0 \in U
    <3>1. 0 \in 0 .. 0 /\ \A g : Storey(g, 0) = {}
      BY DEF Storey
    <3> QED
      BY <3>1
  <2>2. ASSUME NEW n \in Nat, n \in U PROVE n + 1 \in U
    <3> SUFFICES ASSUME NEW g, NEW h, \A i \in 0 .. n + 1 : g[i] = Storey(g, i),
                        \A i \in 0 .. n + 1 : h[i] = Storey(h, i)
                 PROVE  g[n + 1] = h[n + 1]
      OBVIOUS
    <3>1. \A i \in 0 .. n : i \in 0 .. n + 1
      OBVIOUS
    <3>2. g[n] = h[n]
      BY <2>2, <3>1
    <3>3. n + 1 \in 0 .. n + 1 /\ n + 1 - 1 = n
      OBVIOUS
    <3>4. Storey(g, n + 1) = Storey(h, n + 1)
      BY <3>2, <3>3 DEF Storey
    <3>5. g[n + 1] = Storey(g, n + 1) /\ h[n + 1] = Storey(h, n + 1)
      BY <3>3
    <3> QED
      BY <3>4, <3>5
  <2> HIDE DEF U
  <2> QED
    BY <2>1, <2>2, Climb
<1> DEFINE s[n \in Nat] == CHOOSE g : DOMAIN g = 0 .. n /\ \A i \in 0 .. n : g[i] = Storey(g, i)
           b == [n \in Nat |-> s[n][n]]
<1>3. ASSUME NEW n \in Nat PROVE \A i \in 0 .. n : s[n][i] = Storey(s[n], i)
  <2>1. \E g : DOMAIN g = 0 .. n /\ \A i \in 0 .. n : g[i] = Storey(g, i)
    BY <1>1
  <2> QED
    BY <2>1
<1> HIDE DEF s
<1>4. ASSUME NEW n \in Nat PROVE b[n] = Storey(b, n)
  <2>1. CASE n = 0
    <3>1. n \in 0 .. n OBVIOUS
    <3>2. s[n][n] = Storey(s[n], n)
      BY <3>1, <1>3
    <3> QED
      BY <2>1, <3>2 DEF Storey
  <2>2. CASE n # 0
    <3>1. n - 1 \in Nat /\ n - 1 \in U /\ \A i \in 0 .. n - 1 : i \in 0 .. n
      BY <2>2, <1>2
    <3>2. s[n][n - 1] = s[n - 1][n - 1]
      BY <3>1, <1>3
    <3>3. s[n][n] = Storey(s[n], n)
      BY <1>3
    <3> QED
      BY <3>1, <3>2, <3>3 DEF Storey
  <2> QED
    BY <2>1, <2>2
<1>5. b = [n \in Nat |-> Storey(b, n)]
  <2>1. b = [n \in Nat |-> b[n]] OBVIOUS
  <2> HIDE DEF b
  <2> QED
    BY <2>1, <1>4
<1>6. \E g : g = [n \in Nat |-> IF n = 0 THEN {} ELSE [secret : BOOLEAN, below : BoundedSeq(g[n - 1], Width)]]
  <2> HIDE DEF b
  <2> QED
    BY <1>5 DEF Storey, Around
<1>7. Bodies = [n \in Nat |-> IF n = 0 THEN {} ELSE [secret : BOOLEAN, below : BoundedSeq(Bodies[n - 1], Width)]]
  BY <1>6, Zenon DEF Bodies
<1> QED
  BY <1>7 DEF Storey, Around

\* Bodies, level by level.
LEMMA BodiesBy ==
  ASSUME NEW n \in Nat
  PROVE  Bodies[0] = {} /\ Bodies[n + 1] = Around(Bodies[n])
<1>1. Bodies[0] = Storey(Bodies, 0) /\ Bodies[n + 1] = Storey(Bodies, n + 1)
  <2>1. \A m \in Nat : Bodies[m] = Storey(Bodies, m)
    BY BodiesExist
  <2> QED
    BY <2>1
<1>2. n + 1 # 0 /\ n + 1 - 1 = n
  OBVIOUS
<1> QED
  BY <1>1, <1>2 DEF Storey

\* An object of n levels is one of n + 1.
LEMMA Grown ==
  ASSUME NEW n \in Nat
  PROVE  Bodies[n] \subseteq Bodies[n + 1]
<1> DEFINE T == {m \in Nat : Bodies[m] \subseteq Bodies[m + 1]}
<1>1. 0 \in T
  BY BodiesBy
<1>2. ASSUME NEW m \in Nat, m \in T PROVE m + 1 \in T
  <2>1. \A s : s \in BoundedSeq(Bodies[m], Width) => s \in BoundedSeq(Bodies[m + 1], Width)
    <3>1. ASSUME NEW s, s \in Seq(Bodies[m]) PROVE s \in Seq(Bodies[m + 1])
      BY <1>2, <3>1
    <3> QED
      BY <3>1, Sized
  <2>2. Around(Bodies[m]) \subseteq Around(Bodies[m + 1])
    BY <2>1 DEF Around
  <2>3. Bodies[m + 1] = Around(Bodies[m]) /\ Bodies[m + 1 + 1] = Around(Bodies[m + 1])
    BY BodiesBy, m + 1 \in Nat
  <2> QED
    BY <2>2, <2>3
<1> HIDE DEF T
<1>3. Nat \subseteq T
  BY <1>1, <1>2, Climb
<1> QED
  BY <1>3 DEF T

\* An object of some levels is one of more.
LEMMA Nested ==
  ASSUME NEW n \in Nat, NEW m \in Nat, m <= n
  PROVE  Bodies[m] \subseteq Bodies[n]
<1> DEFINE T == {k \in Nat : m <= k => Bodies[m] \subseteq Bodies[k]}
<1>1. 0 \in T
  OBVIOUS
<1>2. ASSUME NEW k \in Nat, k \in T PROVE k + 1 \in T
  <2>1. CASE m <= k
    BY <1>2, <2>1, Grown
  <2>2. CASE ~ (m <= k)
    <3>1. m <= k + 1 => m = k + 1
      BY <2>2
    <3> QED
      BY <3>1
  <2> QED
    BY <2>1, <2>2
<1> HIDE DEF T
<1>3. n \in T
  BY <1>1, <1>2, Climb
<1> QED
  BY <1>3 DEF T

\* What an object is made of.
LEMMA Parted ==
  ASSUME NEW n \in Nat, NEW o \in Bodies[n]
  PROVE  /\ n # 0
         /\ o.secret \in BOOLEAN
         /\ o.below \in Seq(Bodies[n - 1]) /\ Len(o.below) <= Width
         /\ o = [secret |-> o.secret, below |-> o.below]
         /\ DOMAIN o.below = 1 .. Len(o.below)
         /\ \A i \in DOMAIN o.below : o.below[i] \in Bodies[n - 1] /\ o.below[i] \in Bodies[n]
         /\ o.below # <<>> => Len(o.below) \in DOMAIN o.below /\ Last(o.below) \in Bodies[n - 1]
<1>1. n # 0
  BY BodiesBy
<1>2. n - 1 \in Nat /\ n - 1 + 1 = n
  BY <1>1
<1>3. o \in Around(Bodies[n - 1]) /\ Bodies[n - 1] \subseteq Bodies[n]
  <2>1. Bodies[n - 1 + 1] = Around(Bodies[n - 1])
    BY <1>2, BodiesBy
  <2>2. Bodies[n - 1] \subseteq Bodies[n - 1 + 1]
    BY <1>2, Grown
  <2> QED
    BY <1>2, <2>1, <2>2
<1>4. o.below \in Seq(Bodies[n - 1]) /\ Len(o.below) <= Width
  BY <1>3, Sized DEF Around
<1>5. DOMAIN o.below = 1 .. Len(o.below) /\ \A i \in DOMAIN o.below : o.below[i] \in Bodies[n - 1]
  BY <1>4
<1>6. o.below # <<>> => Len(o.below) \in Nat /\ Len(o.below) # 0
  BY <1>4, EmptySeq
<1>7. o.below # <<>> => Len(o.below) \in DOMAIN o.below
  BY <1>5, <1>6
<1> QED
  BY <1>1, <1>3, <1>4, <1>5, <1>7 DEF Last, Around

\* What is below an object has a level less.
LEMMA OneDown ==
  ASSUME NEW m \in Nat, NEW o \in Bodies[m + 1]
  PROVE  \A i \in DOMAIN o.below : o.below[i] \in Bodies[m]
<1>1. m + 1 \in Nat /\ m + 1 - 1 = m
  OBVIOUS
<1>2. \A n \in Nat : n = m + 1 => \A i \in DOMAIN o.below : o.below[i] \in Bodies[n - 1]
  BY Parted
<1> QED
  BY <1>1, <1>2

\* The sequences that may be below an object, and what g says of the objects below o.
Few(V) == {t \in Seq(V) : Len(t) <= Width}

Results(g, o) == [i \in DOMAIN o.below |-> g[o.below[i]]]

\* What g says of the objects below e, in their order.
LEMMA ResultsType ==
  ASSUME NEW n \in Nat, NEW e \in Bodies[n], NEW g, NEW V,
         \A i \in DOMAIN e.below : g[e.below[i]] \in V
  PROVE  /\ Results(g, e) \in Few(V) /\ Len(Results(g, e)) = Len(e.below)
         /\ Results(g, e) = <<>> <=> e.below = <<>>
         /\ e.below # <<>> => Results(g, e)[Len(Results(g, e))] = g[Last(e.below)]
         /\ \A i \in DOMAIN e.below : Results(g, e)[i] = g[e.below[i]]
<1>1. /\ e.below \in Seq(Bodies[n - 1]) /\ Len(e.below) <= Width
      /\ DOMAIN e.below = 1 .. Len(e.below)
      /\ e.below # <<>> => Len(e.below) \in DOMAIN e.below
  BY Parted
<1>2. Len(e.below) \in Nat
  BY <1>1
<1>3. Results(g, e) \in [1 .. Len(e.below) -> V]
  BY <1>1 DEF Results
<1>4. Results(g, e) \in Seq(V) /\ Len(Results(g, e)) = Len(e.below)
  BY <1>2, <1>3
<1>5. Results(g, e) = <<>> <=> e.below = <<>>
  <2>1. Results(g, e) = <<>> <=> Len(Results(g, e)) = 0
    BY <1>4, EmptySeq
  <2>2. e.below = <<>> <=> Len(e.below) = 0
    BY <1>1, EmptySeq
  <2> QED
    BY <2>1, <2>2, <1>4
<1>6. \A i \in DOMAIN e.below : Results(g, e)[i] = g[e.below[i]]
  BY DEF Results
<1> QED
  BY <1>1, <1>4, <1>5, <1>6 DEF Few, Last

\* A rule R that takes an object and the results below it defines a function of objects.
LEMMA Recursion ==
  ASSUME NEW V, NEW R, \A o \in Bodies[Depth], t \in Few(V) : R[<<o, t>>] \in V
  PROVE  \E g \in [Bodies[Depth] -> V] : \A o \in Bodies[Depth] : g[o] = R[<<o, Results(g, o)>>]
<1> DEFINE Step(g, o) == R[<<o, Results(g, o)>>]
           T == {m \in Nat : m <= Depth => \E g \in [Bodies[m] -> V] : \A o \in Bodies[m] : g[o] = Step(g, o)}
<1>1. 0 \in T
  <2> DEFINE h == [o \in Bodies[0] |-> CHOOSE v \in V : TRUE]
  <2>1. h \in [Bodies[0] -> V] /\ \A o \in Bodies[0] : h[o] = Step(h, o)
    BY BodiesBy
  <2> QED
    BY <2>1
<1>2. ASSUME NEW m \in Nat, m \in T PROVE m + 1 \in T
  <2> SUFFICES ASSUME m + 1 <= Depth
               PROVE  \E g \in [Bodies[m + 1] -> V] : \A o \in Bodies[m + 1] : g[o] = Step(g, o)
    OBVIOUS
  <2>1. PICK g \in [Bodies[m] -> V] : \A o \in Bodies[m] : g[o] = Step(g, o)
    BY <1>2, BodiesAssumption
  <2> DEFINE h == [o \in Bodies[m + 1] |-> Step(g, o)]
  <2>2. \A o \in Bodies[m] : h[o] = g[o]
    <3> HIDE DEF Step
    <3> QED
      BY <2>1, Grown
  <2>3. ASSUME NEW o \in Bodies[m + 1] PROVE h[o] = Step(h, o) /\ h[o] \in V
    <3>1. \A i \in DOMAIN o.below : o.below[i] \in Bodies[m]
      BY OneDown
    <3>2. \A i \in DOMAIN o.below : h[o.below[i]] = g[o.below[i]]
      <4> HIDE DEF h
      <4> QED
        BY <2>2, <3>1
    <3>3. Step(h, o) = Step(g, o)
      <4> HIDE DEF h
      <4> QED
        BY <3>2 DEF Results
    <3>4. h[o] = Step(g, o)
      <4> HIDE DEF Step
      <4> QED
        OBVIOUS
    <3>5. \A i \in DOMAIN o.below : g[o.below[i]] \in V
      BY <3>1
    <3>6. Results(g, o) \in Few(V)
      BY <3>5, m + 1 \in Nat, ResultsType
    <3>7. o \in Bodies[Depth]
      BY m + 1 \in Nat, Nested, BodiesAssumption
    <3> HIDE DEF h
    <3> QED
      BY <3>3, <3>4, <3>6, <3>7
  <2>4. h \in [Bodies[m + 1] -> V]
    <3>1. h = [o \in Bodies[m + 1] |-> h[o]]
      OBVIOUS
    <3> HIDE DEF h
    <3> QED
      BY <2>3, <3>1
  <2> HIDE DEF h, Step
  <2> QED
    BY <2>3, <2>4
<1>3. Depth \in T
  <2> HIDE DEF T
  <2> QED
    BY <1>1, <1>2, Climb, BodiesAssumption
<1> QED
  BY <1>3, BodiesAssumption

\* What checkFieldsExistence says of the objects s.
Swept(g, s) == FoldLeft(LAMBDA found, b : g[b], FALSE, s)

\* Bodies are closed under what is below them.
LEMMA Inside ==
  ASSUME NEW e \in Bodies[Depth]
  PROVE  /\ e.secret \in BOOLEAN
         /\ \A i \in DOMAIN e.below : e.below[i] \in Bodies[Depth]
         /\ e.below # <<>> => Len(e.below) \in DOMAIN e.below /\ Last(e.below) \in Bodies[Depth]
BY Parted, BodiesAssumption DEF Last

\* checkFieldsExistence finds the field of the object itself, or else what it finds in
\* the last object below.
LEMMA FoundIs ==
  /\ Found \in [Bodies[Depth] -> BOOLEAN]
  /\ \A o \in Bodies[Depth] : Found[o] <=> o.secret \/ (o.below # <<>> /\ Found[Last(o.below)])
<1> DEFINE R == [p \in Bodies[Depth] \X Few(BOOLEAN) |->
                   IF p[1].secret THEN TRUE ELSE IF p[2] = <<>> THEN FALSE ELSE p[2][Len(p[2])]]
<1>1. \A o \in Bodies[Depth], t \in Few(BOOLEAN) : R[<<o, t>>] \in BOOLEAN
  <2>1. \A t \in Few(BOOLEAN) : t # <<>> => t[Len(t)] \in BOOLEAN
    BY EmptySeq DEF Few
  <2> QED
    BY <2>1
<1>2. PICK g \in [Bodies[Depth] -> BOOLEAN] : \A e \in Bodies[Depth] : g[e] = R[<<e, Results(g, e)>>]
  <2>1. \A V, S : (\A o \in Bodies[Depth], t \in Few(V) : S[<<o, t>>] \in V)
          => \E g \in [Bodies[Depth] -> V] : \A e \in Bodies[Depth] : g[e] = S[<<e, Results(g, e)>>]
    BY Recursion
  <2> HIDE DEF R
  <2> QED
    BY <1>1, <2>1
<1>3. ASSUME NEW e \in Bodies[Depth]
      PROVE  /\ g[e] = (e.secret \/ Swept(g, e.below))
             /\ g[e] <=> e.secret \/ (e.below # <<>> /\ g[Last(e.below)])
  <2> DEFINE t == Results(g, e)
  <2>1. /\ t \in Few(BOOLEAN) /\ Len(t) = Len(e.below) /\ (t = <<>> <=> e.below = <<>>)
        /\ e.below # <<>> => t[Len(t)] = g[Last(e.below)]
    <3>1. \A i \in DOMAIN e.below : g[e.below[i]] \in BOOLEAN
      BY Inside
    <3> QED
      BY <3>1, ResultsType, BodiesAssumption
  <2>2. g[e] = R[<<e, t>>]
    BY <1>2
  <2>3. g[e] = IF e.secret THEN TRUE ELSE IF e.below = <<>> THEN FALSE ELSE g[Last(e.below)]
    <3> HIDE DEF t
    <3> QED
      BY <2>1, <2>2
  <2>4. Swept(g, e.below) = IF e.below = <<>> THEN FALSE ELSE g[Last(e.below)]
    <3>1. e.below \in BoundedSeq(Bodies[Depth - 1], Width)
      BY Parted, BodiesAssumption, Sized
    <3> QED
      BY <3>1, LastFold DEF Swept
  <2> HIDE DEF R
  <2>5. g[e] \in BOOLEAN /\ e.secret \in BOOLEAN /\ (e.below # <<>> => g[Last(e.below)] \in BOOLEAN)
    BY Inside
  <2> QED
    BY <2>3, <2>4, <2>5
<1> HIDE DEF R
<1>4. \E h : h = [e \in Bodies[Depth] |-> e.secret \/ FoldLeft(LAMBDA found, b : h[b], FALSE, e.below)]
  <2>1. g = [e \in Bodies[Depth] |-> e.secret \/ Swept(g, e.below)]
    BY <1>3
  <2>2. \E h : h = [e \in Bodies[Depth] |-> e.secret \/ Swept(h, e.below)]
    BY <2>1
  <2> QED
    BY <2>2, Zenon DEF Swept
<1>5. Found = [e \in Bodies[Depth] |-> e.secret \/ FoldLeft(LAMBDA found, b : Found[b], FALSE, e.below)]
  BY <1>4, Zenon DEF Found, JsonBodies
<1>6. Found = [e \in Bodies[Depth] |-> e.secret \/ Swept(Found, e.below)]
  BY <1>5, Zenon DEF Swept
<1>7. ASSUME NEW o \in Bodies[Depth]
      PROVE  Swept(Found, o.below) = IF o.below = <<>> THEN FALSE ELSE Found[Last(o.below)]
  <2>1. o.below \in BoundedSeq(Bodies[Depth - 1], Width)
    BY Parted, BodiesAssumption, Sized
  <2> QED
    BY <2>1, LastFold DEF Swept
<1>8. Found \in [Bodies[Depth] -> BOOLEAN]
  BY <1>6
<1> QED
  BY <1>6, <1>7, <1>8

\* Secret, one level at a time.
LEMMA SecretIs ==
  /\ Secret \in [Bodies[Depth] -> BOOLEAN]
  /\ \A o \in Bodies[Depth] : Secret[o] <=> o.secret \/ \E i \in DOMAIN o.below : Secret[o.below[i]]
<1> DEFINE R == [p \in Bodies[Depth] \X Few(BOOLEAN) |-> p[1].secret \/ \E i \in DOMAIN p[2] : p[2][i] = TRUE]
<1>1. \A o \in Bodies[Depth], t \in Few(BOOLEAN) : R[<<o, t>>] \in BOOLEAN
  OBVIOUS
<1>2. PICK g \in [Bodies[Depth] -> BOOLEAN] : \A e \in Bodies[Depth] : g[e] = R[<<e, Results(g, e)>>]
  <2>1. \A V, S : (\A o \in Bodies[Depth], t \in Few(V) : S[<<o, t>>] \in V)
          => \E g \in [Bodies[Depth] -> V] : \A e \in Bodies[Depth] : g[e] = S[<<e, Results(g, e)>>]
    BY Recursion
  <2> HIDE DEF R
  <2> QED
    BY <1>1, <2>1
<1>3. ASSUME NEW e \in Bodies[Depth]
      PROVE  g[e] = (e.secret \/ \E i \in DOMAIN e.below : g[e.below[i]])
  <2> DEFINE t == Results(g, e)
  <2>1. /\ t \in Few(BOOLEAN) /\ DOMAIN t = DOMAIN e.below
        /\ \A i \in DOMAIN e.below : t[i] = g[e.below[i]] /\ g[e.below[i]] \in BOOLEAN
    <3>1. \A i \in DOMAIN e.below : g[e.below[i]] \in BOOLEAN
      BY Inside
    <3> QED
      BY <3>1, ResultsType, BodiesAssumption DEF Results
  <2>2. g[e] = R[<<e, t>>]
    BY <1>2
  <2> HIDE DEF t
  <2>3. g[e] = (e.secret \/ \E i \in DOMAIN t : t[i] = TRUE)
    BY <2>1, <2>2
  <2> HIDE DEF R
  <2> QED
    BY <2>1, <2>3
<1> HIDE DEF R
<1>4. g = [e \in Bodies[Depth] |-> e.secret \/ \E i \in DOMAIN e.below : g[e.below[i]]]
  BY <1>3
<1>5. \E h : h = [e \in Bodies[Depth] |-> e.secret \/ \E i \in DOMAIN e.below : h[e.below[i]]]
  BY <1>4
<1>6. Secret = [e \in Bodies[Depth] |-> e.secret \/ \E i \in DOMAIN e.below : Secret[e.below[i]]]
  BY <1>5, Zenon DEF Secret, JsonBodies
<1> QED
  BY <1>6

\* Screened, one level at a time.
LEMMA ScreenedIs ==
  /\ Screened \in [Bodies[Depth] -> BOOLEAN]
  /\ \A o \in Bodies[Depth] : Screened[o] <=> ~o.secret /\ (o.below # <<>> => Screened[Last(o.below)])
<1> DEFINE R == [p \in Bodies[Depth] \X Few(BOOLEAN) |-> ~p[1].secret /\ (p[2] # <<>> => p[2][Len(p[2])] = TRUE)]
<1>1. \A o \in Bodies[Depth], t \in Few(BOOLEAN) : R[<<o, t>>] \in BOOLEAN
  OBVIOUS
<1>2. PICK g \in [Bodies[Depth] -> BOOLEAN] : \A e \in Bodies[Depth] : g[e] = R[<<e, Results(g, e)>>]
  <2>1. \A V, S : (\A o \in Bodies[Depth], t \in Few(V) : S[<<o, t>>] \in V)
          => \E g \in [Bodies[Depth] -> V] : \A e \in Bodies[Depth] : g[e] = S[<<e, Results(g, e)>>]
    BY Recursion
  <2> HIDE DEF R
  <2> QED
    BY <1>1, <2>1
<1>3. ASSUME NEW e \in Bodies[Depth]
      PROVE  g[e] = (~e.secret /\ (e.below # <<>> => g[Last(e.below)]))
  <2> DEFINE t == Results(g, e)
  <2>1. /\ t \in Few(BOOLEAN) /\ (t = <<>> <=> e.below = <<>>)
        /\ e.below # <<>> => t[Len(t)] = g[Last(e.below)] /\ g[Last(e.below)] \in BOOLEAN
    <3>1. \A i \in DOMAIN e.below : g[e.below[i]] \in BOOLEAN
      BY Inside
    <3> QED
      BY <3>1, ResultsType, BodiesAssumption, Inside
  <2>2. g[e] = R[<<e, t>>]
    BY <1>2
  <2> HIDE DEF t
  <2>3. g[e] = (~e.secret /\ (t # <<>> => t[Len(t)] = TRUE))
    BY <2>1, <2>2
  <2> HIDE DEF R
  <2> QED
    BY <2>1, <2>3
<1> HIDE DEF R
<1>4. g = [e \in Bodies[Depth] |-> ~e.secret /\ (e.below # <<>> => g[Last(e.below)])]
  BY <1>3
<1>5. \E h : h = [e \in Bodies[Depth] |-> ~e.secret /\ (e.below # <<>> => h[Last(e.below)])]
  BY <1>4
<1>6. Screened = [e \in Bodies[Depth] |-> ~e.secret /\ (e.below # <<>> => Screened[Last(e.below)])]
  BY <1>5, Zenon DEF Screened, JsonBodies
<1> QED
  BY <1>6

\* replaceFields, one level at a time.
LEMMA ReplacedIs ==
  \A o \in Bodies[Depth] :
    Replaced[o] = [secret |-> FALSE, below |-> [i \in DOMAIN o.below |-> Replaced[o.below[i]]]]
<1> DEFINE A == UNION {Bodies[n] : n \in Nat}
           R == [p \in Bodies[Depth] \X Few(A) |-> [secret |-> FALSE, below |-> p[2]]]
<1>1. \A o \in Bodies[Depth], t \in Few(A) : R[<<o, t>>] \in A
  <2> SUFFICES ASSUME NEW t \in Few(A) PROVE [secret |-> FALSE, below |-> t] \in A
    OBVIOUS
  <2>1. t \in Seq(A) /\ Len(t) <= Width /\ Len(t) \in Nat /\ DOMAIN t = 1 .. Len(t) /\ \A i \in DOMAIN t : t[i] \in A
    <3> HIDE DEF A
    <3> QED
      BY DEF Few
  <2>2. \A i \in DOMAIN t : \E n \in Nat : t[i] \in Bodies[n]
    BY <2>1
  <2> DEFINE T == {k \in Nat : \E n \in Nat : \A i \in DOMAIN t : i <= k => t[i] \in Bodies[n]}
  <2>3. Len(t) \in T
    <3>1. 0 \in T
      BY <2>1
    <3>2. ASSUME NEW k \in Nat, k \in T PROVE k + 1 \in T
      <4>1. PICK m \in Nat : \A i \in DOMAIN t : i <= k => t[i] \in Bodies[m]
        BY <3>2
      <4>2. CASE k + 1 \in DOMAIN t
        <5>1. PICK n \in Nat : t[k + 1] \in Bodies[n]
          BY <4>2, <2>2
        <5>2. Bodies[m] \subseteq Bodies[m + n] /\ Bodies[n] \subseteq Bodies[m + n]
          BY Nested
        <5>3. \A i \in DOMAIN t : i <= k + 1 => i <= k \/ i = k + 1
          BY <2>1
        <5>4. \A i \in DOMAIN t : i <= k + 1 => t[i] \in Bodies[m + n]
          <6> HIDE DEF A, R
          <6> QED
            BY <4>1, <5>1, <5>2, <5>3
        <5> QED
          BY <5>4, m + n \in Nat
      <4>3. CASE k + 1 \notin DOMAIN t
        <5>1. \A i \in DOMAIN t : i <= k + 1 => i <= k
          BY <2>1, <4>3
        <5> HIDE DEF A, R
        <5> QED
          BY <4>1, <5>1
      <4> QED
        BY <4>2, <4>3
    <3> HIDE DEF T
    <3> QED
      BY <3>1, <3>2, <2>1, Climb
  <2>4. PICK n \in Nat : \A i \in DOMAIN t : t[i] \in Bodies[n]
    <3> HIDE DEF A, R
    <3> QED
      BY <2>1, <2>3
  <2>5. t \in Seq(Bodies[n])
    <3> HIDE DEF A
    <3> QED
      BY <2>1, <2>4
  <2>6. [secret |-> FALSE, below |-> t] \in Around(Bodies[n])
    BY <2>1, <2>5, Sized DEF Around
  <2>7. [secret |-> FALSE, below |-> t] \in Bodies[n + 1]
    BY <2>6, BodiesBy
  <2> QED
    BY <2>7, n + 1 \in Nat
<1>2. PICK g \in [Bodies[Depth] -> A] : \A e \in Bodies[Depth] : g[e] = R[<<e, Results(g, e)>>]
  <2>1. \A V, S : (\A o \in Bodies[Depth], t \in Few(V) : S[<<o, t>>] \in V)
          => \E g \in [Bodies[Depth] -> V] : \A e \in Bodies[Depth] : g[e] = S[<<e, Results(g, e)>>]
    BY Recursion
  <2> HIDE DEF R, A
  <2>2. \A S : (\A o \in Bodies[Depth], t \in Few(A) : S[<<o, t>>] \in A)
          => \E g \in [Bodies[Depth] -> A] : \A e \in Bodies[Depth] : g[e] = S[<<e, Results(g, e)>>]
    BY <2>1
  <2> QED
    BY <1>1, <2>2
<1>3. ASSUME NEW e \in Bodies[Depth] PROVE g[e] = [secret |-> FALSE, below |-> Results(g, e)]
  <2>1. Results(g, e) \in Few(A)
    <3> HIDE DEF A, R
    <3>1. \A i \in DOMAIN e.below : g[e.below[i]] \in A
      BY Inside
    <3> QED
      BY <3>1, ResultsType, BodiesAssumption
  <2>2. g[e] = R[<<e, Results(g, e)>>]
    BY <1>2
  <2> HIDE DEF A
  <2> QED
    BY <2>1, <2>2
<1> HIDE DEF A, R
<1>4. g = [e \in Bodies[Depth] |-> [secret |-> FALSE, below |-> Results(g, e)]]
  BY <1>3
<1>5. \E h : h = [e \in Bodies[Depth] |-> [secret |-> FALSE, below |-> [i \in DOMAIN e.below |-> h[e.below[i]]]]]
  <2>1. \E h : h = [e \in Bodies[Depth] |-> [secret |-> FALSE, below |-> Results(h, e)]]
    BY <1>4
  <2> QED
    BY <2>1, Zenon DEF Results
<1>6. Replaced = [e \in Bodies[Depth] |-> [secret |-> FALSE, below |-> [i \in DOMAIN e.below |-> Replaced[e.below[i]]]]]
  BY <1>5, Zenon DEF Replaced, JsonBodies
<1> QED
  BY <1>6, Zenon

\* replaceFields leaves no password, and the shape of the object.
LEMMA Cleared ==
  ASSUME NEW o \in Bodies[Depth]
  PROVE  Replaced[o] \in Bodies[Depth] /\ ~Secret[Replaced[o]]
<1> DEFINE T == {n \in Nat : n <= Depth => \A e \in Bodies[n] : Replaced[e] \in Bodies[n] /\ ~Secret[Replaced[e]]}
<1>1. 0 \in T
  BY BodiesBy
<1>2. ASSUME NEW n \in Nat, n \in T PROVE n + 1 \in T
  <2> SUFFICES ASSUME n + 1 <= Depth, NEW e \in Bodies[n + 1]
               PROVE  Replaced[e] \in Bodies[n + 1] /\ ~Secret[Replaced[e]]
    OBVIOUS
  <2> DEFINE t == Results(Replaced, e)
  <2>1. n <= Depth /\ n + 1 \in Nat
    BY BodiesAssumption
  <2>2. e \in Bodies[Depth]
    BY <2>1, Nested, BodiesAssumption
  <2>3. \A i \in DOMAIN e.below : Replaced[e.below[i]] \in Bodies[n] /\ ~Secret[Replaced[e.below[i]]]
    BY <1>2, <2>1, OneDown
  <2>4. Replaced[e] = [secret |-> FALSE, below |-> t]
    BY <2>2, ReplacedIs, Zenon DEF Results
  <2>5. /\ t \in Few(Bodies[n]) /\ DOMAIN t = DOMAIN e.below
        /\ \A i \in DOMAIN t : t[i] = Replaced[e.below[i]]
    <3> HIDE DEF T
    <3> QED
      BY <2>1, <2>3, ResultsType DEF Results
  <2> HIDE DEF t, T
  <2>6. Replaced[e] \in Bodies[n + 1]
    <3>1. [secret |-> FALSE, below |-> t] \in Around(Bodies[n])
      BY <2>5, Sized DEF Few, Around
    <3> QED
      BY <3>1, <2>4, BodiesBy
  <2>7. Replaced[e] \in Bodies[Depth]
    BY <2>1, <2>6, Nested, BodiesAssumption
  <2>8. Replaced[e].secret = FALSE /\ Replaced[e].below = t
    BY <2>4
  <2> QED
    BY <2>3, <2>5, <2>6, <2>7, <2>8, SecretIs
<1> HIDE DEF T
<1>3. Depth \in T
  BY <1>1, <1>2, Climb, BodiesAssumption
<1> QED
  BY <1>3, BodiesAssumption DEF T

\* checkFieldsExistence overlooks what is screened, and that only.
LEMMA Overlooked ==
  ASSUME NEW o \in Bodies[Depth]
  PROVE  Screened[o] <=> ~Found[o]
<1> DEFINE T == {n \in Nat : n <= Depth => \A e \in Bodies[n] : Screened[e] <=> ~Found[e]}
<1>1. 0 \in T
  BY BodiesBy
<1>2. ASSUME NEW n \in Nat, n \in T PROVE n + 1 \in T
  <2> SUFFICES ASSUME n + 1 <= Depth, NEW e \in Bodies[n + 1] PROVE Screened[e] <=> ~Found[e]
    OBVIOUS
  <2>1. n <= Depth /\ n + 1 \in Nat
    BY BodiesAssumption
  <2>2. e \in Bodies[Depth]
    BY <2>1, Nested, BodiesAssumption
  <2>3. e.below # <<>> => Last(e.below) \in Bodies[n]
    <3> HIDE DEF T
    <3> QED
      BY <2>2, Inside, OneDown DEF Last
  <2>4. e.below # <<>> => (Screened[Last(e.below)] <=> ~Found[Last(e.below)])
    BY <1>2, <2>1, <2>3
  <2> HIDE DEF T
  <2> QED
    BY <2>2, <2>4, FoundIs, ScreenedIs
<1> HIDE DEF T
<1>3. Depth \in T
  BY <1>1, <1>2, Climb, BodiesAssumption
<1> QED
  BY <1>3, BodiesAssumption DEF T

\* RequestMiddleware.maskSensitiveData, for objects of any depth and width: the log shows
\* a password of exactly the bodies that have one which checkFieldsExistence overlooks.
THEOREM LogShows ==
  ASSUME NEW o \in Bodies[Depth]
  PROVE  Secret[Logged(o)] <=> Secret[o] /\ Screened[o]
BY Cleared, Overlooked DEF Logged

\* The bodies of which the log has shown a password.
Unmasked == leaks \subseteq Bodies[Depth] /\ SecretsLoggedHaveACause

LEMMA Masked ==
  ASSUME Unmasked, mix \in DOMAIN Mixes, [Next]_vars
  PROVE  Unmasked'
<1>1. ASSUME NEW r \in Requests, Arrive(r) PROVE Unmasked'
  <2>1. PICK h \in Routes : \E i \in Mixes[mix].inputs[h] :
          leaks' = leaks \cup (IF Secret[Logged(i.body)] THEN {i.body} ELSE {})
    BY <1>1 DEF Arrive
  <2>2. PICK i \in Mixes[mix].inputs[h] :
          leaks' = leaks \cup (IF Secret[Logged(i.body)] THEN {i.body} ELSE {})
    BY <2>1
  <2>3. i.body \in Bodies[Depth]
    <3>1. i \in Inputs(Bodies[Depth], DataOf(h))
      BY MixesAssumption
    <3> QED
      BY <3>1 DEF Inputs
  <2>4. Secret[Logged(i.body)] => Screened[i.body]
    BY <2>3, LogShows
  <2> QED
    BY <2>2, <2>3, <2>4 DEF Unmasked, SecretsLoggedHaveACause
<1>2. ASSUME ~ \E r \in Requests : Arrive(r) PROVE UNCHANGED leaks
  BY <1>2 DEF Next, vars, own, rest, Over, Close, Elapse, Outside, Serves, Ids, RowsOf, Count,
              Account, OnDisk, Saved, Read, Registered, Cached, Documents, Fail
<1> QED
  BY <1>1, <1>2 DEF Unmasked, SecretsLoggedHaveACause

-----------------------------------------------------------------------------
(* All of it *)

IInv == RateInv /\ ProfilesInv /\ AnswersInv /\ Course /\ ListInv /\ FilesInv /\ LogInv

LEMMA Starts ==
  ASSUME Init
  PROVE  IInv
<1>1. Course /\ people \in Tables /\ work \in [Requests -> Works]
  BY CourseFirst
<1>2. \A r \in Requests : work[r] = NoWork
  BY DEF Init
<1>3. ProfilesInv /\ AnswersInv
  BY <1>1, <1>2, ProfilesFirst, AnswersFirst
<1>4. RateInv
  BY RateFirst DEF Init
<1> QED
  BY <1>1, <1>3, <1>4, ListFirst, FilesFirst, LogFirst DEF IInv

\* The accounts of the profiles only change at a step of a request for one.
LEMMA ProfilesAt ==
  ASSUME Course, NEW r \in Requests, Arrive(r) \/ Serves(r)
  PROVE  UNCHANGED profiles \/ Begin(r) \/ ProfileStep(r) \/ FailProfile(r)
<1>1. CASE Arrive(r)
  <2>1. at[r] = "idle"
    BY <1>1, Arrival DEF Course
  <2>2. PICK h \in Routes : Turned(r) \/ Admitted(r, h)
    BY <1>1, Arrival DEF Course
  <2>3. \A d \in ProfileData(h) : h \in ProfileRoutes /\ Profile(r, h, d) => Begin(r)
    BY <2>1, ProfileBegins
  <2>4. \/ UNCHANGED profiles
        \/ h \in ProfileRoutes /\ \E d \in ProfileData(h) : Profile(r, h, d)
    BY <2>2 DEF Turned, Admitted, Refuse, List, Download, Ask
  <2> QED
    BY <2>3, <2>4
<1>2. CASE Serves(r)
  BY <1>2 DEF Serves, Ids, RowsOf, Count, Account, OnDisk, Refuse, Upload, Saved, Read, Registered,
              Cached, Documents, Fail
<1> QED
  BY <1>1, <1>2

LEMMA ProfilesGo ==
  ASSUME ProfilesInv, AnswersInv, Course, NEW r \in Requests, Arrive(r) \/ Serves(r)
  PROVE  ProfilesInv' /\ AnswersInv' /\ (UNCHANGED people \/ OnlyGivenBy(r))
<1>1. CASE UNCHANGED profiles
  BY <1>1, ProfilesRest, AnswersRest DEF profiles
<1>2. CASE Begin(r) \/ ProfileStep(r) \/ FailProfile(r)
  BY <1>2, ProfilesMove, AnswersMove
<1> QED
  BY <1>1, <1>2, ProfilesAt

\* A request arrives.
LEMMA IArrive ==
  ASSUME IInv, NEW r \in Requests, Arrive(r)
  PROVE  IInv'
<1>1. /\ RateInv /\ ProfilesInv /\ AnswersInv /\ Course /\ ListInv /\ FilesInv /\ LogInv
      /\ ListType /\ mix \in DOMAIN Mixes
  BY DEF IInv, ListInv, Course
<1>2. ProfilesInv' /\ AnswersInv'
  BY <1>1, ProfilesGo
<1>3. Course'
  BY <1>1, CourseArrive
<1>4. LogInv'
  BY <1>1, LogArrive
<1>5. at[r] = "idle"
  BY <1>1, Arrival
<1>6. PICK h \in Routes : h \in Keys /\ Hit(h) /\ (Turned(r) \/ Admitted(r, h))
  BY <1>1, Arrival
<1>7. RateInv'
  BY <1>1, <1>6, RateHit
<1>8. at'[r] # "idle" /\ \A o \in Requests \ {r} : at'[o] = at[o]
  BY <1>1, <1>6, Landing
<1>9. \A what : (Await(r, what) => at'[r] = what) /\ (Answer(r, what) => at'[r] = "answered")
  BY <1>1 DEF Await, Answer, Course
<1>10. ListInv'
  <2>1. CASE \E q \in Queries(Nat, Nat, SUBSET Accounts) : List(r, q)
    BY <1>1, <2>1, ListBegin
  <2>2. CASE ~\E q \in Queries(Nat, Nat, SUBSET Accounts) : List(r, q)
    <3>1. /\ UNCHANGED <<listing, users>>
          /\ \/ \E what \in {"account", "get", "disk", "save", "cached", "hung"} : Await(r, what)
             \/ \E status : Answer(r, status)
      BY <1>6, <2>2 DEF Turned, Admitted, Refuse, Profile, Download, Ask
    <3>2. at'[r] \notin {"ids", "rows", "count"}
      BY <1>9, <3>1
    <3> QED
      BY <1>1, <1>8, <3>1, <3>2, ListRest
  <2> QED
    BY <2>1, <2>2
<1>11. FilesInv'
  <2>1. /\ UNCHANGED files
        /\ \/ \E what \in {"ids", "rows", "account", "get", "disk", "save", "cached", "hung"} : Await(r, what)
           \/ \E status : Answer(r, status)
    BY <1>6 DEF Turned, Admitted, Refuse, Profile, List, Download, Ask
  <2>2. at'[r] # "put" /\ at[r] \notin Upon
    BY <1>5, <1>9, <2>1 DEF Upon
  <2> QED
    BY <1>1, <1>8, <2>1, <2>2, FilesRest
<1> QED
  BY <1>2, <1>3, <1>4, <1>7, <1>10, <1>11 DEF IInv

\* A request that waits goes on.
LEMMA IServe ==
  ASSUME IInv, NEW r \in Requests, Serves(r), Log(r)
  PROVE  IInv'
<1>1. /\ RateInv /\ ProfilesInv /\ AnswersInv /\ Course /\ ListInv /\ FilesInv /\ LogInv
      /\ ListType /\ mix \in DOMAIN Mixes
  BY DEF IInv, ListInv, Course
<1>2. ProfilesInv' /\ AnswersInv'
  BY <1>1, ProfilesGo
<1>3. Course'
  BY <1>1, CourseServe
<1>4. LogInv'
  BY <1>1, LogServe
<1>5. UNCHANGED throttling
  BY DEF Serves, Ids, RowsOf, Count, Account, OnDisk, Saved, Read, Registered, Cached, Documents, Fail, rest
<1>6. RateInv'
  BY <1>1, <1>5, RateRest
<1>7. at[r] \in Waiting /\ at'[r] # "idle" /\ \A o \in Requests \ {r} : at'[o] = at[o]
  BY <1>1, Serving
<1>8. \A what : (Await(r, what) => at'[r] = what) /\ (Answer(r, what) => at'[r] = "answered")
  BY <1>1 DEF Await, Answer, Course
<1>9. ListInv'
  <2>1. CASE Ids(r) \/ RowsOf(r) \/ Count(r)
    BY <1>1, <2>1, ListIds, ListRows, ListCount
  <2>2. CASE ~(Ids(r) \/ RowsOf(r) \/ Count(r))
    <3>1. /\ UNCHANGED <<listing, users>>
          /\ \/ \E what \in {"account", "put", "documents", "hung"} : Await(r, what)
             \/ \E status : Answer(r, status)
      BY <2>2 DEF Serves, Account, OnDisk, Refuse, Upload, Saved, Read, Registered, Cached, Documents, Fail
    <3>2. at'[r] \notin {"ids", "rows", "count"}
      BY <1>8, <3>1
    <3> QED
      BY <1>1, <1>7, <3>1, <3>2, ListRest
  <2> QED
    BY <2>1, <2>2
<1>10. FilesInv'
  <2>1. CASE at[r] = "put" /\ (Put(r) \/ FailPut(r)) /\ \E status : Answer(r, status)
    BY <1>1, <1>7, <1>8, <2>1, FilesPut
  <2>2. CASE \E k \in ObjectKeys : Get(r, k) /\ \E status : Answer(r, status)
    BY <1>1, <1>7, <1>8, <2>2, FilesGet
  <2>3. CASE /\ UNCHANGED files
             /\ \/ \E what \in {"rows", "count", "account", "documents", "hung"} :
                     Await(r, what) /\ at[r] # "put"
                \/ \E status : Answer(r, status)
    <3>1. at'[r] # "put" /\ (at[r] \in Upon => at'[r] \in Upon)
      BY <1>7, <1>8, <2>3 DEF Upon, Waiting
    <3> QED
      BY <1>1, <1>7, <2>3, <3>1, FilesRest
  <2>4. CASE Ids(r) \/ RowsOf(r) \/ Count(r) \/ Account(r) \/ Registered(r) \/ Cached(r) \/ Documents(r)
    BY <2>3, <2>4 DEF Ids, RowsOf, Count, Account, Registered, Cached, Documents
  <2>5. CASE Saved(r)
    BY <2>1, <2>5 DEF Saved
  <2>6. CASE Read(r)
    <3>1. wanted[r] \in ObjectKeys
      BY <1>1 DEF Course
    <3> QED
      BY <2>2, <2>3, <2>6, <3>1 DEF Read
  <2>7. CASE Fail(r)
    BY <2>1, <2>3, <2>7 DEF Fail, Wrapped
  <2>8. CASE OnDisk(r)
    <3>1. at[r] = "disk"
      BY <2>8 DEF OnDisk
    <3>2. PICK i \in Mixes[mix].inputs["upload"] :
            (UNCHANGED files /\ Answer(r, "contract")) \/ \E f \in i.data : Upload(r, f)
      BY <2>8 DEF OnDisk, Refuse
    <3>3. \A f \in i.data : f \in Uploads(Stems)
      BY <1>1, Chosen
    <3> QED
      BY <1>1, <2>3, <3>1, <3>2, <3>3, FilesUpload
  <2> QED
    BY <2>4, <2>5, <2>6, <2>7, <2>8 DEF Serves
<1> QED
  BY <1>2, <1>3, <1>4, <1>6, <1>9, <1>10 DEF IInv

\* The process closes: no request gets back to where it may read, or send.
LEMMA IClose ==
  ASSUME IInv, Close
  PROVE  IInv'
<1>1. /\ RateInv /\ ProfilesInv /\ AnswersInv /\ Course /\ ListInv /\ FilesInv /\ LogInv
  BY DEF IInv
<1>2. /\ UNCHANGED <<throttling, users, listing, profiles, files, answer, route, logging>>
      /\ at' = [r \in Requests |-> IF at[r] \in Waiting THEN "cut" ELSE at[r]]
  BY DEF Close
<1>3. \A r \in Requests : /\ at'[r] = at[r] \/ at'[r] = "cut"
                          /\ at'[r] = "idle" <=> at[r] = "idle"
  BY <1>2 DEF Waiting
<1>4. ProfilesInv' /\ AnswersInv' /\ RateInv'
  BY <1>1, <1>2, ProfilesRest, AnswersRest, RateRest
<1>5. Course'
  BY <1>1, CourseClose
<1>6. ListInv'
  <2>1. \A r \in Requests : at'[r] \in {"ids", "rows", "count"} => at'[r] = at[r]
    BY <1>3
  <2> QED
    BY <1>1, <1>2, <2>1, ListRest
<1>7. FilesInv'
  <2>1. \A r \in Requests : (at'[r] = "put" => at[r] = "put") /\ (at[r] \in Upon => at'[r] \in Upon)
    BY <1>3 DEF Upon
  <2> QED
    BY <1>1, <1>2, <2>1, FilesRest
<1>8. LogInv'
  BY <1>1, <1>2, <1>3, LogRest
<1> QED
  BY <1>4, <1>5, <1>6, <1>7, <1>8 DEF IInv

\* Time passes, others change the accounts of the list, or nothing happens.
LEMMA IRest ==
  ASSUME IInv, UNCHANGED <<profiles, files, own, mix, app>>,
         Tick \/ UNCHANGED throttling,
         UNCHANGED <<users, listing>> \/ AddAccount \/ SoftDelete
  PROVE  IInv'
<1>1. /\ RateInv /\ ProfilesInv /\ AnswersInv /\ Course /\ ListInv /\ FilesInv /\ LogInv
      /\ UNCHANGED <<at, answer, route, wanted, logging, mix, app, work>>
  BY DEF IInv, own, files, profiles
<1>2. ListInv' /\ UNCHANGED listing
  <2>1. CASE UNCHANGED <<users, listing>>
    BY <1>1, <2>1, ListRest
  <2>2. CASE AddAccount \/ SoftDelete
    <3>1. ListType
      BY <1>1 DEF ListInv
    <3> QED
      BY <1>1, <2>2, <3>1, ListOutside, AccountsChange
  <2> QED
    BY <2>1, <2>2
<1>3. RateInv'
  BY <1>1, RateTick, RateRest
<1>4. ProfilesInv' /\ AnswersInv'
  BY <1>1, ProfilesRest, AnswersRest
<1>5. Course'
  BY <1>1, <1>2, CourseRest
<1>6. FilesInv'
  BY <1>1, FilesRest
<1>7. LogInv'
  BY <1>1, LogRest
<1> QED
  BY <1>2, <1>3, <1>4, <1>5, <1>6, <1>7 DEF IInv

LEMMA Steps ==
  ASSUME IInv, [Next]_vars
  PROVE  IInv'
<1>1. CASE \E r \in Requests : Arrive(r)
  BY <1>1, IArrive
<1>2. CASE \E r \in Requests : Serves(r) /\ Log(r)
  BY <1>2, IServe
<1>3. CASE Close
  BY <1>3, IClose
<1>4. CASE Elapse
  BY <1>4, IRest DEF Elapse
<1>5. CASE Outside
  BY <1>5, IRest DEF Outside
<1>6. CASE UNCHANGED vars
  BY <1>6, IRest DEF vars
<1> QED
  BY <1>1, <1>2, <1>3, <1>4, <1>5, <1>6 DEF Next, Over, Serves

-----------------------------------------------------------------------------
(* What holds of every behaviour *)

LEMMA Typed == IInv => TypeOK
<1> SUFFICES ASSUME IInv PROVE TypeOK
  OBVIOUS
<1>1. /\ ThrottlingOK /\ ProfilesOK /\ FilesOK /\ LoggingOK
  BY ProfilesTyped DEF IInv, RateInv, FilesInv, LogInv
<1>2. UserListOK
  <2>1. active \subseteq Accounts /\ softDeleted \subseteq active /\ changes \in 0 .. MaxChanges
    BY DEF IInv, ListInv, ListType
  <2>2. \A r \in Requests : LET l == listing[r] IN
          /\ {ToSet(l.ids), ToSet(l.rows)} \subseteq SUBSET active
          /\ l.since <= l.until /\ l.until <= changes
          /\ Paginated(l.query) => ToSet(l.rows) \subseteq ToSet(l.ids)
    BY DEF IInv, ListInv, Gathered
  <2> QED
    BY <2>1, <2>2 DEF UserListOK
<1>3. /\ mix \in DOMAIN Mixes
      /\ at \in [Requests -> Waiting \cup {"idle", "answered", "hung", "cut"}]
      /\ answer \in [Requests -> Statuses]
      /\ route \in [Requests -> Routes]
      /\ wanted \in [Requests -> ObjectKeys]
      /\ app \in {"serving", "closed"}
      /\ app = "closed" => \A r \in Requests : at[r] \notin Waiting
  BY DEF IInv, Course
<1>4. /\ \A r \in Requests : answer[r] # "none" <=> at[r] = "answered"
      /\ \A r \in Requests : at[r] = "account" <=> work[r].next \in Pending /\ at[r] # "cut"
      /\ \A r \in Requests : Listed(r) <=> route[r] = "list" /\ answer[r] = "ok"
  BY DEF IInv, Course, InCourse
<1> QED
  BY <1>1, <1>2, <1>3, <1>4 DEF TypeOK

LEMMA Causes == IInv => UnansweredHasACause
<1> SUFFICES ASSUME IInv PROVE UnansweredHasACause
  OBVIOUS
<1>1. ASSUME NEW r \in Requests, at[r] = "hung"
      PROVE  /\ route[r] \in Unwrapped
             /\ work[r] = NoWork
             /\ \A k \in ObjectKeys : \A o \in bucket[k] : o.from # r
  <2>1. InCourse(r)
    BY DEF IInv, Course
  <2>2. \A k \in ObjectKeys : \A o \in bucket[k] : at[o.from] \in Upon
    BY DEF IInv, FilesInv, Came
  <2> QED
    BY <1>1, <2>1, <2>2 DEF InCourse, Fits, Bare, Upon
<1>2. ASSUME NEW r \in Requests, at[r] = "cut" PROVE \E o \in Requests : at[o] = "hung"
  BY <1>2 DEF IInv, Course, InCourse
<1> QED
  BY <1>1, <1>2 DEF UnansweredHasACause

\* The requests, by what they have read, stored, sent and promised at each place of
\* their course.
LEMMA Inductive == Spec => []IInv
<1>1. Init => IInv
  BY Starts
<1>2. IInv /\ [Next]_vars => IInv'
  BY Steps
<1> QED
  BY <1>1, <1>2, PTL DEF Spec

\* Every variable has its type in every reachable state, and the parts of a request
\* agree: it is answered when it has a status, it waits for an account while its
\* profile goes on, and a list is answered well when its rows were counted.
THEOREM TypeCorrect == Spec => []TypeOK
BY Inductive, Typed, PTL

\* ThrottlerGuard: a call is let in when fewer than the limit of each throttler were
\* let in during its time, and refused when as many as the limit of one were made.
THEOREM RateKept == Spec => []RateRespected
<1>1. IInv => RateRespected
  BY DEF IInv, RateInv
<1> QED
  BY Inductive, <1>1, PTL

\* RequestMiddleware and objectRecursiveFunctions: a password is only seen in the log
\* where checkFieldsExistence overlooks it, at any depth and width of a body.
THEOREM SecretsExplained == Spec => []SecretsLoggedHaveACause
<1>1. Init => Unmasked
  BY DEF Init, Unmasked, SecretsLoggedHaveACause
<1>2. IInv /\ Unmasked /\ [Next]_vars => Unmasked'
  BY Masked DEF IInv, Course
<1>3. Unmasked => SecretsLoggedHaveACause
  BY DEF Unmasked
<1> QED
  BY Inductive, <1>1, <1>2, <1>3, PTL DEF Spec

\* UserRepository and UserService.list: pages of a list that saw the same accounts
\* throughout hold as many rows as the limit at most, are empty from the total of
\* pages on, and have no account in common.
THEOREM PagesPartitioned == Spec => []PagesPartition
<1>1. IInv => PagesPartition
  BY Partitioned DEF IInv
<1> QED
  BY Inductive, <1>1, PTL

\* UploadService and S3Client: what was stored is there, and comes back as it was
\* sent unless it is binary and neither its type nor its name tells.
THEOREM FilesWhole == Spec => []FilesComeBackWhole
<1>1. IInv => FilesComeBackWhole
  BY WholeFiles DEF IInv
<1> QED
  BY Inductive, <1>1, PTL

\* HttpExceptionsFilter: a request that is never answered met an error that no one
\* wrapped, while its account and its file were still untouched; one that was cut off
\* has such a request beside it.
THEOREM UnansweredExplained == Spec => []UnansweredHasACause
BY Inductive, Causes, PTL

\* UserService: an account is as an answer says, unless another request gave the
\* column a value.
THEOREM AnswersKept == Spec => []AnswersHold
<1>1. IInv => AnswersHold
  BY AnswersAtLast DEF IInv
<1> QED
  BY Inductive, <1>1, PTL

\* ResponseInterceptor: a line with the id of another request names one that came
\* later to the same controller.
THEOREM LinesNamed == Spec => []LinesNameTheirRequest
<1>1. IInv => LinesNameTheirRequest
  BY NamedLines DEF IInv
<1> QED
  BY Inductive, <1>1, PTL

\* What a step of one request gives is what OnlyGivenFieldsChange allows.
LEMMA GivenChanges ==
  ASSUME IInv, [Next]_vars
  PROVE  [\A p \in People : \A part \in {"user", "preference"} :
            \A row \in people[p][part] : \E new \in people'[p][part] : \A c \in DOMAIN row :
              new[c] # row[c] => \E r \in Requests : {new[c]} = Given(r, p, part)[c]]_people
<1>1. ASSUME NEW r \in Requests, OnlyGivenBy(r), NEW p \in People,
             NEW part \in {"user", "preference"}, NEW row \in people[p][part]
      PROVE  \E new \in people'[p][part] : \A c \in DOMAIN row :
               new[c] # row[c] => \E o \in Requests : {new[c]} = Given(o, p, part)[c]
  <2>1. part \in Parts
    BY DEF Parts
  <2>2. PICK new : people'[p][part] = {new} /\ GivenBy(r, p, part, row, new)
    BY <1>1, <2>1 DEF OnlyGivenBy
  <2>3. \A c \in DOMAIN row : new[c] # row[c] => {new[c]} = Given(r, p, part)[c]
    BY <2>2 DEF GivenBy
  <2> QED
    BY <2>2, <2>3
<1>2. ASSUME NEW r \in Requests, Arrive(r) \/ Serves(r)
      PROVE  UNCHANGED people \/ OnlyGivenBy(r)
  BY <1>2, ProfilesGo DEF IInv
<1>3. UNCHANGED people \/ \E r \in Requests : OnlyGivenBy(r)
  BY <1>2 DEF Next, Serves, Close, Elapse, Outside, Over, vars, profiles
<1> QED
  BY <1>1, <1>3

\* UserService.update and UserRepository: a column only changes at a request that
\* gives it a value, and to that value.
THEOREM ChangesGiven == Spec => OnlyGivenFieldsChange
<1>1. IInv /\ [Next]_vars =>
        [\A p \in People : \A part \in {"user", "preference"} :
           \A row \in people[p][part] : \E new \in people'[p][part] : \A c \in DOMAIN row :
             new[c] # row[c] => \E r \in Requests : {new[c]} = Given(r, p, part)[c]]_people
  BY GivenChanges
<1> QED
  BY Inductive, <1>1, PTL DEF Spec, OnlyGivenFieldsChange

-----------------------------------------------------------------------------
(* What is on a page *)

OnPage(q, a) == LET place == Cardinality(Upto(q, Matching(q), a))
                IN Skip(q) < place /\ place <= Skip(q) + Or(q.limit, 0)

\* A list that saw the accounts as they are is in order, and holds those in the places
\* of its page and no other.
PagesExact ==
  \A r \in Requests : LET l == listing[r] IN
    Listed(r) /\ Paginated(l.query) /\ ByCreation(l.query) /\ l.since = changes =>
      /\ Sorted(l.query, l.rows)
      /\ ToSet(l.rows) = {a \in Matching(l.query) : OnPage(l.query, a)}

\* No place of a page is left out.
LEMMA Filled ==
  ASSUME NEW q \in Queries(Nat, Nat, SUBSET Accounts), Paginated(q),
         NEW S, IsFiniteSet(S), NEW s \in SetToSeqs(S),
         NEW i \in DOMAIN s, Skip(q) < i, i <= Skip(q) + Or(q.limit, 0)
  PROVE  s[i] \in ToSet(PageOf(q, s))
<1> DEFINE l == Or(q.limit, 0)
           k == Skip(q)
           m == Min({k + l, Len(s)})
<1>1. l \in Nat /\ k \in Nat
  BY Paged
<1>2. s \in Seq(S) /\ Len(s) \in Nat /\ DOMAIN s = 1 .. Len(s)
  BY Ordered
<1>3. PageOf(q, s) = SubSeq(s, k + 1, m)
  BY DEF PageOf
<1>4. m = IF k + l <= Len(s) THEN k + l ELSE Len(s)
  <2>1. k + l \in Nat
    BY <1>1
  <2>2. \A a, b \in Nat : Min({a, b}) = IF a <= b THEN a ELSE b
    BY MinOf
  <2> QED
    BY <1>2, <2>1, <2>2
<1> HIDE DEF k, l, m
<1>5. /\ m \in Nat /\ m <= Len(s) /\ i \in Nat /\ k < i /\ i <= m
  <2>1. k < i /\ i <= k + l /\ k \in Nat /\ l \in Nat
    BY <1>1 DEF k, l
  <2>2. i \in Nat /\ i <= Len(s) /\ Len(s) \in Nat
    BY <1>2
  <2>3. m \in Nat /\ m <= Len(s)
    BY <1>4, <2>1, <2>2
  <2>4. i <= m
    BY <1>4, <2>1, <2>2
  <2> QED
    BY <2>1, <2>2, <2>3, <2>4
<1>6. \A j \in (k + 1) .. m : s[j] \in S
  <2>1. \A j \in (k + 1) .. m : j \in 1 .. Len(s)
    BY <1>1, <1>2, <1>5
  <2> QED
    BY <1>2, <2>1, ElementOfSeq
<1>7. /\ SubSeq(s, k + 1, m) \in Seq(S)
      /\ Len(SubSeq(s, k + 1, m)) = IF k + 1 <= m THEN m - (k + 1) + 1 ELSE 0
      /\ \A j \in 1 .. (m - (k + 1) + 1) : SubSeq(s, k + 1, m)[j] = s[(k + 1) + j - 1]
  BY <1>1, <1>5, <1>6, SubSeqProperties
<1> DEFINE j == i - k
<1>8. j \in 1 .. (m - (k + 1) + 1) /\ (k + 1) + j - 1 = i /\ k + 1 <= m
  BY <1>1, <1>5
<1>9. j \in DOMAIN SubSeq(s, k + 1, m)
  BY <1>7, <1>8, LenProperties
<1> HIDE DEF j
<1>10. SubSeq(s, k + 1, m)[j] = s[i]
  BY <1>7, <1>8
<1> QED
  BY <1>3, <1>9, <1>10 DEF ToSet

\* A page holds the accounts in its places.
LEMMA Standing ==
  ASSUME NEW q \in Queries(Nat, Nat, SUBSET Accounts), Paginated(q),
         NEW S \in SUBSET Nat, IsFiniteSet(S), NEW s \in SetToSeqs(S), Sorted(q, s)
  PROVE  ToSet(PageOf(q, s)) = {a \in S : /\ Skip(q) < Cardinality(Upto(q, S, a))
                                          /\ Cardinality(Upto(q, S, a)) <= Skip(q) + Or(q.limit, 0)}
<1>1. \A i \in DOMAIN s : i = Cardinality(Upto(q, S, s[i]))
  BY Ranked
<1>2. \A x \in ToSet(PageOf(q, s)) :
        \E i \in DOMAIN s : x = s[i] /\ Skip(q) < i /\ i <= Skip(q) + Or(q.limit, 0)
  BY Paged
<1>3. ToSet(s) = S
  BY Ordered
<1>4. ASSUME NEW x \in ToSet(PageOf(q, s))
      PROVE  /\ x \in S /\ Skip(q) < Cardinality(Upto(q, S, x))
             /\ Cardinality(Upto(q, S, x)) <= Skip(q) + Or(q.limit, 0)
  <2>1. PICK i \in DOMAIN s : x = s[i] /\ Skip(q) < i /\ i <= Skip(q) + Or(q.limit, 0)
    BY <1>2
  <2>2. i = Cardinality(Upto(q, S, x))
    BY <1>1, <2>1
  <2>3. x \in S
    BY <1>3, <2>1 DEF ToSet
  <2> QED
    BY <2>1, <2>2, <2>3
<1>5. ASSUME NEW x \in S, Skip(q) < Cardinality(Upto(q, S, x)),
             Cardinality(Upto(q, S, x)) <= Skip(q) + Or(q.limit, 0)
      PROVE  x \in ToSet(PageOf(q, s))
  <2>1. PICK i \in DOMAIN s : x = s[i]
    BY <1>3 DEF ToSet
  <2>2. i = Cardinality(Upto(q, S, x))
    BY <1>1, <2>1
  <2>3. Skip(q) < i /\ i <= Skip(q) + Or(q.limit, 0)
    BY <1>5, <2>2
  <2> QED
    BY <2>1, <2>3, Filled
<1> QED
  BY <1>4, <1>5

LEMMA Exact == IInv => PagesExact
<1> SUFFICES ASSUME IInv, NEW r \in Requests, NEW q, q = listing[r].query,
                    Listed(r), Paginated(q), ByCreation(q), listing[r].since = changes
             PROVE  /\ Sorted(q, listing[r].rows)
                    /\ ToSet(listing[r].rows) = {a \in Matching(q) : OnPage(q, a)}
  BY DEF PagesExact
<1>1. /\ q \in Queries(Nat, Nat, SUBSET Accounts) /\ ListType /\ Matching(q) \in SUBSET active
      /\ Matching(q) \in SUBSET Nat
  BY MatchingActive, AccountsAssumption DEF IInv, ListInv, ListType, Lists
<1>2. Sorted(q, listing[r].rows)
  BY DEF IInv, ListInv, Gathered
<1>3. PICK s \in Rows(q, Matching(q)) :
        listing[r].ids = PageOf(q, s) /\ ToSet(listing[r].rows) = ToSet(listing[r].ids)
  BY DEF IInv, ListInv, Seen
<1>4. IsFiniteSet(Matching(q)) /\ s \in SetToSeqs(Matching(q)) /\ Sorted(q, s)
  BY <1>1, <1>3, Rowed DEF Rows
<1>5. ToSet(PageOf(q, s)) = {a \in Matching(q) : OnPage(q, a)}
  BY <1>1, <1>4, Standing DEF OnPage
<1> QED
  BY <1>2, <1>3, <1>5

\* user.query and UserRepository.list: the offset skips the pages before, page 0 too,
\* and nothing else.
THEOREM PagesAsAsked == Spec => []PagesExact
BY Inductive, Exact, PTL
=============================================================================
