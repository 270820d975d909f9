------------------------------ MODULE Throttling ------------------------------
(***************************************************************************)
(* The guard that limits the rate of the calls.  The hits of a client on a *)
(* handler are counted by each throttler, one after the other; a hit is    *)
(* forgotten when the time of its throttler has passed, also that of a     *)
(* call that was refused.                                                  *)
(***************************************************************************)
EXTENDS Naturals, Sequences, FiniteSets

CONSTANTS Keys,       \* one for each client and handler
          Throttlers, \* short, medium, long: [limit, ttl]
          MaxTime     \* bound of the clock

ASSUME ThrottlersAssumption == /\ Throttlers \in Seq([limit : Nat, ttl : Nat \ {0}])
                               /\ MaxTime \in Nat

VARIABLES
  now,  \* time
  hits, \* key, throttler -> the calls that still count, by their numbers
  calls \* history: key -> what was called, in order, and whether it was let in

throttling == <<now, hits, calls>>

Ranks == DOMAIN Throttlers

ThrottlingOK ==
  /\ now \in 0..MaxTime
  /\ calls \in [Keys -> Seq([at : 0..MaxTime, allowed : BOOLEAN])]
  /\ DOMAIN hits = Keys
  /\ \A k \in Keys : hits[k] \in [Ranks -> SUBSET DOMAIN calls[k]]

ThrottlingInit == /\ now = 0
                  /\ hits = [k \in Keys |-> [i \in Ranks |-> {}]]
                  /\ calls = [k \in Keys |-> <<>>]

\* Mutant: the last hit is not counted.
LenientExceeded(k) == {i \in Ranks : Cardinality(hits[k][i]) > Throttlers[i].limit}

\* totalHits > limit, the hit of this call included.
Exceeded(k) == {i \in Ranks : Cardinality(hits[k][i]) + 1 > Throttlers[i].limit}

Allowed(k) == Exceeded(k) = {}

\* The guard stops at the first throttler that refuses: those after it do not
\* count the call.
Counting(k) == {i \in Ranks : \A j \in 1..(i - 1) : j \notin Exceeded(k)}

\* handleRequest, for each of the throttlers.
Hit(k) == /\ hits' = [hits EXCEPT ![k] = [i \in Ranks |->
                        IF i \in Counting(k) THEN @[i] \cup {Len(calls[k]) + 1} ELSE @[i]]]
          /\ calls' = [calls EXCEPT ![k] = Append(@, [at |-> now, allowed |-> Allowed(k)])]
          /\ UNCHANGED now

\* Hits whose time has passed are forgotten.
Tick == /\ now < MaxTime
        /\ now' = now + 1
        /\ hits' = [k \in Keys |-> [i \in Ranks |->
                      {n \in hits[k][i] : calls[k][n].at + Throttlers[i].ttl > now'}]]
        /\ UNCHANGED calls

-----------------------------------------------------------------------------
(* Properties *)

\* The calls before the n-th one in the time of throttler i.
Before(k, n, i) ==
  {m \in 1..(n - 1) : calls[k][m].at + Throttlers[i].ttl > calls[k][n].at}

\* In no stretch of time, wherever it begins, more calls are let in than a
\* throttler allows ("3 calls per second"), and a call is only refused when one of
\* them had as many calls in its time as it allows, refused ones counted.
RateRespected ==
  \A k \in Keys : \A n \in DOMAIN calls[k] :
    IF calls[k][n].allowed
      THEN \A i \in Ranks :
             Cardinality({m \in Before(k, n, i) : calls[k][m].allowed}) < Throttlers[i].limit
      ELSE \E i \in Ranks : Cardinality(Before(k, n, i)) >= Throttlers[i].limit
=============================================================================
