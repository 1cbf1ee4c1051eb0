---------------------------- MODULE RateLimiter -----------------------------
(***************************************************************************)
(* The limiter of failed attempts per client address (backend/ratelimit.go)*)
(* and the handlers that ask it before they work and tell it afterwards    *)
(* (auth.go Login, Setup, ChangePassword, CreateUser; oidc.go OIDCLogin,   *)
(* OIDCCallback).  Each call holds the mutex; between allow and            *)
(* recordFailure a handler reads the database and compares hashes while    *)
(* other requests, the sweeper and the clock go on.                        *)
(*                                                                         *)
(* Times are kept relative to now: left[a] is windowEnd - now in ticks, -1 *)
(* once now is after windowEnd.                                            *)
(***************************************************************************)
EXTENDS Integers, FiniteSets

CONSTANTS Addrs,        \* client addresses
          Requests,     \* request slots: how many requests may be in flight
          MaxFailures,  \* rlMaxFailures
          Window,       \* rlWindow in ticks
          NoAddr        \* the slot is free

ASSUME LimitAssumption == MaxFailures \in Nat \ {0} /\ Window \in Nat
ASSUME RequestsAssumption == IsFiniteSet(Requests)
ASSUME NoAddrAssumption == NoAddr \notin Addrs

VARIABLES
  failures,   \* per address: ipState.failures, 0 where entries has no such key
  left,       \* per address: windowEnd - now, -1 when it is over
  from,       \* per slot: the address whose attempt is being served
  up          \* the process runs

vars == <<failures, left, from, up>>

Init == /\ failures = [a \in Addrs |-> 0]
        /\ left = [a \in Addrs |-> -1]
        /\ from = [r \in Requests |-> NoAddr]
        /\ up = TRUE

Expired(a) == failures[a] = 0 \/ left[a] < 0

BugAllowNoExpiry(a) == failures[a] < MaxFailures
BugAllowOneMore(a) == Expired(a) \/ failures[a] <= MaxFailures

Allow(a) == Expired(a) \/ failures[a] < MaxFailures

Done(r) == from' = [from EXCEPT ![r] = NoAddr] /\ UNCHANGED up

(* The handler asks; when it may not go on it answers 429 and is gone.     *)
Begin(r, a) ==
  /\ up /\ from[r] = NoAddr
  /\ Allow(a)
  /\ from' = [from EXCEPT ![r] = a]
  /\ UNCHANGED <<failures, left, up>>

RecordFailure(r) ==
  /\ from[r] # NoAddr
  /\ \/ /\ Expired(from[r])
        /\ failures' = [failures EXCEPT ![from[r]] = 1]
        /\ left' = [left EXCEPT ![from[r]] = Window]
     \/ /\ ~Expired(from[r])
        /\ failures' = [failures EXCEPT ![from[r]] = @ + 1]
        /\ UNCHANGED left
  /\ Done(r)

BugRecordSuccessDecrements(r) ==
  /\ from[r] # NoAddr
  /\ failures' = [failures EXCEPT ![from[r]] = @ - 1]
  /\ UNCHANGED left
  /\ Done(r)

RecordSuccess(r) ==
  /\ from[r] # NoAddr
  /\ failures' = [failures EXCEPT ![from[r]] = 0]
  /\ left' = [left EXCEPT ![from[r]] = -1]
  /\ Done(r)

(* Setup and OIDCLogin never tell the limiter; the others do not when the  *)
(* request is malformed or the database fails.                             *)
End(r) ==
  /\ from[r] # NoAddr
  /\ Done(r)
  /\ UNCHANGED <<failures, left>>

BugSweepLive ==
  /\ failures' = [a \in Addrs |-> 0]
  /\ UNCHANGED <<left, from, up>>

Sweep ==
  /\ failures' = [a \in Addrs |-> IF Expired(a) THEN 0 ELSE failures[a]]
  /\ UNCHANGED <<left, from, up>>

Tick ==
  /\ left' = [a \in Addrs |-> IF left[a] >= 0 THEN left[a] - 1 ELSE left[a]]
  /\ UNCHANGED <<failures, from, up>>

(* The process is killed, and some time later started again. *)
Kill ==
  /\ up /\ up' = FALSE
  /\ failures' = [a \in Addrs |-> 0]
  /\ left' = [a \in Addrs |-> -1]
  /\ from' = [r \in Requests |-> NoAddr]

Start == ~up /\ up' = TRUE /\ UNCHANGED <<failures, left, from>>

Serve(r) == RecordFailure(r) \/ RecordSuccess(r) \/ End(r)

Next == \/ \E r \in Requests : Serve(r) \/ \E a \in Addrs : Begin(r, a)
        \/ Sweep \/ Tick \/ Kill \/ Start

Spec == Init /\ [][Next]_vars

(* Time passes.  Nothing is assumed of the sweeper. *)
FairSpec == Spec /\ WF_vars(Tick)

----------------------------------------------------------------------------

TypeOK ==
  /\ failures \in [Addrs -> Nat]
  /\ left \in [Addrs -> -1..Window]
  /\ from \in [Requests -> Addrs \cup {NoAddr}]
  /\ up \in BOOLEAN

Count(a) == IF Expired(a) THEN 0 ELSE failures[a]
Pending(a) == {r \in Requests : from[r] = a}

(* Although the check and the count are two critical sections, the         *)
(* failures of one window exceed the limit by at most the requests that    *)
(* can be in flight.                                                       *)
FailuresBounded ==
  \A a \in Addrs :
    Count(a) + Cardinality(Pending(a)) <= MaxFailures - 1 + Cardinality(Requests)

(* A blocked address is let in again, with or without the sweeper.         *)
BlockLifts == \A a \in Addrs : ~Allow(a) ~> Allow(a)

(* What counts against an address is what LoginWindow says: although       *)
(* entries expire lazily and a sweeper removes them beside the handlers,   *)
(* no failure is forgotten before its window is over but by a success of   *)
(* the same address or by the end of the process.                          *)
Promise == INSTANCE LoginWindow WITH
         count <- [a \in Addrs |-> Count(a)],
         left <- [a \in Addrs |-> IF Expired(a) THEN 0 ELSE left[a]],
         Limit <- MaxFailures

WindowSpec == Promise!Spec
=============================================================================
