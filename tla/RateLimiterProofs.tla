-------------------------- MODULE RateLimiterProofs --------------------------
(***************************************************************************)
(* Proofs about RateLimiter, for every set of addresses and requests and   *)
(* every limit and window, and about SignOn, which is served under it, for *)
(* every set of flows, people and ids.                                     *)
(***************************************************************************)
EXTENDS SignOn, FiniteSetTheorems, TLAPS

LEMMA TypeStep == TypeOK /\ [Next]_vars => TypeOK'
<1> SUFFICES ASSUME TypeOK, [Next]_vars PROVE TypeOK'
  OBVIOUS
<1> USE LimitAssumption, NoAddrAssumption DEF TypeOK, Done
<1>1. ASSUME NEW r \in Requests, NEW a \in Addrs, Begin(r, a) PROVE TypeOK'
  BY <1>1 DEF Begin
<1>2. ASSUME NEW r \in Requests, RecordFailure(r) PROVE TypeOK'
  BY <1>2 DEF RecordFailure
<1>3. ASSUME NEW r \in Requests, RecordSuccess(r) PROVE TypeOK'
  BY <1>3 DEF RecordSuccess
<1>4. ASSUME NEW r \in Requests, End(r) PROVE TypeOK'
  BY <1>4 DEF End
<1>5. CASE Sweep
  BY <1>5 DEF Sweep
<1>6. CASE Tick
  BY <1>6 DEF Tick
<1>7. CASE Kill \/ Start
  <2>1. failures' \in [Addrs -> Nat] /\ left' \in [Addrs -> -1..Window]
    BY <1>7 DEF Kill, Start
  <2>2. from' \in [Requests -> Addrs \cup {NoAddr}]
    BY <1>7 DEF Kill, Start
  <2>3. up' \in BOOLEAN
    BY <1>7 DEF Kill, Start
  <2> QED
    BY <2>1, <2>2, <2>3
<1>8. CASE UNCHANGED vars
  BY <1>8 DEF vars
<1> QED
  BY <1>1, <1>2, <1>3, <1>4, <1>5, <1>6, <1>7, <1>8 DEF Next, Serve

LEMMA TypeInit == Init => TypeOK
BY LimitAssumption, NoAddrAssumption DEF Init, TypeOK

(* Counters, windows and requests keep their types.                        *)
THEOREM TypeCorrect == Spec => []TypeOK
BY TypeInit, TypeStep, PTL DEF Spec

----------------------------------------------------------------------------
(* The limit.                                                              *)

LEMMA PendingSize ==
  ASSUME NEW S \in SUBSET Requests
  PROVE  /\ Cardinality(S) \in Nat /\ Cardinality(Requests) \in Nat
         /\ Cardinality(S) <= Cardinality(Requests)
         /\ \A r \in Requests : Cardinality(S \ {r}) =
              IF r \in S THEN Cardinality(S) - 1 ELSE Cardinality(S)
<1>1. IsFiniteSet(S) /\ IsFiniteSet(Requests)
  BY RequestsAssumption, FS_Subset
<1> QED
  BY <1>1, RequestsAssumption, FS_Subset, FS_CardinalityType, FS_RemoveElement

LEMMA CountType ==
  ASSUME TypeOK, NEW a \in Addrs
  PROVE  Count(a) \in Nat /\ Pending(a) \in SUBSET Requests
BY DEF TypeOK, Count, Pending

(* The slot r has been answered: one request less of its address.          *)
LEMMA DonePending ==
  ASSUME TypeOK, NEW r \in Requests, from[r] # NoAddr, Done(r), NEW a \in Addrs
  PROVE  Pending(a)' = Pending(a) \ {r} /\ (r \in Pending(a) <=> from[r] = a)
BY NoAddrAssumption DEF TypeOK, Done, Pending

LEMMA BoundStep == TypeOK /\ FailuresBounded /\ [Next]_vars => FailuresBounded'
<1> SUFFICES ASSUME TypeOK, FailuresBounded, [Next]_vars, NEW a \in Addrs
             PROVE  (Count(a) + Cardinality(Pending(a)))' <= MaxFailures - 1 + Cardinality(Requests)
  BY DEF FailuresBounded
<1> DEFINE n == Cardinality(Pending(a))
           N == Cardinality(Requests)
           Goal == Count(a)' + n' <= MaxFailures - 1 + N
<1>0. /\ Count(a) \in Nat /\ Count(a)' \in Nat /\ n \in Nat /\ n' \in Nat /\ N \in Nat
      /\ n <= N /\ n' <= N /\ Count(a) + n <= MaxFailures - 1 + N /\ MaxFailures \in Nat \ {0}
  <2>1. TypeOK'
    BY TypeStep
  <2>2. Count(a) \in Nat /\ Count(a)' \in Nat /\ Pending(a) \in SUBSET Requests /\ Pending(a)' \in SUBSET Requests
    BY <2>1, CountType DEF Pending, TypeOK, Count
  <2> QED
    BY <2>2, PendingSize, LimitAssumption DEF FailuresBounded
<1>1. ASSUME NEW r \in Requests, NEW b \in Addrs, Begin(r, b) PROVE Goal
  <2>1. Count(a)' = Count(a)
    BY <1>1 DEF Begin, Count, Expired
  <2>2. CASE b = a
    <3>1. Count(a) <= MaxFailures - 1
      BY <1>0, <1>1, <2>2, LimitAssumption DEF Begin, Allow, Count, TypeOK
    <3> HIDE DEF n, N
    <3> QED
      BY <1>0, <2>1, <3>1
  <2>3. CASE b # a
    <3>1. Pending(a)' = Pending(a)
      BY <1>1, <2>3, NoAddrAssumption DEF Begin, Pending, TypeOK
    <3> QED
      BY <1>0, <2>1, <3>1
  <2> QED
    BY <2>2, <2>3
<1>2. ASSUME NEW r \in Requests, RecordFailure(r) PROVE Goal
  <2>1. Pending(a)' = Pending(a) \ {r} /\ (r \in Pending(a) <=> from[r] = a)
    BY <1>2, DonePending DEF RecordFailure
  <2>2. n' = IF from[r] = a THEN n - 1 ELSE n
    BY <2>1, PendingSize, CountType
  <2>3. CASE from[r] = a
    <3>1. Count(a)' \in {1, Count(a) + 1}
      BY <1>2, <2>3, LimitAssumption DEF RecordFailure, Count, Expired, TypeOK
    <3> HIDE DEF n, N
    <3> QED
      BY <1>0, <2>2, <2>3, <3>1
  <2>4. CASE from[r] # a
    <3>1. Count(a)' = Count(a)
      BY <1>2, <2>4 DEF RecordFailure, Count, Expired, TypeOK
    <3> QED
      BY <1>0, <2>2, <2>4, <3>1
  <2> QED
    BY <2>3, <2>4
<1>3. ASSUME NEW r \in Requests, RecordSuccess(r) \/ End(r) PROVE Goal
  <2>1. Pending(a)' = Pending(a) \ {r}
    BY <1>3, DonePending DEF RecordSuccess, End
  <2>2. n' <= n
    BY <1>0, <2>1, PendingSize, CountType
  <2>3. Count(a)' \in {0, Count(a)}
    BY <1>3 DEF RecordSuccess, End, Count, Expired, TypeOK
  <2> HIDE DEF n, N
  <2> QED
    BY <1>0, <2>2, <2>3
<1>4. CASE Sweep \/ Tick \/ Start \/ UNCHANGED vars
  <2>1. Pending(a)' = Pending(a)
    BY <1>4 DEF Sweep, Tick, Start, vars, Pending
  <2>2. Count(a)' \in {0, Count(a)}
    BY <1>4 DEF Sweep, Tick, Start, vars, Count, Expired, TypeOK
  <2> QED
    BY <1>0, <2>1, <2>2
<1>5. CASE Kill
  <2>1. Count(a)' = 0
    BY <1>5 DEF Kill, Count, Expired
  <2> QED
    BY <1>0, <2>1
<1> QED
  BY <1>1, <1>2, <1>3, <1>4, <1>5 DEF Next, Serve

(* The failures that count against an address never exceed the limit by    *)
(* more than the requests that can be in flight, less one.                 *)
THEOREM FailuresAreBounded == Spec => []FailuresBounded
<1>1. Init => FailuresBounded
  <2> SUFFICES ASSUME Init, NEW a \in Addrs
               PROVE  Count(a) + Cardinality(Pending(a)) <= MaxFailures - 1 + Cardinality(Requests)
    BY DEF FailuresBounded
  <2>1. Count(a) = 0 /\ TypeOK
    BY TypeInit DEF Init, Count, Expired
  <2> QED
    BY <2>1, CountType, PendingSize, LimitAssumption
<1> QED
  BY TypeInit, TypeStep, <1>1, BoundStep, PTL DEF Spec

----------------------------------------------------------------------------
(* The limiter implements LoginWindow.                                     *)

(* What LoginWindow sees of an address. *)
Left(a) == IF Expired(a) THEN 0 ELSE left[a]

LEMMA SeenSame ==
  ASSUME \A a \in Addrs : Count(a)' = Count(a) /\ Left(a)' = Left(a)
  PROVE  UNCHANGED <<[a \in Addrs |-> Count(a)],
                     [a \in Addrs |-> IF Expired(a) THEN 0 ELSE left[a]]>>
BY DEF Left

LEMMA WindowStep ==
  ASSUME TypeOK, [Next]_vars
  PROVE  [Promise!Next]_<<[a \in Addrs |-> Count(a)],
                          [a \in Addrs |-> IF Expired(a) THEN 0 ELSE left[a]], from, up>>
<1> DEFINE same == UNCHANGED <<[a \in Addrs |-> Count(a)],
                               [a \in Addrs |-> IF Expired(a) THEN 0 ELSE left[a]]>>
<1> USE DEF TypeOK
<1>1. CASE UNCHANGED vars \/ Sweep
  <2>1. \A a \in Addrs : Count(a)' = Count(a) /\ Left(a)' = Left(a)
    BY <1>1 DEF vars, Sweep, Count, Expired, Left
  <2>2. UNCHANGED <<from, up>>
    BY <1>1 DEF vars, Sweep
  <2> QED
    BY <2>1, <2>2, SeenSame
<1>2. ASSUME NEW r \in Requests, NEW a \in Addrs, Begin(r, a) PROVE Promise!Ask(r, a)
  <2>1. \A b \in Addrs : Count(b)' = Count(b) /\ Left(b)' = Left(b)
    BY <1>2 DEF Begin, Count, Expired, Left
  <2>2. Count(a) < MaxFailures
    BY <1>2, LimitAssumption DEF Begin, Allow, Count
  <2>3. same
    BY <2>1, SeenSame
  <2> HIDE DEF Count, Expired
  <2> QED
    BY <1>2, <2>2, <2>3 DEF Begin, Promise!Ask
<1>3. ASSUME NEW r \in Requests, End(r) PROVE Promise!Leave(r)
  <2>1. \A b \in Addrs : Count(b)' = Count(b) /\ Left(b)' = Left(b)
    BY <1>3 DEF End, Count, Expired, Left
  <2>2. same
    BY <2>1, SeenSame
  <2> QED
    BY <1>3, <2>2 DEF End, Done, Promise!Leave, Promise!Over
<1>4. ASSUME NEW r \in Requests, RecordFailure(r) PROVE Promise!Fail(r)
  <2>0. PICK b \in Addrs : from[r] = b
    BY <1>4 DEF RecordFailure
  <2>1. /\ failures'[b] > 0 /\ left'[b] >= 0
        /\ failures'[b] = IF Expired(b) THEN 1 ELSE failures[b] + 1
        /\ left'[b] = IF Expired(b) THEN Window ELSE left[b]
    BY <1>4, <2>0, LimitAssumption DEF RecordFailure, Expired
  <2>2. \A a \in Addrs : a # b => failures'[a] = failures[a] /\ left'[a] = left[a]
    BY <1>4, <2>0 DEF RecordFailure
  <2>3. \A a \in Addrs : Count(a)' = IF a = b THEN Count(a) + 1 ELSE Count(a)
    BY <2>1, <2>2, LimitAssumption DEF Count, Expired
  <2>4. \A a \in Addrs : Left(a)' = IF a = b /\ Count(a) = 0 THEN Window ELSE Left(a)
    BY <2>1, <2>2, LimitAssumption DEF Count, Expired, Left
  <2>5. Promise!Over(r)
    BY <1>4 DEF RecordFailure, Done, Promise!Over
  <2> QED
    BY <2>0, <2>3, <2>4, <2>5 DEF Promise!Fail, Left
<1>5. ASSUME NEW r \in Requests, RecordSuccess(r) PROVE Promise!Succeed(r)
  <2>0. PICK b \in Addrs : from[r] = b
    BY <1>5 DEF RecordSuccess
  <2>1. \A a \in Addrs : /\ Count(a)' = IF a = b THEN 0 ELSE Count(a)
                         /\ Left(a)' = IF a = b THEN 0 ELSE Left(a)
    BY <1>5, <2>0 DEF RecordSuccess, Count, Expired, Left
  <2>2. Promise!Over(r)
    BY <1>5 DEF RecordSuccess, Done, Promise!Over
  <2> QED
    BY <2>0, <2>1, <2>2 DEF Promise!Succeed, Left
<1>6. ASSUME Tick PROVE Promise!Tick
  BY <1>6, LimitAssumption DEF Tick, Promise!Tick, Count, Expired
<1>7. ASSUME Kill PROVE Promise!Down
  BY <1>7 DEF Kill, Promise!Down, Count, Expired
<1>8. ASSUME Start PROVE Promise!Up
  <2>1. \A b \in Addrs : Count(b)' = Count(b) /\ Left(b)' = Left(b)
    BY <1>8 DEF Start, Count, Expired, Left
  <2>2. same
    BY <2>1, SeenSame
  <2> QED
    BY <1>8, <2>2 DEF Start, Promise!Up
<1> QED
  BY <1>1, <1>2, <1>3, <1>4, <1>5, <1>6, <1>7, <1>8 DEF Next, Serve, Promise!Next

(* The limiter, whose entries expire lazily and are swept beside the       *)
(* handlers, forgets a failure only when LoginWindow says so.              *)
THEOREM LimiterImplementsWindow == Spec => WindowSpec
<1>1. Init => Promise!Init
  BY DEF Init, Promise!Init, Count, Expired
<1>2. TypeOK /\ [Next]_vars
        => [Promise!Next]_<<[a \in Addrs |-> Count(a)],
                            [a \in Addrs |-> IF Expired(a) THEN 0 ELSE left[a]], from, up>>
  BY WindowStep
<1> QED
  BY TypeInit, TypeStep, <1>1, <1>2, PTL DEF Spec, WindowSpec, Promise!Spec

----------------------------------------------------------------------------
(* SignOn.                                                                 *)

(* Seen from the limiter, the handlers of SignOn are requests like others. *)
LEMMA SignOnStepsAreRequests ==
  ASSUME [SignOnNext]_signOnVars
  PROVE  [Next]_vars
<1> USE DEF Serve, Next
<1>1. CASE Discover \/ UNCHANGED signOnVars \/ Sweeper \/ Reboot \/ Time
  BY <1>1 DEF Discover, signOnVars, Sweeper, Reboot, Time
<1>2. ASSUME NEW r \in Requests, NEW a \in Addrs,
             AskLogin(r, a) \/ AskOther(r, a) \/ \E f \in Flows : AskCallback(r, a, f)
      PROVE  Next
  BY <1>2 DEF AskLogin, AskOther, AskCallback
<1>3. ASSUME NEW r \in Requests,
             \/ \E f \in Flows : OIDCLogin(r, f)
             \/ CallbackFails(r) \/ Callback(r) \/ Other(r)
      PROVE  Next
  BY <1>3 DEF OIDCLogin, CallbackFails, Callback, Other
<1>4. ASSUME \/ \E r \in Requests : CheckState(r) \/ Exchange(r)
             \/ \E f \in Flows, p \in People : Authenticate(f, p)
             \/ \E a \in Addrs : EndSession(a)
             \/ \E p \in People : CreateUser(p)
             \/ \E i \in Ids : DeleteUser(i)
      PROVE  UNCHANGED vars
  BY <1>4 DEF CheckState, Exchange, Authenticate, EndSession, CreateUser, DeleteUser
<1> QED
  BY <1>1, <1>2, <1>3, <1>4 DEF SignOnNext

(* The sign-on handlers are under the limiter: what is proved of it above, *)
(* the bound on the failures with it, holds while they are at work.        *)
THEOREM SignOnIsLimited == SignOnSpec => Spec
<1>1. SignOnInit => Init
  BY DEF SignOnInit
<1>2. [SignOnNext]_signOnVars => [Next]_vars
  BY SignOnStepsAreRequests
<1> QED
  BY <1>1, <1>2, PTL DEF SignOnSpec, Spec

(* A callback whose state was accepted had a cookie. *)
Job == {j \in [kind : {"none", "login", "callback", "exchange", "other"}, flow : Flows \cup {NoFlow},
               cookie : Flows \cup {NoFlow}, who : People \cup {NoOne}] :
          j.kind = "exchange" => j.cookie # NoFlow}
Flow == [browser : Addrs \cup {NoAddr}, left : Int, who : People \cup {NoOne}]
Session == [id : Nat, who : People \cup {NoOne}]

SignOnTypes ==
  /\ from \in [Requests -> Addrs \cup {NoAddr}]
  /\ job \in [Requests -> Job]
  /\ cookie \in [Addrs -> Flows \cup {NoFlow}]
  /\ flow \in [Flows -> Flow]
  /\ session \in [Addrs -> Session]
  /\ account \in [Ids -> People \cup {NoOne}]
  /\ lastId \in Nat

LEMMA FromStep ==
  ASSUME from \in [Requests -> Addrs \cup {NoAddr}], NEW r \in Requests
  PROVE  /\ \A a \in Addrs : Begin(r, a)
              => from' \in [Requests -> Addrs \cup {NoAddr}] /\ from' = [from EXCEPT ![r] = a]
         /\ Serve(r) => /\ from' \in [Requests -> Addrs \cup {NoAddr}]
                        /\ from[r] \in Addrs
                        /\ from' = [from EXCEPT ![r] = NoAddr]
BY DEF Begin, Serve, RecordFailure, RecordSuccess, End, Done

LEMMA NoneTypes == NoJob \in Job /\ NewFlow \in Flow /\ NoSession \in Session
BY DEF NoJob, Job, NewFlow, Flow, NoSession, Session

LEMMA FlowBegun ==
  ASSUME NEW x \in Flow, NEW b \in Addrs
  PROVE  [x EXCEPT !.browser = b, !.left = TTL] \in Flow
<1>1. [x EXCEPT !.browser = b] \in Flow
  BY DEF Flow
<1>2. \A y \in Flow : [y EXCEPT !.left = TTL] \in Flow
  BY SignOnAssumption DEF Flow
<1>3. [[x EXCEPT !.browser = b] EXCEPT !.left = TTL] \in Flow
  BY <1>1, <1>2
<1>4. [x EXCEPT !.browser = b, !.left = TTL] = [[x EXCEPT !.browser = b] EXCEPT !.left = TTL]
  OBVIOUS
<1> QED
  BY <1>3, <1>4

LEMMA SignOnTypesStep == SignOnTypes /\ [SignOnNext]_signOnVars => SignOnTypes'
<1> SUFFICES ASSUME SignOnTypes, [SignOnNext]_signOnVars PROVE SignOnTypes'
  OBVIOUS
<1> USE SignOnAssumption, NoneTypes DEF SignOnTypes, SetJob, vars
<1>1. CASE Discover \/ UNCHANGED signOnVars \/ Sweeper
  BY <1>1 DEF Discover, signOnVars, state, Sweeper, Sweep
<1>2. ASSUME NEW r \in Requests, NEW a \in Addrs, AskLogin(r, a) \/ AskOther(r, a) PROVE SignOnTypes'
  <2>1. [NoJob EXCEPT !.kind = "login"] \in Job /\ [NoJob EXCEPT !.kind = "other"] \in Job
    BY DEF Job, NoJob
  <2> QED
    BY <1>2, <2>1, FromStep DEF AskLogin, AskOther
<1>3. ASSUME NEW r \in Requests, NEW a \in Addrs, NEW f \in Flows, AskCallback(r, a, f) PROVE SignOnTypes'
  <2>1. [NoJob EXCEPT !.kind = "callback", !.flow = f, !.cookie = cookie[a]] \in Job
    BY DEF Job, NoJob
  <2> QED
    BY <1>3, <2>1, FromStep DEF AskCallback
<1>4. ASSUME NEW r \in Requests, NEW f \in Flows, OIDCLogin(r, f) PROVE SignOnTypes'
  <2>1. End(r) /\ from[r] \in Addrs /\ from' \in [Requests -> Addrs \cup {NoAddr}]
    BY <1>4, FromStep DEF OIDCLogin, Serve
  <2>2. flow' \in [Flows -> Flow]
    <3>1. CASE ready
      <4>1. [flow[f] EXCEPT !.browser = from[r], !.left = TTL] \in Flow
        BY <2>1, FlowBegun
      <4>2. flow' = [flow EXCEPT ![f] = [flow[f] EXCEPT !.browser = from[r], !.left = TTL]]
        BY <1>4, <3>1 DEF OIDCLogin
      <4> QED
        BY <4>1, <4>2
    <3>2. CASE ~ready
      BY <1>4, <3>2 DEF OIDCLogin
    <3> QED
      BY <3>1, <3>2
  <2>3. cookie' \in [Addrs -> Flows \cup {NoFlow}] /\ job' \in [Requests -> Job]
    BY <1>4, <2>1 DEF OIDCLogin
  <2> QED
    BY <1>4, <2>1, <2>2, <2>3 DEF OIDCLogin
<1>5. ASSUME NEW f \in Flows, NEW p \in People, Authenticate(f, p) PROVE SignOnTypes'
  BY <1>5 DEF Authenticate, Flow
<1>6. ASSUME NEW r \in Requests, CheckState(r) \/ Exchange(r) PROVE SignOnTypes'
  <2>1. job[r] \in Job
    OBVIOUS
  <2>2. CASE CheckState(r)
    <3>1. [job[r] EXCEPT !.kind = "exchange"] \in Job
      BY <2>1, <2>2 DEF CheckState, Job
    <3> QED
      BY <2>2, <3>1 DEF CheckState
  <2>3. CASE Exchange(r)
    <3>1. flow[job[r].flow].who \in People \cup {NoOne}
      BY <2>1, <2>3 DEF Exchange, Belongs, Job, Flow
    <3>2. [job[r] EXCEPT !.who = flow[job[r].flow].who] \in Job
      <4> DEFINE w == flow[job[r].flow].who
      <4> HIDE DEF w, SignOnTypes
      <4>1. w \in People \cup {NoOne}
        BY <3>1 DEF w
      <4>2. [job[r] EXCEPT !.who = w] \in Job
        BY <2>1, <4>1 DEF Job
      <4> QED
        BY <4>2 DEF w
    <3> QED
      BY <2>3, <3>2 DEF Exchange
  <2> QED
    BY <1>6, <2>2, <2>3
<1>7. ASSUME NEW r \in Requests, CallbackFails(r) PROVE SignOnTypes'
  BY <1>7, FromStep DEF CallbackFails, ClearCookie, Serve
<1>8. ASSUME NEW r \in Requests, Callback(r) PROVE SignOnTypes'
  <2>1. from[r] \in Addrs /\ from' \in [Requests -> Addrs \cup {NoAddr}]
    BY <1>8, FromStep DEF Callback, Serve
  <2>2. job' \in [Requests -> Job] /\ cookie' \in [Addrs -> Flows \cup {NoFlow}]
        /\ flow' = flow
    BY <1>8 DEF Callback, ClearCookie
  <2>3. job[r].who \in People \cup {NoOne}
    BY DEF Job
  <2>4. ASSUME NEW i \in Ids, Open(r, i) PROVE session' \in [Addrs -> Session]
    BY <2>1, <2>3, <2>4 DEF Open, Session
  <2>5. session' \in [Addrs -> Session]
    BY <1>8, <2>4 DEF Callback, Live, Insert
  <2>6. account' \in [Ids -> People \cup {NoOne}] /\ lastId' \in Nat
    BY <1>8, <2>3 DEF Callback, Insert, NewId
  <2> QED
    BY <2>1, <2>2, <2>5, <2>6
<1>9. ASSUME NEW a \in Addrs, EndSession(a) PROVE SignOnTypes'
  BY <1>9 DEF EndSession
<1>10. ASSUME NEW p \in People, CreateUser(p) PROVE SignOnTypes'
  BY <1>10 DEF CreateUser, Insert, NewId
<1>11. ASSUME NEW i \in Ids, DeleteUser(i) PROVE SignOnTypes'
  BY <1>11 DEF DeleteUser
<1>12. ASSUME NEW r \in Requests, Other(r) PROVE SignOnTypes'
  BY <1>12, FromStep DEF Other
<1>13. CASE Reboot
  BY <1>13 DEF Reboot, Kill, Start
<1>14. CASE Time
  <2> DEFINE older(f) == IF flow[f].left >= 0 THEN flow[f].left - 1 ELSE flow[f].left
  <2>1. ASSUME NEW f \in Flows PROVE [flow[f] EXCEPT !.left = older(f)] \in Flow
    <3>1. flow[f] \in Flow /\ older(f) \in Int
      BY DEF Flow
    <3> HIDE DEF older
    <3> QED
      BY <3>1 DEF Flow
  <2>2. flow' = [f \in Flows |-> [flow[f] EXCEPT !.left = older(f)]]
    BY <1>14 DEF Time
  <2>3. flow' \in [Flows -> Flow]
    <3> HIDE DEF older
    <3> QED
      BY <2>1, <2>2
  <2> QED
    BY <1>14, <2>3 DEF Time, Tick
<1> QED
  BY <1>1, <1>2, <1>3, <1>4, <1>5, <1>6, <1>7, <1>8, <1>9, <1>10, <1>11, <1>12, <1>13, <1>14
  DEF SignOnNext

LEMMA SignOnTypesInit == SignOnInit => SignOnTypes
BY SignOnAssumption, NoneTypes DEF SignOnInit, Init, SignOnTypes

(* Ids are given out in order and never twice: no row and no session has   *)
(* one above lastId.                                                       *)
IdsOnce ==
  /\ \A i \in Live : 1 <= i /\ i <= lastId
  /\ \A a \in Addrs : session[a].id <= lastId
  /\ OwnSession

(* What Callback and CreateUser do to the table: the row they add has an   *)
(* id no session holds.                                                    *)
LEMMA InsertIsNew ==
  ASSUME SignOnTypes, IdsOnce, NEW p \in People, Insert(p)
  PROVE  /\ NewId \in Ids \cap Live' /\ NewId \notin Live /\ account'[NewId] = p
         /\ lastId' = NewId /\ lastId < NewId
         /\ Live' = Live \cup {NewId}
         /\ \A i \in Live : account'[i] = account[i]
         /\ \A i \in Live' : 1 <= i /\ i <= lastId'
         /\ \A a \in Addrs : session[a].id <= lastId' /\ session[a].id # NewId
<1>1. /\ NewId \in Ids /\ account' = [account EXCEPT ![NewId] = p]
      /\ lastId' = NewId /\ NewId = lastId + 1 /\ lastId \in Nat /\ lastId < NewId
  BY DEF Insert, NewId, SignOnTypes
<1>2. NewId \notin Live
  BY <1>1, SignOnAssumption DEF IdsOnce, Live
<1>3. p # NoOne
  BY SignOnAssumption
<1>4. account'[NewId] = p /\ \A i \in Ids : i # NewId => account'[i] = account[i]
  BY <1>1 DEF SignOnTypes
<1>5. Live' = Live \cup {NewId}
  BY <1>1, <1>3, <1>4 DEF Live
<1>6. \A i \in Live' : 1 <= i /\ i <= lastId'
  BY <1>1, <1>5, SignOnAssumption DEF IdsOnce, Live
<1>7. \A a \in Addrs : session[a].id \in Nat
  BY DEF SignOnTypes, Session
<1>8. \A a \in Addrs : session[a].id <= lastId' /\ session[a].id # NewId
  BY <1>1, <1>7 DEF IdsOnce
<1> QED
  BY <1>1, <1>2, <1>4, <1>5, <1>6, <1>8 DEF Live

LEMMA IdsOnceStep == SignOnTypes /\ IdsOnce /\ [SignOnNext]_signOnVars => IdsOnce'
<1> SUFFICES ASSUME SignOnTypes, IdsOnce, [SignOnNext]_signOnVars PROVE IdsOnce'
  OBVIOUS
<1>1. ASSUME UNCHANGED <<session, account, lastId>> PROVE IdsOnce'
  BY <1>1 DEF IdsOnce, OwnSession, Live
<1>2. CASE Discover \/ UNCHANGED signOnVars \/ Sweeper \/ Reboot \/ Time
  BY <1>1, <1>2 DEF Discover, signOnVars, state, Sweeper, Reboot, Time
<1>3. ASSUME NEW r \in Requests,
             \/ \E a \in Addrs : AskLogin(r, a) \/ AskOther(r, a) \/ \E f \in Flows : AskCallback(r, a, f)
             \/ \E f \in Flows : OIDCLogin(r, f)
             \/ CheckState(r) \/ Exchange(r) \/ CallbackFails(r) \/ Other(r)
      PROVE  IdsOnce'
  BY <1>1, <1>3 DEF AskLogin, AskOther, AskCallback, OIDCLogin, CheckState, Exchange,
                   CallbackFails, Other
<1>4. ASSUME NEW r \in Requests, Callback(r) PROVE IdsOnce'
  <2> DEFINE p == job[r].who
  <2>1. p \in People
    BY <1>4 DEF Callback, SignOnTypes, Job
  <2>2. from[r] \in Addrs
    BY <1>4, FromStep DEF Callback, Serve, SignOnTypes
  <2>3. ASSUME NEW i \in Ids, Open(r, i)
        PROVE  \A a \in Addrs : session'[a] = IF a = from[r] THEN [id |-> i, who |-> p] ELSE session[a]
    BY <2>2, <2>3 DEF Open, SignOnTypes
  <2> HIDE DEF p
  <2>4. ASSUME NEW i \in Live, account[i] = p, Open(r, i), UNCHANGED <<account, lastId>>
        PROVE  IdsOnce'
    <3>1. /\ i \in Ids /\ Live' = Live /\ account' = account /\ lastId' = lastId
          /\ account[i] = p /\ i <= lastId
      BY <2>4 DEF Live, IdsOnce
    <3>2. \A a \in Addrs : session'[a] = IF a = from[r] THEN [id |-> i, who |-> p] ELSE session[a]
      BY <2>3, <2>4, <3>1
    <3>3. OwnSession'
      BY <3>1, <3>2 DEF IdsOnce, OwnSession
    <3>4. \A a \in Addrs : session'[a].id <= lastId'
      BY <3>1, <3>2 DEF IdsOnce
    <3> QED
      BY <3>1, <3>3, <3>4 DEF IdsOnce
  <2>5. ASSUME Insert(p), Open(r, NewId) PROVE IdsOnce'
    <3>1. /\ NewId \in Ids \cap Live' /\ account'[NewId] = p
          /\ lastId' = NewId /\ Live' = Live \cup {NewId}
          /\ \A i \in Live : account'[i] = account[i]
          /\ \A i \in Live' : 1 <= i /\ i <= lastId'
          /\ \A a \in Addrs : session[a].id <= lastId' /\ session[a].id # NewId
      BY <2>1, <2>5, InsertIsNew
    <3>2. \A a \in Addrs : session'[a] = IF a = from[r] THEN [id |-> NewId, who |-> p] ELSE session[a]
      BY <2>3, <2>5, <3>1
    <3>3. OwnSession'
      BY <3>1, <3>2 DEF IdsOnce, OwnSession
    <3>4. NewId <= NewId
      BY DEF NewId, SignOnTypes
    <3>5. \A a \in Addrs : session'[a].id <= lastId'
      BY <3>1, <3>2, <3>4
    <3> QED
      BY <3>1, <3>3, <3>5 DEF IdsOnce
  <2> QED
    BY <1>4, <2>4, <2>5 DEF Callback, p
<1>5. ASSUME NEW f \in Flows, NEW p \in People, Authenticate(f, p) PROVE IdsOnce'
  BY <1>1, <1>5 DEF Authenticate
<1>6. ASSUME NEW a \in Addrs, EndSession(a) PROVE IdsOnce'
  <2>1. UNCHANGED <<account, lastId>> /\ Live' = Live
    BY <1>6 DEF EndSession, Live
  <2>2. \A b \in Addrs : session'[b] = IF b = a THEN NoSession ELSE session[b]
    BY <1>6 DEF EndSession, SignOnTypes
  <2>3. NoSession.id = 0 /\ 0 \notin Live /\ 0 <= lastId
    BY DEF NoSession, IdsOnce, SignOnTypes
  <2> QED
    BY <2>1, <2>2, <2>3 DEF IdsOnce, OwnSession
<1>7. ASSUME NEW p \in People, CreateUser(p) PROVE IdsOnce'
  <2>1. session' = session /\ Insert(p)
    BY <1>7 DEF CreateUser
  <2> QED
    BY <2>1, InsertIsNew DEF IdsOnce, OwnSession
<1>8. ASSUME NEW i \in Ids, DeleteUser(i) PROVE IdsOnce'
  <2>1. UNCHANGED <<session, lastId>>
    BY <1>8 DEF DeleteUser
  <2>2. Live' \subseteq Live /\ \A j \in Live' : account'[j] = account[j]
    BY <1>8 DEF DeleteUser, Live, SignOnTypes
  <2> QED
    BY <2>1, <2>2 DEF IdsOnce, OwnSession
<1> QED
  BY <1>2, <1>3, <1>4, <1>5, <1>6, <1>7, <1>8 DEF SignOnNext

(* A session acts for the person who signed in or for nobody, whatever     *)
(* accounts are created and deleted meanwhile (users.id is AUTOINCREMENT,  *)
(* requireAuth reads the row at every request).                            *)
THEOREM SessionsAreOwn == SignOnSpec => []OwnSession
<1>1. SignOnInit => SignOnTypes /\ IdsOnce
  <2> SUFFICES ASSUME SignOnInit PROVE IdsOnce
    BY SignOnTypesInit
  <2>1. Live = {} /\ lastId = 0 /\ \A a \in Addrs : session[a].id = 0
    BY DEF SignOnInit, Live, NoSession
  <2> QED
    BY <2>1 DEF IdsOnce, OwnSession
<1>2. SignOnTypes /\ IdsOnce /\ [SignOnNext]_signOnVars => SignOnTypes' /\ IdsOnce'
  BY SignOnTypesStep, IdsOnceStep
<1>3. IdsOnce => OwnSession
  BY DEF IdsOnce
<1> QED
  BY <1>1, <1>2, <1>3, PTL DEF SignOnSpec

(* A state cookie is held by the browser that began its flow, and so is    *)
(* the cookie a callback came with.                                        *)
Begun ==
  /\ \A a \in Addrs : cookie[a] # NoFlow => flow[cookie[a]].browser = a
  /\ \A r \in Requests :
       job[r].cookie # NoFlow => from[r] # NoAddr /\ flow[job[r].cookie].browser = from[r]

(* A flow that has begun stays with its browser and with the person who    *)
(* authenticated in it.                                                    *)
LEMMA FlowKept ==
  ASSUME SignOnTypes, [SignOnNext]_signOnVars, NEW f \in Flows, flow[f].browser # NoAddr
  PROVE  /\ flow'[f].browser = flow[f].browser
         /\ flow[f].who # NoOne => flow'[f].who = flow[f].who
<1> USE DEF SignOnTypes
<1>1. CASE UNCHANGED flow
  BY <1>1
<1>2. ASSUME NEW r \in Requests, NEW g \in Flows, OIDCLogin(r, g) PROVE flow'[f] = flow[f]
  <2>1. g = f => ~ready
    BY <1>2 DEF OIDCLogin, NewFlow
  <2> QED
    BY <1>2, <2>1 DEF OIDCLogin
<1>3. ASSUME NEW g \in Flows, NEW p \in People, Authenticate(g, p)
      PROVE  /\ flow'[f].browser = flow[f].browser
             /\ flow[f].who # NoOne => flow'[f].who = flow[f].who
  BY <1>3 DEF Authenticate, Flow
<1>5. CASE Time
  <2> DEFINE older(g) == IF flow[g].left >= 0 THEN flow[g].left - 1 ELSE flow[g].left
  <2>1. flow'[f] = [flow[f] EXCEPT !.left = older(f)]
    BY <1>5 DEF Time
  <2> HIDE DEF older
  <2> QED
    BY <2>1 DEF Flow
<1>6. ASSUME \/ Discover \/ Sweeper \/ Reboot \/ UNCHANGED signOnVars
             \/ \E r \in Requests :
                  \/ \E a \in Addrs : AskLogin(r, a) \/ AskOther(r, a) \/ \E g \in Flows : AskCallback(r, a, g)
                  \/ CheckState(r) \/ Exchange(r) \/ CallbackFails(r) \/ Callback(r) \/ Other(r)
             \/ \E a \in Addrs : EndSession(a)
             \/ \E p \in People : CreateUser(p)
             \/ \E i \in Ids : DeleteUser(i)
      PROVE  UNCHANGED flow
  BY <1>6 DEF Discover, Sweeper, Reboot, signOnVars, state, AskLogin, AskOther, AskCallback, CheckState,
              Exchange, CallbackFails, Callback, Other, EndSession, CreateUser, DeleteUser
<1> QED
  BY <1>1, <1>2, <1>3, <1>5, <1>6 DEF SignOnNext

LEMMA BegunStep == SignOnTypes /\ Begun /\ [SignOnNext]_signOnVars => Begun'
<1> SUFFICES ASSUME SignOnTypes, Begun, [SignOnNext]_signOnVars PROVE Begun'
  OBVIOUS
<1> USE SignOnAssumption, NoAddrAssumption
<1>1. \A f \in Flows : flow[f].browser # NoAddr => flow'[f].browser = flow[f].browser
  BY FlowKept
<1>2. /\ \A a \in Addrs : cookie[a] \in Flows \cup {NoFlow}
      /\ \A r \in Requests : job[r] \in Job /\ job[r].cookie \in Flows \cup {NoFlow}
  BY DEF SignOnTypes, Job
<1>3. \A a \in Addrs : cookie[a] # NoFlow => flow'[cookie[a]].browser = a
  BY <1>1, <1>2 DEF Begun
<1>4. \A r \in Requests :
        job[r].cookie # NoFlow => from[r] # NoAddr /\ flow'[job[r].cookie].browser = from[r]
  BY <1>1, <1>2 DEF Begun
<1>5. ASSUME \A a \in Addrs : cookie'[a] \in {cookie[a], NoFlow},
             \A r \in Requests : \/ job'[r].cookie = job[r].cookie /\ from'[r] = from[r]
                                 \/ job'[r].cookie = NoFlow
      PROVE  Begun'
  BY <1>3, <1>4, <1>5 DEF Begun
<1>6. CASE Discover \/ UNCHANGED signOnVars \/ Sweeper \/ Time
  BY <1>5, <1>6 DEF Discover, signOnVars, vars, state, Sweeper, Sweep, Time, Tick
<1>7. CASE Reboot
  BY <1>5, <1>7 DEF Reboot, Kill, Start, NoJob
<1>8. ASSUME \/ \E f \in Flows, p \in People : Authenticate(f, p)
             \/ \E a \in Addrs : EndSession(a)
             \/ \E p \in People : CreateUser(p)
             \/ \E i \in Ids : DeleteUser(i)
      PROVE  Begun'
  BY <1>5, <1>8 DEF Authenticate, EndSession, CreateUser, DeleteUser, vars
<1>9. ASSUME NEW r \in Requests, NEW a \in Addrs, AskLogin(r, a) \/ AskOther(r, a) PROVE Begun'
  <2>1. /\ cookie' = cookie /\ from' = [from EXCEPT ![r] = a]
        /\ \E j \in Job : j.cookie = NoFlow /\ job' = [job EXCEPT ![r] = j]
    <3>1. [NoJob EXCEPT !.kind = "login"] \in Job /\ [NoJob EXCEPT !.kind = "other"] \in Job
      BY DEF Job, NoJob
    <3>2. [NoJob EXCEPT !.kind = "login"].cookie = NoFlow /\ [NoJob EXCEPT !.kind = "other"].cookie = NoFlow
      BY DEF NoJob
    <3> QED
      BY <1>9, <3>1, <3>2 DEF AskLogin, AskOther, SetJob, Begin
  <2> QED
    BY <1>5, <2>1 DEF SignOnTypes
<1>10. ASSUME NEW r \in Requests, NEW a \in Addrs, NEW f \in Flows, AskCallback(r, a, f) PROVE Begun'
  <2> DEFINE j == [NoJob EXCEPT !.kind = "callback", !.flow = f, !.cookie = cookie[a]]
  <2>1. j.cookie = cookie[a]
    BY DEF NoJob
  <2> HIDE DEF j
  <2>2. cookie' = cookie /\ from' = [from EXCEPT ![r] = a] /\ job' = [job EXCEPT ![r] = j]
    BY <1>10 DEF AskCallback, SetJob, Begin, j
  <2>3. \A b \in Addrs : cookie'[b] # NoFlow => flow'[cookie'[b]].browser = b
    BY <1>3, <2>2
  <2>4. ASSUME NEW q \in Requests, job'[q].cookie # NoFlow
        PROVE  from'[q] # NoAddr /\ flow'[job'[q].cookie].browser = from'[q]
    <3>1. CASE q = r
      BY <1>3, <2>1, <2>2, <2>4, <3>1 DEF SignOnTypes
    <3>2. CASE q # r
      BY <1>4, <2>2, <2>4, <3>2 DEF SignOnTypes
    <3> QED
      BY <3>1, <3>2
  <2> QED
    BY <2>3, <2>4 DEF Begun
<1>11. ASSUME NEW r \in Requests, CallbackFails(r) \/ Callback(r) \/ Other(r) PROVE Begun'
  <2>1. /\ from' = [from EXCEPT ![r] = NoAddr] /\ job' = [job EXCEPT ![r] = NoJob]
        /\ cookie' = cookie \/ cookie' = [cookie EXCEPT ![from[r]] = NoFlow]
    BY <1>11, FromStep DEF CallbackFails, Callback, Other, Serve, SetJob, ClearCookie, SignOnTypes
  <2> QED
    BY <1>5, <2>1 DEF SignOnTypes, NoJob
<1>12. ASSUME NEW r \in Requests, CheckState(r) \/ Exchange(r) PROVE Begun'
  <2>1. /\ from' = from /\ cookie' = cookie
        /\ \/ job' = [job EXCEPT ![r] = [job[r] EXCEPT !.kind = "exchange"]]
           \/ job' = [job EXCEPT ![r] = [job[r] EXCEPT !.who = flow[job[r].flow].who]]
    BY <1>12 DEF CheckState, Exchange, SetJob, vars
  <2>2. /\ [job[r] EXCEPT !.kind = "exchange"].cookie = job[r].cookie
        /\ [job[r] EXCEPT !.who = flow[job[r].flow].who].cookie = job[r].cookie
    BY <1>2 DEF Job
  <2> QED
    BY <1>5, <2>1, <2>2 DEF SignOnTypes
<1>13. ASSUME NEW r \in Requests, NEW f \in Flows, OIDCLogin(r, f) PROVE Begun'
  <2>1. /\ from[r] \in Addrs /\ from' = [from EXCEPT ![r] = NoAddr] /\ job' = [job EXCEPT ![r] = NoJob]
    BY <1>13, FromStep DEF OIDCLogin, Serve, SetJob, SignOnTypes
  <2>2. \A q \in Requests : \/ job'[q].cookie = job[q].cookie /\ from'[q] = from[q]
                            \/ job'[q].cookie = NoFlow
    BY <2>1 DEF SignOnTypes, NoJob
  <2>3. CASE ~ready
    BY <1>5, <1>13, <2>2, <2>3 DEF OIDCLogin
  <2>4. CASE ready
    <3>1. /\ cookie' = [cookie EXCEPT ![from[r]] = f]
          /\ flow' = [flow EXCEPT ![f].browser = from[r], ![f].left = TTL]
      BY <1>13, <2>4 DEF OIDCLogin
    <3>2. flow'[f].browser = from[r]
      BY <3>1 DEF SignOnTypes, Flow
    <3>3. \A a \in Addrs : cookie'[a] # NoFlow => flow'[cookie'[a]].browser = a
      BY <1>3, <2>1, <3>1, <3>2 DEF SignOnTypes
    <3> QED
      BY <1>4, <2>2, <3>3 DEF Begun
  <2> QED
    BY <2>3, <2>4
<1> QED
  BY <1>6, <1>7, <1>8, <1>9, <1>10, <1>11, <1>12, <1>13 DEF SignOnNext

(* Who is known in a callback and in a session authenticated in a sign-on  *)
(* of the browser.                                                         *)
Own ==
  /\ \A r \in Requests :
       job[r].who # NoOne =>
         from[r] # NoAddr /\ \E f \in Flows : flow[f].browser = from[r] /\ flow[f].who = job[r].who
  /\ \A a \in Addrs :
       session[a] # NoSession =>
         session[a].who # NoOne /\ \E f \in Flows : flow[f].browser = a /\ flow[f].who = session[a].who

LEMMA OwnKept ==
  ASSUME SignOnTypes, [SignOnNext]_signOnVars, NEW a \in Addrs, NEW p \in People,
         \E f \in Flows : flow[f].browser = a /\ flow[f].who = p
  PROVE  \E f \in Flows : flow'[f].browser = a /\ flow'[f].who = p
<1>1. PICK f \in Flows : flow[f].browser = a /\ flow[f].who = p
  OBVIOUS
<1>2. flow'[f].browser = a /\ flow'[f].who = p
  BY <1>1, FlowKept, NoAddrAssumption, SignOnAssumption
<1> QED
  BY <1>2

LEMMA OwnStep == SignOnTypes /\ Begun /\ Own /\ [SignOnNext]_signOnVars => Own'
<1> SUFFICES ASSUME SignOnTypes, Begun, Own, [SignOnNext]_signOnVars PROVE Own'
  OBVIOUS
<1> USE SignOnAssumption, NoAddrAssumption
<1>1. /\ \A r \in Requests : /\ job[r] \in Job /\ job[r].who \in People \cup {NoOne}
                             /\ from[r] \in Addrs \cup {NoAddr}
      /\ \A a \in Addrs : session[a] \in Session /\ session[a].who \in People \cup {NoOne}
      /\ NoJob.who = NoOne
  BY DEF SignOnTypes, Job, Session, NoJob
<1>2. \A r \in Requests :
        job[r].who # NoOne =>
          from[r] # NoAddr /\ \E f \in Flows : flow'[f].browser = from[r] /\ flow'[f].who = job[r].who
  BY <1>1, OwnKept DEF Own
<1>3. \A a \in Addrs :
        session[a] # NoSession =>
          session[a].who # NoOne /\ \E f \in Flows : flow'[f].browser = a /\ flow'[f].who = session[a].who
  BY <1>1, OwnKept DEF Own
<1>4. ASSUME \A r \in Requests : \/ job'[r].who = job[r].who /\ from'[r] = from[r]
                                 \/ job'[r].who = NoOne,
             \A a \in Addrs : session'[a] \in {session[a], NoSession}
      PROVE  Own'
  BY <1>2, <1>3, <1>4 DEF Own, NoSession
<1>5. CASE \/ Discover \/ UNCHANGED signOnVars \/ Sweeper \/ Time
           \/ \E f \in Flows, p \in People : Authenticate(f, p)
           \/ \E p \in People : CreateUser(p)
           \/ \E i \in Ids : DeleteUser(i)
  BY <1>4, <1>5 DEF Discover, signOnVars, vars, state, Sweeper, Sweep, Time, Tick, Authenticate,
                    CreateUser, DeleteUser
<1>6. CASE Reboot
  BY <1>1, <1>4, <1>6 DEF Reboot, Kill, Start
<1>7. ASSUME NEW a \in Addrs, EndSession(a) PROVE Own'
  BY <1>4, <1>7 DEF EndSession, vars, SignOnTypes
<1>8. ASSUME NEW r \in Requests, NEW a \in Addrs,
             AskLogin(r, a) \/ AskOther(r, a) \/ \E f \in Flows : AskCallback(r, a, f)
      PROVE  Own'
  <2>1. /\ session' = session /\ from' = [from EXCEPT ![r] = a]
        /\ \E j : j.who = NoOne /\ job' = [job EXCEPT ![r] = j]
    <3>1. ASSUME NEW f \in Flows, AskCallback(r, a, f)
          PROVE  \E j : j.who = NoOne /\ job' = [job EXCEPT ![r] = j]
      <4> DEFINE j == [NoJob EXCEPT !.kind = "callback", !.flow = f, !.cookie = cookie[a]]
      <4>1. j.who = NoOne /\ job' = [job EXCEPT ![r] = j]
        BY <3>1 DEF AskCallback, SetJob, NoJob
      <4> QED
        BY <4>1
    <3>2. ASSUME AskLogin(r, a) \/ AskOther(r, a)
          PROVE  \E j : j.who = NoOne /\ job' = [job EXCEPT ![r] = j]
      <4>1. [NoJob EXCEPT !.kind = "login"].who = NoOne /\ [NoJob EXCEPT !.kind = "other"].who = NoOne
        BY DEF NoJob
      <4> QED
        BY <3>2, <4>1 DEF AskLogin, AskOther, SetJob
    <3> QED
      BY <1>8, <3>1, <3>2 DEF AskLogin, AskOther, AskCallback, Begin
  <2> QED
    BY <1>4, <2>1 DEF SignOnTypes
<1>9. ASSUME NEW r \in Requests,
             CallbackFails(r) \/ Other(r) \/ \E f \in Flows : OIDCLogin(r, f)
      PROVE  Own'
  <2>1. from' = [from EXCEPT ![r] = NoAddr] /\ job' = [job EXCEPT ![r] = NoJob] /\ session' = session
    BY <1>9, FromStep DEF CallbackFails, Other, OIDCLogin, Serve, SetJob, SignOnTypes
  <2> QED
    BY <1>1, <1>4, <2>1 DEF SignOnTypes
<1>10. ASSUME NEW r \in Requests, CheckState(r) PROVE Own'
  <2>1. /\ from' = from /\ session' = session
        /\ job' = [job EXCEPT ![r] = [job[r] EXCEPT !.kind = "exchange"]]
    BY <1>10 DEF CheckState, SetJob, vars
  <2>2. [job[r] EXCEPT !.kind = "exchange"].who = job[r].who
    BY <1>1 DEF Job
  <2> QED
    BY <1>4, <2>1, <2>2 DEF SignOnTypes
<1>11. ASSUME NEW r \in Requests, Exchange(r) PROVE Own'
  <2> DEFINE f == job[r].flow
  <2>1. /\ from' = from /\ session' = session /\ flow' = flow
        /\ job' = [job EXCEPT ![r] = [job[r] EXCEPT !.who = flow[f].who]]
    BY <1>11 DEF Exchange, SetJob, vars
  <2>2. f \in Flows /\ from[r] # NoAddr /\ flow[f].browser = from[r]
    BY <1>1, <1>11 DEF Exchange, Belongs, Job, Begun
  <2>3. [job[r] EXCEPT !.who = flow[f].who].who = flow[f].who
    BY <1>1 DEF Job
  <2> HIDE DEF f
  <2>4. \A q \in Requests : job'[q].who = IF q = r THEN flow[f].who ELSE job[q].who
    BY <2>1, <2>3 DEF SignOnTypes
  <2> QED
    BY <1>2, <1>3, <2>1, <2>2, <2>4 DEF Own
<1>12. ASSUME NEW r \in Requests, Callback(r) PROVE Own'
  <2>1. /\ from[r] \in Addrs /\ from' = [from EXCEPT ![r] = NoAddr] /\ job' = [job EXCEPT ![r] = NoJob]
        /\ flow' = flow /\ job[r].who # NoOne
    BY <1>12, FromStep DEF Callback, Serve, SetJob, SignOnTypes
  <2>2. \E i : session' = [session EXCEPT ![from[r]] = [id |-> i, who |-> job[r].who]]
    BY <1>12 DEF Callback, Open
  <2>3. \A a \in Addrs : a # from[r] => session'[a] = session[a]
    BY <2>2 DEF SignOnTypes
  <2>4. session'[from[r]].who = job[r].who
    BY <2>1, <2>2 DEF SignOnTypes
  <2>5. \A q \in Requests : \/ job'[q].who = job[q].who /\ from'[q] = from[q]
                            \/ job'[q].who = NoOne
    BY <1>1, <2>1 DEF SignOnTypes
  <2>6. \A a \in Addrs :
          session'[a] # NoSession =>
            session'[a].who # NoOne /\ \E f \in Flows : flow'[f].browser = a /\ flow'[f].who = session'[a].who
    BY <1>2, <1>3, <2>1, <2>3, <2>4
  <2>7. NoSession' = NoSession
    BY DEF NoSession
  <2> QED
    BY <1>2, <2>5, <2>6, <2>7 DEF Own
<1> QED
  BY <1>5, <1>6, <1>7, <1>8, <1>9, <1>10, <1>11, <1>12 DEF SignOnNext

(* Whoever a browser is signed in as authenticated in a sign-on which this *)
(* browser began (the state cookie of OIDCLogin and its check in           *)
(* OIDCCallback), although the cookie may expire or be replaced, and the   *)
(* process restart, while the code is exchanged.                           *)
THEOREM SignOnsAreOwn == SignOnSpec => []SignOnIsOwn
<1>1. SignOnInit => SignOnTypes /\ Begun /\ Own
  <2>1. SignOnInit => Begun /\ Own
    BY DEF SignOnInit, Begun, NoJob, Own
  <2> QED
    BY <2>1, SignOnTypesInit
<1>2. SignOnTypes /\ Begun /\ Own /\ [SignOnNext]_signOnVars => SignOnTypes' /\ Begun' /\ Own'
  BY SignOnTypesStep, BegunStep, OwnStep
<1>3. Own => SignOnIsOwn
  BY DEF Own, SignOnIsOwn
<1> QED
  BY <1>1, <1>2, <1>3, PTL DEF SignOnSpec
=============================================================================
