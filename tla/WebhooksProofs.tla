--------------------------- MODULE WebhooksProofs ---------------------------
(***************************************************************************)
(* Proofs about Webhooks, for every set of hooks, users and changes, every *)
(* number of attempts and slots, and however long it runs.                 *)
(***************************************************************************)
EXTENDS Webhooks, TLAPS

(* A delivery that waits for its next attempt has one left. *)
TriesLeft == \A d \in Deliveries : delivery[d].at = "sleep" => delivery[d].try < MaxAttempts

(* What a month's scheduler round stands for.                              *)
RoundOK ==
  /\ firing => up /\ At(armed) <= now /\ armed \in begun
  /\ firing => \A m \in Months : armed < m /\ 2 * m <= now => m \in late
  /\ up /\ ~firing => now <= At(armed) /\ armed \notin begun
  /\ ~firing => todo = {} /\ serving = Nobody
  /\ serving # Nobody => \E h \in todo : Owner[h] = serving
  /\ \A m \in begun : At(m) <= now

(* The time of the months. *)
LEMMA MonthOfTime ==
  ASSUME NEW t \in Nat, NEW m \in Nat
  PROVE  /\ Month(t) \in Nat /\ At(m) \in Nat
         /\ At(m) <= t => m <= Month(t)
         /\ t < 2 * m => Month(t) < m
         /\ Month(At(m)) = m
         /\ t < At(Month(t) + 1)
         /\ \A s \in Nat : t <= s => Month(t) <= Month(s)
BY DEF Month, At

LEMMA MonthsAre == Months \subseteq Nat /\ 1 \in Months /\ \A t \in 0..MaxTime : Month(t) + 1 \in Months
<1>1. MaxTime \in Nat
  BY BoundsAssumption
<1>2. Month(MaxTime) \in Nat
  BY <1>1, MonthOfTime
<1>3. \A t \in 0..MaxTime : t \in Nat /\ t <= MaxTime
  BY <1>1
<1>4. \A t \in 0..MaxTime : Month(t) \in Nat /\ Month(t) <= Month(MaxTime)
  BY <1>1, <1>3, MonthOfTime
<1> QED
  BY <1>2, <1>4 DEF Months

LEMMA TypeStep == TypeOK /\ TriesLeft /\ [Next]_vars => TypeOK' /\ TriesLeft'
<1> SUFFICES ASSUME TypeOK, TriesLeft, [Next]_vars PROVE TypeOK' /\ TriesLeft'
  OBVIOUS
<1> USE BoundsAssumption, HooksAssumption
    DEF TypeOK, TriesLeft, clock, table, events, round, deliveries
<1>1. ASSUME NEW h \in Hooks, CreateWebhook(h) PROVE TypeOK' /\ TriesLeft'
  BY <1>1 DEF CreateWebhook
<1>2. ASSUME NEW H, Remove(H) PROVE TypeOK' /\ TriesLeft'
  BY <1>2 DEF Remove
<1>3. ASSUME NEW c \in Changes, NEW u \in Users, NEW e \in Events, Change(c, u, e)
      PROVE  TypeOK' /\ TriesLeft'
  BY <1>3 DEF Change
<1>4. ASSUME NEW c \in Changes, FireWebhooks(c) PROVE TypeOK' /\ TriesLeft'
  <2>1. PICK H : delivery' = [d \in Deliveries |-> IF d \in {c} \X H THEN First ELSE delivery[d]]
    BY <1>4 DEF FireWebhooks
  <2>2. First \in [at : {"none", "send", "sleep"} \cup Ended, try : 0..MaxAttempts] /\ First.at # "sleep"
    BY DEF First
  <2> QED
    BY <1>4, <2>1, <2>2 DEF FireWebhooks
<1>5. ASSUME NEW d \in Deliveries, Attempt(d) PROVE TypeOK' /\ TriesLeft'
  <2>1. PICK at \in {"delivered", "refused", "sleep", "failed"} : 
          /\ Put(d, at, delivery[d].try)
          /\ at = "sleep" => delivery[d].try < MaxAttempts
    BY <1>5 DEF Attempt, Retry
  <2>2. answered' \subseteq Deliveries
    BY <1>5 DEF Attempt
  <2>3. /\ delivery' \in [Deliveries -> [at : {"none", "send", "sleep"} \cup Ended, try : 0..MaxAttempts]]
        /\ \A x \in Deliveries : delivery'[x].at = "sleep" => delivery'[x].try < MaxAttempts
    BY <2>1 DEF Put, Ended
  <2> QED
    BY <1>5, <2>2, <2>3 DEF Attempt
<1>6. ASSUME NEW d \in Deliveries, Wake(d) PROVE TypeOK' /\ TriesLeft'
  <2>1. delivery[d].try \in 0..MaxAttempts /\ delivery[d].try + 1 \in 0..MaxAttempts
    BY <1>6 DEF Wake
  <2>2. /\ delivery' \in [Deliveries -> [at : {"none", "send", "sleep"} \cup Ended, try : 0..MaxAttempts]]
        /\ \A x \in Deliveries : delivery'[x].at = "sleep" => delivery'[x].try < MaxAttempts
    BY <1>6, <2>1 DEF Wake, Put
  <2> QED
    BY <1>6, <2>2 DEF Wake
<1>7. CASE Timer
  BY <1>7 DEF Timer
<1>8. ASSUME NEW u \in Users, ReadTasks(u) PROVE TypeOK' /\ TriesLeft'
  BY <1>8 DEF ReadTasks
<1>9. ASSUME NEW h \in Hooks, Send(h) PROVE TypeOK' /\ TriesLeft'
  <2>1. /\ delivery' \in [Deliveries -> [at : {"none", "send", "sleep"} \cup Ended, try : 0..MaxAttempts]]
        /\ \A x \in Deliveries : delivery'[x].at = "sleep" => delivery'[x].try < MaxAttempts
    <3>1. First \in [at : {"none", "send", "sleep"} \cup Ended, try : 0..MaxAttempts] /\ First.at # "sleep"
      BY DEF First
    <3>2. delivery' = [delivery EXCEPT ![<<armed, h>>] = First]
      BY <1>9 DEF Send
    <3> QED
      BY <3>1, <3>2
  <2> QED
    BY <1>9, <2>1 DEF Send
<1>10. CASE Rearm
  BY <1>10, MonthsAre DEF Rearm, Arm
<1>11. CASE Tick
  <2>1. now + 1 \in 0..MaxTime /\ Month(now + 1) \in Months
    <3>1. now + 1 \in 0..MaxTime /\ now \in Nat
      BY <1>11 DEF Tick
    <3>2. Month(now + 1) \in Nat /\ Month(now + 1) <= Month(MaxTime) /\ Month(MaxTime) \in Nat
      BY <3>1, MonthOfTime
    <3> QED
      BY <3>1, <3>2 DEF Months
  <2> QED
    BY <1>11, <2>1 DEF Tick
<1>12. CASE Crash
  <2>1. /\ delivery' \in [Deliveries -> [at : {"none", "send", "sleep"} \cup Ended, try : 0..MaxAttempts]]
        /\ \A x \in Deliveries : delivery'[x].at = "sleep" => delivery'[x].try < MaxAttempts
    BY <1>12 DEF Crash, None, Running, Ended
  <2> QED
    BY <1>12, <2>1 DEF Crash
<1>13. CASE Start
  BY <1>13, MonthsAre DEF Start, Arm
<1>14. CASE UNCHANGED vars
  BY <1>14 DEF vars
<1> QED
  BY <1>1, <1>2, <1>3, <1>4, <1>5, <1>6, <1>7, <1>8, <1>9, <1>10, <1>11, <1>12, <1>13, <1>14
  DEF Next, FireMonthDigest, DeleteWebhook, DeleteUser

LEMMA TypeInit == Init => TypeOK /\ TriesLeft
<1> SUFFICES ASSUME Init PROVE TypeOK /\ TriesLeft
  OBVIOUS
<1>1. None \in [at : {"none", "send", "sleep"} \cup Ended, try : 0..MaxAttempts] /\ None.at # "sleep"
  BY BoundsAssumption DEF None
<1>2. delivery = [d \in Deliveries |-> None]
  BY DEF Init
<1>3. TriesLeft /\ delivery \in [Deliveries -> [at : {"none", "send", "sleep"} \cup Ended, try : 0..MaxAttempts]]
  BY <1>1, <1>2 DEF TriesLeft
<1>4. now \in 0..MaxTime /\ born \in 0..now /\ armed \in Months
  BY BoundsAssumption, MonthsAre DEF Init
<1>5. fire \in [Changes -> [user : Users, event : Events] \cup {NoFire}]
  BY DEF Init
<1> QED
  BY <1>3, <1>4, <1>5 DEF Init, TypeOK

(* Every delivery is in one of its states, within its attempts, and no     *)
(* month beyond the end of the instance is ever armed or begun.            *)
THEOREM TypeCorrect == Spec => []TypeOK
BY TypeInit, TypeStep, PTL DEF Spec

----------------------------------------------------------------------------
(* The rounds of the scheduler.                                            *)

LEMMA NextMonthIsNew ==
  ASSUME NEW t \in Nat, NEW B \in SUBSET Nat, \A m \in B : At(m) <= t
  PROVE  t <= At(Month(t) + 1) /\ Month(t) + 1 \notin B
<1>1. Month(t) \in Nat /\ t < At(Month(t) + 1) /\ At(Month(t) + 1) \in Nat
  BY MonthOfTime
<1>2. \A m \in B : m <= Month(t)
  BY MonthOfTime
<1> QED
  BY <1>1, <1>2

LEMMA RoundStep == TypeOK /\ RoundOK /\ [Next]_vars => RoundOK'
<1> SUFFICES ASSUME TypeOK, RoundOK, [Next]_vars PROVE RoundOK'
  OBVIOUS
<1>0. now \in Nat /\ armed \in Nat /\ begun \subseteq Nat /\ Months \subseteq Nat
  BY MonthsAre, BoundsAssumption DEF TypeOK
<1>1. ASSUME UNCHANGED <<clock, round>> PROVE RoundOK'
  BY <1>1 DEF RoundOK, clock, round
<1>2. CASE Timer
  <2>1. /\ firing' /\ up' /\ UNCHANGED <<now, armed, late>> /\ begun' = begun \cup {armed}
        /\ now = At(armed)
    <3>1. /\ up /\ ~firing /\ now >= At(armed) /\ firing' /\ begun' = begun \cup {armed}
          /\ UNCHANGED <<up, now, armed, late>>
      BY <1>2 DEF Timer, clock
    <3>2. now <= At(armed)
      BY <3>1 DEF RoundOK
    <3>3. At(armed) \in Nat
      BY <1>0 DEF At
    <3> QED
      BY <1>0, <3>1, <3>2, <3>3
  <2>2. At(armed) <= At(armed)
    BY <1>0, MonthOfTime
  <2>3. serving' = Nobody
    BY <1>2 DEF Timer, RoundOK
  <2>4. \A m \in Months : armed < m => ~(2 * m <= At(armed))
    BY <1>0 DEF At
  <2> QED
    BY <1>0, <2>1, <2>2, <2>3, <2>4 DEF RoundOK
<1>3. ASSUME NEW u \in Users, ReadTasks(u) PROVE RoundOK'
  BY <1>3 DEF ReadTasks, Mine, RoundOK, clock
<1>13. ASSUME NEW h \in Hooks, Send(h) PROVE RoundOK'
  <2>1. /\ UNCHANGED <<now, up, late, armed, firing, begun>> /\ firing
        /\ todo' = todo \ {h} /\ h \in Mine(serving)
        /\ serving' = IF Mine(serving) = {h} THEN Nobody ELSE serving
    BY <1>13 DEF Send, clock
  <2>2. serving' # Nobody => \E g \in todo' : Owner[g] = serving'
    BY <2>1 DEF Mine
  <2> QED
    BY <2>1, <2>2 DEF RoundOK
<1>4. CASE Rearm
  <2>1. firing /\ ~firing' /\ up' /\ now' = now /\ armed' = Month(now) + 1 /\ begun' = begun /\ todo' = {}
    BY <1>4 DEF Rearm, Arm, clock, RoundOK
  <2>2. serving' = Nobody
    BY <1>4 DEF Rearm, RoundOK
  <2>3. now' <= At(armed') /\ armed' \notin begun'
    BY <1>0, <2>1, NextMonthIsNew DEF RoundOK
  <2> QED
    BY <2>1, <2>2, <2>3 DEF RoundOK
<1>5. CASE Tick
  <2>1. /\ now' = now + 1 /\ UNCHANGED <<up, round>> /\ (up /\ ~firing => now < At(armed))
        /\ late' = IF firing /\ now + 1 = 2 * Month(now + 1) THEN late \cup {Month(now + 1)} ELSE late
    BY <1>5 DEF Tick
  <2>2. At(armed) \in Nat /\ \A m \in begun : At(m) \in Nat
    BY <1>0, MonthOfTime
  <2>3. ASSUME firing, NEW m \in Months, armed < m, 2 * m <= now + 1 PROVE m \in late'
    <3>1. CASE 2 * m <= now
      BY <2>1, <2>3, <3>1 DEF RoundOK
    <3>2. CASE now + 1 = 2 * m
      <4>1. Month(now + 1) = m
        BY <1>0, <3>2 DEF Month
      <4> QED
        BY <2>1, <2>3, <3>2, <4>1
    <3> QED
      BY <1>0, <2>3, <3>1, <3>2
  <2>4. firing' => \A m \in Months : armed' < m /\ 2 * m <= now' => m \in late'
    BY <2>1, <2>3 DEF round
  <2> QED
    BY <1>0, <2>1, <2>2, <2>4 DEF RoundOK, round
<1>6. CASE Crash
  BY <1>6 DEF Crash, RoundOK
<1>7. CASE Start
  <2>1. up' /\ ~firing /\ firing' = firing /\ now' = now /\ armed' = Month(now) + 1
        /\ UNCHANGED <<todo, serving, begun>>
    BY <1>7 DEF Start, Arm, RoundOK
  <2>2. now' <= At(armed') /\ armed' \notin begun'
    BY <1>0, <2>1, NextMonthIsNew DEF RoundOK
  <2> QED
    BY <2>1, <2>2 DEF RoundOK
<1>8. ASSUME NEW h \in Hooks, CreateWebhook(h) PROVE UNCHANGED <<clock, round>>
  BY <1>8 DEF CreateWebhook, clock, round
<1>9. ASSUME NEW H, Remove(H) PROVE UNCHANGED <<clock, round>>
  BY <1>9 DEF Remove, clock, round
<1>10. ASSUME NEW c \in Changes, FireWebhooks(c) \/ \E u \in Users, e \in Events : Change(c, u, e)
       PROVE  UNCHANGED <<clock, round>>
  BY <1>10 DEF FireWebhooks, Change, clock, round
<1>11. ASSUME NEW d \in Deliveries, Attempt(d) \/ Wake(d) PROVE UNCHANGED <<clock, round>>
  BY <1>11 DEF Attempt, Wake, clock, round
<1>12. CASE UNCHANGED vars
  BY <1>1, <1>12 DEF vars, clock
<1> QED
  BY <1>1, <1>2, <1>3, <1>4, <1>5, <1>6, <1>7, <1>8, <1>9, <1>10, <1>11, <1>12, <1>13
  DEF Next, FireMonthDigest, DeleteWebhook, DeleteUser

LEMMA RoundInit == Init => RoundOK
BY DEF Init, RoundOK, At

----------------------------------------------------------------------------
(* Of a month that began after the process was started the digest was      *)
(* begun, if the scheduler is past it, or the month came while it was late.*)
SinceBirth == up => \A m \in Months : born < 2 * m /\ m < armed => m \in begun \cup late

LEMMA SinceBirthStep == TypeOK /\ RoundOK /\ SinceBirth /\ [Next]_vars => SinceBirth'
<1> SUFFICES ASSUME TypeOK, RoundOK, SinceBirth, [Next]_vars PROVE SinceBirth'
  OBVIOUS
<1>0. now \in Nat /\ armed \in Nat /\ begun \subseteq Nat /\ Months \subseteq Nat
  BY MonthsAre, BoundsAssumption DEF TypeOK
<1>1. ASSUME UNCHANGED <<up, born, armed>>, begun \subseteq begun', late \subseteq late' PROVE SinceBirth'
  BY <1>1 DEF SinceBirth
<1>2. CASE Timer
  BY <1>1, <1>2 DEF Timer, clock
<1>3. CASE Rearm
  <2>1. UNCHANGED <<up, born, begun, late>> /\ armed' = Month(now) + 1 /\ firing
    BY <1>3 DEF Rearm, Arm, clock
  <2>2. armed \in begun /\ \A m \in Months : armed < m /\ 2 * m <= now => m \in late
    BY <2>1 DEF RoundOK
  <2>3. \A m \in Months : m < armed' => 2 * m <= now
    BY <1>0, <2>1 DEF Month
  <2>4. \A m \in Months : m < armed' => m < armed \/ m \in begun \cup late
    BY <1>0, <2>2, <2>3
  <2> QED
    BY <2>1, <2>4 DEF SinceBirth
<1>4. CASE Start
  <2>1. born' = now /\ armed' = Month(now) + 1
    BY <1>4 DEF Start, Arm
  <2>2. \A m \in Months : now < 2 * m => ~(m < Month(now) + 1)
    BY <1>0, MonthOfTime
  <2> QED
    BY <2>1, <2>2 DEF SinceBirth
<1>5. CASE Crash
  BY <1>5 DEF Crash, SinceBirth
<1>6. CASE Tick \/ UNCHANGED vars
  BY <1>1, <1>6 DEF Tick, vars, clock, round
<1>7. CASE (\E u \in Users : ReadTasks(u)) \/ (\E h \in Hooks : Send(h))
  BY <1>1, <1>7 DEF ReadTasks, Send, clock
<1>8. ASSUME NEW h \in Hooks, CreateWebhook(h) PROVE SinceBirth'
  BY <1>1, <1>8 DEF CreateWebhook, clock, round
<1>9. ASSUME NEW H, Remove(H) PROVE SinceBirth'
  BY <1>1, <1>9 DEF Remove, clock, round
<1>10. ASSUME NEW c \in Changes, FireWebhooks(c) \/ \E u \in Users, e \in Events : Change(c, u, e)
       PROVE  SinceBirth'
  BY <1>1, <1>10 DEF FireWebhooks, Change, clock, round
<1>11. ASSUME NEW d \in Deliveries, Attempt(d) \/ Wake(d) PROVE SinceBirth'
  BY <1>1, <1>11 DEF Attempt, Wake, clock, round
<1> QED
  BY <1>2, <1>3, <1>4, <1>5, <1>6, <1>7, <1>8, <1>9, <1>10, <1>11
  DEF Next, FireMonthDigest, DeleteWebhook, DeleteUser

LEMMA SinceBirthInit == Init => SinceBirth
<1>1. \A m \in Nat : ~(0 < 2 * m /\ m < 1)
  OBVIOUS
<1> QED
  BY <1>1, MonthsAre DEF Init, SinceBirth

LEMMA NotMissed == ASSUME TypeOK, RoundOK, SinceBirth PROVE DigestNotMissed
<1> SUFFICES ASSUME NEW m \in Months, up, born < 2 * m, now > At(m) PROVE m \in begun \cup late
  BY DEF DigestNotMissed
<1>0. now \in Nat /\ armed \in Nat /\ m \in Nat
  BY MonthsAre, BoundsAssumption DEF TypeOK
<1>1. CASE m < armed
  BY <1>1 DEF SinceBirth
<1>2. CASE firing /\ m >= armed
  <2>1. 2 * m <= now
    BY <1>0 DEF At
  <2> QED
    BY <1>0, <1>2, <2>1 DEF RoundOK
<1>3. CASE ~firing
  <2>1. now <= At(armed)
    BY <1>3 DEF RoundOK
  <2>2. m < armed
    BY <1>0, <2>1 DEF At
  <2> QED
    BY <1>1, <2>2
<1> QED
  BY <1>0, <1>1, <1>2, <1>3

(* A process that has run since before a month began has begun to send     *)
(* that month's digest once 08:00 of its first day is past, unless the     *)
(* round of an earlier month ran into it.                                  *)
THEOREM DigestIsNotMissed == Spec => []DigestNotMissed
<1> DEFINE I == TypeOK /\ TriesLeft /\ RoundOK /\ SinceBirth
<1>1. Init => I
  BY TypeInit, RoundInit, SinceBirthInit
<1>2. I /\ [Next]_vars => I'
  BY TypeStep, RoundStep, SinceBirthStep
<1>3. I => DigestNotMissed
  BY NotMissed
<1> QED
  BY <1>1, <1>2, <1>3, PTL DEF Spec

----------------------------------------------------------------------------
(* Deliveries.                                                             *)

(* Nothing has been sent of a change whose goroutine has not read the      *)
(* hooks, nor of a month that was not begun, nor to a hook that a round    *)
(* has still to serve.                                                     *)
SentOK ==
  /\ \A c \in Changes : fire[c] # NoFire => c \in fired
  /\ \A c \in Changes, h \in Hooks :
       delivery[<<c, h>>].at # "none" => c \in fired /\ fire[c] = NoFire
  /\ \A m \in Months, h \in Hooks : delivery[<<m, h>>].at # "none" => m \in begun
  /\ \A h \in todo : delivery[<<armed, h>>].at = "none"

DInv == TypeOK /\ TriesLeft /\ RoundOK /\ SentOK /\ AnsweredIsOver

(* A step of the goroutines that deliver, of FireWebhooks and of Send      *)
(* starts a delivery that was not begun, or takes one that runs further.   *)
Moves(d) == \/ delivery'[d] = delivery[d]
            \/ delivery[d].at = "none" /\ delivery'[d] = First
            \/ Running(d) /\ delivery'[d].at # "none"

LEMMA DeliveryMoves ==
  ASSUME TypeOK, RoundOK, SentOK, [Next]_vars
  PROVE  \A d \in Deliveries : Moves(d)
<1> USE DEF Moves, TypeOK
<1>0. Changes \cap Months = {}
  BY MonthsAre, ChangesAssumption
<1>1. ASSUME UNCHANGED delivery PROVE \A d \in Deliveries : Moves(d)
  BY <1>1
<1>2. ASSUME NEW c \in Changes, FireWebhooks(c) PROVE \A d \in Deliveries : Moves(d)
  <2>1. PICK H \in {Matches(fire[c]), {}} :
          delivery' = [d \in Deliveries |-> IF d \in {c} \X H THEN First ELSE delivery[d]]
    BY <1>2 DEF FireWebhooks
  <2>2. H \subseteq Hooks
    BY <2>1 DEF Matches
  <2>3. \A h \in Hooks : delivery[<<c, h>>].at = "none"
    BY <1>2 DEF FireWebhooks, SentOK
  <2> QED
    BY <2>1, <2>2, <2>3
<1>3. ASSUME NEW d \in Deliveries, Attempt(d) \/ Wake(d) PROVE \A x \in Deliveries : Moves(x)
  <2>1. Running(d)
    BY <1>3 DEF Attempt, Wake, Running
  <2>2. PICK at, try : at \in {"delivered", "refused", "sleep", "failed", "send"} /\ Put(d, at, try)
    BY <1>3 DEF Attempt, Wake, Retry
  <2>3. delivery'[d].at # "none" /\ \A x \in Deliveries : x # d => delivery'[x] = delivery[x]
    BY <2>2 DEF Put
  <2> QED
    BY <2>1, <2>3
<1>4. ASSUME NEW h \in Hooks, Send(h) PROVE \A x \in Deliveries : Moves(x)
  <2>1. delivery' = [delivery EXCEPT ![<<armed, h>>] = First] /\ h \in todo
    BY <1>4 DEF Send, Mine
  <2>2. delivery[<<armed, h>>].at = "none"
    BY <2>1 DEF SentOK
  <2> QED
    BY <2>1, <2>2
<1>5. CASE Crash
  <2>1. \A d \in Deliveries : delivery'[d] = IF Running(d) THEN [None EXCEPT !.at = "cut"] ELSE delivery[d]
    BY <1>5 DEF Crash
  <2>2. [None EXCEPT !.at = "cut"].at # "none"
    BY DEF None
  <2> QED
    BY <2>1, <2>2
<1>6. CASE Timer \/ Rearm \/ Tick \/ Start \/ UNCHANGED vars \/ \E u \in Users : ReadTasks(u)
  BY <1>1, <1>6 DEF Timer, Rearm, Tick, Start, vars, ReadTasks, deliveries
<1>7. ASSUME NEW h \in Hooks, CreateWebhook(h) PROVE UNCHANGED delivery
  BY <1>7 DEF CreateWebhook, deliveries
<1>8. ASSUME NEW H, Remove(H) PROVE UNCHANGED delivery
  BY <1>8 DEF Remove, deliveries
<1>9. ASSUME NEW c \in Changes, NEW u \in Users, NEW e \in Events, Change(c, u, e) PROVE UNCHANGED delivery
  BY <1>9 DEF Change, deliveries
<1> QED
  BY <1>1, <1>2, <1>3, <1>4, <1>5, <1>6, <1>7, <1>8, <1>9
  DEF Next, FireMonthDigest, DeleteWebhook, DeleteUser

LEMMA SentStep == TypeOK /\ RoundOK /\ SentOK /\ [Next]_vars => SentOK'
<1> SUFFICES ASSUME TypeOK, RoundOK, SentOK, [Next]_vars PROVE SentOK'
  OBVIOUS
<1> USE DEF TypeOK
<1>0. Changes \cap Months = {} /\ armed \in Months
  BY MonthsAre, ChangesAssumption
<1>1. ASSUME UNCHANGED <<fire, fired>>, begun \subseteq begun', todo' \subseteq todo,
             todo' # {} => armed' = armed,
             \A d \in Deliveries : delivery'[d].at # "none" => delivery[d].at # "none"
      PROVE  SentOK'
  BY <1>0, <1>1 DEF SentOK, Deliveries
<1>2. ASSUME NEW c \in Changes, NEW u \in Users, NEW e \in Events, Change(c, u, e) PROVE SentOK'
  <2>1. /\ c \notin fired /\ fired' = fired \cup {c}
        /\ \A x \in Changes : x # c => fire'[x] = fire[x]
        /\ UNCHANGED <<delivery, begun, todo, armed>>
    BY <1>2 DEF Change, deliveries, round
  <2> QED
    BY <2>1 DEF SentOK
<1>3. ASSUME NEW c \in Changes, FireWebhooks(c) PROVE SentOK'
  <2>1. PICK H \in {Matches(fire[c]), {}} :
          delivery' = [d \in Deliveries |-> IF d \in {c} \X H THEN First ELSE delivery[d]]
    BY <1>3 DEF FireWebhooks
  <2>2. /\ fire[c] # NoFire /\ fire'[c] = NoFire /\ \A x \in Changes : x # c => fire'[x] = fire[x]
        /\ UNCHANGED <<fired, begun, todo, armed>>
    BY <1>3 DEF FireWebhooks, round
  <2>3. ASSUME NEW x \in Changes \cup Months, NEW h \in Hooks, x # c
        PROVE  delivery'[<<x, h>>] = delivery[<<x, h>>]
    BY <2>1, <2>3 DEF Deliveries
  <2>4. \A m \in Months : m # c
    BY <1>0
  <2>5. \A x \in Changes : fire'[x] # NoFire => x \in fired'
    BY <2>2 DEF SentOK
  <2>6. \A x \in Changes, h \in Hooks : delivery'[<<x, h>>].at # "none" => x \in fired' /\ fire'[x] = NoFire
    BY <2>2, <2>3 DEF SentOK
  <2>7. \A m \in Months, h \in Hooks : delivery'[<<m, h>>].at # "none" => m \in begun'
    BY <2>2, <2>3, <2>4 DEF SentOK
  <2>8. \A h \in todo' : delivery'[<<armed', h>>].at = "none"
    BY <1>0, <2>2, <2>3, <2>4 DEF SentOK
  <2> QED
    BY <2>5, <2>6, <2>7, <2>8 DEF SentOK
<1>4. ASSUME NEW d \in Deliveries, Attempt(d) \/ Wake(d) PROVE SentOK'
  <2>1. /\ delivery[d].at # "none" /\ UNCHANGED <<fire, fired, begun, todo, armed>>
        /\ \E at, try : delivery' = [delivery EXCEPT ![d] = [at |-> at, try |-> try]]
    BY <1>4 DEF Attempt, Wake, Retry, Put, events, round
  <2> QED
    BY <1>1, <2>1
<1>5. CASE Timer
  <2>1. /\ UNCHANGED <<fire, fired, delivery, armed>> /\ todo' \subseteq hooks
        /\ begun' = begun \cup {armed} /\ armed \notin begun
    BY <1>5 DEF Timer, events, deliveries, RoundOK
  <2>2. \A h \in Hooks : delivery[<<armed, h>>].at = "none"
    BY <1>0, <2>1 DEF SentOK
  <2> QED
    BY <2>1, <2>2 DEF SentOK
<1>6. ASSUME NEW u \in Users, ReadTasks(u) PROVE SentOK'
  BY <1>1, <1>6 DEF ReadTasks, events, deliveries
<1>7. ASSUME NEW h \in Hooks, Send(h) PROVE SentOK'
  <2>1. /\ delivery' = [delivery EXCEPT ![<<armed, h>>] = First] /\ todo' = todo \ {h}
        /\ UNCHANGED <<fire, fired, begun, armed>> /\ armed \in begun
    BY <1>7 DEF Send, events, RoundOK
  <2>2. \A x \in Changes \cup Months, g \in Hooks :
          x # armed \/ g # h => delivery'[<<x, g>>] = delivery[<<x, g>>]
    BY <2>1 DEF Deliveries
  <2> QED
    BY <1>0, <2>1, <2>2 DEF SentOK
<1>8. CASE Rearm \/ Tick \/ Start
  <2>1. todo' = todo /\ (todo # {} => armed' = armed) /\ UNCHANGED <<fire, fired, begun, delivery>>
    BY <1>8 DEF Rearm, Tick, Start, RoundOK, events, round, deliveries
  <2> QED
    BY <1>1, <2>1
<1>9. CASE Crash
  <2>1. /\ todo' = {} /\ begun' = begun /\ fired' = fired /\ fire' = [c \in Changes |-> NoFire]
        /\ \A d \in Deliveries : delivery'[d] = IF Running(d) THEN [None EXCEPT !.at = "cut"] ELSE delivery[d]
    BY <1>9 DEF Crash
  <2>2. \A d \in Deliveries : delivery'[d].at # "none" => delivery[d].at # "none"
    BY <2>1 DEF Running
  <2> QED
    BY <1>0, <2>1, <2>2 DEF SentOK, Deliveries
<1>10. ASSUME NEW h \in Hooks, CreateWebhook(h) PROVE SentOK'
  BY <1>1, <1>10 DEF CreateWebhook, events, round, deliveries
<1>11. ASSUME NEW H, Remove(H) PROVE SentOK'
  BY <1>1, <1>11 DEF Remove, events, round, deliveries
<1>12. CASE UNCHANGED vars
  BY <1>1, <1>12 DEF vars, events, round, deliveries
<1> QED
  BY <1>2, <1>3, <1>4, <1>5, <1>6, <1>7, <1>8, <1>9, <1>10, <1>11, <1>12
  DEF Next, FireMonthDigest, DeleteWebhook, DeleteUser

LEMMA AnsweredStep == TypeOK /\ RoundOK /\ SentOK /\ AnsweredIsOver /\ [Next]_vars => AnsweredIsOver'
<1> SUFFICES ASSUME TypeOK, RoundOK, SentOK, AnsweredIsOver, [Next]_vars PROVE AnsweredIsOver'
  OBVIOUS
<1>1. \A d \in Deliveries : delivery[d].at \in Ended => delivery'[d] = delivery[d]
  BY DeliveryMoves DEF Moves, Running, Ended
<1>2. ASSUME answered' = answered PROVE AnsweredIsOver'
  BY <1>1, <1>2 DEF AnsweredIsOver, TypeOK
<1>3. ASSUME NEW d \in Deliveries, Attempt(d), answered' # answered PROVE AnsweredIsOver'
  <2>1. PICK at \in {"delivered", "refused"} :
          Put(d, at, delivery[d].try) /\ answered' = answered \cup {d}
    BY <1>3 DEF Attempt
  <2>2. delivery'[d].at \in Ended
    BY <2>1 DEF Put, Ended, TypeOK
  <2> QED
    BY <1>1, <2>1, <2>2 DEF AnsweredIsOver, TypeOK
<1>4. CASE answered' # answered
  <2>1. \E d \in Deliveries : Attempt(d)
    BY <1>4 DEF Next, FireMonthDigest, DeleteWebhook, DeleteUser, CreateWebhook, Remove, FireWebhooks,
       Change, Wake, Timer, ReadTasks, Send, Rearm, Tick, Crash, Start, vars, deliveries
  <2> QED
    BY <1>3, <1>4, <2>1
<1> QED
  BY <1>2, <1>4

LEMMA DInvInit == Init => DInv
<1> SUFFICES ASSUME Init PROVE DInv
  OBVIOUS
<1>1. \A d \in Deliveries : delivery[d].at = "none"
  BY DEF Init, None
<1>2. SentOK
  BY <1>1 DEF Init, SentOK, Deliveries
<1> QED
  BY <1>2, TypeInit, RoundInit DEF DInv, Init, AnsweredIsOver

LEMMA DInvStep == DInv /\ [Next]_vars => DInv'
BY TypeStep, RoundStep, SentStep, AnsweredStep DEF DInv

(* What a receiver has answered below 500 is never sent again: not by a    *)
(* retry, a later round of the scheduler or a restart.                     *)
THEOREM AnsweredStaysOver == Spec => []AnsweredIsOver
<1>1. DInv => AnsweredIsOver
  BY DEF DInv
<1> QED
  BY DInvInit, DInvStep, <1>1, PTL DEF Spec

(* A hook's digest of a month is not begun anew once it has ended,         *)
(* delivered or not.                                                       *)
THEOREM DigestIsSentOnce == Spec => DigestOnce
<1>1. DInv /\ [Next]_vars
        => \A d \in Months \X Hooks : delivery[d].at \in Ended => delivery'[d] = delivery[d]
  BY DeliveryMoves DEF DInv, Moves, Running, Ended, Deliveries
<1>2. DInv /\ [Next]_vars
        => [\A d \in Months \X Hooks : delivery[d].at \in Ended => delivery'[d] = delivery[d]]_vars
  BY <1>1
<1> QED
  BY DInvInit, DInvStep, <1>2, PTL DEF Spec, DigestOnce
=============================================================================
