------------------------------ MODULE Webhooks ------------------------------
(***************************************************************************)
(* Outbound webhooks (backend/webhooks.go) and the monthly scheduler       *)
(* (main.go startMonthDigestScheduler).  A handler that has completed,     *)
(* un-completed or skipped a month starts a goroutine, which reads the     *)
(* owner's hooks and starts one more goroutine per matching hook; on the   *)
(* first of the month the scheduler does so for every digest hook, holding *)
(* one of a few slots per delivery.  Each delivery retries on its own.     *)
(*                                                                         *)
(* Time: month m begins at 2 * m and 08:00 UTC of its first day is         *)
(* At(m) = 2 * m + 1.                                                      *)
(***************************************************************************)
EXTENDS Naturals, FiniteSets

CONSTANTS Hooks,        \* webhook ids; an id is never used twice
          Users,
          Owner,        \* [Hooks -> Users]
          Subs,         \* [Hooks -> SUBSET (Events \cup {Digest})]: webhooks.events
          Events,       \* task.completed, task.uncompleted, task.skipped
          Digest,       \* month.digest
          Changes,      \* changes that fire an event in this instance
          MaxAttempts,  \* webhookMaxAttempts
          MaxDigest,    \* maxDigestConcurrency
          MaxTime,      \* bound: when this instance ends
          Nobody, NoFire

ASSUME HooksAssumption == /\ Owner \in [Hooks -> Users]
                          /\ Subs \in [Hooks -> SUBSET (Events \cup {Digest})]
                          /\ Digest \notin Events
                          /\ Nobody \notin Users
ASSUME BoundsAssumption == /\ MaxAttempts \in Nat \ {0} /\ MaxDigest \in Nat \ {0}
                           /\ MaxTime \in Nat
ASSUME ChangesAssumption == Changes \cap Nat = {} /\ NoFire \notin [user : Users, event : Events]

VARIABLES
  now,       \* the wall clock
  up,        \* the process runs
  born,      \* when the process was started
  late,      \* history: months that began while the scheduler was still sending
  hooks,     \* the rows of webhooks
  gone,      \* history: deleted hooks
  fire,      \* per change: the goroutine that has not read the hooks yet
  fired,     \* history: changes made
  delivery,  \* per subject and hook: where deliverWebhook is
  answered,  \* history: deliveries the receiver has answered below 500
  armed,     \* the month the scheduler sleeps for, or is sending
  firing,    \* FireMonthDigest runs
  todo,      \* hooks FireMonthDigest has still to serve
  serving,   \* the user whose tasks it has read
  begun      \* history: months whose digest was begun

clock == <<now, up, born, late>>
table == <<hooks, gone>>
events == <<fire, fired>>
round == <<armed, firing, todo, serving, begun>>
deliveries == <<delivery, answered>>
vars == <<clock, table, events, round, deliveries>>

Month(t) == t \div 2
At(m) == 2 * m + 1
Months == 0..(Month(MaxTime) + 1)
Deliveries == (Changes \cup Months) \X Hooks

None == [at |-> "none", try |-> 0]
First == [at |-> "send", try |-> 1]
Ended == {"delivered", "refused", "failed", "cut"}
Running(d) == delivery[d].at \in {"send", "sleep"}

BugArmCatchesUp == Month(now)

(* The first of next month. *)
Arm == Month(now) + 1

Init == /\ now = 0 /\ up = TRUE /\ born = 0 /\ late = {}
        /\ hooks \in SUBSET Hooks /\ gone = {}
        /\ fire = [c \in Changes |-> NoFire] /\ fired = {}
        /\ delivery = [d \in Deliveries |-> None] /\ answered = {}
        /\ armed = 1 /\ firing = FALSE /\ todo = {} /\ serving = Nobody /\ begun = {}

----------------------------------------------------------------------------
(* The handlers.                                                           *)

CreateWebhook(h) ==
  /\ up /\ h \notin hooks \cup gone
  /\ hooks' = hooks \cup {h}
  /\ UNCHANGED <<clock, gone, events, round, deliveries>>

(* DeleteWebhook, or the deletion of the user with all his hooks. *)
Remove(H) ==
  /\ up /\ H # {} /\ H \subseteq hooks
  /\ hooks' = hooks \ H
  /\ gone' = gone \cup H
  /\ UNCHANGED <<clock, events, round, deliveries>>

DeleteWebhook(h) == Remove({h})
DeleteUser(u) == Remove({h \in hooks : Owner[h] = u})

(* ToggleCompletion or SkipCompletion has changed a month. *)
Change(c, u, e) ==
  /\ up /\ c \notin fired
  /\ fire' = [fire EXCEPT ![c] = [user |-> u, event |-> e]]
  /\ fired' = fired \cup {c}
  /\ UNCHANGED <<clock, table, round, deliveries>>

Matches(f) == {h \in hooks : Owner[h] = f.user /\ f.event \in Subs[h]}

(* FireWebhooks; the hooks cannot be read: nothing is sent. *)
FireWebhooks(c) ==
  /\ fire[c] # NoFire
  /\ fire' = [fire EXCEPT ![c] = NoFire]
  /\ \E H \in {Matches(fire[c]), {}} :
       delivery' = [d \in Deliveries |-> IF d \in {c} \X H THEN First ELSE delivery[d]]
  /\ UNCHANGED <<clock, table, fired, round, answered>>

----------------------------------------------------------------------------
(* deliverWebhook.                                                         *)

Put(d, at, try) == delivery' = [delivery EXCEPT ![d] = [at |-> at, try |-> try]]

BugRetryOneMore(d) ==
  IF delivery[d].try <= MaxAttempts THEN Put(d, "sleep", delivery[d].try)
  ELSE Put(d, "failed", delivery[d].try)

(* No answer in time, or a status of 500 and above.                        *)
Retry(d) ==
  IF delivery[d].try < MaxAttempts THEN Put(d, "sleep", delivery[d].try)
  ELSE Put(d, "failed", delivery[d].try)

BugAttemptRetriesRefusals(d) ==
  /\ delivery[d].at = "send"
  /\ \/ Put(d, "delivered", delivery[d].try) /\ answered' = answered \cup {d}
     \/ Retry(d) /\ answered' = answered \cup {d}
     \/ Retry(d) /\ UNCHANGED answered
  /\ UNCHANGED <<clock, table, events, round>>

Attempt(d) ==
  /\ delivery[d].at = "send"
  /\ \/ \E at \in {"delivered", "refused"} :
          Put(d, at, delivery[d].try) /\ answered' = answered \cup {d}
     \/ Retry(d) /\ UNCHANGED answered
  /\ UNCHANGED <<clock, table, events, round>>

Wake(d) ==
  /\ delivery[d].at = "sleep"
  /\ Put(d, "send", delivery[d].try + 1)
  /\ UNCHANGED <<clock, table, events, round, answered>>

----------------------------------------------------------------------------
(* FireMonthDigest and its scheduler.                                      *)

(* The timer fires and the digest hooks are read, or cannot be.            *)
Timer ==
  /\ up /\ ~firing /\ now >= At(armed)
  /\ firing' = TRUE
  /\ todo' \in {{h \in hooks : Digest \in Subs[h]}, {}}
  /\ begun' = begun \cup {armed}
  /\ UNCHANGED <<clock, table, events, deliveries, armed, serving>>

Mine(u) == {h \in todo : Owner[h] = u}

(* GetTasks for the next user; on an error his hooks are left out.         *)
ReadTasks(u) ==
  /\ firing /\ serving = Nobody /\ Mine(u) # {}
  /\ \/ serving' = u /\ UNCHANGED todo
     \/ todo' = todo \ Mine(u) /\ UNCHANGED serving
  /\ UNCHANGED <<clock, table, events, deliveries, armed, firing, begun>>

BugSlotsKept == {h \in Hooks : Running(<<armed, h>>) \/ delivery[<<armed, h>>].at = "failed"}

(* The deliveries that hold a slot of sem, which each round makes anew. *)
Slots == {h \in Hooks : Running(<<armed, h>>)}

Send(h) ==
  /\ firing /\ h \in Mine(serving)
  /\ Cardinality(Slots) < MaxDigest
  /\ delivery' = [delivery EXCEPT ![<<armed, h>>] = First]
  /\ todo' = todo \ {h}
  /\ serving' = IF Mine(serving) = {h} THEN Nobody ELSE serving
  /\ UNCHANGED <<clock, table, events, answered, armed, firing, begun>>

BugRearmSkipsMonth ==
  /\ firing /\ todo = {}
  /\ armed' = Arm + 1
  /\ firing' = FALSE
  /\ UNCHANGED <<clock, table, events, deliveries, todo, serving, begun>>

(* The last delivery has got its slot; the next month is the one after     *)
(* this moment's, whichever month the round was for.                       *)
Rearm ==
  /\ firing /\ todo = {}
  /\ armed' = Arm
  /\ firing' = FALSE
  /\ UNCHANGED <<clock, table, events, deliveries, todo, serving, begun>>

----------------------------------------------------------------------------
(* Assumption: a timer that is due fires within one tick, the shorter of   *)
(* which is eight hours.  A round may take any time.                       *)
Tick ==
  /\ now < MaxTime
  /\ up /\ ~firing => now < At(armed)
  /\ now' = now + 1
  /\ late' = IF firing /\ now' = 2 * Month(now') THEN late \cup {Month(now')} ELSE late
  /\ UNCHANGED <<up, born, table, events, round, deliveries>>

(* The process is killed with its goroutines. *)
Crash ==
  /\ up
  /\ up' = FALSE
  /\ fire' = [c \in Changes |-> NoFire]
  /\ delivery' = [d \in Deliveries |-> IF Running(d) THEN [None EXCEPT !.at = "cut"] ELSE delivery[d]]
  /\ firing' = FALSE /\ todo' = {} /\ serving' = Nobody
  /\ UNCHANGED <<now, born, late, table, fired, answered, armed, begun>>

Start ==
  /\ ~up
  /\ up' = TRUE /\ born' = now
  /\ armed' = Arm
  /\ UNCHANGED <<now, late, table, events, deliveries, firing, todo, serving, begun>>

FireMonthDigest == Timer \/ (\E u \in Users : ReadTasks(u)) \/ (\E h \in Hooks : Send(h)) \/ Rearm

Next == \/ \E h \in Hooks : CreateWebhook(h) \/ DeleteWebhook(h)
        \/ \E u \in Users : DeleteUser(u)
        \/ \E c \in Changes : FireWebhooks(c) \/ \E u \in Users, e \in Events : Change(c, u, e)
        \/ \E d \in Deliveries : Attempt(d) \/ Wake(d)
        \/ FireMonthDigest \/ Tick \/ Crash \/ Start

Spec == Init /\ [][Next]_vars

(* The goroutines are scheduled, an attempt ends after ten seconds, and a  *)
(* pause is over after its time.                                           *)
FairSpec == /\ Spec
            /\ \A d \in Deliveries : WF_vars(Attempt(d) \/ Wake(d))
            /\ WF_vars(FireMonthDigest)

----------------------------------------------------------------------------

TypeOK ==
  /\ now \in 0..MaxTime /\ up \in BOOLEAN /\ born \in 0..now /\ late \subseteq Months
  /\ hooks \subseteq Hooks /\ gone \subseteq Hooks
  /\ fire \in [Changes -> [user : Users, event : Events] \cup {NoFire}] /\ fired \subseteq Changes
  /\ delivery \in [Deliveries -> [at : {"none", "send", "sleep"} \cup Ended, try : 0..MaxAttempts]]
  /\ answered \subseteq Deliveries
  /\ armed \in Months /\ firing \in BOOLEAN /\ todo \subseteq Hooks
  /\ serving \in Users \cup {Nobody} /\ begun \subseteq Months

(* What the receiver has answered is never sent again, by a retry, by      *)
(* another round of the scheduler or after a restart (webhooks.go: "4xx    *)
(* responses are not retried").                                            *)
AnsweredIsOver == \A d \in answered : delivery[d].at \in Ended

(* A hook is sent at most one digest of a month, whatever became of it,    *)
(* although the scheduler keeps nothing across restarts.                   *)
DigestOnce ==
  [][\A d \in Months \X Hooks : delivery[d].at \in Ended => delivery'[d] = delivery[d]]_vars

(* A process that runs since before the month began does send the digest   *)
(* of that month (main.go: "at 08:00 UTC on the 1st of every month"),      *)
(* unless the round of an earlier month was still going on when it began:  *)
(* the timer is armed anew for the month after the round has ended.  One   *)
(* that was started on the 1st does not.                                   *)
DigestNotMissed ==
  \A m \in Months : up /\ born < 2 * m /\ now > At(m) => m \in begun \cup late

(* A digest delivery that waits for a slot gets one: the slots come back,  *)
(* however the deliveries that hold them end.                              *)
DigestGoesOut == \A h \in Hooks : h \in todo ~> h \notin todo
=============================================================================
