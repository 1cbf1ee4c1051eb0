---------------------------- MODULE CompletionLog ----------------------------
(***************************************************************************)
(* What the completion handlers promise to users who call them at the same *)
(* time and never look inside them.  A request takes effect at most once,  *)
(* at one moment between its call and its answer, only on what it names,   *)
(* and only if its user was let in at a moment after the call; an answer   *)
(* of any kind, and a crash, may come before the effect or after it.  An   *)
(* import takes effect at one moment for all its months.                   *)
(*                                                                         *)
(* What is NOT promised is that the effect is the one the user had in mind *)
(* when he looked: a tick may complete or clear, whatever is there by then.*)
(***************************************************************************)
CONSTANTS Users, Tasks, Months, Requests, Owner, Call, NoCall

Keys == Tasks \X Months

VARIABLES tasks,     \* the tasks that still exist
          shares,    \* who may use a task besides its owner
          state,     \* per key: "pending", "completed" or "skipped"
          attached,  \* per key: is a receipt attached?
          call,      \* per slot: what was asked
          stage      \* per slot: "idle", "asked", "admitted" or "done"

log == <<tasks, shares, state, attached>>
vars == <<tasks, shares, state, attached, call, stage>>

Init == /\ tasks = Tasks
        /\ shares = {}
        /\ state = [k \in Keys |-> "pending"]
        /\ attached = [k \in Keys |-> FALSE]
        /\ call = [r \in Requests |-> NoCall]
        /\ stage = [r \in Requests |-> "idle"]

Live(k) == k[1] \in tasks

----------------------------------------------------------------------------
(* Effects on one month, or on one task.                                   *)

(* A month that is not completed becomes so, keeping what is attached.     *)
Complete(k) == /\ Live(k) /\ state[k] # "completed"
               /\ state' = [state EXCEPT ![k] = "completed"]
               /\ UNCHANGED <<tasks, shares, attached>>

(* Back to pending; the receipt goes too.                                  *)
Clear(k) == /\ Live(k) /\ state[k] # "pending"
            /\ state' = [state EXCEPT ![k] = "pending"]
            /\ attached' = [attached EXCEPT ![k] = FALSE]
            /\ UNCHANGED <<tasks, shares>>

Skip(k) == /\ Live(k) /\ state[k] = "pending"
           /\ state' = [state EXCEPT ![k] = "skipped"]
           /\ UNCHANGED <<tasks, shares, attached>>

(* A receipt never brings a month back that somebody has cleared.          *)
Attach(k) == /\ Live(k) /\ state[k] # "pending"
             /\ attached' = [attached EXCEPT ![k] = TRUE]
             /\ UNCHANGED <<tasks, shares, state>>

Detach(k) == /\ Live(k) /\ state[k] # "pending"
             /\ attached' = [attached EXCEPT ![k] = FALSE]
             /\ UNCHANGED <<tasks, shares, state>>

(* The months of a deleted task are pending for ever after.                *)
Delete(t) == /\ tasks' = tasks \ {t}
             /\ shares' = {s \in shares : s[1] # t}
             /\ state' = [k \in Keys |-> IF k[1] = t THEN "pending" ELSE state[k]]
             /\ attached' = [k \in Keys |-> IF k[1] = t THEN FALSE ELSE attached[k]]

(* The effects that the request c may have.                                *)
Effect(c) == \/ c.op = "toggle" /\ (Complete(<<c.task, c.month>>) \/ Clear(<<c.task, c.month>>))
             \/ c.op = "skip" /\ (Skip(<<c.task, c.month>>) \/ Clear(<<c.task, c.month>>))
             \/ c.op = "upload" /\ Attach(<<c.task, c.month>>)
             \/ c.op = "unreceipt" /\ Detach(<<c.task, c.month>>)
             \/ c.op = "delete" /\ Delete(c.task)

----------------------------------------------------------------------------
(* A request: asked, admitted, perhaps in effect, answered.                *)

Ask(r) == /\ stage[r] = "idle"
          /\ stage' = [stage EXCEPT ![r] = "asked"]
          /\ \E c \in Call : call' = [call EXCEPT ![r] = c]
          /\ UNCHANGED log

Allowed(c) == /\ c.task \in tasks
              /\ Owner[c.task] = c.user \/ (c.op # "delete" /\ <<c.task, c.user>> \in shares)

Admit(r) == /\ stage[r] = "asked" /\ Allowed(call[r])
            /\ stage' = [stage EXCEPT ![r] = "admitted"]
            /\ UNCHANGED <<call, log>>

(* The request has had its effect, or will have none; it may be answered   *)
(* in the same step.                                                       *)
Over(r) == \/ /\ stage' = [stage EXCEPT ![r] = "done"]
              /\ UNCHANGED call
           \/ /\ stage' = [stage EXCEPT ![r] = "idle"]
              /\ call' = [call EXCEPT ![r] = NoCall]

Take(r) == /\ stage[r] = "admitted"
           /\ Over(r)
           /\ Effect(call[r]) \/ UNCHANGED log

Answer(r) == /\ stage[r] # "idle"
             /\ stage' = [stage EXCEPT ![r] = "idle"]
             /\ call' = [call EXCEPT ![r] = NoCall]
             /\ UNCHANGED log

Restart == /\ stage' = [r \in Requests |-> "idle"]
           /\ call' = [r \in Requests |-> NoCall]
           /\ UNCHANGED log

----------------------------------------------------------------------------
(* Imports and shares, at one moment each.                                 *)

(* Months of the user's own tasks, to completed or skipped and never back. *)
Import(u) ==
  /\ UNCHANGED <<tasks, shares, attached, call, stage>>
  /\ DOMAIN state' = Keys
  /\ \A k \in Keys : state'[k] # state[k] =>
        Live(k) /\ Owner[k[1]] = u /\ state'[k] \in {"completed", "skipped"}

Share(t, u) == /\ t \in tasks /\ u # Owner[t]
               /\ shares' \in {shares \cup {<<t, u>>}, shares \ {<<t, u>>}}
               /\ UNCHANGED <<tasks, state, attached, call, stage>>

Next == \/ \E u \in Users : Import(u)
        \/ \E t \in Tasks, u \in Users : Share(t, u)
        \/ \E r \in Requests : Ask(r) \/ Admit(r) \/ Take(r) \/ Answer(r)
        \/ Restart

Spec == Init /\ [][Next]_vars
=============================================================================
