--------------------------- MODULE StartupProofs ----------------------------
(***************************************************************************)
(* Proofs about Startup, for every set of values.                          *)
(***************************************************************************)
EXTENDS Startup, TLAPS

Steps == {"down", "alter", "rebuild", "repair", "backfill", "count", "adopt", "settings", "serving"}

TypeOK == /\ schema \in Schemas /\ task \in Tasks /\ done \in Completions
          /\ setting \in Texts /\ admin \in BOOLEAN /\ pc \in Steps

(* Steps before which the tasks have been rebuilt, and amounts filled in.  *)
Rebuilt == {"repair", "backfill", "count", "adopt", "settings", "serving"}
Filled == {"count", "adopt", "settings", "serving"}

(* What a version without nullable dates, or with the broken reference,    *)
(* cannot hold yet: that is what the rebuilds do not copy.                 *)
NothingYounger == /\ schema.dates # "nullable" => task.amount = Empty /\ ~task.archived /\ done = Unmarked
                  /\ schema.refers = "tasks_old" => done = Unmarked

Reached == /\ pc = "rebuild" => schema.dates # "missing"
           /\ pc \in Rebuilt => schema.dates = "nullable"
           /\ pc \in Filled /\ task.amount = Empty => left.amount = Empty

(* The amount is the one entered; or it was embedded in the metadata and   *)
(* is to be copied; or none was entered and the one there was copied.      *)
AmountKept == \/ task.amount = left.amount
              \/ task.amount = Empty /\ task.legacy = left.amount
              \/ left.amount = Empty /\ task.amount = task.legacy

IInv == /\ TypeOK /\ NothingYounger /\ Reached /\ AmountKept
        /\ left \in [amount : Texts, archived : BOOLEAN, done : Completions, setting : Texts]
        /\ task.archived = left.archived /\ done = left.done /\ setting = left.setting

LEMMA IInvInit == Init => IInv
BY DEF Init, IInv, TypeOK, NothingYounger, Reached, Rebuilt, Filled, Steps, AmountKept, Seen, Amount, Tasks

(* The amount in the metadata counts where the column is empty. *)
LEMMA AmountType == ASSUME NEW t \in Tasks PROVE Amount(t) \in Texts
BY DEF Tasks, Amount

LEMMA StepInv == ASSUME IInv, [Next]_vars PROVE IInv'
<1> USE DEF IInv, TypeOK, NothingYounger, Reached, Rebuilt, Filled, Steps, AmountKept, At
<1>1. CASE UNCHANGED vars
  BY <1>1 DEF vars, Amount
<1>2. CASE Start \/ Crash
  BY <1>2 DEF Start, Crash, Amount
<1>3. CASE AddColumns
  BY <1>3 DEF AddColumns, Amount, Schemas
<1>4. CASE RebuildTasks
  <2>1. CASE ~DatesNotNull /\ UNCHANGED <<schema, task>>
    BY <1>4, <2>1 DEF RebuildTasks, DatesNotNull, Schemas, Amount
  <2>2. ASSUME DatesNotNull, NEW t \in {schema.refers, "tasks_old"},
               schema' = [schema EXCEPT !.dates = "nullable", !.refers = t],
               task' = [task EXCEPT !.amount = task.legacy, !.archived = FALSE]
        PROVE  IInv'
    <3>1. done = Unmarked /\ task.amount = Empty /\ ~task.archived
      BY <2>2 DEF DatesNotNull
    <3>2. /\ schema' \in Schemas /\ schema'.dates = "nullable"
          /\ task' \in Tasks /\ task'.amount = task.legacy /\ task'.legacy = task.legacy
          /\ task'.archived = task.archived
      BY <2>2, <3>1 DEF Schemas, Tasks
    <3>3. left' = left /\ pc' = "repair" /\ UNCHANGED <<done, setting, admin>>
      BY <1>4 DEF RebuildTasks
    <3>4. AmountKept'
      BY <3>1, <3>2, <3>3
    <3>5. TypeOK' /\ NothingYounger' /\ Reached'
      BY <3>1, <3>2, <3>3
    <3> QED
      BY <3>2, <3>3, <3>4, <3>5
  <2> QED
    BY <1>4, <2>1, <2>2 DEF RebuildTasks
<1>5. CASE RepairCompletions
  <2>1. /\ schema' \in Schemas /\ schema'.dates = schema.dates /\ done' = done
        /\ schema'.refers = "tasks"
    BY <1>5 DEF RepairCompletions, Schemas
  <2> QED
    BY <1>5, <2>1 DEF RepairCompletions, Amount
<1>6. CASE BackfillAmount
  <2>1. /\ task' \in Tasks /\ task'.legacy = task.legacy /\ task'.archived = task.archived
        /\ task'.amount = IF task.amount = Empty THEN task.legacy ELSE task.amount
    BY <1>6, AmountType DEF BackfillAmount, Tasks, Amount
  <2>2. pc' = "count" /\ UNCHANGED <<schema, done, setting, admin, left>> /\ pc = "backfill"
    BY <1>6 DEF BackfillAmount
  <2>3. AmountKept' /\ Reached'
    BY <2>1, <2>2
  <2> QED
    BY <2>1, <2>2, <2>3
<1>7. CASE CountUsers
  BY <1>7 DEF CountUsers, Amount
<1>8. CASE AssignOrphanedTasks
  <2>1. /\ task' \in Tasks /\ task'.amount = task.amount
        /\ Amount(task') = Amount(task) /\ task'.archived = task.archived
    BY <1>8 DEF AssignOrphanedTasks, Tasks, Amount
  <2> QED
    BY <1>8, <2>1 DEF AssignOrphanedTasks
<1>9. CASE MigrateSettingsToUserScoped \/ Setup
  <2>1. /\ schema' \in Schemas /\ schema'.dates = schema.dates /\ schema'.refers = schema.refers
        /\ admin' \in BOOLEAN /\ pc' \in {pc, "serving"} /\ pc \in Filled
        /\ UNCHANGED <<task, done, setting, left>>
    BY <1>9 DEF MigrateSettingsToUserScoped, Setup, Schemas
  <2> QED
    BY <2>1 DEF Amount
<1>10. ASSUME NEW v \in Texts, NEW m \in Texts, UpdateTask(v, m)
       PROVE  IInv'
  <2>1. /\ task' = [task EXCEPT !.amount = v, !.legacy = m]
        /\ left' = [left EXCEPT !.amount = v] /\ pc = "serving"
        /\ UNCHANGED <<schema, done, setting, admin, pc>>
    BY <1>10 DEF UpdateTask, Serving
  <2>2. task' \in Tasks /\ task'.amount = v /\ task'.archived = task.archived
    BY <2>1 DEF Tasks
  <2> QED
    BY <2>1, <2>2
<1>11. ASSUME NEW b \in BOOLEAN, SetArchived(b)
       PROVE  IInv'
  <2>1. /\ task' = [task EXCEPT !.archived = b]
        /\ left' = [left EXCEPT !.archived = b] /\ pc = "serving"
        /\ UNCHANGED <<schema, done, setting, admin, pc>>
    BY <1>11 DEF SetArchived, Serving
  <2>2. /\ task' \in Tasks /\ task'.amount = task.amount /\ Amount(task') = Amount(task)
        /\ task'.archived = b
    BY <2>1 DEF Tasks, Amount
  <2> QED
    BY <2>1, <2>2
<1>12. ASSUME NEW d \in Completions, Mark(d)
       PROVE  IInv'
  BY <1>12 DEF Mark, Serving, Amount
<1>13. ASSUME NEW v \in Texts, PutSetting(v)
       PROVE  IInv'
  BY <1>13 DEF PutSetting, Serving, Amount
<1> QED
  BY <1>1, <1>2, <1>3, <1>4, <1>5, <1>6, <1>7, <1>8, <1>9, <1>10, <1>11, <1>12, <1>13 DEF Next

(* Whatever database a start finds and however many were broken off before *)
(* it, what is served is what the users last entered, or an older version  *)
(* last showed, but for an empty amount.                                   *)
THEOREM ServedIsAsLeft == Spec => []ServedAsLeft
<1>1. IInv => ServedAsLeft
  BY DEF IInv, Reached, Filled, AmountKept, ServedAsLeft
<1> QED
  BY <1>1, IInvInit, StepInv, PTL DEF Spec
=============================================================================
