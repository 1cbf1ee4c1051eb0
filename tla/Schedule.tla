------------------------------ MODULE Schedule ------------------------------
(***************************************************************************)
(* When a task is due (backend/db.go), and the handlers that change it.    *)
(* The rule is written three times: in SQL for the month view and the      *)
(* digest (GetTasks), in Go for the report (taskActiveInMonth), and once   *)
(* more as the range in which the report looks for tasks at all.           *)
(*                                                                         *)
(* A month is its index, year * 12 + month - 1; of two valid YYYY-MM       *)
(* strings the smaller is the earlier month.                               *)
(***************************************************************************)
EXTENDS Integers, FiniteSets

CONSTANTS Tasks,      \* tasks.id
          Users,
          Labels,     \* title and type of a task
          Intervals,  \* allowedIntervals
          FirstMonth, LastMonth,  \* bound: the months of this instance
          History, Forecast,      \* months of the report before and after its anchor
          Shapes,     \* bound: the bodies of create and update requests
          NoMonth, NoTask

Months == FirstMonth..LastMonth
Dates == Months \cup {NoMonth}

AllShapes == [label : Labels, start : Dates, end : Dates, interval : Intervals]
Rows == [label : Labels, start : Dates, end : Dates, interval : Intervals,
         created : Months, archived : BOOLEAN, owner : Users]

ASSUME MonthsAssumption == /\ FirstMonth \in Int /\ LastMonth \in Int /\ FirstMonth <= LastMonth
                           /\ NoMonth \notin Int
ASSUME IntervalsAssumption == Intervals \subseteq Nat \ {0}
ASSUME ReportAssumption == History \in Nat /\ Forecast \in Nat
ASSUME ShapesAssumption == Shapes \subseteq AllShapes
ASSUME NoTaskAssumption == NoTask \notin Rows

VARIABLES
  task,    \* the rows of tasks
  shared,  \* task_shares: pairs of a task and a user
  now      \* the current month

scheduleVars == <<task, shared, now>>

Existing == {t \in Tasks : task[t] # NoTask}

ScheduleInit == /\ task = [t \in Tasks |-> NoTask]
                /\ shared = {}
                /\ now = FirstMonth

----------------------------------------------------------------------------
(* The rule.                                                               *)

(* The effective start: start_date, or else the month of created_at. *)
Start(x) == IF x.start = NoMonth THEN x.created ELSE x.start

(* taskActiveInMonth. *)
ActiveInMonth(x, m) ==
  /\ ~(Start(x) > m)
  /\ ~(x.end # NoMonth /\ x.end < m)
  /\ (m - Start(x)) % x.interval = 0

(* The WHERE clause of GetTasks, with intervalCheckExpr. *)
Selected(x, m) ==
  /\ Start(x) <= m
  /\ x.end = NoMonth \/ x.end >= m
  /\ (m - Start(x)) % x.interval = 0

Sees(u, t) == task[t].owner = u \/ <<t, u>> \in shared

(* GetTasks: the month view, list_tasks and the digest. *)
MonthView(u, m) == {t \in Existing : Sees(u, t) /\ ~task[t].archived /\ Selected(task[t], m)}

BugInRange(x, anchor) ==
  /\ Start(x) <= anchor
  /\ x.end = NoMonth \/ x.end >= anchor - History

(* The first query of GetReportData. *)
InRange(x, anchor) ==
  /\ Start(x) <= anchor + Forecast
  /\ x.end = NoMonth \/ x.end >= anchor - History

Fetched(u, anchor) == {t \in Existing : Sees(u, t) /\ InRange(task[t], anchor)}

(* Month m of the report of u around the anchor. *)
ReportMonth(u, anchor, m) ==
  {t \in Fetched(u, anchor) : (m > anchor => ~task[t].archived) /\ ActiveInMonth(task[t], m)}

ReportMonths(anchor) == ((anchor - History)..(anchor - 1)) \cup ((anchor + 1)..(anchor + Forecast))

----------------------------------------------------------------------------
(* The handlers.                                                           *)

NewRow(s, u) == [label |-> s.label, start |-> s.start, end |-> s.end, interval |-> s.interval,
                 created |-> now, archived |-> FALSE, owner |-> u]

CreateTask(u, t, s) ==
  /\ task[t] = NoTask
  /\ task' = [task EXCEPT ![t] = NewRow(s, u)]
  /\ UNCHANGED <<shared, now>>

(* Every column but the owner, the date of creation and archived_at.       *)
UpdateTask(t, s) ==
  /\ t \in Existing
  /\ task' = [task EXCEPT ![t].label = s.label, ![t].start = s.start,
                          ![t].end = s.end, ![t].interval = s.interval]
  /\ UNCHANGED <<shared, now>>

SetArchived(t, b) ==
  /\ t \in Existing
  /\ task' = [task EXCEPT ![t].archived = b]
  /\ UNCHANGED <<shared, now>>

Unarchive(t) == SetArchived(t, FALSE)

Archive(t) == SetArchived(t, TRUE)

(* The shares go with the task. *)
DeleteTask(t) ==
  /\ t \in Existing
  /\ task' = [task EXCEPT ![t] = NoTask]
  /\ shared' = {p \in shared : p[1] # t}
  /\ UNCHANGED now

AddShare(t, u) ==
  /\ t \in Existing /\ task[t].owner # u
  /\ shared' = shared \cup {<<t, u>>}
  /\ UNCHANGED <<task, now>>

RemoveShare(t, u) ==
  /\ shared' = shared \ {<<t, u>>}
  /\ UNCHANGED <<task, now>>

MonthEnds == /\ now < LastMonth
             /\ now' = now + 1
             /\ UNCHANGED <<task, shared>>

ScheduleNext ==
  \/ \E t \in Tasks :
       \/ \E s \in Shapes : UpdateTask(t, s) \/ \E u \in Users : CreateTask(u, t, s)
       \/ Archive(t) \/ Unarchive(t) \/ DeleteTask(t)
       \/ \E u \in Users : AddShare(t, u) \/ RemoveShare(t, u)
  \/ MonthEnds

ScheduleSpec == ScheduleInit /\ [][ScheduleNext]_scheduleVars

----------------------------------------------------------------------------

ScheduleTypeOK ==
  /\ task \in [Tasks -> Rows \cup {NoTask}]
  /\ shared \subseteq Existing \X Users
  /\ now \in Months

(* What is due in a month is the same in the month view and in the report, *)
(* whatever the anchor; the report of past months has the archived tasks   *)
(* as well (db.go: "replicating the same logic used in the GetTasks SQL    *)
(* WHERE clause").                                                         *)
ViewsAgree ==
  \A u \in Users, anchor \in Months : \A m \in ReportMonths(anchor) :
    {t \in ReportMonth(u, anchor, m) : ~task[t].archived} = MonthView(u, m)

(* Archiving a task, and bringing it back, changes no past month of any    *)
(* report (mcp-server/tools.go: "keeping its history").                     *)
ArchiveKeepsHistory ==
  [][\A t \in Tasks :
       Archive(t) \/ Unarchive(t)
         => \A u \in Users, anchor \in Months : \A m \in (anchor - History)..(anchor - 1) :
              ReportMonth(u, anchor, m)' = ReportMonth(u, anchor, m)]_scheduleVars
=============================================================================
