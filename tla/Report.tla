------------------------------- MODULE Report -------------------------------
(***************************************************************************)
(* A reader that puts together the task and its months from two statements *)
(* while the handlers of Amounts go on: GetReportData (backend/db.go), and *)
(* list_tasks (mcp-server/tools.go), which sends two requests in the same  *)
(* order.  The web app's report (ReportView.jsx) and the MCP server's      *)
(* get_report count from the same pair, not in the same way.               *)
(***************************************************************************)
EXTENDS Amounts

CONSTANT Zero   \* the amount 0, whatever it is written like

ASSUME ZeroAssumption == Zero \in Valid

VARIABLES
  reading,  \* the tasks are read, the completions are not
  task,     \* tasks.amount as the first statement saw it
  past,     \* history: status and amount of the months at that moment
  cleared   \* history: months that have lost a logged amount since

reader == <<reading, task, past, cleared>>

NoPast == [status |-> [m \in Months |-> "pending"], amount |-> [m \in Months |-> Empty]]

RestReader == /\ reading' = FALSE
              /\ task' = Empty
              /\ past' = NoPast
              /\ cleared' = {}

ReportInit == Init /\ reading = FALSE /\ task = Empty /\ past = NoPast /\ cleared = {}

ReadTasks ==
  /\ ~reading
  /\ reading' = TRUE
  /\ task' = default
  /\ past' = [status |-> status, amount |-> amount]
  /\ cleared' = {}
  /\ UNCHANGED vars

(* The second statement, or an error in it, ends the report.               *)
ReadCompletions == reading /\ RestReader /\ UNCHANGED vars

(* A step of Amounts, seen from the reader. *)
Meanwhile ==
  /\ UNCHANGED <<reading, task, past>>
  /\ cleared' = IF reading
                THEN cleared \cup {m \in Months : amount[m] # Empty /\ amount'[m] = Empty}
                ELSE cleared

ReportNext == (Next /\ Meanwhile) \/ ReadTasks \/ ReadCompletions

ReportSpec == ReportInit /\ [][ReportNext]_<<vars, reader>>

----------------------------------------------------------------------------

(* c.amount || t.amount *)
Or(a, b) == IF a = Empty THEN b ELSE a

BugReportedCompletionsFirst(m) == Or(past.amount[m], default)

(* What the web app's report counts for month m when the completions are   *)
(* read now.                                                               *)
Reported(m) == Or(amount[m], task)

(* The cost of a month in the app's report is one the month really had,    *)
(* before or after, though the default amount may change, and stamp the    *)
(* months, between the two statements (db.go GetReportData: the tasks are  *)
(* read first).  Two kinds of months are left out: one that was not        *)
(* completed at the first statement has no cost before, and an amount that *)
(* is cleared between the statements (PATCH, toggle or import) leaves the  *)
(* month at the task's amount of the first one.                            *)
ReportTrue ==
  \A m \in Months :
    reading /\ status[m] = "completed" /\ past.status[m] = "completed" /\ m \notin cleared
      => Reported(m) \in {Or(past.amount[m], task), Effective(m)}

(* parseFloat: what does not parse counts nothing. *)
Worth(a) == IF a \in Invalid \cup {Empty} THEN Zero ELSE a

(* What get_report counts: the task's amount whenever the month's is zero, *)
(* logged or not.                                                          *)
Paid(m) == IF Worth(amount[m]) = Zero THEN Worth(task) ELSE Worth(amount[m])

(* An amount logged for a month replaces the task's in get_report too      *)
(* (db.go:82, "overrides task's default amount when non-empty").  Not so   *)
(* where it is zero (tools.go:354).                                        *)
PaidIsLogged ==
  \A m \in Months :
    reading /\ status[m] = "completed" /\ amount[m] # Empty => Paid(m) = Worth(amount[m])
=============================================================================
