-------------------------------- MODULE Csv ---------------------------------
(***************************************************************************)
(* Export of the completions to a CSV file and import of such a file, into *)
(* the same account or another (backend/handlers.go ExportCSV, ImportCSV;  *)
(* db.go GetCompletionsForExport, ImportCompletionsCSV), over the tasks of *)
(* Schedule.  An import is one transaction.  Tasks are matched by title    *)
(* and type; where there is none, a placeholder is created that starts in  *)
(* the month of the first line that names it.  The amount of a line goes   *)
(* with its status; what an import does to amounts is in Amounts, and to   *)
(* receipts in Completions.                                                *)
(***************************************************************************)
EXTENDS Schedule, SequencesExt

CONSTANTS Statuses,  \* completed, skipped
          Untyped,   \* labels with the empty type
          HandMade,  \* files that were not exported
          NoRow

Lines == [label : Labels, month : Months, status : Statuses]

ASSUME CsvAssumption == /\ Untyped \subseteq Labels /\ NoRow \notin Statuses
                        /\ HandMade \subseteq Seq(Lines)
                        /\ IsFiniteSet(Tasks) /\ 1 \in Intervals

VARIABLES
  row,     \* completions: the status of a month of a task
  file,    \* the file a user holds
  exported \* it came from an export

csvVars == <<scheduleVars, row, file, exported>>

CsvInit == /\ ScheduleInit
           /\ row = [t \in Tasks |-> [m \in Months |-> NoRow]]
           /\ file = <<>> /\ exported = FALSE

----------------------------------------------------------------------------

(* A toggle or a skip, in any month: the handlers do not ask whether the   *)
(* task is due.                                                            *)
Mark(t, m, s) ==
  /\ t \in Existing
  /\ row' = [row EXCEPT ![t][m] = s]
  /\ UNCHANGED <<scheduleVars, file, exported>>

(* The rows of completions go with their task. *)
TaskStep == /\ ScheduleNext
            /\ row' = [t \in Tasks |-> IF task'[t] = NoTask THEN [m \in Months |-> NoRow] ELSE row[t]]
            /\ UNCHANGED <<file, exported>>

BugNotLater(p, q) == p[2] >= q[2]

(* ORDER BY month, title: which row of a month comes first decides         *)
(* nothing and is left open.                                               *)
NotLater(p, q) == p[2] <= q[2]

(* GetCompletionsForExport: own tasks only, archived or not.               *)
Found(u, from, to) ==
  {p \in Existing \X (from..to) : task[p[1]].owner = u /\ row[p[1]][p[2]] # NoRow}

Line(p) == [label |-> task[p[1]].label, month |-> p[2], status |-> row[p[1]][p[2]]]

ExportCSV(u, from, to) ==
  /\ from <= to
  /\ \E found \in SetToSeqs(Found(u, from, to)) :
       /\ \A i, j \in 1..Len(found) : i < j => NotLater(found[i], found[j])
       /\ file' = [i \in 1..Len(found) |-> Line(found[i])]
  /\ exported' = TRUE
  /\ UNCHANGED <<scheduleVars, row>>

WriteFile(f) == /\ file' = f /\ exported' = FALSE
                /\ UNCHANGED <<scheduleVars, row>>

----------------------------------------------------------------------------

Named == {file[i].label : i \in 1..Len(file)}
Matching(u, l) == {t \in Existing : task[t].owner = u /\ task[t].label = l}

(* Which task each label goes to: any of several that match, or a new one. *)
Targets(u) ==
  {f \in [Named -> Tasks] :
     \A l \in Named : /\ IF Matching(u, l) # {} THEN f[l] \in Matching(u, l) ELSE task[f[l]] = NoTask
                      /\ \A k \in Named : f[k] = f[l] => k = l}

LinesOf(l) == {i \in 1..Len(file) : file[i].label = l}

FirstLine(l) == Min(LinesOf(l))

Placeholder(l, u) ==
  [label |-> l, start |-> file[FirstLine(l)].month, end |-> NoMonth, interval |-> 1,
   created |-> now, archived |-> FALSE, owner |-> u]

BugKept(S) == Min(S)

(* Of several lines for one month the last is kept. *)
Kept(S) == Max(S)

ImportCSV(u) ==
  /\ file # <<>> /\ Named \cap Untyped = {}
  /\ \E f \in Targets(u) :
       /\ task' = [t \in Tasks |->
            IF task[t] # NoTask \/ \A l \in Named : f[l] # t THEN task[t]
            ELSE Placeholder(CHOOSE l \in Named : f[l] = t, u)]
       /\ row' = [t \in Tasks |-> [m \in Months |->
            LET S == {i \in 1..Len(file) : f[file[i].label] = t /\ file[i].month = m}
            IN IF S = {} THEN row[t][m] ELSE file[Kept(S)].status]]
  /\ UNCHANGED <<shared, now, file, exported>>

CsvNext ==
  \/ TaskStep
  \/ \E t \in Tasks, m \in Months, s \in Statuses \cup {NoRow} : Mark(t, m, s)
  \/ \E u \in Users : ImportCSV(u) \/ \E from, to \in Months : ExportCSV(u, from, to)
  \/ \E f \in HandMade : WriteFile(f)

CsvSpec == CsvInit /\ [][CsvNext]_csvVars

----------------------------------------------------------------------------

(* A task that an import of an exported file creates is due in every month *)
(* the file has for it: what is restored can be seen.  It rests on the     *)
(* order of the export, which makes the first line the earliest.           *)
RestoredIsShown ==
  [][\A u \in Users : ImportCSV(u) /\ exported =>
       \A t \in Existing' \ Existing, m \in Months :
         row'[t][m] # NoRow => t \in MonthView(u, m)']_csvVars

(* The months that u's tasks with these labels have, as a file tells them. *)
Told(u, L) == {[label |-> task[p[1]].label, month |-> p[2], status |-> row[p[1]][p[2]]] :
                 p \in {q \in Found(u, FirstMonth, LastMonth) : task[q[1]].label \in L}}

(* Whoever imports a file has every month of it afterwards, with the       *)
(* status of the last line for that month; and an account that had no task *)
(* of these labels has nothing but that, so that a second import of the    *)
(* same file changes nothing.                                              *)
ImportIsExact ==
  [][\A u \in Users : ImportCSV(u) =>
       LET kept == {file[Max({j \in LinesOf(file[i].label) : file[j].month = file[i].month})] : i \in 1..Len(file)}
       IN /\ kept \subseteq Told(u, Named)'
          /\ (\A l \in Named : Matching(u, l) = {}) => Told(u, Named)' = kept]_csvVars
=============================================================================
