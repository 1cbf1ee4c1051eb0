--------------------------- MODULE ScheduleProofs ---------------------------
(***************************************************************************)
(* Proofs about Schedule, for every set of tasks, users and intervals and  *)
(* every range of months, and about Csv, for every file that is exported   *)
(* or written by hand.                                                     *)
(***************************************************************************)
EXTENDS Csv, WellFoundedInduction, FiniteSetTheorems, TLAPS

(* The month view asks, in SQL, what the report asks in Go. *)
LEMMA SameRule ==
  ASSUME NEW x \in Rows, NEW m \in Int
  PROVE  Selected(x, m) <=> ActiveInMonth(x, m)
BY MonthsAssumption DEF Selected, ActiveInMonth, Start, Rows, Dates, Months

(* A task that is due in a month of the report is among those it fetches.  *)
LEMMA DueIsFetched ==
  ASSUME NEW x \in Rows, NEW anchor \in Int, NEW m \in ReportMonths(anchor), Selected(x, m)
  PROVE  InRange(x, anchor)
BY MonthsAssumption, ReportAssumption
   DEF Selected, InRange, ReportMonths, Start, Rows, Dates, Months

(* The rows of tasks, whatever the range of dates that requests carry. *)
LEMMA RowTypes ==
  ASSUME NEW s \in Shapes, NEW u \in Users, ScheduleTypeOK
  PROVE  /\ NewRow(s, u) \in Rows
         /\ \A x \in Rows : [x EXCEPT !.label = s.label, !.start = s.start,
                                      !.end = s.end, !.interval = s.interval] \in Rows
         /\ \A x \in Rows, b \in BOOLEAN : [x EXCEPT !.archived = b] \in Rows
<1>1. s \in AllShapes
  BY ShapesAssumption
<1> QED
  BY <1>1 DEF ScheduleTypeOK, NewRow, Rows, AllShapes

LEMMA TypeStep ==
  ASSUME ScheduleTypeOK, [ScheduleNext]_scheduleVars
  PROVE  ScheduleTypeOK'
<1> USE DEF ScheduleTypeOK, Existing
<1>1. CASE UNCHANGED scheduleVars
  BY <1>1 DEF scheduleVars
<1>2. ASSUME NEW t \in Tasks, NEW s \in Shapes, NEW u \in Users, CreateTask(u, t, s)
      PROVE  ScheduleTypeOK'
  <2>1. NewRow(s, u) \in Rows
    BY RowTypes
  <2> QED
    BY <1>2, <2>1, NoTaskAssumption DEF CreateTask
<1>3. ASSUME NEW t \in Tasks, NEW s \in Shapes, UpdateTask(t, s)
      PROVE  ScheduleTypeOK'
  <2> DEFINE x == [task[t] EXCEPT !.label = s.label, !.start = s.start,
                                  !.end = s.end, !.interval = s.interval]
  <2>1. task[t] \in Rows /\ task' = [task EXCEPT ![t] = x] /\ UNCHANGED <<shared, now>>
    BY <1>3 DEF UpdateTask
  <2>2. task[t].owner \in Users
    BY <2>1 DEF Rows
  <2>3. x \in Rows
    BY <2>1, <2>2, RowTypes
  <2> QED
    BY <2>1, <2>3, NoTaskAssumption
<1>4. ASSUME NEW t \in Tasks, Archive(t) \/ Unarchive(t)
      PROVE  ScheduleTypeOK'
  <2> PICK b \in BOOLEAN : SetArchived(t, b)
    BY <1>4 DEF Archive, Unarchive
  <2>1. /\ task[t] \in Rows /\ task' = [task EXCEPT ![t] = [task[t] EXCEPT !.archived = b]]
        /\ UNCHANGED <<shared, now>>
    BY DEF SetArchived
  <2>2. [task[t] EXCEPT !.archived = b] \in Rows
    BY <2>1 DEF Rows
  <2> QED
    BY <2>1, <2>2, NoTaskAssumption
<1>5. ASSUME NEW t \in Tasks, DeleteTask(t)
      PROVE  ScheduleTypeOK'
  BY <1>5 DEF DeleteTask
<1>6. ASSUME NEW t \in Tasks, NEW u \in Users, AddShare(t, u) \/ RemoveShare(t, u)
      PROVE  ScheduleTypeOK'
  BY <1>6 DEF AddShare, RemoveShare
<1>7. CASE MonthEnds
  BY <1>7, MonthsAssumption DEF MonthEnds, Months
<1> QED
  BY <1>1, <1>2, <1>3, <1>4, <1>5, <1>6, <1>7 DEF ScheduleNext

(* The rows of tasks and task_shares keep their types; a share names a     *)
(* task that exists.                                                       *)
THEOREM TypeCorrect == ScheduleSpec => []ScheduleTypeOK
<1>1. ScheduleInit => ScheduleTypeOK
  BY MonthsAssumption DEF ScheduleInit, ScheduleTypeOK, Existing, Months
<1> QED
  BY <1>1, TypeStep, PTL DEF ScheduleSpec

LEMMA TypesAgree == ScheduleTypeOK => ViewsAgree
<1> SUFFICES ASSUME ScheduleTypeOK, NEW u \in Users, NEW anchor \in Months, NEW m \in ReportMonths(anchor)
             PROVE  {t \in ReportMonth(u, anchor, m) : ~task[t].archived} = MonthView(u, m)
  BY DEF ViewsAgree
<1>1. anchor \in Int /\ m \in Int
  BY MonthsAssumption, ReportAssumption DEF Months, ReportMonths
<1>2. ASSUME NEW t \in Existing
      PROVE  /\ Selected(task[t], m) <=> ActiveInMonth(task[t], m)
             /\ Selected(task[t], m) => InRange(task[t], anchor)
  <2>1. task[t] \in Rows
    BY DEF ScheduleTypeOK, Existing
  <2> QED
    BY <1>1, <2>1, SameRule, DueIsFetched
<1> QED
  BY <1>2 DEF ReportMonth, Fetched, MonthView

(* What is due in a month is the same in the month view and in the report, *)
(* for any history and forecast and any interval.                          *)
THEOREM ViewsAlwaysAgree == ScheduleSpec => []ViewsAgree
BY TypeCorrect, TypesAgree, PTL

(* Archiving a task, and bringing it back, changes no past month of any    *)
(* report.                                                                 *)
THEOREM ArchiveKeeps == ScheduleSpec => ArchiveKeepsHistory
<1>1. ASSUME ScheduleTypeOK, NEW t \in Tasks, Archive(t) \/ Unarchive(t),
             NEW u \in Users, NEW anchor \in Months, NEW m \in (anchor - History)..(anchor - 1)
      PROVE  ReportMonth(u, anchor, m)' = ReportMonth(u, anchor, m)
  <2> PICK b \in BOOLEAN : SetArchived(t, b)
    BY <1>1 DEF Archive, Unarchive
  <2>1. /\ task[t] \in Rows /\ task' = [task EXCEPT ![t].archived = b]
        /\ task' = [task EXCEPT ![t] = [task[t] EXCEPT !.archived = b]]
        /\ UNCHANGED shared
    BY <1>1 DEF SetArchived, ScheduleTypeOK, Existing
  <2>2. ~(m > anchor)
    BY MonthsAssumption, ReportAssumption DEF Months
  <2>3. [task[t] EXCEPT !.archived = b] \in Rows
    BY <2>1 DEF Rows
  <2>4. Existing' = Existing
    BY <1>1, <2>1, <2>3, NoTaskAssumption DEF Existing, ScheduleTypeOK
  <2>5. ASSUME NEW k \in Existing
        PROVE  /\ task'[k].owner = task[k].owner /\ task'[k].start = task[k].start
               /\ task'[k].end = task[k].end /\ task'[k].interval = task[k].interval
               /\ task'[k].created = task[k].created
    BY <1>1, <2>1, <2>5 DEF ScheduleTypeOK, Existing, Rows
  <2>6. ASSUME NEW k \in Existing
        PROVE  /\ Sees(u, k)' <=> Sees(u, k)
               /\ InRange(task'[k], anchor) <=> InRange(task[k], anchor)
               /\ ActiveInMonth(task'[k], m) <=> ActiveInMonth(task[k], m)
    BY <2>1, <2>5 DEF Sees, InRange, ActiveInMonth, Start
  <2> QED
    BY <2>2, <2>4, <2>6 DEF ReportMonth, Fetched
<1>2. ScheduleTypeOK =>
        [\A t \in Tasks :
           Archive(t) \/ Unarchive(t)
             => \A u \in Users, anchor \in Months : \A m \in (anchor - History)..(anchor - 1) :
                  ReportMonth(u, anchor, m)' = ReportMonth(u, anchor, m)]_scheduleVars
  BY <1>1
<1> QED
  BY <1>2, TypeCorrect, PTL DEF ArchiveKeepsHistory

----------------------------------------------------------------------------
(* Files.                                                                  *)

(* Of some lines of a file there is a first one and a last one. *)
LEMMA Extremes ==
  ASSUME NEW n \in Nat, NEW S \in SUBSET (1..n), S # {}
  PROVE  /\ Min(S) \in S /\ \A j \in S : Min(S) <= j
         /\ Max(S) \in S /\ \A j \in S : Max(S) >= j
<1> DEFINE Below == OpToRel(<, Nat)
<1>1. ASSUME NEW T \in SUBSET Nat, T # {}
      PROVE  \E x \in T : \A y \in T : x <= y
  <2>1. PICK x \in T : \A y \in T : <<y, x>> \notin Below
    BY <1>1, WFMin, NatLessThanWellFounded
  <2>2. \A y \in T : ~(y < x)
    BY <2>1 DEF OpToRel
  <2> QED
    BY <2>2
<1>2. \E x \in S : \A y \in S : x <= y
  BY <1>1
<1>3. \E x \in S : \A y \in S : x >= y
  <2> DEFINE T == {n - i : i \in S}
  <2>0. \A i \in S : i \in 1..n
    OBVIOUS
  <2>1. T \in SUBSET Nat /\ T # {}
    <3>1. \A i \in S : n - i \in Nat
      BY <2>0
    <3> QED
      BY <3>1
  <2>2. PICK x \in T : \A y \in T : x <= y
    BY <1>1, <2>1
  <2>3. PICK i \in S : x = n - i
    BY <2>2
  <2>4. ASSUME NEW j \in S PROVE i >= j
    <3>1. n - i <= n - j
      BY <2>2, <2>3
    <3> QED
      BY <2>0, <3>1
  <2> QED
    BY <2>4
<1> QED
  BY <1>2, <1>3 DEF Min, Max

NoRows == [m \in Months |-> NoRow]

InOrder(f) == \A i, j \in DOMAIN f : i < j => f[i].month <= f[j].month

(* Rows and files keep their types, a task that is gone has no rows, and a *)
(* file that was exported goes forward in time.                            *)
CsvInv == /\ ScheduleTypeOK
          /\ row \in [Tasks -> [Months -> Statuses \cup {NoRow}]]
          /\ \A t \in Tasks \ Existing : row[t] = NoRows
          /\ file \in Seq(Lines)
          /\ exported => InOrder(file)

(* What is found has a line of the file each, in the order of the months.  *)
LEMMA ExportType ==
  ASSUME CsvInv, NEW u \in Users, NEW from \in Months, NEW to \in Months, ExportCSV(u, from, to)
  PROVE  file' \in Seq(Lines) /\ InOrder(file')
<1> DEFINE F == Found(u, from, to)
<1>1. F \subseteq Existing \X Months
  BY MonthsAssumption DEF Found, Months
<1>2. Cardinality(F) \in Nat
  <2>1. IsFiniteSet(Tasks) /\ IsFiniteSet(from..to)
    BY CsvAssumption, MonthsAssumption, FS_Interval DEF Months
  <2>2. IsFiniteSet(Existing)
    BY <2>1, FS_Subset DEF Existing
  <2>3. IsFiniteSet(Existing \X (from..to))
    BY <2>1, <2>2, FS_Product
  <2>4. IsFiniteSet(F)
    BY <2>3, FS_Subset DEF Found
  <2> QED
    BY <2>4, FS_CardinalityType
<1>3. PICK found \in SetToSeqs(F) :
        /\ \A i, j \in 1..Len(found) : i < j => NotLater(found[i], found[j])
        /\ file' = [i \in 1..Len(found) |-> Line(found[i])]
  BY DEF ExportCSV
<1>4. found \in [1..Cardinality(F) -> F]
  BY DEF SetToSeqs
<1>5. found \in Seq(F) /\ Len(found) = Cardinality(F)
  BY <1>2, <1>4
<1>6. ASSUME NEW i \in 1..Len(found)
      PROVE  file'[i] \in Lines /\ file'[i].month = found[i][2]
  <2>1. found[i] \in F
    BY <1>4, <1>5
  <2>2. /\ found[i][1] \in Existing /\ found[i][2] \in Months
        /\ row[found[i][1]][found[i][2]] # NoRow
    BY <1>1, <2>1 DEF Found
  <2>3. task[found[i][1]].label \in Labels /\ row[found[i][1]][found[i][2]] \in Statuses
    BY <2>2 DEF CsvInv, ScheduleTypeOK, Existing, Rows
  <2>4. file'[i] = Line(found[i])
    BY <1>3
  <2> QED
    BY <2>2, <2>3, <2>4 DEF Line, Lines
<1>7. file' \in Seq(Lines) /\ DOMAIN file' = 1..Len(found)
  BY <1>3, <1>5, <1>6
<1>8. ASSUME NEW i \in DOMAIN file', NEW j \in DOMAIN file', i < j
      PROVE  file'[i].month <= file'[j].month
  BY <1>3, <1>6, <1>7, <1>8 DEF NotLater
<1> QED
  BY <1>7, <1>8 DEF InOrder

(* What an import does to one task and one month. *)
LEMMA ImportEffect ==
  ASSUME CsvInv, NEW u \in Users, ImportCSV(u)
  PROVE  \E f \in Targets(u) :
           /\ DOMAIN task' = Tasks /\ row' = [t \in Tasks |-> [m \in Months |-> row'[t][m]]]
           /\ \A t \in Tasks : (task[t] # NoTask \/ \A l \in Named : f[l] # t) => task'[t] = task[t]
           /\ \A l \in Named : task[f[l]] = NoTask => task'[f[l]] = Placeholder(l, u)
           /\ \A t \in Tasks, m \in Months :
                (\A i \in DOMAIN file : ~(f[file[i].label] = t /\ file[i].month = m))
                  => row'[t][m] = row[t][m]
           /\ \A i \in DOMAIN file :
                LET l == file[i].label  m == file[i].month
                IN row'[f[l]][m] = file[Max({j \in LinesOf(l) : file[j].month = m})].status
<1>1. PICK f \in Targets(u) :
        /\ task' = [t \in Tasks |->
             IF task[t] # NoTask \/ \A l \in Named : f[l] # t THEN task[t]
             ELSE Placeholder(CHOOSE l \in Named : f[l] = t, u)]
        /\ row' = [t \in Tasks |-> [m \in Months |->
             LET S == {i \in 1..Len(file) : f[file[i].label] = t /\ file[i].month = m}
             IN IF S = {} THEN row[t][m] ELSE file[Kept(S)].status]]
  BY DEF ImportCSV
<1>2. file \in Seq(Lines) /\ DOMAIN file = 1..Len(file)
  BY DEF CsvInv
<1>3. /\ f \in [Named -> Tasks]
      /\ \A l, k \in Named : f[k] = f[l] => k = l
  BY DEF Targets
<1>4. ASSUME NEW i \in DOMAIN file
      PROVE  file[i].label \in Named /\ file[i].month \in Months
  <2>1. file[i] \in Lines /\ i \in 1..Len(file)
    BY <1>2
  <2> QED
    BY <2>1 DEF Named, Lines
<1>5. ASSUME NEW t \in Tasks, task[t] # NoTask \/ \A l \in Named : f[l] # t
      PROVE  task'[t] = task[t]
  BY <1>1, <1>5
<1>6. ASSUME NEW l \in Named, task[f[l]] = NoTask
      PROVE  task'[f[l]] = Placeholder(l, u)
  <2>1. (CHOOSE k \in Named : f[k] = f[l]) = l
    BY <1>3
  <2>2. f[l] \in Tasks
    BY <1>3
  <2>3. task'[f[l]] = Placeholder(CHOOSE k \in Named : f[k] = f[l], u)
    BY <1>1, <1>6, <2>2
  <2> QED
    BY <2>1, <2>3
<1>7. ASSUME NEW t \in Tasks, NEW m \in Months
      PROVE  LET S == {i \in 1..Len(file) : f[file[i].label] = t /\ file[i].month = m}
             IN row'[t][m] = IF S = {} THEN row[t][m] ELSE file[Kept(S)].status
  BY <1>1
<1>8. ASSUME NEW t \in Tasks, NEW m \in Months,
             \A i \in DOMAIN file : ~(f[file[i].label] = t /\ file[i].month = m)
      PROVE  row'[t][m] = row[t][m]
  <2>1. {i \in 1..Len(file) : f[file[i].label] = t /\ file[i].month = m} = {}
    BY <1>2, <1>8
  <2> QED
    BY <1>7, <2>1
<1>9. ASSUME NEW i \in DOMAIN file
      PROVE  row'[f[file[i].label]][file[i].month]
               = file[Max({j \in LinesOf(file[i].label) : file[j].month = file[i].month})].status
  <2> DEFINE l == file[i].label
             m == file[i].month
             S == {j \in 1..Len(file) : f[file[j].label] = f[l] /\ file[j].month = m}
  <2>1. l \in Named /\ m \in Months /\ f[l] \in Tasks
    BY <1>3, <1>4
  <2>2. S = {j \in LinesOf(l) : file[j].month = m}
    BY <1>2, <1>3, <1>4, <2>1 DEF LinesOf
  <2>3. i \in S
    BY <1>2
  <2>4. row'[f[l]][m] = IF S = {} THEN row[f[l]][m] ELSE file[Kept(S)].status
    BY <1>7, <2>1
  <2> HIDE DEF S
  <2>5. row'[f[l]][m] = file[Max(S)].status
    BY <2>3, <2>4 DEF Kept
  <2> QED
    BY <2>2, <2>5
<1>10. DOMAIN task' = Tasks /\ row' = [t \in Tasks |-> [m \in Months |-> row'[t][m]]]
  BY <1>1
<1> QED
  BY <1>5, <1>6, <1>8, <1>9, <1>10

(* The last line for a month is one of its lines. *)
LEMMA LastLine ==
  ASSUME file \in Seq(Lines), NEW i \in DOMAIN file
  PROVE  LET j == Max({k \in LinesOf(file[i].label) : file[k].month = file[i].month})
         IN j \in DOMAIN file /\ file[j].label = file[i].label /\ file[j].month = file[i].month
<1> DEFINE S == {k \in LinesOf(file[i].label) : file[k].month = file[i].month}
<1>1. S \in SUBSET (1..Len(file)) /\ i \in S /\ Len(file) \in Nat
  BY DEF LinesOf
<1>2. Max(S) \in S
  BY <1>1, Extremes
<1> QED
  BY <1>2 DEF LinesOf

LEMMA PlaceholderType ==
  ASSUME CsvInv, NEW l \in Named, NEW u \in Users
  PROVE  /\ Placeholder(l, u) \in Rows
         /\ FirstLine(l) \in LinesOf(l) /\ \A i \in LinesOf(l) : FirstLine(l) <= i
<1>1. file \in Seq(Lines) /\ now \in Months
  BY DEF CsvInv, ScheduleTypeOK
<1>2. LinesOf(l) \in SUBSET (1..Len(file)) /\ LinesOf(l) # {} /\ Len(file) \in Nat
  BY <1>1 DEF LinesOf, Named
<1>3. FirstLine(l) \in LinesOf(l) /\ \A i \in LinesOf(l) : FirstLine(l) <= i
  BY <1>2, Extremes DEF FirstLine
<1>4. file[FirstLine(l)] \in Lines /\ file[FirstLine(l)].label = l
  BY <1>1, <1>3 DEF LinesOf
<1>5. l \in Labels /\ file[FirstLine(l)].month \in Months
  BY <1>4 DEF Lines
<1> QED
  BY <1>1, <1>3, <1>5, CsvAssumption DEF Placeholder, Rows, Dates

LEMMA ImportType ==
  ASSUME CsvInv, NEW u \in Users, ImportCSV(u)
  PROVE  CsvInv'
<1>1. PICK f \in Targets(u) :
           /\ DOMAIN task' = Tasks /\ row' = [t \in Tasks |-> [m \in Months |-> row'[t][m]]]
           /\ \A t \in Tasks : (task[t] # NoTask \/ \A l \in Named : f[l] # t) => task'[t] = task[t]
           /\ \A l \in Named : task[f[l]] = NoTask => task'[f[l]] = Placeholder(l, u)
           /\ \A t \in Tasks, m \in Months :
                (\A i \in DOMAIN file : ~(f[file[i].label] = t /\ file[i].month = m))
                  => row'[t][m] = row[t][m]
           /\ \A i \in DOMAIN file :
                LET l == file[i].label  m == file[i].month
                IN row'[f[l]][m] = file[Max({j \in LinesOf(l) : file[j].month = m})].status
  BY ImportEffect
<1>2. /\ ScheduleTypeOK /\ file \in Seq(Lines) /\ DOMAIN file = 1..Len(file)
      /\ row \in [Tasks -> [Months -> Statuses \cup {NoRow}]]
      /\ UNCHANGED <<shared, now, file, exported>>
  BY DEF CsvInv, ImportCSV
<1>3. ASSUME NEW i \in DOMAIN file
      PROVE  file[i].label \in Named /\ file[i].month \in Months /\ file[i].status \in Statuses
  <2>1. file[i] \in Lines
    BY <1>2
  <2> QED
    BY <1>2, <2>1 DEF Named, Lines
<1>4. ASSUME NEW t \in Tasks
      PROVE  /\ task'[t] \in Rows \cup {NoTask}
             /\ task[t] # NoTask => task'[t] # NoTask
             /\ task'[t] = NoTask => \A l \in Named : f[l] # t
  <2>1. CASE task[t] # NoTask \/ \A l \in Named : f[l] # t
    BY <1>1, <1>2, <2>1 DEF ScheduleTypeOK
  <2>2. ASSUME NEW l \in Named, f[l] = t, task[t] = NoTask
        PROVE  task'[t] \in Rows
    BY <1>1, <2>2, PlaceholderType
  <2> QED
    BY <2>1, <2>2, NoTaskAssumption
<1>5. ScheduleTypeOK'
  <2>1. task' \in [Tasks -> Rows \cup {NoTask}]
    <3>1. task' = [t \in Tasks |-> task'[t]]
      BY DEF ImportCSV
    <3> QED
      BY <1>4, <3>1
  <2>2. Existing \subseteq Existing'
    BY <1>4 DEF Existing
  <2> QED
    BY <1>2, <2>1, <2>2 DEF ScheduleTypeOK
<1>6. ASSUME NEW t \in Tasks, NEW m \in Months
      PROVE  row'[t][m] \in Statuses \cup {NoRow}
  <2>1. CASE \A i \in DOMAIN file : ~(f[file[i].label] = t /\ file[i].month = m)
    BY <1>1, <1>2, <2>1
  <2>2. ASSUME NEW i \in DOMAIN file, f[file[i].label] = t, file[i].month = m
        PROVE  row'[t][m] \in Statuses
    <3>1. row'[t][m] = file[Max({j \in LinesOf(file[i].label) : file[j].month = file[i].month})].status
      BY <1>1, <2>2
    <3> QED
      BY <1>2, <1>3, <3>1, LastLine
  <2> QED
    BY <2>1, <2>2
<1>7. row' \in [Tasks -> [Months -> Statuses \cup {NoRow}]]
  BY <1>1, <1>6
<1>8. ASSUME NEW t \in Tasks \ Existing'
      PROVE  row'[t] = NoRows
  <2>1. task'[t] = NoTask /\ t \in Tasks
    BY DEF Existing
  <2>2. t \notin Existing /\ \A l \in Named : f[l] # t
    BY <1>4, <2>1 DEF Existing
  <2>3. row[t] = NoRows
    BY <2>1, <2>2 DEF CsvInv
  <2>4. \A m \in Months : row'[t][m] = NoRow
    BY <1>1, <1>3, <2>1, <2>2, <2>3 DEF NoRows
  <2> QED
    BY <1>7, <2>1, <2>4 DEF NoRows
<1> QED
  BY <1>2, <1>5, <1>7, <1>8 DEF CsvInv

LEMMA CsvTypeStep ==
  ASSUME CsvInv, [CsvNext]_csvVars
  PROVE  CsvInv'
<1>1. /\ ScheduleTypeOK /\ file \in Seq(Lines) /\ (exported => InOrder(file))
      /\ row \in [Tasks -> [Months -> Statuses \cup {NoRow}]]
      /\ \A t \in Tasks \ Existing : row[t] = NoRows
  BY DEF CsvInv
<1>2. CASE UNCHANGED csvVars
  BY <1>1, <1>2 DEF csvVars, scheduleVars, CsvInv, ScheduleTypeOK, Existing, InOrder
<1>3. CASE TaskStep
  <2>1. ScheduleTypeOK'
    <3>1. [ScheduleNext]_scheduleVars
      BY <1>3 DEF TaskStep
    <3> QED
      BY <1>1, <3>1, TypeStep
  <2>2. /\ row' = [t \in Tasks |-> IF task'[t] = NoTask THEN NoRows ELSE row[t]]
        /\ UNCHANGED <<file, exported>>
    BY <1>3 DEF TaskStep, NoRows
  <2>3. NoRows \in [Months -> Statuses \cup {NoRow}]
    BY DEF NoRows
  <2>4. row' \in [Tasks -> [Months -> Statuses \cup {NoRow}]]
    BY <1>1, <2>2, <2>3
  <2>5. \A t \in Tasks \ Existing' : row'[t] = NoRows
    BY <2>2 DEF Existing
  <2> QED
    BY <1>1, <2>1, <2>2, <2>4, <2>5 DEF CsvInv, InOrder
<1>4. ASSUME NEW t \in Tasks, NEW m \in Months, NEW s \in Statuses \cup {NoRow}, Mark(t, m, s)
      PROVE  CsvInv'
  <2>1. /\ t \in Existing /\ row' = [row EXCEPT ![t][m] = s]
        /\ UNCHANGED <<task, shared, now, file, exported>>
    BY <1>4 DEF Mark, scheduleVars
  <2>2. row' \in [Tasks -> [Months -> Statuses \cup {NoRow}]]
    BY <1>1, <2>1
  <2>3. \A k \in Tasks \ Existing' : row'[k] = NoRows
    BY <1>1, <2>1 DEF Existing
  <2> QED
    BY <1>1, <2>1, <2>2, <2>3 DEF CsvInv, ScheduleTypeOK, Existing, InOrder
<1>5. ASSUME NEW u \in Users, ImportCSV(u)
      PROVE  CsvInv'
  BY <1>5, ImportType
<1>6. ASSUME NEW u \in Users, NEW from \in Months, NEW to \in Months, ExportCSV(u, from, to)
      PROVE  CsvInv'
  <2>1. file' \in Seq(Lines) /\ InOrder(file')
    BY <1>6, ExportType
  <2>2. UNCHANGED <<task, shared, now, row>>
    BY <1>6 DEF ExportCSV, scheduleVars
  <2> QED
    BY <1>1, <2>1, <2>2 DEF CsvInv, ScheduleTypeOK, Existing, InOrder
<1>7. ASSUME NEW f \in HandMade, WriteFile(f)
      PROVE  CsvInv'
  BY <1>1, <1>7, CsvAssumption DEF WriteFile, scheduleVars, CsvInv, ScheduleTypeOK, Existing
<1> QED
  BY <1>2, <1>3, <1>4, <1>5, <1>6, <1>7 DEF CsvNext

LEMMA CsvTypes == CsvSpec => []CsvInv
<1>1. CsvInit => CsvInv
  BY MonthsAssumption, CsvAssumption
     DEF CsvInit, CsvInv, NoRows, ScheduleInit, ScheduleTypeOK, Existing, Months
<1> QED
  BY <1>1, CsvTypeStep, PTL DEF CsvSpec

(* Month view and report agree on what is due for imported tasks as well.  *)
THEOREM ViewsAgreeOnImports == CsvSpec => []ViewsAgree
<1>1. CsvInv => ViewsAgree
  BY TypesAgree DEF CsvInv
<1> QED
  BY <1>1, CsvTypes, PTL

(* A task that an import of an exported file creates is due in every month *)
(* the file has for it, because the file begins with the earliest.         *)
THEOREM RestoredIsAlwaysShown == CsvSpec => RestoredIsShown
<1>1. ASSUME CsvInv, NEW u \in Users, ImportCSV(u), exported,
             NEW t \in Existing' \ Existing, NEW m \in Months, row'[t][m] # NoRow
      PROVE  t \in MonthView(u, m)'
  <2>1. PICK f \in Targets(u) :
           /\ \A k \in Tasks : (task[k] # NoTask \/ \A l \in Named : f[l] # k) => task'[k] = task[k]
           /\ \A l \in Named : task[f[l]] = NoTask => task'[f[l]] = Placeholder(l, u)
           /\ \A k \in Tasks, n \in Months :
                (\A i \in DOMAIN file : ~(f[file[i].label] = k /\ file[i].month = n))
                  => row'[k][n] = row[k][n]
    BY <1>1, ImportEffect
  <2>2. t \in Tasks /\ task[t] = NoTask /\ task'[t] # NoTask
    BY DEF Existing
  <2>3. row[t][m] = NoRow
    BY <1>1, <2>2 DEF CsvInv, NoRows, Existing
  <2>4. PICK i \in DOMAIN file : f[file[i].label] = t /\ file[i].month = m
    BY <1>1, <2>1, <2>2, <2>3
  <2> DEFINE l == file[i].label
             j == FirstLine(l)
  <2>5. file \in Seq(Lines) /\ DOMAIN file = 1..Len(file) /\ file[i] \in Lines
    BY <1>1 DEF CsvInv
  <2>6. l \in Named /\ i \in LinesOf(l)
    BY <2>5 DEF Named, LinesOf
  <2>7. j \in DOMAIN file /\ j <= i /\ Placeholder(l, u) \in Rows
    <3>1. /\ Placeholder(l, u) \in Rows /\ FirstLine(l) \in LinesOf(l)
          /\ \A k \in LinesOf(l) : FirstLine(l) <= k
      BY <1>1, <2>6, PlaceholderType
    <3> QED
      BY <2>5, <2>6, <3>1 DEF LinesOf
  <2>8. task'[t] = Placeholder(l, u)
    BY <2>1, <2>2, <2>4, <2>6
  <2>9. file[j].month <= m /\ file[j].month \in Months
    <3>1. InOrder(file)
      BY <1>1 DEF CsvInv
    <3>2. file[j] \in Lines
      BY <2>5, <2>7
    <3>3. file[j].month \in Months /\ m \in Int /\ i \in Int /\ j \in Int
      BY <2>5, <2>7, <3>2, MonthsAssumption DEF Lines, Months
    <3>4. CASE j < i
      BY <2>4, <2>7, <3>1, <3>3, <3>4 DEF InOrder
    <3>5. CASE j = i
      BY <2>4, <3>3, <3>5
    <3> QED
      BY <2>7, <3>3, <3>4, <3>5
  <2>10. /\ task'[t].owner = u /\ ~task'[t].archived /\ task'[t].end = NoMonth
         /\ task'[t].start = file[j].month /\ task'[t].interval = 1
    BY <2>8 DEF Placeholder
  <2>11. Selected(task'[t], m)
    <3>1. file[j].month # NoMonth /\ file[j].month \in Int /\ m \in Int
      BY <2>9, MonthsAssumption DEF Months
    <3>2. (m - file[j].month) % 1 = 0
      BY <3>1
    <3> QED
      BY <2>9, <2>10, <3>1, <3>2 DEF Selected, Start
  <2> QED
    BY <2>2, <2>10, <2>11 DEF MonthView, Existing, Sees
<1>2. CsvInv =>
        [\A u \in Users : ImportCSV(u) /\ exported =>
           \A t \in Existing' \ Existing, m \in Months :
             row'[t][m] # NoRow => t \in MonthView(u, m)']_csvVars
  BY <1>1
<1> QED
  BY <1>2, CsvTypes, PTL DEF RestoredIsShown

(* Whoever imports a file has every month of it afterwards, as its last    *)
(* line for that month says, and nothing else if the tasks are new.        *)
THEOREM ImportIsAlwaysExact == CsvSpec => ImportIsExact
<1>1. ASSUME CsvInv, NEW u \in Users, ImportCSV(u)
      PROVE  LET kept == {file[Max({j \in LinesOf(file[i].label) : file[j].month = file[i].month})] : i \in 1..Len(file)}
             IN /\ kept \subseteq Told(u, Named)'
                /\ (\A l \in Named : Matching(u, l) = {}) => Told(u, Named)' = kept
  <2> DEFINE Final(i) == Max({j \in LinesOf(file[i].label) : file[j].month = file[i].month})
             kept == {file[Final(i)] : i \in 1..Len(file)}
             RowOf(t, m) == [label |-> task'[t].label, month |-> m, status |-> row'[t][m]]
  <2>1. PICK f \in Targets(u) :
           /\ \A t \in Tasks : (task[t] # NoTask \/ \A l \in Named : f[l] # t) => task'[t] = task[t]
           /\ \A l \in Named : task[f[l]] = NoTask => task'[f[l]] = Placeholder(l, u)
           /\ \A t \in Tasks, m \in Months :
                (\A i \in DOMAIN file : ~(f[file[i].label] = t /\ file[i].month = m))
                  => row'[t][m] = row[t][m]
           /\ \A i \in DOMAIN file :
                LET l == file[i].label  m == file[i].month
                IN row'[f[l]][m] = file[Max({j \in LinesOf(l) : file[j].month = m})].status
    BY <1>1, ImportEffect
  <2>2. /\ file \in Seq(Lines) /\ DOMAIN file = 1..Len(file) /\ Named' = Named
    BY <1>1 DEF CsvInv, ImportCSV, Named
  <2>3. \A i \in DOMAIN file :
          /\ file[i].label \in Named
          /\ file[i] = [label |-> file[i].label, month |-> file[i].month, status |-> file[i].status]
          /\ file[i].month \in Months /\ file[i].status # NoRow
    <3>1. \A i \in DOMAIN file : file[i] \in Lines
      BY <2>2
    <3> QED
      BY <2>2, <3>1, CsvAssumption DEF Named, Lines
  <2>4. \A i \in DOMAIN file :
          /\ Final(i) \in DOMAIN file
          /\ file[Final(i)].label = file[i].label /\ file[Final(i)].month = file[i].month
    BY <2>2, LastLine
  <2>5. Told(u, Named)' = {RowOf(p[1], p[2]) :
                             p \in {q \in Existing' \X Months :
                                      /\ task'[q[1]].owner = u /\ row'[q[1]][q[2]] # NoRow
                                      /\ task'[q[1]].label \in Named}}
    BY <2>2 DEF Told, Found, Months
  <2>6. ASSUME NEW l \in Named
        PROVE  f[l] \in Existing' /\ task'[f[l]].owner = u /\ task'[f[l]].label = l
    <3>1. CASE Matching(u, l) # {}
      <4>1. f[l] \in Matching(u, l)
        BY <3>1 DEF Targets
      <4>2. /\ f[l] \in Tasks /\ task[f[l]] # NoTask
            /\ task[f[l]].owner = u /\ task[f[l]].label = l
        BY <4>1 DEF Matching, Existing
      <4> QED
        BY <2>1, <4>2 DEF Existing
    <3>2. CASE Matching(u, l) = {}
      <4>1. f[l] \in Tasks /\ task[f[l]] = NoTask
        BY <3>2 DEF Targets
      <4>2. task'[f[l]] = Placeholder(l, u) /\ Placeholder(l, u) \in Rows
        BY <1>1, <2>1, <4>1, PlaceholderType
      <4> QED
        BY <4>1, <4>2, NoTaskAssumption DEF Placeholder, Existing
    <3> QED
      BY <3>1, <3>2
  <2>7. ASSUME NEW i \in DOMAIN file
        PROVE  /\ RowOf(f[file[i].label], file[i].month) = file[Final(i)]
               /\ row'[f[file[i].label]][file[i].month] # NoRow
    <3>1. row'[f[file[i].label]][file[i].month] = file[Final(i)].status
      BY <2>1
    <3>2. task'[f[file[i].label]].label = file[i].label
      BY <2>3, <2>6
    <3> QED
      BY <2>3, <2>4, <3>1, <3>2
  <2>8. kept \subseteq Told(u, Named)'
    <3>1. ASSUME NEW i \in 1..Len(file)
          PROVE  file[Final(i)] \in Told(u, Named)'
      <4> DEFINE p == <<f[file[i].label], file[i].month>>
      <4>1. /\ p \in Existing' \X Months /\ task'[p[1]].owner = u /\ task'[p[1]].label \in Named
        BY <2>2, <2>3, <2>6
      <4>2. row'[p[1]][p[2]] # NoRow /\ RowOf(p[1], p[2]) = file[Final(i)]
        BY <2>2, <2>7
      <4> QED
        BY <2>5, <4>1, <4>2
    <3> QED
      BY <3>1
  <2>9. ASSUME \A l \in Named : Matching(u, l) = {}
        PROVE  Told(u, Named)' \subseteq kept
    <3>1. ASSUME NEW t \in Existing', NEW m \in Months,
                 task'[t].owner = u, row'[t][m] # NoRow, task'[t].label \in Named
          PROVE  RowOf(t, m) \in kept
      <4>1. t \in Tasks /\ task'[t] # NoTask
        BY DEF Existing
      <4>2. task[t] = NoTask
        <5> SUFFICES ASSUME task[t] # NoTask PROVE FALSE
          OBVIOUS
        <5>1. task'[t] = task[t]
          BY <2>1, <4>1
        <5>2. t \in Matching(u, task'[t].label)
          BY <3>1, <4>1, <5>1 DEF Matching, Existing
        <5> QED
          BY <2>9, <3>1, <5>2
      <4>3. row[t][m] = NoRow
        BY <1>1, <4>1, <4>2 DEF CsvInv, NoRows, Existing
      <4>4. PICK i \in DOMAIN file : f[file[i].label] = t /\ file[i].month = m
        BY <2>1, <3>1, <4>1, <4>3
      <4>5. RowOf(t, m) = file[Final(i)]
        BY <2>7, <4>4
      <4> QED
        BY <2>2, <4>5
    <3> QED
      BY <2>5, <3>1
  <2> QED
    BY <2>8, <2>9
<1>2. CsvInv =>
        [\A u \in Users : ImportCSV(u) =>
           LET kept == {file[Max({j \in LinesOf(file[i].label) : file[j].month = file[i].month})] : i \in 1..Len(file)}
           IN /\ kept \subseteq Told(u, Named)'
              /\ (\A l \in Named : Matching(u, l) = {}) => Told(u, Named)' = kept]_csvVars
  BY <1>1
<1> QED
  BY <1>2, CsvTypes, PTL DEF ImportIsExact
=============================================================================
