------------------------------ MODULE Startup ------------------------------
(***************************************************************************)
(* What a start of the backend does to the SQLite database it finds: the   *)
(* schema migrations (backend/db.go initDB, migrate,                       *)
(* MigrateSettingsToUserScoped) and the first administrator (main.go,      *)
(* auth.go Setup).  A start may end after any statement, and the next one  *)
(* finds what was committed; between starts the data is served and edited. *)
(*                                                                         *)
(* A column that an old database lacks is taken to hold its default.  One  *)
(* task, one of its completions and one setting stand for all.             *)
(***************************************************************************)
EXTENDS Naturals

CONSTANTS Values,  \* amounts, notes and values of a setting
          Empty    \* ''

ASSUME EmptyAssumption == Empty \notin Values

Texts == Values \cup {Empty}

VARIABLES
  schema,   \* dates: tasks.start_date is missing, NOT NULL or nullable
            \* refers: the table that completions.task_id refers to
            \* scoped: settings has a user_id
  task,     \* amount, legacy: metadata.amount, owned: user_id is set, archived
  done,     \* the completion: note, skipped
  setting,
  admin,    \* there is an administrator
  pc,       \* the statement the start is at; serving; down
  left      \* history: the data as an older version last showed it or the users
            \* have entered it since

vars == <<schema, task, done, setting, admin, pc, left>>

Schemas == [dates : {"missing", "notnull", "nullable"}, refers : {"tasks", "tasks_old"},
            scoped : BOOLEAN]
Tasks == [amount : Texts, legacy : Texts, owned : BOOLEAN, archived : BOOLEAN]
Completions == [note : Texts, skipped : BOOLEAN]

Unmarked == [note |-> Empty, skipped |-> FALSE]
Amount(t) == IF t.amount = Empty THEN t.legacy ELSE t.amount
Seen(t, d, s) == [amount |-> Amount(t), archived |-> t.archived, done |-> d, setting |-> s]

(* The databases of this and of earlier versions.  Amounts, archived_at,   *)
(* notes and skipped months are younger than the nullable dates, and the   *)
(* reference to tasks_old is what an earlier rebuild left behind.          *)
Init ==
  /\ schema \in Schemas /\ task \in Tasks /\ done \in Completions
  /\ setting \in Texts /\ admin \in BOOLEAN
  /\ schema.dates # "nullable" => task.amount = Empty /\ ~task.archived /\ done = Unmarked
  /\ schema.refers = "tasks_old" => schema.dates = "nullable" /\ done = Unmarked
  /\ task.owned = admin
  /\ pc = "down"
  /\ left = Seen(task, done, setting)

----------------------------------------------------------------------------
(* A start.                                                                *)

At(from, to) == pc = from /\ pc' = to

Start == /\ At("down", "alter")
         /\ UNCHANGED <<schema, task, done, setting, admin, left>>

(* ALTER TABLE ... ADD COLUMN, where "duplicate column" is no error.       *)
AddColumns ==
  /\ At("alter", "rebuild")
  /\ schema' = IF schema.dates = "missing" THEN [schema EXCEPT !.dates = "notnull"] ELSE schema
  /\ UNCHANGED <<task, done, setting, admin, left>>

BugDatesNotNull == TRUE

DatesNotNull == schema.dates = "notnull"

(* One transaction.  Whether SQLite redirects the reference of completions *)
(* to the renamed table is a matter of its version.                        *)
RebuildTasks ==
  /\ At("rebuild", "repair")
  /\ \/ ~DatesNotNull /\ UNCHANGED <<schema, task>>
     \/ /\ DatesNotNull
        /\ \E t \in {schema.refers, "tasks_old"} :
             schema' = [schema EXCEPT !.dates = "nullable", !.refers = t]
        /\ task' = [task EXCEPT !.amount = task.legacy, !.archived = FALSE]
  /\ UNCHANGED <<done, setting, admin, left>>

(* One transaction; notes and skipped are not copied.                      *)
RepairCompletions ==
  /\ At("repair", "backfill")
  /\ \/ schema.refers = "tasks" /\ UNCHANGED <<schema, done>>
     \/ /\ schema.refers = "tasks_old"
        /\ schema' = [schema EXCEPT !.refers = "tasks"]
        /\ done' = Unmarked
  /\ UNCHANGED <<task, setting, admin, left>>

(* At every start, for every row whose amount is empty.                    *)
BackfillAmount ==
  /\ At("backfill", "count")
  /\ task' = [task EXCEPT !.amount = Amount(task)]
  /\ UNCHANGED <<schema, done, setting, admin, left>>

(* CountUsers: without users, the administrator of ADMIN_USERNAME and      *)
(* ADMIN_PASSWORD is created if these are set.                             *)
CountUsers ==
  /\ \/ admin /\ At("count", "settings") /\ UNCHANGED admin
     \/ ~admin /\ At("count", "adopt") /\ admin' = TRUE
     \/ ~admin /\ At("count", "serving") /\ UNCHANGED admin
  /\ UNCHANGED <<schema, task, done, setting, left>>

AssignOrphanedTasks ==
  /\ At("adopt", "settings")
  /\ task' = [task EXCEPT !.owned = TRUE]
  /\ UNCHANGED <<schema, done, setting, admin, left>>

(* One transaction; the rows go to the first administrator.                *)
MigrateSettingsToUserScoped ==
  /\ At("settings", "serving")
  /\ schema' = [schema EXCEPT !.scoped = TRUE]
  /\ UNCHANGED <<task, done, setting, admin, left>>

(* A kill, or a statement that fails: log.Fatal. *)
Crash == /\ pc # "down" /\ pc' = "down"
         /\ UNCHANGED <<schema, task, done, setting, admin, left>>

----------------------------------------------------------------------------
(* While it is served.                                                     *)

(* Setup creates the first administrator; an error of the migration is     *)
(* ignored.                                                                *)
Setup ==
  /\ pc = "serving" /\ ~admin
  /\ admin' = TRUE
  /\ schema' \in {schema, [schema EXCEPT !.scoped = TRUE]}
  /\ UNCHANGED <<task, done, setting, pc, left>>

Serving == pc = "serving" /\ UNCHANGED <<schema, admin, pc>>

(* The metadata is stored as the client sends it: the web app and the MCP  *)
(* server empty it, an API client may put an amount there, or send back    *)
(* the one it has read.                                                    *)
UpdateTask(a, m) ==
  /\ Serving /\ task.owned
  /\ task' = [task EXCEPT !.amount = a, !.legacy = m]
  /\ left' = [left EXCEPT !.amount = a]
  /\ UNCHANGED <<done, setting>>

SetArchived(b) ==
  /\ Serving /\ task.owned
  /\ task' = [task EXCEPT !.archived = b]
  /\ left' = [left EXCEPT !.archived = b]
  /\ UNCHANGED <<done, setting>>

(* A note, a skipped month: refused while the reference is broken.         *)
Mark(d) ==
  /\ Serving /\ task.owned /\ schema.refers = "tasks"
  /\ done' = d
  /\ left' = [left EXCEPT !.done = d]
  /\ UNCHANGED <<task, setting>>

PutSetting(s) ==
  /\ Serving /\ admin /\ schema.scoped
  /\ setting' = s
  /\ left' = [left EXCEPT !.setting = s]
  /\ UNCHANGED <<task, done>>

Next ==
  \/ Start \/ AddColumns \/ RebuildTasks \/ RepairCompletions \/ BackfillAmount
  \/ CountUsers \/ AssignOrphanedTasks \/ MigrateSettingsToUserScoped
  \/ Crash \/ Setup
  \/ \E v \in Texts : PutSetting(v) \/ \E m \in Texts : UpdateTask(v, m)
  \/ \E b \in BOOLEAN : SetArchived(b)
  \/ \E d \in Completions : Mark(d)

Spec == Init /\ [][Next]_vars

----------------------------------------------------------------------------

(* Whatever database a start finds, however many starts were broken off    *)
(* before, and whatever was edited between them, what is served is what    *)
(* the users last entered, or an older version last showed                 *)
(* (docs/deployment.md: "All schema migrations are applied automatically   *)
(* on startup and are idempotent").  One thing is excepted: an amount that *)
(* was left empty may be the one in the metadata.                          *)
ServedAsLeft ==
  pc = "serving" =>
    /\ \/ task.amount = left.amount
       \/ left.amount = Empty /\ task.amount = task.legacy
    /\ task.archived = left.archived /\ done = left.done /\ setting = left.setting

(* Without the exception, the amount is as entered: db.go:453, "Backfill   *)
(* amount from metadata JSON for existing rows", speaks of the rows of a   *)
(* version that had no amounts.                                            *)
AmountAsEntered == pc = "serving" => task.amount = left.amount

(* Once there is an administrator, every task that is served has an owner, *)
(* who sees it (db.go AssignOrphanedTasks: "Called once after the first    *)
(* admin is created.").                                                    *)
OrphansAdopted == pc = "serving" /\ admin => task.owned
=============================================================================
