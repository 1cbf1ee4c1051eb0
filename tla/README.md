# Montly: specifications, model checking and proofs

TLA+ modules for the task tracker in this repository (a Go backend over SQLite
or PostgreSQL, a React app, an MCP server), the TLC configurations that check
them on small instances, and theorems checked by TLAPS for every value of the
constants. `PROJECT.json` is the index: components, runs, the source lines each
definition stands for, hazards, findings and theorems. Some of what a careful
user would expect, or a comment promises, is false of this code: section 3 lists
it, each with the configuration that shows how.

    tlc -workers 4 -config Completions_concurrent.cfg MCCompletions.tla
    tlapm CompletionsProofs.tla

## 1. Inventory

### Components

| component | state it keeps | operations | talks to |
|---|---|---|---|
| completions and receipts (`handlers.go`, `db.go`) | rows of `completions` (status, `receipt_file`), files in the receipts directory | toggle, skip, upload and remove a receipt, delete a task | database, file system, audit queue, webhooks |
| amounts and task editing | `tasks.amount`, `completions.amount` | update a task with back-fill, patch a completion | database |
| sharing and access | `task_shares` | add and remove a share; every handler's access check | database |
| CSV export and import | rows of `completions` | export, import (one transaction) | database |
| task schedule | none: pure functions, in Go and again in SQL | is a task due in a month | used by listings, export, report, digest |
| reports | none | totals of a range of months, in the backend, the app and the MCP server | database, API |
| accounts and sign-on (`auth.go`, `oidc.go`) | rows of `users` | setup, bootstrap, create, delete, resolve an OIDC identity | database, provider |
| sessions and API tokens | cookies (JWT), rows of `api_tokens` | login, logout, password change, issue and revoke | database, rate limiter |
| OpenID Connect flow | state cookie, the lazily discovered provider | redirect, callback, discovery with backoff | identity provider |
| rate limiter (`ratelimit.go`) | failures and window end per address | allow, record, sweep | the handlers that verify credentials |
| audit queue (`audit.go`) | a bounded channel, rows of `audit_logs` | enqueue, worker | every handler that writes |
| webhooks (`webhooks.go`) | rows of `webhooks`; goroutines with retries | match, deliver, retry | foreign endpoints |
| month digest (`main.go`) | a timer | sleep until the 1st, fan out | webhooks |
| settings | rows of `settings` | upsert | database |
| migrations and bootstrap | the schema | migrate, create the administrator, adopt orphaned tasks | database |
| MCP server (`mcp-server`) | none between calls | read-then-write tools | the API |
| web app (`frontend`) | one month of tasks and completions | optimistic updates | the API |
| forms and styles, static files, deployment | - | - | - |

### How they interact

Every HTTP request is a goroutine. A handler reads the session's user, checks
access, reads the rows it is about, decides, writes one statement, touches files,
and then offers an audit entry and fires webhooks. Only the CSV import, the
update of a task and the saving of settings open a transaction. Thus the **statements of two requests
interleave**: everything a handler checked may be stale when it writes, and only
the constraints of the tables (primary keys, unique indexes, foreign keys,
cascades) are checked together with the write. With SQLite the pool has one
connection, so each statement is serial with respect to all others, which is the
granularity of the models here.

### What is hard

* *Interleaving and stale checks*: a skip that reads a row and deletes it after
  another request has completed it; two setups; two administrators deleting each
  other; a sign-on racing another sign-on of the same identity; a patch of a row
  that is gone; allow/recordFailure around a slow password hash.
* *Two stores*: rows name files. A write to one may fail, or the process may
  die, between the two.
* *Failure half way*: an UPDATE that succeeds and whose read-back fails; a task
  whose receipts could not be listed; a client that hangs up, which cancels the
  statement that is running.
* *Long legal sequences*: import over a completion with a receipt, then un-skip;
  skip, change the amount, then complete.
* *Time and limits*: windows that expire without the sweeper, a full queue, an
  administrator count of one, exhausted user name candidates, delivery slots,
  the first of the month around a restart, a cookie that expires during a sign-on.
* *Clients that read and then write*: a tool that looks at a month and then
  toggles it, or fetches a task and writes all of it back, or stops waiting while the
  server goes on.
* *One rule written several times*: when a task is due, in Go, in SQL and as a
  range.
* *Starts over old data*: migrations that are separate statements, repeated at every
  start.

### What makes each component correct

* completions: a named receipt exists; only unreferenced files are removed; no row
  outlives its task; each request takes effect at most once, in one moment, on what
  it names. While no two requests overlap, also: no stray file stays, and only
  completed months carry a receipt. Overlapping requests break this, and a skip may
  undo a completion (section 3).
* amounts: history keeps its cost when the default changes; a logged amount is
  never silently lost.
* accounts: an identity has one account; a task has an owner. That an administrator
  remains, and that an account keeps its identity, is only checked, not ensured:
  two requests at once break both (section 3).
* rate limiter: no failure is forgotten before its window is over but by a success or a
  restart, the overshoot is bounded by the requests in flight, a block ends.
* audit queue: order kept, nothing twice, every change accounted for.
* schedule: month view, digest and report agree on what is due.
* reports: what two statements put together is something a month really cost.
* import and export: what is exported is restored exactly and can be seen.
* webhooks and digest: an answered delivery is over; a digest is sent once, and
  not missed by a process that runs unless an earlier round runs into its month;
  waiting deliveries are not starved.
* sign-on and sessions: a session acts for who signed in, and who signed in
  authenticated in a sign-on that this browser began.
* migrations: no start, broken off anywhere, loses data or brings old data back, but
  for an amount that was emptied (section 3).
* MCP tools: a tool moves a month only in the direction asked for, or says that
  somebody else interfered, and an edit keeps the fields it was not given, but for the
  metadata.

## 2. Modules

| module | models | proofs |
|---|---|---|
| `Completions` | rows, receipts, five handlers statement by statement, import, shares, failures | `CompletionsProofs` |
| `CompletionLog` | what those handlers promise: each request in effect at most once, at one moment | refined by `Completions` (`LogSpec`) |
| `Amounts` | the amounts of one task: toggle, skip, patch, update with back-fill, import | `AmountsProofs` |
| `Report` | extends `Amounts`: a reader in two statements | `AmountsProofs` |
| `Tools` | extends `Report`: MCP tool calls that read and then write, beside other clients | `AmountsProofs` |
| `Accounts` | users, task owners, setup, user management, the resolution of a sign-on | `AccountsProofs` |
| `RateLimiter` | the limiter with its clock, sweeper, restarts and callers | `RateLimiterProofs` |
| `LoginWindow` | what the limiter promises: failures count until their window is over | refined by `RateLimiter` (`WindowSpec`) |
| `SignOn` | extends `RateLimiter`: OpenID Connect flows, sessions, account ids | `RateLimiterProofs` |
| `Schedule` | tasks with dates, interval, archive and shares; month view and report | `ScheduleProofs` |
| `Csv` | extends `Schedule`: completions, export, import, placeholders | `ScheduleProofs` |
| `Webhooks` | hooks, event deliveries with retries, the digest and its timer | `WebhooksProofs` |
| `AuditQueue` | handlers, channel, worker, log | `AuditQueueProofs` |
| `Startup` | migrations and bootstrap over databases of every version | `StartupProofs` |
| `MCCompletions`, `MCAccounts`, `MCTools`, `MCSignOn`, `MCCsv`, `MCWebhooks` | instances for TLC | - |

Composition is by EXTENDS: the extending module conjoins the step of the part below
with what it adds (`Report!Meanwhile`, `Csv!TaskStep`, `SignOn` with `Begin`,
`RecordFailure`, `RecordSuccess` of the limiter), so a run of `Tools` checks
`Amounts` and `Report` too.

Operators named `Bug...` are faulty variants of the definition that follows
them. No specification uses them; each shows a fault that one of the properties
catches (`PROJECT.json`, "mutants").

### State and actions against the code

**Request slots.** A handler in flight is a slot `r` of `Requests`: `call[r]` is
what was asked, `pc[r]` the statement or file operation it is at, and the other
locals are the handler's Go variables that outlive a statement: `seen` is
`existing` in `ToggleCompletion`, `doomed` is `oldReceiptFile`, `existing.ReceiptFile` or
`receipts`, `mine` the name drawn by `uuid.New()`, `who` and `flag` the `User` that a
SELECT returned. Locals that no later statement uses are not kept, and a handler
that answers frees its slot (`Reply`).

**Completions.** `status[k]` joins the existence of the row and its `skipped`
column; `receipt[k]` is `receipt_file`, `NoFile` for `''`. The steps are
`CheckAccess` (`taskOwnerCheck`, `taskAccessCheck`), `Read` (`GetCompletion` or
`GetReceiptsForTask` and the decision taken on it), `CreateFile`/`CopyFile`, `Write`
(the one INSERT, UPDATE or DELETE, acting on whatever is there by then),
`ReadBack` (the SELECT after an INSERT or UPDATE) and `Unlink` (one file at a
time). The two reads of `taskAccessCheck` are one step: a deletion between them
removes the shares too, so the second read decides. A share change is one step.
Listing and downloading change nothing and are not modelled. `Faults` chooses what may fail: a statement
(without effect), the read-back of a toggle, skip or removal ("readback"), the
read-back of an upload ("unconfirmed"), file creation and copying, removal, and
the process.

`CompletionLog` knows nothing of statements, files and stale reads. A request is
asked, admitted when its user may use the task at that moment, takes effect or not,
and is answered; imports and changes of shares happen at one moment. It promises less than a
user might hope: a tick may complete or clear the month, whichever it finds by then, since that is all
the code gives.

**Amounts.** One task and its months. The amount of a row is `''` (`Empty`), a
number or, from an import, anything. `Effective` is what the app counts.
`UpdateTask` is one step because the code wraps it in a transaction; `PatchCompletion`
is a read, the amount's UPDATE, and then the note, which may be refused after
the amount has been stored. Toggle and Skip here leave files and access out
(they are in Completions) and keep what matters to amounts.

**Accounts.** `users` by AUTOINCREMENT id, `owners` the ids in `tasks.user_id`.
`May[r]` says which operations a slot serves, so that a counterexample can do with few.
A sign-on walks through `GetUserByOIDC`, `LinkByVerifiedEmail`,
`LinkByName`, `CountUsers`, `UniqueUsername` (one SELECT per candidate) and
`InsertUser`, or `LinkOIDCIdentity` and `ApplyAdminSync`. `Fail` ends a request
anywhere; it covers failed statements, clients that hang up, and a crash.

**RateLimiter.** Times are relative to now: `left[a]` is `windowEnd - now` in
ticks, -1 once it is over. `allow`, `recordFailure`, `recordSuccess` and the
sweeper each run under the mutex and are one step each; between them a handler
is in flight (`from[r]`). `Kill` ends the process with its map and its requests, `Start`
begins anew with an empty one. `LoginWindow` has no sweeper: it forgets a failure when the window that the first
one opened is over, when an attempt succeeds, and when the server goes down, so a sweeper that
forgot a live entry would be none of its steps.

**Report and Tools.** `ReadTasks` and `ReadCompletions` are the two queries of
`GetReportData` (and the two requests of `list_tasks`); `past` remembers what the
months were at the first. `Reported` is what the web app's report makes of the two (`c.amount || t.amount`);
`Paid` is what `get_report` makes of them, which takes an amount of 0 for none. A tool call `a` is at `tool[a].pc`; its `ReadMonth` is one GET, its
toggle is a request slot like any other (`slot[a]`), and `GiveUp` is the client's ten seconds, after
which the slot is nobody's but still runs. The answer says which way the toggle
went, which `Answer` turns into success or "changed elsewhere". `title` stands for
the columns `update_task` has a field for, `metadata` for the one it has none for and resets with
every PUT (`Overlay`). `touched[a]` notes that somebody else has changed what the
tool has read.

**SignOn.** A request is one of the limiter's slots (`from[r]`), `job[r]` what it is
and what it has found out. A flow keeps the browser that began it, the ticks its
cookie has left, and who signed in at the provider; a
browser has one state cookie, so a second tab overwrites the first's. `CheckState` compares state and
cookie, `Exchange` is the answer of the provider to the code, and `Callback` resolves the account: between them the
cookie may expire or be replaced, and the account be deleted. Nothing is assumed
of how often the provider accepts a code.
Ids come from `lastId`, which is SQLite's AUTOINCREMENT.

**Schedule and Csv.** A month is its index. `ActiveInMonth` is the Go
function, `Selected` the WHERE clause, `InRange` the first query of the report; they
are three definitions because the code has three. `Csv` adds the rows of
completions, a file that is a sequence of lines, and an import as one transaction: `Targets` says
which task each label goes to, `Placeholder` what is created, `Kept` which line of a
month wins. An export is any order of the rows that goes forward in time: the
code sorts by month, then title, which leaves rows of the same title and month in any order.

**Webhooks.** A delivery is a pair of a subject (a change, or the month of a digest) and
a hook. `FireWebhooks` is the goroutine's one query and the start of the deliveries;
`Attempt` is one POST, `Wake` the end of a pause. The scheduler is `Timer` (with the query for
the digest hooks), `ReadTasks` per user, `Send` per hook when a slot is free, `Rearm`. Queries may
fail, which leaves the hooks concerned out. Deleting a hook does not
recall a delivery. Time: two ticks to a month, its beginning and 08:00 on the first. A round may
take any time; `late` notes the months that begin while one is going on.

**Startup.** `pc` is the statement the start is at. Only statements that move data
or decide what a later start does are kept; `schema` tells the versions apart. The repair of the
reference and the rebuild are one transaction each. `UpdateTask` stores what a client sends,
metadata included. `left` is what the users last entered or, of an older version's
rows, last saw.

**AuditQueue.** Entries are numbered by the change they report. `Enqueue` is the
`select` with `default`; `Take`, `Insert`, `InsertFails` are the worker; `Crash` kills
the process, channel and handlers included.

## 3. Runs

State counts are those of the listed bounds.

| run | instance | what it shows |
|---|---|---|
| `completions_concurrent` | 2 users, 1 shared task, 2 months, 2 receipt names, 2 requests, imports, share changes, every failure but "unconfirmed"; 1.3 million states | `ReceiptsExist`, `NoRowWithoutTask`, `RemovedOnlyUnreferenced` hold in all interleavings, and the handlers implement `CompletionLog` |
| `completions_one_at_a_time` | the same with 3 names, 1 request, no imports, file failures; 54,000 states | a handler's file bookkeeping on its own: the directory is exact at rest, only completed months carry a receipt, every stray file goes |
| `tools_concurrent` | 1 month, 2 amounts of which one is zero, 2 titles, 2 requests, 1 tool call, edits, imports, a report; 1.2 million states | history keeps its cost and logged amounts stay; the app's report shows amounts the month had; the tools do what they say or report that somebody interfered |
| `accounts_concurrent` | 3 ids, 1 base name with 2 candidates, 2 identities, 1 address, 2 requests of any kind, an administrators' group; 1.9 million states | tasks have owners, identities one account |
| `signon_flows` | 2 browsers, 2 people, 2 flows, 2 ids, 2 requests, cookies that expire with the next tick, a limit of 1; 1.8 million states | no session acts for another person; who signed in did so in a sign-on of this browser |
| `csv_restore` | 2 users, 2 tasks, 2 labels, 2 months, intervals 1 and 2, exports and 2 hand-made files; 74,000 states | month view and report agree; what was exported is restored exactly and is visible |
| `webhooks_digest` | 2 users with a hook each, 1 event, 1 slot, 3 attempts, 2 digests, crashes; 570,000 states | answered means over, digests once and not missed, waiting deliveries go out |
| `ratelimit_window` | 2 addresses, 2 requests, limit 3, window 2; 2,000 states | refinement of `LoginWindow`, bounded overshoot, blocks end |
| `audit_faults` | 2 handlers, capacity 2, 4 changes; 1,700 states | order, accounting, everything is settled |
| `startup_restarts` | 2 values, every version of the schema, any metadata; 15,000 states | no start loses or brings back data, but an emptied amount |

Two runs find what the repository says violated by what the code does
(`PROJECT.json`, "findings" quotes the lines):

| run | what happens |
|---|---|
| `amounts_late_completion` | skip, change the amount, complete: the back-fill stamped the skipped row, so the month costs the old amount |
| `startup_orphans` | a database with tasks of no owner, a start without `ADMIN_USERNAME`, Setup creates the administrator: the tasks are never adopted |

### Further claims the code does not keep

Seven more definitions state what a comment, a document or plain expectation says and
the code does not keep. Nothing above assumes them. Each has a configuration whose
counterexample is the story told here; they are run by hand:

    tlc -config Accounts_last_admin.cfg MCAccounts.tla

| configuration, module, definition | what happens |
|---|---|
| `Completions_skip_race.cfg`, `MCCompletions`, `SkipLeavesCompletedAlone` | `SkipCompletion` reads a skipped row, a toggle completes the month, the DELETE (`db.go:1137`) takes the completed row; `db.go:1127` says that an error is returned for a completed one |
| `Completions_upload_delete.cfg`, `MCCompletions`, `DeletedTaskLeavesNoFile` | an upload writes its row between `DeleteTask`'s list of receipts (`handlers.go:458`) and its DELETE: the file stays, while `mcp-server/tools.go:187` says that receipt files go too |
| `Accounts_last_admin.cfg`, `MCAccounts`, `AdminRemains` | two administrators delete each other: both count two (`auth.go:522`), both are deleted; `auth.go:511` says "Ensure at least one admin remains." |
| `Accounts_relink.cfg`, `MCAccounts`, `LinkIsKept` | two identities that match one unlinked account sign on at once: both link it (`oidc.go:573`, `db.go:1525`), and the first no longer finds its account |
| `Report_zero.cfg`, `Report`, `PaidIsLogged` | a month logged at 0 counts at the task's amount in `get_report` (`tools.go:354`), at nothing in the web app; `db.go:82` says that the amount "overrides task's default amount when non-empty" |
| `Tools_metadata.cfg`, `MCTools`, `EditKeepsMetadata` | `update_task` changes a title and resets the metadata (`tools.go:811`); `mcp-server/README.md:182` says "Only the fields you mention are changed." |
| `Startup_backfill.cfg`, `Startup`, `AmountAsEntered` | a client empties an amount and sends back the metadata it has read (`handlers.go:340` stores it as sent); the back-fill of the next start (`db.go:454`) gives the task its old amount again |

More can be seen by giving an instance other constants: `DeletedTaskLeavesNoFile` with
`"import"` in the operations and one request (an import turns a completed month into a
skipped one and keeps `receipt_file`, un-skipping drops the row and not the file);
`RemovedOnlyUnreferenced` with `"unconfirmed"` in `Faults` (an upload's UPDATE
succeeds, the SELECT after it fails, the handler removes the file that the row
now names, `handlers.go:783`). Two setups with different names both create an
administrator (`auth.go:294`), which no property forbids.

### Bounds, and why they are enough

Two requests in flight are enough for the hazards listed, which are between a check
of one request and a write of another; the theorems cover any number. Two months
of one task tell "this row" from "another row of the task" from "all rows of the
task". Two receipt names allow replacing a receipt and two uploads at once; the third in
the sequential run allows attach, replace and attach elsewhere. `NamesLeft`
(`Completions`) and `IdsLeft` (`Accounts`) keep a request that needs a fresh
name or id from beginning when the instance has none left; they never stop one that has begun. `MaxSuffix` is
the limit of `uniqueUsername` (10000 in the code), small enough that it is
reached. Three ids allow the administrator, a second account and a third one that collides.
Limit 3 and window 2 let a count grow, reach the limit with another attempt in flight and expire
half way.

* `tools_concurrent` has one month: its properties are about a month, or about the
  task's own columns, and the back-fill treats each month alike (`AmountsProofs` covers
  any set). `Apart` (`MCTools`) reads no report while a tool is at work; a report meets the toggles,
  patches, skips, imports and edits of all other requests. `Metas` holds only the empty metadata, since
  no property of the run speaks of it. Unparsable amounts from files are left out: they
  behave like any amount until a patch, which refuses them.
* `signon_flows`: two flows are two tabs, in one browser or in two; a third would be
  either of these. Ids 1 and 2 allow an account to be deleted and a second to be
  created, which is when a used id could come back. `TTL` and `Window` are 0: a tick expires what was begun before it.
* `csv_restore`: `Few` (`MCCsv`) bounds the months that have a row to two, and keeps the end of the
  first month and tasks that are shared, archived, ended or not monthly to states without rows and without a
  file; these concern `ViewsAgree`, which rows do not. Two lines are a file in the wrong order, or one
  month twice. Two months with a history of 2 and a forecast of 1 put months of both
  kinds, before a task's start and after its end, into the report.
* `webhooks_digest`: one slot makes two digest deliveries wait for each other,
  3 is the code's number of attempts, `MaxTime` lets the second digest go out, on time or late, and the timer be armed after it. `Few`
  (`MCWebhooks`) meets the second month only with the hooks of the first and without another event,
  so that what is new there is the timer, crashes and rounds that run over.
* `startup_restarts` needs no bound: one task, completion and setting stand for all, since every
  statement treats rows alike.

`MaxEntries` bounds the changes in `AuditQueue`, `MaxTime` the clock of `Webhooks`; their instances may
therefore come to a stop (`CHECK_DEADLOCK FALSE`); nothing else stops.
Symmetry is used for interchangeable request slots, receipt names, months, identities,
browsers, flows and tasks in runs without liveness properties. `CompletionLog` treats what it
sees of these (requests, months) alike, so the refinement is checked under symmetry too.

### Fairness

* `Completions!FairSpec`: `WF(Progress(r))` for each slot. A goroutine that has
  begun is scheduled; no action outside the slot disables its steps forever. Nothing is assumed of the clients.
* `RateLimiter!FairSpec`: `WF(Tick)`, time passes. The sweeper and the handlers get none: blocks must
  end without them.
* `Webhooks!FairSpec`: `WF` of each delivery (an attempt ends after the client's
  ten seconds, a pause after its time) and of `FireMonthDigest`, a goroutine that is scheduled. `Tick` waits
  only for a timer that is due: a sleeping goroutine wakes well within the eight hours of a tick.
  It does not wait for a round, whose deliveries may take any time.
* `AuditQueue!FairSpec`: `WF(Worker)` and `WF(Enqueue(h))`, goroutines are
  scheduled. A crash or a failing insert may happen at any moment; the entry then counts as lost.

## 4. Proofs

All theorems are about the unbounded specifications: any sets of users, months,
files, addresses and requests (finite where a cardinality is taken).

**`CompletionsProofs`**

* `TypeCorrect`, `DeletedTaskHasNoRow`: no assumption beyond those of the module.
* `ReceiptsAlwaysExist`, `OnlyUnreferencedRemoved`: assume `"unconfirmed" \notin
  Faults`, which is needed (section 3). `ReceiptsExist` is
  not inductive: a handler that is about to unlink holds names, and nothing in
  the rows says that they are no longer named. `IInv` adds: a row is named only
  by files whose history is that very key (`Rows`); what a handler holds belongs to
  its key, its new file is on disk and in no row before its write, and what it holds
  after its write is in no row, and never comes back (`Slot`); no two handlers
  hold the same private file (`Apart`). The last is why an un-skip racing an
  upload cannot make a row name a removed file: names are drawn once, so a name that has
  left the rows cannot return to them.
* `HandlersImplementLog`: any number of concurrent handlers with every operation and every failure,
  "unconfirmed" included, implement `CompletionLog`, without further assumptions. Each handler's `Write` maps to its effect, the
  access check to its admission, an import to one step, everything else to a stutter or to the answer.
  The write acts on whatever row is there, so the proof is that acting on
  a stale read still is one of the effects the request may have: an UPDATE of no row, an INSERT
  refused by a key or the foreign key, a DELETE of no row have none, and a skip that deletes a
  completed row clears it, which a skip of the log may do as well (it does not say which row the user had seen).
  `LogInv` is what this needs: types, no row without its task, no receipt without a row.

**`AccountsProofs`**

* `TypeCorrect` needs the bound to be respected: `TInv` adds that ids suffice for
  the requests that may insert (`IdsSuffice`) and that each slot's step fits its
  operation (`OpAt`).
* `OwnersExist` rests on the foreign key, `IdentitiesUnique` on the unique index:
  the checks the handlers make before do not suffice and are not used. They hold for any `May`, with or
  without an administrators' group.

**`AmountsProofs`** (`Amounts`, `Report`, `Tools`)

* `TypeCorrect`, `HistoryIsKept`, `LoggedAmountIsKept`: from the types of the state, without further
  assumptions.
* `ReportIsTrue`, about the web app's report: a completed month not cleared that had an amount of its own at the first read still has one at
  the second (`ReportInv`). So a row without one had none before, and counted then with the task's amount as it was read.
* `ToolsAreRequests`: what happens beside tool calls, and what the calls do, are requests, so the
  theorems above hold with the tools at work.
* `CompleteNeverUndoes`, `EditKeeps`: `ToolInv` has, per tool call, what its slot was asked (`Asked`),
  what its step expects (`Waits`), and that until somebody else touches the month or
  the task they are what the tool has read (`Looked`); what it fetched is whole (`Fetched`); a slot is at
  work for one tool (`Alone`). The invariant was checked on the instance of `tools_concurrent` before it was proved.

**`RateLimiterProofs`** (`RateLimiter`, `SignOn`)

* `TypeCorrect`; `FailuresAreBounded`, where the failures counted and the requests in flight are
  bounded together, since a request in flight is a failure that may still come;
  `LimiterImplementsWindow`, where an entry that is over but not yet swept maps to no entry, and what the
  sweeper takes away must therefore be over.
* `SignOnIsLimited`: these hold while sign-ons are served.
* `SessionsAreOwn`: `OwnSession` alone does not survive a new account. `IdsOnce` adds that
  neither a row nor a session has an id above `lastId`, so an insert takes one that no session holds.
* `SignOnsAreOwn`: `Begun` says that a state cookie, also one a callback has come with, belongs to
  the browser that began its flow, and `Own` that whom a callback has brought from the provider signed in there in
  a flow of its browser. It holds whatever expires between check, exchange and callback.

**`WebhooksProofs`**

* `TypeCorrect`; attempts never exceed their limit (`TriesLeft`).
* `DigestIsNotMissed`: `RoundOK` relates the timer, the round in progress, the months begun and those
  that came too early (`late`); `SinceBirth` that each month since the process was started was armed for, hence begun, or is one of these.
* `AnsweredStaysOver`, `DigestIsSentOnce`: `DInv` adds that a digest delivery was begun only in a round for
  its month, and a hook that still waits has none yet (`SentOK`). A restart arms a later month than any begun, since
  the clock is past those: this is why nothing need be stored.

**`AuditQueueProofs`**

* `TypeCorrect`. `LoggedInOrder` needs no strengthening, but lemmas about sequences: how the
  embedding of `Path` into `accepted` changes when an entry is taken, dropped or added.
* `ChangesAccounted`, `LoggedOnce`: `OnePlace` adds that no entry is twice on its path and no two handlers
  hold one number; without it an entry that is lost could still be elsewhere.

**`ScheduleProofs`** (`Schedule`, `Csv`)

* `ViewsAlwaysAgree`, for any interval, history and forecast. Given the types of the
  rows (`TypeCorrect`), the SQL condition is the Go function (`SameRule`), and a task due in a month of the
  report is within its range (`DueIsFetched`), by arithmetic on the effective start.
* `ArchiveKeeps`: archiving changes no past month of any report.
* `ViewsAgreeOnImports`, `RestoredIsAlwaysShown`, `ImportIsAlwaysExact`: for any file, exported or not. `CsvInv` adds
  the types of rows and lines, that a task that is gone has no rows (a new task under an id is empty
  until the import fills it), and that an exported file goes forward in time, so that the
  first line for a task, which dates its placeholder, is the earliest. `Extremes` shows from
  the well-founded order of the naturals that some lines have a first and a last; `ImportEffect` states an
  import row by row. They assume that the tasks are finitely many and that monthly is
  an interval (`CsvAssumption`).

**`StartupProofs`**: `ServedIsAsLeft`, for any values and any metadata. `IInv` says that the amount a task
counts with (column, else metadata) is at all times what was left there, or one left empty whose metadata has it (`AmountKept`), that
a version too old for a column has nothing in it, which is why the rebuilds
may leave it out (`NothingYounger`), and what each step of a start can rely on (`Reached`).

**Model-checked only**: liveness (`StrayFilesGo`, `BlockLifts`, `Settled`, `DigestGoesOut`), which
is out of the prover's reach, and `NoStrayAtRest` and `ReceiptOnlyOnCompleted`, which hold only while
requests do not overlap. Every other invariant, action property and refinement of a passing run is proved.

## 5. Not modelled

* PostgreSQL with its 25 connections. Statements remain atomic there, but a
  transaction (import, update) overlaps with other statements; the models
  are those of SQLite with one connection.
* Loss of committed transactions after a power failure (`synchronous=NORMAL`). A
  crash here kills the process, not the machine.
* Reads that only answer: listings of users, tokens and archived tasks, downloads.
* The optimistic state of the web app: a reply that arrives after the month was
  switched is applied to the wrong month until the next load. The server's rows
  are not concerned.
* The totals that the web app and the MCP tool add up from a report; what they count for
  one month is `Reported` and `Paid`. They also
  differ in whether skipped months count (`ReportView.jsx:34`, `tools.go:349`).
* API tokens and password login, beyond the rate limiter: one row each, checked
  by one SELECT. Changing a password leaves sessions valid by design.
* Settings: an upsert per key, the last write wins. `Startup` has their migration.
* `migratePostgres`, which only creates tables and columns that are missing.
* `TestWebhook`, which sends once and keeps nothing, and the check of addresses.
* That the back-fill of amounts ignores its own error; the next start repeats it.
* Texts: descriptions, notes, order of tasks; file types and sizes of receipts; the
  hashing of passwords; the cut of an export for a tool at 500 rows.
* Tasks without an owner outside `Startup`: only a database from before the user
  accounts holds them.
* Rendering, forms, static files, build and deployment.

## 6. Plan

What could still be proved:

1. `CompletionsProofs`: under which weaker condition than one request at a time the directory stays
   exact (requests of different tasks).
2. `AccountsProofs`: that a sign-on and a bootstrap implement an abstract account table; and, once the code
   counts and deletes in one statement, that an administrator remains.
3. `StartupProofs`: idempotence, a start over a current database changes nothing.

Worth modelling if the code moves there: API tokens with revocation during a
request, the web app's optimistic updates, and PostgreSQL's overlapping transactions.
