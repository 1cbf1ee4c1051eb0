---------------------------- MODULE Completions ----------------------------
(***************************************************************************)
(* The completion rows of the task tracker, the receipt files they name,   *)
(* and the HTTP handlers that change both (backend/handlers.go, db.go).    *)
(*                                                                         *)
(* A handler is a sequence of SQL statements and file operations.  Each    *)
(* statement is atomic, the sequence is not: of these only the CSV import  *)
(* opens a transaction, so the steps of the requests in flight interleave. *)
(* One action below is one statement or one file operation of a handler,   *)
(* with the branches the handler takes on its result.                      *)
(***************************************************************************)
EXTENDS Naturals, FiniteSets

CONSTANTS Users,     \* user ids
          Tasks,     \* ids of the tasks that exist initially; ids are never reused
          Months,    \* the YYYY-MM strings requests may name
          Files,     \* the receipt names uuid.New() may draw
          Requests,  \* request slots: how many requests may be in flight
          Owner,     \* tasks.user_id
          Ops,       \* the operations users may ask for in this instance
          Faults,    \* the failures that may strike in this instance
          NoFile,    \* receipt_file = ''
          NoKey,     \* a receipt name no upload has drawn yet
          NoCall     \* the slot is free

Keys == Tasks \X Months   \* PRIMARY KEY (task_id, month)

AllOps == {"toggle", "skip", "upload", "unreceipt", "delete", "import", "share"}
CallOps == AllOps \ {"import", "share"}
Call == [op : CallOps, user : Users, task : Tasks, month : Months]
AllFaults == {"statement", "readback", "unconfirmed", "file", "unlink", "crash"}

ASSUME OwnerAssumption == Owner \in [Tasks -> Users]
ASSUME NoFileAssumption == NoFile \notin Files
ASSUME NoKeyAssumption == NoKey \notin Keys
ASSUME NoCallAssumption == NoCall \notin Call
ASSUME OpsAssumption == Ops \subseteq AllOps /\ Faults \subseteq AllFaults

VARIABLES
  tasks,    \* the rows of table tasks
  shares,   \* the rows of table task_shares: <<task, user>>
  status,   \* per key: no row ("pending"), a row with skipped = 0 or with skipped = 1
  receipt,  \* per key: column receipt_file
  disk,     \* the files in the receipts directory
  home,     \* history: the key whose upload drew this name
  call,     \* per slot: what was asked
  pc,       \* per slot: the step the handler is at
  seen,     \* per slot: the status its GetCompletion returned
  mine,     \* per slot: the file this upload created
  doomed    \* per slot: the files it removes once the database confirms

db == <<tasks, shares, status, receipt>>
files == <<disk, home>>
local == <<call, pc, seen, mine, doomed>>
vars == <<tasks, shares, status, receipt, disk, home, call, pc, seen, mine, doomed>>

Status == {"pending", "completed", "skipped"}
Steps == {"idle", "check", "read", "create", "copy", "write", "readback", "unlink"}

Op(r) == call[r].op
Key(r) == <<call[r].task, call[r].month>>
(* Operators named Bug... are faulty variants of the definition that       *)
(* follows them: no specification uses them, they show what a property     *)
(* catches.                                                                *)
BugReceiptsEmptyName(K) == {receipt[k] : k \in K}

Receipts(K) == {receipt[k] : k \in K} \ {NoFile}
KeysOf(t) == {t} \X Months

----------------------------------------------------------------------------
(* Init: tasks without completions, nothing uploaded, nothing in flight.   *)

Init == /\ tasks = Tasks
        /\ shares = {}
        /\ status = [k \in Keys |-> "pending"]
        /\ receipt = [k \in Keys |-> NoFile]
        /\ disk = {}
        /\ home = [f \in Files |-> NoKey]
        /\ call = [r \in Requests |-> NoCall]
        /\ pc = [r \in Requests |-> "idle"]
        /\ seen = [r \in Requests |-> "pending"]
        /\ mine = [r \in Requests |-> NoFile]
        /\ doomed = [r \in Requests |-> {}]

(* The request is answered; its locals are gone. *)
Reply(r) == /\ pc' = [pc EXCEPT ![r] = "idle"]
            /\ seen' = [seen EXCEPT ![r] = "pending"]
            /\ mine' = [mine EXCEPT ![r] = NoFile]
            /\ doomed' = [doomed EXCEPT ![r] = {}]
            /\ call' = [call EXCEPT ![r] = NoCall]

(* The handler goes on to the step s, its other locals unchanged. *)
Goto(r, s) == /\ pc' = [pc EXCEPT ![r] = s]
              /\ UNCHANGED <<call, seen, mine, doomed>>

(* The handler goes on to remove the files F, then answers. *)
GotoUnlink(r, F) == /\ pc' = [pc EXCEPT ![r] = "unlink"]
                    /\ doomed' = [doomed EXCEPT ![r] = F]
                    /\ UNCHANGED <<call, seen, mine>>

----------------------------------------------------------------------------
(* Requests arrive and are checked.                                        *)

(* Bound: an upload begins only while the instance has a name left for it. *)
NamesLeft == Cardinality({f \in Files : home[f] = NoKey})
               > Cardinality({r \in Requests : pc[r] # "idle" /\ Op(r) = "upload"})

Begin(r) ==
  /\ pc[r] = "idle"
  /\ \E c \in Call :
       /\ c.op \in Ops
       /\ c.op = "upload" => NamesLeft
       /\ call' = [call EXCEPT ![r] = c]
  /\ pc' = [pc EXCEPT ![r] = "check"]
  /\ UNCHANGED <<seen, mine, doomed, db, files>>

(* taskOwnerCheck for a deletion, taskAccessCheck for the rest.  The two   *)
(* reads of taskAccessCheck are one step here: a task that is deleted      *)
(* between them takes its shares with it, so the second read decides.      *)
MayUse(r) ==
  LET t == call[r].task  u == call[r].user
  IN /\ t \in tasks
     /\ Owner[t] = u \/ (Op(r) # "delete" /\ <<t, u>> \in shares)

CheckAccess(r) ==
  /\ pc[r] = "check"
  /\ IF MayUse(r) THEN Goto(r, "read") ELSE Reply(r)
  /\ UNCHANGED <<db, files>>

----------------------------------------------------------------------------
(* GetCompletion, and what each handler decides on its result.  The names  *)
(* of the receipts to remove are taken here and used only after the write. *)

Remember(r, s, F) == /\ pc' = [pc EXCEPT ![r] = s]
                     /\ seen' = [seen EXCEPT ![r] = status[Key(r)]]
                     /\ doomed' = [doomed EXCEPT ![r] = F]
                     /\ UNCHANGED <<call, mine>>

BugReadToggleForgetsReceipt(r) ==
  /\ Op(r) = "toggle"
  /\ Remember(r, "write", {})

ReadToggle(r) ==
  /\ Op(r) = "toggle"
  /\ Remember(r, "write",
              IF status[Key(r)] = "completed" THEN Receipts({Key(r)}) ELSE {})

ReadSkip(r) ==
  /\ Op(r) = "skip"
  /\ IF status[Key(r)] = "completed" THEN Reply(r) ELSE Remember(r, "write", {})

BugReadUploadAcceptsSkipped(r) ==
  /\ Op(r) = "upload"
  /\ IF status[Key(r)] # "pending"
     THEN Remember(r, "create", Receipts({Key(r)}))
     ELSE Reply(r)

ReadUpload(r) ==
  /\ Op(r) = "upload"
  /\ IF status[Key(r)] = "completed"
     THEN Remember(r, "create", Receipts({Key(r)}))
     ELSE Reply(r)

ReadUnreceipt(r) ==
  /\ Op(r) = "unreceipt"
  /\ IF status[Key(r)] # "pending" /\ receipt[Key(r)] # NoFile
     THEN Remember(r, "write", Receipts({Key(r)}))
     ELSE Reply(r)

(* GetReceiptsForTask *)
ReadDelete(r) ==
  /\ Op(r) = "delete"
  /\ Remember(r, "write", Receipts(KeysOf(call[r].task)))

Read(r) ==
  /\ pc[r] = "read"
  /\ \/ ReadToggle(r) \/ ReadSkip(r) \/ ReadUpload(r) \/ ReadUnreceipt(r) \/ ReadDelete(r)
  /\ UNCHANGED <<db, files>>

----------------------------------------------------------------------------
(* The upload writes the new file before it touches the row.               *)

CreateFile(r) ==
  /\ pc[r] = "create"
  /\ \E f \in Files :
       /\ home[f] = NoKey
       /\ home' = [home EXCEPT ![f] = Key(r)]
       /\ disk' = disk \cup {f}
       /\ mine' = [mine EXCEPT ![r] = f]
  /\ pc' = [pc EXCEPT ![r] = "copy"]
  /\ UNCHANGED <<call, seen, doomed, db>>

BugCopyFileRemovesOldFirst(r) ==
  /\ pc[r] = "copy"
  /\ Goto(r, "write")
  /\ disk' = disk \ doomed[r]
  /\ UNCHANGED <<db, home>>

CopyFile(r) ==
  /\ pc[r] = "copy"
  /\ Goto(r, "write")
  /\ UNCHANGED <<db, files>>

----------------------------------------------------------------------------
(* The one write of each handler.  It acts on whatever row is there now.   *)

BugCanInsertNoForeignKey(k) == status[k] = "pending"

(* INSERT: refused by the primary key and by the foreign key on task_id.   *)
CanInsert(k) == k[1] \in tasks /\ status[k] = "pending"

InsertRow(k, s) == /\ CanInsert(k)
                   /\ status' = [status EXCEPT ![k] = s]
                   /\ receipt' = [receipt EXCEPT ![k] = NoFile]

DeleteRows(K) ==
  /\ status' = [k \in Keys |-> IF k \in K THEN "pending" ELSE status[k]]
  /\ receipt' = [k \in Keys |-> IF k \in K THEN NoFile ELSE receipt[k]]

BugSetReceiptUpserts(k, f) ==
  /\ receipt' = [receipt EXCEPT ![k] = f]
  /\ status' = IF status[k] = "pending" THEN [status EXCEPT ![k] = "completed"] ELSE status

(* UPDATE: no row, no effect, and no error either.                         *)
SetReceipt(k, f) ==
  /\ receipt' = IF status[k] = "pending" THEN receipt ELSE [receipt EXCEPT ![k] = f]
  /\ UNCHANGED status

(* AddCompletion, or a unique or foreign key error.                        *)
WriteAdd(r, s) ==
  \/ /\ InsertRow(Key(r), s)
     /\ Goto(r, "readback")
  \/ /\ ~CanInsert(Key(r))
     /\ Reply(r)
     /\ UNCHANGED <<status, receipt>>

(* CompleteSkipped *)
WriteCompleteSkipped(r) ==
  /\ status' = IF status[Key(r)] = "pending" THEN status
               ELSE [status EXCEPT ![Key(r)] = "completed"]
  /\ UNCHANGED receipt
  /\ Goto(r, "readback")

WriteToggle(r) ==
  /\ Op(r) = "toggle"
  /\ \/ /\ seen[r] = "completed"                  \* RemoveCompletion
        /\ DeleteRows({Key(r)})
        /\ Goto(r, "unlink")
     \/ /\ seen[r] = "skipped"
        /\ WriteCompleteSkipped(r)
     \/ /\ seen[r] = "pending"
        /\ WriteAdd(r, "completed")
  /\ UNCHANGED tasks

WriteSkip(r) ==
  /\ Op(r) = "skip"
  /\ \/ /\ seen[r] = "skipped"
        /\ DeleteRows({Key(r)})
        /\ Reply(r)
     \/ /\ seen[r] = "pending"
        /\ WriteAdd(r, "skipped")
  /\ UNCHANGED tasks

WriteUpload(r) ==
  /\ Op(r) = "upload"
  /\ SetReceipt(Key(r), mine[r])
  /\ Goto(r, "readback")
  /\ UNCHANGED tasks

BugWriteUnreceiptKeepsName(r) ==
  /\ Op(r) = "unreceipt"
  /\ UNCHANGED <<status, receipt>>
  /\ Goto(r, "readback")
  /\ UNCHANGED tasks

WriteUnreceipt(r) ==
  /\ Op(r) = "unreceipt"
  /\ SetReceipt(Key(r), NoFile)
  /\ Goto(r, "readback")
  /\ UNCHANGED tasks

(* DELETE FROM tasks; completions and shares go with it (ON DELETE CASCADE). *)
WriteDelete(r) ==
  /\ Op(r) = "delete"
  /\ tasks' = tasks \ {call[r].task}
  /\ shares' = {s \in shares : s[1] # call[r].task}
  /\ DeleteRows(KeysOf(call[r].task))
  /\ Goto(r, "unlink")

Write(r) ==
  /\ pc[r] = "write"
  /\ \/ (WriteToggle(r) \/ WriteSkip(r) \/ WriteUpload(r) \/ WriteUnreceipt(r)) /\ UNCHANGED shares
     \/ WriteDelete(r)
  /\ UNCHANGED files

(* INSERT and UPDATE are followed by a SELECT of the row for the answer.   *)
ReadBack(r) ==
  /\ pc[r] = "readback"
  /\ IF Op(r) \in {"upload", "unreceipt"} THEN Goto(r, "unlink") ELSE Reply(r)
  /\ UNCHANGED <<db, files>>

(* safeRemoveReceipt, one file at a time; a file already gone is no error. *)
Unlink(r) ==
  /\ pc[r] = "unlink"
  /\ \E f \in doomed[r] :
       /\ disk' = disk \ {f}
       /\ doomed' = [doomed EXCEPT ![r] = @ \ {f}]
  /\ UNCHANGED <<home, call, pc, seen, mine, db>>

Finish(r) ==
  /\ pc[r] = "unlink" /\ doomed[r] = {}
  /\ Reply(r)
  /\ UNCHANGED <<db, files>>

----------------------------------------------------------------------------
(* Failures.  A statement fails without effect when the database does or   *)
(* when the client has gone away (every statement runs under r.Context()). *)

StatementFails(r) ==
  /\ "statement" \in Faults
  /\ \/ pc[r] = "check" /\ Reply(r)
     \/ pc[r] = "read" /\ Op(r) # "delete" /\ Reply(r)
     \/ pc[r] = "read" /\ Op(r) = "delete" /\ Goto(r, "write")   \* only logged
     \/ pc[r] = "write" /\ Op(r) # "upload" /\ Reply(r)
     \/ pc[r] = "write" /\ Op(r) = "upload" /\ GotoUnlink(r, {mine[r]})
  /\ UNCHANGED <<db, files>>

(* The write has happened, the SELECT after it fails: the handler treats   *)
(* that like a failed write ("unconfirmed" where an upload does).          *)
ReadBackFails(r) ==
  /\ pc[r] = "readback"
  /\ IF Op(r) = "upload" THEN "unconfirmed" \in Faults /\ GotoUnlink(r, {mine[r]})
     ELSE "readback" \in Faults /\ Reply(r)
  /\ UNCHANGED <<db, files>>

BugFileFailsKeepsPart(r) ==
  /\ "file" \in Faults
  /\ pc[r] \in {"create", "copy"}
  /\ Reply(r)
  /\ UNCHANGED <<db, files>>

(* os.Create fails, or io.Copy or Close does and the partial file goes.    *)
FileFails(r) ==
  /\ "file" \in Faults
  /\ \/ pc[r] = "create" /\ Reply(r)
     \/ pc[r] = "copy" /\ GotoUnlink(r, {mine[r]})
  /\ UNCHANGED <<db, files>>

(* os.Remove fails: logged, the file stays.                                *)
UnlinkFails(r) ==
  /\ "unlink" \in Faults
  /\ pc[r] = "unlink"
  /\ \E f \in doomed[r] : doomed' = [doomed EXCEPT ![r] = @ \ {f}]
  /\ UNCHANGED <<call, pc, seen, mine, db, files>>

(* The process is killed: what was in flight is gone, rows and files stay. *)
Crash ==
  /\ "crash" \in Faults
  /\ \E r \in Requests : pc[r] # "idle"
  /\ pc' = [r \in Requests |-> "idle"]
  /\ seen' = [r \in Requests |-> "pending"]
  /\ mine' = [r \in Requests |-> NoFile]
  /\ doomed' = [r \in Requests |-> {}]
  /\ call' = [r \in Requests |-> NoCall]
  /\ UNCHANGED <<db, files>>

----------------------------------------------------------------------------
(* Operations that are one statement or one transaction.                   *)

(* ImportCompletionsCSV for rows that match the tasks of user u: inserts   *)
(* or updates status, never receipt_file.                                  *)
Import(u) ==
  /\ "import" \in Ops
  /\ \E K \in SUBSET {k \in Keys : k[1] \in tasks /\ Owner[k[1]] = u} :
       \E new \in [K -> {"completed", "skipped"}] :
         status' = [k \in Keys |-> IF k \in K THEN new[k] ELSE status[k]]
  /\ UNCHANGED <<tasks, shares, receipt, files, local>>

(* AddTaskShare and RemoveTaskShare by the owner of t.                     *)
Share(t, u) ==
  /\ "share" \in Ops
  /\ t \in tasks /\ u # Owner[t]
  /\ \/ shares' = shares \cup {<<t, u>>}
     \/ shares' = shares \ {<<t, u>>}
  /\ UNCHANGED <<tasks, status, receipt, files, local>>

Progress(r) == \/ CheckAccess(r) \/ Read(r) \/ CreateFile(r) \/ CopyFile(r)
               \/ Write(r) \/ ReadBack(r) \/ Unlink(r) \/ Finish(r)

Fails(r) == StatementFails(r) \/ ReadBackFails(r) \/ FileFails(r) \/ UnlinkFails(r)

Next == \/ \E r \in Requests : Begin(r) \/ Progress(r) \/ Fails(r)
        \/ Crash
        \/ \E u \in Users : Import(u)
        \/ \E t \in Tasks, u \in Users : Share(t, u)

Spec == Init /\ [][Next]_vars

(* A handler that has begun is scheduled until it has answered.            *)
FairSpec == Spec /\ \A r \in Requests : WF_vars(Progress(r))

----------------------------------------------------------------------------
(* Types.                                                                  *)

TypeOK ==
  /\ tasks \subseteq Tasks
  /\ shares \subseteq Tasks \X Users
  /\ status \in [Keys -> Status]
  /\ receipt \in [Keys -> Files \cup {NoFile}]
  /\ disk \subseteq Files
  /\ home \in [Files -> Keys \cup {NoKey}]
  /\ call \in [Requests -> Call \cup {NoCall}]
  /\ pc \in [Requests -> Steps]
  /\ seen \in [Requests -> Status]
  /\ mine \in [Requests -> Files \cup {NoFile}]
  /\ doomed \in [Requests -> SUBSET Files]
  /\ \A r \in Requests : pc[r] # "idle" =>
       /\ call[r] \in Call
       /\ (pc[r] = "copy" \/ (pc[r] \in {"write", "readback"} /\ Op(r) = "upload"))
            => mine[r] \in Files

(* Every receipt a row names is a file in the receipts directory.          *)
ReceiptsExist == \A k \in Keys : receipt[k] # NoFile => receipt[k] \in disk

(* No row outlives its task: an insert that was decided before the task    *)
(* went away is refused by the foreign key.                                *)
NoRowWithoutTask == \A k \in Keys : k[1] \notin tasks => status[k] = "pending"

(* Only a completed month has a receipt.                                   *)
ReceiptOnlyOnCompleted ==
  \A k \in Keys : receipt[k] # NoFile => status[k] = "completed"

AtRest == \A r \in Requests : pc[r] = "idle"

(* With no request in flight the receipts directory holds no stray file.   *)
NoStrayAtRest == AtRest => disk \subseteq Receipts(Keys)

(* A deleted task leaves no file behind once no request is in flight, as   *)
(* the description of delete_task says (mcp-server/tools.go:187).  False:  *)
(* DeleteTask lists the receipts before it deletes (handlers.go:458), and  *)
(* an upload may name a new one in between.                                *)
DeletedTaskLeavesNoFile ==
  AtRest => \A f \in disk : home[f][1] \in tasks

(* A skip request that meets a completed row is an error and leaves it     *)
(* alone, as the comment of SkipCompletion says (db.go:1127).  False: the  *)
(* row is read first and deleted by key later (db.go:1137).                *)
SkipLeavesCompletedAlone ==
  [][\A r \in Requests : pc[r] = "write" /\ Op(r) = "skip" /\ pc'[r] # "write"
        => \A k \in Keys : status[k] = "completed" => status'[k] = "completed"]_vars

(* A file is removed only when no row names it any more.                   *)
RemovedOnlyUnreferenced ==
  [][\A f \in disk \ disk' : f \notin Receipts(Keys)]_vars

(* A file no row names is on its way out, or on its way into a row.        *)
StrayFilesGo ==
  \A f \in Files :
    (f \in disk /\ f \notin Receipts(Keys)) ~> (f \notin disk \/ f \in Receipts(Keys))

(* What a user sees of a handler at each of its steps.                     *)
Stage == [r \in Requests |->
            CASE pc[r] = "idle" -> "idle"
              [] pc[r] = "check" -> "asked"
              [] pc[r] \in {"readback", "unlink"} -> "done"
              [] OTHER -> "admitted"]

(* The handlers implement the log of CompletionLog, whatever runs at the   *)
(* same time and whatever fails: each request takes effect at most once,   *)
(* on what it names, after its user was let in (the one write of each      *)
(* handler in db.go, between taskAccessCheck and the answer).              *)
Log == INSTANCE CompletionLog WITH
         state <- status,
         attached <- [k \in Keys |-> receipt[k] # NoFile],
         stage <- Stage

LogSpec == Log!Spec
=============================================================================
