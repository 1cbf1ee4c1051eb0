------------------------------ MODULE Amounts -------------------------------
(***************************************************************************)
(* What a month of one task cost: the default amount of the task, the      *)
(* amount logged for a month, and the handlers that change either          *)
(* (backend/handlers.go UpdateTask, PatchCompletion, ToggleCompletion,     *)
(* SkipCompletion, ImportCSV; db.go).                                      *)
(*                                                                         *)
(* The effective amount of a completed month is the amount of its row or,  *)
(* where that is empty, the task's (frontend/src/App.jsx, ReportView.jsx). *)
(* The task exists throughout and the users may all change its months:     *)
(* its deletion and the access checks are in Completions.                  *)
(***************************************************************************)
EXTENDS Naturals, FiniteSets

CONSTANTS Months,
          Valid,      \* amounts that parse as non-negative numbers
          Invalid,    \* strings that do not
          Requests,   \* request slots
          Ops,        \* the operations users may ask for in this instance
          Empty,      \* the amount ''
          Absent,     \* a field the request does not carry
          NoCall      \* the slot is free

Amts == Valid \cup Invalid \cup {Empty}
AllOps == {"toggle", "skip", "patch", "update", "import"}

(* note: whether a note comes along. *)
Call == [op : {"toggle", "skip"}, month : Months]
        \cup [op : {"patch"}, month : Months, amount : Amts \cup {Absent},
              note : BOOLEAN]

ASSUME OpsAssumption == Ops \subseteq AllOps
ASSUME DistinctAssumption ==
  /\ Valid \cap Invalid = {} /\ Empty \notin Valid \cup Invalid
  /\ Absent \notin Amts /\ NoCall \notin Call

VARIABLES
  default,   \* tasks.amount
  status,    \* per month: no row ("pending"), skipped = 0 or skipped = 1
  amount,    \* per month: completions.amount
  call,      \* per slot: what was asked
  pc,        \* per slot: the step the handler is at
  seen       \* per slot: the status its GetCompletion returned

rows == <<status, amount>>
local == <<call, pc, seen>>
vars == <<default, status, amount, call, pc, seen>>

Status == {"pending", "completed", "skipped"}
Steps == {"idle", "read", "write", "note"}
Month(r) == call[r].month

Init == /\ default \in Valid \cup {Empty}
        /\ status = [m \in Months |-> "pending"]
        /\ amount = [m \in Months |-> Empty]
        /\ call = [r \in Requests |-> NoCall]
        /\ pc = [r \in Requests |-> "idle"]
        /\ seen = [r \in Requests |-> "pending"]

Reply(r) == /\ call' = [call EXCEPT ![r] = NoCall]
            /\ pc' = [pc EXCEPT ![r] = "idle"]
            /\ seen' = [seen EXCEPT ![r] = "pending"]

Goto(r, s) == pc' = [pc EXCEPT ![r] = s] /\ UNCHANGED <<call, seen>>

(* PatchCompletion refuses a request without a field before it reads. *)
Begin(r) ==
  /\ pc[r] = "idle"
  /\ \E c \in Call :
       /\ c.op \in Ops
       /\ c.op = "patch" => c.amount # Absent \/ c.note
       /\ call' = [call EXCEPT ![r] = c]
  /\ pc' = [pc EXCEPT ![r] = "read"]
  /\ UNCHANGED <<seen, default, rows>>

(* GetCompletion.  Only a completed month is patched, only another is      *)
(* skipped.                                                                *)
Refused(r) == \/ call[r].op = "patch" /\ status[Month(r)] # "completed"
              \/ call[r].op = "skip" /\ status[Month(r)] = "completed"

Read(r) ==
  /\ pc[r] = "read"
  /\ \/ Refused(r) /\ Reply(r)
     \/ /\ ~Refused(r)
        /\ seen' = [seen EXCEPT ![r] = status[Month(r)]]
        /\ pc' = [pc EXCEPT ![r] = "write"]
        /\ UNCHANGED call
  /\ UNCHANGED <<default, rows>>

(* INSERT, refused by the primary key; the amount column defaults to ''.   *)
Insert(m, s) ==
  /\ status' = IF status[m] = "pending" THEN [status EXCEPT ![m] = s] ELSE status
  /\ UNCHANGED amount

Delete(m) ==
  /\ status' = [status EXCEPT ![m] = "pending"]
  /\ amount' = [amount EXCEPT ![m] = Empty]

(* CompleteSkipped: the amount stays. *)
CompleteSkipped(m) ==
  /\ status' = IF status[m] = "pending" THEN status ELSE [status EXCEPT ![m] = "completed"]
  /\ UNCHANGED amount

Toggle(r) ==
  /\ pc[r] = "write" /\ call[r].op = "toggle"
  /\ \/ seen[r] = "completed" /\ Delete(Month(r))
     \/ seen[r] = "skipped" /\ CompleteSkipped(Month(r))
     \/ seen[r] = "pending" /\ Insert(Month(r), "completed")
  /\ Reply(r)
  /\ UNCHANGED default

Skip(r) ==
  /\ pc[r] = "write" /\ call[r].op = "skip"
  /\ \/ seen[r] = "skipped" /\ Delete(Month(r))
     \/ seen[r] = "pending" /\ Insert(Month(r), "skipped")
  /\ Reply(r)
  /\ UNCHANGED default

BugPatchAmountStoresAbsent(r) ==
  /\ pc[r] = "write" /\ call[r].op = "patch"
  /\ IF call[r].amount \in Invalid THEN UNCHANGED amount /\ Reply(r)
     ELSE /\ amount' = [amount EXCEPT ![Month(r)] = call[r].amount]
          /\ Goto(r, "note")
  /\ UNCHANGED <<default, status>>

(* PatchCompletion sets the amount and then looks at the note: a note that *)
(* is too long is refused after the amount is stored.  An UPDATE of no row *)
(* is no error.                                                            *)
PatchAmount(r) ==
  /\ pc[r] = "write" /\ call[r].op = "patch"
  /\ \/ call[r].amount = Absent /\ UNCHANGED amount /\ Goto(r, "note")
     \/ call[r].amount \in Invalid /\ UNCHANGED amount /\ Reply(r)
     \/ /\ call[r].amount \in Valid \cup {Empty}
        /\ amount' = IF status[Month(r)] = "pending" THEN amount
                     ELSE [amount EXCEPT ![Month(r)] = call[r].amount]
        /\ Goto(r, "note")
  /\ UNCHANGED <<default, status>>

(* The note itself is not kept here: it says nothing about amounts.        *)
PatchNote(r) ==
  /\ pc[r] = "note"
  /\ Reply(r)
  /\ UNCHANGED <<default, rows>>

BugBackfillOverwrites(old) == [m \in Months |-> IF status[m] # "pending" THEN old ELSE amount[m]]
BugBackfillSkippedOnly(old) ==
  [m \in Months |-> IF status[m] = "skipped" /\ amount[m] = Empty THEN old ELSE amount[m]]

(* UPDATE completions SET amount = old WHERE amount = '': skipped rows too. *)
Backfill(old) ==
  [m \in Months |-> IF status[m] # "pending" /\ amount[m] = Empty THEN old ELSE amount[m]]

(* UpdateTaskWithAmountBackfill, one transaction.                          *)
UpdateTask(new) ==
  /\ "update" \in Ops
  /\ default' = new
  /\ amount' = IF default # Empty /\ new # default THEN Backfill(default) ELSE amount
  /\ UNCHANGED <<status, local>>

(* ImportCompletionsCSV for rows of this task, one transaction; the amount *)
(* column of the file is stored as it is.                                  *)
Import(K) ==
  /\ "import" \in Ops
  /\ \E s \in [K -> {"completed", "skipped"}], a \in [K -> Amts] :
       /\ status' = [m \in Months |-> IF m \in K THEN s[m] ELSE status[m]]
       /\ amount' = [m \in Months |-> IF m \in K THEN a[m] ELSE amount[m]]
  /\ UNCHANGED <<default, local>>

(* A statement fails, the client goes away or the process is killed: what  *)
(* the request has written stays.                                          *)
Fail(r) ==
  /\ pc[r] # "idle"
  /\ Reply(r)
  /\ UNCHANGED <<default, rows>>

Next == \/ \E r \in Requests : \/ Begin(r) \/ Read(r) \/ Toggle(r) \/ Skip(r)
                               \/ PatchAmount(r) \/ PatchNote(r) \/ Fail(r)
        \/ \E new \in Valid \cup {Empty} : UpdateTask(new)
        \/ \E K \in SUBSET Months : Import(K)

Spec == Init /\ [][Next]_vars

----------------------------------------------------------------------------

TypeOK ==
  /\ default \in Valid \cup {Empty}
  /\ status \in [Months -> Status]
  /\ amount \in [Months -> Amts]
  /\ call \in [Requests -> Call \cup {NoCall}]
  /\ pc \in [Requests -> Steps]
  /\ seen \in [Requests -> Status]
  /\ \A r \in Requests : pc[r] # "idle" => call[r] \in Call

(* What the app counts for a month. *)
Effective(m) == IF amount[m] = Empty THEN default ELSE amount[m]

(* Changing the amount of a task that had one does not change what any     *)
(* completed month cost, whatever requests are in flight (db.go: "This     *)
(* preserves historical accuracy.").                                       *)
HistoryKept ==
  [][default' # default /\ default # Empty
       => \A m \in Months : status[m] = "completed" => Effective(m)' = Effective(m)]_vars

(* An amount logged for a month is replaced only by a patch of that month, *)
(* by an import, or with the row itself.                                   *)
LoggedAmountKept ==
  [][\A m \in Months :
       amount[m] # Empty /\ amount'[m] # amount[m]
         => \/ status'[m] = "pending"
            \/ \E r \in Requests : /\ pc[r] = "write" /\ pc'[r] = "note"
                                  /\ call[r].op = "patch" /\ Month(r) = m
            \/ UNCHANGED <<default, local>>]_vars

(* A month that is completed without an amount of its own costs what the   *)
(* task costs now (mcp-server/tools.go: "A new amount takes effect         *)
(* immediately.").                                                         *)
CompletedAtCurrentAmount ==
  [][\A r \in Requests, m \in Months :
       pc[r] = "write" /\ pc'[r] = "idle" /\ call[r].op = "toggle" /\ Month(r) = m
         /\ status[m] # "completed" /\ status'[m] = "completed"
           => Effective(m)' = default]_vars
=============================================================================
