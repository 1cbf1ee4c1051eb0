-------------------------- MODULE CompletionsProofs --------------------------
(***************************************************************************)
(* Proofs about Completions, for every set of users, tasks, months, files  *)
(* and requests.                                                           *)
(***************************************************************************)
EXTENDS Completions, TLAPS

(* The rows: no row, no receipt; a name is only ever in the row whose      *)
(* upload drew it; the file it names exists.                               *)
Rows == /\ \A k \in Keys : status[k] = "pending" => receipt[k] = NoFile
        /\ \A k \in Keys : receipt[k] # NoFile => home[receipt[k]] = k
        /\ ReceiptsExist

(* An upload between the creation of its file and the write of its row.    *)
Private(r) == pc[r] \in {"copy", "write"} /\ Op(r) = "upload"

(* A handler whose write has taken the names it holds out of the rows.     *)
Released(r) == \/ pc[r] = "unlink"
               \/ pc[r] = "readback" /\ Op(r) \in {"upload", "unreceipt"}

(* The handler in slot r: it holds nothing before it has read; what it     *)
(* holds belongs to the key (or, for a deletion, the task) it was asked    *)
(* for; its new file is on disk and in no row; once its write is done no   *)
(* row names what it will remove; only an upload creates files.            *)
Slot(r) ==
  /\ pc[r] \in {"idle", "check", "read"} => doomed[r] = {} /\ mine[r] = NoFile
  /\ mine[r] # NoFile => home[mine[r]] = Key(r)
  /\ \A f \in doomed[r] :
       /\ home[f] \in Keys
       /\ IF Op(r) = "delete" THEN home[f][1] = call[r].task ELSE home[f] = Key(r)
  /\ Private(r) => mine[r] \in disk /\ \A k \in Keys : receipt[k] # mine[r]
  /\ Released(r) => \A f \in doomed[r], k \in Keys : receipt[k] # f
  /\ pc[r] \in {"create", "copy"} => Op(r) = "upload"

(* Two handlers never share a new file, and nobody is about to remove one  *)
(* that is not in its row yet.                                             *)
Apart(r, s) == /\ mine[r] # NoFile /\ mine[r] = mine[s] => r = s
               /\ Private(r) => mine[r] \notin doomed[s]

IInv == /\ TypeOK
        /\ Rows
        /\ \A r \in Requests : Slot(r)
        /\ \A r, s \in Requests : Apart(r, s)

----------------------------------------------------------------------------
LEMMA KeyType == ASSUME NEW c \in Call
                 PROVE  <<c.task, c.month>> \in Keys /\ c.task \in Tasks
BY DEF Call, Keys

LEMMA ReceiptsType == ASSUME TypeOK, NEW K \in SUBSET Keys
                      PROVE  Receipts(K) \subseteq Files
BY DEF TypeOK, Receipts

LEMMA KeysOfType == ASSUME NEW t \in Tasks
                    PROVE  /\ KeysOf(t) \subseteq Keys
                           /\ \A k \in Keys : k \in KeysOf(t) <=> k[1] = t
BY DEF KeysOf, Keys

(* Every step keeps the variables within their types.                      *)
LEMMA TypeStep == TypeOK /\ [Next]_vars => TypeOK'
<1> SUFFICES ASSUME TypeOK, [Next]_vars PROVE TypeOK'
  OBVIOUS
<1> USE NoFileAssumption, NoCallAssumption DEF TypeOK, Steps, Status, Op
<1>1. ASSUME NEW r \in Requests, Begin(r) PROVE TypeOK'
  BY <1>1 DEF Begin, db, files
<1>2. ASSUME NEW r \in Requests, CheckAccess(r) PROVE TypeOK'
  BY <1>2 DEF CheckAccess, Goto, Reply, db, files
<1>3. ASSUME NEW r \in Requests, Read(r) PROVE TypeOK'
  <2>1. Key(r) \in Keys /\ call[r].task \in Tasks
    BY <1>3, KeyType DEF Read, Key
  <2>2. Receipts({Key(r)}) \subseteq Files /\ Receipts(KeysOf(call[r].task)) \subseteq Files
    BY <2>1, ReceiptsType, KeysOfType
  <2>3. status[Key(r)] \in Status
    BY <2>1
  <2>4. CASE ReadToggle(r)
    BY <1>3, <2>2, <2>3, <2>4 DEF Read, ReadToggle, Remember, db, files
  <2>5. CASE ReadSkip(r)
    BY <1>3, <2>3, <2>5 DEF Read, ReadSkip, Remember, Reply, db, files
  <2>6. CASE ReadUpload(r)
    <3>1. CASE Reply(r)
      BY <1>3, <2>6, <3>1 DEF Read, ReadUpload, Reply, db, files
    <3>2. CASE Remember(r, "create", Receipts({Key(r)}))
      BY <1>3, <2>2, <2>3, <2>6, <3>2 DEF Read, ReadUpload, Remember, db, files
    <3> QED
      BY <2>6, <3>1, <3>2 DEF ReadUpload
  <2>7. CASE ReadUnreceipt(r)
    <3>1. CASE Reply(r)
      BY <1>3, <2>7, <3>1 DEF Read, ReadUnreceipt, Reply, db, files
    <3>2. CASE Remember(r, "write", Receipts({Key(r)}))
      BY <1>3, <2>2, <2>3, <2>7, <3>2 DEF Read, ReadUnreceipt, Remember, db, files
    <3> QED
      BY <2>7, <3>1, <3>2 DEF ReadUnreceipt
  <2>8. CASE ReadDelete(r)
    BY <1>3, <2>2, <2>3, <2>8 DEF Read, ReadDelete, Remember, db, files
  <2> QED
    BY <1>3, <2>4, <2>5, <2>6, <2>7, <2>8 DEF Read
<1>4. ASSUME NEW r \in Requests, CreateFile(r) PROVE TypeOK'
  <2>1. Key(r) \in Keys
    BY <1>4, KeyType DEF CreateFile, Key
  <2> QED
    BY <1>4, <2>1 DEF CreateFile, db
<1>5. ASSUME NEW r \in Requests, CopyFile(r) PROVE TypeOK'
  BY <1>5 DEF CopyFile, Goto, db, files
<1>6. ASSUME NEW r \in Requests, Write(r) PROVE TypeOK'
  <2>1. Key(r) \in Keys
    BY <1>6, KeyType DEF Write, Key
  <2>2. CASE WriteToggle(r)
    BY <1>6, <2>1, <2>2 DEF Write, WriteToggle, WriteDelete, DeleteRows, WriteAdd, InsertRow,
                            WriteCompleteSkipped, Goto, Reply, files
  <2>3. CASE WriteSkip(r)
    BY <1>6, <2>1, <2>3 DEF Write, WriteSkip, WriteDelete, DeleteRows, WriteAdd, InsertRow,
                            Goto, Reply, files
  <2>4. CASE WriteUpload(r) \/ WriteUnreceipt(r)
    BY <1>6, <2>1, <2>4 DEF Write, WriteUpload, WriteUnreceipt, WriteDelete, SetReceipt, Goto, files
  <2>5. CASE WriteDelete(r)
    BY <1>6, <2>5 DEF Write, WriteDelete, DeleteRows, Goto, files
  <2> QED
    BY <1>6, <2>2, <2>3, <2>4, <2>5 DEF Write
<1>7. ASSUME NEW r \in Requests, ReadBack(r) PROVE TypeOK'
  BY <1>7 DEF ReadBack, Goto, Reply, db, files
<1>8. ASSUME NEW r \in Requests, Unlink(r) \/ Finish(r) PROVE TypeOK'
  BY <1>8 DEF Unlink, Finish, Reply, db, files
<1>9. ASSUME NEW r \in Requests, Fails(r) PROVE TypeOK'
  <2>1. CASE StatementFails(r)
    BY <2>1 DEF StatementFails, Goto, GotoUnlink, Reply, db, files
  <2>2. CASE ReadBackFails(r)
    BY <2>2 DEF ReadBackFails, GotoUnlink, Reply, db, files
  <2>3. CASE FileFails(r) \/ UnlinkFails(r)
    BY <2>3 DEF FileFails, UnlinkFails, GotoUnlink, Reply, db, files
  <2> QED
    BY <1>9, <2>1, <2>2, <2>3 DEF Fails
<1>10. ASSUME Crash PROVE TypeOK'
  BY <1>10 DEF Crash, db, files
<1>11. ASSUME NEW u \in Users, Import(u) PROVE TypeOK'
  BY <1>11 DEF Import, files, local
<1>12. ASSUME NEW t \in Tasks, NEW u \in Users, Share(t, u) PROVE TypeOK'
  BY <1>12 DEF Share, files, local
<1>13. CASE UNCHANGED vars
  BY <1>13 DEF vars
<1> QED
  BY <1>1, <1>2, <1>3, <1>4, <1>5, <1>6, <1>7, <1>8, <1>9, <1>10, <1>11, <1>12, <1>13
  DEF Next, Progress

(* The completion rows, the receipts directory and the handlers' locals    *)
(* keep their types in every behaviour.                                    *)
THEOREM TypeCorrect == Spec => []TypeOK
<1>1. Init => TypeOK
  BY NoCallAssumption DEF Init, TypeOK, Status, Steps, Op
<1> QED
  BY <1>1, TypeStep, PTL DEF Spec

----------------------------------------------------------------------------
(* A step of slot r that moves no file, gives no row a new receipt and     *)
(* leaves the other slots alone.                                           *)
Quiet(r) ==
  /\ UNCHANGED files
  /\ \A k \in Keys : receipt'[k] \in {receipt[k], NoFile}
  /\ \A k \in Keys : status'[k] = "pending" => receipt'[k] = NoFile
  /\ \A s \in Requests \ {r} : /\ call'[s] = call[s] /\ pc'[s] = pc[s]
                               /\ mine'[s] = mine[s] /\ doomed'[s] = doomed[s]

(* After such a step only the part of the invariant about r is in question. *)
LEMMA QuietStep ==
  ASSUME IInv, TypeOK', NEW r \in Requests, Quiet(r), Slot(r)',
         \A s \in Requests : Apart(r, s)' /\ Apart(s, r)'
  PROVE  IInv'
<1> USE NoFileAssumption DEF TypeOK, Quiet, files
<1>1. Rows'
  BY DEF IInv, Rows, ReceiptsExist
<1>2. ASSUME NEW s \in Requests PROVE Slot(s)'
  <2>1. CASE s = r
    BY <2>1
  <2>2. CASE s # r
    BY <2>2 DEF IInv, Slot, Released, Private, Op, Key
  <2> QED
    BY <2>1, <2>2
<1>3. ASSUME NEW s \in Requests, NEW q \in Requests PROVE Apart(s, q)'
  <2>1. CASE s = r \/ q = r
    BY <2>1
  <2>2. CASE s # r /\ q # r
    BY <2>2 DEF IInv, Apart, Private, Op
  <2> QED
    BY <2>1, <2>2
<1> QED
  BY <1>1, <1>2, <1>3 DEF IInv

(* A slot that answers holds nothing.                                      *)
LEMMA ReplyStep ==
  ASSUME IInv, TypeOK', NEW r \in Requests, Reply(r), Quiet(r)
  PROVE  IInv'
<1> USE NoFileAssumption DEF TypeOK, Reply
<1>1. pc'[r] = "idle" /\ mine'[r] = NoFile /\ doomed'[r] = {}
  OBVIOUS
<1>2. Slot(r)'
  BY <1>1 DEF Slot, Released, Private
<1>3. ASSUME NEW s \in Requests PROVE Apart(r, s)' /\ Apart(s, r)'
  BY <1>1, <1>3 DEF Apart, Private
<1> QED
  BY <1>2, <1>3, QuietStep

LEMMA QuietReply ==
  ASSUME IInv, NEW r \in Requests, Reply(r), UNCHANGED <<db, files>>
  PROVE  Quiet(r)
BY DEF IInv, Rows, TypeOK, Quiet, Reply, db, files

(* A slot that moves on, taking nothing new, before its write or after it. *)
LEMMA GotoStep ==
  ASSUME IInv, TypeOK', NEW r \in Requests, NEW s \in Steps, Goto(r, s), Quiet(r),
         s = "unlink" \/ (s = "readback" /\ Op(r) \in {"upload", "unreceipt"})
            => \A f \in doomed[r], k \in Keys : receipt'[k] # f,
         s = "write" => pc[r] = "copy" \/ Op(r) # "upload",
         s = "read" => pc[r] = "check",
         s \notin {"idle", "check", "create", "copy"}
  PROVE  IInv'
<1> USE NoFileAssumption DEF TypeOK, Goto
<1>1. Slot(r)'
  BY DEF IInv, Slot, Released, Private, Op, Key, Quiet, files
<1>2. ASSUME NEW q \in Requests PROVE Apart(r, q)' /\ Apart(q, r)'
  BY <1>2 DEF IInv, Apart, Private, Op, Quiet
<1> QED
  BY <1>1, <1>2, QuietStep

LEMMA QuietGoto ==
  ASSUME IInv, NEW r \in Requests, NEW s \in Steps, Goto(r, s), UNCHANGED <<db, files>>
  PROVE  Quiet(r)
BY DEF IInv, Rows, TypeOK, Quiet, Goto, db, files

(* A slot that takes the receipts of its rows to remove them later.        *)
LEMMA RememberStep ==
  ASSUME IInv, TypeOK', NEW r \in Requests, NEW s \in {"create", "write"},
         NEW F \in SUBSET Files, Remember(r, s, F), UNCHANGED <<db, files>>,
         pc[r] = "read",
         s = "create" <=> Op(r) = "upload",
         \A f \in F : \E k \in Keys :
            /\ receipt[k] = f
            /\ IF Op(r) = "delete" THEN k[1] = call[r].task ELSE k = Key(r)
  PROVE  IInv'
<1> USE NoFileAssumption DEF TypeOK, Remember, db, files
<1>1. Quiet(r)
  BY DEF IInv, Rows, Quiet
<1>2. Slot(r)'
  BY DEF IInv, Rows, Slot, Released, Private, Op, Key
<1>3. ASSUME NEW q \in Requests PROVE Apart(r, q)' /\ Apart(q, r)'
  BY <1>3 DEF IInv, Slot, Apart, Private, Op
<1> QED
  BY <1>1, <1>2, <1>3, QuietStep

LEMMA GotoUnlinkOwn ==
  ASSUME IInv, TypeOK', NEW r \in Requests, GotoUnlink(r, {mine[r]}), UNCHANGED <<db, files>>,
         Private(r)
  PROVE  IInv'
<1> USE NoFileAssumption DEF TypeOK, GotoUnlink, db, files
<1>1. Quiet(r)
  BY DEF IInv, Rows, Quiet
<1>2. mine[r] \in Files /\ call[r] \in Call /\ Key(r) \in Keys
  BY KeyType DEF IInv, Private, Op, Key
<1>3. Slot(r)'
  <2>1. /\ home[mine[r]] = Key(r) /\ mine[r] # NoFile
        /\ \A k \in Keys : receipt[k] # mine[r]
        /\ Op(r) = "upload"
    BY <1>2 DEF IInv, Slot, Private
  <2>2. /\ pc'[r] = "unlink" /\ doomed'[r] = {mine[r]}
        /\ UNCHANGED <<call, mine, home, receipt>>
    OBVIOUS
  <2> QED
    BY <1>2, <2>1, <2>2 DEF Slot, Released, Private, Op, Key
<1>4. ASSUME NEW q \in Requests PROVE Apart(r, q)' /\ Apart(q, r)'
  BY <1>2, <1>4 DEF IInv, Apart, Private, Op
<1> QED
  BY <1>1, <1>3, <1>4, QuietStep

----------------------------------------------------------------------------
(* One lemma per group of actions.                                         *)

LEMMA BeginInv ==
  ASSUME IInv, TypeOK', NEW r \in Requests, Begin(r)
  PROVE  IInv'
<1> USE NoFileAssumption DEF TypeOK, Begin, db, files
<1>1. Quiet(r)
  BY DEF IInv, Rows, Quiet
<1>2. Slot(r)'
  BY DEF IInv, Slot, Released, Private, Op, Key
<1>3. ASSUME NEW q \in Requests PROVE Apart(r, q)' /\ Apart(q, r)'
  BY <1>3 DEF IInv, Slot, Apart, Private, Op
<1> QED
  BY <1>1, <1>2, <1>3, QuietStep

LEMMA CheckAccessInv ==
  ASSUME IInv, TypeOK', NEW r \in Requests, CheckAccess(r)
  PROVE  IInv'
<1>1. CASE Reply(r)
  BY <1>1, QuietReply, ReplyStep DEF CheckAccess
<1>2. CASE Goto(r, "read")
  <2>1. Quiet(r)
    BY <1>2, QuietGoto DEF CheckAccess, Steps
  <2> QED
    BY <1>2, <2>1, GotoStep DEF CheckAccess, Steps
<1> QED
  BY <1>1, <1>2 DEF CheckAccess

LEMMA ReadInv ==
  ASSUME IInv, TypeOK', NEW r \in Requests, Read(r)
  PROVE  IInv'
<1> DEFINE t == call[r].task
           own == Receipts({Key(r)})
           all == Receipts(KeysOf(t))
<1>1. pc[r] = "read" /\ UNCHANGED <<db, files>>
  BY DEF Read
<1>2. Key(r) \in Keys /\ t \in Tasks /\ call[r] \in Call
  BY <1>1, KeyType DEF IInv, TypeOK, Key
<1>3. own \in SUBSET Files /\ all \in SUBSET Files /\ {} \in SUBSET Files
  BY <1>2, ReceiptsType, KeysOfType DEF IInv
<1>4. CASE Reply(r)
  BY <1>1, <1>4, QuietReply, ReplyStep
<1>5. CASE Op(r) = "upload" /\ Remember(r, "create", own)
  <2>1. \A f \in own : \E k \in Keys : receipt[k] = f /\ k = Key(r)
    BY <1>2 DEF Receipts
  <2> QED
    BY <1>1, <1>3, <1>5, <2>1, RememberStep
<1>6. CASE Op(r) \in {"toggle", "unreceipt"} /\ Remember(r, "write", own)
  <2>1. \A f \in own : \E k \in Keys : receipt[k] = f /\ k = Key(r)
    BY <1>2 DEF Receipts
  <2> QED
    BY <1>1, <1>3, <1>6, <2>1, RememberStep
<1>7. CASE Op(r) \in {"toggle", "skip"} /\ Remember(r, "write", {})
  BY <1>1, <1>3, <1>7, RememberStep
<1>8. CASE Op(r) = "delete" /\ Remember(r, "write", all)
  <2>1. \A f \in all : \E k \in Keys : receipt[k] = f /\ k[1] = t
    BY <1>2, KeysOfType DEF Receipts
  <2> QED
    BY <1>1, <1>3, <1>8, <2>1, RememberStep
<1> QED
  BY <1>4, <1>5, <1>6, <1>7, <1>8
  DEF Read, ReadToggle, ReadSkip, ReadUpload, ReadUnreceipt, ReadDelete

(* A name no upload has drawn is in no row and in nobody's hands.          *)
LEMMA CreateFileInv ==
  ASSUME IInv, TypeOK', NEW r \in Requests, CreateFile(r)
  PROVE  IInv'
<1> USE NoFileAssumption, NoKeyAssumption DEF TypeOK, db
<1>1. PICK f \in Files : /\ home[f] = NoKey
                         /\ home' = [home EXCEPT ![f] = Key(r)]
                         /\ disk' = disk \cup {f}
                         /\ mine' = [mine EXCEPT ![r] = f]
  BY DEF CreateFile
<1>2. Key(r) \in Keys /\ call[r] \in Call /\ Op(r) = "upload"
  BY KeyType DEF IInv, Slot, CreateFile, Key
<1>3. /\ \A k \in Keys : receipt[k] # f
      /\ \A s \in Requests : mine[s] # f /\ f \notin doomed[s]
  <2>1. \A k \in Keys : receipt[k] # f
    BY <1>1 DEF IInv, Rows
  <2>2. ASSUME NEW s \in Requests PROVE mine[s] # f
    <3>1. mine[s] = f => pc[s] # "idle" /\ home[f] = Key(s)
      BY <2>2 DEF IInv, Slot
    <3>2. pc[s] # "idle" => Key(s) \in Keys
      BY <2>2, KeyType DEF IInv, Key
    <3> QED
      BY <1>1, <3>1, <3>2
  <2>3. ASSUME NEW s \in Requests PROVE f \notin doomed[s]
    BY <1>1, <2>3 DEF IInv, Slot
  <2> QED
    BY <2>1, <2>2, <2>3
<1>4. Rows'
  BY <1>1, <1>3 DEF IInv, Rows, ReceiptsExist, CreateFile
<1>5. ASSUME NEW s \in Requests PROVE Slot(s)'
  <2>1. CASE s = r
    BY <1>1, <1>2, <1>3, <2>1 DEF IInv, Slot, Released, Private, Op, Key, CreateFile
  <2>2. CASE s # r
    BY <1>1, <1>3, <2>2 DEF IInv, Slot, Released, Private, Op, Key, CreateFile
  <2> QED
    BY <2>1, <2>2
<1>6. ASSUME NEW s \in Requests, NEW q \in Requests PROVE Apart(s, q)'
  BY <1>1, <1>3 DEF IInv, Apart, Private, Op, CreateFile
<1> QED
  BY <1>4, <1>5, <1>6 DEF IInv

LEMMA CopyFileInv ==
  ASSUME IInv, TypeOK', NEW r \in Requests, CopyFile(r)
  PROVE  IInv'
<1>1. Quiet(r)
  BY QuietGoto DEF CopyFile, Steps
<1> QED
  BY <1>1, GotoStep DEF CopyFile, Steps

(* Deleting rows takes receipts away and gives none.                       *)
LEMMA DeleteRowsReceipts ==
  ASSUME NEW K \in SUBSET Keys, DeleteRows(K), IInv
  PROVE  /\ \A k \in Keys : receipt'[k] = IF k \in K THEN NoFile ELSE receipt[k]
         /\ \A k \in Keys : status'[k] = IF k \in K THEN "pending" ELSE status[k]
         /\ \A k \in Keys : receipt'[k] \in {receipt[k], NoFile}
         /\ \A k \in Keys : status'[k] = "pending" => receipt'[k] = NoFile
BY DEF DeleteRows, IInv, Rows

LEMMA WriteAddInv ==
  ASSUME IInv, TypeOK', NEW r \in Requests, NEW s \in {"completed", "skipped"},
         pc[r] = "write", Op(r) \in {"toggle", "skip"}, WriteAdd(r, s), UNCHANGED files
  PROVE  IInv'
<1> USE NoFileAssumption
<1>1. Key(r) \in Keys
  BY KeyType DEF IInv, TypeOK, Key
<1>2. CASE InsertRow(Key(r), s) /\ Goto(r, "readback")
  <2>1. Quiet(r)
    BY <1>1, <1>2 DEF IInv, TypeOK, Rows, InsertRow, CanInsert, Goto, Quiet
  <2> QED
    BY <1>2, <2>1, GotoStep DEF Steps
<1>3. CASE Reply(r) /\ UNCHANGED <<status, receipt>>
  <2>1. Quiet(r)
    BY <1>3 DEF IInv, TypeOK, Rows, Quiet, Reply
  <2> QED
    BY <1>3, <2>1, ReplyStep
<1> QED
  BY <1>2, <1>3 DEF WriteAdd

(* Outside the upload the write of a handler only takes receipts away.     *)
LEMMA WriteToggleInv ==
  ASSUME IInv, TypeOK', NEW r \in Requests, Write(r), WriteToggle(r)
  PROVE  IInv'
<1> USE NoFileAssumption
<1>1. Key(r) \in Keys /\ pc[r] = "write" /\ Op(r) = "toggle" /\ UNCHANGED files
  BY KeyType DEF IInv, TypeOK, Key, Write, WriteToggle
<1>2. CASE DeleteRows({Key(r)}) /\ Goto(r, "unlink")
  <2>1. Quiet(r)
    BY <1>1, <1>2, DeleteRowsReceipts DEF IInv, TypeOK, Goto, Quiet
  <2>2. \A f \in doomed[r], k \in Keys : receipt'[k] # f
    <3>1. \A k \in Keys : receipt'[k] = IF k = Key(r) THEN NoFile ELSE receipt[k]
      BY <1>1, <1>2, DeleteRowsReceipts
    <3>2. \A f \in doomed[r] : f \in Files /\ home[f] = Key(r)
      BY <1>1 DEF IInv, TypeOK, Slot
    <3>3. \A k \in Keys : receipt[k] # NoFile => home[receipt[k]] = k
      BY DEF IInv, Rows
    <3> QED
      BY <3>1, <3>2, <3>3
  <2> QED
    BY <1>1, <1>2, <2>1, <2>2, GotoStep DEF Steps
<1>3. CASE WriteCompleteSkipped(r)
  <2>1. Quiet(r)
    BY <1>1, <1>3 DEF IInv, TypeOK, Rows, WriteCompleteSkipped, Goto, Quiet
  <2> QED
    BY <1>1, <1>3, <2>1, GotoStep DEF WriteCompleteSkipped, Steps
<1>4. CASE WriteAdd(r, "completed")
  BY <1>1, <1>4, WriteAddInv
<1> QED
  BY <1>2, <1>3, <1>4 DEF WriteToggle

LEMMA WriteSkipInv ==
  ASSUME IInv, TypeOK', NEW r \in Requests, Write(r), WriteSkip(r)
  PROVE  IInv'
<1>1. Key(r) \in Keys /\ pc[r] = "write" /\ Op(r) = "skip" /\ UNCHANGED files
  BY KeyType DEF IInv, TypeOK, Key, Write, WriteSkip
<1>2. CASE DeleteRows({Key(r)}) /\ Reply(r)
  <2>1. Quiet(r)
    BY <1>1, <1>2, DeleteRowsReceipts DEF IInv, TypeOK, Reply, Quiet
  <2> QED
    BY <1>2, <2>1, ReplyStep
<1>3. CASE WriteAdd(r, "skipped")
  BY <1>1, <1>3, WriteAddInv
<1> QED
  BY <1>2, <1>3 DEF WriteSkip

LEMMA WriteUnreceiptInv ==
  ASSUME IInv, TypeOK', NEW r \in Requests, Write(r), WriteUnreceipt(r)
  PROVE  IInv'
<1> USE NoFileAssumption
<1>1. /\ Key(r) \in Keys /\ pc[r] = "write" /\ Op(r) = "unreceipt" /\ UNCHANGED files
      /\ Goto(r, "readback") /\ SetReceipt(Key(r), NoFile)
  BY KeyType DEF IInv, TypeOK, Key, Write, WriteUnreceipt
<1>2. Quiet(r)
  BY <1>1 DEF IInv, TypeOK, Rows, SetReceipt, Goto, Quiet
<1>3. \A f \in doomed[r], k \in Keys : receipt'[k] # f
  BY <1>1 DEF IInv, TypeOK, Rows, Slot, SetReceipt
<1> QED
  BY <1>1, <1>2, <1>3, GotoStep DEF Steps

LEMMA WriteDeleteInv ==
  ASSUME IInv, TypeOK', NEW r \in Requests, Write(r), WriteDelete(r)
  PROVE  IInv'
<1> USE NoFileAssumption
<1> DEFINE t == call[r].task
<1>1. /\ t \in Tasks /\ pc[r] = "write" /\ Op(r) = "delete" /\ UNCHANGED files
      /\ Goto(r, "unlink") /\ DeleteRows(KeysOf(t))
  BY KeyType DEF IInv, TypeOK, Write, WriteDelete
<1>2. KeysOf(t) \in SUBSET Keys
  BY <1>1, KeysOfType
<1>3. Quiet(r)
  BY <1>1, <1>2, DeleteRowsReceipts DEF IInv, TypeOK, Goto, Quiet
<1>4. \A f \in doomed[r], k \in Keys : receipt'[k] # f
  BY <1>1, <1>2, KeysOfType, DeleteRowsReceipts DEF IInv, TypeOK, Rows, Slot
<1> QED
  BY <1>1, <1>3, <1>4, GotoStep DEF Steps

(* The upload's UPDATE puts its own file, which nobody else knows, into    *)
(* its own row, in place of the one it is going to remove.                 *)
LEMMA WriteUploadInv ==
  ASSUME IInv, TypeOK', NEW r \in Requests, Write(r), WriteUpload(r)
  PROVE  IInv'
<1> USE NoFileAssumption DEF TypeOK
<1>1. /\ Key(r) \in Keys /\ pc[r] = "write" /\ Op(r) = "upload" /\ UNCHANGED files
      /\ Goto(r, "readback") /\ SetReceipt(Key(r), mine[r])
      /\ mine[r] \in Files /\ Private(r)
  BY KeyType DEF IInv, Key, Write, WriteUpload, Private
<1>2. /\ \A k \in Keys : k # Key(r) => receipt'[k] = receipt[k]
      /\ \/ receipt'[Key(r)] = mine[r] /\ status[Key(r)] # "pending"
         \/ receipt'[Key(r)] = NoFile
  BY <1>1 DEF IInv, Rows, SetReceipt
<1>3. Rows'
  BY <1>1, <1>2 DEF IInv, Rows, Slot, ReceiptsExist, SetReceipt, files
<1>4. ASSUME NEW s \in Requests PROVE Slot(s)'
  <2>1. CASE s = r
    <3>1. mine[r] \notin doomed[r]
      BY <1>1 DEF IInv, Apart
    <3>2. \A f \in doomed[r], k \in Keys : receipt'[k] # f
      BY <1>1, <1>2, <3>1 DEF IInv, Rows, Slot
    <3> QED
      BY <1>1, <2>1, <3>2 DEF IInv, Slot, Released, Private, Op, Key, Goto, files
  <2>2. CASE s # r
    <3>1. mine[r] \notin doomed[s] /\ (Private(s) => mine[s] # mine[r])
      BY <1>1, <2>2 DEF IInv, Apart
    <3>2. \A k \in Keys : receipt'[k] \in {receipt[k], mine[r], NoFile}
      BY <1>2
    <3> QED
      BY <1>1, <2>2, <3>1, <3>2 DEF IInv, Slot, Released, Private, Op, Key, Goto, files
  <2> QED
    BY <2>1, <2>2
<1>5. ASSUME NEW s \in Requests, NEW q \in Requests PROVE Apart(s, q)'
  BY <1>1 DEF IInv, Apart, Private, Op, Goto
<1> QED
  BY <1>3, <1>4, <1>5 DEF IInv

LEMMA WriteInv ==
  ASSUME IInv, TypeOK', NEW r \in Requests, Write(r)
  PROVE  IInv'
BY WriteToggleInv, WriteSkipInv, WriteUploadInv, WriteUnreceiptInv, WriteDeleteInv DEF Write

LEMMA ReadBackInv ==
  ASSUME IInv, TypeOK', NEW r \in Requests, ReadBack(r)
  PROVE  IInv'
<1>1. CASE Reply(r)
  BY <1>1, QuietReply, ReplyStep DEF ReadBack
<1>2. CASE Op(r) \in {"upload", "unreceipt"} /\ Goto(r, "unlink")
  <2>1. Quiet(r) /\ UNCHANGED receipt
    BY <1>2, QuietGoto DEF ReadBack, Steps, db
  <2>2. \A f \in doomed[r], k \in Keys : receipt'[k] # f
    BY <1>2, <2>1 DEF IInv, Slot, Released, ReadBack
  <2> QED
    BY <1>2, <2>1, <2>2, GotoStep DEF ReadBack, Steps
<1> QED
  BY <1>1, <1>2 DEF ReadBack

(* The file that goes is in no row and is nobody's new file.               *)
LEMMA UnlinkInv ==
  ASSUME IInv, TypeOK', NEW r \in Requests, Unlink(r)
  PROVE  IInv'
<1> USE NoFileAssumption DEF TypeOK, db
<1>1. PICK f \in doomed[r] : /\ disk' = disk \ {f}
                             /\ doomed' = [doomed EXCEPT ![r] = @ \ {f}]
  BY DEF Unlink
<1>2. pc[r] = "unlink" /\ \A k \in Keys : receipt[k] # f
  BY <1>1 DEF IInv, Slot, Released, Unlink
<1>3. Rows'
  BY <1>1, <1>2 DEF IInv, Rows, ReceiptsExist, Unlink
<1>4. ASSUME NEW s \in Requests PROVE Slot(s)'
  <2>1. Private(s) => mine[s] # f
    BY <1>1, <1>4 DEF IInv, Apart
  <2> QED
    BY <1>1, <1>4, <2>1 DEF IInv, Slot, Released, Private, Op, Key, Unlink
<1>5. ASSUME NEW s \in Requests, NEW q \in Requests PROVE Apart(s, q)'
  BY <1>1, <1>5 DEF IInv, Apart, Private, Op, Unlink
<1> QED
  BY <1>3, <1>4, <1>5 DEF IInv

LEMMA FinishInv ==
  ASSUME IInv, TypeOK', NEW r \in Requests, Finish(r)
  PROVE  IInv'
BY QuietReply, ReplyStep DEF Finish

(* Every failure but that of an upload reading back what it wrote.         *)
LEMMA FailsInv ==
  ASSUME IInv, TypeOK', NEW r \in Requests, Fails(r), "unconfirmed" \notin Faults
  PROVE  IInv'
<1>1. CASE Reply(r) /\ UNCHANGED <<db, files>>
  BY <1>1, QuietReply, ReplyStep
<1>2. CASE pc[r] = "read" /\ Op(r) = "delete" /\ Goto(r, "write") /\ UNCHANGED <<db, files>>
  <2>1. Quiet(r)
    BY <1>2, QuietGoto DEF Steps
  <2> QED
    BY <1>2, <2>1, GotoStep DEF Steps
<1>3. CASE Private(r) /\ GotoUnlink(r, {mine[r]}) /\ UNCHANGED <<db, files>>
  BY <1>3, GotoUnlinkOwn
<1>4. CASE UnlinkFails(r)
  <2> USE <1>4 DEF TypeOK, UnlinkFails, db, files
  <2>1. Quiet(r)
    BY DEF IInv, Rows, Quiet
  <2>2. Slot(r)'
    BY DEF IInv, Slot, Released, Private, Op, Key
  <2>3. ASSUME NEW q \in Requests PROVE Apart(r, q)' /\ Apart(q, r)'
    BY <2>3 DEF IInv, Apart, Private, Op
  <2> QED
    BY <2>1, <2>2, <2>3, QuietStep
<1> QED
  BY <1>1, <1>2, <1>3, <1>4
  DEF Fails, StatementFails, ReadBackFails, FileFails, Private, IInv, Slot

LEMMA CrashInv ==
  ASSUME IInv, TypeOK', Crash
  PROVE  IInv'
<1> USE NoFileAssumption DEF TypeOK, Crash, db, files
<1>1. Rows'
  BY DEF IInv, Rows, ReceiptsExist
<1>2. ASSUME NEW s \in Requests PROVE Slot(s)'
  BY DEF Slot, Released, Private
<1>3. ASSUME NEW s \in Requests, NEW q \in Requests PROVE Apart(s, q)'
  BY DEF Apart, Private
<1> QED
  BY <1>1, <1>2, <1>3 DEF IInv

(* Steps that touch neither receipts nor files nor handlers.               *)
LEMMA OutsideInv ==
  ASSUME IInv, TypeOK', UNCHANGED <<receipt, files, local>>,
         \A k \in Keys : status'[k] = "pending" => status[k] = "pending"
  PROVE  IInv'
<1> USE DEF files, local
<1>1. Rows'
  BY DEF IInv, Rows, ReceiptsExist
<1>2. ASSUME NEW s \in Requests PROVE Slot(s)'
  BY DEF IInv, Slot, Released, Private, Op, Key
<1>3. ASSUME NEW s \in Requests, NEW q \in Requests PROVE Apart(s, q)'
  BY DEF IInv, Apart, Private, Op
<1> QED
  BY <1>1, <1>2, <1>3 DEF IInv

LEMMA InvStep ==
  ASSUME IInv, [Next]_vars, "unconfirmed" \notin Faults
  PROVE  IInv'
<1>1. TypeOK'
  BY TypeStep DEF IInv
<1>2. ASSUME NEW r \in Requests, Progress(r) PROVE IInv'
  BY <1>1, <1>2, CheckAccessInv, ReadInv, CreateFileInv, CopyFileInv, WriteInv, ReadBackInv,
     UnlinkInv, FinishInv DEF Progress
<1>3. ASSUME NEW r \in Requests, Begin(r) \/ Fails(r) PROVE IInv'
  BY <1>1, <1>3, BeginInv, FailsInv
<1>4. CASE Crash
  BY <1>1, <1>4, CrashInv
<1>5. ASSUME NEW u \in Users, Import(u) PROVE IInv'
  <2>1. \A k \in Keys : status'[k] = "pending" => status[k] = "pending"
    BY <1>5 DEF Import
  <2> QED
    BY <1>1, <1>5, <2>1, OutsideInv DEF Import
<1>6. ASSUME NEW t \in Tasks, NEW u \in Users, Share(t, u) PROVE IInv'
  BY <1>1, <1>6, OutsideInv DEF Share
<1>7. CASE UNCHANGED vars
  BY <1>1, <1>7, OutsideInv DEF vars, files, local
<1> QED
  BY <1>2, <1>3, <1>4, <1>5, <1>6, <1>7 DEF Next

LEMMA InvInit == Init => IInv
<1> SUFFICES ASSUME Init PROVE IInv
  OBVIOUS
<1>1. TypeOK
  BY NoCallAssumption DEF Init, TypeOK, Status, Steps, Op
<1>2. Rows
  BY DEF Init, Rows, ReceiptsExist
<1>3. \A r \in Requests : Slot(r)
  BY DEF Init, Slot, Released, Private
<1>4. \A r, s \in Requests : Apart(r, s)
  BY DEF Init, Apart, Private
<1> QED
  BY <1>1, <1>2, <1>3, <1>4 DEF IInv

(* Whatever the interleaving of the handlers, whatever crashes, failed     *)
(* statements, failed file operations and imports: as long as no read back *)
(* after a successful write fails, every receipt a row names is on disk.   *)
THEOREM ReceiptsAlwaysExist ==
  ASSUME "unconfirmed" \notin Faults
  PROVE  Spec => []ReceiptsExist
<1>1. IInv /\ [Next]_vars => IInv'
  BY InvStep
<1>2. IInv => ReceiptsExist
  BY DEF IInv, Rows
<1> QED
  BY InvInit, <1>1, <1>2, PTL DEF Spec

(* Under the same condition the files that are removed are exactly such    *)
(* that no row names.                                                      *)
THEOREM OnlyUnreferencedRemoved ==
  ASSUME "unconfirmed" \notin Faults
  PROVE  Spec => RemovedOnlyUnreferenced
<1>1. IInv /\ [Next]_vars => IInv'
  BY InvStep
<1>2. IInv /\ [Next]_vars => [\A f \in disk \ disk' : f \notin Receipts(Keys)]_vars
  <2> SUFFICES ASSUME IInv, Next PROVE \A f \in disk \ disk' : f \notin Receipts(Keys)
    OBVIOUS
  <2>1. ASSUME NEW r \in Requests, Unlink(r)
        PROVE  \A f \in disk \ disk' : f \notin Receipts(Keys)
    BY <2>1 DEF IInv, Slot, Released, Unlink, Receipts
  <2>2. ASSUME NEW r \in Requests, CreateFile(r) PROVE disk \subseteq disk'
    BY <2>2 DEF CreateFile
  <2>3. ASSUME NEW r \in Requests,
               Begin(r) \/ CheckAccess(r) \/ Read(r) \/ CopyFile(r) \/ Write(r) \/ ReadBack(r)
                 \/ Finish(r) \/ Fails(r)
        PROVE  disk' = disk
    BY <2>3 DEF Begin, CheckAccess, Read, CopyFile, Write, ReadBack, Finish, Fails,
                StatementFails, ReadBackFails, FileFails, UnlinkFails, files
  <2>4. ASSUME Crash \/ (\E u \in Users : Import(u)) \/ (\E t \in Tasks, u \in Users : Share(t, u))
        PROVE  disk' = disk
    BY <2>4 DEF Crash, Import, Share, files
  <2> QED
    BY <2>1, <2>2, <2>3, <2>4 DEF Next, Progress
<1> QED
  BY InvInit, <1>1, <1>2, PTL DEF Spec, RemovedOnlyUnreferenced

----------------------------------------------------------------------------
(* The steps that leave the rows and the tasks alone.                      *)
LEMMA IdleSteps ==
  ASSUME NEW r \in Requests,
         Begin(r) \/ CheckAccess(r) \/ Read(r) \/ CreateFile(r) \/ CopyFile(r) \/ ReadBack(r)
           \/ Unlink(r) \/ Finish(r) \/ Fails(r)
  PROVE  UNCHANGED <<tasks, status, receipt>>
BY DEF Begin, CheckAccess, Read, CreateFile, CopyFile, ReadBack, Unlink, Finish, Fails,
       StatementFails, ReadBackFails, FileFails, UnlinkFails, db

(* No insert brings a row back once its task is gone, whatever fails.      *)
LEMMA NoRowStep == TypeOK /\ NoRowWithoutTask /\ [Next]_vars => NoRowWithoutTask'
<1> SUFFICES ASSUME TypeOK, NoRowWithoutTask, [Next]_vars PROVE NoRowWithoutTask'
  OBVIOUS
<1> USE DEF NoRowWithoutTask
<1>1. ASSUME UNCHANGED <<tasks, status>> PROVE NoRowWithoutTask'
  BY <1>1
<1>2. ASSUME NEW r \in Requests, Write(r) PROVE NoRowWithoutTask'
  <2>1. /\ Key(r) \in Keys
        /\ \A K : DeleteRows(K) => \A k \in Keys : status'[k] \in {status[k], "pending"}
    BY <1>2, KeyType DEF Write, TypeOK, Key, DeleteRows
  <2>2. CASE tasks' = tasks /\ \E K : DeleteRows(K)
    BY <2>1, <2>2
  <2>3. CASE tasks' = tasks /\ \E s \in {"completed", "skipped"} : WriteAdd(r, s)
    BY <2>1, <2>3 DEF TypeOK, WriteAdd, InsertRow, CanInsert
  <2>4. CASE tasks' = tasks /\ WriteCompleteSkipped(r)
    BY <2>1, <2>4 DEF TypeOK, WriteCompleteSkipped
  <2>5. CASE WriteUpload(r) \/ WriteUnreceipt(r)
    BY <1>1, <2>5 DEF WriteUpload, WriteUnreceipt, SetReceipt
  <2>6. CASE WriteDelete(r)
    <3>1. call[r].task \in Tasks
      BY <1>2, KeyType DEF Write, TypeOK
    <3>2. \A k \in Keys : status'[k] = IF k[1] = call[r].task THEN "pending" ELSE status[k]
      BY <2>6, <3>1, KeysOfType DEF WriteDelete, DeleteRows
    <3> QED
      BY <2>6, <3>2 DEF WriteDelete
  <2> QED
    BY <1>2, <2>2, <2>3, <2>4, <2>5, <2>6 DEF Write, WriteToggle, WriteSkip
<1>3. ASSUME NEW u \in Users, Import(u) PROVE NoRowWithoutTask'
  BY <1>3 DEF Import
<1> QED
  BY <1>1, <1>2, <1>3, IdleSteps DEF Next, Progress, Crash, Share, db, vars

(* A deleted task has no completion row, ever again, although an insert    *)
(* may have been decided before the deletion.                              *)
THEOREM DeletedTaskHasNoRow == Spec => []NoRowWithoutTask
<1>1. Init => NoRowWithoutTask
  BY DEF Init, NoRowWithoutTask
<1> QED
  BY <1>1, NoRowStep, TypeCorrect, PTL DEF Spec

----------------------------------------------------------------------------
(* The handlers implement CompletionLog.                                   *)

(* A row that is not there carries nothing.                                *)
PendingHasNothing == \A k \in Keys : status[k] = "pending" => receipt[k] = NoFile

LogInv == TypeOK /\ NoRowWithoutTask /\ PendingHasNothing

LEMMA PendingStep == TypeOK /\ PendingHasNothing /\ [Next]_vars => PendingHasNothing'
<1> SUFFICES ASSUME TypeOK, PendingHasNothing, [Next]_vars PROVE PendingHasNothing'
  OBVIOUS
<1> USE DEF PendingHasNothing
<1>1. ASSUME UNCHANGED <<status, receipt>> PROVE PendingHasNothing'
  BY <1>1
<1>2. ASSUME NEW r \in Requests, Write(r) PROVE PendingHasNothing'
  <2>1. Key(r) \in Keys
    BY <1>2, KeyType DEF Write, TypeOK, Key
  <2>2. CASE \E K : DeleteRows(K)
    BY <2>2 DEF DeleteRows
  <2>3. CASE \E s \in {"completed", "skipped"} : WriteAdd(r, s)
    BY <2>1, <2>3 DEF TypeOK, WriteAdd, InsertRow, CanInsert
  <2>4. CASE WriteCompleteSkipped(r)
    BY <2>1, <2>4 DEF TypeOK, WriteCompleteSkipped
  <2>5. CASE WriteUpload(r) \/ WriteUnreceipt(r)
    BY <2>1, <2>5 DEF TypeOK, WriteUpload, WriteUnreceipt, SetReceipt
  <2> QED
    BY <1>2, <2>2, <2>3, <2>4, <2>5 DEF Write, WriteToggle, WriteSkip, WriteDelete
<1>3. ASSUME NEW u \in Users, Import(u) PROVE PendingHasNothing'
  BY <1>3 DEF Import
<1> QED
  BY <1>1, <1>2, <1>3, IdleSteps DEF Next, Progress, Crash, Share, db, vars

(* What the log sees of the rows.                                          *)
LEMMA Unseen ==
  ASSUME UNCHANGED db
  PROVE  UNCHANGED Log!log
BY DEF Log!log, db

(* What it sees of a slot that moves to the step p, or answers.            *)
LEMMA StageMove ==
  ASSUME TypeOK, NEW r \in Requests, NEW p \in Steps, pc' = [pc EXCEPT ![r] = p]
  PROVE  Stage' = [Stage EXCEPT ![r] = CASE p = "idle" -> "idle"
                                         [] p = "check" -> "asked"
                                         [] p \in {"readback", "unlink"} -> "done"
                                         [] OTHER -> "admitted"]
BY DEF Stage, TypeOK

LEMMA StageSame == ASSUME UNCHANGED pc PROVE UNCHANGED Stage
BY DEF Stage

LEMMA ReplyAnswers ==
  ASSUME TypeOK, NEW r \in Requests, pc[r] # "idle", Reply(r), UNCHANGED db
  PROVE  Log!Answer(r)
<1>1. Stage' = [Stage EXCEPT ![r] = "idle"] /\ call' = [call EXCEPT ![r] = NoCall]
  BY StageMove DEF Reply, Steps
<1>2. Stage[r] # "idle"
  BY DEF Stage
<1> QED
  BY <1>1, <1>2, Unseen DEF Log!Answer

(* A handler that goes on after its check and writes nothing: the log sees *)
(* nothing, or sees that no effect will come.                              *)
LEMMA GoesOn ==
  ASSUME TypeOK, NEW r \in Requests, NEW p \in {"create", "copy", "write", "unlink"},
         pc[r] \in {"read", "create", "copy", "write"},
         pc' = [pc EXCEPT ![r] = p], call' = call, UNCHANGED db
  PROVE  Log!Take(r) \/ UNCHANGED Log!vars
<1>1. Stage[r] = "admitted"
  BY DEF Stage
<1>2. CASE p = "unlink"
  <2>1. Stage' = [Stage EXCEPT ![r] = "done"]
    BY <1>2, StageMove DEF Steps
  <2> QED
    BY <1>1, <2>1, Unseen DEF Log!Take, Log!Over
<1>3. CASE p # "unlink"
  <2>1. Stage' = [Stage EXCEPT ![r] = "admitted"]
    BY <1>3, StageMove DEF Steps
  <2>2. Stage' = Stage
    BY <1>1, <2>1 DEF Stage
  <2> QED
    BY <2>2, Unseen DEF Log!vars, Log!log
<1> QED
  BY <1>2, <1>3

(* The rest of a handler, after its write.                                 *)
LEMMA GoesToEnd ==
  ASSUME TypeOK, NEW r \in Requests, NEW p \in {"readback", "unlink"},
         pc[r] \in {"readback", "unlink"},
         pc' = [pc EXCEPT ![r] = p], call' = call, UNCHANGED db
  PROVE  UNCHANGED Log!vars
<1>1. Stage' = [Stage EXCEPT ![r] = "done"] /\ Stage[r] = "done"
  BY StageMove DEF Steps, Stage
<1>2. Stage' = Stage
  BY <1>1 DEF Stage
<1> QED
  BY <1>2, Unseen DEF Log!vars, Log!log

----------------------------------------------------------------------------
(* The effect of each kind of write.                                       *)

(* A DELETE of a row that is not there changes nothing.                    *)
LEMMA DeleteRefines ==
  ASSUME LogInv, NEW k \in Keys, UNCHANGED <<tasks, shares>>, DeleteRows({k})
  PROVE  Log!Clear(k) \/ UNCHANGED Log!log
<1> USE DEF LogInv
<1>1. CASE status[k] = "pending"
  BY <1>1, Unseen DEF DeleteRows, TypeOK, PendingHasNothing, db
<1>2. CASE status[k] # "pending"
  <2>1. Log!Live(k)
    BY <1>2 DEF NoRowWithoutTask, Log!Live
  <2>2. status' = [status EXCEPT ![k] = "pending"]
    BY DEF DeleteRows, TypeOK
  <2>3. [q \in Keys |-> receipt'[q] # NoFile]
          = [[q \in Keys |-> receipt[q] # NoFile] EXCEPT ![k] = FALSE]
    BY DEF DeleteRows
  <2> QED
    BY <1>2, <2>1, <2>2, <2>3 DEF Log!Clear
<1> QED
  BY <1>1, <1>2

(* An INSERT meets a task that exists and no row.                          *)
LEMMA InsertRefines ==
  ASSUME LogInv, NEW k \in Keys, NEW s \in {"completed", "skipped"},
         UNCHANGED <<tasks, shares>>, InsertRow(k, s)
  PROVE  IF s = "completed" THEN Log!Complete(k) ELSE Log!Skip(k)
<1>1. /\ Log!Live(k) /\ status[k] = "pending"
      /\ status' = [status EXCEPT ![k] = s] /\ receipt' = receipt
  BY DEF InsertRow, CanInsert, Log!Live, LogInv, TypeOK, PendingHasNothing
<1> QED
  BY <1>1 DEF Log!Complete, Log!Skip

LEMMA CompleteSkippedRefines ==
  ASSUME LogInv, NEW r \in Requests, Key(r) \in Keys,
         UNCHANGED <<tasks, shares>>, WriteCompleteSkipped(r)
  PROVE  Log!Complete(Key(r)) \/ UNCHANGED Log!log
<1> USE DEF LogInv
<1>1. CASE status[Key(r)] = "skipped"
  <2>1. Log!Live(Key(r))
    BY <1>1 DEF NoRowWithoutTask, Log!Live
  <2> QED
    BY <1>1, <2>1 DEF WriteCompleteSkipped, Log!Complete
<1>2. CASE status[Key(r)] # "skipped"
  <2>1. status' = status
    BY <1>2 DEF WriteCompleteSkipped, TypeOK, Status
  <2> QED
    BY <2>1, Unseen DEF WriteCompleteSkipped, db
<1> QED
  BY <1>1, <1>2

(* An UPDATE of no row changes nothing.                                    *)
LEMMA ReceiptRefines ==
  ASSUME LogInv, NEW k \in Keys, NEW f \in Files \cup {NoFile},
         UNCHANGED <<tasks, shares>>, SetReceipt(k, f)
  PROVE  (IF f = NoFile THEN Log!Detach(k) ELSE Log!Attach(k)) \/ UNCHANGED Log!log
<1> USE DEF LogInv
<1>1. CASE status[k] = "pending"
  BY <1>1, Unseen DEF SetReceipt, db
<1>2. CASE status[k] # "pending"
  <2>1. Log!Live(k)
    BY <1>2 DEF NoRowWithoutTask, Log!Live
  <2>2. [q \in Keys |-> receipt'[q] # NoFile]
          = [[q \in Keys |-> receipt[q] # NoFile] EXCEPT ![k] = (f # NoFile)]
    BY <1>2 DEF SetReceipt, TypeOK
  <2>3. CASE f = NoFile
    BY <1>2, <2>1, <2>2, <2>3 DEF Log!Detach, SetReceipt
  <2>4. CASE f # NoFile
    BY <1>2, <2>1, <2>2, <2>4 DEF Log!Attach, SetReceipt
  <2> QED
    BY <2>3, <2>4
<1> QED
  BY <1>1, <1>2

(* Whatever a handler has read, its write has an effect its request may    *)
(* have, or none.                                                          *)
LEMMA WriteEffect ==
  ASSUME LogInv, NEW r \in Requests, Write(r)
  PROVE  Log!Effect(call[r]) \/ UNCHANGED Log!log
<1>1. Key(r) \in Keys /\ call[r].task \in Tasks
  BY KeyType DEF LogInv, TypeOK, Write, Key
<1>2. PICK k \in Keys : k = Key(r)
  BY <1>1
<1>3. k = <<call[r].task, call[r].month>>
  BY <1>2 DEF Key
<1>4. ASSUME NEW s \in {"completed", "skipped"}, WriteAdd(r, s), UNCHANGED <<tasks, shares>>
      PROVE  \/ s = "completed" /\ Log!Complete(k)
             \/ s = "skipped" /\ Log!Skip(k)
             \/ UNCHANGED Log!log
  BY <1>2, <1>4, InsertRefines, Unseen DEF WriteAdd, db
<1>5. CASE WriteToggle(r) /\ UNCHANGED shares
  <2>1. Log!Clear(k) \/ Log!Complete(k) \/ UNCHANGED Log!log
    BY <1>2, <1>4, <1>5, DeleteRefines, CompleteSkippedRefines DEF WriteToggle
  <2> QED
    BY <1>3, <1>5, <2>1 DEF WriteToggle, Op, Log!Effect, Log!Clear, Log!Complete, Log!Live
<1>6. CASE WriteSkip(r) /\ UNCHANGED shares
  <2>1. Log!Clear(k) \/ Log!Skip(k) \/ UNCHANGED Log!log
    BY <1>2, <1>4, <1>6, DeleteRefines DEF WriteSkip
  <2> QED
    BY <1>3, <1>6, <2>1 DEF WriteSkip, Op, Log!Effect, Log!Clear, Log!Skip, Log!Live
<1>7. CASE WriteUpload(r) /\ UNCHANGED shares
  <2>1. PICK f \in Files : f = mine[r] /\ f # NoFile
    BY <1>7, NoFileAssumption DEF LogInv, TypeOK, Write, WriteUpload
  <2>2. Log!Attach(k) \/ UNCHANGED Log!log
    BY <1>2, <1>7, <2>1, ReceiptRefines DEF WriteUpload
  <2> QED
    BY <1>3, <1>7, <2>2 DEF WriteUpload, Op, Log!Effect, Log!Attach, Log!Live
<1>8. CASE WriteUnreceipt(r) /\ UNCHANGED shares
  <2>1. Log!Detach(k) \/ UNCHANGED Log!log
    BY <1>2, <1>8, ReceiptRefines DEF WriteUnreceipt
  <2> QED
    BY <1>3, <1>8, <2>1 DEF WriteUnreceipt, Op, Log!Effect, Log!Detach, Log!Live
<1>9. CASE WriteDelete(r)
  <2>0. PICK t \in Tasks : t = call[r].task
    BY <1>1
  <2>1. /\ status' = [q \in Keys |-> IF q[1] = t THEN "pending" ELSE status[q]]
        /\ \A q \in Keys : receipt'[q] = IF q[1] = t THEN NoFile ELSE receipt[q]
    BY <1>9, <2>0, KeysOfType DEF WriteDelete, DeleteRows
  <2>2. Log!Delete(t)
    BY <1>9, <2>0, <2>1 DEF Log!Delete, WriteDelete, Keys, Log!Keys
  <2> QED
    BY <1>9, <2>0, <2>2 DEF WriteDelete, Op, Log!Effect, Log!Delete
<1> QED
  BY <1>5, <1>6, <1>7, <1>8, <1>9 DEF Write

(* The write of a handler is the moment its request takes effect.          *)
LEMMA WriteRefines ==
  ASSUME LogInv, NEW r \in Requests, Write(r)
  PROVE  Log!Take(r)
<1>1. Stage[r] = "admitted"
  BY DEF Write, Stage
<1>2. \/ \E p \in {"readback", "unlink"} : Goto(r, p)
      \/ Reply(r)
  BY DEF Write, WriteToggle, WriteSkip, WriteUpload, WriteUnreceipt, WriteDelete, WriteAdd,
         WriteCompleteSkipped
<1>3. Log!Over(r)
  <2>1. ASSUME NEW p \in {"readback", "unlink"}, Goto(r, p) PROVE Log!Over(r)
    <3>1. Stage' = [Stage EXCEPT ![r] = "done"]
      BY <2>1, StageMove DEF LogInv, Goto, Steps
    <3> QED
      BY <2>1, <3>1 DEF Goto, Log!Over
  <2>2. CASE Reply(r)
    <3>1. Stage' = [Stage EXCEPT ![r] = "idle"]
      BY <2>2, StageMove DEF LogInv, Reply, Steps
    <3> QED
      BY <2>2, <3>1 DEF Reply, Log!Over
  <2> QED
    BY <1>2, <2>1, <2>2
<1> QED
  BY <1>1, <1>3, WriteEffect DEF Log!Take

----------------------------------------------------------------------------
(* The other steps.                                                        *)

LEMMA BeginRefines ==
  ASSUME LogInv, NEW r \in Requests, Begin(r)
  PROVE  Log!Ask(r)
<1>1. Stage[r] = "idle"
  BY DEF Begin, Stage
<1>2. Stage' = [Stage EXCEPT ![r] = "asked"]
  BY StageMove DEF LogInv, Begin, Steps
<1> QED
  BY <1>1, <1>2, Unseen DEF Begin, Log!Ask

LEMMA CheckAccessRefines ==
  ASSUME LogInv, NEW r \in Requests, CheckAccess(r)
  PROVE  Log!Admit(r) \/ Log!Answer(r)
<1>1. CASE MayUse(r) /\ Goto(r, "read")
  <2>1. Stage[r] = "asked" /\ Stage' = [Stage EXCEPT ![r] = "admitted"]
    BY <1>1, StageMove DEF LogInv, CheckAccess, Goto, Steps, Stage
  <2>2. Log!Allowed(call[r])
    BY <1>1 DEF MayUse, Op, Log!Allowed
  <2> QED
    BY <1>1, <2>1, <2>2, Unseen DEF CheckAccess, Goto, Log!Admit
<1>2. CASE Reply(r)
  BY <1>2, ReplyAnswers DEF LogInv, CheckAccess
<1> QED
  BY <1>1, <1>2 DEF CheckAccess

LEMMA QuietRefines ==
  ASSUME LogInv, NEW r \in Requests,
         Read(r) \/ CreateFile(r) \/ CopyFile(r) \/ ReadBack(r) \/ Unlink(r) \/ Finish(r) \/ Fails(r)
  PROVE  Log!Take(r) \/ Log!Answer(r) \/ UNCHANGED Log!vars
<1> USE DEF LogInv
<1>1. CASE Read(r)
  <2>1. Reply(r) \/ \E p \in {"create", "write"} : \E F : Remember(r, p, F)
    BY <1>1 DEF Read, ReadToggle, ReadSkip, ReadUpload, ReadUnreceipt, ReadDelete
  <2>2. CASE Reply(r)
    BY <1>1, <2>2, ReplyAnswers DEF Read
  <2>3. ASSUME NEW p \in {"create", "write"}, NEW F, Remember(r, p, F)
        PROVE  Log!Take(r) \/ UNCHANGED Log!vars
    BY <1>1, <2>3, GoesOn DEF Read, Remember
  <2> QED
    BY <2>1, <2>2, <2>3
<1>2. CASE CreateFile(r) \/ CopyFile(r)
  BY <1>2, GoesOn DEF CreateFile, CopyFile, Goto
<1>3. CASE ReadBack(r) \/ Finish(r)
  BY <1>3, ReplyAnswers, GoesToEnd DEF ReadBack, Finish, Goto
<1>4. CASE Unlink(r) \/ UnlinkFails(r)
  <2>1. UNCHANGED <<pc, call>> /\ UNCHANGED db
    BY <1>4 DEF Unlink, UnlinkFails
  <2> QED
    BY <2>1, StageSame, Unseen DEF Log!vars, Log!log
<1>5. CASE StatementFails(r)
  <2>1. UNCHANGED db
    BY <1>5 DEF StatementFails
  <2>2. CASE pc[r] # "idle" /\ Reply(r)
    BY <2>1, <2>2, ReplyAnswers
  <2>3. CASE pc[r] = "read" /\ Goto(r, "write")
    BY <2>1, <2>3, GoesOn DEF Goto
  <2>4. CASE pc[r] = "write" /\ GotoUnlink(r, {mine[r]})
    BY <2>1, <2>4, GoesOn DEF GotoUnlink
  <2> QED
    BY <1>5, <2>2, <2>3, <2>4 DEF StatementFails
<1>6. CASE ReadBackFails(r)
  BY <1>6, ReplyAnswers, GoesToEnd DEF ReadBackFails, GotoUnlink
<1>7. CASE FileFails(r)
  <2>1. UNCHANGED db
    BY <1>7 DEF FileFails
  <2>2. CASE pc[r] = "create" /\ Reply(r)
    BY <2>1, <2>2, ReplyAnswers
  <2>3. CASE pc[r] = "copy" /\ GotoUnlink(r, {mine[r]})
    BY <2>1, <2>3, GoesOn DEF GotoUnlink
  <2> QED
    BY <1>7, <2>2, <2>3 DEF FileFails
<1> QED
  BY <1>1, <1>2, <1>3, <1>4, <1>5, <1>6, <1>7 DEF Fails

LEMMA CrashRefines ==
  ASSUME Crash
  PROVE  Log!Restart
<1>1. Stage' = [r \in Requests |-> "idle"]
  BY DEF Crash, Stage
<1> QED
  BY <1>1, Unseen DEF Crash, Log!Restart

LEMMA ImportRefines ==
  ASSUME LogInv, NEW u \in Users, Import(u)
  PROVE  Log!Import(u)
<1>1. /\ DOMAIN status' = Log!Keys
      /\ \A k \in Log!Keys : status'[k] # status[k] =>
            Log!Live(k) /\ Owner[k[1]] = u /\ status'[k] \in {"completed", "skipped"}
  BY DEF Import, Keys, Log!Keys, Log!Live
<1>2. UNCHANGED <<tasks, shares, receipt, call>> /\ Stage' = Stage
  BY StageSame DEF Import, local
<1> QED
  BY <1>1, <1>2 DEF Log!Import

LEMMA ShareRefines ==
  ASSUME NEW t \in Tasks, NEW u \in Users, Share(t, u)
  PROVE  Log!Share(t, u)
<1>1. UNCHANGED <<tasks, status, receipt, call>> /\ Stage' = Stage
  BY StageSame DEF Share, local
<1> QED
  BY <1>1 DEF Share, Log!Share

(* Any number of users who toggle, skip, upload, remove receipts, delete,  *)
(* import and share at the same time, with every failure there is, see a   *)
(* log whose requests take effect at one moment: the handlers implement    *)
(* CompletionLog.                                                          *)
THEOREM HandlersImplementLog == Spec => LogSpec
<1>1. Init => LogInv
  <2> SUFFICES ASSUME Init PROVE LogInv
    OBVIOUS
  <2>1. TypeOK
    BY InvInit DEF IInv
  <2> QED
    BY <2>1 DEF Init, LogInv, NoRowWithoutTask, PendingHasNothing
<1>2. LogInv /\ [Next]_vars => LogInv'
  BY TypeStep, NoRowStep, PendingStep DEF LogInv
<1>3. Init => Log!Init
  BY DEF Init, Log!Init, Keys, Log!Keys, Stage
<1>4. LogInv /\ [Next]_vars => [Log!Next]_(Log!vars)
  <2> SUFFICES ASSUME LogInv, [Next]_vars PROVE Log!Next \/ UNCHANGED Log!vars
    OBVIOUS
  <2>1. ASSUME NEW r \in Requests, Begin(r) \/ Progress(r) \/ Fails(r)
        PROVE  Log!Next \/ UNCHANGED Log!vars
    BY <2>1, BeginRefines, CheckAccessRefines, WriteRefines, QuietRefines DEF Progress, Log!Next
  <2>2. CASE Crash
    BY <2>2, CrashRefines DEF Log!Next
  <2>3. CASE \E u \in Users : Import(u)
    BY <2>3, ImportRefines DEF Log!Next
  <2>4. CASE \E t \in Tasks, u \in Users : Share(t, u)
    BY <2>4, ShareRefines DEF Log!Next
  <2>5. CASE UNCHANGED vars
    BY <2>5, StageSame DEF vars, Log!vars
  <2> QED
    BY <2>1, <2>2, <2>3, <2>4, <2>5 DEF Next
<1> QED
  BY <1>1, <1>2, <1>3, <1>4, PTL DEF Spec, LogSpec, Log!Spec
=============================================================================
