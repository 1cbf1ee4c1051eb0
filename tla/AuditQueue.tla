----------------------------- MODULE AuditQueue -----------------------------
(***************************************************************************)
(* The audit log and the bounded queue before it (backend/audit.go).       *)
(*                                                                         *)
(* A handler changes the database first and then offers an entry           *)
(* to the queue without ever waiting for room.  One worker goroutine takes *)
(* the entries and inserts them one at a time.  Entries are numbered in    *)
(* the order in which the handlers changed the database.                   *)
(***************************************************************************)
EXTENDS Naturals, Sequences

CONSTANTS Handlers,   \* handler goroutines
          Capacity,   \* auditQueueCapacity
          MaxEntries  \* bound: how many changes are made in this instance

ASSUME BoundsAssumption == Capacity \in Nat /\ MaxEntries \in Nat

VARIABLES
  changes,  \* how many changes have been made
  offer,    \* per handler: the entry it has still to offer, 0 for none
  entries,  \* the channel
  current,  \* the entry the worker is inserting, 0 for none
  log,      \* the rows of audit_logs in order of their ids
  accepted, \* history: the entries in the order the channel took them
  lost      \* history: the entries that will never be logged

vars == <<changes, offer, entries, current, log, accepted, lost>>

Items(s) == {s[i] : i \in 1..Len(s)}

Init == /\ changes = 0
        /\ offer = [h \in Handlers |-> 0]
        /\ entries = <<>>
        /\ current = 0
        /\ log = <<>>
        /\ accepted = <<>>
        /\ lost = {}

(* A handler has changed the database and goes on to Enqueue. *)
Change(h) ==
  /\ offer[h] = 0
  /\ changes < MaxEntries
  /\ changes' = changes + 1
  /\ offer' = [offer EXCEPT ![h] = changes + 1]
  /\ UNCHANGED <<entries, current, log, accepted, lost>>

BugEnqueueDropsOldest(h) ==
  /\ offer[h] # 0
  /\ offer' = [offer EXCEPT ![h] = 0]
  /\ entries' = IF Len(entries) < Capacity THEN Append(entries, offer[h])
                ELSE Append(Tail(entries), offer[h])
  /\ accepted' = Append(accepted, offer[h])
  /\ UNCHANGED <<changes, current, log, lost>>

BugEnqueueUnbounded(h) ==
  /\ offer[h] # 0
  /\ offer' = [offer EXCEPT ![h] = 0]
  /\ entries' = Append(entries, offer[h])
  /\ accepted' = Append(accepted, offer[h])
  /\ UNCHANGED <<changes, current, log, lost>>

(* The send that never blocks: room in the channel, or the entry is gone.  *)
(* (A worker that waits at an empty channel takes the entry directly, which*)
(* is this step followed by Take.)                                         *)
Enqueue(h) ==
  /\ offer[h] # 0
  /\ offer' = [offer EXCEPT ![h] = 0]
  /\ \/ /\ Len(entries) < Capacity
        /\ entries' = Append(entries, offer[h])
        /\ accepted' = Append(accepted, offer[h])
        /\ UNCHANGED lost
     \/ /\ Len(entries) >= Capacity
        /\ lost' = lost \cup {offer[h]}
        /\ UNCHANGED <<entries, accepted>>
  /\ UNCHANGED <<changes, current, log>>

BugTakeLast ==
  /\ current = 0 /\ entries # <<>>
  /\ current' = entries[Len(entries)]
  /\ entries' = SubSeq(entries, 1, Len(entries) - 1)
  /\ UNCHANGED <<changes, offer, log, accepted, lost>>

BugTakeLeavesOne ==
  /\ current = 0 /\ Len(entries) > 1
  /\ current' = Head(entries)
  /\ entries' = Tail(entries)
  /\ UNCHANGED <<changes, offer, log, accepted, lost>>

Take ==
  /\ current = 0 /\ entries # <<>>
  /\ current' = Head(entries)
  /\ entries' = Tail(entries)
  /\ UNCHANGED <<changes, offer, log, accepted, lost>>

Insert ==
  /\ current # 0
  /\ log' = Append(log, current)
  /\ current' = 0
  /\ UNCHANGED <<changes, offer, entries, accepted, lost>>

(* InsertAuditLog only logs the error; the worker goes on.                 *)
InsertFails ==
  /\ current # 0
  /\ current' = 0
  /\ lost' = lost \cup {current}
  /\ UNCHANGED <<changes, offer, entries, log, accepted>>

(* The process is killed: the channel and the handlers are gone.           *)
Crash ==
  /\ lost' = lost \cup Items(entries) \cup
               (({current} \cup {offer[h] : h \in Handlers}) \ {0})
  /\ entries' = <<>>
  /\ current' = 0
  /\ offer' = [h \in Handlers |-> 0]
  /\ UNCHANGED <<changes, log, accepted>>

Worker == Take \/ Insert

Next == \/ \E h \in Handlers : Change(h) \/ Enqueue(h)
        \/ Worker \/ InsertFails \/ Crash

Spec == Init /\ [][Next]_vars

(* The goroutines are scheduled; nothing is assumed of the handlers' rate. *)
FairSpec == Spec /\ WF_vars(Worker) /\ \A h \in Handlers : WF_vars(Enqueue(h))

----------------------------------------------------------------------------

TypeOK ==
  /\ changes \in 0..MaxEntries
  /\ offer \in [Handlers -> 0..MaxEntries]
  /\ entries \in Seq(1..MaxEntries) /\ Len(entries) <= Capacity
  /\ current \in 0..MaxEntries
  /\ log \in Seq(1..MaxEntries)
  /\ accepted \in Seq(1..MaxEntries)
  /\ lost \subseteq 1..MaxEntries

(* What has been logged, is being logged and waits, in this order. *)
Path == log \o (IF current = 0 THEN <<>> ELSE <<current>>) \o entries

(* Entries come out of the queue as they went in: of two that were         *)
(* accepted, the one accepted first is logged first, and none twice.       *)
InOrder ==
  \E f \in [1..Len(Path) -> 1..Len(accepted)] :
    /\ \A i, j \in 1..Len(Path) : i < j => f[i] < f[j]
    /\ \A i \in 1..Len(Path) : Path[i] = accepted[f[i]]

(* Every change that was made is logged, on its way, or known to be lost;  *)
(* never two of these.                                                     *)
Accounted ==
  LET waiting == {offer[h] : h \in Handlers} \ {0}
  IN /\ waiting \cup Items(Path) \cup lost = 1..changes
     /\ Items(Path) \cap lost = {}
     /\ waiting \cap (Items(Path) \cup lost) = {}

(* Whatever a handler offers is logged or lost in the end.                 *)
Settled ==
  \A n \in 1..MaxEntries : n <= changes ~> n \in Items(log) \cup lost
=============================================================================
