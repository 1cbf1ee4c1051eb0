---------------------------- MODULE AmountsProofs ----------------------------
(***************************************************************************)
(* Proofs about Amounts, for every set of months, amounts and requests,    *)
(* and about the readers beside it: Report, and the tools of Tools, for    *)
(* every set of agents.                                                    *)
(***************************************************************************)
EXTENDS Tools, TLAPS

(* The months change as one of these says. *)
Changes == \/ UNCHANGED rows
           \/ \E m \in Months : Delete(m)
           \/ \E m \in Months, s \in {"completed", "skipped"} : Insert(m, s)
           \/ \E m \in Months : CompleteSkipped(m)
           \/ \E m \in Months, a \in Valid \cup {Empty} :
                /\ status[m] # "pending"
                /\ amount' = [amount EXCEPT ![m] = a]
                /\ UNCHANGED status

LEMMA CallMonth == ASSUME NEW c \in Call PROVE c.month \in Months /\ c.op \in {"toggle", "skip", "patch"}
BY DEF Call

(* What the steps of a request do to the months. *)
LEMMA RequestChanges ==
  ASSUME TypeOK, NEW r \in Requests,
         Begin(r) \/ Read(r) \/ Toggle(r) \/ Skip(r) \/ PatchAmount(r) \/ PatchNote(r) \/ Fail(r)
  PROVE  Changes /\ UNCHANGED default
<1>1. CASE Begin(r) \/ Read(r) \/ PatchNote(r) \/ Fail(r)
  BY <1>1 DEF Begin, Read, PatchNote, Fail, Changes
<1>2. pc[r] # "idle" => Month(r) \in Months
  BY CallMonth DEF TypeOK, Month
<1>3. CASE Toggle(r) \/ Skip(r)
  BY <1>2, <1>3 DEF Toggle, Skip, Changes
<1>4. CASE PatchAmount(r)
  <2>1. CASE UNCHANGED amount
    BY <1>4, <2>1 DEF PatchAmount, Changes, rows
  <2>2. CASE call[r].amount \in Valid \cup {Empty} /\ status[Month(r)] # "pending"
             /\ amount' = [amount EXCEPT ![Month(r)] = call[r].amount]
    BY <1>2, <1>4, <2>2 DEF PatchAmount, Changes
  <2> QED
    BY <1>4, <2>1, <2>2 DEF PatchAmount
<1> QED
  BY <1>1, <1>3, <1>4

(* What the locals of a request may become. *)
LEMMA RequestLocals ==
  ASSUME TypeOK, NEW r \in Requests,
         Begin(r) \/ Read(r) \/ Toggle(r) \/ Skip(r) \/ PatchAmount(r) \/ PatchNote(r) \/ Fail(r)
  PROVE  /\ call' \in [Requests -> Call \cup {NoCall}]
         /\ pc' \in [Requests -> Steps]
         /\ seen' \in [Requests -> Status]
         /\ \A s \in Requests : pc'[s] # "idle" => call'[s] \in Call
<1> USE DEF TypeOK, Steps, Status
<1>1. ASSUME Reply(r)
      PROVE  /\ call' \in [Requests -> Call \cup {NoCall}] /\ pc' \in [Requests -> Steps]
             /\ seen' \in [Requests -> Status]
             /\ \A s \in Requests : pc'[s] # "idle" => call'[s] \in Call
  BY <1>1 DEF Reply
<1>2. CASE Begin(r)
  BY <1>2 DEF Begin
<1>3. CASE Read(r)
  <2>1. CASE ~Refused(r)
    <3>1. status[Month(r)] \in Status
      BY <1>3, CallMonth DEF Read, Month
    <3> QED
      BY <1>3, <2>1, <3>1 DEF Read
  <2> QED
    BY <1>1, <1>3, <2>1 DEF Read
<1>4. CASE Toggle(r) \/ Skip(r) \/ PatchNote(r) \/ Fail(r)
  BY <1>1, <1>4 DEF Toggle, Skip, PatchNote, Fail
<1>5. CASE PatchAmount(r)
  BY <1>1, <1>5 DEF PatchAmount, Goto
<1> QED
  BY <1>2, <1>3, <1>4, <1>5

LEMMA ChangesType ==
  ASSUME TypeOK, Changes
  PROVE  status' \in [Months -> Status] /\ amount' \in [Months -> Amts]
<1> USE DEF TypeOK, Status, Amts
<1>1. CASE UNCHANGED rows
  BY <1>1 DEF rows
<1>2. ASSUME NEW m \in Months, Delete(m) \/ CompleteSkipped(m)
      PROVE  status' \in [Months -> Status] /\ amount' \in [Months -> Amts]
  BY <1>2 DEF Delete, CompleteSkipped
<1>3. ASSUME NEW m \in Months, NEW s \in {"completed", "skipped"}, Insert(m, s)
      PROVE  status' \in [Months -> Status] /\ amount' \in [Months -> Amts]
  BY <1>3 DEF Insert
<1>4. ASSUME NEW m \in Months, NEW a \in Valid \cup {Empty},
             amount' = [amount EXCEPT ![m] = a], UNCHANGED status
      PROVE  status' \in [Months -> Status] /\ amount' \in [Months -> Amts]
  BY <1>4
<1> QED
  BY <1>1, <1>2, <1>3, <1>4 DEF Changes

LEMMA BackfillType ==
  ASSUME TypeOK, NEW old \in Valid \cup {Empty}
  PROVE  /\ Backfill(old) \in [Months -> Amts]
         /\ \A m \in Months : Backfill(old)[m] =
              IF status[m] # "pending" /\ amount[m] = Empty THEN old ELSE amount[m]
BY DEF TypeOK, Backfill, Amts

LEMMA TypeStep == TypeOK /\ [Next]_vars => TypeOK'
<1> SUFFICES ASSUME TypeOK, [Next]_vars PROVE TypeOK'
  OBVIOUS
<1>1. ASSUME NEW r \in Requests,
             Begin(r) \/ Read(r) \/ Toggle(r) \/ Skip(r) \/ PatchAmount(r) \/ PatchNote(r) \/ Fail(r)
      PROVE  TypeOK'
  <2>1. Changes /\ UNCHANGED default
    BY <1>1, RequestChanges
  <2>2. status' \in [Months -> Status] /\ amount' \in [Months -> Amts]
    BY <2>1, ChangesType
  <2>3. /\ call' \in [Requests -> Call \cup {NoCall}] /\ pc' \in [Requests -> Steps]
        /\ seen' \in [Requests -> Status]
        /\ \A s \in Requests : pc'[s] # "idle" => call'[s] \in Call
    BY <1>1, RequestLocals
  <2> QED
    BY <2>1, <2>2, <2>3 DEF TypeOK
<1>2. ASSUME NEW new \in Valid \cup {Empty}, UpdateTask(new) PROVE TypeOK'
  BY <1>2, BackfillType DEF UpdateTask, TypeOK, local
<1>3. ASSUME NEW K \in SUBSET Months, Import(K) PROVE TypeOK'
  <2>1. PICK s \in [K -> {"completed", "skipped"}], a \in [K -> Amts] :
          /\ status' = [m \in Months |-> IF m \in K THEN s[m] ELSE status[m]]
          /\ amount' = [m \in Months |-> IF m \in K THEN a[m] ELSE amount[m]]
    BY <1>3 DEF Import
  <2>2. status' \in [Months -> Status] /\ amount' \in [Months -> Amts]
    BY <2>1 DEF TypeOK, Status
  <2> QED
    BY <1>3, <2>2 DEF Import, TypeOK, local
<1>4. CASE UNCHANGED vars
  BY <1>4 DEF vars, TypeOK
<1> QED
  BY <1>1, <1>2, <1>3, <1>4 DEF Next

LEMMA TypeInit == Init => TypeOK
BY DistinctAssumption DEF Init, TypeOK, Status, Steps, Amts

(* The task, its months and the locals of the handlers keep their types.   *)
THEOREM TypeCorrect == Spec => []TypeOK
BY TypeInit, TypeStep, PTL DEF Spec

(* Whatever requests and imports are in flight, a change of the task's     *)
(* amount leaves the cost of every completed month as it was.              *)
THEOREM HistoryIsKept == Spec => HistoryKept
<1> DEFINE Kept == default' # default /\ default # Empty
                     => \A m \in Months : status[m] = "completed" => Effective(m)' = Effective(m)
<1>1. TypeOK /\ [Next]_vars => Kept
  <2> SUFFICES ASSUME TypeOK, [Next]_vars, default' # default, default # Empty,
                      NEW m \in Months, status[m] = "completed"
               PROVE  Effective(m)' = Effective(m)
    OBVIOUS
  <2>1. PICK new \in Valid \cup {Empty} : UpdateTask(new)
    BY RequestChanges DEF Next, Import, vars
  <2>2. default \in Valid \cup {Empty} /\ amount' = Backfill(default)
    BY <2>1 DEF UpdateTask, TypeOK
  <2>3. amount'[m] = IF amount[m] = Empty THEN default ELSE amount[m]
    BY <2>2, BackfillType
  <2> QED
    BY <2>3 DEF Effective
<1>2. TypeOK /\ [Next]_vars => [Kept]_vars
  BY <1>1
<1> QED
  BY TypeInit, TypeStep, <1>2, PTL DEF Spec, HistoryKept

(* An amount logged for a month is lost or replaced only by a patch of     *)
(* that month, by an import, or with the row.                              *)
THEOREM LoggedAmountIsKept == Spec => LoggedAmountKept
<1> DEFINE Allowed(m) == \/ status'[m] = "pending"
                         \/ \E r \in Requests : /\ pc[r] = "write" /\ pc'[r] = "note"
                                               /\ call[r].op = "patch" /\ Month(r) = m
                         \/ UNCHANGED <<default, local>>
           Kept == \A m \in Months : amount[m] # Empty /\ amount'[m] # amount[m] => Allowed(m)
<1>1. TypeOK /\ [Next]_vars => Kept
  <2> SUFFICES ASSUME TypeOK, [Next]_vars, NEW m \in Months, amount[m] # Empty, amount'[m] # amount[m]
               PROVE  Allowed(m)
    OBVIOUS
  <2>2. ASSUME NEW r \in Requests, Begin(r) \/ Read(r) \/ PatchNote(r) \/ Fail(r) PROVE FALSE
    BY <2>2 DEF Begin, Read, PatchNote, Fail, rows
  <2>3. ASSUME NEW r \in Requests, Toggle(r) \/ Skip(r) PROVE status'[m] = "pending"
    <3>1. PICK k : Delete(k)
      BY <2>3 DEF Toggle, Skip, Insert, CompleteSkipped
    <3> QED
      BY <3>1 DEF Delete, TypeOK
  <2>4. ASSUME NEW r \in Requests, PatchAmount(r) PROVE Allowed(m)
    <3>1. /\ pc[r] = "write" /\ call[r].op = "patch" /\ Goto(r, "note")
          /\ amount' = [amount EXCEPT ![Month(r)] = call[r].amount]
      BY <2>4 DEF PatchAmount
    <3>2. Month(r) = m /\ pc'[r] = "note"
      BY <3>1 DEF TypeOK, Goto
    <3> QED
      BY <3>1, <3>2
  <2>5. ASSUME NEW new \in Valid \cup {Empty}, UpdateTask(new) PROVE FALSE
    BY <2>5, BackfillType DEF UpdateTask, TypeOK
  <2>6. ASSUME NEW K \in SUBSET Months, Import(K) PROVE UNCHANGED <<default, local>>
    BY <2>6 DEF Import
  <2>7. CASE UNCHANGED vars
    BY <2>7 DEF vars
  <2> QED
    BY <2>2, <2>3, <2>4, <2>5, <2>6, <2>7 DEF Next
<1>2. TypeOK /\ [Next]_vars
        => [\A m \in Months :
              amount[m] # Empty /\ amount'[m] # amount[m]
                => \/ status'[m] = "pending"
                   \/ \E r \in Requests : /\ pc[r] = "write" /\ pc'[r] = "note"
                                         /\ call[r].op = "patch" /\ Month(r) = m
                   \/ UNCHANGED <<default, local>>]_vars
  BY <1>1
<1> QED
  BY TypeInit, TypeStep, <1>2, PTL DEF Spec, LoggedAmountKept

----------------------------------------------------------------------------
(* Report.                                                                 *)

(* A month that had an amount of its own when the tasks were read has one  *)
(* still, unless it has lost it since.                                     *)
ReportInv ==
  reading => \A m \in Months : m \notin cleared /\ past.amount[m] # Empty => amount[m] # Empty

LEMMA ReportInvStep ==
  ASSUME ReportInv, [ReportNext]_<<vars, reader>>
  PROVE  ReportInv'
<1>1. CASE Next /\ Meanwhile
  BY <1>1 DEF Meanwhile, ReportInv
<1>2. CASE ReadTasks
  BY <1>2 DEF ReadTasks, ReportInv, vars
<1>3. CASE ReadCompletions
  BY <1>3 DEF ReadCompletions, RestReader, ReportInv
<1>4. CASE UNCHANGED <<vars, reader>>
  BY <1>4 DEF vars, reader, ReportInv
<1> QED
  BY <1>1, <1>2, <1>3, <1>4 DEF ReportNext

(* The app's report shows no cost that a month did not have, before or     *)
(* after, since the tasks are read before the completions (GetReportData), *)
(* but for the months ReportTrue leaves out.                               *)
THEOREM ReportIsTrue == ReportSpec => []ReportTrue
<1>1. ReportInit => ReportInv
  BY DEF ReportInit, ReportInv
<1>2. ReportInv /\ [ReportNext]_<<vars, reader>> => ReportInv'
  BY ReportInvStep
<1>3. ReportInv => ReportTrue
  BY DEF ReportInv, ReportTrue, Reported, Effective, Or
<1> QED
  BY <1>1, <1>2, <1>3, PTL DEF ReportSpec

----------------------------------------------------------------------------
(* Tools.                                                                  *)

Tool == [name : {"none", "complete", "uncomplete", "edit"},
         pc : {"idle", "read", "send", "wait"} \cup Ends,
         month : Months \cup {Absent}, new : Fields,
         old : [amount : Valid \cup {Empty, Absent}, title : Titles \cup {Absent}]]

ToolTypes ==
  /\ title \in Titles
  /\ tool \in [Agents -> Tool]
  /\ slot \in [Agents -> Requests \cup {NoSlot}]
  /\ touched \in [Agents -> BOOLEAN]

(* The task a tool has fetched is whole. *)
Fetched ==
  \A a \in Agents : tool[a].name = "edit" /\ tool[a].pc = "send"
                     => tool[a].old.amount # Absent /\ tool[a].old.title # Absent

LEMMA OverlayType ==
  ASSUME ToolTypes, Fetched, NEW a \in Agents, tool[a].pc = "send", tool[a].name = "edit"
  PROVE  /\ Overlay(a).amount \in Valid \cup {Empty}
         /\ Overlay(a).title \in Titles
         /\ tool[a].new.amount = Absent => Overlay(a).amount = tool[a].old.amount
         /\ tool[a].new.title = Absent => Overlay(a).title = tool[a].old.title
<1>1. /\ tool[a].new.amount \in Valid \cup {Empty, Absent} /\ tool[a].new.title \in Titles \cup {Absent}
      /\ tool[a].old.amount \in Valid \cup {Empty, Absent} /\ tool[a].old.title \in Titles \cup {Absent}
  BY DEF ToolTypes, Tool, Fields
<1>2. /\ Overlay(a).amount = IF tool[a].new.amount = Absent THEN tool[a].old.amount ELSE tool[a].new.amount
      /\ Overlay(a).title = IF tool[a].new.title = Absent THEN tool[a].old.title ELSE tool[a].new.title
  BY DEF Overlay
<1> QED
  BY <1>1, <1>2 DEF Fetched

LEMMA IdleTypes ==
  /\ Idle \in Tool /\ Idle.name = "none" /\ Idle.pc = "idle"
  /\ \A how \in Ends : [Idle EXCEPT !.pc = how] \in Tool /\ [Idle EXCEPT !.pc = how].name = "none"
                        /\ [Idle EXCEPT !.pc = how].pc = how
BY DEF Idle, Tool, Fields, NoFields

(* What an agent goes through in one step of its own.                      *)
OwnMove(a) ==
  \/ Ask(a) \/ ReadMonth(a) \/ FetchTask(a) \/ Put(a) \/ GiveUp(a) \/ Return(a)
  \/ \E r \in Requests : Send(a, r)
  \/ \E r \in Requests : (ToggleAnswers(r) \/ Errs(r)) /\ slot[a] = r

EndsAny(a) == \E how \in Ends : End(a, how)

LEMMA ToggleEnds ==
  ASSUME NEW r \in Requests, ToggleAnswers(r) \/ Errs(r), NEW a \in Agents, slot[a] = r
  PROVE  EndsAny(a)
BY DEF ToggleAnswers, Errs, Own, Answer, EndsAny, Ends

LEMMA WatchType == ASSUME NEW S, Watch(S) PROVE touched' \in [Agents -> BOOLEAN]
<1>1. \A a \in Agents : (IF a \in S \/ tool[a].pc \notin {"send", "wait"} THEN FALSE
                        ELSE touched[a] \/ Touches(a)) \in BOOLEAN
  OBVIOUS
<1> QED
  BY <1>1 DEF Watch

(* A step of one agent: its new record, and what that may hold. *)
OneAgent(a) ==
  \E t \in Tool :
    /\ tool' = [tool EXCEPT ![a] = t]
    /\ slot' = slot \/ \E x \in Requests \cup {NoSlot} : slot' = [slot EXCEPT ![a] = x]
    /\ t.name = "edit" /\ t.pc = "send" => t.old.amount # Absent /\ t.old.title # Absent

LEMMA EndsIsOne == ASSUME NEW a \in Agents, EndsAny(a) PROVE OneAgent(a)
BY IdleTypes DEF EndsAny, End, OneAgent

LEMMA OwnMoveIsOne ==
  ASSUME TypeOK, ToolTypes, NEW a \in Agents, OwnMove(a)
  PROVE  OneAgent(a)
<1>1. tool[a] \in Tool
  BY DEF ToolTypes
<1>2. CASE Ask(a)
  <2>1. ASSUME NEW n \in Names \ {"edit"}, NEW m \in Months,
               tool' = [tool EXCEPT ![a] = [Idle EXCEPT !.name = n, !.pc = "read", !.month = m]]
        PROVE  OneAgent(a)
    <3>1. /\ [Idle EXCEPT !.name = n, !.pc = "read", !.month = m] \in Tool
          /\ [Idle EXCEPT !.name = n, !.pc = "read", !.month = m].pc = "read"
      BY ToolsAssumption, IdleTypes DEF Idle, Tool
    <3> QED
      BY <1>2, <2>1, <3>1 DEF Ask, OneAgent
  <2>2. ASSUME NEW f \in Edits, tool' = [tool EXCEPT ![a] = [Idle EXCEPT !.name = "edit", !.pc = "read", !.new = f]]
        PROVE  OneAgent(a)
    <3>1. /\ [Idle EXCEPT !.name = "edit", !.pc = "read", !.new = f] \in Tool
          /\ [Idle EXCEPT !.name = "edit", !.pc = "read", !.new = f].pc = "read"
      BY ToolsAssumption, IdleTypes DEF Idle, Tool
    <3> QED
      BY <1>2, <2>2, <3>1 DEF Ask, OneAgent
  <2> QED
    BY <1>2, <2>1, <2>2 DEF Ask
<1>3. CASE ReadMonth(a)
  <2>1. CASE End(a, "unchanged")
    BY <2>1, EndsIsOne DEF EndsAny, Ends
  <2>2. CASE tool' = [tool EXCEPT ![a].pc = "send"] /\ UNCHANGED slot
    <3>1. /\ [tool[a] EXCEPT !.pc = "send"] \in Tool
          /\ [tool[a] EXCEPT !.pc = "send"].name = tool[a].name
          /\ tool' = [tool EXCEPT ![a] = [tool[a] EXCEPT !.pc = "send"]]
      BY <1>1, <2>2 DEF Tool, ToolTypes
    <3> QED
      BY <1>3, <2>2, <3>1 DEF ReadMonth, OneAgent
  <2> QED
    BY <1>3, <2>1, <2>2 DEF ReadMonth
<1>4. CASE FetchTask(a)
  <2> DEFINE o == [amount |-> default, title |-> title]
             t == [tool[a] EXCEPT !.pc = "send", !.old = o]
  <2>1. o \in [amount : Valid \cup {Empty, Absent}, title : Titles \cup {Absent}]
    BY DEF TypeOK, ToolTypes
  <2>2. o.amount # Absent /\ o.title # Absent
    BY DistinctAssumption, ToolsAssumption DEF TypeOK, ToolTypes, Amts
  <2>3. tool' = [tool EXCEPT ![a] = t] /\ slot' = slot
    BY <1>1, <1>4 DEF FetchTask, Tool, ToolTypes
  <2> HIDE DEF o
  <2>4. t \in Tool /\ t.old = o
    BY <1>1, <2>1 DEF Tool
  <2> HIDE DEF t
  <2> QED
    BY <2>2, <2>3, <2>4 DEF OneAgent
<1>5. CASE Put(a) \/ GiveUp(a)
  BY <1>5, EndsIsOne DEF Put, GiveUp, EndsAny, Ends
<1>6. CASE Return(a)
  BY <1>6, IdleTypes DEF Return, OneAgent
<1>7. ASSUME NEW r \in Requests, Send(a, r) PROVE OneAgent(a)
  <2>1. /\ [tool[a] EXCEPT !.pc = "wait"] \in Tool
        /\ [tool[a] EXCEPT !.pc = "wait"].pc = "wait"
        /\ tool' = [tool EXCEPT ![a] = [tool[a] EXCEPT !.pc = "wait"]]
    BY <1>1, <1>7 DEF Send, Tool, ToolTypes
  <2> QED
    BY <1>7, <2>1 DEF Send, OneAgent
<1>8. ASSUME NEW r \in Requests, ToggleAnswers(r) \/ Errs(r), slot[a] = r PROVE OneAgent(a)
  BY <1>8, ToggleEnds, EndsIsOne
<1> QED
  BY <1>2, <1>3, <1>4, <1>5, <1>6, <1>7, <1>8 DEF OwnMove

(* Every step is one agent's, or moves none. *)
NoAgentMoves ==
  /\ Quiet
  /\ \/ Edit \/ Others \/ Reading \/ UNCHANGED toolVars
     \/ \E r \in Requests : ToggleAnswers(r) \/ Errs(r)

LEMMA OneOrNone ==
  ASSUME [ToolsNext]_toolVars
  PROVE  NoAgentMoves \/ \E a \in Agents : OwnMove(a)
<1>1. ASSUME NEW r \in Requests, ToggleAnswers(r) \/ Errs(r)
      PROVE  NoAgentMoves \/ \E a \in Agents : OwnMove(a)
  <2>1. CASE Own(r) = {}
    BY <1>1, <2>1 DEF ToggleAnswers, Errs, NoAgentMoves
  <2>2. ASSUME NEW a \in Agents, slot[a] = r PROVE OwnMove(a)
    BY <1>1, <2>2 DEF OwnMove
  <2> QED
    BY <2>1, <2>2 DEF Own
<1>2. CASE Edit \/ Others \/ Reading \/ UNCHANGED toolVars
  BY <1>2 DEF Edit, Others, Reading, NoAgentMoves, Quiet, agents, toolVars
<1> QED
  BY <1>1, <1>2 DEF ToolsNext, OwnMove

LEMMA ToolTypesStep ==
  ASSUME TypeOK, ToolTypes, Fetched, [ToolsNext]_toolVars
  PROVE  ToolTypes' /\ Fetched'
<1>1. touched' \in [Agents -> BOOLEAN]
  <2>1. CASE UNCHANGED touched
    BY <2>1 DEF ToolTypes
  <2>2. ASSUME NEW S, Watch(S) PROVE touched' \in [Agents -> BOOLEAN]
    BY <2>2, WatchType
  <2>3. UNCHANGED touched \/ \E S : Watch(S)
    BY DEF ToolsNext, Ask, ReadMonth, FetchTask, Put, GiveUp, Return, Send, ToggleAnswers, Errs,
           Edit, Others, Reading, toolVars, columns, agents
  <2> QED
    BY <2>1, <2>2, <2>3
<1>2. title' \in Titles
  <2>1. ASSUME NEW a \in Agents, Put(a) PROVE title' \in Titles
    BY <2>1, OverlayType DEF Put
  <2>2. CASE Edit \/ UNCHANGED title
    BY <2>2 DEF Edit, ToolTypes
  <2> QED
    BY <2>1, <2>2 DEF ToolsNext, Ask, ReadMonth, FetchTask, GiveUp, Return, Send, ToggleAnswers, Errs,
           Others, Reading, toolVars, columns
<1>3. CASE NoAgentMoves
  <2>1. tool' = tool /\ slot' = slot
    BY <1>3 DEF NoAgentMoves, Quiet
  <2>2. Fetched'
    BY <2>1 DEF Fetched
  <2> QED
    BY <1>1, <1>2, <2>1, <2>2 DEF ToolTypes
<1>4. ASSUME NEW a \in Agents, OwnMove(a) PROVE ToolTypes' /\ Fetched'
  <2>1. PICK t \in Tool :
          /\ tool' = [tool EXCEPT ![a] = t]
          /\ slot' = slot \/ \E x \in Requests \cup {NoSlot} : slot' = [slot EXCEPT ![a] = x]
          /\ t.name = "edit" /\ t.pc = "send" => t.old.amount # Absent /\ t.old.title # Absent
    BY <1>4, OwnMoveIsOne DEF OneAgent
  <2>2. tool' \in [Agents -> Tool] /\ slot' \in [Agents -> Requests \cup {NoSlot}]
    BY <2>1 DEF ToolTypes
  <2>3. \A b \in Agents : tool'[b] = IF b = a THEN t ELSE tool[b]
    BY <2>1 DEF ToolTypes
  <2>4. Fetched'
    BY <2>1, <2>3 DEF Fetched
  <2> QED
    BY <1>1, <1>2, <2>2, <2>4 DEF ToolTypes
<1> QED
  BY <1>3, <1>4, OneOrNone

(* Seen from the report, the requests of the tools and of the web app are  *)
(* requests like others.                                                   *)
LEMMA ToolStepsAreRequests ==
  ASSUME ToolTypes, Fetched, [ToolsNext]_toolVars
  PROVE  [ReportNext]_<<vars, reader>>
<1>1. ASSUME NEW a \in Agents,
             Ask(a) \/ ReadMonth(a) \/ FetchTask(a) \/ GiveUp(a) \/ Return(a)
      PROVE  UNCHANGED <<vars, reader>>
  BY <1>1 DEF Ask, ReadMonth, FetchTask, GiveUp, Return
<1>2. ASSUME NEW a \in Agents, Put(a) PROVE Next /\ Meanwhile
  BY <1>2, OverlayType DEF Put, Next
<1>3. ASSUME NEW a \in Agents, NEW r \in Requests, Send(a, r) PROVE Next /\ Meanwhile
  <2>1. Begin(r) /\ UNCHANGED reader
    BY <1>3 DEF Send
  <2>2. amount' = amount /\ reading' = reading /\ task' = task /\ past' = past /\ cleared' = cleared
    BY <2>1 DEF Begin, rows, reader
  <2>3. {m \in Months : amount[m] # Empty /\ amount'[m] = Empty} = {}
    BY <2>2
  <2> QED
    BY <2>1, <2>2, <2>3 DEF Next, Meanwhile
<1>4. ASSUME NEW r \in Requests, ToggleAnswers(r) \/ Errs(r) PROVE Next /\ Meanwhile
  BY <1>4 DEF ToggleAnswers, Errs, Next
<1>5. ASSUME Edit \/ Others PROVE Next /\ Meanwhile
  BY <1>5 DEF Edit, Others, Next
<1>6. CASE Reading
  BY <1>6 DEF Reading, ReportNext
<1>7. CASE UNCHANGED toolVars
  BY <1>7 DEF toolVars
<1>8. ReportNext \/ UNCHANGED <<vars, reader>>
  BY <1>1, <1>2, <1>3, <1>4, <1>5, <1>6, <1>7 DEF ToolsNext, ReportNext
<1> QED
  BY <1>8

(* What an agent that is at work knows: the month it was asked about, and  *)
(* the request that toggles it.                                            *)
Asked(a) == tool[a].pc \in {"read", "send", "wait"} /\ tool[a].name # "edit"
              => tool[a].month \in Months

Waits(a) ==
  /\ slot[a] # NoSlot <=> tool[a].pc = "wait"
  /\ slot[a] # NoSlot => /\ tool[a].name # "edit"
                         /\ pc[slot[a]] \in {"read", "write"}
                         /\ call[slot[a]] = [op |-> "toggle", month |-> tool[a].month]

(* While nobody else has touched what it has read: complete_task is about  *)
(* a month that is not completed, and its request has not seen another;    *)
(* update_task holds the task as it is.                                    *)
Looked(a) ==
  ~touched[a] =>
    /\ tool[a].name = "complete" /\ tool[a].pc \in {"send", "wait"}
         => /\ status[tool[a].month] # "completed"
            /\ slot[a] # NoSlot /\ pc[slot[a]] = "write" => seen[slot[a]] # "completed"
    /\ tool[a].name = "edit" /\ tool[a].pc = "send"
         => tool[a].old = [amount |-> default, title |-> title]

Alone == \A a, b \in Agents : slot[a] = slot[b] /\ slot[a] # NoSlot => a = b

ToolInv ==
  /\ TypeOK /\ ToolTypes /\ Fetched /\ Alone
  /\ \A a \in Agents : Asked(a) /\ Waits(a) /\ Looked(a)

(* Which request a step is about. *)
LEMMA StepOfRequest ==
  ASSUME [ToolsNext]_toolVars
  PROVE  \/ UNCHANGED local
         \/ \E q \in Requests : \/ Begin(q) \/ Read(q) \/ Skip(q) \/ PatchAmount(q) \/ PatchNote(q)
                                \/ ToggleAnswers(q) \/ Errs(q)
<1>1. ASSUME NEW a \in Agents,
             Ask(a) \/ ReadMonth(a) \/ FetchTask(a) \/ Put(a) \/ GiveUp(a) \/ Return(a)
      PROVE  UNCHANGED local
  BY <1>1 DEF Ask, ReadMonth, FetchTask, Put, GiveUp, Return, UpdateTask, local, vars
<1>2. ASSUME NEW a \in Agents, NEW r \in Requests, Send(a, r) PROVE Begin(r)
  BY <1>2 DEF Send
<1>3. CASE Edit \/ Reading \/ UNCHANGED toolVars
  BY <1>3 DEF Edit, Reading, ReadTasks, ReadCompletions, UpdateTask, local, toolVars, vars
<1>4. CASE Others
  BY <1>4 DEF Others, Import
<1> QED
  BY <1>1, <1>2, <1>3, <1>4 DEF ToolsNext

(* A toggle in flight is left alone by the other requests; its own reads   *)
(* the month.                                                              *)
LEMMA ToggleStays ==
  ASSUME TypeOK, [ToolsNext]_toolVars,
         NEW r \in Requests, pc[r] \in {"read", "write"}, call[r].op = "toggle",
         ~(ToggleAnswers(r) \/ Errs(r))
  PROVE  /\ call'[r] = call[r] /\ pc'[r] \in {"read", "write"}
         /\ \/ pc'[r] = pc[r] /\ seen'[r] = seen[r]
            \/ pc'[r] = "write" /\ seen'[r] = status[Month(r)]
<1> USE DEF TypeOK
<1>1. CASE UNCHANGED local
  BY <1>1 DEF local
<1>3. ASSUME NEW q \in Requests, Begin(q)
      PROVE  q # r /\ call'[r] = call[r] /\ pc'[r] = pc[r] /\ seen'[r] = seen[r]
  BY <1>3 DEF Begin
<1>4. ASSUME NEW q \in Requests, Skip(q) \/ PatchAmount(q) \/ PatchNote(q)
      PROVE  q # r /\ call'[r] = call[r] /\ pc'[r] = pc[r] /\ seen'[r] = seen[r]
  BY <1>4 DEF Skip, PatchAmount, PatchNote, Reply, Goto
<1>5. ASSUME NEW q \in Requests, Read(q), q # r
      PROVE  call'[r] = call[r] /\ pc'[r] = pc[r] /\ seen'[r] = seen[r]
  BY <1>5 DEF Read, Reply
<1>6. ASSUME Read(r)
      PROVE  call'[r] = call[r] /\ pc'[r] = "write" /\ seen'[r] = status[Month(r)]
  BY <1>6 DEF Read, Refused
<1>7. ASSUME NEW q \in Requests, ToggleAnswers(q) \/ Errs(q)
      PROVE  call'[r] = call[r] /\ pc'[r] = pc[r] /\ seen'[r] = seen[r]
  BY <1>7 DEF ToggleAnswers, Errs, Toggle, Fail, Reply
<1> QED
  BY <1>1, <1>3, <1>4, <1>5, <1>6, <1>7, StepOfRequest

(* An agent that does not move learns of what it looked at being changed.  *)
LEMMA AgentStays ==
  ASSUME ToolInv, [ToolsNext]_toolVars, NEW b \in Agents, ~OwnMove(b)
  PROVE  /\ tool'[b] = tool[b] /\ slot'[b] = slot[b]
         /\ tool[b].pc \in {"send", "wait"} /\ ~touched'[b] => ~touched[b] /\ ~Touches(b)
<1> USE DEF ToolInv
<1>1. tool'[b] = tool[b] /\ slot'[b] = slot[b]
  <2>1. CASE NoAgentMoves
    BY <2>1 DEF NoAgentMoves, Quiet
  <2>2. ASSUME NEW a \in Agents, a # b, OneAgent(a) PROVE tool'[b] = tool[b] /\ slot'[b] = slot[b]
    BY <2>2 DEF OneAgent, ToolTypes
  <2> QED
    BY <2>1, <2>2, OneOrNone, OwnMoveIsOne
<1>2. ASSUME NEW S, Watch(S), b \notin S, tool[b].pc \in {"send", "wait"}, ~touched'[b]
      PROVE  ~touched[b] /\ ~Touches(b)
  BY <1>2 DEF Watch
<1>3. ASSUME UNCHANGED <<vars, columns, touched>>, ~touched'[b] PROVE ~touched[b] /\ ~Touches(b)
  BY <1>3 DEF Touches, vars, columns
<1>4. ASSUME NEW a \in Agents, a # b,
             Ask(a) \/ ReadMonth(a) \/ FetchTask(a) \/ Put(a) \/ GiveUp(a)
      PROVE  Watch({a})
  BY <1>4 DEF Ask, ReadMonth, FetchTask, Put, GiveUp
<1>5. ASSUME NEW a \in Agents, Return(a) PROVE UNCHANGED <<vars, columns, touched>>
  BY <1>5 DEF Return
<1>6. ASSUME Edit \/ Others \/ \E a \in Agents, r \in Requests : Send(a, r) PROVE Watch({})
  BY <1>6 DEF Edit, Others, Send
<1>7. ASSUME Reading \/ UNCHANGED toolVars PROVE UNCHANGED <<vars, columns, touched>>
  BY <1>7 DEF Reading, ReadTasks, ReadCompletions, toolVars, columns, agents
<1>8. ASSUME NEW r \in Requests, ToggleAnswers(r) \/ Errs(r)
      PROVE  Watch(Own(r)) /\ b \notin Own(r)
  BY <1>8 DEF ToggleAnswers, Errs, Own, OwnMove
<1>9. ASSUME NEW a \in Agents,
             Ask(a) \/ ReadMonth(a) \/ FetchTask(a) \/ Put(a) \/ GiveUp(a)
      PROVE  Watch({a}) /\ b \notin {a}
  <2>1. a # b
    BY <1>9 DEF OwnMove
  <2> QED
    BY <1>4, <1>9, <2>1
<1>10. \/ \E S : Watch(S) /\ b \notin S
       \/ UNCHANGED <<vars, columns, touched>>
  <2>1. CASE Edit \/ Others \/ \E a \in Agents, r \in Requests : Send(a, r)
    BY <1>6, <2>1
  <2>2. CASE \E r \in Requests : ToggleAnswers(r) \/ Errs(r)
    BY <1>8, <2>2
  <2>3. CASE \E a \in Agents : Ask(a) \/ ReadMonth(a) \/ FetchTask(a) \/ Put(a) \/ GiveUp(a)
    BY <1>9, <2>3
  <2>4. CASE Reading \/ UNCHANGED toolVars \/ \E a \in Agents : Return(a)
    BY <1>5, <1>7, <2>4
  <2> QED
    BY <2>1, <2>2, <2>3, <2>4 DEF ToolsNext
<1> QED
  BY <1>1, <1>2, <1>3, <1>10

LEMMA StaysInv ==
  ASSUME ToolInv, [ToolsNext]_toolVars, NEW b \in Agents, ~OwnMove(b)
  PROVE  Asked(b)' /\ Waits(b)' /\ Looked(b)'
<1>1. /\ tool'[b] = tool[b] /\ slot'[b] = slot[b]
      /\ tool[b].pc \in {"send", "wait"} /\ ~touched'[b] => ~touched[b] /\ ~Touches(b)
  BY AgentStays
<1>2. TypeOK /\ ToolTypes /\ Asked(b) /\ Waits(b) /\ Looked(b)
  BY DEF ToolInv
<1>3. Asked(b)'
  BY <1>1, <1>2 DEF Asked
<1>4. ASSUME slot[b] # NoSlot
      PROVE  /\ call'[slot[b]] = call[slot[b]] /\ pc'[slot[b]] \in {"read", "write"}
             /\ \/ pc'[slot[b]] = pc[slot[b]] /\ seen'[slot[b]] = seen[slot[b]]
                \/ pc'[slot[b]] = "write" /\ seen'[slot[b]] = status[tool[b].month]
  <2>1. slot[b] \in Requests
    BY <1>2, <1>4 DEF ToolTypes
  <2>2. /\ pc[slot[b]] \in {"read", "write"} /\ call[slot[b]].op = "toggle"
        /\ Month(slot[b]) = tool[b].month
    BY <1>2, <1>4 DEF Waits, Month
  <2>3. ~(ToggleAnswers(slot[b]) \/ Errs(slot[b]))
    BY <2>1 DEF OwnMove
  <2> QED
    BY <1>2, <2>1, <2>2, <2>3, ToggleStays
<1>5. Waits(b)'
  BY <1>1, <1>2, <1>4 DEF Waits
<1>6. ASSUME ~touched'[b], tool[b].name = "complete", tool[b].pc \in {"send", "wait"}
      PROVE  /\ status'[tool[b].month] # "completed"
             /\ slot[b] # NoSlot /\ pc'[slot[b]] = "write" => seen'[slot[b]] # "completed"
  <2>1. status'[tool[b].month] = status[tool[b].month]
    BY <1>1, <1>2, <1>6 DEF Touches, Asked
  <2> QED
    BY <1>1, <1>2, <1>4, <1>6, <2>1 DEF Looked
<1>7. ASSUME ~touched'[b], tool[b].name = "edit", tool[b].pc = "send"
      PROVE  tool[b].old = [amount |-> default', title |-> title']
  BY <1>1, <1>2, <1>7 DEF Looked, Touches
<1>8. Looked(b)'
  BY <1>1, <1>6, <1>7 DEF Looked
<1> QED
  BY <1>3, <1>5, <1>8

LEMMA MovesInv ==
  ASSUME ToolInv, [ToolsNext]_toolVars, NEW a \in Agents, OwnMove(a)
  PROVE  Asked(a)' /\ Waits(a)' /\ Looked(a)'
<1>1. /\ TypeOK /\ ToolTypes /\ Asked(a) /\ Waits(a) /\ Looked(a) /\ tool[a] \in Tool
      /\ slot[a] \in Requests \cup {NoSlot}
  BY DEF ToolInv, ToolTypes
<1>2. ASSUME EndsAny(a) PROVE Asked(a)' /\ Waits(a)' /\ Looked(a)'
  <2>1. /\ tool'[a].name = "none" /\ tool'[a].pc \in Ends /\ slot'[a] = NoSlot
    BY <1>1, <1>2, IdleTypes DEF EndsAny, End, ToolTypes
  <2> QED
    BY <2>1 DEF Asked, Waits, Looked, Ends
<1>3. CASE Ask(a)
  <2>1. /\ slot'[a] = NoSlot /\ tool'[a].pc = "read"
        /\ tool'[a].name = "edit" \/ tool'[a].month \in Months
    BY <1>1, <1>3 DEF Ask, Waits, ToolTypes, Idle
  <2> QED
    BY <2>1 DEF Asked, Waits, Looked
<1>4. CASE ReadMonth(a)
  <2>1. CASE End(a, "unchanged")
    BY <1>2, <2>1 DEF EndsAny, Ends
  <2>2. CASE ~End(a, "unchanged")
    <3>1. /\ (status[tool[a].month] = "completed") # (tool[a].name = "complete")
          /\ tool' = [tool EXCEPT ![a].pc = "send"] /\ slot' = slot
          /\ tool[a].pc = "read" /\ tool[a].name # "edit" /\ status' = status
      BY <1>4, <2>2 DEF ReadMonth, vars
    <3>2. tool'[a].pc = "send" /\ tool'[a].name = tool[a].name /\ tool'[a].month = tool[a].month
      BY <1>1, <3>1 DEF ToolTypes, Tool
    <3>3. slot'[a] = NoSlot
      BY <1>1, <3>1 DEF Waits
    <3> QED
      BY <1>1, <3>1, <3>2, <3>3 DEF Asked, Waits, Looked
  <2> QED
    BY <2>1, <2>2
<1>5. CASE FetchTask(a)
  <2>1. /\ tool' = [tool EXCEPT ![a].pc = "send", ![a].old = [amount |-> default, title |-> title]]
        /\ slot' = slot /\ default' = default /\ title' = title
        /\ tool[a].pc = "read" /\ tool[a].name = "edit"
    BY <1>5 DEF FetchTask, vars, columns
  <2>2. /\ tool'[a].pc = "send" /\ tool'[a].name = "edit"
        /\ tool'[a].old = [amount |-> default, title |-> title]
    BY <1>1, <2>1 DEF ToolTypes, Tool
  <2> QED
    BY <1>1, <2>1, <2>2 DEF Asked, Waits, Looked
<1>6. CASE Put(a) \/ GiveUp(a)
  BY <1>2, <1>6 DEF Put, GiveUp, EndsAny, Ends
<1>7. CASE Return(a)
  <2>1. tool'[a] = Idle /\ slot'[a] = NoSlot
    BY <1>1, <1>7 DEF Return, Waits, ToolTypes, Ends
  <2> QED
    BY <2>1, IdleTypes DEF Asked, Waits, Looked
<1>8. ASSUME NEW r \in Requests, Send(a, r) PROVE Asked(a)' /\ Waits(a)' /\ Looked(a)'
  <2>1. /\ tool[a].pc = "send" /\ tool[a].name # "edit" /\ slot' = [slot EXCEPT ![a] = r]
        /\ tool' = [tool EXCEPT ![a].pc = "wait"]
        /\ pc' = [pc EXCEPT ![r] = "read"]
        /\ call'[r] = [op |-> "toggle", month |-> tool[a].month]
        /\ status' = status /\ Watch({})
    BY <1>8 DEF Send, Begin, rows
  <2>2. /\ tool'[a].pc = "wait" /\ tool'[a].name = tool[a].name /\ tool'[a].month = tool[a].month
        /\ slot'[a] = r /\ r # NoSlot /\ pc'[r] = "read"
    BY <1>1, <2>1, ToolsAssumption DEF ToolTypes, Tool, TypeOK
  <2>3. ~touched'[a] => ~touched[a]
    BY <2>1 DEF Watch
  <2> QED
    BY <1>1, <2>1, <2>2, <2>3 DEF Asked, Waits, Looked
<1>9. ASSUME NEW r \in Requests, ToggleAnswers(r) \/ Errs(r), slot[a] = r
      PROVE  Asked(a)' /\ Waits(a)' /\ Looked(a)'
  BY <1>2, <1>9, ToggleEnds
<1> QED
  BY <1>3, <1>4, <1>5, <1>6, <1>7, <1>8, <1>9 DEF OwnMove

(* No two agents wait for one request: a slot is taken when it is free.    *)
LEMMA AloneStep ==
  ASSUME ToolInv, [ToolsNext]_toolVars
  PROVE  Alone'
<1> SUFFICES ASSUME NEW a \in Agents, NEW b \in Agents, slot'[a] = slot'[b], slot'[a] # NoSlot, a # b
             PROVE  FALSE
  BY DEF Alone
<1> USE DEF ToolInv
<1>1. ASSUME NEW c \in Agents
      PROVE  \/ slot'[c] \in {slot[c], NoSlot}
             \/ \E r \in Requests : Send(c, r) /\ slot'[c] = r
  <2>1. CASE ~OwnMove(c)
    BY <2>1, AgentStays
  <2>2. CASE EndsAny(c)
    BY <2>2 DEF EndsAny, End, ToolTypes
  <2>3. CASE OwnMove(c) /\ ~EndsAny(c)
    <3>1. ~Put(c) /\ ~GiveUp(c)
      BY <2>3 DEF Put, GiveUp, EndsAny, Ends
    <3>2. \A r \in Requests : slot[c] = r => ~(ToggleAnswers(r) \/ Errs(r))
      BY <2>3, ToggleEnds
    <3>3. Ask(c) \/ ReadMonth(c) \/ FetchTask(c) \/ Return(c) => slot' = slot
      BY <2>3 DEF Ask, ReadMonth, FetchTask, Return, EndsAny, Ends
    <3>4. \A r \in Requests : Send(c, r) => slot'[c] = r
      BY DEF Send, ToolTypes
    <3> QED
      BY <2>3, <3>1, <3>2, <3>3, <3>4 DEF OwnMove
  <2> QED
    BY <2>1, <2>2, <2>3
<1>2. ASSUME NEW c \in Agents, NEW d \in Agents, c # d, NEW r \in Requests, Send(c, r), slot'[c] = r
      PROVE  slot'[d] # r
  <2>1. pc[r] = "idle" /\ slot' = [slot EXCEPT ![c] = r]
    BY <1>2 DEF Send, Begin
  <2>2. slot'[d] = slot[d]
    BY <1>2, <2>1 DEF ToolTypes
  <2>3. r # NoSlot
    BY ToolsAssumption
  <2>4. slot[d] # r
    BY <2>1, <2>3 DEF Waits
  <2> QED
    BY <2>2, <2>4
<1> QED
  BY <1>1, <1>2 DEF Alone

LEMMA ToolInvStep == ToolInv /\ [ToolsNext]_toolVars => ToolInv'
<1> SUFFICES ASSUME ToolInv, [ToolsNext]_toolVars PROVE ToolInv'
  OBVIOUS
<1>1. TypeOK /\ ToolTypes /\ Fetched
  BY DEF ToolInv
<1>2. ToolTypes' /\ Fetched'
  BY <1>1, ToolTypesStep
<1>3. \A a \in Agents : Asked(a)' /\ Waits(a)' /\ Looked(a)'
  BY StaysInv, MovesInv
<1>4. TypeOK'
  <2>1. [ReportNext]_<<vars, reader>>
    BY <1>1, ToolStepsAreRequests
  <2>2. [Next]_vars
    BY <2>1 DEF ReportNext, ReadTasks, ReadCompletions
  <2> QED
    BY <2>2, TypeStep DEF ToolInv
<1> QED
  BY <1>2, <1>3, <1>4, AloneStep DEF ToolInv

LEMMA ToolInvInit == ToolsInit => ToolInv
<1> SUFFICES ASSUME ToolsInit PROVE ToolInv
  OBVIOUS
<1>1. TypeOK
  BY TypeInit DEF ToolsInit, ReportInit
<1>2. \A a \in Agents : tool[a] = Idle /\ slot[a] = NoSlot
  BY DEF ToolsInit
<1>3. ToolTypes /\ Fetched /\ Alone
  BY <1>2, IdleTypes DEF ToolsInit, ToolTypes, Fetched, Alone
<1>4. \A a \in Agents : Asked(a) /\ Waits(a) /\ Looked(a)
  BY <1>2, IdleTypes DEF Asked, Waits, Looked
<1> QED
  BY <1>1, <1>3, <1>4 DEF ToolInv

(* The tools are requests like others: what is proved above of Amounts and *)
(* of the report holds while they are at work.                             *)
THEOREM ToolsAreRequests == ToolsSpec => ReportSpec /\ Spec
<1>1. ToolsInit => ReportInit /\ Init
  BY DEF ToolsInit, ReportInit
<1>2. ToolInv /\ [ToolsNext]_toolVars => [ReportNext]_<<vars, reader>>
  BY ToolStepsAreRequests DEF ToolInv
<1>3. [ReportNext]_<<vars, reader>> => [Next]_vars
  BY DEF ReportNext, ReadTasks, ReadCompletions
<1> QED
  BY <1>1, <1>2, <1>3, ToolInvInit, ToolInvStep, PTL DEF ToolsSpec, ReportSpec, Spec

(* A step that answers a waiting agent and takes its month's completion    *)
(* away is its own toggle, which says that it has raced.                   *)
LEMMA UndoneIsSaid ==
  ASSUME ToolInv, [ToolsNext]_toolVars, NEW a \in Agents,
         slot[a] # NoSlot, slot'[a] = NoSlot, tool[a].name = "complete",
         status[tool[a].month] = "completed", status'[tool[a].month] = "pending"
  PROVE  touched[a] /\ tool'[a].pc \in {"raced", "error"}
<1>1. /\ tool[a].pc = "wait" /\ slot[a] \in Requests /\ tool[a] \in Tool
      /\ TypeOK /\ ToolTypes /\ Waits(a) /\ Looked(a)
  BY DEF ToolInv, ToolTypes, Waits
<1>2. touched[a]
  BY <1>1 DEF Looked
<1>3. OwnMove(a)
  BY AgentStays
<1>4. ~Ask(a) /\ ~ReadMonth(a) /\ ~FetchTask(a) /\ ~Put(a) /\ ~Return(a)
      /\ \A r \in Requests : ~Send(a, r)
  BY <1>1 DEF Ask, ReadMonth, FetchTask, Put, Return, Send, Ends
<1>5. ~GiveUp(a)
  BY DEF GiveUp, vars
<1>6. ~Errs(slot[a])
  BY DEF Errs, Fail, rows
<1>7. ToggleAnswers(slot[a])
  BY <1>3, <1>4, <1>5, <1>6 DEF OwnMove
<1>8. seen[slot[a]] = "completed"
  <2>1. Month(slot[a]) = tool[a].month
    BY <1>1 DEF Waits, Month
  <2> DEFINE m == tool[a].month
  <2>2. status' # status
    OBVIOUS
  <2>3. ~Insert(m, "completed")
    BY DEF Insert
  <2>4. ~CompleteSkipped(m)
    <3>1. SUFFICES ASSUME status' = [status EXCEPT ![m] = "completed"] PROVE FALSE
      BY <2>2 DEF CompleteSkipped
    <3>2. m \in Months
      BY <1>1, CallMonth DEF TypeOK, Waits
    <3> QED
      BY <1>1, <3>1, <3>2 DEF TypeOK
  <2> QED
    BY <1>7, <2>1, <2>3, <2>4 DEF ToggleAnswers, Toggle
<1>9. End(a, "raced")
  <2>1. Answer(a, FALSE)
    BY <1>7, <1>8 DEF ToggleAnswers, Own
  <2> QED
    BY <2>1 DEF Answer
<1>10. tool'[a].pc = "raced"
  BY <1>1, <1>9, IdleTypes DEF End, ToolTypes, Ends
<1> QED
  BY <1>2, <1>10

(* complete_task takes a completion away only when another request has     *)
(* changed the month since it looked, and then it says so.                 *)
THEOREM CompleteNeverUndoes == ToolsSpec => CompleteNeverUndoesSilently
<1>1. ToolInv /\ [ToolsNext]_toolVars
        => \A a \in Agents :
             slot[a] # NoSlot /\ slot'[a] = NoSlot /\ tool[a].name = "complete"
               /\ status[tool[a].month] = "completed" /\ status'[tool[a].month] = "pending"
               => touched[a] /\ tool'[a].pc \in {"raced", "error"}
  BY UndoneIsSaid
<1>2. ToolInv /\ [ToolsNext]_toolVars
        => [\A a \in Agents :
             slot[a] # NoSlot /\ slot'[a] = NoSlot /\ tool[a].name = "complete"
               /\ status[tool[a].month] = "completed" /\ status'[tool[a].month] = "pending"
               => touched[a] /\ tool'[a].pc \in {"raced", "error"}]_toolVars
  BY <1>1
<1> QED
  BY ToolInvInit, ToolInvStep, <1>2, PTL DEF ToolsSpec, CompleteNeverUndoesSilently

(* update_task changes only the columns it was given, unless somebody else *)
(* has edited the task since it fetched it.                                *)
THEOREM EditKeeps == ToolsSpec => EditKeepsOtherFields
<1>1. ASSUME ToolInv, [ToolsNext]_toolVars, NEW a \in Agents,
             tool[a].pc = "send", tool[a].name = "edit", tool'[a].pc = "done", ~touched[a]
      PROVE  /\ tool[a].new.amount = Absent => default' = default
             /\ tool[a].new.title = Absent => title' = title
  <2>1. tool[a].old = [amount |-> default, title |-> title]
    BY <1>1 DEF ToolInv, Looked
  <2>2. OwnMove(a)
    BY <1>1, AgentStays
  <2>3. slot[a] = NoSlot
    BY <1>1 DEF ToolInv, Waits
  <2>4. ~Ask(a) /\ ~ReadMonth(a) /\ ~FetchTask(a) /\ ~Return(a) /\ \A r \in Requests : ~Send(a, r)
    BY <1>1 DEF Ask, ReadMonth, FetchTask, Return, Send, Ends
  <2>5. ~GiveUp(a)
    BY <1>1, IdleTypes DEF GiveUp, End, ToolInv, ToolTypes, Ends
  <2>6. Put(a)
    BY <2>2, <2>3, <2>4, <2>5, ToolsAssumption DEF OwnMove
  <2>7. default' = Overlay(a).amount /\ title' = Overlay(a).title
    BY <2>6 DEF Put, UpdateTask
  <2> QED
    BY <1>1, <2>1, <2>7, OverlayType DEF ToolInv
<1>2. ToolInv /\ [ToolsNext]_toolVars
        => [\A a \in Agents :
              tool[a].pc = "send" /\ tool[a].name = "edit" /\ tool'[a].pc = "done" /\ ~touched[a]
                => /\ tool[a].new.amount = Absent => default' = default
                   /\ tool[a].new.title = Absent => title' = title]_toolVars
  BY <1>1
<1> QED
  BY ToolInvInit, ToolInvStep, <1>2, PTL DEF ToolsSpec, EditKeepsOtherFields
=============================================================================
