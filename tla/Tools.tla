------------------------------- MODULE Tools --------------------------------
(***************************************************************************)
(* The MCP tools that read through the API and then write what they have   *)
(* decided (mcp-server/tools.go complete_task, uncomplete_task,            *)
(* update_task), beside the web app's users and each other.  A tool call   *)
(* is a process of its own: each of its requests is a request of Amounts,  *)
(* and its HTTP client stops waiting after ten seconds while the handler   *)
(* goes on.                                                                *)
(***************************************************************************)
EXTENDS Report

CONSTANTS Agents,   \* tool calls that may run at once
          Names,    \* the tools called in this instance
          Titles,   \* what the other columns of the task may hold
          Metas,    \* what the metadata column may hold
          Bare,     \* the metadata {}
          Edits,    \* the sets of fields update_task is given
          NoSlot    \* the tool call waits for no request

Fields == [amount : Valid \cup {Empty, Absent}, title : Titles \cup {Absent}]
NoFields == [amount |-> Absent, title |-> Absent]

ASSUME ToolsAssumption == /\ Names \subseteq {"complete", "uncomplete", "edit"}
                          /\ Absent \notin Titles
                          /\ Bare \in Metas
                          /\ Edits \subseteq Fields \ {NoFields}
                          /\ NoSlot \notin Requests

VARIABLES
  title,    \* the other columns of the task, which PUT replaces as well
  metadata, \* tasks.metadata: no field of update_task, but written by every PUT
  tool,     \* per agent: the tool call
  slot,     \* per agent: the request its toggle is
  touched   \* history, per agent: what others have changed since it has read

columns == <<title, metadata>>
agents == <<tool, slot, touched>>
toolVars == <<vars, reader, columns, agents>>

(* new: the fields update_task was given; old: the task it has fetched.    *)
Idle == [name |-> "none", pc |-> "idle", month |-> Absent, new |-> NoFields, old |-> NoFields]

ToolsInit == /\ ReportInit
             /\ title \in Titles /\ metadata \in Metas
             /\ tool = [a \in Agents |-> Idle]
             /\ slot = [a \in Agents |-> NoSlot]
             /\ touched = [a \in Agents |-> FALSE]

(* Requests of the web app, of tools that have stopped waiting, and of the *)
(* other tools (skip_task, update_completion, create_task: one request).   *)
Own(r) == {a \in Agents : slot[a] = r}

(* The tool answers. *)
Ends == {"done", "unchanged", "raced", "error"}

End(a, how) == /\ tool' = [tool EXCEPT ![a] = [Idle EXCEPT !.pc = how]]
               /\ slot' = [slot EXCEPT ![a] = NoSlot]

Quiet == UNCHANGED <<tool, slot>>

(* What the agents that have read must know of a step of others: a change  *)
(* of the month they toggle, or of the task they edit.                     *)
Touches(a) ==
  IF tool[a].name = "edit" THEN default' # default \/ title' # title
  ELSE \E m \in Months : m = tool[a].month /\ (status'[m] # status[m] \/ amount'[m] # amount[m])

Watch(S) == touched' = [a \in Agents |->
  IF a \in S \/ tool[a].pc \notin {"send", "wait"} THEN FALSE ELSE touched[a] \/ Touches(a)]

----------------------------------------------------------------------------

Ask(a) ==
  /\ tool[a].pc = "idle"
  /\ \/ \E n \in Names \ {"edit"}, m \in Months :
          tool' = [tool EXCEPT ![a] = [Idle EXCEPT !.name = n, !.pc = "read", !.month = m]]
     \/ \E f \in Edits :
          /\ "edit" \in Names
          /\ tool' = [tool EXCEPT ![a] = [Idle EXCEPT !.name = "edit", !.pc = "read", !.new = f]]
  /\ UNCHANGED <<vars, reader, columns, slot>>
  /\ Watch({a})

BugReadMonthAlwaysToggles(a) ==
  /\ tool[a].pc = "read" /\ tool[a].name # "edit"
  /\ tool' = [tool EXCEPT ![a].pc = "send"] /\ UNCHANGED slot
  /\ UNCHANGED <<vars, reader, columns>>
  /\ Watch({a})

(* monthCompletion: nothing to do, or a toggle would move the month the    *)
(* right way.                                                              *)
ReadMonth(a) ==
  /\ tool[a].pc = "read" /\ tool[a].name # "edit"
  /\ IF (status[tool[a].month] = "completed") = (tool[a].name = "complete")
     THEN End(a, "unchanged")
     ELSE tool' = [tool EXCEPT ![a].pc = "send"] /\ UNCHANGED slot
  /\ UNCHANGED <<vars, reader, columns>>
  /\ Watch({a})

Send(a, r) ==
  /\ tool[a].pc = "send" /\ tool[a].name # "edit"
  /\ Begin(r) /\ call'[r] = [op |-> "toggle", month |-> tool[a].month]
  /\ tool' = [tool EXCEPT ![a].pc = "wait"]
  /\ slot' = [slot EXCEPT ![a] = r]
  /\ UNCHANGED <<reader, columns>>
  /\ Watch({})

(* The body says which way the toggle went. *)
Answer(a, completed) == End(a, IF completed = (tool[a].name = "complete") THEN "done" ELSE "raced")

(* The handler toggles and answers.  The INSERT may be refused; an UPDATE  *)
(* of no row is answered as a completion.                                  *)
ToggleAnswers(r) ==
  /\ Toggle(r)
  /\ \A a \in Own(r) :
       IF seen[r] = "pending" /\ status[Month(r)] # "pending" THEN End(a, "error")
       ELSE Answer(a, seen[r] # "completed")
  /\ Own(r) = {} => Quiet
  /\ Meanwhile /\ UNCHANGED columns
  /\ Watch(Own(r))

Errs(r) ==
  /\ Fail(r)
  /\ \A a \in Own(r) : End(a, "error")
  /\ Own(r) = {} => Quiet
  /\ Meanwhile /\ UNCHANGED columns
  /\ Watch(Own(r))

(* A GET or PUT fails, or the client has waited ten seconds for a toggle,  *)
(* which the server may still carry out.                                   *)
GiveUp(a) ==
  /\ tool[a].pc \in {"read", "send", "wait"}
  /\ End(a, "error")
  /\ UNCHANGED <<vars, reader, columns>>
  /\ Watch({a})

(* The call is over. *)
Return(a) ==
  /\ tool[a].pc \in Ends
  /\ tool' = [tool EXCEPT ![a] = Idle]
  /\ UNCHANGED <<vars, reader, columns, slot, touched>>

(* update_task: fetchTask, then PUT with every column.                     *)
FetchTask(a) ==
  /\ tool[a].pc = "read" /\ tool[a].name = "edit"
  /\ tool' = [tool EXCEPT ![a].pc = "send", ![a].old = [amount |-> default, title |-> title]]
  /\ UNCHANGED <<vars, reader, columns, slot>>
  /\ Watch({a})

BugOverlay(a) ==
  LET f == tool[a].new IN
  [amount |-> IF f.amount = Absent THEN Empty ELSE f.amount,
   title |-> IF f.title = Absent THEN tool[a].old.title ELSE f.title,
   metadata |-> Bare]

(* The body of the PUT: what was given over what was fetched, and bare     *)
(* metadata whatever the task had.                                         *)
Overlay(a) ==
  LET Field(f) == IF tool[a].new[f] = Absent THEN tool[a].old[f] ELSE tool[a].new[f]
  IN [amount |-> Field("amount"), title |-> Field("title"), metadata |-> Bare]

Put(a) ==
  /\ tool[a].pc = "send" /\ tool[a].name = "edit"
  /\ UpdateTask(Overlay(a).amount)
  /\ title' = Overlay(a).title /\ metadata' = Overlay(a).metadata
  /\ End(a, "done")
  /\ Meanwhile
  /\ Watch({a})

(* The web app's form sends every column too, with bare metadata; other    *)
(* clients of the API send what they like.                                 *)
Edit == /\ \E new \in Valid \cup {Empty} : UpdateTask(new)
        /\ title' \in Titles /\ metadata' \in Metas
        /\ Quiet /\ Meanwhile /\ Watch({})

Others ==
  /\ \/ \E r \in Requests : \/ Begin(r) \/ Read(r) \/ Skip(r) \/ PatchAmount(r) \/ PatchNote(r)
     \/ \E K \in SUBSET Months : Import(K)
  /\ Quiet /\ Meanwhile /\ UNCHANGED columns /\ Watch({})

Reading == /\ ReadTasks \/ ReadCompletions
           /\ UNCHANGED <<columns, agents>>

ToolsNext == \/ \E a \in Agents : \/ Ask(a) \/ ReadMonth(a) \/ FetchTask(a) \/ Put(a) \/ GiveUp(a) \/ Return(a)
                                  \/ \E r \in Requests : Send(a, r)
             \/ \E r \in Requests : ToggleAnswers(r) \/ Errs(r)
             \/ Edit \/ Others \/ Reading

ToolsSpec == ToolsInit /\ [][ToolsNext]_toolVars

----------------------------------------------------------------------------

(* complete_task takes a completion away only when another request has     *)
(* changed the month since it looked, and then it does not claim success   *)
(* (tools.go: "These tools read the current state first and only toggle    *)
(* when it would move the task in the asked-for direction.").              *)
CompleteNeverUndoesSilently ==
  [][\A a \in Agents :
       slot[a] # NoSlot /\ slot'[a] = NoSlot /\ tool[a].name = "complete"
         /\ status[tool[a].month] = "completed" /\ status'[tool[a].month] = "pending"
         => touched[a] /\ tool'[a].pc \in {"raced", "error"}]_toolVars

(* update_task leaves the amount, title and the other columns it has a     *)
(* field for and was not given as they are, unless somebody else has       *)
(* edited the task since it was fetched (tools.go:162).  The metadata, for *)
(* which it has no field, is EditKeepsMetadata.                            *)
EditKeepsOtherFields ==
  [][\A a \in Agents :
       tool[a].pc = "send" /\ tool[a].name = "edit" /\ tool'[a].pc = "done" /\ ~touched[a]
         => /\ tool[a].new.amount = Absent => default' = default
            /\ tool[a].new.title = Absent => title' = title]_toolVars

(* update_task does not change the metadata either (mcp-server/README.md:  *)
(* "Only the fields you mention are changed.").  Not so: the PUT resets it *)
(* (tools.go:811).                                                         *)
EditKeepsMetadata ==
  [][\A a \in Agents :
       tool[a].pc = "send" /\ tool[a].name = "edit" /\ tool'[a].pc = "done" /\ ~touched[a]
         => metadata' = metadata]_toolVars
=============================================================================
