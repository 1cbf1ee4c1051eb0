--------------------------- MODULE AccountsProofs ---------------------------
(***************************************************************************)
(* Proofs about Accounts, for every set of names, identities and requests. *)
(***************************************************************************)
EXTENDS Accounts, FiniteSetTheorems, TLAPS

(* Which operation a slot serves at which step. *)
OpAt(r) ==
  /\ pc[r] # "idle" => call[r].op \in May[r]
  /\ pc[r] = "auth" => call[r].op \in {"create", "delete", "task"}
  /\ pc[r] = "count" => call[r].op \in {"setup", "sso"}
  /\ pc[r] = "insert" => call[r].op \in {"setup", "create", "sso"}
  /\ pc[r] = "addtask" => call[r].op = "task"
  /\ pc[r] \in {"target", "admins", "tasks", "delete"} => call[r].op = "delete"
  /\ pc[r] \in {"linked", "email", "username", "link", "sync", "name"} => call[r].op = "sso"
  /\ pc[r] \in {"link", "sync"} => who[r] \in Ids

(* There is an id for every insert that may still happen. *)
IdsSuffice == nextId + Cardinality(Inserting) <= MaxId + 1

TInv == TypeOK /\ IdsSuffice /\ \A r \in Requests : OpAt(r)

----------------------------------------------------------------------------
(* The fields of a call, by operation. *)
LEMMA CallFields ==
  ASSUME NEW c \in Call
  PROVE  /\ c.op \in AllOps
         /\ c.op \in {"setup", "create"} => c.name \in Names
         /\ c.op = "create" => c.admin \in BOOLEAN
         /\ c.op \in {"create", "delete", "task"} => c.actor \in Ids
         /\ c.op = "delete" => c.target \in Ids
         /\ c.op = "sso" => /\ c.sub \in Subjects /\ c.base \in Bases
                            /\ c.email \in Emails \cup {NoEmail} /\ c.group \in BOOLEAN
BY DEF Call, AllOps

(* What an insert writes is a row. *)
LEMMA NewUserType ==
  ASSUME TypeOK, NEW r \in Requests, pc[r] # "idle", call[r].op \in {"setup", "create", "sso"}
  PROVE  NewUser(r) \in User
<1>1. call[r] \in Call /\ suffix[r] \in 1..MaxSuffix /\ flag[r] \in BOOLEAN
  BY DEF TypeOK
<1>2. CASE call[r].op = "setup"
  BY <1>1, <1>2, CallFields DEF NewUser, Bootstrap, User
<1>3. CASE call[r].op = "create"
  BY <1>1, <1>3, CallFields DEF NewUser, Bootstrap, User
<1>4. CASE call[r].op = "sso"
  <2>1. NewUser(r) = [name |-> <<call[r].base, suffix[r]>>,
                      admin |-> (AdminGroup /\ call[r].group) \/ flag[r],
                      link |-> call[r].sub, email |-> call[r].email]
    BY <1>4 DEF NewUser
  <2>2. <<call[r].base, suffix[r]>> \in Names
    BY <1>1, <1>4, CallFields DEF Names
  <2> QED
    BY <1>1, <1>4, <2>1, <2>2, CallFields DEF User
<1> QED
  BY <1>2, <1>3, <1>4

(* A handler changes the locals of its own slot only. *)
Alone(r) == \A s \in Requests \ {r} :
              /\ pc'[s] = pc[s] /\ call'[s] = call[s] /\ who'[s] = who[s]
              /\ flag'[s] = flag[s] /\ suffix'[s] = suffix[s]

(* The steps of slot r that only read the tables. *)
Reads(r) == \/ Begin(r) \/ Authenticate(r) \/ CountUsers(r) \/ UniqueUsername(r)
            \/ ReadTarget(r) \/ CountAdmins(r) \/ CountTasksForUser(r)
            \/ GetUserByOIDC(r) \/ LinkByVerifiedEmail(r) \/ LinkByName(r) \/ Fail(r)
Writes(r) == InsertUser(r) \/ DeleteUser(r) \/ AddTask(r) \/ LinkOIDCIdentity(r) \/ ApplyAdminSync(r)

LEMMA NextCases ==
  ASSUME Next
  PROVE  \/ \E r \in Requests : Reads(r) \/ Writes(r)
         \/ \E u \in Ids : DropTasks(u)
BY DEF Next, Reads, Writes, Manage, Sso

LEMMA ReadsTable == ASSUME NEW r, Reads(r) PROVE UNCHANGED table
BY DEF Reads, Begin, Authenticate, CountUsers, UniqueUsername, ReadTarget, CountAdmins,
       CountTasksForUser, GetUserByOIDC, LinkByVerifiedEmail, LinkByName, Fail

LEMMA StepsAlone ==
  ASSUME TypeOK, NEW r \in Requests, Reads(r) \/ Writes(r)
  PROVE  Alone(r)
<1> USE DEF TypeOK, Alone, Reply, Goto, Found
<1>1. CASE Begin(r) \/ Authenticate(r) \/ CountUsers(r) \/ UniqueUsername(r)
  BY <1>1 DEF Begin, Authenticate, CountUsers, UniqueUsername
<1>2. CASE ReadTarget(r) \/ CountAdmins(r) \/ CountTasksForUser(r) \/ Fail(r)
  BY <1>2 DEF ReadTarget, CountAdmins, CountTasksForUser, Fail
<1>3. CASE GetUserByOIDC(r) \/ LinkByVerifiedEmail(r) \/ LinkByName(r)
  BY <1>3 DEF GetUserByOIDC, LinkByVerifiedEmail, LinkByName
<1>4. CASE Writes(r)
  BY <1>4 DEF Writes, InsertUser, DeleteUser, AddTask, LinkOIDCIdentity, ApplyAdminSync
<1> QED
  BY <1>1, <1>2, <1>3, <1>4 DEF Reads

----------------------------------------------------------------------------
(* Types.                                                                  *)

TableType == /\ users \in [Ids -> User \cup {NoUser}]
             /\ nextId \in 1..(MaxId + 1)
             /\ owners \subseteq Ids

(* The ways in which a step leaves the locals of its slot. *)
LEMMA ReplyType ==
  ASSUME TypeOK, TableType', NEW r \in Requests, Reply(r)
  PROVE  TypeOK' /\ OpAt(r)'
BY BoundsAssumption DEF TypeOK, TableType, Reply, OpAt, Steps

LEMMA GotoType ==
  ASSUME TypeOK, TableType', NEW r \in Requests, NEW s \in Steps, pc[r] # "idle", Goto(r, s)
  PROVE  TypeOK' /\ pc'[r] = s /\ call'[r] = call[r] /\ who'[r] = who[r]
BY DEF TypeOK, TableType, Goto

LEMMA FoundType ==
  ASSUME TypeOK, TableType', NEW r \in Requests, NEW s \in Steps, pc[r] # "idle",
         NEW u \in Existing, Found(r, u, s)
  PROVE  TypeOK' /\ pc'[r] = s /\ call'[r] = call[r] /\ who'[r] = u /\ u \in Ids
<1>1. u \in Ids /\ users[u] \in User
  BY DEF TypeOK, Existing
<1>2. users[u].admin \in BOOLEAN
  BY <1>1 DEF User
<1> QED
  BY <1>1, <1>2 DEF TypeOK, TableType, Found

LEMMA SlotFacts ==
  ASSUME TInv, NEW r \in Requests
  PROVE  /\ TypeOK /\ TableType /\ OpAt(r)
         /\ UNCHANGED table => TableType'
         /\ pc[r] # "idle" => call[r] \in Call /\ call[r].op \in AllOps
BY CallFields DEF TInv, TypeOK, TableType, table

LEMMA BeginType ==
  ASSUME TInv, NEW r \in Requests, Begin(r)
  PROVE  TypeOK' /\ OpAt(r)'
<1>1. PICK c \in Call : /\ c.op \in May[r]
                       /\ call' = [call EXCEPT ![r] = c]
                       /\ pc' = [pc EXCEPT ![r] = CASE c.op = "setup" -> "count"
                                                    [] c.op = "sso" -> "linked"
                                                    [] OTHER -> "auth"]
  BY DEF Begin
<1>2. c.op \in AllOps /\ TypeOK /\ UNCHANGED <<who, flag, suffix, table>>
  BY CallFields DEF TInv, Begin
<1>3. /\ pc' \in [Requests -> Steps] /\ call' \in [Requests -> Call \cup {NoCall}]
      /\ call'[r] = c /\ \A s \in Requests \ {r} : pc'[s] = pc[s] /\ call'[s] = call[s]
      /\ pc'[r] = CASE c.op = "setup" -> "count" [] c.op = "sso" -> "linked" [] OTHER -> "auth"
  BY <1>1, <1>2 DEF TypeOK, Steps
<1>4. \/ pc'[r] = "count" /\ c.op = "setup"
      \/ pc'[r] = "linked" /\ c.op = "sso"
      \/ pc'[r] = "auth" /\ c.op \in {"create", "delete", "task"}
  BY <1>2, <1>3 DEF AllOps
<1>5. TypeOK'
  BY <1>2, <1>3 DEF TypeOK, table
<1>6. OpAt(r)'
  BY <1>1, <1>3, <1>4 DEF OpAt
<1> QED
  BY <1>5, <1>6

LEMMA ReadsType ==
  ASSUME TInv, NEW r \in Requests, Reads(r)
  PROVE  TypeOK' /\ OpAt(r)'
<1>1. TypeOK /\ TableType' /\ OpAt(r)
  BY SlotFacts, ReadsTable
<1>2. CASE Reply(r)
  BY <1>1, <1>2, ReplyType
<1>3. ASSUME NEW s \in Steps, pc[r] # "idle", Goto(r, s),
             s # "sync" /\ s # "link",
             /\ s = "addtask" => call[r].op = "task"
             /\ s = "insert" => call[r].op \in {"setup", "create", "sso"}
             /\ s \in {"target", "admins", "tasks", "delete"} => call[r].op = "delete"
             /\ s \in {"count", "email", "username", "name", "linked"} => call[r].op = "sso",
             s # "auth"
      PROVE  TypeOK' /\ OpAt(r)'
  <2>1. TypeOK' /\ pc'[r] = s /\ call'[r] = call[r] /\ who'[r] = who[r]
    BY <1>1, <1>3, GotoType
  <2> QED
    BY <1>1, <1>3, <2>1 DEF OpAt
<1>4. ASSUME NEW u \in Existing, NEW s \in {"sync", "link"}, pc[r] # "idle", Found(r, u, s),
             call[r].op = "sso"
      PROVE  TypeOK' /\ OpAt(r)'
  <2>1. TypeOK' /\ pc'[r] = s /\ call'[r] = call[r] /\ who'[r] = u /\ u \in Ids
    BY <1>1, <1>4, FoundType DEF Steps
  <2> QED
    BY <1>1, <1>4, <2>1 DEF OpAt
<1>5. CASE Begin(r)
  BY <1>5, BeginType
<1>6. CASE Authenticate(r)
  BY <1>1, <1>2, <1>3, <1>6 DEF Authenticate, OpAt, Steps
<1>7. CASE CountUsers(r)
  <2>1. CASE call[r].op = "setup"
    BY <1>1, <1>2, <1>3, <1>7, <2>1 DEF CountUsers, Steps
  <2>2. CASE call[r].op # "setup"
    BY <1>1, <1>7, <2>2 DEF CountUsers, OpAt, TypeOK, TableType, Steps
  <2> QED
    BY <2>1, <2>2
<1>8. CASE UniqueUsername(r)
  <2>1. CASE suffix' = [suffix EXCEPT ![r] = @ + 1] /\ suffix[r] < MaxSuffix
             /\ UNCHANGED <<call, pc, who, flag>>
    BY <1>1, <2>1, BoundsAssumption DEF OpAt, TypeOK, TableType
  <2>2. CASE Goto(r, "insert")
    BY <1>1, <1>3, <1>8, <2>2 DEF UniqueUsername, OpAt, Steps
  <2> QED
    BY <1>2, <1>8, <2>1, <2>2 DEF UniqueUsername
<1>9. CASE ReadTarget(r) \/ CountAdmins(r) \/ CountTasksForUser(r)
  BY <1>1, <1>2, <1>3, <1>9 DEF ReadTarget, CountAdmins, CountTasksForUser, OpAt, Steps
<1>10. CASE Fail(r)
  BY <1>2, <1>10 DEF Fail
<1>11. CASE GetUserByOIDC(r)
  BY <1>1, <1>3, <1>4, <1>11 DEF GetUserByOIDC, OpAt, Linked, Steps
<1>12. CASE LinkByVerifiedEmail(r)
  BY <1>1, <1>3, <1>4, <1>12 DEF LinkByVerifiedEmail, OpAt, OfEmail, Steps
<1>13. CASE LinkByName(r)
  BY <1>1, <1>2, <1>3, <1>4, <1>13 DEF LinkByName, OpAt, Named, Steps
<1> QED
  BY <1>5, <1>6, <1>7, <1>8, <1>9, <1>10, <1>11, <1>12, <1>13 DEF Reads

LEMMA WritesType ==
  ASSUME TInv, NEW r \in Requests, Writes(r), nextId <= MaxId \/ nextId' = nextId
  PROVE  TypeOK' /\ OpAt(r)'
<1>1. TypeOK /\ TableType /\ OpAt(r) /\ pc[r] # "idle" /\ call[r] \in Call
  BY SlotFacts DEF Writes, InsertUser, DeleteUser, AddTask, LinkOIDCIdentity, ApplyAdminSync
<1>2. CASE InsertUser(r)
  <2>1. NewUser(r) \in User
    BY <1>1, <1>2, NewUserType DEF InsertUser, OpAt
  <2>2. TableType'
    BY <1>1, <1>2, <2>1, BoundsAssumption DEF InsertUser, TableType
  <2> QED
    BY <1>1, <1>2, <2>2, ReplyType DEF InsertUser
<1>3. CASE DeleteUser(r)
  <2>1. TableType'
    BY <1>1, <1>3 DEF DeleteUser, TableType
  <2> QED
    BY <1>1, <1>3, <2>1, ReplyType DEF DeleteUser
<1>4. CASE AddTask(r)
  <2>1. call[r].actor \in Ids
    BY <1>1, <1>4, CallFields DEF AddTask, OpAt
  <2>2. TableType'
    BY <1>1, <1>4, <2>1 DEF AddTask, TableType
  <2> QED
    BY <1>1, <1>4, <2>2, ReplyType DEF AddTask
<1>5. CASE LinkOIDCIdentity(r)
  <2> DEFINE u == who[r]
             row == [users[u] EXCEPT !.link = call[r].sub,
                                     !.email = IF call[r].email = NoEmail THEN @ ELSE call[r].email]
  <2>1. ASSUME u \in Existing PROVE row \in User
    <3>1. users[u] \in User
      BY <1>1, <2>1 DEF TableType, Existing
    <3> QED
      BY <1>1, <1>5, <3>1, CallFields DEF LinkOIDCIdentity, OpAt, User
  <2>2. TableType'
    BY <1>1, <1>5, <2>1 DEF LinkOIDCIdentity, TableType
  <2>3. CASE Reply(r)
    BY <1>1, <2>2, <2>3, ReplyType
  <2>4. CASE Goto(r, "sync")
    <3>1. TypeOK' /\ pc'[r] = "sync" /\ call'[r] = call[r] /\ who'[r] = who[r]
      BY <1>1, <2>2, <2>4, GotoType DEF Steps
    <3> QED
      BY <1>1, <1>5, <3>1 DEF OpAt, LinkOIDCIdentity
  <2> QED
    BY <1>5, <2>3, <2>4 DEF LinkOIDCIdentity
<1>6. CASE ApplyAdminSync(r)
  <2>1. ASSUME who[r] \in Existing PROVE [users[who[r]] EXCEPT !.admin = call[r].group] \in User
    <3>1. users[who[r]] \in User
      BY <1>1, <2>1 DEF TableType, Existing
    <3> QED
      BY <1>1, <1>6, <3>1, CallFields DEF ApplyAdminSync, OpAt, User
  <2>2. TableType'
    BY <1>1, <1>6, <2>1 DEF ApplyAdminSync, TableType
  <2> QED
    BY <1>1, <1>6, <2>2, ReplyType DEF ApplyAdminSync
<1> QED
  BY <1>2, <1>3, <1>4, <1>5, <1>6 DEF Writes

(* The slots that may insert. *)
LEMMA InsertingShrinks ==
  ASSUME NEW S, NEW S2, S2 \subseteq S, S \subseteq Requests
  PROVE  /\ Cardinality(S) \in Nat /\ Cardinality(S2) \in Nat
         /\ Cardinality(S2) <= Cardinality(S)
         /\ \A r \in S : r \notin S2 => Cardinality(S2) + 1 <= Cardinality(S)
<1>1. IsFiniteSet(S) /\ IsFiniteSet(S2)
  BY RequestsAssumption, FS_Subset
<1>2. Cardinality(S) \in Nat /\ Cardinality(S2) \in Nat /\ Cardinality(S2) <= Cardinality(S)
  BY <1>1, FS_CardinalityType, FS_Subset
<1>3. ASSUME NEW r \in S, r \notin S2 PROVE Cardinality(S2) + 1 <= Cardinality(S)
  <2>1. S2 \cup {r} \subseteq S
    BY <1>3
  <2>2. Cardinality(S2 \cup {r}) = Cardinality(S2) + 1
    BY <1>1, <1>3, FS_AddElement
  <2> QED
    BY <1>1, <2>1, <2>2, FS_Subset
<1> QED
  BY <1>2, <1>3

LEMMA IdsStep ==
  ASSUME TInv, NEW r \in Requests, Reads(r) \/ Writes(r)
  PROVE  IdsSuffice' /\ (nextId <= MaxId \/ nextId' = nextId)
<1>1. /\ TypeOK /\ IdsSuffice /\ Alone(r) /\ OpAt(r)
      /\ nextId \in Nat /\ MaxId \in Nat
  BY StepsAlone, BoundsAssumption DEF TInv, TypeOK
<1> DEFINE S == Inserting
           S2 == Inserting'
<1>2. S \subseteq Requests /\ S2 \subseteq Requests
  BY DEF Inserting
<1>3. CASE Begin(r)
  <2>1. S2 \subseteq S \cup {r}
    BY <1>1 DEF Inserting, Alone
  <2>2. r \notin S /\ nextId' = nextId
    BY <1>3 DEF Begin, Inserting, table
  <2>3. CASE r \in S2
    <3>1. PICK c \in Call : /\ c.op \in {"setup", "create", "sso"} => IdsLeft
                           /\ call' = [call EXCEPT ![r] = c]
      BY <1>3 DEF Begin
    <3>2. call'[r] = c
      BY <1>1, <3>1 DEF TypeOK
    <3>3. IdsLeft
      BY <2>3, <3>1, <3>2 DEF Inserting
    <3>4. IsFiniteSet(S) /\ Cardinality(S) \in Nat
      BY <1>2, RequestsAssumption, FS_Subset, FS_CardinalityType
    <3>5. Cardinality(S \cup {r}) = Cardinality(S) + 1
      BY <2>2, <3>4, FS_AddElement
    <3>6. Cardinality(S2) \in Nat /\ Cardinality(S2) <= Cardinality(S) + 1
      BY <1>2, <2>1, <3>5, InsertingShrinks
    <3>7. nextId + Cardinality(S) <= MaxId
      BY <3>3 DEF IdsLeft
    <3> HIDE DEF S, S2
    <3>8. nextId' + Cardinality(S2) <= MaxId + 1
      BY <1>1, <2>2, <3>4, <3>6, <3>7
    <3> QED
      BY <2>2, <3>8 DEF IdsSuffice, S2
  <2>4. CASE r \notin S2
    <3>1. Cardinality(S2) \in Nat /\ Cardinality(S) \in Nat /\ Cardinality(S2) <= Cardinality(S)
      BY <1>2, <2>1, <2>4, InsertingShrinks
    <3> QED
      BY <1>1, <2>2, <3>1 DEF IdsSuffice
  <2> QED
    BY <2>3, <2>4
<1>4. CASE InsertUser(r)
  <2>1. r \in S /\ r \notin S2 /\ S2 \subseteq S
    BY <1>1, <1>4 DEF InsertUser, Inserting, Alone, OpAt, Reply, TypeOK
  <2>2. /\ Cardinality(S2) \in Nat /\ Cardinality(S) \in Nat
        /\ Cardinality(S2) + 1 <= Cardinality(S)
    BY <1>2, <2>1, InsertingShrinks
  <2>3. nextId' \in {nextId, nextId + 1}
    BY <1>4 DEF InsertUser
  <2>4. nextId + Cardinality(S) <= MaxId + 1
    BY <1>1 DEF IdsSuffice
  <2> HIDE DEF S, S2
  <2>5. nextId' + Cardinality(S2) <= MaxId + 1 /\ nextId <= MaxId
    BY <1>1, <2>2, <2>3, <2>4
  <2> QED
    BY <2>5 DEF IdsSuffice, S2
<1>5. CASE ~Begin(r) /\ ~InsertUser(r)
  <2>1. nextId' = nextId
    BY <1>5, ReadsTable DEF Writes, DeleteUser, AddTask, LinkOIDCIdentity, ApplyAdminSync, table
  <2>2. pc[r] # "idle" /\ (pc'[r] = "idle" \/ call'[r] = call[r])
    BY <1>1, <1>5 DEF Reads, Writes, Authenticate, CountUsers, UniqueUsername, ReadTarget, CountAdmins,
         CountTasksForUser, GetUserByOIDC, LinkByVerifiedEmail, LinkByName, Fail,
         DeleteUser, AddTask, LinkOIDCIdentity, ApplyAdminSync, Reply, Goto, Found, TypeOK
  <2>3. S2 \subseteq S
    BY <1>1, <2>2 DEF Inserting, Alone
  <2>4. Cardinality(S2) \in Nat /\ Cardinality(S) \in Nat /\ Cardinality(S2) <= Cardinality(S)
    BY <1>2, <2>3, InsertingShrinks
  <2> QED
    BY <1>1, <2>1, <2>4 DEF IdsSuffice
<1> QED
  BY <1>3, <1>4, <1>5

LEMMA TypeStep == TInv /\ [Next]_vars => TInv'
<1> SUFFICES ASSUME TInv, [Next]_vars PROVE TInv'
  OBVIOUS
<1>1. ASSUME NEW r \in Requests, Reads(r) \/ Writes(r) PROVE TInv'
  <2>1. TypeOK' /\ OpAt(r)' /\ IdsSuffice' /\ Alone(r)
    BY <1>1, ReadsType, WritesType, IdsStep, StepsAlone DEF TInv
  <2>2. ASSUME NEW s \in Requests PROVE OpAt(s)'
    BY <2>1 DEF OpAt, TInv, Alone
  <2> QED
    BY <2>1, <2>2 DEF TInv
<1>2. ASSUME NEW u \in Ids, DropTasks(u) PROVE TInv'
  <2>1. TypeOK' /\ UNCHANGED <<nextId, local>>
    BY <1>2 DEF DropTasks, TInv, TypeOK, local
  <2> QED
    BY <2>1 DEF TInv, IdsSuffice, Inserting, OpAt, local
<1>3. CASE UNCHANGED vars
  BY <1>3 DEF TInv, TypeOK, IdsSuffice, Inserting, OpAt, vars
<1> QED
  BY <1>1, <1>2, <1>3, NextCases

LEMMA TypeInit == Init => TInv
<1> SUFFICES ASSUME Init PROVE TInv
  OBVIOUS
<1>1. \A n \in Names : Bootstrap(n) \in User
  BY DEF Bootstrap, User
<1>2. nextId \in 1..2 /\ users \in [Ids -> User \cup {NoUser}]
  BY <1>1, BoundsAssumption DEF Init
<1>3. TypeOK
  BY <1>2, BoundsAssumption DEF Init, TypeOK, Steps
<1>4. Inserting = {}
  BY DEF Init, Inserting
<1>5. IdsSuffice
  BY <1>2, <1>4, BoundsAssumption, FS_EmptySet DEF IdsSuffice
<1> QED
  BY <1>3, <1>5 DEF TInv, OpAt, Init

(* The tables and the locals of the handlers keep their types, and the     *)
(* candidates of uniqueUsername stay within their limit.                   *)
THEOREM TypeCorrect == Spec => []TypeOK
<1>1. TInv => TypeOK
  BY DEF TInv
<1> QED
  BY TypeInit, TypeStep, <1>1, PTL DEF Spec

----------------------------------------------------------------------------
(* What the writes do to the rows.                                         *)

LEMMA InsertEffect ==
  ASSUME TInv, NEW r \in Requests, InsertUser(r)
  PROVE  /\ pc[r] = "insert" /\ OpAt(r) /\ UNCHANGED owners /\ nextId \in Ids
         /\ NewUser(r) \in User /\ NewUser(r) # NoUser
         /\ \/ UNCHANGED table
            \/ /\ Unique(NewUser(r)) /\ nextId' = nextId + 1
               /\ users' = [users EXCEPT ![nextId] = NewUser(r)]
               /\ users'[nextId] = NewUser(r)
               /\ \A u \in Ids \ {nextId} : users'[u] = users[u]
<1>1. TypeOK /\ OpAt(r) /\ pc[r] = "insert" /\ UNCHANGED owners
  BY DEF TInv, InsertUser
<1>2. NewUser(r) \in User /\ NewUser(r) # NoUser
  BY <1>1, NewUserType, NoneAssumption DEF OpAt
<1>3. nextId \in Ids
  <2>1. r \in Inserting /\ Inserting \subseteq Requests
    BY <1>1 DEF Inserting, OpAt
  <2>2. Cardinality({}) + 1 <= Cardinality(Inserting) /\ Cardinality({}) = 0
        /\ Cardinality(Inserting) \in Nat
    BY <2>1, InsertingShrinks, FS_EmptySet
  <2>3. nextId + Cardinality(Inserting) <= MaxId + 1 /\ nextId \in 1..(MaxId + 1)
    BY DEF TInv, TypeOK, IdsSuffice
  <2> QED
    BY <2>2, <2>3, BoundsAssumption DEF Ids
<1> QED
  BY <1>1, <1>2, <1>3 DEF InsertUser, TypeOK, table

LEMMA LinkEffect ==
  ASSUME TInv, NEW r \in Requests, LinkOIDCIdentity(r)
  PROVE  /\ pc[r] = "link" /\ who[r] \in Ids /\ UNCHANGED <<nextId, owners>>
         /\ \/ users' = users
            \/ /\ who[r] \in Existing /\ Linked(call[r].sub) \subseteq {who[r]}
               /\ users'[who[r]] \in User /\ users'[who[r]] # NoUser
               /\ users'[who[r]].link = call[r].sub
               /\ users'[who[r]].admin = users[who[r]].admin
               /\ \A u \in Ids \ {who[r]} : users'[u] = users[u]
<1> DEFINE u == who[r]
           row == [users[u] EXCEPT !.link = call[r].sub,
                                   !.email = IF call[r].email = NoEmail THEN @ ELSE call[r].email]
<1>1. /\ TypeOK /\ OpAt(r) /\ pc[r] = "link" /\ UNCHANGED <<nextId, owners>> /\ call[r] \in Call
      /\ u \in Ids /\ call[r].op = "sso"
  BY DEF TInv, TypeOK, LinkOIDCIdentity, OpAt
<1>2. CASE UNCHANGED users
  BY <1>1, <1>2
<1>3. CASE u \in Existing /\ Linked(call[r].sub) \subseteq {u} /\ users' = [users EXCEPT ![u] = row]
  <2>1. users[u] \in User
    BY <1>1, <1>3 DEF TypeOK, Existing
  <2>2. row \in User /\ row.link = call[r].sub /\ row.admin = users[u].admin
    BY <1>1, <2>1, CallFields DEF User
  <2>3. row # NoUser
    BY <2>2, NoneAssumption
  <2>4. users'[u] = row /\ \A v \in Ids \ {u} : users'[v] = users[v]
    BY <1>1, <1>3 DEF TypeOK
  <2> QED
    BY <1>1, <1>3, <2>2, <2>3, <2>4
<1> QED
  BY <1>1, <1>2, <1>3 DEF LinkOIDCIdentity

LEMMA SyncEffect ==
  ASSUME TInv, NEW r \in Requests, ApplyAdminSync(r)
  PROVE  /\ UNCHANGED <<nextId, owners>>
         /\ \A u \in Ids : (users'[u] = NoUser) <=> (users[u] = NoUser)
         /\ \A u \in Ids : users[u] # NoUser => users'[u].link = users[u].link
<1> DEFINE row == [users[who[r]] EXCEPT !.admin = call[r].group]
<1>1. TypeOK /\ OpAt(r) /\ call[r] \in Call /\ who[r] \in Ids /\ call[r].op = "sso"
  BY DEF TInv, TypeOK, ApplyAdminSync, OpAt
<1>2. CASE users' = users
  BY <1>1, <1>2 DEF ApplyAdminSync
<1>3. CASE users' = [users EXCEPT ![who[r]] = row] /\ who[r] \in Existing /\ AdminGroup
  <2>1. users[who[r]] \in User /\ users[who[r]] # NoUser
    BY <1>1, <1>3 DEF TypeOK, Existing
  <2>2. row \in User /\ row.link = users[who[r]].link
    BY <1>1, <2>1, CallFields DEF User
  <2>3. row # NoUser
    BY <2>2, NoneAssumption
  <2>4. users'[who[r]] = row /\ \A u \in Ids \ {who[r]} : users'[u] = users[u]
    BY <1>1, <1>3 DEF TypeOK
  <2> QED
    BY <1>1, <1>3, <2>1, <2>2, <2>3, <2>4 DEF ApplyAdminSync
<1> QED
  BY <1>2, <1>3 DEF ApplyAdminSync

LEMMA DeleteEffect ==
  ASSUME TInv, NEW r \in Requests, DeleteUser(r)
  PROVE  /\ UNCHANGED <<nextId, owners>> /\ pc[r] = "delete" /\ OpAt(r)
         /\ call[r].target \in Ids
         /\ \/ users' = users
            \/ call[r].target \notin owners /\ users'[call[r].target] = NoUser
         /\ \A u \in Ids \ {call[r].target} : users'[u] = users[u]
<1>1. TypeOK /\ OpAt(r) /\ pc[r] = "delete" /\ call[r] \in Call /\ call[r].target \in Ids
  BY CallFields DEF TInv, TypeOK, DeleteUser, OpAt
<1> QED
  BY <1>1 DEF DeleteUser, TypeOK

----------------------------------------------------------------------------
(* The owner of a task always exists.                                      *)

LEMMA OwnerStep == TInv /\ TaskOwnerExists /\ [Next]_vars => TaskOwnerExists'
<1> SUFFICES ASSUME TInv, TaskOwnerExists, [Next]_vars PROVE TaskOwnerExists'
  OBVIOUS
<1> USE DEF TaskOwnerExists, Existing
<1>1. ASSUME NEW r \in Requests, Reads(r) PROVE TaskOwnerExists'
  BY <1>1, ReadsTable DEF table
<1>2. ASSUME NEW r \in Requests, InsertUser(r) PROVE TaskOwnerExists'
  BY <1>2, InsertEffect DEF table
<1>3. ASSUME NEW r \in Requests, DeleteUser(r) PROVE TaskOwnerExists'
  BY <1>3, DeleteEffect
<1>4. ASSUME NEW r \in Requests, AddTask(r) PROVE TaskOwnerExists'
  BY <1>4 DEF AddTask
<1>5. ASSUME NEW r \in Requests, LinkOIDCIdentity(r) PROVE TaskOwnerExists'
  BY <1>5, LinkEffect
<1>6. ASSUME NEW r \in Requests, ApplyAdminSync(r) PROVE TaskOwnerExists'
  <2>1. /\ UNCHANGED owners
        /\ \A u \in Ids : (users'[u] = NoUser) <=> (users[u] = NoUser)
        /\ \A u \in Ids : users[u] # NoUser => users'[u].link = users[u].link
    BY <1>6, SyncEffect
  <2> QED
    BY <2>1
<1>7. ASSUME NEW u \in Ids, DropTasks(u) PROVE TaskOwnerExists'
  BY <1>7 DEF DropTasks
<1>8. CASE UNCHANGED vars
  BY <1>8 DEF vars
<1> QED
  BY <1>1, <1>2, <1>3, <1>4, <1>5, <1>6, <1>7, <1>8, NextCases DEF Writes

(* However deletions of users and creations of tasks interleave, no task   *)
(* is left without its owner.                                              *)
THEOREM OwnersExist == Spec => []TaskOwnerExists
<1>1. Init => TaskOwnerExists
  BY DEF Init, TaskOwnerExists
<1> QED
  BY TypeInit, TypeStep, <1>1, OwnerStep, PTL DEF Spec

----------------------------------------------------------------------------
(* One account per identity.                                               *)

LEMMA IdentityStep == TInv /\ IdentityUnique /\ [Next]_vars => IdentityUnique'
<1> SUFFICES ASSUME TInv, IdentityUnique, [Next]_vars PROVE IdentityUnique'
  OBVIOUS
<1> USE DEF IdentityUnique, Existing
<1>1. ASSUME NEW r \in Requests, Reads(r) \/ AddTask(r) PROVE IdentityUnique'
  BY <1>1, ReadsTable DEF table, AddTask
<1>2. ASSUME NEW r \in Requests, InsertUser(r) PROVE IdentityUnique'
  BY <1>2, InsertEffect DEF table, Unique, Linked
<1>3. ASSUME NEW r \in Requests, DeleteUser(r) PROVE IdentityUnique'
  BY <1>3, DeleteEffect
<1>4. ASSUME NEW r \in Requests, LinkOIDCIdentity(r) PROVE IdentityUnique'
  BY <1>4, LinkEffect DEF Linked
<1>5. ASSUME NEW r \in Requests, ApplyAdminSync(r) PROVE IdentityUnique'
  <2>1. /\ UNCHANGED owners
        /\ \A u \in Ids : (users'[u] = NoUser) <=> (users[u] = NoUser)
        /\ \A u \in Ids : users[u] # NoUser => users'[u].link = users[u].link
    BY <1>5, SyncEffect
  <2> QED
    BY <2>1
<1>6. ASSUME NEW u \in Ids, DropTasks(u) PROVE IdentityUnique'
  BY <1>6 DEF DropTasks
<1>7. CASE UNCHANGED vars
  BY <1>7 DEF vars
<1> QED
  BY <1>1, <1>2, <1>3, <1>4, <1>5, <1>6, <1>7, NextCases DEF Writes

(* However many sign-ons of one identity are being resolved, it never      *)
(* belongs to two accounts.                                                *)
THEOREM IdentitiesUnique == Spec => []IdentityUnique
<1>1. Init => IdentityUnique
  <2> SUFFICES ASSUME Init PROVE IdentityUnique
    OBVIOUS
  <2>1. \A u \in Existing : users[u].link = NoSubject
    BY DEF Init, Existing, Bootstrap
  <2> QED
    BY <2>1 DEF IdentityUnique
<1> QED
  BY TypeInit, TypeStep, <1>1, IdentityStep, PTL DEF Spec
=============================================================================
