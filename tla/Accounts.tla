------------------------------ MODULE Accounts ------------------------------
(***************************************************************************)
(* The user accounts: first-run setup, the admins' user management and the *)
(* resolution of a single sign-on (backend/auth.go, oidc.go, db.go).       *)
(*                                                                         *)
(* As in Completions one action is one SQL statement of a handler with the *)
(* branches taken on its result; the statements of concurrent requests     *)
(* interleave.  What each handler checks is read before it writes, and     *)
(* only the constraints of the tables are checked together with the write. *)
(***************************************************************************)
EXTENDS Naturals, FiniteSets

CONSTANTS MaxId,       \* bound: AUTOINCREMENT ids in this instance
          Bases,       \* user names as claimed or typed
          MaxSuffix,   \* uniqueUsername gives up after this candidate (10000 in the code)
          Subjects,    \* (issuer, subject) pairs of the identity provider
          Emails,
          Requests,    \* request slots
          May,         \* per slot: the operations it serves in this instance
          AdminGroup,  \* OIDC_ADMIN_GROUP is set
          AllowSignup, LinkByEmail, LinkByUsername,  \* OIDC_ALLOW_SIGNUP, OIDC_LINK_BY_...
          NoUser, NoSubject, NoEmail, NoCall

Ids == 1..MaxId
(* base, base-2, base-3, ... *)
Names == Bases \X (1..MaxSuffix)

AllOps == {"setup", "create", "delete", "task", "sso"}
Call == [op : {"setup"}, name : Names]
        \cup [op : {"create"}, actor : Ids, name : Names, admin : BOOLEAN]
        \cup [op : {"delete"}, actor : Ids, target : Ids]
        \cup [op : {"task"}, actor : Ids]
        \cup [op : {"sso"}, sub : Subjects, base : Bases, email : Emails \cup {NoEmail},
              verified : BOOLEAN, group : BOOLEAN]
User == [name : Names, admin : BOOLEAN, link : Subjects \cup {NoSubject},
         email : Emails \cup {NoEmail}]

ASSUME BoundsAssumption == MaxId \in Nat \ {0} /\ MaxSuffix \in Nat \ {0}
ASSUME RequestsAssumption == IsFiniteSet(Requests)
ASSUME FlagsAssumption ==
  AdminGroup \in BOOLEAN /\ AllowSignup \in BOOLEAN /\ LinkByEmail \in BOOLEAN /\ LinkByUsername \in BOOLEAN
ASSUME MayAssumption == May \in [Requests -> SUBSET AllOps]
ASSUME NoneAssumption ==
  NoUser \notin User /\ NoSubject \notin Subjects /\ NoEmail \notin Emails /\ NoCall \notin Call

VARIABLES
  users,    \* the rows of table users, by id
  nextId,   \* the id the next insert gets
  owners,   \* the ids that tasks.user_id holds
  call,     \* per slot: what was asked
  pc,       \* per slot: the step the handler is at
  who,      \* per slot: the id of the account a sign-on resolved to
  flag,     \* per slot: what the last read said (is an admin / no users)
  suffix    \* per slot: the candidate of uniqueUsername

table == <<users, nextId, owners>>
local == <<call, pc, who, flag, suffix>>
vars == <<users, nextId, owners, call, pc, who, flag, suffix>>

Steps == {"idle", "auth", "count", "insert", "addtask", "target", "admins", "tasks",
          "delete", "linked", "email", "username", "link", "sync", "name"}

Existing == {u \in Ids : users[u] # NoUser}
Admins == {u \in Existing : users[u].admin}
Linked(s) == {u \in Existing : users[u].link = s}
Named(n) == {u \in Existing : users[u].name = n}

----------------------------------------------------------------------------
(* Init: an empty database, or the administrator that ADMIN_USERNAME and   *)
(* ADMIN_PASSWORD create before the server listens.                        *)

Bootstrap(n) == [name |-> n, admin |-> TRUE, link |-> NoSubject, email |-> NoEmail]

Init == /\ \/ users = [u \in Ids |-> NoUser] /\ nextId = 1
           \/ \E n \in Names :
                /\ users = [u \in Ids |-> IF u = 1 THEN Bootstrap(n) ELSE NoUser]
                /\ nextId = 2
        /\ owners = {}
        /\ call = [r \in Requests |-> NoCall]
        /\ pc = [r \in Requests |-> "idle"]
        /\ who = [r \in Requests |-> 0]
        /\ flag = [r \in Requests |-> FALSE]
        /\ suffix = [r \in Requests |-> 1]

Reply(r) == /\ call' = [call EXCEPT ![r] = NoCall]
            /\ pc' = [pc EXCEPT ![r] = "idle"]
            /\ who' = [who EXCEPT ![r] = 0]
            /\ flag' = [flag EXCEPT ![r] = FALSE]
            /\ suffix' = [suffix EXCEPT ![r] = 1]

Goto(r, s) == /\ pc' = [pc EXCEPT ![r] = s]
              /\ UNCHANGED <<call, who, flag, suffix>>

(* The handler goes on with the account u its SELECT found. *)
Found(r, u, s) == /\ pc' = [pc EXCEPT ![r] = s]
                  /\ who' = [who EXCEPT ![r] = u]
                  /\ flag' = [flag EXCEPT ![r] = users[u].admin]
                  /\ UNCHANGED <<call, suffix>>

Inserting == {r \in Requests : pc[r] # "idle" /\ call[r].op \in {"setup", "create", "sso"}}
(* Bound: a request that may insert a user begins only while there is an id for it. *)
IdsLeft == nextId + Cardinality(Inserting) <= MaxId

Begin(r) ==
  /\ pc[r] = "idle"
  /\ \E c \in Call :
       /\ c.op \in May[r]
       /\ c.op \in {"setup", "create", "sso"} => IdsLeft
       /\ c.op \in {"create", "delete", "task"} => c.actor < nextId   \* holds a session
       /\ call' = [call EXCEPT ![r] = c]
       /\ pc' = [pc EXCEPT ![r] = CASE c.op = "setup" -> "count"
                                    [] c.op = "sso" -> "linked"
                                    [] OTHER -> "auth"]
  /\ UNCHANGED <<who, flag, suffix, table>>

(* requireAuth reads the account of the session, requireAdmin its flag.    *)
Authenticate(r) ==
  /\ pc[r] = "auth"
  /\ \/ /\ call[r].actor \in Existing /\ call[r].op = "task"
        /\ Goto(r, "addtask")
     \/ /\ call[r].actor \in Admins /\ call[r].op = "create"
        /\ Goto(r, "insert")
     \/ /\ call[r].actor \in Admins /\ call[r].op = "delete"
        /\ call[r].actor # call[r].target
        /\ Goto(r, "target")
     \/ /\ \/ call[r].actor \notin Existing
           \/ call[r].op # "task" /\ call[r].actor \notin Admins
           \/ call[r].op = "delete" /\ call[r].actor = call[r].target
        /\ Reply(r)
  /\ UNCHANGED table

----------------------------------------------------------------------------
(* Setup, and the provisioning at the end of a sign-on.                    *)

CountUsers(r) ==
  /\ pc[r] = "count"
  /\ IF call[r].op = "setup"
     THEN IF Existing = {} THEN Goto(r, "insert") ELSE Reply(r)
     ELSE /\ pc' = [pc EXCEPT ![r] = "name"]
          /\ flag' = [flag EXCEPT ![r] = Existing = {}]
          /\ UNCHANGED <<call, who, suffix>>
  /\ UNCHANGED table

BugUniqueUsernameNeverGivesUp(r) ==
  /\ pc[r] = "name"
  /\ IF Named(<<call[r].base, suffix[r]>>) = {} THEN Goto(r, "insert")
     ELSE /\ suffix' = [suffix EXCEPT ![r] = @ + 1]
          /\ UNCHANGED <<call, pc, who, flag>>
  /\ UNCHANGED table

(* One turn of the loop in uniqueUsername: a SELECT for one candidate.     *)
UniqueUsername(r) ==
  /\ pc[r] = "name"
  /\ \/ /\ Named(<<call[r].base, suffix[r]>>) = {}
        /\ Goto(r, "insert")
     \/ /\ Named(<<call[r].base, suffix[r]>>) # {}
        /\ suffix[r] < MaxSuffix
        /\ suffix' = [suffix EXCEPT ![r] = @ + 1]
        /\ UNCHANGED <<call, pc, who, flag>>
     \/ /\ Named(<<call[r].base, suffix[r]>>) # {}
        /\ suffix[r] = MaxSuffix
        /\ Reply(r)
  /\ UNCHANGED table

(* The row CreateUser or CreateOIDCUser inserts. *)
NewUser(r) ==
  CASE call[r].op = "setup" -> Bootstrap(call[r].name)
    [] call[r].op = "create" -> [Bootstrap(call[r].name) EXCEPT !.admin = call[r].admin]
    [] OTHER -> [name |-> <<call[r].base, suffix[r]>>,
                 admin |-> (AdminGroup /\ call[r].group) \/ flag[r],
                 link |-> call[r].sub, email |-> call[r].email]

BugUniqueNameOnly(row) == Named(row.name) = {}

(* UNIQUE (username), and the unique index on (oidc_issuer, oidc_subject). *)
Unique(row) == Named(row.name) = {} /\ (row.link = NoSubject \/ Linked(row.link) = {})

InsertUser(r) ==
  /\ pc[r] = "insert"
  /\ IF Unique(NewUser(r))
     THEN users' = [users EXCEPT ![nextId] = NewUser(r)] /\ nextId' = nextId + 1
     ELSE UNCHANGED <<users, nextId>>
  /\ Reply(r)
  /\ UNCHANGED owners

----------------------------------------------------------------------------
(* UserHandler.DeleteUser                                                  *)

ReadTarget(r) ==
  /\ pc[r] = "target"
  /\ \/ call[r].target \notin Existing /\ Reply(r)
     \/ call[r].target \in Admins /\ Goto(r, "admins")
     \/ call[r].target \in Existing \ Admins /\ Goto(r, "tasks")
  /\ UNCHANGED table

CountAdmins(r) ==
  /\ pc[r] = "admins"
  /\ IF Cardinality(Admins) <= 1 THEN Reply(r) ELSE Goto(r, "tasks")
  /\ UNCHANGED table

CountTasksForUser(r) ==
  /\ pc[r] = "tasks"
  /\ IF call[r].target \in owners THEN Reply(r) ELSE Goto(r, "delete")
  /\ UNCHANGED table

BugDeleteUserNoForeignKey(r) ==
  /\ pc[r] = "delete"
  /\ users' = [users EXCEPT ![call[r].target] = NoUser]
  /\ Reply(r)
  /\ UNCHANGED <<nextId, owners>>

(* Refused by the foreign key of tasks.user_id, which does not cascade.    *)
DeleteUser(r) ==
  /\ pc[r] = "delete"
  /\ users' = IF call[r].target \in owners THEN users
              ELSE [users EXCEPT ![call[r].target] = NoUser]
  /\ Reply(r)
  /\ UNCHANGED <<nextId, owners>>

(* CreateTask; refused by the foreign key when the user is gone.           *)
AddTask(r) ==
  /\ pc[r] = "addtask"
  /\ owners' = IF call[r].actor \in Existing THEN owners \cup {call[r].actor} ELSE owners
  /\ Reply(r)
  /\ UNCHANGED <<users, nextId>>

(* A user deletes the last task he owns. *)
DropTasks(u) ==
  /\ u \in owners
  /\ owners' = owners \ {u}
  /\ UNCHANGED <<users, nextId, local>>

----------------------------------------------------------------------------
(* resolveOIDCUser                                                         *)

GetUserByOIDC(r) ==
  /\ pc[r] = "linked"
  /\ \/ \E u \in Linked(call[r].sub) : Found(r, u, "sync")
     \/ /\ Linked(call[r].sub) = {}
        /\ Goto(r, "email")
  /\ UNCHANGED table

(* The account of least id with this address. *)
OfEmail(e) == {u \in Existing : /\ users[u].email = e
                                /\ \A v \in Existing : users[v].email = e => u <= v}

LinkByVerifiedEmail(r) ==
  /\ pc[r] = "email"
  /\ LET M == IF LinkByEmail /\ call[r].verified /\ call[r].email # NoEmail
              THEN {u \in OfEmail(call[r].email) : users[u].link = NoSubject} ELSE {}
     IN \/ \E u \in M : Found(r, u, "link")
        \/ M = {} /\ Goto(r, "username")
  /\ UNCHANGED table

LinkByName(r) ==
  /\ pc[r] = "username"
  /\ LET M == IF LinkByUsername
              THEN {u \in Named(<<call[r].base, 1>>) : users[u].link = NoSubject} ELSE {}
     IN \/ \E u \in M : Found(r, u, "link")
        \/ M = {} /\ AllowSignup /\ Goto(r, "count")
        \/ M = {} /\ ~AllowSignup /\ Reply(r)
  /\ UNCHANGED table

(* UPDATE users SET oidc_..., email: whatever the row says by now.         *)
LinkOIDCIdentity(r) ==
  LET u == who[r]
      row == [users[u] EXCEPT !.link = call[r].sub,
                              !.email = IF call[r].email = NoEmail THEN @ ELSE call[r].email]
  IN /\ pc[r] = "link"
     /\ \/ /\ u \in Existing /\ Linked(call[r].sub) \subseteq {u}
           /\ users' = [users EXCEPT ![u] = row]
           /\ Goto(r, "sync")
        \/ /\ u \notin Existing                      \* no row, no error
           /\ UNCHANGED users
           /\ Goto(r, "sync")
        \/ /\ u \in Existing /\ ~(Linked(call[r].sub) \subseteq {u})
           /\ UNCHANGED users
           /\ Reply(r)
     /\ UNCHANGED <<nextId, owners>>

(* Compares with the flag read when the account was found. *)
ApplyAdminSync(r) ==
  LET u == who[r]
  IN /\ pc[r] = "sync"
     /\ users' = IF AdminGroup /\ flag[r] # call[r].group /\ u \in Existing
                 THEN [users EXCEPT ![u].admin = call[r].group] ELSE users
     /\ Reply(r)
     /\ UNCHANGED <<nextId, owners>>

----------------------------------------------------------------------------

(* A statement fails, the client goes away, or the process is killed: the  *)
(* request ends where it is; what it wrote stays.                          *)
Fail(r) ==
  /\ pc[r] # "idle"
  /\ Reply(r)
  /\ UNCHANGED table

Sso(r) == GetUserByOIDC(r) \/ LinkByVerifiedEmail(r) \/ LinkByName(r)
          \/ LinkOIDCIdentity(r) \/ ApplyAdminSync(r) \/ UniqueUsername(r)

Manage(r) == ReadTarget(r) \/ CountAdmins(r) \/ CountTasksForUser(r) \/ DeleteUser(r)

Next == \/ \E r \in Requests : \/ Begin(r) \/ Authenticate(r) \/ CountUsers(r) \/ InsertUser(r)
                               \/ Manage(r) \/ Sso(r) \/ AddTask(r) \/ Fail(r)
        \/ \E u \in Ids : DropTasks(u)

Spec == Init /\ [][Next]_vars

----------------------------------------------------------------------------

TypeOK ==
  /\ users \in [Ids -> User \cup {NoUser}]
  /\ nextId \in 1..(MaxId + 1)
  /\ owners \subseteq Ids
  /\ call \in [Requests -> Call \cup {NoCall}]
  /\ pc \in [Requests -> Steps]
  /\ who \in [Requests -> Ids \cup {0}]
  /\ flag \in [Requests -> BOOLEAN]
  /\ suffix \in [Requests -> 1..MaxSuffix]
  /\ \A r \in Requests : pc[r] # "idle" => call[r] \in Call

(* Once there has been a user there is an administrator (auth.go:511,      *)
(* "Ensure at least one admin remains."). Not so: two administrators that  *)
(* delete each other at once both count two (auth.go:522) before either    *)
(* deletes.                                                                *)
AdminRemains == nextId > 1 => Admins # {}

(* The owner of a task exists: of a deletion and a task creation that both *)
(* passed their checks only one succeeds.                                  *)
TaskOwnerExists == owners \subseteq Existing

(* An identity of the provider belongs to one account at most, however     *)
(* many sign-ons of it are being resolved at once.                         *)
IdentityUnique ==
  \A u, v \in Existing :
    users[u].link # NoSubject /\ users[u].link = users[v].link => u = v

(* Once an account is linked to an identity it stays linked to it, so that *)
(* the next sign-on of that identity finds it again (docs/deployment.md:   *)
(* "Already linked"). Not so: two sign-ons that both find the account      *)
(* unlinked both link it (oidc.go:573), and the later one stays.           *)
LinkIsKept ==
  [][\A u \in Existing : users[u].link # NoSubject /\ users'[u] # NoUser
        => users'[u].link = users[u].link]_vars
=============================================================================
