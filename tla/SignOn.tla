------------------------------- MODULE SignOn -------------------------------
(***************************************************************************)
(* Single sign-on through an OpenID Connect provider, and the sessions it  *)
(* opens (backend/oidc.go OIDCLogin, OIDCCallback, lazyOIDCProvider;       *)
(* auth.go requireAuth), served under the rate limiter.  A browser may     *)
(* have several sign-ons open in its tabs, but holds one state cookie.     *)
(* The account a sign-on ends in is resolved in Accounts; here it is found *)
(* or created in one step.                                                 *)
(***************************************************************************)
EXTENDS RateLimiter

CONSTANTS Flows,     \* sign-ons that are begun in this instance
          People,    \* identities at the provider
          Ids,       \* users.id, 1..n
          TTL,       \* oidcStateTTL in ticks
          NoFlow, NoOne

ASSUME SignOnAssumption == /\ TTL \in Nat
                           /\ Ids \subseteq Nat
                           /\ NoFlow \notin Flows /\ NoOne \notin People

VARIABLES
  ready,      \* lazyOIDCProvider.real is known
  job,        \* per slot: what the request is
  cookie,     \* per browser: the flow in its state cookie
  flow,       \* per flow: browser, ticks until the cookie expires, who has
              \* authenticated in it
  session,    \* per browser: the user id in its session cookie, and who signed in
  account,    \* users: whose account the row with this id is
  lastId      \* sqlite_sequence: the largest id ever given out

state == <<ready, job, cookie, flow, session, account, lastId>>
signOnVars == <<vars, state>>

NoJob == [kind |-> "none", flow |-> NoFlow, cookie |-> NoFlow, who |-> NoOne]
NewFlow == [browser |-> NoAddr, left |-> -1, who |-> NoOne]
NoSession == [id |-> 0, who |-> NoOne]

Live == {i \in Ids : account[i] # NoOne}

SignOnInit == /\ Init
              /\ ready = FALSE
              /\ job = [r \in Requests |-> NoJob]
              /\ cookie = [a \in Addrs |-> NoFlow]
              /\ flow = [f \in Flows |-> NewFlow]
              /\ session = [a \in Addrs |-> NoSession]
              /\ account = [i \in Ids |-> NoOne] /\ lastId = 0

SetJob(r, j) == job' = [job EXCEPT ![r] = j]

----------------------------------------------------------------------------
(* discoverWithRetry, at the attempt that succeeds; the others change      *)
(* nothing.                                                                *)
Discover == /\ up /\ ~ready /\ ready' = TRUE
            /\ UNCHANGED <<vars, job, cookie, flow, session, account, lastId>>

----------------------------------------------------------------------------
(* OIDCLogin.                                                              *)

AskLogin(r, a) ==
  /\ Begin(r, a)
  /\ SetJob(r, [NoJob EXCEPT !.kind = "login"])
  /\ UNCHANGED <<ready, cookie, flow, session, account, lastId>>

(* AuthCodeURL is empty while the provider is not known: 503.              *)
OIDCLogin(r, f) ==
  /\ job[r].kind = "login"
  /\ IF ready
     THEN /\ flow[f] = NewFlow
          /\ flow' = [flow EXCEPT ![f].browser = from[r], ![f].left = TTL]
          /\ cookie' = [cookie EXCEPT ![from[r]] = f]
     ELSE UNCHANGED <<flow, cookie>>
  /\ End(r) /\ SetJob(r, NoJob)
  /\ UNCHANGED <<ready, session, account, lastId>>

(* The user signs in at the provider, in the tab of this flow.             *)
Authenticate(f, p) ==
  /\ flow[f].browser # NoAddr /\ flow[f].who = NoOne
  /\ flow' = [flow EXCEPT ![f].who = p]
  /\ UNCHANGED <<vars, ready, job, cookie, session, account, lastId>>

----------------------------------------------------------------------------
(* OIDCCallback.  A browser opens the address the provider redirects to,   *)
(* perhaps twice, perhaps not the one that began the flow, with the cookie *)
(* it holds by then.                                                       *)

AskCallback(r, a, f) ==
  /\ flow[f].browser # NoAddr
  /\ Begin(r, a)
  /\ SetJob(r, [NoJob EXCEPT !.kind = "callback", !.flow = f, !.cookie = cookie[a]])
  /\ UNCHANGED <<ready, cookie, flow, session, account, lastId>>

ClearCookie(r) == cookie' = [cookie EXCEPT ![from[r]] = NoFlow]

BugBelongs(j) == TRUE

(* State, nonce and verifier are minted for one flow and kept in its       *)
(* cookie: they fit no other.                                              *)
Belongs(j) == j.flow = j.cookie

(* The cookie is there, has not expired, and is of this flow.              *)
CheckState(r) ==
  /\ job[r].kind = "callback"
  /\ job[r].cookie # NoFlow /\ flow[job[r].cookie].left >= 0 /\ Belongs(job[r])
  /\ SetJob(r, [job[r] EXCEPT !.kind = "exchange"])
  /\ UNCHANGED <<vars, ready, cookie, flow, session, account, lastId>>

(* Over the network, some time later: the provider takes the code of a     *)
(* flow with the nonce and verifier it was issued for, which the handler   *)
(* has from the cookie.  That it takes a code once only is not assumed.    *)
Exchange(r) ==
  /\ job[r].kind = "exchange" /\ job[r].who = NoOne
  /\ ready /\ Belongs(job[r]) /\ flow[job[r].flow].who # NoOne
  /\ SetJob(r, [job[r] EXCEPT !.who = flow[job[r].flow].who])
  /\ UNCHANGED <<vars, ready, cookie, flow, session, account, lastId>>

(* redirectAuthError: the provider reports an error, the state is refused, *)
(* the exchange fails, or the account cannot be resolved.                  *)
CallbackFails(r) ==
  /\ job[r].kind \in {"callback", "exchange"}
  /\ ClearCookie(r)
  /\ RecordFailure(r) /\ SetJob(r, NoJob)
  /\ UNCHANGED <<ready, flow, session, account, lastId>>

BugNewId == 1 + Cardinality(Live)

NewId == lastId + 1

(* A row of users for p: resolveOIDCUser or an administrator. *)
Insert(p) ==
  /\ NewId \in Ids
  /\ account' = [account EXCEPT ![NewId] = p]
  /\ lastId' = NewId

Open(r, i) == session' = [session EXCEPT ![from[r]] = [id |-> i, who |-> job[r].who]]

Callback(r) ==
  /\ job[r].kind = "exchange" /\ job[r].who # NoOne
  /\ ClearCookie(r)
  /\ \/ \E i \in Live : /\ account[i] = job[r].who
                        /\ Open(r, i)
                        /\ UNCHANGED <<account, lastId>>
     \/ /\ \A i \in Live : account[i] # job[r].who
        /\ Insert(job[r].who)
        /\ Open(r, NewId)
  /\ RecordSuccess(r) /\ SetJob(r, NoJob)
  /\ UNCHANGED <<ready, flow>>

----------------------------------------------------------------------------
(* Sessions.                                                               *)

(* requireAuth: the row of the user is read for every request; the session *)
(* is cleared when there is none.  Logout clears it as well, and a day ends*)
(* it.                                                                     *)
EndSession(a) ==
  /\ session[a] # NoSession
  /\ session' = [session EXCEPT ![a] = NoSession]
  /\ UNCHANGED <<vars, ready, job, cookie, flow, account, lastId>>

(* An administrator creates or deletes the account of p; what CreateUser   *)
(* asks of the limiter is AskOther and Other.                              *)
CreateUser(p) ==
  /\ up
  /\ \A i \in Live : account[i] # p
  /\ Insert(p)
  /\ UNCHANGED <<vars, ready, job, cookie, flow, session>>

DeleteUser(i) ==
  /\ up /\ i \in Live
  /\ account' = [account EXCEPT ![i] = NoOne]
  /\ UNCHANGED <<vars, ready, job, cookie, flow, session, lastId>>

----------------------------------------------------------------------------
(* The other handlers that ask the limiter. *)

AskOther(r, a) ==
  /\ Begin(r, a)
  /\ SetJob(r, [NoJob EXCEPT !.kind = "other"])
  /\ UNCHANGED <<ready, cookie, flow, session, account, lastId>>

Other(r) ==
  /\ job[r].kind = "other"
  /\ Serve(r) /\ SetJob(r, NoJob)
  /\ UNCHANGED <<ready, cookie, flow, session, account, lastId>>

(* The secret comes from the environment: cookies outlive the process.     *)
Reboot ==
  /\ \/ Kill /\ ready' = FALSE /\ job' = [r \in Requests |-> NoJob]
     \/ Start /\ UNCHANGED <<ready, job>>
  /\ UNCHANGED <<cookie, flow, session, account, lastId>>

Time ==
  /\ Tick
  /\ flow' = [f \in Flows |-> [flow[f] EXCEPT !.left = IF @ >= 0 THEN @ - 1 ELSE @]]
  /\ UNCHANGED <<ready, job, cookie, session, account, lastId>>

Sweeper == Sweep /\ UNCHANGED state

SignOnNext ==
  \/ Discover
  \/ \E r \in Requests :
       \/ \E a \in Addrs : AskLogin(r, a) \/ AskOther(r, a) \/ \E f \in Flows : AskCallback(r, a, f)
       \/ \E f \in Flows : OIDCLogin(r, f)
       \/ CheckState(r) \/ Exchange(r) \/ CallbackFails(r) \/ Callback(r) \/ Other(r)
  \/ \E f \in Flows, p \in People : Authenticate(f, p)
  \/ \E a \in Addrs : EndSession(a)
  \/ \E p \in People : CreateUser(p)
  \/ \E i \in Ids : DeleteUser(i)
  \/ Reboot \/ Time \/ Sweeper

SignOnSpec == SignOnInit /\ [][SignOnNext]_signOnVars

----------------------------------------------------------------------------

(* A session acts for the person who signed in, or for nobody: not for     *)
(* another who was given the id of a deleted account, nor for the one of   *)
(* another tab.                                                           *)
OwnSession ==
  \A a \in Addrs : session[a].id \in Live => account[session[a].id] = session[a].who

(* Whoever a browser is signed in as has authenticated at the provider in  *)
(* a sign-on that this browser began: not in one of another browser whose  *)
(* callback it was led to, whichever cookies it held, however long the     *)
(* exchange took and whatever restarts fell in between (oidc.go:496).      *)
SignOnIsOwn ==
  \A a \in Addrs : session[a] # NoSession =>
    \E f \in Flows : flow[f].browser = a /\ flow[f].who = session[a].who
=============================================================================
