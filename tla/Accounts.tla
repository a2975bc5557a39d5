------------------------------ MODULE Accounts ------------------------------
(***************************************************************************)
(* The accounts of the server: users and their login sessions              *)
(* (auth/service.go, repository/users.go, repository/sessions.go) and the  *)
(* codes with which a device asks for a session (auth/devices.go).  Users  *)
(* and sessions are rows; device grants live in memory under a mutex.  A   *)
(* request is several statements with others in between: a step is one     *)
(* statement, or one hold of the mutex.                                    *)
(*                                                                         *)
(* Passwords, tokens and names are left out, and with them the limits on   *)
(* attempts: a call they refuse changes nothing.                           *)
(***************************************************************************)
EXTENDS Integers, FiniteSets

CONSTANTS
  User,         \* ids of users; an id is not used again
  Grant,        \* secrets of devices
  Request,      \* requests that are served at the same time
  SessionBound, \* bound: sessions there ever are
  MaxGrants,    \* maxDeviceGrants
  Budgets       \* bounds: calls by kind, failures and restarts

VARIABLES
  user,        \* users: never there, present with role and enabled, or gone
  session,     \* sessions: owner, and whether it is too old to be used
  issued,      \* how many sessions there have been
  grants,      \* Service.devices: who confirmed a grant, with which session
  started, expired,
  answered,    \* history: how many sessions a device got for its grant
  call,        \* what each request is about to do, and what it has read
  callsLeft

accountVars == <<user, session, issued, grants, started, expired, answered, call, callsLeft>>
table       == <<user, session, issued>>
devices     == <<grants, started, expired, answered>>

Role  == {"admin", "user"}
Nil  == 0
Never == [state |-> "never", role |-> "user", enabled |-> FALSE]
Gone  == [Never EXCEPT !.state = "gone"]
NoCall  == [kind |-> "none", pc |-> "idle", user |-> Nil, role |-> "user",
          enabled |-> FALSE, session |-> Nil, grant |-> Nil]

Present(u)     == user[u].state = "present"
Enabled(u)     == Present(u) /\ user[u].enabled
ActiveAdmins   == {u \in User : Enabled(u) /\ user[u].role = "admin"}
Valid(s)       == s \in DOMAIN session /\ ~session[s].old
Without(f, D)  == [x \in DOMAIN f \ D |-> f[x]]
OwnedBy(u)     == {s \in DOMAIN session : session[s].owner = u}
Account(r, on) == [state |-> "present", role |-> r, enabled |-> on]

(* What the middleware requires of a call of an administrator. *)
ByAdmin == \E s \in DOMAIN session : Valid(s) /\ session[s].owner \in ActiveAdmins

SpendCall(e)   == callsLeft[e] > 0 /\ callsLeft' = [callsLeft EXCEPT ![e] = @ - 1]
Accept(r, kind, pc, u) ==
  /\ call[r] = NoCall
  /\ call' = [call EXCEPT ![r] = [NoCall EXCEPT !.kind = kind, !.pc = pc, !.user = u]]
Goto(r, pc) == call' = [call EXCEPT ![r].pc = pc]
End(r)      == call' = [call EXCEPT ![r] = NoCall]

-----------------------------------------------------------------------------
(* Users: repository/users.go.                                             *)

(* The first account, under an advisory lock of its own. *)
SetupCount(r, u) ==
  /\ \A v \in User : user[v] = Never
  /\ \A q \in Request : call[q].pc # "insert"
  /\ SpendCall("setup")
  /\ Accept(r, "setup", "insert", u)
  /\ UNCHANGED <<table, devices>>

SetupInsert(r) ==
  /\ call[r].pc = "insert"
  /\ user' = [user EXCEPT ![call[r].user] = Account("admin", TRUE)]
  /\ Goto(r, "store")
  /\ UNCHANGED <<session, issued, devices, callsLeft>>

CreateUser(u, role) ==
  /\ ByAdmin /\ user[u] = Never /\ SpendCall("admin")
  /\ user' = [user EXCEPT ![u] = Account(role, TRUE)]
  /\ UNCHANGED <<session, issued, devices, call>>

(* A field that the request leaves out is what was read here. *)
UpdateUser(r, u) ==
  /\ ByAdmin /\ Present(u) /\ SpendCall("admin")
  /\ call[r] = NoCall
  /\ \E role \in Role, on \in BOOLEAN :
       call' = [call EXCEPT ![r] = [NoCall EXCEPT !.kind = "update", !.pc = "lock", !.user = u,
                                                !.role = role, !.enabled = on]]
  /\ UNCHANGED <<table, devices>>

DeleteUser(r, u) ==
  /\ ByAdmin /\ SpendCall("admin")
  /\ Accept(r, "delete", "lock", u)
  /\ UNCHANGED <<table, devices>>

(* Mutant: changes of administrators are not serialized. *)
MutLock(r) ==
  /\ call[r].pc = "lock"
  /\ Goto(r, "inspect")
  /\ UNCHANGED <<table, devices, callsLeft>>

(* LockAdminMutation, held until the transaction ends. *)
Lock(r) ==
  /\ call[r].pc = "lock"
  /\ \A q \in Request : call[q].pc \notin {"inspect", "write"}
  /\ Goto(r, "inspect")
  /\ UNCHANGED <<table, devices, callsLeft>>

StaysAdmin(r) == call[r].kind = "update" /\ call[r].role = "admin" /\ call[r].enabled

(* The transaction is refused when no administrator would be left. *)
Inspect(r) ==
  LET u == call[r].user IN
  /\ call[r].pc = "inspect"
  /\ IF Present(u) /\ (u \in ActiveAdmins /\ ~StaysAdmin(r) => Cardinality(ActiveAdmins) > 1)
       THEN Goto(r, "write") ELSE End(r)
  /\ UNCHANGED <<table, devices, callsLeft>>

(* Sessions go with a user who is deleted or disabled. *)
Write(r) ==
  LET u == call[r].user IN
  /\ call[r].pc = "write"
  /\ user' = [user EXCEPT ![u] =
                IF call[r].kind = "delete" THEN Gone ELSE Account(call[r].role, call[r].enabled)]
  /\ session' = IF call[r].kind = "update" /\ call[r].enabled THEN session
                 ELSE Without(session, OwnedBy(u))
  /\ End(r)
  /\ UNCHANGED <<issued, devices, callsLeft>>

-----------------------------------------------------------------------------
(* Sessions: service.go.                                                   *)

(* The password is right. *)
Login(r, u) ==
  /\ Enabled(u) /\ SpendCall("login")
  /\ Accept(r, "login", "store", u)
  /\ UNCHANGED <<table, devices>>

StoreRow(u) ==
  /\ Present(u) /\ issued < SessionBound
  /\ issued' = issued + 1
  /\ session' = [s \in DOMAIN session \cup {issued + 1} |->
                   IF s = issued + 1 THEN [owner |-> u, old |-> FALSE] ELSE session[s]]
  /\ UNCHANGED user

(* createSession; the device or browser gets its token. *)
Store(r) ==
  /\ call[r].pc = "store"
  /\ StoreRow(call[r].user)
  /\ answered' = [g \in Grant |-> answered[g] + IF g = call[r].grant THEN 1 ELSE 0]
  /\ End(r)
  /\ UNCHANGED <<grants, started, expired, callsLeft>>

(* A grant that was not answered can be used again until it expires. *)
PutBack(r) ==
  LET g == call[r].grant IN
  grants' = [h \in DOMAIN grants \cup ({g} \ (expired \cup {Nil})) |->
               IF h = g THEN [user |-> call[r].user, session |-> call[r].session]
               ELSE grants[h]]

(* The user is gone, the statement fails, or only its answer is lost. *)
StoreFails(r) ==
  /\ call[r].pc = "store"
  /\ \/ ~Present(call[r].user) /\ UNCHANGED <<table, callsLeft>>
     \/ SpendCall("failure") /\ (StoreRow(call[r].user) \/ UNCHANGED table)
  /\ PutBack(r)
  /\ End(r)
  /\ UNCHANGED <<started, expired, answered>>

(* Logout and RevokeSession. *)
Logout(s) ==
  /\ SpendCall("login")
  /\ session' = Without(session, {s})
  /\ UNCHANGED <<user, issued, devices, call>>

(* RevokeOtherSessions and the two ways to a new password. *)
DeleteByUser(u, except) ==
  /\ SpendCall("login")
  /\ session' = Without(session, OwnedBy(u) \ {except})
  /\ UNCHANGED <<user, issued, devices, call>>

(* Expiry, or inactivity. *)
Age(s) ==
  /\ ~session[s].old
  /\ session' = [session EXCEPT ![s].old = TRUE]
  /\ UNCHANGED <<user, issued, devices, call, callsLeft>>

(* VerifySession deletes what it refuses, and takes any failure to read the *)
(* user for a user who is gone.  DeleteExpired deletes the same rows.       *)
Reject(s) ==
  /\ \/ (session[s].old \/ ~Enabled(session[s].owner)) /\ UNCHANGED callsLeft
     \/ SpendCall("failure")
  /\ session' = Without(session, {s})
  /\ UNCHANGED <<user, issued, devices, call>>

-----------------------------------------------------------------------------
(* Devices: devices.go.  Every look at the grants drops the expired first. *)

StartDevice(g) ==
  /\ g \notin started /\ Cardinality(DOMAIN grants) < MaxGrants /\ SpendCall("device")
  /\ started' = started \cup {g}
  /\ grants' = [h \in DOMAIN grants \cup {g} |->
                  IF h = g THEN [user |-> Nil, session |-> Nil] ELSE grants[h]]
  /\ UNCHANGED <<table, expired, answered, call>>

Expire(g) ==
  /\ g \in started \ expired
  /\ expired' = expired \cup {g}
  /\ grants' = Without(grants, {g})
  /\ UNCHANGED <<table, started, answered, call, callsLeft>>

(* The middleware lets the request pass. *)
Authenticate(r, s) ==
  /\ Valid(s) /\ Enabled(session[s].owner) /\ SpendCall("device") /\ call[r] = NoCall
  /\ call' = [call EXCEPT ![r] = [NoCall EXCEPT !.kind = "confirm", !.pc = "confirm",
                                              !.user = session[s].owner, !.session = s]]
  /\ UNCHANGED <<table, devices>>

ConfirmDevice(r, g) ==
  /\ call[r].pc = "confirm" /\ g \in DOMAIN grants /\ grants[g].user = Nil
  /\ grants' = [grants EXCEPT ![g] = [user |-> call[r].user, session |-> call[r].session]]
  /\ End(r)
  /\ UNCHANGED <<table, started, expired, answered, callsLeft>>

Polled(r, g) ==
  call' = [call EXCEPT ![r] = [NoCall EXCEPT !.kind = "poll", !.pc = "session", !.grant = g,
                                !.user = grants[g].user, !.session = grants[g].session]]

(* Mutant: the grant is dropped at the end of its poll, when it expires. *)
MutPollDevice(r, g) ==
  /\ call[r] = NoCall /\ g \in DOMAIN grants /\ grants[g].user # Nil
  /\ Polled(r, g)
  /\ UNCHANGED <<table, devices, callsLeft>>

PollDevice(r, g) ==
  /\ call[r] = NoCall /\ g \in DOMAIN grants /\ grants[g].user # Nil
  /\ Polled(r, g)
  /\ grants' = Without(grants, {g})
  /\ UNCHANGED <<table, started, expired, answered, callsLeft>>

CheckSession(r) ==
  /\ call[r].pc = "session"
  /\ IF Valid(call[r].session) THEN Goto(r, "user") ELSE End(r)
  /\ UNCHANGED <<table, devices, callsLeft>>

CheckUser(r) ==
  /\ call[r].pc = "user"
  /\ IF Enabled(call[r].user) THEN Goto(r, "store") ELSE End(r)
  /\ UNCHANGED <<table, devices, callsLeft>>

-----------------------------------------------------------------------------

(* A statement fails, or the request is refused; transactions roll back. *)
Fail(r) ==
  /\ call[r].pc \notin {"idle", "store"} /\ SpendCall("failure")
  /\ End(r)
  /\ UNCHANGED <<table, devices>>

(* Of the devices nothing is left. *)
Restart ==
  /\ SpendCall("failure")
  /\ grants' = Without(grants, Grant)
  /\ expired' = started
  /\ call' = [r \in Request |-> NoCall]
  /\ UNCHANGED <<table, started, answered>>

AccountInit ==
  /\ user = [u \in User |-> Never]
  /\ session = [s \in {} |-> Nil] /\ issued = 0
  /\ grants = [g \in {} |-> Nil] /\ started = {} /\ expired = {}
  /\ answered = [g \in Grant |-> 0]
  /\ call = [r \in Request |-> NoCall]
  /\ callsLeft \in Budgets

AccountNext ==
  \/ \E r \in Request :
       \/ \E u \in User : SetupCount(r, u) \/ UpdateUser(r, u) \/ DeleteUser(r, u) \/ Login(r, u)
       \/ SetupInsert(r) \/ Lock(r) \/ Inspect(r) \/ Write(r) \/ Store(r) \/ StoreFails(r)
       \/ CheckSession(r) \/ CheckUser(r) \/ Fail(r)
       \/ \E s \in DOMAIN session : Authenticate(r, s)
       \/ \E g \in Grant : ConfirmDevice(r, g) \/ PollDevice(r, g)
  \/ \E u \in User : (\E role \in Role : CreateUser(u, role))
                     \/ (\E s \in OwnedBy(u) \cup {Nil} : DeleteByUser(u, s))
  \/ \E s \in DOMAIN session : Logout(s) \/ Age(s) \/ Reject(s)
  \/ \E g \in Grant : StartDevice(g) \/ Expire(g)
  \/ Restart

AccountSpec == AccountInit /\ [][AccountNext]_accountVars

-----------------------------------------------------------------------------
(* Properties.                                                             *)

\* Once there is an account, some administrator can log in: however requests
\* that demote, disable or delete two of them interleave, the last one stays
\* (users.go, UpdateStatus and Delete).
AdminRemains == (\E u \in User : user[u].state # "never") => ActiveAdmins # {}

\* A confirmed code gives its device one session, though polls run at the same
\* time and a poll whose session could not be stored puts the grant back
\* (devices.go, PollDevice).
CodeWorksOnce == \A g \in Grant : answered[g] <= 1
=============================================================================
