--------------------------- MODULE IdentityProofs ---------------------------
(***************************************************************************)
(* For any number of users, requests and devices, any bound and any limit  *)
(* of grants: the last administrator stays, and a code of a device gives   *)
(* one session at most.  For every library and all numbers of tracks and   *)
(* workers: no identity and no credit is lost whatever the downloads and   *)
(* the maintenance commands do, and reconcile-artists leaves nothing to    *)
(* fold.                                                                   *)
(***************************************************************************)
EXTENDS Accounts, ArtistIdentity, FiniteSetTheorems, WellFoundedInduction, TLAPS

-----------------------------------------------------------------------------
(* Accounts: the last administrator and the code of a device.              *)

Kinds == {"none", "setup", "update", "delete", "login", "confirm", "poll"}
Steps == {"idle", "insert", "lock", "inspect", "write", "store", "confirm", "session", "user"}

UserRows == [state : {"never", "present", "gone"}, role : Role, enabled : BOOLEAN]
Calls   == [kind : Kinds, pc : Steps, user : User \cup {Nil}, role : Role,
            enabled : BOOLEAN, session : Nat, grant : Grant \cup {Nil}]
Confirm == [user : User \cup {Nil}, session : Nat]

(* UserRows, sessions, grants and calls have their shape, and a call that      *)
(* works for a user names one.                                             *)
UsersOK    == user \in [User -> UserRows]
SessionsOK ==
  /\ issued \in Nat
  /\ session = [s \in DOMAIN session |-> session[s]]
  /\ DOMAIN session \subseteq Nat
  /\ \A s \in DOMAIN session : session[s] \in [owner : User, old : BOOLEAN]
CallsOK ==
  /\ call \in [Request -> Calls]
  /\ \A r \in Request : call[r].pc # "idle" => call[r].user \in User
GrantsOK ==
  /\ grants = [g \in DOMAIN grants |-> grants[g]]
  /\ DOMAIN grants \subseteq Grant
  /\ \A g \in DOMAIN grants : grants[g] \in Confirm
  /\ started \subseteq Grant
  /\ answered \in [Grant -> Nat]

TypeInv == UsersOK /\ SessionsOK /\ CallsOK /\ GrantsOK

(* The lock on changes of administrators has one holder. What it read of   *)
(* its user still holds when it writes.                                    *)
Holding(r) == call[r].pc \in {"inspect", "write"}
OneHolder  == \A q, r \in Request : Holding(q) /\ Holding(r) => q = r
ReadHolds ==
  \A r \in Request :
    call[r].pc = "write" =>
      LET u == call[r].user IN
      /\ Present(u)
      /\ u \in ActiveAdmins /\ ~StaysAdmin(r) => ActiveAdmins # {u}

(* While the first account is created, there is no other, and nobody else  *)
(* creates one.                                                            *)
SetupAlone ==
  \A q, r \in Request :
    call[q].pc = "insert" =>
      /\ \A v \in User : user[v] = Never
      /\ call[r].pc = "insert" => q = r

AdminInv == OneHolder /\ ReadHolds /\ SetupAlone /\ AdminRemains

(* A grant is listed, or held by one poll, or gone; it is unanswered as    *)
(* long as it is not gone.                                                 *)
Held(g) == \E r \in Request : call[r].grant = g
Listed  == expired \subseteq started /\ DOMAIN grants \subseteq started \ expired
HeldOnce ==
  /\ \A r \in Request : call[r].grant # Nil =>
       call[r].grant \in started \ DOMAIN grants
  /\ \A q, r \in Request : call[q].grant # Nil /\ call[q].grant = call[r].grant => q = r
Unanswered ==
  \A g \in Grant : g \notin started \/ g \in DOMAIN grants \/ Held(g) => answered[g] = 0

CodeInv == Listed /\ HeldOnce /\ Unanswered /\ CodeWorksOnce

-----------------------------------------------------------------------------
(* Shapes: a step changes rows, sessions, one call or the grants.          *)

LEMMA IdleShape == NoCall \in Calls /\ NoCall.pc = "idle" /\ NoCall.grant = Nil
BY DEF NoCall, Calls, Kinds, Steps, Role, Nil

(* A call that ends, or goes on to another step. *)
LEMMA CallSet ==
  ASSUME CallsOK, NEW r \in Request, NEW x \in Calls, x.pc # "idle" => x.user \in User,
         call' = [call EXCEPT ![r] = x]
  PROVE  CallsOK'
BY DEF CallsOK

LEMMA CallEnds ==
  ASSUME CallsOK, NEW r \in Request, End(r)
  PROVE  CallsOK'
BY IdleShape, CallSet DEF End

LEMMA CallGoes ==
  ASSUME CallsOK, NEW r \in Request, NEW pc \in Steps, call[r].pc # "idle", Goto(r, pc)
  PROVE  CallsOK'
<1> DEFINE x == [call[r] EXCEPT !.pc = pc]
<1>1. x \in Calls /\ x.user = call[r].user
  BY DEF CallsOK, Calls
<1>2. call' = [call EXCEPT ![r] = x]
  BY DEF Goto, CallsOK
<1> QED BY <1>1, <1>2, CallSet DEF CallsOK

LEMMA CallBegins ==
  ASSUME CallsOK, NEW r \in Request, NEW kind \in Kinds, NEW pc \in Steps, NEW u \in User,
         Accept(r, kind, pc, u)
  PROVE  CallsOK'
<1> DEFINE x == [NoCall EXCEPT !.kind = kind, !.pc = pc, !.user = u]
<1>1. x \in Calls /\ x.user = u
  BY DEF NoCall, Calls, Role, Nil
<1> QED BY <1>1, CallSet DEF Accept

LEMMA RowSet ==
  ASSUME UsersOK, NEW u, NEW x \in UserRows, user' = [user EXCEPT ![u] = x]
  PROVE  UsersOK'
BY DEF UsersOK

LEMMA SessionsDrop ==
  ASSUME SessionsOK, NEW D, session' = Without(session, D), issued' = issued
  PROVE  SessionsOK'
BY DEF SessionsOK, Without

LEMMA RowStored ==
  ASSUME SessionsOK, NEW u \in User, StoreRow(u)
  PROVE  SessionsOK'
<1>1. issued' \in Nat /\ issued' = issued + 1
  BY DEF SessionsOK, StoreRow
<1>2. DOMAIN session' = DOMAIN session \cup {issued + 1}
  BY DEF StoreRow
<1>3. ASSUME NEW s \in DOMAIN session' PROVE session'[s] \in [owner : User, old : BOOLEAN]
  BY <1>2, <1>3 DEF StoreRow, SessionsOK
<1>4. session' = [s \in DOMAIN session' |-> session'[s]]
  BY DEF StoreRow
<1> QED BY <1>1, <1>2, <1>3, <1>4 DEF SessionsOK

-----------------------------------------------------------------------------
(* Every action keeps the shapes. *)

LEMMA CallOnly ==
  ASSUME TypeInv, CallsOK', UNCHANGED <<table, devices>>
  PROVE  TypeInv'
BY DEF TypeInv, table, devices, UsersOK, SessionsOK, GrantsOK

LEMMA SetupTypes ==
  ASSUME TypeInv, NEW r \in Request
  PROVE  /\ \A u \in User : SetupCount(r, u) => TypeInv'
         /\ SetupInsert(r) => TypeInv'
<1>1. ASSUME NEW u \in User, SetupCount(r, u) PROVE TypeInv'
  BY <1>1, CallBegins, CallOnly DEF SetupCount, TypeInv, Kinds, Steps
<1>2. ASSUME SetupInsert(r) PROVE TypeInv'
  <2>1. Account("admin", TRUE) \in UserRows
    BY DEF Account, UserRows, Role
  <2>2. UsersOK'
    BY <1>2, <2>1, RowSet DEF SetupInsert, TypeInv
  <2>3. CallsOK'
    BY <1>2, CallGoes DEF SetupInsert, TypeInv, Steps
  <2> QED BY <1>2, <2>2, <2>3 DEF SetupInsert, TypeInv, devices, SessionsOK, GrantsOK
<1> QED BY <1>1, <1>2

LEMMA AdminTypes ==
  ASSUME TypeInv, NEW u \in User
  PROVE  /\ \A role \in Role : CreateUser(u, role) => TypeInv'
         /\ \A r \in Request : UpdateUser(r, u) \/ DeleteUser(r, u) => TypeInv'
<1>1. ASSUME NEW role \in Role, CreateUser(u, role) PROVE TypeInv'
  <2>1. Account(role, TRUE) \in UserRows
    BY DEF Account, UserRows
  <2>2. UsersOK'
    BY <1>1, <2>1, RowSet DEF CreateUser, TypeInv
  <2> QED BY <1>1, <2>2 DEF CreateUser, TypeInv, devices, SessionsOK, GrantsOK, CallsOK
<1>2. ASSUME NEW r \in Request, UpdateUser(r, u) PROVE TypeInv'
  <2>1. PICK role \in Role, on \in BOOLEAN :
          call' = [call EXCEPT ![r] = [NoCall EXCEPT !.kind = "update", !.pc = "lock", !.user = u,
                                                   !.role = role, !.enabled = on]]
    BY <1>2 DEF UpdateUser
  <2> DEFINE x == [NoCall EXCEPT !.kind = "update", !.pc = "lock", !.user = u,
                               !.role = role, !.enabled = on]
  <2>2. x \in Calls /\ x.user \in User
    BY DEF NoCall, Calls, Kinds, Steps, Nil
  <2> HIDE DEF x
  <2>3. CallsOK'
    BY <2>1, <2>2, CallSet DEF TypeInv, x
  <2> QED BY <1>2, <2>3, CallOnly DEF UpdateUser
<1>3. ASSUME NEW r \in Request, DeleteUser(r, u) PROVE TypeInv'
  BY <1>3, CallBegins, CallOnly DEF DeleteUser, TypeInv, Kinds, Steps
<1> QED BY <1>1, <1>2, <1>3

LEMMA ChangeTypes ==
  ASSUME TypeInv, NEW r \in Request
  PROVE  Lock(r) \/ Inspect(r) \/ Write(r) => TypeInv'
<1>1. ASSUME Lock(r) PROVE TypeInv'
  BY <1>1, CallGoes, CallOnly DEF Lock, TypeInv, Steps
<1>2. ASSUME Inspect(r) PROVE TypeInv'
  <2>1. CallsOK'
    BY <1>2, CallGoes, CallEnds DEF Inspect, TypeInv, Steps
  <2> QED BY <1>2, <2>1, CallOnly DEF Inspect
<1>3. ASSUME Write(r) PROVE TypeInv'
  <2>1. Gone \in UserRows /\ Account(call[r].role, call[r].enabled) \in UserRows
    BY DEF TypeInv, CallsOK, Calls, Gone, Never, Account, UserRows, Role
  <2>2. UsersOK'
    BY <1>3, <2>1, RowSet DEF Write, TypeInv
  <2>3. SessionsOK'
    BY <1>3, SessionsDrop DEF Write, TypeInv, SessionsOK
  <2>4. CallsOK'
    BY <1>3, CallEnds DEF Write, TypeInv
  <2> QED BY <1>3, <2>2, <2>3, <2>4 DEF Write, TypeInv, devices, GrantsOK
<1> QED BY <1>1, <1>2, <1>3

LEMMA LoginTypes ==
  ASSUME TypeInv, NEW r \in Request
  PROVE  /\ \A u \in User : Login(r, u) => TypeInv'
         /\ Store(r) \/ StoreFails(r) => TypeInv'
<1>1. ASSUME NEW u \in User, Login(r, u) PROVE TypeInv'
  BY <1>1, CallBegins, CallOnly DEF Login, TypeInv, Kinds, Steps
<1>2. ASSUME Store(r) PROVE TypeInv'
  <2>1. SessionsOK' /\ user' = user
    BY <1>2, RowStored DEF Store, StoreRow, TypeInv, CallsOK
  <2>2. CallsOK'
    BY <1>2, CallEnds DEF Store, TypeInv
  <2>3. answered' \in [Grant -> Nat]
    BY <1>2 DEF Store, TypeInv, GrantsOK
  <2> QED BY <1>2, <2>1, <2>2, <2>3 DEF Store, TypeInv, GrantsOK, UsersOK
<1>3. ASSUME StoreFails(r) PROVE TypeInv'
  <2>1. SessionsOK' /\ user' = user
    BY <1>3, RowStored DEF StoreFails, StoreRow, TypeInv, CallsOK, table, SessionsOK
  <2>2. CallsOK'
    BY <1>3, CallEnds DEF StoreFails, TypeInv
  <2> DEFINE back == [user |-> call[r].user, session |-> call[r].session]
             D    == DOMAIN grants \cup ({call[r].grant} \ (expired \cup {Nil}))
  <2>3. back \in Confirm /\ call[r].grant \in Grant \cup {Nil}
    BY DEF TypeInv, CallsOK, Calls, Confirm
  <2>4. grants' = [h \in D |-> IF h = call[r].grant THEN back ELSE grants[h]]
    BY <1>3 DEF StoreFails, PutBack
  <2>5. D \subseteq Grant
    BY <2>3 DEF TypeInv, GrantsOK
  <2>6. \A h \in D : grants'[h] \in Confirm
    BY <2>3, <2>4 DEF TypeInv, GrantsOK
  <2> HIDE DEF D, back
  <2>7. DOMAIN grants' = D /\ grants' = [h \in DOMAIN grants' |-> grants'[h]]
    BY <2>4
  <2>8. GrantsOK'
    BY <1>3, <2>5, <2>6, <2>7 DEF StoreFails, TypeInv, GrantsOK
  <2> QED BY <2>1, <2>2, <2>8 DEF TypeInv, UsersOK
<1> QED BY <1>1, <1>2, <1>3

LEMMA SessionTypes ==
  ASSUME TypeInv
  PROVE  /\ \A s \in DOMAIN session : Logout(s) \/ Age(s) \/ Reject(s) => TypeInv'
         /\ \A u \in User : \A s : DeleteByUser(u, s) => TypeInv'
<1>1. ASSUME SessionsOK', UNCHANGED <<user, devices, call>> PROVE TypeInv'
  BY <1>1 DEF TypeInv, UsersOK, devices, CallsOK, GrantsOK
<1>2. ASSUME NEW s, Logout(s) \/ Reject(s) PROVE TypeInv'
  BY <1>1, <1>2, SessionsDrop DEF Logout, Reject, TypeInv
<1>3. ASSUME NEW s \in DOMAIN session, Age(s) PROVE TypeInv'
  <2>1. session[s] \in [owner : User, old : BOOLEAN]
    BY DEF TypeInv, SessionsOK
  <2>2. SessionsOK'
    BY <1>3, <2>1 DEF Age, TypeInv, SessionsOK
  <2> QED BY <1>1, <1>3, <2>2 DEF Age
<1>4. ASSUME NEW u \in User, NEW s, DeleteByUser(u, s) PROVE TypeInv'
  BY <1>1, <1>4, SessionsDrop DEF DeleteByUser, TypeInv
<1> QED BY <1>2, <1>3, <1>4

LEMMA DeviceTypes ==
  ASSUME TypeInv, NEW g \in Grant
  PROVE  StartDevice(g) \/ Expire(g) => TypeInv'
<1>1. ASSUME GrantsOK', UNCHANGED <<table, call>> PROVE TypeInv'
  BY <1>1 DEF TypeInv, table, UsersOK, SessionsOK, CallsOK
<1>2. ASSUME StartDevice(g) PROVE TypeInv'
  <2>1. [user |-> Nil, session |-> Nil] \in Confirm
    BY DEF Confirm, Nil
  <2>2. GrantsOK'
    BY <1>2, <2>1 DEF StartDevice, TypeInv, GrantsOK
  <2> QED BY <1>1, <1>2, <2>2 DEF StartDevice
<1>3. ASSUME Expire(g) PROVE TypeInv'
  <2>1. GrantsOK'
    BY <1>3 DEF Expire, Without, TypeInv, GrantsOK
  <2> QED BY <1>1, <1>3, <2>1 DEF Expire
<1> QED BY <1>2, <1>3

LEMMA PollTypes ==
  ASSUME TypeInv, NEW r \in Request
  PROVE  /\ \A s \in DOMAIN session : Authenticate(r, s) => TypeInv'
         /\ \A g \in Grant : ConfirmDevice(r, g) \/ PollDevice(r, g) => TypeInv'
         /\ CheckSession(r) \/ CheckUser(r) \/ Fail(r) => TypeInv'
<1>1. ASSUME NEW s \in DOMAIN session, Authenticate(r, s) PROVE TypeInv'
  <2> DEFINE x == [NoCall EXCEPT !.kind = "confirm", !.pc = "confirm",
                               !.user = session[s].owner, !.session = s]
  <2>1. session[s].owner \in User /\ s \in Nat
    BY DEF TypeInv, SessionsOK
  <2>2. x \in Calls /\ x.user \in User
    BY <2>1 DEF NoCall, Calls, Kinds, Steps, Role, Nil
  <2>3. call' = [call EXCEPT ![r] = x]
    BY <1>1 DEF Authenticate
  <2> HIDE DEF x
  <2> QED BY <1>1, <2>2, <2>3, CallSet, CallOnly DEF Authenticate, TypeInv
<1>2. ASSUME NEW g \in Grant, ConfirmDevice(r, g) PROVE TypeInv'
  <2>1. [user |-> call[r].user, session |-> call[r].session] \in Confirm
    BY DEF TypeInv, CallsOK, Calls, Confirm
  <2>2. GrantsOK'
    BY <1>2, <2>1 DEF ConfirmDevice, TypeInv, GrantsOK
  <2>3. CallsOK'
    BY <1>2, CallEnds DEF ConfirmDevice, TypeInv
  <2> QED BY <1>2, <2>2, <2>3 DEF ConfirmDevice, TypeInv, table, UsersOK, SessionsOK
<1>3. ASSUME NEW g \in Grant, PollDevice(r, g) PROVE TypeInv'
  <2> DEFINE x == [NoCall EXCEPT !.kind = "poll", !.pc = "session", !.grant = g,
                               !.user = grants[g].user, !.session = grants[g].session]
  <2>1. grants[g] \in Confirm /\ grants[g].user # Nil
    BY <1>3 DEF PollDevice, TypeInv, GrantsOK
  <2>2. x \in Calls /\ x.user \in User
    BY <2>1 DEF Confirm, NoCall, Calls, Kinds, Steps, Role, Nil
  <2>3. call' = [call EXCEPT ![r] = x]
    BY <1>3 DEF PollDevice, Polled
  <2> HIDE DEF x
  <2>4. CallsOK'
    BY <2>2, <2>3, CallSet DEF TypeInv
  <2>5. GrantsOK'
    BY <1>3 DEF PollDevice, Without, TypeInv, GrantsOK
  <2> QED BY <1>3, <2>4, <2>5 DEF PollDevice, TypeInv, table, UsersOK, SessionsOK
<1>4. ASSUME CheckSession(r) \/ CheckUser(r) \/ Fail(r) PROVE TypeInv'
  <2>1. CallsOK'
    BY <1>4, CallGoes, CallEnds DEF CheckSession, CheckUser, Fail, TypeInv, Steps
  <2> QED BY <1>4, <2>1, CallOnly DEF CheckSession, CheckUser, Fail
<1> QED BY <1>1, <1>2, <1>3, <1>4

LEMMA RestartTypes == ASSUME TypeInv, Restart PROVE TypeInv'
<1>1. CallsOK'
  BY IdleShape DEF Restart, CallsOK
<1>2. GrantsOK'
  BY DEF Restart, Without, TypeInv, GrantsOK
<1> QED BY <1>1, <1>2 DEF Restart, TypeInv, table, UsersOK, SessionsOK

LEMMA InitTypes == AccountInit => TypeInv
<1> SUFFICES ASSUME AccountInit PROVE TypeInv
  OBVIOUS
<1>1. UsersOK
  BY DEF AccountInit, UsersOK, Never, UserRows, Role
<1>2. SessionsOK
  BY DEF AccountInit, SessionsOK
<1>3. CallsOK
  BY IdleShape DEF AccountInit, CallsOK
<1>4. GrantsOK
  BY DEF AccountInit, GrantsOK
<1> QED BY <1>1, <1>2, <1>3, <1>4 DEF TypeInv

LEMMA NextTypes == ASSUME TypeInv, [AccountNext]_accountVars PROVE TypeInv'
<1>1. CASE UNCHANGED accountVars
  BY <1>1 DEF accountVars, TypeInv, UsersOK, SessionsOK, CallsOK, GrantsOK
<1>2. CASE AccountNext
  BY <1>2, SetupTypes, AdminTypes, ChangeTypes, LoginTypes, SessionTypes, DeviceTypes, PollTypes,
     RestartTypes DEF AccountNext
<1> QED BY <1>1, <1>2

-----------------------------------------------------------------------------
(* The last administrator. *)

(* Steps that leave the users alone, and start nobody on the first account *)
(* or with the lock.                                                       *)
LEMMA AdminQuiet ==
  ASSUME TypeInv, AdminInv, user' = user,
         \A r \in Request : \/ call'[r] = call[r]
                            \/ call'[r].pc \notin {"insert", "inspect", "write"}
  PROVE  AdminInv'
<1>1. OneHolder'
  BY DEF AdminInv, OneHolder, Holding
<1>2. ReadHolds'
  BY DEF AdminInv, ReadHolds, StaysAdmin, ActiveAdmins, Enabled, Present
<1>3. SetupAlone'
  BY DEF AdminInv, SetupAlone
<1>4. AdminRemains'
  BY DEF AdminInv, AdminRemains, ActiveAdmins, Enabled, Present
<1> QED BY <1>1, <1>2, <1>3, <1>4 DEF AdminInv

(* What the other requests do when one of them gets another call. *)
LEMMA CallAt ==
  ASSUME TypeInv, NEW r \in Request
  PROVE  /\ \A x : call' = [call EXCEPT ![r] = x] =>
              call'[r] = x /\ \A q \in Request : q # r => call'[q] = call[q]
         /\ \A pc : Goto(r, pc) =>
              /\ call'[r].pc = pc /\ call'[r].user = call[r].user /\ call'[r].kind = call[r].kind
              /\ call'[r].role = call[r].role /\ call'[r].enabled = call[r].enabled
              /\ call'[r].grant = call[r].grant
              /\ \A q \in Request : q # r => call'[q] = call[q]
         /\ End(r) => call'[r] = NoCall /\ \A q \in Request : q # r => call'[q] = call[q]
         /\ \A kind, pc, u : Accept(r, kind, pc, u) =>
              /\ call'[r].pc = pc /\ call'[r].user = u /\ call'[r].grant = Nil
              /\ \A q \in Request : q # r => call'[q] = call[q]
<1>1. call[r] \in Calls /\ call \in [Request -> Calls]
  BY DEF TypeInv, CallsOK
<1>2. ASSUME NEW x, call' = [call EXCEPT ![r] = x]
      PROVE  call'[r] = x /\ \A q \in Request : q # r => call'[q] = call[q]
  BY <1>1, <1>2
<1>3. ASSUME NEW pc, Goto(r, pc)
      PROVE  /\ call'[r].pc = pc /\ call'[r].user = call[r].user /\ call'[r].kind = call[r].kind
             /\ call'[r].role = call[r].role /\ call'[r].enabled = call[r].enabled
             /\ call'[r].grant = call[r].grant
             /\ \A q \in Request : q # r => call'[q] = call[q]
  BY <1>1, <1>3 DEF Calls, Goto
<1>4. ASSUME End(r)
      PROVE  call'[r] = NoCall /\ \A q \in Request : q # r => call'[q] = call[q]
  BY <1>2, <1>4 DEF End
<1>5. ASSUME NEW kind, NEW pc, NEW u, Accept(r, kind, pc, u)
      PROVE  /\ call'[r].pc = pc /\ call'[r].user = u /\ call'[r].grant = Nil
             /\ \A q \in Request : q # r => call'[q] = call[q]
  BY <1>1, <1>5 DEF Accept, NoCall
<1> QED BY <1>2, <1>3, <1>4, <1>5

LEMMA SetupAdmin ==
  ASSUME TypeInv, AdminInv, NEW r \in Request
  PROVE  /\ \A u \in User : SetupCount(r, u) => AdminInv'
         /\ SetupInsert(r) => AdminInv'
<1>1. ASSUME NEW u \in User, SetupCount(r, u) PROVE AdminInv'
  <2>1. user' = user
    BY <1>1 DEF SetupCount, table
  <2>2. call'[r].pc = "insert" /\ \A q \in Request : q # r => call'[q] = call[q]
    BY <1>1, CallAt DEF SetupCount
  <2>3. \A v \in User : user[v] = Never
    BY <1>1 DEF SetupCount
  <2>4. \A q \in Request : call[q].pc # "insert"
    BY <1>1 DEF SetupCount
  <2>5. OneHolder'
    BY <2>2 DEF AdminInv, OneHolder, Holding
  <2>6. ReadHolds'
    BY <2>1, <2>2 DEF AdminInv, ReadHolds, StaysAdmin, ActiveAdmins, Enabled, Present
  <2>7. SetupAlone'
    BY <2>1, <2>2, <2>3, <2>4 DEF SetupAlone
  <2>8. AdminRemains'
    BY <2>1 DEF AdminInv, AdminRemains, ActiveAdmins, Enabled, Present
  <2> QED BY <2>5, <2>6, <2>7, <2>8 DEF AdminInv
<1>2. ASSUME SetupInsert(r) PROVE AdminInv'
  <2> DEFINE u == call[r].user
  <2>1. u \in User /\ call[r].pc = "insert"
    BY <1>2 DEF SetupInsert, TypeInv, CallsOK
  <2>2. \A v \in User : user[v] = Never
    BY <2>1 DEF AdminInv, SetupAlone
  <2>3. call'[r].pc = "store" /\ \A q \in Request : q # r => call'[q] = call[q]
    BY <1>2, CallAt DEF SetupInsert
  <2>4. \A q \in Request : call[q].pc # "write"
    BY <2>2 DEF AdminInv, ReadHolds, Present, Never, TypeInv, CallsOK
  <2>5. \A q \in Request : call'[q].pc \notin {"insert", "write"}
    BY <2>1, <2>3, <2>4 DEF AdminInv, SetupAlone
  <2>6. OneHolder'
    BY <2>3 DEF AdminInv, OneHolder, Holding
  <2>7. u \in ActiveAdmins'
    BY <1>2, <2>1 DEF SetupInsert, TypeInv, UsersOK, ActiveAdmins, Enabled, Present, Account
  <2> QED BY <2>5, <2>6, <2>7 DEF AdminInv, ReadHolds, SetupAlone, AdminRemains
<1> QED BY <1>1, <1>2

(* Somebody who may ask for it is an administrator already. *)
LEMMA CallerAdmin == ByAdmin => ActiveAdmins # {}
BY DEF ByAdmin

LEMMA CreateAdmin ==
  ASSUME TypeInv, AdminInv, NEW u \in User, NEW role \in Role, CreateUser(u, role)
  PROVE  AdminInv'
<1>1. PICK v \in ActiveAdmins : TRUE
  BY CallerAdmin DEF CreateUser
<1>2. v # u /\ user'[v] = user[v]
  <2>1. v \in User /\ Present(v)
    BY <1>1 DEF ActiveAdmins, Enabled
  <2>2. ~Present(u)
    BY DEF CreateUser, Present, Never
  <2> QED BY <2>1, <2>2 DEF CreateUser, TypeInv, UsersOK
<1>3. call' = call
  BY DEF CreateUser
<1>4. \A w \in User : w # u => user'[w] = user[w]
  BY DEF CreateUser, TypeInv, UsersOK
<1>5. ~Present(u)
  BY DEF CreateUser, Present, Never
<1>6. v \in ActiveAdmins'
  BY <1>1, <1>2 DEF ActiveAdmins, Enabled, Present
<1>7. ReadHolds'
  <2> SUFFICES ASSUME NEW r \in Request, call[r].pc = "write"
               PROVE  /\ Present(call[r].user)'
                      /\ (call[r].user \in ActiveAdmins')
                           /\ ~StaysAdmin(r) => ActiveAdmins' # {call[r].user}
    BY <1>3 DEF ReadHolds, StaysAdmin
  <2>1. Present(call[r].user) /\ call[r].user # u /\ call[r].user \in User
    BY <1>5 DEF AdminInv, ReadHolds, TypeInv, CallsOK
  <2>2. user'[call[r].user] = user[call[r].user]
    BY <1>4, <2>1
  <2>3. call[r].user \in ActiveAdmins' => call[r].user \in ActiveAdmins
    BY <2>1, <2>2 DEF ActiveAdmins, Enabled, Present
  <2>4. ActiveAdmins \subseteq ActiveAdmins'
    BY <1>4, <1>5 DEF ActiveAdmins, Enabled, Present
  <2>5. Present(call[r].user)'
    BY <1>3, <2>1, <2>2 DEF Present
  <2>6. call[r].user \in ActiveAdmins /\ ~StaysAdmin(r) => ActiveAdmins # {call[r].user}
    BY DEF AdminInv, ReadHolds
  <2> QED BY <2>3, <2>4, <2>5, <2>6
<1>8. OneHolder' /\ SetupAlone'
  <2>1. \A r \in Request : call[r].pc # "insert"
    BY <1>1 DEF AdminInv, SetupAlone, ActiveAdmins, Enabled, Present, Never
  <2> QED BY <1>3, <2>1 DEF AdminInv, OneHolder, Holding, SetupAlone
<1> QED BY <1>6, <1>7, <1>8 DEF AdminInv, AdminRemains

LEMMA LockAdmin ==
  ASSUME TypeInv, AdminInv, NEW r \in Request, Lock(r)
  PROVE  AdminInv'
<1>1. user' = user /\ \A q \in Request : ~Holding(q)
  BY DEF Lock, table, Holding
<1>2. call'[r].pc = "inspect" /\ \A q \in Request : q # r => call'[q] = call[q]
  BY CallAt DEF Lock
<1>3. OneHolder'
  BY <1>1, <1>2 DEF OneHolder, Holding
<1>4. ReadHolds'
  BY <1>1, <1>2 DEF ReadHolds, Holding
<1>5. SetupAlone'
  BY <1>1, <1>2 DEF AdminInv, SetupAlone
<1> QED BY <1>1, <1>3, <1>4, <1>5 DEF AdminInv, AdminRemains, ActiveAdmins, Enabled, Present

LEMMA InspectAdmin ==
  ASSUME TypeInv, AdminInv, NEW r \in Request, Inspect(r)
  PROVE  AdminInv'
<1> DEFINE u == call[r].user
<1>1. user' = user /\ call[r].pc = "inspect"
  BY DEF Inspect, table
<1>2. CASE End(r)
  BY <1>1, <1>2, CallAt, IdleShape, AdminQuiet
<1>3. CASE /\ Present(u) /\ (u \in ActiveAdmins /\ ~StaysAdmin(r) => Cardinality(ActiveAdmins) > 1)
           /\ Goto(r, "write")
  <2>1. /\ call'[r].pc = "write" /\ call'[r].user = u /\ StaysAdmin(r)' = StaysAdmin(r)
        /\ \A q \in Request : q # r => call'[q] = call[q]
    BY <1>3, CallAt DEF StaysAdmin
  <2>2. \A q \in Request : q # r => ~Holding(q)
    BY <1>1 DEF AdminInv, OneHolder, Holding
  <2>3. u \in ActiveAdmins /\ ~StaysAdmin(r) => ActiveAdmins # {u}
    <3>1. ActiveAdmins = {u} => Cardinality(ActiveAdmins) = 1
      BY FS_Singleton
    <3> QED BY <1>3, <3>1
  <2>4. OneHolder'
    BY <2>1, <2>2 DEF OneHolder, Holding
  <2>5. ReadHolds'
    <3> SUFFICES ASSUME NEW q \in Request, call'[q].pc = "write"
                 PROVE  /\ Present(call[q].user)' /\ q = r
                        /\ (u \in ActiveAdmins /\ ~StaysAdmin(r) => ActiveAdmins # {u})'
      BY <2>1 DEF ReadHolds
    <3>1. q = r
      BY <2>1, <2>2 DEF Holding
    <3> QED BY <1>1, <1>3, <2>1, <2>3, <3>1 DEF ActiveAdmins, Enabled, Present
  <2>6. SetupAlone'
    BY <1>1, <2>1 DEF AdminInv, SetupAlone
  <2> QED BY <1>1, <2>4, <2>5, <2>6 DEF AdminInv, AdminRemains, ActiveAdmins, Enabled, Present
<1> QED BY <1>2, <1>3 DEF Inspect

LEMMA WriteAdmin ==
  ASSUME TypeInv, AdminInv, NEW r \in Request, Write(r)
  PROVE  AdminInv'
<1> DEFINE u == call[r].user
<1>1. /\ call[r].pc = "write" /\ u \in User /\ Present(u)
      /\ u \in ActiveAdmins /\ ~StaysAdmin(r) => ActiveAdmins # {u}
  BY DEF Write, TypeInv, CallsOK, AdminInv, ReadHolds
<1>2. call'[r] = NoCall /\ \A q \in Request : q # r => call'[q] = call[q]
  BY CallAt DEF Write
<1>3. \A q \in Request : ~Holding(q)'
  BY <1>1, <1>2, IdleShape DEF AdminInv, OneHolder, Holding
<1>4. \A q \in Request : call[q].pc # "insert"
  BY <1>1 DEF AdminInv, SetupAlone, Present, Never
<1>5. \A w \in User : w # u => user'[w] = user[w]
  BY DEF Write, TypeInv, UsersOK
<1>6. ActiveAdmins' # {}
  <2>1. CASE StaysAdmin(r)
    <3>1. user'[u] = Account("admin", TRUE)
      BY <1>1, <2>1 DEF Write, StaysAdmin, TypeInv, UsersOK
    <3> QED BY <1>1, <3>1 DEF ActiveAdmins, Enabled, Present, Account
  <2>2. CASE ~StaysAdmin(r)
    <3>1. ActiveAdmins # {}
      <4>1. user[u].state # "never"
        BY <1>1 DEF Present
      <4> QED BY <1>1, <4>1 DEF AdminInv, AdminRemains
    <3>2. PICK v \in ActiveAdmins : v # u
      BY <1>1, <2>2, <3>1
    <3>3. v \in User /\ user'[v] = user[v]
      BY <1>5, <3>2 DEF ActiveAdmins
    <3> QED BY <3>2, <3>3 DEF ActiveAdmins, Enabled, Present
  <2> QED BY <2>1, <2>2
<1>7. OneHolder' /\ ReadHolds'
  BY <1>3 DEF OneHolder, ReadHolds, Holding
<1>8. SetupAlone'
  BY <1>2, <1>4, IdleShape DEF SetupAlone
<1> QED BY <1>6, <1>7, <1>8 DEF AdminInv, AdminRemains

LEMMA NextAdmin == ASSUME TypeInv, AdminInv, [AccountNext]_accountVars PROVE AdminInv'
<1>1. CASE UNCHANGED accountVars
  BY <1>1, AdminQuiet DEF accountVars
<1>2. ASSUME NEW r \in Request, NEW u \in User, UpdateUser(r, u) PROVE AdminInv'
  BY <1>2, CallAt, AdminQuiet DEF UpdateUser, table, NoCall
<1>3. ASSUME NEW r \in Request, NEW u \in User, DeleteUser(r, u) \/ Login(r, u) PROVE AdminInv'
  BY <1>3, CallAt, AdminQuiet DEF DeleteUser, Login, table
<1>4. ASSUME NEW r \in Request, Store(r) \/ StoreFails(r) PROVE AdminInv'
  BY <1>4, CallAt, IdleShape, AdminQuiet DEF Store, StoreFails, StoreRow, table
<1>5. ASSUME NEW r \in Request, CheckSession(r) \/ CheckUser(r) \/ Fail(r) PROVE AdminInv'
  BY <1>5, CallAt, IdleShape, AdminQuiet DEF CheckSession, CheckUser, Fail, table
<1>6. ASSUME NEW r \in Request, NEW s, Authenticate(r, s) PROVE AdminInv'
  BY <1>6, CallAt, AdminQuiet DEF Authenticate, table, NoCall
<1>7. ASSUME NEW r \in Request, NEW g, ConfirmDevice(r, g) \/ PollDevice(r, g) PROVE AdminInv'
  <2>1. CASE ConfirmDevice(r, g)
    BY <2>1, CallAt, IdleShape, AdminQuiet DEF ConfirmDevice, table
  <2>2. CASE PollDevice(r, g)
    <3> DEFINE x == [NoCall EXCEPT !.kind = "poll", !.pc = "session", !.grant = g,
                                 !.user = grants[g].user, !.session = grants[g].session]
    <3>1. x.pc = "session" /\ call' = [call EXCEPT ![r] = x]
      BY <2>2 DEF PollDevice, Polled, NoCall
    <3> HIDE DEF x
    <3>2. call'[r].pc = "session" /\ \A q \in Request : q # r => call'[q] = call[q]
      BY <3>1, CallAt
    <3> QED BY <2>2, <3>2, AdminQuiet DEF PollDevice, table
  <2> QED BY <1>7, <2>1, <2>2
<1>8. ASSUME NEW x, \/ Logout(x) \/ Age(x) \/ Reject(x) \/ StartDevice(x) \/ Expire(x)
                    \/ \E y : DeleteByUser(x, y)
      PROVE  AdminInv'
  BY <1>8, AdminQuiet DEF Logout, Age, Reject, StartDevice, Expire, DeleteByUser, table
<1>9. CASE Restart
  BY <1>9, IdleShape, AdminQuiet DEF Restart, table
<1>10. CASE AccountNext
  BY <1>10, SetupAdmin, CreateAdmin, LockAdmin, InspectAdmin, WriteAdmin,
     <1>2, <1>3, <1>4, <1>5, <1>6, <1>7, <1>8, <1>9 DEF AccountNext
<1> QED BY <1>1, <1>10

LEMMA InitAdmin == AccountInit => AdminInv
BY IdleShape DEF AccountInit, AdminInv, OneHolder, ReadHolds, SetupAlone, Holding, AdminRemains, Never

(* Some administrator can log in, once there is an account, whatever       *)
(* changes of administrators interleave.                                   *)
THEOREM AdminStays == AccountSpec => []AdminRemains
<1>1. TypeInv /\ AdminInv /\ [AccountNext]_accountVars => TypeInv' /\ AdminInv'
  BY NextTypes, NextAdmin
<1>2. AdminInv => AdminRemains
  BY DEF AdminInv
<1> QED BY <1>1, <1>2, InitTypes, InitAdmin, PTL DEF AccountSpec

-----------------------------------------------------------------------------
(* The code of a device. *)

(* Steps that leave the grants alone, and give no request one. *)
LEMMA CodeQuiet ==
  ASSUME Nil \notin Grant, CodeInv, UNCHANGED devices,
         \A r \in Request : call'[r].grant \in {Nil, call[r].grant}
  PROVE  CodeInv'
<1>1. \A g \in Grant : Held(g)' => Held(g)
  BY DEF Held
<1>2. Listed' /\ CodeWorksOnce'
  BY DEF CodeInv, Listed, CodeWorksOnce, devices
<1>3. HeldOnce'
  BY DEF CodeInv, HeldOnce, devices
<1>4. Unanswered'
  BY <1>1 DEF CodeInv, Unanswered, devices
<1> QED BY <1>2, <1>3, <1>4 DEF CodeInv

LEMMA StoreCode ==
  ASSUME Nil \notin Grant, TypeInv, CodeInv, NEW r \in Request, Store(r)
  PROVE  CodeInv'
<1> DEFINE g == call[r].grant
<1>1. call'[r].grant = Nil /\ \A q \in Request : q # r => call'[q] = call[q]
  BY CallAt, IdleShape DEF Store
<1>2. UNCHANGED <<grants, started, expired>>
  BY DEF Store
<1>3. \A h \in Grant : answered'[h] = answered[h] + IF h = g THEN 1 ELSE 0
  BY DEF Store
<1>4. \A h \in Grant : answered[h] \in Nat
  BY DEF TypeInv, GrantsOK
<1>5. \A h \in Grant : Held(h)' => Held(h) /\ h # g
  BY <1>1 DEF Held, CodeInv, HeldOnce
<1>6. g # Nil => g \in started \ DOMAIN grants
  BY DEF CodeInv, HeldOnce
<1>7. Unanswered'
  <2> SUFFICES ASSUME NEW h \in Grant, h \notin started \/ h \in DOMAIN grants \/ Held(h)'
               PROVE  answered'[h] = 0
    BY <1>2 DEF Unanswered
  <2>1. h # g /\ answered[h] = 0
    BY <1>5, <1>6 DEF CodeInv, Unanswered
  <2> QED BY <1>3, <2>1
<1>8. CodeWorksOnce'
  <2> SUFFICES ASSUME NEW h \in Grant PROVE answered'[h] <= 1
    BY DEF CodeWorksOnce
  <2>1. h = g => answered[h] = 0
    BY DEF CodeInv, Unanswered, Held
  <2>2. answered[h] <= 1
    BY DEF CodeInv, CodeWorksOnce
  <2> QED BY <1>3, <1>4, <2>1, <2>2
<1>9. Listed' /\ HeldOnce'
  BY <1>1, <1>2 DEF CodeInv, Listed, HeldOnce
<1> QED BY <1>7, <1>8, <1>9 DEF CodeInv

LEMMA StoreFailsCode ==
  ASSUME Nil \notin Grant, TypeInv, CodeInv, NEW r \in Request, StoreFails(r)
  PROVE  CodeInv'
<1> DEFINE g == call[r].grant
<1>1. call'[r].grant = Nil /\ \A q \in Request : q # r => call'[q] = call[q]
  BY CallAt, IdleShape DEF StoreFails
<1>2. UNCHANGED <<started, expired, answered>>
  BY DEF StoreFails
<1>3. DOMAIN grants' = DOMAIN grants \cup ({g} \ (expired \cup {Nil}))
  BY DEF StoreFails, PutBack
<1>4. \A h \in Grant : Held(h)' => Held(h) /\ h # g
  BY <1>1 DEF Held, CodeInv, HeldOnce
<1>5. g # Nil => g \in started \ DOMAIN grants
  BY DEF CodeInv, HeldOnce
<1>6. Listed'
  BY <1>2, <1>3, <1>5 DEF CodeInv, Listed
<1>7. HeldOnce'
  <2>1. ASSUME NEW q \in Request, call'[q].grant # Nil
        PROVE  call'[q].grant \in started' \ DOMAIN grants'
    BY <1>1, <1>2, <1>3, <2>1 DEF CodeInv, HeldOnce
  <2> QED BY <1>1, <2>1 DEF CodeInv, HeldOnce
<1>8. Unanswered'
  <2> SUFFICES ASSUME NEW h \in Grant, h \notin started \/ h \in DOMAIN grants' \/ Held(h)'
               PROVE  answered[h] = 0
    BY <1>2 DEF Unanswered
  <2>1. h \notin started \/ h \in DOMAIN grants \/ Held(h)
    BY <1>3, <1>4 DEF Held
  <2> QED BY <2>1 DEF CodeInv, Unanswered
<1> QED BY <1>2, <1>6, <1>7, <1>8 DEF CodeInv, CodeWorksOnce

LEMMA StartCode ==
  ASSUME Nil \notin Grant, CodeInv, NEW g \in Grant, StartDevice(g)
  PROVE  CodeInv'
<1>1. /\ g \notin started /\ started' = started \cup {g} /\ DOMAIN grants' = DOMAIN grants \cup {g}
      /\ UNCHANGED <<expired, answered, call>>
  BY DEF StartDevice
<1>2. Listed'
  BY <1>1 DEF CodeInv, Listed
<1>3. HeldOnce'
  BY <1>1 DEF CodeInv, HeldOnce
<1>4. Unanswered'
  <2>1. \A h \in Grant : Held(h)' <=> Held(h)
    BY <1>1 DEF Held
  <2> QED BY <1>1, <2>1 DEF CodeInv, Unanswered
<1> QED BY <1>1, <1>2, <1>3, <1>4 DEF CodeInv, CodeWorksOnce

(* Grants are dropped, and what requests hold stays or is dropped too. *)
LEMMA DropCode ==
  ASSUME Nil \notin Grant, CodeInv, NEW D, grants' = Without(grants, D),
         expired \subseteq expired', expired' \subseteq started,
         DOMAIN grants' \cap expired' = {}, UNCHANGED <<started, answered>>,
         \A r \in Request : call'[r].grant \in {Nil, call[r].grant}
  PROVE  CodeInv'
<1>1. DOMAIN grants' \subseteq DOMAIN grants
  BY DEF Without
<1>2. Listed'
  BY <1>1 DEF CodeInv, Listed
<1>3. HeldOnce'
  BY <1>1 DEF CodeInv, HeldOnce
<1>4. Unanswered'
  <2>1. \A h \in Grant : Held(h)' => Held(h)
    BY DEF Held
  <2> QED BY <1>1, <2>1 DEF CodeInv, Unanswered
<1> QED BY <1>2, <1>3, <1>4 DEF CodeInv, CodeWorksOnce

LEMMA ExpireCode ==
  ASSUME Nil \notin Grant, CodeInv, NEW g \in Grant, Expire(g)
  PROVE  CodeInv'
<1>1. DOMAIN grants' \cap expired' = {}
  BY DEF Expire, Without, CodeInv, Listed
<1>2. expired' \subseteq started
  BY DEF Expire, CodeInv, Listed
<1> QED BY <1>1, <1>2, DropCode DEF Expire

LEMMA RestartCode ==
  ASSUME Nil \notin Grant, TypeInv, CodeInv, Restart
  PROVE  CodeInv'
<1>1. DOMAIN grants' = {}
  BY DEF Restart, Without, TypeInv, GrantsOK
<1>2. \A r \in Request : call'[r].grant = Nil
  BY IdleShape DEF Restart
<1> QED BY <1>1, <1>2, DropCode DEF Restart, CodeInv, Listed

LEMMA ConfirmCode ==
  ASSUME Nil \notin Grant, TypeInv, CodeInv, NEW r \in Request, NEW g, ConfirmDevice(r, g)
  PROVE  CodeInv'
<1>1. DOMAIN grants' = DOMAIN grants /\ UNCHANGED <<started, expired, answered>>
  BY DEF ConfirmDevice
<1>2. \A q \in Request : call'[q].grant \in {Nil, call[q].grant}
  BY CallAt, IdleShape DEF ConfirmDevice
<1>3. \A h \in Grant : Held(h)' => Held(h)
  BY <1>2 DEF Held
<1> QED BY <1>1, <1>2, <1>3 DEF CodeInv, Listed, HeldOnce, Unanswered, CodeWorksOnce

(* The poll takes the grant off the list and holds it alone. *)
LEMMA PollCode ==
  ASSUME Nil \notin Grant, TypeInv, CodeInv, NEW r \in Request, NEW g \in Grant, PollDevice(r, g)
  PROVE  CodeInv'
<1> DEFINE x == [NoCall EXCEPT !.kind = "poll", !.pc = "session", !.grant = g,
                             !.user = grants[g].user, !.session = grants[g].session]
<1>1. x.grant = g /\ call' = [call EXCEPT ![r] = x]
  BY DEF PollDevice, Polled, NoCall
<1> HIDE DEF x
<1>2. call'[r].grant = g /\ \A q \in Request : q # r => call'[q] = call[q]
  BY <1>1, CallAt
<1>3. /\ g \in DOMAIN grants /\ DOMAIN grants' = DOMAIN grants \ {g}
      /\ UNCHANGED <<started, expired, answered>>
  BY DEF PollDevice, Without
<1>4. g \in started /\ \A q \in Request : call[q].grant # g
  BY <1>3 DEF CodeInv, Listed, HeldOnce
<1>5. Listed'
  BY <1>3 DEF CodeInv, Listed
<1>6. HeldOnce'
  <2>1. ASSUME NEW q \in Request, call'[q].grant # Nil
        PROVE  call'[q].grant \in started' \ DOMAIN grants'
    BY <1>2, <1>3, <1>4, <2>1 DEF CodeInv, HeldOnce
  <2>2. ASSUME NEW p \in Request, NEW q \in Request, call'[p].grant # Nil,
               call'[p].grant = call'[q].grant
        PROVE  p = q
    BY <1>2, <1>4, <2>2 DEF CodeInv, HeldOnce
  <2> QED BY <2>1, <2>2 DEF HeldOnce
<1>7. Unanswered'
  <2>1. \A h \in Grant : Held(h)' => Held(h) \/ h = g
    BY <1>2 DEF Held
  <2> QED BY <1>3, <2>1 DEF CodeInv, Unanswered
<1> QED BY <1>3, <1>5, <1>6, <1>7 DEF CodeInv, CodeWorksOnce

LEMMA NextCode ==
  ASSUME Nil \notin Grant, TypeInv, CodeInv, [AccountNext]_accountVars
  PROVE  CodeInv'
<1>1. CASE UNCHANGED accountVars
  BY <1>1, CodeQuiet DEF accountVars, devices
<1>2. ASSUME NEW r \in Request, NEW u \in User, SetupCount(r, u) \/ DeleteUser(r, u) \/ Login(r, u)
      PROVE  CodeInv'
  BY <1>2, CallAt, CodeQuiet DEF SetupCount, DeleteUser, Login
<1>3. ASSUME NEW r \in Request, NEW u \in User, UpdateUser(r, u) PROVE CodeInv'
  BY <1>3, CallAt, CodeQuiet DEF UpdateUser, NoCall
<1>4. ASSUME NEW u \in User, NEW role \in Role, CreateUser(u, role) PROVE CodeInv'
  BY <1>4, CodeQuiet DEF CreateUser
<1>5. ASSUME NEW r \in Request, SetupInsert(r) \/ Lock(r) \/ Inspect(r) \/ Write(r) PROVE CodeInv'
  BY <1>5, CallAt, IdleShape, CodeQuiet DEF SetupInsert, Lock, Inspect, Write
<1>6. ASSUME NEW r \in Request, CheckSession(r) \/ CheckUser(r) \/ Fail(r) PROVE CodeInv'
  BY <1>6, CallAt, IdleShape, CodeQuiet DEF CheckSession, CheckUser, Fail
<1>7. ASSUME NEW r \in Request, NEW s, Authenticate(r, s) PROVE CodeInv'
  BY <1>7, CallAt, CodeQuiet DEF Authenticate, NoCall
<1>8. ASSUME NEW x, Logout(x) \/ Age(x) \/ Reject(x) \/ \E y : DeleteByUser(x, y) PROVE CodeInv'
  BY <1>8, CodeQuiet DEF Logout, Age, Reject, DeleteByUser
<1>9. CASE AccountNext
  BY <1>9, StoreCode, StoreFailsCode, StartCode, ExpireCode, RestartCode, ConfirmCode, PollCode,
     <1>2, <1>3, <1>4, <1>5, <1>6, <1>7, <1>8 DEF AccountNext
<1> QED BY <1>1, <1>9

LEMMA InitCode == Nil \notin Grant /\ AccountInit => CodeInv
BY IdleShape DEF AccountInit, CodeInv, Listed, HeldOnce, Unanswered, CodeWorksOnce, Held

(* A device gets one session for its code at most, however polls, failed   *)
(* stores, expiry and restarts follow each other.                          *)
THEOREM CodeOnce == ASSUME Nil \notin Grant PROVE AccountSpec => []CodeWorksOnce
<1>1. TypeInv /\ CodeInv /\ [AccountNext]_accountVars => TypeInv' /\ CodeInv'
  BY NextTypes, NextCode
<1>2. CodeInv => CodeWorksOnce
  BY DEF CodeInv
<1>3. AccountInit => TypeInv /\ CodeInv
  BY InitTypes, InitCode
<1> QED BY <1>1, <1>2, <1>3, PTL DEF AccountSpec

-----------------------------------------------------------------------------
(* Artists: identities and credits.                                        *)

Pcs    == {"idle", "stop", "backup", "plan", "fold", "start", "restore"}
Groups == [winner : 1..MaxRows, dups : SUBSET (1..MaxRows)]

Tables ==
  /\ Rows \subseteq 1..MaxRows
  /\ rows \in [Rows -> Key]
  /\ DOMAIN sources \subseteq Key
  /\ sources \in [DOMAIN sources -> Rows]
  /\ works \in [Work -> Rows \cup {0}]

Transactions ==
  /\ tx \in [Loader -> [pc : {"idle", "found"}, track : Work, artist : 0..MaxRows]]
  /\ \A w \in Loader : tx[w].pc = "found" => tx[w].artist \in Rows \cup {0}

Process ==
  /\ command \in [pc : Pcs, kind : {"reconcile", "merge"}, plan : SUBSET Groups,
                  joined : SUBSET SUBSET Key]
  /\ command.pc = "plan" => command.kind = "reconcile"

(* No download is under way while rows are folded. *)
Stopped ==
  command.pc \in {"backup", "plan", "fold"} =>
    ~backend /\ \A w \in Loader : tx[w].pc = "idle"

(* A group can be folded: its rows exist, and the winner stays. *)
Fits(g) == g.winner \in Rows /\ g.dups \subseteq Rows \ {g.winner}

(* The one group of merge-artists, chosen before the backend stopped. *)
Chosen ==
  command.kind = "merge" /\ command.pc \in {"stop", "backup", "fold"} =>
    (\A g \in command.plan : Fits(g)) /\ \A g, h \in command.plan : g = h

(* What is left to fold is what an analysis would find now. *)
Exact ==
  command.kind = "reconcile" /\ command.pc = "fold" => command.plan = Proved

ArtistInv == Tables /\ Transactions /\ Process /\ Stopped /\ Chosen /\ Exact

-----------------------------------------------------------------------------
(* The order of the candidates.                                            *)

Winner(a) ==
  CHOOSE b \in Namesakes(a) : \A c \in Namesakes(a) \ {b} : IsBetterCandidate(b, c)

GroupOf(a) == Group(Winner(a), {c \in Namesakes(a) \ {Winner(a)} : ~Genuine(c)})

Clear(a) == ~Ambiguous(Namesakes(a))

LEMMA ProvedGroups ==
  Proved = {g \in {GroupOf(a) : a \in {b \in Rows : Clear(b)}} : g.dups # {}}
BY DEF Proved, GroupOf, Winner, Clear

LEMMA WorkFinite == IsFiniteSet(Work)
BY ArtistAssumption, FS_AddElement DEF Work

LEMMA ItemsNat == ASSUME NEW a PROVE Items(a) \in Nat
<1>1. {w \in Work : works[w] = a} \in SUBSET Work
  OBVIOUS
<1>2. IsFiniteSet({w \in Work : works[w] = a})
  BY <1>1, WorkFinite, FS_Subset
<1> QED
  BY <1>2, FS_CardinalityType DEF Items

LEMMA BetterAsymmetric ==
  ASSUME Tables, NEW a \in Rows, NEW b \in Rows, IsBetterCandidate(a, b)
  PROVE  ~IsBetterCandidate(b, a)
<1>1. a \in Int /\ b \in Int
  BY ArtistAssumption DEF Tables
<1> QED
  BY <1>1, ItemsNat DEF IsBetterCandidate, HasSub, Genuine

LEMMA BetterTotal ==
  ASSUME Tables, NEW a \in Rows, NEW b \in Rows, a # b
  PROVE  IsBetterCandidate(a, b) \/ IsBetterCandidate(b, a)
<1>1. a \in Int /\ b \in Int
  BY ArtistAssumption DEF Tables
<1> QED
  BY <1>1, ItemsNat DEF IsBetterCandidate, HasSub, Genuine

LEMMA BetterTransitive ==
  ASSUME Tables, NEW a \in Rows, NEW b \in Rows, NEW c \in Rows,
         IsBetterCandidate(a, b), IsBetterCandidate(b, c)
  PROVE  IsBetterCandidate(a, c)
<1>1. a \in Int /\ b \in Int /\ c \in Int
  BY ArtistAssumption DEF Tables
<1> QED
  BY <1>1, ItemsNat DEF IsBetterCandidate, HasSub, Genuine

Leads(C) == \E b \in C : \A c \in C \ {b} : IsBetterCandidate(b, c)

(* Take a smallest set of rows without a best one and leave one row out:   *)
(* the best of the others, or the row left out, is the best of all.        *)
LEMMA BestExists ==
  ASSUME Tables, NEW C \in SUBSET Rows, C # {}
  PROVE  Leads(C)
<1> DEFINE Bad == {n \in Nat : \E D \in SUBSET Rows : D # {} /\ ~Leads(D) /\ Cardinality(D) = n}
<1>0. \A D \in SUBSET Rows : IsFiniteSet(D)
  <2>1. IsFiniteSet(1..MaxRows)
    BY ArtistAssumption, FS_Interval
  <2>2. \A D \in SUBSET Rows : D \in SUBSET (1..MaxRows)
    BY DEF Tables
  <2> QED
    BY <2>1, <2>2, FS_Subset
<1>1. SUFFICES ASSUME ~Leads(C) PROVE FALSE
  OBVIOUS
<1>2. Cardinality(C) \in Bad
  BY <1>0, <1>1, FS_CardinalityType
<1>3. PICK n \in Bad : \A m \in Bad : ~(<<m, n>> \in OpToRel(<, Nat))
  BY <1>2, NatLessThanWellFounded, WFMin
<1>4. PICK D \in SUBSET Rows : D # {} /\ ~Leads(D) /\ Cardinality(D) = n
  BY <1>3
<1>5. PICK x \in D : TRUE
  BY <1>4
<1>6. D \ {x} # {}
  <2>1. SUFFICES ASSUME D = {x} PROVE FALSE
    BY <1>5
  <2>2. \A c \in D \ {x} : IsBetterCandidate(x, c)
    BY <2>1
  <2> QED
    BY <1>4, <1>5, <2>2 DEF Leads
<1>7. Cardinality(D \ {x}) \in Nat /\ Cardinality(D \ {x}) < n
  BY <1>0, <1>4, <1>5, FS_RemoveElement, FS_CardinalityType
<1>8. Leads(D \ {x})
  <2>1. SUFFICES ASSUME ~Leads(D \ {x}) PROVE FALSE
    OBVIOUS
  <2>2. Cardinality(D \ {x}) \in Bad
    BY <1>6, <1>7, <2>1
  <2>3. <<Cardinality(D \ {x}), n>> \in OpToRel(<, Nat)
    BY <1>3, <1>7 DEF OpToRel
  <2> QED
    BY <1>3, <2>2, <2>3
<1>9. PICK b \in D \ {x} : \A c \in (D \ {x}) \ {b} : IsBetterCandidate(b, c)
  BY <1>8 DEF Leads
<1>10. b \in Rows /\ x \in Rows /\ b # x
  BY <1>5, <1>9
<1>11. CASE IsBetterCandidate(b, x)
  <2>1. \A c \in D \ {b} : IsBetterCandidate(b, c)
    BY <1>9, <1>11
  <2> QED
    BY <1>4, <1>9, <2>1 DEF Leads
<1>12. CASE IsBetterCandidate(x, b)
  <2>1. \A c \in D \ {x} : IsBetterCandidate(x, c)
    BY <1>9, <1>10, <1>12, BetterTransitive
  <2> QED
    BY <1>4, <1>5, <2>1 DEF Leads
<1> QED
  BY <1>10, <1>11, <1>12, BetterTotal

LEMMA NamesakesRows ==
  ASSUME NEW a \in Rows
  PROVE  a \in Namesakes(a) /\ Namesakes(a) \in SUBSET Rows /\ Namesakes(a) # {}
BY DEF Namesakes

LEMMA WinnerIs ==
  ASSUME Tables, NEW a \in Rows
  PROVE  /\ Winner(a) \in Namesakes(a)
         /\ \A c \in Namesakes(a) \ {Winner(a)} : IsBetterCandidate(Winner(a), c)
BY NamesakesRows, BestExists DEF Winner, Leads

(* Every group of the analysis can be folded. *)
LEMMA ProvedFit ==
  ASSUME Tables, NEW g \in Proved
  PROVE  Fits(g) /\ g \in Groups
<1>1. PICK a \in Rows : g = GroupOf(a)
  BY ProvedGroups
<1> DEFINE C == Namesakes(a)
<1>2. C \in SUBSET Rows /\ C # {}
  BY NamesakesRows
<1>3. Winner(a) \in C
  BY WinnerIs
<1>4. g.winner = Winner(a) /\ g.dups = {c \in C \ {Winner(a)} : ~Genuine(c)}
  BY <1>1 DEF GroupOf, Group
<1>5. g = [winner |-> Winner(a), dups |-> {c \in C \ {Winner(a)} : ~Genuine(c)}]
  BY <1>1 DEF GroupOf, Group
<1>6. Fits(g)
  BY <1>2, <1>3, <1>4 DEF Fits
<1>7. Rows \subseteq 1..MaxRows
  BY DEF Tables
<1> QED
  BY <1>2, <1>3, <1>5, <1>6, <1>7 DEF Groups

-----------------------------------------------------------------------------
(* What a merge does to the analysis.                                      *)

LEMMA NamesakesSame ==
  ASSUME NEW a \in Rows, NEW b \in Namesakes(a)
  PROVE  b \in Rows /\ Namesakes(b) = Namesakes(a)
BY DEF Namesakes

LEMMA NamesakesDisjoint ==
  ASSUME NEW a \in Rows, NEW b \in Rows, b \notin Namesakes(a)
  PROVE  Namesakes(a) \cap Namesakes(b) = {}
BY DEF Namesakes

(* The winner gains credits, nobody else's change, and the rows that stay  *)
(* are as they were.                                                       *)
LEMMA FoldRows ==
  ASSUME Tables, Tables', NEW g, Fits(g), Fold(g), UNCHANGED subscribed
  PROVE  /\ Rows' = Rows \ g.dups
         /\ \A a \in Rows' : /\ rows'[a] = rows[a]
                             /\ Genuine(a)' = Genuine(a) /\ HasSub(a)' = HasSub(a)
                             /\ Provider(a)' = Provider(a)
                             /\ Namesakes(a)' = Namesakes(a) \ g.dups
         /\ \A a \in Rows' \ {g.winner} : Items(a)' = Items(a)
         /\ Items(g.winner)' >= Items(g.winner)
<1>1. rows' = [a \in Rows \ g.dups |-> rows[a]]
  BY DEF Fold
<1>2. Rows' = Rows \ g.dups
  BY <1>1 DEF Rows
<1>3. \A a \in Rows' : rows'[a] = rows[a]
  BY <1>1, <1>2
<1>4. \A a \in Rows' : Genuine(a)' = Genuine(a) /\ HasSub(a)' = HasSub(a)
                       /\ Provider(a)' = Provider(a)
  BY <1>3 DEF Genuine, HasSub, Provider
<1>5. \A a \in Rows' : Namesakes(a)' = Namesakes(a) \ g.dups
  BY <1>2, <1>3 DEF Namesakes
<1>6. works' = [w \in Work |-> IF works[w] \in g.dups THEN g.winner ELSE works[w]]
  BY DEF Fold
<1>7. ASSUME NEW a \in Rows' \ {g.winner} PROVE Items(a)' = Items(a)
  <2>1. \A w \in Work : works'[w] = a <=> works[w] = a
    BY <1>2, <1>6
  <2>2. {w \in Work : works'[w] = a} = {w \in Work : works[w] = a}
    BY <2>1
  <2> QED
    BY <2>2 DEF Items
<1>8. Items(g.winner)' >= Items(g.winner)
  <2> DEFINE Old == {w \in Work : works[w] = g.winner}
             New == {w \in Work : works'[w] = g.winner}
  <2>1. Old \in SUBSET New
    BY <1>6 DEF Fits
  <2>2. New \in SUBSET Work
    OBVIOUS
  <2>3. IsFiniteSet(New)
    BY <2>2, WorkFinite, FS_Subset
  <2>4. Cardinality(Old) <= Cardinality(New)
    BY <2>1, <2>3, FS_Subset
  <2>5. IsFiniteSet(Old)
    BY <2>1, <2>3, FS_Subset
  <2>6. Cardinality(Old) \in Nat /\ Cardinality(New) \in Nat
    BY <2>3, <2>5, FS_CardinalityType
  <2> QED
    BY <2>4, <2>6 DEF Items
<1> QED
  BY <1>2, <1>3, <1>4, <1>5, <1>7, <1>8

(* The order of the rows that stay is as it was, save that the winner may  *)
(* have risen in it.                                                       *)
LEMMA FoldOrder ==
  ASSUME Tables, Tables', NEW g, Fits(g), Fold(g), UNCHANGED subscribed
  PROVE  /\ \A a, b \in Rows' \ {g.winner} :
               IsBetterCandidate(a, b)' <=> IsBetterCandidate(a, b)
         /\ \A b \in Rows' \ {g.winner} :
               IsBetterCandidate(g.winner, b) =>
                 IsBetterCandidate(g.winner, b)' /\ ~IsBetterCandidate(b, g.winner)'
<1>1. /\ \A a \in Rows' : Genuine(a)' = Genuine(a) /\ HasSub(a)' = HasSub(a)
      /\ \A a \in Rows' \ {g.winner} : Items(a)' = Items(a)
      /\ Items(g.winner)' >= Items(g.winner)
      /\ Rows' = Rows \ g.dups
  BY FoldRows
<1>2. \A a, b \in Rows' \ {g.winner} : IsBetterCandidate(a, b)' <=> IsBetterCandidate(a, b)
  BY <1>1 DEF IsBetterCandidate
<1>3. g.winner \in Rows'
  BY <1>1 DEF Fits
<1>4. ASSUME NEW b \in Rows' \ {g.winner}, IsBetterCandidate(g.winner, b)
      PROVE  IsBetterCandidate(g.winner, b)' /\ ~IsBetterCandidate(b, g.winner)'
  <2>1. b \in Int /\ g.winner \in Int /\ Items(b) \in Nat /\ Items(g.winner) \in Nat
    BY <1>1, <1>3, ItemsNat, ArtistAssumption DEF Tables
  <2>2. Items(g.winner)' \in Int
    <3>1. {w \in Work : works'[w] = g.winner} \in SUBSET Work
      OBVIOUS
    <3>2. IsFiniteSet({w \in Work : works'[w] = g.winner})
      BY <3>1, WorkFinite, FS_Subset
    <3>3. Cardinality({w \in Work : works'[w] = g.winner}) \in Nat
      BY <3>2, FS_CardinalityType
    <3> QED
      BY <3>3 DEF Items
  <2>3. /\ Genuine(b)' = Genuine(b) /\ HasSub(b)' = HasSub(b)
        /\ Genuine(g.winner)' = Genuine(g.winner) /\ HasSub(g.winner)' = HasSub(g.winner)
        /\ Items(b)' = Items(b) /\ Items(g.winner)' >= Items(g.winner)
    BY <1>1, <1>3
  <2>4. Genuine(b) \in BOOLEAN /\ HasSub(b) \in BOOLEAN
        /\ Genuine(g.winner) \in BOOLEAN /\ HasSub(g.winner) \in BOOLEAN
    BY DEF Genuine, HasSub
  <2> QED
    BY <1>4, <2>1, <2>2, <2>3, <2>4 DEF IsBetterCandidate
<1> QED
  BY <1>2, <1>4

(* The groups of other names are as before.                                *)
LEMMA FoldOthers ==
  ASSUME Tables, Tables', NEW g, Fits(g), Fold(g), UNCHANGED subscribed,
         NEW a \in Rows', g.winner \notin Namesakes(a), Namesakes(a) \cap g.dups = {}
  PROVE  Clear(a)' = Clear(a) /\ GroupOf(a)' = GroupOf(a)
<1> DEFINE C == Namesakes(a)
<1>1. /\ Rows' = Rows \ g.dups
      /\ \A b \in Rows' : /\ rows'[b] = rows[b] /\ Genuine(b)' = Genuine(b)
                          /\ Provider(b)' = Provider(b)
                          /\ Namesakes(b)' = Namesakes(b) \ g.dups
  BY FoldRows
<1>2. Namesakes(a)' = C
  BY <1>1
<1>3. a \in Rows /\ C \in SUBSET Rows /\ C # {}
  BY <1>1, NamesakesRows
<1>4. C \subseteq Rows' \ {g.winner}
  BY <1>1, <1>3
<1>5. Clear(a)' = Clear(a)
  BY <1>1, <1>2, <1>4 DEF Clear, Ambiguous
<1>6. \A b, c \in C : IsBetterCandidate(b, c)' <=> IsBetterCandidate(b, c)
  BY <1>4, FoldOrder
<1>w. PICK W : W = Winner(a)
  OBVIOUS
<1>v. PICK V : V = Winner(a)'
  OBVIOUS
<1>7. W \in C /\ \A c \in C \ {W} : IsBetterCandidate(W, c)
  BY <1>3, <1>w, WinnerIs
<1>8. V = CHOOSE b \in C : \A c \in C \ {b} : IsBetterCandidate(b, c)'
  BY <1>2, <1>v DEF Winner
<1>9. V \in C /\ \A c \in C \ {V} : IsBetterCandidate(V, c)'
  <2>1. \A c \in C \ {W} : IsBetterCandidate(W, c)'
    BY <1>6, <1>7
  <2> HIDE DEF C
  <2> QED
    BY <1>7, <1>8, <2>1
<1>10. V = W
  <2>1. SUFFICES ASSUME V # W PROVE FALSE
    OBVIOUS
  <2>2. IsBetterCandidate(W, V)
    BY <1>7, <1>9, <2>1
  <2>3. IsBetterCandidate(V, W)
    BY <1>6, <1>7, <1>9, <2>1
  <2> QED
    BY <1>3, <1>7, <1>9, <2>2, <2>3, BetterAsymmetric
<1>11. {c \in C \ {V} : ~Genuine(c)'} = {c \in C \ {W} : ~Genuine(c)}
  BY <1>1, <1>4, <1>10
<1>12. GroupOf(a)' = Group(V, {c \in C \ {V} : ~Genuine(c)'})
  BY <1>2, <1>v DEF GroupOf
<1> QED
  BY <1>5, <1>10, <1>11, <1>12, <1>w DEF GroupOf

(* In the group that was folded only the winner may still be one without   *)
(* an id, and it is still the best.                                        *)
LEMMA FoldFolded ==
  ASSUME Tables, Tables', NEW g, Fits(g), Fold(g), UNCHANGED subscribed,
         NEW a0 \in Rows, g = GroupOf(a0), NEW a \in Rows', a \in Namesakes(a0)
  PROVE  GroupOf(a)'.dups = {}
<1> DEFINE C == Namesakes(a0)
<1>w. PICK w : w = Winner(a0)
  OBVIOUS
<1>1. g.winner = w /\ g.dups = {c \in C \ {w} : ~Genuine(c)}
  BY <1>w DEF GroupOf, Group
<1>2. C \in SUBSET Rows /\ C # {}
  BY NamesakesRows
<1>3. w \in C /\ \A c \in C \ {w} : IsBetterCandidate(w, c)
  BY <1>w, WinnerIs
<1>4. /\ Rows' = Rows \ g.dups
      /\ \A b \in Rows' : Genuine(b)' = Genuine(b) /\ Namesakes(b)' = Namesakes(b) \ g.dups
  BY FoldRows
<1>5. Namesakes(a) = C
  BY NamesakesSame
<1> DEFINE R == C \ g.dups
<1>6. Namesakes(a)' = R
  BY <1>4, <1>5
<1>7. w \in R /\ R \subseteq Rows'
  BY <1>1, <1>2, <1>3, <1>4
<1>8. \A c \in R \ {w} : IsBetterCandidate(w, c)' /\ ~IsBetterCandidate(c, w)'
  BY <1>1, <1>3, <1>7, FoldOrder
<1>v. PICK V : V = Winner(a)'
  OBVIOUS
<1>9. V = CHOOSE b \in R : \A c \in R \ {b} : IsBetterCandidate(b, c)'
  BY <1>6, <1>v DEF Winner
<1>10. V \in R /\ \A c \in R \ {V} : IsBetterCandidate(V, c)'
  <2> HIDE DEF R
  <2> QED
    BY <1>7, <1>8, <1>9
<1>11. V = w
  <2> HIDE DEF R
  <2> QED
    BY <1>7, <1>8, <1>10
<1>12. GroupOf(a)'.dups = {c \in R \ {V} : ~Genuine(c)'}
  BY <1>6, <1>v DEF GroupOf, Group
<1>13. \A c \in R \ {w} : Genuine(c)'
  BY <1>1, <1>4, <1>7
<1> QED
  BY <1>11, <1>12, <1>13

(* A merge takes its group off the analysis and adds none.                 *)
LEMMA FoldSettles ==
  ASSUME Tables, Tables', NEW g \in Proved, Fold(g), UNCHANGED subscribed
  PROVE  Proved' = Proved \ {g}
<1>1. PICK a0 \in Rows : g = GroupOf(a0) /\ Clear(a0)
  BY ProvedGroups
<1>2. Fits(g)
  BY ProvedFit
<1> DEFINE C == Namesakes(a0)
<1>3. C \in SUBSET Rows /\ C # {} /\ g.winner \in C /\ g.dups \subseteq C
  BY <1>1, NamesakesRows, WinnerIs DEF GroupOf, Group
<1>4. Rows' = Rows \ g.dups
  BY <1>2, FoldRows
<1>5. Proved' = {h \in {GroupOf(a)' : a \in {b \in Rows' : Clear(b)'}} : h.dups # {}}
  BY DEF Proved, GroupOf, Winner, Clear
<1>6. ASSUME NEW a \in Rows \ C
      PROVE  /\ a \in Rows' /\ Clear(a)' = Clear(a) /\ GroupOf(a)' = GroupOf(a)
             /\ GroupOf(a) # g
  <2>1. Namesakes(a) \cap C = {}
    BY NamesakesDisjoint
  <2>2. a \in Rows'
    BY <1>3, <1>4
  <2>3. Clear(a)' = Clear(a) /\ GroupOf(a)' = GroupOf(a)
    BY <1>2, <1>3, <2>1, <2>2, FoldOthers
  <2>4. Namesakes(a) \in SUBSET Rows /\ Namesakes(a) # {}
    BY NamesakesRows
  <2>5. GroupOf(a).winner \in Namesakes(a)
    BY WinnerIs DEF GroupOf, Group
  <2> QED
    BY <1>3, <2>1, <2>2, <2>3, <2>5
<1>7. \A a \in C : GroupOf(a) = g
  BY <1>1, NamesakesSame DEF GroupOf, Winner
<1>8. ASSUME NEW h \in Proved' PROVE h \in Proved \ {g}
  <2>1. PICK a \in Rows' : h = GroupOf(a)' /\ Clear(a)' /\ h.dups # {}
    BY <1>5
  <2>2. a \notin C
    BY <1>1, <1>2, <2>1, FoldFolded
  <2>3. a \in Rows \ C
    BY <1>4, <2>2
  <2> QED
    BY <1>6, <2>1, <2>3, ProvedGroups
<1>9. ASSUME NEW h \in Proved, h # g PROVE h \in Proved'
  <2>1. PICK a \in Rows : h = GroupOf(a) /\ Clear(a) /\ h.dups # {}
    BY ProvedGroups
  <2>2. a \in Rows \ C
    BY <1>7, <1>9, <2>1
  <2> QED
    BY <1>5, <1>6, <2>1, <2>2
<1> QED
  BY <1>8, <1>9

-----------------------------------------------------------------------------
(* The steps.                                                              *)

(* What IdentitiesKept asks of a step. *)
Kept ==
  /\ DOMAIN sources \subseteq DOMAIN sources'
  /\ \A k \in DOMAIN sources' : sources'[k] \in DOMAIN rows'
  /\ \A w \in Work : works[w] # 0 => works'[w] \in DOMAIN rows'

LEMMA TablesStay ==
  ASSUME Tables, UNCHANGED artistRows
  PROVE  Tables' /\ Kept
BY DEF Tables, Kept, artistRows, Rows

LEMMA AnalysisStays ==
  ASSUME UNCHANGED <<rows, works, subscribed>>
  PROVE  Proved' = Proved
<1>1. Rows' = Rows
  BY DEF Rows
<1>2. \A a, b : IsBetterCandidate(a, b)' <=> IsBetterCandidate(a, b)
  BY DEF IsBetterCandidate, HasSub, Genuine, Items
<1>3. \A a : Namesakes(a)' = Namesakes(a) /\ Genuine(a)' = Genuine(a) /\ Provider(a)' = Provider(a)
  BY <1>1 DEF Namesakes, Genuine, Provider
<1>4. \A a : Winner(a)' = Winner(a)
  BY <1>2, <1>3 DEF Winner
<1>5. \A a : Clear(a)' = Clear(a)
  BY <1>3 DEF Clear, Ambiguous
<1>6. \A a : GroupOf(a)' = GroupOf(a)
  BY <1>3, <1>4 DEF GroupOf
<1>7. Proved' = {g \in {GroupOf(a)' : a \in {b \in Rows' : Clear(b)'}} : g.dups # {}}
  BY DEF Proved, GroupOf, Winner, Clear
<1> QED
  BY <1>1, <1>5, <1>6, <1>7, ProvedGroups

LEMMA ChosenStays ==
  ASSUME Chosen, UNCHANGED command, Rows \subseteq Rows'
  PROVE  Chosen'
BY DEF Chosen, Fits

LEMMA FoundRow ==
  ASSUME Tables, NEW k \in External \cup {NameKey}, NEW a \in Found(k)
  PROVE  a \in Rows \cup {0} /\ a \in 0..MaxRows
<1>1. a \in Rows \cup {0}
  BY DEF Found, OfSubscription, Tables
<1> QED
  BY <1>1, ArtistAssumption DEF Tables

LEMMA LookupStep ==
  ASSUME ArtistInv, NEW w \in Loader, NEW t \in Track, Lookup(w, t)
  PROVE  ArtistInv' /\ Kept
<1>1. UNCHANGED <<artistRows, subscribed, backend, command>> /\ backend
  BY DEF Lookup
<1>2. Tables' /\ Kept
  BY <1>1, TablesStay DEF ArtistInv
<1>3. UNCHANGED <<rows, works>> /\ Rows' = Rows
  BY <1>1 DEF artistRows, Rows
<1>4. Proved' = Proved
  BY <1>1, <1>3, AnalysisStays
<1>k. PICK k \in External \cup {NameKey} : \E a \in Found(k) :
        tx' = [tx EXCEPT ![w] = [pc |-> "found", track |-> t, artist |-> a]]
  BY DEF Lookup
<1>5. PICK a \in Found(k) : tx' = [tx EXCEPT ![w] = [pc |-> "found", track |-> t, artist |-> a]]
  BY <1>k
<1>6. a \in Rows \cup {0} /\ a \in 0..MaxRows
  BY FoundRow DEF ArtistInv
<1>7. t \in Work
  BY DEF Work
<1>8. Transactions'
  BY <1>3, <1>5, <1>6, <1>7 DEF ArtistInv, Transactions
<1>9. Stopped' /\ Process'
  BY <1>1 DEF ArtistInv, Stopped, Process
<1>10. Chosen'
  BY <1>1, <1>3, ChosenStays DEF ArtistInv
<1>11. Exact'
  BY <1>1, <1>4 DEF ArtistInv, Exact
<1> QED
  BY <1>2, <1>8, <1>9, <1>10, <1>11 DEF ArtistInv

LEMMA RollbackStep ==
  ASSUME ArtistInv, NEW w \in Loader, Rollback(w)
  PROVE  ArtistInv' /\ Kept
<1>1. UNCHANGED <<artistRows, subscribed, backend, command>> /\ tx' = [tx EXCEPT ![w] = NoTx]
  BY DEF Rollback
<1>2. Tables' /\ Kept
  BY <1>1, TablesStay DEF ArtistInv
<1>3. UNCHANGED <<rows, works>> /\ Rows' = Rows
  BY <1>1 DEF artistRows, Rows
<1>4. Proved' = Proved
  BY <1>1, <1>3, AnalysisStays
<1>5. Transactions'
  BY <1>1, <1>3, ArtistAssumption DEF ArtistInv, Transactions, NoTx, Work
<1>6. Stopped' /\ Process'
  BY <1>1 DEF ArtistInv, Stopped, Process, Transactions, NoTx
<1>7. Chosen'
  BY <1>1, <1>3, ChosenStays DEF ArtistInv
<1>8. Exact'
  BY <1>1, <1>4 DEF ArtistInv, Exact
<1> QED
  BY <1>2, <1>5, <1>6, <1>7, <1>8 DEF ArtistInv

(* Nothing is folded while the backend runs. *)
LEMMA SubscribeStep ==
  ASSUME ArtistInv, NEW k \in External, Subscribe(k)
  PROVE  ArtistInv' /\ Kept
<1>1. UNCHANGED <<artistRows, tx, backend, command>> /\ backend
  BY DEF Subscribe
<1>2. Tables' /\ Kept
  BY <1>1, TablesStay DEF ArtistInv
<1>3. Rows' = Rows
  BY <1>1 DEF artistRows, Rows
<1>4. Transactions' /\ Stopped' /\ Process'
  BY <1>1, <1>3 DEF ArtistInv, Transactions, Stopped, Process
<1>5. Chosen'
  BY <1>1, <1>3, ChosenStays DEF ArtistInv
<1>6. Exact'
  BY <1>1 DEF ArtistInv, Exact, Stopped
<1> QED
  BY <1>2, <1>4, <1>5, <1>6 DEF ArtistInv

(* A commit adds rows and keys, and gives no work an artist that is none.  *)
LEMMA CommitTables ==
  ASSUME ArtistInv, NEW w \in Loader, CommitFound(w) \/ CommitNew(w)
  PROVE  Tables' /\ Kept /\ Rows \subseteq Rows'
<1> DEFINE t == tx[w].track
<1>0. t \in Work /\ Release \in Work /\ NameKey \in Key
  BY ArtistAssumption DEF ArtistInv, Transactions, Work
<1>1. CASE CommitFound(w)
  <2> DEFINE a == tx[w].artist
  <2>1. a \in Rows
    BY <1>1 DEF CommitFound, ArtistInv, Transactions
  <2>2. rows' = rows /\ Rows' = Rows
    BY <1>1 DEF CommitFound, Rows
  <2>3. sources' = [k \in DOMAIN sources \cup {NameKey} |->
                      IF k \in DOMAIN sources THEN sources[k] ELSE a]
    BY <1>1 DEF CommitFound
  <2>4. works' = [works EXCEPT ![Release] = a, ![t] = IF @ = 0 THEN a ELSE @]
    BY <1>1 DEF CommitFound, Credit
  <2>5. DOMAIN sources' = DOMAIN sources \cup {NameKey}
        /\ sources' \in [DOMAIN sources' -> Rows]
    BY <2>1, <2>3 DEF ArtistInv, Tables
  <2>6. works' \in [Work -> Rows \cup {0}] /\ \A x \in Work : works[x] # 0 => works'[x] \in Rows
    <3> HIDE DEF a, t
    <3> QED
      BY <1>0, <2>1, <2>4 DEF ArtistInv, Tables
  <2> HIDE DEF a
  <2> QED
    BY <1>0, <2>2, <2>5, <2>6 DEF ArtistInv, Tables, Kept, Rows
<1>2. CASE CommitNew(w)
  <2>1. NewRow \in 1..MaxRows
    <3>1. MaxRows + 1 \in 1..(MaxRows + 1) /\ \A b \in Rows : b < MaxRows + 1
      BY ArtistAssumption DEF ArtistInv, Tables
    <3>2. NewRow \in 1..(MaxRows + 1)
      BY <3>1 DEF NewRow
    <3> QED
      BY <1>2, <3>2, ArtistAssumption DEF CommitNew
  <2>2. PICK n : n = NewRow
    OBVIOUS
  <2>3. rows' = [b \in Rows \cup {n} |-> IF b = n THEN NameKey ELSE rows[b]]
    BY <1>2, <2>2 DEF CommitNew
  <2>4. sources' = [k \in DOMAIN sources \cup {NameKey} |->
                      IF k = NameKey THEN n ELSE sources[k]]
    BY <1>2, <2>2 DEF CommitNew
  <2>5. works' = [works EXCEPT ![Release] = n, ![t] = IF @ = 0 THEN n ELSE @]
    BY <1>2, <2>2 DEF CommitNew, Credit
  <2>6. Rows' = Rows \cup {n} /\ rows' \in [Rows' -> Key]
    BY <1>0, <2>3 DEF Rows, ArtistInv, Tables
  <2>7. DOMAIN sources' = DOMAIN sources \cup {NameKey} /\ sources' \in [DOMAIN sources' -> Rows']
    BY <2>4, <2>6 DEF ArtistInv, Tables
  <2>8. works' \in [Work -> Rows' \cup {0}] /\ \A x \in Work : works[x] # 0 => works'[x] \in Rows'
    <3> HIDE DEF t
    <3> QED
      BY <1>0, <2>5, <2>6 DEF ArtistInv, Tables
  <2>9. Rows' \subseteq 1..MaxRows
    BY <2>1, <2>2, <2>6 DEF ArtistInv, Tables
  <2>10. Tables'
    BY <1>0, <2>6, <2>7, <2>8, <2>9 DEF ArtistInv, Tables
  <2> QED
    BY <2>6, <2>7, <2>8, <2>10 DEF Kept, Rows
<1> QED
  BY <1>1, <1>2

LEMMA CommitStep ==
  ASSUME ArtistInv, NEW w \in Loader, Commit(w)
  PROVE  ArtistInv' /\ Kept
<1>1. CommitFound(w) \/ CommitNew(w)
  BY DEF Commit
<1>2. Tables' /\ Kept /\ Rows \subseteq Rows'
  BY <1>1, CommitTables
<1>3. tx' = [tx EXCEPT ![w] = NoTx] /\ UNCHANGED <<subscribed, backend, command>>
  BY DEF Commit
<1>4. command.pc \notin {"backup", "plan", "fold"}
  BY <1>1 DEF CommitFound, CommitNew, ArtistInv, Stopped
<1>5. Transactions'
  BY <1>2, <1>3, ArtistAssumption DEF ArtistInv, Transactions, NoTx, Work
<1>6. Stopped' /\ Process' /\ Exact'
  BY <1>3, <1>4 DEF ArtistInv, Stopped, Process, Exact
<1>7. Chosen'
  BY <1>2, <1>3, ChosenStays DEF ArtistInv
<1> QED
  BY <1>2, <1>5, <1>6, <1>7 DEF ArtistInv

(* The steps of a command that leave the tables alone. *)
LEMMA CommandStep ==
  ASSUME ArtistInv, UNCHANGED <<artistRows, subscribed>>, Transactions', Process', Stopped',
         \/ command'.pc \in {"idle", "start", "restore", "plan"}
         \/ /\ command'.kind = command.kind /\ command'.plan = command.plan
            /\ \/ command'.pc = command.pc
               \/ command.pc = "stop" /\ command'.pc = "backup"
               \/ command.pc = "backup" /\ command'.pc = "fold" /\ command.kind = "merge"
         \/ command'.kind = "reconcile" /\ command'.pc \in {"stop", "backup"}
         \/ command'.kind = "reconcile" /\ command'.pc = "fold" /\ command'.plan = Proved
         \/ command'.kind = "merge" /\ command'.pc = "stop" /\ \E g : Fits(g) /\ command'.plan = {g}
  PROVE  ArtistInv' /\ Kept
<1>1. Tables' /\ Kept
  BY TablesStay DEF ArtistInv
<1>2. UNCHANGED <<rows, works>> /\ Rows' = Rows
  BY DEF artistRows, Rows
<1>3. Proved' = Proved
  BY <1>2, AnalysisStays
<1>4. \A g : Fits(g)' <=> Fits(g)
  BY <1>2 DEF Fits
<1>5. Exact'
  BY <1>3 DEF ArtistInv, Exact
<1>6. Chosen'
  BY <1>4 DEF ArtistInv, Chosen
<1> QED
  BY <1>1, <1>5, <1>6 DEF ArtistInv

LEMMA TransactionsStay ==
  ASSUME ArtistInv, UNCHANGED <<tx, artistRows>>
  PROVE  Transactions'
BY DEF ArtistInv, Transactions, artistRows, Rows

(* A command that is over, or gives up, folds nothing more. *)
LEMMA GivesUp ==
  ASSUME ArtistInv, UNCHANGED <<artistRows, subscribed, tx>>,
         \/ command' = NoCommand
         \/ command' = [command EXCEPT !.pc = "start"]
         \/ command' = [command EXCEPT !.pc = "restore"]
  PROVE  ArtistInv' /\ Kept
<1>1. Process' /\ command'.pc \in {"idle", "start", "restore"}
  BY DEF ArtistInv, Process, NoCommand, Pcs
<1>2. Stopped'
  BY <1>1 DEF Stopped
<1> QED
  BY <1>1, <1>2, TransactionsStay, CommandStep

LEMMA StartByHandStep == ASSUME ArtistInv, StartByHand PROVE ArtistInv' /\ Kept
<1>1. UNCHANGED <<artistRows, subscribed, tx, command>> /\ command.pc = "idle"
  BY DEF StartByHand
<1>2. Process' /\ Stopped'
  BY <1>1 DEF ArtistInv, Process, Stopped
<1> QED
  BY <1>1, <1>2, TransactionsStay, CommandStep

LEMMA EndSteps ==
  ASSUME ArtistInv, StopFails \/ Verify \/ StepFails \/ UpBackend \/ RestoreFails \/ Crash
  PROVE  ArtistInv' /\ Kept
<1>1. CASE StopFails \/ UpBackend \/ RestoreFails \/ Crash
  <2>1. command' = NoCommand /\ UNCHANGED <<artistRows, subscribed, tx>>
    BY <1>1 DEF StopFails, UpBackend, RestoreFails, Crash
  <2> QED
    BY <2>1, GivesUp
<1>2. CASE Verify
  <2>1. \/ command' = [command EXCEPT !.pc = "start"]
        \/ command' = [command EXCEPT !.pc = "restore"]
    BY <1>2 DEF Verify, Proceed
  <2>2. UNCHANGED <<artistRows, subscribed, tx>>
    BY <1>2 DEF Verify
  <2> QED
    BY <2>1, <2>2, GivesUp
<1>3. CASE StepFails
  <2>1. command' = [command EXCEPT !.pc = "restore"] /\ UNCHANGED <<artistRows, subscribed, tx>>
    BY <1>3 DEF StepFails, Proceed
  <2> QED
    BY <2>1, GivesUp
<1> QED
  BY <1>1, <1>2, <1>3

LEMMA ReconcileStep == ASSUME ArtistInv, Reconcile PROVE ArtistInv' /\ Kept
<1>1. command' = [NoCommand EXCEPT !.pc = "stop"] /\ UNCHANGED <<artistRows, subscribed, tx>>
  BY DEF Reconcile
<1>2. command'.pc = "stop" /\ command'.kind = "reconcile" /\ Process'
  BY <1>1 DEF Process, NoCommand, Pcs
<1>3. Stopped'
  BY <1>2 DEF Stopped
<1> QED
  BY <1>1, <1>2, <1>3, TransactionsStay, CommandStep

LEMMA MergeStep == ASSUME ArtistInv, Merge PROVE ArtistInv' /\ Kept
<1>1. PICK w \in Rows : \E D \in SUBSET (Rows \ {w}) \ {{}} :
        command' = [NoCommand EXCEPT !.pc = "stop", !.kind = "merge", !.plan = {Group(w, D)}]
  BY DEF Merge
<1>2. PICK D \in SUBSET (Rows \ {w}) \ {{}} :
        command' = [NoCommand EXCEPT !.pc = "stop", !.kind = "merge", !.plan = {Group(w, D)}]
  BY <1>1
<1>3. UNCHANGED <<artistRows, subscribed, tx>>
  BY DEF Merge
<1>4. Group(w, D) \in Groups /\ Fits(Group(w, D))
  <2>1. Rows \subseteq 1..MaxRows
    BY DEF ArtistInv, Tables
  <2> QED
    BY <2>1 DEF Group, Groups, Fits
<1>5. PICK g : g = Group(w, D)
  OBVIOUS
<1>6. command' = [pc |-> "stop", kind |-> "merge", plan |-> {g}, joined |-> {}]
  BY <1>2, <1>5 DEF NoCommand
<1>7. Process' /\ command'.pc = "stop" /\ command'.kind = "merge" /\ command'.plan = {g}
  BY <1>4, <1>5, <1>6 DEF Process, Pcs
<1>8. Stopped'
  BY <1>7 DEF Stopped
<1> QED
  BY <1>3, <1>4, <1>5, <1>7, <1>8, TransactionsStay, CommandStep

LEMMA StopBackendStep == ASSUME ArtistInv, StopBackend PROVE ArtistInv' /\ Kept
<1>1. /\ command.pc = "stop" /\ command' = [command EXCEPT !.pc = "backup"]
      /\ tx' = [w \in Loader |-> NoTx] /\ backend' = FALSE
      /\ UNCHANGED <<artistRows, subscribed>>
  BY DEF StopBackend, Proceed
<1>2. /\ Process' /\ command'.pc = "backup"
      /\ command'.kind = command.kind /\ command'.plan = command.plan
  BY <1>1 DEF ArtistInv, Process, Pcs
<1>3. Transactions' /\ Stopped'
  BY <1>1, ArtistAssumption DEF Transactions, Stopped, NoTx, Work
<1>4. UNCHANGED <<artistRows, subscribed>>
  BY <1>1
<1>5. /\ command'.kind = command.kind /\ command'.plan = command.plan
      /\ command.pc = "stop" /\ command'.pc = "backup"
  BY <1>1, <1>2
<1> QED
  BY <1>2, <1>3, <1>4, <1>5, CommandStep

LEMMA BackupStep == ASSUME ArtistInv, Backup PROVE ArtistInv' /\ Kept
<1>1. /\ command.pc = "backup" /\ UNCHANGED <<artistRows, subscribed, tx, backend>>
      /\ command' = [command EXCEPT !.pc = IF command.kind = "merge" THEN "fold" ELSE "plan"]
  BY DEF Backup, Proceed
<1>2. /\ Process' /\ command'.kind = command.kind /\ command'.plan = command.plan
      /\ \/ command.kind = "merge" /\ command'.pc = "fold"
         \/ command'.pc = "plan"
  BY <1>1 DEF ArtistInv, Process, Pcs
<1>3. Stopped'
  BY <1>1, <1>2 DEF ArtistInv, Stopped
<1> QED
  BY <1>1, <1>2, <1>3, TransactionsStay, CommandStep

LEMMA PlanStep == ASSUME ArtistInv, Plan PROVE ArtistInv' /\ Kept
<1>1. /\ command.pc = "plan" /\ UNCHANGED <<artistRows, subscribed, tx, backend>>
      /\ command' = [command EXCEPT !.pc = "fold", !.plan = Proved]
  BY DEF Plan
<1>2. Proved \subseteq Groups
  BY ProvedFit DEF ArtistInv
<1>3. Process' /\ command'.kind = "reconcile" /\ command'.plan = Proved /\ command'.pc = "fold"
  BY <1>1, <1>2 DEF ArtistInv, Process, Pcs
<1>4. Stopped'
  BY <1>1, <1>3 DEF ArtistInv, Stopped
<1> QED
  BY <1>1, <1>3, <1>4, TransactionsStay, CommandStep

(* The merge of a group that fits; for reconcile-artists it takes the      *)
(* group off what an analysis would find.                                  *)
LEMMA MergeGroupStep ==
  ASSUME ArtistInv, NEW g \in command.plan, MergeGroup(g)
  PROVE  ArtistInv' /\ Kept
<1>1. /\ command.pc = "fold" /\ Fold(g) /\ UNCHANGED <<subscribed, tx, backend>>
      /\ command' = [command EXCEPT !.plan = @ \ {g},
                       !.joined = IF command.kind = "reconcile" THEN @ \cup {Joined(g)} ELSE @]
  BY DEF MergeGroup
<1>2. Fits(g)
  BY <1>1, ProvedFit DEF ArtistInv, Process, Chosen, Exact
<1>3. /\ rows' = [a \in Rows \ g.dups |-> rows[a]]
      /\ works' = [w \in Work |-> IF works[w] \in g.dups THEN g.winner ELSE works[w]]
      /\ sources' = [k \in DOMAIN sources |->
                       IF sources[k] \in g.dups THEN g.winner ELSE sources[k]]
  BY <1>1 DEF Fold
<1>4. Rows' = Rows \ g.dups /\ g.winner \in Rows'
  BY <1>2, <1>3 DEF Rows, Fits
<1>5. rows' \in [Rows' -> Key] /\ Rows' \subseteq 1..MaxRows
  BY <1>3, <1>4 DEF ArtistInv, Tables
<1>6. DOMAIN sources' = DOMAIN sources /\ sources' \in [DOMAIN sources' -> Rows']
  BY <1>3, <1>4 DEF ArtistInv, Tables
<1>7. /\ works' \in [Work -> Rows' \cup {0}]
      /\ \A w \in Work : works[w] # 0 => works'[w] \in Rows'
  BY <1>3, <1>4 DEF ArtistInv, Tables
<1>8. Tables' /\ Kept
  BY <1>5, <1>6, <1>7 DEF ArtistInv, Tables, Kept, Rows
<1>9. Joined(g) \in SUBSET Key
  BY DEF Joined, ArtistInv, Tables
<1>10. PICK J : J = IF command.kind = "reconcile" THEN command.joined \cup {Joined(g)}
                    ELSE command.joined
  OBVIOUS
<1>11. J \in SUBSET SUBSET Key
  BY <1>9, <1>10 DEF ArtistInv, Process
<1>12. command' = [pc |-> "fold", kind |-> command.kind, plan |-> command.plan \ {g},
                   joined |-> J]
  BY <1>1, <1>10 DEF ArtistInv, Process
<1>13. Process' /\ command'.kind = command.kind /\ command'.plan = command.plan \ {g}
       /\ command'.pc = "fold"
  BY <1>11, <1>12 DEF ArtistInv, Process, Pcs
<1>14. ~backend /\ \A w \in Loader : tx[w].pc = "idle"
  BY <1>1 DEF ArtistInv, Stopped
<1>15. Transactions' /\ Stopped'
  BY <1>1, <1>14 DEF ArtistInv, Transactions, Stopped
<1>16. Chosen'
  BY <1>1, <1>13 DEF ArtistInv, Chosen
<1>17. Exact'
  <2>1. CASE command.kind = "reconcile"
    <3>1. g \in Proved /\ command.plan = Proved
      BY <1>1, <2>1 DEF ArtistInv, Exact
    <3>2. Proved' = Proved \ {g}
      BY <1>1, <1>8, <3>1, FoldSettles DEF ArtistInv
    <3> QED
      BY <1>13, <3>1, <3>2 DEF Exact
  <2> QED
    BY <1>13, <2>1 DEF Exact
<1> QED
  BY <1>8, <1>13, <1>15, <1>16, <1>17 DEF ArtistInv

LEMMA NextStep == ASSUME ArtistInv, ArtistNext PROVE ArtistInv' /\ Kept
<1>1. CASE \E w \in Loader : (\E t \in Track : Lookup(w, t)) \/ Commit(w) \/ Rollback(w)
  BY <1>1, LookupStep, CommitStep, RollbackStep
<1>2. CASE \E k \in External : Subscribe(k)
  BY <1>2, SubscribeStep
<1>3. CASE Reconcile \/ Merge \/ StopBackend \/ Backup \/ Plan \/ StartByHand
  BY <1>3, ReconcileStep, MergeStep, StopBackendStep, BackupStep, PlanStep, StartByHandStep
<1>4. CASE StopFails \/ Verify \/ StepFails \/ UpBackend \/ RestoreFails \/ Crash
  BY <1>4, EndSteps
<1>5. CASE \E g \in command.plan : MergeGroup(g)
  BY <1>5, MergeGroupStep
<1> QED
  BY <1>1, <1>2, <1>3, <1>4, <1>5 DEF ArtistNext

LEMMA StutterStep == ASSUME ArtistInv, UNCHANGED artistVars PROVE ArtistInv' /\ Kept
<1>1. UNCHANGED <<artistRows, subscribed, tx, backend, command>>
  BY DEF artistVars, artistRows
<1>2. Process' /\ Stopped'
  BY <1>1 DEF ArtistInv, Process, Stopped
<1>3. UNCHANGED <<artistRows, subscribed>> /\ Transactions'
  BY <1>1, TransactionsStay
<1>4. command'.kind = command.kind /\ command'.plan = command.plan /\ command'.pc = command.pc
  BY <1>1
<1> QED
  BY <1>2, <1>3, <1>4, CommandStep

(* The library the migration found: a row for each of its keys.            *)
LEMMA InitInv == ASSUME ArtistInit PROVE ArtistInv
<1>1. PICK K \in SUBSET Key :
        rows = CHOOSE f \in [1..Cardinality(K) -> K] : \A k \in K : \E a \in DOMAIN f : f[a] = k
  BY DEF ArtistInit
<1>2. IsFiniteSet(K) /\ Cardinality(K) \in Nat /\ Cardinality(K) <= Cardinality(Key)
      /\ Cardinality(Key) \in Nat
  BY ArtistAssumption, FS_Subset, FS_CardinalityType
<1>3. PICK f \in Bijection(1..Cardinality(K), K) : TRUE
  BY <1>2, FS_CardinalityType DEF ExistsBijection
<1>4. f \in [1..Cardinality(K) -> K] /\ \A k \in K : \E a \in DOMAIN f : f[a] = k
  BY <1>3 DEF Bijection, Injection, Surjection
<1>5. rows \in [1..Cardinality(K) -> K]
  BY <1>1, <1>4
<1>6. Rows = 1..Cardinality(K) /\ Rows \subseteq 1..MaxRows /\ rows \in [Rows -> Key]
  BY <1>2, <1>5, ArtistAssumption DEF Rows
<1>7. sources = [k \in {rows[a] : a \in Rows} |-> CHOOSE a \in Rows : rows[a] = k]
  BY DEF ArtistInit
<1>8. DOMAIN sources \subseteq Key /\ sources \in [DOMAIN sources -> Rows]
  BY <1>6, <1>7
<1>9. works \in [Work -> Rows \cup {0}]
  BY DEF ArtistInit
<1>10. Tables
  BY <1>6, <1>8, <1>9 DEF Tables
<1>11. Transactions
  BY ArtistAssumption DEF ArtistInit, Transactions, NoTx, Work
<1>12. Process /\ Stopped /\ Chosen /\ Exact
  BY DEF ArtistInit, Process, Stopped, Chosen, Exact, NoCommand, Pcs
<1> QED
  BY <1>10, <1>11, <1>12 DEF ArtistInv

THEOREM Invariance == ArtistSpec => []ArtistInv
<1>1. ArtistInit => ArtistInv
  BY InitInv
<1>2. ArtistInv /\ [ArtistNext]_artistVars => ArtistInv'
  BY NextStep, StutterStep
<1> QED
  BY <1>1, <1>2, PTL DEF ArtistSpec

-----------------------------------------------------------------------------

\* Whatever downloads, subscriptions and maintenance commands do, crashes and
\* failures included, a key that is known stays known and leads to a row, and
\* no work loses its artist.
THEOREM NothingForgotten == ArtistSpec => IdentitiesKept
<1>1. ArtistInv /\ [ArtistNext]_artistVars => [Kept]_artistVars
  BY NextStep
<1>2. ArtistSpec => [][Kept]_artistVars
  BY <1>1, Invariance, PTL DEF ArtistSpec
<1> QED
  BY <1>2, PTL DEF IdentitiesKept, Kept

\* What reconcile-artists folded leaves nothing to fold: each merge takes its
\* own group off the analysis and changes no other.
THEOREM NothingLeft == ArtistSpec => []Reconciled
<1>1. ArtistInv => Reconciled
  BY DEF ArtistInv, Exact, Reconciled
<1> QED
  BY <1>1, Invariance, PTL
=============================================================================
