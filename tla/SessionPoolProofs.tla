-------------------------- MODULE SessionPoolProofs --------------------------
(***************************************************************************)
(* For every number of sessions, callers and requests: the variables of    *)
(* SessionPool keep their shape, leases are accounted for, and no caller   *)
(* is stranded in the queue.                                               *)
(***************************************************************************)
EXTENDS SessionPool, FiniteSetTheorems, SequenceTheorems, TLAPS

SessionRow == [in : BOOLEAN, usable : BOOLEAN, health : Health, leases : Nat, refs : Nat]
CallerRow  == [pc : {"idle", "waiting", "another", "leased", "download"},
               checked : SUBSET Session, session : Session \cup {None},
               live : BOOLEAN, woken : BOOLEAN]

-----------------------------------------------------------------------------
(* Shapes. *)

LEMMA IdleIsCaller == Idle \in CallerRow
  BY DEF Idle, CallerRow

LEMMA BlockedKeepsShape ==
  ASSUME NEW f \in [Caller -> CallerRow], NEW c \in Caller
  PROVE  [f EXCEPT ![c].pc = "waiting", ![c].woken = FALSE] \in [Caller -> CallerRow]
  BY DEF CallerRow

LEMMA SignalKeepsCallers ==
  ASSUME NEW f \in [Caller -> CallerRow], NEW cs
  PROVE  Signal(f, cs) \in [Caller -> CallerRow]
  BY DEF Signal, CallerRow

LEMMA WakingKeepsShape ==
  ASSUME NEW f \in [Caller -> CallerRow], waiters \in Seq(Caller),
         WakeNobody(f) \/ WakeOneWaiter(f) \/ DrainWaiters(f)
  PROVE  caller' \in [Caller -> CallerRow] /\ waiters' \in Seq(Caller)
<1>1. CASE WakeNobody(f)
  BY <1>1 DEF WakeNobody
<1>2. CASE WakeOneWaiter(f)
  <2>1. CASE waiters = <<>>
    BY <1>2, <2>1 DEF WakeOneWaiter, WakeNobody
  <2>2. CASE waiters # <<>>
    BY <1>2, <2>2, SignalKeepsCallers DEF WakeOneWaiter
  <2> QED BY <2>1, <2>2
<1>3. CASE DrainWaiters(f)
  BY <1>3, SignalKeepsCallers DEF DrainWaiters
<1> QED BY <1>1, <1>2, <1>3

LEMMA RowUpdates ==
  ASSUME NEW r \in SessionRow
  PROVE  /\ [r EXCEPT !.leases = @ + 1] \in SessionRow
         /\ \A h \in Health : [r EXCEPT !.health = h] \in SessionRow
         /\ \A n \in Nat : [r EXCEPT !.refs = n] \in SessionRow
         /\ \A h \in Health, n \in Nat : [r EXCEPT !.health = h, !.refs = n] \in SessionRow
         /\ [r EXCEPT !.in = FALSE] \in SessionRow
<1>1. \A n \in Nat : [r EXCEPT !.leases = n] \in SessionRow
  BY DEF SessionRow
<1>2. r.leases + 1 \in Nat
  BY DEF SessionRow
<1>5. [r EXCEPT !.in = FALSE] \in SessionRow
  BY DEF SessionRow
<1>6. \A h \in Health : [r EXCEPT !.health = h] \in SessionRow
  BY DEF SessionRow
<1>3. \A n \in Nat : [r EXCEPT !.refs = n] \in SessionRow
  BY DEF SessionRow
<1>4. \A h \in Health, n \in Nat : [r EXCEPT !.health = h, !.refs = n] \in SessionRow
  BY DEF SessionRow
<1> QED BY <1>1, <1>2, <1>3, <1>4, <1>5, <1>6

LEMMA Spending ==
  ASSUME budget \in [Events -> Nat], NEW e \in Events, Spend(e)
  PROVE  budget' \in [Events -> Nat]
  BY DEF Spend, Events

LEMMA Asking ==
  ASSUME TypeOK, NEW c \in Caller, Asks(c)
  PROVE  /\ budget' \in [Events -> Nat]
         /\ caller[c].pc \in {"idle", "another", "waiting"}
  BY Spending DEF Asks, Events, TypeOK

LEMMA OutcomeShape ==
  ASSUME NEW h \in Health, NEW o \in Outcomes, paused \in BOOLEAN
  PROVE  HealthAfter(h, o) \in Health /\ PausedAfter(o) \in BOOLEAN
  BY DEF HealthAfter, PausedAfter, Health, Outcomes, Failures

LEMMA InitType == Init => TypeOK
<1> SUFFICES ASSUME Init PROVE TypeOK
  OBVIOUS
<1> USE SessionPoolAssumption DEF SessionPoolAssumption, Init
<1>1. session \in [Session -> SessionRow]
  <2> SUFFICES [in : {TRUE}, usable : {TRUE}, health : StartHealth,
                leases : {0}, refs : {0}] \subseteq SessionRow
    OBVIOUS
  <2> SUFFICES ASSUME NEW r \in [in : {TRUE}, usable : {TRUE}, health : StartHealth,
                                 leases : {0}, refs : {0}]
               PROVE  r \in SessionRow
    OBVIOUS
  <2>1. r = [in |-> r.in, usable |-> r.usable, health |-> r.health,
             leases |-> r.leases, refs |-> r.refs]
    OBVIOUS
  <2>2. r.in \in BOOLEAN /\ r.usable \in BOOLEAN /\ r.health \in Health
    OBVIOUS
  <2>3. r.leases \in Nat /\ r.refs \in Nat
    OBVIOUS
  <2> QED BY <2>1, <2>2, <2>3, Zenon DEF SessionRow
<1>2. caller \in [Caller -> CallerRow]
  BY IdleIsCaller
<1>3. waiters \in Seq(Caller) /\ budget \in [Events -> Nat] /\ deleting \subseteq Session
  OBVIOUS
<1> QED BY <1>1, <1>2, <1>3 DEF TypeOK, SessionRow, CallerRow

-----------------------------------------------------------------------------
(* Type correctness, one lemma for each group of actions. *)

LEMMA AcquireType ==
  ASSUME TypeOK, NEW c \in Caller, Acquire(c)
  PROVE  TypeOK'
<1> USE DEF TypeOK
<1>1. caller \in [Caller -> CallerRow] /\ session \in [Session -> SessionRow]
  BY DEF CallerRow, SessionRow
<1>2. ASSUME NEW s \in Session, TakeLease(c, s) PROVE TypeOK'
  <2> DEFINE g == [caller EXCEPT ![c] = [@ EXCEPT !.pc = "leased", !.session = s,
                                                   !.live = TRUE, !.woken = FALSE]]
  <2>1. g \in [Caller -> CallerRow]
    BY <1>1 DEF CallerRow
  <2>2. WakeOneWaiter(g) \/ WakeNobody(g)
    BY <1>2 DEF TakeLease
  <2> HIDE DEF g
  <2>3. caller' \in [Caller -> CallerRow] /\ waiters' \in Seq(Caller)
    BY <2>1, <2>2, WakingKeepsShape
  <2>4. session' \in [Session -> SessionRow]
    BY <1>1, <1>2, RowUpdates DEF TakeLease
  <2> QED BY <1>2, <2>3, <2>4, Asking DEF TakeLease, CallerRow, SessionRow
<1>3. ASSUME Refuse(c) PROVE TypeOK'
  <2> DEFINE g == [caller EXCEPT ![c] = Idle]
  <2>1. g \in [Caller -> CallerRow]
    BY <1>1, IdleIsCaller
  <2>2. DrainWaiters(g) \/ WakeNobody(g)
    BY <1>3 DEF Refuse
  <2> HIDE DEF g
  <2>3. caller' \in [Caller -> CallerRow] /\ waiters' \in Seq(Caller)
    BY <2>1, <2>2, WakingKeepsShape
  <2> QED BY <1>3, <2>3, Asking DEF Refuse, CallerRow
<1>4. ASSUME Block(c) PROVE TypeOK'
  <2>1. caller' \in [Caller -> CallerRow]
    <3>1. caller' = [caller EXCEPT ![c].pc = "waiting", ![c].woken = FALSE]
      BY <1>4, Zenon DEF Block
    <3> QED BY <1>1, <3>1, BlockedKeepsShape, Zenon
  <2>2. waiters' \in Seq(Caller)
    BY <1>4 DEF Block
  <2> QED BY <1>4, <2>1, <2>2, Asking DEF Block, CallerRow
<1> QED BY <1>2, <1>3, <1>4 DEF Acquire

-----------------------------------------------------------------------------
(* A lease names a session, and one that is still live is counted by it.   *)
LeaseNamed ==
  \A c \in Caller :
    /\ caller[c].pc \in {"leased", "download"} => caller[c].session \in Session
    /\ caller[c].pc = "leased" /\ caller[c].live => session[caller[c].session].in

LEMMA HoldersFinite ==
  ASSUME NEW s \in Session
  PROVE  IsFiniteSet(Holders(s)) /\ Cardinality(Holders(s)) \in Nat
<1>1. Holders(s) \subseteq Caller
  BY DEF Holders
<1>2. IsFiniteSet(Holders(s))
  BY <1>1, FS_Subset, SessionPoolAssumption DEF SessionPoolAssumption
<1> QED BY <1>2, FS_CardinalityType

LEMMA HeldIsCounted ==
  ASSUME TypeOK, SlotsAccounted, NEW s \in Session, session[s].in,
         Holders(s) # {}
  PROVE  session[s].leases \in Nat \ {0}
<1>1. Cardinality(Holders(s)) # 0
  BY HoldersFinite, FS_EmptySet
<1> QED BY <1>1, HoldersFinite DEF SlotsAccounted

LEMMA RemovingOne ==
  ASSUME NEW q \in Seq(Caller), NEW i \in 1..Len(q)
  PROVE  /\ RemoveAt(q, i) \in Seq(Caller)
         /\ Len(RemoveAt(q, i)) = Len(q) - 1
         /\ \A k \in 1..(Len(q) - 1) : RemoveAt(q, i)[k] = IF k < i THEN q[k] ELSE q[k + 1]
<1> DEFINE a == SubSeq(q, 1, i - 1)
           b == SubSeq(q, i + 1, Len(q))
<1>1. a \in Seq(Caller) /\ Len(a) = i - 1 /\ \A k \in 1..(i - 1) : a[k] = q[k]
  OBVIOUS
<1>2. b \in Seq(Caller) /\ Len(b) = Len(q) - i /\ \A k \in 1..(Len(q) - i) : b[k] = q[k + i]
  OBVIOUS
<1>3. RemoveAt(q, i) = a \o b
  BY DEF RemoveAt
<1> HIDE DEF a, b
<1>4. a \o b \in Seq(Caller) /\ Len(a \o b) = Len(q) - 1
  <2>1. a \o b \in Seq(Caller)
    BY <1>1, <1>2
  <2>2. Len(a \o b) = Len(a) + Len(b)
    BY <1>1, <1>2, ConcatProperties
  <2>3. i \in Int /\ Len(q) \in Int
    OBVIOUS
  <2> QED BY <1>1, <1>2, <2>1, <2>2, <2>3
<1>5. ASSUME NEW k \in 1..(Len(q) - 1), k < i PROVE (a \o b)[k] = q[k]
  BY <1>1, <1>2, <1>5
<1>6. ASSUME NEW k \in 1..(Len(q) - 1), ~(k < i) PROVE (a \o b)[k] = q[k + 1]
  <2>1. (a \o b)[k] = b[k - (i - 1)]
    BY <1>1, <1>2, <1>6
  <2>2. k - (i - 1) \in 1..(Len(q) - i) /\ (k - (i - 1)) + i = k + 1
    BY <1>6
  <2> QED BY <1>2, <2>1, <2>2
<1> QED BY <1>3, <1>4, <1>5, <1>6

LEMMA GiveUpType ==
  ASSUME TypeOK, NEW c \in Caller, GiveUp(c)
  PROVE  TypeOK'
<1>1. caller' \in [Caller -> CallerRow]
  BY IdleIsCaller DEF GiveUp, TypeOK, CallerRow
<1>2. waiters' \in Seq(Caller)
  BY RemovingOne DEF GiveUp, TypeOK
<1> QED BY <1>1, <1>2 DEF GiveUp, TypeOK, CallerRow

LEMMA ReleaseType ==
  ASSUME TypeOK, SlotsAccounted, LeaseNamed, NEW c \in Caller,
         NEW o \in Outcomes, NEW next \in CallerRow,
         ReleaseLease(c, o, next), UNCHANGED budget
  PROVE  TypeOK'
<1> DEFINE s == caller[c].session
           g == [caller EXCEPT ![c] = next]
           r == IF caller[c].live
                THEN [session[s] EXCEPT !.leases = @ - 1, !.health = HealthAfter(@, o)]
                ELSE session[s]
<1>1. caller[c].pc = "leased" /\ s \in Session /\ session[s] \in SessionRow
  BY DEF ReleaseLease, LeaseNamed, TypeOK, SessionRow
<1>2. r \in SessionRow
  <2>1. CASE caller[c].live
    <3>1. c \in Holders(s) /\ session[s].in
      BY <1>1, <2>1 DEF Holders, LeaseNamed
    <3>2. session[s].leases - 1 \in Nat
      BY <1>1, <3>1, HeldIsCounted
    <3>3. HealthAfter(session[s].health, o) \in Health
      BY <1>1, OutcomeShape DEF TypeOK, SessionRow
    <3>4. \A n \in Nat, h \in Health : [session[s] EXCEPT !.leases = n, !.health = h] \in SessionRow
      BY <1>1 DEF SessionRow
    <3> QED BY <2>1, <3>2, <3>3, <3>4
  <2>2. CASE ~caller[c].live
    BY <1>1, <2>2
  <2> QED BY <2>1, <2>2
<1>3. session' = [session EXCEPT ![s] =
                    IF next.pc = "download" /\ r.in THEN [r EXCEPT !.refs = @ + 1] ELSE r]
  BY DEF ReleaseLease
<1>4. session' \in [Session -> SessionRow]
  <2> HIDE DEF r
  <2>1. r.refs + 1 \in Nat
    BY <1>2 DEF SessionRow
  <2>2. [r EXCEPT !.refs = @ + 1] \in SessionRow
    BY <1>2, <2>1, RowUpdates
  <2> QED BY <1>1, <1>2, <1>3, <2>2 DEF TypeOK, SessionRow
<1>5. g \in [Caller -> CallerRow] /\ Notified(g) \in [Caller -> CallerRow]
  <2>1. g \in [Caller -> CallerRow]
    BY DEF TypeOK, CallerRow
  <2> HIDE DEF g
  <2> QED BY <2>1, SignalKeepsCallers DEF Notified
<1>6. WakeOneWaiter(Notified(g)) \/ WakeNobody(Notified(g)) \/ DrainWaiters(Notified(g))
  BY DEF ReleaseLease
<1>7. caller' \in [Caller -> CallerRow] /\ waiters' \in Seq(Caller)
  <2> HIDE DEF g
  <2> QED BY <1>5, <1>6, WakingKeepsShape DEF TypeOK
<1>8. paused' \in BOOLEAN
  BY OutcomeShape DEF ReleaseLease, TypeOK, PausedAfter
<1> QED BY <1>4, <1>7, <1>8 DEF ReleaseLease, TypeOK, SessionRow, CallerRow

LEMMA RecordOutcomeType ==
  ASSUME TypeOK, LeaseNamed, NEW c \in Caller, NEW o \in Outcomes, RecordOutcome(c, o)
  PROVE  TypeOK'
<1> DEFINE s == caller[c].session
           g == [caller EXCEPT ![c] = Idle]
<1>1. s \in Session /\ session[s] \in SessionRow
  BY DEF RecordOutcome, LeaseNamed, TypeOK, SessionRow
<1>2. session' \in [Session -> SessionRow]
  <2>1. CASE session[s].in
    <3> DEFINE n == IF session[s].refs > 0 THEN session[s].refs - 1 ELSE 0
    <3>1. HealthAfter(session[s].health, o) \in Health
      BY <1>1, OutcomeShape DEF TypeOK, SessionRow
    <3>2. n \in Nat
      BY <1>1 DEF SessionRow
    <3>3. session' = [session EXCEPT ![s] =
                        [session[s] EXCEPT !.health = HealthAfter(session[s].health, o), !.refs = n]]
      BY <2>1 DEF RecordOutcome
    <3> HIDE DEF n
    <3>4. [session[s] EXCEPT !.health = HealthAfter(session[s].health, o), !.refs = n] \in SessionRow
      BY <1>1, <3>1, <3>2, RowUpdates
    <3> QED BY <3>3, <3>4 DEF TypeOK, SessionRow
  <2>2. CASE ~session[s].in
    BY <2>2 DEF RecordOutcome, TypeOK, SessionRow
  <2> QED BY <2>1, <2>2
<1>3. Notified(g) \in [Caller -> CallerRow]
  <2>1. g \in [Caller -> CallerRow]
    BY IdleIsCaller DEF TypeOK, CallerRow
  <2> HIDE DEF g
  <2> QED BY <2>1, SignalKeepsCallers DEF Notified
<1>4. caller' \in [Caller -> CallerRow] /\ waiters' \in Seq(Caller)
  BY <1>3 DEF RecordOutcome, WakeNobody, TypeOK
<1>5. paused' \in BOOLEAN
  BY DEF RecordOutcome, TypeOK, PausedAfter
<1> QED BY <1>2, <1>4, <1>5 DEF RecordOutcome, TypeOK, SessionRow, CallerRow

LEMMA AdministerType ==
  ASSUME TypeOK, NEW s \in Session, Administer(s)
  PROVE  TypeOK'
<1>1. caller \in [Caller -> CallerRow] /\ session \in [Session -> SessionRow]
      /\ session[s] \in SessionRow
  BY DEF TypeOK, CallerRow, SessionRow
<1>2. Notified(caller) \in [Caller -> CallerRow]
  BY <1>1, SignalKeepsCallers DEF Notified
<1>3. ASSUME NEW u \in BOOLEAN, NEW h \in Health, UpsertSession(s, u, h) PROVE TypeOK'
  <2> DEFINE r == IF session[s].in THEN session[s]
                  ELSE [session[s] EXCEPT !.in = TRUE, !.leases = 0, !.refs = 0]
  <2>1. r \in SessionRow
    BY <1>1 DEF SessionRow
  <2>2. session' = [session EXCEPT ![s] = [r EXCEPT !.usable = u, !.health = h]]
    BY <1>3 DEF UpsertSession
  <2> HIDE DEF r
  <2>3. [r EXCEPT !.usable = u, !.health = h] \in SessionRow
    BY <2>1 DEF SessionRow
  <2>4. session' \in [Session -> SessionRow]
    BY <1>1, <2>2, <2>3
  <2>5. WakeOneWaiter(Notified(caller)) \/ WakeNobody(Notified(caller))
    BY <1>3 DEF UpsertSession
  <2>6. caller' \in [Caller -> CallerRow] /\ waiters' \in Seq(Caller)
    BY <1>2, <2>5, WakingKeepsShape DEF TypeOK
  <2>7. budget' \in [Events -> Nat] /\ paused' \in BOOLEAN
    BY <1>3, Spending DEF UpsertSession, TypeOK, Events
  <2> QED BY <1>3, <2>4, <2>6, <2>7 DEF UpsertSession, TypeOK, SessionRow, CallerRow
<1>4. ASSUME NEW o \in Failures, RecordFailure(s, o) PROVE TypeOK'
  <2>1. session' \in [Session -> SessionRow]
    <3>1. HealthAfter(session[s].health, o) \in Health
      BY <1>1, OutcomeShape DEF TypeOK, SessionRow, Outcomes
    <3> QED BY <1>1, <1>4, <3>1, RowUpdates DEF RecordFailure
  <2>2. budget' \in [Events -> Nat] /\ paused' \in BOOLEAN
    BY <1>4, Spending DEF RecordFailure, PausedAfter, TypeOK, Events
  <2> QED BY <1>4, <2>1, <2>2 DEF RecordFailure, TypeOK, SessionRow
<1>5. ASSUME DeleteSession(s) PROVE TypeOK'
  BY <1>5, Spending DEF DeleteSession, TypeOK, Events
<1>6. ASSUME RemoveSession(s) PROVE TypeOK'
  <2> DEFINE g == [c \in Caller |-> IF caller[c].session = s
                                    THEN [caller[c] EXCEPT !.live = FALSE] ELSE caller[c]]
  <2>1. Notified(g) \in [Caller -> CallerRow]
    <3>1. g \in [Caller -> CallerRow]
      BY <1>1 DEF CallerRow
    <3> HIDE DEF g
    <3> QED BY <3>1, SignalKeepsCallers DEF Notified
  <2>2. DrainWaiters(Notified(g)) \/ WakeNobody(Notified(g))
    BY <1>6 DEF RemoveSession
  <2> HIDE DEF g
  <2>3. caller' \in [Caller -> CallerRow] /\ waiters' \in Seq(Caller)
    BY <2>1, <2>2, WakingKeepsShape DEF TypeOK
  <2>4. session' \in [Session -> SessionRow]
    BY <1>1, <1>6, RowUpdates DEF RemoveSession
  <2> QED BY <1>6, <2>3, <2>4 DEF RemoveSession, TypeOK, SessionRow, CallerRow
<1> QED BY <1>3, <1>4, <1>5, <1>6 DEF Administer

LEMMA TimeType ==
  ASSUME TypeOK, (\E s \in Session : CooldownEnds(s)) \/ PauseEnds
  PROVE  TypeOK'
<1>1. ASSUME NEW s \in Session, CooldownEnds(s) PROVE TypeOK'
  <2>1. session' \in [Session -> SessionRow]
    <3>1. "expired" \in Health /\ session \in [Session -> SessionRow]
      BY DEF Health, TypeOK, SessionRow
    <3>2. [session[s] EXCEPT !.health = "expired"] \in SessionRow
      BY <3>1, RowUpdates
    <3> QED BY <1>1, <3>1, <3>2 DEF CooldownEnds
  <2> QED BY <1>1, <2>1 DEF CooldownEnds, TypeOK, SessionRow
<1>2. CASE PauseEnds
  BY <1>2, Spending DEF PauseEnds, TypeOK, Events
<1> QED BY <1>1, <1>2

(* What a caller may do with a lease or a download. *)
LEMMA WorkSplit ==
  ASSUME LeaseNamed, TypeOK, NEW c \in Caller, Work(c)
  PROVE  \/ /\ UNCHANGED budget
            /\ \E o \in Outcomes, next \in CallerRow :
                 /\ ReleaseLease(c, o, next)
                 /\ next.pc \in {"idle", "another", "download"} /\ ~next.woken
                 /\ next.pc = "download" => next.session = caller[c].session
         \/ \E o \in Outcomes : RecordOutcome(c, o)
<1>1. Idle \in CallerRow /\ Idle.pc = "idle" /\ ~Idle.woken
  BY IdleIsCaller DEF Idle
<1>2. "neutral" \in Outcomes /\ Failures \subseteq Outcomes
  BY DEF Outcomes
<1>3. CASE \E o \in Failures \cup {"neutral"} : ReleaseUnused(c, o)
  BY <1>1, <1>2, <1>3 DEF ReleaseUnused
<1>4. CASE ReleaseRestricted(c)
  <2> DEFINE next == [Idle EXCEPT !.pc = "another",
                                  !.checked = caller[c].checked \cup {caller[c].session}]
  <2>1. caller[c].checked \cup {caller[c].session} \in SUBSET Session
    BY <1>4 DEF ReleaseRestricted, ReleaseLease, LeaseNamed, TypeOK
  <2>2. next \in CallerRow /\ next.pc = "another" /\ ~next.woken
    BY <2>1 DEF Idle, CallerRow
  <2>3. ReleaseLease(c, "neutral", next) /\ UNCHANGED budget
    BY <1>4 DEF ReleaseRestricted
  <2> HIDE DEF next
  <2> QED BY <1>2, <2>2, <2>3
<1>5. CASE ReleaseResolved(c)
  <2> DEFINE next == [Idle EXCEPT !.pc = "download", !.session = caller[c].session]
  <2>1. caller[c].session \in Session
    BY <1>5 DEF ReleaseResolved, ReleaseLease, LeaseNamed
  <2>2. next \in CallerRow /\ next.pc = "download" /\ ~next.woken
        /\ next.session = caller[c].session
    BY <2>1 DEF Idle, CallerRow
  <2>3. ReleaseLease(c, "neutral", next) /\ UNCHANGED budget
    BY <1>5 DEF ReleaseResolved
  <2> HIDE DEF next
  <2> QED BY <1>2, <2>2, <2>3
<1> QED BY <1>3, <1>4, <1>5 DEF Work, Release

LEMMA StepType ==
  ASSUME TypeOK, SlotsAccounted, LeaseNamed, [Next]_vars
  PROVE  TypeOK'
<1>1. ASSUME NEW c \in Caller, Work(c) PROVE TypeOK'
  BY <1>1, WorkSplit, ReleaseType, RecordOutcomeType
<1>2. CASE UNCHANGED vars
  BY <1>2 DEF vars, TypeOK
<1> QED BY <1>1, <1>2, AcquireType, GiveUpType, AdministerType, TimeType DEF Next

-----------------------------------------------------------------------------
(* Leases.  Waking changes of a caller only whether it is woken.           *)

LEMMA WakingKeepsRest ==
  ASSUME NEW f \in [Caller -> CallerRow], waiters \in Seq(Caller),
         WakeNobody(f) \/ WakeOneWaiter(f) \/ DrainWaiters(f)
  PROVE  \A d \in Caller :
           /\ caller'[d].pc = f[d].pc /\ caller'[d].session = f[d].session
           /\ caller'[d].live = f[d].live /\ caller'[d].checked = f[d].checked
           /\ f[d].woken => caller'[d].woken
<1>1. \A cs : \A d \in Caller :
        /\ Signal(f, cs)[d].pc = f[d].pc /\ Signal(f, cs)[d].session = f[d].session
        /\ Signal(f, cs)[d].live = f[d].live /\ Signal(f, cs)[d].checked = f[d].checked
        /\ f[d].woken => Signal(f, cs)[d].woken
  BY DEF Signal, CallerRow
<1> QED BY <1>1 DEF WakeNobody, WakeOneWaiter, DrainWaiters

LEMMA NotifiedKeepsRest ==
  ASSUME NEW f \in [Caller -> CallerRow]
  PROVE  /\ Notified(f) \in [Caller -> CallerRow]
         /\ \A d \in Caller :
              /\ Notified(f)[d].pc = f[d].pc /\ Notified(f)[d].session = f[d].session
              /\ Notified(f)[d].live = f[d].live /\ Notified(f)[d].checked = f[d].checked
              /\ f[d].woken => Notified(f)[d].woken
              /\ f[d].checked = {} => Notified(f)[d].woken = f[d].woken
              /\ f[d].pc # "waiting" => Notified(f)[d].woken = f[d].woken
  BY SignalKeepsCallers DEF Notified, Signal, CallerRow

(* A step that gives or ends no lease. *)
LEMMA SameHolders ==
  ASSUME NEW s \in Session,
         \A d \in Caller :
           /\ (caller'[d].pc = "leased") <=> (caller[d].pc = "leased")
           /\ caller[d].pc = "leased" =>
                (caller'[d].session = s /\ caller'[d].live) <=> (caller[d].session = s /\ caller[d].live)
  PROVE  Holders(s)' = Holders(s)
  BY DEF Holders

(* What a step that gives or ends no lease must keep. *)
LeasesKept ==
  /\ \A d \in Caller :
       /\ (caller'[d].pc = "leased") <=> (caller[d].pc = "leased")
       /\ caller'[d].pc = "leased" =>
            /\ caller'[d].session = caller[d].session
            /\ caller'[d].live => caller[d].live
       /\ caller'[d].pc = "download" => caller[d].pc = "download"
                                        /\ caller'[d].session = caller[d].session
  /\ \A s \in Session :
       session'[s].in =>
         /\ session[s].in => session'[s].leases = session[s].leases
         /\ ~session[s].in => session'[s].leases = 0
         /\ \A d \in Caller : caller[d].session = s => caller'[d].live \/ ~caller[d].live
                                                        \/ caller'[d].pc # "leased"
  /\ \A s \in Session : (session[s].in /\ ~session'[s].in) =>
       \A d \in Caller : caller'[d].pc = "leased" /\ caller'[d].session = s => ~caller'[d].live

LEMMA LeasesKeptSafe ==
  ASSUME TypeOK, SlotsAccounted, LeaseNamed, LeasesKept
  PROVE  SlotsAccounted' /\ LeaseNamed'
<1>1. ASSUME NEW s \in Session, session'[s].in
      PROVE  session'[s].leases = Cardinality(Holders(s)') /\ session'[s].leases <= MaxLeases
  <2>1. Holders(s)' = Holders(s)
    BY <1>1, SameHolders DEF LeasesKept
  <2>2. CASE session[s].in
    BY <1>1, <2>1, <2>2 DEF LeasesKept, SlotsAccounted
  <2>3. CASE ~session[s].in
    <3>1. Holders(s) = {}
      BY <2>3 DEF Holders, LeaseNamed
    <3> QED BY <1>1, <2>1, <2>3, <3>1, FS_EmptySet, SessionPoolAssumption
            DEF LeasesKept, SessionPoolAssumption
  <2> QED BY <2>2, <2>3
<1>2. LeaseNamed'
  BY DEF LeasesKept, LeaseNamed
<1> QED BY <1>1, <1>2 DEF SlotsAccounted

LEMMA WaitingKeeps ==
  ASSUME TypeOK, NEW c \in Caller, Refuse(c) \/ Block(c) \/ GiveUp(c)
  PROVE  LeasesKept
<1>1. caller \in [Caller -> CallerRow]
  BY DEF TypeOK, CallerRow
<1>2. caller[c].pc \in {"idle", "another", "waiting"}
  BY Asking DEF Refuse, Block, GiveUp
<1>3. session' = session
  BY DEF Refuse, Block, GiveUp
<1>4. CASE Refuse(c)
  <2> DEFINE g == [caller EXCEPT ![c] = Idle]
  <2>1. g \in [Caller -> CallerRow]
    BY <1>1, IdleIsCaller
  <2>2. WakeNobody(g) \/ DrainWaiters(g)
    BY <1>4 DEF Refuse
  <2>3. \A d \in Caller : g[d] = IF d = c THEN Idle ELSE caller[d]
    BY <1>1
  <2> HIDE DEF g
  <2>4. \A d \in Caller : /\ caller'[d].pc = g[d].pc /\ caller'[d].session = g[d].session
                          /\ caller'[d].live = g[d].live
    BY <2>1, <2>2, WakingKeepsRest DEF TypeOK
  <2>5. Idle.pc = "idle"
    BY DEF Idle
  <2> QED BY <1>2, <1>3, <2>3, <2>4, <2>5 DEF LeasesKept
<1>5. CASE Block(c)
  <2>1. \A d \in Caller : caller'[d].session = caller[d].session
                          /\ caller'[d].live = caller[d].live
                          /\ caller'[d].pc = IF d = c THEN "waiting" ELSE caller[d].pc
    BY <1>1, <1>5 DEF Block, CallerRow
  <2> QED BY <1>2, <1>3, <2>1 DEF LeasesKept
<1>6. CASE GiveUp(c)
  <2>1. \A d \in Caller : caller'[d] = IF d = c THEN Idle ELSE caller[d]
    BY <1>1, <1>6 DEF GiveUp
  <2>2. Idle.pc = "idle"
    BY DEF Idle
  <2> QED BY <1>2, <1>3, <2>1, <2>2 DEF LeasesKept
<1> QED BY <1>4, <1>5, <1>6

LEMMA RecordOutcomeKeeps ==
  ASSUME TypeOK, LeaseNamed, NEW c \in Caller, NEW o \in Outcomes, RecordOutcome(c, o)
  PROVE  LeasesKept
<1> DEFINE g == [caller EXCEPT ![c] = Idle]
<1>1. caller \in [Caller -> CallerRow] /\ session \in [Session -> SessionRow]
  BY DEF TypeOK, CallerRow, SessionRow
<1>2. caller[c].pc = "download" /\ caller[c].session \in Session
  BY DEF RecordOutcome, LeaseNamed
<1>3. \A s \in Session : session'[s].in = session[s].in /\ session'[s].leases = session[s].leases
  <2> DEFINE s == caller[c].session
  <2>1. CASE session[s].in
    <3>1. PICK h, n : session' = [session EXCEPT ![s] = [session[s] EXCEPT !.health = h, !.refs = n]]
      BY <2>1 DEF RecordOutcome
    <3> QED BY <1>1, <1>2, <3>1 DEF SessionRow
  <2>2. CASE ~session[s].in
    BY <2>2 DEF RecordOutcome
  <2> QED BY <2>1, <2>2
<1>4. g \in [Caller -> CallerRow] /\ \A d \in Caller : g[d] = IF d = c THEN Idle ELSE caller[d]
  BY <1>1, IdleIsCaller
<1>5. caller' = Notified(g)
  BY DEF RecordOutcome, WakeNobody
<1> HIDE DEF g
<1>6. \A d \in Caller : /\ caller'[d].pc = g[d].pc /\ caller'[d].session = g[d].session
                        /\ caller'[d].live = g[d].live
  BY <1>4, <1>5, NotifiedKeepsRest
<1>7. Idle.pc = "idle"
  BY DEF Idle
<1> QED BY <1>2, <1>3, <1>4, <1>6, <1>7 DEF LeasesKept

LEMMA AdministerKeeps ==
  ASSUME TypeOK, NEW s \in Session, Administer(s)
  PROVE  LeasesKept
<1>1. caller \in [Caller -> CallerRow] /\ session \in [Session -> SessionRow]
  BY DEF TypeOK, CallerRow, SessionRow
<1>2. ASSUME NEW u \in BOOLEAN, NEW h \in Health, UpsertSession(s, u, h) PROVE LeasesKept
  <2>1. WakeOneWaiter(Notified(caller)) \/ WakeNobody(Notified(caller))
    BY <1>2 DEF UpsertSession
  <2>2. \A d \in Caller : /\ caller'[d].pc = caller[d].pc /\ caller'[d].live = caller[d].live
                          /\ caller'[d].session = caller[d].session
    <3> DEFINE g == Notified(caller)
    <3>1. g \in [Caller -> CallerRow]
          /\ \A d \in Caller : /\ g[d].pc = caller[d].pc /\ g[d].live = caller[d].live
                                /\ g[d].session = caller[d].session
      BY <1>1, NotifiedKeepsRest
    <3>2. WakeOneWaiter(g) \/ WakeNobody(g)
      BY <2>1
    <3> HIDE DEF g
    <3> QED BY <3>1, <3>2, WakingKeepsRest DEF TypeOK
  <2>3. \A t \in Session : /\ session[t].in => session'[t].leases = session[t].leases
                           /\ session'[t].in /\ ~session[t].in => session'[t].leases = 0
                           /\ session[t].in => session'[t].in
    BY <1>1, <1>2 DEF UpsertSession, SessionRow
  <2> QED BY <2>2, <2>3 DEF LeasesKept
<1>3. ASSUME NEW o \in Failures, RecordFailure(s, o) PROVE LeasesKept
  <2>1. \A t \in Session : session'[t].in = session[t].in /\ session'[t].leases = session[t].leases
    BY <1>1, <1>3 DEF RecordFailure, SessionRow
  <2> QED BY <1>3, <2>1 DEF RecordFailure, LeasesKept
<1>4. ASSUME DeleteSession(s) PROVE LeasesKept
  BY <1>4 DEF DeleteSession, LeasesKept
<1>5. ASSUME RemoveSession(s) PROVE LeasesKept
  <2> DEFINE g == [c \in Caller |-> IF caller[c].session = s
                                    THEN [caller[c] EXCEPT !.live = FALSE] ELSE caller[c]]
  <2>1. g \in [Caller -> CallerRow]
    BY <1>1 DEF CallerRow
  <2>2. DrainWaiters(Notified(g)) \/ WakeNobody(Notified(g))
    BY <1>5 DEF RemoveSession
  <2>3. \A d \in Caller : /\ g[d].pc = caller[d].pc /\ g[d].session = caller[d].session
                          /\ caller[d].session = s => ~g[d].live
                          /\ caller[d].session # s => g[d].live = caller[d].live
    BY <1>1 DEF CallerRow
  <2> HIDE DEF g
  <2>4. \A d \in Caller : /\ caller'[d].pc = g[d].pc /\ caller'[d].live = g[d].live
                          /\ caller'[d].session = g[d].session
    <3> DEFINE h == Notified(g)
    <3>1. h \in [Caller -> CallerRow]
          /\ \A d \in Caller : /\ h[d].pc = g[d].pc /\ h[d].live = g[d].live
                                /\ h[d].session = g[d].session
      BY <2>1, NotifiedKeepsRest
    <3>2. DrainWaiters(h) \/ WakeNobody(h)
      BY <2>2
    <3> HIDE DEF h
    <3> QED BY <3>1, <3>2, WakingKeepsRest DEF TypeOK
  <2>5. \A t \in Session : /\ t = s => ~session'[t].in
                           /\ t # s => session'[t] = session[t]
    BY <1>1, <1>5 DEF RemoveSession, SessionRow
  <2>6. \A d \in Caller : /\ caller'[d].pc = caller[d].pc
                          /\ caller'[d].session = caller[d].session
                          /\ caller[d].session = s => ~caller'[d].live
                          /\ caller[d].session # s => caller'[d].live = caller[d].live
    BY <2>3, <2>4
  <2>7. \A t \in Session : session'[t].in =>
          /\ session[t].in /\ session'[t].leases = session[t].leases
          /\ \A d \in Caller : caller[d].session = t => caller'[d].live = caller[d].live
    BY <2>5, <2>6
  <2> QED BY <2>5, <2>6, <2>7 DEF LeasesKept
<1> QED BY <1>2, <1>3, <1>4, <1>5 DEF Administer

LEMMA TimeKeeps ==
  ASSUME TypeOK, (\E s \in Session : CooldownEnds(s)) \/ PauseEnds \/ UNCHANGED vars
  PROVE  LeasesKept
<1>1. ASSUME NEW s \in Session, CooldownEnds(s) PROVE LeasesKept
  <2>1. \A t \in Session : session'[t].in = session[t].in /\ session'[t].leases = session[t].leases
    BY <1>1 DEF CooldownEnds, TypeOK
  <2> QED BY <1>1, <2>1 DEF CooldownEnds, LeasesKept
<1>2. CASE PauseEnds \/ UNCHANGED vars
  BY <1>2 DEF PauseEnds, vars, LeasesKept
<1> QED BY <1>1, <1>2

LEMMA SlotsBounded ==
  ASSUME NEW r \in SessionRow
  PROVE  Slots(r) \in Nat /\ Slots(r) <= MaxLeases
<1> USE SessionPoolAssumption DEF SessionPoolAssumption
<1>1. MaxLeases \in Nat /\ 1 <= MaxLeases
  OBVIOUS
<1>2. Slots(r) \in {MaxLeases, 0, 1}
  BY DEF Slots
<1> QED BY <1>1, <1>2

LEMMA TakeSafe ==
  ASSUME TypeOK, SlotsAccounted, LeaseNamed, NEW c \in Caller, NEW s \in Session,
         TakeLease(c, s)
  PROVE  SlotsAccounted' /\ LeaseNamed'
<1> DEFINE g == [caller EXCEPT ![c] = [@ EXCEPT !.pc = "leased", !.session = s,
                                                 !.live = TRUE, !.woken = FALSE]]
<1>1. caller \in [Caller -> CallerRow] /\ session \in [Session -> SessionRow]
  BY DEF TypeOK, CallerRow, SessionRow
<1>2. caller[c].pc \in {"idle", "another", "waiting"}
  BY Asking DEF TakeLease
<1>3. g \in [Caller -> CallerRow]
  BY <1>1 DEF CallerRow
<1>4. /\ g[c].pc = "leased" /\ g[c].session = s /\ g[c].live
      /\ \A d \in Caller : d # c => g[d] = caller[d]
  BY <1>1 DEF CallerRow
<1>5. WakeOneWaiter(g) \/ WakeNobody(g)
  BY DEF TakeLease
<1> HIDE DEF g
<1>6. \A d \in Caller : /\ caller'[d].pc = g[d].pc /\ caller'[d].session = g[d].session
                        /\ caller'[d].live = g[d].live
  BY <1>3, <1>5, WakingKeepsRest DEF TypeOK
<1>7. /\ session[s].in /\ session[s].leases \in Nat /\ session[s].leases < MaxLeases
      /\ session[s].leases = Cardinality(Holders(s))
  <2>1. session[s].in /\ session[s].leases < Slots(session[s])
    BY DEF TakeLease, Best, Ready, Fits
  <2>2. session[s].leases \in Nat /\ MaxLeases \in Nat
    BY <1>1, SessionPoolAssumption DEF SessionRow, SessionPoolAssumption
  <2> QED BY <1>1, <2>1, <2>2, SlotsBounded DEF SlotsAccounted
<1>8. \A t \in Session : /\ session'[t].in = session[t].in
                         /\ session'[t].leases = IF t = s THEN session[s].leases + 1
                                                          ELSE session[t].leases
  BY <1>1 DEF TakeLease, SessionRow
<1>9. Holders(s)' = Holders(s) \cup {c} /\ c \notin Holders(s)
  BY <1>2, <1>4, <1>6 DEF Holders
<1>10. Cardinality(Holders(s)') = Cardinality(Holders(s)) + 1
  BY <1>9, HoldersFinite, FS_AddElement
<1>11. ASSUME NEW t \in Session, t # s PROVE Holders(t)' = Holders(t)
  BY <1>2, <1>4, <1>6, <1>11 DEF Holders
<1>12. SlotsAccounted'
  <2> SUFFICES ASSUME NEW t \in Session, session'[t].in
               PROVE  /\ session'[t].leases = Cardinality(Holders(t)')
                      /\ session'[t].leases <= MaxLeases
    BY DEF SlotsAccounted
  <2>1. CASE t = s
    <3>1. MaxLeases \in Nat
      BY SessionPoolAssumption DEF SessionPoolAssumption
    <3> QED BY <2>1, <3>1, <1>7, <1>8, <1>10
  <2>2. CASE t # s
    BY <2>2, <1>8, <1>11 DEF SlotsAccounted
  <2> QED BY <2>1, <2>2
<1>13. LeaseNamed'
  BY <1>4, <1>6, <1>7, <1>8 DEF LeaseNamed
<1> QED BY <1>12, <1>13

(* What releaseLease does to the callers. *)
LEMMA ReleaseEffect ==
  ASSUME TypeOK, NEW c \in Caller, NEW o \in Outcomes, NEW next \in CallerRow,
         ReleaseLease(c, o, next)
  PROVE  \A d \in Caller :
           /\ caller'[d].pc = IF d = c THEN next.pc ELSE caller[d].pc
           /\ caller'[d].session = IF d = c THEN next.session ELSE caller[d].session
           /\ d # c => caller'[d].live = caller[d].live
           /\ d # c => caller'[d].checked = caller[d].checked
<1> DEFINE g == [caller EXCEPT ![c] = next]
           h == Notified(g)
<1>1. caller \in [Caller -> CallerRow]
  BY DEF TypeOK, CallerRow
<1>2. g \in [Caller -> CallerRow] /\ \A d \in Caller : g[d] = IF d = c THEN next ELSE caller[d]
  BY <1>1
<1>3. WakeOneWaiter(h) \/ WakeNobody(h) \/ DrainWaiters(h)
  BY DEF ReleaseLease
<1>4. h \in [Caller -> CallerRow]
      /\ \A d \in Caller : /\ h[d].pc = g[d].pc /\ h[d].session = g[d].session
                           /\ h[d].live = g[d].live /\ h[d].checked = g[d].checked
  <2> HIDE DEF g
  <2> QED BY <1>2, NotifiedKeepsRest
<1> HIDE DEF g, h
<1>5. \A d \in Caller : /\ caller'[d].pc = h[d].pc /\ caller'[d].session = h[d].session
                        /\ caller'[d].live = h[d].live /\ caller'[d].checked = h[d].checked
  BY <1>3, <1>4, WakingKeepsRest DEF TypeOK
<1> QED BY <1>2, <1>4, <1>5

LEMMA ReleaseSafe ==
  ASSUME TypeOK, SlotsAccounted, LeaseNamed, NEW c \in Caller,
         NEW o \in Outcomes, NEW next \in CallerRow, ReleaseLease(c, o, next),
         next.pc \in {"idle", "another", "download"},
         next.pc = "download" => next.session = caller[c].session
  PROVE  SlotsAccounted' /\ LeaseNamed'
<1>1. session \in [Session -> SessionRow] /\ caller[c].pc = "leased"
  BY DEF TypeOK, SessionRow, ReleaseLease
<1>10. PICK s \in Session : s = caller[c].session
  BY <1>1 DEF LeaseNamed
<1>2. \A t \in Session :
        /\ session'[t].in = session[t].in
        /\ session'[t].leases = IF t = s /\ caller[c].live THEN session[t].leases - 1
                                                           ELSE session[t].leases
  <2> DEFINE r == IF caller[c].live
                  THEN [session[s] EXCEPT !.leases = @ - 1, !.health = HealthAfter(@, o)]
                  ELSE session[s]
             q == IF next.pc = "download" /\ r.in THEN [r EXCEPT !.refs = @ + 1] ELSE r
  <2>1. r.in = session[s].in
        /\ r.leases = IF caller[c].live THEN session[s].leases - 1 ELSE session[s].leases
    BY <1>1 DEF SessionRow
  <2>2. q.in = r.in /\ q.leases = r.leases
    BY <1>1 DEF SessionRow
  <2>3. session' = [session EXCEPT ![s] = q]
    BY <1>10 DEF ReleaseLease
  <2> HIDE DEF q, r
  <2> QED BY <1>1, <2>1, <2>2, <2>3
<1>3. \A d \in Caller : /\ caller'[d].pc = IF d = c THEN next.pc ELSE caller[d].pc
                        /\ caller'[d].session = IF d = c THEN next.session ELSE caller[d].session
                        /\ d # c => caller'[d].live = caller[d].live
  BY ReleaseEffect
<1>4. ASSUME NEW t \in Session
      PROVE  Holders(t)' = Holders(t) \ {c}
  BY <1>1, <1>3, <1>10 DEF Holders
<1>5. ASSUME NEW t \in Session, ~(t = s /\ caller[c].live)
      PROVE  Holders(t)' = Holders(t)
  <2>1. c \notin Holders(t)
    BY <1>5, <1>10 DEF Holders
  <2> QED BY <1>4, <2>1
<1>8. SlotsAccounted'
  <2>1. CASE caller[c].live
    <3>1. c \in Holders(s) /\ session[s].in
      BY <1>1, <1>10, <2>1 DEF Holders, LeaseNamed
    <3>2. IsFiniteSet(Holders(s)) /\ Holders(s)' = Holders(s) \ {c}
      BY <1>1, <1>4, HoldersFinite
    <3>3. Cardinality(Holders(s)') = Cardinality(Holders(s)) - 1
      BY <3>1, <3>2, FS_RemoveElement
    <3>4. session[s].leases = Cardinality(Holders(s)) /\ session[s].leases <= MaxLeases
      BY <1>1, <3>1 DEF SlotsAccounted
    <3>5. session[s].leases \in Nat /\ MaxLeases \in Nat
      BY <1>1, SessionPoolAssumption DEF SessionRow, SessionPoolAssumption
    <3>6. session'[s].leases = Cardinality(Holders(s)') /\ session'[s].leases <= MaxLeases
      BY <1>1, <1>2, <2>1, <3>3, <3>4, <3>5
    <3>7. ASSUME NEW t \in Session, t # s, session'[t].in
          PROVE  session'[t].leases = Cardinality(Holders(t)') /\ session'[t].leases <= MaxLeases
      BY <1>2, <1>5, <3>7 DEF SlotsAccounted
    <3> QED BY <3>6, <3>7 DEF SlotsAccounted
  <2>2. CASE ~caller[c].live
    BY <1>2, <1>5, <2>2 DEF SlotsAccounted
  <2> QED BY <2>1, <2>2
<1>9. LeaseNamed'
  BY <1>1, <1>2, <1>3, <1>10 DEF LeaseNamed
<1> QED BY <1>8, <1>9

-----------------------------------------------------------------------------
(* Types and leases together are inductive.                                *)
LeaseInv == TypeOK /\ SlotsAccounted /\ LeaseNamed

LEMMA InitLeases == Init => LeaseInv
<1> SUFFICES ASSUME Init PROVE LeaseInv
  OBVIOUS
<1>1. \A s \in Session : session[s].leases = 0
  BY DEF Init
<1>2. \A c \in Caller : caller[c].pc = "idle"
  BY DEF Init, Idle
<1>3. \A s \in Session : Holders(s) = {}
  BY <1>2 DEF Holders
<1>4. SlotsAccounted
  BY <1>1, <1>3, FS_EmptySet, SessionPoolAssumption DEF SlotsAccounted, SessionPoolAssumption
<1> QED BY <1>2, <1>4, InitType DEF LeaseInv, LeaseNamed

LEMMA StepLeases ==
  ASSUME LeaseInv, [Next]_vars
  PROVE  LeaseInv'
<1> USE DEF LeaseInv
<1>1. TypeOK'
  BY StepType
<1>2. ASSUME NEW c \in Caller, Acquire(c) PROVE SlotsAccounted' /\ LeaseNamed'
  BY <1>2, TakeSafe, WaitingKeeps, LeasesKeptSafe DEF Acquire
<1>3. ASSUME NEW c \in Caller, Work(c) PROVE SlotsAccounted' /\ LeaseNamed'
  BY <1>3, WorkSplit, ReleaseSafe, RecordOutcomeKeeps, LeasesKeptSafe
<1>4. ASSUME NEW c \in Caller, GiveUp(c) PROVE SlotsAccounted' /\ LeaseNamed'
  BY <1>4, WaitingKeeps, LeasesKeptSafe
<1>5. ASSUME NEW s \in Session, Administer(s) PROVE SlotsAccounted' /\ LeaseNamed'
  BY <1>5, AdministerKeeps, LeasesKeptSafe
<1>6. CASE (\E s \in Session : CooldownEnds(s)) \/ PauseEnds \/ UNCHANGED vars
  BY <1>1, <1>6, TimeKeeps, LeasesKeptSafe
<1> QED BY <1>1, <1>2, <1>3, <1>4, <1>5, <1>6 DEF Next

LEMMA LeasesInvariant == Spec => []LeaseInv
  BY InitLeases, StepLeases, PTL DEF Spec

(* Every variable keeps its shape; in particular no release takes a lease  *)
(* count below zero.                                                       *)
THEOREM PoolTypes == Spec => []TypeOK
<1>1. LeaseInv => TypeOK
  BY DEF LeaseInv
<1> QED BY <1>1, LeasesInvariant, PTL

(* The lease count of every session of the pool is the number of callers   *)
(* that hold a lease on it, and never above MaxLeases: with leases that    *)
(* outlive the removal of their session, updates with old rows, and        *)
(* sessions put back after their removal.                                  *)
THEOREM LeasesAccounted == Spec => []SlotsAccounted
<1>1. LeaseInv => SlotsAccounted
  BY DEF LeaseInv
<1> QED BY <1>1, LeasesInvariant, PTL

-----------------------------------------------------------------------------
(* The queue.  It holds different callers that wait, want any session and  *)
(* have not been woken; and only who waits can have been woken.            *)

Queued(f, q) == \A i \in 1..Len(q) :
                  f[q[i]].pc = "waiting" /\ ~f[q[i]].woken /\ f[q[i]].checked = {}
Distinct(q)   == \A i, j \in 1..Len(q) : q[i] = q[j] => i = j
WokenWaits(f) == \A d \in Caller : f[d].woken => f[d].pc = "waiting"
QueueInv == Queued(caller, waiters) /\ Distinct(waiters) /\ WokenWaits(caller)

LEMMA WakingKeepsQueue ==
  ASSUME NEW f \in [Caller -> CallerRow], waiters \in Seq(Caller),
         Queued(f, waiters), Distinct(waiters), WokenWaits(f),
         WakeNobody(f) \/ WakeOneWaiter(f) \/ DrainWaiters(f)
  PROVE  /\ QueueInv'
         /\ WakeOneWaiter(f) => waiters' = <<>> \/ Attended'
         /\ DrainWaiters(f) => waiters' = <<>>
<1>1. CASE WakeNobody(f)
  <2>1. caller' = f /\ waiters' = waiters
    BY <1>1 DEF WakeNobody
  <2>2. WakeOneWaiter(f) => waiters' = <<>> \/ Attended'
    <3> SUFFICES ASSUME WakeOneWaiter(f), waiters # <<>> PROVE FALSE
      BY <2>1
    <3>1. waiters' = Tail(waiters)
      BY DEF WakeOneWaiter
    <3> QED BY <2>1, <3>1
  <2>3. DrainWaiters(f) => waiters' = <<>>
    BY DEF DrainWaiters
  <2> QED BY <2>1, <2>2, <2>3 DEF QueueInv, Queued, Distinct, WokenWaits
<1>2. CASE WakeOneWaiter(f) /\ waiters # <<>>
  <2> DEFINE h == Head(waiters)
  <2>1. caller' = Signal(f, {h}) /\ waiters' = Tail(waiters)
    BY <1>2 DEF WakeOneWaiter
  <2>2. h \in Caller /\ h = waiters[1] /\ 1 \in 1..Len(waiters)
    BY <1>2
  <2>3. /\ waiters' \in Seq(Caller) /\ Len(waiters') = Len(waiters) - 1
        /\ \A i \in 1..Len(waiters') : i + 1 \in 1..Len(waiters) /\ waiters'[i] = waiters[i + 1]
    BY <1>2, <2>1
  <2>4. \A i \in 1..Len(waiters') : waiters'[i] # h
    BY <2>2, <2>3 DEF Distinct
  <2>5. \A d \in Caller : /\ d # h => caller'[d] = f[d]
                          /\ caller'[d].pc = f[d].pc /\ caller'[d].checked = f[d].checked
    BY <2>1 DEF Signal, CallerRow
  <2>6. caller'[h].woken
    BY <2>1, <2>2 DEF Signal, CallerRow
  <2>7. f[h].pc = "waiting" /\ f[h].checked = {}
    BY <2>2 DEF Queued
  <2> HIDE DEF h
  <2>8. Queued(caller, waiters)'
    <3> SUFFICES ASSUME NEW i \in 1..Len(waiters')
                 PROVE  /\ caller'[waiters'[i]].pc = "waiting" /\ ~caller'[waiters'[i]].woken
                        /\ caller'[waiters'[i]].checked = {}
      BY DEF Queued
    <3>1. waiters'[i] \in Caller /\ waiters'[i] # h
      BY <2>3, <2>4
    <3>2. caller'[waiters'[i]] = f[waiters[i + 1]]
      BY <2>3, <2>5, <3>1
    <3> QED BY <2>3, <3>2 DEF Queued
  <2>9. Distinct(waiters)'
    <3> SUFFICES ASSUME NEW i \in 1..Len(waiters'), NEW j \in 1..Len(waiters'),
                        waiters'[i] = waiters'[j]
                 PROVE  i = j
      BY DEF Distinct
    <3>1. i + 1 = j + 1
      BY <2>3 DEF Distinct
    <3> QED BY <3>1
  <2>10. WokenWaits(caller)'
    BY <2>2, <2>5, <2>7 DEF WokenWaits
  <2>11. Attended'
    BY <2>2, <2>5, <2>6, <2>7 DEF Attended, Scoped
  <2>12. DrainWaiters(f) => waiters' = <<>>
    BY DEF DrainWaiters
  <2> QED BY <2>8, <2>9, <2>10, <2>11, <2>12 DEF QueueInv
<1>3. CASE DrainWaiters(f)
  <2>1. waiters' = <<>> /\ caller' = Signal(f, ToSet(waiters))
    BY <1>3 DEF DrainWaiters
  <2>2. \A d \in ToSet(waiters) : f[d].pc = "waiting"
    BY DEF ToSet, Queued
  <2>3. WokenWaits(caller)'
    BY <2>1, <2>2 DEF Signal, CallerRow, WokenWaits
  <2>4. Queued(caller, waiters)' /\ Distinct(waiters)'
    BY <2>1 DEF Queued, Distinct
  <2> QED BY <2>1, <2>3, <2>4 DEF QueueInv
<1>4. CASE WakeOneWaiter(f) /\ waiters = <<>>
  <2>1. WakeNobody(f)
    BY <1>4 DEF WakeOneWaiter
  <2> QED BY <1>1, <2>1
<1> QED BY <1>1, <1>2, <1>3, <1>4

LEMMA NotifiedKeepsQueue ==
  ASSUME NEW f \in [Caller -> CallerRow], waiters \in Seq(Caller),
         Queued(f, waiters), WokenWaits(f)
  PROVE  Queued(Notified(f), waiters) /\ WokenWaits(Notified(f))
<1>1. \A i \in 1..Len(waiters) : waiters[i] \in Caller
  OBVIOUS
<1>2. Queued(Notified(f), waiters)
  BY <1>1, NotifiedKeepsRest DEF Queued
<1>3. WokenWaits(Notified(f))
  BY DEF Notified, Signal, CallerRow, WokenWaits
<1> QED BY <1>2, <1>3

(* A caller that is not in the queue may change without disturbing it. *)
LEMMA OthersQueued ==
  ASSUME TypeOK, QueueInv, NEW c \in Caller,
         caller[c].pc # "waiting" \/ caller[c].woken \/ caller[c].checked # {},
         NEW f, \A d \in Caller : d # c => f[d] = caller[d],
         f[c].woken => f[c].pc = "waiting"
  PROVE  Queued(f, waiters) /\ Distinct(waiters) /\ WokenWaits(f)
<1>1. \A i \in 1..Len(waiters) : waiters[i] \in Caller /\ waiters[i] # c
  BY DEF QueueInv, Queued, TypeOK
<1> QED BY <1>1 DEF QueueInv, Queued, WokenWaits

(* Who attends to the queue before a step and does not act in it still     *)
(* attends to it afterwards.                                               *)
LEMMA StillAttended ==
  ASSUME NEW c \in Caller, Attended,
         ~(caller[c].pc = "leased" \/ (caller[c].woken /\ caller[c].checked = {})),
         \A d \in Caller : d # c =>
           /\ caller'[d].pc = caller[d].pc /\ caller'[d].checked = caller[d].checked
           /\ caller[d].woken => caller'[d].woken
  PROVE  Attended'
  BY DEF Attended, Scoped

LEMMA LeaseAttends ==
  ASSUME LeaseInv, Leased(session, {})
  PROVE  \E d \in Caller : caller[d].pc = "leased"
<1>1. PICK s \in Session : session[s].in /\ session[s].leases > 0
  BY DEF Leased
<1>2. Holders(s) # {}
  BY <1>1, FS_EmptySet DEF LeaseInv, SlotsAccounted
<1> QED BY <1>2 DEF Holders

QueueSafe == QueueInv /\ NoStrandedWaiter

LEMMA TakeQueue ==
  ASSUME LeaseInv, QueueSafe, NEW c \in Caller, NEW s \in Session, TakeLease(c, s)
  PROVE  QueueSafe'
<1> DEFINE g == [caller EXCEPT ![c] = [@ EXCEPT !.pc = "leased", !.session = s,
                                                 !.live = TRUE, !.woken = FALSE]]
<1> USE DEF QueueSafe, LeaseInv
<1>1. caller \in [Caller -> CallerRow] /\ waiters \in Seq(Caller)
  BY DEF TypeOK, CallerRow
<1>2. g \in [Caller -> CallerRow] /\ g[c].pc = "leased" /\ ~g[c].woken
      /\ \A d \in Caller : d # c => g[d] = caller[d]
  BY <1>1 DEF CallerRow
<1>3. caller[c].pc # "waiting" \/ caller[c].woken
  BY DEF TakeLease, Asks
<1>4. WakeOneWaiter(g) \/ WakeNobody(g)
  BY DEF TakeLease
<1> HIDE DEF g
<1>5. Queued(g, waiters) /\ Distinct(waiters) /\ WokenWaits(g)
  BY <1>2, <1>3, OthersQueued
<1>6. QueueInv'
  BY <1>1, <1>2, <1>4, <1>5, WakingKeepsQueue
<1>7. Attended'
  BY <1>1, <1>2, <1>4, WakingKeepsRest DEF Attended
<1> QED BY <1>6, <1>7 DEF NoStrandedWaiter

LEMMA RefuseQueue ==
  ASSUME LeaseInv, QueueSafe, NEW c \in Caller, Refuse(c)
  PROVE  QueueSafe'
<1> DEFINE g == [caller EXCEPT ![c] = Idle]
<1> USE DEF QueueSafe, LeaseInv
<1>1. caller \in [Caller -> CallerRow] /\ waiters \in Seq(Caller)
  BY DEF TypeOK, CallerRow
<1>2. g \in [Caller -> CallerRow] /\ g[c] = Idle /\ ~g[c].woken
      /\ \A d \in Caller : d # c => g[d] = caller[d]
  BY <1>1, IdleIsCaller DEF Idle
<1>3. caller[c].pc # "waiting" \/ caller[c].woken
  BY DEF Refuse, Asks
<1>4. DrainWaiters(g) \/ (WakeNobody(g) /\ Scoped(c))
  BY DEF Refuse
<1> HIDE DEF g
<1>5. Queued(g, waiters) /\ Distinct(waiters) /\ WokenWaits(g)
  BY <1>2, <1>3, OthersQueued
<1>6. QueueInv'
  BY <1>1, <1>2, <1>4, <1>5, WakingKeepsQueue
<1>7. abandoned' = abandoned
  BY DEF Refuse
<1>8. CASE DrainWaiters(g)
  BY <1>6, <1>8 DEF DrainWaiters, NoStrandedWaiter
<1>9. CASE WakeNobody(g) /\ Scoped(c)
  <2>1. caller' = g /\ waiters' = waiters
    BY <1>9 DEF WakeNobody
  <2>2. caller[c].pc # "leased"
    BY Asking DEF Refuse
  <2>3. Attended => Attended'
    BY <1>2, <1>9, <2>1, <2>2, StillAttended DEF Scoped
  <2> QED BY <1>6, <1>7, <2>1, <2>3 DEF NoStrandedWaiter
<1> QED BY <1>4, <1>8, <1>9

LEMMA BlockQueue ==
  ASSUME LeaseInv, QueueSafe, NEW c \in Caller, Block(c)
  PROVE  QueueSafe'
<1> USE DEF QueueSafe, LeaseInv
<1>1. caller \in [Caller -> CallerRow] /\ waiters \in Seq(Caller)
  BY DEF TypeOK, CallerRow
<1>2. /\ caller'[c].pc = "waiting" /\ ~caller'[c].woken /\ caller'[c].checked = caller[c].checked
      /\ \A d \in Caller : d # c => caller'[d] = caller[d]
  BY <1>1 DEF Block, CallerRow
<1>3. caller[c].pc # "waiting" \/ caller[c].woken
  BY DEF Block, Asks
<1>4. Queued(caller', waiters) /\ Distinct(waiters) /\ WokenWaits(caller')
  BY <1>2, <1>3, OthersQueued
<1>5. QueueInv'
  <2>1. CASE Scoped(c)
    <3>1. waiters' = waiters
      BY <2>1 DEF Block
    <3> QED BY <1>4, <3>1 DEF QueueInv, Queued, Distinct, WokenWaits
  <2>2. CASE ~Scoped(c)
    <3>1. waiters' = Append(waiters, c) /\ caller'[c].checked = {}
      BY <1>2, <2>2 DEF Block, Scoped
    <3>2. /\ Len(waiters') = Len(waiters) + 1 /\ waiters'[Len(waiters) + 1] = c
          /\ \A i \in 1..Len(waiters) : waiters'[i] = waiters[i]
      BY <1>1, <3>1
    <3>3. \A i \in 1..Len(waiters) : waiters[i] # c
      BY <1>1, <1>3 DEF QueueInv, Queued
    <3>4. \A i \in 1..Len(waiters') : i \in 1..Len(waiters) \/ i = Len(waiters) + 1
      BY <1>1, <3>2
    <3>5. Queued(caller, waiters)'
      BY <1>2, <1>4, <3>1, <3>2, <3>4 DEF Queued
    <3>6. Distinct(waiters)'
      BY <1>4, <3>2, <3>3, <3>4 DEF Distinct
    <3> QED BY <1>4, <3>5, <3>6 DEF QueueInv, WokenWaits
  <2> QED BY <2>1, <2>2
<1>6. Attended'
  <2>1. Leased(session, {})
    BY DEF Block, Leased
  <2>2. PICK d \in Caller : caller[d].pc = "leased"
    BY <2>1, LeaseAttends
  <2>3. d # c
    BY <2>2, Asking DEF Block
  <2> QED BY <1>2, <2>2, <2>3 DEF Attended
<1> QED BY <1>5, <1>6 DEF NoStrandedWaiter

LEMMA GiveUpQueue ==
  ASSUME LeaseInv, QueueSafe, NEW c \in Caller, GiveUp(c)
  PROVE  QueueSafe'
<1> USE DEF QueueSafe, LeaseInv
<1>1. caller \in [Caller -> CallerRow] /\ waiters \in Seq(Caller)
  BY DEF TypeOK, CallerRow
<1>2. /\ caller'[c] = Idle /\ ~Idle.woken
      /\ \A d \in Caller : d # c => caller'[d] = caller[d]
  BY <1>1 DEF GiveUp, Idle
<1>3. WokenWaits(caller)'
  BY <1>2 DEF QueueInv, WokenWaits
<1>4. ASSUME NEW i \in 1..Len(waiters), waiters[i] = c, waiters' = RemoveAt(waiters, i)
      PROVE  Queued(caller, waiters)' /\ Distinct(waiters)'
  <2>1. /\ waiters' \in Seq(Caller) /\ Len(waiters') = Len(waiters) - 1
        /\ \A k \in 1..(Len(waiters) - 1) :
             waiters'[k] = IF k < i THEN waiters[k] ELSE waiters[k + 1]
    BY <1>1, <1>4, RemovingOne
  <2>2. ASSUME NEW k \in 1..Len(waiters')
        PROVE  \E m \in 1..Len(waiters) : /\ m # i /\ waiters'[k] = waiters[m]
                                          /\ m = IF k < i THEN k ELSE k + 1
    BY <1>1, <2>1
  <2>3. Queued(caller, waiters)'
    <3> SUFFICES ASSUME NEW k \in 1..Len(waiters')
                 PROVE  /\ caller'[waiters'[k]].pc = "waiting" /\ ~caller'[waiters'[k]].woken
                        /\ caller'[waiters'[k]].checked = {}
      BY DEF Queued
    <3>1. PICK m \in 1..Len(waiters) : m # i /\ waiters'[k] = waiters[m]
      BY <2>2
    <3>2. waiters[m] # c /\ waiters[m] \in Caller
      BY <1>1, <1>4, <3>1 DEF QueueInv, Distinct
    <3> QED BY <1>2, <3>1, <3>2 DEF QueueInv, Queued
  <2>4. Distinct(waiters)'
    <3> SUFFICES ASSUME NEW k \in 1..Len(waiters'), NEW l \in 1..Len(waiters'),
                        waiters'[k] = waiters'[l]
                 PROVE  k = l
      BY DEF Distinct
    <3>1. PICK m \in 1..Len(waiters) : /\ waiters'[k] = waiters[m]
                                       /\ m = IF k < i THEN k ELSE k + 1
      BY <2>2
    <3>2. PICK n \in 1..Len(waiters) : /\ waiters'[l] = waiters[n]
                                       /\ n = IF l < i THEN l ELSE l + 1
      BY <2>2
    <3>3. m = n
      BY <3>1, <3>2 DEF QueueInv, Distinct
    <3> QED BY <1>1, <3>1, <3>2, <3>3
  <2> QED BY <2>3, <2>4
<1>5. ASSUME c \notin ToSet(waiters), waiters' = waiters
      PROVE  Queued(caller, waiters)' /\ Distinct(waiters)'
  <2>1. \A i \in 1..Len(waiters) : waiters[i] \in Caller /\ waiters[i] # c
    BY <1>1, <1>5 DEF ToSet
  <2> QED BY <1>2, <1>5, <2>1 DEF QueueInv, Queued, Distinct
<1>6. QueueInv'
  BY <1>3, <1>4, <1>5 DEF GiveUp, QueueInv
<1>7. waiters' # <<>> => waiters # <<>>
  <2>1. ASSUME NEW i \in 1..Len(waiters) PROVE waiters # <<>>
    BY <1>1
  <2> QED BY <2>1 DEF GiveUp
<1>8. CASE caller[c].woken /\ ~Scoped(c)
  BY <1>6, <1>8 DEF GiveUp, NoStrandedWaiter
<1>9. CASE ~(caller[c].woken /\ ~Scoped(c))
  <2>1. abandoned' = abandoned /\ caller[c].pc = "waiting"
    BY <1>9 DEF GiveUp, TypeOK
  <2>2. Attended => Attended'
    BY <1>2, <1>9, <2>1, StillAttended DEF Scoped
  <2> QED BY <1>6, <1>7, <2>1, <2>2 DEF NoStrandedWaiter
<1> QED BY <1>8, <1>9

LEMMA ReleaseQueue ==
  ASSUME LeaseInv, LeaseInv', QueueSafe, NEW c \in Caller, NEW o \in Outcomes,
         NEW next \in CallerRow, ReleaseLease(c, o, next), ~next.woken
  PROVE  QueueSafe'
<1> DEFINE g == [caller EXCEPT ![c] = next]
           h == Notified(g)
<1> USE DEF QueueSafe, LeaseInv
<1>1. caller \in [Caller -> CallerRow] /\ waiters \in Seq(Caller)
  BY DEF TypeOK, CallerRow
<1>2. g \in [Caller -> CallerRow] /\ g[c] = next
      /\ \A d \in Caller : d # c => g[d] = caller[d]
  BY <1>1
<1>3. caller[c].pc # "waiting"
  BY DEF ReleaseLease
<1>5. \/ WakeOneWaiter(h)
      \/ WakeNobody(h) /\ Leased(session', {})
      \/ DrainWaiters(h)
  BY DEF ReleaseLease
<1> HIDE DEF g
<1>6. h \in [Caller -> CallerRow] /\ Queued(h, waiters) /\ Distinct(waiters) /\ WokenWaits(h)
  BY <1>1, <1>2, <1>3, OthersQueued, NotifiedKeepsQueue, NotifiedKeepsRest
<1> HIDE DEF h
<1>7. QueueInv' /\ (WakeOneWaiter(h) => waiters' = <<>> \/ Attended')
      /\ (DrainWaiters(h) => waiters' = <<>>)
  BY <1>1, <1>5, <1>6, WakingKeepsQueue
<1>8. CASE WakeOneWaiter(h) \/ DrainWaiters(h)
  BY <1>7, <1>8 DEF NoStrandedWaiter
<1>9. CASE WakeNobody(h) /\ Leased(session', {})
  <2>1. PICK s \in Session : session'[s].in /\ session'[s].leases > 0
    BY <1>9 DEF Leased
  <2>2. Holders(s)' # {}
    BY <2>1, FS_EmptySet DEF SlotsAccounted
  <2>3. Attended'
    BY <2>2 DEF Holders, Attended
  <2> QED BY <1>7, <2>3 DEF NoStrandedWaiter
<1> QED BY <1>5, <1>8, <1>9

LEMMA RecordOutcomeQueue ==
  ASSUME LeaseInv, QueueSafe, NEW c \in Caller, NEW o \in Outcomes, RecordOutcome(c, o)
  PROVE  QueueSafe'
<1> DEFINE g == [caller EXCEPT ![c] = Idle]
<1> USE DEF QueueSafe, LeaseInv
<1>1. caller \in [Caller -> CallerRow] /\ waiters \in Seq(Caller)
  BY DEF TypeOK, CallerRow
<1>2. g \in [Caller -> CallerRow] /\ g[c] = Idle /\ ~g[c].woken
      /\ \A d \in Caller : d # c => g[d] = caller[d]
  BY <1>1, IdleIsCaller DEF Idle
<1>3. caller[c].pc = "download"
  BY DEF RecordOutcome
<1>4. caller' = Notified(g) /\ waiters' = waiters /\ abandoned' = abandoned
  BY DEF RecordOutcome, WakeNobody
<1> HIDE DEF g
<1>5. Queued(g, waiters) /\ Distinct(waiters) /\ WokenWaits(g)
  BY <1>2, <1>3, OthersQueued
<1>6. Queued(Notified(g), waiters) /\ WokenWaits(Notified(g))
  BY <1>1, <1>2, <1>5, NotifiedKeepsQueue
<1>7. QueueInv'
  BY <1>4, <1>5, <1>6 DEF QueueInv, Queued, Distinct, WokenWaits
<1>8. ~caller[c].woken
  BY <1>3 DEF QueueInv, WokenWaits
<1>9. Attended => Attended'
  BY <1>2, <1>3, <1>4, <1>8, NotifiedKeepsRest, StillAttended
<1> QED BY <1>4, <1>7, <1>9 DEF NoStrandedWaiter

LEMMA UpsertQueue ==
  ASSUME LeaseInv, QueueSafe, NEW s \in Session, NEW u \in BOOLEAN, NEW h \in Health,
         UpsertSession(s, u, h)
  PROVE  QueueSafe'
<1> DEFINE g == Notified(caller)
<1> USE DEF QueueSafe, LeaseInv
<1>1. caller \in [Caller -> CallerRow] /\ waiters \in Seq(Caller)
  BY DEF TypeOK, CallerRow
<1>2. g \in [Caller -> CallerRow] /\ Queued(g, waiters) /\ Distinct(waiters) /\ WokenWaits(g)
  BY <1>1, NotifiedKeepsQueue, NotifiedKeepsRest DEF QueueInv
<1>3. \A d \in Caller : /\ g[d].pc = caller[d].pc /\ g[d].checked = caller[d].checked
                        /\ caller[d].woken => g[d].woken
  BY <1>1, NotifiedKeepsRest
<1>4. WakeOneWaiter(g) \/ WakeNobody(g)
  BY DEF UpsertSession
<1> HIDE DEF g
<1>5. QueueInv' /\ (WakeOneWaiter(g) => waiters' = <<>> \/ Attended')
  BY <1>1, <1>2, <1>4, WakingKeepsQueue
<1>6. CASE WakeNobody(g)
  <2>1. caller' = g /\ waiters' = waiters
    BY <1>6 DEF WakeNobody
  <2>2. Attended => Attended'
    BY <1>3, <2>1 DEF Attended, Scoped
  <2> QED BY <1>5, <2>1, <2>2 DEF UpsertSession, NoStrandedWaiter
<1>7. CASE WakeOneWaiter(g)
  BY <1>5, <1>7 DEF NoStrandedWaiter
<1> QED BY <1>4, <1>6, <1>7

LEMMA RemoveQueue ==
  ASSUME LeaseInv, QueueSafe, NEW s \in Session, RemoveSession(s)
  PROVE  QueueSafe'
<1> DEFINE g == [c \in Caller |-> IF caller[c].session = s
                                  THEN [caller[c] EXCEPT !.live = FALSE] ELSE caller[c]]
           h == Notified(g)
<1> USE DEF QueueSafe, LeaseInv
<1>1. caller \in [Caller -> CallerRow] /\ waiters \in Seq(Caller)
  BY DEF TypeOK, CallerRow
<1>2. g \in [Caller -> CallerRow]
      /\ \A d \in Caller : /\ g[d].pc = caller[d].pc /\ g[d].checked = caller[d].checked
                           /\ g[d].woken = caller[d].woken
  BY <1>1 DEF CallerRow
<1>3. DrainWaiters(h) \/ WakeNobody(h)
  BY DEF RemoveSession
<1> HIDE DEF g
<1>4. Queued(g, waiters) /\ Distinct(waiters) /\ WokenWaits(g)
  <2>1. \A i \in 1..Len(waiters) : waiters[i] \in Caller
    BY <1>1
  <2> QED BY <1>2, <2>1 DEF QueueInv, Queued, WokenWaits
<1>5. /\ h \in [Caller -> CallerRow] /\ Queued(h, waiters) /\ WokenWaits(h)
      /\ \A d \in Caller : /\ h[d].pc = caller[d].pc /\ h[d].checked = caller[d].checked
                           /\ caller[d].woken => h[d].woken
  BY <1>1, <1>2, <1>4, NotifiedKeepsQueue, NotifiedKeepsRest
<1> HIDE DEF h
<1>6. QueueInv' /\ (DrainWaiters(h) => waiters' = <<>>)
  BY <1>1, <1>3, <1>4, <1>5, WakingKeepsQueue
<1>7. CASE WakeNobody(h)
  <2>1. caller' = h /\ waiters' = waiters
    BY <1>7 DEF WakeNobody
  <2>2. Attended => Attended'
    BY <1>5, <2>1 DEF Attended, Scoped
  <2> QED BY <1>6, <2>1, <2>2 DEF RemoveSession, NoStrandedWaiter
<1>8. CASE DrainWaiters(h)
  BY <1>6, <1>8 DEF NoStrandedWaiter
<1> QED BY <1>3, <1>7, <1>8

LEMMA RestQueue ==
  ASSUME QueueSafe, UNCHANGED <<caller, waiters, abandoned>>
  PROVE  QueueSafe'
  BY DEF QueueSafe, QueueInv, Queued, Distinct, WokenWaits, NoStrandedWaiter, Attended, Scoped

PoolInv == LeaseInv /\ QueueSafe

LEMMA InitQueue == Init => QueueSafe
  BY DEF Init, Idle, QueueSafe, QueueInv, Queued, Distinct, WokenWaits, NoStrandedWaiter

LEMMA StepQueue ==
  ASSUME PoolInv, [Next]_vars
  PROVE  PoolInv'
<1> USE DEF PoolInv
<1>1. LeaseInv'
  BY StepLeases
<1>2. ASSUME NEW c \in Caller, Acquire(c) \/ GiveUp(c) PROVE QueueSafe'
  BY <1>2, TakeQueue, RefuseQueue, BlockQueue, GiveUpQueue DEF Acquire
<1>3. ASSUME NEW c \in Caller, Work(c) PROVE QueueSafe'
  BY <1>1, <1>3, WorkSplit, ReleaseQueue, RecordOutcomeQueue DEF LeaseInv
<1>4. ASSUME NEW s \in Session, Administer(s) PROVE QueueSafe'
  <2>1. ASSUME (\E o \in Failures : RecordFailure(s, o)) \/ DeleteSession(s) PROVE QueueSafe'
    BY <2>1, RestQueue DEF RecordFailure, DeleteSession
  <2> QED BY <1>4, <2>1, UpsertQueue, RemoveQueue DEF Administer
<1>5. CASE (\E s \in Session : CooldownEnds(s)) \/ PauseEnds \/ UNCHANGED vars
  BY <1>1, <1>5, RestQueue DEF CooldownEnds, PauseEnds, vars
<1> QED BY <1>1, <1>2, <1>3, <1>4, <1>5 DEF Next

(* No caller is left in the queue without anybody who will look at it: a   *)
(* lease is out or a caller of the queue has been woken, unless a wake-up  *)
(* was sent to a caller whose context ended.  For every pool.              *)
THEOREM NobodyStranded == Spec => []NoStrandedWaiter
<1>1. Init => PoolInv
  BY InitLeases, InitQueue DEF PoolInv
<1>2. PoolInv /\ [Next]_vars => PoolInv'
  BY StepQueue
<1>3. PoolInv => NoStrandedWaiter
  BY DEF PoolInv, QueueSafe
<1> QED BY <1>1, <1>2, <1>3, PTL DEF Spec
=============================================================================
