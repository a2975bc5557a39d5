----------------------------- MODULE SessionPool -----------------------------
(***************************************************************************)
(* The pool of authenticated media sessions: leases, the FIFO of callers   *)
(* that wait for one, the callers that wait for another session than those *)
(* they have already tried, session health, the family-wide pause and the  *)
(* administration of sessions.  From                                       *)
(* src/backend/internal/mediasession/{pool,session,service}.go and the use *)
(* the orchestrator makes of them.                                         *)
(*                                                                         *)
(* Everything a call does while it holds p.mu is one step.  A caller that  *)
(* has been sent its wake-up but has not taken p.mu again is "woken".      *)
(***************************************************************************)
EXTENDS Naturals, FiniteSets, SequencesExt

CONSTANTS
  Session,      \* session ids
  Caller,       \* goroutines that resolve a track
  None,         \* no session
  MaxLeases,    \* MaxLeasesPerSession
  AllowUnknown, \* whether a session never used may be tried
  StartHealth,  \* health the stored sessions may have when the pool is loaded
  Budget        \* bound: how many requests, admin calls and pauses happen

(* "cooling" and "expired" are a stored cooldown before and after its end. *)
Health   == {"healthy", "unknown", "cooling", "expired", "auth_failed"}
Failures == {"cooling", "auth_failed", "paused"}  \* attributable to session or family
Outcomes == Failures \cup {"success", "neutral"}
Events   == {"request", "admin", "pause"}

ASSUME SessionPoolAssumption ==
  /\ IsFiniteSet(Session) /\ IsFiniteSet(Caller) /\ None \notin Session
  /\ MaxLeases \in Nat \ {0}
  /\ AllowUnknown \in BOOLEAN
  /\ StartHealth \subseteq Health
  /\ Budget \in [Events -> Nat]

VARIABLES
  session,   \* p.sessions: enabled with cookies, health, currentLeases, dataPlaneRefs
  paused,    \* platformFailure.CooldownUntil lies in the future
  waiters,   \* p.waiters: who owns the channels
  caller,    \* program counter, lease and wake-up of each caller
  deleting,  \* sessions whose deletion has passed the in-use guard
  abandoned, \* history: a caller left with a wake-up it had been sent
  budget     \* what is left of Budget

vars == <<session, paused, waiters, caller, deleting, abandoned, budget>>

-----------------------------------------------------------------------------
(* Selection: selectBestSession and TryAcquireWithPolicy.                  *)

Slots(r) ==
  CASE r.health = "healthy" -> MaxLeases
    [] r.health = "unknown" -> IF AllowUnknown THEN 1 ELSE 0
    [] r.health = "expired" -> 1
    [] OTHER                -> 0

Fits(r)       == r.in /\ r.usable /\ r.leases < Slots(r)
Ready(f, x)   == {s \in Session \ x : Fits(f[s])}
Leased(f, x)  == \E s \in Session \ x : f[s].in /\ f[s].leases > 0
Configured(x) == \E s \in Session \ x : session[s].in /\ session[s].usable

(* Least loaded; what breaks a tie (oldest use, then id) is left open. *)
Best(x) == {s \in Ready(session, x) :
              \A t \in Ready(session, x) : session[s].leases <= session[t].leases}

-----------------------------------------------------------------------------
(* Wake-ups.  f is the caller function the step has reached so far.        *)

Idle == [pc |-> "idle", checked |-> {}, session |-> None, live |-> FALSE, woken |-> FALSE]

Scoped(c) == caller[c].checked # {}   \* entered through AcquireExcluding

Signal(f, cs) == [d \in Caller |-> IF d \in cs THEN [f[d] EXCEPT !.woken = TRUE] ELSE f[d]]

(* Mutant: nobody tells the scoped callers. *)
MutNotified(f) == f

(* notifyCapacityChangedLocked *)
Notified(f) == Signal(f, {d \in Caller : f[d].pc = "waiting" /\ f[d].checked # {}})

WakeNobody(f) == caller' = f /\ UNCHANGED waiters
WakeOneWaiter(f) ==
  IF waiters = <<>> THEN WakeNobody(f)
  ELSE caller' = Signal(f, {Head(waiters)}) /\ waiters' = Tail(waiters)
DrainWaiters(f) == caller' = Signal(f, ToSet(waiters)) /\ waiters' = <<>>

Spend(what) == budget[what] > 0 /\ budget' = [budget EXCEPT ![what] = @ - 1]

Init ==
  /\ session \in [Session -> [in : {TRUE}, usable : {TRUE}, health : StartHealth,
                            leases : {0}, refs : {0}]]
  /\ paused = FALSE
  /\ waiters = <<>>
  /\ caller = [c \in Caller |-> Idle]
  /\ deleting = {}
  /\ abandoned = FALSE
  /\ budget = Budget

-----------------------------------------------------------------------------
(* acquire: one round of its loop, for a new call, a call that wants       *)
(* another session, or a woken one.                                        *)

Asks(c) ==
  \/ caller[c].pc = "idle" /\ Spend("request")
  \/ caller[c].pc = "another" /\ UNCHANGED budget
  \/ caller[c].pc = "waiting" /\ caller[c].woken /\ UNCHANGED budget

Refused(c) == ~Configured(caller[c].checked) \/ paused

TakeLease(c, s) ==
  /\ Asks(c) /\ ~Refused(c)
  /\ s \in Best(caller[c].checked)
  /\ session' = [session EXCEPT ![s].leases = @ + 1]
  /\ LET g == [caller EXCEPT ![c] = [@ EXCEPT !.pc = "leased", !.session = s, !.live = TRUE,
                                              !.woken = FALSE]]
     IN IF Ready(session', caller[c].checked) # {} THEN WakeOneWaiter(g) ELSE WakeNobody(g)
  /\ UNCHANGED <<paused, deleting, abandoned>>

(* An error, or no lease for a scoped call, which then goes on without.  *)
Refuse(c) ==
  /\ Asks(c)
  /\ \/ Refused(c)
     \/ Ready(session, caller[c].checked) = {} /\ ~Leased(session, caller[c].checked)
  /\ LET g == [caller EXCEPT ![c] = Idle]
     IN IF Scoped(c) /\ ~(Configured(caller[c].checked) /\ paused)
        THEN WakeNobody(g) ELSE DrainWaiters(g)
  /\ UNCHANGED <<session, paused, deleting, abandoned>>

(* Mutant: a scoped call waits in the FIFO like any other. *)
MutBlock(c) ==
  /\ Asks(c) /\ ~Refused(c)
  /\ Ready(session, caller[c].checked) = {} /\ Leased(session, caller[c].checked)
  /\ caller' = [caller EXCEPT ![c].pc = "waiting", ![c].woken = FALSE]
  /\ waiters' = Append(waiters, c)
  /\ UNCHANGED <<session, paused, deleting, abandoned>>

Block(c) ==
  /\ Asks(c) /\ ~Refused(c)
  /\ Ready(session, caller[c].checked) = {} /\ Leased(session, caller[c].checked)
  /\ caller' = [caller EXCEPT ![c].pc = "waiting", ![c].woken = FALSE]
  /\ waiters' = IF Scoped(c) THEN waiters ELSE Append(waiters, c)
  /\ UNCHANGED <<session, paused, deleting, abandoned>>

Acquire(c) == (\E s \in Session : TakeLease(c, s)) \/ Refuse(c) \/ Block(c)

(* The context ends; a wake-up that has been sent already goes nowhere. *)
GiveUp(c) ==
  /\ caller[c].pc = "waiting"
  /\ caller' = [caller EXCEPT ![c] = Idle]
  /\ \/ \E i \in 1..Len(waiters) : waiters[i] = c /\ waiters' = RemoveAt(waiters, i)
     \/ c \notin ToSet(waiters) /\ UNCHANGED waiters
  /\ abandoned' = (abandoned \/ (caller[c].woken /\ ~Scoped(c)))
  /\ UNCHANGED <<session, paused, deleting, budget>>

-----------------------------------------------------------------------------
(* Outcomes: updateSessionHealthLocked.                                    *)

HealthAfter(h, o) ==
  CASE o = "success"                    -> "healthy"
    [] o \in {"cooling", "auth_failed"} -> o
    [] OTHER                            -> h
PausedAfter(o) == IF o = "success" THEN FALSE ELSE paused \/ o = "paused"

(* releaseLease.  A lease holds its runtime session, not the id: one whose *)
(* session has been removed changes no session of the pool.  The reference *)
(* a download keeps (RetainDataPlane) goes by the id.                      *)
ReleaseLease(c, o, next) ==
  /\ caller[c].pc = "leased"
  /\ LET s == caller[c].session
         r == IF caller[c].live
              THEN [session[s] EXCEPT !.leases = @ - 1, !.health = HealthAfter(@, o)]
              ELSE session[s]
     IN session' = [session EXCEPT ![s] =
          IF next.pc = "download" /\ r.in THEN [r EXCEPT !.refs = @ + 1] ELSE r]
  /\ paused' = PausedAfter(o)
  /\ LET g == Notified([caller EXCEPT ![c] = next])
     IN CASE Ready(session', {}) # {} -> WakeOneWaiter(g)
          [] Ready(session', {}) = {} /\ Leased(session', {}) -> WakeNobody(g)
          [] OTHER -> DrainWaiters(g)
  /\ UNCHANGED <<deleting, abandoned>>

(* No source, or a failure that stops the search. *)
ReleaseUnused(c, o) == ReleaseLease(c, o, Idle) /\ UNCHANGED budget

(* The session may not see the source: try one not checked yet. *)
ReleaseRestricted(c) ==
  /\ ReleaseLease(c, "neutral",
       [Idle EXCEPT !.pc = "another", !.checked = caller[c].checked \cup {caller[c].session}])
  /\ UNCHANGED budget

(* A source: the lease ends, the download will report on the session. *)
ReleaseResolved(c) ==
  /\ ReleaseLease(c, "neutral",
       [Idle EXCEPT !.pc = "download", !.session = caller[c].session])
  /\ UNCHANGED budget

(* RecordOutcome and ReleaseDataPlane; by id, whoever has it now. *)
RecordOutcome(c, o) ==
  /\ caller[c].pc = "download"
  /\ LET s == caller[c].session
         r == session[s]
     IN IF r.in
        THEN /\ session' = [session EXCEPT ![s] =
                  [r EXCEPT !.health = HealthAfter(r.health, o),
                            !.refs = IF r.refs > 0 THEN r.refs - 1 ELSE 0]]
             /\ paused' = PausedAfter(o)
        ELSE UNCHANGED <<session, paused>>
  /\ WakeNobody(Notified([caller EXCEPT ![c] = Idle]))
  /\ UNCHANGED <<deleting, abandoned, budget>>

-----------------------------------------------------------------------------
(* Administration and time.                                                *)

(* Mutant: an update replaces the runtime session instead of its row. *)
MutUpsertSession(s, usable, health) ==
  /\ Spend("admin")
  /\ session' = [session EXCEPT ![s] =
       [in |-> TRUE, usable |-> usable, health |-> health, leases |-> 0, refs |-> 0]]
  /\ paused' = (paused /\ health # "healthy")
  /\ IF Ready(session', {}) # {} THEN WakeOneWaiter(Notified(caller))
                                 ELSE WakeNobody(Notified(caller))
  /\ UNCHANGED <<deleting, abandoned>>

(* UpsertSession with a row that may be older than the runtime session, or *)
(* belong to one that was removed meanwhile.                               *)
UpsertSession(s, usable, health) ==
  /\ Spend("admin")
  /\ LET r == IF session[s].in THEN session[s]
              ELSE [session[s] EXCEPT !.in = TRUE, !.leases = 0, !.refs = 0]
     IN session' = [session EXCEPT ![s] = [r EXCEPT !.usable = usable, !.health = health]]
  /\ paused' = (paused /\ health # "healthy")
  /\ IF Ready(session', {}) # {} THEN WakeOneWaiter(Notified(caller))
                                 ELSE WakeNobody(Notified(caller))
  /\ UNCHANGED <<deleting, abandoned>>

(* A failed probe: RecordFailure, which notifies nobody. *)
RecordFailure(s, o) ==
  /\ session[s].in /\ Spend("admin")
  /\ session' = [session EXCEPT ![s].health = HealthAfter(@, o)]
  /\ paused' = PausedAfter(o)
  /\ UNCHANGED <<waiters, caller, deleting, abandoned>>

InUse(s) == session[s].leases > 0 \/ session[s].refs > 0

DeleteSession(s) ==
  /\ session[s].in /\ s \notin deleting /\ ~InUse(s) /\ Spend("admin")
  /\ deleting' = deleting \cup {s}
  /\ UNCHANGED <<session, paused, waiters, caller, abandoned>>

(* A lease may have been taken since the guard: it keeps a session nobody  *)
(* else can reach.                                                         *)
RemoveSession(s) ==
  /\ s \in deleting
  /\ deleting' = deleting \ {s}
  /\ session' = [session EXCEPT ![s].in = FALSE]
  /\ LET g == Notified([c \in Caller |-> IF caller[c].session = s
                                         THEN [caller[c] EXCEPT !.live = FALSE] ELSE caller[c]])
     IN IF ~Leased(session', {}) /\ Ready(session', {}) = {}
        THEN DrainWaiters(g) ELSE WakeNobody(g)
  /\ UNCHANGED <<paused, abandoned, budget>>

CooldownEnds(s) ==
  /\ session[s].health = "cooling"
  /\ session' = [session EXCEPT ![s].health = "expired"]
  /\ UNCHANGED <<paused, waiters, caller, deleting, abandoned, budget>>

PauseEnds ==
  /\ paused /\ Spend("pause")
  /\ paused' = FALSE
  /\ UNCHANGED <<session, waiters, caller, deleting, abandoned>>

-----------------------------------------------------------------------------

Release(c) ==
  \/ \E o \in Failures \cup {"neutral"} : ReleaseUnused(c, o)
  \/ ReleaseRestricted(c)
  \/ ReleaseResolved(c)

Work(c) ==
  \/ caller[c].pc = "leased" /\ Release(c)
  \/ caller[c].pc = "download" /\ \E o \in Outcomes : RecordOutcome(c, o)

Administer(s) ==
  \/ \E u \in BOOLEAN, h \in Health : UpsertSession(s, u, h)
  \/ \E o \in Failures : RecordFailure(s, o)
  \/ DeleteSession(s)
  \/ RemoveSession(s)

Next ==
  \/ \E c \in Caller : Acquire(c) \/ GiveUp(c) \/ Work(c)
  \/ \E s \in Session : Administer(s) \/ CooldownEnds(s)
  \/ PauseEnds

Spec == Init /\ [][Next]_vars

(* A woken caller takes the lock again, and every lease is given back: its *)
(* holder runs under a deadline.  Nothing is assumed of clients or clocks. *)
Proceed(c) == (caller[c].pc # "idle" /\ Acquire(c)) \/ Work(c)
FairSpec == Spec /\ \A c \in Caller : WF_vars(Proceed(c))

-----------------------------------------------------------------------------
(* Properties.                                                             *)

(* The shape of every variable. *)
TypeOK ==
  /\ session \in [Session -> [in : BOOLEAN, usable : BOOLEAN, health : Health,
                         leases : Nat, refs : Nat]]
  /\ paused \in BOOLEAN
  /\ waiters \in Seq(Caller)
  /\ caller \in [Caller -> [pc : {"idle", "waiting", "another", "leased", "download"},
                            checked : SUBSET Session, session : Session \cup {None},
                            live : BOOLEAN, woken : BOOLEAN]]
  /\ deleting \subseteq Session
  /\ abandoned \in BOOLEAN
  /\ budget \in [Events -> Nat]

Holders(s) == {c \in Caller : caller[c].pc = "leased" /\ caller[c].session = s /\ caller[c].live}

(* The lease count of a session in the pool is the number of callers that  *)
(* hold it, at most MaxLeases, whatever administration, removal and        *)
(* re-creation of the session did meanwhile (RuntimeSession.currentLeases, *)
(* UpdateSession, Release).                                                *)
SlotsAccounted ==
  \A s \in Session : session[s].in =>
    /\ session[s].leases = Cardinality(Holders(s))
    /\ session[s].leases <= MaxLeases

(* Somebody will look at the queue again: a lease is out, or a normal      *)
(* caller has been woken and not yet looked.                               *)
Attended ==
  \E c \in Caller : caller[c].pc = "leased" \/ (caller[c].woken /\ ~Scoped(c))

(* No caller is left in the FIFO with nobody to wake it: releaseLease,     *)
(* RemoveSession and a refused acquire drain the queue when no lease       *)
(* remains.  The exception is a wake-up that was sent to a caller whose    *)
(* context ended.                                                          *)
NoStrandedWaiter == waiters # <<>> => (Attended \/ abandoned)

(* Whoever waits is woken: the FIFO by releases, those that exclude some   *)
(* sessions by the broadcast, unless a wake-up was abandoned before.       *)
WaiterWoken ==
  \A c \in Caller :
    (caller[c].pc = "waiting" /\ ~caller[c].woken)
      ~> (caller[c].pc # "waiting" \/ caller[c].woken \/ abandoned)
=============================================================================
