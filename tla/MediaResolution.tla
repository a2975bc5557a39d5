-------------------------- MODULE MediaResolution --------------------------
(***************************************************************************)
(* How a track becomes a source: the attempts of several workers over the  *)
(* media providers of two platform families, the YouTube sessions they     *)
(* lease, the pauses after a protection response, and the download that    *)
(* follows.  From src/backend/internal/orchestrator/orchestrator.go and    *)
(* its caller in jobs/worker.go.                                           *)
(*                                                                         *)
(* A request to a provider is two steps, its start and its answer; in      *)
(* between every other worker may act.  Of a session pool only who holds   *)
(* which lease is kept; SessionPool has its queues and wake-ups.           *)
(***************************************************************************)
EXTENDS Naturals, FiniteSets, SequencesExt

CONSTANTS
  Worker,       \* workers; each makes one attempt at a time
  Session,      \* sessions of the pool, when one is configured
  None,         \* no session, no candidate
  Preferred,    \* providers a job may prefer
  Ranked,       \* rankings of acceptable candidates a search may give, by family
  DirectId,     \* the video the catalogue names for the track
  MaxSessions,  \* min(maxCandidates, DefaultMaxCandidates) of the direct path
  Budget        \* bound: attempts, protection responses, cancellations and failed updates

Families == {"youtube", "soundcloud"}
Origins  == {"manual", "subscription"}
OfFamily == {"rate_limited", "unavailable"}     \* apperr.ScopeProvider
OfSession == {"challenge", "auth"}              \* apperr.ScopeSession
Stops    == OfFamily \cup OfSession             \* StopsCandidateFanout
Answers  == {"source", "wait", "no_session", "gone", "cancelled"} \cup Stops
HealthOf == [challenge |-> "cooling", auth |-> "auth_failed", success |-> "ok"]

(* newRegistry; Registry.MediaChain: the preferred one moves to the front. *)
Registry    == <<"ytmusic", "youtube", "soundcloud">>
FamilyOf(p) == IF p = "soundcloud" THEN p ELSE "youtube"
Chain(pref) ==
  LET k == CHOOSE i \in 1..Len(Registry) : Registry[i] = pref
  IN  [i \in 1..Len(Registry) |-> IF i = 1 THEN pref
                                  ELSE IF i <= k THEN Registry[i - 1] ELSE Registry[i]]

ASSUME MediaResolutionAssumption ==
  /\ IsFiniteSet(Worker) /\ IsFiniteSet(Session) /\ None \notin Session
  /\ Preferred \subseteq ToSet(Registry)
  /\ Ranked \in [Families -> SUBSET Seq(STRING)] /\ DirectId \in STRING
  /\ MaxSessions \in Nat \ {0}
  /\ Budget \in [{"attempt", "block", "fault"} -> Nat]

VARIABLES
  attempt,    \* the local state of each worker's attempt
  cooldown,   \* MediaCooldownManager: which families cool down
  paused,     \* the pool's platformFailure has not ended
  health,     \* of each session; "none" when no pool is configured
  refs,       \* dataPlaneRefs of each session
  budget      \* what is left of Budget

vars == <<attempt, cooldown, paused, health, refs, budget>>

(* exhausted is history: the providers whose search and candidates all     *)
(* failed in this attempt.                                                 *)
Idle == [pc |-> "idle", origin |-> "manual", pref |-> "ytmusic", youtube |-> "eligible",
         soundcloud |-> TRUE, direct |-> FALSE, at |-> 0, lease |-> None, checked |-> {},
         tried |-> {}, list |-> <<>>, asking |-> None, deferred |-> FALSE, answer |-> "gone",
         from |-> None, exhausted |-> {}]

Init ==
  /\ attempt = [w \in Worker |-> Idle]
  /\ cooldown = [f \in Families |-> FALSE]
  /\ paused = FALSE
  /\ \E h \in {"none", "ok", "auth_failed"} : health = [s \in Session |-> h]
  /\ refs = [s \in Session |-> 0]
  /\ budget = Budget

Spend(what) == budget[what] > 0 /\ budget' = [budget EXCEPT ![what] = @ - 1]
Set(w, a)   == attempt' = [attempt EXCEPT ![w] = a]
At(a)       == Chain(a.pref)[a.at]              \* the provider the attempt is at
Family(a)   == IF a.at = 0 THEN "youtube" ELSE FamilyOf(At(a))

-----------------------------------------------------------------------------
(* The pool: Availability, acquire, updateSessionHealthLocked.             *)

Leased(s)   == \E w \in Worker : attempt[w].lease = s
Configured  == \E s \in Session : health[s] # "none"
Ready(x)    == {s \in Session \ x : health[s] = "ok" /\ ~Leased(s)}
Occupied(x) == \E s \in Session \ x : Leased(s)

Availability ==
  IF paused THEN "cooling"
  ELSE IF Ready({}) # {} \/ Occupied({}) THEN "eligible"
  ELSE IF \E s \in Session : health[s] = "cooling" THEN "cooling" ELSE "unusable"

(* What answer r to a request made with session s says of the sessions. *)
Attribute(s, r) ==
  /\ health' = IF s # None /\ r \in DOMAIN HealthOf
               THEN [health EXCEPT ![s] = HealthOf[r]] ELSE health
  /\ paused' = IF s # None /\ r \in OfFamily THEN TRUE
               ELSE IF s # None /\ r = "success" THEN FALSE ELSE paused

Trigger(fs) == cooldown' = [f \in Families |-> cooldown[f] \/ f \in fs]

-----------------------------------------------------------------------------
(* The plan of an attempt, made before any request; also Precheck.         *)

(* The eligibility of the YouTube family.  No pool: nothing to lease.      *)
YouTubePlan ==
  IF Configured /\ Availability # "eligible" THEN Availability
  ELSE IF cooldown["youtube"] THEN "cooling" ELSE "eligible"

(* planAttempt: the answer without any request, if there is one. *)
Refusal(a) ==
  IF a.youtube = "eligible" \/ FamilyOf(a.pref) # "youtube" THEN {}
  ELSE IF a.origin = "subscription" THEN {IF a.youtube = "unusable" THEN "no_session" ELSE "wait"}
  ELSE IF a.soundcloud THEN {} ELSE {"wait"}

Planned(origin, pref, direct) ==
  [Idle EXCEPT !.origin = origin, !.pref = pref, !.direct = direct,
               !.youtube = YouTubePlan, !.soundcloud = ~cooldown["soundcloud"]]

(* A worker takes an item that is ready and enters ResolveMedia. *)
Begin(w, origin, pref, direct) ==
  /\ attempt[w].pc = "idle" /\ Spend("attempt")
  /\ LET a == Planned(origin, pref, direct)
     IN IF Refusal(a) # {}
        THEN \E r \in Refusal(a) : Set(w, [a EXCEPT !.pc = "answered", !.answer = r])
        ELSE Set(w, [a EXCEPT !.pc = IF a.youtube = "eligible" /\ direct
                                        /\ FamilyOf(pref) = "youtube"
                                     THEN "lease" ELSE "next"])
  /\ UNCHANGED <<cooldown, paused, health, refs>>

(* ResolveMedia returns: what it knew is forgotten, and the deferred       *)
(* release of the lease comes next.                                        *)
Leaving(a, r) ==
  [Idle EXCEPT !.pc = "leaving", !.answer = r, !.pref = a.pref, !.at = a.at,
               !.lease = a.lease,
               !.youtube = a.youtube, !.exhausted = a.exhausted]

(* acquireYouTubeSession: blocks while every session that would do is      *)
(* leased.  An attempt that has its lease, or needs none, goes on.         *)
Lease(w) ==
  /\ attempt[w].pc = "lease"
  /\ LET a == attempt[w] IN
     \/ /\ a.lease # None \/ ~Configured
        /\ Set(w, [a EXCEPT !.pc = "start"])
     \/ /\ a.lease = None /\ Configured /\ ~paused
        /\ \E s \in Ready({}) : Set(w, [a EXCEPT !.pc = "start", !.lease = s])
     \/ /\ a.lease = None /\ Configured
        /\ paused \/ (Ready({}) = {} /\ ~Occupied({}))
        /\ Set(w, Leaving(a, "wait"))
  /\ UNCHANGED <<cooldown, paused, health, refs, budget>>

(* The direct path ended without a source: on to the provider loop. *)
Fallback(a) == [a EXCEPT !.pc = "next", !.asking = None]

(* AcquireExcluding, after the restricted session has been given back. *)
Alternate(w) ==
  /\ attempt[w].pc = "another"
  /\ LET a == attempt[w] IN
     \/ a.checked = Session /\ Set(w, Fallback(a))
     \/ a.checked # Session /\ paused /\ Set(w, Leaving(a, "wait"))
     \/ /\ a.checked # Session /\ ~paused
        /\ \E s \in Ready(a.checked) : Set(w, [a EXCEPT !.pc = "start", !.lease = s])
     \/ /\ a.checked # Session /\ ~paused
        /\ Ready(a.checked) = {} /\ ~Occupied(a.checked)
        /\ Set(w, Fallback(a))
  /\ UNCHANGED <<cooldown, paused, health, refs, budget>>

-----------------------------------------------------------------------------
(* One request.  The lease is the execution gate of its requests: a pause  *)
(* that began meanwhile refuses the start and charges nobody.              *)

Start(w) ==
  /\ attempt[w].pc = "start"
  /\ Set(w, IF attempt[w].lease # None /\ paused THEN Leaving(attempt[w], "wait")
            ELSE [attempt[w] EXCEPT !.pc = "asked"])
  /\ UNCHANGED <<cooldown, paused, health, refs, budget>>

(* An answer that stops the fan-out: handleSystemicFailure, and the return *)
(* with the failure that only a YouTube session has to answer for.         *)
Stopped(w, r) ==
  /\ r \in Stops /\ Spend("block")
  /\ Trigger(IF r \in OfFamily THEN {Family(attempt[w])} ELSE {})
  /\ Set(w, Leaving(attempt[w], r))
  /\ UNCHANGED refs

(* Mutant: the lease goes back before the download is announced. *)
MutResolved(w) ==
  /\ LET a == attempt[w]
         s == IF Family(a) = "youtube" THEN a.lease ELSE None
     IN Set(w, [Leaving(a, "source") EXCEPT !.from = s])
  /\ UNCHANGED <<refs, cooldown, budget>>

(* A source: a download with the session's cookies will follow. *)
Resolved(w) ==
  /\ LET a == attempt[w]
         s == IF Family(a) = "youtube" THEN a.lease ELSE None
     IN /\ Set(w, [Leaving(a, "source") EXCEPT !.from = s])
        /\ refs' = IF s = None THEN refs ELSE [refs EXCEPT ![s] = @ + 1]
  /\ UNCHANGED <<cooldown, budget>>

(* Mutant: the restricted session is kept while another one is awaited. *)
MutDirectAnswered(w) ==
  /\ attempt[w].at = 0
  /\ LET a == [attempt[w] EXCEPT !.tried = @ \cup {DirectId}] IN
     \/ \E r \in Stops : Stopped(w, r)
     \/ Resolved(w)
     \/ Set(w, Fallback(a)) /\ UNCHANGED <<cooldown, refs, budget>>
     \/ /\ a.lease # None /\ Cardinality(a.checked) + 1 < MaxSessions
        /\ Set(w, [a EXCEPT !.pc = "another", !.checked = @ \cup {a.lease}])
        /\ UNCHANGED <<cooldown, refs, budget>>

(* tryDirectID and the loop around it.  The probe and the resolution are   *)
(* one request (the second reuses the first's extraction).                 *)
DirectAnswered(w) ==
  /\ attempt[w].at = 0
  /\ LET a == [attempt[w] EXCEPT !.tried = @ \cup {DirectId}] IN
     \/ \E r \in Stops : Stopped(w, r)
     \/ Resolved(w)
     \/ (* a failure of this video *)
        Set(w, Fallback(a)) /\ UNCHANGED <<cooldown, refs, budget>>
     \/ (* something else than this video was found *)
        Set(w, Fallback(attempt[w])) /\ UNCHANGED <<cooldown, refs, budget>>
     \/ (* this account may not see it; the session is given back first *)
        /\ a.lease # None /\ Cardinality(a.checked) + 1 < MaxSessions
        /\ Set(w, [a EXCEPT !.pc = "another", !.checked = @ \cup {a.lease}, !.lease = None])
        /\ UNCHANGED <<cooldown, refs, budget>>

Exhausted(a) == [a EXCEPT !.pc = "next", !.exhausted = @ \cup {At(a)}]

SearchAnswered(w) ==
  /\ attempt[w].at > 0 /\ attempt[w].asking = None
  /\ LET a == attempt[w] IN
     \/ \E r \in Stops : Stopped(w, r)
     \/ (* failed, nothing found, or nothing acceptable *)
        Set(w, Exhausted(a)) /\ UNCHANGED <<cooldown, refs, budget>>
     \/ \E list \in Ranked[Family(a)] :
          Set(w, [a EXCEPT !.pc = "rank", !.list = list]) /\ UNCHANGED <<cooldown, refs, budget>>

ResolveAnswered(w) ==
  /\ attempt[w].at > 0 /\ attempt[w].asking # None
  /\ LET a == attempt[w] IN
     \/ \E r \in Stops : Stopped(w, r)
     \/ Resolved(w)
     \/ /\ Set(w, [a EXCEPT !.pc = "rank", !.asking = None, !.tried = @ \cup {a.asking}])
        /\ UNCHANGED <<cooldown, refs, budget>>

Answered(w) ==
  /\ attempt[w].pc = "asked"
  /\ DirectAnswered(w) \/ SearchAnswered(w) \/ ResolveAnswered(w)
  /\ UNCHANGED <<paused, health>>

-----------------------------------------------------------------------------
(* The loops over providers and candidates.                                *)

LastYouTube(pref) ==
  CHOOSE i \in 1..Len(Registry) :
    /\ FamilyOf(Chain(pref)[i]) = "youtube"
    /\ \A j \in i + 1..Len(Registry) : FamilyOf(Chain(pref)[j]) # "youtube"

(* The YouTube phase is over: another family must not keep its session. *)
PastYouTube(a) == IF a.at > LastYouTube(a.pref) THEN [a EXCEPT !.lease = None] ELSE a

(* Mutant: a deferred provider counts as one that has nothing. *)
MutFinalAnswer(a) ==
  IF a.youtube # "eligible" /\ FamilyOf(a.pref) = "youtube"
  THEN IF a.youtube = "unusable" THEN "no_session" ELSE "wait"
  ELSE "gone"

(* What remains to be said when no provider is left. *)
FinalAnswer(a) ==
  IF a.youtube # "eligible" /\ FamilyOf(a.pref) = "youtube"
  THEN IF a.youtube = "unusable" THEN "no_session" ELSE "wait"
  ELSE IF a.deferred THEN "wait" ELSE "gone"

(* The guard against substitution; Refusal has already answered these.     *)
Substitute(a) ==
  a.youtube # "eligible" /\ a.origin = "subscription" /\ FamilyOf(a.pref) = "youtube"

(* Mutant: a cooldown that began meanwhile defers YouTube like any other. *)
MutNextProvider(w) ==
  /\ attempt[w].pc = "next"
  /\ IF attempt[w].at = Len(Registry)
     THEN Set(w, Leaving(attempt[w], FinalAnswer(attempt[w])))
     ELSE LET a == PastYouTube([attempt[w] EXCEPT !.at = @ + 1])
          IN Set(w,
               IF \/ Family(a) = "youtube" /\ a.youtube # "eligible"
                  \/ cooldown[Family(a)] \/ (Family(a) = "soundcloud" /\ ~a.soundcloud)
               THEN [a EXCEPT !.deferred = TRUE]
               ELSE [a EXCEPT !.pc = IF Family(a) = "youtube" THEN "lease" ELSE "start"])
  /\ UNCHANGED <<cooldown, paused, health, refs, budget>>

NextProvider(w) ==
  /\ attempt[w].pc = "next"
  /\ IF attempt[w].at = Len(Registry)
     THEN Set(w, Leaving(attempt[w], FinalAnswer(attempt[w])))
     ELSE LET a == PastYouTube([attempt[w] EXCEPT !.at = @ + 1])
          IN Set(w,
               IF Family(a) = "youtube"
               THEN IF a.youtube # "eligible" THEN [a EXCEPT !.deferred = @ \/ a.youtube = "cooling"]
                    ELSE IF cooldown["youtube"] THEN Leaving(a, "wait")
                    ELSE [a EXCEPT !.pc = "lease"]
               ELSE IF ~a.soundcloud THEN [a EXCEPT !.deferred = TRUE]
                    ELSE IF Substitute(a) THEN a
                    ELSE IF cooldown["soundcloud"] THEN [a EXCEPT !.deferred = TRUE]
                    ELSE [a EXCEPT !.pc = "start"])
  /\ UNCHANGED <<cooldown, paused, health, refs, budget>>

NextCandidate(w) ==
  /\ attempt[w].pc = "rank"
  /\ LET a == attempt[w]
         cooling == cooldown[Family(a)]
     IN Set(w,
          IF a.list = <<>> THEN Exhausted(a)
          ELSE IF Head(a.list) \in a.tried THEN [a EXCEPT !.list = Tail(@)]
          ELSE IF cooling /\ Family(a) = "youtube" THEN Leaving(a, "wait")
          ELSE IF cooling THEN [a EXCEPT !.pc = "next", !.list = <<>>, !.deferred = TRUE]
          ELSE [a EXCEPT !.pc = "start", !.list = Tail(@), !.asking = Head(a.list)])
  /\ UNCHANGED <<cooldown, paused, health, refs, budget>>

(* The job is cancelled: seen where the attempt waits or looks. *)
Cancel(w) ==
  /\ attempt[w].pc \in {"lease", "another", "next", "rank"}
  /\ Spend("fault")
  /\ Set(w, Leaving(attempt[w], "cancelled"))
  /\ UNCHANGED <<cooldown, paused, health, refs>>

-----------------------------------------------------------------------------
(* The way out, and the worker after it.                                   *)

(* The deferred release.  Only a failure of its own request is charged. *)
Leave(w) ==
  /\ attempt[w].pc = "leaving"
  /\ LET a == attempt[w]
     IN /\ Set(w, [a EXCEPT !.pc = "answered", !.lease = None,
                              !.youtube = "eligible", !.exhausted = {}])
        /\ Attribute(a.lease, IF a.answer \in Stops THEN a.answer ELSE "neutral")
  /\ UNCHANGED <<cooldown, refs, budget>>

(* The worker: on to the download, or the item's failure is stored. *)
Return(w) ==
  /\ attempt[w].pc = "answered"
  /\ LET a == attempt[w] IN
     \/ /\ a.answer = "source" /\ Set(w, [a EXCEPT !.pc = "download"])
        /\ UNCHANGED <<cooldown, budget>>
     \/ /\ a.answer = "source" /\ Spend("fault")    \* updateItem fails
        /\ Set(w, Idle) /\ UNCHANGED cooldown
     \/ /\ a.answer # "source" /\ Set(w, Idle)
        /\ Trigger(IF a.answer = "rate_limited" THEN {FamilyOf(a.pref)} ELSE {})
        /\ UNCHANGED budget
  /\ UNCHANGED <<paused, health, refs>>

(* The download ends: RecordDownloadOutcome and the worker's own trigger. *)
DownloadEnds(w, r) ==
  /\ attempt[w].pc = "download"
  /\ LET s == attempt[w].from IN
     /\ Attribute(s, r)
     /\ refs' = IF s # None /\ refs[s] > 0 THEN [refs EXCEPT ![s] = @ - 1] ELSE refs
     /\ Trigger((IF s # None /\ r \in OfFamily THEN {"youtube"} ELSE {})
                \cup (IF r = "rate_limited" THEN {Family(attempt[w])} ELSE {}))
  /\ Set(w, Idle)
  /\ IF r \in Stops THEN Spend("block") ELSE UNCHANGED budget

-----------------------------------------------------------------------------
(* Time.                                                                   *)

CooldownEnds(f) ==
  /\ cooldown[f] /\ cooldown' = [cooldown EXCEPT ![f] = FALSE]
  /\ UNCHANGED <<attempt, paused, health, refs, budget>>

PauseEnds ==
  /\ paused /\ paused' = FALSE
  /\ UNCHANGED <<attempt, cooldown, health, refs, budget>>

SessionRecovers(s) ==
  /\ health[s] = "cooling" /\ health' = [health EXCEPT ![s] = "ok"]
  /\ UNCHANGED <<attempt, cooldown, paused, refs, budget>>

Step(w) ==
  \/ Lease(w) \/ Alternate(w) \/ Start(w) \/ Answered(w)
  \/ NextProvider(w) \/ NextCandidate(w) \/ Leave(w) \/ Return(w)
  \/ \E r \in Stops \cup {"success", "item"} : DownloadEnds(w, r)

Next ==
  \/ \E w \in Worker : Step(w) \/ Cancel(w)
  \/ \E w \in Worker, o \in Origins, p \in Preferred, d \in BOOLEAN : Begin(w, o, p, d)
  \/ \E f \in Families : CooldownEnds(f)
  \/ \E s \in Session : SessionRecovers(s)
  \/ PauseEnds

Spec == Init /\ [][Next]_vars

-----------------------------------------------------------------------------
(* Properties.                                                             *)

AttemptShape == [
  pc : {"idle", "lease", "another", "start", "asked", "next", "rank", "leaving",
        "answered", "download"},
  origin : Origins, pref : ToSet(Registry), youtube : {"eligible", "cooling", "unusable"},
  soundcloud : BOOLEAN, direct : BOOLEAN, at : 0..Len(Registry),
  lease : Session \cup {None}, checked : SUBSET Session, tried : SUBSET STRING,
  list : Seq(STRING), asking : STRING \cup {None}, deferred : BOOLEAN, answer : Answers,
  from : Session \cup {None}, exhausted : SUBSET ToSet(Registry)]

(* The shape of every variable. *)
TypeOK ==
  /\ attempt \in [Worker -> AttemptShape]
  /\ cooldown \in [Families -> BOOLEAN]
  /\ paused \in BOOLEAN
  /\ health \in [Session -> {"none", "ok", "cooling", "auth_failed"}]
  /\ refs \in [Session -> Nat]
  /\ budget \in [{"attempt", "block", "fault"} -> Nat]

Asks(w) == attempt[w].pc \in {"start", "asked"}

(* Background work never replaces YouTube by SoundCloud because YouTube is *)
(* paused: it asks SoundCloud only after every provider of the preferred   *)
(* family has answered in this attempt (orchestrator.go, planAttempt,      *)
(* ResolveMedia and youTubePaused).                                        *)
NoSilentSubstitute ==
  \A w \in Worker :
    LET a == attempt[w] IN
    /\ Asks(w) /\ a.origin = "subscription"
    /\ FamilyOf(a.pref) = "youtube" /\ Family(a) = "soundcloud"
    => {"ytmusic", "youtube"} \subseteq a.exhausted

(* An item is given up as not found only after every provider of the chain *)
(* has failed in this attempt, but for YouTube without a usable session: a *)
(* provider left out or abandoned because it cools down makes it wait      *)
(* (ResolveMedia, recordDeferred and the final answers).                   *)
SkippedMeansWait ==
  \A w \in Worker :
    LET a == attempt[w] IN
    a.pc = "leaving" /\ a.answer = "gone" =>
      \A p \in ToSet(Registry) :
        p \in a.exhausted \/ (FamilyOf(p) = "youtube" /\ a.youtube = "unusable")

(* The pool knows of every use of a session's cookies, so that it cannot   *)
(* be deleted meanwhile: the lease ends after the reference of the         *)
(* download is taken (RetainDataPlane, RecordDownloadOutcome, IsInUse).    *)
DownloadsProtected ==
  \A s \in Session :
    Cardinality({w \in Worker : attempt[w].from = s}) <= refs[s]

(* Whoever waits for a session waits for an attempt that goes on: items    *)
(* whose video is restricted give their session back before they wait for  *)
(* another one, and never wait for each other (ResolveMedia, direct path). *)
Waits(x) == Configured /\ ~paused /\ Ready(x) = {} /\ Occupied(x)
Blocked(w) ==
  \/ attempt[w].pc = "lease" /\ attempt[w].lease = None /\ Waits({})
  \/ attempt[w].pc = "another" /\ attempt[w].checked # Session /\ Waits(attempt[w].checked)
NoMutualWait ==
  \A w \in Worker : Blocked(w) => \E v \in Worker : attempt[v].lease # None /\ ~Blocked(v)
=============================================================================
