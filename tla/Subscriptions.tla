--------------------------- MODULE Subscriptions ---------------------------
(***************************************************************************)
(* The watched artists (backend/internal/subscriptions): a scheduler and   *)
(* requests run the same sync, which reads the catalogue of the artist     *)
(* from a provider, compares it with the library, hands the missing        *)
(* releases to the download queue and writes back when it is due again.    *)
(* Flags, deletions, other syncs and jobs move on while a sync works with  *)
(* what it read.                                                           *)
(***************************************************************************)
EXTENDS Naturals, FiniteSets, Sequences, SequencesExt

CONSTANTS
  Sub,          \* ids of subscriptions, each used once
  Release,
  ArtistOf,     \* the artist a subscription is for
  ReleasesBy,   \* the releases an artist will ever have; two may share one
  MaxSyncs,     \* MaxConcurrentSyncs
  Batch,        \* subscriptions of one tick
  Budget        \* bound: calls of users, failing calls, and stops and crashes

VARIABLES
  row,          \* artist_subscriptions
  due,          \* the rows whose next_sync_at has passed, oldest first
  sync,         \* the sync of a subscription; one at work is its guard
  scheduler,    \* what the tick has listed, and the sync it waits for
  request,      \* a StartSync that has read its row and not taken the guard
  enqueue,      \* the holder of Manager.enqueueTargetMu
  jobs,         \* the unfinished jobs that syncs made for a release
  others,       \* the releases with an unfinished job of a user
  published, stored,  \* the releases the provider has, and the library has
  accepting,    \* cleared when the shutdown begins; a call may then find the
                \* context ended, or be ahead of that
  budget

vars == <<row, due, sync, scheduler, request, enqueue, jobs, others, published,
          stored, accepting, budget>>

None    == "none"

ASSUME SubscriptionsAssumption ==
  /\ None \notin Sub \cup Release
  /\ MaxSyncs \in Nat \ {0} /\ Batch \in Nat \ {0}
  /\ Budget \in [{"user", "fault", "stop"} -> Nat]

New     == [in |-> FALSE, used |-> FALSE, enabled |-> FALSE, auto |-> FALSE, next |-> "due"]
Resting == [pc |-> "rest", by |-> None, auto |-> FALSE, delivered |-> {},
            todo |-> {}, at |-> None, covered |-> {}, lost |-> FALSE]
NoRequest == [on |-> None, auto |-> FALSE]
AtRest    == [todo |-> <<>>, on |-> None]

Running == {s \in Sub : sync[s].pc \notin {"rest", "admission"}}
Artist(s) == ReleasesBy[ArtistOf[s]]
Spend(what) == budget[what] > 0 /\ budget' = [budget EXCEPT ![what] = @ - 1]

Work    == <<sync, scheduler, request, enqueue>>
Queue   == <<jobs, others>>
World   == <<published, stored, accepting>>

-----------------------------------------------------------------------------
(* What users do. *)

\* an artist that is watched keeps its row, a deleted one gets a new id
Create(s) ==
  /\ ~row[s].used
  /\ \A t \in Sub : row[t].in => ArtistOf[t] # ArtistOf[s]
  /\ \E auto \in BOOLEAN :
       row' = [row EXCEPT ![s] = [in |-> TRUE, used |-> TRUE, enabled |-> TRUE,
                                  auto |-> auto, next |-> "due"]]
  /\ due' = Append(due, s)
  /\ UNCHANGED <<Work, Queue, World, budget>>

\* Update, and what ApplyImport does to a row that exists
Update(s) ==
  /\ Spend("user") /\ row[s].in
  /\ \E enabled, auto \in BOOLEAN :
       /\ <<enabled, auto>> # <<row[s].enabled, row[s].auto>>
       /\ row' = [row EXCEPT ![s].enabled = enabled, ![s].auto = auto]
  /\ UNCHANGED <<due, Work, Queue, World>>

Delete(s) ==
  /\ Spend("user") /\ row[s].in
  /\ row' = [row EXCEPT ![s] = [New EXCEPT !.used = TRUE]]
  /\ due' = Remove(due, s)
  /\ UNCHANGED <<Work, Queue, World>>

\* the first half of claim: accepting, and the row as it is now
StartSync(s) ==
  /\ Spend("user") /\ accepting /\ row[s].in /\ request = NoRequest
  /\ request' = [on |-> s, auto |-> row[s].auto]
  /\ UNCHANGED <<row, due, sync, scheduler, enqueue, Queue, World>>

Claim(s, by, auto) ==
  sync' = [sync EXCEPT ![s] = [Resting EXCEPT !.pc = "admission", !.by = by, !.auto = auto]]

StartSyncClaim ==
  LET s == request.on IN
  /\ request # NoRequest /\ request' = NoRequest
  /\ IF sync[s].pc = "rest" THEN Claim(s, "request", request.auto) ELSE UNCHANGED sync
  /\ UNCHANGED <<row, due, scheduler, enqueue, Queue, World, budget>>

-----------------------------------------------------------------------------
(* The scheduler: list what is due, then sync one after the other. *)

TimePasses(s) ==
  /\ row[s].in /\ row[s].next # "due"
  /\ row' = [row EXCEPT ![s].next = "due"]
  /\ due' = Append(due, s)
  /\ UNCHANGED <<Work, Queue, World, budget>>

AtMost(list, n) == SubSeq(list, 1, IF Len(list) < n THEN Len(list) ELSE n)

(* Mutant: the limit is applied before the filter. *)
MutDueForSync == SelectSeq(AtMost(due, Batch), LAMBDA s : row[s].enabled)

DueForSync == AtMost(SelectSeq(due, LAMBDA s : row[s].enabled), Batch)

Tick ==
  /\ accepting /\ scheduler = AtRest /\ DueForSync # <<>>
  /\ scheduler' = [AtRest EXCEPT !.todo = DueForSync]
  /\ UNCHANGED <<row, due, sync, request, enqueue, Queue, World, budget>>

\* Sync takes the row as it is now, unless it is gone or being synced
TickNext ==
  /\ scheduler.on = None /\ scheduler.todo # <<>>
  /\ LET s == Head(scheduler.todo) IN
     IF accepting /\ row[s].in /\ sync[s].pc = "rest"
       THEN /\ Claim(s, "scheduler", row[s].auto)
            /\ scheduler' = [todo |-> Tail(scheduler.todo), on |-> s]
       ELSE /\ scheduler' = [scheduler EXCEPT !.todo = IF accepting THEN Tail(@) ELSE <<>>]
            /\ UNCHANGED sync
  /\ UNCHANGED <<row, due, request, enqueue, Queue, World, budget>>

-----------------------------------------------------------------------------
(* One sync. *)

Rest(s) == /\ sync' = [sync EXCEPT ![s] = Resting]
           /\ scheduler' = IF sync[s].by = "scheduler" THEN [scheduler EXCEPT !.on = None]
                           ELSE scheduler

\* RecordSync, on a context of its own; a deleted row is not found
Written(s, next) == /\ row[s].in
                    /\ row' = [row EXCEPT ![s].next = next] /\ due' = Remove(due, s)
NotWritten(s)    == UNCHANGED <<row, due>>

RecordSync(s, next) ==
  /\ Rest(s)
  /\ \/ Written(s, next) /\ UNCHANGED budget
     \/ ~row[s].in /\ NotWritten(s) /\ UNCHANGED budget
     \/ row[s].in /\ NotWritten(s) /\ Spend("fault")
  /\ UNCHANGED <<request, enqueue, Queue, World>>

\* recordFailure: the context has ended, or a call of the run has failed
RecordFailure(s) ==
  \/ ~accepting /\ RecordSync(s, "soon")
  \/ /\ accepting /\ Spend("fault") /\ Rest(s)
     /\ Written(s, "soon") \/ NotWritten(s)
     /\ UNCHANGED <<request, enqueue, Queue, World>>

\* the context may have ended, and the slot be free: Go takes either
Admission(s) ==
  /\ sync[s].pc = "admission"
  /\ \/ /\ Cardinality(Running) < MaxSyncs
        /\ sync' = [sync EXCEPT ![s].pc = "resolve"] /\ UNCHANGED scheduler
     \/ ~accepting /\ Rest(s)
  /\ UNCHANGED <<row, due, request, enqueue, Queue, World, budget>>

(* Mutant: what the provider did not deliver this time is not counted. *)
MutResolved(s, seen, lost) ==
  sync' = [sync EXCEPT ![s].pc = "classify", ![s].delivered = published \cap Artist(s),
                       ![s].todo = seen, ![s].lost = FALSE]

Resolved(s, seen, lost) ==
  sync' = [sync EXCEPT ![s].pc = "classify", ![s].delivered = published \cap Artist(s),
                       ![s].todo = seen, ![s].lost = lost]

\* the whole catalogue, part of it with transient warnings, or an error
Resolve(s) ==
  /\ sync[s].pc = "resolve"
  /\ \/ /\ Resolved(s, published \cap Artist(s), FALSE)
        /\ UNCHANGED <<row, due, scheduler, request, enqueue, Queue, World, budget>>
     \/ /\ Spend("fault")
        /\ \E seen \in SUBSET (published \cap Artist(s)) : Resolved(s, seen, TRUE)
        /\ UNCHANGED <<row, due, scheduler, request, enqueue, Queue, World>>
     \/ RecordFailure(s)

\* the missing recordings, if the subscription downloads by itself
Classify(s) ==
  /\ sync[s].pc = "classify"
  /\ \/ /\ sync' = [sync EXCEPT ![s].pc = "queue",
                      ![s].todo    = IF sync[s].auto THEN @ \ stored ELSE {},
                      ![s].covered = sync[s].todo \cap stored]
        /\ UNCHANGED <<row, due, scheduler, request, enqueue, Queue, World, budget>>
     \/ RecordFailure(s)

NotQueued(s, r) == sync' = [sync EXCEPT ![s].pc = "queue", ![s].todo = @ \ {r}, ![s].lost = TRUE]
Covered(s, r)   == sync' = [sync EXCEPT ![s].pc = "queue", ![s].todo = @ \ {r},
                                        ![s].covered = @ \cup {r}]

(* Mutant: the mutex is not held from the check to the creation. *)
MutHold(s) == UNCHANGED enqueue

Hold(s) == enqueue' = s

Unfinished(r) == jobs[r] > 0 \/ r \in others

\* EnqueueReleaseWithPriority: the check, then the creation, under one mutex
EnqueueCheck(s, r) ==
  /\ sync[s].pc = "queue" /\ r \in sync[s].todo /\ enqueue = None
  /\ \/ Unfinished(r) /\ Covered(s, r) /\ UNCHANGED <<enqueue, budget>>
     \/ /\ ~Unfinished(r) /\ Hold(s)
        /\ sync' = [sync EXCEPT ![s].pc = "create", ![s].at = r] /\ UNCHANGED budget
     \/ ~accepting /\ NotQueued(s, r) /\ UNCHANGED <<enqueue, budget>>
     \/ accepting /\ Spend("fault") /\ NotQueued(s, r) /\ UNCHANGED enqueue
  /\ UNCHANGED <<row, due, scheduler, request, Queue, World>>

EnqueueCreate(s) ==
  LET r == sync[s].at IN
  /\ sync[s].pc = "create" /\ enqueue' = None
  /\ \/ jobs' = [jobs EXCEPT ![r] = @ + 1] /\ Covered(s, r) /\ UNCHANGED budget
     \/ ~accepting /\ NotQueued(s, r) /\ UNCHANGED <<jobs, budget>>
     \/ accepting /\ Spend("fault") /\ NotQueued(s, r) /\ UNCHANGED jobs
  /\ UNCHANGED <<row, due, scheduler, request, others, World>>

Complete(s) ==
  /\ sync[s].pc = "queue" /\ sync[s].todo = {}
  /\ RecordSync(s, IF sync[s].lost THEN "soon" ELSE "late")

-----------------------------------------------------------------------------
(* Jobs, the provider, and the process. *)

EnqueueByUser(r) ==
  /\ Spend("user") /\ r \in published \ others
  /\ others' = others \cup {r}
  /\ UNCHANGED <<row, due, Work, jobs, World>>

\* a job ends with the release in the library, or without
FinishJob(r) ==
  /\ Unfinished(r)
  /\ \/ jobs[r] > 0 /\ jobs' = [jobs EXCEPT ![r] = @ - 1] /\ UNCHANGED others
     \/ others' = others \ {r} /\ UNCHANGED jobs
  /\ \/ stored' = stored \cup {r} /\ UNCHANGED budget
     \/ Spend("fault") /\ UNCHANGED stored
  /\ UNCHANGED <<row, due, Work, published, accepting>>

Publish(r) ==
  /\ r \notin published /\ published' = published \cup {r}
  /\ UNCHANGED <<row, due, Work, Queue, stored, accepting, budget>>

BeginShutdown ==
  /\ Spend("stop") /\ accepting /\ accepting' = FALSE
  /\ UNCHANGED <<row, due, Work, Queue, published, stored>>

Forget == sync' = [s \in Sub |-> Resting]

\* the process ends, by a crash or after a shutdown, and starts again
Restart ==
  /\ IF accepting THEN Spend("stop") ELSE UNCHANGED budget
  /\ accepting' = TRUE
  /\ Forget
  /\ scheduler' = AtRest /\ request' = NoRequest /\ enqueue' = None
  /\ UNCHANGED <<row, due, Queue, published, stored>>

-----------------------------------------------------------------------------

Init ==
  /\ row = [s \in Sub |-> New] /\ due = <<>>
  /\ sync = [s \in Sub |-> Resting]
  /\ scheduler = AtRest /\ request = NoRequest /\ enqueue = None
  /\ jobs = [r \in Release |-> 0] /\ others = {}
  /\ published = {} /\ stored = {}
  /\ accepting = TRUE
  /\ budget = Budget

Step(s) == \/ Admission(s) \/ Resolve(s) \/ Classify(s) \/ EnqueueCreate(s) \/ Complete(s)
           \/ \E r \in Release : EnqueueCheck(s, r)

Next == \/ \E s \in Sub : Create(s) \/ Update(s) \/ Delete(s) \/ StartSync(s)
                          \/ TimePasses(s) \/ Step(s)
        \/ StartSyncClaim \/ Tick \/ TickNext
        \/ \E r \in Release : EnqueueByUser(r) \/ FinishJob(r) \/ Publish(r)
        \/ BeginShutdown \/ Restart

(* The ticker fires, a sync goes on (each run has its timeout, the slot    *)
(* and the mutex are given in turn), time passes, and jobs end.            *)
Fairness == /\ WF_vars(Tick) /\ WF_vars(TickNext) /\ WF_vars(StartSyncClaim)
            /\ \A s \in Sub : SF_vars(Step(s)) /\ WF_vars(TimePasses(s))
            /\ WF_vars(~accepting /\ Restart)

Spec == Init /\ [][Next]_vars /\ Fairness

-----------------------------------------------------------------------------
(* Properties *)

RowShape  == [in : BOOLEAN, used : BOOLEAN, enabled : BOOLEAN, auto : BOOLEAN,
              next : {"due", "soon", "late"}]
SyncShape == [pc : {"rest", "admission", "resolve", "classify", "queue", "create"},
              by : {None, "scheduler", "request"}, auto : BOOLEAN, delivered : SUBSET Release,
              todo : SUBSET Release, at : Release \cup {None}, covered : SUBSET Release,
              lost : BOOLEAN]

(* What the work is made of keeps its shape. *)
WorkOK ==
  /\ row \in [Sub -> RowShape]
  /\ sync \in [Sub -> SyncShape]
  /\ request \in [on : Sub \cup {None}, auto : BOOLEAN]
  /\ enqueue \in Sub \cup {None}
  /\ jobs \in [Release -> Nat]
  /\ others \subseteq Release /\ published \subseteq Release /\ stored \subseteq Release
  /\ accepting \in BOOLEAN

(* Every variable keeps its shape; what is due is listed once.             *)
TypeOK == WorkOK /\ IsInjective(due) /\ scheduler.on \in Sub \cup {None}

(* Only the holder of the mutex is about to create a job, and there is     *)
(* none yet for that release.                                              *)
HolderCreates ==
  \A s \in Sub : sync[s].pc = "create" =>
    enqueue = s /\ sync[s].at \in Release /\ jobs[sync[s].at] = 0

(* Syncs never have two unfinished jobs on one release, although two       *)
(* artists may share it and a partial run comes back early (queue.go:24,   *)
(* Manager.EnqueueReleaseWithPriority).                                    *)
OneJobPerRelease == \A r \in Release : jobs[r] <= 1

(* A sync that puts its subscription off for the whole interval has seen   *)
(* everything the artist had: each release was in the library, or queued.  *)
(* What a provider or the queue refused brings the run back early.         *)
LateMeansCovered ==
  [][\A s \in Sub : (sync[s].auto /\ row[s].next # "late" /\ row'[s].next = "late")
       => sync[s].delivered \subseteq sync[s].covered]_vars

(* A release of an artist that is watched with automatic download is in    *)
(* the library or under way again and again, whatever failed before:       *)
(* no deletion, shutdown or crash leaves a subscription busy or forgotten. *)
Watched(s) == row[s].in /\ row[s].enabled /\ row[s].auto
ReleasesFetched ==
  \A s \in Sub : \A r \in Artist(s) :
    <>[](Watched(s) /\ r \in published) => []<>(r \in stored \/ Unfinished(r))
=============================================================================
