------------------------- MODULE SubscriptionsProofs -------------------------
(***************************************************************************)
(* For every set of subscriptions and releases, every limit and every      *)
(* sharing of releases among artists: syncs never give the queue a release *)
(* that already has an unfinished job of a sync, and none is put off for   *)
(* the whole interval with a release neither covered nor lost.             *)
(***************************************************************************)
EXTENDS Subscriptions, TLAPS

IInv == WorkOK /\ HolderCreates /\ OneJobPerRelease

(* A step that touches at most the sync of s, and leaves it short of       *)
(* creating a job; s may be an id that is no longer a subscription.        *)
Moves(s) ==
  \E x \in SyncShape : x.pc # "create" /\ sync' = [sync EXCEPT ![s] = x]

LocalStep(s) ==
  /\ Moves(s)
  /\ row' \in [Sub -> RowShape]
  /\ request' \in [on : Sub \cup {None}, auto : BOOLEAN]
  /\ UNCHANGED <<enqueue, Queue, World>>

(* A step beside the syncs, which creates no job of a sync.                *)
Beside ==
  /\ UNCHANGED <<sync, enqueue>>
  /\ \A r \in Release : jobs'[r] <= jobs[r]

-----------------------------------------------------------------------------
(* Shapes. *)

LEMMA RestingShape == Resting \in SyncShape /\ Resting.pc # "create"
  BY DEF Resting, SyncShape

LEMMA RestMoves ==
  ASSUME NEW s, Rest(s)
  PROVE  Moves(s)
  BY RestingShape DEF Rest, Moves

LEMMA WrittenType ==
  ASSUME WorkOK, NEW s \in Sub, NEW next \in {"soon", "late"},
         Written(s, next) \/ NotWritten(s)
  PROVE  row' \in [Sub -> RowShape]
  BY DEF WorkOK, Written, NotWritten, RowShape

LEMMA RecordLocal ==
  ASSUME WorkOK, NEW s \in Sub, NEW next \in {"soon", "late"}, RecordSync(s, next)
  PROVE  LocalStep(s)
<1>1. Moves(s)
  BY RestMoves DEF RecordSync
<1>2. row' \in [Sub -> RowShape]
  BY WrittenType DEF RecordSync
<1> QED BY <1>1, <1>2 DEF RecordSync, LocalStep, WorkOK

LEMMA FailureLocal ==
  ASSUME WorkOK, NEW s \in Sub, RecordFailure(s)
  PROVE  LocalStep(s)
<1>1. CASE RecordSync(s, "soon")
  BY <1>1, RecordLocal
<1>2. CASE /\ Rest(s) /\ (Written(s, "soon") \/ NotWritten(s))
           /\ UNCHANGED <<request, enqueue, Queue, World>>
  BY <1>2, RestMoves, WrittenType DEF LocalStep, WorkOK
<1> QED BY <1>1, <1>2 DEF RecordFailure

(* The sync of s with some fields changed is a sync again.                 *)
LEMMA SyncFields ==
  ASSUME WorkOK, NEW s \in Sub
  PROVE  /\ sync[s] \in SyncShape
         /\ \A x \in SyncShape : x.pc # "create" /\ sync' = [sync EXCEPT ![s] = x] => Moves(s)
  BY DEF WorkOK, Moves

LEMMA QueueMoves ==
  ASSUME WorkOK, NEW s \in Sub, NEW r \in Release, NotQueued(s, r) \/ Covered(s, r)
  PROVE  Moves(s)
<1>1. CASE NotQueued(s, r)
  <2> DEFINE x == [sync[s] EXCEPT !.pc = "queue", !.todo = @ \ {r}, !.lost = TRUE]
  <2>1. x \in SyncShape /\ x.pc # "create"
    BY SyncFields DEF SyncShape
  <2>2. sync' = [sync EXCEPT ![s] = x]
    BY <1>1 DEF NotQueued, WorkOK
  <2> QED BY <2>1, <2>2, SyncFields
<1>2. CASE Covered(s, r)
  <2> DEFINE x == [sync[s] EXCEPT !.pc = "queue", !.todo = @ \ {r}, !.covered = @ \cup {r}]
  <2>1. x \in SyncShape /\ x.pc # "create"
    BY SyncFields DEF SyncShape
  <2>2. sync' = [sync EXCEPT ![s] = x]
    BY <1>2 DEF Covered, WorkOK
  <2> QED BY <2>1, <2>2, SyncFields
<1> QED BY <1>1, <1>2

-----------------------------------------------------------------------------
(* What both kinds of steps preserve. *)

LEMMA LocalKeeps ==
  ASSUME IInv, NEW s, LocalStep(s)
  PROVE  IInv'
<1>1. PICK x \in SyncShape : x.pc # "create" /\ sync' = [sync EXCEPT ![s] = x]
  BY DEF LocalStep, Moves
<1>2. WorkOK'
  BY <1>1 DEF IInv, WorkOK, LocalStep, Queue, World
<1>3. \A k \in Sub : sync'[k] = sync[k] \/ sync'[k].pc # "create"
  BY <1>1 DEF IInv, WorkOK
<1>4. HolderCreates'
  BY <1>3 DEF IInv, HolderCreates, LocalStep, Queue
<1>5. OneJobPerRelease'
  BY DEF IInv, OneJobPerRelease, LocalStep, Queue
<1> QED BY <1>2, <1>4, <1>5 DEF IInv

LEMMA BesideKeeps ==
  ASSUME IInv, WorkOK', Beside
  PROVE  IInv'
<1>1. HolderCreates'
  <2> SUFFICES ASSUME NEW s \in Sub, sync'[s].pc = "create"
               PROVE  enqueue' = s /\ sync'[s].at \in Release /\ jobs'[sync'[s].at] = 0
    BY DEF HolderCreates
  <2>1. enqueue' = s /\ sync'[s].at \in Release /\ jobs[sync'[s].at] = 0
    BY DEF IInv, HolderCreates, Beside
  <2>2. jobs'[sync'[s].at] \in Nat /\ jobs'[sync'[s].at] <= 0
    BY <2>1 DEF Beside, WorkOK
  <2> QED BY <2>1, <2>2
<1>2. OneJobPerRelease'
  <2> SUFFICES ASSUME NEW r \in Release PROVE jobs'[r] <= 1
    BY DEF OneJobPerRelease
  <2>1. jobs[r] \in Nat /\ jobs'[r] \in Nat /\ jobs[r] <= 1 /\ jobs'[r] <= jobs[r]
    BY DEF IInv, WorkOK, OneJobPerRelease, Beside
  <2> QED BY <2>1
<1> QED BY <1>1, <1>2 DEF IInv

(* A step that leaves the jobs of syncs alone creates none.                *)
LEMMA SameJobs ==
  ASSUME WorkOK, UNCHANGED <<sync, enqueue, jobs>>
  PROVE  Beside
<1>1. \A r \in Release : jobs[r] \in Nat
  BY DEF WorkOK
<1> QED BY <1>1 DEF Beside

-----------------------------------------------------------------------------
(* The steps of a sync. *)

LEMMA ClaimMoves ==
  ASSUME NEW s, NEW by \in {"scheduler", "request"}, NEW auto \in BOOLEAN, Claim(s, by, auto)
  PROVE  Moves(s)
<1> DEFINE x == [Resting EXCEPT !.pc = "admission", !.by = by, !.auto = auto]
<1>1. x \in SyncShape /\ x.pc # "create"
  BY DEF Resting, SyncShape
<1>2. sync' = [sync EXCEPT ![s] = x]
  BY DEF Claim
<1> QED BY <1>1, <1>2 DEF Moves

(* The id a tick has listed need not be a subscription: then nothing moves. *)
LEMMA ElsewhereMoves ==
  ASSUME WorkOK, UNCHANGED sync, NEW s, s \notin Sub
  PROVE  Moves(s)
<1>1. sync' = [sync EXCEPT ![s] = Resting]
  BY DEF WorkOK
<1> QED BY <1>1, RestingShape DEF Moves

LEMMA AdmissionStep ==
  ASSUME IInv, NEW s \in Sub, Admission(s)
  PROVE  IInv'
<1>1. WorkOK
  BY DEF IInv
<1>2. Moves(s)
  <2>1. CASE sync' = [sync EXCEPT ![s].pc = "resolve"]
    <3> DEFINE x == [sync[s] EXCEPT !.pc = "resolve"]
    <3>1. x \in SyncShape /\ x.pc # "create"
      BY <1>1, SyncFields DEF SyncShape
    <3>2. sync' = [sync EXCEPT ![s] = x]
      BY <2>1, <1>1 DEF WorkOK
    <3> QED BY <3>1, <3>2, <1>1, SyncFields
  <2>2. CASE Rest(s)
    BY <2>2, RestMoves
  <2> QED BY <2>1, <2>2 DEF Admission
<1>3. LocalStep(s)
  BY <1>1, <1>2 DEF Admission, LocalStep, WorkOK
<1> QED BY <1>3, LocalKeeps

LEMMA ResolvedMoves ==
  ASSUME WorkOK, NEW s \in Sub, NEW seen \in SUBSET (published \cap Artist(s)),
         NEW lost \in BOOLEAN, Resolved(s, seen, lost)
  PROVE  Moves(s)
<1> DEFINE x == [sync[s] EXCEPT !.pc = "classify", !.delivered = published \cap Artist(s),
                                !.todo = seen, !.lost = lost]
<1>1. published \subseteq Release
  BY DEF WorkOK
<1>2. x \in SyncShape /\ x.pc # "create"
  BY <1>1, SyncFields DEF SyncShape
<1>3. sync' = [sync EXCEPT ![s] = x]
  BY DEF Resolved, WorkOK
<1> QED BY <1>2, <1>3, SyncFields

LEMMA ResolveStep ==
  ASSUME IInv, NEW s \in Sub, Resolve(s)
  PROVE  IInv'
<1>1. WorkOK
  BY DEF IInv
<1>2. CASE RecordFailure(s)
  BY <1>1, <1>2, FailureLocal, LocalKeeps
<1>3. CASE ~RecordFailure(s)
  <2>1. PICK seen \in SUBSET (published \cap Artist(s)), lost \in BOOLEAN : Resolved(s, seen, lost)
    BY <1>3 DEF Resolve
  <2>2. Moves(s)
    BY <1>1, <2>1, ResolvedMoves
  <2>3. LocalStep(s)
    BY <1>1, <1>3, <2>2 DEF Resolve, LocalStep, WorkOK
  <2> QED BY <2>3, LocalKeeps
<1> QED BY <1>2, <1>3

LEMMA ClassifyStep ==
  ASSUME IInv, NEW s \in Sub, Classify(s)
  PROVE  IInv'
<1>1. WorkOK
  BY DEF IInv
<1>2. CASE RecordFailure(s)
  BY <1>1, <1>2, FailureLocal, LocalKeeps
<1>3. CASE ~RecordFailure(s)
  <2> DEFINE wanted == IF sync[s].auto THEN sync[s].todo \ stored ELSE {}
             x == [sync[s] EXCEPT !.pc = "queue", !.todo = wanted,
                                  !.covered = sync[s].todo \cap stored]
  <2>1. sync[s] \in SyncShape
    BY <1>1, SyncFields
  <2>2. wanted \subseteq Release
    BY <2>1 DEF SyncShape
  <2>3. x \in SyncShape /\ x.pc # "create"
    BY <2>1, <2>2 DEF SyncShape
  <2>4. sync' = [sync EXCEPT ![s] = x]
    BY <1>1, <1>3 DEF Classify, WorkOK
  <2>5. LocalStep(s)
    BY <1>1, <1>3, <2>3, <2>4, SyncFields DEF Classify, LocalStep, WorkOK
  <2> QED BY <2>5, LocalKeeps
<1> QED BY <1>2, <1>3

LEMMA CompleteStep ==
  ASSUME IInv, NEW s \in Sub, Complete(s)
  PROVE  IInv'
<1>1. PICK next \in {"soon", "late"} : RecordSync(s, next)
  BY DEF Complete
<1> QED BY <1>1, RecordLocal, LocalKeeps DEF IInv

(* The check finds no unfinished job and keeps the mutex: nobody else is   *)
(* about to create one, because nobody held the mutex before.              *)
LEMMA EnqueueCheckStep ==
  ASSUME IInv, NEW s \in Sub, NEW r \in Release, EnqueueCheck(s, r)
  PROVE  IInv'
<1>1. WorkOK
  BY DEF IInv
<1>2. CASE ~(Hold(s) /\ ~Unfinished(r) /\ sync' = [sync EXCEPT ![s].pc = "create", ![s].at = r])
  <2>1. (NotQueued(s, r) \/ Covered(s, r)) /\ UNCHANGED enqueue
    BY <1>2 DEF EnqueueCheck
  <2>2. LocalStep(s)
    BY <1>1, <2>1, QueueMoves DEF EnqueueCheck, LocalStep, WorkOK
  <2> QED BY <2>2, LocalKeeps
<1>3. CASE Hold(s) /\ ~Unfinished(r) /\ sync' = [sync EXCEPT ![s].pc = "create", ![s].at = r]
  <2> DEFINE x == [sync[s] EXCEPT !.pc = "create", !.at = r]
  <2>1. x \in SyncShape /\ x.pc = "create" /\ x.at = r
    BY <1>1, SyncFields DEF SyncShape
  <2>2. sync' = [sync EXCEPT ![s] = x]
    BY <1>1, <1>3 DEF WorkOK
  <2>3. WorkOK'
    BY <1>1, <1>3, <2>1, <2>2 DEF WorkOK, EnqueueCheck, Hold, Queue, World
  <2>4. jobs[r] = 0
    BY <1>1, <1>3 DEF Unfinished, WorkOK
  <2>5. \A k \in Sub \ {s} : sync'[k].pc # "create"
    <3> SUFFICES ASSUME NEW k \in Sub \ {s}, sync[k].pc = "create" PROVE FALSE
      BY <1>1, <2>2 DEF WorkOK
    <3>1. enqueue = k /\ enqueue = None
      BY DEF IInv, HolderCreates, EnqueueCheck
    <3> QED BY <3>1, SubscriptionsAssumption
  <2>6. sync'[s] = x
    BY <1>1, <2>2 DEF WorkOK
  <2>7. HolderCreates'
    BY <1>3, <2>1, <2>4, <2>5, <2>6 DEF HolderCreates, Hold, EnqueueCheck, Queue
  <2>8. OneJobPerRelease'
    BY DEF IInv, OneJobPerRelease, EnqueueCheck, Queue
  <2> QED BY <2>3, <2>7, <2>8 DEF IInv
<1> QED BY <1>2, <1>3

(* The holder creates the job it found missing, and is the only one.       *)
LEMMA EnqueueCreateStep ==
  ASSUME IInv, NEW s \in Sub, EnqueueCreate(s)
  PROVE  IInv'
<1> DEFINE r == sync[s].at
<1>1. WorkOK /\ enqueue = s /\ r \in Release /\ jobs[r] = 0
  BY DEF IInv, HolderCreates, EnqueueCreate
<1>2. PICK x \in SyncShape : x.pc # "create" /\ sync' = [sync EXCEPT ![s] = x]
  <2>1. NotQueued(s, r) \/ Covered(s, r)
    BY DEF EnqueueCreate
  <2> HIDE DEF r
  <2> QED BY <1>1, <2>1, QueueMoves DEF Moves
<1>3. jobs' \in [Release -> Nat] /\ \A q \in Release : jobs'[q] <= 1
  <2>1. jobs' = jobs \/ jobs' = [jobs EXCEPT ![r] = jobs[r] + 1]
    BY DEF EnqueueCreate
  <2>2. \A q \in Release : jobs[q] \in Nat /\ jobs[q] <= 1
    BY DEF IInv, WorkOK, OneJobPerRelease
  <2> HIDE DEF r
  <2> QED BY <1>1, <2>1, <2>2 DEF WorkOK
<1>4. WorkOK'
  BY <1>1, <1>2, <1>3 DEF WorkOK, EnqueueCreate, World
<1>5. \A k \in Sub : sync'[k].pc # "create"
  <2> TAKE k \in Sub
  <2>1. CASE k = s
    BY <1>1, <1>2, <2>1 DEF WorkOK
  <2>2. CASE k # s
    <3>1. sync'[k] = sync[k]
      BY <1>1, <1>2, <2>2 DEF WorkOK
    <3>2. sync[k].pc # "create"
      BY <1>1, <2>2 DEF IInv, HolderCreates
    <3> QED BY <3>1, <3>2
  <2> QED BY <2>1, <2>2
<1> QED BY <1>3, <1>4, <1>5 DEF IInv, HolderCreates, OneJobPerRelease

LEMMA StartSyncClaimStep ==
  ASSUME IInv, StartSyncClaim
  PROVE  IInv'
<1> DEFINE s == request.on
<1>1. WorkOK /\ request.auto \in BOOLEAN
  BY DEF IInv, WorkOK
<1>2. request' \in [on : Sub \cup {None}, auto : BOOLEAN]
  BY DEF StartSyncClaim, NoRequest
<1>3. CASE Claim(s, "request", request.auto)
  <2>1. Moves(s)
    BY <1>1, <1>3, ClaimMoves
  <2>2. LocalStep(s)
    BY <1>1, <1>2, <2>1 DEF StartSyncClaim, LocalStep, WorkOK
  <2> HIDE DEF s
  <2> QED BY <2>2, LocalKeeps
<1>4. CASE UNCHANGED sync
  <2>1. WorkOK'
    BY <1>1, <1>2, <1>4 DEF WorkOK, StartSyncClaim, Queue, World
  <2>2. Beside
    BY <1>1, <1>4, SameJobs DEF StartSyncClaim, Queue
  <2> QED BY <2>1, <2>2, BesideKeeps
<1> QED BY <1>3, <1>4 DEF StartSyncClaim

LEMMA TickNextStep ==
  ASSUME IInv, TickNext
  PROVE  IInv'
<1> DEFINE s == Head(scheduler.todo)
<1>1. WorkOK
  BY DEF IInv
<1>2. CASE UNCHANGED sync
  <2>1. WorkOK'
    BY <1>1, <1>2 DEF WorkOK, TickNext, Queue, World
  <2>2. Beside
    BY <1>1, <1>2, SameJobs DEF TickNext, Queue
  <2> QED BY <2>1, <2>2, BesideKeeps
<1>3. CASE Claim(s, "scheduler", row[s].auto) /\ s \in Sub
  <2>1. row[s].auto \in BOOLEAN
    BY <1>1, <1>3 DEF WorkOK, RowShape
  <2>2. Moves(s)
    BY <1>3, <2>1, ClaimMoves
  <2>3. LocalStep(s)
    BY <1>1, <2>2 DEF TickNext, LocalStep, WorkOK
  <2> HIDE DEF s
  <2> QED BY <2>3, LocalKeeps
<1>4. CASE Claim(s, "scheduler", row[s].auto) /\ s \notin Sub
  <2>1. UNCHANGED sync
    BY <1>1, <1>4 DEF Claim, WorkOK
  <2> QED BY <1>2, <2>1
<1> QED BY <1>2, <1>3, <1>4 DEF TickNext

-----------------------------------------------------------------------------
(* The steps beside the syncs. *)

LEMMA UserStep ==
  ASSUME IInv, NEW s \in Sub,
         Create(s) \/ Update(s) \/ Delete(s) \/ StartSync(s) \/ TimePasses(s)
  PROVE  IInv'
<1>1. WorkOK
  BY DEF IInv
<1>2. row' \in [Sub -> RowShape]
  <2>1. CASE Create(s)
    <3>1. PICK auto \in BOOLEAN :
            row' = [row EXCEPT ![s] = [in |-> TRUE, used |-> TRUE, enabled |-> TRUE,
                                       auto |-> auto, next |-> "due"]]
      BY <2>1 DEF Create
    <3>2. [in |-> TRUE, used |-> TRUE, enabled |-> TRUE, auto |-> auto, next |-> "due"] \in RowShape
      BY DEF RowShape
    <3> QED BY <1>1, <3>1, <3>2 DEF WorkOK
  <2>2. CASE Update(s)
    <3>1. PICK enabled \in BOOLEAN, auto \in BOOLEAN :
            row' = [row EXCEPT ![s].enabled = enabled, ![s].auto = auto]
      BY <2>2 DEF Update
    <3> DEFINE x == [row[s] EXCEPT !.enabled = enabled, !.auto = auto]
    <3>2. row[s] \in RowShape
      BY <1>1 DEF WorkOK
    <3>3. x \in RowShape
      BY <3>2 DEF RowShape
    <3>4. row' = [row EXCEPT ![s] = x]
      BY <1>1, <3>1 DEF WorkOK
    <3> QED BY <1>1, <3>3, <3>4 DEF WorkOK
  <2>3. CASE Delete(s)
    <3>1. [New EXCEPT !.used = TRUE] \in RowShape
      BY DEF New, RowShape
    <3> QED BY <1>1, <2>3, <3>1 DEF Delete, WorkOK
  <2>4. CASE StartSync(s)
    BY <1>1, <2>4 DEF StartSync, WorkOK
  <2>5. CASE TimePasses(s)
    BY <1>1, <2>5 DEF TimePasses, WorkOK, RowShape
  <2> QED BY <2>1, <2>2, <2>3, <2>4, <2>5
<1>3. request' \in [on : Sub \cup {None}, auto : BOOLEAN]
  <2>1. row[s].auto \in BOOLEAN
    BY <1>1 DEF WorkOK, RowShape
  <2> QED BY <1>1, <2>1
          DEF WorkOK, Create, Update, Delete, StartSync, TimePasses, Work
<1>4. UNCHANGED <<sync, enqueue, Queue, World>>
  BY DEF Create, Update, Delete, StartSync, TimePasses, Work
<1>5. WorkOK'
  BY <1>1, <1>2, <1>3, <1>4 DEF WorkOK, Queue, World
<1>6. Beside
  BY <1>1, <1>4, SameJobs DEF Queue
<1> QED BY <1>5, <1>6, BesideKeeps

LEMMA TickStep ==
  ASSUME IInv, Tick
  PROVE  IInv'
<1>1. WorkOK /\ WorkOK'
  BY DEF IInv, WorkOK, Tick, Queue, World
<1>2. Beside
  BY <1>1, SameJobs DEF Tick, Queue
<1> QED BY <1>1, <1>2, BesideKeeps

LEMMA FinishJobStep ==
  ASSUME IInv, NEW r \in Release, FinishJob(r)
  PROVE  IInv'
<1>1. WorkOK
  BY DEF IInv
<1>2. jobs' \in [Release -> Nat] /\ \A q \in Release : jobs'[q] <= jobs[q]
  <2>1. \A q \in Release : jobs[q] \in Nat
    BY <1>1 DEF WorkOK
  <2>2. CASE jobs[r] > 0 /\ jobs' = [jobs EXCEPT ![r] = @ - 1]
    BY <1>1, <2>1, <2>2 DEF WorkOK
  <2>3. CASE UNCHANGED jobs
    BY <1>1, <2>1, <2>3 DEF WorkOK
  <2> QED BY <2>2, <2>3 DEF FinishJob
<1>3. WorkOK'
  BY <1>1, <1>2 DEF WorkOK, FinishJob, Work
<1>4. Beside
  BY <1>2 DEF Beside, FinishJob, Work
<1> QED BY <1>3, <1>4, BesideKeeps

LEMMA OutsideStep ==
  ASSUME IInv, (\E r \in Release : EnqueueByUser(r) \/ Publish(r)) \/ BeginShutdown
  PROVE  IInv'
<1>1. WorkOK
  BY DEF IInv
<1>2. UNCHANGED <<row, Work, jobs>>
  BY DEF EnqueueByUser, Publish, BeginShutdown, Queue
<1>3. others' \subseteq Release /\ published' \subseteq Release /\ stored' \subseteq Release
      /\ accepting' \in BOOLEAN
  BY <1>1 DEF WorkOK, EnqueueByUser, Publish, BeginShutdown, Queue, World
<1>4. WorkOK'
  BY <1>1, <1>2, <1>3 DEF WorkOK, Work
<1>5. Beside
  BY <1>1, <1>2, SameJobs DEF Work
<1> QED BY <1>4, <1>5, BesideKeeps

(* Nothing of a sync survives the process; the jobs do.                    *)
LEMMA RestartStep ==
  ASSUME IInv, Restart
  PROVE  IInv'
<1>1. WorkOK'
  BY RestingShape DEF IInv, WorkOK, Restart, Forget, NoRequest, Queue
<1>2. \A s \in Sub : sync'[s].pc # "create"
  BY RestingShape DEF Restart, Forget
<1> QED BY <1>1, <1>2 DEF IInv, HolderCreates, OneJobPerRelease, Restart, Queue

-----------------------------------------------------------------------------

LEMMA InitInv == Init => IInv
<1> SUFFICES ASSUME Init PROVE IInv
  OBVIOUS
<1>1. WorkOK
  BY RestingShape DEF Init, WorkOK, New, RowShape, NoRequest
<1>2. \A s \in Sub : sync[s].pc # "create"
  BY RestingShape DEF Init
<1> QED BY <1>1, <1>2 DEF Init, IInv, HolderCreates, OneJobPerRelease

LEMMA NextInv ==
  ASSUME IInv, [Next]_vars
  PROVE  IInv'
<1>1. ASSUME NEW s \in Sub, Step(s) PROVE IInv'
  BY <1>1, AdmissionStep, ResolveStep, ClassifyStep, EnqueueCreateStep, CompleteStep,
     EnqueueCheckStep DEF Step
<1>2. CASE UNCHANGED vars
  <2>1. WorkOK /\ WorkOK'
    BY <1>2 DEF IInv, WorkOK, vars
  <2>2. Beside
    BY <1>2, <2>1, SameJobs DEF vars
  <2> QED BY <2>1, <2>2, BesideKeeps
<1> QED BY <1>1, <1>2, UserStep, StartSyncClaimStep, TickStep, TickNextStep, FinishJobStep,
           OutsideStep, RestartStep DEF Next

LEMMA Invariant == Spec => []IInv
<1>1. Init => IInv
  BY InitInv
<1>2. IInv /\ [Next]_vars => IInv'
  BY NextInv
<1> QED BY <1>1, <1>2, PTL DEF Spec

(* Rows, syncs, requests and jobs keep their shape, even when a sync works *)
(* on a subscription that has been deleted.                                *)
THEOREM WorkShapes == Spec => []WorkOK
<1>1. IInv => WorkOK
  BY DEF IInv
<1> QED BY <1>1, Invariant, PTL

(* Two syncs never make two unfinished jobs of one release: the check and  *)
(* the creation are one step for all others (queue.go:24).                 *)
THEOREM OneJob == Spec => []OneJobPerRelease
<1>1. IInv => OneJobPerRelease
  BY DEF IInv
<1> QED BY <1>1, Invariant, PTL

-----------------------------------------------------------------------------
(* What a sync has seen is to be queued, covered, or counted as lost.      *)

Accounted(x) ==
  x.auto /\ ~x.lost =>
    /\ x.pc = "classify" => x.delivered \subseteq x.todo
    /\ x.pc \in {"queue", "create"} => x.delivered \subseteq x.todo \cup x.covered

CoverInv == \A s \in Sub : Accounted(sync[s])

LEMMA RestingAccounted == Accounted(Resting)
  BY DEF Resting, Accounted

(* One sync moves to a state that accounts for what it has seen. *)
LEMMA MoveCovers ==
  ASSUME WorkOK, CoverInv, NEW s, NEW x, Accounted(x), sync' = [sync EXCEPT ![s] = x]
  PROVE  CoverInv'
  BY DEF CoverInv, WorkOK

LEMMA RestCovers ==
  ASSUME WorkOK, CoverInv, NEW s, Rest(s) PROVE CoverInv'
  BY MoveCovers, RestingAccounted DEF Rest

LEMMA ClaimCovers ==
  ASSUME WorkOK, CoverInv, NEW s, NEW by, NEW auto, Claim(s, by, auto) PROVE CoverInv'
<1> DEFINE x == [Resting EXCEPT !.pc = "admission", !.by = by, !.auto = auto]
<1>1. Accounted(x)
  BY DEF Resting, Accounted
<1>2. sync' = [sync EXCEPT ![s] = x]
  BY DEF Claim
<1> QED BY <1>1, <1>2, MoveCovers

LEMMA AdmissionCovers ==
  ASSUME WorkOK, CoverInv, NEW s \in Sub, Admission(s) PROVE CoverInv'
<1>1. CASE Rest(s)
  BY <1>1, RestCovers
<1>2. CASE sync' = [sync EXCEPT ![s].pc = "resolve"]
  <2> DEFINE x == [sync[s] EXCEPT !.pc = "resolve"]
  <2>1. sync' = [sync EXCEPT ![s] = x]
    BY <1>2 DEF WorkOK
  <2>2. x.pc = "resolve"
    BY SyncFields DEF SyncShape
  <2>3. Accounted(x)
    BY <2>2 DEF Accounted
  <2> QED BY <2>1, <2>3, MoveCovers
<1> QED BY <1>1, <1>2 DEF Admission

(* A run that lost nothing has all that the artist had; classified, it is  *)
(* in the library or to be queued.                                         *)
LEMMA ResolveCovers ==
  ASSUME WorkOK, CoverInv, NEW s \in Sub, Resolve(s) PROVE CoverInv'
<1>1. CASE RecordFailure(s)
  BY <1>1, RestCovers DEF RecordFailure, RecordSync
<1>2. ASSUME NEW seen, NEW lost \in BOOLEAN, Resolved(s, seen, lost),
             ~lost => seen = published \cap Artist(s)
      PROVE  CoverInv'
  <2> DEFINE x == [sync[s] EXCEPT !.pc = "classify", !.delivered = published \cap Artist(s),
                                  !.todo = seen, !.lost = lost]
  <2>1. sync' = [sync EXCEPT ![s] = x]
    BY <1>2 DEF Resolved, WorkOK
  <2>2. /\ x.pc = "classify" /\ x.delivered = published \cap Artist(s)
        /\ x.todo = seen /\ x.lost = lost
    BY SyncFields DEF SyncShape
  <2>3. Accounted(x)
    BY <1>2, <2>2 DEF Accounted
  <2> QED BY <2>1, <2>3, MoveCovers
<1>3. CASE Resolved(s, published \cap Artist(s), FALSE)
  BY <1>2, <1>3
<1>4. ASSUME NEW seen, Resolved(s, seen, TRUE) PROVE CoverInv'
  BY <1>2, <1>4
<1> QED BY <1>1, <1>3, <1>4 DEF Resolve

LEMMA ClassifyCovers ==
  ASSUME WorkOK, CoverInv, NEW s \in Sub, Classify(s) PROVE CoverInv'
<1>1. CASE RecordFailure(s)
  BY <1>1, RestCovers DEF RecordFailure, RecordSync
<1>2. CASE ~RecordFailure(s)
  <2> DEFINE wanted == IF sync[s].auto THEN sync[s].todo \ stored ELSE {}
             x == [sync[s] EXCEPT !.pc = "queue", !.todo = wanted,
                                  !.covered = sync[s].todo \cap stored]
  <2>1. sync' = [sync EXCEPT ![s] = x]
    BY <1>2 DEF Classify, WorkOK
  <2>2. /\ x.pc = "queue" /\ x.delivered = sync[s].delivered /\ x.todo = wanted
        /\ x.covered = sync[s].todo \cap stored
        /\ x.auto = sync[s].auto /\ x.lost = sync[s].lost
    BY SyncFields DEF SyncShape
  <2>3. Accounted(sync[s]) /\ sync[s].pc = "classify"
    BY <1>2 DEF CoverInv, Classify
  <2>4. Accounted(x)
    BY <2>2, <2>3 DEF Accounted
  <2> QED BY <2>1, <2>4, MoveCovers
<1> QED BY <1>1, <1>2

(* A release leaves what is to be queued as covered, or the run has lost it. *)
LEMMA QueueCovers ==
  ASSUME WorkOK, CoverInv, NEW s \in Sub, NEW r, sync[s].pc \in {"queue", "create"},
         NotQueued(s, r) \/ Covered(s, r)
  PROVE  CoverInv'
<1>1. Accounted(sync[s]) /\ sync[s] \in SyncShape
  BY DEF CoverInv, WorkOK
<1>2. CASE NotQueued(s, r)
  <2> DEFINE x == [sync[s] EXCEPT !.pc = "queue", !.todo = @ \ {r}, !.lost = TRUE]
  <2>1. sync' = [sync EXCEPT ![s] = x]
    BY <1>2 DEF NotQueued, WorkOK
  <2>2. Accounted(x)
    BY <1>1 DEF SyncShape, Accounted
  <2> QED BY <2>1, <2>2, MoveCovers
<1>3. CASE Covered(s, r)
  <2> DEFINE x == [sync[s] EXCEPT !.pc = "queue", !.todo = @ \ {r}, !.covered = @ \cup {r}]
  <2>1. sync' = [sync EXCEPT ![s] = x]
    BY <1>3 DEF Covered, WorkOK
  <2>2. /\ x.pc = "queue" /\ x.delivered = sync[s].delivered /\ x.todo = sync[s].todo \ {r}
        /\ x.covered = sync[s].covered \cup {r}
        /\ x.auto = sync[s].auto /\ x.lost = sync[s].lost
    BY <1>1 DEF SyncShape
  <2>3. Accounted(x)
    BY <1>1, <2>2 DEF Accounted
  <2> QED BY <2>1, <2>3, MoveCovers
<1> QED BY <1>2, <1>3

LEMMA EnqueueCovers ==
  ASSUME WorkOK, CoverInv, NEW s \in Sub,
         (\E r \in Release : EnqueueCheck(s, r)) \/ EnqueueCreate(s)
  PROVE  CoverInv'
<1>1. CASE EnqueueCreate(s)
  BY <1>1, QueueCovers DEF EnqueueCreate
<1>2. ASSUME NEW r \in Release, EnqueueCheck(s, r) PROVE CoverInv'
  <2>1. CASE NotQueued(s, r) \/ Covered(s, r)
    BY <1>2, <2>1, QueueCovers DEF EnqueueCheck
  <2>2. CASE sync' = [sync EXCEPT ![s].pc = "create", ![s].at = r]
    <3> DEFINE x == [sync[s] EXCEPT !.pc = "create", !.at = r]
    <3>1. sync' = [sync EXCEPT ![s] = x]
      BY <2>2 DEF WorkOK
    <3>2. Accounted(sync[s]) /\ sync[s].pc = "queue" /\ sync[s] \in SyncShape
      BY <1>2 DEF CoverInv, WorkOK, EnqueueCheck
    <3>3. Accounted(x)
      BY <3>2 DEF SyncShape, Accounted
    <3> QED BY <3>1, <3>3, MoveCovers
  <2> QED BY <1>2, <2>1, <2>2 DEF EnqueueCheck
<1> QED BY <1>1, <1>2

LEMMA NextCovers == WorkOK /\ CoverInv /\ [Next]_vars => CoverInv'
<1> SUFFICES ASSUME WorkOK, CoverInv, [Next]_vars PROVE CoverInv'
  OBVIOUS
<1>1. ASSUME UNCHANGED sync PROVE CoverInv'
  BY <1>1 DEF CoverInv
<1>2. ASSUME NEW s \in Sub, Step(s) PROVE CoverInv'
  BY <1>2, AdmissionCovers, ResolveCovers, ClassifyCovers, EnqueueCovers, RestCovers
  DEF Step, Complete, RecordSync
<1>3. ASSUME NEW s \in Sub, Create(s) \/ Update(s) \/ Delete(s) \/ StartSync(s) \/ TimePasses(s)
      PROVE  CoverInv'
  BY <1>1, <1>3 DEF Create, Update, Delete, StartSync, TimePasses, Work
<1>4. CASE StartSyncClaim \/ TickNext
  BY <1>1, <1>4, ClaimCovers DEF StartSyncClaim, TickNext
<1>5. CASE Tick \/ BeginShutdown \/ UNCHANGED vars
  BY <1>1, <1>5 DEF Tick, BeginShutdown, Work, vars
<1>6. ASSUME NEW r \in Release, EnqueueByUser(r) \/ FinishJob(r) \/ Publish(r) PROVE CoverInv'
  BY <1>1, <1>6 DEF EnqueueByUser, FinishJob, Publish, Work
<1>7. CASE Restart
  BY <1>7, RestingAccounted DEF Restart, Forget, CoverInv
<1> QED BY <1>2, <1>3, <1>4, <1>5, <1>6, <1>7 DEF Next

(* Only a run that is complete and lost nothing puts a row off to late. *)
LEMMA LateRows ==
  ASSUME WorkOK, CoverInv, NEW s \in Sub, [Next]_vars, sync[s].auto,
         row[s].next # "late", row'[s].next = "late"
  PROVE  sync[s].delivered \subseteq sync[s].covered
<1>1. ASSUME UNCHANGED row PROVE FALSE
  BY <1>1
<1>2. ASSUME NEW t \in Sub, RecordFailure(t) PROVE FALSE
  BY <1>1, <1>2 DEF RecordFailure, RecordSync, Written, NotWritten, WorkOK, RowShape
<1>3. ASSUME NEW t \in Sub, Step(t) PROVE t = s /\ Complete(s) /\ ~sync[s].lost
  <2>1. CASE Complete(t)
    BY <1>1, <2>1 DEF Complete, RecordSync, Written, NotWritten, WorkOK, RowShape
  <2>2. CASE ~Complete(t)
    BY <1>1, <1>2, <1>3, <2>2 DEF Step, Admission, Resolve, Classify, EnqueueCheck, EnqueueCreate
  <2> QED BY <2>1, <2>2
<1>4. ASSUME NEW t \in Sub, Create(t) \/ Update(t) \/ Delete(t) \/ StartSync(t) \/ TimePasses(t)
      PROVE  FALSE
  <2>1. CASE Create(t)
    BY <2>1 DEF Create, WorkOK
  <2>2. CASE Update(t)
    <3>1. PICK enabled \in BOOLEAN, auto \in BOOLEAN :
            row' = [row EXCEPT ![t].enabled = enabled, ![t].auto = auto]
      BY <2>2 DEF Update
    <3> QED BY <3>1 DEF WorkOK, RowShape
  <2>3. CASE Delete(t)
    BY <2>3 DEF Delete, New, WorkOK
  <2>4. CASE StartSync(t)
    BY <1>1, <2>4 DEF StartSync
  <2>5. CASE TimePasses(t)
    BY <2>5 DEF TimePasses, WorkOK, RowShape
  <2> QED BY <1>4, <2>1, <2>2, <2>3, <2>4, <2>5
<1>5. ASSUME StartSyncClaim \/ Tick \/ TickNext \/ BeginShutdown \/ Restart \/ UNCHANGED vars
      PROVE  FALSE
  BY <1>1, <1>5 DEF StartSyncClaim, Tick, TickNext, BeginShutdown, Restart, vars
<1>6. ASSUME NEW r \in Release, EnqueueByUser(r) \/ FinishJob(r) \/ Publish(r) PROVE FALSE
  BY <1>1, <1>6 DEF EnqueueByUser, FinishJob, Publish
<1>7. Complete(s) /\ ~sync[s].lost
  BY <1>3, <1>4, <1>5, <1>6 DEF Next
<1> QED BY <1>7 DEF Complete, CoverInv, Accounted

(* A sync puts its subscription off for the whole interval only when each  *)
(* release that the artist had was in the library or got queued            *)
(* (subscriptions: run and record).                                        *)
THEOREM LateCovered == Spec => LateMeansCovered
<1>1. Init => CoverInv
  BY RestingAccounted DEF Init, CoverInv
<1>2. IInv => WorkOK
  BY DEF IInv
<1>3. WorkOK /\ CoverInv /\ [Next]_vars =>
        [\A s \in Sub : (sync[s].auto /\ row[s].next # "late" /\ row'[s].next = "late")
           => sync[s].delivered \subseteq sync[s].covered]_vars
  BY LateRows
<1> QED BY <1>1, <1>2, <1>3, NextCovers, Invariant, PTL DEF Spec, LateMeansCovered
=============================================================================
