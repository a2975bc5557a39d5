------------------------------- MODULE JobQueue -------------------------------
(***************************************************************************)
(* The download queue: the jobs and job_items rows of the database, the    *)
(* resolver, the dispatcher, one worker goroutine per running item, the    *)
(* multi-statement API handlers, and the start, stop and crash of the      *)
(* process.  From src/backend/internal/jobs (manager, queue, worker) and   *)
(* src/backend/internal/database/repository/jobs.go.                       *)
(*                                                                         *)
(* A step is one database statement or transaction together with the       *)
(* in-memory work around it, so every interleaving of the goroutines       *)
(* between two statements is a behaviour.                                  *)
(***************************************************************************)
EXTENDS JobStates, FiniteSets

CONSTANTS
  Job,            \* jobs a client may enqueue, a set of naturals
  Item,           \* tracks of all jobs, naturals: their position in the job
  JobOf,          \* the job a track is resolved for
  MaxWorkers,     \* size of the worker pool
  MaxAttempts,    \* attempts an item may spend on retryable failures
  ResolveStages,  \* resolving states the jobs of the instance pass through
  Gates,          \* what a dispatch pass may find open: sets of gate names
  Calls,          \* API operations the instance exercises
  Budget          \* bound: how many crashes, waits and API calls may happen

GateNames == {"window", "storage", "space", "provider"}
CallNames == {"cancel", "abort", "pause", "resume", "retry_item", "retry_failed",
              "wake", "queue_pause", "stop"}

ASSUME JobQueueAssumption ==
  /\ Job \subseteq Nat \ {0} /\ IsFiniteSet(Job)
  /\ Item \subseteq Nat /\ IsFiniteSet(Item)
  /\ JobOf \in [Item -> Job]
  /\ MaxWorkers \in Nat \ {0}
  /\ MaxAttempts \in Nat \ {0}
  /\ ResolveStages \subseteq ResolvingBand
  /\ Gates \subseteq SUBSET GateNames
  /\ Calls \subseteq CallNames
  /\ Budget \in [{"crash", "wait", "call"} -> Nat]

VARIABLES
  job,         \* jobs table: status and paused flag
  item,        \* job_items table: status, attempts, pending wait, staged hash
  runs,        \* jobs with a registered cancellation handle (Manager.runs)
  announced,   \* jobs whose closing event was published since they last opened
  queue,       \* jobs in the resolve channel
  resolver,    \* the resolver goroutine
  dispatcher,  \* the dispatcher goroutine and what its pass has read so far
  worker,      \* the worker goroutine of each item; its presence is inFlight
  api,         \* a multi-statement API handler under way
  queuePaused, \* the global pause
  process,     \* the server process
  budget       \* what is left of Budget

dbVars  == <<job, item>>
memVars == <<runs, queue, resolver, dispatcher, worker, queuePaused>>
vars    == <<job, item, runs, announced, queue, resolver, dispatcher, worker,
             api, queuePaused, process, budget>>

-----------------------------------------------------------------------------

ItemsOf(j)  == {i \in Item : JobOf[i] = j}
Exists(j)   == job[j].status # "absent"
HasItems(j) == \E i \in ItemsOf(j) : item[i].status # "absent"
InFlight    == {i \in Item : worker[i].pc # "idle"}
Full        == Cardinality(InFlight) >= MaxWorkers

(* ListUnfinished: neither terminal nor paused. *)
Unfinished == {j \in Job : job[j].status \in JobActive /\ ~job[j].paused}

NoRow == [status |-> "absent", attempts |-> 0, wait |-> "none", staged |-> FALSE]
NoRows == [i \in Item |-> NoRow]

IdleWorker     == [pc |-> "idle", cancelled |-> FALSE, tries |-> 0]
IdleResolver   == [pc |-> "idle", job |-> 0, cancelled |-> FALSE]
IdleDispatcher == [pc |-> "idle", todo |-> {}, cur |-> 0, rows |-> NoRows, ready |-> {},
                   cands |-> {}, rank |-> [j \in Job |-> 0], busy |-> {}]
IdleApi        == [pc |-> "idle", job |-> 0]

(* Jobs.SetStatus: the row keeps its state when the move is illegal. *)
StatusAfter(j, s) ==
  IF JobCanTransition(job[j].status, s) THEN s ELSE job[j].status
SetStatus(j, s) == job' = [job EXCEPT ![j].status = StatusAfter(j, s)]

(* Jobs.UpdateItem: all or nothing, decided by the state the row has now. *)
Accepts(i, s) == ItemCanTransition(item[i].status, s)
UpdateItem(i, s, tries, wait) ==
  item' = [item EXCEPT ![i] =
             IF Accepts(i, s)
             THEN [@ EXCEPT !.status = s, !.attempts = tries, !.wait = wait]
             ELSE @]

(* Jobs.CancelPendingItems. *)
CancelledRow(r) ==
  IF r.status \in ItemStatus \ ItemTerminal THEN [r EXCEPT !.status = "cancelled"] ELSE r
CancelPendingItems(j) ==
  item' = [i \in Item |-> IF JobOf[i] = j THEN CancelledRow(item[i]) ELSE item[i]]

(* Contexts derived from the run of job j end: cancelRun and releaseRun. *)
EndRun(j) ==
  /\ runs' = runs \ {j}
  /\ worker' = [i \in Item |->
       IF JobOf[i] = j /\ j \in runs /\ worker[i].pc \notin {"idle", "spawned"}
       THEN [worker[i] EXCEPT !.cancelled = TRUE] ELSE worker[i]]

Spend(what) ==
  /\ budget[what] > 0
  /\ budget' = [budget EXCEPT ![what] = @ - 1]

Init ==
  /\ job = [j \in Job |-> [status |-> "absent", paused |-> FALSE]]
  /\ item = NoRows
  /\ runs = {} /\ announced = {} /\ queue = {}
  /\ resolver = IdleResolver
  /\ dispatcher = IdleDispatcher
  /\ worker = [i \in Item |-> IdleWorker]
  /\ api = IdleApi
  /\ queuePaused = FALSE
  /\ process = "up"
  /\ budget = Budget

-----------------------------------------------------------------------------
(* Resolver: runResolver and resolve.                                      *)

(* Get and HasItems: a closed or already resolved job needs no resolution. *)
ResolverTake(j) ==
  /\ process = "up" /\ resolver.pc = "idle" /\ j \in queue
  /\ queue' = queue \ {j}
  /\ resolver' = IF job[j].status \in JobTerminal \/ HasItems(j)
                 THEN resolver
                 ELSE [pc |-> "loaded", job |-> j, cancelled |-> FALSE]
  /\ UNCHANGED <<dbVars, runs, announced, dispatcher, worker, api, queuePaused,
                 process, budget>>

(* registerRun: the existing handle, or a fresh one that nobody cancelled. *)
ResolverRegister ==
  /\ process = "up" /\ resolver.pc = "loaded"
  /\ runs' = runs \cup {resolver.job}
  /\ resolver' = [resolver EXCEPT !.pc = "resolving"]
  /\ UNCHANGED <<dbVars, announced, queue, dispatcher, worker, api, queuePaused,
                 process, budget>>

(* resolveTracks reports a stage. *)
ResolverStage(s) ==
  /\ process = "up" /\ resolver.pc = "resolving"
  /\ job[resolver.job].status # s
  /\ JobCanTransition(job[resolver.job].status, s)
  /\ SetStatus(resolver.job, s)
  /\ UNCHANGED <<item, runs, announced, queue, resolver, dispatcher, worker, api,
                 queuePaused, process, budget>>

(* The catalogue failed or the run was cancelled: fail, markCancelled. *)
ResolverFail ==
  LET j == resolver.job IN
  /\ process = "up" /\ resolver.pc = "resolving"
  /\ \E s \in {"failed", "cancelled"} :
       /\ s = "cancelled" => resolver.cancelled
       /\ SetStatus(j, s)
  /\ CancelPendingItems(j)
  /\ EndRun(j)
  /\ announced' = announced \cup {j}
  /\ resolver' = IdleResolver
  /\ UNCHANGED <<queue, dispatcher, api, queuePaused, process, budget>>

(* AddItems: one transaction, bound to the context of the run only. *)
ResolverInsert ==
  LET j == resolver.job IN
  /\ process = "up" /\ resolver.pc = "resolving" /\ ~resolver.cancelled
  /\ item' = [i \in Item |-> IF JobOf[i] = j
                             THEN [item[i] EXCEPT !.status = "pending"] ELSE item[i]]
  /\ resolver' = [resolver EXCEPT !.pc = "inserted"]
  /\ UNCHANGED <<job, runs, announced, queue, dispatcher, worker, api, queuePaused,
                 process, budget>>

(* A job with tracks goes to matching; an empty one is complete.           *)
ResolverMatching ==
  /\ process = "up" /\ resolver.pc = "inserted" /\ ItemsOf(resolver.job) # {}
  /\ SetStatus(resolver.job, "matching")
  /\ resolver' = IdleResolver
  /\ UNCHANGED <<item, runs, announced, queue, dispatcher, worker, api, queuePaused,
                 process, budget>>

ResolverEmpty ==
  LET j == resolver.job IN
  /\ process = "up" /\ resolver.pc = "inserted" /\ ItemsOf(j) = {}
  /\ IF job[j].status \in JobTerminal
     THEN UNCHANGED <<job, runs, worker, announced>>
     ELSE /\ SetStatus(j, "completed")
          /\ EndRun(j)
          /\ announced' = announced \cup {j}
  /\ resolver' = IdleResolver
  /\ UNCHANGED <<item, queue, dispatcher, api, queuePaused, process, budget>>

ResolverStep ==
  \/ \E j \in Job : ResolverTake(j)
  \/ ResolverRegister
  \/ \E s \in ResolveStages : ResolverStage(s)
  \/ ResolverFail
  \/ ResolverInsert
  \/ ResolverMatching
  \/ ResolverEmpty

-----------------------------------------------------------------------------
(* Dispatcher: dispatch, collectCandidates, startWorker.                   *)

(* A pass begins with a free worker and the list of unfinished jobs.       *)
DispatchBegin ==
  /\ process = "up" /\ dispatcher.pc = "idle" /\ ~queuePaused
  /\ ~Full
  /\ LET todo == {j \in Unfinished : HasItems(j) \/ job[j].status # "queued"}
     IN  /\ todo # {}
         /\ dispatcher' = [IdleDispatcher EXCEPT !.pc = "scan", !.todo = todo]
  /\ UNCHANGED <<dbVars, runs, announced, queue, resolver, worker, api, queuePaused,
                 process, budget>>

(* ListItems of the next job: a snapshot, used by the following steps.     *)
DispatchList(j) ==
  /\ process = "up" /\ dispatcher.pc = "scan" /\ j \in dispatcher.todo
  /\ dispatcher' =
       IF HasItems(j)
       THEN [dispatcher EXCEPT !.pc = "listed", !.todo = @ \ {j}, !.cur = j,
                               !.rows = [i \in Item |-> IF JobOf[i] = j THEN item[i] ELSE NoRow]]
       ELSE [dispatcher EXCEPT !.todo = @ \ {j}]
  /\ UNCHANGED <<dbVars, runs, announced, queue, resolver, worker, api, queuePaused,
                 process, budget>>

(* May an item read in state r be handed to a worker while gates g are open? *)
IsReady(r, g) ==
  \/ r.status = "pending" /\ "window" \in g
  \/ r.status = "retry_wait" /\ r.wait = "none" /\ {"window", "provider"} \subseteq g
  \/ r.status = "waiting_for_storage" /\ "storage" \in g
       /\ (r.staged \/ "window" \in g)
  \/ r.status = "waiting_for_space" /\ {"window", "space"} \subseteq g

(* The derived status is stored, closing the job when every listed item is *)
(* terminal, and the ready items are collected.  For a closed job finalize *)
(* is called next: it reads the status just stored and returns, so neither *)
(* the closing event is published nor the handle of the run released.      *)
DispatchEvaluate ==
  LET j       == dispatcher.cur
      rows    == dispatcher.rows
      derived == DeriveParentStatus({rows[i].status : i \in ItemsOf(j)})
  IN
  /\ process = "up" /\ dispatcher.pc = "listed"
  /\ SetStatus(j, derived)
  /\ \E g \in Gates :
       dispatcher' = [dispatcher EXCEPT !.pc = "scan", !.cur = 0, !.rows = NoRows,
         !.ready = @ \cup {[item |-> i, tries |-> rows[i].attempts] :
                             i \in {k \in ItemsOf(j) \ InFlight : IsReady(rows[k], g)}}]
  /\ UNCHANGED <<item, runs, announced, queue, resolver, worker, api, queuePaused,
                 process, budget>>

Candidates == {JobOf[c.item] : c \in dispatcher.ready}

(* SetPriority may reorder the jobs at any time: every order of the        *)
(* candidates is possible.                                                 *)
Ranks == {r \in [Job -> 0..Cardinality(Candidates)] :
            /\ \A j \in Job : r[j] = 0 <=> j \notin Candidates
            /\ \A j, k \in Candidates : r[j] = r[k] => j = k}

Foremost(jobs) == CHOOSE j \in jobs : \A k \in jobs : dispatcher.rank[j] <= dispatcher.rank[k]

(* activePerJob: the workers of every job are counted once, before the two *)
(* passes over the candidates; busy holds the jobs with at least one.      *)
DispatchCount ==
  /\ process = "up" /\ dispatcher.pc = "scan" /\ dispatcher.todo = {}
  /\ dispatcher' \in
       IF dispatcher.ready = {} THEN {IdleDispatcher}
       ELSE {[dispatcher EXCEPT !.pc = "first", !.todo = Candidates, !.cands = Candidates,
                                !.rank = rank, !.busy = {JobOf[i] : i \in InFlight}] :
               rank \in Ranks}
  /\ UNCHANGED <<dbVars, runs, announced, queue, resolver, worker, api, queuePaused,
                 process, budget>>

(* The ready items no worker is at, those of job j, and the first of these. *)
Startable    == {c \in dispatcher.ready : c.item \notin InFlight}
Ready(j)     == {c \in Startable : JobOf[c.item] = j}
NextReady(j) == CHOOSE c \in Ready(j) : \A d \in Ready(j) : c.item <= d.item

(* startWorker: the item enters inFlight, the count and its goroutine.     *)
HandOver(c) ==
  /\ worker' = [worker EXCEPT ![c.item] =
                  [pc |-> "spawned", cancelled |-> FALSE, tries |-> c.tries]]
  /\ dispatcher' = [dispatcher EXCEPT
       !.pc    = IF dispatcher.todo = {} THEN "rest" ELSE "first",
       !.todo  = @ \ {JobOf[c.item]},
       !.cur   = IF dispatcher.todo = {} THEN JobOf[c.item] ELSE 0,
       !.ready = {d \in @ : d.item # c.item},
       !.busy  = @ \cup {JobOf[c.item]}]

(* Mutant: the first pass does not look at the workers a job has. *)
MutHasItsShare(j) == FALSE

(* The first pass leaves out a job that has a worker, if it is not alone.  *)
HasItsShare(j) == dispatcher.cands # {j} /\ j \in dispatcher.busy

(* Pass 1, the next job in order: one slot, if a worker is free by now.    *)
DispatchFirst ==
  LET j == Foremost(dispatcher.todo) IN
  /\ process = "up" /\ dispatcher.todo # {} /\ dispatcher.pc = "first" /\ ~Full
  /\ IF HasItsShare(j) \/ Ready(j) = {}
     THEN dispatcher' = [dispatcher EXCEPT !.todo = @ \ {j}] /\ UNCHANGED worker
     ELSE HandOver(NextReady(j))
  /\ UNCHANGED <<dbVars, runs, announced, queue, resolver, api, queuePaused,
                 process, budget>>

(* Pass 2, in the same order: every ready item of a job, then of the next, *)
(* as long as a worker is free.  Within a job the stop is not looked at.   *)
RestOf   == Foremost({JobOf[c.item] : c \in Startable})
InRest   == dispatcher.pc \in {"first", "rest"} /\ dispatcher.todo = {}
WithinJob == InRest /\ Startable # {} /\ dispatcher.cur = RestOf

DispatchRest ==
  /\ InRest /\ Startable # {} /\ ~Full
  /\ process = "up" \/ WithinJob
  /\ HandOver(NextReady(RestOf))
  /\ UNCHANGED <<dbVars, runs, announced, queue, resolver, api, queuePaused,
                 process, budget>>

(* The pass ends at its end, without a free worker, and with the process.  *)
DispatchReturn ==
  /\ \/ dispatcher.pc \in {"first", "rest"} /\ Full
     \/ InRest /\ Startable = {}
     \/ process = "stopping" /\ dispatcher.pc # "idle" /\ ~WithinJob
  /\ dispatcher' = IdleDispatcher
  /\ UNCHANGED <<dbVars, runs, announced, queue, resolver, worker, api, queuePaused,
                 process, budget>>

DispatcherStep ==
  \/ DispatchBegin
  \/ \E j \in Job : DispatchList(j)
  \/ DispatchEvaluate
  \/ DispatchCount \/ DispatchFirst \/ DispatchRest \/ DispatchReturn

-----------------------------------------------------------------------------
(* Workers: the goroutine of startWorker, process and attempt.             *)

(* The steps of an attempt; the tagged file is staged before the item may  *)
(* be finalized.                                                           *)
NextStage == [entered |-> "matching", matching |-> "downloading",
              downloading |-> "tagging", tagging |-> "staged", staged |-> "finalizing"]
AtItem     == ItemWorking \cup {"staged"}
Attempting == AtItem \cup {"entered"}

Leave(i) == worker' = [worker EXCEPT ![i] = IdleWorker]

(* registerRun after the hand-over: a cancellation in between removed the  *)
(* handle, and the worker then runs under a fresh one.                     *)
WorkerRegister(i) ==
  /\ worker[i].pc = "spawned"
  /\ runs' = runs \cup {JobOf[i]}
  /\ worker' = [worker EXCEPT ![i].pc = "entered",
                              ![i].cancelled = (process = "stopping")]
  /\ UNCHANGED <<dbVars, announced, queue, resolver, dispatcher, api, queuePaused,
                 process, budget>>

(* The next stage of the attempt, stored unless the row has been closed    *)
(* meanwhile.  Matching books the attempt on the count read at dispatch.   *)
WorkerAdvance(i) ==
  LET next == NextStage[worker[i].pc] IN
  /\ worker[i].pc \in DOMAIN NextStage
  /\ next = "staged" \/ Accepts(i, next)
  /\ item' = [item EXCEPT
       ![i] = CASE next = "matching" -> [@ EXCEPT !.status = next, !.wait = "none",
                                                  !.attempts = worker[i].tries + 1]
                [] next = "staged"   -> [@ EXCEPT !.staged = TRUE]
                [] OTHER             -> [@ EXCEPT !.status = next]]
  /\ worker' = [worker EXCEPT ![i].pc = next]
  /\ UNCHANGED <<job, runs, announced, queue, resolver, dispatcher, api, queuePaused,
                 process, budget>>

WorkerRejected(i) ==
  /\ worker[i].pc \in DOMAIN NextStage
  /\ NextStage[worker[i].pc] # "staged" /\ ~Accepts(i, NextStage[worker[i].pc])
  /\ worker' = [worker EXCEPT ![i].pc = "rejected"]
  /\ UNCHANGED <<dbVars, runs, announced, queue, resolver, dispatcher, api, queuePaused,
                 process, budget>>

(* The track is in the library and the catalogue: completed.               *)
WorkerStore(i) ==
  /\ worker[i].pc = "finalizing"
  /\ IF Accepts(i, "completed")
     THEN UpdateItem(i, "completed", item[i].attempts, "none") /\ Leave(i)
     ELSE worker' = [worker EXCEPT ![i].pc = "rejected"] /\ UNCHANGED item
  /\ UNCHANGED <<job, runs, announced, queue, resolver, dispatcher, api, queuePaused,
                 process, budget>>

(* The outcome of process, stored and followed by the goroutine's end.     *)
WorkerFinish(i, s, tries, wait) ==
  /\ UpdateItem(i, s, tries, wait)
  /\ Leave(i)
  /\ UNCHANGED <<job, runs, announced, queue, resolver, dispatcher, api, queuePaused,
                 process>>

WorkerSkip(i) ==                                \* already in the library
  /\ worker[i].pc = "entered"
  /\ WorkerFinish(i, "skipped", item[i].attempts, "none")
  /\ UNCHANGED budget

WorkerFail(i) ==                                \* permanent error, rejected update
  /\ worker[i].pc \in Attempting \cup {"rejected"}
  /\ WorkerFinish(i, "failed", item[i].attempts, "none")
  /\ UNCHANGED budget

WorkerRetry(i) ==                               \* retryable error
  /\ worker[i].pc \in AtItem
  /\ LET tries == worker[i].tries + 1
     IN  IF tries < MaxAttempts
         THEN WorkerFinish(i, "retry_wait", tries, "backoff")
         ELSE WorkerFinish(i, "failed", item[i].attempts, "none")
  /\ UNCHANGED budget

WorkerWait(i) ==                                \* storage or space is unavailable
  /\ worker[i].pc \in Attempting \ {"tagging"}
  /\ Spend("wait")
  /\ \E s \in {"waiting_for_storage", "waiting_for_space"} :
       WorkerFinish(i, s, item[i].attempts, item[i].wait)

WorkerSessionWait(i) ==                         \* no eligible media session
  /\ worker[i].pc \in {"matching", "downloading"}
  /\ Spend("wait")
  /\ WorkerFinish(i, "retry_wait", worker[i].tries, "session")

(* Mutant: a shutdown is not told from a cancellation. *)
MutWorkerCancelled(i) ==
  /\ worker[i].pc \in Attempting \cup {"rejected"} /\ worker[i].cancelled
  /\ WorkerFinish(i, "cancelled", item[i].attempts, "none")
  /\ UNCHANGED budget

WorkerCancelled(i) ==                           \* the run was cancelled
  /\ worker[i].pc \in Attempting \cup {"rejected"}
  /\ worker[i].cancelled /\ process # "stopping"
  /\ WorkerFinish(i, "cancelled", item[i].attempts, "none")
  /\ UNCHANGED budget

(* A service shutdown: the row keeps its working state.                    *)
WorkerAbandon(i) ==
  /\ worker[i].pc \in Attempting \cup {"rejected"}
  /\ worker[i].cancelled /\ process = "stopping"
  /\ Leave(i)
  /\ UNCHANGED <<dbVars, runs, announced, queue, resolver, dispatcher, api, queuePaused,
                 process, budget>>

WorkerStep(i) ==
  \/ WorkerRegister(i) \/ WorkerAdvance(i) \/ WorkerRejected(i) \/ WorkerStore(i)
  \/ WorkerSkip(i) \/ WorkerFail(i) \/ WorkerRetry(i) \/ WorkerWait(i)
  \/ WorkerSessionWait(i) \/ WorkerCancelled(i) \/ WorkerAbandon(i)

(* next_retry_at passes.                                                   *)
RetryDue(i) ==
  /\ item[i].wait # "none"
  /\ item' = [item EXCEPT ![i].wait = "none"]
  /\ UNCHANGED <<job, memVars, announced, api, process, budget>>

-----------------------------------------------------------------------------
(* API operations.  Calls names the ones an instance exercises; at most    *)
(* one handler is between two of its statements.                           *)

Enqueue(j) ==
  /\ process = "up" /\ job[j].status = "absent"
  /\ job' = [job EXCEPT ![j].status = "queued"]
  /\ runs' = runs \cup {j}
  /\ queue' = queue \cup {j}
  /\ UNCHANGED <<item, announced, resolver, dispatcher, worker, api, queuePaused,
                 process, budget>>

(* Handlers are served until the process is gone, also while it stops.      *)
Serving  == process # "crashed"
Call(op) == Serving /\ op \in Calls /\ api.pc = "idle" /\ Spend("call")

Cancel(j) ==
  /\ Call("cancel") /\ job[j].status \in JobActive
  /\ SetStatus(j, "cancelled")
  /\ api' = [pc |-> "cancel_items", job |-> j]
  /\ UNCHANGED <<item, memVars, announced, process>>

CancelItems ==
  /\ api.pc = "cancel_items"
  /\ CancelPendingItems(api.job)
  /\ api' = [api EXCEPT !.pc = "cancel_run"]
  /\ UNCHANGED <<job, memVars, announced, process, budget>>

CancelRun ==
  LET j == api.job IN
  /\ api.pc = "cancel_run"
  /\ EndRun(j)
  /\ resolver' = IF resolver.job = j /\ j \in runs /\ resolver.pc \in {"resolving", "inserted"}
                 THEN [resolver EXCEPT !.cancelled = TRUE] ELSE resolver
  /\ announced' = announced \cup {j}
  /\ api' = IdleApi
  /\ UNCHANGED <<dbVars, queue, dispatcher, queuePaused, process, budget>>

(* The request context ends before the items are cancelled.                *)
CancelAborted ==
  /\ api.pc = "cancel_items" /\ "abort" \in Calls
  /\ api' = IdleApi
  /\ UNCHANGED <<dbVars, memVars, announced, process, budget>>

SetPaused(j, op, value) ==
  /\ Call(op) /\ Exists(j) /\ job[j].paused # value
  /\ job' = [job EXCEPT ![j].paused = value]
  /\ UNCHANGED <<item, memVars, announced, api, process>>

Pause(j)  == SetPaused(j, "pause", TRUE)
Resume(j) == SetPaused(j, "resume", FALSE)

(* The rows R of job j go back to pending; the job follows in Reopen.      *)
ResetRows(j, R) ==
  /\ R # {}
  /\ item' = [i \in Item |-> IF i \in R
        THEN [item[i] EXCEPT !.status = "pending", !.attempts = 0, !.wait = "none"]
        ELSE item[i]]
  /\ api' = [pc |-> "reopen", job |-> j]
  /\ UNCHANGED <<job, memVars, announced, process>>

RetryItem(i) ==
  /\ Call("retry_item")
  /\ ResetRows(JobOf[i], {i} \cap {k \in Item : item[k].status \in {"failed", "retry_wait"}})

RetryFailed(j) ==
  /\ Call("retry_failed")
  /\ ResetRows(j, {i \in ItemsOf(j) : item[i].status = "failed"})

Reopen ==
  /\ api.pc = "reopen"
  /\ LET j == api.job IN
       IF job[j].status \in {"failed", "completed"}
       THEN /\ job' = [job EXCEPT ![j].status = "queued"]
            /\ announced' = announced \ {j}
       ELSE UNCHANGED <<job, announced>>
  /\ api' = IdleApi
  /\ UNCHANGED <<item, memVars, process, budget>>

WakeSessionWaiters ==
  /\ Call("wake")
  /\ item' = [i \in Item |-> IF item[i].status = "retry_wait" /\ item[i].wait = "session"
                             THEN [item[i] EXCEPT !.wait = "none"] ELSE item[i]]
  /\ UNCHANGED <<job, memVars, announced, api, process>>

SetQueuePaused ==
  /\ Call("queue_pause")
  /\ queuePaused' = ~queuePaused
  /\ UNCHANGED <<dbVars, runs, announced, queue, resolver, dispatcher, worker, api, process>>

ApiCall ==
  \/ \E j \in Job : Cancel(j) \/ Pause(j) \/ Resume(j) \/ RetryFailed(j)
  \/ \E i \in Item : RetryItem(i)
  \/ WakeSessionWaiters \/ SetQueuePaused

ApiStep == CancelItems \/ CancelRun \/ Reopen

-----------------------------------------------------------------------------
(* Process: Start with recover, Stop, crash.                               *)

(* Mutant: only the jobs are reset, their items keep the working state. *)
MutResetInterrupted ==
  /\ job' = [j \in Job |-> IF job[j].status \in JobActive
                           THEN [job[j] EXCEPT !.status = "queued"] ELSE job[j]]
  /\ UNCHANGED item

ResetInterrupted ==
  /\ item' = [i \in Item |-> IF item[i].status \in ItemWorking
                             THEN [item[i] EXCEPT !.status = "pending"] ELSE item[i]]
  /\ job' = [j \in Job |-> IF job[j].status \in JobActive
                           THEN [job[j] EXCEPT !.status = "queued"] ELSE job[j]]

ForgetMemory ==
  /\ runs' = {} /\ queue' = {}
  /\ resolver' = IdleResolver /\ dispatcher' = IdleDispatcher
  /\ worker' = [i \in Item |-> IdleWorker]

(* Stop, while the HTTP server drains: every context ends.                  *)
Stop ==
  /\ process = "up" /\ "stop" \in Calls /\ Spend("call")
  /\ process' = "stopping"
  /\ worker' = [i \in Item |-> IF worker[i].pc \in {"idle", "spawned"} THEN worker[i]
                               ELSE [worker[i] EXCEPT !.cancelled = TRUE]]
  /\ UNCHANGED <<dbVars, runs, announced, queue, resolver, dispatcher, api, queuePaused>>

Stopped ==
  /\ process = "stopping" /\ InFlight = {} /\ dispatcher.pc = "idle"
  /\ ResetInterrupted
  /\ ForgetMemory
  /\ process' = "stopped"
  /\ UNCHANGED <<announced, api, queuePaused, budget>>

Crash ==
  /\ process \in {"up", "stopping"}
  /\ Spend("crash")
  /\ ForgetMemory
  /\ api' = IdleApi
  /\ process' = "crashed"
  /\ UNCHANGED <<dbVars, announced, queuePaused>>

(* Mutant: unresolved jobs are not put back into the resolver's queue. *)
MutStart ==
  /\ process \in {"stopped", "crashed"}
  /\ ResetInterrupted
  /\ runs' = Unfinished
  /\ process' = "up"
  /\ api' = IdleApi
  /\ UNCHANGED <<announced, queue, resolver, dispatcher, worker, queuePaused, budget>>

(* The next process; a handler that still ran in the last one is cut off.   *)
(* Interrupted rows are reset, every listed job gets a handle, and the ones *)
(* without items are queued for the resolver again.                        *)
Start ==
  /\ process \in {"stopped", "crashed"}
  /\ ResetInterrupted
  /\ runs' = Unfinished
  /\ queue' = {j \in Unfinished : ~HasItems(j)}
  /\ process' = "up"
  /\ api' = IdleApi
  /\ UNCHANGED <<announced, resolver, dispatcher, worker, queuePaused, budget>>

-----------------------------------------------------------------------------

Next ==
  \/ ResolverStep
  \/ DispatcherStep
  \/ \E i \in Item : WorkerStep(i) \/ RetryDue(i)
  \/ \E j \in Job : Enqueue(j)
  \/ ApiCall \/ ApiStep \/ CancelAborted
  \/ Stop \/ Stopped \/ Crash \/ Start

Spec == Init /\ [][Next]_vars

(* The goroutines, the timers and the supervisor that starts the process   *)
(* again keep running; clients and crashes are under no obligation.        *)
Fairness ==
  /\ WF_vars(ResolverStep)
  /\ WF_vars(DispatcherStep)
  /\ \A i \in Item : WF_vars(WorkerStep(i)) /\ WF_vars(RetryDue(i))
  /\ WF_vars(ApiStep)
  /\ WF_vars(Stopped) /\ WF_vars(Start)

FairSpec == Spec /\ Fairness

-----------------------------------------------------------------------------
(* Properties.                                                             *)

Row == [status : ItemStatus \cup {"absent"}, attempts : Nat,
        wait : {"none", "backoff", "session"}, staged : BOOLEAN]

RowsOK ==
  /\ job \in [Job -> [status : JobStatus \cup {"absent"}, paused : BOOLEAN]]
  /\ item \in [Item -> Row]

ResolverOK ==
  /\ resolver \in [pc : {"idle", "loaded", "resolving", "inserted"},
                   job : Job \cup {0}, cancelled : BOOLEAN]
  /\ resolver.pc # "idle" => resolver.job \in Job

DispatcherOK ==
  /\ dispatcher \in [pc : {"idle", "scan", "listed", "first", "rest"}, todo : SUBSET Job,
                     cur : Job \cup {0}, rows : [Item -> Row],
                     ready : SUBSET [item : Item, tries : Nat],
                     cands : SUBSET Job, rank : [Job -> Nat], busy : SUBSET Job]
  /\ dispatcher.pc = "listed" => dispatcher.cur \in Job

WorkersOK ==
  worker \in [Item -> [pc : Attempting \cup {"idle", "spawned", "rejected"},
                       cancelled : BOOLEAN, tries : Nat]]

ApiOK ==
  /\ api \in [pc : {"idle", "cancel_items", "cancel_run", "reopen"}, job : Job \cup {0}]
  /\ api.pc # "idle" => api.job \in Job

ProcessOK ==
  /\ runs \subseteq Job /\ announced \subseteq Job /\ queue \subseteq Job
  /\ queuePaused \in BOOLEAN
  /\ process \in {"up", "stopping", "stopped", "crashed"}
  /\ budget \in [{"crash", "wait", "call"} -> Nat]

\* Type invariant: the shape of the rows and of the goroutines' local state.
TypeOK ==
  /\ RowsOK /\ ResolverOK /\ DispatcherOK /\ WorkersOK /\ ApiOK /\ ProcessOK

\* While the process runs, and after an orderly stop, no row says matching,
\* downloading, tagging or finalizing unless a worker is at that item; Stop
\* and recover promise that nothing is left recorded as "downloading" while
\* nothing runs (queue.go, Stop).
NoPhantomWork ==
  process \in {"up", "stopped"} =>
    \A i \in Item : item[i].status \in ItemWorking => worker[i].pc \in AtItem \cup {"rejected"}

\* A job that closed as completed or failed has no item left to do, although
\* its state is derived from a list of items that is already old when it is
\* stored (queue.go, collectCandidates).  Checked without the retry calls,
\* which reopen items on purpose.
ClosedJobsSettled ==
  \A i \in Item : job[JobOf[i]].status \in {"completed", "failed"} =>
                    item[i].status \in ItemTerminal \cup {"absent"}

\* Only an explicit cancellation ends a track as cancelled: a cancelled item
\* belongs to a cancelled job, whatever stops, crashes and late workers did
\* (docs/features/downloads.md; worker.go, process and interruption).
OnlyExplicitCancel ==
  \A i \in Item : item[i].status = "cancelled" => job[JobOf[i]].status = "cancelled"

(* Why: what the proof of OnlyExplicitCancel needs to know of every state.   *)

(* The job being resolved has no items yet.                                *)
UnresolvedIsEmpty ==
  resolver.pc \in {"loaded", "resolving"} =>
    \A i \in ItemsOf(resolver.job) : item[i].status = "absent"

(* Only stored items are listed, ready or worked on.                       *)
WorkNeedsRow ==
  \A i \in Item : item[i].status = "absent" =>
    /\ worker[i].pc = "idle"
    /\ dispatcher.rows[i].status = "absent"
    /\ \A c \in dispatcher.ready : c.item # i

(* Cancel has stored the status of the job first.                          *)
CancelStoresJobFirst ==
  api.pc \in {"cancel_items", "cancel_run"} => job[api.job].status = "cancelled"

(* A worker's context ends by a shutdown or because its job was cancelled. *)
CancelledForAReason ==
  \A i \in Item : worker[i].cancelled =>
    process = "stopping" \/ job[JobOf[i]].status = "cancelled"

(* Nothing runs in a process that is gone.                                 *)
DownIsIdle ==
  process \in {"stopped", "crashed"} => /\ \A i \in Item : worker[i] = IdleWorker
                                        /\ resolver = IdleResolver
                                        /\ dispatcher = IdleDispatcher

CancelInv ==
  /\ UnresolvedIsEmpty /\ WorkNeedsRow /\ CancelStoresJobFirst
  /\ CancelledForAReason /\ DownIsIdle /\ OnlyExplicitCancel

\* No job is given a second worker while a job with a ready track has none,
\* so that a large discography cannot monopolise the pool, unless that job had
\* a worker that ended since the pass counted the workers, or since the pass
\* started one for it (queue.go, dispatch, pass 1; docs/features/downloads.md,
\* Fair Division).
Waiting(j) == j \in Candidates /\ InFlight \cap ItemsOf(j) = {}
FairShare ==
  [][\A j \in Job : /\ (InFlight' \ InFlight) \cap ItemsOf(j) # {}
                    /\ Cardinality(InFlight' \cap ItemsOf(j)) > 1
                    => \A k \in Job \ {j} : Waiting(k) => k \in dispatcher.busy]_vars

\* An unfinished job that is not paused is eventually closed or paused.
JobCloses ==
  \A j \in Job : (j \in Unfinished) ~> (j \notin Unfinished)

(* What a client reads: every active state is open.                        *)
JobPhase(s)  == IF s \in JobActive THEN "open" ELSE s
ItemPhase(s) == IF s \in ItemWorking \cup ItemParked THEN "open" ELSE s

Lifecycle == INSTANCE JobLifecycle WITH
  jobPhase  <- [j \in Job |-> JobPhase(job[j].status)],
  itemPhase <- [i \in Item |-> ItemPhase(item[i].status)]

\* The queue implements the life cycle: the checks of SetStatus and UpdateItem
\* under the row lock keep late workers, resolvers and stale passes from
\* undoing what was final (repository/jobs.go, SetStatus and UpdateItem).
LifecycleSpec == Lifecycle!Spec
=============================================================================
