# Verification of ytmdl

TLA+ models of the ytmdl server and its update tool, checked by TLC on small
instances and, for the theorems listed below, proved by TLAPS for every instance.
Paths are relative to the repository; Go packages are under `backend/internal`
unless another directory is given.

## 1. Inventory

### Processes and shared state

The server is one process (`backend/cmd/server/main.go`). It opens the database,
starts the job manager, the media session pool, the subscription scheduler and the
HTTP server, and stops them in the reverse order, workers of the queue while HTTP
requests still drain. `backend/cmd/ytmdlctl` is a separate command that replaces the
server's containers. What survives a restart is the database and the file system;
what ties the components together is below.

| component | state | operations | hard behaviour | module |
|---|---|---|---|---|
| download queue (`jobs`, `database/repository/jobs.go`) | rows of `jobs` and `job_items`; in memory the run handles, the resolve channel, the in-flight map, one goroutine for the resolver, one for the dispatcher, one per running item | enqueue, resolve, dispatch, work on an item, cancel, pause, resume, retry, wake, stop, recover | goroutines act on what they read several statements ago; API handlers are several statements; restart and crash | `JobQueue` |
| item pipeline (`jobs/worker.go`, `jobs/staging_prune.go`, `storage`, `repository/catalog.go`) | staging directories, library files, catalogue rows, the finalizer slot | skip, stage, place, register, clean up, prune | four stores that no transaction spans; storage lost; two recordings of one name | `ItemPipeline` |
| orchestrator and providers (`orchestrator`, `provider`, `jobs/cooldown.go`) | one attempt per worker; cooldowns of two platform families | plan, lease, ask, fall back, report | what another worker met decides which failure ends the search and which waits | `MediaResolution` |
| media sessions (`mediasession`) | sessions and their health, leases, waiters, a queue of health writes | acquire, release, record outcome, add, remove, reload, probe | waiters and leases, cancellation while being woken, a stale reload over newer health | `SessionPool`, `HealthPersist` |
| subscriptions (`subscriptions`) | rows with the time of the next sync, running syncs | schedule, sync, change, delete | a sync works with what it read; a release shared by two artists; shutdown before a claim | `Subscriptions` |
| library trash (`library/trash.go`, `repository/trash.go`) | a journal, media in two places, catalogue rows | trash, restore, purge, recover | file moves and rows in many steps; downloads and scans on the same paths | `Trash` |
| update tool (`backend/cmd/ytmdlctl/internal`) | a transaction file, `.env`, containers, the schema | update, roll back, resume, restore | crash between any two steps; a backend that migrates on its own | `UpdateTransaction` |
| library audit and repair (`library/integrity.go`, `repair.go`, `compat.go`, `service.go`, `locks.go`) | audit runs, findings, files and their rows, locks by key | audit, repair, quarantine, reorganize, retag, delete, cancel | two repairs and a download on one path; a crash in a move | `LibraryRepair` |
| artist identity (`repository/catalog.go`, `cmd/ytmdlctl/internal/reconcile`) | rows of artists, `artist_sources` | find or create, reconcile, merge | maintenance that folds rows while something points at them | `ArtistIdentity` |
| library scanning, artwork (`library/scanner.go`, `artwork.go`) | orphan issues, covers | scan, refresh | progress of a run in memory | - |
| events, estimates (`jobs/events.go`, `eta.go`) | subscriber channels | publish | slow subscribers | - |
| settings (`settings`, `jobs/manager.go`) | the download window | set, read | windows across midnight, changes of the clock | a gate of `JobQueue` |
| playlists (`repository/playlists.go`, `playlists_tools.go`, `trash.go`, migration 0012) | the positions of a list, and where a track in the trash stood | add, add many, remove, reorder, delete a track, trash, restore, make smart | statements of transactions that interleave; a trigger that renumbers without the list's lock | `Playlists` |
| calls of `yt-dlp` (`ytdlp`, `downloader`, `mediasession/session.go`) | running queries and those who wait for them, a store of answers, one execution slot of a session | ask, wait, download, look at the result | one process for several callers, each with a deadline of its own; limits in bytes | `Fetch` |
| accounts (`auth`, `repository/users.go`, `sessions.go`) | users, login sessions, device grants | set up, log in, change, delete, confirm a device | the last administrator; a code that is polled twice | `Accounts` |
| catalogue resolution, matching, lyrics, metadata, tools | none that survives a call | calls to other services and programs | heuristics over external data | outcomes |
| web and Apple clients, scripts | view state | - | out of scope | - |

### How the parts interact

A client's `Enqueue` writes a job row and puts the job into the *resolve channel*.
The **resolver** takes a job, asks the catalogue for its tracks and inserts one item
row per track. The **dispatcher** makes passes: it lists the unfinished jobs, then the
items of one job after the other, stores the job status it derives from them, collects
the items that may run now and hands as many as there are free workers to new
**worker** goroutines. A worker takes its item through matching, downloading, tagging,
staging and finalizing and stores an outcome: completed, skipped, failed, a wait, or
cancelled. **API handlers** write the same rows and end the contexts of running work
through a *run handle* per job. Nothing locks a job across statements: what protects
the rows is that `SetStatus` and `UpdateItem` compare the requested state with the one
the row has at that moment.

To match, a worker enters the **orchestrator**, which asks one provider after the
other for candidates and a source. For YouTube it leases a **session** from the pool;
a protection response puts the session, or the whole platform family, to rest, and
that is what other workers see when they plan. The download that follows holds a
reference to the session and reports on it later. Then the **pipeline** takes the
audio from staging to its place and writes the catalogue. **Subscriptions** enqueue
jobs by themselves. The **trash** moves files of the same library, under a lock of its
own. The **update tool** shares nothing with the server but the containers and the
schema, which a started server migrates.

### What makes it correct

- A client that reads the rows sees a life cycle: tracks appear together; what is
  completed, skipped or cancelled stays so; only a failed track is opened again, and
  only by a retry; a track is cancelled only under a cancelled job.
- A shutdown or crash is never recorded as a cancellation.
- Nothing is recorded as in progress that nobody works on.
- A job is closed only when its tracks are done, and every job is eventually closed.
- The pool is shared fairly between jobs.
- A row of the catalogue names a file that is there and is that recording; no step
  takes away or overwrites media nobody asked to delete.
- A track is given up only after every provider has answered; a pause makes it wait.
- A session is leased, reported on and deleted consistently; nobody waits for ever.
- What a subscription has found is queued once, and nothing is put off unseen.
- An update ends on its target or on the release before.
- A playlist keeps its order, and each caller of a shared query is told its own end.

The file `PROJECT.json` lists, under `hazards`, the places in the code where each of
these could go wrong.

## 2. Plan

Done: the modules of sections 3 to 11 and their runs, and the proofs of section 12.
The order was the order of what is lost when a part goes wrong: jobs, sessions,
deployments, files, then what feeds the queue, then identities and accounts.

Done since the first plan: the proofs it named but for those that are next, and the modules
`Playlists` and `Fetch`.

Every safety property of a passing run is proved; what is left to prove is out of the
prover's reach (section 12, *Not proved*).

Next, models: as pure functions against a reference, the download window, version
comparison and the deduplication of releases.

## 3. The download queue

### Modules

| module | contents |
|---|---|
| `JobStates` | the states of jobs and items, `JobCanTransition`, `ItemCanTransition` and `DeriveParentStatus` of `jobs/job.go`, as sets and operators |
| `JobQueue` | the queue itself |
| `JobLifecycle` | the abstract specification: phases of jobs and tracks |
| `JobQueueClaims` | a statement of the documents that the code does not keep |
| `MCJobQueue` | instances for TLC |
| `JobQueueProofs` | types, `OnlyExplicitCancel`, `NoPhantomWork`, `ClosedJobsSettled`, `FairShare`, and that the queue implements `JobLifecycle` |

### State

| variable | code |
|---|---|
| `job` | `jobs` rows: status and `paused` |
| `item` | `job_items` rows: status, attempts, why `next_retry_at` lies in the future (`wait`), whether a staged hash is stored (`staged`) |
| `runs`, `queue` | `Manager.runs`, `Manager.resolveQueue` |
| `resolver`, `dispatcher`, `worker` | program counter and local variables of the goroutines; `worker[i].pc # "idle"` is membership in `Manager.inFlight`, `cancelled` the state of its context |
| `api` | the handler that is between two of its statements, with its job |
| `announced` | jobs whose closing event was published since they last opened |
| `queuePaused`, `process` | the global pause; up, stopping, stopped or crashed |
| `budget` | bound on crashes, waits and API calls of a behaviour |

A step is one database statement or transaction with the memory operations around it
that no other goroutine can observe halfway. Where the code reads rows and acts on them
later, the model keeps what was read: `dispatcher.rows` and `dispatcher.ready` are the
snapshots of a pass, `dispatcher.busy` is its `activePerJob`, `worker[i].tries` the attempt
count of the snapshot.

### Correspondence

- *Resolver*: `ResolverTake`, `ResolverRegister`, `ResolverStage`, `ResolverFail`,
  `ResolverInsert`, `ResolverMatching`, `ResolverEmpty` are `resolve` and
  `resolveTracks` cut at their statements. A job with an empty catalogue completes.
- *Dispatcher*: `DispatchBegin` (list jobs), `DispatchList` (list the items of one),
  `DispatchEvaluate` (derive and store the status, collect), `DispatchCount`
  (order the candidates, count the workers of each job), then one step per candidate of the
  first pass (`DispatchFirst`) and per item of the second (`DispatchRest`), and
  `DispatchReturn`. Workers may end, and the process stop, between any two of them: how
  many run is looked at again in each, how many a job has is not. A worker leaves the count
  and `inFlight` in one step; between the two the code only waits longer or takes the item
  for running. `SetPriority` can reorder jobs at any moment, so a pass
  may see any order (`Ranks`). What a gate (download window, storage, free space,
  provider cooldown) shows is a choice from `Gates`.
- *Workers*: `WorkerRegister`, then `WorkerAdvance` for every stage, `WorkerRejected`
  when the row was closed meanwhile, and one action for every outcome of `process`:
  store, skip, fail, retry, wait, session wait, cancelled, abandoned.
- *API*: `Cancel`, `CancelItems`, `CancelRun` are the three statements of
  `Manager.Cancel`, `CancelAborted` the end of the request between them; a retry resets
  rows and then reopens the job (`Reopen`). At most one handler is between two
  statements.
- *Process*: `Stop` ends every context while HTTP requests are still served, `Stopped`
  is the end of the last worker and the reset of interrupted rows, `Crash` loses the
  memory at any moment, `Start` recovers.

### Abstractions

Tracks, providers, files and errors are reduced to outcomes. An error is retryable,
permanent or one of the three waits; each may occur at every stage the code lets it
occur. Backoff times are the action `RetryDue`. Items of a job are inserted in one
transaction and are numbered in list order. Database errors of single statements are
not modelled here (`ItemPipeline` has them). Only one API handler at a time is between
two statements; single-statement calls interleave freely with it up to `Budget`.
`ProcessingBand` states of a job are only a display of its items, which is why the
abstract life cycle maps all active states to *open*.

### Runs

| run | instance | shows |
|---|---|---|
| `JobQueue_core` | 1 job, 2 tracks, 2 workers, 1 attempt, a crash, one of all calls (an aborted cancellation among them), gates open, shut and half open | `NoPhantomWork`, `OnlyExplicitCancel`, `LifecycleSpec` |
| `JobQueue_pool` | 2 jobs of 2 tracks each, resolved before downloads may start, 2 workers | `ClosedJobsSettled`, `FairShare` |
| `JobQueue_closes` | a job with a track and an empty one, 2 attempts, one crash, one wait, one call | `JobCloses` under fairness |
| `JobQueue_resume` | 1 job, 1 track, three calls | violation of `ResumedJobCloses`: see section 13 |

Two tracks of one job are enough for every race about one job's status: a pass has
listed one item before and the other after its worker ended. Two jobs of two
tracks are the least for which a job can be given a second worker, in either pass, while
another with a ready track has none; without its exception `FairShare` is violated in this
run. The run begins when both jobs are resolved (`Resolved`), a state every
queue with a shut download window reaches; resolving is in the other runs. One crash is enough because
`Start` leaves nothing of the former process but the rows, and the rows it may find
after a second crash are among those after the first. Deadlock checking is off: when all
work is done and the budget of calls is spent the queue rests.

### Fairness

`FairSpec` assumes weak fairness of the resolver, the dispatcher, each worker, each
timer, the remaining statements of an API handler, and of the end of a stop and the
start after a stop or crash (a supervisor restarts the container). The Go scheduler
justifies the first three, contexts with deadlines the outcome of a worker, the restart
policy of `compose.yaml` the last. Nothing is assumed of clients or crashes.
`SetQueuePaused`, `Pause` and shut gates are excluded from `JobCloses`: each may hold a
job for ever by intent.

## 4. Media sessions

A *session* is a set of cookies. A resolver (`orchestrator.ResolveMedia`, called by a
queue worker) takes a *lease* on one, works, and gives it back; a download that uses the
source reports on the session later. Two modules look at the two locks of
`mediasession.SessionPool`: `SessionPool` at what `p.mu` protects, `HealthPersist` at
what `p.persistMu` protects and at the database. They are kept apart because the only
thing one does to the other is to queue a snapshot when health changes.

### SessionPool

| variable | code |
|---|---|
| `session` | `p.sessions`: present, enabled with cookies, health, `currentLeases`, `dataPlaneRefs` |
| `paused` | `platformFailure.CooldownUntil` lies in the future |
| `waiters` | `p.waiters`, with the owner of each channel |
| `caller` | what each resolver is doing; `checked` are the sessions it excludes, `woken` says that a wake-up was sent to it, `live` that the pool still has the session it holds |
| `deleting` | deletions between the in-use guard and `RemoveSession` |
| `abandoned` | history: a caller left although a wake-up had been sent to it |
| `budget` | bound on requests, admin calls and pauses that end |

Everything under one hold of `p.mu` is a step. `Acquire` is one round of the loop in
`acquire` - `TakeLease`, `Refuse` or `Block` - for a new caller, a caller that wants
another session (`AcquireExcluding`) or a woken one. `GiveUp` is the end of a context
while waiting; when the wake-up has been sent as well, Go's `select` may take either
branch, so both actions are enabled. `ReleaseLease` with its three callers
(`ReleaseUnused`, `ReleaseRestricted`, `ReleaseResolved`) ends the lease, books the
outcome and wakes or drains waiters; `RecordOutcome` is the report of a download with
`ReleaseDataPlane`. `UpsertSession` stands for everything that puts a row into the pool
(creation, cookies, rename), with any content: the row may be older than the pool.
`DeleteSession` is the guard, `RemoveSession` the removal after it.

Time appears as `CooldownEnds` and `PauseEnds`; the length of cooldowns, the strike
counter, the limiter, the gate of the `yt-dlp` process, cookie files and the legacy
session are left out. Which of equally loaded sessions is taken is left open, where the
code prefers the one unused for longest.

`SessionPool_leases` has two sessions of one slot, three callers with a request each,
one admin call and one pause that ends. Three callers are the least for a holder, a
waiter in the FIFO and a waiter that excludes a session; with two slots in total, one
slot per session makes everybody else wait. It checks `SlotsAccounted`,
`NoStrandedWaiter` and, under fairness, `WaiterWoken`.

`FairSpec` lets every caller that holds something or was woken go on: a goroutine is
scheduled, and a lease or a download is bounded by the deadline of its context. The run
uses the weaker `LeanSpec` of `MCSessionPool`: some caller goes on when one can.

### HealthPersist

A health state is a version number; every transition takes the next, so that the model
can tell older from newer. The time of last use, which is not stored at each change, is
not part of it.

| variable | code |
|---|---|
| `row`, `mem` | `media_sessions` and `p.sessions`: present, and the version of the health |
| `queue`, `drainer`, `failures`, `sealed` | `persistQueue`, the goroutine with `persistRunning`, `persistInFlight` and `persistInFlightDropped`, the keys of `persistFailures`, `persistSealed` |
| `probe` | an administrator's probe that waits for its snapshot (`RecordFailure` is synchronous) |
| `admin` | a request between its statement and its change of the pool |
| `app` | the shutdown: are the workers down, was that in time, the phase of `close`, the outcome of the flush and what it promised |
| `last`, `newest`, `edited`, `errors` | versions handed out, newest version queued, sessions administration touched, database errors so far |

`RecordOutcome` (workers, until they stop) and `RecordFailure` (probes, at any moment)
change health and queue a snapshot. The drainer's loop is cut where it takes and
releases `persistMu` and at the statement: `DrainTake`, `DrainWrite`, `DrainRecord`;
`DrainWrite` may fail before or after the statement took effect, as a timeout may.
`UpdateMetadata`, `ResetHealth` and `DeleteRow` are the statements of the service,
`UpsertSession` and `RemoveSession` the second halves. `Seal`, `Flush`, `FlushTimeout`
and `Close` are `application.close`; requests go on meanwhile, because a handler may
outlive the drain of the HTTP server.

The focus *health* of `Features_hold` (section 11) has two sessions (a failure of one must
survive a success of the other), two requests (a deletion and an update that meet), two
transitions (an older snapshot behind a newer one), and one error. It checks `NeverOlder`,
`FlushMeansStored` and `WaitersServed`; the exceptions their definitions make are the ones
section 13 lists. `FlushMeansStored` also says that the database is closed only when
nothing is on its way to it. A removed session's snapshots are taken out of the queue with
`Pick` of the module `Subsequence`, which filters a sequence by the positions it keeps.

## 5. Finding a source

`MediaResolution` is `ResolveMedia` of the orchestrator with its caller in the worker, for
several workers at once. `SessionPool` has the queues and wake-ups of the pool; here only
who holds which lease is kept, and every lease is exclusive (one slot per session).

| variable | code |
|---|---|
| `attempt` | the local state of a worker's attempt: the plan (`youtube`, `soundcloud`), the position in `MediaChain`, the lease, sessions that were refused the video (`checked`), candidates tried, the ranking in hand, the answer; `asked` and `exhausted` are history |
| `cooldown` | `MediaCooldownManager`, by platform family |
| `paused`, `health`, `refs` | of the pool: `platformFailure`, the health and `dataPlaneRefs` of each session |

`Begin` is `planAttempt` (also `Precheck`): it may answer without a request. `Lease` and
`Alternate` are `acquireYouTubeSession` and `AcquireExcluding`, which block while every
session that would do is leased. A request is `Start` and `Answered`; in between every
other worker may act. `DirectAnswered` is the video the catalogue names, `SearchAnswered`
and `ResolveAnswered` the loop. `NextProvider` and `NextCandidate` decide whom to ask
next, by the plan and by the cooldown as it is now. `Leave` is the deferred release with
the attribution of a failure, `Return` and `DownloadEnds` are the worker's. Lengths of
waits are the actions `CooldownEnds`, `PauseEnds` and `SessionRecovers`, each possible at
any moment. Rankings come from the small set `Ranked`; scores are not modelled.

The focus *media* of `Services_hold` (section 11): two workers, two sessions, three providers in two families,
two attempts, one protection response and one cancellation or failed update, with a pool
that is absent, healthy, or rejected from the start. Two attempts with one response are
the least for a plan that another worker makes stale; two sessions the least for two items
to wait for each other. Checked are invariants only: what ends an attempt is the deadline
of its requests. `NoMutualWait` says what a run without fairness can say of progress.

### Fetch

`Fetch` is one level below: the processes of `yt-dlp` that a provider or a download starts.

| variable | code |
|---|---|
| `calls` | a call with its step, whether its caller has given it up (`ended`) or its own clock has (`late`), what it came to, the bytes seen and whether the budget has ended it (`cut`); `heard` is history |
| `inflight` | `queryCache.inflight`: the caller that runs a query for all who ask the same |
| `store` | the answers kept, most recently used first, and whether each has aged |
| `slot` | the execution slot of the session (`acquireExecution`) |
| `left` | bound on calls and on answers that age |

`Lookup` takes an answer that is kept, waits for the one who runs the query, or becomes
that one. `Settle` is its end: those who wait take its answer, but look again when it
stopped for a reason of its own. `TakeSlot`, `Rate` and `Start` are the way to a process,
each of which may end first. A download goes on over `Open`, `Transfer` (with `Progress`),
`Probe`, `Convert` and `Verify`; a *combined* stream has video and a budget of bytes.

The focus *fetch* of `Features_hold` has three callers (one that runs a query, one that
waits, one that comes later), a search and an extraction (of which the store keeps
different failures), six streams around the budget, a store of one answer, a budget of one
unit. `OwnEnds` and `OwnersAtWork` are checked.

## 6. Storing a recording

`ItemPipeline` takes an item from the skip check to completion. It looks inside the steps
that are one outcome in `JobQueue` and knows no dispatcher: `Check` may start any waiting
item, of one job or of several.

| variable | code |
|---|---|
| `status`, `attempts` | the row of `job_items` |
| `staging` | the item's staging directory and the audio in it |
| `disk`, `row` | the library, and `files`: which recording a path belongs to |
| `run`, `finalizer` | the steps of `attempt`; the channel with one slot |
| `writable`, `cancelled` | the storage guard; ended job contexts |

A file name that two recordings share has a *usual* place and one with a suffix for each
recording (`commitRecording`). `PlaceSafe` decides by what is there, the write is a step
of its own. `Finish` has three ends: stored and cleaned, stored but not cleaned, not
stored. `Restart` is a stop at any point with the next start, which resets interrupted
rows and prunes staging.

`ItemPipeline_stores` has two items that want two recordings of one name or the same
recording, two different downloads of a recording, and two events of any kind. One event
leads into each error path, the second makes it happen during the repair of the first.
Fairness is strong for each item: the finalizer slot is a channel, which serves its
senders in order, and an item that waits for the storage is looked at again. The storage
comes back (`WF` of `RegainStorage`); otherwise waiting for ever is intended.

## 7. Subscriptions, the trash and playlists

### Subscriptions

| variable | code |
|---|---|
| `row`, `due` | `artist_subscriptions`, and which rows are due, oldest first |
| `sync` | the guard and the goroutine of `run`, with the flag it read, what it still has to queue, what was covered and whether something was lost; `delivered` is history |
| `scheduler`, `request` | the list of a tick; a `StartSync` between reading the row and taking the guard |
| `enqueue`, `jobs`, `others` | `enqueueTargetMu`, unfinished jobs by syncs and by users |
| `published`, `stored` | releases at the provider and in the library |
| `accepting` | cleared by the shutdown |

`Resolve` may deliver the whole catalogue, part of it with warnings, or fail; `Classify`
compares it with the library; `EnqueueCheck` and `EnqueueCreate` are
`EnqueueReleaseWithPriority` under its mutex; `Complete` writes when the subscription is
due again. `Update`, `Delete` and `StartSync` come at any moment. `Restart` is a crash, or
the start after a shutdown.

`Subscriptions_syncs`: two artists who share a release, so that two syncs want the same
job; two slots, so that they overlap (`main` leaves the number of syncs at its default of
one; the guard against two jobs must not rest on that); a tick of one, so that a disabled
head could block the rest; one call of a user, two failures, one stop or crash. Fairness:
the ticker fires, syncs have a timeout, time passes, a stopped process starts again.
Nothing is assumed of users, publication, or the end of jobs.

### Trash

| variable | code |
|---|---|
| `journal` | `library_trash`: state, the files to move, the row to restore |
| `rows`, `fileRow` | `tracks`, `files` |
| `disk`, `store` | media in the library and in `.ytmdl-trash` |
| `op`, `sweep` | the holder of the lock `trash:operations` with its step; the round of maintenance |
| `job`, `orphans` | the download of a song; `orphanIssues` and the deletion of one |
| `used` | history: the files that were ever written, so that a download writes a new one |
| `taken` | history: files that others deleted or replaced, those the trash took from a download that had not stored its row, and those that were purged although another entry lists them |

An operation is a program over the steps *prepare, out, commit, verify, mark, back,
metadata, remove, forget, unmark*; `OnSuccess` and `OnFailure` are its control flow. A
call of the database succeeds, fails, or succeeds and loses its answer, in which case the
journal decides (`VerifyTrash`, `VerifyRestore`). A move is a look at both places, a link and
a removal per file; a crash, or another actor, may come between any two. What the look saw
is kept in `op` and may be old by the time of the link. Beside it run a download to the same path,
`DeleteTrack`, and the scan with `DeleteOrphanIssue`, which does not hold the lock.

The focus *trash* of `Recovery_ends`: two tracks of one song (one downloaded while the other is in the trash),
two files of each, three user actions, one download, one crash, two failing calls. Three
user actions are trash, restore or purge, and one in between. Two failures let a rollback
fail. Fairness is assumed of the holder of the lock and the hourly maintenance alone.
`NeedsReview` names the entries the code leaves to a person; `InterruptedSettles` excepts
those.

### Playlists

| variable | code |
|---|---|
| `songs` | `tracks` |
| `list` | `playlists`: kept by hand, smart, or gone |
| `at` | `playlist_tracks`: the position of each member |
| `bin` | `library_trash`: the neighbours of each track that is in it |
| `tx` | a transaction with its statement, what it has written and what it still has to write |
| `moves` | bound on calls |

Transactions are READ COMMITTED, which is what the code asks for: a statement sees what
was committed when it began and the transaction's own writes (`View`); an update of a row
that another transaction has written waits and is decided again (`Blocks`, `Apply`). The
trigger of migration 0012 renumbers after a deletion (`Number`, `Apply`) without the lock
of the list, which the calls of `playlists.go` take first (`LockList`). Uniqueness of
positions is looked at when a transaction commits (`Unique`, `Settled`). `LockRestore`
finds the place between the neighbours a track had, which `LockOwn` took down when it was
trashed.

`OrderKept` excepts a reordering and, by name, the one thing the code does not prevent: a
call that others overtook between what it read and what it writes. `read` in `tx` keeps
this (it is history; no guard looks at it): `stale` when a deletion committed under
another's renumbering, which leaves gaps and no more; `wrong` when a call that adds, moves
or restores did, or a stale one meets such a call (`Confuses`). Section 13 has what can
happen then.

The focus *playlists* of `Features_hold` has a list of three of four tracks and two
transactions: three members are the least for a neighbour on each side. The calls of a
behaviour are one of seven small bags (`Moves` in `MCFeatures`), each of the calls that
meet. `OrderKept` is checked, and proved in section 12.

## 8. Update transaction

| variable | code |
|---|---|
| `file` | `update-state.json`: status, current and target release, schema before and after, backup |
| `env` | `YTMDL_VERSION` in `.env` |
| `backend`, `frontend` | the release whose container runs |
| `schema` | the newest migration in the database |
| `command` | the `ytmdlctl` process that holds the lock, and its next step |
| `status` | what the running command holds the status to be: saves fail and their errors are dropped |
| `raced` | history: a migration committed behind a rollback's look at the schema |
| `lost` | history: a command changed what a settled file tells and could not say so, and none has verified the deployment since |

A step ends at an effect outside the process. `UpdateNeutral` and `UpdateForward` are the
two kinds of update, `handleMutationFailure` is `ProbeMoved` or `ProbeUnchanged`; rollback,
resume and restore follow. `Migrate` is the backend's own: it commits one migration at a
time whenever it runs. A failing call and a crash may leave containers halfway
(`Halfway`). A save of the state file may fail. Where its error is returned the command ends
(`Save`, which then counts as a crash before it); where it is dropped (`orchestrator.go:484`,
`:691`, `:701`, `:741`, `:786`, `:804`, `:879`; `recovery.go:225`, `:320`, `:427`, `:631`) the
command goes on with the status it assigned (`TrySave`, `TryTransition`, `RecoveryRequired`).
`ManagedRelease` is the abstract promise: one transaction at a time, which ends on its target
or on the release before, or with the record of it lost. `UpdateTransaction` implements it
with the served release read from the frontend when no transaction is open and nothing is
lost.

The focus *update* of `Recovery_ends`: four releases with schemas 1, 1, 3, 4, so that there are
schema-neutral updates, an update of two migrations (a failure between them leaves a schema
of neither release) and one after it; three failing calls or saves and two crashes, which is one
more than are needed for a failure in the recovery from a failed rollback. Fairness: a
running command goes on, a started backend migrates, and the operator of an open
transaction runs some command that accepts it. `OpenEnds` excepts the dead ends that
section 13 lists.

## 9. Identities and accounts

### ArtistIdentity

| variable | code |
|---|---|
| `rows` | `artists`: the key (provider and source id) each row was created with |
| `sources` | `artist_sources`: the row of each known key |
| `works` | `artist_id` of tracks and releases |
| `subscribed` | artists of `artist_subscriptions` |
| `tx` | the transaction of each download, between its lookup and its commit |
| `backend`, `command` | does the server run; the `ytmdlctl` command that holds the lock, with its next step and plan |

A key with an id of the provider is *external*, one made from a name is not.
`Lookup`/`Commit` is `PersistDownload` as far as artists go: `CommitFound` uses the row
the sources name, `CommitNew` makes one. `Reconcile` and `Merge` are `reconcile-artists`
and `merge-artists`: stop the backend, back up, plan (`Proved`: groups of one name with
at most one external id per provider, and the winner by `IsBetterCandidate`), fold one
group per transaction (`MergeGroup`), verify, start. Every step may fail or be the last
before a crash; `StartByHand` is the operator. `ArtistInit` is a library of an earlier
version, with one row for each of some keys.

The instance has one name with two external ids and one name key of one provider, two
downloads, two failures or crashes, one run of each command and one subscription: two
external ids are what must not be joined, and the name key is what may be joined to
either. `IdentitiesKept` is an action property, because foreign keys would cascade
silently; `Reconciled` says that the check at the end of a complete run never fails.

### Accounts

| variable | code |
|---|---|
| `user`, `session` | rows of `users` and `sessions`; `old` covers expiry and inactivity |
| `grants`, `started`, `expired` | `Service.devices`, in memory |
| `call` | a request between two of its statements, with what it has read |
| `answered` | history: sessions a device got for its grant |

`SetupCount`/`SetupInsert` is the first account under its own advisory lock.
`UpdateUser` and `DeleteUser` take `LockAdminMutation` (`Lock`), look (`Inspect`) and
write (`Write`) in one transaction. `PollDevice` takes the grant out of the map before
its three statements, and `PutBack` returns it when no session could be stored. The
budgets are alternatives (`Budgets`): two requests that set up, update or delete two
users with three calls; or a device with changes of users; or a device with a login.
Three admin calls are promotion of a second administrator and two requests that take
it away from both. `AdminRemains` and `CodeWorksOnce` are checked.

## 10. Audit and repair of the library

| variable | code |
|---|---|
| `disk`, `quarantine` | files of the library: whose recording, and whose tags; `.ytmdl-trash/<finding>/` |
| `filed`, `catalogue` | `files` and `tracks` |
| `findings`, `run` | `library_audit_findings`, the status of `library_audit_runs` |
| `audit`, `layout` | `Service.activeAudit` with its goroutine; the last plan of a reorganization |
| `request` | what each request does: kind, step, finding, locks it holds |
| `download` | a download that places a file and stores its row |
| `untrue`, `crossed`, `unrecorded` | history: tracks a row of which named a wrong file; moves and deletions under way whose files another call wrote; runs whose end could not be written |

The audit walks, reads the tables, inspects, stores and completes (`Walk`, `ReadTables`,
`InspectFiles`, `LastCheck`, `StoreFindings`, `Finish`, `LeaveAudit`), may be cancelled, and is recovered
by the next start (`RecoverRuns`). A request is one of the four repairs, a
reorganization, a retagging or a deletion: it fetches its finding, takes the locks
`Wants` names one after the other (`LockKey`), acts on the file system (`Link` and `Unlink`
are the two halves of a move, `MoveBack` takes one back), then on the rows, then deletes
its finding (`Resolve`). Between any two steps the other request, the audit, a download
or a crash may come.

`NothingLost`: a recording of which there is a copy in the library or in quarantine
keeps one. It excepts what is meant (a deletion, a download in place of the file its row
names) and two things that are not: a move is taken back onto a file that has come to its
source, which `MoveTrack` overwrites; and a move is crossed, that is, another call writes
one of its two files after the link, and the removal of the source takes the last copy. No
lock keeps a download, a reorganization or a deletion of another track from that. A crossing
is what `Crossings` records: a request that stands between its steps while the recording
changes at a place it relies on (`Relies`). The library `Orphaned` has one that loses a
recording. `NothingStuck`
is two statements: whoever holds a lock somebody waits for is working and does not wait
for it in a circle, except the two circles of section 13; and a run listed as running is
worked on, or its end could not be written. It is a safety property because a request
that works has nothing to wait for but a lock.

Eleven starts of small libraries (`Libraries` of `MCServices`), each with its own budget of audits,
repairs, other calls, previews, downloads, cancellations, failing statements and crashes:
files in each other's place; a row whose file is elsewhere; a file with the tags of
another track next to a copy without a row; a file that is only misplaced; two tracks
whose canonical place is the same; a place that only the row of another track names. Three places are the least for a source, a target and
a third that is free or taken.

## 11. Runs of several modules

`Services_hold`, `Features_hold` and `Recovery_ends` check several modules in one run. The
variable `focus` names the module that moves; the others rest in one of their initial
states. The modules share no variable and every property is about one of them, so a
counterexample in a module by itself is one of the run, and the reverse. `MCServices`
extends `MediaResolution`, `ArtistIdentity`, `Accounts` and `LibraryRepair`, `MCFeatures` extends
`HealthPersist`, `Fetch` and `Playlists`, `MCRecovery` extends both of its modules, so that the theorems
of section 12 state the very properties that these runs check. The fairness of `Recovery_ends` is that
of each module under its focus. What composes in the code and is composed in the models is
inside the modules: the download in `Trash` and `LibraryRepair`, the pool in
`MediaResolution`, the commands and the server in `ArtistIdentity`, the trash in
`Playlists`.

| run | focus | properties |
|---|---|---|
| `Services_hold` | media | `NoSilentSubstitute`, `SkippedMeansWait`, `DownloadsProtected`, `NoMutualWait` |
| | artists | `IdentitiesKept`, `Reconciled` |
| | accounts | `AdminRemains`, `CodeWorksOnce` |
| | files | `NothingLost`, `NothingStuck` |
| `Features_hold` | health | `FlushMeansStored`, `WaitersServed`, `NeverOlder` |
| | playlists | `OrderKept` |
| | fetch | `OwnEnds`, `OwnersAtWork` |
| `Recovery_ends` | update | `OldNeverOnNew`, `SettledIsDeployed`, `OpenEnds`, `ImplementsManaged` |
| | trash | `MediaKept`, `NothingMissing`, `NothingOverwritten`, `InterruptedSettles` |
| `ArtistIdentity_joined` | | violation of `NamesakesApart`: see section 13 |

`Services_hold` and `Features_hold` (776,366 states) have safety properties alone and
identify runs that differ by a permutation of requests, workers, sessions or callers.

## 12. Proofs

Every theorem is of a specification for all values of its constants, under the assumption
that its module names. Each comes from an inductive invariant that TLC has checked first
on the instance of the run.

| module | theorems |
|---|---|
| `JobQueueProofs` | `TypeCorrect`, `CancelSafe`, `NoPhantoms`, `QueueImplements`, `ClosedSettled`, `SharedFairly` |
| `SessionPoolProofs` | `PoolTypes`, `LeasesAccounted`, `NobodyStranded` |
| `ItemPipelineProofs` | `PipelineTypes`, `CatalogueTrue`, `CompletedStored`, `NothingReplaced` |
| `SubscriptionsProofs` | `WorkShapes`, `OneJob`, `LateCovered` |
| `RecoveryProofs` | of `UpdateTransaction`: `UpdateTypes`, `OldOnNew`, `SettledDeployed`, `Implements`; of `Trash`: `EntriesTyped`, `MediaRecoverable`, `BothSidesComplete`, `NoMoveLosesAFile` |
| `ServiceProofs` | of `MediaResolution`: `Types`, `NeverSubstituted`, `GivenUpHonestly`, `DownloadsCounted`, `WaitsEnd`; of `LibraryRepair`: `RepairTypes`, `NobodyStuck`, `RecordingsStay` |
| `IdentityProofs` | `AdminStays`, `CodeOnce`, `NothingForgotten`, `NothingLeft` |
| `FeatureProofs` | `HealthTypes`, `FlushStores`, `WaitersKept`, `VersionsGrow`, `EndsAreOwn`, `NobodyAbandoned`, `OrderStays` |

### The download queue

These proofs assume only `JobQueueAssumption`: finite sets of jobs and items of natural
numbers, at least one worker and attempt, and known names in the parameter sets.

- `TypeCorrect`: `Spec => []TypeOK`, by induction, one lemma per goroutine. Helper
  lemmas say what `SetStatus`, `UpdateItem`, `CancelPendingItems`, `EndRun`, `Leave` and
  the reset do to the shape of rows and workers.
- `CancelSafe`: `Spec => []OnlyExplicitCancel`. It is not inductive: an item becomes
  cancelled when a handler, a resolver or a worker acts on what it knew earlier.
  `CancelInv` adds what they rely on: the job being resolved has no items
  (`UnresolvedIsEmpty`), only stored items are listed, ready or worked on
  (`WorkNeedsRow`), `Cancel` stored the job's status first (`CancelStoresJobFirst`), a
  worker's context ended by a shutdown or because its job is cancelled
  (`CancelledForAReason`), and nothing runs in a process that is gone (`DownIsIdle`).
  The lemma `Quiet` disposes of the steps that touch none of this.
- `NoPhantoms`: `Spec => []NoPhantomWork`, inductive once types are known.
- `QueueImplements`: `Spec => LifecycleSpec`, the safety of the abstract life cycle. The
  initial states correspond and each step is a step or a stutter of `JobLifecycle`, given
  `TypeOK`, `CancelInv` and `ExistInv`: what a resolver, a worker or a pass has in hand
  are rows that exist, and rows are never taken away.
- `ClosedSettled`: `Spec => []ClosedJobsSettled` for every queue in which nobody retries
  (`Calls` without the two kinds of retry). With them it does not hold of the code: a
  track that is retried behind a pass's back stays pending under a job the pass closes
  (section 13). `JobQueue_pool` checks it on an instance of the hypothesis. The pass
  decides by rows it read earlier; `SettledInv` says that what such a snapshot shows as
  final is final still.
- `SharedFairly`: `Spec => FairShare`, for any number of jobs and workers and any order of
  priorities. `PassInv` says what the two passes know: `busy` holds the job of every running
  worker, and a candidate is in it or still to come in the first pass. So a job that gets a
  second worker is in `busy`; the first pass then serves it only when it is alone, and in the
  second every other candidate is in `busy`, too. That is all the code gives (section 13).

### The session pool

`SessionPoolProofs` assumes only `SessionPoolAssumption`. Its three theorems come from
two inductive invariants, each with one lemma per action.

- `PoolTypes`: `Spec => []TypeOK`, and `LeasesAccounted`: `Spec => []SlotsAccounted`, from
  `LeaseInv`. The counts of a session equal the cardinalities of the sets of callers
  that hold it, so each step is a statement about a set that gains or loses one caller
  or keeps its members. `LeaseNamed` is the strengthening: a caller whose lease is live
  names a session that the pool has, so that its release finds the count it lowers.
- `NobodyStranded`: `Spec => []NoStrandedWaiter`, from `PoolInv`. A step that removes the
  reason why a waiter may block must wake somebody, and it wakes the head of the FIFO
  or everybody; so the invariant `QueueInv` says what is in the FIFO: callers that wait,
  are not woken and exclude nothing (`Queued`), each once (`Distinct`), and that only a
  waiting caller is woken (`WokenWaits`). That a slot that is taken has a holder who will
  give it back is `SlotsAccounted`, on which this proof rests.

### The item pipeline

`ItemPipelineProofs` assumes `ItemPipelineAssumption`. `PipelineTypes` is
`Spec => []TypeOK`; `CatalogueTrue` (`RowsAreTrue`), `CompletedStored` (`SettledIsStored`)
and `NothingReplaced` (`RecordingsKept`) come from one invariant, `TypeOK /\ PipelineInv`.
None of the three is inductive: an attempt writes a row for a file it has placed some steps
earlier, while others placed theirs. `PipelineInv` says what an attempt may rely on at each
step: staging has the wanted recording from finalizing on (`StagedIsWanted`), a file is
replaced only where the row names the same recording (`ReplacesItsOwn`), the file is where
it was placed until its row is written (`PlacedIsThere`), and is in the catalogue from then
on (`PersistedIsStored`). The invariant is one of each item (`ItemInv`), so a step of one
item must only let the library grow (`LibraryGrows`) to keep that of the others; all ways
out of an attempt are one case (`Ends`).

### The subscriptions

`SubscriptionsProofs` assumes `SubscriptionsAssumption`. `WorkShapes` is the types of what a
sync works on. `OneJob` is `Spec => []OneJobPerRelease`, with the strengthening
`HolderCreates`: a sync that is about to create a job holds the mutex, and its release has
no job yet. Every step is one of two kinds: it moves at most one sync, which does not come
to create (`LocalStep`), or it moves none and no count of jobs grows (`Beside`); only
`EnqueueCheck`, `EnqueueCreate` and `Restart` need an argument of their own.

`LateCovered` is the action property `LateMeansCovered`, from `CoverInv`: of all that was
delivered to a sync, each release is still to be classified or queued, or was covered, or
the sync knows that something was lost.

### The update transaction

`RecoveryProofs` has this and the trash. It assumes what `UpdateTransaction` says of the
releases and their schemas. `IInv` says for every command which statuses of the file, which containers and
which schema its next step may find (`Settled`, `Interrupted`, `Containers`, `Outcomes`);
each step is one lemma. `OldOnNew` and `SettledDeployed` follow from it. A
command whose saves were lost works on a file that says something older; the invariant
follows `status`, what the command holds, and not the file: what a file that says success
tells of the containers is known only while no command runs and nothing is lost. `Implements` is that each
step is one of `ManagedRelease` or a stutter, under the mapping that reads the served release
from the frontend when no transaction is open; a command that ends with its status unsaved
over a settled file is the step `Lose`. Fairness is no part of it.

### The trash

For every number of tracks, with several to a path, and of operations, downloads, failures
and crashes. `TrashAssumption` says only that ids and files are told from `None`, and that the
tracks in the library at the start have a recording and a path each of their own. `TrashInv`
has three parts:

- the types (`EntriesTyped`);
- `DataInv`, what holds between the tables and the disk whoever acts: a path has at most one
  row and a row its path (`Rowed`); who is past the commit has no row (`OutOfRows`); the store
  holds for a track what its entry lists and nothing else (`Listed`), all of it when the entry
  is ready (`Complete`); the file that a row, an entry or a download names is where it can be
  found, or on the record of what was taken (`RowFile`, `EntryFile`, `JobFile`); a recording
  is claimed by one row, or one entry, or both of one track, or one download (`Claims`); what
  is named anywhere was written (`Written`);
- `OpInv`, what a step of an operation may rely on: the state of its entry (`Standing`), that
  both names are there between link and removal (`Linked`), and how far its moves have come
  (`Progress`): an entry is forgotten or restored only when its store is empty, and committed
  or taken back only when it is full.

Without `Claims` this is not inductive: that a move never removes the last name of a file
rests on the file it looks at being nobody else's. Each lemma proves `TrashInv' /\ Kept` for
one action, where `Kept` is what the action property says of a step. The other actors are
disposed of by `Beside`: they leave entries and store alone, and put what they take on the
record. `MediaRecoverable` is `MediaKept`, `BothSidesComplete` is `NothingMissing`,
`NoMoveLosesAFile` is `NothingOverwritten`.

### Finding a source

Of `ServiceProofs`, this part assumes that rankings are sequences of candidates and that the
video a catalogue names is one (`MediaResolutionAssumption`). `ResolutionInv` has three parts:
`World` (the shape of cooldowns, pool and references), `AllGood` (each attempt is where its
plan, lease, ranking and history allow it to be) and `Counted`, which is
`DownloadsProtected`. An attempt is touched by others only through `World`, so a step of
one is one lemma about one attempt. The chain of providers is a function of the plan, not
a recursive filter. `WaitsEnd` needs no fairness: nobody who waits for a session holds one.

### Identities and accounts

`IdentityProofs` has both. `AdminStays`: the count of other administrators that `Inspect`
reads stays true until `Write`, because whoever lowers it holds the same lock.
`CodeOnce`, for every set of grants that does not hold the value for no grant: a grant is
in the map, with one poll, or gone. `NothingForgotten` is the action property
`IdentitiesKept` and `NothingLeft` is `Reconciled`, both from `ArtistInv`: the tables are
consistent (`Tables`), a transaction's row is there unless a merge took it, which cannot be
while the backend runs (`Transactions`, `Process`, `Stopped`), the one group
of `merge-artists` can be folded, its rows exist and the winner stays (`Chosen`), and what
`reconcile-artists` has left to merge is what an analysis would find (`Exact`).

### Health, calls of `yt-dlp` and playlists

`FeatureProofs` has `HealthPersist`, `Fetch` and `Playlists`. Lemmas about `Subsequence` come first: the
positions that are kept and the positions of the result correspond one to one and in order
(`RankBijection`), so that `Pick` keeps what it should and nothing else (`Picked`).

- `HealthInv`: the types; versions were handed out (`Numbers`); the versions of one session
  ascend in the queue and the drainer's hand (`Ordered`), what is queued behind a
  barrier is newer than what the barrier promised (`BarrierLast`), the row is behind what is queued (`RowBehind`) and in the end equal to
  it (`Written`, `Trails`), and what was deleted has none (`Gone`); what a flush has promised is stored or on its way, and stays
  stored (`StoredStays`); nothing is queued after the seal (`Sealed`). `FlushStores`,
  `WaitersKept` and the action property `VersionsGrow` follow.
- `FetchInv`: types; who runs a query is at work on it and nobody else is (`Owners`); the
  slot is with who is about to have a process (`Slots`); each call's result has a reason of
  its own (`CallGood`); the store has one entry for a query and no more than it may
  (`StoreInv`). `EndsAreOwn` and `NobodyAbandoned` follow.
- `OrderStays` is the action property `OrderKept`, for any finite set of tracks, any list
  and any number of transactions. `PlaylistInv` says of one transaction's record and the
  places what it may count on (`Shape`, `Orderly`), and of two that they exclude each other
  (`Apart`), so that a step of one is a lemma about that one. `Orderly` is about what it has
  written and will write, unless that is wrong: it keeps the order of what it touches
  (`AmongThem`); what it leaves alone stays below, or has come in above since (`WithOthers`);
  a fresh renumbering only lowers (`Lowers`), a restore only raises what is behind it by one
  (`Raises`), and what is added is above all (`AddsLast`). That a renumbering starts so rests
  on ranks: they rise with the places (`RanksRise`), and where a place is its own rank, all
  before it are taken (`RanksFull`). `PeerOrder` is the heart: a commit of another leaves all
  of this true, or makes the record wrong. An earlier form of `OrderKept`, which excepted
  only restores, could not be proved and was not true: overtaken additions do it too.

### Audit and repair

The second part of `ServiceProofs` assumes that the canonical place of a track is a place,
that no track or place is the value for none, and that the libraries to begin with have
their shape (`RepairAssumption`): any library, any places, and any number of requests,
audits, downloads and failures. `RepairTypes` says with the shapes what a request works on
at each step (`Aimed`).

- `NobodyStuck` is `[]NothingStuck`, from `StuckInv`. `HeldOK` gives the locks of a request
  that waits: none before the first, the source before the second, paths alone before the
  third, and only a missing file is expected where it is (`TwiceOnlyMissing`, of findings
  stored, found and taken up). So a holder that waits for a lock of the waiter is one of two
  at their second lock, with exchanged paths, or the waiter itself. `RunsHeld` lists the
  runs that are running and not unrecorded: the audit's at most, and none once it leaves.
- `RecordingsStay` is the action property `NothingLost`, from `LostInv`: whose row names a
  wrong file is in `untrue`; and `Left`, what a removal relies on unless it was crossed: the
  file that a move removes is at its other end too, and what a deletion removes is of its
  track. Steps of others are one lemma (`LeftByOthers`), as they leave the places alone that
  are relied on, or cross. An earlier form of `NothingLost`, without crossed moves, was not
  inductive and not true; TLC found nothing against it in the first ten libraries, and a
  loss in the one that was added.

### Not proved

Only model-checked: the liveness properties `JobCloses`, `WaiterWoken`, `OpenEnds`,
`InterruptedSettles`, `ItemsSettle` and `ReleasesFetched`, which are out of reach of the
prover, and the three claims whose counterexamples the runs of section 13 keep. No module about which theorems are proved declares a RECURSIVE operator.

## 13. Where documents and code disagree

Three runs keep a counterexample:

- **Resumed jobs** (`ResumedJobCloses`, run `JobQueue_resume`): a job that is paused
  before it is resolved and survives a restart is not put back into the resolver's
  channel (`recover` lists only unpaused jobs), and `Resume` only signals the
  dispatcher, which skips jobs without items. The job stays queued until a further
  restart.
- **An old backend on a new schema** (`OldNeverStarted`, run
  `UpdateTransaction_old_on_new`): after a failed update the schema is read while the
  target backend may still be migrating. If it has not moved, the rollback recreates the
  old containers and never looks again; a migration that commits in between leaves the
  old release on the newer schema, reported as rolled back. `OldNeverOnNew` shows that
  this is the only way.

- **Namesakes joined** (`NamesakesApart`, run `ArtistIdentity_joined`): `merge-artists`
  gives a row that was created from a name the sources of a real artist, and
  `reconcile-artists` looks only at the key a row was created with (`reconcile.go:616`).
  It takes the row for one without an identity and folds it into a namesake with another
  real id, against `artistidentity/identity.go:6-8`.

The models show the following too; most of it was met as a counterexample to a property
that a document or comment suggested, and no run of its own keeps it:

- *Queue*: an item that meets a storage or space wait after matching has begun keeps the
  attempt that matching booked (`worker.go:299`, against `apperr/errors.go:290`). A pass
  stores the terminal status before `finalize` looks at the job; `finalize` finds it closed
  and returns, so that `job.completed` or `job.failed` is not published and the run handle
  stays registered (`queue.go:344`, `:397`). Pending items under a cancelled job, when the
  resolver inserts between two statements of `Cancel`; an item retried while a pass holds
  its old row, which stays pending under a job the pass then fails, or keeps its old
  attempt count; a worker started for an item another worker has just finished. The passes
  of `dispatch` go by a count of the workers of each job that is made before them
  (`queue.go:229`), and by the number of running workers as it is at each turn: when the
  only worker of a job ends between the two, the job is passed over and another may get two
  workers while it has none, until the next pass (`docs/features/downloads.md`, *Fair
  Division*). `FairShare` excepts the jobs that had a worker at the count or since.
- *Sessions*: a waiter whose context ends just after a release has taken its channel off
  the FIFO leaves without passing the wake-up on, and the next waiter stays blocked
  although a session is free (`pool.go:685`; comment at `pool.go:538`). A rename writes name
  and enabled, reads the row back and puts it into the pool whole, over a health transition
  the drainer has not written yet (`service.go:459`, against `pool.go:1304`). A session that
  an update racing a deletion puts back into the pool without a row.
- *Finding a source*: a worker triggers the cooldown of the job's preferred family for a
  rate limit that came from another (`worker.go:317`; `docs/features/providers.md:26` says
  that cooldowns of one family never affect the other). If the update of the row between
  resolution and download fails, nobody gives back the data-plane reference, and the
  session counts as in use until a restart (`worker.go:341`); `DownloadsProtected` bounds
  references only from below, and the callers of `SessionPool`, about which
  `SlotsAccounted` is proved, report every download. The direct path asks for its video
  without a look at cooldowns, although the comment at `orchestrator.go:315` says that
  every request is preceded by one.
- *Pipeline*: when writing the rows fails, or the process stops after placement, and the
  next download has another hash, the placed file is left without a row. A recording whose
  row is at the suffixed place cannot be downloaded again. A failed last update leaves the
  item in a working state that only a restart repairs.
- *Subscriptions*: a sync works with the flags it read before it was admitted, and a tick
  syncs a subscription that was disabled after it was listed. `StartSync` may pass the
  check of the shutdown and begin after `Stop` has waited.
- *Trash*: one entry that recovery cannot decide ends every round before its purges
  (`trash.go:317`, against `library-tools.md:123`). `DeleteOrphanIssue` checks the row and
  removes the file in two steps without a lock. A scan during an interrupted restore lists
  restored media as orphans. A download that placed its file just before the trash
  operation loses it to the trash. One that places it between the look at the file and the
  link (`trash.go:127`, `:146`) puts a file into the store that nobody compared: the entry
  becomes ready with a file that is not the one it lists, which can neither be restored nor
  purged. `NothingMissing` excepts the files that were taken so. A restore that has moved its
  media back and then loses their place to a download leaves an entry and a row that name the
  same files; the purge of that row's track takes the media the entry lists (the exception in `MediaKept`).
- *Playlists*: the anchors of an entry do not make the order of several restores irrelevant,
  as the comment at `trash.go:98` says: with A, B, C in a list, B trashed before A, restoring
  B and then A gives A before the first of its successors as it stood without B, so that
  the result is B, A, C. The trigger of migration 0012 renumbers by what it has read and
  does not lock the list. Two deletions at a time leave a gap, against "contiguous 1..N"
  (`0012_playlists_favorites.sql:39`), until the next renumbering. A renumbering that an
  addition or a restore overtakes, or the compaction of `AddTrack` that a deletion overtakes,
  can exchange tracks; those are the commits `OrderKept` excepts.
- *Update*: `recover` suggests commands that refuse (`recovery.go:138`). A rollback from
  PREPARED says that nothing was changed and leaves the backend stopped. Resume does not
  write `.env`, so that a later `compose up` goes back. A crash in
  `recovery_in_progress`, or in a mutation or rollback when the schema has moved, leaves a
  state that no command accepts. A rollback of a successful update whose first save fails
  (`orchestrator.go:804`) changes `.env` and the containers under a file that says success:
  a crash, a failure whose save is lost as well (`:786`) or a lost last save (`:879`) leaves
  it saying success, for the target, over the version before or no frontend at all. No
  command reports it; it stays so until one verifies the deployment again, which an update
  that is broken off before its end does not (`lost`, in `SettledIsDeployed` and
  `ImplementsManaged`).

- *Accounts*: an update of a user writes back the field the request left out, as it was
  before the lock was taken, over another administrator's change (`auth/service.go:541`).
  `VerifySession` deletes a session after any failed read of its user, not only when the
  user is gone. A grant that is put back ignores the bound of 128.
- *Audit and repair*: the repair of a finding whose expected path is its own path (missing
  file, missing cover, duplicate) locks that path twice and never returns; two repairs with
  exchanged paths lock them in opposite orders (`repair.go:304`). The placement of a
  download takes no path lock, although the comment there and `CHANGELOG.md:941` say so; it
  may come between the comparison of the hash and the move. `compat.go:216` says that "a
  failure can never leave a row pointing at a file that is not there"; a `FindByPath` or
  `Upsert` that fails after the move does. `applyMoveCanonical` ignores the errors of its
  row statements and reports success. A crash between link and unlink leaves both files,
  and the repair refuses from then on. Taking a move back replaces a file that arrived at
  the source meanwhile (`compat.go:173`). `MoveTrack` removes its source without a look at
  what it left at the target: a download that replaces the target between the two, or
  another call that takes the source away so that a new file comes to it, makes the removal
  take the last copy of a recording (`storage/library.go:230`). The end of an audit and its cancellation
  overwrite each other. Findings of a track that was deleted during the audit make the
  whole run fail. Every action is accepted for every finding.

## 14. Not modelled, and limits

`components` in `PROJECT.json` lists each part of the repository with its sources and the
reason or the plan. In short: clients of external services and programs, matching, tagging
and file formats are heuristics over strings and audio and appear as outcomes;
radio, catalogue queries and settings are single statements
under the database's transactions; passwords, tokens and limits on attempts are left out of
`Accounts`; configuration, HTTP encoding and the printing of
`ytmdlctl` have no state. They are the larger part of the repository's lines.

The types of every module about which theorems are proved are proved and not among the
properties of a run.

Every run ends with CHECK_DEADLOCK FALSE, because every system here may rest: its work is
done and the calls of the environment are spent. That nothing rests too early is what the
liveness properties and `NoMutualWait`, `NoStrandedWaiter` are for.
