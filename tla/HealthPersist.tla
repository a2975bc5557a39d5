---------------------------- MODULE HealthPersist ----------------------------
(***************************************************************************)
(* How the health of media sessions reaches the database: the ordered      *)
(* queue of snapshots and its single drainer, the flush barrier, removal   *)
(* of a session, the administration that reads and writes the same rows,   *)
(* and the end of the process.  From                                       *)
(* src/backend/internal/mediasession/{pool,service}.go,                    *)
(* database/repository/media_sessions.go and cmd/server/main.go.           *)
(*                                                                         *)
(* A health state is a version: every transition gets the next number, so  *)
(* older and newer can be told apart.                                      *)
(***************************************************************************)
EXTENDS Naturals, FiniteSets, Sequences, Subsequence

CONSTANTS
  Session,      \* session ids
  Admin,        \* administrative requests, one operation each
  None,         \* no session: marks a flush barrier
  MaxVersion,   \* bound: health transitions of a behaviour
  MaxFailures   \* bound: database errors of a behaviour

ASSUME HealthAssumption == None \notin Session

VARIABLES
  row,      \* media_sessions: is there a row, and which health it stores
  mem,      \* p.sessions: is the session in the pool, and with which health
  last,     \* version handed out last
  newest,   \* history: the newest version ever queued for each session
  queue,    \* p.persistQueue: snapshots and barriers
  drainer,  \* the drainer goroutine and what it writes
  failures, \* keys of p.persistFailures
  sealed,   \* p.persistSealed
  probe,    \* an administrator's probe that waits for its snapshot
  admin,    \* administrative requests between two of their steps
  app,      \* the shutdown: workers, phase of close, its flush
  edited,   \* history: sessions whose row administration read or wrote
  errors    \* database errors so far

vars == <<row, mem, last, newest, queue, drainer, failures, sealed, probe, admin, app,
          edited, errors>>

Barrier     == [session |-> None, version |-> 0]
Write(s, v) == [session |-> s, version |-> v]
IdleDrainer == [pc |-> "idle", session |-> None, version |-> 0, ok |-> FALSE,
                dropped |-> FALSE]
NoProbe     == [waiting |-> FALSE, version |-> 0]
NewAdmin    == [pc |-> "new", session |-> None, version |-> 0]

Init ==
  /\ row = [s \in Session |-> [in |-> TRUE, version |-> 0]]
  /\ mem = row
  /\ last = 0
  /\ newest = [s \in Session |-> 0]
  /\ queue = <<>>
  /\ drainer = IdleDrainer
  /\ failures = {}
  /\ sealed = FALSE
  /\ probe = NoProbe
  /\ admin = [a \in Admin |-> NewAdmin]
  /\ app = [workers |-> TRUE, pc |-> "serving", down |-> FALSE, flush |-> "none",
            promise |-> [s \in Session |-> 0]]
  /\ edited = {}
  /\ errors = 0

-----------------------------------------------------------------------------
(* Producers.                                                              *)

StartDrainer == drainer' = IF drainer.pc = "idle" THEN [drainer EXCEPT !.pc = "running"] ELSE drainer

(* Mutant: while a snapshot is queued, another one is not. *)
MutEnqueue(s, v) ==
  IF Len(queue) > 0 THEN UNCHANGED <<queue, newest, drainer>>
  ELSE /\ queue' = Append(queue, Write(s, v))
       /\ newest' = [newest EXCEPT ![s] = v]
       /\ StartDrainer

(* enqueueHealthPersistLocked *)
Enqueue(s, v) ==
  IF sealed THEN UNCHANGED <<queue, newest, drainer>>
  ELSE /\ queue' = Append(queue, Write(s, v))
       /\ newest' = [newest EXCEPT ![s] = v]
       /\ StartDrainer

NextVersion == last < MaxVersion /\ last' = last + 1

(* updateSessionHealthLocked for a session of the pool.  A lease on one    *)
(* that has been removed changes and queues nothing.                       *)
Transition(s) ==
  /\ NextVersion
  /\ IF mem[s].in
     THEN mem' = [mem EXCEPT ![s].version = last'] /\ Enqueue(s, last')
     ELSE UNCHANGED <<mem, queue, newest, drainer>>

(* A worker: the lease or the download ends and nobody waits. *)
RecordOutcome(s) ==
  /\ app.workers
  /\ Transition(s)
  /\ UNCHANGED <<row, failures, sealed, probe, admin, app, edited, errors>>

(* ProbeSession waits until exactly its snapshot is dealt with. *)
RecordFailure(s) ==
  /\ ~probe.waiting /\ mem[s].in
  /\ Transition(s)
  /\ probe' = IF sealed THEN probe ELSE [waiting |-> TRUE, version |-> last']
  /\ UNCHANGED <<row, failures, sealed, admin, app, edited, errors>>

Answered(v) == probe' = IF probe.version = v THEN NoProbe ELSE probe

-----------------------------------------------------------------------------
(* drainHealthPersist.                                                     *)

DrainIdle ==
  /\ drainer.pc = "running" /\ queue = <<>>
  /\ drainer' = IdleDrainer
  /\ UNCHANGED <<row, mem, last, newest, queue, failures, sealed, probe, admin, app, edited, errors>>

DrainBarrier ==
  /\ drainer.pc = "running" /\ queue # <<>> /\ Head(queue).session = None
  /\ queue' = Tail(queue)
  /\ app' = IF app.flush = "waiting"
            THEN [app EXCEPT !.flush = IF failures = {} THEN "stored" ELSE "missing"] ELSE app
  /\ UNCHANGED <<row, mem, last, newest, drainer, failures, sealed, probe, admin, edited, errors>>

DrainTake ==
  /\ drainer.pc = "running" /\ queue # <<>> /\ Head(queue).session # None
  /\ queue' = Tail(queue)
  /\ drainer' = [IdleDrainer EXCEPT !.pc = "writing", !.session = Head(queue).session,
                                    !.version = Head(queue).version]
  /\ UNCHANGED <<row, mem, last, newest, failures, sealed, probe, admin, app, edited, errors>>

(* UpdateHealth: stores the snapshot; fails without a row; or fails on the *)
(* way, before or after the statement has taken effect.                    *)
DrainWrite(ok, stored) ==
  /\ drainer.pc = "writing"
  /\ LET s == drainer.session
     IN /\ ok => stored
        /\ stored => row[s].in
        /\ row' = IF stored THEN [row EXCEPT ![s].version = drainer.version] ELSE row
        /\ IF row[s].in /\ ~ok THEN errors < MaxFailures /\ errors' = errors + 1
                               ELSE UNCHANGED errors
  /\ drainer' = [drainer EXCEPT !.pc = "written", !.ok = ok]
  /\ UNCHANGED <<mem, last, newest, queue, failures, sealed, probe, admin, app, edited>>

(* Mutant: a failed snapshot is queued again. *)
MutDrainRecordRetry ==
  /\ drainer.pc = "written"
  /\ queue' = IF drainer.ok \/ drainer.dropped THEN queue
              ELSE Append(queue, Write(drainer.session, drainer.version))
  /\ drainer' = [IdleDrainer EXCEPT !.pc = "running"]
  /\ Answered(drainer.version)
  /\ UNCHANGED <<row, mem, last, newest, failures, sealed, admin, app, edited, errors>>

(* Mutant: any success clears the record of failures. *)
MutDrainRecordClear ==
  /\ drainer.pc = "written"
  /\ failures' = CASE drainer.dropped -> failures
                   [] ~drainer.dropped /\ drainer.ok -> {}
                   [] OTHER -> failures \cup {drainer.session}
  /\ drainer' = [IdleDrainer EXCEPT !.pc = "running"]
  /\ Answered(drainer.version)
  /\ UNCHANGED <<row, mem, last, newest, queue, sealed, admin, app, edited, errors>>

DrainRecord ==
  /\ drainer.pc = "written"
  /\ failures' = CASE drainer.dropped -> failures
                   [] ~drainer.dropped /\ drainer.ok -> failures \ {drainer.session}
                   [] OTHER -> failures \cup {drainer.session}
  /\ drainer' = [IdleDrainer EXCEPT !.pc = "running"]
  /\ Answered(drainer.version)
  /\ UNCHANGED <<row, mem, last, newest, queue, sealed, admin, app, edited, errors>>

Drain ==
  \/ DrainIdle \/ DrainBarrier \/ DrainTake \/ DrainRecord
  \/ \E ok, stored \in BOOLEAN : DrainWrite(ok, stored)

-----------------------------------------------------------------------------
(* Administration: the database statement first, the pool afterwards.      *)

(* UpdateSession: a new name, and the row as it is now. *)
UpdateMetadata(a, s) ==
  /\ admin[a].pc = "new" /\ row[s].in
  /\ admin' = [admin EXCEPT ![a] = [pc |-> "upsert", session |-> s, version |-> row[s].version]]
  /\ edited' = edited \cup {s}
  /\ UNCHANGED <<row, mem, last, newest, queue, drainer, failures, sealed, probe, app, errors>>

(* UploadCookies: the health of the row starts over as unknown. *)
ResetHealth(a, s) ==
  /\ admin[a].pc = "new" /\ row[s].in /\ NextVersion
  /\ row' = [row EXCEPT ![s].version = last']
  /\ admin' = [admin EXCEPT ![a] = [pc |-> "upsert", session |-> s, version |-> last']]
  /\ edited' = edited \cup {s}
  /\ UNCHANGED <<mem, newest, queue, drainer, failures, sealed, probe, app, errors>>

UpsertSession(a) ==
  /\ admin[a].pc = "upsert"
  /\ mem' = [mem EXCEPT ![admin[a].session] = [in |-> TRUE, version |-> admin[a].version]]
  /\ admin' = [admin EXCEPT ![a].pc = "done"]
  /\ UNCHANGED <<row, last, newest, queue, drainer, failures, sealed, probe, app, edited, errors>>

DeleteRow(a, s) ==
  /\ admin[a].pc = "new" /\ row[s].in
  /\ row' = [row EXCEPT ![s].in = FALSE]
  /\ admin' = [admin EXCEPT ![a] = [pc |-> "remove", session |-> s, version |-> 0]]
  /\ UNCHANGED <<mem, last, newest, queue, drainer, failures, sealed, probe, app, edited, errors>>

(* Mutant: the dropped snapshots are not answered. *)
MutRemoveSessionSilent(a) ==
  /\ admin[a].pc = "remove"
  /\ LET s == admin[a].session
     IN /\ mem' = [mem EXCEPT ![s].in = FALSE]
        /\ queue' = Pick(queue, {n \in DOMAIN queue : queue[n].session # s})
        /\ drainer' = IF drainer.session = s THEN [drainer EXCEPT !.dropped = TRUE] ELSE drainer
        /\ failures' = failures \ {s}
  /\ admin' = [admin EXCEPT ![a].pc = "done"]
  /\ UNCHANGED <<row, last, newest, sealed, probe, app, edited, errors>>

(* RemoveSession with forgetHealthPersistLocked.  Barriers stay. *)
RemoveSession(a) ==
  /\ admin[a].pc = "remove"
  /\ LET s == admin[a].session
     IN /\ mem' = [mem EXCEPT ![s].in = FALSE]
        /\ queue' = Pick(queue, {n \in DOMAIN queue : queue[n].session # s})
        /\ drainer' = IF drainer.session = s THEN [drainer EXCEPT !.dropped = TRUE] ELSE drainer
        /\ failures' = failures \ {s}
        /\ probe' = IF \E i \in 1..Len(queue) : queue[i] = Write(s, probe.version)
                    THEN NoProbe ELSE probe
  /\ admin' = [admin EXCEPT ![a].pc = "done"]
  /\ UNCHANGED <<row, last, newest, sealed, app, edited, errors>>

AdminStep(a) ==
  \/ \E s \in Session : UpdateMetadata(a, s) \/ ResetHealth(a, s) \/ DeleteRow(a, s)
  \/ UpsertSession(a) \/ RemoveSession(a)

-----------------------------------------------------------------------------
(* The end of the process: application.close.                              *)

WorkersStop ==
  /\ app.workers
  /\ app' = [app EXCEPT !.workers = FALSE]
  /\ UNCHANGED <<row, mem, last, newest, queue, drainer, failures, sealed, probe, admin, edited, errors>>

(* awaitWorkers, and SealHealthPersist if they are down in time. *)
Seal ==
  /\ app.pc = "serving"
  /\ app' = [app EXCEPT !.pc = "flush", !.down = ~app.workers]
  /\ sealed' = ~app.workers
  /\ UNCHANGED <<row, mem, last, newest, queue, drainer, failures, probe, admin, edited, errors>>

(* FlushHealthPersist: at once when nothing is queued or running. *)
Flush ==
  /\ app.pc = "flush" /\ app.flush = "none"
  /\ IF drainer.pc = "idle" /\ queue = <<>>
     THEN /\ app' = [app EXCEPT !.promise = newest,
                       !.flush = IF failures = {} THEN "stored" ELSE "missing"]
          /\ UNCHANGED <<queue, drainer>>
     ELSE /\ app' = [app EXCEPT !.promise = newest, !.flush = "waiting"]
          /\ queue' = Append(queue, Barrier) /\ StartDrainer
  /\ UNCHANGED <<row, mem, last, newest, failures, sealed, probe, admin, edited, errors>>

FlushTimeout ==
  /\ app.flush = "waiting"
  /\ app' = [app EXCEPT !.flush = "timeout"]
  /\ UNCHANGED <<row, mem, last, newest, queue, drainer, failures, sealed, probe, admin, edited, errors>>

(* AwaitHealthPersistIdle and closeDatabase. *)
Quiescent == drainer.pc = "idle" /\ queue = <<>>
Close ==
  /\ app.pc = "flush" /\ app.flush \notin {"none", "waiting"}
  /\ app' = [app EXCEPT !.pc = IF app.down /\ Quiescent THEN "closed" ELSE "left_open"]
  /\ UNCHANGED <<row, mem, last, newest, queue, drainer, failures, sealed, probe, admin, edited, errors>>

Shutdown == WorkersStop \/ Seal \/ Flush \/ FlushTimeout \/ Close

-----------------------------------------------------------------------------

Next ==
  \/ \E s \in Session : RecordOutcome(s) \/ RecordFailure(s)
  \/ Drain
  \/ \E a \in Admin : AdminStep(a)
  \/ Shutdown

Spec == Init /\ [][Next]_vars

-----------------------------------------------------------------------------
(* Properties.                                                             *)

(* The shape of every variable. *)
Stored      == [in : BOOLEAN, version : Nat]
Job         == [session : Session \cup {None}, version : Nat]
DrainerType == [pc : {"idle", "running", "writing", "written"},
                session : Session \cup {None}, version : Nat, ok : BOOLEAN, dropped : BOOLEAN]
AdminType   == [pc : {"new", "upsert", "remove", "done"},
                session : Session \cup {None}, version : Nat]
AppType     == [workers : BOOLEAN, pc : {"serving", "flush", "closed", "left_open"},
                down : BOOLEAN, flush : {"none", "waiting", "stored", "missing", "timeout"},
                promise : [Session -> Nat]]
TypeOK ==
  /\ row \in [Session -> Stored] /\ mem \in [Session -> Stored]
  /\ last \in Nat /\ newest \in [Session -> Nat]
  /\ queue \in Seq(Job)
  /\ drainer \in DrainerType
  /\ failures \subseteq Session
  /\ sealed \in BOOLEAN
  /\ probe \in [waiting : BOOLEAN, version : Nat]
  /\ admin \in [Admin -> AdminType]
  /\ app \in AppType
  /\ edited \subseteq Session
  /\ errors \in Nat

(* An older snapshot never replaces a newer one in the database, however   *)
(* transitions, errors, removals and the drainer interleave (pool.go:1564). *)
(* Sessions an administrator changed are the exception.                    *)
NeverOlder ==
  [][\A s \in Session \ edited' : row'[s].version >= row[s].version]_vars

(* A flush that reports no error has stored, for every session that still  *)
(* has a row, the newest snapshot queued before it, or a later one         *)
(* (FlushHealthPersist); and the database is closed only when nothing is   *)
(* queued for it or being written (application.close).                     *)
FlushMeansStored ==
  /\ app.flush = "stored" =>
       \A s \in Session : row[s].in => row[s].version >= app.promise[s]
  /\ app.pc = "closed" => Quiescent

(* Whoever waits, a flush or a probe, waits for something that is queued   *)
(* or being written, and the drainer is at work on what is queued: no      *)
(* removal of a session, failure or shutdown leaves a waiter behind        *)
(* (forgetHealthPersistLocked, drainHealthPersist).                        *)
Queued(what) == \E n \in DOMAIN queue : queue[n] = what
WaitersServed ==
  /\ app.flush = "waiting" => Queued(Barrier)
  /\ probe.waiting => \/ \E s \in Session : Queued(Write(s, probe.version))
                      \/ drainer.version = probe.version /\ drainer.pc \in {"writing", "written"}
  /\ queue # << >> => drainer.pc # "idle"
=============================================================================
