-------------------------- MODULE UpdateTransaction --------------------------
(***************************************************************************)
(* The managed update of ytmdlctl (backend/cmd/ytmdlctl/internal): the     *)
(* commands update, rollback, recover resume and recover restore, which    *)
(* move a deployment between versions, the state file that outlives them,  *)
(* and the database that the started backend migrates on its own.          *)
(*                                                                         *)
(* A step is what happens between two effects outside the process: a save  *)
(* of the state file, a write of .env, a call of the container engine, a   *)
(* query.  A command may end by a crash between any two of them, and a     *)
(* save of the state file may fail, which most of its callers ignore.      *)
(***************************************************************************)
EXTENDS Naturals

CONSTANTS
  Version,      \* releases, in order; the deployment starts with the first
  SchemaOf,     \* the schema a release migrates the database to
  Budget        \* bound: how many calls and saves fail and how many commands crash

ASSUME UpdateAssumption ==
  /\ Version \subseteq Nat \ {0} /\ Version # {}
  /\ SchemaOf \in [Version -> Nat \ {0}]
  /\ \A v, w \in Version : v <= w => SchemaOf[v] <= SchemaOf[w]
  /\ Budget \in [{"failure", "crash"} -> Nat]

VARIABLES
  file,         \* update-state.json
  status,       \* st.Status: what the running command holds it to be, and the
                \* file between two commands
  env,          \* YTMDL_VERSION in .env
  backend,      \* the version whose backend container runs, 0 if none does
  frontend,     \* the version of the frontend container
  schema,       \* MAX(version) of schema_migrations
  command,      \* the ytmdlctl process that holds the lock, and its next step
  raced,        \* history: a migration committed behind a rollback's probe
  lost,         \* history: a command changed what a settled file tells, could
                \* not say so, and none has verified the deployment since
  budget

vars     == <<file, status, env, backend, frontend, schema, command, raced, lost, budget>>
deployed == <<env, backend, frontend, schema>>
record   == <<file, status, lost>>

First == CHOOSE v \in Version : \A w \in Version : v <= w
NoTransaction == [status |-> "idle", current |-> First, target |-> First,
                  before |-> SchemaOf[First], after |-> SchemaOf[First], backup |-> FALSE]

-----------------------------------------------------------------------------
(* state.go *)

Spend(what) == budget[what] > 0 /\ budget' = [budget EXCEPT ![what] = @ - 1]

Interrupted == {"quiescing", "prepared", "migrating", "mutating", "verifying",
                "rollback_in_progress", "recovery_in_progress"}
Settled     == {"success", "rolled_back", "recovered"}
Status      == Interrupted \cup Settled \cup {"idle", "recovery_required"}

NextStatus ==
  [s \in Status |->
     CASE s \in {"idle", "rolled_back", "recovered"} -> {"quiescing", "prepared"}
       [] s = "success"   -> {"quiescing", "prepared", "rollback_in_progress"}
       [] s = "quiescing" -> {"prepared", "rollback_in_progress", "rolled_back"}
       [] s = "prepared"  -> {"migrating", "mutating", "rolled_back", "rollback_in_progress"}
       [] s \in {"migrating", "mutating"} ->
            {"verifying", "rollback_in_progress", "recovery_required"}
       [] s = "verifying" -> {"success", "rollback_in_progress", "recovery_required"}
       [] s = "rollback_in_progress" -> {"rolled_back", "recovery_required"}
       [] s = "recovery_required"    -> {"recovery_in_progress", "rollback_in_progress"}
       [] s = "recovery_in_progress" -> {"success", "recovered", "recovery_required"}]

CanTransition(from, to) == to \in NextStatus[from]

(* Mutant: IsInterrupted does not know the older MUTATING. *)
MutOpen == file.status \in (Interrupted \ {"mutating"}) \cup {"recovery_required"}

Open == file.status \in Interrupted \cup {"recovery_required"}

(* A save whose error ends the command. The record is written beside the   *)
(* old one and takes its name, so that a reader finds either; a save that  *)
(* fails is a crash before it.                                             *)
Save(f) == file' = f /\ status' = f.status /\ UNCHANGED lost

(* What TransitionTo makes of the status when its error is dropped. *)
Transition(to) == IF CanTransition(status, to) THEN to ELSE status

(* A save whose error is dropped: the command goes on all the same.        *)
Told(s)    == file' = [file EXCEPT !.status = s]
Untold     == UNCHANGED file /\ Spend("failure")
TrySave(s) == (Told(s) /\ UNCHANGED budget) \/ Untold

TryTransition(to) ==
  /\ TrySave(Transition(to))
  /\ status' = Transition(to) /\ UNCHANGED lost

(* The file says the transaction is over, and not as the command knows it. *)
Misses(s) == file'.status \in Settled /\ file'.status # s

(* A command ends believing s; the next one believes the file. It ends     *)
(* Verified when it has seen the containers it wanted.                     *)
Ends(s) ==
  /\ command' = "none" /\ status' = file'.status
  /\ lost' = (lost \/ Misses(s))
Verified(s) ==
  /\ command' = "none" /\ status' = file'.status
  /\ lost' = IF file'.status \in Settled THEN Misses(s) ELSE lost

(* Forced: the error paths assign the status without asking, and drop the  *)
(* error of the save, which the bound counts with the one it follows.      *)
RecoveryRequired ==
  /\ Told("recovery_required") \/ UNCHANGED file
  /\ Ends("recovery_required")

-----------------------------------------------------------------------------
(* The lock, the container engine and the backend. *)

(* lock.Acquire: an exclusive flock that a command holds to its end, given *)
(* back by the kernel on a crash.                                          *)
Idle    == command = "none"
At(pc)  == command = pc
Goto(pc) == command' = pc

(* dotenv.UpdateVersion replaces the one line, and the file by its rename. *)
WriteVersion(v) == env' = v

(* A dump counts once pg_restore has listed it and it has its final name.  *)
CreateBackup(f) == [f EXCEPT !.backup = TRUE]

(* VerifyDBQuiescence: no client writes any more.                          *)
Quiescent == backend = 0

(* compose up leaves a container of the wanted version alone.  When it     *)
(* fails on another, that one still runs, or is gone, or is replaced.      *)
HalfUp(old, v) == IF old = v THEN {v} ELSE {old, 0, v}

(* What a call to the container engine may have done by the time it fails  *)
(* or its caller is killed.                                                *)
Halfway ==
  /\ backend' \in CASE command \in {"stop_backend", "restore_stop"} -> {backend, 0}
                    [] command \in {"up_backend", "resume_backend"} -> HalfUp(backend, file.target)
                    [] command \in {"rollback_up", "restore_up"}    -> HalfUp(backend, file.current)
                    [] OTHER -> {backend}
  /\ frontend' \in CASE command \in {"up_frontend", "resume_frontend"} -> HalfUp(frontend, file.target)
                     [] command \in {"rollback_up", "restore_up"}      -> HalfUp(frontend, file.current)
                     [] OTHER -> {frontend}

(* The health endpoint answers once the migrations are done. A release     *)
(* does not mind a schema newer than its own: Migrate applies what is not  *)
(* yet recorded and looks no further.                                      *)
Healthy == backend # 0 /\ SchemaOf[backend] <= schema

(* A started backend applies the migrations the database lacks, each in a  *)
(* transaction of its own, at a time of its own.                           *)
Migrate ==
  /\ backend # 0 /\ schema < SchemaOf[backend]
  /\ schema' = schema + 1
  /\ raced' = (raced \/ command \in {"rollback_env", "rollback_up"})
  /\ UNCHANGED <<record, env, backend, frontend, command, budget>>

-----------------------------------------------------------------------------
(* ytmdlctl update *)

(* FindUpgradePath: a manifest lists paths from schemas up to its own, and *)
(* calls those from a lower one schema-forward.                            *)
UpgradePath(w) == schema <= SchemaOf[w]
Forward(w)     == schema < SchemaOf[w]

Transaction(w, s) ==
  [status |-> s, current |-> env, target |-> w,
   before |-> schema, after |-> SchemaOf[w], backup |-> FALSE]

(* Mutant: the open transaction is not looked at. *)
MutPreflight(w) == Healthy /\ backend = env /\ w > env /\ UpgradePath(w)

(* The preflight of Update: no transaction is open, the backend is healthy *)
(* and of the configured version, the target is newer.                     *)
Preflight(w) ==
  /\ ~Open
  /\ Healthy /\ backend = env
  /\ w > env
  /\ UpgradePath(w)

(* A schema-neutral update dumps the database while the backend runs, and  *)
(* says PREPARED when that is done.                                        *)
UpdateNeutral(w) ==
  /\ Preflight(w) /\ ~Forward(w)
  /\ Save(CreateBackup(Transaction(w, "prepared")))
  /\ Goto("begin_mutation")
  /\ UNCHANGED <<deployed, raced, budget>>

(* A schema-forward one stops the backend first, under QUIESCING.          *)
UpdateForward(w) ==
  /\ Preflight(w) /\ Forward(w)
  /\ Save(Transaction(w, "quiescing"))
  /\ Goto("stop_backend")
  /\ UNCHANGED <<deployed, raced, budget>>

StopBackend ==
  /\ At("stop_backend")
  /\ backend' = 0
  /\ Goto("dump")
  /\ UNCHANGED <<record, env, frontend, schema, raced, budget>>

(* VerifyDBQuiescence and the mandatory backup.                            *)
Dump ==
  /\ At("dump") /\ Quiescent
  /\ Save([CreateBackup(file) EXCEPT !.status = "prepared"])
  /\ Goto("begin_mutation")
  /\ UNCHANGED <<deployed, raced, budget>>

BeginMutation ==
  /\ At("begin_mutation")
  /\ Save([file EXCEPT !.status = IF file.after # file.before THEN "migrating" ELSE "mutating"])
  /\ Goto("write_env")
  /\ UNCHANGED <<deployed, raced, budget>>

WriteEnv ==
  /\ At("write_env")
  /\ WriteVersion(file.target)
  /\ Goto("up_backend")
  /\ UNCHANGED <<record, backend, frontend, schema, raced, budget>>

(* The backend is recreated, then VERIFYING is saved.                      *)
UpBackend ==
  /\ At("up_backend")
  /\ backend' = file.target
  /\ TryTransition("verifying")
  /\ Goto("verify_backend")
  /\ UNCHANGED <<env, frontend, schema, raced>>

(* verifyBackendAcceptance: healthy, of this version, at this schema.      *)
VerifyBackend ==
  /\ At("verify_backend")
  /\ Healthy /\ backend = file.target /\ schema = file.after
  /\ Goto("up_frontend")
  /\ UNCHANGED <<record, deployed, raced, budget>>

UpFrontend ==
  /\ At("up_frontend")
  /\ frontend' = file.target
  /\ Goto("verify_frontend")
  /\ UNCHANGED <<record, env, backend, schema, raced, budget>>

VerifyFrontend ==
  /\ At("verify_frontend")
  /\ frontend = file.target
  /\ Told("success")
  /\ Verified("success")
  /\ UNCHANGED <<deployed, raced, budget>>

(* What a failed call leaves behind; the steps after MUTATING or QUIESCING *)
(* go to handleMutationFailure.                                            *)
UpdateFails ==
  /\ Spend("failure")
  /\ command \in {"stop_backend", "dump", "write_env", "up_backend", "verify_backend",
                  "up_frontend", "verify_frontend"}
  /\ Halfway
  /\ Goto("failed")
  /\ UNCHANGED <<record, env, schema, raced>>

(* handleMutationFailure: the database is asked for its schema.  If it has *)
(* moved, or does not answer, the backend is stopped as far as possible.   *)
ProbeMoved ==
  /\ At("failed")
  /\ \/ schema # file.before /\ UNCHANGED budget
     \/ Spend("failure")
  /\ backend' \in {backend, 0}
  /\ RecoveryRequired
  /\ UNCHANGED <<env, frontend, schema, raced>>

(* Mutant: any failed update is rolled back. *)
MutProbeUnchanged ==
  /\ At("failed")
  /\ TryTransition("rollback_in_progress")
  /\ Goto("rollback_env")
  /\ UNCHANGED <<deployed, raced>>

ProbeUnchanged ==
  /\ At("failed")
  /\ schema = file.before
  /\ TryTransition("rollback_in_progress")
  /\ Goto("rollback_env")
  /\ UNCHANGED <<deployed, raced>>

-----------------------------------------------------------------------------
(* ytmdlctl rollback, and executeRollback, which update calls too.         *)

(* Nothing is said to have happened yet at PREPARED.                       *)
UntouchedPrepared == file.status = "prepared" /\ env = file.current

RollbackAccepted ==
  /\ file.status \notin {"idle", "recovery_required"}
  /\ ~UntouchedPrepared
  /\ schema = file.before

(* A save that fails here leaves everything as it was. *)
RollbackPrepared ==
  /\ UntouchedPrepared
  /\ Save([file EXCEPT !.status = Transition("rolled_back")])
  /\ UNCHANGED <<deployed, raced, command, budget>>

(* The check of the schema, the prompt, and the first save.                *)
Rollback ==
  /\ RollbackAccepted
  /\ TryTransition("rollback_in_progress")
  /\ Goto("rollback_env")
  /\ UNCHANGED <<deployed, raced>>

RollbackEnv ==
  /\ At("rollback_env")
  /\ WriteVersion(file.current)
  /\ Goto("rollback_up")
  /\ UNCHANGED <<record, backend, frontend, schema, raced, budget>>

RollbackUp ==
  /\ At("rollback_up")
  /\ backend' = file.current /\ frontend' = file.current
  /\ Goto("rollback_verify")
  /\ UNCHANGED <<record, env, schema, raced, budget>>

(* Mutant: the end of the rollback is not saved. *)
MutRollbackVerify ==
  /\ At("rollback_verify")
  /\ Healthy /\ backend = file.current /\ frontend = file.current
  /\ UNCHANGED file /\ Verified(Transition("rolled_back"))
  /\ UNCHANGED <<deployed, raced, budget>>

(* Health, version and images are verified, the schema is not.             *)
RollbackVerify ==
  /\ At("rollback_verify")
  /\ Healthy /\ backend = file.current /\ frontend = file.current
  /\ TrySave(Transition("rolled_back"))
  /\ Verified(Transition("rolled_back"))
  /\ UNCHANGED <<deployed, raced>>

RollbackFails ==
  /\ Spend("failure")
  /\ command \in {"rollback_env", "rollback_up", "rollback_verify"}
  /\ Halfway
  /\ RecoveryRequired
  /\ UNCHANGED <<env, schema, raced>>

-----------------------------------------------------------------------------
(* ytmdlctl recover resume: the target is deployed over a database that    *)
(* has its schema.  .env is not written.                                   *)

ResumeAccepted ==
  /\ file.status \in {"recovery_required", "verifying", "migrating"}
  /\ schema = file.after
  /\ CanTransition(file.status, "recovery_in_progress")

Resume ==
  /\ ResumeAccepted
  /\ TryTransition("recovery_in_progress")
  /\ Goto("resume_backend")
  /\ UNCHANGED <<deployed, raced>>

ResumeBackend ==
  /\ At("resume_backend")
  /\ backend' = file.target
  /\ Goto("resume_verify")
  /\ UNCHANGED <<record, env, frontend, schema, raced, budget>>

ResumeVerify ==
  /\ At("resume_verify")
  /\ Healthy /\ backend = file.target
  /\ Goto("resume_frontend")
  /\ UNCHANGED <<record, deployed, raced, budget>>

ResumeFrontend ==
  /\ At("resume_frontend")
  /\ frontend' = file.target
  /\ Goto("resume_reach")
  /\ UNCHANGED <<record, env, backend, schema, raced, budget>>

ResumeReach ==
  /\ At("resume_reach")
  /\ frontend # 0
  /\ TrySave("success")
  /\ Verified("success")
  /\ UNCHANGED <<deployed, raced>>

-----------------------------------------------------------------------------
(* ytmdlctl recover restore: the backup is loaded into a database of its   *)
(* own, which takes the name of the live one.                              *)

RestoreAccepted ==
  /\ file.status # "idle" /\ file.backup
  /\ CanTransition(file.status, "recovery_in_progress")

Restore ==
  /\ RestoreAccepted
  /\ TryTransition("recovery_in_progress")
  /\ Goto("restore_stop")
  /\ UNCHANGED <<deployed, raced>>

(* Writers are stopped; the safety backup may fail without consequence.    *)
RestoreStop ==
  /\ At("restore_stop")
  /\ backend' = 0
  /\ Goto("restore_load")
  /\ UNCHANGED <<record, env, frontend, schema, raced, budget>>

(* The path of the safety backup is saved, which tells the status again;   *)
(* then the temporary database is created, filled and found to have the    *)
(* schema before the update.                                               *)
RestoreLoad ==
  /\ At("restore_load") /\ Quiescent
  /\ Told(status) \/ UNCHANGED file
  /\ Goto("restore_swap")
  /\ UNCHANGED <<status, lost, deployed, raced, budget>>

(* Both renames travel in one query string, hence in one transaction.      *)
RestoreSwap ==
  /\ At("restore_swap")
  /\ schema' = file.before
  /\ Goto("restore_env")
  /\ UNCHANGED <<record, env, backend, frontend, raced, budget>>

RestoreEnv ==
  /\ At("restore_env")
  /\ schema = file.before
  /\ WriteVersion(file.current)
  /\ Goto("restore_up")
  /\ UNCHANGED <<record, backend, frontend, schema, raced, budget>>

RestoreUp ==
  /\ At("restore_up")
  /\ backend' = file.current /\ frontend' = file.current
  /\ Goto("restore_verify")
  /\ UNCHANGED <<record, env, schema, raced, budget>>

RestoreVerify ==
  /\ At("restore_verify")
  /\ Healthy
  /\ TrySave("recovered")
  /\ Verified("recovered")
  /\ UNCHANGED <<deployed, raced>>

(* Every error of the two recoveries asks for the next.                    *)
RecoverFails ==
  /\ Spend("failure")
  /\ command \in {"resume_backend", "resume_verify", "resume_frontend", "resume_reach",
                  "restore_stop", "restore_load", "restore_swap", "restore_env",
                  "restore_up", "restore_verify"}
  /\ Halfway
  /\ schema' \in IF At("restore_swap") THEN {schema, file.before} ELSE {schema}
  /\ RecoveryRequired
  /\ UNCHANGED <<env, raced>>

(* The process is killed, the host restarts, a save fails whose error is   *)
(* returned, or the context of resume is cancelled while it polls, which   *)
(* returns without a save.                                                 *)
Crash ==
  /\ ~Idle
  /\ Spend("crash")
  /\ Halfway
  /\ UNCHANGED file /\ Ends(status)
  /\ UNCHANGED <<env, schema, raced>>

-----------------------------------------------------------------------------
Init ==
  /\ file = NoTransaction
  /\ env = First /\ backend = First /\ frontend = First
  /\ schema = SchemaOf[First]
  /\ status = file.status /\ command = "none"
  /\ raced = FALSE /\ lost = FALSE /\ budget = Budget

UpdateStep ==
  \/ StopBackend \/ Dump \/ BeginMutation \/ WriteEnv \/ UpBackend
  \/ VerifyBackend \/ UpFrontend \/ VerifyFrontend \/ UpdateFails
  \/ ProbeMoved \/ ProbeUnchanged

RollbackStep == RollbackEnv \/ RollbackUp \/ RollbackVerify \/ RollbackFails

RecoverStep ==
  \/ ResumeBackend \/ ResumeVerify \/ ResumeFrontend \/ ResumeReach
  \/ RestoreStop \/ RestoreLoad \/ RestoreSwap \/ RestoreEnv \/ RestoreUp \/ RestoreVerify
  \/ RecoverFails

(* The command lines: each takes the lock before it looks at anything.     *)
RunUpdate   == Idle /\ \E w \in Version : UpdateNeutral(w) \/ UpdateForward(w)
RunRollback == Idle /\ (RollbackPrepared \/ Rollback)
RunResume   == Idle /\ Resume
RunRestore  == Idle /\ Restore

Next ==
  \/ RunUpdate \/ RunRollback \/ RunResume \/ RunRestore
  \/ UpdateStep \/ RollbackStep \/ RecoverStep \/ Migrate \/ Crash

(* A command takes its next step, and one of its outcomes, as long as it   *)
(* runs; a started backend migrates; and the operator of a transaction     *)
(* that is still open runs a command that accepts it.                      *)
Operator == Open /\ (RunRollback \/ RunResume \/ RunRestore)

Fairness ==
  /\ WF_vars(UpdateStep) /\ WF_vars(RollbackStep) /\ WF_vars(RecoverStep)
  /\ WF_vars(Migrate)
  /\ WF_vars(Operator)

Spec == Init /\ [][Next]_vars /\ Fairness

-----------------------------------------------------------------------------
(* Properties *)

Commands ==
  {"none", "stop_backend", "dump", "begin_mutation", "write_env", "up_backend",
   "verify_backend", "up_frontend", "verify_frontend", "failed",
   "rollback_env", "rollback_up", "rollback_verify",
   "resume_backend", "resume_verify", "resume_frontend", "resume_reach",
   "restore_stop", "restore_load", "restore_swap", "restore_env", "restore_up",
   "restore_verify"}

(* The variables stay in their ranges: every status is one state.Load      *)
(* accepts, every container is a release or absent.                        *)
TypeOK ==
  /\ file \in [status : Status, current : Version, target : Version,
               before : Nat \ {0}, after : Nat \ {0}, backup : BOOLEAN]
  /\ status \in Status
  /\ env \in Version
  /\ backend \in Version \cup {0} /\ frontend \in Version \cup {0}
  /\ schema \in Nat \ {0}
  /\ command \in Commands
  /\ raced \in BOOLEAN /\ lost \in BOOLEAN
  /\ budget \in [{"failure", "crash"} -> Nat]

(* An old backend is never started on a newer schema, whatever fails or    *)
(* crashes, unless the new backend, still running, commits a migration     *)
(* after executeRollback or Rollback has read the schema.                  *)
OldNeverOnNew == backend # 0 /\ SchemaOf[backend] < schema => raced

(* When no command runs and the transaction is over, the deployment is the *)
(* version the state file tells, except that the backend may be stopped if *)
(* the file says rolled back.  .env is that version too, so that a compose *)
(* up changes nothing; recover resume, which does not write it, may leave  *)
(* it at the version before.  Only a command that ends with a status it    *)
(* could not write over that of a settled transaction (a rollback of one   *)
(* that succeeded, whose saves fail) leaves it otherwise, until a command  *)
(* verifies the deployment again.                                          *)
Reported == IF file.status = "success" THEN file.target ELSE file.current
SettledIsDeployed ==
  Idle /\ ~Open /\ ~lost =>
    /\ frontend = Reported
    /\ backend = Reported \/ (file.status = "rolled_back" /\ backend = 0)
    /\ env = Reported \/ (file.status = "success" /\ env = file.current)

(* A transaction that an operator finds open and keeps working on with the *)
(* commands that accept it is over in the end, or at a dead end: a         *)
(* recovery that was interrupted, or one no command accepts.               *)
Accepted == UntouchedPrepared \/ RollbackAccepted \/ ResumeAccepted \/ RestoreAccepted
DeadEnd  == file.status = "recovery_in_progress" \/ ~Accepted
OpenEnds == Idle /\ Open ~> Idle /\ (~Open \/ DeadEnd)

(* A transaction changes the version the deployment serves only from start *)
(* to end, one at a time, to its target or back; what is served is not     *)
(* known after a transaction whose last status was lost.                   *)
Telling == Idle /\ ~Open /\ ~lost
Managed == INSTANCE ManagedRelease WITH
  served <- IF Telling THEN frontend ELSE file.current,
  target <- IF Telling THEN frontend ELSE file.target,
  open   <- ~Idle \/ Open,
  known  <- ~lost
ImplementsManaged == Managed!Spec

=============================================================================
