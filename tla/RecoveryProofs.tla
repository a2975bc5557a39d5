--------------------------- MODULE RecoveryProofs ---------------------------
(***************************************************************************)
(* The two journals: the state file of ytmdlctl and the table of the trash.*)
(*                                                                         *)
(* For every list of releases, every schema they migrate to and any number *)
(* of failures and crashes: no backend is started on a schema newer than   *)
(* its own unless a migration raced, a transaction that is over leaves the *)
(* version the state file tells unless its last status was lost, and the   *)
(* deployment implements ManagedRelease.                                   *)
(*                                                                         *)
(* For every library, with several tracks to a path, and any number of     *)
(* operations, downloads, failing calls, lost answers and crashes: the     *)
(* media that the journal lists are there, an entry or a row that is       *)
(* settled has its files, and moving to and from the trash costs none.     *)
(***************************************************************************)
EXTENDS UpdateTransaction, Trash, WellFoundedInduction, TLAPS

Deploying   == {"verify_backend", "up_frontend", "verify_frontend"}
RollingBack == {"rollback_env", "rollback_up", "rollback_verify"}
Resuming    == {"resume_backend", "resume_verify", "resume_frontend", "resume_reach"}
Restoring   == {"restore_stop", "restore_load", "restore_swap", "restore_env",
                "restore_up", "restore_verify"}

(* The status of a command at a step, and the one on disk, which may be    *)
(* behind after a lost save. A rollback that runs again over a settled     *)
(* transaction, or over an interrupted recovery, does not change it.       *)
Phases ==
  /\ command = "none" => status = file.status
  /\ command \in {"stop_backend", "dump"} => file.status = "quiescing" /\ status = "quiescing"
  /\ command = "begin_mutation" => file.status = "prepared" /\ status = "prepared"
  /\ command \in {"write_env", "up_backend"} =>
       status \in {"migrating", "mutating"} /\ file.status = status
  /\ command \in Deploying =>
       status = "verifying" /\ file.status \in {"migrating", "mutating", "verifying"}
  /\ command = "failed" =>
       /\ status \in {"quiescing", "migrating", "mutating", "verifying"}
       /\ file.status \in {"quiescing", "migrating", "mutating", "verifying"}
  /\ command \in RollingBack =>
       /\ status \in {"rollback_in_progress", "rolled_back", "recovered", "recovery_in_progress"}
       /\ file.status # status =>
            /\ status = "rollback_in_progress"
            /\ file.status \in {"success", "quiescing", "migrating", "mutating", "verifying"}
  /\ command \in Resuming \cup Restoring =>
       /\ status = "recovery_in_progress"
       /\ file.status \in {"recovery_in_progress", "recovery_required"}
  /\ file.status = "idle" => command = "none" /\ ~lost
  /\ file.status = "success" => command \in {"none"} \cup RollingBack

(* The file does not know of a change, or will not if the command ends.    *)
Missed == lost \/ (file.status = "success" /\ command # "none")

(* What runs, and what .env says, as far as a command has come.            *)
Containers ==
  /\ file.current <= file.target
  /\ env \in {file.current, file.target}
  /\ backend \in {0, file.current, file.target}
  /\ ~lost => frontend \in {0, file.current, file.target}
  /\ command \in {"up_backend"} \cup Deploying => env = file.target
  /\ command \in Deploying \cup {"resume_verify", "resume_frontend", "resume_reach"} =>
       backend = file.target
  /\ command = "resume_reach" => frontend = file.target
  /\ command \in {"rollback_up", "rollback_verify", "restore_up", "restore_verify"} =>
       env = file.current
  /\ command \in {"restore_load", "restore_swap", "restore_env", "restore_up"} => backend = 0
  /\ command = "restore_verify" => backend = file.current /\ frontend = file.current

(* What runs as long as nothing was touched, and when the file says that   *)
(* the transaction is over, also while a rollback runs again.              *)
Outcomes ==
  /\ file.status \in {"idle", "quiescing", "prepared", "rolled_back", "recovered"} =>
       env = file.current /\ (~lost => frontend = file.current)
  /\ file.status \in {"quiescing", "prepared", "rolled_back"} => backend \in {file.current, 0}
  /\ file.status \in {"idle", "recovered"} => backend = file.current
  /\ file.status \in {"idle", "success"} /\ ~Missed =>
       backend = file.target /\ frontend = file.target

(* The schema lies between the two of the transaction, and below that of   *)
(* what runs. A rollback relies on it having stayed where its probe saw    *)
(* it, which is what a race breaks.                                        *)
Schemas ==
  ~raced =>
    /\ file.before = SchemaOf[file.current] /\ file.after = SchemaOf[file.target]
    /\ file.before <= schema /\ schema <= file.after
    /\ backend # 0 => schema <= SchemaOf[backend]
    /\ command \in {"rollback_env", "rollback_up", "restore_up"} => schema = file.before

IInv == TypeOK /\ Phases /\ Containers /\ Outcomes /\ Schemas

-----------------------------------------------------------------------------
(* Constants *)

LEMMA Releases ==
  /\ First \in Version
  /\ \A v \in Version : v \in Nat /\ v # 0 /\ SchemaOf[v] \in Nat \ {0}
  /\ \A v, w \in Version : v <= w => SchemaOf[v] <= SchemaOf[w]
<1> DEFINE Less == {p \in Nat \X Nat : p[1] < p[2]}
<1>1. IsWellFoundedOn(Less, Nat)
  BY NatLessThanWellFounded DEF OpToRel
<1>2. \A x, y \in Nat : <<x, y>> \in Less <=> x < y
  OBVIOUS
<1> HIDE DEF Less
<1>3. PICK x \in Version : \A y \in Version : <<y, x>> \notin Less
  BY <1>1, WFMin, UpdateAssumption
<1>4. \A y \in Version : x <= y
  <2> TAKE y \in Version
  <2>1. x \in Nat /\ y \in Nat /\ <<y, x>> \notin Less
    BY <1>3, UpdateAssumption
  <2> QED BY <1>2, <2>1
<1>5. First \in Version
  BY <1>4 DEF First
<1> QED BY <1>5, UpdateAssumption

(* The transitions that the commands ask for and that may be refused.      *)
LEMMA Transitions ==
  /\ CanTransition("migrating", "verifying") /\ CanTransition("mutating", "verifying")
  /\ CanTransition("prepared", "rolled_back")
  /\ \A s \in {"success", "quiescing", "prepared", "migrating", "mutating", "verifying",
                "recovery_required"} : CanTransition(s, "rollback_in_progress")
  /\ \A s \in {"rollback_in_progress", "rolled_back", "recovered", "recovery_in_progress"} :
       ~CanTransition(s, "rollback_in_progress")
  /\ CanTransition("rollback_in_progress", "rolled_back")
  /\ \A s \in {"rolled_back", "recovered", "recovery_in_progress"} : ~CanTransition(s, "rolled_back")
  /\ \A s \in Status \ {"recovery_required"} : ~CanTransition(s, "recovery_in_progress")
<1> USE DEF CanTransition, NextStatus, Status, Interrupted, Settled
<1>1. NextStatus["success"] = {"quiescing", "prepared", "rollback_in_progress"}
  BY Zenon
<1>2. /\ NextStatus["idle"] = {"quiescing", "prepared"}
      /\ NextStatus["rolled_back"] = {"quiescing", "prepared"}
      /\ NextStatus["recovered"] = {"quiescing", "prepared"}
  BY Zenon
<1>3. NextStatus["quiescing"] = {"prepared", "rollback_in_progress", "rolled_back"}
  BY Zenon
<1>4. NextStatus["prepared"] = {"migrating", "mutating", "rolled_back", "rollback_in_progress"}
  BY Zenon
<1>5. /\ NextStatus["migrating"] = {"verifying", "rollback_in_progress", "recovery_required"}
      /\ NextStatus["mutating"] = {"verifying", "rollback_in_progress", "recovery_required"}
  BY Zenon
<1>6. NextStatus["verifying"] = {"success", "rollback_in_progress", "recovery_required"}
  BY Zenon
<1>7. NextStatus["rollback_in_progress"] = {"rolled_back", "recovery_required"}
  BY Zenon
<1>8. NextStatus["recovery_required"] = {"recovery_in_progress", "rollback_in_progress"}
  BY Zenon
<1>9. NextStatus["recovery_in_progress"] = {"success", "recovered", "recovery_required"}
  BY Zenon
<1> HIDE DEF NextStatus
<1> QED BY <1>1, <1>2, <1>3, <1>4, <1>5, <1>6, <1>7, <1>8, <1>9

-----------------------------------------------------------------------------
(* The first state, and every step of every command. *)

LEMMA InitInv == Init => IInv
<1> SUFFICES ASSUME Init PROVE IInv
  OBVIOUS
<1> USE Releases DEF Init, NoTransaction
<1>1. TypeOK
  BY UpdateAssumption DEF TypeOK, Status, Commands
<1>2. Phases /\ Containers /\ Outcomes /\ Schemas
  BY DEF Phases, Containers, Outcomes, Schemas, Missed, Deploying, RollingBack, Resuming, Restoring
<1> QED BY <1>1, <1>2 DEF IInv

LEMMA ToldType ==
  ASSUME TypeOK, NEW s \in Status, file' = file \/ Told(s)
  PROVE  /\ file' \in [status : Status, current : Version, target : Version,
                        before : Nat \ {0}, after : Nat \ {0}, backup : BOOLEAN]
         /\ file'.status \in Status
BY DEF TypeOK, Told

LEMMA StopBackendInv ==
  ASSUME IInv, StopBackend
  PROVE  IInv'
<1> USE Releases DEF IInv, deployed, record, StopBackend, At, Goto
<1>1. TypeOK'
  BY DEF TypeOK, Status, Interrupted, Settled, Commands
<1>2. Phases'
  BY DEF TypeOK, Phases, Outcomes, Missed, Deploying, RollingBack, Resuming, Restoring
<1>3. Containers'
  BY DEF TypeOK, Phases, Containers, Outcomes, Missed, Deploying, RollingBack, Resuming, Restoring
<1>4. Outcomes'
  BY DEF TypeOK, Phases, Containers, Outcomes, Missed, Deploying, RollingBack, Resuming, Restoring
<1>5. Schemas'
  BY DEF TypeOK, Phases, Containers, Outcomes, Schemas, Missed, Deploying, RollingBack, Resuming, Restoring
<1> QED BY <1>1, <1>2, <1>3, <1>4, <1>5

LEMMA DumpInv ==
  ASSUME IInv, Dump
  PROVE  IInv'
<1> USE Releases DEF IInv, deployed, record, Dump, At, Goto, Save, CreateBackup
<1>1. TypeOK'
  BY DEF TypeOK, Status, Interrupted, Settled, Commands
<1>2. Phases'
  BY DEF TypeOK, Phases, Outcomes, Missed, Deploying, RollingBack, Resuming, Restoring
<1>3. Containers'
  BY DEF TypeOK, Phases, Containers, Outcomes, Missed, Deploying, RollingBack, Resuming, Restoring
<1>4. Outcomes'
  BY DEF TypeOK, Phases, Containers, Outcomes, Missed, Deploying, RollingBack, Resuming, Restoring
<1>5. Schemas'
  BY DEF TypeOK, Phases, Containers, Outcomes, Schemas, Missed, Deploying, RollingBack, Resuming, Restoring
<1> QED BY <1>1, <1>2, <1>3, <1>4, <1>5

LEMMA BeginMutationInv ==
  ASSUME IInv, BeginMutation
  PROVE  IInv'
<1> USE Releases DEF IInv, deployed, record, BeginMutation, At, Goto, Save
<1>1. TypeOK'
  BY DEF TypeOK, Status, Interrupted, Settled, Commands
<1>2. Phases'
  BY DEF TypeOK, Phases, Outcomes, Missed, Deploying, RollingBack, Resuming, Restoring
<1>3. Containers'
  BY DEF TypeOK, Phases, Containers, Outcomes, Missed, Deploying, RollingBack, Resuming, Restoring
<1>4. Outcomes'
  BY DEF TypeOK, Phases, Containers, Outcomes, Missed, Deploying, RollingBack, Resuming, Restoring
<1>5. Schemas'
  BY DEF TypeOK, Phases, Containers, Outcomes, Schemas, Missed, Deploying, RollingBack, Resuming, Restoring
<1> QED BY <1>1, <1>2, <1>3, <1>4, <1>5

LEMMA WriteEnvInv ==
  ASSUME IInv, WriteEnv
  PROVE  IInv'
<1> USE Releases DEF IInv, deployed, record, WriteEnv, At, Goto, WriteVersion
<1>1. TypeOK'
  BY DEF TypeOK, Status, Interrupted, Settled, Commands
<1>2. Phases'
  BY DEF TypeOK, Phases, Outcomes, Missed, Deploying, RollingBack, Resuming, Restoring
<1>3. Containers'
  BY DEF TypeOK, Phases, Containers, Outcomes, Missed, Deploying, RollingBack, Resuming, Restoring
<1>4. Outcomes'
  BY DEF TypeOK, Phases, Containers, Outcomes, Missed, Deploying, RollingBack, Resuming, Restoring
<1>5. Schemas'
  BY DEF TypeOK, Phases, Containers, Outcomes, Schemas, Missed, Deploying, RollingBack, Resuming, Restoring
<1> QED BY <1>1, <1>2, <1>3, <1>4, <1>5

LEMMA UpBackendInv ==
  ASSUME IInv, UpBackend
  PROVE  IInv'
<1> USE Releases, Transitions DEF IInv, deployed, record, UpBackend, At, Goto, TryTransition,
        Transition, TrySave, Told, Untold, Spend
<1>1. TypeOK'
  BY DEF TypeOK, Status, Interrupted, Settled, Commands
<1>2. Phases'
  BY DEF TypeOK, Phases, Outcomes, Missed, Deploying, RollingBack, Resuming, Restoring
<1>3. Containers'
  BY DEF TypeOK, Phases, Containers, Outcomes, Missed, Deploying, RollingBack, Resuming, Restoring
<1>4. Outcomes'
  BY DEF TypeOK, Phases, Containers, Outcomes, Missed, Deploying, RollingBack, Resuming, Restoring
<1>5. Schemas'
  BY DEF TypeOK, Phases, Containers, Outcomes, Schemas, Missed, Deploying, RollingBack, Resuming, Restoring
<1> QED BY <1>1, <1>2, <1>3, <1>4, <1>5

LEMMA VerifyBackendInv ==
  ASSUME IInv, VerifyBackend
  PROVE  IInv'
<1> USE Releases DEF IInv, deployed, record, VerifyBackend, At, Goto, Healthy
<1>1. TypeOK'
  BY DEF TypeOK, Status, Interrupted, Settled, Commands
<1>2. Phases'
  BY DEF TypeOK, Phases, Outcomes, Missed, Deploying, RollingBack, Resuming, Restoring
<1>3. Containers'
  BY DEF TypeOK, Phases, Containers, Outcomes, Missed, Deploying, RollingBack, Resuming, Restoring
<1>4. Outcomes'
  BY DEF TypeOK, Phases, Containers, Outcomes, Missed, Deploying, RollingBack, Resuming, Restoring
<1>5. Schemas'
  BY DEF TypeOK, Phases, Containers, Outcomes, Schemas, Missed, Deploying, RollingBack, Resuming, Restoring
<1> QED BY <1>1, <1>2, <1>3, <1>4, <1>5

LEMMA UpFrontendInv ==
  ASSUME IInv, UpFrontend
  PROVE  IInv'
<1> USE Releases DEF IInv, deployed, record, UpFrontend, At, Goto
<1>1. TypeOK'
  BY DEF TypeOK, Status, Interrupted, Settled, Commands
<1>2. Phases'
  BY DEF TypeOK, Phases, Outcomes, Missed, Deploying, RollingBack, Resuming, Restoring
<1>3. Containers'
  BY DEF TypeOK, Phases, Containers, Outcomes, Missed, Deploying, RollingBack, Resuming, Restoring
<1>4. Outcomes'
  BY DEF TypeOK, Phases, Containers, Outcomes, Missed, Deploying, RollingBack, Resuming, Restoring
<1>5. Schemas'
  BY DEF TypeOK, Phases, Containers, Outcomes, Schemas, Missed, Deploying, RollingBack, Resuming, Restoring
<1> QED BY <1>1, <1>2, <1>3, <1>4, <1>5

LEMMA VerifyFrontendInv ==
  ASSUME IInv, VerifyFrontend
  PROVE  IInv'
<1> USE Releases DEF IInv, deployed, record, VerifyFrontend, At, Verified, Misses, Told,
        Interrupted, Settled
<1>1. TypeOK'
  BY DEF TypeOK, Status, Interrupted, Settled, Commands
<1>2. Phases'
  BY DEF TypeOK, Phases, Outcomes, Missed, Deploying, RollingBack, Resuming, Restoring
<1>3. Containers'
  BY DEF TypeOK, Phases, Containers, Outcomes, Missed, Deploying, RollingBack, Resuming, Restoring
<1>4. Outcomes'
  BY DEF TypeOK, Phases, Containers, Outcomes, Missed, Deploying, RollingBack, Resuming, Restoring
<1>5. Schemas'
  BY DEF TypeOK, Phases, Containers, Outcomes, Schemas, Missed, Deploying, RollingBack, Resuming, Restoring
<1> QED BY <1>1, <1>2, <1>3, <1>4, <1>5

LEMMA UpdateFailsInv ==
  ASSUME IInv, UpdateFails
  PROVE  IInv'
<1> USE Releases DEF IInv, deployed, record, UpdateFails, Spend, Goto, Halfway, HalfUp
<1>1. TypeOK'
  BY DEF TypeOK, Status, Interrupted, Settled, Commands
<1>2. Phases'
  BY DEF TypeOK, Phases, Outcomes, Missed, Deploying, RollingBack, Resuming, Restoring
<1>3. Containers'
  BY DEF TypeOK, Phases, Containers, Outcomes, Missed, Deploying, RollingBack, Resuming, Restoring
<1>4. Outcomes'
  BY DEF TypeOK, Phases, Containers, Outcomes, Missed, Deploying, RollingBack, Resuming, Restoring
<1>5. Schemas'
  BY DEF TypeOK, Phases, Containers, Outcomes, Schemas, Missed, Deploying, RollingBack, Resuming, Restoring
<1> QED BY <1>1, <1>2, <1>3, <1>4, <1>5

LEMMA ProbeMovedInv ==
  ASSUME IInv, ProbeMoved
  PROVE  IInv'
<1> USE Releases DEF IInv, deployed, record, ProbeMoved, At, Spend, Ends, Verified, Misses,
        Told, Interrupted, Settled, RecoveryRequired
<1>1. TypeOK'
  BY DEF TypeOK, Status, Interrupted, Settled, Commands
<1>2. Phases'
  BY DEF TypeOK, Phases, Outcomes, Missed, Deploying, RollingBack, Resuming, Restoring
<1>3. Containers'
  BY DEF TypeOK, Phases, Containers, Outcomes, Missed, Deploying, RollingBack, Resuming, Restoring
<1>4. Outcomes'
  BY DEF TypeOK, Phases, Containers, Outcomes, Missed, Deploying, RollingBack, Resuming, Restoring
<1>5. Schemas'
  BY DEF TypeOK, Phases, Containers, Outcomes, Schemas, Missed, Deploying, RollingBack, Resuming, Restoring
<1> QED BY <1>1, <1>2, <1>3, <1>4, <1>5

LEMMA ProbeUnchangedInv ==
  ASSUME IInv, ProbeUnchanged
  PROVE  IInv'
<1> USE Releases, Transitions DEF IInv, deployed, record, ProbeUnchanged, At, Goto,
        TryTransition, Transition, TrySave, Told, Untold, Spend
<1>1. TypeOK'
  BY DEF TypeOK, Status, Interrupted, Settled, Commands
<1>2. Phases'
  BY DEF TypeOK, Phases, Outcomes, Missed, Deploying, RollingBack, Resuming, Restoring
<1>3. Containers'
  BY DEF TypeOK, Phases, Containers, Outcomes, Missed, Deploying, RollingBack, Resuming, Restoring
<1>4. Outcomes'
  BY DEF TypeOK, Phases, Containers, Outcomes, Missed, Deploying, RollingBack, Resuming, Restoring
<1>5. Schemas'
  BY DEF TypeOK, Phases, Containers, Outcomes, Schemas, Missed, Deploying, RollingBack, Resuming, Restoring
<1> QED BY <1>1, <1>2, <1>3, <1>4, <1>5

LEMMA RollbackEnvInv ==
  ASSUME IInv, RollbackEnv
  PROVE  IInv'
<1> USE Releases DEF IInv, deployed, record, RollbackEnv, At, Goto, WriteVersion
<1>1. TypeOK'
  BY DEF TypeOK, Status, Interrupted, Settled, Commands
<1>2. Phases'
  BY DEF TypeOK, Phases, Outcomes, Missed, Deploying, RollingBack, Resuming, Restoring
<1>3. Containers'
  BY DEF TypeOK, Phases, Containers, Outcomes, Missed, Deploying, RollingBack, Resuming, Restoring
<1>4. Outcomes'
  BY DEF TypeOK, Phases, Containers, Outcomes, Missed, Deploying, RollingBack, Resuming, Restoring
<1>5. Schemas'
  BY DEF TypeOK, Phases, Containers, Outcomes, Schemas, Missed, Deploying, RollingBack, Resuming, Restoring
<1> QED BY <1>1, <1>2, <1>3, <1>4, <1>5

LEMMA RollbackUpInv ==
  ASSUME IInv, RollbackUp
  PROVE  IInv'
<1> USE Releases DEF IInv, deployed, record, RollbackUp, At, Goto
<1>1. TypeOK'
  BY DEF TypeOK, Status, Interrupted, Settled, Commands
<1>2. Phases'
  BY DEF TypeOK, Phases, Outcomes, Missed, Deploying, RollingBack, Resuming, Restoring
<1>3. Containers'
  BY DEF TypeOK, Phases, Containers, Outcomes, Missed, Deploying, RollingBack, Resuming, Restoring
<1>4. Outcomes'
  BY DEF TypeOK, Phases, Containers, Outcomes, Missed, Deploying, RollingBack, Resuming, Restoring
<1>5. Schemas'
  BY DEF TypeOK, Phases, Containers, Outcomes, Schemas, Missed, Deploying, RollingBack, Resuming, Restoring
<1> QED BY <1>1, <1>2, <1>3, <1>4, <1>5

LEMMA RollbackVerifyInv ==
  ASSUME IInv, RollbackVerify
  PROVE  IInv'
<1> USE Releases, Transitions DEF IInv, deployed, record, RollbackVerify, At, Ends, Verified,
        Misses, Interrupted, Settled, Healthy, Transition, TrySave, Told, Untold, Spend
<1>1. TypeOK'
  <2>1. Transition("rolled_back") \in Status
    BY DEF TypeOK, Phases, RollingBack, Transition, Status, Settled, Interrupted
  <2>2. file' = file \/ Told(Transition("rolled_back"))
    BY DEF RollbackVerify, TrySave, Untold
  <2>3. budget' \in [{"failure", "crash"} -> Nat]
    BY DEF TypeOK
  <2>4. file'.status \in Status /\ lost' \in BOOLEAN
    BY <2>1, <2>2, ToldType DEF TypeOK
  <2> QED BY <2>1, <2>2, <2>3, <2>4, ToldType DEF TypeOK, Commands
<1>2. Phases'
  BY DEF TypeOK, Phases, Outcomes, Missed, Deploying, RollingBack, Resuming, Restoring
<1>3. Containers'
  BY DEF TypeOK, Phases, Containers, Outcomes, Missed, Deploying, RollingBack, Resuming, Restoring
<1>4. Outcomes'
  BY DEF TypeOK, Phases, Containers, Outcomes, Missed, Deploying, RollingBack, Resuming, Restoring
<1>5. Schemas'
  BY DEF TypeOK, Phases, Containers, Outcomes, Schemas, Missed, Deploying, RollingBack, Resuming, Restoring
<1> QED BY <1>1, <1>2, <1>3, <1>4, <1>5

LEMMA RollbackFailsInv ==
  ASSUME IInv, RollbackFails
  PROVE  IInv'
<1> USE Releases DEF IInv, deployed, record, RollbackFails, Spend, Ends, Verified, Misses, Told,
        Interrupted, Settled, Halfway, HalfUp, RecoveryRequired
<1>1. TypeOK'
  BY DEF TypeOK, Status, Interrupted, Settled, Commands
<1>2. Phases'
  BY DEF TypeOK, Phases, Outcomes, Missed, Deploying, RollingBack, Resuming, Restoring
<1>3. Containers'
  BY DEF TypeOK, Phases, Containers, Outcomes, Missed, Deploying, RollingBack, Resuming, Restoring
<1>4. Outcomes'
  BY DEF TypeOK, Phases, Containers, Outcomes, Missed, Deploying, RollingBack, Resuming, Restoring
<1>5. Schemas'
  BY DEF TypeOK, Phases, Containers, Outcomes, Schemas, Missed, Deploying, RollingBack, Resuming, Restoring
<1> QED BY <1>1, <1>2, <1>3, <1>4, <1>5

LEMMA ResumeBackendInv ==
  ASSUME IInv, ResumeBackend
  PROVE  IInv'
<1> USE Releases DEF IInv, deployed, record, ResumeBackend, At, Goto
<1>1. TypeOK'
  BY DEF TypeOK, Status, Interrupted, Settled, Commands
<1>2. Phases'
  BY DEF TypeOK, Phases, Outcomes, Missed, Deploying, RollingBack, Resuming, Restoring
<1>3. Containers'
  BY DEF TypeOK, Phases, Containers, Outcomes, Missed, Deploying, RollingBack, Resuming, Restoring
<1>4. Outcomes'
  BY DEF TypeOK, Phases, Containers, Outcomes, Missed, Deploying, RollingBack, Resuming, Restoring
<1>5. Schemas'
  BY DEF TypeOK, Phases, Containers, Outcomes, Schemas, Missed, Deploying, RollingBack, Resuming, Restoring
<1> QED BY <1>1, <1>2, <1>3, <1>4, <1>5

LEMMA ResumeVerifyInv ==
  ASSUME IInv, ResumeVerify
  PROVE  IInv'
<1> USE Releases DEF IInv, deployed, record, ResumeVerify, At, Goto, Healthy
<1>1. TypeOK'
  BY DEF TypeOK, Status, Interrupted, Settled, Commands
<1>2. Phases'
  BY DEF TypeOK, Phases, Outcomes, Missed, Deploying, RollingBack, Resuming, Restoring
<1>3. Containers'
  BY DEF TypeOK, Phases, Containers, Outcomes, Missed, Deploying, RollingBack, Resuming, Restoring
<1>4. Outcomes'
  BY DEF TypeOK, Phases, Containers, Outcomes, Missed, Deploying, RollingBack, Resuming, Restoring
<1>5. Schemas'
  BY DEF TypeOK, Phases, Containers, Outcomes, Schemas, Missed, Deploying, RollingBack, Resuming, Restoring
<1> QED BY <1>1, <1>2, <1>3, <1>4, <1>5

LEMMA ResumeFrontendInv ==
  ASSUME IInv, ResumeFrontend
  PROVE  IInv'
<1> USE Releases DEF IInv, deployed, record, ResumeFrontend, At, Goto
<1>1. TypeOK'
  BY DEF TypeOK, Status, Interrupted, Settled, Commands
<1>2. Phases'
  BY DEF TypeOK, Phases, Outcomes, Missed, Deploying, RollingBack, Resuming, Restoring
<1>3. Containers'
  BY DEF TypeOK, Phases, Containers, Outcomes, Missed, Deploying, RollingBack, Resuming, Restoring
<1>4. Outcomes'
  BY DEF TypeOK, Phases, Containers, Outcomes, Missed, Deploying, RollingBack, Resuming, Restoring
<1>5. Schemas'
  BY DEF TypeOK, Phases, Containers, Outcomes, Schemas, Missed, Deploying, RollingBack, Resuming, Restoring
<1> QED BY <1>1, <1>2, <1>3, <1>4, <1>5

LEMMA ResumeReachInv ==
  ASSUME IInv, ResumeReach
  PROVE  IInv'
<1> USE Releases DEF IInv, deployed, record, ResumeReach, At, Verified, Misses, Interrupted,
        Settled, TrySave, Told, Untold, Spend
<1>1. TypeOK'
  <2>1. "success" \in Status
    BY DEF TypeOK, Phases, RollingBack, Transition, Status, Settled, Interrupted
  <2>2. file' = file \/ Told("success")
    BY DEF ResumeReach, TrySave, Untold
  <2>3. budget' \in [{"failure", "crash"} -> Nat]
    BY DEF TypeOK
  <2>4. file'.status \in Status /\ lost' \in BOOLEAN
    BY <2>1, <2>2, ToldType DEF TypeOK
  <2> QED BY <2>1, <2>2, <2>3, <2>4, ToldType DEF TypeOK, Commands
<1>2. Phases'
  BY DEF TypeOK, Phases, Outcomes, Missed, Deploying, RollingBack, Resuming, Restoring
<1>3. Containers'
  BY DEF TypeOK, Phases, Containers, Outcomes, Missed, Deploying, RollingBack, Resuming, Restoring
<1>4. Outcomes'
  BY DEF TypeOK, Phases, Containers, Outcomes, Missed, Deploying, RollingBack, Resuming, Restoring
<1>5. Schemas'
  BY DEF TypeOK, Phases, Containers, Outcomes, Schemas, Missed, Deploying, RollingBack, Resuming, Restoring
<1> QED BY <1>1, <1>2, <1>3, <1>4, <1>5

LEMMA RestoreStopInv ==
  ASSUME IInv, RestoreStop
  PROVE  IInv'
<1> USE Releases DEF IInv, deployed, record, RestoreStop, At, Goto
<1>1. TypeOK'
  BY DEF TypeOK, Status, Interrupted, Settled, Commands
<1>2. Phases'
  BY DEF TypeOK, Phases, Outcomes, Missed, Deploying, RollingBack, Resuming, Restoring
<1>3. Containers'
  BY DEF TypeOK, Phases, Containers, Outcomes, Missed, Deploying, RollingBack, Resuming, Restoring
<1>4. Outcomes'
  BY DEF TypeOK, Phases, Containers, Outcomes, Missed, Deploying, RollingBack, Resuming, Restoring
<1>5. Schemas'
  BY DEF TypeOK, Phases, Containers, Outcomes, Schemas, Missed, Deploying, RollingBack, Resuming, Restoring
<1> QED BY <1>1, <1>2, <1>3, <1>4, <1>5

LEMMA RestoreLoadInv ==
  ASSUME IInv, RestoreLoad
  PROVE  IInv'
<1> USE Releases DEF IInv, deployed, record, RestoreLoad, At, Goto, Told
<1>1. TypeOK'
  BY DEF TypeOK, Status, Interrupted, Settled, Commands
<1>2. Phases'
  BY DEF TypeOK, Phases, Outcomes, Missed, Deploying, RollingBack, Resuming, Restoring
<1>3. Containers'
  BY DEF TypeOK, Phases, Containers, Outcomes, Missed, Deploying, RollingBack, Resuming, Restoring
<1>4. Outcomes'
  BY DEF TypeOK, Phases, Containers, Outcomes, Missed, Deploying, RollingBack, Resuming, Restoring
<1>5. Schemas'
  BY DEF TypeOK, Phases, Containers, Outcomes, Schemas, Missed, Deploying, RollingBack, Resuming, Restoring
<1> QED BY <1>1, <1>2, <1>3, <1>4, <1>5

LEMMA RestoreSwapInv ==
  ASSUME IInv, RestoreSwap
  PROVE  IInv'
<1> USE Releases DEF IInv, deployed, record, RestoreSwap, At, Goto
<1>1. TypeOK'
  BY DEF TypeOK, Status, Interrupted, Settled, Commands
<1>2. Phases'
  BY DEF TypeOK, Phases, Outcomes, Missed, Deploying, RollingBack, Resuming, Restoring
<1>3. Containers'
  BY DEF TypeOK, Phases, Containers, Outcomes, Missed, Deploying, RollingBack, Resuming, Restoring
<1>4. Outcomes'
  BY DEF TypeOK, Phases, Containers, Outcomes, Missed, Deploying, RollingBack, Resuming, Restoring
<1>5. Schemas'
  BY DEF TypeOK, Phases, Containers, Outcomes, Schemas, Missed, Deploying, RollingBack, Resuming, Restoring
<1> QED BY <1>1, <1>2, <1>3, <1>4, <1>5

LEMMA RestoreEnvInv ==
  ASSUME IInv, RestoreEnv
  PROVE  IInv'
<1> USE Releases DEF IInv, deployed, record, RestoreEnv, At, Goto, WriteVersion
<1>1. TypeOK'
  BY DEF TypeOK, Status, Interrupted, Settled, Commands
<1>2. Phases'
  BY DEF TypeOK, Phases, Outcomes, Missed, Deploying, RollingBack, Resuming, Restoring
<1>3. Containers'
  BY DEF TypeOK, Phases, Containers, Outcomes, Missed, Deploying, RollingBack, Resuming, Restoring
<1>4. Outcomes'
  BY DEF TypeOK, Phases, Containers, Outcomes, Missed, Deploying, RollingBack, Resuming, Restoring
<1>5. Schemas'
  BY DEF TypeOK, Phases, Containers, Outcomes, Schemas, Missed, Deploying, RollingBack, Resuming, Restoring
<1> QED BY <1>1, <1>2, <1>3, <1>4, <1>5

LEMMA RestoreUpInv ==
  ASSUME IInv, RestoreUp
  PROVE  IInv'
<1> USE Releases DEF IInv, deployed, record, RestoreUp, At, Goto
<1>1. TypeOK'
  BY DEF TypeOK, Status, Interrupted, Settled, Commands
<1>2. Phases'
  BY DEF TypeOK, Phases, Outcomes, Missed, Deploying, RollingBack, Resuming, Restoring
<1>3. Containers'
  BY DEF TypeOK, Phases, Containers, Outcomes, Missed, Deploying, RollingBack, Resuming, Restoring
<1>4. Outcomes'
  BY DEF TypeOK, Phases, Containers, Outcomes, Missed, Deploying, RollingBack, Resuming, Restoring
<1>5. Schemas'
  BY DEF TypeOK, Phases, Containers, Outcomes, Schemas, Missed, Deploying, RollingBack, Resuming, Restoring
<1> QED BY <1>1, <1>2, <1>3, <1>4, <1>5

LEMMA RestoreVerifyInv ==
  ASSUME IInv, RestoreVerify
  PROVE  IInv'
<1> USE Releases DEF IInv, deployed, record, RestoreVerify, At, Verified, Misses, Interrupted,
        Settled, TrySave, Told, Untold, Spend, Healthy
<1>1. TypeOK'
  <2>1. "recovered" \in Status
    BY DEF TypeOK, Phases, RollingBack, Transition, Status, Settled, Interrupted
  <2>2. file' = file \/ Told("recovered")
    BY DEF RestoreVerify, TrySave, Untold
  <2>3. budget' \in [{"failure", "crash"} -> Nat]
    BY DEF TypeOK
  <2>4. file'.status \in Status /\ lost' \in BOOLEAN
    BY <2>1, <2>2, ToldType DEF TypeOK
  <2> QED BY <2>1, <2>2, <2>3, <2>4, ToldType DEF TypeOK, Commands
<1>2. Phases'
  BY DEF TypeOK, Phases, Outcomes, Missed, Deploying, RollingBack, Resuming, Restoring
<1>3. Containers'
  BY DEF TypeOK, Phases, Containers, Outcomes, Missed, Deploying, RollingBack, Resuming, Restoring
<1>4. Outcomes'
  BY DEF TypeOK, Phases, Containers, Outcomes, Missed, Deploying, RollingBack, Resuming, Restoring
<1>5. Schemas'
  BY DEF TypeOK, Phases, Containers, Outcomes, Schemas, Missed, Deploying, RollingBack, Resuming, Restoring
<1> QED BY <1>1, <1>2, <1>3, <1>4, <1>5

LEMMA RecoverFailsInv ==
  ASSUME IInv, RecoverFails
  PROVE  IInv'
<1> USE Releases DEF IInv, deployed, record, RecoverFails, Spend, At, Ends, Verified, Misses,
        Told, Interrupted, Settled, Halfway, HalfUp, RecoveryRequired
<1>1. TypeOK'
  BY DEF TypeOK, Status, Interrupted, Settled, Commands
<1>2. Phases'
  BY DEF TypeOK, Phases, Outcomes, Missed, Deploying, RollingBack, Resuming, Restoring
<1>3. Containers'
  BY DEF TypeOK, Phases, Containers, Outcomes, Missed, Deploying, RollingBack, Resuming, Restoring
<1>4. Outcomes'
  BY DEF TypeOK, Phases, Containers, Outcomes, Missed, Deploying, RollingBack, Resuming, Restoring
<1>5. Schemas'
  BY DEF TypeOK, Phases, Containers, Outcomes, Schemas, Missed, Deploying, RollingBack, Resuming, Restoring
<1> QED BY <1>1, <1>2, <1>3, <1>4, <1>5

LEMMA CrashInv ==
  ASSUME IInv, Crash
  PROVE  IInv'
<1> USE Releases DEF IInv, deployed, record, Crash, Idle, Spend, Ends, Verified, Misses, Told,
        Interrupted, Settled, Halfway, HalfUp
<1>1. TypeOK'
  BY DEF TypeOK, Status, Interrupted, Settled, Commands
<1>2. Phases'
  BY DEF TypeOK, Phases, Outcomes, Missed, Deploying, RollingBack, Resuming, Restoring
<1>3. Containers'
  BY DEF TypeOK, Phases, Containers, Outcomes, Missed, Deploying, RollingBack, Resuming, Restoring
<1>4. Outcomes'
  BY DEF TypeOK, Phases, Containers, Outcomes, Missed, Deploying, RollingBack, Resuming, Restoring
<1>5. Schemas'
  BY DEF TypeOK, Phases, Containers, Outcomes, Schemas, Missed, Deploying, RollingBack, Resuming, Restoring
<1> QED BY <1>1, <1>2, <1>3, <1>4, <1>5

LEMMA MigrateInv ==
  ASSUME IInv, Migrate
  PROVE  IInv'
<1> USE Releases DEF IInv, record, Migrate
<1>1. TypeOK'
  BY DEF TypeOK, Status, Interrupted, Settled, Commands
<1>2. Phases'
  BY DEF TypeOK, Phases, Outcomes, Missed, Deploying, RollingBack, Resuming, Restoring
<1>3. Containers'
  BY DEF TypeOK, Phases, Containers, Outcomes, Missed, Deploying, RollingBack, Resuming, Restoring
<1>4. Outcomes'
  BY DEF TypeOK, Phases, Containers, Outcomes, Missed, Deploying, RollingBack, Resuming, Restoring
<1>5. Schemas'
  <2> SUFFICES ASSUME ~raced' PROVE Schemas'
    BY DEF Schemas
  <2>1. ~raced /\ command \notin {"rollback_env", "rollback_up", "restore_up"}
    BY DEF Containers
  <2>2. backend \in Version /\ file.current \in Version /\ file.target \in Version
    BY DEF TypeOK
  <2>3. SchemaOf[backend] <= SchemaOf[file.target]
    <3>1. backend <= file.target
      BY <2>2 DEF Containers
    <3> QED BY <2>2, <3>1
  <2>4. schema \in Nat /\ schema + 1 <= SchemaOf[backend]
    BY <2>2 DEF TypeOK
  <2>5. file.before \in Nat /\ file.after \in Nat
    BY DEF TypeOK
  <2> QED BY <2>1, <2>2, <2>3, <2>4, <2>5 DEF Schemas
<1> QED BY <1>1, <1>2, <1>3, <1>4, <1>5

LEMMA UpdateNeutralInv ==
  ASSUME IInv, Idle, NEW w \in Version, UpdateNeutral(w)
  PROVE  IInv'
<1> USE Releases DEF IInv, deployed, record, UpdateNeutral, CreateBackup, Idle, Preflight, Open,
        Status, Interrupted, Settled, Healthy, UpgradePath, Forward, Transaction, Save, Goto
<1>1. TypeOK'
  BY DEF TypeOK, Status, Interrupted, Settled, Commands
<1>2. Phases'
  BY DEF TypeOK, Phases, Outcomes, Missed, Deploying, RollingBack, Resuming, Restoring
<1>3. Containers'
  BY DEF TypeOK, Phases, Containers, Outcomes, Missed, Deploying, RollingBack, Resuming, Restoring
<1>4. Outcomes'
  BY DEF TypeOK, Phases, Containers, Outcomes, Missed, Deploying, RollingBack, Resuming, Restoring
<1>5. Schemas'
  BY DEF TypeOK, Phases, Containers, Outcomes, Schemas, Missed, Deploying, RollingBack, Resuming, Restoring
<1> QED BY <1>1, <1>2, <1>3, <1>4, <1>5

LEMMA UpdateForwardInv ==
  ASSUME IInv, Idle, NEW w \in Version, UpdateForward(w)
  PROVE  IInv'
<1> USE Releases DEF IInv, deployed, record, UpdateForward, Idle, Preflight, Open, Status,
        Interrupted, Settled, Healthy, UpgradePath, Forward, Transaction, Save, Goto
<1>1. TypeOK'
  BY DEF TypeOK, Status, Interrupted, Settled, Commands
<1>2. Phases'
  BY DEF TypeOK, Phases, Outcomes, Missed, Deploying, RollingBack, Resuming, Restoring
<1>3. Containers'
  BY DEF TypeOK, Phases, Containers, Outcomes, Missed, Deploying, RollingBack, Resuming, Restoring
<1>4. Outcomes'
  BY DEF TypeOK, Phases, Containers, Outcomes, Missed, Deploying, RollingBack, Resuming, Restoring
<1>5. Schemas'
  BY DEF TypeOK, Phases, Containers, Outcomes, Schemas, Missed, Deploying, RollingBack, Resuming, Restoring
<1> QED BY <1>1, <1>2, <1>3, <1>4, <1>5

LEMMA RollbackPreparedInv ==
  ASSUME IInv, Idle, RollbackPrepared
  PROVE  IInv'
<1> USE Releases, Transitions DEF IInv, deployed, record, RollbackPrepared, UntouchedPrepared,
        Idle, Save, Transition
<1>1. TypeOK'
  BY DEF TypeOK, Status, Interrupted, Settled, Commands
<1>2. Phases'
  BY DEF TypeOK, Phases, Outcomes, Missed, Deploying, RollingBack, Resuming, Restoring
<1>3. Containers'
  BY DEF TypeOK, Phases, Containers, Outcomes, Missed, Deploying, RollingBack, Resuming, Restoring
<1>4. Outcomes'
  BY DEF TypeOK, Phases, Containers, Outcomes, Missed, Deploying, RollingBack, Resuming, Restoring
<1>5. Schemas'
  BY DEF TypeOK, Phases, Containers, Outcomes, Schemas, Missed, Deploying, RollingBack, Resuming, Restoring
<1> QED BY <1>1, <1>2, <1>3, <1>4, <1>5

LEMMA RollbackInv ==
  ASSUME IInv, Idle, Rollback
  PROVE  IInv'
<1> USE Releases, Transitions DEF IInv, deployed, record, Rollback, RollbackAccepted,
        UntouchedPrepared, Status, Interrupted, Settled, Idle, TryTransition, Transition,
        TrySave, Told, Untold, Spend, Goto
<1>1. TypeOK'
  BY DEF TypeOK, Status, Interrupted, Settled, Commands
<1>2. Phases'
  BY DEF TypeOK, Phases, Outcomes, Missed, Deploying, RollingBack, Resuming, Restoring
<1>3. Containers'
  BY DEF TypeOK, Phases, Containers, Outcomes, Missed, Deploying, RollingBack, Resuming, Restoring
<1>4. Outcomes'
  BY DEF TypeOK, Phases, Containers, Outcomes, Missed, Deploying, RollingBack, Resuming, Restoring
<1>5. Schemas'
  BY DEF TypeOK, Phases, Containers, Outcomes, Schemas, Missed, Deploying, RollingBack, Resuming, Restoring
<1> QED BY <1>1, <1>2, <1>3, <1>4, <1>5

LEMMA ResumeInv ==
  ASSUME IInv, Idle, Resume
  PROVE  IInv'
<1> USE Releases, Transitions DEF IInv, deployed, record, Resume, ResumeAccepted, Idle,
        TryTransition, Transition, TrySave, Told, Untold, Spend, Goto
<1>1. TypeOK'
  BY DEF TypeOK, Status, Interrupted, Settled, Commands
<1>2. Phases'
  BY DEF TypeOK, Phases, Outcomes, Missed, Deploying, RollingBack, Resuming, Restoring
<1>3. Containers'
  BY DEF TypeOK, Phases, Containers, Outcomes, Missed, Deploying, RollingBack, Resuming, Restoring
<1>4. Outcomes'
  BY DEF TypeOK, Phases, Containers, Outcomes, Missed, Deploying, RollingBack, Resuming, Restoring
<1>5. Schemas'
  BY DEF TypeOK, Phases, Containers, Outcomes, Schemas, Missed, Deploying, RollingBack, Resuming, Restoring
<1> QED BY <1>1, <1>2, <1>3, <1>4, <1>5

LEMMA RestoreInv ==
  ASSUME IInv, Idle, Restore
  PROVE  IInv'
<1> USE Releases, Transitions DEF IInv, deployed, record, Restore, RestoreAccepted, Idle,
        TryTransition, Transition, TrySave, Told, Untold, Spend, Goto
<1>1. TypeOK'
  BY DEF TypeOK, Status, Interrupted, Settled, Commands
<1>2. Phases'
  BY DEF TypeOK, Phases, Outcomes, Missed, Deploying, RollingBack, Resuming, Restoring
<1>3. Containers'
  BY DEF TypeOK, Phases, Containers, Outcomes, Missed, Deploying, RollingBack, Resuming, Restoring
<1>4. Outcomes'
  BY DEF TypeOK, Phases, Containers, Outcomes, Missed, Deploying, RollingBack, Resuming, Restoring
<1>5. Schemas'
  BY DEF TypeOK, Phases, Containers, Outcomes, Schemas, Missed, Deploying, RollingBack, Resuming, Restoring
<1> QED BY <1>1, <1>2, <1>3, <1>4, <1>5

-----------------------------------------------------------------------------
(* The invariant *)

LEMMA UpdateInv == ASSUME IInv, UpdateStep PROVE IInv'
BY StopBackendInv, DumpInv, BeginMutationInv, WriteEnvInv, UpBackendInv, VerifyBackendInv,
   UpFrontendInv, VerifyFrontendInv, UpdateFailsInv, ProbeMovedInv, ProbeUnchangedInv
   DEF UpdateStep

LEMMA RollbackStepInv == ASSUME IInv, RollbackStep PROVE IInv'
BY RollbackEnvInv, RollbackUpInv, RollbackVerifyInv, RollbackFailsInv DEF RollbackStep

LEMMA RecoverInv == ASSUME IInv, RecoverStep PROVE IInv'
BY ResumeBackendInv, ResumeVerifyInv, ResumeFrontendInv, ResumeReachInv, RestoreStopInv,
   RestoreLoadInv, RestoreSwapInv, RestoreEnvInv, RestoreUpInv, RestoreVerifyInv, RecoverFailsInv
   DEF RecoverStep

LEMMA RunInv ==
  ASSUME IInv, RunUpdate \/ RunRollback \/ RunResume \/ RunRestore
  PROVE  IInv'
BY UpdateNeutralInv, UpdateForwardInv, RollbackPreparedInv, RollbackInv, ResumeInv, RestoreInv
   DEF RunUpdate, RunRollback, RunResume, RunRestore

LEMMA StepInv == ASSUME IInv, [Next]_vars PROVE IInv'
<1>1. CASE UNCHANGED vars
  BY <1>1 DEF IInv, vars, TypeOK, Phases, Containers, Outcomes, Schemas, Missed
<1>2. CASE Next
  BY <1>2, RunInv, UpdateInv, RollbackStepInv, RecoverInv, MigrateInv, CrashInv DEF Next
<1> QED BY <1>1, <1>2

LEMMA Invariance == Spec => []IInv
BY InitInv, StepInv, PTL DEF Spec

-----------------------------------------------------------------------------
(* Theorems *)

(* Every status is one that state.Load accepts and every container is a    *)
(* release or absent, whatever fails or crashes.                           *)
THEOREM UpdateTypes == Spec => []TypeOK
<1>1. IInv => TypeOK
  BY DEF IInv
<1> QED BY <1>1, Invariance, PTL

(* An old backend runs on a newer schema only after a migration committed  *)
(* behind the probe of a rollback.                                         *)
THEOREM OldOnNew == Spec => []OldNeverOnNew
<1>1. IInv => OldNeverOnNew
  <2> SUFFICES ASSUME IInv, backend # 0, ~raced PROVE ~(SchemaOf[backend] < schema)
    BY DEF OldNeverOnNew, IInv, TypeOK
  <2> QED BY Releases DEF IInv, TypeOK, Schemas
<1> QED BY <1>1, Invariance, PTL

(* A transaction that is over leaves the version the state file tells,     *)
(* unless the status a command ended with was lost.                        *)
THEOREM SettledDeployed == Spec => []SettledIsDeployed
<1>1. IInv => SettledIsDeployed
  BY DEF IInv, TypeOK, Status, Settled, Interrupted, Containers, Missed, Outcomes,
         SettledIsDeployed, Reported, Open, Idle
<1> QED BY <1>1, Invariance, PTL

-----------------------------------------------------------------------------
(* The refinement of ManagedRelease *)

Over == Idle /\ ~Open

Served == IF Telling THEN frontend ELSE file.current
Target == IF Telling THEN frontend ELSE file.target
Busy   == ~Idle \/ Open

ManagedStep == [Managed!Next]_<<Served, Target, Busy, ~lost>>

SameReleases == file'.current = file.current /\ file'.target = file.target

LEMMA Begins ==
  ASSUME IInv, IInv', Over, ~Over', lost' = lost, ~lost => file'.current = frontend,
         file'.current < file'.target
  PROVE  ManagedStep
<1>1. file'.target \in Version /\ file'.current \in Version
  BY DEF IInv, TypeOK
<1> QED BY <1>1 DEF IInv, TypeOK, Over, Telling, Served, Target, Busy, ManagedStep,
                    Managed!Next, Managed!Begin

LEMMA Reopens ==
  ASSUME IInv, IInv', Over, ~Over', lost' = lost, SameReleases,
         ~lost => frontend \in {file.current, file.target}
  PROVE  ManagedStep
<1>1. file'.target \in Version /\ file'.current \in Version
  BY DEF IInv, TypeOK
<1> QED BY <1>1 DEF SameReleases, IInv, TypeOK, Over, Telling, Served, Target, Busy, ManagedStep,
                    Managed!Next, Managed!Reopen

(* A step of an open transaction: it stays open, ends with one of its two  *)
(* releases, or loses its end.                                             *)
LEMMA Moves ==
  ASSUME IInv, IInv', ~Over, SameReleases, ~Over' => lost' = lost,
         Over' /\ ~lost' => frontend' \in {file.current, file.target}
  PROVE  ManagedStep
<1> USE DEF SameReleases, IInv, TypeOK, Over, Telling, Served, Target, Busy, ManagedStep
<1>1. CASE ~Over'
  BY <1>1
<1>2. CASE Over' /\ ~lost'
  BY <1>2 DEF Managed!Next, Managed!End
<1>3. CASE Over' /\ lost'
  BY <1>3 DEF Managed!Next, Managed!Lose
<1> QED BY <1>1, <1>2, <1>3

(* A command that ends: if the file says then that the transaction is      *)
(* over, and nothing was lost, it says what the command believes.          *)
LEMMA EndKnown ==
  ASSUME IInv, ~Idle, NEW s \in Status \ {"idle"}, file' = file \/ Told(s),
         Ends(s) \/ Verified(s)
  PROVE  /\ ~Over /\ SameReleases
         /\ ~Over' => lost' = lost
         /\ Over' /\ ~lost' => file'.status = s /\ s \in Settled
<1>1. ~Over /\ SameReleases
  BY DEF SameReleases, Over, Told, IInv, TypeOK
<1>2. file'.status \in {file.status, s} /\ file'.status \in Status \ {"idle"}
  BY DEF Told, IInv, TypeOK, Phases, Idle
<1>3. Idle'
  BY DEF Ends, Verified, Idle
<1>4. Over' <=> file'.status \in Settled
  BY <1>2, <1>3 DEF Over, Open, Status, Settled, Interrupted
<1>5. ~Over' => lost' = lost
  <2>1. lost \in BOOLEAN
    BY DEF IInv, TypeOK
  <2>2. ASSUME ~Over' PROVE ~Misses(s)
    BY <1>4, <2>2 DEF Misses
  <2> QED BY <1>4, <2>1, <2>2 DEF Ends, Verified
<1>6. Over' /\ ~lost' => file'.status = s
  BY <1>4 DEF Ends, Verified, Misses
<1> QED BY <1>1, <1>4, <1>5, <1>6

LEMMA UpdateManaged == ASSUME IInv, IInv', UpdateStep PROVE ManagedStep
<1>1. CASE VerifyFrontend
  <2>1. ~Idle /\ (file' = file \/ Told("success"))
    BY <1>1 DEF VerifyFrontend, At, Idle
  <2>2. frontend' = file.target /\ Verified("success")
    BY <1>1 DEF VerifyFrontend, deployed
  <2>3. "success" \in Status \ {"idle"}
    BY DEF Status, Settled
  <2> QED BY ONLY <2>1, <2>2, <2>3, IInv, IInv', EndKnown, Moves
<1>2. CASE ProbeMoved
  <2>1. ~Idle /\ (file' = file \/ Told("recovery_required"))
    BY <1>2 DEF ProbeMoved, RecoveryRequired, At, Idle
  <2>2. Ends("recovery_required")
    BY <1>2 DEF ProbeMoved, RecoveryRequired
  <2>3. "recovery_required" \in Status \ {"idle"} /\ "recovery_required" \notin Settled
    BY DEF Status, Settled
  <2> QED BY ONLY <2>1, <2>2, <2>3, IInv, IInv', EndKnown, Moves
<1>3. CASE UpdateStep /\ ~VerifyFrontend /\ ~ProbeMoved
  <2> USE DEF UpdateStep, StopBackend, Dump, BeginMutation, WriteEnv, UpBackend, VerifyBackend,
              UpFrontend, UpdateFails, ProbeUnchanged
  <2>1. ~Over /\ ~Over'
    BY <1>3 DEF At, Goto, Over, Idle
  <2>2. SameReleases /\ lost' = lost
    BY <1>3 DEF SameReleases, TryTransition, TrySave, Told, Untold, Save, CreateBackup,
                deployed, record, IInv, TypeOK
  <2> QED BY <2>1, <2>2, Moves
<1> QED BY <1>1, <1>2, <1>3

LEMMA RollbackManaged == ASSUME IInv, IInv', RollbackStep PROVE ManagedStep
<1>1. CASE RollbackEnv \/ RollbackUp
  <2>1. ~Over /\ ~Over' /\ SameReleases /\ lost' = lost
    BY <1>1 DEF RollbackEnv, RollbackUp, At, Goto, Over, Idle, SameReleases, record
  <2> QED BY <2>1, Moves
<1>2. CASE RollbackVerify
  <2> DEFINE s == Transition("rolled_back")
  <2>1. ~Idle /\ (file' = file \/ Told(s))
    BY <1>2 DEF RollbackVerify, TrySave, Untold, At, Idle
  <2>2. frontend' = file.current /\ Verified(s)
    BY <1>2 DEF RollbackVerify, deployed
  <2>3. s \in Status \ {"idle"}
    <3>1. status \in {"rollback_in_progress", "rolled_back", "recovered", "recovery_in_progress"}
      BY <1>2 DEF RollbackVerify, At, IInv, Phases, RollingBack
    <3> QED BY <3>1 DEF Transition, Status, Settled, Interrupted
  <2> HIDE DEF s
  <2> QED BY ONLY <2>1, <2>2, <2>3, IInv, IInv', EndKnown, Moves
<1>3. CASE RollbackFails
  <2>1. ~Idle /\ (file' = file \/ Told("recovery_required"))
    BY <1>3 DEF RollbackFails, RecoveryRequired, Idle
  <2>2. Ends("recovery_required")
    BY <1>3 DEF RollbackFails, RecoveryRequired
  <2>3. "recovery_required" \in Status \ {"idle"} /\ "recovery_required" \notin Settled
    BY DEF Status, Settled
  <2> QED BY ONLY <2>1, <2>2, <2>3, IInv, IInv', EndKnown, Moves
<1> QED BY <1>1, <1>2, <1>3 DEF RollbackStep

LEMMA RecoverManaged == ASSUME IInv, IInv', RecoverStep PROVE ManagedStep
<1>1. CASE ResumeReach
  <2>1. ~Idle /\ (file' = file \/ Told("success"))
    BY <1>1 DEF ResumeReach, TrySave, Untold, At, Idle
  <2>2. frontend' = file.target /\ Verified("success")
    BY <1>1 DEF ResumeReach, deployed, At, IInv, Containers
  <2>3. "success" \in Status \ {"idle"}
    BY DEF Status, Settled
  <2> QED BY ONLY <2>1, <2>2, <2>3, IInv, IInv', EndKnown, Moves
<1>2. CASE RestoreVerify
  <2>1. ~Idle /\ (file' = file \/ Told("recovered"))
    BY <1>2 DEF RestoreVerify, TrySave, Untold, At, Idle
  <2>2. frontend' = file.current /\ Verified("recovered")
    BY <1>2 DEF RestoreVerify, deployed, At, IInv, Containers
  <2>3. "recovered" \in Status \ {"idle"}
    BY DEF Status, Settled
  <2> QED BY ONLY <2>1, <2>2, <2>3, IInv, IInv', EndKnown, Moves
<1>3. CASE RecoverFails
  <2>1. ~Idle /\ (file' = file \/ Told("recovery_required"))
    BY <1>3 DEF RecoverFails, RecoveryRequired, Idle
  <2>2. Ends("recovery_required")
    BY <1>3 DEF RecoverFails, RecoveryRequired
  <2>3. "recovery_required" \in Status \ {"idle"} /\ "recovery_required" \notin Settled
    BY DEF Status, Settled
  <2> QED BY ONLY <2>1, <2>2, <2>3, IInv, IInv', EndKnown, Moves
<1>4. CASE RecoverStep /\ ~ResumeReach /\ ~RestoreVerify /\ ~RecoverFails
  <2> USE DEF RecoverStep, ResumeBackend, ResumeVerify, ResumeFrontend, RestoreStop, RestoreLoad,
              RestoreSwap, RestoreEnv, RestoreUp
  <2>1. ~Over /\ ~Over'
    BY <1>4 DEF At, Goto, Over, Idle
  <2>2. SameReleases /\ lost' = lost
    BY <1>4 DEF SameReleases, Told, record, IInv, TypeOK
  <2> QED BY <2>1, <2>2, Moves
<1> QED BY <1>1, <1>2, <1>3, <1>4

LEMMA CrashManaged == ASSUME IInv, IInv', Crash PROVE ManagedStep
<1>1. ~Idle /\ file' = file /\ Ends(status)
  BY DEF Crash
<1>2. status \in Status \ {"idle"}
  BY <1>1 DEF IInv, TypeOK, Phases, Idle, Commands, Deploying, RollingBack, Resuming, Restoring
<1>3. ASSUME Over', ~lost' PROVE frontend' = file.current
  <2>1. status = file.status /\ status \in Settled
    BY <1>1, <1>2, <1>3, EndKnown
  <2>2. status \in {"rolled_back", "recovered"} /\ command \in RollingBack
    BY <1>1, <2>1 DEF Settled, IInv, TypeOK, Phases, Idle, Commands, Deploying, RollingBack,
                      Resuming, Restoring
  <2>3. ~lost /\ frontend = file.current
    BY <1>1, <1>3, <2>1, <2>2 DEF Ends, IInv, Outcomes
  <2> QED BY <2>2, <2>3 DEF Crash, Halfway, HalfUp, RollingBack
<1> QED BY ONLY <1>1, <1>2, <1>3, IInv, IInv', EndKnown, Moves

LEMMA MigrateManaged == ASSUME IInv, Migrate PROVE ManagedStep
BY DEF Migrate, record, ManagedStep, Telling, Over, Idle, Open, Served, Target, Busy

LEMMA RunUpdateManaged == ASSUME IInv, IInv', RunUpdate PROVE ManagedStep
<1>1. PICK w \in Version : UpdateNeutral(w) \/ UpdateForward(w)
  BY DEF RunUpdate
<1>2. Over /\ ~Over' /\ lost' = lost
  BY <1>1 DEF RunUpdate, UpdateNeutral, UpdateForward, Preflight, Save, Goto, Over, Idle
<1>3. file'.current = env /\ file'.target = w /\ env < w
  BY <1>1 DEF UpdateNeutral, UpdateForward, Preflight, Transaction, CreateBackup, Save
<1>4. backend = env /\ backend # 0
  BY <1>1 DEF UpdateNeutral, UpdateForward, Preflight, Healthy
<1>5. ~lost => env = frontend
  BY <1>2, <1>4 DEF Over, Open, Idle, IInv, TypeOK, Status, Interrupted, Settled, Missed, Outcomes,
                    Containers
<1> QED BY <1>2, <1>3, <1>5, Begins

LEMMA RunRollbackManaged == ASSUME IInv, IInv', RunRollback PROVE ManagedStep
<1>1. SameReleases /\ lost' = lost
  BY DEF SameReleases, RunRollback, RollbackPrepared, Rollback, TryTransition, TrySave, Told, Untold,
         Save, IInv, TypeOK
<1>2. CASE RollbackPrepared
  <2>1. ~Over
    BY <1>2 DEF RollbackPrepared, UntouchedPrepared, Over, Open, Interrupted
  <2>2. frontend' = frontend /\ (~lost => frontend = file.current)
    BY <1>2 DEF RollbackPrepared, UntouchedPrepared, deployed, IInv, Outcomes
  <2> QED BY <1>1, <2>1, <2>2, Moves
<1>3. CASE Rollback
  <2>1. ~Over'
    BY <1>3 DEF Rollback, Goto, Over, Idle
  <2>2. Over /\ ~lost => frontend \in {file.current, file.target}
    BY <1>3 DEF Rollback, RollbackAccepted, IInv, TypeOK, Over, Open, Idle, Status, Interrupted,
         Settled, Missed, Outcomes
  <2> QED BY <1>1, <2>1, <2>2, Moves, Reopens
<1> QED BY <1>2, <1>3 DEF RunRollback

LEMMA RunRecoverManaged == ASSUME IInv, IInv', RunResume \/ RunRestore PROVE ManagedStep
<1>1. SameReleases /\ lost' = lost
  BY DEF SameReleases, RunResume, Resume, RunRestore, Restore, TryTransition, TrySave, Told, Untold,
         IInv, TypeOK
<1>2. ~Over'
  BY DEF RunResume, Resume, RunRestore, Restore, Goto, Over, Idle
<1>3. ~Over
  BY Transitions DEF RunResume, Resume, ResumeAccepted, RunRestore, Restore, RestoreAccepted,
       IInv, TypeOK, Over, Open
<1> QED BY <1>1, <1>2, <1>3, Moves

LEMMA StepManaged == ASSUME IInv, IInv', [Next]_vars PROVE ManagedStep
<1>1. CASE UNCHANGED vars
  BY <1>1 DEF vars, ManagedStep, Telling, Over, Idle, Open, Served, Target, Busy
<1>2. CASE Next
  BY <1>2, UpdateManaged, RollbackManaged, RecoverManaged, CrashManaged, MigrateManaged,
     RunUpdateManaged, RunRollbackManaged, RunRecoverManaged DEF Next
<1> QED BY <1>1, <1>2

(* A transaction changes the version the deployment serves only from start *)
(* to end, one at a time, to its target or back, also when what it did was *)
(* lost on the way; an end that was lost leaves unknown what is served.    *)
THEOREM Implements == Spec => ImplementsManaged
<1>1. Init => Managed!Init
  BY Releases DEF Init, NoTransaction, Idle, Open, Telling, Interrupted, Managed!Init
<1>2. IInv /\ IInv' /\ [Next]_vars => ManagedStep
  BY StepManaged
<1> QED
  BY <1>1, <1>2, Invariance, PTL
     DEF Spec, ImplementsManaged, Managed!Spec, ManagedStep, Served, Target, Busy, Telling


-----------------------------------------------------------------------------
(* The trash: the inductive invariant.                                     *)

(* A row has its file at its place, and a file of the table its row. *)
Rowed ==
  /\ \A t \in rows : fileRow[PathOf[t]].track = t
  /\ \A p \in Path : fileRow[p] = NoRow \/ /\ fileRow[p].track \in rows
                                           /\ PathOf[fileRow[p].track] = p
                                           /\ fileRow[p].id # None
OutOfRows == \A t \in Track : In(t, {"ready", "restoring", "purging"}) => t \notin rows

(* The store of a track holds what its entry lists, all of it when ready;  *)
(* what a download replaced behind the look of a move is in the record.    *)
Whole(t, k) == \/ store[t][k] = journal[t].moves[k]
               \/ {journal[t].moves[k], store[t][k]} \subseteq taken
WholeThen(t, k) == \/ store'[t][k] = journal'[t].moves[k]
                   \/ {journal'[t].moves[k], store'[t][k]} \subseteq taken'
Listed   == \A t \in Track, k \in Kinds :
              \/ store[t][k] = None
              \/ Has(t) /\ journal[t].moves[k] # None /\ journal[t].moves[k] \in {store[t][k]} \cup taken
Complete == \A t \in Track : In(t, {"ready"}) => \A k \in Kinds : Whole(t, k)

(* Where the file of a row, of an entry and of a download is. *)
RowFile   == \A t \in rows :
               fileRow[PathOf[t]].id \in {disk[PathOf[t]].audio, store[t].audio} \cup taken
EntryFile == \A t \in Track : Has(t) =>
               /\ journal[t].file # None
               /\ journal[t].file = journal[t].moves.audio \/ journal[t].file \in taken
Placed(p) == job[p].stage = "placed"
JobFile   == \A p \in Path : Placed(p) => job[p].id = disk[p].audio \/ job[p].id \in taken

(* A recording belongs to one row or one entry, or to both of one track,   *)
(* or to one download.                                                     *)
Claims ==
  /\ \A p, q \in Path : fileRow[p].id # None /\ fileRow[p].id = fileRow[q].id => p = q
  /\ \A t \in Track, p \in Path : Has(t) /\ fileRow[p].id = journal[t].file => fileRow[p].track = t
  /\ \A t, u \in Track : Has(t) /\ Has(u) /\ journal[t].file = journal[u].file => t = u
  /\ \A p, q \in Path : Placed(p) => fileRow[q].id # job[p].id
  /\ \A p \in Path, t \in Track : Placed(p) /\ Has(t) => journal[t].file # job[p].id
  /\ \A p, q \in Path : Placed(p) /\ Placed(q) /\ job[p].id = job[q].id => p = q

(* What is named anywhere was written once. *)
Seen == used \cup {None}
Written ==
  /\ \A p \in Path : fileRow[p].id \in Seen /\ job[p].id \in Seen
  /\ \A p \in Path : Placed(p) => job[p].id # None
  /\ \A p \in Path, k \in Kinds : disk[p][k] \in Seen
  /\ \A t \in Track, k \in Kinds : store[t][k] \in Seen
  /\ \A t \in Track : Has(t) => journal[t].file \in Seen
  /\ \A t \in Track, k \in Kinds : Has(t) => journal[t].moves[k] \in Seen

DataInv == /\ Rowed /\ OutOfRows /\ Listed /\ Complete /\ RowFile /\ EntryFile /\ JobFile
           /\ Claims /\ Written /\ MediaKept

(* The steps of an operation, and the state of the entry at each.          *)
Standing ==
  /\ op.kind = "none" <=> op.pc = "idle"
  /\ op.at = 1 \/ op.pc \in {"out", "back", "remove"}
  /\ op.kind = "trash" => op.pc \in {"prepare", "out", "commit", "back", "forget", "verify"}
  /\ op.kind = "restore" => op.pc \in {"mark", "back", "metadata", "verify", "out", "unmark"}
  /\ op.kind = "purge" => op.pc \in {"mark", "remove", "forget"}
  /\ op.kind = "recover" => op.pc \in {"next", "back", "forget", "out", "unmark"}
  /\ op.pc \notin {"idle", "next"} => op.on \in Track
  /\ op.pc = "out" => In(op.on, IF op.kind = "trash" THEN {"preparing"} ELSE {"restoring"})
  /\ op.pc = "back" => In(op.on, IF op.kind = "restore" THEN {"restoring"} ELSE {"preparing"})
  /\ op.pc = "forget" => In(op.on, IF op.kind = "purge" THEN {"purging"} ELSE {"preparing"})
  /\ op.pc = "commit" => In(op.on, {"preparing"})
  /\ op.pc = "mark" => In(op.on, {"ready"})
  /\ op.pc = "remove" => In(op.on, {"purging"})
  /\ op.pc \in {"unmark", "metadata"} => In(op.on, {"restoring"})

(* What the look and the link have found, or somebody has replaced since. *)
Stepping ==
  op.step # "look" =>
    /\ op.pc \in {"out", "back"} /\ Wanted # None
    /\ op.step = "link"   => Wanted \in {Source} \cup taken
    /\ op.step = "remove" => Stored # None /\ Stored \in {Orig} \cup taken

(* What has been moved or removed so far. *)
Past(k) == op.at = 2 /\ k = "audio"
Progress ==
  /\ op.pc = "out" => \A k \in Kinds : Past(k) => Whole(op.on, k)
  /\ op.pc \in {"commit", "unmark"} => \A k \in Kinds : Whole(op.on, k)
  /\ op.pc \in {"back", "remove"} => \A k \in Kinds : Past(k) => store[op.on][k] = None
  /\ op.pc \in {"forget", "metadata"} => \A k \in Kinds : store[op.on][k] = None
  /\ op.kind = "restore" /\ (op.pc = "metadata" \/ (op.pc = "back" /\ op.at = 2)) =>
       journal[op.on].moves.audio \in {None, disk[PathOf[op.on]].audio} \cup taken

OpInv    == Standing /\ Stepping /\ Progress
TrashInv == TrashTypes /\ DataInv /\ OpInv

-----------------------------------------------------------------------------
(* Steps of an operation. *)

LEMMA KindIs ==
  ASSUME NEW i \in 1..2 PROVE Kind[i] \in Kinds /\ Len(Kind) = 2 /\ Kind[1] = "audio" /\ Kind[2] = "lyrics"
BY DEF Kind, Kinds

Becomes(pc) ==
  /\ op' \in OpType /\ op'.kind = op.kind /\ op'.pc = pc /\ op'.on = op.on /\ op'.at = 1
  /\ op'.step = "look"

Pcs == {"out", "commit", "back", "forget", "verify", "metadata", "unmark", "remove", "next"}

LEMMA Goes ==
  ASSUME op \in OpType, NEW pc \in Pcs, GoOn(pc)
  PROVE  Becomes(pc)
<1>1. op' = [op EXCEPT !.pc = pc, !.at = 1, !.step = "look"]
  BY DEF GoOn, Pcs
<1>2. PICK a \in OpType : a = [op EXCEPT !.pc = pc]
  <2>1. [op EXCEPT !.pc = pc] \in OpType
    BY DEF OpType, Pcs
  <2> QED BY <2>1
<1>3. PICK b \in OpType : b = [a EXCEPT !.at = 1]
  <2>1. [a EXCEPT !.at = 1] \in OpType
    BY DEF OpType
  <2> QED BY <2>1
<1>4. PICK c \in OpType : c = [b EXCEPT !.step = "look"]
  <2>1. [b EXCEPT !.step = "look"] \in OpType
    BY DEF OpType
  <2> QED BY <2>1
<1>5. op' = c
  BY <1>1, <1>2, <1>3, <1>4
<1>6. a.kind = op.kind /\ a.pc = pc /\ a.on = op.on
  BY <1>2 DEF OpType
<1>7. b.kind = a.kind /\ b.pc = a.pc /\ b.on = a.on /\ b.at = 1
  BY <1>3 DEF OpType
<1>8. c.kind = b.kind /\ c.pc = b.pc /\ c.on = b.on /\ c.at = b.at /\ c.step = "look"
  BY <1>4 DEF OpType
<1> QED
  BY <1>5, <1>6, <1>7, <1>8 DEF Becomes

LEMMA NoOpIs == NoOp \in OpType /\ NoOp.kind = "none" /\ NoOp.pc = "idle" /\ NoOp.step = "look" /\ NoOp.at = 1
BY DEF NoOp, OpType

(* What follows a step, spelled out. *)
LEMMA SucceedGoes ==
  ASSUME op \in OpType, Standing, Succeed
  PROVE  /\ op.pc = "prepare" => Becomes("out")
         /\ op.pc = "out" => Becomes(IF op.kind = "trash" THEN "commit" ELSE "unmark")
         /\ op.pc = "back" => Becomes(IF op.kind = "restore" THEN "metadata" ELSE "forget")
         /\ op.pc = "mark" => Becomes(IF op.kind = "restore" THEN "back" ELSE "remove")
         /\ op.pc = "remove" => Becomes("forget")
         /\ op.pc \in {"commit", "metadata"} => op' = NoOp
         /\ op.pc \in {"forget", "unmark"} => IF op.kind = "recover" THEN Becomes("next") ELSE op' = NoOp
         /\ UNCHANGED sweep
<1> DEFINE next == OnSuccess[op.kind][op.pc]
<1>1. GoOn(next) /\ UNCHANGED sweep
  BY DEF Succeed
<1>2. next = "end" => op' = NoOp
  BY <1>1 DEF GoOn
<1>3. next \in Pcs => Becomes(next)
  BY <1>1, Goes
<1>4. /\ op.pc = "prepare" => next = "out"
      /\ op.pc = "out" => next = IF op.kind = "trash" THEN "commit" ELSE "unmark"
      /\ op.pc = "back" => next = IF op.kind = "restore" THEN "metadata" ELSE "forget"
      /\ op.pc = "mark" => next = IF op.kind = "restore" THEN "back" ELSE "remove"
      /\ op.pc = "remove" => next = "forget"
      /\ op.pc \in {"commit", "metadata"} => next = "end"
      /\ op.pc \in {"forget", "unmark"} => next = IF op.kind = "recover" THEN "next" ELSE "end"
  BY DEF OnSuccess, Standing, OpType
<1> HIDE DEF next
<1> QED
  BY <1>1, <1>2, <1>3, <1>4 DEF Pcs

LEMMA FailGoes ==
  ASSUME op \in OpType, Standing, Fail
  PROVE  /\ \/ op.kind = "trash" /\ op.pc = "out" /\ Becomes("back")
            \/ op.kind = "trash" /\ op.pc = "commit" /\ Becomes("verify")
            \/ op.kind = "restore" /\ op.pc \in {"back", "metadata"} /\ Becomes("verify")
            \/ op' = NoOp
         /\ sweep' \in {sweep, {}}
<1>1. GoOn(OnFailure(op.kind, op.pc)) /\ sweep' \in {sweep, {}}
  BY DEF Fail
<1>2. CASE op.kind = "trash" /\ op.pc = "out"
  BY <1>1, <1>2, Goes DEF OnFailure, Pcs
<1>3. CASE op.kind = "trash" /\ op.pc = "commit"
  BY <1>1, <1>3, Goes DEF OnFailure, Pcs
<1>4. CASE op.kind = "restore" /\ op.pc \in {"back", "metadata"}
  BY <1>1, <1>4, Goes DEF OnFailure, Pcs
<1>5. CASE /\ ~(op.kind = "trash" /\ op.pc = "out")
           /\ ~(op.kind = "trash" /\ op.pc = "commit")
           /\ ~(op.kind = "restore" /\ op.pc \in {"back", "metadata"})
  <2>1. OnFailure(op.kind, op.pc) = "end"
    BY <1>5 DEF OnFailure
  <2> QED BY <1>1, <2>1 DEF GoOn
<1> QED
  BY <1>2, <1>3, <1>4, <1>5

(* An operation that is over, or that looks for the next entry. *)
LEMMA Rests ==
  ASSUME (op'.kind = "none" /\ op'.pc = "idle") \/ (op'.kind = "recover" /\ op'.pc = "next"),
         op'.step = "look", op'.at = 1
  PROVE  OpInv'
BY DEF OpInv, Standing, Stepping, Progress, In

(* A step that fails leaves an operation that knows where it stands. *)
LEMMA FailOp ==
  ASSUME TrashTypes, OpInv, Fail, op.pc = "out" => journal'[op.on].state = journal[op.on].state
  PROVE  OpInv' /\ op' \in OpType /\ sweep' \subseteq Track
<1>0. op \in OpType /\ Standing /\ sweep \subseteq Track
  BY DEF TrashTypes, OpInv
<1>1. sweep' \subseteq Track
  BY <1>0, FailGoes
<1>2. CASE op' = NoOp
  BY <1>1, <1>2, NoOpIs, Rests
<1>3. CASE op.kind = "trash" /\ op.pc = "out" /\ Becomes("back")
  <2>1. Standing'
    BY <1>0, <1>3 DEF Standing, Becomes, In
  <2>2. Stepping' /\ Progress'
    BY <1>3, KindIs DEF Stepping, Progress, Becomes, Past
  <2> QED BY <1>1, <1>3, <2>1, <2>2 DEF OpInv, Becomes
<1>4. CASE op.kind = "trash" /\ op.pc = "commit" /\ Becomes("verify")
  <2>1. Standing'
    BY <1>0, <1>4 DEF Standing, Becomes, In
  <2>2. Stepping' /\ Progress'
    BY <1>4 DEF Stepping, Progress, Becomes, Past
  <2> QED BY <1>1, <1>4, <2>1, <2>2 DEF OpInv, Becomes
<1>5. CASE op.kind = "restore" /\ op.pc \in {"back", "metadata"} /\ Becomes("verify")
  <2>1. Standing'
    BY <1>0, <1>5 DEF Standing, Becomes, In
  <2>2. Stepping' /\ Progress'
    BY <1>5 DEF Stepping, Progress, Becomes, Past
  <2> QED BY <1>1, <1>5, <2>1, <2>2 DEF OpInv, Becomes
<1> QED
  BY <1>0, <1>2, <1>3, <1>4, <1>5, FailGoes

LEMMA DataStays ==
  ASSUME DataInv, UNCHANGED <<rows, fileRow, journal, disk, store, job, used, taken>>
  PROVE  DataInv'
<1>1. UNCHANGED <<rows, fileRow, journal, disk, store, job, used, taken>>
  OBVIOUS
<1> QED
  BY <1>1 DEF DataInv, Rowed, OutOfRows, Listed, Complete, Whole, RowFile, EntryFile, JobFile, Placed, Claims,
            Written, Seen, MediaKept, In, Has, OnDisk

(* What the action property says of a step. *)
Kept == \A n \in OnDisk \ {None} :
          \/ n \in OnDisk' \/ n \in taken'
          \/ \E t \in Track : In(t, {"purging"}) /\ \E k \in Kinds : journal[t].moves[k] = n

(* A step that moves nothing but the operation and the lists of others.    *)
LEMMA Idles ==
  ASSUME TrashInv, UNCHANGED <<rows, fileRow, journal, disk, store, job, used, taken>>,
         op' \in OpType, sweep' \subseteq Track, OpInv',
         orphans' \in [paths : SUBSET Path, deletes : Path \cup {None}]
  PROVE  TrashInv' /\ Kept
<1>1. UNCHANGED <<rows, fileRow, journal, disk, store, job, used, taken>>
  OBVIOUS
<1>2. TrashTypes'
  BY <1>1 DEF TrashInv, TrashTypes
<1>3. DataInv'
  BY DataStays DEF TrashInv
<1>4. Kept
  BY <1>1 DEF Kept, OnDisk
<1> QED
  BY <1>2, <1>3, <1>4 DEF TrashInv

LEMMA Starts ==
  ASSUME TrashInv, NEW t \in Track, NEW kind \in {"trash", "restore", "purge"},
         NEW pc \in {"prepare", "mark", "remove"}, Start(kind, pc, t),
         kind = "trash" <=> pc = "prepare", pc = "remove" => kind = "purge",
         pc = "mark" => In(t, {"ready"}), pc = "remove" => In(t, {"purging"}),
         UNCHANGED journal
  PROVE  op' \in OpType /\ OpInv'
<1>1. op' = [NoOp EXCEPT !.kind = kind, !.pc = pc, !.on = t]
  BY DEF Start
<1>2. /\ op' \in OpType /\ op'.kind = kind /\ op'.pc = pc /\ op'.on = t /\ op'.at = 1 /\ op'.step = "look"
  <2>1. op' = [kind |-> kind, pc |-> pc, on |-> t, at |-> 1, step |-> "look", todo |-> {}, hourly |-> FALSE]
    BY <1>1 DEF NoOp
  <2> QED BY <2>1 DEF OpType
<1>3. Standing'
  BY <1>2 DEF Standing, In
<1>4. Stepping' /\ Progress'
  BY <1>2 DEF Stepping, Progress, Past
<1> QED
  BY <1>2, <1>3, <1>4 DEF OpInv

LEMMA StartSteps ==
  ASSUME TrashInv, NEW t \in Track, TrashTrack(t) \/ RestoreTrash(t) \/ PurgeTrash(t)
  PROVE  TrashInv' /\ Kept
<1>0. UNCHANGED <<rows, fileRow, journal, disk, store, sweep, Outside>>
  BY DEF TrashTrack, RestoreTrash, PurgeTrash
<1>1. UNCHANGED <<rows, fileRow, journal, disk, store, job, used, taken>> /\ UNCHANGED <<sweep, orphans>>
  BY <1>0 DEF Outside
<1>2. op' \in OpType /\ OpInv'
  <2>1. CASE TrashTrack(t)
    BY <2>1, <1>1, Starts DEF TrashTrack
  <2>2. CASE RestoreTrash(t)
    BY <2>2, <1>1, Starts DEF RestoreTrash
  <2>3. CASE PurgeTrash(t)
    BY <2>3, <1>1, Starts DEF PurgeTrash, StartPurge, In
  <2> QED BY <2>1, <2>2, <2>3
<1> QED
  BY <1>1, <1>2, Idles DEF TrashInv, TrashTypes

LEMMA RecoverSteps ==
  ASSUME TrashInv, NEW hourly \in BOOLEAN, StartRecover(hourly)
  PROVE  TrashInv' /\ Kept
<1>0. UNCHANGED <<rows, fileRow, journal, disk, store, sweep, Outside>>
  BY DEF StartRecover
<1>1. UNCHANGED <<rows, fileRow, journal, disk, store, job, used, taken>> /\ UNCHANGED <<sweep, orphans>>
  BY <1>0 DEF Outside
<1>2. op' = [NoOp EXCEPT !.kind = "recover", !.pc = "next", !.todo = OpenEntries, !.hourly = hourly]
  BY DEF StartRecover
<1>3. OpenEntries \subseteq Track
  BY DEF OpenEntries
<1> HIDE DEF OpenEntries
<1>4. op' \in OpType /\ op'.kind = "recover" /\ op'.pc = "next" /\ op'.step = "look" /\ op'.at = 1
  <2>1. op' = [kind |-> "recover", pc |-> "next", on |-> None, at |-> 1, step |-> "look",
               todo |-> OpenEntries, hourly |-> hourly]
    BY <1>2 DEF NoOp
  <2> QED BY <1>3, <2>1 DEF OpType
<1> QED
  BY <1>1, <1>4, Rests, Idles DEF TrashInv, TrashTypes

LEMMA MaintenanceSteps ==
  ASSUME TrashInv, Maintenance
  PROVE  TrashInv' /\ Kept
<1>1. CASE Maintain
  BY <1>1, RecoverSteps DEF Maintain
<1>2. CASE MaintainPurge
  <2>1. PICK t \in sweep : /\ sweep' = sweep \ {t}
                           /\ IF t \in Due THEN StartPurge(t) ELSE op = NoOp /\ UNCHANGED op
                           /\ UNCHANGED <<rows, fileRow, journal, disk, store, Outside, left>>
    BY <1>2 DEF MaintainPurge
  <2>2. UNCHANGED <<rows, fileRow, journal, disk, store, job, used, taken>> /\ UNCHANGED orphans
    BY <2>1 DEF Outside
  <2>3. t \in Track /\ sweep' \subseteq Track
    BY <2>1 DEF TrashInv, TrashTypes
  <2>4. op' \in OpType /\ OpInv'
    <3>1. CASE t \in Due
      <4>1. In(t, {"ready"}) \/ In(t, {"purging"})
        BY <3>1 DEF Due
      <4> QED BY <2>1, <2>2, <2>3, <3>1, <4>1, Starts DEF StartPurge, In
    <3>2. CASE t \notin Due
      <4>1. op' = NoOp
        BY <2>1, <3>2
      <4> QED BY <4>1, NoOpIs, Rests
    <3> QED BY <3>1, <3>2
  <2> QED
    BY <2>2, <2>3, <2>4, Idles DEF TrashInv, TrashTypes
<1> QED
  BY <1>1, <1>2 DEF Maintenance

LEMMA VerifySteps ==
  ASSUME TrashInv, VerifyTrash \/ VerifyRestore
  PROVE  TrashInv' /\ Kept
<1>0. UNCHANGED <<rows, fileRow, journal, disk, store, sweep, Outside>>
  BY DEF VerifyTrash, VerifyRestore
<1>1. UNCHANGED <<rows, fileRow, journal, disk, store, job, used, taken>> /\ UNCHANGED <<sweep, orphans>>
  BY <1>0 DEF Outside
<1>2. op \in OpType /\ Standing /\ op.pc = "verify"
  BY DEF TrashInv, TrashTypes, OpInv, VerifyTrash, VerifyRestore, Pc
<1>3. op' \in OpType /\ OpInv'
  <2>1. CASE op' = NoOp
    BY <2>1, NoOpIs, Rests
  <2>2. CASE op.kind = "trash" /\ In(op.on, {"preparing"}) /\ Becomes("back")
    <3>1. Standing'
      BY <1>1, <1>2, <2>2 DEF Standing, Becomes, In
    <3>2. Stepping' /\ Progress'
      BY <2>2 DEF Stepping, Progress, Becomes, Past
    <3> QED BY <2>2, <3>1, <3>2 DEF OpInv, Becomes
  <2>3. CASE op.kind = "restore" /\ In(op.on, {"restoring"}) /\ Becomes("out")
    <3>1. Standing'
      BY <1>1, <1>2, <2>3 DEF Standing, Becomes, In
    <3>2. Stepping' /\ Progress'
      BY <2>3 DEF Stepping, Progress, Becomes, Past
    <3> QED BY <2>3, <3>1, <3>2 DEF OpInv, Becomes
  <2>4. CASE VerifyTrash
    <3>1. GoOn("end") \/ GoOn(IF In(op.on, {"preparing"}) THEN "back" ELSE "end")
      BY <2>4 DEF VerifyTrash
    <3>2. op' = NoOp \/ (In(op.on, {"preparing"}) /\ GoOn("back"))
      BY <3>1 DEF GoOn
    <3> QED BY <1>2, <2>1, <2>2, <2>4, <3>2, Goes DEF VerifyTrash, Pcs
  <2>5. CASE VerifyRestore
    <3>1. GoOn("end") \/ GoOn(IF In(op.on, {"restoring"}) THEN "out" ELSE "end")
      BY <2>5 DEF VerifyRestore
    <3>2. op' = NoOp \/ (In(op.on, {"restoring"}) /\ GoOn("out"))
      BY <3>1 DEF GoOn
    <3> QED BY <1>2, <2>1, <2>3, <2>5, <3>2, Goes DEF VerifyRestore, Pcs
  <2> QED BY <2>4, <2>5
<1> QED
  BY <1>1, <1>3, Idles DEF TrashInv, TrashTypes

LEMMA EntrySteps ==
  ASSUME TrashInv, RecoverEntry
  PROVE  TrashInv' /\ Kept
<1>0. UNCHANGED <<rows, fileRow, journal, disk, store, Outside, left>>
  BY DEF RecoverEntry
<1>1. UNCHANGED <<rows, fileRow, journal, disk, store, job, used, taken>> /\ UNCHANGED orphans
  BY <1>0 DEF Outside
<1>2. op \in OpType /\ Standing /\ op.pc = "next" /\ op.kind = "recover" /\ op.step = "look" /\ sweep \subseteq Track
  BY DEF TrashInv, TrashTypes, OpInv, RecoverEntry, Pc, Standing, Stepping, OpType
<1>3. sweep' \subseteq Track
  BY <1>2 DEF RecoverEntry, Due
<1>4. op' \in OpType /\ OpInv'
  <2>1. CASE op' = NoOp
    BY <2>1, NoOpIs, Rests
  <2>2. CASE op' # NoOp
    <3>1. PICK t \in op.todo :
            op' = LET o == [op EXCEPT !.todo = @ \ {t}, !.on = t] IN
                    IF In(t, {"preparing"}) /\ t \in rows THEN [o EXCEPT !.pc = "back"]
                    ELSE IF In(t, {"restoring"}) /\ ~Conflict(t) THEN [o EXCEPT !.pc = "out"]
                    ELSE NoOp
      BY <2>2 DEF RecoverEntry
    <3>2. t \in Track /\ op.todo \ {t} \in SUBSET Track
      BY <1>2, <3>1 DEF OpType
    <3>3. PICK a \in OpType : a = [op EXCEPT !.todo = op.todo \ {t}]
      <4>1. [op EXCEPT !.todo = op.todo \ {t}] \in OpType
        BY <1>2, <3>2 DEF OpType
      <4> QED BY <4>1
    <3>4. PICK o \in OpType : o = [a EXCEPT !.on = t]
      <4>1. [a EXCEPT !.on = t] \in OpType
        BY <3>2, <3>3 DEF OpType
      <4> QED BY <4>1
    <3>5. a.kind = op.kind /\ a.step = op.step
      BY <3>3 DEF OpType
    <3>6. o.kind = "recover" /\ o.step = "look" /\ o.on = t
      BY <1>2, <3>4, <3>5 DEF OpType
    <3>7. [op EXCEPT !.todo = @ \ {t}, !.on = t] = o
      BY <3>3, <3>4
    <3>8. \/ In(t, {"preparing"}) /\ op' = [o EXCEPT !.pc = "back"]
          \/ In(t, {"restoring"}) /\ op' = [o EXCEPT !.pc = "out"]
      BY <2>2, <3>1, <3>7
    <3>9. ASSUME NEW pc \in {"back", "out"}, op' = [o EXCEPT !.pc = pc]
          PROVE  op' \in OpType /\ op'.kind = "recover" /\ op'.step = "look" /\ op'.on = t /\ op'.pc = pc
                 /\ op'.at = o.at
      BY <3>6, <3>9 DEF OpType
    <3>10. o.at = 1
      <4>1. op.at = 1
        BY <1>2 DEF Standing
      <4>2. a.at = op.at
        BY <3>3 DEF OpType
      <4> QED BY <3>4, <4>1, <4>2 DEF OpType
    <3>11. ASSUME NEW pc \in {"back", "out"}, op' = [o EXCEPT !.pc = pc],
                  pc = "back" => In(t, {"preparing"}), pc = "out" => In(t, {"restoring"})
           PROVE  op' \in OpType /\ OpInv'
      <4>1. /\ op' \in OpType /\ op'.kind = "recover" /\ op'.step = "look" /\ op'.on = t /\ op'.pc = pc
            /\ op'.at = 1
        BY <3>9, <3>10, <3>11
      <4>2. Standing'
        BY <1>1, <3>2, <3>11, <4>1 DEF Standing, In
      <4>3. Stepping' /\ Progress'
        BY <4>1 DEF Stepping, Progress, Past
      <4> QED BY <4>1, <4>2, <4>3 DEF OpInv
    <3> QED BY <3>8, <3>11
  <2> QED BY <2>1, <2>2
<1> QED
  BY <1>1, <1>3, <1>4, Idles DEF TrashInv, TrashTypes

-----------------------------------------------------------------------------
(* Steps of the journal. *)

LEMMA EntryIs ==
  ASSUME TrashTypes, NEW t \in Track, Has(t)
  PROVE  /\ journal[t] \in EntryType
         /\ journal[t].file \in FileId \cup {None}
         /\ \A k \in Kinds : journal[t].moves[k] \in FileId \cup {None}
<1>1. journal[t] \in EntryType
  BY DEF TrashTypes, Has, NoEntry
<1> QED
  BY <1>1 DEF EntryType, Media

(* An entry of which only the state or the date changes. *)
LEMMA Restates ==
  ASSUME TrashInv, NEW t \in Track, In(t, {"ready", "restoring"}),
         NEW e \in EntryType, e.state \in {"ready", "restoring", "purging"},
         e.moves = journal[t].moves, e.file = journal[t].file,
         e.state = "ready" => \A k \in Kinds : Whole(t, k),
         journal' = [journal EXCEPT ![t] = e],
         UNCHANGED <<rows, fileRow, disk, store, job, used, taken>>
  PROVE  DataInv' /\ Kept /\ journal' \in [Track -> EntryType \cup {NoEntry}]
<1>0. UNCHANGED rows /\ UNCHANGED fileRow /\ UNCHANGED disk /\ UNCHANGED store /\ UNCHANGED job
      /\ UNCHANGED used /\ UNCHANGED taken
  OBVIOUS
<1>1. journal \in [Track -> EntryType \cup {NoEntry}]
  BY DEF TrashInv, TrashTypes
<1>2. journal' \in [Track -> EntryType \cup {NoEntry}] /\ journal'[t] = e
      /\ \A u \in Track : u # t => journal'[u] = journal[u]
  BY <1>1
<1>3. Has(t) /\ Has(t)'
  BY <1>2 DEF Has, In
<1>4. \A u \in Track : /\ Has(u)' <=> Has(u)
                       /\ journal'[u].moves = journal[u].moves /\ journal'[u].file = journal[u].file
  BY <1>2, <1>3 DEF Has
<1>5. t \notin rows
  BY DEF TrashInv, DataInv, OutOfRows, In
<1>6. Rowed' /\ RowFile' /\ JobFile'
  BY <1>0 DEF TrashInv, DataInv, Rowed, RowFile, JobFile, Placed
<1>7. OutOfRows'
  BY <1>0, <1>2, <1>5 DEF TrashInv, DataInv, OutOfRows, In
<1>8. Listed' /\ EntryFile'
  BY <1>0, <1>4 DEF TrashInv, DataInv, Listed, EntryFile
<1>9. Complete'
  BY <1>0, <1>2 DEF TrashInv, DataInv, Complete, Whole, In
<1>10. Claims'
  BY <1>0, <1>4 DEF TrashInv, DataInv, Claims, Placed
<1>11. Written'
  BY <1>0, <1>4 DEF TrashInv, DataInv, Written, Seen, Placed
<1>12. MediaKept'
  BY <1>0, <1>2, <1>5 DEF TrashInv, DataInv, MediaKept, OnDisk, In
<1>13. Kept
  BY <1>0 DEF Kept, OnDisk
<1> QED
  BY <1>2, <1>6, <1>7, <1>8, <1>9, <1>10, <1>11, <1>12, <1>13 DEF DataInv

(* An entry that goes, of which nothing is in the store any more. *)
LEMMA Forgets ==
  ASSUME TrashInv, NEW t \in Track, \A k \in Kinds : store[t][k] = None,
         journal' = [journal EXCEPT ![t] = NoEntry],
         UNCHANGED <<rows, fileRow, disk, store, job, used, taken>>
  PROVE  DataInv' /\ Kept /\ journal' \in [Track -> EntryType \cup {NoEntry}]
<1>0. UNCHANGED rows /\ UNCHANGED fileRow /\ UNCHANGED disk /\ UNCHANGED store /\ UNCHANGED job
      /\ UNCHANGED used /\ UNCHANGED taken
  OBVIOUS
<1>1. journal \in [Track -> EntryType \cup {NoEntry}]
  BY DEF TrashInv, TrashTypes
<1>2. journal' \in [Track -> EntryType \cup {NoEntry}] /\ journal'[t] = NoEntry
      /\ \A u \in Track : u # t => journal'[u] = journal[u]
  BY <1>1
<1>3. ~Has(t)' /\ journal'[t].state = "none"
  BY <1>2 DEF Has, NoEntry
<1>4. \A u \in Track : Has(u)' => u # t /\ Has(u) /\ journal'[u] = journal[u]
  BY <1>2, <1>3 DEF Has
<1>6. Rowed' /\ RowFile' /\ JobFile'
  BY <1>0 DEF TrashInv, DataInv, Rowed, RowFile, JobFile, Placed
<1>7. OutOfRows'
  BY <1>0, <1>2, <1>3 DEF TrashInv, DataInv, OutOfRows, In
<1>8. Listed'
  BY <1>0, <1>2 DEF TrashInv, DataInv, Listed, Has
<1>81. EntryFile'
  BY <1>0, <1>4 DEF TrashInv, DataInv, EntryFile
<1>9. Complete'
  BY <1>0, <1>2, <1>3 DEF TrashInv, DataInv, Complete, Whole, In
<1>10. Claims'
  BY <1>0, <1>4 DEF TrashInv, DataInv, Claims, Placed
<1>11. Written'
  BY <1>0, <1>4 DEF TrashInv, DataInv, Written, Seen, Placed
<1>12. MediaKept'
  BY <1>0, <1>2, <1>3 DEF TrashInv, DataInv, MediaKept, OnDisk, In
<1>13. Kept
  BY <1>0 DEF Kept, OnDisk
<1> QED
  BY <1>2, <1>6, <1>7, <1>8, <1>81, <1>9, <1>10, <1>11, <1>12, <1>13 DEF DataInv

(* A new entry of a track of the catalogue. *)
LEMMA Prepares ==
  ASSUME TrashInv, NEW t \in rows, ~Has(t),
         journal' = [journal EXCEPT ![t] = [state |-> "preparing", moves |-> disk[PathOf[t]],
                                            file |-> Files(t), expired |-> FALSE]],
         UNCHANGED <<rows, fileRow, disk, store, job, used, taken>>
  PROVE  DataInv' /\ Kept /\ journal' \in [Track -> EntryType \cup {NoEntry}]
<1> DEFINE p == PathOf[t]
           e == [state |-> "preparing", moves |-> disk[p], file |-> Files(t), expired |-> FALSE]
<1>0. UNCHANGED rows /\ UNCHANGED fileRow /\ UNCHANGED disk /\ UNCHANGED store /\ UNCHANGED job
      /\ UNCHANGED used /\ UNCHANGED taken
  OBVIOUS
<1>1. journal \in [Track -> EntryType \cup {NoEntry}] /\ t \in Track /\ p \in Path
  BY TrashAssumption DEF TrashInv, TrashTypes
<1>2. fileRow[p].track = t /\ fileRow[p].id = Files(t) /\ fileRow[p].id # None
  BY <1>1, TrashAssumption DEF TrashInv, DataInv, Rowed, Files, NoRow
<1>3. e \in EntryType
  <2>1. disk[p] \in Media /\ fileRow[p].id \in FileId \cup {None}
    BY <1>1 DEF TrashInv, TrashTypes, RowType
  <2> QED BY <1>2, <2>1 DEF EntryType, States
<1>4. e.state = "preparing" /\ e.moves = disk[p] /\ e.file = fileRow[p].id
  BY <1>2
<1> HIDE DEF e
<1>5. journal' \in [Track -> EntryType \cup {NoEntry}] /\ journal'[t] = e
      /\ \A u \in Track : u # t => journal'[u] = journal[u]
  BY <1>1, <1>3 DEF e
<1>6. Has(t)' /\ \A u \in Track : u # t => (Has(u)' <=> Has(u))
  BY <1>4, <1>5 DEF Has
<1>7. \A k \in Kinds : store[t][k] = None
  BY <1>1 DEF TrashInv, DataInv, Listed
<1>8. Rowed' /\ RowFile' /\ JobFile'
  BY <1>0 DEF TrashInv, DataInv, Rowed, RowFile, JobFile, Placed
<1>9. OutOfRows' /\ Complete'
  BY <1>0, <1>4, <1>5 DEF TrashInv, DataInv, OutOfRows, Complete, Whole, In
<1>10. Listed'
  BY <1>0, <1>5, <1>6, <1>7 DEF TrashInv, DataInv, Listed
<1>11. EntryFile'
  <2>1. fileRow[p].id \in {disk[p].audio, store[t].audio} \cup taken
    BY DEF TrashInv, DataInv, RowFile
  <2>2. disk[p].audio = fileRow[p].id \/ fileRow[p].id \in taken
    BY <1>2, <1>7, <2>1 DEF Kinds
  <2> QED BY <1>0, <1>2, <1>4, <1>5, <1>6, <2>2 DEF TrashInv, DataInv, EntryFile
<1>12. Claims'
  <2>1. \A u \in Track : Has(u) => journal[u].file # fileRow[p].id
    BY <1>1, <1>2 DEF TrashInv, DataInv, Claims
  <2>2. \A q \in Path : fileRow[q].id = fileRow[p].id => q = p
    BY <1>1, <1>2 DEF TrashInv, DataInv, Claims
  <2>3. \A q \in Path : Placed(q) => fileRow[p].id # job[q].id
    BY <1>1 DEF TrashInv, DataInv, Claims
  <2>4. Claims
    BY DEF TrashInv, DataInv
  <2>5. ASSUME NEW u \in Track, Has(u)'
        PROVE  \/ u = t /\ journal'[u].file = fileRow[p].id
               \/ u # t /\ Has(u) /\ journal'[u].file = journal[u].file
    BY <1>4, <1>5, <1>6, <2>5
  <2>6. \A u \in Track, q \in Path : Has(u)' /\ fileRow[q].id = journal'[u].file => fileRow[q].track = u
    BY <1>2, <2>2, <2>4, <2>5 DEF Claims
  <2>7. \A u, v \in Track : Has(u)' /\ Has(v)' /\ journal'[u].file = journal'[v].file => u = v
    BY <2>1, <2>4, <2>5 DEF Claims
  <2>8. \A q \in Path, u \in Track : Placed(q) /\ Has(u)' => journal'[u].file # job[q].id
    BY <2>3, <2>4, <2>5 DEF Claims
  <2> QED BY <1>0, <2>4, <2>6, <2>7, <2>8 DEF Claims, Placed
<1>13. Written'
  <2>1. fileRow[p].id \in Seen /\ \A k \in Kinds : disk[p][k] \in Seen
    BY <1>1 DEF TrashInv, DataInv, Written
  <2> QED BY <1>0, <1>4, <1>5, <1>6, <2>1 DEF TrashInv, DataInv, Written, Seen, Placed
<1>14. MediaKept'
  <2>1. \A k \in Kinds : e.moves[k] \in OnDisk
    BY <1>1, <1>4 DEF OnDisk
  <2>2. UNCHANGED OnDisk
    BY <1>0 DEF OnDisk
  <2> QED BY <1>0, <1>5, <2>1, <2>2 DEF TrashInv, DataInv, MediaKept, In
<1>15. Kept
  BY <1>0 DEF Kept, OnDisk
<1> QED
  BY <1>5, <1>8, <1>9, <1>10, <1>11, <1>12, <1>13, <1>14, <1>15 DEF DataInv

LEMMA FailSteps ==
  ASSUME TrashInv, Fail, UNCHANGED <<rows, fileRow, journal, disk, store, Outside>>
  PROVE  TrashInv' /\ Kept
<1>1. UNCHANGED <<rows, fileRow, journal, disk, store, job, used, taken>> /\ UNCHANGED orphans
  BY DEF Outside
<1>2. OpInv' /\ op' \in OpType /\ sweep' \subseteq Track
  BY <1>1, FailOp DEF TrashInv
<1> QED
  BY <1>1, <1>2, Idles DEF TrashInv, TrashTypes

(* The steps of the journal that the database answers, or does not. *)
JournalStep(t, pc) ==
  /\ DataInv' /\ Kept /\ journal' \in [Track -> EntryType \cup {NoEntry}]
  /\ UNCHANGED <<rows, fileRow, disk, store>> /\ UNCHANGED Outside
  /\ op.pc = pc /\ op.on = t

LEMMA OpEnds ==
  ASSUME TrashInv, NEW t, NEW pc, JournalStep(t, pc), OpInv', op' \in OpType, sweep' \subseteq Track
  PROVE  TrashInv' /\ Kept
<1>1. /\ UNCHANGED <<rows, fileRow, disk, store>> /\ UNCHANGED <<job, orphans, used, taken>>
      /\ journal' \in [Track -> EntryType \cup {NoEntry}]
  BY DEF JournalStep, Outside
<1>2. TrashTypes'
  BY <1>1 DEF TrashInv, TrashTypes
<1> QED
  BY <1>2 DEF TrashInv, JournalStep

LEMMA PrepareSteps ==
  ASSUME TrashInv, PrepareTrash
  PROVE  TrashInv' /\ Kept
<1> DEFINE t == op.on
           e == [state |-> "preparing", moves |-> disk[PathOf[t]], file |-> Files(t), expired |-> FALSE]
<1>0. op \in OpType /\ Standing /\ op.pc = "prepare" /\ t \in Track /\ op.kind = "trash" /\ sweep \subseteq Track
  BY DEF TrashInv, TrashTypes, OpInv, PrepareTrash, Pc, Standing, OpType
<1>1. UNCHANGED <<rows, fileRow, disk, store>> /\ UNCHANGED Outside
  BY DEF PrepareTrash
<1>2. \/ Fail /\ UNCHANGED journal
      \/ t \in rows /\ ~Has(t) /\ journal' = [journal EXCEPT ![t] = e] /\ (Succeed \/ Fail)
  BY DEF PrepareTrash, Call, Applied, Lost, Failed, Refused, SetEntry
<1>3. CASE Fail /\ UNCHANGED journal
  BY <1>1, <1>3, FailSteps
<1>4. CASE t \in rows /\ ~Has(t) /\ journal' = [journal EXCEPT ![t] = e] /\ (Succeed \/ Fail)
  <2>0. UNCHANGED <<rows, fileRow, disk, store, job, used, taken>>
    BY <1>1 DEF Outside
  <2>1. JournalStep(t, "prepare")
    BY <1>0, <1>1, <1>4, <2>0, Prepares DEF JournalStep
  <2>2. journal'[t].state = "preparing"
    BY <1>0, <1>4 DEF TrashInv, TrashTypes
  <2>3. CASE Succeed
    <3>1. Becomes("out") /\ UNCHANGED sweep
      BY <1>0, <2>3, SucceedGoes
    <3>2. Standing'
      BY <1>0, <2>2, <3>1 DEF Standing, Becomes, In
    <3>3. Stepping' /\ Progress'
      BY <3>1 DEF Stepping, Progress, Becomes, Past
    <3> QED BY <1>0, <2>1, <3>1, <3>2, <3>3, OpEnds DEF OpInv, Becomes
  <2>4. CASE Fail
    <3>1. OpInv' /\ op' \in OpType /\ sweep' \subseteq Track
      BY <1>0, <2>4, FailOp DEF TrashInv
    <3> QED BY <2>1, <3>1, OpEnds
  <2> QED BY <1>4, <2>3, <2>4
<1> QED
  BY <1>2, <1>3, <1>4

LEMMA Stated ==
  ASSUME TrashInv, NEW t \in Track, NEW from \in States, NEW to \in {"ready", "restoring", "purging"},
         In(t, {from}), from \in {"ready", "restoring"},
         to = "ready" => \A k \in Kinds : Whole(t, k),
         op.on = t, SetState(from, to), UNCHANGED <<rows, fileRow, disk, store>>, UNCHANGED Outside
  PROVE  JournalStep(t, op.pc) /\ journal'[t].state = to
<1> DEFINE e == [journal[t] EXCEPT !.state = to]
<1>1. journal' = [journal EXCEPT ![t] = e]
  BY DEF SetState, SetEntry
<1>2. journal[t] \in EntryType
  BY EntryIs DEF TrashInv, Has, In, States
<1>3. e \in EntryType /\ e.state = to /\ e.moves = journal[t].moves /\ e.file = journal[t].file
  BY <1>2 DEF EntryType, States
<1> HIDE DEF e
<1>4. UNCHANGED <<rows, fileRow, disk, store, job, used, taken>>
  BY DEF Outside
<1>5. In(t, {"ready", "restoring"})
  BY DEF In
<1>6. DataInv' /\ Kept /\ journal' \in [Track -> EntryType \cup {NoEntry}]
  BY <1>1, <1>3, <1>4, <1>5, Restates
<1>7. journal'[t] = e
  BY <1>1 DEF TrashInv, TrashTypes
<1> QED
  BY <1>3, <1>6, <1>7 DEF JournalStep

LEMMA MarkSteps ==
  ASSUME TrashInv, MarkTrash
  PROVE  TrashInv' /\ Kept
<1> DEFINE t == op.on
           to == IF op.kind = "restore" THEN "restoring" ELSE "purging"
<1>0. /\ op \in OpType /\ Standing /\ op.pc = "mark" /\ t \in Track /\ op.kind \in {"restore", "purge"}
      /\ In(t, {"ready"}) /\ sweep \subseteq Track
  BY DEF TrashInv, TrashTypes, OpInv, MarkTrash, Pc, Standing, OpType
<1>1. UNCHANGED <<rows, fileRow, disk, store>> /\ UNCHANGED Outside
  BY DEF MarkTrash
<1>2. (Fail /\ UNCHANGED journal) \/ (SetState("ready", to) /\ (Succeed \/ Fail))
  BY DEF MarkTrash, Call, Applied, Lost, Failed
<1>3. CASE Fail /\ UNCHANGED journal
  BY <1>1, <1>3, FailSteps
<1>4. CASE SetState("ready", to) /\ (Succeed \/ Fail)
  <2>1. JournalStep(t, op.pc) /\ journal'[t].state = to
    BY <1>0, <1>1, <1>4, Stated DEF States
  <2>3. CASE Succeed
    <3>1. Becomes(IF op.kind = "restore" THEN "back" ELSE "remove") /\ UNCHANGED sweep
      BY <1>0, <2>3, SucceedGoes
    <3>2. Standing'
      BY <1>0, <2>1, <3>1 DEF Standing, Becomes, In
    <3>3. Stepping' /\ Progress'
      BY <3>1 DEF Stepping, Progress, Becomes, Past
    <3> QED BY <1>0, <2>1, <3>1, <3>2, <3>3, OpEnds DEF OpInv, Becomes
  <2>4. CASE Fail
    <3>1. OpInv' /\ op' \in OpType /\ sweep' \subseteq Track
      BY <1>0, <2>4, FailOp DEF TrashInv
    <3> QED BY <2>1, <3>1, OpEnds
  <2> QED BY <1>4, <2>3, <2>4
<1> QED
  BY <1>2, <1>3, <1>4

LEMMA UnmarkSteps ==
  ASSUME TrashInv, UnmarkTrash
  PROVE  TrashInv' /\ Kept
<1> DEFINE t == op.on
<1>0. /\ op \in OpType /\ Standing /\ op.pc = "unmark" /\ t \in Track /\ op.kind \in {"restore", "recover"}
      /\ In(t, {"restoring"}) /\ sweep \subseteq Track
      /\ \A k \in Kinds : Whole(t, k)
  BY DEF TrashInv, TrashTypes, OpInv, UnmarkTrash, Pc, Standing, Progress, OpType
<1>1. UNCHANGED <<rows, fileRow, disk, store>> /\ UNCHANGED Outside
  BY DEF UnmarkTrash
<1>2. (Fail /\ UNCHANGED journal) \/ (SetState("restoring", "ready") /\ (Succeed \/ Fail))
  BY DEF UnmarkTrash, Call, Applied, Lost, Failed
<1>3. CASE Fail /\ UNCHANGED journal
  BY <1>1, <1>3, FailSteps
<1>4. CASE SetState("restoring", "ready") /\ (Succeed \/ Fail)
  <2>1. JournalStep(t, op.pc)
    BY <1>0, <1>1, <1>4, Stated DEF States
  <2>3. CASE Succeed
    <3>1. (IF op.kind = "recover" THEN Becomes("next") ELSE op' = NoOp) /\ UNCHANGED sweep
      BY <1>0, <2>3, SucceedGoes
    <3>2. OpInv' /\ op' \in OpType
      BY <3>1, Rests, NoOpIs DEF Becomes
    <3> QED BY <1>0, <2>1, <3>1, <3>2, OpEnds
  <2>4. CASE Fail
    <3>1. OpInv' /\ op' \in OpType /\ sweep' \subseteq Track
      BY <1>0, <2>4, FailOp DEF TrashInv
    <3> QED BY <2>1, <3>1, OpEnds
  <2> QED BY <1>4, <2>3, <2>4
<1> QED
  BY <1>2, <1>3, <1>4

LEMMA ForgetSteps ==
  ASSUME TrashInv, ForgetTrash
  PROVE  TrashInv' /\ Kept
<1> DEFINE t == op.on
<1>0. /\ op \in OpType /\ Standing /\ op.pc = "forget" /\ t \in Track /\ sweep \subseteq Track
      /\ \A k \in Kinds : store[t][k] = None
  BY DEF TrashInv, TrashTypes, OpInv, ForgetTrash, Pc, Standing, Progress, OpType
<1>1. UNCHANGED <<rows, fileRow, disk, store>> /\ UNCHANGED Outside
  BY DEF ForgetTrash
<1>2. (Fail /\ UNCHANGED journal) \/ (SetEntry(t, NoEntry) /\ (Succeed \/ Fail))
  BY DEF ForgetTrash, Call, Applied, Lost, Failed
<1>3. CASE Fail /\ UNCHANGED journal
  BY <1>1, <1>3, FailSteps
<1>4. CASE SetEntry(t, NoEntry) /\ (Succeed \/ Fail)
  <2>0. UNCHANGED <<rows, fileRow, disk, store, job, used, taken>>
    BY <1>1 DEF Outside
  <2>1. JournalStep(t, op.pc)
    BY <1>0, <1>1, <1>4, <2>0, Forgets DEF SetEntry, JournalStep
  <2>3. CASE Succeed
    <3>1. (IF op.kind = "recover" THEN Becomes("next") ELSE op' = NoOp) /\ UNCHANGED sweep
      BY <1>0, <2>3, SucceedGoes
    <3>2. OpInv' /\ op' \in OpType
      BY <3>1, Rests, NoOpIs DEF Becomes
    <3> QED BY <1>0, <2>1, <3>1, <3>2, OpEnds
  <2>4. CASE Fail
    <3>1. OpInv' /\ op' \in OpType /\ sweep' \subseteq Track
      BY <1>0, <2>4, FailOp DEF TrashInv
    <3> QED BY <2>1, <3>1, OpEnds
  <2> QED BY <1>4, <2>3, <2>4
<1> QED
  BY <1>2, <1>3, <1>4

LEMMA ExpireSteps ==
  ASSUME TrashInv, NEW t \in Track, Expire(t)
  PROVE  TrashInv' /\ Kept
<1> DEFINE e == [journal[t] EXCEPT !.expired = TRUE]
<1>0. UNCHANGED <<rows, fileRow, disk, store, op, sweep, Outside, left>>
  BY DEF Expire
<1>1. UNCHANGED <<rows, fileRow, disk, store, job, used, taken>> /\ UNCHANGED <<op, sweep, orphans>>
  BY <1>0 DEF Outside
<1>2. journal' = [journal EXCEPT ![t] = e] /\ In(t, {"ready"})
  BY DEF Expire, SetEntry
<1>3. journal[t] \in EntryType
  BY <1>2, EntryIs DEF TrashInv, Has, In
<1>4. /\ e \in EntryType /\ e.state = "ready" /\ e.moves = journal[t].moves /\ e.file = journal[t].file
  BY <1>2, <1>3 DEF EntryType, In
<1> HIDE DEF e
<1>5. \A k \in Kinds : Whole(t, k)
  BY <1>2 DEF TrashInv, DataInv, Complete, Whole
<1>6. DataInv' /\ Kept /\ journal' \in [Track -> EntryType \cup {NoEntry}]
  BY <1>1, <1>2, <1>4, <1>5, Restates DEF In
<1>7. TrashTypes'
  BY <1>1, <1>6 DEF TrashInv, TrashTypes
<1>8. \A u \in Track : journal'[u].state = journal[u].state /\ journal'[u].moves = journal[u].moves
  BY <1>2, <1>4 DEF TrashInv, TrashTypes, In
<1>9. op.pc \notin {"idle", "next"} => op.on \in Track
  BY DEF TrashInv, OpInv, Standing
<1>10. Standing'
  BY <1>1, <1>8 DEF TrashInv, OpInv, Standing, In
<1>11. Stepping'
  BY <1>1, <1>8, <1>9 DEF TrashInv, OpInv, Stepping, Wanted, Source, Orig, Stored, MovedKind, Pc
<1>12. Progress'
  BY <1>1, <1>8, <1>9 DEF TrashInv, OpInv, Progress, Past, Whole
<1> QED
  BY <1>6, <1>7, <1>10, <1>11, <1>12 DEF TrashInv, OpInv

-----------------------------------------------------------------------------
(* The two transactions of the catalogue. *)

LEMMA Commits ==
  ASSUME TrashInv, NEW t \in rows, In(t, {"preparing"}), \A k \in Kinds : Whole(t, k),
         rows' = rows \ {t}, fileRow' = [fileRow EXCEPT ![PathOf[t]] = NoRow],
         journal' = [journal EXCEPT ![t] = [journal[t] EXCEPT !.state = "ready"]],
         UNCHANGED <<disk, store, job, used, taken>>
  PROVE  DataInv' /\ Kept /\ journal' \in [Track -> EntryType \cup {NoEntry}]
         /\ rows' \subseteq Track /\ fileRow' \in [Path -> RowType]
<1> DEFINE p == PathOf[t]
           e == [journal[t] EXCEPT !.state = "ready"]
<1>0. UNCHANGED disk /\ UNCHANGED store /\ UNCHANGED job /\ UNCHANGED used /\ UNCHANGED taken
  OBVIOUS
<1>1. /\ journal \in [Track -> EntryType \cup {NoEntry}] /\ t \in Track /\ p \in Path /\ rows \subseteq Track
      /\ fileRow \in [Path -> RowType] /\ NoRow \in RowType
  BY TrashAssumption DEF TrashInv, TrashTypes, NoRow, RowType
<1>2. journal[t] \in EntryType
  BY <1>1, EntryIs DEF TrashInv, Has, In
<1>3. e \in EntryType /\ e.state = "ready" /\ e.moves = journal[t].moves /\ e.file = journal[t].file
  BY <1>2 DEF EntryType, States
<1> HIDE DEF e
<1>4. journal' \in [Track -> EntryType \cup {NoEntry}] /\ journal'[t] = e
      /\ \A u \in Track : u # t => journal'[u] = journal[u]
  BY <1>1, <1>3 DEF e
<1>5. /\ rows' \subseteq Track /\ fileRow' \in [Path -> RowType] /\ fileRow'[p] = NoRow
      /\ \A q \in Path : q # p => fileRow'[q] = fileRow[q]
  BY <1>1
<1>6. \A u \in Track : /\ Has(u)' <=> Has(u)
                       /\ journal'[u].moves = journal[u].moves /\ journal'[u].file = journal[u].file
  BY <1>3, <1>4 DEF Has, In
<1>7. \A u \in rows' : u \in rows /\ u # t /\ PathOf[u] # p /\ PathOf[u] \in Path
  BY <1>1, TrashAssumption DEF TrashInv, DataInv, Rowed
<1>8. Rowed'
  <2>1. \A u \in rows' : fileRow'[PathOf[u]].track = u
    BY <1>5, <1>7 DEF TrashInv, DataInv, Rowed
  <2>2. ASSUME NEW q \in Path, fileRow'[q] # NoRow
        PROVE  fileRow'[q].track \in rows' /\ PathOf[fileRow'[q].track] = q /\ fileRow'[q].id # None
    BY <1>5, <2>2 DEF TrashInv, DataInv, Rowed
  <2> QED BY <2>1, <2>2 DEF Rowed
<1>9. OutOfRows' /\ Complete'
  BY <1>0, <1>3, <1>4 DEF TrashInv, DataInv, OutOfRows, Complete, Whole, In
<1>10. Listed' /\ EntryFile' /\ JobFile'
  BY <1>0, <1>6 DEF TrashInv, DataInv, Listed, EntryFile, JobFile, Placed
<1>11. RowFile'
  BY <1>0, <1>5, <1>7 DEF TrashInv, DataInv, RowFile
<1>12. Claims' /\ Written'
  <2>1. \A q \in Path : fileRow'[q].id # None => fileRow'[q] = fileRow[q]
    BY <1>5 DEF NoRow
  <2>2. \A q \in Path : fileRow'[q].id \in Seen
    BY <1>5 DEF TrashInv, DataInv, Written, Seen, NoRow
  <2>3. \A u \in Track : Has(u) => journal[u].file # None
    BY DEF TrashInv, DataInv, EntryFile
  <2>4. \A q \in Path : Placed(q) => job[q].id # None
    BY DEF TrashInv, DataInv, Written
  <2>5. Claims /\ Written
    BY DEF TrashInv, DataInv
  <2>6. Claims'
    <3>1. \A q, r \in Path : fileRow'[q].id # None /\ fileRow'[q].id = fileRow'[r].id => q = r
      BY <2>1, <2>5 DEF Claims
    <3>2. \A u \in Track, q \in Path : Has(u)' /\ fileRow'[q].id = journal'[u].file => fileRow'[q].track = u
      BY <1>6, <2>1, <2>3, <2>5 DEF Claims
    <3>3. \A q, r \in Path : Placed(q) => fileRow'[r].id # job[q].id
      BY <2>1, <2>4, <2>5 DEF Claims
    <3> QED BY <1>0, <1>6, <2>5, <3>1, <3>2, <3>3 DEF Claims, Placed
  <2>7. Written'
    BY <1>0, <1>6, <2>2, <2>5 DEF Written, Seen, Placed
  <2> QED BY <2>6, <2>7
<1>13. MediaKept'
  <2>1. UNCHANGED OnDisk
    BY <1>0 DEF OnDisk
  <2> QED BY <1>0, <1>3, <1>4, <1>5, <2>1 DEF TrashInv, DataInv, MediaKept, In
<1>14. Kept
  BY <1>0 DEF Kept, OnDisk
<1> QED
  BY <1>4, <1>5, <1>8, <1>9, <1>10, <1>11, <1>12, <1>13, <1>14 DEF DataInv

LEMMA CommitSteps ==
  ASSUME TrashInv, CommitTrash
  PROVE  TrashInv' /\ Kept
<1> DEFINE t == op.on
           p == PathOf[t]
<1>0. /\ op \in OpType /\ Standing /\ op.pc = "commit" /\ t \in Track /\ op.kind = "trash" /\ sweep \subseteq Track
      /\ \A k \in Kinds : Whole(t, k)
  BY DEF TrashInv, TrashTypes, OpInv, CommitTrash, Pc, Standing, Progress, OpType
<1>1. UNCHANGED <<disk, store>> /\ UNCHANGED Outside
  BY DEF CommitTrash
<1>2. \/ Fail /\ UNCHANGED <<rows, fileRow, journal>>
      \/ /\ In(t, {"preparing"}) /\ t \in rows /\ (Succeed \/ Fail)
         /\ rows' = rows \ {t} /\ SetState("preparing", "ready")
         /\ fileRow' = IF Files(t) = None THEN fileRow ELSE [fileRow EXCEPT ![p] = NoRow]
  BY DEF CommitTrash, Call, Applied, Lost, Failed, Refused
<1>3. CASE Fail /\ UNCHANGED <<rows, fileRow, journal>>
  <2>1. UNCHANGED <<rows, fileRow, journal, disk, store, Outside>>
    BY <1>1, <1>3
  <2> QED BY <1>3, <2>1, FailSteps
<1>4. ASSUME /\ In(t, {"preparing"}) /\ t \in rows /\ (Succeed \/ Fail)
             /\ rows' = rows \ {t} /\ SetState("preparing", "ready")
             /\ fileRow' = IF Files(t) = None THEN fileRow ELSE [fileRow EXCEPT ![p] = NoRow]
      PROVE  TrashInv' /\ Kept
  <2>1. Files(t) # None
    BY <1>0, <1>4, TrashAssumption DEF TrashInv, DataInv, Rowed, Files, NoRow
  <2>2. /\ fileRow' = [fileRow EXCEPT ![p] = NoRow]
        /\ journal' = [journal EXCEPT ![t] = [journal[t] EXCEPT !.state = "ready"]]
    BY <1>4, <2>1 DEF SetState, SetEntry
  <2>3. UNCHANGED <<disk, store, job, used, taken>> /\ UNCHANGED orphans
    BY <1>1 DEF Outside
  <2>4. DataInv' /\ Kept /\ journal' \in [Track -> EntryType \cup {NoEntry}]
        /\ rows' \subseteq Track /\ fileRow' \in [Path -> RowType]
    BY <1>0, <1>4, <2>2, <2>3, Commits
  <2>5. OpInv' /\ op' \in OpType /\ sweep' \subseteq Track
    <3>1. CASE Fail
      BY <1>0, <3>1, FailOp DEF TrashInv
    <3>2. CASE Succeed
      <4>1. op' = NoOp /\ UNCHANGED sweep
        BY <1>0, <3>2, SucceedGoes
      <4> QED BY <1>0, <4>1, NoOpIs, Rests
    <3> QED BY <1>4, <3>1, <3>2
  <2>6. TrashTypes'
    BY <2>3, <2>4, <2>5 DEF TrashInv, TrashTypes
  <2> QED BY <2>4, <2>5, <2>6 DEF TrashInv
<1> QED
  BY <1>2, <1>3, <1>4

LEMMA Returns ==
  ASSUME TrashInv, NEW t \in Track, In(t, {"restoring"}), t \notin rows, fileRow[PathOf[t]] = NoRow,
         \A k \in Kinds : store[t][k] = None,
         journal[t].moves.audio \in {None, disk[PathOf[t]].audio} \cup taken,
         rows' = rows \cup {t},
         fileRow' = [fileRow EXCEPT ![PathOf[t]] = [track |-> t, id |-> journal[t].file]],
         journal' = [journal EXCEPT ![t] = NoEntry],
         UNCHANGED <<disk, store, job, used, taken>>
  PROVE  DataInv' /\ Kept /\ journal' \in [Track -> EntryType \cup {NoEntry}]
         /\ rows' \subseteq Track /\ fileRow' \in [Path -> RowType]
<1> DEFINE p == PathOf[t]
           r == [track |-> t, id |-> journal[t].file]
<1>0. UNCHANGED disk /\ UNCHANGED store /\ UNCHANGED job /\ UNCHANGED used /\ UNCHANGED taken
  OBVIOUS
<1>1. /\ journal \in [Track -> EntryType \cup {NoEntry}] /\ p \in Path /\ rows \subseteq Track
      /\ fileRow \in [Path -> RowType] /\ None \notin Track
  BY TrashAssumption DEF TrashInv, TrashTypes
<1>2. /\ Has(t) /\ journal[t].file \in FileId \cup {None} /\ journal[t].file # None
      /\ journal[t].file = journal[t].moves.audio \/ journal[t].file \in taken
      /\ journal[t].file \in Seen
  BY EntryIs DEF TrashInv, DataInv, EntryFile, Written, Has, In
<1>3. r \in RowType /\ r.track = t /\ r.id = journal[t].file
  BY <1>2 DEF RowType
<1> HIDE DEF r
<1>4. /\ journal' \in [Track -> EntryType \cup {NoEntry}] /\ ~Has(t)' /\ journal'[t].state = "none"
      /\ \A u \in Track : u # t => journal'[u] = journal[u]
  BY <1>1 DEF Has, NoEntry
<1>5. /\ rows' \subseteq Track /\ fileRow' \in [Path -> RowType] /\ fileRow'[p] = r
      /\ \A q \in Path : q # p => fileRow'[q] = fileRow[q]
  BY <1>1, <1>3 DEF r
<1>6. \A u \in Track : Has(u)' => u # t /\ Has(u) /\ journal'[u] = journal[u]
  BY <1>4 DEF Has
<1>7. \A u \in rows : PathOf[u] # p /\ PathOf[u] \in Path
  BY <1>1, TrashAssumption DEF TrashInv, DataInv, Rowed, NoRow
<1>8. Rowed'
  <2>1. \A u \in rows' : fileRow'[PathOf[u]].track = u
    BY <1>3, <1>5, <1>7 DEF TrashInv, DataInv, Rowed
  <2>2. ASSUME NEW q \in Path, fileRow'[q] # NoRow
        PROVE  fileRow'[q].track \in rows' /\ PathOf[fileRow'[q].track] = q /\ fileRow'[q].id # None
    <3>1. CASE q = p
      BY <1>2, <1>3, <1>5, <3>1
    <3>2. CASE q # p
      BY <1>5, <2>2, <3>2 DEF TrashInv, DataInv, Rowed
    <3> QED BY <3>1, <3>2
  <2> QED BY <2>1, <2>2 DEF Rowed
<1>9. OutOfRows' /\ Complete'
  BY <1>0, <1>4 DEF TrashInv, DataInv, OutOfRows, Complete, Whole, In
<1>10. Listed'
  BY <1>0, <1>4 DEF TrashInv, DataInv, Listed, Has
<1>11. EntryFile' /\ JobFile'
  BY <1>0, <1>6 DEF TrashInv, DataInv, EntryFile, JobFile, Placed
<1>12. RowFile'
  <2>1. r.id \in {disk[p].audio} \cup taken
    BY <1>2, <1>3
  <2>2. \A u \in rows : fileRow'[PathOf[u]] = fileRow[PathOf[u]]
    BY <1>5, <1>7
  <2> QED BY <1>0, <1>5, <2>1, <2>2 DEF TrashInv, DataInv, RowFile
<1>13. Claims'
  <2>1. Claims
    BY DEF TrashInv, DataInv
  <2>2. \A q \in Path : fileRow[q].id # r.id
    <3>1. ASSUME NEW q \in Path, fileRow[q].id = r.id PROVE FALSE
      <4>1. fileRow[q].track = t
        BY <1>2, <1>3, <2>1, <3>1 DEF Claims
      <4>2. fileRow[q] # NoRow
        BY <1>1, <4>1 DEF NoRow
      <4> QED BY <4>1, <4>2 DEF TrashInv, DataInv, Rowed
    <3> QED BY <3>1
  <2>3. \A q, s \in Path : fileRow'[q].id # None /\ fileRow'[q].id = fileRow'[s].id => q = s
    BY <1>5, <2>1, <2>2 DEF Claims
  <2>4. ASSUME NEW u \in Track, NEW q \in Path, Has(u)', fileRow'[q].id = journal'[u].file
        PROVE  fileRow'[q].track = u
    <3>1. CASE q = p
      BY <1>2, <1>3, <1>5, <1>6, <2>1, <2>4, <3>1 DEF Claims
    <3>2. CASE q # p
      BY <1>5, <1>6, <2>1, <2>4, <3>2 DEF Claims
    <3> QED BY <3>1, <3>2
  <2>5. \A q, s \in Path : Placed(q) => fileRow'[s].id # job[q].id
    BY <1>2, <1>3, <1>5, <2>1 DEF Claims
  <2> QED BY <1>0, <1>6, <2>1, <2>3, <2>4, <2>5 DEF Claims, Placed
<1>14. Written'
  <2>1. \A q \in Path : fileRow'[q].id \in Seen
    BY <1>2, <1>3, <1>5 DEF TrashInv, DataInv, Written
  <2> QED BY <1>0, <1>6, <2>1 DEF TrashInv, DataInv, Written, Seen, Placed
<1>15. MediaKept'
  <2>1. UNCHANGED OnDisk
    BY <1>0 DEF OnDisk
  <2> QED BY <1>0, <1>4, <2>1 DEF TrashInv, DataInv, MediaKept, In
<1>16. Kept
  BY <1>0 DEF Kept, OnDisk
<1> QED
  BY <1>4, <1>5, <1>8, <1>9, <1>10, <1>11, <1>12, <1>13, <1>14, <1>15, <1>16 DEF DataInv

LEMMA MetadataSteps ==
  ASSUME TrashInv, RestoreTrashMetadata
  PROVE  TrashInv' /\ Kept
<1> DEFINE t == op.on
           p == PathOf[t]
<1>0. /\ op \in OpType /\ Standing /\ op.pc = "metadata" /\ t \in Track /\ op.kind = "restore"
      /\ In(t, {"restoring"}) /\ sweep \subseteq Track
      /\ \A k \in Kinds : store[t][k] = None
      /\ journal[t].moves.audio \in {None, disk[PathOf[t]].audio} \cup taken
  BY DEF TrashInv, TrashTypes, OpInv, RestoreTrashMetadata, Pc, Standing, Progress, OpType
<1>1. UNCHANGED <<disk, store>> /\ UNCHANGED Outside
  BY DEF RestoreTrashMetadata
<1>2. \/ Fail /\ UNCHANGED <<rows, fileRow, journal>>
      \/ /\ ~Conflict(t) /\ (Succeed \/ Fail)
         /\ rows' = rows \cup {t} /\ SetEntry(t, NoEntry)
         /\ fileRow' = IF journal[t].file = None THEN fileRow
                       ELSE [fileRow EXCEPT ![p] = [track |-> t, id |-> journal[t].file]]
  BY DEF RestoreTrashMetadata, Call, Applied, Lost, Failed, Refused
<1>3. CASE Fail /\ UNCHANGED <<rows, fileRow, journal>>
  <2>1. UNCHANGED <<rows, fileRow, journal, disk, store, Outside>>
    BY <1>1, <1>3
  <2> QED BY <1>3, <2>1, FailSteps
<1>4. ASSUME /\ ~Conflict(t) /\ (Succeed \/ Fail)
             /\ rows' = rows \cup {t} /\ SetEntry(t, NoEntry)
             /\ fileRow' = IF journal[t].file = None THEN fileRow
                           ELSE [fileRow EXCEPT ![p] = [track |-> t, id |-> journal[t].file]]
      PROVE  TrashInv' /\ Kept
  <2>1. journal[t].file # None
    BY <1>0 DEF TrashInv, DataInv, EntryFile, Has, In
  <2>2. /\ fileRow' = [fileRow EXCEPT ![p] = [track |-> t, id |-> journal[t].file]]
        /\ journal' = [journal EXCEPT ![t] = NoEntry]
        /\ t \notin rows /\ fileRow[p] = NoRow
    BY <1>4, <2>1 DEF SetEntry, Conflict
  <2>3. UNCHANGED <<disk, store, job, used, taken>> /\ UNCHANGED orphans
    BY <1>1 DEF Outside
  <2>4. DataInv' /\ Kept /\ journal' \in [Track -> EntryType \cup {NoEntry}]
        /\ rows' \subseteq Track /\ fileRow' \in [Path -> RowType]
    BY <1>0, <1>4, <2>2, <2>3, Returns
  <2>5. OpInv' /\ op' \in OpType /\ sweep' \subseteq Track
    <3>1. CASE Fail
      BY <1>0, <3>1, FailOp DEF TrashInv
    <3>2. CASE Succeed
      <4>1. op' = NoOp /\ UNCHANGED sweep
        BY <1>0, <3>2, SucceedGoes
      <4> QED BY <1>0, <4>1, NoOpIs, Rests
    <3> QED BY <1>4, <3>1, <3>2
  <2>6. TrashTypes'
    BY <2>3, <2>4, <2>5 DEF TrashInv, TrashTypes
  <2> QED BY <2>4, <2>5, <2>6 DEF TrashInv
<1> QED
  BY <1>2, <1>3, <1>4

-----------------------------------------------------------------------------
(* The moves. *)

Cells ==
  /\ disk \in [Path -> [Kinds -> FileId \cup {None}]] /\ store \in [Track -> [Kinds -> FileId \cup {None}]]
  /\ "audio" \in Kinds /\ None = 0

LEMMA CellsAre == ASSUME TrashTypes PROVE Cells
BY DEF TrashTypes, Media, Cells, Kinds, None

LEMMA KeepsMedia ==
  ASSUME MediaKept, \A n \in OnDisk \ {None} : n \in OnDisk' \/ n \in taken', taken \subseteq taken',
         UNCHANGED journal, rows' \subseteq rows
  PROVE  MediaKept' /\ Kept
<1>1. MediaKept'
  BY DEF MediaKept, In
<1>2. Kept
  BY DEF Kept
<1> QED
  BY <1>1, <1>2

LEMMA RowIs ==
  ASSUME TrashInv, NEW u \in rows
  PROVE  /\ u \in Track /\ PathOf[u] \in Path /\ fileRow[PathOf[u]].id # None
         /\ fileRow[PathOf[u]].track = u
<1>1. rows \subseteq Track /\ Rowed
  BY DEF TrashInv, TrashTypes, DataInv
<1>2. u \in Track /\ PathOf[u] \in Path /\ None \notin Track
  BY <1>1, TrashAssumption
<1> QED BY <1>1, <1>2 DEF Rowed, NoRow

(* A link adds a name of a file that has one. *)
LEMMA LinksOut ==
  ASSUME TrashInv, NEW t \in Track, NEW k \in Kinds, In(t, {"preparing", "restoring"}),
         store[t][k] = None, journal[t].moves[k] # None,
         journal[t].moves[k] \in {disk[PathOf[t]][k]} \cup taken,
         store' = [store EXCEPT ![t][k] = disk[PathOf[t]][k]],
         UNCHANGED <<rows, fileRow, journal, disk, job, used, taken>>
  PROVE  DataInv' /\ Kept /\ store' \in [Track -> Media] /\ store'[t][k] = disk[PathOf[t]][k]
<1> DEFINE n == disk[PathOf[t]][k]
<1>0. UNCHANGED rows /\ UNCHANGED fileRow /\ UNCHANGED journal /\ UNCHANGED disk /\ UNCHANGED job
      /\ UNCHANGED used /\ UNCHANGED taken
  OBVIOUS
<1>1. Cells /\ Has(t) /\ PathOf[t] \in Path /\ n \in FileId \cup {None} /\ n \in Seen
  BY CellsAre, TrashAssumption DEF TrashInv, Has, In, Cells, DataInv, Written
<1> HIDE DEF n
<1>2. /\ store' \in [Track -> Media] /\ store'[t][k] = n
      /\ \A u \in Track, j \in Kinds : u # t \/ j # k => store'[u][j] = store[u][j]
  BY <1>1 DEF Cells, Media, n
<1>3. \A m \in OnDisk \ {None} : m \in OnDisk'
  BY <1>0, <1>2 DEF OnDisk
<1>4. MediaKept' /\ Kept
  BY <1>0, <1>3, KeepsMedia DEF TrashInv, DataInv
<1>5. Rowed' /\ OutOfRows' /\ EntryFile' /\ JobFile' /\ Claims'
  BY <1>0 DEF TrashInv, DataInv, Rowed, OutOfRows, EntryFile, JobFile, Claims, Placed, In, Has
<1>51. Written'
  <2>1. \A u \in Track, j \in Kinds : store'[u][j] \in Seen
    BY <1>1, <1>2 DEF TrashInv, DataInv, Written
  <2> QED BY <1>0, <2>1 DEF TrashInv, DataInv, Written, Placed, Seen, Has
<1>6. Listed'
  <2>1. journal[t].moves[k] \in {n} \cup taken
    BY DEF n
  <2> QED BY <1>0, <1>1, <1>2, <2>1 DEF TrashInv, DataInv, Listed, Has
<1>7. Complete'
  BY <1>0, <1>2 DEF TrashInv, DataInv, Complete, Whole, In
<1>8. RowFile'
  <2>1. ASSUME NEW u \in rows PROVE fileRow[PathOf[u]].id \in {disk[PathOf[u]].audio, store'[u].audio} \cup taken
    <3>1. u \in Track /\ PathOf[u] \in Path /\ fileRow[PathOf[u]].id # None
      BY RowIs
    <3>2. fileRow[PathOf[u]].id \in {disk[PathOf[u]].audio, store[u].audio} \cup taken
      BY DEF TrashInv, DataInv, RowFile
    <3>3. store'[u].audio = store[u].audio \/ store[u].audio = None
      BY <1>1, <1>2, <3>1 DEF Cells
    <3> QED BY <3>1, <3>2, <3>3
  <2> QED BY <1>0, <2>1 DEF RowFile
<1> QED
  BY <1>2, <1>4, <1>5, <1>51, <1>6, <1>7, <1>8 DEF DataInv, n

LEMMA LinksBack ==
  ASSUME TrashInv, NEW t \in Track, NEW k \in Kinds, In(t, {"preparing", "restoring"}),
         disk[PathOf[t]][k] = None,
         disk' = [disk EXCEPT ![PathOf[t]][k] = store[t][k]],
         UNCHANGED <<rows, fileRow, journal, store, job, used, taken>>
  PROVE  DataInv' /\ Kept /\ disk' \in [Path -> Media] /\ disk'[PathOf[t]][k] = store[t][k]
<1> DEFINE p == PathOf[t]
<1>0. UNCHANGED rows /\ UNCHANGED fileRow /\ UNCHANGED journal /\ UNCHANGED store /\ UNCHANGED job
      /\ UNCHANGED used /\ UNCHANGED taken
  OBVIOUS
<1>1. Cells /\ store[t][k] \in FileId \cup {None} /\ store[t][k] \in Seen /\ p \in Path
  BY CellsAre, TrashAssumption DEF TrashInv, Cells, DataInv, Written
<1>2. /\ disk' \in [Path -> Media] /\ disk'[p][k] = store[t][k]
      /\ \A q \in Path, j \in Kinds : q # p \/ j # k => disk'[q][j] = disk[q][j]
  BY <1>1 DEF Cells, Media
<1>3. \A n \in OnDisk \ {None} : n \in OnDisk'
  BY <1>0, <1>2 DEF OnDisk
<1>4. MediaKept' /\ Kept
  BY <1>0, <1>3, KeepsMedia DEF TrashInv, DataInv
<1>5. Rowed' /\ OutOfRows' /\ EntryFile' /\ Claims' /\ Listed' /\ Complete'
  BY <1>0 DEF TrashInv, DataInv, Rowed, OutOfRows, EntryFile, Claims, Listed, Complete, Whole, Placed, In, Has
<1>6. \A q \in Path : disk'[q].audio = disk[q].audio \/ disk[q].audio = None
  BY <1>1, <1>2 DEF Cells
<1>7. RowFile'
  <2>1. ASSUME NEW u \in rows PROVE fileRow[PathOf[u]].id \in {disk'[PathOf[u]].audio, store[u].audio} \cup taken
    <3>1. u \in Track /\ PathOf[u] \in Path /\ fileRow[PathOf[u]].id # None
      BY RowIs
    <3>2. fileRow[PathOf[u]].id \in {disk[PathOf[u]].audio, store[u].audio} \cup taken
      BY DEF TrashInv, DataInv, RowFile
    <3> QED BY <1>6, <3>1, <3>2
  <2> QED BY <1>0, <2>1 DEF RowFile
<1>8. JobFile'
  BY <1>0, <1>6 DEF TrashInv, DataInv, JobFile, Written, Placed
<1>9. Written'
  <2>1. \A q \in Path, j \in Kinds : disk'[q][j] \in Seen
    BY <1>1, <1>2 DEF TrashInv, DataInv, Written
  <2> QED BY <1>0, <2>1 DEF TrashInv, DataInv, Written, Seen, Placed, Has
<1> QED
  BY <1>2, <1>4, <1>5, <1>7, <1>8, <1>9 DEF DataInv

(* The removal of a name takes a file only if the record says so, and a    *)
(* file that a row or a download names goes only to the store of its track.*)
LEMMA UnlinksOut ==
  ASSUME TrashInv, NEW t \in Track, NEW k \in Kinds, In(t, {"preparing", "restoring"}),
         disk' = [disk EXCEPT ![PathOf[t]][k] = None], taken \subseteq taken',
         taken' \subseteq taken \cup ({disk[PathOf[t]][k]} \ {None}),
         disk[PathOf[t]][k] \in {None, store[t][k]} \cup taken',
         k = "audio" => \/ disk[PathOf[t]][k] \in {None} \cup taken'
                        \/ disk[PathOf[t]][k] = journal[t].file /\ store[t][k] = journal[t].file,
         UNCHANGED <<rows, fileRow, journal, store, job, used>>
  PROVE  DataInv' /\ Kept /\ disk' \in [Path -> Media] /\ taken' \subseteq used
<1> DEFINE p == PathOf[t]
<1>0. UNCHANGED rows /\ UNCHANGED fileRow /\ UNCHANGED journal /\ UNCHANGED store /\ UNCHANGED job
      /\ UNCHANGED used
  OBVIOUS
<1>1. Cells /\ Has(t) /\ p \in Path
  BY CellsAre, EntryIs, TrashAssumption DEF TrashInv, Has, In
<1>2. /\ disk' \in [Path -> Media] /\ disk'[p][k] = None
      /\ \A q \in Path, j \in Kinds : q # p \/ j # k => disk'[q][j] = disk[q][j]
  BY <1>1 DEF Cells, Media
<1>3. \A n \in OnDisk \ {None} : n \in OnDisk' \/ n \in taken'
  BY <1>0, <1>1, <1>2 DEF OnDisk
<1>4. MediaKept' /\ Kept
  BY <1>0, <1>3, KeepsMedia DEF TrashInv, DataInv
<1>5. Rowed' /\ OutOfRows' /\ EntryFile' /\ Claims'
  BY <1>0 DEF TrashInv, DataInv, Rowed, OutOfRows, EntryFile, Claims, Placed, In, Has
<1>51. Listed' /\ Complete'
  BY <1>0 DEF TrashInv, DataInv, Listed, Complete, Whole, In, Has
<1>6. taken' \subseteq used
  <2>1. disk[p][k] \in used \cup {None} /\ taken \subseteq used
    BY <1>1 DEF TrashInv, DataInv, TrashTypes, Written, Seen
  <2> QED BY <2>1
<1>7. RowFile'
  <2>1. ASSUME NEW u \in rows PROVE fileRow[PathOf[u]].id \in {disk'[PathOf[u]].audio, store[u].audio} \cup taken'
    <3>1. /\ u \in Track /\ PathOf[u] \in Path /\ fileRow[PathOf[u]].id # None
          /\ fileRow[PathOf[u]].track = u
      BY RowIs
    <3>2. fileRow[PathOf[u]].id \in {disk[PathOf[u]].audio, store[u].audio} \cup taken
      BY DEF TrashInv, DataInv, RowFile
    <3>3. CASE PathOf[u] = p /\ k = "audio" /\ fileRow[p].id = disk[p].audio
      <4>1. CASE disk[p].audio \in taken'
        BY <3>3, <4>1
      <4>2. CASE disk[p].audio = journal[t].file /\ store[t].audio = journal[t].file
        <5>1. u = t
          BY <1>1, <3>1, <3>3, <4>2 DEF TrashInv, DataInv, Claims
        <5> QED BY <3>3, <4>2, <5>1
      <4> QED BY <3>1, <3>3, <4>1, <4>2
    <3>4. CASE ~(PathOf[u] = p /\ k = "audio")
      BY <1>1, <1>2, <3>1, <3>2, <3>4 DEF Cells
    <3> QED BY <3>2, <3>3, <3>4
  <2> QED BY <1>0, <2>1 DEF RowFile
<1>8. JobFile'
  <2>1. ASSUME NEW q \in Path, Placed(q) PROVE job[q].id = disk'[q].audio \/ job[q].id \in taken'
    <3>1. job[q].id # None /\ (job[q].id = disk[q].audio \/ job[q].id \in taken) /\ job[q].id # journal[t].file
      BY <1>1, <2>1 DEF TrashInv, DataInv, JobFile, Written, Claims
    <3>2. CASE q = p /\ k = "audio"
      BY <3>1, <3>2
    <3>3. CASE ~(q = p /\ k = "audio")
      BY <1>1, <1>2, <3>1, <3>3 DEF Cells
    <3> QED BY <3>2, <3>3
  <2> QED BY <1>0, <2>1 DEF JobFile, Placed
<1>9. Written'
  <2>1. \A q \in Path, j \in Kinds : disk'[q][j] \in Seen
    BY <1>1, <1>2 DEF TrashInv, DataInv, Written, Seen
  <2> QED BY <1>0, <2>1 DEF TrashInv, DataInv, Written, Seen, Placed, Has
<1>10. EntryFile'
  BY <1>0 DEF TrashInv, DataInv, EntryFile, Has
<1> QED
  BY <1>2, <1>4, <1>5, <1>51, <1>6, <1>7, <1>8, <1>9, <1>10 DEF DataInv

LEMMA UnlinksBack ==
  ASSUME TrashInv, NEW t \in Track, NEW k \in Kinds, In(t, {"preparing", "restoring"}),
         store' = [store EXCEPT ![t][k] = None], taken \subseteq taken',
         taken' \subseteq taken \cup ({store[t][k]} \ {None}),
         store[t][k] \in {None, disk[PathOf[t]][k]} \cup taken',
         UNCHANGED <<rows, fileRow, journal, disk, job, used>>
  PROVE  DataInv' /\ Kept /\ store' \in [Track -> Media] /\ taken' \subseteq used
         /\ store'[t][k] = None /\ \A j \in Kinds \ {k} : store'[t][j] = store[t][j]
<1> DEFINE p == PathOf[t]
<1>0. UNCHANGED rows /\ UNCHANGED fileRow /\ UNCHANGED journal /\ UNCHANGED disk /\ UNCHANGED job
      /\ UNCHANGED used
  OBVIOUS
<1>1. Cells /\ Has(t) /\ p \in Path
  BY CellsAre, EntryIs, TrashAssumption DEF TrashInv, Has, In
<1>2. /\ store' \in [Track -> Media] /\ store'[t][k] = None
      /\ \A u \in Track, j \in Kinds : u # t \/ j # k => store'[u][j] = store[u][j]
  BY <1>1 DEF Cells, Media
<1>3. \A n \in OnDisk \ {None} : n \in OnDisk' \/ n \in taken'
  BY <1>0, <1>1, <1>2 DEF OnDisk
<1>4. MediaKept' /\ Kept
  BY <1>0, <1>3, KeepsMedia DEF TrashInv, DataInv
<1>5. Rowed' /\ OutOfRows' /\ EntryFile' /\ Claims' /\ JobFile'
  BY <1>0 DEF TrashInv, DataInv, Rowed, OutOfRows, EntryFile, Claims, JobFile, Placed, In, Has
<1>51. Written'
  <2>1. \A u \in Track, j \in Kinds : store'[u][j] \in Seen
    BY <1>2 DEF TrashInv, DataInv, Written, Seen
  <2> QED BY <1>0, <2>1 DEF TrashInv, DataInv, Written, Seen, Placed, Has
<1>6. taken' \subseteq used
  <2>1. store[t][k] \in used \cup {None} /\ taken \subseteq used
    BY <1>1 DEF TrashInv, DataInv, TrashTypes, Written, Seen
  <2> QED BY <2>1
<1>7. Listed'
  BY <1>0, <1>2 DEF TrashInv, DataInv, Listed, Has
<1>8. Complete'
  BY <1>0, <1>2 DEF TrashInv, DataInv, Complete, Whole, In
<1>9. RowFile'
  <2>1. ASSUME NEW u \in rows PROVE fileRow[PathOf[u]].id \in {disk[PathOf[u]].audio, store'[u].audio} \cup taken'
    <3>1. u \in Track /\ PathOf[u] \in Path /\ fileRow[PathOf[u]].id # None
      BY RowIs
    <3>2. fileRow[PathOf[u]].id \in {disk[PathOf[u]].audio, store[u].audio} \cup taken
      BY DEF TrashInv, DataInv, RowFile
    <3>3. CASE u = t /\ k = "audio"
      BY <3>1, <3>2, <3>3
    <3>4. CASE ~(u = t /\ k = "audio")
      BY <1>1, <1>2, <3>1, <3>2, <3>4 DEF Cells
    <3> QED BY <3>3, <3>4
  <2> QED BY <1>0, <2>1 DEF RowFile
<1> QED
  BY <1>2, <1>4, <1>5, <1>51, <1>6, <1>7, <1>8, <1>9 DEF DataInv

LEMMA NextMoves ==
  ASSUME op \in OpType, Standing, NextMove
  PROVE  \/ /\ op.at = 1 /\ UNCHANGED sweep /\ op' \in OpType /\ op'.kind = op.kind /\ op'.pc = op.pc
            /\ op'.on = op.on /\ op'.at = 2 /\ op'.step = "look"
         \/ op.at = 2 /\ Succeed
<1>0. op.at \in 1..2 /\ Len(Kind) = 2
  BY KindIs DEF OpType
<1>1. CASE op.at = 2
  BY <1>0, <1>1 DEF NextMove
<1>2. CASE op.at = 1
  <2>1. op' = [op EXCEPT !.at = op.at + 1, !.step = "look"] /\ UNCHANGED sweep
    BY <1>0, <1>2 DEF NextMove
  <2>2. PICK a \in OpType : a = [op EXCEPT !.at = op.at + 1]
    <3>1. [op EXCEPT !.at = op.at + 1] \in OpType
      BY <1>2 DEF OpType
    <3> QED BY <3>1
  <2>3. PICK b \in OpType : b = [a EXCEPT !.step = "look"]
    <3>1. [a EXCEPT !.step = "look"] \in OpType
      BY DEF OpType
    <3> QED BY <3>1
  <2>4. a.kind = op.kind /\ a.pc = op.pc /\ a.on = op.on /\ a.at = 2
    BY <1>2, <2>2 DEF OpType
  <2>5. b.kind = a.kind /\ b.pc = a.pc /\ b.on = a.on /\ b.at = a.at /\ b.step = "look"
    BY <2>3 DEF OpType
  <2>6. op' = b
    BY <2>1, <2>2, <2>3
  <2> QED BY <1>2, <2>1, <2>4, <2>5, <2>6
<1> QED
  BY <1>0, <1>1, <1>2

(* Where an operation stands after one of the two kinds is done. *)
LEMMA MovedOn ==
  ASSUME TrashInv, op.pc \in {"out", "back", "remove"}, NextMove, UNCHANGED journal,
         \A j \in Kinds \ {MovedKind} : store'[op.on][j] = store[op.on][j],
         IF op.pc = "out" THEN WholeThen(op.on, MovedKind) ELSE store'[op.on][MovedKind] = None,
         taken \subseteq taken',
         op.kind = "restore" /\ op.pc = "back" =>
           /\ op.at = 1 => journal[op.on].moves.audio \in {None, disk'[PathOf[op.on]].audio} \cup taken'
           /\ op.at = 2 => disk'[PathOf[op.on]].audio = disk[PathOf[op.on]].audio
  PROVE  OpInv' /\ op' \in OpType /\ sweep' \subseteq Track
<1> DEFINE t == op.on
<1>0. /\ op \in OpType /\ Standing /\ Progress /\ t \in Track /\ sweep \subseteq Track /\ op.at \in 1..2
      /\ Kinds = {"audio", "lyrics"}
  BY DEF TrashInv, TrashTypes, OpInv, Standing, OpType, Kinds
<1>1. CASE /\ op.at = 1 /\ UNCHANGED sweep /\ op' \in OpType /\ op'.kind = op.kind /\ op'.pc = op.pc
           /\ op'.on = op.on /\ op'.at = 2 /\ op'.step = "look"
  <2>1. Standing'
    BY <1>0, <1>1 DEF Standing, In
  <2>2. MovedKind = "audio"
    BY <1>1, KindIs DEF MovedKind
  <2>3. Progress'
    BY <1>0, <1>1, <2>2 DEF Progress, Past, Whole, WholeThen
  <2> QED BY <1>0, <1>1, <2>1, <2>3 DEF OpInv, Stepping
<1>2. CASE op.at = 2 /\ Succeed
  <2>1. MovedKind = "lyrics"
    BY <1>2, KindIs DEF MovedKind
  <2>2. \A j \in Kinds : IF op.pc = "out" THEN WholeThen(t, j) ELSE store'[t][j] = None
    BY <1>0, <1>2, <2>1 DEF Progress, Past, Whole, WholeThen
  <2>3. op.kind = "restore" /\ op.pc = "back" => journal[t].moves.audio \in {None, disk'[PathOf[t]].audio} \cup taken'
    BY <1>0, <1>2 DEF Progress
  <2>4. UNCHANGED sweep
    BY <1>0, <1>2, SucceedGoes
  <2>5. CASE op.pc = "out"
    <3>1. Becomes(IF op.kind = "trash" THEN "commit" ELSE "unmark")
      BY <1>0, <1>2, <2>5, SucceedGoes
    <3>2. Standing'
      BY <1>0, <2>5, <3>1 DEF Standing, In, Becomes
    <3>3. Stepping' /\ Progress'
      BY <2>2, <2>5, <3>1 DEF Stepping, Progress, Becomes, Past, Whole, WholeThen
    <3> QED BY <1>0, <2>4, <3>1, <3>2, <3>3 DEF OpInv, Becomes
  <2>6. CASE op.pc = "back"
    <3>1. Becomes(IF op.kind = "restore" THEN "metadata" ELSE "forget")
      BY <1>0, <1>2, <2>6, SucceedGoes
    <3>2. Standing'
      BY <1>0, <2>6, <3>1 DEF Standing, In, Becomes
    <3>3. Stepping' /\ Progress'
      BY <2>2, <2>3, <2>6, <3>1 DEF Stepping, Progress, Becomes, Past
    <3> QED BY <1>0, <2>4, <3>1, <3>2, <3>3 DEF OpInv, Becomes
  <2>7. CASE op.pc = "remove"
    <3>1. Becomes("forget")
      BY <1>0, <1>2, <2>7, SucceedGoes
    <3>2. Standing'
      <4>1. op.kind = "purge" /\ In(t, {"purging"})
        BY <1>0, <2>7 DEF Standing, OpType
      <4> QED BY <1>0, <2>7, <3>1, <4>1 DEF Standing, In, Becomes
    <3>3. Stepping' /\ Progress'
      BY <2>2, <2>7, <3>1 DEF Stepping, Progress, Becomes, Past
    <3> QED BY <1>0, <2>4, <3>1, <3>2, <3>3 DEF OpInv, Becomes
  <2> QED BY <2>5, <2>6, <2>7
<1> QED
  BY <1>0, <1>1, <1>2, NextMoves

(* What a move knows. *)
MoveOf(t, k, w) ==
  /\ t = op.on /\ k = MovedKind /\ w = Wanted
  /\ t \in Track /\ k \in Kinds /\ w = journal[t].moves[k] /\ In(t, {"preparing", "restoring"}) /\ Has(t)
  /\ op.pc = "out" => Source = disk[PathOf[t]][k] /\ Destination = store[t][k]
  /\ op.pc = "back" => Source = store[t][k] /\ Destination = disk[PathOf[t]][k]
  /\ Orig = disk[PathOf[t]][k] /\ Stored = store[t][k]
  /\ store[t][k] = None \/ (w # None /\ w \in {store[t][k]} \cup taken)
  /\ op \in OpType /\ Standing /\ Stepping /\ op.pc \in {"out", "back"}
  /\ op.at = 1 => k = "audio"
  /\ op.at = 2 => k = "lyrics"
  /\ sweep \subseteq Track /\ op.at \in 1..2

LEMMA MoveIs ==
  ASSUME TrashInv, Pc("out") \/ Pc("back")
  PROVE  MoveOf(op.on, MovedKind, Wanted)
<1> DEFINE t == op.on
<1>0. /\ op \in OpType /\ Standing /\ Stepping /\ op.pc \in {"out", "back"} /\ op.at \in 1..2 /\ sweep \subseteq Track
      /\ Listed
  BY DEF TrashInv, TrashTypes, OpInv, OpType, Pc, DataInv
<1>1. t \in Track /\ In(t, {"preparing", "restoring"}) /\ Has(t)
  BY <1>0 DEF Standing, In, Has
<1>2. MovedKind \in Kinds /\ (op.at = 1 => MovedKind = "audio") /\ (op.at = 2 => MovedKind = "lyrics")
  BY <1>0, KindIs DEF MovedKind
<1>3. /\ op.pc = "out" => Source = disk[PathOf[t]][MovedKind] /\ Destination = store[t][MovedKind]
      /\ op.pc = "back" => Source = store[t][MovedKind] /\ Destination = disk[PathOf[t]][MovedKind]
  BY DEF Source, Destination, Orig, Stored, Pc
<1>4. \/ store[t][MovedKind] = None
      \/ Wanted # None /\ Wanted \in {store[t][MovedKind]} \cup taken
  BY <1>0, <1>1, <1>2 DEF Listed, Wanted
<1> QED
  BY <1>0, <1>1, <1>2, <1>3, <1>4 DEF MoveOf, Wanted, Orig, Stored

(* A file that is where it belongs. *)
LEMMA NextSteps ==
  ASSUME TrashInv, Pc("out") \/ Pc("back"), Sight = "moved", NextMove,
         UNCHANGED <<disk, store, taken>>, UNCHANGED <<rows, fileRow, journal, job, orphans, used>>
  PROVE  TrashInv' /\ Kept
<1> DEFINE t == op.on
           k == MovedKind
           w == Wanted
<1>0. MoveOf(t, k, w)
  BY MoveIs
<1>1. \/ w = None
      \/ Source = None /\ Destination = w
  BY DEF Sight
<1>2. IF op.pc = "out" THEN store[t][k] = w ELSE store[t][k] = None
  BY <1>0, <1>1 DEF MoveOf
<1>3. op.kind = "restore" /\ op.pc = "back" =>
           /\ op.at = 1 => journal[t].moves.audio \in {None, disk'[PathOf[t]].audio} \cup taken'
           /\ op.at = 2 => disk'[PathOf[t]].audio = disk[PathOf[t]].audio
  BY <1>0, <1>1 DEF MoveOf
<1>4. OpInv' /\ op' \in OpType /\ sweep' \subseteq Track
  <2>1. IF op.pc = "out" THEN WholeThen(t, k) ELSE store'[t][k] = None
    BY <1>0, <1>2 DEF MoveOf, WholeThen
  <2> QED BY <1>0, <1>3, <2>1, MovedOn DEF MoveOf
<1> QED
  BY <1>4, Idles DEF TrashInv, TrashTypes

LEMMA StepIs ==
  ASSUME op \in OpType, NEW step \in {"look", "link", "remove"}, op' = [op EXCEPT !.step = step]
  PROVE  /\ op' \in OpType /\ op'.kind = op.kind /\ op'.pc = op.pc /\ op'.on = op.on /\ op'.at = op.at
         /\ op'.step = step
BY DEF OpType

(* A look moves nothing, and what it has found it has seen. *)
LEMMA LookSteps ==
  ASSUME TrashInv, LookAtFile
  PROVE  TrashInv' /\ Kept
<1>1. /\ Pc("out") \/ Pc("back")
      /\ UNCHANGED <<rows, fileRow, journal, disk, store, job, orphans, used, taken>>
  BY DEF LookAtFile, Moving
<1>2. CASE Sight = "moved" /\ NextMove
  BY <1>1, <1>2, NextSteps
<1>3. ASSUME NEW step \in {"link", "remove"}, GoTo(step), Wanted # None,
             step = "link" => Source = Wanted, step = "remove" => Source # None /\ Destination = Source
      PROVE  TrashInv' /\ Kept
  <2>1. /\ op' \in OpType /\ op'.kind = op.kind /\ op'.pc = op.pc /\ op'.on = op.on /\ op'.at = op.at
        /\ op'.step = step /\ UNCHANGED sweep
    BY <1>3, StepIs DEF GoTo, TrashInv, TrashTypes
  <2>2. /\ MovedKind' = MovedKind /\ Wanted' = Wanted /\ Orig' = Orig /\ Stored' = Stored
        /\ Source' = Source
    BY <1>1, <2>1 DEF MovedKind, Wanted, Orig, Stored, Source, Pc
  <2>3. step = "remove" => Stored # None /\ Stored = Orig
    BY <1>3 DEF Source, Destination
  <2>4. Stepping'
    BY <1>1, <1>3, <2>1, <2>2, <2>3 DEF Stepping, Pc
  <2>5. Standing' /\ Progress'
    BY <1>1, <2>1 DEF TrashInv, OpInv, Standing, Progress, Past, Whole, In
  <2> QED BY <1>1, <2>1, <2>4, <2>5, Idles DEF OpInv, TrashInv, TrashTypes
<1>4. CASE Sight = "both" /\ GoTo("remove")
  BY <1>3, <1>4 DEF Sight
<1>5. CASE Sight = "clear" /\ GoTo("link")
  BY <1>3, <1>5 DEF Sight
<1>6. CASE Fail
  BY <1>1, <1>6, FailSteps DEF Outside
<1> QED
  BY <1>2, <1>4, <1>5, <1>6 DEF LookAtFile, Refused, Failed

LEMMA LinkSteps ==
  ASSUME TrashInv, LinkFile
  PROVE  TrashInv' /\ Kept
<1> DEFINE t == op.on
           k == MovedKind
           w == Wanted
           p == PathOf[t]
<1>0. (Pc("out") \/ Pc("back")) /\ op.step = "link" /\ UNCHANGED <<rows, fileRow, journal, job, orphans, used, taken>>
  BY DEF LinkFile, Moving
<1>1. MoveOf(t, k, w) /\ w # None /\ w \in {Source} \cup taken
  <2>1. MoveOf(t, k, w)
    BY <1>0, MoveIs
  <2> QED BY <1>0, <2>1 DEF MoveOf, Stepping
<1>2. UNCHANGED rows /\ UNCHANGED fileRow /\ UNCHANGED journal /\ UNCHANGED job /\ UNCHANGED orphans
      /\ UNCHANGED used /\ UNCHANGED taken
  BY <1>0
<1>3. \/ Fail /\ UNCHANGED <<disk, store>>
      \/ Source # None /\ Destination = None /\ PutDestination(Source) /\ GoTo("remove")
  BY DEF LinkFile, Refused, Failed
<1>4. CASE Fail /\ UNCHANGED <<disk, store>>
  BY <1>0, <1>4, FailSteps DEF Outside
<1>5. ASSUME Source # None, Destination = None, PutDestination(Source), GoTo("remove")
      PROVE  TrashInv' /\ Kept
  <2>1. /\ op' \in OpType /\ op'.kind = op.kind /\ op'.pc = op.pc /\ op'.on = op.on /\ op'.at = op.at
        /\ op'.step = "remove" /\ UNCHANGED sweep
    BY <1>5, StepIs DEF GoTo, TrashInv, TrashTypes
  <2>2. Standing'
    BY <1>1, <1>2, <2>1 DEF MoveOf, Standing, In
  <2>3. t \in Track /\ k \in Kinds /\ In(t, {"preparing", "restoring"}) /\ w = journal[t].moves[k]
    BY <1>1 DEF MoveOf
  <2>4. MovedKind' = MovedKind /\ Wanted' = Wanted
    BY <1>2, <2>1 DEF MovedKind, Wanted
  <2>5. CASE op.pc = "out"
    <3>1. store' = [store EXCEPT ![t][k] = disk[p][k]] /\ UNCHANGED disk
      BY <1>1, <1>5, <2>5 DEF PutDestination, PutStored, Pc, MoveOf
    <3>2. DataInv' /\ Kept /\ store' \in [Track -> Media] /\ store'[t][k] = disk[p][k]
      <4>1. store[t][k] = None /\ journal[t].moves[k] # None /\ journal[t].moves[k] \in {disk[p][k]} \cup taken
        BY <1>1, <1>5, <2>3, <2>5 DEF MoveOf
      <4> HIDE DEF t, k, w
      <4> QED BY <1>2, <2>3, <3>1, <4>1, LinksOut
    <3>3. Stepping'
      <4>1. disk[p][k] # None
        BY <1>1, <1>5, <2>5 DEF MoveOf
      <4>2. Stored' = disk[p][k] /\ Orig' = disk[p][k]
        BY <2>1, <2>4, <3>1, <3>2 DEF Stored, Orig
      <4> QED BY <1>1, <2>1, <2>4, <2>5, <4>1, <4>2 DEF Stepping
    <3>4. Progress'
      <4>1. \A j \in Kinds \ {k} : store'[t][j] = store[t][j]
        BY <2>3, <3>1, CellsAre DEF TrashInv, Cells
      <4>2. \A j \in Kinds : Past(j) => j # k
        BY <1>1 DEF MoveOf, Past
      <4> QED BY <1>2, <2>1, <2>5, <4>1, <4>2 DEF TrashInv, OpInv, Progress, Past, Whole
    <3>5. TrashTypes'
      BY <1>2, <2>1, <3>1, <3>2 DEF TrashInv, TrashTypes
    <3> QED BY <2>2, <3>2, <3>3, <3>4, <3>5 DEF TrashInv, OpInv
  <2>6. CASE op.pc = "back"
    <3>1. disk' = [disk EXCEPT ![p][k] = store[t][k]] /\ UNCHANGED store
      BY <1>1, <1>5, <2>6 DEF PutDestination, PutOrig, Pc, MoveOf
    <3>2. DataInv' /\ Kept /\ disk' \in [Path -> Media] /\ disk'[p][k] = store[t][k]
          /\ \A q \in Path, j \in Kinds : q # p \/ j # k => disk'[q][j] = disk[q][j]
      <4>1. disk[p][k] = None
        BY <1>1, <1>5, <2>6 DEF MoveOf
      <4>2. disk' = [disk EXCEPT ![PathOf[t]][k] = store[t][k]] /\ disk[PathOf[t]][k] = None
        BY <3>1, <4>1
      <4>3. UNCHANGED <<rows, fileRow, journal, store, job, used, taken>>
        BY <1>2, <3>1
      <4> HIDE DEF t, k, w, p
      <4>4. DataInv' /\ Kept /\ disk' \in [Path -> Media] /\ disk'[PathOf[t]][k] = store[t][k]
        BY <2>3, <4>2, <4>3, LinksBack
      <4>5. PathOf[t] \in Path /\ Cells
        BY <2>3, CellsAre, TrashAssumption DEF TrashInv
      <4>6. \A q \in Path, j \in Kinds : q # PathOf[t] \/ j # k => disk'[q][j] = disk[q][j]
        BY <2>3, <4>2, <4>5 DEF Cells
      <4> QED BY <4>4, <4>6 DEF p
    <3>3. Stepping'
      <4>1. store[t][k] # None
        BY <1>1, <1>5, <2>6 DEF MoveOf
      <4>2. Stored' = store[t][k] /\ Orig' = store[t][k]
        BY <2>1, <2>4, <3>1, <3>2 DEF Stored, Orig
      <4> QED BY <1>1, <2>1, <2>4, <2>6, <4>1, <4>2 DEF Stepping
    <3>4. Progress'
      <4>1. op.at = 2 => disk'[p].audio = disk[p].audio
        BY <1>1, <2>3, <3>2, TrashAssumption DEF MoveOf, Kinds
      <4> QED BY <1>2, <2>1, <2>6, <3>1, <4>1 DEF TrashInv, OpInv, Progress, Past
    <3>5. TrashTypes'
      BY <1>2, <2>1, <3>1, <3>2 DEF TrashInv, TrashTypes
    <3> QED BY <2>2, <3>2, <3>3, <3>4, <3>5 DEF TrashInv, OpInv
  <2> QED BY <1>1, <2>5, <2>6 DEF MoveOf
<1> QED
  BY <1>3, <1>4, <1>5

(* A removal takes a name of a file that has another one, or of one that   *)
(* the record takes.                                                       *)
LEMMA RemovalSteps ==
  ASSUME TrashInv, RemoveName
  PROVE  TrashInv' /\ Kept
<1> DEFINE t == op.on
           k == MovedKind
           w == Wanted
           p == PathOf[t]
<1>0. (Pc("out") \/ Pc("back")) /\ op.step = "remove" /\ UNCHANGED <<rows, fileRow, journal, job, orphans, used>>
  BY DEF RemoveName, Moving
<1>1. MoveOf(t, k, w) /\ w # None /\ store[t][k] # None /\ store[t][k] \in {disk[p][k]} \cup taken
      /\ w \in {store[t][k]} \cup taken
  <2>1. MoveOf(t, k, w)
    BY <1>0, MoveIs
  <2> QED BY <1>0, <2>1 DEF MoveOf, Stepping
<1>2. UNCHANGED rows /\ UNCHANGED fileRow /\ UNCHANGED journal /\ UNCHANGED job /\ UNCHANGED orphans
      /\ UNCHANGED used
  BY <1>0
<1>3. \/ Fail /\ UNCHANGED <<disk, store, taken>>
      \/ Source # None /\ PutSource(None) /\ NextMove /\ taken' = taken \cup TakenByMove
  BY DEF RemoveName, Refused, Failed
<1>4. CASE Fail /\ UNCHANGED <<disk, store, taken>>
  BY <1>0, <1>4, FailSteps DEF Outside
<1>5. t \in Track /\ k \in Kinds /\ In(t, {"preparing", "restoring"}) /\ w = journal[t].moves[k]
  BY <1>1 DEF MoveOf
<1>6. ASSUME Source # None, PutSource(None), NextMove, taken' = taken \cup TakenByMove
      PROVE  TrashInv' /\ Kept
  <2>0. taken \subseteq taken'
    BY <1>6
  <2>1. CASE op.pc = "out"
    <3>1. disk' = [disk EXCEPT ![p][k] = None] /\ UNCHANGED store
      BY <1>6, <2>1 DEF PutSource, PutOrig, Pc
    <3>2. /\ taken' \subseteq taken \cup ({disk[p][k]} \ {None})
          /\ disk[p][k] # w => disk[p][k] \in taken'
          /\ k = "audio" /\ w # journal[t].file => disk[p][k] \in taken'
      BY <1>1, <1>6, <2>1 DEF MoveOf, TakenByMove, Pc
    <3>3. disk[p][k] \in {store[t][k]} \cup taken'
      BY <1>1, <2>0, <3>2
    <3>4. k = "audio" => \/ disk[p][k] \in taken'
                         \/ disk[p][k] = journal[t].file /\ store[t][k] = journal[t].file
      BY <3>2, <3>3
    <3>5. DataInv' /\ Kept /\ disk' \in [Path -> Media] /\ taken' \subseteq used
      <4> HIDE DEF t, k, w
      <4> QED BY <1>2, <1>5, <2>0, <3>1, <3>2, <3>3, <3>4, UnlinksOut
    <3>6. WholeThen(t, k)
      <4>1. store[t][k] = w \/ (w \in taken' /\ store[t][k] \in taken')
        BY <1>1, <2>0, <3>2
      <4> QED BY <1>2, <1>5, <3>1, <4>1 DEF WholeThen
    <3>7. OpInv' /\ op' \in OpType /\ sweep' \subseteq Track
      BY <1>2, <1>6, <2>0, <2>1, <3>1, <3>6, MovedOn
    <3>8. TrashTypes'
      BY <1>2, <3>1, <3>5, <3>7 DEF TrashInv, TrashTypes
    <3> QED BY <3>5, <3>7, <3>8 DEF TrashInv
  <2>2. CASE op.pc = "back"
    <3>1. store' = [store EXCEPT ![t][k] = None] /\ UNCHANGED disk
      BY <1>6, <2>2 DEF PutSource, PutStored, Pc
    <3>2. UNCHANGED taken
      BY <1>6, <2>2 DEF TakenByMove, Pc
    <3>3. DataInv' /\ Kept /\ store' \in [Track -> Media] /\ taken' \subseteq used
          /\ store'[t][k] = None /\ \A j \in Kinds \ {k} : store'[t][j] = store[t][j]
      <4>1. store[t][k] \in {None, disk[p][k]} \cup taken'
        BY <1>1, <3>2
      <4> HIDE DEF t, k, w
      <4> QED BY <1>2, <1>5, <3>1, <3>2, <4>1, UnlinksBack
    <3>4. op.at = 1 => journal[t].moves.audio \in {None, disk'[p].audio} \cup taken'
      BY <1>1, <1>5, <3>1, <3>2 DEF MoveOf
    <3>5. OpInv' /\ op' \in OpType /\ sweep' \subseteq Track
      BY <1>2, <1>6, <2>0, <2>2, <3>1, <3>3, <3>4, MovedOn
    <3>6. TrashTypes'
      BY <1>2, <3>1, <3>3, <3>5 DEF TrashInv, TrashTypes
    <3> QED BY <3>3, <3>5, <3>6 DEF TrashInv
  <2> QED BY <1>1, <2>1, <2>2 DEF MoveOf
<1> QED
  BY <1>3, <1>4, <1>6

LEMMA MoveSteps ==
  ASSUME TrashInv, MoveFile
  PROVE  TrashInv' /\ Kept
BY LookSteps, LinkSteps, RemovalSteps DEF MoveFile

(* A purge takes what the entry lists. *)
LEMMA RemoveSteps ==
  ASSUME TrashInv, RemoveStored
  PROVE  TrashInv' /\ Kept
<1> DEFINE t == op.on
           k == MovedKind
           s == store[t][k]
<1>0. /\ op \in OpType /\ Standing /\ op.pc = "remove" /\ t \in Track /\ k \in Kinds /\ In(t, {"purging"}) /\ Has(t)
      /\ Cells /\ t \notin rows
  <2>1. op \in OpType /\ Standing /\ op.pc = "remove" /\ Cells /\ OutOfRows
    BY CellsAre DEF TrashInv, TrashTypes, OpInv, DataInv, RemoveStored, Pc
  <2>2. t \in Track /\ In(t, {"purging"})
    BY <2>1 DEF Standing
  <2>3. k \in Kinds
    BY <2>1, KindIs DEF MovedKind, OpType
  <2> QED BY <2>1, <2>2, <2>3 DEF OutOfRows, In, Has
<1>2. UNCHANGED rows /\ UNCHANGED fileRow /\ UNCHANGED journal /\ UNCHANGED disk /\ UNCHANGED job
      /\ UNCHANGED orphans /\ UNCHANGED used
  BY DEF RemoveStored
<1>3. \/ Fail /\ UNCHANGED <<store, taken>>
      \/ /\ store' = [store EXCEPT ![t][k] = None] /\ NextMove
         /\ taken' = taken \cup ({s} \cap ListedBy(Track \ {t}))
         /\ s \in {None, journal[t].moves[k]}
  BY DEF RemoveStored, MovedKind, Failed, Refused
<1>4. CASE Fail /\ UNCHANGED <<store, taken>>
  <2>1. UNCHANGED <<rows, fileRow, journal, disk, store, Outside>>
    BY <1>2, <1>4 DEF Outside
  <2> QED BY <1>4, <2>1, FailSteps
<1>5. CASE /\ store' = [store EXCEPT ![t][k] = None] /\ NextMove
           /\ taken' = taken \cup ({s} \cap ListedBy(Track \ {t}))
           /\ s \in {None, journal[t].moves[k]}
  <2>1. /\ store' \in [Track -> Media] /\ store'[t][k] = None
        /\ \A u \in Track, j \in Kinds : u # t \/ j # k => store'[u][j] = store[u][j]
    BY <1>0, <1>5 DEF Cells, Media
  <2>2. \A n \in OnDisk \ {None} : n \in OnDisk' \/ n = s
    BY <1>2, <2>1 DEF OnDisk
  <2>3. Kept
    BY <1>0, <1>5, <2>2 DEF Kept
  <2>4. taken \subseteq taken' /\ taken' \subseteq used
    <3>1. s \in used \cup {None} /\ taken \subseteq used
      BY <1>0 DEF TrashInv, TrashTypes, DataInv, Written, Seen
    <3>2. None \notin ListedBy(Track \ {t})
      BY DEF ListedBy
    <3> QED BY <1>5, <3>1, <3>2
  <2>5. MediaKept'
    <3> SUFFICES ASSUME NEW u \in Track, NEW j \in Kinds,
                        In(u, {"ready", "restoring"}) \/ (In(u, {"preparing"}) /\ u \in rows)
                 PROVE  journal[u].moves[j] \in OnDisk' \cup taken' \cup {None}
      BY <1>2 DEF MediaKept, In
    <3>1. journal[u].moves[j] \in OnDisk \cup taken \cup {None}
      BY DEF TrashInv, DataInv, MediaKept
    <3>2. u \in Track \ {t} /\ Has(u)
      BY <1>0 DEF In, Has
    <3>3. journal[u].moves[j] \in ListedBy(Track \ {t}) \cup {None}
      BY <3>2 DEF ListedBy
    <3> QED BY <1>5, <2>2, <2>4, <3>1, <3>3
  <2>6. Rowed' /\ OutOfRows' /\ EntryFile' /\ Claims' /\ JobFile'
    BY <1>2, <2>4 DEF TrashInv, DataInv, Rowed, OutOfRows, EntryFile, Claims, JobFile, Placed, In, Has
  <2>61. Written'
    <3>1. \A u \in Track, j \in Kinds : store'[u][j] \in Seen
      BY <2>1 DEF TrashInv, DataInv, Written, Seen
    <3> QED BY <1>2, <3>1 DEF TrashInv, DataInv, Written, Seen, Placed, Has
  <2>7. Listed'
    BY <1>2, <2>1, <2>4 DEF TrashInv, DataInv, Listed, Has
  <2>8. Complete'
    BY <1>0, <1>2, <2>1, <2>4 DEF TrashInv, DataInv, Complete, Whole, In
  <2>9. RowFile'
    <3>1. ASSUME NEW u \in rows PROVE fileRow[PathOf[u]].id \in {disk[PathOf[u]].audio, store'[u].audio} \cup taken'
      <4>1. u \in Track /\ u # t
        BY <1>0, RowIs
      <4>2. store'[u].audio = store[u].audio
        BY <1>0, <2>1, <4>1 DEF Cells
      <4> QED BY <2>4, <4>2 DEF TrashInv, DataInv, RowFile
    <3> QED BY <1>2, <3>1 DEF RowFile
  <2>10. OpInv' /\ op' \in OpType /\ sweep' \subseteq Track
    <3>1. store'[t][k] = None /\ op.pc # "out" /\ op.pc # "back"
      BY <1>0, <2>1
    <3>2. \A j \in Kinds \ {k} : store'[t][j] = store[t][j]
      BY <1>0, <2>1
    <3> QED BY <1>0, <1>2, <1>5, <2>4, <3>1, <3>2, MovedOn
  <2>11. TrashTypes'
    BY <1>2, <2>1, <2>4, <2>10 DEF TrashInv, TrashTypes
  <2> QED BY <2>3, <2>5, <2>6, <2>61, <2>7, <2>8, <2>9, <2>10, <2>11 DEF TrashInv, DataInv
<1> QED
  BY <1>3, <1>4, <1>5

-----------------------------------------------------------------------------
(* The other actors. *)

(* They move neither entries nor the store, and the audio they take away   *)
(* is in the record.                                                       *)
Beside ==
  /\ UNCHANGED <<op, journal, store>>
  /\ \A p \in Path : \A k \in Kinds : disk'[p][k] = disk[p][k] \/ (k = "audio" /\ disk[p][k] \in taken' \cup {None})
  /\ taken \subseteq taken'

LEMMA OpBeside ==
  ASSUME TrashInv, Beside
  PROVE  OpInv'
<1>0. UNCHANGED op /\ UNCHANGED journal /\ UNCHANGED store
  BY DEF Beside
<1>1. Standing'
  BY <1>0 DEF TrashInv, OpInv, Standing, In
<1>2. Stepping'
  <2> SUFFICES ASSUME op.step # "look"
               PROVE  /\ op.pc \in {"out", "back"} /\ Wanted # None
                      /\ op.step = "link"   => Wanted \in {Source'} \cup taken'
                      /\ op.step = "remove" => Stored # None /\ Stored \in {Orig'} \cup taken'
    <3>1. Wanted' = Wanted /\ Stored' = Stored
      BY <1>0 DEF Wanted, Stored, MovedKind
    <3> QED BY <1>0, <3>1 DEF Stepping
  <2>1. Stepping /\ taken \subseteq taken'
    BY DEF TrashInv, OpInv, Beside
  <2>2. MoveOf(op.on, MovedKind, Wanted)
    BY <2>1, MoveIs DEF Stepping, Pc
  <2>3. Orig' = Orig \/ Orig \in taken' \cup {None}
    <3>1. PathOf[op.on] \in Path /\ MovedKind \in Kinds
      BY <2>2, TrashAssumption DEF MoveOf
    <3> QED BY <1>0, <3>1 DEF Beside, Orig, MovedKind
  <2>4. Source' = IF op.pc = "out" THEN Orig' ELSE Source
    BY <1>0, <2>1 DEF Source, Pc, Stored, MovedKind
  <2>5. op.pc = "out" => Source = Orig
    BY DEF Source, Pc
  <2> HIDE DEF Beside
  <2> QED BY <2>1, <2>3, <2>4, <2>5 DEF Stepping
<1>3. Progress'
  <2>1. ASSUME op.kind = "restore" /\ (op.pc = "metadata" \/ (op.pc = "back" /\ op.at = 2))
        PROVE  journal[op.on].moves.audio \in {None, disk'[PathOf[op.on]].audio} \cup taken'
    <3>1. journal[op.on].moves.audio \in {None, disk[PathOf[op.on]].audio} \cup taken
      BY <2>1 DEF TrashInv, OpInv, Progress
    <3>2. PathOf[op.on] \in Path /\ "audio" \in Kinds
      BY <2>1, TrashAssumption DEF TrashInv, OpInv, Standing, Kinds
    <3>3. disk'[PathOf[op.on]].audio = disk[PathOf[op.on]].audio \/ disk[PathOf[op.on]].audio \in taken' \cup {None}
      BY <3>2 DEF Beside
    <3> QED BY <3>1, <3>3 DEF Beside
  <2> QED BY <1>0, <2>1 DEF TrashInv, OpInv, Progress, Past, Whole, Beside
<1> QED
  BY <1>1, <1>2, <1>3 DEF OpInv

LEMMA StoreBeside ==
  ASSUME Listed, Complete, Beside
  PROVE  Listed' /\ Complete'
<1>1. UNCHANGED journal /\ UNCHANGED store /\ taken \subseteq taken'
  BY DEF Beside
<1> QED
  BY <1>1 DEF Listed, Complete, Whole, In, Has

LEMMA MediaBeside ==
  ASSUME TrashInv, Beside, \A t \in rows' \ rows : ~Has(t)
  PROVE  MediaKept' /\ Kept
<1>0. UNCHANGED op /\ UNCHANGED journal /\ UNCHANGED store
  BY DEF Beside
<1>1. \A n \in OnDisk \ {None} : n \in OnDisk' \/ n \in taken'
  BY <1>0 DEF Beside, OnDisk
<1>2. Kept
  BY <1>1 DEF Kept
<1>3. MediaKept'
  <2> SUFFICES ASSUME NEW u \in Track, NEW j \in Kinds,
                      In(u, {"ready", "restoring"}) \/ (In(u, {"preparing"}) /\ u \in rows')
               PROVE  journal[u].moves[j] \in OnDisk' \cup taken' \cup {None}
    BY <1>0 DEF MediaKept, In
  <2>1. journal[u].moves[j] \in OnDisk \cup taken \cup {None}
    BY DEF TrashInv, DataInv, MediaKept, In, Has
  <2> QED BY <1>1, <2>1 DEF Beside
<1> QED
  BY <1>2, <1>3

(* Downloads begin and end. *)
LEMMA JobsChange ==
  ASSUME TrashInv, \A p \in Path : job'[p] = job[p] \/ job'[p] \in {NoJob, OpenJob},
         UNCHANGED <<rows, fileRow, journal, disk, store, used, taken>>
  PROVE  DataInv' /\ Kept
<1>0. UNCHANGED rows /\ UNCHANGED fileRow /\ UNCHANGED journal /\ UNCHANGED disk /\ UNCHANGED store
      /\ UNCHANGED used /\ UNCHANGED taken
  OBVIOUS
<1>1. \A p \in Path : Placed(p)' => Placed(p) /\ job'[p] = job[p]
  BY DEF Placed, NoJob, OpenJob
<1>2. \A p \in Path : job'[p].id = job[p].id \/ job'[p].id = None
  BY DEF NoJob, OpenJob
<1>3. Rowed' /\ OutOfRows' /\ Listed' /\ Complete' /\ RowFile' /\ EntryFile'
  BY <1>0 DEF TrashInv, DataInv, Rowed, OutOfRows, Listed, Complete, Whole, RowFile, EntryFile, In, Has
<1>4. JobFile'
  BY <1>0, <1>1 DEF TrashInv, DataInv, JobFile
<1>5. Claims'
  BY <1>0, <1>1 DEF TrashInv, DataInv, Claims, Has
<1>6. Written'
  BY <1>0, <1>1, <1>2 DEF TrashInv, DataInv, Written, Seen, Has
<1>7. MediaKept' /\ Kept
  BY <1>0 DEF TrashInv, DataInv, MediaKept, Kept, OnDisk, In
<1> QED
  BY <1>3, <1>4, <1>5, <1>6, <1>7 DEF DataInv

LEMMA JobIs == NoJob \in JobType /\ OpenJob \in JobType /\ NoJob # OpenJob
               /\ NoJob.stage = "none" /\ OpenJob.stage = "open"
BY DEF NoJob, OpenJob, JobType

LEMMA JobSteps ==
  ASSUME TrashInv, NEW p \in Path, EnqueueDownload(p) \/ EndDownload(p)
  PROVE  TrashInv' /\ Kept
<1>0. UNCHANGED <<rows, fileRow, journal, disk, store, op, sweep, orphans, used, taken>>
  BY DEF EnqueueDownload, EndDownload, OnlyJob
<1>1. job' = [job EXCEPT ![p] = OpenJob] \/ job' = [job EXCEPT ![p] = NoJob]
  BY DEF EnqueueDownload, EndDownload
<1>2. job \in [Path -> JobType]
  BY DEF TrashInv, TrashTypes
<1>3. job' \in [Path -> JobType] /\ \A q \in Path : job'[q] = job[q] \/ job'[q] \in {NoJob, OpenJob}
  BY <1>1, <1>2, JobIs
<1>4. DataInv' /\ Kept
  BY <1>0, <1>3, JobsChange
<1>5. TrashTypes'
  BY <1>0, <1>3 DEF TrashInv, TrashTypes
<1>6. OpInv'
  BY <1>0, OpBeside DEF Beside
<1> QED
  BY <1>4, <1>5, <1>6 DEF TrashInv

LEMMA RestartSteps ==
  ASSUME TrashInv, Restart
  PROVE  TrashInv' /\ Kept
<1>0. /\ UNCHANGED <<rows, fileRow, journal, disk, store, used, taken>> /\ op' = NoOp /\ sweep' = {}
      /\ orphans' = [paths |-> {}, deletes |-> None]
      /\ job' = [p \in Path |-> IF job[p] = NoJob THEN NoJob ELSE OpenJob]
  BY DEF Restart
<1>1. job' \in [Path -> JobType] /\ \A q \in Path : job'[q] = job[q] \/ job'[q] \in {NoJob, OpenJob}
  BY <1>0, JobIs
<1>2. DataInv' /\ Kept
  BY <1>0, <1>1, JobsChange
<1>3. OpInv'
  BY <1>0, NoOpIs, Rests
<1>4. TrashTypes'
  BY <1>0, <1>1, NoOpIs DEF TrashInv, TrashTypes
<1> QED
  BY <1>2, <1>3, <1>4 DEF TrashInv

LEMMA OrphanSteps ==
  ASSUME TrashInv, Reconcile \/ \E p \in Path : DeleteOrphanIssue(p)
  PROVE  TrashInv' /\ Kept
<1>0. UNCHANGED <<rows, fileRow, journal, disk, store, op, sweep, job, used, taken>>
  BY DEF Reconcile, DeleteOrphanIssue
<1>1. orphans' \in [paths : SUBSET Path, deletes : Path \cup {None}]
  <2>1. orphans \in [paths : SUBSET Path, deletes : Path \cup {None}]
    BY DEF TrashInv, TrashTypes
  <2>2. CASE Reconcile
    <3> DEFINE strays == {p \in Path : disk[p].audio # None /\ fileRow[p] = NoRow}
    <3>1. orphans' = [orphans EXCEPT !.paths = strays] /\ strays \in SUBSET Path
      BY <2>2 DEF Reconcile
    <3> HIDE DEF strays
    <3> QED BY <2>1, <3>1
  <2>3. CASE \E p \in Path : DeleteOrphanIssue(p)
    BY <2>1, <2>3 DEF DeleteOrphanIssue
  <2> QED BY <2>2, <2>3
<1>2. OpInv'
  BY <1>0, OpBeside DEF Beside
<1> QED
  BY <1>0, <1>1, <1>2, Idles DEF TrashInv, TrashTypes

(* A file that is written anew, or none, in the place of another. *)
LEMMA PutIs ==
  ASSUME TrashInv, NEW p \in Path, NEW n \in FileId \cup {None}, PutAudio(p, n), UNCHANGED <<op, journal>>
  PROVE  /\ Beside /\ disk' \in [Path -> Media] /\ UNCHANGED store
         /\ \A q \in Path, k \in Kinds : disk'[q][k] = IF q = p /\ k = "audio" THEN n ELSE disk[q][k]
         /\ taken' = taken \cup ({disk[p].audio} \ {None}) /\ taken' \subseteq used
         /\ "audio" \in Kinds
<1>0. Cells
  BY CellsAre DEF TrashInv
<1>1. /\ disk' = [disk EXCEPT ![p].audio = n] /\ UNCHANGED store
      /\ taken' = taken \cup ({disk[p].audio} \ {None})
  BY DEF PutAudio
<1>2. disk' \in [Path -> Media]
      /\ \A q \in Path, k \in Kinds : disk'[q][k] = IF q = p /\ k = "audio" THEN n ELSE disk[q][k]
  BY <1>0, <1>1 DEF Cells, Media
<1>3. taken' \subseteq used
  <2>1. disk[p].audio \in used \cup {None} /\ taken \subseteq used
    BY <1>0 DEF TrashInv, TrashTypes, DataInv, Written, Seen, Cells
  <2> QED BY <1>1, <2>1
<1>4. Beside
  BY <1>1, <1>2 DEF Beside
<1> QED
  BY <1>0, <1>1, <1>2, <1>3, <1>4 DEF Cells

LEMMA OrphanGoes ==
  ASSUME TrashInv, RemoveOrphan
  PROVE  TrashInv' /\ Kept
<1> DEFINE p == orphans.deletes
<1>0. /\ p \in Path /\ PutAudio(p, None) /\ orphans' = [paths |-> orphans.paths \ {p}, deletes |-> None]
      /\ orphans \in [paths : SUBSET Path, deletes : Path \cup {None}]
      /\ UNCHANGED rows /\ UNCHANGED fileRow /\ UNCHANGED journal /\ UNCHANGED job /\ UNCHANGED op
      /\ UNCHANGED used /\ UNCHANGED sweep
  BY DEF RemoveOrphan, TrashInv, TrashTypes
<1> HIDE DEF p
<1>1. /\ Beside /\ disk' \in [Path -> Media] /\ UNCHANGED store
      /\ \A q \in Path, k \in Kinds : disk'[q][k] = IF q = p /\ k = "audio" THEN None ELSE disk[q][k]
      /\ taken' = taken \cup ({disk[p].audio} \ {None}) /\ taken' \subseteq used
      /\ "audio" \in Kinds
  BY <1>0, PutIs
<1>2. OpInv' /\ MediaKept' /\ Kept
  BY <1>0, <1>1, OpBeside, MediaBeside
<1>3. Rowed' /\ OutOfRows' /\ EntryFile' /\ Claims'
  BY <1>0, <1>1 DEF TrashInv, DataInv, Rowed, OutOfRows, EntryFile, Claims, Placed, In, Has
<1>31. Listed' /\ Complete'
  BY <1>1, StoreBeside DEF TrashInv, DataInv
<1>4. RowFile'
  <2>1. ASSUME NEW u \in rows PROVE fileRow[PathOf[u]].id \in {disk'[PathOf[u]].audio, store[u].audio} \cup taken'
    <3>1. fileRow[PathOf[u]].id # None /\ PathOf[u] \in Path
      BY RowIs
    <3>2. fileRow[PathOf[u]].id \in {disk[PathOf[u]].audio, store[u].audio} \cup taken
      BY DEF TrashInv, DataInv, RowFile
    <3> QED BY <1>1, <3>1, <3>2
  <2> QED BY <1>0, <1>1, <2>1 DEF RowFile
<1>5. JobFile' /\ Written'
  BY <1>0, <1>1 DEF TrashInv, DataInv, JobFile, Written, Seen, Placed, Has
<1>6. TrashTypes'
  <2>1. orphans' \in [paths : SUBSET Path, deletes : Path \cup {None}]
    BY <1>0
  <2> QED BY <1>0, <1>1, <2>1 DEF TrashInv, TrashTypes
<1> QED
  BY <1>2, <1>3, <1>31, <1>4, <1>5, <1>6 DEF TrashInv, DataInv

LEMMA DeleteSteps ==
  ASSUME TrashInv, NEW t \in Track, DeleteTrack(t)
  PROVE  TrashInv' /\ Kept
<1> DEFINE p == PathOf[t]
<1>0. /\ t \in rows /\ job[p] = NoJob /\ rows' = rows \ {t} /\ fileRow[p].track = t /\ p \in Path
      /\ UNCHANGED journal /\ UNCHANGED op /\ UNCHANGED sweep /\ UNCHANGED job /\ UNCHANGED orphans
      /\ UNCHANGED used
  BY RowIs DEF DeleteTrack
<1>1. fileRow' = [fileRow EXCEPT ![p] = NoRow] /\ PutAudio(p, None)
  BY <1>0 DEF DeleteTrack
<1>2. /\ rows \subseteq Track /\ fileRow \in [Path -> RowType] /\ NoRow \in RowType
  BY DEF TrashInv, TrashTypes, NoRow, RowType
<1>3. /\ rows' \subseteq Track /\ fileRow' \in [Path -> RowType] /\ fileRow'[p] = NoRow
      /\ \A q \in Path : q # p => fileRow'[q] = fileRow[q]
  BY <1>0, <1>1, <1>2
<1> HIDE DEF p
<1>4. /\ Beside /\ disk' \in [Path -> Media] /\ UNCHANGED store
      /\ \A q \in Path, k \in Kinds : disk'[q][k] = IF q = p /\ k = "audio" THEN None ELSE disk[q][k]
      /\ taken' = taken \cup ({disk[p].audio} \ {None}) /\ taken' \subseteq used
      /\ "audio" \in Kinds
  BY <1>0, <1>1, PutIs
<1>5. OpInv' /\ MediaKept' /\ Kept
  BY <1>0, <1>4, OpBeside, MediaBeside
<1>6. \A u \in rows' : u \in rows /\ u # t /\ PathOf[u] # p /\ PathOf[u] \in Path
  BY <1>0, RowIs
<1>7. Rowed'
  <2>1. \A u \in rows' : fileRow'[PathOf[u]].track = u
    BY <1>3, <1>6, RowIs
  <2>2. ASSUME NEW q \in Path, fileRow'[q] # NoRow
        PROVE  fileRow'[q].track \in rows' /\ PathOf[fileRow'[q].track] = q /\ fileRow'[q].id # None
    <3>1. q # p /\ fileRow'[q] = fileRow[q]
      BY <1>3, <2>2
    <3>2. fileRow[q].track \in rows /\ PathOf[fileRow[q].track] = q /\ fileRow[q].id # None
      BY <2>2, <3>1 DEF TrashInv, DataInv, Rowed
    <3> QED BY <1>0, <3>1, <3>2 DEF p
  <2> QED BY <2>1, <2>2 DEF Rowed
<1>8. OutOfRows' /\ Listed' /\ Complete' /\ EntryFile'
  <2>1. Listed' /\ Complete'
    BY <1>4, StoreBeside DEF TrashInv, DataInv
  <2> QED BY <1>0, <1>4, <2>1 DEF TrashInv, DataInv, OutOfRows, EntryFile, In, Has
<1>9. RowFile'
  <2>1. ASSUME NEW u \in rows' PROVE fileRow'[PathOf[u]].id \in {disk'[PathOf[u]].audio, store[u].audio} \cup taken'
    <3>1. fileRow[PathOf[u]].id \in {disk[PathOf[u]].audio, store[u].audio} \cup taken
      BY <1>6 DEF TrashInv, DataInv, RowFile
    <3> QED BY <1>3, <1>4, <1>6, <3>1
  <2> QED BY <1>4, <2>1 DEF RowFile
<1>10. JobFile'
  <2>1. ASSUME NEW q \in Path, Placed(q) PROVE job[q].id = disk'[q].audio \/ job[q].id \in taken'
    BY <1>4, <2>1 DEF TrashInv, DataInv, JobFile
  <2> QED BY <1>0, <2>1 DEF JobFile, Placed
<1>11. Claims' /\ Written'
  <2>1. \A q \in Path : fileRow'[q].id # None => fileRow'[q] = fileRow[q]
    BY <1>3 DEF NoRow
  <2>2. \A q \in Path : fileRow'[q].id \in Seen
    BY <1>3 DEF TrashInv, DataInv, Written, Seen, NoRow
  <2>3. \A u \in Track : Has(u) => journal[u].file # None
    BY DEF TrashInv, DataInv, EntryFile
  <2>4. \A q \in Path : Placed(q) => job[q].id # None
    BY DEF TrashInv, DataInv, Written
  <2>5. Claims /\ Written
    BY DEF TrashInv, DataInv
  <2>6. Claims'
    <3>1. \A q, r \in Path : fileRow'[q].id # None /\ fileRow'[q].id = fileRow'[r].id => q = r
      BY <2>1, <2>5 DEF Claims
    <3>2. \A u \in Track, q \in Path : Has(u) /\ fileRow'[q].id = journal[u].file => fileRow'[q].track = u
      BY <2>1, <2>3, <2>5 DEF Claims
    <3>3. \A q, r \in Path : Placed(q) => fileRow'[r].id # job[q].id
      BY <2>1, <2>4, <2>5 DEF Claims
    <3> QED BY <1>0, <2>5, <3>1, <3>2, <3>3 DEF Claims, Placed, Has
  <2>7. Written'
    <3>1. \A q \in Path, k \in Kinds : disk'[q][k] \in Seen
      BY <1>4, <2>5 DEF Written, Seen
    <3> QED BY <1>0, <1>4, <2>2, <2>5, <3>1 DEF Written, Seen, Placed, Has
  <2> QED BY <2>6, <2>7
<1>12. TrashTypes'
  BY <1>0, <1>3, <1>4 DEF TrashInv, TrashTypes
<1> QED
  BY <1>5, <1>7, <1>8, <1>9, <1>10, <1>11, <1>12 DEF TrashInv, DataInv

LEMMA PlaceSteps ==
  ASSUME TrashInv, NEW p \in Path, PlaceDownload(p)
  PROVE  TrashInv' /\ Kept
<1>0. PICK n \in Fresh :
        /\ job[p] = OpenJob /\ PutAudio(p, n) /\ used' = used \cup {n}
        /\ job' = [job EXCEPT ![p] = [stage |-> "placed", id |-> n]]
        /\ UNCHANGED rows /\ UNCHANGED fileRow /\ UNCHANGED journal /\ UNCHANGED op
        /\ UNCHANGED sweep /\ UNCHANGED orphans
  BY DEF PlaceDownload
<1>1. n \in FileId /\ n # None /\ n \notin used /\ n \notin Seen
  BY TrashAssumption DEF Fresh, Seen
<1>2. /\ Beside /\ disk' \in [Path -> Media] /\ UNCHANGED store
      /\ \A q \in Path, k \in Kinds : disk'[q][k] = IF q = p /\ k = "audio" THEN n ELSE disk[q][k]
      /\ taken' = taken \cup ({disk[p].audio} \ {None}) /\ taken' \subseteq used
      /\ "audio" \in Kinds
  BY <1>0, <1>1, PutIs
<1>3. OpInv' /\ MediaKept' /\ Kept
  BY <1>0, <1>2, OpBeside, MediaBeside
<1>4. Rowed' /\ OutOfRows' /\ Listed' /\ Complete' /\ EntryFile'
  <2>1. Listed' /\ Complete'
    BY <1>2, StoreBeside DEF TrashInv, DataInv
  <2> QED BY <1>0, <1>2, <2>1 DEF TrashInv, DataInv, Rowed, OutOfRows, EntryFile, In, Has
<1>5. RowFile'
  <2>1. ASSUME NEW u \in rows PROVE fileRow[PathOf[u]].id \in {disk'[PathOf[u]].audio, store[u].audio} \cup taken'
    <3>1. fileRow[PathOf[u]].id # None /\ PathOf[u] \in Path
      BY RowIs
    <3>2. fileRow[PathOf[u]].id \in {disk[PathOf[u]].audio, store[u].audio} \cup taken
      BY DEF TrashInv, DataInv, RowFile
    <3> QED BY <1>2, <3>1, <3>2
  <2> QED BY <1>0, <1>2, <2>1 DEF RowFile
<1>6. /\ job' \in [Path -> JobType] /\ job'[p].stage = "placed" /\ job'[p].id = n
      /\ \A q \in Path : q # p => job'[q] = job[q]
  <2>1. job \in [Path -> JobType] /\ [stage |-> "placed", id |-> n] \in JobType
    BY <1>1 DEF TrashInv, TrashTypes, JobType
  <2> QED BY <1>0, <2>1
<1>7. JobFile'
  <2>1. ASSUME NEW q \in Path, Placed(q)' PROVE job'[q].id = disk'[q].audio \/ job'[q].id \in taken'
    <3>1. CASE q = p
      BY <1>2, <1>6, <3>1
    <3>2. CASE q # p
      BY <1>2, <1>6, <2>1, <3>2 DEF TrashInv, DataInv, JobFile, Placed
    <3> QED BY <3>1, <3>2
  <2> QED BY <2>1 DEF JobFile
<1>8. Written'
  <2>1. Written
    BY DEF TrashInv, DataInv
  <2>2. Seen' = Seen \cup {n}
    BY <1>0 DEF Seen
  <2>3. \A q \in Path : fileRow[q].id \in Seen' /\ job'[q].id \in Seen'
    BY <1>6, <2>1, <2>2 DEF Written
  <2>4. \A q \in Path : Placed(q)' => job'[q].id # None
    BY <1>1, <1>6, <2>1 DEF Written, Placed
  <2>5. \A q \in Path, k \in Kinds : disk'[q][k] \in Seen'
    BY <1>2, <2>1, <2>2 DEF Written
  <2>6. \A u \in Track : Has(u) => journal[u].file \in Seen' /\ \A k \in Kinds : journal[u].moves[k] \in Seen'
    BY <2>1, <2>2 DEF Written
  <2>7. \A u \in Track, k \in Kinds : store[u][k] \in Seen'
    BY <2>1, <2>2 DEF Written
  <2> QED BY <1>0, <1>2, <2>3, <2>4, <2>5, <2>6, <2>7 DEF Written, Has
<1>9. Claims'
  <2>1. Claims
    BY DEF TrashInv, DataInv
  <2>2. /\ \A q \in Path : fileRow[q].id # n /\ job[q].id # n
        /\ \A u \in Track : Has(u) => journal[u].file # n
    BY <1>1 DEF TrashInv, DataInv, Written
  <2>3. \A q, r \in Path : Placed(q)' => fileRow[r].id # job'[q].id
    BY <1>6, <2>1, <2>2 DEF Claims, Placed
  <2>4. \A q \in Path, u \in Track : Placed(q)' /\ Has(u) => journal[u].file # job'[q].id
    BY <1>6, <2>1, <2>2 DEF Claims, Placed
  <2>5. \A q, r \in Path : Placed(q)' /\ Placed(r)' /\ job'[q].id = job'[r].id => q = r
    BY <1>6, <2>1, <2>2 DEF Claims, Placed
  <2> QED BY <1>0, <2>1, <2>3, <2>4, <2>5 DEF Claims, Has
<1>10. TrashTypes'
  <2>1. used' \subseteq FileId /\ taken' \subseteq used'
    BY <1>0, <1>1, <1>2 DEF TrashInv, TrashTypes
  <2> QED BY <1>0, <1>2, <1>6, <2>1 DEF TrashInv, TrashTypes
<1> QED
  BY <1>3, <1>4, <1>5, <1>7, <1>8, <1>9, <1>10 DEF TrashInv, DataInv

LEMMA PersistSteps ==
  ASSUME TrashInv, NEW p \in Path, PersistDownload(p)
  PROVE  TrashInv' /\ Kept
<1>0. PICK t \in IF Known(p) # {} THEN Known(p) ELSE {u \in Track : PathOf[u] = p /\ ~Has(u)} :
        /\ job[p].stage = "placed" /\ rows' = rows \cup {t}
        /\ fileRow' = [fileRow EXCEPT ![p] = [track |-> t, id |-> job[p].id]]
        /\ job' = [job EXCEPT ![p] = NoJob]
        /\ UNCHANGED journal /\ UNCHANGED op /\ UNCHANGED sweep /\ UNCHANGED orphans
        /\ UNCHANGED used /\ UNCHANGED disk /\ UNCHANGED store /\ UNCHANGED taken
  BY DEF PersistDownload
<1>1. /\ t \in Track /\ PathOf[t] = p /\ (t \in rows \/ (~Has(t) /\ Known(p) = {}))
      /\ rows \subseteq Track /\ fileRow \in [Path -> RowType] /\ job \in [Path -> JobType]
  BY <1>0 DEF Known, TrashInv, TrashTypes
<1>2. Placed(p) /\ job[p].id # None /\ job[p].id \in Seen /\ job[p].id \in FileId \cup {None}
  BY <1>0, <1>1 DEF Placed, TrashInv, DataInv, Written, JobType
<1>3. /\ fileRow' \in [Path -> RowType] /\ fileRow'[p] = [track |-> t, id |-> job[p].id]
      /\ \A q \in Path : q # p => fileRow'[q] = fileRow[q]
      /\ job' \in [Path -> JobType] /\ job'[p] = NoJob /\ \A q \in Path : q # p => job'[q] = job[q]
  <2>1. [track |-> t, id |-> job[p].id] \in RowType
    BY <1>1, <1>2 DEF RowType
  <2> QED BY <1>0, <1>1, <2>1, JobIs
<1>4. \A q \in Path : Placed(q)' => q # p /\ Placed(q) /\ job'[q] = job[q]
  BY <1>3 DEF Placed, NoJob
<1>5. Beside
  BY <1>0 DEF Beside
<1>6. OpInv' /\ MediaKept' /\ Kept
  BY <1>0, <1>1, <1>5, OpBeside, MediaBeside
<1>7. \A u \in rows : PathOf[u] = p => u = t
  BY <1>1, RowIs DEF Known
<1>8. Rowed'
  <2>1. \A u \in rows' : fileRow'[PathOf[u]].track = u
    BY <1>0, <1>1, <1>3, <1>7, RowIs
  <2>2. ASSUME NEW q \in Path, fileRow'[q] # NoRow
        PROVE  fileRow'[q].track \in rows' /\ PathOf[fileRow'[q].track] = q /\ fileRow'[q].id # None
    <3>1. CASE q = p
      BY <1>0, <1>1, <1>2, <1>3, <3>1
    <3>2. CASE q # p
      BY <1>0, <1>3, <2>2, <3>2 DEF TrashInv, DataInv, Rowed
    <3> QED BY <3>1, <3>2
  <2> QED BY <2>1, <2>2 DEF Rowed
<1>9. OutOfRows' /\ Listed' /\ Complete' /\ EntryFile'
  BY <1>0, <1>1 DEF TrashInv, DataInv, OutOfRows, Listed, Complete, Whole, EntryFile, In, Has
<1>10. RowFile'
  <2>1. ASSUME NEW u \in rows' PROVE fileRow'[PathOf[u]].id \in {disk[PathOf[u]].audio, store[u].audio} \cup taken
    <3>1. CASE u = t
      BY <1>1, <1>2, <1>3, <3>1 DEF TrashInv, DataInv, JobFile
    <3>2. CASE u # t
      <4>1. u \in rows /\ PathOf[u] # p /\ PathOf[u] \in Path
        BY <1>0, <1>7, <2>1, <3>2, RowIs
      <4> QED BY <1>3, <4>1 DEF TrashInv, DataInv, RowFile
    <3> QED BY <3>1, <3>2
  <2> QED BY <1>0, <2>1 DEF RowFile
<1>11. JobFile'
  BY <1>0, <1>4 DEF TrashInv, DataInv, JobFile
<1>12. Written'
  <2>1. Written
    BY DEF TrashInv, DataInv
  <2>2. \A q \in Path : fileRow'[q].id \in Seen /\ job'[q].id \in Seen
    BY <1>2, <1>3, <2>1 DEF Written, Seen, NoJob
  <2> QED BY <1>0, <1>4, <2>1, <2>2 DEF Written, Seen, Has
<1>13. Claims'
  <2>1. Claims
    BY DEF TrashInv, DataInv
  <2>2. \A q, r \in Path : fileRow'[q].id # None /\ fileRow'[q].id = fileRow'[r].id => q = r
    BY <1>2, <1>3, <2>1 DEF Claims
  <2>3. \A u \in Track, q \in Path : Has(u) /\ fileRow'[q].id = journal[u].file => fileRow'[q].track = u
    BY <1>2, <1>3, <2>1 DEF Claims
  <2>4. \A q, r \in Path : Placed(q)' => fileRow'[r].id # job'[q].id
    BY <1>2, <1>3, <1>4, <2>1 DEF Claims
  <2>5. /\ \A q \in Path, u \in Track : Placed(q)' /\ Has(u) => journal[u].file # job'[q].id
        /\ \A q, r \in Path : Placed(q)' /\ Placed(r)' /\ job'[q].id = job'[r].id => q = r
    BY <1>4, <2>1 DEF Claims
  <2> QED BY <1>0, <2>1, <2>2, <2>3, <2>4, <2>5 DEF Claims, Has
<1>14. TrashTypes'
  <2>1. rows' \subseteq Track
    BY <1>0, <1>1
  <2> QED BY <1>0, <1>3, <2>1 DEF TrashInv, TrashTypes
<1> QED
  BY <1>6, <1>8, <1>9, <1>10, <1>11, <1>12, <1>13, <1>14 DEF TrashInv, DataInv

-----------------------------------------------------------------------------
(* The beginning, and every step. *)

LEMMA TrashInitInv ==
  ASSUME TrashInit
  PROVE  TrashInv
<1>0. /\ rows = Initial
      /\ fileRow = [p \in Path |-> IF Owners(p) = {} THEN NoRow
                                   ELSE [track |-> Owner(p), id |-> Original[Owner(p)].audio]]
      /\ disk = [p \in Path |-> IF Owners(p) = {} THEN [k \in Kinds |-> None]
                                ELSE Original[Owner(p)]]
      /\ store = [t \in Track |-> [k \in Kinds |-> None]] /\ journal = [t \in Track |-> NoEntry]
      /\ op = NoOp /\ sweep = {} /\ job = [p \in Path |-> NoJob]
      /\ orphans = [paths |-> {}, deletes |-> None]
      /\ used = {Original[t][k] : t \in Initial, k \in Kinds} \ {None} /\ taken = {}
  BY DEF TrashInit
<1>1. /\ Initial \subseteq Track /\ PathOf \in [Track -> Path] /\ FileId \subseteq Nat \ {None}
      /\ Original \in [Initial -> Media] /\ \A t \in Initial : Original[t].audio # None
      /\ \A t, u \in Initial : PathOf[t] = PathOf[u] \/ Original[t].audio = Original[u].audio => t = u
      /\ "audio" \in Kinds
  BY TrashAssumption DEF Media, Kinds
<1> HIDE DEF Initial
<1>2. \A p \in Path : Owners(p) # {} => Owner(p) \in Initial /\ PathOf[Owner(p)] = p
  BY DEF Owners, Owner
<1>3. \A t \in Initial : Owners(PathOf[t]) # {} /\ Owner(PathOf[t]) = t /\ PathOf[t] \in Path
  BY <1>1, <1>2 DEF Owners
<1> HIDE DEF Owners, Owner
<1>4. \A t \in Initial, k \in Kinds : Original[t][k] \in FileId \cup {None} /\ Original[t][k] \in Seen
  BY <1>0, <1>1 DEF Seen, Media
<1>5. /\ \A p \in Path : fileRow[p] = IF Owners(p) = {} THEN NoRow
                                      ELSE [track |-> Owner(p), id |-> Original[Owner(p)].audio]
      /\ \A p \in Path, k \in Kinds : disk[p][k] = IF Owners(p) = {} THEN None ELSE Original[Owner(p)][k]
      /\ \A p \in Path : job[p] = NoJob /\ ~Placed(p)
      /\ \A t \in Track, k \in Kinds : store[t][k] = None
      /\ \A t \in Track : ~Has(t) /\ journal[t] = NoEntry
      /\ \A t \in Track : ~In(t, {"ready"}) /\ ~In(t, {"ready", "restoring", "purging"})
                          /\ ~In(t, {"ready", "restoring"}) /\ ~In(t, {"preparing"})
  BY <1>0 DEF Placed, NoJob, Has, NoEntry, In
<1>6. TrashTypes
  <2>1. fileRow \in [Path -> RowType]
    <3>1. \A p \in Path : (IF Owners(p) = {} THEN NoRow
                           ELSE [track |-> Owner(p), id |-> Original[Owner(p)].audio]) \in RowType
      BY <1>1, <1>2, <1>4 DEF RowType, NoRow
    <3> QED BY <1>0, <3>1
  <2>2. disk \in [Path -> Media]
    <3>1. \A p \in Path : (IF Owners(p) = {} THEN [k \in Kinds |-> None] ELSE Original[Owner(p)]) \in Media
      BY <1>1, <1>2 DEF Media
    <3> QED BY <1>0, <3>1
  <2>3. store \in [Track -> Media] /\ journal \in [Track -> EntryType \cup {NoEntry}]
    BY <1>0 DEF Media
  <2>4. used \subseteq FileId /\ taken \subseteq used
    BY <1>0, <1>4
  <2> QED BY <1>0, <1>1, <2>1, <2>2, <2>3, <2>4, NoOpIs, JobIs DEF TrashTypes
<1>7. Rowed /\ RowFile
  BY <1>0, <1>1, <1>2, <1>3, <1>5 DEF Rowed, RowFile
<1>8. OutOfRows /\ Listed /\ Complete /\ EntryFile /\ JobFile /\ MediaKept
  BY <1>5 DEF OutOfRows, Listed, Complete, Whole, EntryFile, JobFile, MediaKept
<1>9. \A p \in Path : \/ Owners(p) = {} /\ fileRow[p].id = None
                      \/ Owners(p) # {} /\ fileRow[p].id = Original[Owner(p)].audio
  <2>1. NoRow.id = None
    BY DEF NoRow
  <2>2. ASSUME NEW p \in Path
        PROVE  \/ Owners(p) = {} /\ fileRow[p].id = None
               \/ Owners(p) # {} /\ fileRow[p].id = Original[Owner(p)].audio
    <3>1. fileRow[p] = IF Owners(p) = {} THEN NoRow
                       ELSE [track |-> Owner(p), id |-> Original[Owner(p)].audio]
      BY <1>5
    <3>2. CASE Owners(p) = {}
      BY <2>1, <3>1, <3>2
    <3>3. CASE Owners(p) # {}
      BY <3>1, <3>3
    <3> QED BY <3>2, <3>3
  <2> QED BY <2>2
<1>10. Written
  <2>1. \A p \in Path : fileRow[p].id \in Seen
    <3>1. \A t \in Initial : Original[t].audio \in Seen
      BY <1>1, <1>4
    <3> QED BY <1>2, <1>9, <3>1 DEF Seen
  <2>2. \A p \in Path, k \in Kinds : disk[p][k] \in Seen
    BY <1>2, <1>4, <1>5 DEF Seen
  <2>3. \A p \in Path : job[p].id \in Seen
    BY <1>5 DEF NoJob, Seen
  <2>4. \A t \in Track, k \in Kinds : store[t][k] \in Seen
    BY <1>5 DEF Seen
  <2> QED BY <1>5, <2>1, <2>2, <2>3, <2>4 DEF Written
<1>11. Claims
  <2>1. \A p, q \in Path : fileRow[p].id # None /\ fileRow[p].id = fileRow[q].id => p = q
    BY <1>1, <1>2, <1>9
  <2> QED BY <1>5, <2>1 DEF Claims
<1>12. OpInv
  BY <1>0 DEF OpInv, Standing, Stepping, Progress, NoOp, Past
<1> QED
  BY <1>6, <1>7, <1>8, <1>10, <1>11, <1>12 DEF TrashInv, DataInv

LEMMA TrashNextInv ==
  ASSUME TrashInv, [TrashNext]_trashVars
  PROVE  TrashInv' /\ Kept
<1>1. CASE Step
  BY <1>1, PrepareSteps, MoveSteps, CommitSteps, VerifySteps, MarkSteps, MetadataSteps, UnmarkSteps,
     RemoveSteps, ForgetSteps, EntrySteps DEF Step
<1>2. CASE Maintenance
  BY <1>2, MaintenanceSteps
<1>3. CASE User
  BY <1>3, RecoverSteps, StartSteps, DeleteSteps, OrphanSteps DEF User, RecoverTrash
<1>4. CASE Other
  BY <1>4, JobSteps, PlaceSteps, PersistSteps, ExpireSteps, OrphanSteps, OrphanGoes, RestartSteps DEF Other
<1>5. CASE UNCHANGED trashVars
  <2>1. UNCHANGED <<rows, fileRow, journal, disk, store, job, used, taken>>
        /\ UNCHANGED <<op, sweep, orphans>>
    BY <1>5 DEF trashVars
  <2>2. OpInv'
    BY <2>1, OpBeside DEF Beside
  <2> QED BY <2>1, <2>2, Idles DEF TrashInv, TrashTypes
<1> QED
  BY <1>1, <1>2, <1>3, <1>4, <1>5 DEF TrashNext

(* The trash keeps its inductive invariant. *)
LEMMA TrashInvariant == TrashSpec => []TrashInv
<1>1. TrashInit => TrashInv
  BY TrashInitInv
<1>2. TrashInv /\ [TrashNext]_trashVars => TrashInv'
  BY TrashNextInv
<1> QED
  BY <1>1, <1>2, PTL DEF TrashSpec

-----------------------------------------------------------------------------
(* What the trash promises. *)

(* Every variable of the trash keeps its shape (library/trash.go). *)
THEOREM EntriesTyped == TrashSpec => []TrashTypes
<1>1. TrashInv => TrashTypes
  BY DEF TrashInv
<1> QED BY <1>1, TrashInvariant, PTL

(* Media that the journal lists are on the disk until an entry that lists  *)
(* them is purged or somebody deletes the file.                            *)
THEOREM MediaRecoverable == TrashSpec => []MediaKept
<1>1. TrashInv => MediaKept
  BY DEF TrashInv, DataInv
<1> QED BY <1>1, TrashInvariant, PTL

(* A ready entry has all its media and no row, and a row without an entry  *)
(* has the file it names.                                                  *)
THEOREM BothSidesComplete == TrashSpec => []NothingMissing
<1>1. ASSUME TrashInv PROVE NothingMissing
  <2>1. ReadyIsComplete
    BY <1>1 DEF TrashInv, DataInv, OutOfRows, Complete, Whole, ReadyIsComplete, In
  <2>2. RowsHaveFiles
    <3> SUFFICES ASSUME NEW t \in rows, ~Has(t), fileRow[PathOf[t]].id \notin taken
                 PROVE  disk[PathOf[t]].audio = fileRow[PathOf[t]].id
      BY DEF RowsHaveFiles
    <3>1. t \in Track /\ fileRow[PathOf[t]].id # None
      BY <1>1, RowIs
    <3>2. store[t].audio = None
      BY <1>1, <3>1 DEF TrashInv, DataInv, Listed, Kinds
    <3>3. fileRow[PathOf[t]].id \in {disk[PathOf[t]].audio, store[t].audio} \cup taken
      BY <1>1 DEF TrashInv, DataInv, RowFile
    <3> QED BY <3>1, <3>2, <3>3
  <2> QED BY <2>1, <2>2 DEF NothingMissing
<1> QED BY <1>1, TrashInvariant, PTL

(* Moving to and from the trash costs no file: one leaves the disk only by *)
(* a purge of an entry that lists it, or because somebody deleted it.      *)
THEOREM NoMoveLosesAFile == TrashSpec => NothingOverwritten
<1>1. TrashInv /\ [TrashNext]_trashVars =>
        [\A n \in OnDisk \ {None} : n \in OnDisk' \/ n \in taken'
           \/ \E t \in Track : In(t, {"purging"}) /\ \E k \in Kinds : journal[t].moves[k] = n]_trashVars
  BY TrashNextInv DEF Kept
<1> QED BY <1>1, TrashInvariant, PTL DEF TrashSpec, NothingOverwritten
=============================================================================
