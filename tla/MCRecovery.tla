----------------------------- MODULE MCRecovery -----------------------------
(***************************************************************************)
(* The two journals of the program, the state file of ytmdlctl and the     *)
(* table of the trash, for TLC in one run: a behaviour is one of           *)
(* UpdateTransaction or one of Trash, as focus says.  The modules share no *)
(* variable and every property is about one of them, so that what holds of *)
(* these behaviours holds of each module by itself.                        *)
(*                                                                         *)
(* The trash has two tracks of one song, so that a recording that was      *)
(* downloaded again takes the place of the one in the trash.               *)
(***************************************************************************)
EXTENDS MCUpdateTransaction, Trash

CONSTANTS t1, t2, p1

VARIABLE focus

MCPathOf    == [t \in {t1, t2} |-> p1]
MCOriginal  == [t \in {t1} |-> [audio |-> 1, lyrics |-> 2]]
MCAllowance == [user |-> 3, job |-> 1, crash |-> 1, fault |-> 2]

recoveryVars == <<focus, vars, trashVars>>

Updating == focus = "update" /\ UNCHANGED <<focus, trashVars>>
Trashing == focus = "trash" /\ UNCHANGED <<focus, vars>>

RecoveryInit == Init /\ TrashInit /\ focus \in {"update", "trash"}
RecoveryNext == (Updating /\ Next) \/ (Trashing /\ TrashNext)

(* The fairness of both modules. *)
RecoverySpec ==
  /\ RecoveryInit /\ [][RecoveryNext]_recoveryVars
  /\ WF_recoveryVars(Updating /\ UpdateStep)
  /\ WF_recoveryVars(Updating /\ RollbackStep)
  /\ WF_recoveryVars(Updating /\ RecoverStep)
  /\ WF_recoveryVars(Updating /\ Migrate)
  /\ WF_recoveryVars(Updating /\ Operator)
  /\ WF_recoveryVars(Trashing /\ Step)
  /\ WF_recoveryVars(Trashing /\ Maintenance)
=============================================================================
