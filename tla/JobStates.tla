------------------------------ MODULE JobStates ------------------------------
(***************************************************************************)
(* The states of download jobs and of their items, the moves between them  *)
(* that the repository layer accepts, and the job state that a set of item *)
(* states amounts to.  From src/backend/internal/jobs/job.go.              *)
(***************************************************************************)
EXTENDS Naturals, FiniteSets

(* Position of the non-terminal job states in the pipeline. *)
PipelineRank == [
  queued              |-> 0,
  resolving_artist    |-> 1,
  resolving_releases  |-> 2,
  resolving_tracks    |-> 3,
  deduplicating       |-> 4,
  matching            |-> 5,
  downloading         |-> 6,
  tagging             |-> 7,
  finalizing          |-> 8,
  retry_wait          |-> 9,
  waiting_for_storage |-> 10,
  waiting_for_space   |-> 11]

(* States a job alternates between while several of its items are worked on. *)
ProcessingBand ==
  {"matching", "downloading", "tagging", "finalizing",
   "retry_wait", "waiting_for_storage", "waiting_for_space"}

(* States of the catalogue resolution phase. *)
ResolvingBand ==
  {"resolving_artist", "resolving_releases", "resolving_tracks", "deduplicating"}

JobTerminal == {"completed", "failed", "cancelled"}
JobActive   == {"queued"} \cup ResolvingBand \cup ProcessingBand
JobStatus   == JobActive \cup JobTerminal

(* May a job move from state s to state t?  Terminal states are final, the  *)
(* bands are free, everything else goes forward only.                       *)
JobCanTransition(s, t) ==
  \/ s = t
  \/ /\ s \in JobActive
     /\ \/ t \in JobTerminal
        \/ {s, t} \subseteq ProcessingBand
        \/ {s, t} \subseteq ResolvingBand
        \/ t \in JobActive /\ PipelineRank[t] > PipelineRank[s]

-----------------------------------------------------------------------------

(* States in which a worker is busy with the item. *)
ItemWorking  == {"matching", "downloading", "tagging", "finalizing"}
ItemParked   == {"pending", "retry_wait", "waiting_for_storage", "waiting_for_space"}
ItemTerminal == {"completed", "failed", "skipped", "cancelled"}
ItemStatus   == ItemWorking \cup ItemParked \cup ItemTerminal

(* Mutant: a cancelled or failed item may be taken up again. *)
MutItemCanTransition(s, t) == s = t \/ s \notin {"completed", "skipped"}

(* May an item move from state s to state t?  Only terminal states hold on. *)
ItemCanTransition(s, t) == s = t \/ s \notin ItemTerminal

-----------------------------------------------------------------------------

(* Which item state colours the whole job, the strongest first. *)
Precedence ==
  <<"downloading", "matching", "tagging", "finalizing",
    "waiting_for_storage", "waiting_for_space", "retry_wait">>

(* The job state that a non-empty set S of item states amounts to: first   *)
(* when all of them are terminal, then in general.                         *)
ClosedStatus(S) ==
  IF "completed" \in S \/ S = {"skipped"} THEN "completed"
  ELSE IF S = {"cancelled"} THEN "cancelled" ELSE "failed"

(* Mutant: an item that has not started does not keep the job open. *)
MutDeriveParentStatus(S) ==
  IF S \ {"pending"} \subseteq ItemTerminal THEN ClosedStatus(S) ELSE "downloading"

DeriveParentStatus(S) ==
  LET present == {n \in 1..7 : Precedence[n] \in S}
  IN  IF S \subseteq ItemTerminal THEN ClosedStatus(S)
      ELSE IF present = {} THEN "queued"
      ELSE Precedence[CHOOSE n \in present : \A m \in present : n <= m]
=============================================================================
