---------------------------- MODULE ItemPipeline ----------------------------
(***************************************************************************)
(* One item of a download job from the skip check to the catalogue         *)
(* (backend/internal/jobs/worker.go, staging_prune.go, storage/library.go, *)
(* storage/staging.go): the audio goes through a staging directory to a    *)
(* place in the library, then one transaction writes its rows, then the    *)
(* item is completed.  Staging, library, rows and item are four stores     *)
(* that no transaction spans; the process may stop between any two.        *)
(***************************************************************************)
EXTENDS Naturals

CONSTANTS
  Item,         \* items of jobs, of one or several jobs
  Song,         \* recordings, each with a media source of its own
  NameOf,       \* the usual file name of a recording; two may share one
  Skipping,     \* items of jobs with skip_existing
  Takes,        \* files that downloads of a recording produce, by hash
  MaxAttempts,  \* attempts of an item
  Budget        \* bound: stops, failing calls, cancelled jobs, losses of the
                \* storage and retried items, together

ASSUME ItemPipelineAssumption ==
  /\ {"none", "absent", "usual"} \cap Song = {}
  /\ "none" \notin Item
  /\ MaxAttempts \in Nat \ {0}
  /\ Budget \in Nat

VARIABLES
  wants,        \* the recording an item asks for
  status,       \* job_items.status
  attempts,     \* job_items.attempts
  staging,      \* the item's staging directory: absent, or the audio in it
  disk,         \* the library
  row,          \* files: the recording a path belongs to
  run,          \* the attempt of the item: the next step, and its target
  finalizer,    \* the holder of the single finalizer slot
  writable,     \* the storage guard
  cancelled,    \* items whose job context is cancelled
  budget

vars == <<wants, status, attempts, staging, disk, row, run, finalizer, writable,
          cancelled, budget>>

Waiting  == {"queued", "retry_wait", "waiting_storage"}
Working  == {"matching", "downloading", "tagging", "finalizing"}
Terminal == {"completed", "skipped", "failed", "cancelled"}
Name     == {NameOf[s] : s \in Song}
Place    == Name \X ({"usual"} \cup Song)
Usual(s)       == <<NameOf[s], "usual">>
Alternative(s) == <<NameOf[s], s>>
Audio     == Song \X Takes
Nothing   == <<"none", 0>>
Absent    == <<"absent", 0>>
NoOne     == "none"
Unknown   == "none"
Nowhere   == <<"none", "none">>
Resting   == [pc |-> "rest", at |-> Nowhere]
Stored(s) == \E p \in Place : row[p] = s
Spend     == budget > 0 /\ budget' = budget - 1

At(i, pc)     == run[i].pc = pc
Goto(i, pc)   == run' = [run EXCEPT ![i].pc = pc]
SetStatus(i, s) == status' = [status EXCEPT ![i] = s]
Stage(i, a)   == staging' = [staging EXCEPT ![i] = a]

-----------------------------------------------------------------------------
(* The end of an attempt: process and finishItem of worker.go. *)

(* Mutant: an attempt that ends keeps the finalizer slot. *)
MutRest(i) == run' = [run EXCEPT ![i] = Resting] /\ UNCHANGED finalizer

Rest(i) == /\ run' = [run EXCEPT ![i] = Resting]
           /\ finalizer' = IF finalizer = i THEN NoOne ELSE finalizer

\* staging goes only after the final status is stored; the update may fail
Finish(i, s) ==
  /\ Rest(i)
  /\ \/ SetStatus(i, s) /\ Stage(i, Absent) /\ UNCHANGED budget
     \/ SetStatus(i, s) /\ UNCHANGED staging /\ Spend
     \/ UNCHANGED <<status, staging>> /\ Spend
  /\ UNCHANGED attempts

Cancel(i) == Finish(i, "cancelled")

\* provider, download and verification errors are retried, others are final
RetryOrFail(i) ==
  IF attempts[i] < MaxAttempts
    THEN /\ Rest(i) /\ SetStatus(i, "retry_wait")
         /\ UNCHANGED <<attempts, staging, budget>>
    ELSE Finish(i, "failed")

WaitForStorage(i) ==
  /\ Rest(i) /\ SetStatus(i, "waiting_storage")
  /\ UNCHANGED <<attempts, staging, budget>>

\* no media session is eligible: the attempt does not count
WaitForSession(i) ==
  /\ Rest(i) /\ SetStatus(i, "retry_wait") /\ Spend
  /\ attempts' = [attempts EXCEPT ![i] = @ - 1]
  /\ UNCHANGED staging

\* an error of a step of an attempt whose context has ended is a cancellation
Broken(i, outcome) == IF i \in cancelled THEN Cancel(i) ELSE outcome

Library == <<disk, row>>
Outside == <<wants, writable, cancelled>>

-----------------------------------------------------------------------------
(* attempt, step by step. *)

(* Mutant: a file with the name of the recording is taken for it. *)
MutAlreadyInLibrary(s) == disk[Usual(s)] # Nothing

AlreadyInLibrary(s) == \E p \in Place : row[p] = s /\ disk[p] # Nothing

\* the queue hands out a waiting item; one that waits for the storage when
\* the storage is back
Check(i) ==
  /\ At(i, "rest") /\ status[i] \in Waiting
  /\ status[i] = "waiting_storage" => writable
  /\ IF i \in cancelled THEN Cancel(i)
     ELSE IF i \in Skipping /\ AlreadyInLibrary(wants[i]) THEN Finish(i, "skipped")
     ELSE IF ~writable THEN WaitForStorage(i)
     ELSE /\ Stage(i, IF staging[i] = Absent THEN Nothing ELSE staging[i])
          /\ SetStatus(i, "matching")
          /\ attempts' = [attempts EXCEPT ![i] = @ + 1]
          /\ Goto(i, "resolve")
          /\ UNCHANGED <<finalizer, budget>>
  /\ UNCHANGED <<Library, Outside>>

Resolve(i) ==
  /\ At(i, "resolve")
  /\ \/ i \notin cancelled /\ SetStatus(i, "downloading") /\ Goto(i, "download")
        /\ UNCHANGED <<attempts, staging, finalizer, budget>>
     \/ i \in cancelled /\ Cancel(i)
     \/ i \notin cancelled /\ WaitForSession(i)
     \/ i \notin cancelled /\ RetryOrFail(i)
     \/ i \notin cancelled /\ Finish(i, "failed")
  /\ UNCHANGED <<Library, Outside>>

\* a failed verification takes the complete audio out of staging
Download(i) ==
  /\ At(i, "download")
  /\ \/ \E t \in Takes : i \notin cancelled /\ Stage(i, <<wants[i], t>>)
        /\ SetStatus(i, "tagging") /\ Goto(i, "finalize")
        /\ UNCHANGED <<attempts, finalizer, budget>>
     \/ i \in cancelled /\ Cancel(i)
     \/ i \notin cancelled /\ attempts[i] < MaxAttempts /\ Stage(i, Nothing)
        /\ Rest(i) /\ SetStatus(i, "retry_wait") /\ UNCHANGED <<attempts, budget>>
     \/ i \notin cancelled /\ RetryOrFail(i)
  /\ UNCHANGED <<Library, Outside>>

\* the guard is asked again, then the one finalizer slot is taken
Finalize(i) ==
  /\ At(i, "finalize")
  /\ \/ ~writable /\ Broken(i, WaitForStorage(i))
     \/ writable /\ finalizer = NoOne /\ finalizer' = i
        /\ SetStatus(i, "finalizing") /\ Goto(i, "place")
        /\ UNCHANGED <<attempts, staging, budget>>
     \/ i \in cancelled /\ Cancel(i)
  /\ UNCHANGED <<Library, Outside>>

\* FindByPath and FindTrack: the row of the path names this recording
OwnsTarget(i) == row[Usual(wants[i])] = wants[i]

\* placeSafe decides by what is there now; the write is a step of its own
PlaceSafe(i) ==
  /\ At(i, "place")
  /\ \/ /\ Goto(i, IF disk[Usual(wants[i])] # Nothing /\ OwnsTarget(i)
                   THEN "replace" ELSE "commit")
        /\ UNCHANGED <<status, attempts, staging, finalizer, budget>>
     \/ Spend /\ Rest(i) /\ SetStatus(i, IF i \in cancelled THEN "cancelled" ELSE "failed")
        /\ Stage(i, Absent) /\ UNCHANGED attempts
  /\ UNCHANGED <<Library, Outside>>

PlaceAt(i, p) == run' = [run EXCEPT ![i] = [pc |-> "persist", at |-> p]]

\* a rename: the audio leaves staging
Replace(i) ==
  LET p == Usual(wants[i]) IN
  /\ At(i, "replace")
  /\ \/ writable /\ disk' = [disk EXCEPT ![p] = staging[i]] /\ Stage(i, Nothing)
        /\ PlaceAt(i, p) /\ UNCHANGED <<status, attempts, finalizer, budget>>
     \/ ~writable /\ UNCHANGED disk /\ Broken(i, WaitForStorage(i))
  /\ UNCHANGED <<row, Outside>>

(* Mutant: the commit takes a file without a row for a leftover of its own. *)
MutFits(i, p) == disk[p] \in {Nothing, staging[i]} \/ row[p] = Unknown

\* CommitStaged: never over another file; the same file counts as placed
Fits(i, p) == disk[p] \in {Nothing, staging[i]}

CommitRecording(i) ==
  LET s == wants[i]
      p == IF Fits(i, Usual(s)) THEN Usual(s) ELSE Alternative(s) IN
  /\ At(i, "commit")
  /\ \/ writable /\ Fits(i, p) /\ disk' = [disk EXCEPT ![p] = staging[i]]
        /\ PlaceAt(i, p) /\ UNCHANGED <<status, attempts, staging, finalizer, budget>>
     \/ writable /\ ~Fits(i, p) /\ UNCHANGED disk /\ Broken(i, Finish(i, "failed"))
     \/ ~writable /\ UNCHANGED disk /\ Broken(i, WaitForStorage(i))
  /\ UNCHANGED <<row, Outside>>

(* Mutant: the row always gets the usual name. *)
MutTarget(i) == Usual(wants[i])

Target(i) == run[i].at

\* PersistDownload, detached from the job's context: all rows or none.
\* A failure is internal, hence final.
Persist(i) ==
  LET written == row' = [row EXCEPT ![Target(i)] = wants[i]] IN
  /\ At(i, "persist")
  /\ \/ /\ written /\ Goto(i, "clean")
        /\ UNCHANGED <<status, attempts, staging, finalizer, budget>>
     \/ /\ written \/ UNCHANGED row
        /\ Spend /\ Rest(i) /\ Stage(i, Absent) /\ UNCHANGED attempts
        /\ SetStatus(i, IF i \in cancelled THEN "cancelled" ELSE "failed")
  /\ UNCHANGED <<disk, Outside>>

CleanupItem(i) ==
  /\ At(i, "clean")
  /\ Stage(i, Absent) /\ Goto(i, "complete")
  /\ UNCHANGED <<status, attempts, finalizer, Library, Outside, budget>>

\* this update still has the job's context: a cancelled job cancels the item
Complete(i) ==
  /\ At(i, "complete")
  /\ IF i \in cancelled THEN Cancel(i)
     ELSE \/ Rest(i) /\ SetStatus(i, "completed") /\ UNCHANGED <<attempts, staging, budget>>
          \/ Rest(i) /\ SetStatus(i, "failed") /\ Spend /\ UNCHANGED <<attempts, staging>>
  /\ UNCHANGED <<Library, Outside>>

-----------------------------------------------------------------------------
(* The world around. *)

CancelJob(i) ==
  /\ Spend /\ i \notin cancelled /\ status[i] \notin Terminal
  /\ cancelled' = cancelled \cup {i}
  /\ UNCHANGED <<status, attempts, staging, Library, run, finalizer, wants, writable>>

LoseStorage   == /\ writable /\ writable' = FALSE /\ Spend
                 /\ UNCHANGED <<status, attempts, staging, Library, run, finalizer, wants, cancelled>>
RegainStorage == /\ ~writable /\ writable' = TRUE
                 /\ UNCHANGED <<status, attempts, staging, Library, run, finalizer, wants, cancelled, budget>>

Recovered(s) == IF s \in Working THEN "queued" ELSE s

Prunable(s) == s \in Terminal

\* RetryItem: a failed item is queued again, with all of its attempts
RetryItem(i) ==
  /\ Spend /\ status[i] = "failed" /\ At(i, "rest")
  /\ SetStatus(i, "queued") /\ attempts' = [attempts EXCEPT ![i] = 0]
  /\ UNCHANGED <<staging, Library, run, finalizer, Outside>>

\* A stop anywhere, and the next start: interrupted items are queued again,
\* then pruneStaging removes the directories of the items that are final.
Restart ==
  LET recovered == [i \in Item |-> Recovered(status[i])] IN
  /\ Spend
  /\ status'  = recovered
  /\ staging' = [i \in Item |-> IF Prunable(recovered[i]) THEN Absent ELSE staging[i]]
  /\ run' = [i \in Item |-> Resting] /\ finalizer' = NoOne
  /\ UNCHANGED <<attempts, Library, Outside>>

-----------------------------------------------------------------------------

Init ==
  /\ wants \in [Item -> Song]
  /\ status   = [i \in Item |-> "queued"]
  /\ attempts = [i \in Item |-> 0]
  /\ staging  = [i \in Item |-> Absent]
  /\ disk = [p \in Place |-> Nothing]
  /\ row  = [p \in Place |-> Unknown]
  /\ run  = [i \in Item |-> Resting] /\ finalizer = NoOne
  /\ writable = TRUE
  /\ cancelled = {}
  /\ budget = Budget

Step(i) == \/ Check(i) \/ Resolve(i) \/ Download(i) \/ Finalize(i)
           \/ PlaceSafe(i) \/ Replace(i) \/ CommitRecording(i) \/ Persist(i)
           \/ CleanupItem(i) \/ Complete(i)

Next == \/ \E i \in Item : Step(i) \/ CancelJob(i) \/ RetryItem(i)
        \/ LoseStorage \/ RegainStorage \/ Restart

(* The workers go on; a worker that waits for the slot gets it in the end  *)
(* (a Go channel serves its senders in order).  The storage comes back.    *)
Fairness == /\ \A i \in Item : SF_vars(Step(i))
            /\ WF_vars(RegainStorage)

Spec == Init /\ [][Next]_vars /\ Fairness

-----------------------------------------------------------------------------
(* Properties *)

Steps == {"rest", "resolve", "download", "finalize", "place", "replace", "commit",
          "persist", "clean", "complete"}

(* Every variable keeps its shape. *)
TypeOK ==
  /\ wants \in [Item -> Song]
  /\ status \in [Item -> Waiting \cup Working \cup Terminal]
  /\ attempts \in [Item -> Nat]
  /\ staging \in [Item -> {Absent, Nothing} \cup Audio]
  /\ disk \in [Place -> {Nothing} \cup Audio]
  /\ row \in [Place -> {Unknown} \cup Song]
  /\ run \in [Item -> [pc : Steps, at : Place \cup {Nowhere}]]
  /\ finalizer \in Item \cup {NoOne}
  /\ writable \in BOOLEAN
  /\ cancelled \subseteq Item
  /\ budget \in Nat

(* A row of the catalogue names a file that is there and is that recording *)
(* (catalog.go:853: never a track without its file), however the steps of  *)
(* several items, a crash and lost answers interleave.                     *)
RowsAreTrue ==
  \A p \in Place : row[p] # Unknown => disk[p] \in {row[p]} \X Takes

(* An item that says completed or skipped has its recording in the library *)
(* and in the catalogue.                                                   *)
SettledIsStored ==
  \A i \in Item : status[i] \in {"completed", "skipped"} => Stored(wants[i])

(* Why: what an attempt knows between its steps. *)

(* An attempt that has begun is counted. *)
AttemptCounted == \A i \in Item : At(i, "resolve") => attempts[i] > 0

(* From the download to its place the staged audio is what the item wants. *)
StagedIsWanted ==
  \A i \in Item : run[i].pc \in {"finalize", "place", "replace", "commit"} =>
    staging[i] \in {wants[i]} \X Takes

(* Only a file of the same recording is replaced. *)
ReplacesItsOwn ==
  \A i \in Item : At(i, "replace") => row[Usual(wants[i])] = wants[i]

(* Before the rows are written the recording is at the place they name. *)
PlacedIsThere ==
  \A i \in Item : At(i, "persist") =>
    run[i].at \in Place /\ disk[run[i].at] \in {wants[i]} \X Takes

(* After that the recording is in the catalogue. *)
PersistedIsStored ==
  \A i \in Item : run[i].pc \in {"clean", "complete"} => Stored(wants[i])

PipelineInv ==
  /\ AttemptCounted /\ StagedIsWanted /\ ReplacesItsOwn /\ PlacedIsThere
  /\ PersistedIsStored /\ RowsAreTrue /\ SettledIsStored

(* What is placed is never taken away or overwritten by another recording: *)
(* two recordings that share a name both stay.                             *)
RecordingsKept ==
  [][\A p \in Place : disk[p] # Nothing => disk'[p][1] = disk[p][1]]_vars

(* Every item comes to an end, whatever fails: no attempt keeps the slot   *)
(* and no wait for the storage lasts for ever.                             *)
ItemsSettle == <>[](\A i \in Item : status[i] \in Terminal \/ (At(i, "rest") /\ status[i] \in Working))
=============================================================================
