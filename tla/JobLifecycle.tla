----------------------------- MODULE JobLifecycle -----------------------------
(***************************************************************************)
(* What the download queue promises to a client that reads the jobs and    *)
(* job_items tables, whatever goroutines, API calls, restarts and crashes  *)
(* do: items appear together, a completed, skipped or cancelled item and a *)
(* cancelled job are final, an item is cancelled only under a cancelled    *)
(* job, and only a failed item is ever opened again.                       *)
(***************************************************************************)
CONSTANTS Job, Item, JobOf

VARIABLES
  jobPhase,   \* absent, open, completed, failed or cancelled
  itemPhase   \* absent, open, completed, failed, skipped or cancelled

vars == <<jobPhase, itemPhase>>

Tracks(j) == {i \in Item : JobOf[i] = j}

(* The items in S move to phase p together. *)
Move(S, p) ==
  /\ itemPhase' = [i \in Item |-> IF i \in S THEN p ELSE itemPhase[i]]
  /\ UNCHANGED jobPhase

Set(j, p) == jobPhase' = [jobPhase EXCEPT ![j] = p] /\ UNCHANGED itemPhase

Init ==
  /\ jobPhase = [j \in Job |-> "absent"]
  /\ itemPhase = [i \in Item |-> "absent"]

Submit(j)   == jobPhase[j] = "absent" /\ Set(j, "open")

Populate(j) ==
  /\ jobPhase[j] # "absent"
  /\ \A i \in Tracks(j) : itemPhase[i] = "absent"
  /\ Move(Tracks(j), "open")

CloseItem(i) ==
  /\ itemPhase[i] = "open"
  /\ \E p \in {"completed", "failed", "skipped"} : Move({i}, p)

Close(j) ==
  /\ jobPhase[j] = "open"
  /\ \E p \in {"completed", "failed", "cancelled"} : Set(j, p)

CancelItems(j) ==
  /\ jobPhase[j] = "cancelled"
  /\ \E S \in SUBSET Tracks(j) :
       /\ \A i \in S : itemPhase[i] = "open"
       /\ Move(S, "cancelled")

Retry(j) ==
  \E S \in SUBSET Tracks(j) :
    /\ \A i \in S : itemPhase[i] = "failed"
    /\ Move(S, "open")

Reopen(j) == jobPhase[j] \in {"completed", "failed"} /\ Set(j, "open")

Next ==
  \/ \E j \in Job : Submit(j) \/ Populate(j) \/ Close(j) \/ CancelItems(j)
                      \/ Retry(j) \/ Reopen(j)
  \/ \E i \in Item : CloseItem(i)

Spec == Init /\ [][Next]_vars
=============================================================================
