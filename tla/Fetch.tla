-------------------------------- MODULE Fetch --------------------------------
(***************************************************************************)
(* The calls of yt-dlp: queries, which share a store of answers and one    *)
(* process among equal ones (ytdlp/querycache.go, client.go), and          *)
(* downloads, which are bounded in bytes and time and looked at before     *)
(* they are kept (downloader/downloader.go, combined.go).  Every process   *)
(* takes the one execution slot of its session (mediasession/session.go).  *)
(*                                                                         *)
(* A call ends by what its process says, by its own clock, by its own      *)
(* budget, or because the caller gave it up, and must tell which it was.   *)
(* Time is what the actions TimeOut, Age and Progress do.                  *)
(***************************************************************************)
EXTENDS Integers, Sequences, FiniteSets, Subsequence

CONSTANTS
  Caller,
  Search, Extract,   \* two disjoint sets: what may be queried
  Stream,            \* what may be downloaded: combined with video or not, whether
                     \* that may be used, the bytes that arrive, those announced
                     \* (0: none), whether it has video and is the track asked for
  MaxEntries,        \* the size of the store
  MaxBytes,          \* the transfer budget of a combined stream
  Budgets            \* bound: numbers of calls of each kind, and of answers that age

VARIABLES
  calls,       \* what each caller does
  inflight,    \* the caller that runs a query for all who want it
  store,       \* answers kept, most recently used first
  slot,        \* the caller whose process, or whose turn to start one, it is
  left         \* what remains of a budget

fetchVars == <<calls, inflight, store, slot, left>>

Nobody == "nobody"
ASSUME FetchAssumption ==
  /\ Nobody \notin Caller /\ MaxEntries \in Nat \ {0} /\ MaxBytes \in Nat
  /\ \A s \in Stream : s.bytes \in Nat

Query  == Search \cup Extract
Idle   == [pc |-> "idle"]

(* heard: what processes for this query have said since it was asked. *)
Asked(k)   == [pc |-> "look", of |-> k, ended |-> FALSE, late |-> FALSE, heard |-> {},
               result |-> "none", seen |-> 0, cut |-> FALSE]
Is(c, pc)  == calls[c].pc = pc
Queries(c) == calls[c].pc # "idle" /\ calls[c].of \in Query
Fetches(c) == calls[c].pc # "idle" /\ calls[c].of \notin Query
Combined(c) == Fetches(c) /\ calls[c].of.combined /\ calls[c].of.allowed

(* A query has a time limit of its own; a download has that of its process,*)
(* and its context may also be ended by its budget.                        *)
Ended(c) == calls[c].ended \/ (Queries(c) /\ calls[c].late) \/ calls[c].cut

Become(c, pc)      == calls' = [calls EXCEPT ![c].pc = pc]
Finish(c, result)  == calls' = [calls EXCEPT ![c].pc = "done", ![c].result = result]

-----------------------------------------------------------------------------
(* The world.                                                              *)

Spend(what) == left[what] > 0 /\ left' = [left EXCEPT ![what] = @ - 1]

Call(c, what) ==
  /\ Is(c, "idle")
  /\ Spend(IF what \in Search THEN "search" ELSE IF what \in Extract THEN "extract" ELSE "download")
  /\ calls' = [calls EXCEPT ![c] = [Asked(what) EXCEPT !.pc = IF what \in Query THEN "look" ELSE "open"]]
  /\ UNCHANGED <<inflight, store, slot>>

Return(c) ==
  /\ Is(c, "done")
  /\ calls' = [calls EXCEPT ![c] = Idle]
  /\ UNCHANGED <<inflight, store, slot, left>>

GiveUp(c) ==
  /\ calls[c].pc \notin {"idle", "done"} /\ ~calls[c].ended
  /\ calls' = [calls EXCEPT ![c].ended = TRUE]
  /\ UNCHANGED <<inflight, store, slot, left>>

(* The clock of a query starts with it, that of a combined download with   *)
(* its process; another download has none.                                 *)
TimeOut(c) ==
  /\ calls[c].pc \notin {"idle", "done"} /\ ~calls[c].late
  /\ Queries(c) \/ (Combined(c) /\ Is(c, "run"))
  /\ calls' = [calls EXCEPT ![c].late = TRUE]
  /\ UNCHANGED <<inflight, store, slot, left>>

Age(n) ==
  /\ ~store[n].old
  /\ store' = [store EXCEPT ![n].old = TRUE]
  /\ Spend("age")
  /\ UNCHANGED <<calls, inflight, slot>>

-----------------------------------------------------------------------------
(* Queries.                                                                *)

Drop(s, k)  == Pick(s, {n \in DOMAIN s : s[n].of # k})
Entry(k)    == CHOOSE n \in DOMAIN store : store[n].of = k
Holds(k)   == \E n \in DOMAIN store : store[n].of = k
Fresh(k)    == Holds(k) /\ ~store[Entry(k)].old

(* An answer that is kept, one that comes, or a process of one's own.      *)
Lookup(c) ==
  LET k == calls[c].of IN
  /\ Is(c, "look")
  /\ IF Fresh(k)
     THEN /\ store' = <<store[Entry(k)]>> \o Drop(store, k)
          /\ Finish(c, store[Entry(k)].result) /\ UNCHANGED inflight
     ELSE /\ store' = Drop(store, k)
          /\ IF inflight[k] # Nobody
             THEN /\ calls' = [calls EXCEPT ![c].pc = "wait", ![c].heard = calls[inflight[k]].heard]
                  /\ UNCHANGED inflight
             ELSE Become(c, "slot") /\ inflight' = [inflight EXCEPT ![k] = c]
  /\ UNCHANGED <<slot, left>>

(* A caller that has given up says so, whatever its query came to. *)
CallerEnded(c, result) == IF calls[c].ended /\ result # "found" /\ result # "empty"
                          THEN "cancelled" ELSE result

StopWaiting(c) ==
  /\ Is(c, "wait") /\ Ended(c)
  /\ Finish(c, CallerEnded(c, "timeout"))
  /\ UNCHANGED <<inflight, store, slot, left>>

(* What is worth keeping: something found, or what is wrong with the item. *)
Keeps(k, result) == result = "found" \/ (k \in Extract /\ result = "gone")

Stowed(k, result) ==
  LET others == Drop(store, k)
      valid  == Pick(others, {n \in DOMAIN others : ~others[n].old})
      room   == IF Len(others) < MaxEntries THEN others ELSE valid
      kept   == IF Len(room) < MaxEntries THEN room ELSE SubSeq(room, 1, MaxEntries - 1)
  IN <<[of |-> k, result |-> result, old |-> FALSE]>> \o kept

(* The end of the one that ran the query: those who wait take its answer,  *)
(* or look again if it stopped for a reason of its own.                    *)
Waiters(c) == {d \in Caller : Is(d, "wait") /\ calls[d].of = calls[c].of}

(* Mutant: those who wait take the answer of one that was given up. *)
MutSettle(c) ==
  LET k == calls[c].of
      abandoned == Ended(c)
      answer(d) == CallerEnded(d, calls[c].result)
  IN
  /\ Is(c, "settle")
  /\ inflight' = [inflight EXCEPT ![k] = Nobody]
  /\ store' = IF ~abandoned /\ Keeps(k, calls[c].result) THEN Stowed(k, calls[c].result) ELSE store
  /\ calls' = [d \in Caller |->
                 IF d = c THEN [calls[d] EXCEPT !.pc = "done", !.result = answer(d)]
                 ELSE IF d \notin Waiters(c) THEN calls[d]
                 ELSE [calls[d] EXCEPT !.pc = "done", !.result = answer(d)]]
  /\ UNCHANGED <<slot, left>>

Settle(c) ==
  LET k == calls[c].of
      abandoned == Ended(c)
      answer(d) == CallerEnded(d, calls[c].result)
  IN
  /\ Is(c, "settle")
  /\ inflight' = [inflight EXCEPT ![k] = Nobody]
  /\ store' = IF ~abandoned /\ Keeps(k, calls[c].result) THEN Stowed(k, calls[c].result) ELSE store
  /\ calls' = [d \in Caller |->
                 IF d = c THEN [calls[d] EXCEPT !.pc = "done", !.result = answer(d)]
                 ELSE IF d \notin Waiters(c) THEN calls[d]
                 ELSE IF abandoned /\ Ended(d)
                      THEN [calls[d] EXCEPT !.pc = "done", !.result = CallerEnded(d, "timeout")]
                 ELSE IF abandoned THEN [calls[d] EXCEPT !.pc = "look"]
                 ELSE [calls[d] EXCEPT !.pc = "done", !.result = answer(d)]]
  /\ UNCHANGED <<slot, left>>

-----------------------------------------------------------------------------
(* The process of a call.                                                  *)

Said(c, result) == IF Queries(c) THEN calls' = [calls EXCEPT ![c].pc = "settle", ![c].result = result]
                   ELSE Finish(c, result)
(* What a context that has ended makes of a call that still waits. *)
Stopped(c) == IF Queries(c) THEN "timeout" ELSE "cancelled"

(* The pace of the provider's requests, then the turn of the session. *)
TakeSlot(c) ==
  /\ Is(c, "slot")
  /\ \/ slot = Nobody /\ slot' = c /\ Become(c, "rate")
     \/ Ended(c) /\ Said(c, Stopped(c)) /\ UNCHANGED slot
  /\ UNCHANGED <<inflight, store, left>>

(* Mutant: a caller that gives up here keeps the turn of the session. *)
MutRate(c) ==
  /\ Is(c, "rate")
  /\ \/ Become(c, "start") /\ UNCHANGED slot
     \/ Ended(c) /\ Said(c, Stopped(c)) /\ UNCHANGED slot
  /\ UNCHANGED <<inflight, store, left>>

(* The rates of the family and of the session; the slot goes back first.   *)
Rate(c) ==
  /\ Is(c, "rate")
  /\ \/ Become(c, "start") /\ UNCHANGED slot
     \/ Ended(c) /\ Said(c, Stopped(c)) /\ slot' = Nobody
  /\ UNCHANGED <<inflight, store, left>>

(* A process is not started for a context that has ended, which looks like *)
(* a tool that cannot be started.                                          *)
Start(c) ==
  /\ Is(c, "start")
  /\ \/ ~Ended(c) /\ Become(c, "run") /\ UNCHANGED slot
     \/ Said(c, "tool") /\ slot' = Nobody
  /\ UNCHANGED <<inflight, store, left>>

Answers == {"found", "empty", "gone", "limited"}

(* A process that fails after its context has ended was stopped. *)
Answer(c) ==
  /\ Is(c, "run") /\ Queries(c)
  /\ \E r \in Answers :
       calls' = [d \in Caller |->
         IF d = c THEN [calls[c] EXCEPT !.pc = "settle", !.heard = @ \cup {r},
                          !.result = IF Ended(c) /\ r \in {"gone", "limited"} THEN "timeout" ELSE r]
         ELSE IF d \in Waiters(c) THEN [calls[d] EXCEPT !.heard = @ \cup {r}] ELSE calls[d]]
  /\ slot' = Nobody
  /\ UNCHANGED <<inflight, store, left>>

-----------------------------------------------------------------------------
(* Downloads.                                                              *)

(* An announced size over the budget is refused before anything moves.     *)
Open(c) ==
  /\ Is(c, "open")
  /\ IF Combined(c) /\ calls[c].of.announced > MaxBytes THEN Finish(c, "budget") ELSE Become(c, "slot")
  /\ UNCHANGED <<inflight, store, slot, left>>

(* The bytes as the process reports them, which may be late or never. *)
Progress(c) ==
  /\ Is(c, "run") /\ Combined(c) /\ calls[c].seen < calls[c].of.bytes
  /\ calls' = [calls EXCEPT ![c].seen = @ + 1, ![c].cut = calls[c].seen + 1 > MaxBytes]
  /\ UNCHANGED <<inflight, store, slot, left>>

(* The reason for which this server itself has stopped a transfer. *)
Classify(c, result) ==
  IF Combined(c) /\ ~calls[c].ended /\ calls[c].cut THEN "budget" ELSE result

(* refused: yt-dlp knows the size, and ends well without a file. *)
Transfer(c) ==
  /\ Is(c, "run") /\ Fetches(c)
  /\ \/ Become(c, "probe")
     \/ Combined(c) /\ calls[c].of.bytes > MaxBytes /\ Finish(c, Classify(c, "budget"))
     \/ Ended(c) /\ Finish(c, Classify(c, "cancelled"))
     \/ ~Ended(c) /\ calls[c].late /\ Finish(c, Classify(c, "budget"))
     \/ ~Ended(c) /\ ~calls[c].late /\ Finish(c, Classify(c, "failed"))
  /\ slot' = Nobody
  /\ UNCHANGED <<inflight, store, left>>

(* ffprobe, for a caller that may have gone, and what the file really is.  *)
Probe(c) ==
  LET s == calls[c].of IN
  /\ Is(c, "probe")
  /\ \/ Finish(c, "invalid")
     \/ IF Combined(c) /\ s.bytes > MaxBytes THEN Finish(c, "budget")
        ELSE IF s.video /\ ~Combined(c) THEN Finish(c, "invalid")
        ELSE Become(c, "convert")
  /\ UNCHANGED <<inflight, store, slot, left>>

(* Taking the audio out, changing the container or the codec, or nothing.  *)
Convert(c) ==
  /\ Is(c, "convert")
  /\ Become(c, "verify") \/ Finish(c, "failed")
  /\ UNCHANGED <<inflight, store, slot, left>>

(* The second look, and the file leaves the directory of the attempt. *)
Verify(c) ==
  /\ Is(c, "verify")
  /\ \/ Finish(c, "invalid")
     \/ calls[c].of.exact /\ Finish(c, "stored")
     \/ calls[c].of.exact /\ Finish(c, "failed")
  /\ UNCHANGED <<inflight, store, slot, left>>

-----------------------------------------------------------------------------

FetchInit ==
  /\ calls = [c \in Caller |-> Idle]
  /\ inflight = [k \in Query |-> Nobody]
  /\ store = << >> /\ slot = Nobody
  /\ left \in Budgets

Work(c) ==
  \/ Lookup(c) \/ StopWaiting(c) \/ Settle(c) \/ TakeSlot(c) \/ Rate(c) \/ Start(c)
  \/ Answer(c) \/ Open(c) \/ Transfer(c) \/ Probe(c) \/ Convert(c) \/ Verify(c) \/ Return(c)

FetchNext ==
  \/ \E c \in Caller : \/ Work(c) \/ GiveUp(c) \/ TimeOut(c) \/ Progress(c)
                       \/ \E q \in Query \cup Stream : Call(c, q)
  \/ \E n \in DOMAIN store : Age(n)

FetchSpec == FetchInit /\ [][FetchNext]_fetchVars

-----------------------------------------------------------------------------
(* Properties.                                                             *)

OwnEnd(c) ==
  Is(c, "done") =>
    /\ calls[c].result = "cancelled" => calls[c].ended
    /\ Queries(c) /\ calls[c].result = "timeout" => calls[c].late
    /\ Queries(c) /\ calls[c].result \in {"empty", "limited"} => calls[c].result \in calls[c].heard
    /\ Queries(c) /\ calls[c].result = "gone" =>
         "gone" \in calls[c].heard \/ calls[c].of \in Extract
    /\ calls[c].result = "stored" =>
         /\ calls[c].of.exact /\ (calls[c].of.video => Combined(c))
         /\ calls[c].of.combined /\ calls[c].of.video => calls[c].of.bytes <= MaxBytes

\* Nobody is told of another's end: a call is cancelled only if its own caller
\* gave up, and timed out only by its own clock; a failure that may pass is
\* never replayed from the store, nor is an empty answer (querycache.go:16-25);
\* a transfer that this server stops is never taken for a cancelled job
\* (combined.go, classify); and what is stored is the audio that was asked for,
\* within the budget.
OwnEnds == \A c \in Caller : OwnEnd(c)

\* Whoever waits waits for somebody who is at work: a query that others wait
\* for is being run by a caller who will settle it, and the slot of the session
\* is with a caller who is about to start a process or has one running
\* (querycache.go, lead; session.go, acquireExecution).
OwnersAtWork ==
  /\ \A c \in Caller : Is(c, "wait") => inflight[calls[c].of] # Nobody
  /\ \A k \in Query : inflight[k] # Nobody =>
       /\ calls[inflight[k]].pc \in {"slot", "rate", "start", "run", "settle"}
       /\ calls[inflight[k]].of = k
  /\ \A c \in Caller : Queries(c) /\ calls[c].pc \in {"slot", "rate", "start", "run", "settle"} =>
       inflight[calls[c].of] = c
  /\ slot # Nobody => calls[slot].pc \in {"rate", "start", "run"}
  /\ \A c \in Caller : calls[c].pc \in {"rate", "start", "run"} => slot = c
  /\ Len(store) <= MaxEntries /\ \A m, n \in DOMAIN store : store[m].of = store[n].of => m = n
=============================================================================
