-------------------------- MODULE ItemPipelineProofs --------------------------
(***************************************************************************)
(* For every number of items, recordings, downloads and failures: the      *)
(* catalogue names only files that are there, and an item that says so is  *)
(* stored.                                                                 *)
(***************************************************************************)
EXTENDS ItemPipeline, TLAPS

RunRow == [pc : Steps, at : Place \cup {Nowhere}]
Statuses == Waiting \cup Working \cup Terminal
Contents == {Absent, Nothing} \cup Audio
Settled == {"completed", "skipped"}

(* How an attempt ends: with a status of S or none stored, with the staged *)
(* audio or without; the library stays as it is.                           *)
Ends(i, S) ==
  /\ run' = [run EXCEPT ![i] = Resting]
  /\ finalizer' \in {finalizer, NoOne}
  /\ \/ UNCHANGED status
     \/ \E s \in S : status' = [status EXCEPT ![i] = s]
  /\ \/ UNCHANGED staging
     \/ \E a \in {Absent, Nothing} : staging' = [staging EXCEPT ![i] = a]
  /\ attempts' \in [Item -> Nat]
  /\ budget' \in Nat

-----------------------------------------------------------------------------
(* The ends of an attempt. *)

LEMMA SpendType ==
  ASSUME budget \in Nat, Spend
  PROVE  budget' \in Nat
  BY DEF Spend

LEMMA RestEnds ==
  ASSUME NEW i, Rest(i)
  PROVE  run' = [run EXCEPT ![i] = Resting] /\ finalizer' \in {finalizer, NoOne}
  BY DEF Rest

LEMMA FinishEnds ==
  ASSUME TypeOK, NEW i, NEW s, NEW S, s \in S, Finish(i, s)
  PROVE  Ends(i, S)
  BY RestEnds, SpendType DEF Finish, Ends, SetStatus, Stage, TypeOK

LEMMA RetryEnds ==
  ASSUME TypeOK, NEW i, NEW S, {"retry_wait", "failed"} \subseteq S, RetryOrFail(i)
  PROVE  Ends(i, S)
<1>1. CASE attempts[i] < MaxAttempts
  BY <1>1, RestEnds DEF RetryOrFail, Ends, SetStatus, TypeOK
<1>2. CASE ~(attempts[i] < MaxAttempts)
  BY <1>2, FinishEnds DEF RetryOrFail
<1> QED BY <1>1, <1>2

LEMMA StorageEnds ==
  ASSUME TypeOK, NEW i, NEW S, "waiting_storage" \in S, WaitForStorage(i)
  PROVE  Ends(i, S)
  BY RestEnds DEF WaitForStorage, Ends, SetStatus, TypeOK

LEMMA SessionEnds ==
  ASSUME TypeOK, NEW i \in Item, attempts[i] > 0, NEW S, "retry_wait" \in S,
         WaitForSession(i)
  PROVE  Ends(i, S)
<1>1. attempts[i] - 1 \in Nat
  BY DEF TypeOK
<1>2. attempts' \in [Item -> Nat]
  BY <1>1 DEF WaitForSession, TypeOK
<1> QED BY <1>2, RestEnds, SpendType DEF WaitForSession, Ends, SetStatus, TypeOK

LEMMA RestingType == Resting \in RunRow
  BY DEF Resting, RunRow, Steps

LEMMA ContentsType == Absent \in Contents /\ Nothing \in Contents
  BY DEF Contents

(* An end keeps the types.                                                *)
LEMMA EndType ==
  ASSUME TypeOK, NEW i \in Item, NEW S, S \subseteq Statuses, Ends(i, S),
         UNCHANGED <<disk, wants, writable, cancelled>>,
         row' \in [Place -> {Unknown} \cup Song]
  PROVE  TypeOK'
<1>1. run' \in [Item -> RunRow]
  BY RestingType DEF Ends, TypeOK, RunRow
<1>2. status' \in [Item -> Statuses]
  BY DEF Ends, TypeOK, Statuses
<1>3. staging' \in [Item -> Contents]
  BY ContentsType DEF Ends, TypeOK, Contents
<1>4. finalizer' \in Item \cup {NoOne}
  BY DEF Ends, TypeOK
<1> QED BY <1>1, <1>2, <1>3, <1>4 DEF Ends, TypeOK, RunRow, Statuses, Contents

-----------------------------------------------------------------------------
(* What a step of one item leaves true of all others. *)

Has(p, s) == disk[p] \in {s} \X Takes

(* The invariant of one item.                                              *)
ItemInv(i) ==
  /\ At(i, "resolve") => attempts[i] > 0
  /\ run[i].pc \in {"finalize", "place", "replace", "commit"} => staging[i] \in {wants[i]} \X Takes
  /\ At(i, "replace") => row[Usual(wants[i])] = wants[i]
  /\ At(i, "persist") => run[i].at \in Place /\ Has(run[i].at, wants[i])
  /\ run[i].pc \in {"clean", "complete"} => Stored(wants[i])
  /\ status[i] \in Settled => Stored(wants[i])

LEMMA InvIsLocal == PipelineInv <=> RowsAreTrue /\ \A i \in Item : ItemInv(i)
  BY DEF PipelineInv, ItemInv, AttemptCounted, StagedIsWanted, ReplacesItsOwn, PlacedIsThere,
         PersistedIsStored, SettledIsStored, Settled, Has

(* What is in the library and in the catalogue stays.                      *)
LibraryGrows ==
  \A p \in Place : \A s \in Song :
    /\ Has(p, s) => Has(p, s)'
    /\ row[p] = s => row'[p] = s

Steady(i) ==
  /\ LibraryGrows
  /\ UNCHANGED wants
  /\ \A k \in Item \ {i} : /\ run'[k] = run[k] /\ staging'[k] = staging[k]
                           /\ status'[k] = status[k] /\ attempts'[k] = attempts[k]

LEMMA StoredStays ==
  ASSUME LibraryGrows, NEW s \in Song, Stored(s)
  PROVE  Stored(s)'
  BY DEF Stored, LibraryGrows

LEMMA UsualIsPlace ==
  ASSUME NEW s \in Song
  PROVE  Usual(s) \in Place /\ Alternative(s) \in Place
  BY DEF Usual, Alternative, Place, Name

LEMMA OthersSafe ==
  ASSUME TypeOK, NEW i, Steady(i), NEW k \in Item \ {i}, ItemInv(k)
  PROVE  ItemInv(k)'
<1>1. wants[k] \in Song /\ wants' = wants
  BY DEF TypeOK, Steady
<1>2. Usual(wants[k]) \in Place
  BY <1>1, UsualIsPlace
<1>3. Stored(wants[k]) => Stored(wants[k])'
  BY <1>1, StoredStays DEF Steady, Stored
<1>4. row[Usual(wants[k])] = wants[k] => row'[Usual(wants[k])] = wants[k]
  BY <1>1, <1>2 DEF Steady, LibraryGrows
<1>5. \A p \in Place : Has(p, wants[k]) => Has(p, wants[k])'
  BY <1>1 DEF Steady, LibraryGrows, Has
<1> QED BY <1>1, <1>3, <1>4, <1>5 DEF ItemInv, Steady, At, Usual, Has

LEMMA StepSafe ==
  ASSUME TypeOK, PipelineInv, NEW i \in Item, Steady(i), RowsAreTrue', ItemInv(i)'
  PROVE  PipelineInv'
<1>1. \A k \in Item : ItemInv(k)'
  BY OthersSafe, InvIsLocal
<1> QED
  BY <1>1 DEF PipelineInv, ItemInv, AttemptCounted, StagedIsWanted, ReplacesItsOwn,
              PlacedIsThere, PersistedIsStored, SettledIsStored, Settled, Has

LEMMA SameLibrary ==
  ASSUME UNCHANGED <<disk, row>>
  PROVE  LibraryGrows /\ (RowsAreTrue => RowsAreTrue')
  BY DEF LibraryGrows, Has, RowsAreTrue

(* An end keeps the invariant, if what says so is stored.                  *)
LEMMA EndSafe ==
  ASSUME TypeOK, PipelineInv, NEW i \in Item, NEW S, Ends(i, S),
         LibraryGrows, RowsAreTrue', UNCHANGED wants,
         S \cap Settled = {} \/ Stored(wants[i]),
         \A k \in Item \ {i} : attempts'[k] = attempts[k]
  PROVE  PipelineInv'
<1>1. Steady(i)
  BY DEF Steady, Ends, TypeOK
<1>2. run'[i].pc = "rest"
  BY DEF Ends, TypeOK, Resting
<1>3. status'[i] \in Settled => Stored(wants[i])
  <2>1. CASE status'[i] = status[i]
    BY <2>1, InvIsLocal DEF ItemInv
  <2>2. CASE status'[i] # status[i]
    BY <2>2 DEF Ends, TypeOK
  <2> QED BY <2>1, <2>2
<1>4. Stored(wants[i]) => Stored(wants[i])'
  BY StoredStays DEF TypeOK, Stored
<1>5. ItemInv(i)'
  BY <1>2, <1>3, <1>4 DEF ItemInv, At, Stored
<1> QED BY <1>1, <1>5, StepSafe

-----------------------------------------------------------------------------
(* The steps of an attempt.  Inductive is IInv. *)

IInv == TypeOK /\ PipelineInv

Elsewhere == UNCHANGED <<wants, writable, cancelled>>

LEMMA EndInv ==
  ASSUME IInv, NEW i \in Item, NEW S, S \subseteq Statuses, Ends(i, S),
         UNCHANGED <<disk, row>>, Elsewhere,
         S \cap Settled = {} \/ Stored(wants[i]),
         \A k \in Item \ {i} : attempts'[k] = attempts[k]
  PROVE  IInv'
<1>1. TypeOK'
  BY EndType DEF IInv, Elsewhere, TypeOK
<1>2. PipelineInv'
  BY EndSafe, SameLibrary, InvIsLocal DEF IInv, Elsewhere
<1> QED BY <1>1, <1>2 DEF IInv

(* The statuses an attempt may end with without a recording.               *)
Unsettled == Statuses \ Settled

LEMMA UnsettledNames ==
  {"cancelled", "failed", "retry_wait", "waiting_storage"} \subseteq Unsettled
  BY DEF Unsettled, Statuses, Settled, Waiting, Working, Terminal

LEMMA EndUnsettled ==
  ASSUME IInv, NEW i \in Item, Ends(i, Unsettled), UNCHANGED <<disk, row>>, Elsewhere,
         \A k \in Item \ {i} : attempts'[k] = attempts[k]
  PROVE  IInv'
  BY EndInv DEF Unsettled, Settled

LEMMA FinishInv ==
  ASSUME IInv, NEW i \in Item, NEW s \in {"cancelled", "failed"}, Finish(i, s),
         UNCHANGED <<disk, row>>, Elsewhere
  PROVE  IInv'
<1>1. Ends(i, Unsettled)
  BY FinishEnds, UnsettledNames DEF IInv
<1> QED BY <1>1, EndUnsettled DEF Finish

LEMMA RetryInv ==
  ASSUME IInv, NEW i \in Item, RetryOrFail(i), UNCHANGED <<disk, row>>, Elsewhere
  PROVE  IInv'
<1>1. Ends(i, Unsettled)
  BY RetryEnds, UnsettledNames DEF IInv
<1>2. attempts' = attempts
  BY DEF RetryOrFail, Finish
<1> QED BY <1>1, <1>2, EndUnsettled

LEMMA StorageInv ==
  ASSUME IInv, NEW i \in Item, WaitForStorage(i), UNCHANGED <<disk, row>>, Elsewhere
  PROVE  IInv'
<1>1. Ends(i, Unsettled)
  BY StorageEnds, UnsettledNames DEF IInv
<1> QED BY <1>1, EndUnsettled DEF WaitForStorage

LEMMA SessionInv ==
  ASSUME IInv, NEW i \in Item, At(i, "resolve"), WaitForSession(i),
         UNCHANGED <<disk, row>>, Elsewhere
  PROVE  IInv'
<1>1. attempts[i] > 0
  BY DEF IInv, PipelineInv, AttemptCounted
<1>2. Ends(i, Unsettled)
  BY <1>1, SessionEnds, UnsettledNames DEF IInv
<1>3. \A k \in Item \ {i} : attempts'[k] = attempts[k]
  BY DEF WaitForSession, IInv, TypeOK
<1> QED BY <1>2, <1>3, EndUnsettled

(* A step from one point of an attempt to the next.                        *)
LEMMA GotoMoves ==
  ASSUME IInv, NEW i \in Item, NEW pc \in Steps, Goto(i, pc)
  PROVE  /\ run' \in [Item -> RunRow] /\ run'[i].pc = pc
         /\ \A k \in Item \ {i} : run'[k] = run[k]
  BY DEF IInv, TypeOK, RunRow, Goto

LEMMA StatusMoves ==
  ASSUME IInv, NEW i \in Item, NEW s \in Statuses, SetStatus(i, s)
  PROVE  /\ status' \in [Item -> Statuses] /\ status'[i] = s
         /\ \A k \in Item \ {i} : status'[k] = status[k]
  BY DEF IInv, TypeOK, Statuses, SetStatus

LEMMA StageMoves ==
  ASSUME IInv, NEW i \in Item, NEW a \in Contents, Stage(i, a)
  PROVE  /\ staging' \in [Item -> Contents] /\ staging'[i] = a
         /\ \A k \in Item \ {i} : staging'[k] = staging[k]
  BY DEF IInv, TypeOK, Contents, Stage

LEMMA Unmoved ==
  ASSUME IInv
  PROVE  /\ status \in [Item -> Statuses] /\ staging \in [Item -> Contents]
         /\ attempts \in [Item -> Nat] /\ run \in [Item -> RunRow]
         /\ finalizer \in Item \cup {NoOne} /\ budget \in Nat
  BY DEF IInv, TypeOK, Statuses, Contents, RunRow

Moved(i) ==
  /\ run' \in [Item -> RunRow] /\ status' \in [Item -> Statuses]
  /\ staging' \in [Item -> Contents] /\ attempts' \in [Item -> Nat]
  /\ finalizer' \in Item \cup {NoOne} /\ budget' \in Nat
  /\ \A k \in Item \ {i} : /\ run'[k] = run[k] /\ staging'[k] = staging[k]
                           /\ status'[k] = status[k] /\ attempts'[k] = attempts[k]

LEMMA MoveInv ==
  ASSUME IInv, NEW i \in Item, Moved(i), Elsewhere,
         disk' \in [Place -> {Nothing} \cup Audio], row' \in [Place -> {Unknown} \cup Song],
         LibraryGrows, RowsAreTrue',
         status'[i] \in Settled => status'[i] = status[i],
         run'[i].pc = "resolve" => attempts'[i] > 0,
         run'[i].pc \in {"finalize", "place", "replace", "commit"} =>
           staging'[i] \in {wants[i]} \X Takes,
         run'[i].pc = "replace" => row'[Usual(wants[i])] = wants[i],
         run'[i].pc = "persist" =>
           run'[i].at \in Place /\ disk'[run'[i].at] \in {wants[i]} \X Takes,
         run'[i].pc \in {"clean", "complete"} => Stored(wants[i])'
  PROVE  IInv'
<1>1. TypeOK'
  BY DEF IInv, Moved, Elsewhere, TypeOK, RunRow, Statuses, Contents
<1>2. Steady(i)
  BY DEF Steady, Moved, Elsewhere
<1>3. ItemInv(i)'
  <2>1. status'[i] \in Settled => Stored(wants[i])
    BY InvIsLocal DEF IInv, ItemInv
  <2>2. Stored(wants[i]) => Stored(wants[i])'
    BY StoredStays DEF IInv, TypeOK, Stored, Elsewhere
  <2> QED BY <2>1, <2>2 DEF ItemInv, At, Usual, Stored, Elsewhere, Has
<1> QED BY <1>1, <1>2, <1>3, StepSafe DEF IInv

LEMMA QuietMoveInv ==
  ASSUME IInv, NEW i \in Item, Moved(i), Elsewhere, UNCHANGED <<disk, row>>,
         status'[i] \in Settled => status'[i] = status[i],
         run'[i].pc = "resolve" => attempts'[i] > 0,
         run'[i].pc \in {"finalize", "place", "replace", "commit"} =>
           staging'[i] \in {wants[i]} \X Takes,
         run'[i].pc = "replace" => row[Usual(wants[i])] = wants[i],
         run'[i].pc # "persist",
         run'[i].pc \in {"clean", "complete"} => Stored(wants[i])
  PROVE  IInv'
  BY MoveInv, SameLibrary, InvIsLocal DEF IInv, TypeOK, Stored, Elsewhere

LEMMA CheckInv ==
  ASSUME IInv, NEW i \in Item, Check(i)
  PROVE  IInv'
<1>1. UNCHANGED <<disk, row>> /\ Elsewhere
  BY DEF Check, Library, Outside, Elsewhere
<1>2. CASE i \in cancelled
  BY <1>1, <1>2, FinishInv DEF Check, Cancel
<1>3. CASE i \in Skipping /\ AlreadyInLibrary(wants[i]) /\ Finish(i, "skipped")
  <2>1. Stored(wants[i])
    BY <1>3 DEF AlreadyInLibrary, Stored
  <2>2. Ends(i, Statuses)
    BY <1>3, FinishEnds DEF IInv, Statuses, Terminal
  <2>3. attempts' = attempts
    BY <1>3 DEF Finish
  <2> QED BY <1>1, <2>1, <2>2, <2>3, EndInv
<1>4. CASE WaitForStorage(i)
  BY <1>1, <1>4, StorageInv
<1>5. CASE /\ Stage(i, IF staging[i] = Absent THEN Nothing ELSE staging[i])
           /\ SetStatus(i, "matching")
           /\ attempts' = [attempts EXCEPT ![i] = @ + 1]
           /\ Goto(i, "resolve")
           /\ UNCHANGED <<finalizer, budget>>
  <2>1. /\ "resolve" \in Steps
        /\ "matching" \in Statuses \ Settled
        /\ (IF staging[i] = Absent THEN Nothing ELSE staging[i]) \in Contents
    BY Unmoved, ContentsType DEF Steps, Statuses, Working, Settled
  <2>2. /\ attempts' \in [Item -> Nat] /\ attempts'[i] > 0
        /\ \A k \in Item \ {i} : attempts'[k] = attempts[k]
    BY <1>5, Unmoved
  <2>3. Moved(i) /\ run'[i].pc = "resolve" /\ status'[i] = "matching"
    BY <1>5, <2>1, <2>2, Unmoved, GotoMoves, StatusMoves, StageMoves DEF Moved
  <2> QED BY <1>1, <2>1, <2>2, <2>3, QuietMoveInv
<1> QED BY <1>2, <1>3, <1>4, <1>5 DEF Check

LEMMA ResolveInv ==
  ASSUME IInv, NEW i \in Item, Resolve(i)
  PROVE  IInv'
<1>1. UNCHANGED <<disk, row>> /\ Elsewhere
  BY DEF Resolve, Library, Outside, Elsewhere
<1>2. CASE /\ SetStatus(i, "downloading") /\ Goto(i, "download")
           /\ UNCHANGED <<attempts, staging, finalizer, budget>>
  <2>1. "download" \in Steps /\ "downloading" \in Statuses \ Settled
    BY DEF Steps, Statuses, Working, Settled
  <2>2. Moved(i) /\ run'[i].pc = "download" /\ status'[i] = "downloading"
    BY <1>2, <2>1, Unmoved, GotoMoves, StatusMoves DEF Moved
  <2> QED BY <1>1, <2>1, <2>2, QuietMoveInv
<1>3. CASE Cancel(i) \/ Finish(i, "failed")
  BY <1>1, <1>3, FinishInv DEF Cancel
<1>4. CASE WaitForSession(i)
  BY <1>1, <1>4, SessionInv DEF Resolve
<1>5. CASE RetryOrFail(i)
  BY <1>1, <1>5, RetryInv
<1> QED BY <1>2, <1>3, <1>4, <1>5 DEF Resolve

LEMMA DownloadInv ==
  ASSUME IInv, NEW i \in Item, Download(i)
  PROVE  IInv'
<1>1. UNCHANGED <<disk, row>> /\ Elsewhere
  BY DEF Download, Library, Outside, Elsewhere
<1>2. CASE \E t \in Takes : /\ Stage(i, <<wants[i], t>>)
                            /\ SetStatus(i, "tagging") /\ Goto(i, "finalize")
                            /\ UNCHANGED <<attempts, finalizer, budget>>
  <2>1. PICK t \in Takes : /\ Stage(i, <<wants[i], t>>)
                           /\ SetStatus(i, "tagging") /\ Goto(i, "finalize")
                           /\ UNCHANGED <<attempts, finalizer, budget>>
    BY <1>2
  <2>2. "finalize" \in Steps /\ "tagging" \in Statuses \ Settled
    BY DEF Steps, Statuses, Working, Settled
  <2>3. <<wants[i], t>> \in Contents /\ <<wants[i], t>> \in {wants[i]} \X Takes
    BY DEF Contents, Audio, IInv, TypeOK
  <2>4. /\ Moved(i) /\ run'[i].pc = "finalize" /\ status'[i] = "tagging"
        /\ staging'[i] = <<wants[i], t>>
    BY <2>1, <2>2, <2>3, Unmoved, GotoMoves, StatusMoves, StageMoves DEF Moved
  <2> QED BY <1>1, <2>2, <2>3, <2>4, QuietMoveInv
<1>3. CASE Cancel(i)
  BY <1>1, <1>3, FinishInv DEF Cancel
<1>4. CASE Stage(i, Nothing) /\ Rest(i) /\ SetStatus(i, "retry_wait")
           /\ UNCHANGED <<attempts, budget>>
  <2>1. Ends(i, Unsettled)
    BY <1>4, RestEnds, UnsettledNames DEF Ends, Stage, SetStatus, IInv, TypeOK
  <2> QED BY <1>1, <1>4, <2>1, EndUnsettled
<1>5. CASE RetryOrFail(i)
  BY <1>1, <1>5, RetryInv
<1> QED BY <1>2, <1>3, <1>4, <1>5 DEF Download

LEMMA FinalizeInv ==
  ASSUME IInv, NEW i \in Item, Finalize(i)
  PROVE  IInv'
<1>1. UNCHANGED <<disk, row>> /\ Elsewhere
  BY DEF Finalize, Library, Outside, Elsewhere
<1>2. CASE Cancel(i)
  BY <1>1, <1>2, FinishInv DEF Cancel
<1>3. CASE WaitForStorage(i)
  BY <1>1, <1>3, StorageInv
<1>4. CASE finalizer' = i /\ SetStatus(i, "finalizing") /\ Goto(i, "place")
           /\ UNCHANGED <<attempts, staging, budget>>
  <2>1. "place" \in Steps /\ "finalizing" \in Statuses \ Settled
    BY DEF Steps, Statuses, Working, Settled
  <2>2. staging[i] \in {wants[i]} \X Takes
    BY InvIsLocal DEF IInv, ItemInv, Finalize, At
  <2>3. Moved(i) /\ run'[i].pc = "place" /\ status'[i] = "finalizing"
    BY <1>4, <2>1, Unmoved, GotoMoves, StatusMoves DEF Moved
  <2> QED BY <1>1, <1>4, <2>1, <2>2, <2>3, QuietMoveInv
<1> QED BY <1>2, <1>3, <1>4 DEF Finalize, Broken

LEMMA PlaceInv ==
  ASSUME IInv, NEW i \in Item, PlaceSafe(i)
  PROVE  IInv'
<1>1. UNCHANGED <<disk, row>> /\ Elsewhere
  BY DEF PlaceSafe, Library, Outside, Elsewhere
<1>2. ASSUME NEW pc \in {"replace", "commit"}, Goto(i, pc),
             pc = "replace" => OwnsTarget(i),
             UNCHANGED <<status, attempts, staging, finalizer, budget>>
      PROVE  IInv'
  <2>1. pc \in Steps
    BY DEF Steps
  <2>2. staging[i] \in {wants[i]} \X Takes
    BY InvIsLocal DEF IInv, ItemInv, PlaceSafe, At
  <2>3. Moved(i) /\ run'[i].pc = pc
    BY <1>2, <2>1, Unmoved, GotoMoves DEF Moved
  <2> QED BY <1>1, <1>2, <2>1, <2>2, <2>3, QuietMoveInv DEF OwnsTarget
<1>3. CASE Spend /\ Rest(i) /\ SetStatus(i, IF i \in cancelled THEN "cancelled" ELSE "failed")
           /\ Stage(i, Absent) /\ UNCHANGED attempts
  <2>1. Ends(i, Unsettled)
    BY <1>3, RestEnds, SpendType, UnsettledNames DEF Ends, Stage, SetStatus, IInv, TypeOK
  <2> QED BY <1>1, <1>3, <2>1, EndUnsettled
<1> QED BY <1>2, <1>3 DEF PlaceSafe

(* The library takes a recording where nothing or the same one is.         *)
LEMMA Written ==
  ASSUME IInv, NEW i \in Item, NEW p \in Place, NEW a \in {wants[i]} \X Takes,
         disk' = [disk EXCEPT ![p] = a], UNCHANGED row,
         disk[p] = Nothing \/ disk[p] \in {wants[i]} \X Takes
  PROVE  /\ disk' \in [Place -> {Nothing} \cup Audio] /\ disk'[p] = a
         /\ LibraryGrows /\ RowsAreTrue'
<1>1. wants[i] \in Song
  BY DEF IInv, TypeOK
<1>2. disk' \in [Place -> {Nothing} \cup Audio] /\ disk'[p] = a
  BY <1>1 DEF IInv, TypeOK, Audio
<1>3. \A q \in Place : \A s \in Song : disk[q] \in {s} \X Takes => disk'[q] \in {s} \X Takes
  <2> SUFFICES ASSUME NEW s \in Song, disk[p] \in {s} \X Takes
               PROVE  s = wants[i]
    BY DEF IInv, TypeOK
  <2> QED BY ItemPipelineAssumption DEF Nothing
<1>4. RowsAreTrue'
  BY <1>3 DEF IInv, PipelineInv, RowsAreTrue, TypeOK
<1> QED BY <1>2, <1>3, <1>4 DEF LibraryGrows, Has

(* The catalogue takes the name of a recording that is there.              *)
LEMMA Registered ==
  ASSUME IInv, NEW i \in Item, At(i, "persist"), UNCHANGED <<disk, wants>>,
         row' = [row EXCEPT ![Target(i)] = wants[i]]
  PROVE  /\ row' \in [Place -> {Unknown} \cup Song] /\ Stored(wants[i])'
         /\ LibraryGrows /\ RowsAreTrue'
<1>1. wants[i] \in Song
  BY DEF IInv, TypeOK
<1>2. Target(i) \in Place /\ disk[Target(i)] \in {wants[i]} \X Takes
  BY InvIsLocal DEF IInv, ItemInv, Has, Target
<1>3. row' \in [Place -> {Unknown} \cup Song] /\ row'[Target(i)] = wants[i]
  BY <1>1, <1>2 DEF IInv, TypeOK
<1>4. \E q \in Place : row'[q] = wants[i]
  BY <1>2, <1>3
<1>5. Stored(wants[i])'
  BY <1>4 DEF Stored
<1>6. \A q \in Place : \A s \in Song : row[q] = s => row'[q] = s
  <2> SUFFICES ASSUME NEW s \in Song, row[Target(i)] = s
               PROVE  s = wants[i]
    BY DEF IInv, TypeOK
  <2>1. disk[Target(i)] \in {s} \X Takes
    BY <1>2, ItemPipelineAssumption DEF IInv, PipelineInv, RowsAreTrue, Unknown
  <2> QED BY <1>2, <2>1
<1>7. RowsAreTrue'
  BY <1>2, <1>3 DEF IInv, PipelineInv, RowsAreTrue, TypeOK
<1> QED BY <1>3, <1>5, <1>6, <1>7 DEF LibraryGrows, Has

LEMMA PlaceAtMoves ==
  ASSUME IInv, NEW i \in Item, NEW p \in Place, PlaceAt(i, p)
  PROVE  /\ run' \in [Item -> RunRow] /\ run'[i].pc = "persist" /\ run'[i].at = p
         /\ \A k \in Item \ {i} : run'[k] = run[k]
<1>1. [pc |-> "persist", at |-> p] \in RunRow
  BY DEF RunRow, Steps
<1> QED BY <1>1 DEF PlaceAt, IInv, TypeOK, RunRow

LEMMA ReplaceInv ==
  ASSUME IInv, NEW i \in Item, Replace(i)
  PROVE  IInv'
<1>1. UNCHANGED row /\ Elsewhere
  BY DEF Replace, Outside, Elsewhere
<1>2. CASE ~writable
  BY <1>1, <1>2, FinishInv, StorageInv DEF Replace, Broken, Cancel
<1>3. CASE writable
  <2> DEFINE p == Usual(wants[i])
  <2>1. /\ disk' = [disk EXCEPT ![p] = staging[i]] /\ Stage(i, Nothing)
        /\ PlaceAt(i, p) /\ UNCHANGED <<status, attempts, finalizer, budget>>
    BY <1>3 DEF Replace
  <2>2. p \in Place /\ wants[i] \in Song
    BY UsualIsPlace DEF IInv, TypeOK
  <2>3. staging[i] \in {wants[i]} \X Takes /\ row[p] = wants[i]
    BY InvIsLocal DEF IInv, ItemInv, Replace, At
  <2>4. disk[p] \in {wants[i]} \X Takes
    BY <2>2, <2>3, ItemPipelineAssumption DEF IInv, PipelineInv, RowsAreTrue, Unknown
  <2>5. /\ disk' \in [Place -> {Nothing} \cup Audio] /\ disk'[p] = staging[i]
        /\ LibraryGrows /\ RowsAreTrue'
    BY <1>1, <2>1, <2>2, <2>3, <2>4, Written
  <2>6. Moved(i) /\ run'[i].pc = "persist" /\ run'[i].at = p
    BY <2>1, <2>2, PlaceAtMoves, StageMoves, ContentsType, Unmoved DEF Moved
  <2>7. row' \in [Place -> {Unknown} \cup Song]
    BY <1>1 DEF IInv, TypeOK
  <2> QED BY <1>1, <2>1, <2>2, <2>3, <2>5, <2>6, <2>7, MoveInv
<1> QED BY <1>2, <1>3

LEMMA CommitInv ==
  ASSUME IInv, NEW i \in Item, CommitRecording(i)
  PROVE  IInv'
<1>1. UNCHANGED row /\ Elsewhere
  BY DEF CommitRecording, Outside, Elsewhere
<1> DEFINE s == wants[i]
           p == IF Fits(i, Usual(s)) THEN Usual(s) ELSE Alternative(s)
<1>2. CASE /\ ~(writable /\ Fits(i, p)) /\ UNCHANGED disk
           /\ Broken(i, Finish(i, "failed")) \/ Broken(i, WaitForStorage(i))
  BY <1>1, <1>2, FinishInv, StorageInv DEF Broken, Cancel
<1>3. CASE writable /\ Fits(i, p) /\ disk' = [disk EXCEPT ![p] = staging[i]]
           /\ PlaceAt(i, p) /\ UNCHANGED <<status, attempts, staging, finalizer, budget>>
  <2>1. p \in Place
    BY UsualIsPlace DEF IInv, TypeOK
  <2>2. staging[i] \in {wants[i]} \X Takes
    BY InvIsLocal DEF IInv, ItemInv, CommitRecording, At
  <2>3. disk[p] = Nothing \/ disk[p] \in {wants[i]} \X Takes
    BY <1>3, <2>2 DEF Fits
  <2> HIDE DEF p
  <2>4. /\ disk' \in [Place -> {Nothing} \cup Audio] /\ disk'[p] = staging[i]
        /\ LibraryGrows /\ RowsAreTrue'
    BY <1>1, <1>3, <2>1, <2>2, <2>3, Written
  <2>5. Moved(i) /\ run'[i].pc = "persist" /\ run'[i].at = p
    BY <1>3, <2>1, PlaceAtMoves, Unmoved DEF Moved
  <2>6. row' \in [Place -> {Unknown} \cup Song]
    BY <1>1 DEF IInv, TypeOK
  <2> QED BY <1>1, <1>3, <2>1, <2>2, <2>4, <2>5, <2>6, MoveInv
<1> QED BY <1>2, <1>3 DEF CommitRecording

LEMMA PersistInv ==
  ASSUME IInv, NEW i \in Item, Persist(i)
  PROVE  IInv'
<1>1. UNCHANGED disk /\ Elsewhere /\ At(i, "persist")
  BY DEF Persist, Outside, Elsewhere
<1>2. CASE /\ row' = [row EXCEPT ![Target(i)] = wants[i]] /\ Goto(i, "clean")
           /\ UNCHANGED <<status, attempts, staging, finalizer, budget>>
  <2>1. /\ row' \in [Place -> {Unknown} \cup Song] /\ Stored(wants[i])'
        /\ LibraryGrows /\ RowsAreTrue'
    BY <1>1, <1>2, Registered DEF Elsewhere
  <2>2. "clean" \in Steps
    BY DEF Steps
  <2>3. Moved(i) /\ run'[i].pc = "clean"
    BY <1>2, <2>2, GotoMoves, Unmoved DEF Moved
  <2>4. disk' \in [Place -> {Nothing} \cup Audio]
    BY <1>1 DEF IInv, TypeOK
  <2> QED BY <1>1, <1>2, <2>1, <2>3, <2>4, MoveInv
<1>3. CASE /\ row' = [row EXCEPT ![Target(i)] = wants[i]] \/ UNCHANGED row
           /\ Spend /\ Rest(i) /\ Stage(i, Absent) /\ UNCHANGED attempts
           /\ SetStatus(i, IF i \in cancelled THEN "cancelled" ELSE "failed")
  <2>1. row' \in [Place -> {Unknown} \cup Song] /\ LibraryGrows /\ RowsAreTrue'
    BY <1>1, <1>3, Registered, SameLibrary, InvIsLocal DEF IInv, TypeOK, Elsewhere
  <2>2. Ends(i, Unsettled)
    BY <1>3, RestEnds, SpendType, UnsettledNames DEF Ends, Stage, SetStatus, IInv, TypeOK
  <2>3. TypeOK'
    BY <1>1, <2>1, <2>2, EndType DEF IInv, Elsewhere, Unsettled
  <2>4. PipelineInv'
    BY <1>1, <1>3, <2>1, <2>2, EndSafe DEF IInv, Elsewhere, Unsettled
  <2> QED BY <2>3, <2>4 DEF IInv
<1> QED BY <1>2, <1>3 DEF Persist

LEMMA CleanupInv ==
  ASSUME IInv, NEW i \in Item, CleanupItem(i)
  PROVE  IInv'
<1>1. UNCHANGED <<disk, row>> /\ Elsewhere
  BY DEF CleanupItem, Library, Outside, Elsewhere
<1>2. "complete" \in Steps
  BY DEF Steps
<1>3. Stored(wants[i])
  BY InvIsLocal DEF IInv, ItemInv, CleanupItem, At
<1>4. Moved(i) /\ run'[i].pc = "complete" /\ status'[i] = status[i]
  BY <1>2, GotoMoves, StageMoves, ContentsType, Unmoved DEF Moved, CleanupItem
<1> QED BY <1>1, <1>3, <1>4, QuietMoveInv

LEMMA CompleteInv ==
  ASSUME IInv, NEW i \in Item, Complete(i)
  PROVE  IInv'
<1>1. UNCHANGED <<disk, row>> /\ Elsewhere
  BY DEF Complete, Library, Outside, Elsewhere
<1>2. CASE i \in cancelled
  BY <1>1, <1>2, FinishInv DEF Complete, Cancel
<1>3. CASE i \notin cancelled
  <2>1. Stored(wants[i])
    BY InvIsLocal DEF IInv, ItemInv, Complete, At
  <2>2. Ends(i, Statuses) /\ attempts' = attempts
    BY <1>3, RestEnds, SpendType
       DEF Complete, Ends, SetStatus, Statuses, Terminal, IInv, TypeOK
  <2> QED BY <1>1, <2>1, <2>2, EndInv
<1> QED BY <1>2, <1>3

-----------------------------------------------------------------------------
(* The world around, and the theorems. *)

(* Nothing moves but the flags of the world.                               *)
LEMMA WorldInv ==
  ASSUME IInv, UNCHANGED <<wants, status, attempts, staging, disk, row, run, finalizer>>,
         writable' \in BOOLEAN, cancelled' \subseteq Item, budget' \in Nat
  PROVE  IInv'
<1>1. TypeOK'
  BY DEF IInv, TypeOK
<1>2. PipelineInv'
  BY DEF IInv, PipelineInv, AttemptCounted, StagedIsWanted, ReplacesItsOwn, PlacedIsThere,
         PersistedIsStored, RowsAreTrue, SettledIsStored, Stored, At
<1> QED BY <1>1, <1>2 DEF IInv

LEMMA RetryItemInv ==
  ASSUME IInv, NEW i \in Item, RetryItem(i)
  PROVE  IInv'
<1>1. UNCHANGED <<disk, row>> /\ Elsewhere
  BY DEF RetryItem, Library, Outside, Elsewhere
<1>2. "queued" \in Statuses \ Settled
  BY DEF Statuses, Settled, Waiting
<1>3. /\ attempts' \in [Item -> Nat]
      /\ \A k \in Item \ {i} : attempts'[k] = attempts[k]
  BY Unmoved DEF RetryItem
<1>4. Moved(i) /\ status'[i] = "queued" /\ run' = run
  BY <1>2, <1>3, StatusMoves, SpendType, Unmoved DEF Moved, RetryItem
<1>5. run'[i].pc = "rest"
  BY <1>4 DEF RetryItem, At
<1> QED BY <1>1, <1>2, <1>4, <1>5, QuietMoveInv

LEMMA RestartInv ==
  ASSUME IInv, Restart
  PROVE  IInv'
<1>1. UNCHANGED <<disk, row, attempts>> /\ Elsewhere /\ budget' \in Nat
  BY SpendType DEF Restart, Library, Outside, Elsewhere, IInv, TypeOK
<1>2. \A k \in Item : run'[k].pc = "rest"
  BY DEF Restart, Resting
<1>3. \A k \in Item : Recovered(status[k]) \in Statuses
                     /\ (Recovered(status[k]) \in Settled => status[k] \in Settled)
  BY Unmoved DEF Recovered, Statuses, Settled, Waiting
<1>4. status' \in [Item -> Statuses]
  BY <1>3 DEF Restart
<1>5. staging' \in [Item -> Contents]
  BY ContentsType, Unmoved DEF Restart
<1>6. run' \in [Item -> RunRow] /\ finalizer' \in Item \cup {NoOne}
  BY RestingType DEF Restart
<1>7. TypeOK'
  BY <1>1, <1>4, <1>5, <1>6
     DEF IInv, TypeOK, Elsewhere, Statuses, Contents, RunRow
<1>8. \A k \in Item : status'[k] \in Settled => Stored(wants[k])
  BY <1>3, InvIsLocal DEF Restart, IInv, ItemInv
<1>9. \A k \in Item : ItemInv(k)'
  BY <1>1, <1>2, <1>8 DEF ItemInv, At, Stored, Elsewhere
<1>10. RowsAreTrue'
  BY <1>1, SameLibrary, InvIsLocal DEF IInv
<1>11. PipelineInv'
  BY <1>9, <1>10
     DEF PipelineInv, ItemInv, AttemptCounted, StagedIsWanted, ReplacesItsOwn,
         PlacedIsThere, PersistedIsStored, SettledIsStored, Settled, Has
<1> QED BY <1>7, <1>11 DEF IInv

LEMMA InitInv == Init => IInv
<1> SUFFICES ASSUME Init PROVE IInv
  OBVIOUS
<1>1. TypeOK
  BY RestingType, ItemPipelineAssumption DEF Init, TypeOK, Waiting, RunRow
<1>2. PipelineInv
  BY DEF Init, PipelineInv, AttemptCounted, StagedIsWanted, ReplacesItsOwn, PlacedIsThere,
         PersistedIsStored, RowsAreTrue, SettledIsStored, At, Resting
<1> QED BY <1>1, <1>2 DEF IInv

LEMMA StepInv ==
  ASSUME IInv, NEW i \in Item, Step(i)
  PROVE  IInv'
  BY CheckInv, ResolveInv, DownloadInv, FinalizeInv, PlaceInv, ReplaceInv, CommitInv,
     PersistInv, CleanupInv, CompleteInv DEF Step

LEMMA NextInv == IInv /\ [Next]_vars => IInv'
<1> SUFFICES ASSUME IInv, [Next]_vars PROVE IInv'
  OBVIOUS
<1>1. ASSUME NEW i \in Item, Step(i) PROVE IInv'
  BY <1>1, StepInv
<1>2. ASSUME NEW i \in Item, CancelJob(i) PROVE IInv'
  <2>1. cancelled' \subseteq Item /\ writable' \in BOOLEAN
    BY <1>2 DEF CancelJob, IInv, TypeOK
  <2>2. budget' \in Nat
    BY <1>2, SpendType, Unmoved DEF CancelJob
  <2>3. UNCHANGED <<wants, status, attempts, staging, disk, row, run, finalizer>>
    BY <1>2 DEF CancelJob, Library
  <2> QED BY <2>1, <2>2, <2>3, WorldInv
<1>3. ASSUME NEW i \in Item, RetryItem(i) PROVE IInv'
  BY <1>3, RetryItemInv
<1>4. CASE LoseStorage \/ RegainStorage
  <2>1. budget' \in Nat
    BY <1>4, SpendType, Unmoved DEF LoseStorage, RegainStorage
  <2>2. UNCHANGED <<wants, status, attempts, staging, disk, row, run, finalizer, cancelled>>
    BY <1>4 DEF LoseStorage, RegainStorage, Library
  <2>3. cancelled' \subseteq Item /\ writable' \in BOOLEAN
    BY <1>4, <2>2 DEF LoseStorage, RegainStorage, IInv, TypeOK
  <2> QED BY <2>1, <2>2, <2>3, WorldInv
<1>5. CASE Restart
  BY <1>5, RestartInv
<1>6. CASE UNCHANGED vars
  BY <1>6, WorldInv DEF vars, IInv, TypeOK
<1> QED BY <1>1, <1>2, <1>3, <1>4, <1>5, <1>6 DEF Next

(* Every variable keeps its shape, for every instance.                     *)
THEOREM PipelineTypes == Spec => []TypeOK
<1>1. IInv => TypeOK
  BY DEF IInv
<1> QED BY <1>1, InitInv, NextInv, PTL DEF Spec

(* The catalogue names only files that are there and are the recording it  *)
(* says (worker.go, finalize: placement, then PersistDownload).            *)
THEOREM CatalogueTrue == Spec => []RowsAreTrue
<1>1. IInv => RowsAreTrue
  BY DEF IInv, PipelineInv
<1> QED BY <1>1, InitInv, NextInv, PTL DEF Spec

(* What is completed or skipped is in the catalogue (worker.go, attempt).  *)
THEOREM CompletedStored == Spec => []SettledIsStored
<1>1. IInv => SettledIsStored
  BY DEF IInv, PipelineInv
<1> QED BY <1>1, InitInv, NextInv, PTL DEF Spec

(* No recording in the library is replaced by another one or taken away    *)
(* (storage/library.go, CommitStaged and Replace).                         *)
THEOREM NothingReplaced == Spec => RecordingsKept
<1>1. ASSUME IInv, [Next]_vars
      PROVE  \A p \in Place : disk[p] # Nothing => disk'[p][1] = disk[p][1]
  <2>1. CASE UNCHANGED disk
    BY <2>1
  <2>2. CASE ~UNCHANGED disk
    <3>1. PICK i \in Item : Replace(i) \/ CommitRecording(i)
      BY <1>1, <2>2 DEF Next, Step, Check, Resolve, Download, Finalize, PlaceSafe, Persist,
         CleanupItem, Complete, CancelJob, RetryItem, LoseStorage, RegainStorage, Restart,
         vars, Library
    <3>2. wants[i] \in Song
      BY <1>1 DEF IInv, TypeOK
    <3>3. CASE Replace(i)
      <4>1. disk' = [disk EXCEPT ![Usual(wants[i])] = staging[i]]
        BY <2>2, <3>3 DEF Replace
      <4>2. staging[i] \in {wants[i]} \X Takes /\ row[Usual(wants[i])] = wants[i]
        BY <1>1, <3>3, InvIsLocal DEF IInv, ItemInv, Replace, At
      <4>3. disk[Usual(wants[i])] \in {wants[i]} \X Takes
        BY <1>1, <3>2, <4>2, UsualIsPlace, ItemPipelineAssumption
           DEF IInv, PipelineInv, RowsAreTrue, Unknown
      <4> QED BY <1>1, <4>1, <4>2, <4>3 DEF IInv, TypeOK
    <3>4. CASE CommitRecording(i)
      <4>1. PICK p : disk' = [disk EXCEPT ![p] = staging[i]] /\ Fits(i, p)
        BY <2>2, <3>4 DEF CommitRecording
      <4> QED BY <1>1, <4>1 DEF Fits, IInv, TypeOK
    <3> QED BY <3>1, <3>3, <3>4
  <2> QED BY <2>1, <2>2
<1> QED BY <1>1, InitInv, NextInv, PTL DEF Spec, RecordingsKept
=============================================================================
