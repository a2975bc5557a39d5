------------------------------- MODULE Trash -------------------------------
(***************************************************************************)
(* The seven-day trash of the library (backend/internal/library/trash.go,  *)
(* repository/trash.go): a journal row in the database, the media moved by *)
(* a hard link and a removal per file, and the catalogue rows taken out    *)
(* and put back in one transaction each.  Beside it run the download of a  *)
(* track to the same path, DeleteTrack, and the scan that lists files      *)
(* without a row and lets an administrator delete them.                    *)
(*                                                                         *)
(* A step ends where a crash or another actor can come between: after the  *)
(* look at the two names of a file, the link, the removal and each call of *)
(* the database.                                                           *)
(***************************************************************************)
EXTENDS Naturals, Sequences

CONSTANTS
  Track,        \* ids of catalogue tracks
  Path,         \* places in the library, each for one song
  PathOf,       \* the place of a track
  FileId,       \* files ever written, as (inode, size, mtime): positive numbers
  Original,     \* the media of the tracks that are in the library at the start
  Allowance     \* bound: user actions, downloads, crashes and failing calls

VARIABLES
  rows,         \* tracks
  fileRow,      \* files: the row that names a path
  journal,      \* library_trash: the entry of a track
  disk,         \* the media in the library, by path and kind
  store,        \* the media in .ytmdl-trash/songs, by track and kind
  op,           \* the holder of the lock trash:operations
  sweep,        \* the entries that maintenance still purges in this round
  job,          \* the unfinished download of a song
  orphans,      \* the paths of orphanIssues, and the one being deleted
  used,         \* history: the files that were written so far
  taken,        \* history: files deleted or replaced by others, those that the
                \* trash took from a download that had not stored its row, and
                \* those that were purged although another entry lists them
  left

trashVars == <<rows, fileRow, journal, disk, store, op, sweep, job, orphans, used, taken, left>>

None    == 0
NoRow   == [track |-> None, id |-> None]
NoEntry == [state |-> "none"]
NoJob   == [stage |-> "none", id |-> None]
OpenJob == [stage |-> "open", id |-> None]
Kind    == <<"audio", "lyrics">>
Kinds   == {"audio", "lyrics"}
Initial == DOMAIN Original
NoOp    == [kind |-> "none", pc |-> "idle", on |-> None, at |-> 1,
            step |-> "look", todo |-> {}, hourly |-> FALSE]

(* The tracks at the start have a recording and a place of their own.      *)
ASSUME TrashAssumption ==
  /\ PathOf \in [Track -> Path] /\ FileId \subseteq Nat \ {None} /\ None \notin Track \cup Path
  /\ Initial \subseteq Track /\ Original \in [Initial -> [Kinds -> FileId \cup {None}]]
  /\ \A t \in Initial : Original[t].audio # None
  /\ \A t, u \in Initial : PathOf[t] = PathOf[u] \/ Original[t].audio = Original[u].audio => t = u

States   == {"preparing", "ready", "restoring", "purging"}
Has(t)   == journal[t].state # "none"
In(t, S) == journal[t].state \in S
OnDisk   == {disk[p][k] : p \in Path, k \in Kinds}
            \cup {store[t][k] : t \in Track, k \in Kinds}
Fresh    == FileId \ used
Use(what) == left[what] > 0 /\ left' = [left EXCEPT ![what] = @ - 1]

\* rows of the snapshot that PrepareTrash and CommitTrash take
Files(t)    == IF fileRow[PathOf[t]].track = t THEN fileRow[PathOf[t]].id ELSE None
Conflict(t) ==
  \/ t \in rows
  \/ journal[t].file # None /\ fileRow[PathOf[t]] # NoRow

-----------------------------------------------------------------------------
(* What follows a step of an operation that succeeded, and one that failed. *)

OnSuccess == [trash   |-> [prepare |-> "out", out |-> "commit", commit |-> "end",
                           back |-> "forget", forget |-> "end"],
              restore |-> [mark |-> "back", back |-> "metadata", metadata |-> "end",
                           out |-> "unmark", unmark |-> "end"],
              purge   |-> [mark |-> "remove", remove |-> "forget", forget |-> "end"],
              recover |-> [back |-> "forget", forget |-> "next",
                           out |-> "unmark", unmark |-> "next"]]

(* Mutant: a rollback forgets the entry although a file did not come back. *)
MutForgotten(kind, pc) ==
  CASE kind = "trash" /\ pc = "out" -> "back"
    [] kind = "trash" /\ pc = "back" -> "forget"
    [] kind = "trash" /\ pc = "commit" -> "verify"
    [] kind = "restore" /\ pc \in {"back", "metadata"} -> "verify"
    [] OTHER -> "end"

OnFailure(kind, pc) ==
  CASE kind = "trash" /\ pc = "out" -> "back"
    [] kind = "trash" /\ pc = "commit" -> "verify"
    [] kind = "restore" /\ pc \in {"back", "metadata"} -> "verify"
    [] OTHER -> "end"

Due == {t \in Track : In(t, {"purging"}) \/ (In(t, {"ready"}) /\ journal[t].expired)}

GoOn(pc) == op' = IF pc = "end" THEN NoOp
                  ELSE [op EXCEPT !.pc = pc, !.at = 1, !.step = "look"]
Succeed  == GoOn(OnSuccess[op.kind][op.pc]) /\ UNCHANGED sweep
\* a failed purge ends the round of maintenance it belongs to
Fail     == /\ GoOn(OnFailure(op.kind, op.pc))
            /\ sweep' = IF op.kind = "purge" THEN {} ELSE sweep

(* A call of the database applies its effect and answers, applies it and   *)
(* loses the answer, or does nothing and fails.                            *)
Applied(effect) == effect /\ Succeed /\ UNCHANGED left
Lost(effect)    == effect /\ Fail /\ Use("fault")
Failed(rest)    == UNCHANGED rest /\ Fail /\ Use("fault")
Refused(rest)   == UNCHANGED rest /\ Fail /\ UNCHANGED left

Call(effect, rest) == Applied(effect) \/ Lost(effect) \/ Failed(rest)

-----------------------------------------------------------------------------
(* Starting an operation takes the lock trash:operations. *)

Start(kind, pc, t) == /\ op = NoOp
                      /\ op' = [NoOp EXCEPT !.kind = kind, !.pc = pc, !.on = t]

Outside == <<job, orphans, used, taken>>

\* removeDuplicateTracks: refused while a download of the song is unfinished
TrashTrack(t) ==
  /\ Use("user")
  /\ t \in rows /\ job[PathOf[t]] = NoJob
  /\ Start("trash", "prepare", t)
  /\ UNCHANGED <<rows, fileRow, journal, disk, store, sweep, Outside>>

RestoreTrash(t) ==
  /\ Use("user")
  /\ In(t, {"ready"}) /\ ~Conflict(t)
  /\ Start("restore", "mark", t)
  /\ UNCHANGED <<rows, fileRow, journal, disk, store, sweep, Outside>>

StartPurge(t) ==
  Start("purge", IF In(t, {"ready"}) THEN "mark" ELSE "remove", t)

(* Mutant: an entry that is being restored may be purged too. *)
MutPurgeTrash(t) ==
  /\ Use("user")
  /\ In(t, {"ready", "restoring", "purging"})
  /\ StartPurge(t)
  /\ UNCHANGED <<rows, fileRow, journal, disk, store, sweep, Outside>>

PurgeTrash(t) ==
  /\ Use("user")
  /\ In(t, {"ready", "purging"})
  /\ StartPurge(t)
  /\ UNCHANGED <<rows, fileRow, journal, disk, store, sweep, Outside>>

OpenEntries == {t \in Track : In(t, {"preparing", "restoring"})}

StartRecover(hourly) ==
  /\ op = NoOp
  /\ op' = [NoOp EXCEPT !.kind = "recover", !.pc = "next",
                        !.todo = OpenEntries, !.hourly = hourly]
  /\ UNCHANGED <<rows, fileRow, journal, disk, store, sweep, Outside>>

RecoverTrash == Use("user") /\ OpenEntries # {} /\ StartRecover(FALSE)

\* StartTrashMaintenance: recover every hour, then purge what is due
Maintain      == /\ sweep = {} /\ OpenEntries \cup Due # {}
                 /\ StartRecover(TRUE) /\ UNCHANGED left
MaintainPurge ==
  \E t \in sweep :
    /\ sweep' = sweep \ {t}
    /\ IF t \in Due THEN StartPurge(t) ELSE op = NoOp /\ UNCHANGED op
    /\ UNCHANGED <<rows, fileRow, journal, disk, store, Outside, left>>

-----------------------------------------------------------------------------
(* The steps of the journal. *)

SetEntry(t, e)     == journal' = [journal EXCEPT ![t] = e]
SetState(from, to) == SetEntry(op.on, IF In(op.on, {from})
                                        THEN [journal[op.on] EXCEPT !.state = to]
                                        ELSE journal[op.on])
Pc(pc) == op.pc = pc

\* the moves are those of the files that exist now; track_id is unique
PrepareTrash ==
  LET t == op.on IN
  /\ Pc("prepare")
  /\ IF t \in rows /\ ~Has(t)
       THEN Call(SetEntry(t, [state |-> "preparing", moves |-> disk[PathOf[t]],
                              file |-> Files(t), expired |-> FALSE]), journal)
       ELSE Refused(journal)
  /\ UNCHANGED <<rows, fileRow, disk, store, Outside>>

CommitTrash ==
  LET t == op.on IN
  /\ Pc("commit")
  /\ IF In(t, {"preparing"}) /\ t \in rows /\ Files(t) = journal[t].file
       THEN Call(/\ rows' = rows \ {t}
                 /\ fileRow' = IF Files(t) = None THEN fileRow
                            ELSE [fileRow EXCEPT ![PathOf[t]] = NoRow]
                 /\ SetState("preparing", "ready"), <<rows, fileRow, journal>>)
       ELSE Refused(<<rows, fileRow, journal>>)
  /\ UNCHANGED <<disk, store, Outside>>

\* the journal is read again: which side of the transaction is true?
VerifyTrash ==
  /\ Pc("verify") /\ op.kind = "trash"
  /\ \/ GoOn(IF In(op.on, {"preparing"}) THEN "back" ELSE "end") /\ UNCHANGED left
     \/ GoOn("end") /\ Use("fault")
  /\ UNCHANGED <<rows, fileRow, journal, disk, store, sweep, Outside>>

VerifyRestore ==
  /\ Pc("verify") /\ op.kind = "restore"
  /\ \/ GoOn(IF In(op.on, {"restoring"}) THEN "out" ELSE "end") /\ UNCHANGED left
     \/ GoOn("end") /\ Use("fault")
  /\ UNCHANGED <<rows, fileRow, journal, disk, store, sweep, Outside>>

MarkTrash ==
  /\ Pc("mark")
  /\ Call(SetState("ready", IF op.kind = "restore" THEN "restoring" ELSE "purging"), journal)
  /\ UNCHANGED <<rows, fileRow, disk, store, Outside>>

UnmarkTrash ==
  /\ Pc("unmark")
  /\ Call(SetState("restoring", "ready"), journal)
  /\ UNCHANGED <<rows, fileRow, disk, store, Outside>>

ForgetTrash ==
  /\ Pc("forget")
  /\ Call(SetEntry(op.on, NoEntry), journal)
  /\ UNCHANGED <<rows, fileRow, disk, store, Outside>>

\* the keys of tracks and files.path refuse what the check before has missed
RestoreTrashMetadata ==
  LET t == op.on IN
  /\ Pc("metadata")
  /\ IF In(t, {"restoring"}) /\ ~Conflict(t)
       THEN Call(/\ rows' = rows \cup {t}
                 /\ fileRow' = IF journal[t].file = None THEN fileRow
                            ELSE [fileRow EXCEPT ![PathOf[t]] =
                                    [track |-> t, id |-> journal[t].file]]
                 /\ SetEntry(t, NoEntry), <<rows, fileRow, journal>>)
       ELSE Refused(<<rows, fileRow, journal>>)
  /\ UNCHANGED <<disk, store, Outside>>

\* one entry of the list of RecoverTrash; an error ends the whole recovery
RecoverEntry ==
  /\ Pc("next")
  /\ IF op.todo = {}
       THEN /\ op' = NoOp
            /\ sweep' = IF op.hourly THEN Due ELSE sweep
       ELSE \E t \in op.todo :
              /\ op' = LET o == [op EXCEPT !.todo = @ \ {t}, !.on = t] IN
                       IF In(t, {"preparing"}) /\ t \in rows THEN [o EXCEPT !.pc = "back"]
                       ELSE IF In(t, {"restoring"}) /\ ~Conflict(t) THEN [o EXCEPT !.pc = "out"]
                       ELSE NoOp
              /\ UNCHANGED sweep
  /\ UNCHANGED <<rows, fileRow, journal, disk, store, Outside, left>>

-----------------------------------------------------------------------------
(* moveTrashPaths: look, link, remove, file after file.  A download holds  *)
(* no lock of the trash: the name in the library may get or lose its file  *)
(* between any two of the three.                                           *)

MovedKind == Kind[op.at]
Orig      == disk[PathOf[op.on]][MovedKind]
Stored    == store[op.on][MovedKind]
PutOrig(id)   == disk'  = [disk EXCEPT ![PathOf[op.on]][MovedKind] = id] /\ UNCHANGED store
PutStored(id) == store' = [store EXCEPT ![op.on][MovedKind] = id] /\ UNCHANGED disk

Source      == IF Pc("out") THEN Orig ELSE Stored
Destination == IF Pc("out") THEN Stored ELSE Orig
PutSource(id)      == IF Pc("out") THEN PutOrig(id) ELSE PutStored(id)
PutDestination(id) == IF Pc("out") THEN PutStored(id) ELSE PutOrig(id)

Wanted == journal[op.on].moves[MovedKind]

Moving(step) == (Pc("out") \/ Pc("back")) /\ op.step = step
GoTo(step)   == op' = [op EXCEPT !.step = step] /\ UNCHANGED <<sweep, left>>
NextMove == /\ IF op.at = Len(Kind) THEN Succeed
               ELSE op' = [op EXCEPT !.at = @ + 1, !.step = "look"] /\ UNCHANGED sweep
            /\ UNCHANGED left

(* Mutant: two names of one file count as a collision. *)
MutSight ==
  CASE Wanted = None \/ (Source = None /\ Destination = Wanted) -> "moved"
    [] Wanted # None /\ Source = Wanted /\ Destination = None -> "clear"
    [] OTHER -> "stuck"

\* what the two Lstat find, by size and time, or by being the same file
Sight ==
  CASE Wanted = None \/ (Source = None /\ Destination = Wanted) -> "moved"
    [] Wanted # None /\ Source # None /\ Destination = Source -> "both"
    [] Wanted # None /\ Source = Wanted /\ Destination = None -> "clear"
    [] OTHER -> "stuck"

LookAtFile ==
  /\ Moving("look")
  /\ \/ Sight = "moved" /\ NextMove
     \/ Sight = "both"  /\ GoTo("remove")
     \/ Sight = "clear" /\ GoTo("link")
     \/ Sight = "stuck" /\ Refused(<<>>)
     \/ Wanted # None  /\ Failed(<<>>)
  /\ UNCHANGED <<rows, fileRow, journal, disk, store, job, orphans, used, taken>>

(* Mutant: a rename, which replaces what has the new name. *)
MutLinkFile ==
  /\ Moving("link")
  /\ IF Source # None THEN PutDestination(Source) /\ GoTo("remove")
     ELSE Refused(<<disk, store>>)
  /\ UNCHANGED <<rows, fileRow, journal, job, orphans, used, taken>>

\* Link gives the file that has the old name now, seen or not, the new name;
\* it fails if that is taken or the file is gone
LinkFile ==
  /\ Moving("link")
  /\ \/ IF Source # None /\ Destination = None
          THEN PutDestination(Source) /\ GoTo("remove")
          ELSE Refused(<<disk, store>>)
     \/ Failed(<<disk, store>>)
  /\ UNCHANGED <<rows, fileRow, journal, job, orphans, used, taken>>

\* What leaves the library here although no row of the track has named it: a
\* download placed it before PrepareTrash, or after the look.
TakenByMove == IF Pc("out") /\ (\/ Source # Wanted
                                \/ MovedKind = "audio" /\ Wanted # journal[op.on].file)
               THEN {Source} ELSE {}

RemoveName ==
  /\ Moving("remove")
  /\ \/ IF Source # None
          THEN PutSource(None) /\ NextMove /\ taken' = taken \cup TakenByMove
          ELSE Refused(<<disk, store, taken>>)
     \/ Failed(<<disk, store, taken>>)
  /\ UNCHANGED <<rows, fileRow, journal, job, orphans, used>>

MoveFile == LookAtFile \/ LinkFile \/ RemoveName

\* PurgeTrash removes what the journal lists and nothing that replaced it
ListedBy(T) == {journal[u].moves[k] : u \in {v \in T : Has(v)}, k \in Kinds} \ {None}
RemoveStored ==
  LET k == Kind[op.at]
      t == op.on IN
  /\ Pc("remove")
  /\ IF store[t][k] \in {None, journal[t].moves[k]}
       THEN \/ /\ store' = [store EXCEPT ![t][k] = None] /\ NextMove
               /\ taken' = taken \cup ({store[t][k]} \cap ListedBy(Track \ {t}))
            \/ Failed(<<store, taken>>)
       ELSE Refused(<<store, taken>>)
  /\ UNCHANGED <<rows, fileRow, journal, disk, job, orphans, used>>

-----------------------------------------------------------------------------
(* The other actors, and time. *)

OnlyJob == UNCHANGED <<rows, fileRow, journal, disk, store, op, sweep, orphans, used, taken>>

\* another actor writes or removes the audio at a path
PutAudio(p, n) == /\ disk' = [disk EXCEPT ![p].audio = n]
                  /\ UNCHANGED store
                  /\ taken' = taken \cup ({disk[p].audio} \ {None})

EnqueueDownload(p) == /\ job[p] = NoJob /\ Use("job")
                      /\ job' = [job EXCEPT ![p] = OpenJob] /\ OnlyJob

Known(p) == {t \in rows : PathOf[t] = p}

\* skipped, failed, cancelled, or stored under a name with a source suffix
EndDownload(p) == /\ job[p] # NoJob
                  /\ job' = [job EXCEPT ![p] = NoJob] /\ OnlyJob /\ UNCHANGED left

\* placeSafe at the usual name: free, or the track's own file, which it replaces
PlaceDownload(p) ==
  \E n \in Fresh :
    /\ job[p] = OpenJob
    /\ disk[p].audio = None \/ fileRow[p].track \in Known(p)
    /\ \A m \in Fresh : n <= m
    /\ PutAudio(p, n) /\ used' = used \cup {n}
    /\ job'   = [job EXCEPT ![p] = [stage |-> "placed", id |-> n]]
    /\ UNCHANGED <<rows, fileRow, journal, op, sweep, orphans, left>>

\* PersistDownload: the known track, or a new one with an id of its own
PersistDownload(p) ==
  /\ job[p].stage = "placed"
  /\ \E t \in IF Known(p) # {} THEN Known(p)
              ELSE {u \in Track : PathOf[u] = p /\ ~Has(u)} :
       /\ rows' = rows \cup {t}
       /\ fileRow' = [fileRow EXCEPT ![p] = [track |-> t, id |-> job[p].id]]
  /\ job' = [job EXCEPT ![p] = NoJob]
  /\ UNCHANGED <<journal, disk, store, op, sweep, orphans, used, taken, left>>

\* DeleteTrack holds the lock of the track; a batch for the trash holds it too
DeleteTrack(t) ==
  LET p == PathOf[t] IN
  /\ Use("user")
  /\ t \in rows /\ job[p] = NoJob
  /\ ~(op.kind = "trash" /\ op.on = t)
  /\ rows' = rows \ {t}
  /\ IF fileRow[p].track = t
       THEN /\ fileRow'  = [fileRow EXCEPT ![p] = NoRow]
            /\ PutAudio(p, None)
       ELSE UNCHANGED <<fileRow, disk, store, taken>>
  /\ UNCHANGED <<journal, op, sweep, job, orphans, used>>

\* Reconcile lists the audio that no row names
Reconcile ==
  /\ orphans.paths # {p \in Path : disk[p].audio # None /\ fileRow[p] = NoRow}
  /\ orphans' = [orphans EXCEPT !.paths = {p \in Path : disk[p].audio # None /\ fileRow[p] = NoRow}]
  /\ UNCHANGED <<rows, fileRow, journal, disk, store, op, sweep, job, used, taken, left>>

DeleteOrphanIssue(p) ==
  /\ Use("user")
  /\ p \in orphans.paths /\ orphans.deletes = None /\ fileRow[p] = NoRow
  /\ orphans' = [orphans EXCEPT !.deletes = p]
  /\ UNCHANGED <<rows, fileRow, journal, disk, store, op, sweep, job, used, taken>>

RemoveOrphan ==
  LET p == orphans.deletes IN
  /\ p # None
  /\ PutAudio(p, None)
  /\ orphans' = [paths |-> orphans.paths \ {p}, deletes |-> None]
  /\ UNCHANGED <<rows, fileRow, journal, op, sweep, job, used, left>>

Expire(t) ==
  /\ In(t, {"ready"}) /\ ~journal[t].expired
  /\ SetEntry(t, [journal[t] EXCEPT !.expired = TRUE])
  /\ UNCHANGED <<rows, fileRow, disk, store, op, sweep, Outside, left>>

\* an open download is queued again by the restart
Restart ==
  /\ Use("crash")
  /\ op' = NoOp /\ sweep' = {}
  /\ orphans' = [paths |-> {}, deletes |-> None]
  /\ job' = [p \in Path |-> IF job[p] = NoJob THEN NoJob ELSE OpenJob]
  /\ UNCHANGED <<rows, fileRow, journal, disk, store, used, taken>>

-----------------------------------------------------------------------------

Owners(p) == {t \in Initial : PathOf[t] = p}
Owner(p)  == CHOOSE t \in Owners(p) : TRUE

TrashInit ==
  /\ rows = Initial
  /\ fileRow = [p \in Path |-> IF Owners(p) = {} THEN NoRow
                               ELSE [track |-> Owner(p), id |-> Original[Owner(p)].audio]]
  /\ disk = [p \in Path |-> IF Owners(p) = {} THEN [k \in Kinds |-> None]
                            ELSE Original[Owner(p)]]
  /\ store   = [t \in Track |-> [k \in Kinds |-> None]]
  /\ journal = [t \in Track |-> NoEntry]
  /\ op = NoOp /\ sweep = {}
  /\ job = [p \in Path |-> NoJob]
  /\ orphans = [paths |-> {}, deletes |-> None]
  /\ used = {Original[t][k] : t \in Initial, k \in Kinds} \ {None} /\ taken = {}
  /\ left = Allowance

Step == \/ PrepareTrash \/ MoveFile \/ CommitTrash \/ VerifyTrash \/ MarkTrash
        \/ RestoreTrashMetadata \/ VerifyRestore \/ UnmarkTrash
        \/ RemoveStored \/ ForgetTrash \/ RecoverEntry

Maintenance == Maintain \/ MaintainPurge

User == \/ RecoverTrash
        \/ \E t \in Track : TrashTrack(t) \/ RestoreTrash(t) \/ PurgeTrash(t) \/ DeleteTrack(t)
        \/ \E p \in Path : DeleteOrphanIssue(p)

Other == \/ \E p \in Path : \/ EnqueueDownload(p) \/ PlaceDownload(p)
                            \/ PersistDownload(p) \/ EndDownload(p)
         \/ \E t \in Track : Expire(t)
         \/ Reconcile \/ RemoveOrphan \/ Restart

TrashNext == Step \/ Maintenance \/ User \/ Other

(* The holder of the lock goes on (each call has its timeout), and         *)
(* maintenance runs every hour as long as the process lives; nothing makes *)
(* a user act, a download arrive or a call fail.                           *)
TrashFairness == WF_trashVars(Step) /\ WF_trashVars(Maintenance)

TrashSpec == TrashInit /\ [][TrashNext]_trashVars /\ TrashFairness

-----------------------------------------------------------------------------
(* Properties *)

(* Every variable of the program keeps its shape. *)
Media     == [Kinds -> FileId \cup {None}]
RowType   == [track : Track \cup {None}, id : FileId \cup {None}]
EntryType == [state : States, moves : Media, file : FileId \cup {None}, expired : BOOLEAN]
JobType   == [stage : {"none", "open", "placed"}, id : FileId \cup {None}]
OpType    == [kind : {"none", "trash", "restore", "purge", "recover"},
              pc : {"idle", "prepare", "out", "commit", "back", "forget", "verify", "mark",
                    "metadata", "unmark", "remove", "next"},
              on : Track \cup {None}, at : 1..2, step : {"look", "link", "remove"},
              todo : SUBSET Track, hourly : BOOLEAN]
TrashTypes ==
  /\ rows \subseteq Track /\ fileRow \in [Path -> RowType]
  /\ journal \in [Track -> EntryType \cup {NoEntry}]
  /\ disk \in [Path -> Media] /\ store \in [Track -> Media]
  /\ op \in OpType /\ sweep \subseteq Track
  /\ job \in [Path -> JobType]
  /\ orphans \in [paths : SUBSET Path, deletes : Path \cup {None}]
  /\ used \subseteq FileId /\ taken \subseteq used

(* Media that the journal lists are on the disk, in the library or in the  *)
(* trash, until an entry that lists them is purged or somebody deletes the *)
(* file or the track itself: a crash between any two calls, a lost answer  *)
(* and a failed rollback leave every song recoverable.                     *)
MediaKept ==
  \A t \in Track : \A k \in Kinds :
    (In(t, {"ready", "restoring"}) \/ (In(t, {"preparing"}) /\ t \in rows))
      => journal[t].moves[k] \in OnDisk \cup taken \cup {None}

(* An entry that may be restored or purged is complete: its track is out   *)
(* of the catalogue, and all of its media are in the trash.  Excepted is a *)
(* file that a download replaced behind the look of the move: the trash    *)
(* then holds what the download placed, and its row was not yet stored.    *)
ReadyIsComplete ==
  \A t \in Track : In(t, {"ready"}) =>
    /\ t \notin rows
    /\ \A k \in Kinds : \/ journal[t].moves[k] = store[t][k]
                        \/ {journal[t].moves[k], store[t][k]} \subseteq taken

(* A track that is in the catalogue and not in the trash has the file its  *)
(* row names: no rollback, restore or recovery forgets its journal entry   *)
(* before the media are back.                                              *)
RowsHaveFiles ==
  \A t \in rows : LET p == PathOf[t] IN
    ~Has(t) /\ fileRow[p].track = t /\ fileRow[p].id \notin taken
      => disk[p].audio = fileRow[p].id

(* Neither side of the journal misses a file.                              *)
NothingMissing == ReadyIsComplete /\ RowsHaveFiles

(* A file leaves the disk through a purge of the entry that lists it, or   *)
(* because somebody deleted or replaced that file: moving to and from the  *)
(* trash never costs a file.                                               *)
NothingOverwritten ==
  [][\A n \in OnDisk \ {None} : n \in OnDisk' \/ n \in taken'
       \/ \E t \in Track : In(t, {"purging"}) /\ \E k \in Kinds : journal[t].moves[k] = n]_trashVars

(* What RecoverTrash cannot decide and leaves to the administrator.        *)
NeedsReview(t) ==
  \/ In(t, {"preparing"}) /\ t \notin rows
  \/ In(t, {"restoring"}) /\ Conflict(t)
  \/ In(t, {"preparing", "restoring"}) /\ \E k \in Kinds :
       /\ journal[t].moves[k] # None
       /\ \/ store[t][k] # None /\ disk[PathOf[t]][k] # None
             /\ store[t][k] # disk[PathOf[t]][k]
          \/ journal[t].moves[k] \notin {store[t][k], disk[PathOf[t]][k]}

(* An interrupted operation is finished or undone by maintenance, unless   *)
(* an entry needs a person.                                                *)
InterruptedSettles ==
  (OpenEntries # {}) ~> (OpenEntries = {} \/ \E t \in Track : NeedsReview(t))

=============================================================================
