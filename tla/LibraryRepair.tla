--------------------------- MODULE LibraryRepair ---------------------------
(***************************************************************************)
(* The audit of the library (library/integrity.go), the repairs of what it *)
(* found (library/repair.go), reorganization (library/compat.go), retagging *)
(* and deletion of tracks (library/service.go), and a download that puts   *)
(* files at the same paths.  Requests lock paths and tracks by key         *)
(* (library/locks.go); the audit and the downloads lock nothing.  A step   *)
(* is one statement, one call of the file system, or one lock.             *)
(*                                                                         *)
(* A file is what it holds: the recording, and the track whose tags it     *)
(* has.  Its SHA-256 is the file itself.  Sidecars move with the audio and *)
(* appear as a move that fails halfway; covers, lyrics and the counts of a *)
(* run are left out, and the finding of a track that is not complete with  *)
(* them: no repair is for them.  A request with several repairs keeps      *)
(* nothing from one to the next, and is several requests here.             *)
(***************************************************************************)
EXTENDS Integers, FiniteSets

CONSTANTS
  Song, Place, Caller,
  Canonical,   \* Layout.TrackPath of each track
  Nothing,
  Starts       \* files and rows to begin with, and the bounds of what follows:
               \* audits, repairs, other calls, previews, downloads, cancels, failures, crashes

Contents == [of : Song, tags : Song]
From(S, T, f) == DOMAIN f \subseteq S /\ f \in [DOMAIN f -> T]

ASSUME RepairAssumption ==
  /\ Canonical \in [Song -> Place]
  /\ Nothing \notin Song \cup Place
  /\ \A s \in Starts : /\ From(Place, Contents, s.disk)
                        /\ From(Place, Song, s.rows)
                        /\ s.catalogue \subseteq Song

VARIABLES
  disk,        \* the files of the library
  quarantine,  \* .ytmdl-trash/<finding>/: the file of each finding
  filed,        \* files: the track of each path
  catalogue,   \* tracks that have a row
  findings,    \* library_audit_findings
  run,         \* library_audit_runs: the status of each run
  audit,       \* Service.activeAudit and its goroutine
  layout,      \* Service.latestCompat
  request,     \* what each request does
  download,    \* downloads of a track: their job, and how far they are
  untrue,      \* history: tracks a row of which named a missing or another file
  crossed,     \* history: removals under way whose files another call has written
  unrecorded,  \* history: runs whose end could not be written
  chances

auditVars  == <<run, audit, unrecorded>>
repairVars == <<disk, quarantine, filed, catalogue, findings, auditVars, layout,
                request, download, untrue, crossed, chances>>

Actions   == {"move", "restore", "adopt", "quarantine"}
NoWork    == [run |-> 0, code |-> "none", path |-> Nothing, track |-> Nothing,
              expected |-> Nothing, hash |-> Nothing]
NoRequest == [pc |-> "idle", kind |-> "none", work |-> NoWork, held |-> {},
              row |-> Nothing, kept |-> FALSE, files |-> {}]
Resting   == [pc |-> "idle", run |-> 0, deep |-> FALSE, cancelled |-> FALSE,
              walk |-> {}, rows |-> << >>, tracks |-> {}, new |-> {}]
NoJob     == [pc |-> "none", track |-> FALSE]

Id(f)         == <<f.run, f.code, f.path>>
FilesOf(t)    == {p \in DOMAIN filed : filed[p] = t}
With(f, x, v) == [y \in DOMAIN f \cup {x} |-> IF y = x THEN v ELSE f[y]]
Lacking(f, x) == [y \in DOMAIN f \ {x} |-> f[y]]
Untrue        == {filed[p] : p \in {q \in DOMAIN filed :
                                      q \notin DOMAIN disk \/ disk[q].of # filed[q]}}
Copies(t)     == {p \in DOMAIN disk : disk[p].of = t} \cup
                 {q \in DOMAIN quarantine : quarantine[q].of = t}

Draw(e)   == chances[e] > 0 /\ chances' = [chances EXCEPT ![e] = @ - 1]
(* A statement that may fail: ok says whether it did its work. *)
Works(ok) == IF ok THEN UNCHANGED chances ELSE Draw("failure")

GoOn(r, pc)   == request' = [request EXCEPT ![r].pc = pc]
(* The locks of a request are released together, at its end. *)
EndRequest(r) == request' = [request EXCEPT ![r] = NoRequest]
(* A repair that succeeded still deletes its finding. *)
Succeed(r) ==
  IF request[r].kind \in Actions
  THEN request' = [request EXCEPT ![r].held = {}, ![r].pc = "resolve"]
  ELSE EndRequest(r)
Undertake(r, kind, pc, w) ==
  /\ request[r].pc = "idle"
  /\ Draw(IF kind \in Actions THEN "repair" ELSE "call")
  /\ request' = [request EXCEPT ![r] = [NoRequest EXCEPT !.kind = kind, !.pc = pc, !.work = w]]

Holder(k)   == {s \in Caller : k \in request[s].held}
Source(r)   == request[r].work.path
Subject(r)  == request[r].work.track
Expected(r) == request[r].work.expected
Target(r)   == Canonical[Subject(r)]
Changed(r)  == request[r].work.hash # Nothing /\ disk[Source(r)] # request[r].work.hash
Busy(t)     == download[t].pc # "none" /\ download[t].track

-----------------------------------------------------------------------------
(* KeyedMutex.  ApplyRepairs locks the source, the path the finding        *)
(* expected and the track, as far as the finding has them; the other       *)
(* requests lock the track.                                                *)

Wants(r) ==
  CASE request[r].pc = "source" -> <<"path", Source(r)>>
    [] request[r].pc = "target" -> <<"path", Expected(r)>>
    [] request[r].pc = "track"  -> <<"track", Subject(r)>>

AfterLock(r) ==
  CASE request[r].pc = "source" /\ Expected(r) # Nothing -> "target"
    [] request[r].pc \in {"source", "target"} /\ Subject(r) # Nothing -> "track"
    [] OTHER -> "act"

Waiting(r) == request[r].pc \in {"source", "target", "track"}

LockKey(r) ==
  /\ Waiting(r) /\ Holder(Wants(r)) = {}
  /\ request' = [request EXCEPT ![r].held = @ \cup {Wants(r)}, ![r].pc = AfterLock(r)]
  /\ UNCHANGED <<disk, quarantine, filed, catalogue, findings, auditVars, layout, download, chances>>

-----------------------------------------------------------------------------
(* The calls of a client.                                                  *)

Apply(r, f, action) ==
  /\ Undertake(r, action, "fetch", f)
  /\ UNCHANGED <<disk, quarantine, filed, catalogue, findings, auditVars, layout, download>>

(* GetFinding: the row as it is now, or none any more. *)
Fetch(r) ==
  /\ request[r].pc = "fetch"
  /\ LET now == {f \in findings : Id(f) = Id(request[r].work)} IN
       \/ now = {} /\ EndRequest(r)
       \/ \E f \in now : request' = [request EXCEPT ![r].work = f, ![r].pc = "source"]
  /\ UNCHANGED <<disk, quarantine, filed, catalogue, findings, auditVars, layout, download, chances>>

(* A preview stores what the file holds with its finding. *)
Preview(f) ==
  /\ f.path \in DOMAIN disk /\ Draw("preview")
  /\ findings' = (findings \ {f}) \cup {[f EXCEPT !.hash = disk[f.path]]}
  /\ UNCHANGED <<disk, quarantine, filed, catalogue, auditVars, layout, request, download>>

Retag(r, t) ==
  /\ Undertake(r, "retag", "track", [NoWork EXCEPT !.track = t])
  /\ UNCHANGED <<disk, quarantine, filed, catalogue, findings, auditVars, layout, download>>

Delete(r, t) ==
  /\ Undertake(r, "delete", "track", [NoWork EXCEPT !.track = t])
  /\ UNCHANGED <<disk, quarantine, filed, catalogue, findings, auditVars, layout, download>>

(* CompatibilityReport, for the files whose place is not the canonical one. *)
CheckLayout ==
  /\ Draw("call")
  /\ layout' = {[NoWork EXCEPT !.path = p, !.track = filed[p], !.expected = Canonical[filed[p]]] :
                  p \in {q \in DOMAIN filed : filed[q] \in catalogue /\ Canonical[filed[q]] # q}}
  /\ UNCHANGED <<disk, quarantine, filed, catalogue, findings, auditVars, request, download>>

Reorganize(r, i) ==
  /\ Undertake(r, "reorganize", "track", i)
  /\ UNCHANGED <<disk, quarantine, filed, catalogue, findings, auditVars, layout, download>>

-----------------------------------------------------------------------------
(* The decisions of an operation, made when it has its locks.              *)

Decide(r, kind, ready, next) ==
  /\ request[r].pc = "act" /\ request[r].kind = kind
  /\ IF ready THEN GoOn(r, next) ELSE EndRequest(r)
  /\ UNCHANGED <<disk, quarantine, filed, catalogue, findings, auditVars, layout, download, chances>>

(* A file that has arrived before a crash: only the rows are left to do. *)
Arrived(r) ==
  /\ Source(r) \notin DOMAIN disk /\ Target(r) \in DOMAIN disk
  /\ request[r].work.hash = disk[Target(r)]

ActMove(r) ==
  \/ /\ Subject(r) \in catalogue /\ Arrived(r)
     /\ Decide(r, "move", TRUE, "lookup")
  \/ /\ ~(Subject(r) \in catalogue /\ Arrived(r))
     /\ Decide(r, "move",
               /\ Subject(r) \in catalogue
               /\ Source(r) \in DOMAIN disk /\ ~Changed(r)
               /\ Target(r) \notin DOMAIN disk, "link")

ActReorganize(r) ==
  Decide(r, "reorganize", ~Busy(Subject(r)) /\ Target(r) \notin DOMAIN disk, "link")

(* Mutant: the repair calls RetagTrack, which locks the track again. *)
MutActRestore(r) ==
  Decide(r, "restore", Source(r) \in DOMAIN disk /\ ~Changed(r), "track")

ActRestore(r) ==
  Decide(r, "restore", Source(r) \in DOMAIN disk /\ ~Changed(r), "files")

ActFiles(r) ==
  \E kind \in {"retag", "delete"} : Decide(r, kind, TRUE, "files")

(* Adoption needs the track that the tags named; a file that has been      *)
(* adopted already is no error.                                            *)
ActAdopt(r) ==
  LET adopted == Source(r) \in DOMAIN filed /\ filed[Source(r)] = Subject(r) IN
  /\ request[r].pc = "act" /\ request[r].kind = "adopt"
  /\ CASE Subject(r) \notin catalogue -> EndRequest(r)
       [] Subject(r) \in catalogue /\ adopted -> Succeed(r)
       [] OTHER -> IF Source(r) \in DOMAIN disk /\ ~Changed(r) THEN GoOn(r, "adopt") ELSE EndRequest(r)
  /\ UNCHANGED <<disk, quarantine, filed, catalogue, findings, auditVars, layout, download, chances>>

Quarantined(r) ==
  /\ Source(r) \notin DOMAIN disk /\ Id(request[r].work) \in DOMAIN quarantine
  /\ request[r].work.hash \in {Nothing, quarantine[Id(request[r].work)]}

ActQuarantine(r) ==
  /\ request[r].pc = "act" /\ request[r].kind = "quarantine"
  /\ CASE Quarantined(r) -> Succeed(r)
       [] OTHER -> IF /\ Source(r) \in DOMAIN disk /\ ~Changed(r)
                      /\ Id(request[r].work) \notin DOMAIN quarantine
                   THEN GoOn(r, "link") ELSE EndRequest(r)
  /\ UNCHANGED <<disk, quarantine, filed, catalogue, findings, auditVars, layout, download, chances>>

-----------------------------------------------------------------------------
(* Library.MoveTrack: a link, which never overwrites, and the removal of   *)
(* the source.  A sidecar that cannot follow moves the audio back with     *)
(* Replace, which does overwrite.                                          *)

LinkTo(r, overwrite) ==
  /\ request[r].pc = "link"
  /\ LET to == Id(request[r].work) IN
     IF request[r].kind = "quarantine"
     THEN IF Source(r) \in DOMAIN disk /\ (overwrite \/ to \notin DOMAIN quarantine)
          THEN quarantine' = With(quarantine, to, disk[Source(r)]) /\ GoOn(r, "unlink")
               /\ UNCHANGED disk
          ELSE EndRequest(r) /\ UNCHANGED <<disk, quarantine>>
     ELSE IF Source(r) \in DOMAIN disk /\ (overwrite \/ Target(r) \notin DOMAIN disk)
          THEN disk' = With(disk, Target(r), disk[Source(r)]) /\ GoOn(r, "unlink")
               /\ UNCHANGED quarantine
          ELSE EndRequest(r) /\ UNCHANGED <<disk, quarantine>>
  /\ UNCHANGED <<filed, catalogue, findings, auditVars, layout, download, chances>>

(* Mutant: the file is renamed onto its target. *)
MutLink(r) == LinkTo(r, TRUE)

Link(r) == LinkTo(r, FALSE)

(* The removal may fail, which leaves both; the sidecar may fail after it. *)
Unlink(r) ==
  /\ request[r].pc = "unlink"
  /\ \/ Draw("failure") /\ EndRequest(r) /\ UNCHANGED disk
     \/ /\ disk' = Lacking(disk, Source(r))
        /\ \/ Draw("failure") /\ request[r].kind # "quarantine" /\ GoOn(r, "back")
           \/ /\ UNCHANGED chances
              /\ IF request[r].kind = "quarantine" THEN Succeed(r) ELSE GoOn(r, "lookup")
  /\ UNCHANGED <<quarantine, filed, catalogue, findings, auditVars, layout, download>>

MoveBack(r) ==
  /\ request[r].pc = "back"
  /\ disk' = IF Target(r) \in DOMAIN disk
             THEN Lacking(With(disk, Source(r), disk[Target(r)]), Target(r))
             ELSE disk
  /\ EndRequest(r)
  /\ UNCHANGED <<quarantine, filed, catalogue, findings, auditVars, layout, download, chances>>

-----------------------------------------------------------------------------
(* The row follows the file: FindByPath, DeleteByPath and Upsert.  A       *)
(* repair drops the errors of all three, a reorganization that of the      *)
(* deletion.  Upsert keeps the id of the row, so that it cannot insert     *)
(* what the deletion has left.                                             *)

GiveUp(r) == IF request[r].kind = "move" THEN Succeed(r) ELSE EndRequest(r)

FindRow(r) ==
  /\ request[r].pc = "lookup"
  /\ \/ Draw("failure") /\ GiveUp(r)
     \/ Source(r) \notin DOMAIN filed /\ Succeed(r) /\ UNCHANGED chances
     \/ /\ Source(r) \in DOMAIN filed /\ UNCHANGED chances
        /\ request' = [request EXCEPT ![r].row = filed[Source(r)], ![r].pc = "drop"]
  /\ UNCHANGED <<disk, quarantine, filed, catalogue, findings, auditVars, layout, download>>

DropRow(r) ==
  /\ request[r].pc = "drop"
  /\ \E ok \in BOOLEAN :
       /\ Works(ok)
       /\ filed' = IF ok THEN Lacking(filed, Source(r)) ELSE filed
       /\ request' = [request EXCEPT ![r].kept = ~ok, ![r].pc = "put"]
  /\ UNCHANGED <<disk, quarantine, catalogue, findings, auditVars, layout, download>>

Upserted(p, t) == With(filed, p, IF t = Nothing /\ p \in DOMAIN filed THEN filed[p] ELSE t)

PutRow(r) ==
  /\ request[r].pc = "put"
  /\ LET t == request[r].row
         may == ~request[r].kept /\ t \in catalogue \cup {Nothing} IN
     \/ may /\ filed' = Upserted(Target(r), t) /\ Succeed(r) /\ UNCHANGED chances
     \/ (IF may THEN Draw("failure") ELSE UNCHANGED chances) /\ GiveUp(r) /\ UNCHANGED filed
  /\ UNCHANGED <<disk, quarantine, catalogue, findings, auditVars, layout, download>>

Adopt(r) ==
  /\ request[r].pc = "adopt"
  /\ \/ Subject(r) \in catalogue /\ filed' = Upserted(Source(r), Subject(r)) /\ Succeed(r)
        /\ UNCHANGED chances
     \/ (IF Subject(r) \in catalogue THEN Draw("failure") ELSE UNCHANGED chances)
        /\ EndRequest(r) /\ UNCHANGED filed
  /\ UNCHANGED <<disk, quarantine, catalogue, findings, auditVars, layout, download>>

(* DeleteFinding, whose error is dropped, after the locks are released. *)
Resolve(r) ==
  /\ request[r].pc = "resolve"
  /\ \E ok \in BOOLEAN :
       /\ Works(ok)
       /\ findings' = IF ok THEN {f \in findings : Id(f) # Id(request[r].work)} ELSE findings
  /\ EndRequest(r)
  /\ UNCHANGED <<disk, quarantine, filed, catalogue, auditVars, layout, download>>

-----------------------------------------------------------------------------
(* retagTrackLocked and DeleteTrack work on the files the catalogue lists. *)

ListFiles(r) ==
  /\ request[r].pc = "files"
  /\ LET t      == Subject(r)
         delete == request[r].kind = "delete"
         ready  == (delete \/ (t \in catalogue /\ FilesOf(t) # {})) /\ ~Busy(t)
     IN IF ready
        THEN request' = [request EXCEPT ![r].files = FilesOf(t),
                                        ![r].pc = IF delete THEN "remove" ELSE "tag"]
        ELSE EndRequest(r)
  /\ UNCHANGED <<disk, quarantine, filed, catalogue, findings, auditVars, layout, download, chances>>

Tag(r, p) ==
  /\ request[r].pc = "tag" /\ p \in request[r].files
  /\ IF p \in DOMAIN disk
     THEN /\ disk' = [disk EXCEPT ![p].tags = Subject(r)]
          /\ filed' = IF Subject(r) \in catalogue THEN Upserted(p, Subject(r)) ELSE filed
          /\ IF request[r].files = {p} THEN Succeed(r)
             ELSE request' = [request EXCEPT ![r].files = @ \ {p}]
     ELSE EndRequest(r) /\ UNCHANGED <<disk, filed>>
  /\ UNCHANGED <<quarantine, catalogue, findings, auditVars, layout, download, chances>>

RemoveFile(r, p) ==
  /\ request[r].pc = "remove" /\ p \in request[r].files
  /\ disk' = Lacking(disk, p)
  /\ request' = [request EXCEPT ![r].work.path = p, ![r].files = @ \ {p}, ![r].pc = "forget"]
  /\ UNCHANGED <<quarantine, filed, catalogue, findings, auditVars, layout, download, chances>>

ForgetFile(r) ==
  /\ request[r].pc = "forget"
  /\ \E ok \in BOOLEAN :
       Works(ok) /\ filed' = IF ok THEN Lacking(filed, Source(r)) ELSE filed
  /\ GoOn(r, "remove")
  /\ UNCHANGED <<disk, quarantine, catalogue, findings, auditVars, layout, download>>

(* The row of the track goes last; what referred to it loses it. *)
ForgetTrack(r) ==
  /\ request[r].pc = "remove" /\ request[r].files = {}
  /\ LET t == Subject(r) IN
     \/ /\ catalogue' = catalogue \ {t} /\ UNCHANGED chances
        /\ filed' = [p \in DOMAIN filed |-> IF filed[p] = t THEN Nothing ELSE filed[p]]
        /\ findings' = {[f EXCEPT !.track = IF @ = t THEN Nothing ELSE @] : f \in findings}
     \/ Draw("failure") /\ UNCHANGED <<filed, catalogue, findings>>
  /\ EndRequest(r)
  /\ UNCHANGED <<disk, quarantine, auditVars, layout, download>>

-----------------------------------------------------------------------------
(* Downloads: a job for a track is what Busy sees; a job for its release   *)
(* is not.  ItemPipeline has them in detail, with the second place a file  *)
(* goes to when another recording is at its own.                           *)

StartDownload(t, track) ==
  /\ download[t] = NoJob /\ Draw("download")
  /\ download' = [download EXCEPT ![t] = [pc |-> "ready", track |-> track]]
  /\ UNCHANGED <<disk, quarantine, filed, catalogue, findings, auditVars, layout, request>>

PlaceDownload(t) ==
  LET p == Canonical[t] IN
  /\ download[t].pc = "ready"
  /\ IF p \notin DOMAIN disk \/ (p \in DOMAIN filed /\ filed[p] = t)
     THEN /\ disk' = With(disk, p, [of |-> t, tags |-> t])
          /\ download' = [download EXCEPT ![t].pc = "placed"]
     ELSE UNCHANGED disk /\ download' = [download EXCEPT ![t] = NoJob]
  /\ UNCHANGED <<quarantine, filed, catalogue, findings, auditVars, layout, request, chances>>

StoreDownload(t) ==
  /\ download[t].pc = "placed"
  /\ catalogue' = catalogue \cup {t}
  /\ filed' = With(filed, Canonical[t], t)
  /\ download' = [download EXCEPT ![t] = NoJob]
  /\ UNCHANGED <<disk, quarantine, findings, auditVars, layout, request, chances>>

-----------------------------------------------------------------------------
(* The audit.  It walks the library, reads the tables, opens the files     *)
(* that it found, and stores findings about what it saw on the way.        *)

Written(n, status, ok) ==
  /\ run' = IF ok THEN [run EXCEPT ![n] = status] ELSE run
  /\ unrecorded' = IF ok THEN unrecorded ELSE unrecorded \cup {n}

(* CompleteRun, whose error is dropped, writes whatever the run was before. *)
Complete(n, status) ==
  \E ok \in BOOLEAN : Works(ok) /\ Written(n, status, ok)

StartAudit(deep) ==
  /\ audit.pc = "idle"
  /\ \A n \in DOMAIN run : run[n] # "running"
  /\ Draw("audit")
  /\ LET n == Cardinality(DOMAIN run) + 1 IN
       /\ run' = With(run, n, "running")
       /\ audit' = [Resting EXCEPT !.pc = "walk", !.run = n, !.deep = deep]
  /\ UNCHANGED <<disk, quarantine, filed, catalogue, findings, unrecorded, layout, request, download>>

AuditGoto(pc) == audit' = [audit EXCEPT !.pc = pc]
AuditLeaves   == audit' = [Resting EXCEPT !.pc = "leave", !.run = audit.run]

(* Between its steps the audit looks whether it was cancelled, until it    *)
(* stores its findings.                                                    *)
AuditStops ==
  /\ audit.pc \in {"read", "inspect", "check"} /\ audit.cancelled
  /\ Complete(audit.run, "cancelled") /\ AuditLeaves
  /\ UNCHANGED <<disk, quarantine, filed, catalogue, findings, layout, request, download>>

(* The walk or a query of the tables fails. *)
AuditFails ==
  /\ audit.pc = "walk" \/ (audit.pc = "read" /\ ~audit.cancelled)
  /\ Draw("failure")
  /\ run' = [run EXCEPT ![audit.run] = "failed"]
  /\ AuditLeaves
  /\ UNCHANGED <<disk, quarantine, filed, catalogue, findings, unrecorded, layout, request, download>>

Walk ==
  /\ audit.pc = "walk"
  /\ audit' = [audit EXCEPT !.walk = DOMAIN disk, !.pc = "read"]
  /\ UNCHANGED <<disk, quarantine, filed, catalogue, findings, run, unrecorded, layout, request, download, chances>>

(* The queries of the tables follow one another and are one step here.     *)
ReadTables ==
  /\ audit.pc = "read" /\ ~audit.cancelled
  /\ audit' = [audit EXCEPT !.rows = filed, !.tracks = catalogue, !.pc = "inspect"]
  /\ UNCHANGED <<disk, quarantine, filed, catalogue, findings, run, unrecorded, layout, request, download, chances>>

FindingOf(code, p, t, expected) ==
  [run |-> audit.run, code |-> code, path |-> p, track |-> t, expected |-> expected, hash |-> Nothing]

TagsAt(p) == IF p \in DOMAIN disk THEN disk[p].tags ELSE Nothing

(* Another file of the track is registered and there, as of now. *)
HasOther(t, p) == \E q \in FilesOf(t) \ {p} : q \in DOMAIN disk

NewFindings ==
  LET listed    == DOMAIN audit.rows
      of(p)     == audit.rows[p]
      untracked == audit.walk \ listed
      known     == {p \in untracked : audit.deep /\ TagsAt(p) \in audit.tracks}
      copies    == {p \in known : HasOther(TagsAt(p), p)}
  IN {FindingOf("missing", p, of(p), p) : p \in listed \ audit.walk}
     \cup {FindingOf("path", p, of(p), Canonical[of(p)]) :
             p \in {q \in listed : of(q) \in audit.tracks /\ Canonical[of(q)] # q}}
     \cup {FindingOf("tags", p, of(p), Nothing) :
             p \in {q \in listed \cap audit.walk : /\ audit.deep /\ of(q) \in audit.tracks
                                                   /\ q \in DOMAIN disk /\ TagsAt(q) # of(q)}}
     \cup {FindingOf("duplicate", p, TagsAt(p), Nothing) : p \in copies}
     \cup {FindingOf("untracked", p, TagsAt(p), Nothing) : p \in known \ copies}
     \cup {FindingOf("untracked", p, Nothing, Nothing) : p \in untracked \ known}

InspectFiles ==
  /\ audit.pc = "inspect" /\ ~audit.cancelled
  /\ audit' = [audit EXCEPT !.new = NewFindings, !.walk = {}, !.rows = << >>, !.tracks = {},
                            !.pc = "check"]
  /\ UNCHANGED <<disk, quarantine, filed, catalogue, findings, run, unrecorded, layout, request, download, chances>>

(* The last look at the cancellation. *)
LastCheck ==
  /\ audit.pc = "check" /\ ~audit.cancelled /\ AuditGoto("store")
  /\ UNCHANGED <<disk, quarantine, filed, catalogue, findings, run, unrecorded, layout, request, download, chances>>

(* InsertFindings: a finding of a track that was deleted meanwhile makes   *)
(* the statement fail.                                                     *)
StoreFindings ==
  /\ audit.pc = "store"
  /\ LET may == \A f \in audit.new : f.track \in catalogue \cup {Nothing} IN
     \/ /\ may /\ findings' = findings \cup audit.new
        /\ audit' = [audit EXCEPT !.new = {}, !.pc = "complete"]
        /\ UNCHANGED <<run, unrecorded, chances>>
     \/ /\ ~may /\ Complete(audit.run, "failed") /\ AuditLeaves /\ UNCHANGED findings
  /\ UNCHANGED <<disk, quarantine, filed, catalogue, layout, request, download>>

Finish ==
  /\ audit.pc = "complete"
  /\ Complete(audit.run, "completed") /\ AuditLeaves
  /\ UNCHANGED <<disk, quarantine, filed, catalogue, findings, layout, request, download>>

LeaveAudit ==
  /\ audit.pc = "leave" /\ audit' = Resting
  /\ UNCHANGED <<disk, quarantine, filed, catalogue, findings, run, unrecorded, layout, request, download, chances>>

CancelAudit(n) ==
  /\ Draw("cancel")
  /\ \E ok \in BOOLEAN : (ok \/ chances.failure > 0) /\ Written(n, "cancelled", ok)
  /\ \/ audit.pc # "idle" /\ audit.run = n /\ audit' = [audit EXCEPT !.cancelled = TRUE]
     \/ audit.run # n /\ run[n] = "running" /\ UNCHANGED audit
  /\ UNCHANGED <<disk, quarantine, filed, catalogue, findings, layout, request, download>>

-----------------------------------------------------------------------------
(* A crash, and the start after it (RecoverRunningRuns, whose error is     *)
(* only not logged).                                                       *)

RecoverRuns ==
  LET running == {n \in DOMAIN run : run[n] = "running"} IN
  \E ok \in BOOLEAN :
    /\ chances' = [chances EXCEPT !.crash = @ - 1, !.failure = IF ok THEN @ ELSE @ - 1]
    /\ chances'.failure >= 0
    /\ run' = IF ok THEN [n \in DOMAIN run |-> IF n \in running THEN "failed" ELSE run[n]] ELSE run
    /\ unrecorded' = IF ok THEN unrecorded ELSE unrecorded \cup running

ServerRestarts ==
  /\ chances.crash > 0
  /\ RecoverRuns
  /\ audit' = Resting
  /\ layout' = {}
  /\ request' = [r \in Caller |-> NoRequest]
  /\ download' = [t \in Song |-> NoJob]
  /\ UNCHANGED <<disk, quarantine, filed, catalogue, findings>>

-----------------------------------------------------------------------------
RepairInit ==
  /\ \E s \in Starts : disk = s.disk /\ filed = s.rows /\ catalogue = s.catalogue /\ chances = s.budget
  /\ quarantine = << >> /\ findings = {} /\ layout = {}
  /\ run = << >> /\ audit = Resting /\ unrecorded = {}
  /\ request = [r \in Caller |-> NoRequest]
  /\ download = [t \in Song |-> NoJob]
  /\ untrue = Untrue /\ crossed = {}

Client ==
  \/ \E f \in findings : Preview(f)
  \/ CheckLayout
  \/ \E r \in Caller :
       \/ \E f \in findings, action \in Actions : Apply(r, f, action)
       \/ \E i \in layout : Reorganize(r, i)
       \/ \E t \in catalogue : Retag(r, t) \/ Delete(r, t)
  \/ \E deep \in BOOLEAN : StartAudit(deep)
  \/ \E n \in DOMAIN run : CancelAudit(n)
  \/ \E t \in Song, track \in BOOLEAN : StartDownload(t, track)

Serve(r) ==
  \/ Fetch(r) \/ LockKey(r)
  \/ ActMove(r) \/ ActReorganize(r) \/ ActRestore(r) \/ ActFiles(r) \/ ActAdopt(r) \/ ActQuarantine(r)
  \/ Link(r) \/ Unlink(r) \/ MoveBack(r)
  \/ FindRow(r) \/ DropRow(r) \/ PutRow(r) \/ Adopt(r) \/ Resolve(r)
  \/ ListFiles(r) \/ ForgetFile(r) \/ ForgetTrack(r)
  \/ \E p \in Place : Tag(r, p) \/ RemoveFile(r, p)

Auditor ==
  Walk \/ ReadTables \/ InspectFiles \/ LastCheck \/ StoreFindings \/ Finish \/ LeaveAudit \/ AuditStops \/ AuditFails

Downloader == \E t \in Song : PlaceDownload(t) \/ StoreDownload(t)

(* The files that a move or a deletion relies on between its steps: those  *)
(* it still removes, and the one that a move leaves instead.               *)
Removing(q) == q.pc \in {"unlink", "remove", "forget"}
Relies(q) ==
  CASE q.pc = "unlink" /\ q.kind = "quarantine" -> {q.work.path}
    [] q.pc = "unlink" /\ q.kind # "quarantine" -> {q.work.path, Canonical[q.work.track]}
    [] q.pc \in {"remove", "forget"} -> q.files
    [] OTHER -> {}
Of(p) == IF p \in DOMAIN disk THEN disk[p].of ELSE Nothing

Crossings ==
  {r \in Caller : /\ Removing(request'[r])
                  /\ \/ r \in crossed
                     \/ request'[r] = request[r] /\ \E p \in Relies(request[r]) : Of(p)' # Of(p)}

RepairNext ==
  /\ Client \/ (\E r \in Caller : Serve(r)) \/ Auditor \/ Downloader \/ ServerRestarts
  /\ untrue' = untrue \cup Untrue'
  /\ crossed' = Crossings

RepairSpec == RepairInit /\ [][RepairNext]_repairVars

-----------------------------------------------------------------------------
(* A deletion takes the files that the rows of its track name, a download  *)
(* replaces the one that a row of its track names.  They take a file of    *)
(* another track only if such a row was not true.                          *)
Acts(r)       == request'[r] # request[r]
Deletes(r, t) == /\ Acts(r) /\ request[r].pc = "remove"
                 /\ Subject(r) = t \/ Subject(r) \in untrue \/ r \in crossed
Overtaken(r)  == Acts(r) /\ request[r].pc = "unlink" /\ r \in crossed
Overwrites(r) == Acts(r) /\ request[r].pc = "back" /\ Source(r) \in DOMAIN disk
Replaces(t)   == download'[t] # download[t] /\ download[t].pc = "ready" /\ t \in untrue

(* No recording disappears: repairs, reorganizations and downloads move    *)
(* and replace files so that a copy of each recording stays in the library *)
(* or in quarantine, through crashes, failing calls and each other         *)
(* (repair.go, compat.go, storage/library.go).  The exceptions are a       *)
(* deletion; a move one of whose two files was written by another call     *)
(* after its link; and a move taken back because a sidecar could not       *)
(* follow, which overwrites what has come to the source (MoveTrack).       *)
NothingLost ==
  [][\A t \in Song : Copies(t) # {} /\ Copies(t)' = {} =>
       \/ \E r \in Caller : Deletes(r, t) \/ Overtaken(r) \/ Overwrites(r)
       \/ \E u \in Song \ {t} : Replaces(u)]_repairVars

(* Two repairs whose files are in each other's places lock source and      *)
(* target in opposite orders, and a repair of a missing file, whose        *)
(* expected path is its path, locks that path twice (repair.go:304-312).   *)
Exchanged(r, s) == s # r /\ Source(r) = Expected(s) /\ Source(s) = Expected(r)
Twice(r, s)     == s = r /\ request[r].work.code = "missing"

(* Whoever holds a lock works, and nobody else waits in a circle.          *)
LocksAreReleased ==
  \A r \in Caller : Waiting(r) =>
    \A s \in Holder(Wants(r)) :
      \/ request[s].pc # "idle" /\ ~(Waiting(s) /\ Wants(s) \in request[r].held)
      \/ Exchanged(r, s) \/ Twice(r, s)

(* A run that is listed as running has an audit at work, or its end could  *)
(* not be written: otherwise no further audit could start.                 *)
RunsAreWorkedOn ==
  \A n \in DOMAIN run : run[n] = "running" =>
    (audit.pc # "idle" /\ audit.run = n) \/ n \in unrecorded

(* Nothing stays blocked by something that is over (repair.go,             *)
(* integrity.go).                                                          *)
NothingStuck == LocksAreReleased /\ RunsAreWorkedOn
=============================================================================
