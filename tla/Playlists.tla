------------------------------ MODULE Playlists ------------------------------
(***************************************************************************)
(* The order of a playlist: repository/playlists.go and playlists_tools.go *)
(* change it under a lock of its row; the deletion of a track takes its    *)
(* memberships along and renumbers the rest without that lock              *)
(* (migrations/0012, a trigger); the trash takes a track out of the list   *)
(* and puts it back between its neighbours (repository/trash.go).          *)
(*                                                                         *)
(* Transactions are of the isolation level READ COMMITTED: a statement     *)
(* looks at what was committed when it began and at the transaction's own  *)
(* writes; an update of a row that another transaction has written waits   *)
(* for its end and is decided again for the row as it is then.             *)
(*                                                                         *)
(* One playlist.  Owners, names, favorites and the history are left out.   *)
(***************************************************************************)
EXTENDS Integers, FiniteSets, Sequences

CONSTANTS
  Song, Tx,
  InList,       \* a sequence: the playlist to begin with
  Moves         \* bounds: a set of functions from kinds of calls to their number

ASSUME PlaylistAssumption == IsFiniteSet(Song) /\ InList \in Seq(Song)

VARIABLES
  songs,        \* tracks
  list,         \* playlists: is the playlist kept by hand, smart, or gone
  at,           \* playlist_tracks: the position of each member
  bin,          \* library_trash: the neighbours of each track that is in it
  tx,           \* what each transaction does, and what it has written
  moves

playlistVars == <<songs, list, at, bin, tx, moves>>

(* What a transaction does, where it is, the tracks it was called with, the *)
(* places it is about to write, what it has written, the place of a track  *)
(* that it puts back, where one that it trashes stood; and, for the        *)
(* properties, whether it has read the list as it still is.                *)
NotIn == [in |-> FALSE]
NoTx  == [kind |-> "none", pc |-> "idle", args |-> << >>, plan |-> [s \in {} |-> 0],
          mine |-> [s \in {} |-> 0], place |-> 0, entry |-> NotIn, read |-> "fresh"]
Out   == 0      \* a membership that the transaction deletes

Subject(x)     == Head(tx[x].args)
Members        == DOMAIN at
View(x)        == [s \in {s \in Members \cup DOMAIN tx[x].mine :
                            s \in DOMAIN tx[x].mine => tx[x].mine[s] # Out} |->
                     IF s \in DOMAIN tx[x].mine THEN tx[x].mine[s] ELSE at[s]]
Rank(v, s)     == Cardinality({r \in DOMAIN v : v[r] <= v[s]})
Last(v)        == CHOOSE n \in {0} \cup {v[s] : s \in DOMAIN v} : \A s \in DOMAIN v : v[s] <= n
Put(f, s, v)   == [r \in DOMAIN f \cup {s} |-> IF r = s THEN v ELSE f[r]]
Without(f, s)  == [r \in DOMAIN f \ {s} |-> f[r]]

Goto(x, pc)    == tx' = [tx EXCEPT ![x].pc = pc]
WriteRow(x, s, v, pc) == tx' = [tx EXCEPT ![x].mine = Put(@, s, v), ![x].pc = pc]
Rollback(x)    == tx' = [tx EXCEPT ![x] = NoTx]
Tables         == <<songs, list, at, bin>>

-----------------------------------------------------------------------------
(* Who waits for whom.                                                     *)

HoldsList(x)    == tx[x].kind \in {"add", "bulk", "remove", "reorder", "trash", "restore"}
                   /\ tx[x].pc \notin {"idle", "lock", "own"}
                   /\ (tx[x].kind = "trash" => Subject(x) \in DOMAIN tx[x].mine \cup Members)
Wrote(x, s)     == s \in DOMAIN tx[x].mine
(* The row of the track: held by whoever deletes it or refers to it anew. *)
HoldsSong(x, s) == tx[x].pc \notin {"idle", "lock"} /\
                   \/ tx[x].kind \in {"drop", "trash"} /\ Subject(x) = s
                   \/ Wrote(x, s) /\ s \notin Members

(* The rows that the next statement of x writes. *)
Row(x) == CASE tx[x].pc = "cut"   -> {Subject(x)}
            [] tx[x].pc = "apply" -> DOMAIN tx[x].plan
            [] tx[x].pc = "set"   -> {Subject(x)}
            [] OTHER              -> {}

Blocks(y, x) ==
  /\ x # y
  /\ \/ tx[x].pc = "lock" /\ tx[x].kind \notin {"drop", "trash"} /\ HoldsList(y)
     \/ tx[x].pc = "lock" /\ tx[x].kind \in {"drop", "trash"} /\ HoldsSong(y, Subject(x))
     \/ tx[x].pc = "own" /\ Subject(x) \in Members /\ HoldsList(y)
     \/ tx[x].pc = "insert" /\ tx[x].kind # "restore" /\ HoldsSong(y, Subject(x))
     \/ \E s \in Row(x) : Wrote(y, s)

Free(x) == \A y \in Tx : ~Blocks(y, x)

(* The server ends one of two transactions that wait for each other. *)
Deadlock(x) ==
  /\ \E y \in Tx : Blocks(y, x) /\ Blocks(x, y)
  /\ Rollback(x)
  /\ UNCHANGED <<Tables, moves>>

-----------------------------------------------------------------------------
(* The calls.                                                              *)

Begin(x, kind, args) ==
  /\ tx[x].pc = "idle" /\ moves[kind] > 0
  /\ moves' = [moves EXCEPT ![kind] = @ - 1]
  /\ tx' = [tx EXCEPT ![x] = [NoTx EXCEPT !.kind = kind, !.args = args, !.pc = "lock"]]
  /\ UNCHANGED Tables

AddTrack(x, s)      == Begin(x, "add", <<s>>)
AddTracks(x, q)     == Begin(x, "bulk", q)
RemoveTrack(x, s)   == Begin(x, "remove", <<s>>)
ReorderTracks(x, q) == q # << >> /\ Begin(x, "reorder", q)
DeleteTrack(x, s)   == Begin(x, "drop", <<s>>)
CommitTrash(x, s)   == s \in songs /\ Begin(x, "trash", <<s>>)
RestoreTrash(x, s)  == s \in DOMAIN bin /\ Begin(x, "restore", <<s>>)

(* Mutant: only looks whether the playlist is there. *)
MutLockList(x) ==
  /\ tx[x].pc = "lock" /\ tx[x].kind \in {"add", "bulk", "remove", "reorder"} /\ Free(x)
  /\ IF list = "gone" THEN Rollback(x)
     ELSE CASE tx[x].kind = "add"     -> IF Subject(x) \notin songs \/ Subject(x) \in Members
                                         THEN Rollback(x) ELSE Goto(x, "number")
            [] tx[x].kind = "bulk"    -> Goto(x, "insert")
            [] tx[x].kind = "remove"  -> Goto(x, "cut")
            [] tx[x].kind = "reorder" -> Goto(x, "match")
  /\ UNCHANGED <<Tables, moves>>

(* SELECT ... FOR UPDATE, and what is decided from it. *)
LockList(x) ==
  /\ tx[x].pc = "lock" /\ tx[x].kind \in {"add", "bulk", "remove", "reorder"} /\ Free(x)
  /\ IF list # "manual" THEN Rollback(x)
     ELSE CASE tx[x].kind = "add"     -> IF Subject(x) \notin songs \/ Subject(x) \in Members
                                         THEN Rollback(x) ELSE Goto(x, "number")
            [] tx[x].kind = "bulk"    -> Goto(x, "insert")
            [] tx[x].kind = "remove"  -> Goto(x, "cut")
            [] tx[x].kind = "reorder" -> Goto(x, "match")
  /\ UNCHANGED <<Tables, moves>>

LockSong(x) ==
  /\ tx[x].pc = "lock" /\ tx[x].kind \in {"drop", "trash"} /\ Free(x)
  /\ IF Subject(x) \notin songs THEN Rollback(x)
     ELSE Goto(x, IF tx[x].kind = "drop" THEN "cut" ELSE "own")
  /\ UNCHANGED <<Tables, moves>>

(* CommitTrash locks the playlists of the track and takes down who stands  *)
(* where: next_ids and previous_ids, nearest first.                        *)
Following(s)  == {r \in Members : at[r] > at[s]}
Preceding(s)  == {r \in Members : at[r] < at[s]}
Neighbours(s) ==
  IF s \notin Members THEN NotIn
  ELSE [in |-> TRUE, place |-> at[s], next |-> Following(s), previous |-> Preceding(s), order |-> at]

LockOwn(x) ==
  /\ tx[x].pc = "own" /\ Free(x)
  /\ tx' = [tx EXCEPT ![x].entry = Neighbours(Subject(x)), ![x].pc = "cut"]
  /\ UNCHANGED <<Tables, moves>>

(* DELETE of a membership: by RemoveTrack, or by the foreign key. *)
Cut(x) ==
  /\ tx[x].pc = "cut" /\ Free(x)
  /\ IF Subject(x) \in Members THEN WriteRow(x, Subject(x), Out, "number")
     ELSE IF tx[x].kind = "remove" THEN Rollback(x) ELSE Goto(x, "commit")
  /\ UNCHANGED <<Tables, moves>>

(* ROW_NUMBER() over what the statement sees; rows in their place are left *)
(* alone.  The trigger after a deletion, and the compaction of AddTrack.   *)
Number(x) ==
  LET v == View(x) IN
  /\ tx[x].pc = "number"
  /\ tx' = [tx EXCEPT ![x].pc = "apply",
                      ![x].plan = [s \in {s \in DOMAIN v : v[s] # Rank(v, s)} |-> Rank(v, s)]]
  /\ UNCHANGED <<Tables, moves>>

(* One row of an UPDATE, in any order; a row that is gone is skipped, and  *)
(* what is written follows from the row as it is now.                      *)
NewPlace(x, s) ==
  IF tx[x].kind # "restore" THEN tx[x].plan[s]
  ELSE View(x)[s] + (IF View(x)[s] >= tx[x].place THEN 1 ELSE 0)

Apply(x, s) ==
  /\ tx[x].pc = "apply" /\ s \in DOMAIN tx[x].plan /\ \A y \in Tx \ {x} : ~Wrote(y, s)
  /\ tx' = [tx EXCEPT ![x].plan = Without(@, s),
                      ![x].mine = IF s \in DOMAIN View(x) THEN Put(@, s, NewPlace(x, s)) ELSE @]
  /\ UNCHANGED <<Tables, moves>>

Applied(x) ==
  /\ tx[x].pc = "apply" /\ DOMAIN tx[x].plan = {}
  /\ Goto(x, IF tx[x].kind \in {"add", "restore"} THEN "insert" ELSE "commit")
  /\ UNCHANGED <<Tables, moves>>

(* INSERT at the end, or where a restored track belongs.  A track that is  *)
(* in the list already, or is no more, ends AddTracks or is passed over.   *)
Insert(x) ==
  LET s == Subject(x)
      after == IF Len(tx[x].args) > 1 THEN "insert" ELSE "commit"
      there == IF tx[x].kind = "restore" THEN tx[x].place ELSE Last(View(x)) + 1
  IN
  /\ tx[x].pc = "insert" /\ Free(x)
  /\ IF tx[x].kind # "restore" /\ s \notin songs THEN Rollback(x)
     ELSE tx' = [tx EXCEPT ![x].mine = IF s \in DOMAIN View(x) THEN @ ELSE Put(@, s, there),
                           ![x].args = IF after = "insert" THEN Tail(@) ELSE @,
                           ![x].pc   = after]
  /\ UNCHANGED <<Tables, moves>>

(* ReorderTracks: the ids must be those of the list; then one UPDATE each, *)
(* which may find its row gone.                                            *)
Match(x) ==
  /\ tx[x].pc = "match"
  /\ IF Members = {tx[x].args[n] : n \in DOMAIN tx[x].args}
     THEN tx' = [tx EXCEPT ![x].pc = "set", ![x].place = 1] ELSE Rollback(x)
  /\ UNCHANGED <<Tables, moves>>

SetPlace(x) ==
  /\ tx[x].pc = "set" /\ Free(x)
  /\ tx' = [tx EXCEPT ![x].mine = IF Subject(x) \in Members THEN Put(@, Subject(x), tx[x].place)
                                  ELSE @,
                      ![x].place = @ + 1,
                      ![x].args = IF Len(@) > 1 THEN Tail(@) ELSE @,
                      ![x].pc = IF Len(tx[x].args) > 1 THEN "set" ELSE "commit"]
  /\ UNCHANGED <<Tables, moves>>

-----------------------------------------------------------------------------
(* The way back from the trash.                                            *)

Nearest(S, e) == CHOOSE r \in S : \A q \in S : e.order[r] <= e.order[q]

(* Before the first of its successors that is there, else behind the first *)
(* of its predecessors, else where it stood, if the list is that long.     *)
Anchor(v, e) ==
  LET next == e.next \cap DOMAIN v
      prev == e.previous \cap DOMAIN v
      back == CHOOSE r \in prev : \A q \in prev : e.order[r] >= e.order[q]
  IN CASE next # {} -> v[Nearest(next, e)]
       [] next = {} /\ prev # {} -> v[back] + 1
       [] OTHER -> IF e.place <= Cardinality(DOMAIN v) + 1 THEN e.place
                   ELSE Cardinality(DOMAIN v) + 1

LockRestore(x) ==
  LET e == bin[Subject(x)] IN
  /\ tx[x].pc = "lock" /\ tx[x].kind = "restore" /\ Free(x)
  /\ IF Subject(x) \notin DOMAIN bin THEN Rollback(x)
     ELSE IF ~e.in \/ list = "gone" THEN Goto(x, "commit")
     ELSE tx' = [tx EXCEPT ![x].pc = "shift", ![x].place = Anchor(at, e)]
  /\ UNCHANGED <<Tables, moves>>

(* The rows from there on make room. *)
Shift(x) ==
  /\ tx[x].pc = "shift"
  /\ tx' = [tx EXCEPT ![x].pc = "apply",
                      ![x].plan = [s \in {s \in Members : at[s] >= tx[x].place} |-> at[s] + 1]]
  /\ UNCHANGED <<Tables, moves>>

-----------------------------------------------------------------------------
(* The end of a transaction.  The positions of a list must differ, which   *)
(* is looked at now: a row that another transaction is changing is waited  *)
(* for (Settled), one that stays makes the commit fail.                    *)

Twin(x, s)  == \E r \in DOMAIN View(x) \ {s} : View(x)[r] = View(x)[s]
Unique(x)   == \A s \in DOMAIN tx[x].mine \cap DOMAIN View(x) : ~Twin(x, s)
Settled(x)  == \A s \in DOMAIN tx[x].mine \cap DOMAIN View(x) :
                 \A y \in Tx \ {x} : \A r \in DOMAIN tx[y].mine :
                   View(x)[s] # tx[y].mine[r] /\ (r \in Members => View(x)[s] # at[r])

(* History: x commits what it has written while y is at work.  What y is   *)
(* about to write it has read before, and it is stale now: if both only    *)
(* take tracks out, y will leave gaps; else, or where a stale renumbering  *)
(* meets an insertion, the places of y may be wrong.                       *)
Deletes(x)    == tx[x].kind \in {"remove", "drop", "trash"}
Confuses(x, y) ==
  \/ tx[x].read = "wrong" /\ tx[y].pc \in {"apply", "insert", "commit"}
  \/ tx[y].pc = "apply" /\ ~(Deletes(x) /\ Deletes(y))
  \/ tx[x].read = "stale" /\ tx[y].pc \in {"insert", "commit"} /\ ~Deletes(y)
  \/ tx[y].read = "stale" /\ tx[y].pc = "commit" /\ ~Deletes(x)
Read(x, y) ==
  IF ~Unique(x) \/ DOMAIN tx[x].mine = {} \/ tx[y].read = "wrong" THEN tx[y].read
  ELSE IF Confuses(x, y) THEN "wrong"
  ELSE IF tx[y].pc = "apply" THEN "stale" ELSE tx[y].read

Commit(x) ==
  /\ tx[x].pc = "commit" /\ Settled(x)
  /\ tx' = [y \in Tx |-> IF y = x THEN NoTx
                         ELSE [tx[y] EXCEPT !.read = Read(x, y)]]
  /\ IF Unique(x)
     THEN /\ at' = IF list = "gone" THEN at ELSE View(x)
          /\ songs' = CASE tx[x].kind \in {"drop", "trash"} -> songs \ {Subject(x)}
                        [] tx[x].kind = "restore" -> songs \cup {Subject(x)}
                        [] OTHER -> songs
          /\ bin' = CASE tx[x].kind = "trash" -> Put(bin, Subject(x), tx[x].entry)
                      [] tx[x].kind = "restore" -> Without(bin, Subject(x))
                      [] OTHER -> bin
     ELSE UNCHANGED <<songs, at, bin>>
  /\ UNCHANGED <<list, moves>>

(* SetSmartRules: a single statement, which waits for the lock. *)
SetSmartRules ==
  /\ list # "gone" /\ moves["rules"] > 0 /\ \A x \in Tx : ~HoldsList(x)
  /\ moves' = [moves EXCEPT !["rules"] = @ - 1]
  /\ list' = IF list = "manual" THEN "smart" ELSE "manual"
  /\ UNCHANGED <<songs, at, bin, tx>>

(* DeletePlaylist: the memberships go with it. *)
DeletePlaylist ==
  /\ list # "gone" /\ moves["delete"] > 0
  /\ \A x \in Tx : ~HoldsList(x) /\ DOMAIN tx[x].mine \cap Members = {}
  /\ moves' = [moves EXCEPT !["delete"] = @ - 1]
  /\ list' = "gone" /\ at' = [s \in {} |-> 0]
  /\ UNCHANGED <<songs, bin, tx>>

-----------------------------------------------------------------------------

PlaylistInit ==
  /\ songs = Song /\ list = "manual"
  /\ at = [s \in {InList[n] : n \in DOMAIN InList} |-> CHOOSE n \in DOMAIN InList : InList[n] = s]
  /\ bin = [s \in {} |-> NoTx]
  /\ tx = [x \in Tx |-> NoTx]
  /\ moves \in Moves

Orders(S) == {q \in [1..Cardinality(S) -> S] : \A m, n \in DOMAIN q : q[m] = q[n] => m = n}

Asks(x) ==
  \/ \E s \in Song : \/ AddTrack(x, s) \/ RemoveTrack(x, s) \/ DeleteTrack(x, s)
                     \/ CommitTrash(x, s) \/ RestoreTrash(x, s)
  \/ \E s, r \in Song : s # r /\ AddTracks(x, <<s, r>>)
  \/ \E q \in Orders(Members) : ReorderTracks(x, q)

Step(x) ==
  \/ LockList(x) \/ LockSong(x) \/ LockOwn(x) \/ LockRestore(x) \/ Shift(x)
  \/ Cut(x) \/ Number(x) \/ Applied(x) \/ Insert(x) \/ Match(x) \/ SetPlace(x)
  \/ Commit(x) \/ Deadlock(x)
  \/ \E s \in Song : Apply(x, s)

PlaylistNext == (\E x \in Tx : Asks(x) \/ Step(x)) \/ SetSmartRules \/ DeletePlaylist

PlaylistSpec == PlaylistInit /\ [][PlaylistNext]_playlistVars

-----------------------------------------------------------------------------
(* Properties.                                                             *)

Before(f, s, r) == f[s] < f[r]
Commits(x)      == tx[x].pc = "commit" /\ tx'[x].pc = "idle"
Wrong(x)        == Commits(x) /\ tx[x].read = "wrong"
Reordered(x)    == Commits(x) /\ tx[x].kind = "reorder"
Added(x)        == Commits(x) /\ tx[x].kind \in {"add", "bulk"}

\* Whatever calls meet, two tracks of a playlist keep their order unless a call
\* reorders the list, no two have one position, and what is added by hand comes
\* after what was there, and never into a smart list (playlists.go).  The trigger
\* of migration 0012 renumbers without the lock of the list what it has read: two
\* deletions at a time do no harm, but where another call commits between what
\* one has read and what it writes, the order is not kept.
OrderKept ==
  [][/\ \A s, r \in Members \cap DOMAIN at' :
          Before(at, s, r) = Before(at', s, r) \/ \E x \in Tx : Reordered(x) \/ Wrong(x)
     /\ \A s, r \in DOMAIN at' : at'[s] = at'[r] => s = r
     /\ \A x \in Tx, s \in DOMAIN at' \ Members : Added(x) =>
          list = "manual" /\ (Wrong(x) \/ \A r \in Members \cap DOMAIN at' : Before(at', r, s))
    ]_playlistVars
=============================================================================
