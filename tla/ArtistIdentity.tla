---------------------------- MODULE ArtistIdentity ----------------------------
(***************************************************************************)
(* Who an artist of the library is: the rows of artists, the identities    *)
(* artist_sources keeps of them, the downloads that find or create a row   *)
(* (repository/catalog.go, PersistDownload), and the two maintenance       *)
(* commands of ytmdlctl that fold rows into one another while the backend  *)
(* is stopped: reconcile-artists, which decides by itself, and             *)
(* merge-artists, where the operator names the rows (internal/reconcile).  *)
(*                                                                         *)
(* A key is a provider with a source id, external or made from the name.   *)
(* A transaction of a download reads at Lookup and writes at Commit: it    *)
(* holds the locks of what it writes until then.  Artwork and genres are   *)
(* left out.                                                               *)
(***************************************************************************)
EXTENDS Integers, FiniteSets

CONSTANTS
  Key,          \* pairs of provider and source id
  External,     \* the keys with an id of the provider; the others hold a name
  ProviderOf, NameOf,
  NameKey,      \* the key a download makes of its album artist
  Track,        \* recordings that are downloaded, all of one release
  Loader,       \* workers that download
  MaxRows,      \* bound: rows of artists there ever are
  Chances       \* bound: downloads, failures and crashes, commands by kind, subscriptions

(* The keys and the tracks are finitely many, and there is room for the    *)
(* rows of a library of an earlier version.                                *)
ASSUME ArtistAssumption ==
  /\ IsFiniteSet(Key) /\ External \subseteq Key /\ NameKey \in Key
  /\ IsFiniteSet(Track)
  /\ MaxRows \in Nat /\ Cardinality(Key) <= MaxRows

VARIABLES
  rows,         \* artists: the key each row was created with
  sources,      \* artist_sources: the row of each key that is known
  works,        \* artist_id of the tracks and of the release, 0 before the first
  subscribed,   \* the keys of artist_subscriptions
  tx,           \* the download of each worker between its lookup and its commit
  backend,      \* whether the backend runs
  command,      \* the ytmdlctl process that holds the lock, and its next step
  chancesLeft

artistVars == <<rows, sources, works, subscribed, tx, backend, command, chancesLeft>>
artistRows == <<rows, sources, works>>

Release == "release"
Work    == Track \cup {Release}
Rows    == DOMAIN rows
NewRow  == CHOOSE n \in 1..(MaxRows + 1) : \A a \in Rows : a < n

NoTx      == [pc |-> "idle", track |-> Release, artist |-> 0]
NoCommand == [pc |-> "idle", kind |-> "reconcile", plan |-> {}, joined |-> {}]

SpendChance(e) == chancesLeft[e] > 0 /\ chancesLeft' = [chancesLeft EXCEPT ![e] = @ - 1]

-----------------------------------------------------------------------------
(* Identity: internal/artistidentity and reconcile.go, Analyze.            *)

Provider(a) == ProviderOf[rows[a]]
Genuine(a)  == rows[a] \in External
HasSub(a)   == rows[a] \in subscribed
Items(a)    == Cardinality({w \in Work : works[w] = a})

(* Rows are numbered in the order they were created. *)
IsBetterCandidate(a, b) ==
  CASE HasSub(a) # HasSub(b)   -> HasSub(a)
    [] Genuine(a) # Genuine(b) -> Genuine(a)
    [] Items(a) # Items(b)     -> Items(a) > Items(b)
    [] OTHER                   -> a < b

Group(w, D) == [winner |-> w, dups |-> D]

Namesakes(a) == {b \in Rows : NameOf[rows[b]] = NameOf[rows[a]]}

Ambiguous(C) ==
  \E a, b \in C :
    \/ Provider(a) # Provider(b)
    \/ Genuine(a) /\ Genuine(b) /\ rows[a] # rows[b]

Proved ==
  {g \in {LET C == Namesakes(a)
              w == CHOOSE b \in C : \A c \in C \ {b} : IsBetterCandidate(b, c)
          IN Group(w, {c \in C \ {w} : ~Genuine(c)})
          : a \in {b \in Rows : ~Ambiguous(Namesakes(b))}} : g.dups # {}}

(* What merge-artists refuses; it looks at the key of a row, not at the    *)
(* further sources the row has.                                            *)
Separate(w, D) ==
  \E a, b \in D \cup {w} : Genuine(a) /\ Genuine(b) /\ Provider(a) = Provider(b) /\ rows[a] # rows[b]

-----------------------------------------------------------------------------
(* Downloads: worker.go, persist; catalog.go, upsertArtistIdentity.        *)

(* The rows a subscription of that name leads to. *)
OfSubscription ==
  {sources[k] : k \in {s \in subscribed \cap DOMAIN sources :
                         ProviderOf[s] = ProviderOf[NameKey] /\ NameOf[s] = NameOf[NameKey]}}

(* Every row got a source when the table was introduced or when the row   *)
(* was created, so that the search by the key of the row finds no more.    *)
Found(target) ==
  IF target \in DOMAIN sources THEN {sources[target]}
  ELSE IF NameKey \in DOMAIN sources THEN {sources[NameKey]}
  ELSE IF OfSubscription # {} THEN OfSubscription
  ELSE {0}

Lookup(w, t) ==
  /\ backend /\ tx[w].pc = "idle" /\ \A v \in Loader : tx[v].track # t
  /\ SpendChance("download")
  /\ \E target \in External \cup {NameKey} : \E a \in Found(target) :
       tx' = [tx EXCEPT ![w] = [pc |-> "found", track |-> t, artist |-> a]]
  /\ UNCHANGED <<artistRows, subscribed, backend, command>>

(* upsertTrack keeps the artist a track has, upsertRelease does not. *)
Credit(t, a) ==
  works' = [works EXCEPT ![Release] = a, ![t] = IF @ = 0 THEN a ELSE @]

(* An artist that was found gets the key unless another row has it.        *)
CommitFound(w) ==
  LET a == tx[w].artist IN
  /\ tx[w].pc = "found" /\ a # 0
  /\ sources' = [k \in DOMAIN sources \cup {NameKey} |->
                   IF k \in DOMAIN sources THEN sources[k] ELSE a]
  /\ Credit(tx[w].track, a)
  /\ UNCHANGED rows

(* A new row takes its key over from one that was committed meanwhile.     *)
CommitNew(w) ==
  /\ tx[w].pc = "found" /\ tx[w].artist = 0
  /\ NewRow <= MaxRows
  /\ rows' = [a \in Rows \cup {NewRow} |-> IF a = NewRow THEN NameKey ELSE rows[a]]
  /\ sources' = [k \in DOMAIN sources \cup {NameKey} |->
                   IF k = NameKey THEN NewRow ELSE sources[k]]
  /\ Credit(tx[w].track, NewRow)

Commit(w) ==
  /\ CommitFound(w) \/ CommitNew(w)
  /\ tx' = [tx EXCEPT ![w] = NoTx]
  /\ UNCHANGED <<subscribed, backend, command, chancesLeft>>

Rollback(w) ==
  /\ tx[w].pc # "idle" /\ SpendChance("failure")
  /\ tx' = [tx EXCEPT ![w] = NoTx]
  /\ UNCHANGED <<artistRows, subscribed, backend, command>>

Subscribe(k) ==
  /\ backend /\ k \notin subscribed /\ SpendChance("subscribe")
  /\ subscribed' = subscribed \cup {k}
  /\ UNCHANGED <<artistRows, tx, backend, command>>

-----------------------------------------------------------------------------
(* The commands: main.go, runReconcileArtists and runMergeArtists.         *)

Proceed(pc) == command' = [command EXCEPT !.pc = pc]

(* Under the lock.  A look at the active jobs of the backend refuses some  *)
(* calls, and keeps no job from starting afterwards.                       *)
Reconcile ==
  /\ command.pc = "idle" /\ SpendChance("reconcile")
  /\ command' = [NoCommand EXCEPT !.pc = "stop"]
  /\ UNCHANGED <<artistRows, subscribed, tx, backend>>

(* The rows are read and checked before the operator confirms. *)
Merge ==
  /\ command.pc = "idle" /\ SpendChance("merge")
  /\ \E w \in Rows : \E D \in SUBSET (Rows \ {w}) \ {{}} :
       /\ ~Separate(w, D)
       /\ command' = [NoCommand EXCEPT !.pc = "stop", !.kind = "merge", !.plan = {Group(w, D)}]
  /\ UNCHANGED <<artistRows, subscribed, tx, backend>>

(* Mutant: the rows are folded while downloads go on. *)
MutStopBackend ==
  /\ command.pc = "stop"
  /\ Proceed("backup")
  /\ UNCHANGED <<artistRows, subscribed, tx, backend, chancesLeft>>

(* Its transactions end with the backend. *)
StopBackend ==
  /\ command.pc = "stop"
  /\ Proceed("backup")
  /\ backend' = FALSE
  /\ tx' = [w \in Loader |-> NoTx]
  /\ UNCHANGED <<artistRows, subscribed, chancesLeft>>

StopFails ==
  /\ command.pc = "stop" /\ SpendChance("failure")
  /\ command' = NoCommand
  /\ UNCHANGED <<artistRows, subscribed, tx, backend>>

Backup ==
  /\ command.pc = "backup"
  /\ Proceed(IF command.kind = "merge" THEN "fold" ELSE "plan")
  /\ UNCHANGED <<artistRows, subscribed, tx, backend, chancesLeft>>

Plan ==
  /\ command.pc = "plan"
  /\ command' = [command EXCEPT !.pc = "fold", !.plan = Proved]
  /\ UNCHANGED <<artistRows, subscribed, tx, backend, chancesLeft>>

Joined(g) == {k \in DOMAIN sources : sources[k] \in g.dups \cup {g.winner}}

(* Mutant: the sources of the duplicates are not handed over; they go with *)
(* the rows.                                                               *)
MutFold(g) ==
  /\ rows' = [a \in Rows \ g.dups |-> rows[a]]
  /\ works' = [w \in Work |-> IF works[w] \in g.dups THEN g.winner ELSE works[w]]
  /\ sources' = [k \in {l \in DOMAIN sources : sources[l] \notin g.dups} |-> sources[k]]

(* One transaction.  No key of a duplicate is a key of the winner too. *)
Fold(g) ==
  /\ rows' = [a \in Rows \ g.dups |-> rows[a]]
  /\ works' = [w \in Work |-> IF works[w] \in g.dups THEN g.winner ELSE works[w]]
  /\ sources' = [k \in DOMAIN sources |-> IF sources[k] \in g.dups THEN g.winner ELSE sources[k]]

MergeGroup(g) ==
  /\ command.pc = "fold" /\ g \in command.plan
  /\ Fold(g)
  /\ command' = [command EXCEPT !.plan = @ \ {g},
                   !.joined = IF command.kind = "reconcile" THEN @ \cup {Joined(g)} ELSE @]
  /\ UNCHANGED <<subscribed, tx, backend, chancesLeft>>

Dangling == {w \in Work : works[w] # 0 /\ works[w] \notin Rows}

(* VerifyIntegrity, and for reconcile-artists another analysis. *)
Verify ==
  /\ command.pc = "fold" /\ command.plan = {}
  /\ Proceed(IF Dangling # {} \/ (command.kind = "reconcile" /\ Proved # {})
           THEN "restore" ELSE "start")
  /\ UNCHANGED <<artistRows, subscribed, tx, backend, chancesLeft>>

(* The step returns an error; the deferred function brings the backend back. *)
StepFails ==
  /\ command.pc \in {"backup", "plan", "fold", "start"} /\ SpendChance("failure")
  /\ Proceed("restore")
  /\ UNCHANGED <<artistRows, subscribed, tx, backend>>

UpBackend ==
  /\ command.pc \in {"start", "restore"}
  /\ backend' = TRUE
  /\ command' = NoCommand
  /\ UNCHANGED <<artistRows, subscribed, tx, chancesLeft>>

(* Its error is dropped. *)
RestoreFails ==
  /\ command.pc = "restore" /\ SpendChance("failure")
  /\ command' = NoCommand
  /\ UNCHANGED <<artistRows, subscribed, tx, backend>>

Crash ==
  /\ command.pc # "idle" /\ SpendChance("failure")
  /\ command' = NoCommand
  /\ UNCHANGED <<artistRows, subscribed, tx, backend>>

(* The operator starts what a command left stopped. *)
StartByHand ==
  /\ command.pc = "idle" /\ ~backend
  /\ backend' = TRUE
  /\ UNCHANGED <<artistRows, subscribed, tx, command, chancesLeft>>

-----------------------------------------------------------------------------

(* A library of an earlier version: one row for each of some keys, as the *)
(* migration found them, and works that may belong to one.                *)
ArtistInit ==
  /\ \E K \in SUBSET Key :
       rows = CHOOSE f \in [1..Cardinality(K) -> K] : \A k \in K : \E a \in DOMAIN f : f[a] = k
  /\ sources = [k \in {rows[a] : a \in Rows} |-> CHOOSE a \in Rows : rows[a] = k]
  /\ \E a \in Rows \cup {0} : works = [w \in Work |-> a]
  /\ subscribed = {}
  /\ tx = [w \in Loader |-> NoTx]
  /\ backend = TRUE
  /\ command = NoCommand
  /\ chancesLeft = Chances

ArtistNext ==
  \/ \E w \in Loader : (\E t \in Track : Lookup(w, t)) \/ Commit(w) \/ Rollback(w)
  \/ \E k \in External : Subscribe(k)
  \/ Reconcile \/ Merge \/ StopBackend \/ StopFails \/ Backup \/ Plan
  \/ \E g \in command.plan : MergeGroup(g)
  \/ Verify \/ StepFails \/ UpBackend \/ RestoreFails \/ Crash \/ StartByHand

ArtistSpec == ArtistInit /\ [][ArtistNext]_artistVars

-----------------------------------------------------------------------------
(* Properties.                                                             *)

\* An identity that is known stays known and leads to a row that exists, and
\* no work loses its artist: the foreign keys would cascade or be set to null
\* when a row goes before what points at it (identity.go, "Real external
\* provider IDs must NEVER be lost"; catalog.go, mergeArtistsTx).
IdentitiesKept ==
  [][/\ DOMAIN sources \subseteq DOMAIN sources'
     /\ \A k \in DOMAIN sources' : sources'[k] \in DOMAIN rows'
     /\ \A w \in Work : works[w] # 0 => works'[w] \in DOMAIN rows']_artistVars

\* What reconcile-artists has folded leaves nothing to fold: the analysis at
\* its end never fails a run that did all its merges (reconcile.go, Run; main.go
\* stops the backend so that no download comes in between).
Reconciled ==
  command.pc = "fold" /\ command.kind = "reconcile" /\ command.plan = {} => Proved = {}

\* No merge that the program decides by itself gives one artist two ids of a
\* provider (identity.go, invariant 2).
NamesakesApart ==
  \A J \in command.joined : \A k, l \in J \cap External :
    ProviderOf[k] = ProviderOf[l] => k = l
=============================================================================
