----------------------------- MODULE MCFeatures -----------------------------
(***************************************************************************)
(* More services whose properties are all of safety, for TLC in one run: a *)
(* behaviour is one of the module that focus names (see MCServices).       *)
(***************************************************************************)
EXTENDS HealthPersist, Fetch, Playlists, TLC

CONSTANTS s1, s2, a1, a2, c1, c2, c3, A, B, C, D, x, y

VARIABLE focus

featureVars  == <<focus, vars, playlistVars, fetchVars>>

(* Two transactions change a list of three of the four tracks. *)
NoMoves == [k \in {"add", "bulk", "remove", "reorder", "drop", "trash", "restore", "rules",
                   "delete"} |-> 0]
MCInList == <<A, B, C>>
MCMoves ==
  {m @@ NoMoves : m \in {
     "add" :> 1 @@ "drop" :> 1 @@ "reorder" :> 1,
     "bulk" :> 1 @@ "drop" :> 2,
     "drop" :> 2 @@ "remove" :> 1,
     "trash" :> 1 @@ "restore" :> 2 @@ "drop" :> 1,
     "trash" :> 1 @@ "restore" :> 1 @@ "add" :> 1 @@ "reorder" :> 1,
     "reorder" :> 1 @@ "remove" :> 1 @@ "rules" :> 1 @@ "add" :> 1,
     "delete" :> 1 @@ "add" :> 1 @@ "restore" :> 1 @@ "trash" :> 1}}

(* Combined streams over the budget, announced or not, within it, and one  *)
(* that may not be used; and audio, the right one and another.             *)
Media(combined, allowed, bytes, announced, video, exact) ==
  [combined |-> combined, allowed |-> allowed, bytes |-> bytes, announced |-> announced,
   video |-> video, exact |-> exact]
MCStream ==
  {Media(TRUE, TRUE, 2, 0, TRUE, TRUE), Media(TRUE, TRUE, 1, 0, TRUE, TRUE),
   Media(TRUE, TRUE, 2, 2, TRUE, TRUE), Media(TRUE, FALSE, 1, 0, TRUE, TRUE),
   Media(FALSE, TRUE, 2, 0, FALSE, TRUE), Media(FALSE, TRUE, 1, 0, FALSE, FALSE)}
MCBudgets ==
  {b @@ [search |-> 0, extract |-> 0, download |-> 0, age |-> 0] : b \in {
     [search |-> 3], [search |-> 1, extract |-> 2],
     [search |-> 2, age |-> 1], [search |-> 1, extract |-> 1, age |-> 1],
     [search |-> 1, download |-> 1, age |-> 1], [download |-> 2]}}

Symmetry == Permutations({s1, s2}) \cup Permutations({a1, a2}) \cup Permutations({c1, c2, c3})

Resting(f) ==
  /\ f # "playlists" => moves["delete"] = 1
  /\ f # "fetch" => left.search = 3

FeatureInit ==
  /\ Init /\ PlaylistInit /\ FetchInit
  /\ focus \in {"health", "playlists", "fetch"} /\ Resting(focus)

FeatureNext ==
  \/ focus = "health" /\ Next /\ UNCHANGED <<focus, playlistVars, fetchVars>>
  \/ focus = "playlists" /\ PlaylistNext /\ UNCHANGED <<focus, vars, fetchVars>>
  \/ focus = "fetch" /\ FetchNext /\ UNCHANGED <<focus, vars, playlistVars>>

FeatureSpec == FeatureInit /\ [][FeatureNext]_featureVars
=============================================================================
