----------------------------- MODULE MCServices -----------------------------
(***************************************************************************)
(* The services whose properties are all of safety, for TLC in one run: a  *)
(* behaviour is one of the module that focus names.  The modules share no  *)
(* variable and every property is about one of them, so that what holds of *)
(* these behaviours holds of each module by itself.                        *)
(***************************************************************************)
EXTENDS MCMediaResolution, ArtistIdentity, Accounts, LibraryRepair

CONSTANTS a1, a2, t1, t2, t3

VARIABLE focus

serviceVars == <<focus, vars, artistVars, accountVars, repairVars>>

(* One name, two ids and the name key of one provider. *)
MCKey        == {"d1", "d2", "dx"}
MCProviderOf == [k \in MCKey |-> "deezer"]
MCNameOf     == [k \in MCKey |-> "x"]
MCChances    == [download |-> 2, failure |-> 2, reconcile |-> 1, merge |-> 1, subscribe |-> 1]

(* Either two users whom administrators change, or a device. *)
MCBudgets ==
  {[setup |-> 2, admin |-> 3, login |-> 0, device |-> 0, failure |-> 1],
   [setup |-> 1, admin |-> 2, login |-> 0, device |-> 2, failure |-> 1],
   [setup |-> 1, admin |-> 0, login |-> 1, device |-> 2, failure |-> 1]}

(* Of three tracks the first and the third have one canonical place.  A    *)
(* library whose two files are in each other's place; one with a row whose *)
(* file is elsewhere; one with a file that has the tags of another track   *)
(* and a copy that has no row; one with a file that is only misplaced; one *)
(* with the two tracks of one place; one with a file whose place a row of  *)
(* another track names, which has none.                                    *)
File(t, tags) == [of |-> t, tags |-> tags]
Swapped   == [disk |-> ("pa" :> File(t2, t2)) @@ ("pb" :> File(t1, t1)),
              rows |-> ("pa" :> t2) @@ ("pb" :> t1), catalogue |-> {t1, t2}]
Missing   == [disk |-> ("pc" :> File(t1, t1)), rows |-> ("pb" :> t1), catalogue |-> {t1, t2}]
Mistagged == [disk |-> ("pb" :> File(t1, t2)) @@ ("pc" :> File(t1, t1)),
              rows |-> ("pb" :> t1), catalogue |-> {t1, t2}]
Misplaced == [disk |-> ("pb" :> File(t1, t1)), rows |-> ("pb" :> t1), catalogue |-> {t1}]
Twins     == [disk |-> ("pb" :> File(t1, t1)) @@ ("pc" :> File(t3, t3)),
              rows |-> ("pb" :> t1) @@ ("pc" :> t3), catalogue |-> {t1, t3}]
Orphaned  == [disk |-> ("pb" :> File(t1, t1)), rows |-> ("pb" :> t1) @@ ("pa" :> t3),
              catalogue |-> {t1, t3}]

NoChance == [audit |-> 0, repair |-> 0, call |-> 0, preview |-> 0, download |-> 0, cancel |-> 0,
             failure |-> 0, crash |-> 0]
Begins(library, chance) == [disk |-> library.disk, rows |-> library.rows,
                          catalogue |-> library.catalogue, budget |-> chance @@ NoChance]

Libraries ==
  {Begins(Swapped, [audit |-> 1, repair |-> 2]),
   Begins(Missing, [call |-> 3, download |-> 1, failure |-> 1]),
   Begins(Twins, [call |-> 3, download |-> 1, failure |-> 1]),
   Begins(Misplaced, [audit |-> 1, repair |-> 2, preview |-> 1, crash |-> 1]),
   Begins(Mistagged, [audit |-> 1, repair |-> 1, preview |-> 1, crash |-> 1]),
   Begins(Mistagged, [audit |-> 1, repair |-> 2, failure |-> 1]),
   Begins(Mistagged, [audit |-> 1, repair |-> 1, download |-> 1]),
   Begins(Mistagged, [audit |-> 1, repair |-> 1, call |-> 1]),
   Begins(Mistagged, [call |-> 2, download |-> 1]),
   Begins(Orphaned, [call |-> 2, download |-> 1]),
   Begins(Mistagged, [audit |-> 2, cancel |-> 1, failure |-> 1, crash |-> 1])}

MCCanonical == (t1 :> "pa") @@ (t2 :> "pb") @@ (t3 :> "pa")

Symmetry == Permutations({a1, a2}) \cup Permutations(Session)

Rests(f) ==
  /\ f # "media"   => health = [s \in Session |-> "none"]
  /\ f # "artists" => Cardinality(DOMAIN rows) = 0
  /\ f # "accounts" => callsLeft.setup = 2
  /\ f # "files" => chances.audit = 2

ServiceInit ==
  /\ Init /\ ArtistInit /\ AccountInit /\ RepairInit
  /\ focus \in {"media", "artists", "accounts", "files"} /\ Rests(focus)

ServiceNext ==
  \/ focus = "media" /\ Next /\ UNCHANGED <<focus, artistVars, accountVars, repairVars>>
  \/ focus = "artists" /\ ArtistNext /\ UNCHANGED <<focus, vars, accountVars, repairVars>>
  \/ focus = "accounts" /\ AccountNext /\ UNCHANGED <<focus, vars, artistVars, repairVars>>
  \/ focus = "files" /\ RepairNext /\ UNCHANGED <<focus, vars, artistVars, accountVars>>

ServiceSpec == ServiceInit /\ [][ServiceNext]_serviceVars
=============================================================================
