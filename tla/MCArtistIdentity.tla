-------------------------- MODULE MCArtistIdentity --------------------------
(* One name, two ids and a name key of one provider, an id of another. *)
EXTENDS ArtistIdentity

ArtistKeys     == {"d1", "d2", "dx", "s1"}
ArtistProvider == [k \in ArtistKeys |-> IF k = "s1" THEN "spotify" ELSE "deezer"]
OneName        == [k \in ArtistKeys |-> "x"]
ArtistChances  == [download |-> 2, failure |-> 1, reconcile |-> 1, merge |-> 1,
                   subscribe |-> 1]
=============================================================================
