-------------------------- MODULE MCSubscriptions --------------------------
(* Two artists who share a release, two slots, and a tick that takes one. *)
EXTENDS Subscriptions

CONSTANTS s1, s2, r1

OwnArtist  == [s \in {s1, s2} |-> s]
Shared     == [a \in {s1, s2} |-> {r1}]
SyncBudget == [user |-> 1, fault |-> 2, stop |-> 1]
=============================================================================
