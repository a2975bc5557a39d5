-------------------------- MODULE MCMediaResolution --------------------------
(***************************************************************************)
(* Instances of MediaResolution for TLC.                                   *)
(***************************************************************************)
EXTENDS MediaResolution

(* v1 is the video the catalogue names; the searches may find it again. *)
MCRanked == [youtube |-> {<<"v1", "v2">>}, soundcloud |-> {<<"w1">>}]

MCBudget == [attempt |-> 2, block |-> 1, fault |-> 1]
=============================================================================
