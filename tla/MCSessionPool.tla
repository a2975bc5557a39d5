---------------------------- MODULE MCSessionPool ----------------------------
(***************************************************************************)
(* Instances of SessionPool for TLC.                                       *)
(***************************************************************************)
EXTENDS SessionPool

Bound(r, a, p) == [request |-> r, admin |-> a, pause |-> p]
SomeOfEach == Bound(3, 1, 1)

(* Some caller proceeds whenever one can.  This is weaker than FairSpec, so *)
(* what holds under it holds under FairSpec; TLC checks it much faster.     *)
LeanSpec == Spec /\ WF_vars(\E c \in Caller : Proceed(c))
=============================================================================
