------------------------------ MODULE MCJobQueue ------------------------------
(***************************************************************************)
(* Instances of JobQueue for TLC.                                          *)
(***************************************************************************)
EXTENDS JobQueueClaims

OneJob     == {1}
TwoJobs    == {1, 2}
OneItem    == {1}
TwoItems   == {1, 2}
FourItems  == {1, 2, 3, 4}

OfJobOne  == [i \in OneItem |-> 1]       \* one track; a second job has none
BothOfOne == [i \in TwoItems |-> 1]      \* two tracks of one job
TwoOfEach == [i \in FourItems |-> IF i <= 2 THEN 1 ELSE 2]

Releases   == {"resolving_releases"}
Direct     == {}
AllOpen    == {GateNames}
OpenOrShut == {GateNames, {"storage"}, {"window", "provider"}}

Bound(c, w, l) == [crash |-> c, wait |-> w, call |-> l]
NoCall        == Bound(0, 0, 0)
ThreeCalls    == Bound(0, 0, 3)
CrashAndCall  == Bound(1, 0, 1)
OneOfEach     == Bound(1, 1, 1)

(* The jobs were resolved before their downloads may start.                *)
Resolved ==
  /\ job = [j \in Job |-> [status |-> "matching", paused |-> FALSE]]
  /\ item = [i \in Item |-> [NoRow EXCEPT !.status = "pending"]]
  /\ runs = Job /\ announced = {} /\ queue = {}
  /\ resolver = IdleResolver
  /\ dispatcher = IdleDispatcher
  /\ worker = [i \in Item |-> IdleWorker]
  /\ api = IdleApi
  /\ queuePaused = FALSE
  /\ process = "up"
  /\ budget = Budget

ResolvedSpec == Resolved /\ [][Next]_vars
=============================================================================
