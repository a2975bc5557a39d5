---------------------------- MODULE JobQueueClaims ----------------------------
(***************************************************************************)
(* What the documents of the repository say of the download queue and the  *)
(* code does not keep.                                                     *)
(***************************************************************************)
EXTENDS JobQueue

\* A job that is unfinished and not paused, also one that was paused over a
\* restart and resumed, is eventually closed or paused again
\* (docs/features/downloads.md, per-job pause; queue.go, recover).
ResumedJobCloses ==
  \A j \in Job : (j \in Unfinished) ~> (j \notin Unfinished)
=============================================================================
