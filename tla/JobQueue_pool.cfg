SPECIFICATION ResolvedSpec

CONSTANTS
  Job <- TwoJobs
  Item <- FourItems
  JobOf <- TwoOfEach
  MaxWorkers = 2
  MaxAttempts = 1
  ResolveStages <- Direct
  Gates <- AllOpen
  Calls = {}
  Budget <- NoCall

INVARIANTS
  ClosedJobsSettled

PROPERTIES
  FairShare

\* All work may be done and all calls be spent: the queue is then at rest.
CHECK_DEADLOCK FALSE
