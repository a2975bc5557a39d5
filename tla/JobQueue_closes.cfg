SPECIFICATION FairSpec

CONSTANTS
  Job <- TwoJobs
  Item <- OneItem
  JobOf <- OfJobOne
  MaxWorkers = 1
  MaxAttempts = 2
  ResolveStages <- Direct
  Gates <- AllOpen
  Calls = {"cancel", "wake", "stop"}
  Budget <- OneOfEach

PROPERTIES
  JobCloses

\* All work may be done and all calls be spent: the queue is then at rest.
CHECK_DEADLOCK FALSE
