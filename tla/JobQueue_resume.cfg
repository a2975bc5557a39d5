SPECIFICATION FairSpec

CONSTANTS
  Job <- OneJob
  Item <- OneItem
  JobOf <- OfJobOne
  MaxWorkers = 1
  MaxAttempts = 1
  ResolveStages <- Releases
  Gates <- AllOpen
  Calls = {"pause", "resume", "stop"}
  Budget <- ThreeCalls

PROPERTIES
  ResumedJobCloses

\* All work may be done and all calls be spent: the queue is then at rest.
CHECK_DEADLOCK FALSE
