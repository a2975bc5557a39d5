SPECIFICATION Spec

CONSTANTS
  Job <- OneJob
  Item <- TwoItems
  JobOf <- BothOfOne
  MaxWorkers = 2
  MaxAttempts = 1
  ResolveStages <- Releases
  Gates <- OpenOrShut
  Calls = {"cancel", "abort", "pause", "resume", "retry_item", "retry_failed", "wake", "queue_pause", "stop"}
  Budget <- CrashAndCall

INVARIANTS
  NoPhantomWork
  OnlyExplicitCancel

PROPERTIES
  LifecycleSpec

\* All work may be done and all calls be spent: the queue is then at rest.
CHECK_DEADLOCK FALSE
