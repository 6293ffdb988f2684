\* Two threads, two calls each, every fault: safety and the refinement.
SPECIFICATION Spec
CONSTANTS
  Thread = {t1, t2}
  Request <- AllRequests
  MaxCount = 2
  MaxOps = 2
  WriteBufferSize = 1
  SmallBatch = 1
  MaxBatch = 3
  L0CompactionTrigger = 1
  L0SlowdownTrigger = 1
  L0StopTrigger = 2
  Faults = TRUE
INVARIANTS FrontOnly NoLostWakeup WorkIsScheduled LayersOrdered BatchAtomic SyncedIfAsked
PROPERTY WritesAreAtomic
