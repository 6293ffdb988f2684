\* filebench's components, each by itself.  Scripts end: a component comes to rest.
SPECIFICATION FilebenchSpec
CONSTANTS
  PoolTypes <- BothPools
  Objects = 2
  ObjectSize = 2
  StringMem = 3
  HeapMem = 2
  Lengths <- TextLengths
  Client <- Clients
  ThreadMem = 2
  IsmFaults <- SomeFaults
INVARIANTS TreeIsBalancedSet ValuesAsScripted FlowopsMirrorScript LimitsHold
PROPERTIES SharedMemoryExact FileFlowopsExact
CHECK_DEADLOCK FALSE
