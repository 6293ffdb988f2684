\* The parts of leveldb around DBImpl, each by itself.  Calls are bounded: a
\* component comes to rest.
SPECIFICATION LayersSpec
CONSTANTS
  Process <- Processes
  Client <- Clients
  ProcessOf <- Owner
  LockSettings <- SomeLocks
  MaxCalls = 4
  NoProcess = "none"
INVARIANTS FilesHoldAppends ReadersShareTables LockExcludes ReadersBesideWriter
  FormatsReadBack RepairKeepsEntries
PROPERTY IteratorsAreCursors
CHECK_DEADLOCK FALSE
