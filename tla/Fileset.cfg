CONSTANTS
  Thread = {t1, t2}
  Main = main
  None = none
  Count <- Two
  Script <- FileScripts
  MaxFd = 1
  MaxOps = 3
  MaxParalloc = 2
  Setting <- AllSettings
SPECIFICATION FairSpec
INVARIANTS BusyOwned DiskAgrees IdleNotShort EntriesReady
PROPERTIES DeletesUnopened FlowopReturns
