CONSTANTS
  Thread = {t1, t2, t3}
  Main = main
  None = none
  Count <- Small
  Script <- DirScripts
  MaxFd = 0
  MaxOps = 2
  MaxParalloc = 2
  Setting <- Done
SPECIFICATION FairSpec
PROPERTIES FlowopReturns
CHECK_DEADLOCK FALSE
