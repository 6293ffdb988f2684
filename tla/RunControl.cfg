\* One run of filebench from parser_run to the exit of the master.  The run
\* ends, and so does the behaviour.
SPECIFICATION Spec
CONSTANTS
  Procs <- TwoProcs
  Thread = {"t1", "t2"}
  RunSettings <- Settings
  MaxOps = 1
  WaitSeconds = 3
INVARIANT RunInStep
PROPERTY RunEnds
CHECK_DEADLOCK FALSE
