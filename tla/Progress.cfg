\* What has to happen eventually, component by component.  A component may
\* come to rest: behaviours end when every call has been made.
SPECIFICATION Spec
PROPERTIES WritesReturn ScheduledRuns BenchmarkReports WaitersReleased
CHECK_DEADLOCK FALSE
