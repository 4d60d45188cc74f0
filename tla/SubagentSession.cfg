\* Four transitions of one session id and two jobs over one lease.
CONSTANTS
  Sessions = {s1}
  MaxConcurrentRuns = 1
  MaxRetainedJobs = 1
  MaxGeneration = 4
  MaxJobs = 2
SPECIFICATION LiveSpec
INVARIANTS
  UnfinishedJobsReachable
  TransitionsKeepOrder
PROPERTIES
  TransitionsEnd
\* All bounds may be used up.
CHECK_DEADLOCK FALSE
