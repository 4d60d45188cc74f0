\* A session is shut down and started again under the same id.
CONSTANTS
  Sessions = {s1}
  MaxConcurrentRuns = 1
  MaxRetainedJobs = 1
  MaxGeneration = 3
  MaxJobs = 1
SPECIFICATION Spec
INVARIANT ActiveSessionAdmits
CHECK_DEADLOCK FALSE
