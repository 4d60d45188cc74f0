\* Two runs for one lease, two children of which one may be retained: eviction,
\* its failures, and the end of every wait.
CONSTANTS
  Runs = {r1, r2}
  Workspaces = {w1}
  ReadOnly = ReadOnly
  Children = {c1, c2}
  MaxConcurrentRuns = 1
  MaxPendingRuns = 1
  MaxRetainedJobs = 1
SPECIFICATION LiveSpec
INVARIANTS
  TypeOK
  IdleWithinRetention
  ShutdownOwnsEverything
PROPERTIES
  WaitsEnd
\* Every run may have been settled and the supervisor shut down.
CHECK_DEADLOCK FALSE
