\* Four runs compete for two leases and a queue of one; no retained children.
CONSTANTS
  Runs = {r1, r2, r3, r4}
  Workspaces = {w1, w2}
  ReadOnly = ReadOnly
  Children = {}
  MaxConcurrentRuns = 2
  MaxPendingRuns = 1
  MaxRetainedJobs = 1
SPECIFICATION Spec
SYMMETRY Identities
INVARIANTS
  LeaseExclusion
  NoStartableWaiter
  ShutdownReachesEveryRun
PROPERTIES
  NoUnjustOvertaking
  ImplementsLeases
\* Every run may have been settled and the supervisor shut down.
CHECK_DEADLOCK FALSE
