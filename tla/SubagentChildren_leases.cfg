\* Two children, one lease, a retention limit of one, a prompt and an input.
CONSTANTS
  c1 = c1
  c2 = c2
  start1 = start1
  start2 = start2
  prompt1 = prompt1
  Runs = {start1, start2, prompt1}
  Children = {c1, c2}
  Owner <- MC_Owner
  InitialRuns = {start1, start2}
  Inputs = {i1}
  Workspaces = {w1}
  ReadOnly = ReadOnly
  NoRun = NoRun
  MaxConcurrentRuns = 1
  MaxPendingRuns = 1
  MaxRetainedJobs = 1
SPECIFICATION ChildrenSpec
INVARIANTS
  LeaseSpansOperation
  NothingAfterTeardown
\* Every child may have been closed and the supervisor shut down.
CHECK_DEADLOCK FALSE
