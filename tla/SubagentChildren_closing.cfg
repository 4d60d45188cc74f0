\* One child, its initial run and two prompts, two inputs: does every close end?
CONSTANTS
  c1 = c1
  c2 = c2
  start1 = start1
  start2 = start2
  prompt1 = prompt1
  Runs = {start1, prompt1, prompt2}
  Children = {c1}
  Owner <- MC_Owner
  InitialRuns = {start1}
  Inputs = {i1, i2}
  NoRun = NoRun
  Workspaces = {w1}
  ReadOnly = ReadOnly
  MaxConcurrentRuns = 1
  MaxPendingRuns = 1
  MaxRetainedJobs = 1
SPECIFICATION ChildrenLiveSpec
PROPERTIES
  ClosingSettles
\* The child may have been closed and the supervisor shut down.
CHECK_DEADLOCK FALSE
