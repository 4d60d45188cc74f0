\* Binding: two processes in the first window, one in a window that is restored first.
\* Lifecycle: two sessions, four calls, two names.  Start: three processes, two windows.
\* Bus: two connections, three requests under two keys, one of each fits every limit.
\* Restore: two sessions, two reconciliations, two children.
CONSTANTS
  p1 = p1
  p2 = p2
  p3 = p3
  w1 = w1
  w2 = w2
  w3 = w3
  Procs = {p1, p2, p3}
  Windows = {w1, w2, w3}
  Sids = {s1, s2}
  NoProc = NoProc
  NoSid = NoSid
  NoWindow = NoWindow
  WindowOf <- MC_WindowOf
  TmuxSession <- MC_OneSession
  InitialOpen = {w1}
  MaxCalls = 4
  MaxNames = 2
  Starters = {1, 2, 3}
  Nobody = 0
  StartWindows = {1, 2}
  Conns = {1, 2}
  Keys = {1, 2}
  MAX_CONNECTIONS = 1
  MAX_IN_FLIGHT = 1
  MAX_CACHE = 1
  MaxFrames = 3
  MaxRounds = 2
  MaxLaunches = 2
SPECIFICATION MC_Spec
INVARIANTS OneWindowPerSession BoundKeepsWindow BindingFollowsSession OneCoordinator AskedOnceDoneOnce RestoredIsProven
PROPERTIES StartsAndRoundsEnd
\* Every process may have died.
CHECK_DEADLOCK FALSE
