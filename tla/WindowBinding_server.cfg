\* The second window is in a tmux session of its own.
CONSTANTS
  p1 = p1
  p2 = p2
  p3 = p3
  w1 = w1
  w2 = w2
  w3 = w3
  Procs = {p1, p2, p3}
  Windows = {w1, w2, w3}
  Sids = {s1, s2}
  NoProc = NoProc
  NoSid = NoSid
  NoWindow = NoWindow
  WindowOf <- MC_WindowOf
  TmuxSession <- MC_TwoSessions
  InitialOpen = {w1, w2}
SPECIFICATION Spec
SYMMETRY MC_Symmetry
INVARIANT ExclusiveOwnership
\* Every process may have died.
CHECK_DEADLOCK FALSE
