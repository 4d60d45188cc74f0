\* Four processes: one is killed, one recovers, two hold the lock in between.
CONSTANTS
  p1 = p1
  c1 = c1
  Procs = {p2, p3, p4, p5}
  NoProc = NoProc
  Absent = Absent
  Ownerless = Ownerless
  Parent <- MC_Parent
SPECIFICATION Spec
SYMMETRY Independent
INVARIANT MutualExclusion
CHECK_DEADLOCK FALSE
