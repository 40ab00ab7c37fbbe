SPECIFICATION DashboardSpec
CONSTANTS
  Primary = {p1, p2, p3, p4}
  Freemium = {f1, d1}
  Direct = {d1}
  Threads = 2
  MaxQueueDepth = 2
  MaxTasksPerLane = 2
SYMMETRY RequestSymmetry
INVARIANTS
  OvershootBounded
CHECK_DEADLOCK FALSE
