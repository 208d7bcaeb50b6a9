CONSTANTS
  Events = {e1, e2, e3}
  Threads = {t1, t2, t3}
  Sentinel = Sentinel
  Nothing = Nothing
  MaxSize = 2
  WorkerCount = 2
  MaxStarts = 2
  MayCrash = TRUE
  ReuseQueue = TRUE
SPECIFICATION Spec
SYMMETRY Symmetry
INVARIANTS NoneLost NoneTwice DrainedBeforeStopping
CHECK_DEADLOCK FALSE
