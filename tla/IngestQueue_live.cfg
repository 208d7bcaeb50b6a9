CONSTANTS
  Events = {e1, e2, e3}
  Threads = {t1, t2}
  Sentinel = Sentinel
  Nothing = Nothing
  MaxSize = 1
  WorkerCount = 2
  MaxStarts = 1
  MayCrash = FALSE
  ReuseQueue = FALSE
SPECIFICATION FairSpec
PROPERTIES AcceptedSettles ShutdownEnds ImplementsIntake
CHECK_DEADLOCK FALSE
