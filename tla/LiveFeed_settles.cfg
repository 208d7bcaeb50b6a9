SPECIFICATION FairSpec
CONSTANTS
  Steps = 1
  RootReports = TRUE
  Trackers = {t1, t2}
  Nobody = Nobody
  MaxAttempts = 3
  Outcomes = {"COMPLETED", "FAILED"}
  MaxMishaps = 1
INVARIANT ClosedIsOver
PROPERTIES FeedSettles
CHECK_DEADLOCK FALSE
