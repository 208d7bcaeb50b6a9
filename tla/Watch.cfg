SPECIFICATION Spec
CONSTANTS
  Nothing = Nothing
  ByName <- RawAndMart
  Entities = {"raw", "mart"}
  Entity <- Itself
  Distance <- Cycle
  Sweeps = {"s1", "s2"}
  Scopes = {{"raw", "mart"}, {"mart"}}
  BlastDepth = 10
  Together = 0
  Judgements = {"ok", "breach", "insufficient_data"}
  Budget = 4
  SweepMishaps = {"overlap", "quiet", "lost", "refused"}
  Order <- AThenB
  Managed = {"fresh", "rows"}
  VersionsOf <- ThreeAndOne
  Off = {3}
  MaxEdits = 3
  Trees = {"mon", "tue", "wed"}
  Reports = 2
  LateReports = 1
  Window = 1
  LastTick = 3
  Columns = {"id", "total"}
  Reporters = {"spark", "dbt"}
  MaxSeen = 4
  MaxChanges = 2
  Values = {20, 30}
  Days = {0, 4}
  MinPoints = 3
  MinDays = 7
  MaxPoints = 4
  JobRuns = {"mon", "tue"}
  SparkRuns = {"app"}
  Ceiling = 1
  Lookback = 1
  MaxCharge = 1
  LastHour = 3
  MaxRedates = 1
  Verdicts <- WarnsToo
  TestWindow = 2
  TestLimit = 2
  SweepGap = 1
  LateResults = 3
  MaxImports = 3
  TestHorizon = 4
  ByRecency <- NewThenOld
  Results <- Readable
  Couriers = {"pull", "other"}
  Mishaps = {"garbled", "missing", "fatal", "unreachable"}
  MaxTrips = 3
  Pipelines = {"dag", "job"}
  ByCloud = {"job"}
  Grace = 1
  Since = 4
  Limit = 2
  Gap = 2
  Delay = 2
  Horizon = 6
  Never = 99
INVARIANTS ChannelsKnow DriftIsSeen BreachesAreEarned JudgedOfTheRuns CloudIsTold FailuresAreSaid
PROPERTIES AlertsAreSent FilesAreInForce HistoryIsTrue VerdictsAreTold FinishedStays
CHECK_DEADLOCK FALSE
