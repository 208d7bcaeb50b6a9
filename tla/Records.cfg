SPECIFICATION Spec
CONSTANTS
  Nothing = Nothing
  Times = {1, 2, 3}
  Errors = {"disk"}
  TerminalTypes = {"FAIL"}
  MaxDeliveries = 4
  Runs = {"model", "retry", "app", "query"}
  MaxTreeDepth = 64
  Types = {"START"}
  Omitting = {}
  Named <- AppBelowQuery
  Queries = {"query"}
  DbtRuns = {"model", "retry"}
  Gap <- NearerModel
  WindowSeconds = 3600
  MaxArchive = 4
  Overtaking = TRUE
  Datasets = {1, 2, 3, 4}
  Leaf <- ThreeOrders
  Jobs = {"spark", "dbt", "other"}
  Reads <- ReadsOf
  Writes <- WritesOf
  Symlinks = {{2, 3}}
  Columns <- FirstFromLast
  Query <- QueryOf
  Depth = 3
  Facts = {"check"}
  MaxMoves = 1
  Executors = {"x", "y"}
  CoresOf <- TwoSizes
  Attempts <- RetriedStage
  Importers = {"a"}
  Depths = {1}
  MaxLog = 4
  MaxTime = 3
  Rows <- ThreeRows
  TagOf <- TagOfItem
  Amounts = {360, 720}
  Clusters = {"old", "new"}
  ClusterTag <- SameTag
  ClusterStart <- OldFirst
  ClusterEnd <- OldEndsFirst
  Apps = {"etl", "ml"}
  PathOf <- BothOnOld
  SpanOf <- Spans
  CoreSeconds <- CoresHeld
  Models = {"a", "b"}
  TreeOf <- Beside
  WorkOf <- SecondsOfWork
  MaxBills = 3
  DeltaFiles = {"f", "g"}
  Layouts = {1, 2}
  HistoryLimit = 2
  MaxWrites = 4
  MaxPolls = 2
  Gateways = {"g1", "g2"}
  Names = {"manifest.json"}
  Digests = {"a", "b"}
  Stores = {"local", "s3"}
  MaxUploads = 3
  Start <- Autumn
  Horizon = 5
  MonthsAhead = 2
  KeepMonths = 3
  Replicas = {"a", "b", "c"}
  Versions = 3
  Carried <- ThreeImages
  MaxCrashes = 2
INVARIANTS TreesHold NearestFirst EveryCentPlaced ObservedAsWritten BytesAreKept RowsAreInPlace MigratedOnce
PROPERTIES RowIsOrderFree ReplayReproduces NodesAreTables MetricsAreTheLogs WindowIsKept
CHECK_DEADLOCK FALSE
