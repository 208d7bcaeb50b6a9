----------------------------- MODULE MCRecords ------------------------------
(*****************************************************************************)
(* The components that keep what happened, each in behaviours of its own:    *)
(* runs and trees, lineage, metrics, bills, tables, artifacts, partitions and*)
(* the schema.  They share no state that their models hold, so a behaviour is*)
(* one component's; `part` says whose.  The constants of the components that *)
(* RecordsProofs proves something about are constants here too.              *)
(*****************************************************************************)
EXTENDS Integers, Sequences, TLC

CONSTANTS
  Nothing,       \* null, and nobody
  \* of RunRow
  Times, Errors, TerminalTypes, MaxDeliveries,
  \* of Projection
  Runs, MaxTreeDepth, Types, Omitting, Named, Queries, DbtRuns, Gap,
  WindowSeconds, MaxArchive, Overtaking,
  \* of Lineage, whose runs are these jobs
  Datasets, Leaf, Jobs, Reads, Writes, Symlinks, Columns, Query, Depth, Facts, MaxMoves,
  \* of SparkMetrics
  Executors, CoresOf, Attempts, Importers, Depths, MaxLog, MaxTime,
  \* of Cost
  Rows, TagOf, Amounts, Clusters, ClusterTag, ClusterStart, ClusterEnd,
  Apps, PathOf, SpanOf, CoreSeconds, Models, TreeOf, WorkOf, MaxBills,
  \* of Polling
  DeltaFiles, Layouts, HistoryLimit, MaxWrites, MaxPolls,
  \* of Artifacts
  Gateways, Names, Digests, Stores, MaxUploads,
  \* of Storage
  Start, Horizon, MonthsAhead, KeepMonths,
  \* of Migrate
  Replicas, Versions, Carried, MaxCrashes

VARIABLES
  part, \* the component of this behaviour
  \* its variables, and Nothing where it has fewer
  v1, v2, v3, v4, v5, v6, v7, v8, v9, v10, v11, v12, v13

slots == <<v1, v2, v3, v4, v5, v6, v7, v8, v9, v10, v11, v12, v13>>
all == <<part, slots>>

\* Projection: a dbt model and its retry, the Spark query that names it in a
\* comment, and the application below the query.
AppBelowQuery ==
  [r \in {"model", "retry", "app", "query"} |-> IF r = "app" THEN "query" ELSE Nothing]
NearerModel ==
  [q \in DOMAIN AppBelowQuery |->
     [d \in DOMAIN AppBelowQuery |-> IF d = "model" THEN 10 ELSE 20]]

\* Lineage: one table under three names, and what it is made from.
ThreeOrders == <<"orders", "orders", "orders", "stg">>
ReadsOf == "spark" :> {4} @@ "dbt" :> {4} @@ "other" :> {1}
WritesOf == "spark" :> {1} @@ "dbt" :> {2} @@ "other" :> {3, 4}
FirstFromLast == <<{4}, {}, {}, {}>>
QueryOf == "spark" :> [projects |-> "star", tables |-> {4}]
        @@ "dbt" :> [projects |-> "qualified", tables |-> {4}]
        @@ "other" :> [projects |-> "bare", tables |-> {1}]

TwoSizes == "x" :> 2 @@ "y" :> 1
RetriedStage == {<<1, 0>>, <<1, 1>>}

\* Cost: a cluster restarted under its tag, and two applications on the old one.
ThreeRows == {<<"i1", 0>>, <<"i1", 1>>, <<"i2", 1>>}
TagOfItem == "i1" :> "nightly" @@ "i2" :> "lost"
SameTag == "old" :> "nightly" @@ "new" :> "nightly"
OldFirst == "old" :> 0 @@ "new" :> 1
OldEndsFirst == "old" :> 2 @@ "new" :> 3
BothOnOld == "etl" :> "old" @@ "ml" :> "old"
Spans == "etl" :> <<0, 2>> @@ "ml" :> <<1, 2>>
CoresHeld == "etl" :> 4 @@ "ml" :> 1
Beside == "etl" :> {"a", "b"} @@ "ml" :> {}
SecondsOfWork == "a" :> 1 @@ "b" :> 2

\* Storage: three months before the turn of a year.
Autumn == <<2026, 10>>

\* Migrate: the newest image, one that lacks a file, one whose file was edited.
ThreeImages == "a" :> <<1, 2, 3>> @@ "b" :> <<1, 2>> @@ "c" :> <<1, 9, 3>>

-----------------------------------------------------------------------------
RunRow == INSTANCE RunRow WITH
  row <- v1, seen <- v2, NoError <- Nothing

Projection == INSTANCE Projection WITH
  known <- v1, stubs <- v2, parent <- v3, root <- v4, depth <- v5,
  state <- v6, heard <- v7, archive <- v8, todo <- v9, saved <- v10,
  stitched <- v11, reset <- v12, healed <- v13, NoRun <- Nothing

Lineage == INSTANCE Lineage WITH
  seen <- v1, root <- v2, linked <- v3, faceted <- v4, entity <- v5,
  next <- v6, edges <- v7, columns <- v8, stored <- v9, sent <- v10,
  fresh <- v11, moves <- v12, Runs <- Jobs

SparkMetrics == INSTANCE SparkMetrics WITH
  log <- v1, now <- v2, arrived <- v3, found <- v4, row <- v5

Cost == INSTANCE Cost WITH
  synced <- v1, stored <- v2, ended <- v3, bill <- v4, bills <- v5,
  lines <- v6, costs <- v7, reported <- v8, linked <- v9, fresh <- v10

Polling == INSTANCE Polling WITH
  now <- v1, delta <- v2, iceberg <- v3, current <- v4, schema <- v5,
  stored <- v6, polls <- v7, ruled <- v8, fresh <- v9, Files <- DeltaFiles,
  Schemas <- Layouts, Limit <- HistoryLimit

Artifacts == INSTANCE Artifacts WITH
  store <- v1, pc <- v2, upload <- v3, handle <- v4, files <- v5,
  temporary <- v6, stored <- v7, rows <- v8, shared <- v9, cut <- v10,
  uploads <- v11

Storage == INSTANCE Storage WITH
  month <- v1, months <- v2, rows <- v3, backstop <- v4, lastUpkeep <- v5,
  elapsed <- v6, lapsed <- v7

Migrate == INSTANCE Migrate WITH
  advisory <- v1, recorded <- v2, stage <- v3, done <- v4, current <- v5,
  crashes <- v6, Files <- Carried, Unlocked <- Nothing, NoText <- Nothing

ASSUME RecordsAssumption ==
  /\ RunRow!RunRowAssumption
  /\ Projection!RunsAssumption /\ Projection!DepthAssumption
  /\ Projection!Tree!TypesAssumption /\ Projection!Tree!OmittingAssumption
  /\ Projection!ProjectionAssumption
  /\ Lineage!LineageAssumption
  /\ SparkMetrics!SparkAssumption
  /\ Cost!CostAssumption
  /\ Storage!StorageAssumption
  /\ Migrate!MigrateAssumption

-----------------------------------------------------------------------------
BlankAfter2 ==
  /\ v3 = Nothing /\ v4 = Nothing /\ v5 = Nothing /\ v6 = Nothing
  /\ v7 = Nothing /\ v8 = Nothing /\ v9 = Nothing /\ v10 = Nothing
  /\ v11 = Nothing /\ v12 = Nothing /\ v13 = Nothing
BlankAfter5 ==
  /\ v6 = Nothing /\ v7 = Nothing /\ v8 = Nothing /\ v9 = Nothing
  /\ v10 = Nothing /\ v11 = Nothing /\ v12 = Nothing /\ v13 = Nothing
BlankAfter6 ==
  /\ v7 = Nothing /\ v8 = Nothing /\ v9 = Nothing /\ v10 = Nothing
  /\ v11 = Nothing /\ v12 = Nothing /\ v13 = Nothing
BlankAfter7 ==
  /\ v8 = Nothing /\ v9 = Nothing /\ v10 = Nothing /\ v11 = Nothing
  /\ v12 = Nothing /\ v13 = Nothing
BlankAfter9 == v10 = Nothing /\ v11 = Nothing /\ v12 = Nothing /\ v13 = Nothing
BlankAfter10 == v11 = Nothing /\ v12 = Nothing /\ v13 = Nothing
BlankAfter11 == v12 = Nothing /\ v13 = Nothing
BlankAfter12 == v13 = Nothing

Init ==
  \/ part = "row" /\ RunRow!Init /\ BlankAfter2
  \/ part = "projection" /\ Projection!Init
  \/ part = "lineage" /\ Lineage!Init /\ BlankAfter12
  \/ part = "spark" /\ SparkMetrics!Init /\ BlankAfter5
  \/ part = "cost" /\ Cost!Init /\ BlankAfter10
  \/ part = "polling" /\ Polling!Init /\ BlankAfter9
  \/ part = "artifacts" /\ Artifacts!Init /\ BlankAfter11
  \/ part = "storage" /\ Storage!Init /\ BlankAfter7
  \/ part = "migrate" /\ Migrate!Init /\ BlankAfter6

Next ==
  /\ UNCHANGED part
  /\ \/ part = "row" /\ RunRow!Next
        /\ UNCHANGED <<v3, v4, v5, v6, v7, v8, v9, v10, v11, v12, v13>>
     \/ part = "projection" /\ Projection!Next
     \/ part = "lineage" /\ Lineage!Next /\ UNCHANGED v13
     \/ part = "spark" /\ SparkMetrics!Next
        /\ UNCHANGED <<v6, v7, v8, v9, v10, v11, v12, v13>>
     \/ part = "cost" /\ Cost!Next /\ UNCHANGED <<v11, v12, v13>>
     \/ part = "polling" /\ Polling!Next /\ UNCHANGED <<v10, v11, v12, v13>>
     \/ part = "artifacts" /\ Artifacts!Next /\ UNCHANGED <<v12, v13>>
     \/ part = "storage" /\ Storage!Next
        /\ UNCHANGED <<v8, v9, v10, v11, v12, v13>>
     \/ part = "migrate" /\ Migrate!Next
        /\ UNCHANGED <<v7, v8, v9, v10, v11, v12, v13>>

Spec == Init /\ [][Next]_all

-----------------------------------------------------------------------------
(* A run's row (ingest.py _UPSERT_RUN) is what its events say together, in  *)
(* whatever order and however often they are delivered; one already seen    *)
(* changes no state, and none erases an error.                              *)
RowIsOrderFree ==
  /\ [](part = "row" => RunRow!RowIsOrderFree)
  /\ [][part = "row" => RunRow!NothingUnsaid]_all

(* A tree that disagrees with itself has a reason: a Spark event that       *)
(* reset what stitching placed (stitch.py, _UPSERT_RUN). A rebuild ends     *)
(* it.                                                                      *)
TreesHold == part = "projection" => Projection!TreesHold

(* Replay (replay.py) arrives at the rows that ingesting live had, however  *)
(* it pages through the archive and whatever is archived meanwhile.         *)
ReplayReproduces ==
  [][part = "projection" => Projection!ReplayArrives]_all

(* Walking the graph (lineage.py _WALK) finds each table once, at its       *)
(* distance, upstream and downstream, through diamonds and cycles.          *)
NearestFirst == part = "lineage" => Lineage!NearestFirst

(* Nodes of the graph are as much one table as the evidence says, and keep  *)
(* their ids while a member does (identity.py resolve, lineage.py).         *)
NodesAreTables ==
  /\ [](part = "lineage" => Lineage!TablesNow)
  /\ [][part = "lineage" => Lineage!NodeSurvives]_all

(* What is stored of an application is what its log says so far, and a      *)
(* link to its run is not undone (sparklog.py, spark_metrics.py).           *)
MetricsAreTheLogs ==
  /\ [](part = "spark" => SparkMetrics!AsLogged)
  /\ [][part = "spark" => SparkMetrics!LinkSurvives]_all

(* Every amount of a bill is some application's, or visibly nobody's,       *)
(* once, restatements included, and the cost per job lacks only what         *)
(* applications of no known run cost (cost.py import_cur, attribute, by_job).*)
EveryCentPlaced == part = "cost" => Cost!EveryCentPlaced

(* What is stored of a polled table is what it was at each write, not at    *)
(* each poll (sources.py readers, store_snapshots).                         *)
ObservedAsWritten == part = "polling" => Polling!ObservedAsWritten

(* What was uploaded can be had, unless two gateways shared its file and    *)
(* one still writes it or was killed at that (artifacts.py).                *)
BytesAreKept == part = "artifacts" => Artifacts!BytesAreKept

(* Rows are in their month's partition unless upkeep lapsed, and old ones   *)
(* are gone once it ran (upkeep.py, retention.py).                          *)
RowsAreInPlace == part = "storage" => Storage!RowsAreInPlace

(* Retention drops nothing from inside its window, across the turn of a     *)
(* year too (retention.py apply_retention).                                 *)
WindowIsKept ==
  [][part = "storage" => Storage!DropsOnlyOld]_all

(* Replicas that start together run each migration once, and none serves    *)
(* on a schema short of its own files (db.py migrate).                      *)
MigratedOnce == part = "migrate" => Migrate!MigratedOnce
=============================================================================
