------------------------------ MODULE MCWatch -------------------------------
(*****************************************************************************)
(* The components that watch and tell, each in behaviours of its own: monitors*)
(* and their files, what they measure and how they judge, failed tests, dbt  *)
(* Cloud jobs and failed pipelines.  A behaviour is one component's; `part`  *)
(* says whose.  The constants of the components that WatchProofs proves      *)
(* something about are constants here too.                                   *)
(*****************************************************************************)
EXTENDS Integers, Sequences, TLC

CONSTANTS
  Nothing,  \* null, and nobody
  \* of Monitoring
  ByName, Entities, Entity, Distance, Sweeps, Scopes, BlastDepth, Together,
  Judgements, Budget, SweepMishaps,
  \* of MonitorFiles
  Order, Managed, VersionsOf, Off, MaxEdits,
  \* of Observing
  Trees, Reports, LateReports, Window, LastTick,
  \* of SchemaDrift
  Columns, Reporters, MaxSeen, MaxChanges,
  \* of Anomaly
  Values, Days, MinPoints, MinDays, MaxPoints,
  \* of JobSeries
  JobRuns, SparkRuns, Ceiling, Lookback, MaxCharge, LastHour, MaxRedates,
  \* of TestVerdicts
  Verdicts, TestWindow, TestLimit, SweepGap, LateResults, MaxImports, TestHorizon,
  \* of DbtCloud
  ByRecency, Results, Couriers, Mishaps, MaxTrips,
  \* of Failures
  Pipelines, ByCloud, Grace, Since, Limit, Gap, Delay, Horizon, Never

VARIABLES
  part, \* the component of this behaviour
  \* its variables, and Nothing where it has fewer
  v1, v2, v3, v4, v5, v6, v7, v8, v9, v10, v11, v12, v13, v14, v15

slots == <<v1, v2, v3, v4, v5, v6, v7, v8, v9, v10, v11, v12, v13, v14, v15>>
all == <<part, slots>>

\* Monitoring: two tables that feed each other, each with a monitor.
RawAndMart == <<"raw", "mart">>
Itself == [m \in {"raw", "mart"} |-> m]
Cycle == [e \in {"raw", "mart"} |-> [f \in {"raw", "mart"} |-> IF e = f THEN 2 ELSE 1]]

\* MonitorFiles: a directory of two.
AThenB == <<"a.yml", "b.yml">>
ThreeAndOne == [m \in {"fresh", "rows"} |-> IF m = "fresh" THEN {1, 2, 3} ELSE {1}]

\* TestVerdicts: a failure that is a warning, too.
WarnsToo == [status : {"pass", "fail", "error"}, warn : {FALSE}]
              \union {[status |-> "fail", warn |-> TRUE]}

\* DbtCloud: two runs, and results: a model failed, and a test only warned.
NewThenOld == <<"new", "old">>
Readable == {{[test |-> FALSE, status |-> "error"], [test |-> TRUE, status |-> "skipped"]},
             {[test |-> FALSE, status |-> "success"], [test |-> TRUE, status |-> "warn"]}}

-----------------------------------------------------------------------------
Monitoring == INSTANCE Monitoring WITH
  now <- v1, verdict <- v2, row <- v3, held <- v4, sweep <- v5,
  incidents <- v6, budget <- v7, told <- v8, lapse <- v9,
  Window <- Together, Verdicts <- Judgements, Mishaps <- SweepMishaps

MonitorFiles == INSTANCE MonitorFiles WITH
  repo <- v1, db <- v2, owner <- v3, armed <- v4, todo <- v5, edits <- v6,
  synced <- v7, home <- v8, cut <- v9, Monitors <- Managed

Observing == INSTANCE Observing WITH
  now <- v1, writes <- v2, points <- v3, labelled <- v4, midway <- v5,
  whole <- v6, Late <- LateReports, Horizon <- LastTick, Unknown <- Nothing

SchemaDrift == INSTANCE SchemaDrift WITH
  table <- v1, seen <- v2, verdict <- v3, noticed <- v4, pending <- v5,
  prompt <- v6, changes <- v7, dropped <- v8

Anomaly == INSTANCE Anomaly WITH
  series <- v1, verdict <- v2

JobSeries == INSTANCE JobSeries WITH
  now <- v1, kind <- v2, start <- v3, state <- v4, parent <- v5,
  amount <- v6, points <- v7, judged <- v8, stale <- v9, redated <- v10,
  Watched <- JobRuns, Below <- SparkRuns, Limit <- Ceiling,
  Window <- Lookback, MaxAmount <- MaxCharge, Horizon <- LastHour,
  Redates <- MaxRedates, Unknown <- Nothing

TestVerdicts == INSTANCE TestVerdicts WITH
  now <- v1, checks <- v2, said <- v3, channel <- v4, imports <- v5,
  lastSweep <- v6, moved <- v7, revised <- v8, Window <- TestWindow,
  Limit <- TestLimit, Gap <- SweepGap, Late <- LateResults,
  Horizon <- TestHorizon

DbtCloud == INSTANCE DbtCloud WITH
  cloud <- v1, nodes <- v2, stage <- v3, todo <- v4, draft <- v5,
  heard <- v6, broken <- v7, listed <- v8, holder <- v9, row <- v10,
  ledger <- v11, posts <- v12, forgotten <- v13, settled <- v14,
  trips <- v15, Newest <- ByRecency, Nobody <- Nothing

Failures == INSTANCE Failures WITH
  now <- v1, root <- v2, failedAt <- v3, endedAt <- v4, ledger <- v5,
  lastSweep <- v6

ASSUME WatchAssumption ==
  /\ Monitoring!MonitoringAssumption
  /\ Observing!ObservingAssumption
  /\ Anomaly!AnomalyAssumption
  /\ JobSeries!JobSeriesAssumption
  /\ TestVerdicts!TestVerdictsAssumption
  /\ DbtCloud!DbtCloudAssumption
  /\ Failures!FailuresAssumption

-----------------------------------------------------------------------------
BlankAfter2 ==
  /\ v3 = Nothing /\ v4 = Nothing /\ v5 = Nothing /\ v6 = Nothing
  /\ v7 = Nothing /\ v8 = Nothing /\ v9 = Nothing /\ v10 = Nothing
  /\ v11 = Nothing /\ v12 = Nothing /\ v13 = Nothing /\ v14 = Nothing
  /\ v15 = Nothing
BlankAfter6 ==
  /\ v7 = Nothing /\ v8 = Nothing /\ v9 = Nothing /\ v10 = Nothing
  /\ v11 = Nothing /\ v12 = Nothing /\ v13 = Nothing /\ v14 = Nothing
  /\ v15 = Nothing
BlankAfter8 ==
  /\ v9 = Nothing /\ v10 = Nothing /\ v11 = Nothing /\ v12 = Nothing
  /\ v13 = Nothing /\ v14 = Nothing /\ v15 = Nothing
BlankAfter9 ==
  /\ v10 = Nothing /\ v11 = Nothing /\ v12 = Nothing /\ v13 = Nothing
  /\ v14 = Nothing /\ v15 = Nothing
BlankAfter10 ==
  /\ v11 = Nothing /\ v12 = Nothing /\ v13 = Nothing /\ v14 = Nothing
  /\ v15 = Nothing

Init ==
  \/ part = "monitoring" /\ Monitoring!Init /\ BlankAfter9
  \/ part = "files" /\ MonitorFiles!Init /\ BlankAfter9
  \/ part = "observing" /\ Observing!Init /\ BlankAfter6
  \/ part = "schema" /\ SchemaDrift!Init /\ BlankAfter8
  \/ part = "anomaly" /\ Anomaly!Init /\ BlankAfter2
  \/ part = "jobs" /\ JobSeries!Init /\ BlankAfter10
  \/ part = "tests" /\ TestVerdicts!Init /\ BlankAfter8
  \/ part = "dbtcloud" /\ DbtCloud!Init
  \/ part = "failures" /\ Failures!Init /\ BlankAfter6

Next ==
  /\ UNCHANGED part
  /\ \/ part = "monitoring" /\ Monitoring!Next
        /\ UNCHANGED <<v10, v11, v12, v13, v14, v15>>
     \/ part = "files" /\ MonitorFiles!Next
        /\ UNCHANGED <<v10, v11, v12, v13, v14, v15>>
     \/ part = "observing" /\ Observing!Next
        /\ UNCHANGED <<v7, v8, v9, v10, v11, v12, v13, v14, v15>>
     \/ part = "schema" /\ SchemaDrift!Next
        /\ UNCHANGED <<v9, v10, v11, v12, v13, v14, v15>>
     \/ part = "anomaly" /\ Anomaly!Next
        /\ UNCHANGED <<v3, v4, v5, v6, v7, v8, v9, v10, v11, v12, v13, v14, v15>>
     \/ part = "jobs" /\ JobSeries!Next /\ UNCHANGED <<v11, v12, v13, v14, v15>>
     \/ part = "tests" /\ TestVerdicts!Next
        /\ UNCHANGED <<v9, v10, v11, v12, v13, v14, v15>>
     \/ part = "dbtcloud" /\ DbtCloud!Next
     \/ part = "failures" /\ Failures!Next
        /\ UNCHANGED <<v7, v8, v9, v10, v11, v12, v13, v14, v15>>

Spec == Init /\ [][Next]_all

-----------------------------------------------------------------------------
(* The channels know the status that each monitor holds, or there is a      *)
(* named reason that they do not (checks.py store_result, alerts.py         *)
(* deliver).                                                                *)
ChannelsKnow == part = "monitoring" => Monitoring!ChannelsKnow

(* An alert is not repeated unless sweeps overlapped, and where anything    *)
(* broke something is sent (checks.py check_all, incidents.py suppress).    *)
AlertsAreSent ==
  [][part = "monitoring" => Monitoring!RepeatsOnlyIfStale /\ Monitoring!SomethingIsSent]_all

(* What runs is what the files declare, armed as they declare it, and       *)
(* other files' monitors are left alone (monitors.py apply_specs, cli.py    *)
(* apply).                                                                  *)
FilesAreInForce ==
  /\ [](part = "files" => MonitorFiles!AppliedNow)
  /\ [][part = "files" => MonitorFiles!LeavesOthersAlone]_all

(* A monitor's history is the table's, a gap being what was known when it   *)
(* was measured, and collecting again keeps labels (checks.py               *)
(* store_points).                                                           *)
HistoryIsTrue ==
  /\ [](part = "observing" => Observing!TrueNow)
  /\ [][part = "observing" => Observing!KeepsGaps]_all

(* A change of a table's columns is seen; a change of who reports them is   *)
(* not one (checks.py _judge_schema).                                       *)
DriftIsSeen == part = "schema" => SchemaDrift!DriftIsSeen

(* The detector breaches on what is unusual once it knows the usual, and a  *)
(* minority of incidents does not become the usual (anomaly.py detect).     *)
BreachesAreEarned == part = "anomaly" => Anomaly!BreachesAreEarned

(* What a check says of a job, its failure rate, spill and cost, is so of   *)
(* its runs (checks.py collect, judge).                                     *)
JudgedOfTheRuns == part = "jobs" => JobSeries!JudgedOfTheRuns

(* The channel is told of every failed test that came to be a change of      *)
(* verdict within a sweep's window, in whatever order results are imported,  *)
(* and of a recovery only after its failure (dq.py transitions, notify.py    *)
(* data_test_notifications).                                                *)
VerdictsAreTold ==
  /\ [](part = "tests" => TestVerdicts!EveryFailureIsCovered)
  /\ [][part = "tests" => TestVerdicts!RecoveryHasItsFailure]_all

(* The end of a dbt Cloud run is recorded with one message, whether a pull  *)
(* or another courier brings it, or a pull fails midway (dbt_cloud.py).     *)
CloudIsTold == part = "dbtcloud" => DbtCloud!CloudIsTold

(* A dbt Cloud run that ended is never shown as in progress again           *)
(* (dbt_cloud.py pull, ingest.py _UPSERT_RUN).                              *)
FinishedStays ==
  [][part = "dbtcloud" => DbtCloud!StaysFinished]_all

(* A failure that stands is one message, and a retry that works within the  *)
(* grace is none (notify.py run_failures).                                  *)
FailuresAreSaid == part = "failures" => Failures!FailuresAreSaid
=============================================================================
