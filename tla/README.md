# Verification of wish:d

TLA+ models of wish:d (`src/dataspine`), TLC configurations that check them on
small instances, and TLAPS proofs of what matters most for instances of any
size. Paths below are relative to the repository root; a bare file name is in
`src/dataspine/`.

Contents: [the system](#1-the-system) -- [modules](#2-modules) --
[runs](#3-runs) -- [proofs](#4-proofs) -- [findings](#5-findings) --
[not modelled](#6-not-modelled) -- [plan](#7-plan) --
[running it](#8-running-it).

## 1. The system

One Python process, the gateway, takes OpenLineage events over HTTP and writes
them to PostgreSQL; everything else (`wishd check`, `wishd notify`, `wishd
stitch`, `wishd replay`, ... from cron) is a short-lived process on the same
database. All state that outlives a process is in PostgreSQL. So concurrency is
of two kinds: threads of the gateway around one queue, and transactions of
several threads or processes on the same rows, at READ COMMITTED, none of them
with more coordination than row locks, unique keys and one advisory lock.

| Component (code) | State it keeps | Operations | Meets the others through |
|---|---|---|---|
| Ingest queue (`queue.py`), lifespan and submission (`api.py`) | a `queue.Queue`, worker threads, a stop flag, three counters, all in memory | `start`, `submit`, `_worker`, `drain_and_stop`, `get_queue` | HTTP handlers submit; workers call the correlator, one transaction per event |
| Correlator (`ingest.py`, `events.py`) | `events` (archive), `runs`, `jobs`, `datasets`, `run_edges` | `ingest_run_event`: archive, placeholders, upsert, subtree repair, dataset edges | called by workers, by the synchronous API, by replay and by dbt Cloud pulls |
| Replay (`replay.py`) | none of its own: truncates and rebuilds the projection | `replay`, `iter_events` | the correlator, in one transaction |
| Stitching (`stitch.py`) | writes `runs.parent_run_id`, `root_run_id`, `depth` of Spark runs | `resolve_all` | the same columns as the correlator |
| Notifications (`notify.py`) | `notifications`: attempts, delivered, messages, live, content hash | `claim`, `record`, `send`, `sweep`, `track` | reads runs and incidents; posts and edits through `slack.py` |
| Slack (`slack.py`) | none | routing, `deliver`, `update`, threading | external HTTP |
| Monitors, checks, alerts (`monitors.py`, `checks.py`, `alerts.py`) | `monitors` with `last_status`, `check_results`, `metric_points` | `apply`, `run_checks`, `deliver` | reads runs and metrics; incidents suppress its alerts |
| Incidents (`incidents.py`) | `incidents`: a cause, its consequences, open or resolved | `detect`, `suppress` | monitors and the lineage graph; alerts are suppressed by it |
| Upkeep and retention (`upkeep.py`, `retention.py`) | partitions of `events` and `metric_points` | provisioning thread, `prune`, `status` | gateway lifespan, DDL on the archive |
| Database (`db.py`) | `schema_migrations`, the pool singleton | `migrate`, `connection`, `get_pool` | every process at start |
| dbt Cloud (`dbt_cloud.py`), dbt artifacts (`dbt_artifacts.py`) | cursor of the last pull, runs it synthesises | `pull`, webhook, artifact ingestion | the correlator, notifications |
| Identity, lineage, catalog (`identity.py`, `lineage.py`, `catalog.py`) | `dataset_entities`, `dataset_identities`, `lineage_edges`, `column_edges` | `resolve` of both, walks up and down | the runs and their trees; incidents, the UI |
| Cost (`cost.py`, `resources.py`) | `compute_clusters`, `cost_line_items`, `application_costs` | `import_cur`, `attribute`, `link_applications`, `by_job` | Spark applications, runs |
| Artifacts (`artifacts.py`, `s3.py`) | files keyed by content, a row each | put, get | API, CLI |
| Spark logs (`sparklog.py`, `spark_metrics.py`, `backfill.py`) | `spark_apps` | parse, store, link, relink | runs; cost divides by it |
| Pollers and test results (`sources.py`, `dq.py`, `profile.py`) | `dataset_snapshots`, `external_checks` | `poll`, `store_snapshots`, `import_results`, `transitions` | monitors, notifications |
| Anomaly detection (`anomaly.py`) | none | `detect` | checks |
| Web UI, CLI, agents, failure classification, auth, configuration, metrics | none worth modelling | presentation and wiring | everything, read-only |

What is hard, and what being correct means there:

- **Correlator.** Events of a pipeline come from three tools in any order, more
  than once, naming parents that have not arrived. Every row caches the root and
  the depth of its chain of parents, so a single event may have to rewrite a
  subtree. Correct: the tree is a function of the set of runs heard from, never
  of the order; a run's columns are what its events say together; a run whose
  parent is missing is listed as such.
- **Correlator under several workers.** The same, with the statements of
  different events interleaved. Correct: the rows committed at the end are those
  a single worker would have left; half an event is never visible; transactions
  kill each other only where events name the same datasets in opposite orders, and
  every other event lands.
- **Stitching and replay** write the correlator's columns from other processes.
  Correct: a tree disagrees with itself only for a reason one can name, a
  rebuild ends it, and replay arrives at the rows that live ingest had.
- **Ingest queue.** Correct: what was answered 201 is ingested or counted as
  failed, once; an event is shed only when the queue is full; a poison event
  costs one event and no worker; a drain finishes what is queued and ends.
- **Notifications.** Claim, post and record are three steps of which the middle
  one is not transactional; sweeps overlap. Correct: one post per notification
  while nothing crashes, no message for ever stuck, a live message that ends up
  saying how its pipeline ended, a failure told after its grace and before it is
  forgotten.
- **Monitors, alerts, incidents.** Transitions are computed from a status read
  earlier in the transaction; suppression depends on a graph with cycles.
  Correct: the channels know what a monitor holds unless there is a reason, and
  where anything broke something is sent.
- **What monitors judge by.** Histories are collected in windows from rows that
  are still changing. Correct: a stored point is what the table or the run did,
  labels and gaps survive being collected again, and a verdict is about what has
  ended, been billed, or been seen.
- **Imports from elsewhere** (dbt Cloud, bills, event logs, polled tables, test
  results) come late, twice, corrected or cut short. Correct: nothing is counted
  twice, nothing finished is undone, nothing is told twice or not at all.
- **Upkeep, retention, migrations.** Time-driven DDL and concurrent starts.
  Correct: rows are in their month's partition, nothing younger than the window
  is dropped, each migration runs once.

`PROJECT.json` lists every hazard with the line where it bites and the
properties that cover it.

## 2. Modules

```
TreeOps <- RunTree  <- MCRunTree            Intake <= IngestQueue <- MCIngestQueue
   ^    <- TreeRace <- MCTreeRace, TreeRaceProofs        IngestQueue <- IngestQueueProofs
   |    <- Projection (RunTree inside)      NotifyLedger <- MCNotifyLedger, NotifyLedgerProofs
TreeOpsProofs <- RunTreeProofs              Lineage <- MCLineage
                                            LiveFeed <- LiveFeedProofs

MCRecords: RunRow | Projection | Lineage | SparkMetrics | Cost | Polling
           | Artifacts | Storage | Migrate
MCWatch:   Monitoring | MonitorFiles | Observing | SchemaDrift | Anomaly
           | JobSeries | TestVerdicts | DbtCloud | Failures
MCRecords <- RecordsProofs                  MCWatch <- WatchProofs
```

`<-` is extended by, `<=` is implemented by, `|` separates components that a
module instantiates and of which a behaviour runs one.

### The correlator and the queue

**RunRow** -- one row of `runs` under `_UPSERT_RUN`, without the position columns.
The state is the row and the set of events delivered so far. The one action,
`Ingest(e)`, is the upsert: `NextState` is the `case` on the state rank, `Least`
and `Greatest` the null-ignoring SQL functions, `Coalesce` the error column.
Delivery is arbitrary: any event of the producer, again and again.

**TreeOps** -- the recursive CTE of `_REPAIR_SUBTREE` as pure operators:
`Ancestors` is the least set closed under parents, `Below` its converse,
`Distance` the iteration that reaches a row, `Repairable` the rows a repair
rewrites before `MAX_TREE_DEPTH` stops it.

**RunTree** -- the correlator, one event per step: `Ingest(r, type, facet, hint)`
is `ingest_run_event` in the order of its statements (self-parent guard,
placeholders for parent and hinted root, root and depth from the parent's row,
upsert, repair when the row is new or moved). The parent a run really has,
`parentOf`, is chosen in `Init` among all acyclic assignments and never changes;
what the facets say of it is `FacetsOf`, what root hint comes along is any run.
Runs in `Omitting` leave the facet out of some events. `heard` is history.

**TreeRace** -- the same handler with one action per SQL statement, several
workers, row locks, job locks and rollback. `Sees` is READ COMMITTED: own writes
and committed rows. A statement that writes a row another open transaction wrote
waits for it; `insert ... on conflict do nothing` neither changes nor locks an
existing row. The repair is two kinds of action, as in PostgreSQL: the CTE is
evaluated against one snapshot (`Repair`), the rows that differ are then
rewritten, each when its lock is free (`Rewrite`). Last come the rows of `datasets`,
inputs and then outputs in the order the event names them (`UpsertDataset`), which
two events may do in opposite orders; `DeadlockVictim` is PostgreSQL ending one
transaction of a cycle, whose event and archive row are rolled back. `Fail` is any
statement raising. Rows of `run_edges` are of one run and need no lock of their own.

**Projection** -- RunTree's `Ingest` with the two other writers of its columns.
`Stitch(q)` is one query of `stitch_query_comments`: the candidates are the queries
with no dbt run above them, the target the run of the named node that is nearest
in time, the repair the correlator's. Replay is a transaction that begins with the
truncate (`ReplayBegin`), ingests the archive in id order (`ReplayEvent`) and
commits or fails; the truncate's lock keeps everyone else out. `ArchivedAs` lets a
worker's event be archived ahead of one projected before it, as ids are drawn
before transactions commit.

**IngestQueue** -- `queue.py` and its two users in `api.py`. `q` and `unfinished`
are the standard library's queue and its `task_done` count; `pc` is the place of
each thread in `_worker`; `loop` the place of the event loop in the lifespan
(which blocks in `drain_and_stop`, so nothing is submitted meanwhile). One action
per statement that another thread can come between. `accepted`, `shed`,
`committed` and `spoiled` are history, and what `stats` reports as dropped is held
against `shed`. A kill (`Crash`) takes everything that is in
memory with it: the properties about accepted events speak of a process while it
lives, which is all the repository promises (`README.md:110`). A worker's
transaction is one step with two outcomes; `TreeRace` opens it.

**Intake** -- what the gateway promises producers, with no threads in it: accept
while there is room, shed only under saturation, settle everything accepted, close
with nothing pending. `Safety` says what may happen, `Spec` adds what must.
`IngestQueue` implements it under the mapping at the end of that module: an event is
pending from its acceptance to its transaction's end, and the queue holds at most
`maxsize` events beside one in the hands of each worker.

### Telling people

**NotifyLedger** -- `notify.send` as `wishd notify` runs it, one action per claim, the
hand-over to Slack, one per channel posted to, and the commit. The transaction
spans all of it: `db` is what is committed, `dirty` the version of a row that its
writer sees, `lock` the row locks that the upsert takes and keeps, updated or not.
Sweeps claim in an order of their own, so they can wait for each other in a
circle; `DeadlockVictim` is PostgreSQL ending one. A post is taken, refused, or
taken with an answer that is lost. `Crash` rolls the sweep back wherever it is,
posts excepted. `tried`, `posts`, `unsure` and `forgotten` are history. Routes
are a constant, and with them a note routed nowhere is possible. `--force` and the
threaded reply to a failure are left out.

**LiveFeed** -- `notify.track`: one message per execution, edited as it advances. The
execution has a root and steps whose states `Begin`, `Finish` and `FallSilent`
change as ingest would record them; `Note` is the content that is hashed. A tracker
looks (`Look`: what is open, what the hash was), then claims and posts, or edits and
saves, in one transaction; it may be killed anywhere. Slack may refuse any post and
any edit. `age` is what the clock does to the row: past `RETRY_WINDOW_HOURS` an
undelivered message is not claimed again, past `TRACK_FOR_HOURS` an open one is not
looked at (`Open`). `crossed` and `frozen` are history: two trackers edited at once,
when Slack keeps whichever edit came last, and a row was closed with an edit that had
been refused.

**Failures** -- which failed pipelines a sweep speaks of (`run_failures`): the grace
period, the window, the limit, and standing down for a dbt job message. Event times
and arrival times differ by up to `Delay`. A claimed message counts as told here;
`NotifyLedger` is about what happens between the two.

**TestVerdicts** -- `dq.import_results` and `dq.transitions` for one check that is not
dbt's: results in any order, late, repeated and revised, `lag(status)` by measurement
time, the window and the limit of what a sweep looks at, the order in which it posts,
and the severity `warn` it passes over after the limit has been spent. `moved` and
`revised` are history: when a result last came to be a change of verdict or ceased to,
and which results were rewritten after their message.

**Monitoring** -- `wishd check` as one transaction: list (`Start`, where the statuses
to compare with are read, in the order of `list_monitors`, nulls first), `Judge` and
`Store` each monitor, which locks its row to the end, `Deliver`, `Commit`. `Causes`,
`Consequences` and `Swallowed` are `incidents.detect` and `suppress` over a constant
of lineage distances. `sent` is what a sweep has told the channels before its
transaction commits. `Deliver` picks the alerts that nobody gets, because the POST is
refused, no route matches or no channel is set up: the code swallows these, as
`alerts.py:24-26` says it must, and the status commits. `Lose` is any way the
transaction rolls back after the alerts are out. `told` is what the channels were sent
last, `lapse` why they may not know.

**MonitorFiles** -- `wishd apply`: files as they read (`Readings`), `load_specs` of one
file or a directory, `apply_specs` (`Reconciled`: upserted, disabled or pruned, scoped
to the files applied), annotations with it, and arming in a second transaction that
may not come. A definition may say `enabled: false`, which switches its monitor off and
keeps it from being armed (`Enabled`, `Wanted`).

**Observing**, **JobSeries**, **SchemaDrift**, **Anomaly** -- what a monitor knows and how
it judges. Observing is `_dataset_writes`, the gap between writes and `store_points` for
one table; labels are `set_feedback`. JobSeries is `collect`, `store_points` and the
judgements of a failure rate, a spill and a cost, whose points come from rows that go
on changing. SchemaDrift is `_judge_schema` with several producers of one table.
Anomaly is `detect` in integers: medians are kept twofold and the MAD fourfold, so that
the comparison with three robust sigmas or 15 % is exact. Points are sets of positions in
the series, a median the values at two ranks of them and, as in the code, zero of none.

**DbtCloud** -- pulls and webhook calls as couriers, each one transaction: `Take` handles
one listed run (`IngestRun` or `IngestRunning`); what is listed is some number of the
newest, as the window, the limit and `MAX_PAGES` may end the list anywhere (`Recent`).
A run's artifacts may be missing, unreadable, refused by the database, or out of reach
for one attempt (`unreachable`, a server error or a timeout). `broken` is PostgreSQL's
aborted transaction, in which the loop that swallowed the exception goes on, and which a
commit rolls back without a word. The message is posted before the commit. What
parsing makes of the results (`StateOf`, `Failed`, `RootState`) is `dbt_artifacts.py`.

### Keeping records

**Lineage** -- `identity.resolve` (pairs of evidence, union-find, the entity a group
votes for) and `lineage.resolve` (table edges, column edges from facets or from SQL,
whose tables are known by their last name only, with their precedence), over runs,
trees and declarations that change between resolves. A group is what union-find ends
with, the least set that holds a dataset and every pair it touches (`Group`); how the
forest gets there is left out. `Walked` is the recursive query of `_WALK`. `Replay` is
here for what its truncate cascades to.

**SparkMetrics** -- an event log as Spark writes it, line by line, perhaps torn;
`parse_event_log` as a recursion over its lines; two steps of an importer (`Parse`, `Store`),
so that an older reading may be stored last; linking to the run and relinking.

**Cost** -- the bill as it is delivered and restated, `import_cur` under its key,
clusters by tag, `link_applications`, `attribute` by core-seconds overlapping the
hour, `by_job` by the work of models, of applications that are joined to their run:
a log that is imported before its run was heard of is not (`reported`, `linked`), until
it is imported again or relinked. Amounts are integers in a unit so small that
whatever may divide one divides it exactly (`Exact`; a finite bill always has one). That
`application_costs` keeps six decimals, so that shares are rounded, is left out.

**Polling** -- a Delta log and an Iceberg metadata file as their writers change them
(write, delete, compact, roll back, alter, expire), the three readers, and
`store_snapshots`.

**Artifacts** -- gateways that share a store: `put` with its temporary file and rename
as three steps on files that have identity (an open handle follows a renamed file),
the row; `Download` is an operator, what a download that verifies gives in a state.
`shared` and `cut` are history: digests whose temporary file two gateways had open, and
files whose writer was killed.

**Storage** -- months as pairs, `ensure_partitions` with its savepoints, the default
partition, `apply_retention`, against a clock that nothing obliges upkeep to follow.

**Migrate** -- `db.migrate` by replicas with different files: lock, read, one turn of the
loop per step, unlock, and a crash that the session's end unlocks.

Definitions commented `Fault` are wrong versions of the definition that follows
them: a bug one could plausibly have written there. No behaviour of the models
uses them; substituting one for the definition it stands beside makes TLC report
the property it endangers, which shows that the property can fail.

## 3. Runs

| Run | Module, configuration | Shows |
|---|---|---|
| `tree_order` | `MCRunTree`, `RunTree_order.cfg` | the tree is a function of the runs heard from, over every tree of four runs, every arrival order, hint and re-delivery; orphans are listed |
| `tree_omitted` | `MCRunTree`, `RunTree_omitted.cfg` | **violation** of `TreeConsistent`: finding 1 |
| `race_three` | `MCTreeRace`, `TreeRace_three.cfg` | two workers, three levels: the committed tree is right, never half an event; lock cycles are over datasets named in opposite orders only, and every event that neither raised nor was a cycle's victim lands |
| `race_four` | `MCTreeRace`, `TreeRace_four.cfg` | **violation** of `TreeSettlesConsistent`: finding 2 |
| `queue_safety` | `MCIngestQueue`, `IngestQueue_safety.cfg` | nothing lost or doubled through drains, restarts and kills, what is shed is counted; a drain that ends has waited for everything |
| `queue_live` | `MCIngestQueue`, `IngestQueue_live.cfg` | accepted events settle, shutdown ends, `Intake` is implemented |
| `notify_sweeps` | `MCNotifyLedger`, `NotifyLedger_sweeps.cfg` | one message per channel and a ledger that says what was done, through lost answers, lock cycles and a kill |
| `notify_live` | `MCNotifyLedger`, `NotifyLedger_live.cfg` | what is worth saying is delivered or spent (out of tries or time) |
| `feed` | `LiveFeed`, `LiveFeed_settles.cfg` | a closed message is about a pipeline that is over; an open one of a pipeline that is over comes to say how it ended, unless it was open too long, two edits crossed, or the closing edit was refused |
| `records` | `MCRecords`, `Records.cfg` | nine components, a property or two each: see below |
| `watch` | `MCWatch`, `Watch.cfg` | nine components, a property or two each: see below |
| `replay_loses` | `MCLineage`, `Lineage_replay.cfg` | **violation** of `ReplayKeepsTheRest`: finding 3 |

`records` and `watch` ask one question each -- is what wishd keeps what it was given,
and is what it tells what happened -- of components that share no state their
models hold. `part` is chosen in `Init` and says whose behaviour it is; the shared
variables `v1`, `v2`, ... are that component's, by the INSTANCE that names it, and
`Nothing` where it has fewer. The states of the sum are the sum of the states, and a
property `part = "x" => X!P` says P of component X. Each component keeps its own
`Init`, `Next` and `Spec` and can be checked alone. A constant of a component that
is proved about is a constant of the sum, given a value in the configuration; the
others are given where the component is instantiated.

| Property | Says |
|---|---|
| `RowIsOrderFree` | times and state of a run are those of its set of events; errors are not erased, a duplicate changes no state |
| `TreesHold`, `ReplayReproduces` | a tree splits only where a stitched run was reset, a rebuild heals it; replay arrives at the live rows |
| `NearestFirst`, `NodesAreTables` | walks find each table once at its distance, both ways; nodes are as much one table as the evidence says, and keep their ids |
| `MetricsAreTheLogs` | core time is what executors held; attempts of a stage are apart; a link is not lost |
| `EveryCentPlaced` | imported lines add up to the report, attributed hours to the lines, jobs and the applications of no known run to the applications |
| `ObservedAsWritten` | a polled table's observations are of its writes, with the columns of that time |
| `BytesAreKept` | a recorded artifact is given as it was uploaded, or refused while a file that two gateways shared is unfinished, or was left so by a kill |
| `RowsAreInPlace`, `WindowIsKept` | the default partition is used after a lapse only; retention drops all that is old and nothing else |
| `MigratedOnce` | no replica runs what another ran, none serves on less than its files |
| `ChannelsKnow`, `AlertsAreSent` | the channels know a monitor's status or there is a named reason (a refused alert among them); no repeats, no silence |
| `FilesAreInForce` | what runs is what the files declare, armed so; other files' monitors are left alone |
| `HistoryIsTrue`, `JudgedOfTheRuns`, `DriftIsSeen`, `BreachesAreEarned` | histories are true and only gain; verdicts are about the runs, about real changes, and about what is unusual |
| `VerdictsAreTold`, `CloudIsTold`, `FinishedStays`, `FailuresAreSaid` | tests that began to fail in the window and within the limit, jobs that could be fetched, and pipelines that failed are told once; what ended is never in progress again |

### Bounds, and why they are enough

- `RunTree`: four runs, so chains of four, forks and a forest; event types START,
  FAIL and OTHER, one for each way the state column is treated (rank 1, rank 2,
  none). Nothing else bounds the run: events are delivered for ever and the state
  space is finite. `MAX_TREE_DEPTH` keeps its value, 64. Runs are symmetric.
- `TreeRace`: each run has one event, two workers. Two transactions are enough for
  every pairwise lock order and for a stale read; the three-level tree has two
  siblings under one parent, so that transactions meet on a shared job and a shared
  parent row, and a job of no pipeline that touches the siblings' two datasets in the
  opposite order, so that a lock cycle does happen. The fourth level is where it
  breaks (`race_four`). Jobs and parents of the instance are those an Airflow, dbt and
  Spark pipeline has.
- `IngestQueue`: three events, a queue of two (one in the liveness run), two
  workers out of three thread identities, two starts. A full queue with both
  workers busy, a sentinel that does not fit, workers of the first start alive in
  the second: all reachable. `MaxStarts` is the only counter bound.
- `NotifyLedger`: two sweeps, two notifications, two channels, one notification
  routed to both and one to the first. Two sweeps and two rows give every overlap
  and the lock cycle; two channels a partial delivery; `MAX_DELIVERY_ATTEMPTS` is
  2 in place of 3, so that first try, retry and refusal all occur; the window is
  one instant of a clock of two, so it closes. One kill (none in the liveness
  run).
- `LiveFeed`: a root and one step, two trackers, one refusal (of any post or edit) or
  kill, and both limits on age. A step below a root is enough for a note that changes while it is
  sent and for a root that ends after it.
- `RunRow`: three instants, one error text and its absence, four deliveries, one kind
  of terminal event. The merges compare two values at a time; a fourth delivery is one
  more than the three kinds of event that write different columns.
- `Projection`: a model run and its retry, a query and the application below it; four
  events, so each run may have spoken before a replay. One event may overtake another.
- `Lineage`: four datasets, three runs and one move (stitch, reset or replay), which
  gives chains of evidence, a cycle of edges and a diamond.
- `SparkMetrics`: four lines after which the log may be torn, two executors of
  different size, two attempts of a stage. `Cost`: two hours of one line item, a
  second item of no cluster, a cluster restarted under its tag, three deliveries; two
  applications, either of which may be reported before its log is read, after, or never.
  `Polling`: four writes, two polls. `Artifacts`: two gateways, two digests, three
  uploads of one name, any number of kills. `Storage`: six months across a new year, two provisioned
  ahead, three kept. `Migrate`: three replicas with three file sets, two crashes.
- `Monitoring`: two monitors on tables that feed each other, two sweeps, four
  spendings among sweeps begun, verdicts changed and ticks. `MonitorFiles`: two files,
  two monitors, one with three versions of which one is switched off, three edits.
  `Observing`: three trees, writes one tick late. `JobSeries`: two runs, one of them
  re-dated, an application below. `SchemaDrift`: four observations by two producers,
  two changes. `Anomaly`: four points of two values, which with three to train on is
  one detection after the armed state. `TestVerdicts`: a window of two and a limit of
  two, three imports up to three instants late on a clock of four, sweeps one apart: a
  result can be in time or late, in the window or out of it, and the third one over
  the limit. `DbtCloud`: two runs, two couriers, three trips, and every mishap.
  `Failures`: two pipelines, six instants with a grace of one and sweeps at most two
  apart.

Deadlock is checked in the `TreeRace` runs, where a stuck state would be a wait that
no cycle explains (a cycle has its victim, and the database goes on), and in those of
`NotifyLedger`, where cron always starts another sweep; elsewhere the system may
rightly come to rest (nobody submits, the bound is spent).

### Fairness

- `IngestQueue`: weak fairness of each worker thread (the operating system
  schedules it; a transaction ends one way or the other) and of the rest of a
  shutdown once it has begun. None for submitting, booting, beginning a shutdown
  or a crash.
- `TreeRace`: weak fairness of each worker's transaction. PostgreSQL grants row
  locks first come first served; with two workers the only waiter is never
  overtaken, so weak fairness is enough. And weak fairness of a cycle's victim:
  PostgreSQL looks for deadlocks after `deadlock_timeout`. `Fail` is never obliged.
- `NotifyLedger`: weak fairness of each sweep, which cron starts again and again
  and which then goes on (every HTTP call has a timeout); strong fairness of each
  claim of a given notification, since PostgreSQL grants a row lock in the order
  it was asked for and a waiting claim is not passed by for ever. Nothing obliges a
  failure to arise, time to pass, Slack to answer or a sweep to be killed.
- `LiveFeed`: weak fairness of looking (cron) and strong fairness of a tracker going
  on, for the same two reasons. Nothing obliges a pipeline to advance or Slack to take
  an edit; mishaps are finite.

The other modules state safety only and have no fairness.

## 4. Proofs

All proofs are checked by TLAPS with its SMT, Zenon and PTL back ends.

**RunTreeProofs.** For every finite set of runs, every acyclic choice of parents,
every subset of event types and any number of deliveries, under the assumption
`Covered`: no producer omits a parent facet (the contrary is finding 1) and there
are no more runs than `MAX_TREE_DEPTH + 1`, so that no repair is cut short.
`TreeConsistent` is not inductive: it does not say that chains end, nor that the
parents written are those the producers name. `TreeInv` adds both: the parent
column is exactly the parents of the runs heard from (`ParentsHeard`), and every
cached root and depth is the top and the length of the row's own chain
(`PositionsCached`). The heart is the step `Ingest`: attaching a subtree under a
new parent lengthens the chain of exactly the rows below it, all by the same
amount and to the same top, which is what `_repair_subtree` writes; when it is
not called because root and depth did not change, neither did those of the rows
below. `TreeOpsProofs` has the facts about ancestor sets this rests on:
transitivity, antisymmetry on acyclic columns, uniqueness and existence of a top,
what adding one edge does. From `TreeInvariant` follow `TreeAlwaysConsistent`,
`TreeOrderIndependent`, `OrphansAlwaysVisible`, and the action properties
`StitchingAlwaysMonotone` and `StateAlwaysForward`.

**IngestQueueProofs.** For any set of events, finite set of threads, positive queue
size and number of workers, with restarts and kills, under `QueueAssumption`
alone. The invariant `QueueInv` is a count: `unfinished` is the length of the queue
plus the busy workers, `processed + failed` the settled events less those between
their transaction and the counter; accepted events are partitioned between the
queue, the hands and the settled; and after `join()` the queue holds sentinels
only. The last part is why a reused queue starts with leftover sentinels and
nothing else (what that does to liveness is among the notes that end [5](#5-findings)). Sequence
facts (`PutElements`, `GetElements`) and counting facts (`Enters`, `Leaves`) are
lemmas. From `QueueInvariant` follow `NothingLost`, `NothingTwice`,
`JoinCountAlwaysExact` and `DrainLeavesNothing`.

`PromiseKept` is the refinement: `Spec => Promise!Safety`, each step of the queue being a
step of `Intake` or a stutter. It has two premises, those of the run `queue_live`: no
kill, which takes pending events along, and one start, because the gateway starts its
queue once and a second start of the same object may meet the leftover sentinels.
Two more facts of that one life are needed: `LifeInv`, that no more threads live than were
started, that sentinels come only after the join, and that a queue which is down either
never started or is stopping; and `PendingBounds`, that the pending events are
those in the queue and at most one in the hands of each of `NumWorkers` workers, which
is what makes `Intake`'s room a bound. What `Intake` promises of fairness stays with TLC.

**NotifyLedgerProofs.** For any finite set of notifications, any channels, routes and
sweepers, any positive bound on attempts, any window, clock and number of kills,
under `LedgerAssumption` alone. `ToldOnce` speaks of channels, which no row
mentions, so it needs to know at every stage what row, sweep and channels know of
each other. `LedgerInv` says it: `Owned` (what a sweep claimed it has locked, what it
has locked it will not claim again), `BlankUntilClaimed` (a row that does not exist
counts nothing), and for each note `NoteInv`: unlocked, the row is exact; locked and
not yet handed to Slack, the committed row is still exact and the writer's version
is one attempt ahead (`BeforeDelivery`); in Slack's hands, the writer's version counts
the attempt and the sweep's `reached` is what the channels show, lost answers and
forgotten posts aside (`InDelivery`). Each step moves a note from one of the three
to the next; `NoteSame` disposes of the notes a step does not touch, `EndOthers` of
those that other sweeps hold when one ends. `LedgerInvariant` yields
`AlwaysOneSender`, `AlwaysToldOnce`, `LedgerAlwaysExact`, and
`TriesBoundedUnlessKilled`: the bound of migration 021, for every notification that no
killed sweep has posted; without the condition it does not hold, as a killed sweep
gives its attempt back.

**TreeRaceProofs.** For any runs, parents, hints, jobs, number of workers and failures,
under `RaceAssumption`: another session never sees a run whose parent has no row, nor
more than a stub of a run whose event is queued, in progress or failed
(`TreeRaceCommittedWhole`). The first half is a question of what a transaction may rely
on: it writes a child after it saw the parent, perhaps in another's uncommitted
statement's wake. `RaceInv` is about the versions a transaction sees: a row nobody locks
has one version, no version takes a row away (`VersionsAgree`), a parent exists in the
committed rows and in those of whoever writes the child (`ParentsStand`), and from the
stub to the upsert the worker's own parent does (`StubStands`). The second half adds
`EventsInv`: an event is in one place, and a real row is one whose event was written. The
victim of a deadlock rolls back as one that failed does; that cycles are over datasets
only, and that events land, stays with TLC.

**LiveFeedProofs.** For any steps, trackers, refusals and deaths, under
`LiveFeedAssumption` and a root that reports for itself (`RootReports`); a placeholder
root is not running between two steps, and a message may then close early. It holds
whatever Slack refuses and however old rows grow. A tracker
acts on what it saw when it looked, and saves a row it read before others wrote.
`FeedInv` says that whatever is terminal in a tracker's hands, or closed in a row
anyone holds, was so of a root that had ended (`Honest`, `HandHonest`), and a root that
has ended does not run again. `CountOfRuns` turns the counts a note is made of into
statements about runs.

**RecordsProofs** is about `MCRecords`, component by component, each for all values of
its constants; `RecordsAssumption` collects what the components assume of them. A
section shows that a step of its component preserves its invariant, and its last lines
that the same is so of the sum.

- `RunRow`. `RowIsOrderFree` compares the row with the least and greatest of the times
  delivered, chosen by `CHOOSE`; `RowInv` carries them as elements that no other is below
  or above (`IsLeast`, `IsGreatest`), which a merge extends by one time (`LeastExtends`,
  `GreatestExtends`). `RecordsRowIsOrderFree` has the premise that the producer ends a
  run in one way only: `NothingUnsaid` does not hold otherwise (the first observation of
  [5](#5-findings)). `RowInvariant` needs no such premise.
- `Migrate`. The lock alone does not give `MigratedOnce`: a replica decides from what it
  read when it got the lock, one version after another. `MigrateInv` says that whoever is
  at work holds the lock, and that from where it is (`InStep`) the table is what it read,
  while up to there its own files are in. `InForceStays`: no file in force goes out of
  force, so what one replica serves on survives the next.
- `Artifacts`. A rename replaces what a digest names and takes nothing away, so a digest
  has a file from before its row is written (`RecordedAfter`). That the file is whole needs
  to know who writes it: files of different digests are different files although an open
  handle follows a renamed one (`FilesApart`), a file nobody shared has one writer, which
  finishes it before the rename (`WrittenAlone`), and one that is not whole is open or was
  left by a kill (`LeftByOne`). The theorem says that a download gives what was uploaded
  unless the digest was shared and its file is one of the last kind.
- `Storage`. `_months_from` and the cutoff are recursive functions; `WalkExists` gives
  their closed form and `WalkCounts` shows, from a least counterexample, that `n` turns
  move the month's index by `n`. `StorageInv` needs to know how far ahead upkeep looked
  when it last ran (`AheadStands`). It yields `RowsAreInPlace`, and `WindowIsKept` of
  every step.
- `Polling`. `PollingInv`: commits are in the order of their times, whatever is stored of
  a Delta table is at a commit that added a file (`ObservedAtAdding`), and the snapshot
  that is current is known to have had the current schema (`SnapshotsRuled`). A table
  with files has a commit that added one (`FilesWereAdded`, again from a least
  counterexample), so a poll's observation is at the newest addition and no stored one
  is later.
- `Lineage`. Groups are shown to be the classes of an equivalence (`Together`), which
  grow with the evidence. `NodesInv`: what is one entity is joined by a chain of
  declarations and of equal names, and as long as nothing has changed since a resolve,
  what the evidence joins is one entity. A resolve gives every group an entity one of
  its members had, or a new number, so ids are kept (`NodesResolve`); `NodesAreTables`
  is that and `fresh`. For `NearestFirst` a walk is a function from hops to nodes
  (`Goes`): `WalkedAre` gives the closed form of the recursive query, the pairs of
  node and length that a walk of at most `Depth` hops has, and turning a walk round
  (`GoesBothWays`) makes upstream the inverse of downstream.
- `Cost`. A sum is a recursive function that takes its elements in an order nobody
  knows. `SpreadIsTally` shows that it is a count of units less a count of owed ones
  (`Tally`), which does not depend on an order; that tallies add, scale, and may be taken
  by rows or by columns (`TallySwap`) is shown of sets of subsets that grow by one element
  (`EveryElement`). `CostInv`: what is stored is what was imported, and what is attributed
  is the shares of that, until something changes. `RowDivided`: the shares of a row add
  up to it or nothing held anything, and each divides further. Summed the other way they
  are the hours that were held (`IdleIsNobodys`), and dividing by models loses nothing
  (`NothingVanishes`), whichever have ended by then and whichever applications are linked:
  what `by_job` lacks is the cost of the unlinked ones and nothing else.
- `SparkMetrics`. `SparkInv`: a log is in the order of its times, says of an executor once
  that it came and then once that it went, and ends with the application or in the middle
  of a line (`WellWritten`); so is what an importer reads of it (`BeginningIsWritten`).
  Parsing is a recursion, whose segments are glued to one function (`ParseExists`); what
  it has after each line is what the lines up to there say (`Says`), of every executor and
  every attempt separately. `CoreTimeHeld` then takes a table of executors by moments
  once by rows, which is what the code adds up, and once by columns, which is what was
  held (`TallySwap`). A link survives because what is known is coalesced.
- `Projection`. The lemmas of `TreeOpsProofs`, taken as an instance, for a parent column
  that `_ingest` and the stitcher both write. `TreesInv` says where each run hangs (as its
  events name, or, stitched, below a dbt run: `Stitches`) and that it stands at its own
  root and depth unless it or a run above it was reset. Stitching keeps chains finite
  because nothing above a dbt run is a query, and no query is above the run it is moved to
  (`ProjectionAssumption`: dbt issues queries, and no query runs dbt). While a replay is
  under way the invariant is also about the rows a rollback would restore.
  `ReplayReproduces` compares two runs of the correlator. Neither is followed step by
  step: `Told` says what the rows are as a function of the *set* of events ingested (the
  state is the furthest of the types sent), `LogInv` that the events still to be replayed
  are the end of the archive; at the end the two sets are one, and so are the rows. Both
  theorems have the premise `DeepEnough`, that no chain is longer than
  `MAX_TREE_DEPTH + 1` runs, as a deeper repair stops half-way; the second has
  `EndsOneWay`, for the reason `RecordsRowIsOrderFree` has it.

**WatchProofs** is the same for `MCWatch`, under `WatchAssumption`.

- `Monitoring`. What the channels know of a monitor is what the row says, unless
  somebody has sent something and not committed it (`KnownUnlessSent`); a sweep has sent
  only what it stored, and holds those rows (`AheadOf`, `Behind`, `HoldsItsRows`), so no
  two have sent something of one monitor (`OneSender`). An alert that nobody got is not
  among what was sent, and is a named reason once the sweep commits. For `AlertsAreSent`,
  `CausesAreSent` is about an arbitrary graph, cycles included: where nothing counts as
  a cause nothing is withheld, and a cause is not withheld itself.
- `MonitorFiles`. `DirectoryStands` and `RunningIsArmed` are nearly inductive: what is
  missing is that a row names the file that declared it last (`SourceIsHome`).
- `Observing`. A tree not seen midway has only the point of its last write, labelled or
  not (`NewestOnly`, `LabelsAreOnPoints`); `NarrowGap` is that a window which shows a gap
  shows the right one.
- `SchemaDrift`. `NoticedInTime` is about all pairs of observations of one producer, of
  which an evaluation compares only the last two; `OnlyGrows` is transitive.
- `JobSeries`. A run that changed since it was collected has changed visibly (`changed`);
  of the others every one that is known has its point, and every point is a run's
  (`PointsAreFresh`, `PointsAreOfRuns`): a bijection, so counts of points are counts of
  runs. `PointsAreOfRuns` holds until a start moves. A sum is only ever compared with a
  sum over the same applications, so nothing is said of how it is computed.
- `Anomaly`. Nothing is carried but that the verdict is of the series (`SeriesInv`);
  the work is in the medians. `MedianOfMajority`: a value that more than half of the points
  have is their median, whatever the others are, by counting those below it and those up
  to it; so the MAD is zero (`DeviationOfMajority`) and the band is 15 % of the level
  (`FarIsOutside`). Confirmed incidents are not among the points, and up to five
  points the recent ones are all of them (`RecentOfFew`).
- `TestVerdicts`. `StretchBegins` finds the transition where the stretch of failures
  began (a greatest time, by well-founded induction). `ChangesAreSaid`: what became a
  change of verdict early enough was said by the first sweep after that, which finds it in
  the window (`InTime`) and within the limit (`NotCrowdedOut`: what is ahead of it is among
  the other results). A late import moves the change to a result that was measured
  earlier, so the invariant follows `moved` through every import, in or out of order.
- `DbtCloud`. For every mishap, the unreachable run and the one the database refuses
  included. `CloudInv` describes three views of a run at once: the committed row is
  what dbt Cloud says of it (`RowStands`), a draft is as true and covers exactly the runs
  the transaction has locked (`CourierWrites`), and what a pull found finished is on its
  list or in its draft (`CourierLists`, `CourierRecords`). The messages are counted
  against claims that hold or were forgotten (`PostsCounted`). A run is written and
  announced by the holder of its row only, so no two transactions claim one message.
  `FinishedStays` fails if the last event decided the state (`LastState`).
- `Failures`. A failure is due between two sweeps, and the first sweep after that still
  has it in its window. `WatchFailuresAreSaid` has the premise `Reaches`: the window is at
  least the grace period, or the lateness of an event, and the longest time between
  sweeps. Without it a failure falls between them, and nothing in the code relates the
  cron line to `--since`; the defaults, a day of window and five minutes of
  grace (`cli.py:553`), satisfy it with a cron line of any sense.

**How data are reasoned about.** The provers have no induction over data, but they have
well-founded induction as a fact about sets (`WFMin`): a set of numbers has a least
element (`LeastExists`). Recursive functions are therefore treated by giving a closed
form, and refuting the least number at which the function differs from it. Connected
components are least closed sets, walks are functions, medians and sums are counts, of
which the provers need no recursion at all. What has no such form stays with TLC.

**Only model-checked**, and why:

- Liveness -- `Intake`'s fairness, `SaidOrSpent`, `FeedSettles`, `EveryEventLands`,
  `AcceptedSettles` and the rest of `queue_live` -- because the prover handles neither
  fairness nor ENABLED.
- `TreeSettlesConsistent`: it is not true of all instances (finding 2), and where it is,
  with three levels, it depends on how many levels there are.

## 5. Findings

1. **An event without its parent facet re-roots the run** (`ingest.py:262`, run
   `tree_omitted`). The parent column keeps its value, root and depth are overwritten
   as for a top-level run and the repair carries them to every descendant.
2. **Workers can leave a wrong tree behind** (`ingest.py:102`, run `race_four`). The
   parent's row is read at the beginning of the transaction; a repair that commits in
   between does not see the new row and the new row does not see the repair. Four
   levels are needed, and the tree heals with the next event of the run.
3. **Replay empties more than the projection** (`replay.py:98`, run `replay_loses`).
   `truncate ... cascade` reaches every table with a foreign key to `datasets`: test
   results, table snapshots and column profiles, which are in no event, and
   `dataset_identities`. The command says it rebuilds runs, jobs and datasets from the
   archive.

### Observations

Statements that documents or comments make, kept as definitions beside the module's
properties and marked there as not holding, or noted while reading. No run checks them:
each describes a limit rather than something the module promises.

| Definition | What happens instead |
|---|---|
| `RunRow!NothingUnsaid`, with `TerminalTypes` of two kinds | two terminal states have one rank, so of FAIL and COMPLETE the last delivered stands, and a re-delivery changes it back (`ingest.py:270`; `ingest.py:9` calls ingest idempotent) |
| `NotifyLedger!TriesBounded` | a sweep killed after posting gives its attempt back (`cli.py:607`), as often as that happens; proved for notes no killed sweep posted |
| `TreeRace!NobodyIsKilled` | two workers whose events name the same two datasets in opposite orders lock their rows in opposite orders (`ingest.py:332`), one is killed, and its event goes with its archive row: it is counted as failed |
| `LiveFeed!FailedEditStaysLive` | the comment (`notify.py:1315`) is right of every edit but the last: `live` is set from the note alone (`notify.py:1318`), so a refused terminal edit closes the row and the message says "running" for ever. `TRACK_FOR_HOURS` (`notify.py:1165`) does the same to a message open longer than that |
| `Monitoring!TransitionFromHeld` | with overlapping sweeps a transition is against the status at listing (`checks.py:1070`) |
| `Monitoring!CauseWasDelivered` | a consequence that was withheld becomes the cause when its own cause recovers; its status did not change, so nothing is sent |
| `MonitorFiles!RemovedIsDisabled` | a file whose last monitor was removed declares none, so it does not count as applied and its monitors stay (`monitors.py:370`) |
| `Observing!OnePointPerWrite` | a tree that a check saw midway has a second point when it writes again |
| `SchemaDrift!DropIsNoticed` | a change between two observations of one check is not compared |
| `TestVerdicts!LastWordIsCurrent` | a sweep tells failures first, so after pass, fail in one gap the recovery is the last word, even of results that were all in time, within the limit, unrevised and not warnings |
| `TestVerdicts!WarningsAreSilent` | severity is read from each result, so when a test's severity changes between failing and passing, the recovery from a warning nobody heard of is told (`notify.py:657`) |
| `DbtCloud!EndReplacesRunning` | a cancelled run, with no readable results, stays in progress |
| `DbtCloud!OneStopsNoOther` | the docstring (`dbt_cloud.py:412`) is right of a run whose artifacts cannot be fetched or parsed; one that the database refuses leaves the transaction of the whole pull failed, so every run of it is rolled back, and again on every later pull that lists it (`dbt_cloud.py:425-429`) |
| `Lineage!SplitsTakeEffect` | both parts of a split vote for the entity they were in, so the merge stays (`identity.py:204`) |
| `SparkMetrics!LinkIsShallowest`, `EndedIsWhole` | relinking takes any run with the id; an older reading stored last keeps the newer one's end with fewer lines |
| `Cost!EveryJobIsListed` | `by_job` joins the run of an application (`cost.py:559-561`), which is null until the log is linked, so the cost of one that was never reported vanishes from the cost per job, against `cost.py:549-551` |
| `Cost!RestatedInPlace` | a row imported again goes to the cluster that has its tag by then |
| `Polling!LatestIsCurrent`, `EmptyIsSeen` | the history of a rolled-back table has the abandoned snapshots, newest first; an empty Delta table gives no observation, so the last count stays |
| `Storage!HealthyMeansNextMonth` | names are compared as strings and the default partition's is above every month's, so this month alone counts as two |
| `Artifacts!BlobIsWhole` | two gateways share the `.tmp` of a digest, and one may rename what the other has just emptied; a kill then leaves it so, and the download says it is corrupt |

`LinkIsShallowest`, `EndedIsWhole`, `SplitsTakeEffect` and `CauseWasDelivered` take
instances other than the ones in `records` and `watch` to fail: two importers and two
depths, two moves, and an acyclic graph with a budget of seven.

Also: an alert that Slack refuses is lost, and is not sent again, by design
(`alerts.py:24-26`). A test result imported later than its window after it was measured,
or behind more changes than the limit, is never told, nor is a verdict that a later import
revises after its message (`dq.py:159,163`, `dq.py:83-84`). Arming that was interrupted is
not taken up by the next `wishd apply`, which sees nothing changed (`cli.py:304`). A
later event of a stitched run, which names no parent, resets its root and depth and those
of the runs below it; the parent column stays, so stitching passes the run over and only
a rebuild mends it (`stitch.py:157`, the reset that `TreesHold` names). A run whose start
turns out to be earlier has a point at each of its two times and
counts twice in a rate (`JobSeries`, history `redated`). A queue started again in one
process keeps the sentinels that stopping workers did not take (`queue.py:93`), and they
end workers of the next start; the application starts a queue once per process. When a
worker's transaction fails, the archive row is rolled back with it, so a poison event
cannot be replayed once the bug is fixed. A monitor may set `min_training_points: 1`
(`monitors.py:269` asks for a number only); its first point is then judged against a level
of zero and breaches unless it is zero. And the comment `api.py:255`, "201 = handed off
durably", is contradicted by the README's known limits.

## 6. Not modelled

- Cyclic parent claims, and chains longer than `MAX_TREE_DEPTH`; the columns of `jobs`.
- In `TestVerdicts`, other checks and those of dbt: they share the limit of
  `transitions`, so a busy day may push a change out of the 100 sooner than the model says.
- The order and the limit of 100 of `by_job`'s list; rounding to six decimals; in
  `LiveFeed`, how lately a run must have ended to be listed, and the limit of the list.
- In `Lineage`, a resolve takes one dataset for each last name, whichever; the query, which
  has a limit and no order, could take another one each time.
- The digest; the wording, rendering and routing of messages; `--force` and replies.
- The seasonal index of `anomaly.py`: it needs real divisions by bucket medians. The
  models are of metrics without a season.
- Monitors of duration, volume and columns have no module of their own: collection and
  storage are those of `JobSeries` and `Observing`, learned bounds those of `Anomaly`.
  The union of pollers' observations with writes is left out of `Observing`.
- Replay of a window (ingest over what is there), `resolve_all`'s report of disjoint
  trees, the upkeep thread's own start and stop, the connection pool.
- Heuristics, profiles, cost by team, graph layout and SQL coverage reports: functions
  of stored rows that change nothing.
- Failure classification and agent handoff, web pages, read endpoints, catalog clients,
  authentication, request limits, configuration, metrics: no state, or another system's.
- Logging, HTTP status details, formatting and parsing of scalars.

## 7. Plan

Done: the correlator, the queue, the ledger and the feed, stitching and replay, monitors
and what they judge by, imports, storage and migrations; the proofs of section 4. Left,
in order:

1. RunTree with cyclic claims: positions stay within the depth bound.
2. The digest as a second user of the ledger, and `Failures` composed with `NotifyLedger`
   rather than taking a claim for a message.
3. A season for `Anomaly`, in integers, by choosing buckets whose medians divide.

## 8. Running it

```
tlc -workers 4 -config RunTree_order.cfg MCRunTree.tla
tlapm RunTreeProofs.tla
```

Each run of the table is one such command, and each module of proofs. A run marked as
a violation is expected to print the counterexample of the finding it belongs to. The
longest are `feed`, `watch` and `records`, a few minutes each.
