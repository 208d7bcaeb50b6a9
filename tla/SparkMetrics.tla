---------------------------- MODULE SparkMetrics ----------------------------
(***************************************************************************)
(* What an application did, read from the event log it may not have finished *)
(* writing (sparklog.py), stored and linked to the run that reported it, which *)
(* may arrive later (spark_metrics.py, backfill.py).                          *)
(***************************************************************************)
EXTENDS Integers, Sequences, FiniteSets, Functions

CONSTANTS
  Executors, CoresOf,
  Attempts,   \* of stages: <<stage id, attempt id>>
  Importers,  \* processes of `wishd ingest-eventlog`
  Depths,     \* of the runs that carry the application's id
  MaxLog, MaxTime

SparkAssumption ==
  /\ IsFiniteSet(Executors) /\ CoresOf \in [Executors -> Nat]
  /\ Depths \subseteq Nat \ {0}

VARIABLES
  log,     \* lines written so far
  now,
  arrived, \* runs in the database, by their depth
  found,   \* what each importer has read and not stored yet
  row      \* the application's row of spark_apps

vars == <<log, now, arrived, found, row>>
None == 0   \* no time, no run, no row: the code's None
Idle == [step |-> "idle"]

Greatest(S) == CHOOSE x \in S : \A y \in S : y <= x
Total(F) == SumFunction(F)

-----------------------------------------------------------------------------
(* Reading the log.                                                          *)
NoStage == [tasks |-> 0, failed |-> 0, submitted |-> None, completed |-> None]
NoApp == [start |-> None, end |-> None, last |-> None, executors |-> 0, cores |-> 0,
          tasks |-> 0, failed |-> 0, torn |-> FALSE,
          added |-> [e \in Executors |-> None], removed |-> [e \in Executors |-> None],
          stages |-> [a \in Attempts |-> NoStage]]

\* A fault: a retry of a stage counts as the stage.
StageOf1(a) == CHOOSE b \in Attempts : b[1] = a[1] /\ \A c \in Attempts : c[1] = a[1] => b[2] <= c[2]
StageOf(a) == a

Observed(app, ev) == [app EXCEPT !.last = IF ev.at > @ THEN ev.at ELSE @]
TaskEnded(app, ev) ==
  LET bad == IF ev.failed THEN 1 ELSE 0
  IN [app EXCEPT !.tasks = @ + 1, !.failed = @ + bad,
                 !.stages[StageOf(ev.of)].tasks = @ + 1, !.stages[StageOf(ev.of)].failed = @ + bad]

Read(app, ev) ==
  LET seen == Observed(app, ev)
  IN CASE ev.kind = "start"     -> [seen EXCEPT !.start = ev.at]
       [] ev.kind = "end"       -> [seen EXCEPT !.end = ev.at]
       [] ev.kind = "added"     -> [seen EXCEPT !.executors = @ + 1, !.cores = @ + CoresOf[ev.of],
                                                !.added[ev.of] = ev.at, !.removed[ev.of] = None]
       [] ev.kind = "removed"   -> IF app.added[ev.of] = None THEN seen
                                   ELSE [seen EXCEPT !.removed[ev.of] = ev.at]
       [] ev.kind = "submitted" -> [seen EXCEPT !.stages[StageOf(ev.of)].submitted = ev.at]
       [] ev.kind = "completed" -> [seen EXCEPT !.stages[StageOf(ev.of)].completed = ev.at]
       [] ev.kind = "task"      -> TaskEnded(seen, ev)
       [] ev.kind = "torn"      -> [app EXCEPT !.torn = TRUE]

Parsed(lines) ==
  LET upTo[k \in 0..Len(lines)] == IF k = 0 THEN NoApp ELSE Read(upTo[k - 1], lines[k])
  IN upTo[Len(lines)]
Truncated(app) == app.torn \/ (app.start # None /\ app.end = None)

\* When an executor that was not removed stopped accruing.
Closing(app) == IF app.end # None THEN app.end ELSE IF app.last # None THEN app.last ELSE app.start
\* A fault: all the cores for all the time.
CoreTimeFlat(app) == app.cores * (Closing(app) - app.start)
CoreTime(app) ==
  Total([e \in {x \in Executors : app.added[x] # None} |->
           LET until == IF app.removed[e] # None THEN app.removed[e] ELSE Closing(app)
           IN CoresOf[e] * (IF until > app.added[e] THEN until - app.added[e] ELSE 0)])

-----------------------------------------------------------------------------
Init ==
  /\ log = <<>> /\ now = 1 /\ arrived = {}
  /\ found = [i \in Importers |-> Idle]
  /\ row = Idle

So(kind, of) == \E k \in DOMAIN log : log[k].kind = kind /\ log[k].of = of
Over == \E k \in DOMAIN log : log[k].kind \in {"end", "torn"}
Line(kind, of, failed) ==
  /\ log' = Append(log, [kind |-> kind, of |-> of, at |-> now, failed |-> failed])
  /\ UNCHANGED <<now, arrived, found, row>>

\* The application writes, until it ends or is killed in the middle of a line.
Write ==
  /\ Len(log) < MaxLog /\ ~Over
  /\ IF log = <<>> THEN Line("start", "app", FALSE)
     ELSE \/ \E kind \in {"end", "torn"} : Line(kind, "app", FALSE)
          \/ \E e \in Executors : \/ ~So("added", e) /\ Line("added", e, FALSE)
                                  \/ So("added", e) /\ ~So("removed", e) /\ Line("removed", e, FALSE)
          \/ \E a \in Attempts :
               \/ ~So("submitted", a) /\ Line("submitted", a, FALSE)
               \/ /\ So("submitted", a) /\ ~So("completed", a)
                  /\ Line("completed", a, FALSE) \/ \E bad \in BOOLEAN : Line("task", a, bad)

Tick == now < MaxTime /\ now' = now + 1 /\ UNCHANGED <<log, arrived, found, row>>

\* OpenLineage events: the application's run and one per execution.
Arrive(d) ==
  /\ d \notin arrived /\ arrived' = arrived \union {d}
  /\ UNCHANGED <<log, now, found, row>>

\* find_run_for_app: the shallowest.
RunFound == IF arrived = {} THEN None ELSE CHOOSE d \in arrived : \A e \in arrived : d <= e

\* Reads the log, which must name the application, and looks for its run.
Parse(i) ==
  /\ found[i] = Idle /\ log # <<>>
  /\ found' = [found EXCEPT ![i] = [step |-> "parsed", lines |-> Len(log), run |-> RunFound]]
  /\ UNCHANGED <<log, now, arrived, row>>

\* A fault: the link is as found just now.
LinkedAnew(new, old) == new
\* coalesce: what is known stays.
Linked(new, old) == IF new # None THEN new ELSE old

Store(i) ==
  LET new == found[i]
      app == Parsed(SubSeq(log, 1, new.lines))
  IN /\ new # Idle
     /\ row' = [step |-> "stored", lines |-> new.lines,  \* metrics: those of these
                run |-> IF row = Idle THEN new.run ELSE Linked(new.run, row.run),
                ended |-> IF row = Idle THEN app.end ELSE Linked(app.end, row.ended)]
     /\ found' = [found EXCEPT ![i] = Idle]
     /\ UNCHANGED <<log, now, arrived>>

\* relink_orphans: any run with the id.
Relink ==
  /\ row # Idle /\ row.run = None
  /\ \E d \in arrived : row' = [row EXCEPT !.run = d]
  /\ UNCHANGED <<log, now, arrived, found>>

Next ==
  \/ Write \/ Tick \/ Relink
  \/ \E d \in Depths : Arrive(d)
  \/ \E i \in Importers : Parse(i) \/ Store(i)

Spec == Init /\ [][Next]_vars

-----------------------------------------------------------------------------
Metrics == Parsed(SubSeq(log, 1, row.lines))

(* Cores held at an instant, by the log: those of executors that were there.   *)
HeldAt(lines, t) ==
  LET there(e) ==
        /\ \E k \in DOMAIN lines : lines[k].kind = "added" /\ lines[k].of = e /\ lines[k].at <= t
        /\ ~\E k \in DOMAIN lines : lines[k].kind = "removed" /\ lines[k].of = e /\ lines[k].at <= t
  IN Total([e \in {x \in Executors : there(x)} |-> CoresOf[e]])

(* The core time that cost is divided by is what the executors held, each for  *)
(* as long as it was there, up to the end or to the last thing the log of a    *)
(* killed cluster says.                                                       *)
CoreTimeIsHeld ==
  row # Idle =>
    LET lines == SubSeq(log, 1, row.lines)
        lastSaid == Greatest({k \in 1..row.lines : lines[k].kind # "torn"})
    IN CoreTime(Metrics) = Total([t \in 1..lines[lastSaid].at - 1 |-> HeldAt(lines, t)])

(* Each attempt of a stage has its own tasks, and together they are the        *)
(* application's.                                                             *)
AttemptsApart ==
  row # Idle =>
    \A a \in Attempts :
      Metrics.stages[a].tasks =
        Cardinality({k \in 1..row.lines : log[k].kind = "task" /\ log[k].of = a})

(* A link to a run is not lost again to an import that looked for the run      *)
(* before it arrived.                                                         *)
LinkSurvives == (row # Idle /\ row.run # None) => row'.run # None

(* What is stored of an application is what its log says so far, and later      *)
(* imports only add to it.                                                     *)
AsLogged == CoreTimeIsHeld /\ AttemptsApart
MetricsAreTheLogs == []AsLogged /\ [][LinkSurvives]_vars

(* spark_metrics.find_run_for_app: "Prefers the shallowest match ... the        *)
(* application-level run is the one these metrics describe": a link made when  *)
(* that run was there is to it.                                               *)
(* Not so of a link that relinking made (README, 5).                        *)
LinkIsShallowest ==
  [][(row' # row /\ row'.run # None /\ (row = Idle \/ row'.run # row.run)) => row'.run = RunFound]_vars

(* A row that says when its application ended has the whole log's metrics.     *)
(* Not so when an older reading is stored last (README, 5).                 *)
EndedIsWhole == (row # Idle /\ row.ended # None) => ~Truncated(Metrics)
=============================================================================
