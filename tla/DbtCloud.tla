------------------------------ MODULE DbtCloud -------------------------------
(***************************************************************************)
(* Fetching runs from dbt Cloud (dbt_cloud.py) and reading their artifacts    *)
(* (dbt_artifacts.py).  Couriers - pulls from cron and webhook calls - work   *)
(* at the same time, each in one transaction: a run in progress becomes a     *)
(* placeholder, a finished one the tree, its tests and one job message, which *)
(* is posted before the transaction commits.  Rows are locked until it ends.  *)
(***************************************************************************)
EXTENDS Integers, Sequences, FiniteSets, SequencesExt

CONSTANTS
  Newest,    \* the cloud runs, newest first: the order the API lists them in
  Results,   \* what a readable run_results.json can hold: sets of nodes
  Mishaps,   \* which happen of: "missing", no run_results.json, as after a
             \* cancel; "garbled", one that parse refuses; "fatal", one that
             \* parses and that the database refuses; "unreachable", the
             \* API answers with a server error, or not in time
  Couriers,
  Nobody,
  MaxTrips   \* bound: pulls and webhook calls

Runs == Range(Newest)

DbtCloudAssumption ==
  /\ Newest \in Seq(Runs)
  /\ Mishaps \subseteq {"missing", "garbled", "fatal", "unreachable"}
  /\ Nobody \notin Couriers

VARIABLES
  cloud,    \* dbt Cloud: where each run is, or how it ended
  nodes,    \* dbt Cloud: the results of those that ended readable
  stage,    \* what each courier is doing
  todo,     \* what it has left: runs finished or in progress, as listed
  draft,    \* what its transaction has written: run to state
  heard,    \* notifications its transaction claimed
  broken,   \* its transaction has failed, and every statement in it fails
  listed,   \* the runs its pull found finished, but for those it cannot reach
  holder,   \* who has written a run's row and not committed
  row,      \* committed: the root run's state
  ledger,   \* committed: the dbt_job notifications claimed
  posts,    \* messages in the channel about a run
  forgotten,\* history: posts whose claim was rolled back
  settled,  \* history: "kept" is a run that a pull found finished and committed
            \* after; "undone", if such a pull's transaction only ever failed
  trips

vars == <<cloud, nodes, stage, todo, draft, heard, broken, listed, holder, row, ledger,
          posts, forgotten, settled, trips>>

-----------------------------------------------------------------------------
(* dbt_artifacts: what a node did, as a run and as a check.                   *)
StateOf(n) == CASE n.status \in {"success", "pass", "warn"} -> "COMPLETED"
                [] n.status \in {"fail", "error"} -> "FAILED"
                [] n.status = "skipped" -> "ABORTED"

\* A fault: only the tests are looked at.
FailedTests(results) ==
  {n \in results : n.test /\ n.status \in {"fail", "error", "warn"}}

\* Invocation.failed: what a human should see.
Failed(results) ==
  {n \in results : StateOf(n) = "FAILED" \/ (n.test /\ n.status \in {"fail", "warn"})}

\* events: the root's last event.
RootState(results) ==
  IF \E n \in results : StateOf(n) = "FAILED" THEN "FAILED" ELSE "COMPLETED"

\* A fault: a state is what the last event says.
LastState(old, new) == new

\* ingest's rule for one row: no event takes a finished run back.
NextState(old, new) ==
  IF old \in {"COMPLETED", "FAILED"} /\ new = "RUNNING" THEN old ELSE new

-----------------------------------------------------------------------------
Init ==
  /\ cloud = [r \in Runs |-> "absent"]
  /\ nodes = [r \in Runs |-> {}]
  /\ stage = [c \in Couriers |-> "idle"]
  /\ todo = [c \in Couriers |-> <<>>]
  /\ draft = [c \in Couriers |-> <<>>]
  /\ heard = [c \in Couriers |-> {}]
  /\ broken = [c \in Couriers |-> FALSE]
  /\ listed = [c \in Couriers |-> {}]
  /\ holder = [r \in Runs |-> Nobody]
  /\ row = [r \in Runs |-> "none"]
  /\ ledger = {} /\ settled = [r \in Runs |-> "never"]
  /\ posts = [r \in Runs |-> 0]
  /\ forgotten = [r \in Runs |-> 0]
  /\ trips = 0

\* External: a job starts, and ends with some results.
JobMoves ==
  /\ \E r \in Runs :
       \/ /\ cloud[r] = "absent"
          /\ cloud' = [cloud EXCEPT ![r] = "running"] /\ UNCHANGED nodes
       \/ /\ cloud[r] = "running"
          /\ \/ \E m \in Mishaps \ {"unreachable"} : cloud' = [cloud EXCEPT ![r] = m] /\ UNCHANGED nodes
             \/ \E a \in Results : /\ cloud' = [cloud EXCEPT ![r] = "readable"]
                                    /\ nodes' = [nodes EXCEPT ![r] = a]
  /\ UNCHANGED <<stage, todo, draft, heard, broken, listed, holder, row, ledger,
                 posts, forgotten, settled, trips>>

HasEnded(r) == cloud[r] \notin {"absent", "running"}

\* The API orders what it lists by age.
Place(r) == CHOOSE i \in DOMAIN Newest : Newest[i] = r
NewestFirst(S) ==
  {l \in UNION {[1..n -> S] : n \in 0..Len(Newest)} :
     /\ S \subseteq Range(l)
     /\ \A i, j \in DOMAIN l : i < j => Place(l[i]) < Place(l[j])}
\* _list_runs: the window, the limit and MAX_PAGES each cut off the oldest.
Recent(S) == {T \in SUBSET S : \A r \in T, q \in S \ T : Place(r) < Place(q)}
Listed(runs, kind) == [i \in DOMAIN runs |-> <<kind, runs[i]>>]

Leave(c, next, work) ==
  /\ stage[c] = "idle" /\ trips < MaxTrips
  /\ trips' = trips + 1
  /\ stage' = [stage EXCEPT ![c] = next]
  /\ todo' = [todo EXCEPT ![c] = work]
  /\ UNCHANGED <<cloud, nodes, draft, heard, broken, holder, row, ledger, posts, forgotten, settled>>

\* pull: finished runs first.
Pull(c) ==
  \E S \in Recent({r \in Runs : HasEnded(r)}) :
    /\ listed' = [listed EXCEPT ![c] = S]
    /\ \E l \in NewestFirst(S) : Leave(c, "finished", Listed(l, "finished"))

\* The webhook's body says which run to fetch, and nothing else.
Ring(c) ==
  \E r \in Runs : /\ HasEnded(r)
                  /\ Leave(c, "called", <<(<<"finished", r>>)>>)
                  /\ UNCHANGED listed

Seen(c, r) == IF r \in DOMAIN draft[c] THEN draft[c][r] ELSE row[r]

\* A fault: the claim is not looked up.
ClaimedNever(c, r) == FALSE
Claimed(c, r) == r \in ledger \union heard[c]

Write(c, r, state) ==
  /\ holder' = [holder EXCEPT ![r] = c]
  /\ draft' = [draft EXCEPT ![c] =
       [s \in DOMAIN draft[c] \union {r} |->
          IF s = r THEN NextState(Seen(c, r), state) ELSE draft[c][s]]]

Skip == UNCHANGED <<holder, draft, heard, posts, broken, forgotten>>

\* What is written and claimed is gone at once, and so are the locks; what was
\* posted is not.
Undo(c) ==
  /\ holder' = [r \in Runs |-> IF holder[r] = c THEN Nobody ELSE holder[r]]
  /\ draft' = [draft EXCEPT ![c] = <<>>]
  /\ heard' = [heard EXCEPT ![c] = {}]
  /\ forgotten' = [r \in Runs |-> forgotten[r] + (IF r \in heard[c] THEN 1 ELSE 0)]

\* A statement failed: nothing in this transaction works any more.
RollBack(c) == Undo(c) /\ broken' = [broken EXCEPT ![c] = TRUE]

\* A fault: what stops one run stops the pull.
RestAbandoned(c) == IF Head(todo[c])[1] = "finished" /\ cloud[Head(todo[c])[2]] = "garbled"
                    THEN <<>> ELSE Tail(todo[c])
\* The loop goes on, whatever became of this run.
Rest(c) == Tail(todo[c])

\* artifact: a 404 is no results; and what parse makes of them.
Fetched(r) == cloud[r] # "missing"
Parsed(r) == Fetched(r) /\ cloud[r] # "garbled"

\* dbt_job_notification: something went wrong in the job.
HasMessage(r) == Failed(nodes[r]) # {}

\* announce_dbt_job: claimed and posted in the same transaction.
Announce(c, r) ==
  IF HasMessage(r) /\ ~Claimed(c, r)
  THEN /\ heard' = [heard EXCEPT ![c] = @ \union {r}]
       /\ posts' = [posts EXCEPT ![r] = @ + 1]
  ELSE UNCHANGED <<heard, posts>>

\* ingest_run: the tree, the test results, the message.
IngestRun(c, r) ==
  \/ /\ "unreachable" \in Mishaps /\ Skip
     /\ listed' = [listed EXCEPT ![c] = @ \ {r}]
  \/ ~Parsed(r) /\ Skip /\ UNCHANGED listed
  \/ cloud[r] = "fatal" /\ RollBack(c) /\ UNCHANGED <<posts, listed>>
  \/ /\ Parsed(r) /\ cloud[r] # "fatal"
     /\ Write(c, r, RootState(nodes[r]))
     /\ Announce(c, r)
     /\ UNCHANGED <<broken, forgotten, listed>>

\* ingest_running: a placeholder, under the id the finished tree will have,
\* once the project's name was fetched.
IngestRunning(c, r) ==
  /\ UNCHANGED listed
  /\ \/ "unreachable" \in Mishaps /\ Skip
     \/ Write(c, r, "RUNNING") /\ UNCHANGED <<heard, posts, broken, forgotten>>

\* One run of the list, once nobody else holds its row.
Take(c) ==
  /\ stage[c] \in {"finished", "running", "called"} /\ todo[c] # <<>>
  /\ LET kind == Head(todo[c])[1]
         r == Head(todo[c])[2]
     IN IF broken[c] THEN Skip /\ UNCHANGED listed
        ELSE /\ holder[r] \in {c, Nobody}
             /\ IF kind = "finished" THEN IngestRun(c, r)
                ELSE IngestRunning(c, r)
  /\ todo' = [todo EXCEPT ![c] = Rest(c)]
  /\ UNCHANGED <<cloud, nodes, stage, row, ledger, settled, trips>>

IsRunning(r) == cloud[r] = "running"

ListRunning(c) ==
  /\ stage[c] = "finished" /\ todo[c] = <<>>
  /\ stage' = [stage EXCEPT ![c] = "running"]
  /\ \E S \in Recent({r \in Runs : IsRunning(r)}) : \E l \in NewestFirst(S) :
       todo' = [todo EXCEPT ![c] = Listed(l, "running")]
  /\ UNCHANGED <<cloud, nodes, draft, heard, broken, listed, holder, row, ledger, posts,
                 forgotten, settled, trips>>

WaitsFor(c, d) ==
  /\ todo[c] # <<>> /\ ~broken[c]
  /\ holder[Head(todo[c])[2]] = d

\* PostgreSQL breaks a lock cycle by failing a statement of one of the two.
Victim(c) ==
  /\ \E d \in Couriers \ {c} : WaitsFor(c, d) /\ WaitsFor(d, c)
  /\ RollBack(c)
  /\ UNCHANGED <<cloud, nodes, stage, todo, listed, row, ledger, posts, settled, trips>>

Rested(c) ==
  /\ stage' = [stage EXCEPT ![c] = "idle"]
  /\ todo' = [todo EXCEPT ![c] = <<>>]
  /\ broken' = [broken EXCEPT ![c] = FALSE]
  /\ listed' = [listed EXCEPT ![c] = {}]
  /\ UNCHANGED <<cloud, nodes, posts, trips>>

\* A pull that found r finished ended so.
Settle(c, how) ==
  settled' = [r \in Runs |-> IF r \in listed[c] /\ settled[r] # "kept" THEN how ELSE settled[r]]

\* Committing a failed transaction rolls it back, and raises nothing.
Commit(c) ==
  /\ stage[c] \in {"running", "called"} /\ todo[c] = <<>>
  /\ Rested(c)
  /\ IF broken[c]
     THEN Undo(c) /\ Settle(c, "undone") /\ UNCHANGED <<row, ledger>>
     ELSE /\ row' = [r \in Runs |-> Seen(c, r)]
          /\ ledger' = ledger \union heard[c]
          /\ Settle(c, "kept")
          /\ holder' = [r \in Runs |-> IF holder[r] = c THEN Nobody ELSE holder[r]]
          /\ draft' = [draft EXCEPT ![c] = <<>>]
          /\ heard' = [heard EXCEPT ![c] = {}]
          /\ UNCHANGED forgotten

\* A courier dies: a redeploy, a timeout, or a list that cannot be fetched.
Die(c) ==
  /\ stage[c] # "idle"
  /\ Rested(c) /\ Undo(c)
  /\ UNCHANGED <<row, ledger, settled>>

Next ==
  \/ JobMoves
  \/ \E c \in Couriers : \/ Pull(c) \/ Ring(c) \/ Take(c) \/ ListRunning(c)
                         \/ Victim(c) \/ Commit(c) \/ Die(c)

Spec == Init /\ [][Next]_vars

-----------------------------------------------------------------------------
(* A run that has ended is never shown as in progress again, whichever of the *)
(* webhook and two pulls knew of it first.                                    *)
StaysFinished == \A r \in Runs : row[r] \in {"COMPLETED", "FAILED"} => row'[r] = row[r]
FinishedStays == [][StaysFinished]_vars

(* Webhook and pulls together say once that a job failed, and once more for   *)
(* each message whose claim was rolled back after it was posted.              *)
SaidOnce == \A r \in Runs : posts[r] <= 1 + forgotten[r]

(* What a pull found finished and could fetch is recorded when the pull has   *)
(* committed: a run whose results cannot be had or read does not keep the      *)
(* others back.                                                               *)
EndIsRecorded ==
  \A r \in Runs : settled[r] = "kept" /\ cloud[r] = "readable" => row[r] = RootState(nodes[r])

(* A failed tree is never recorded without its message having been claimed,   *)
(* nor the message without the tree it links to.                              *)
TreeAndMessageTogether ==
  \A r \in Runs : /\ row[r] = "FAILED" => r \in ledger
                  /\ r \in ledger => row[r] = RootState(nodes[r])

(* Whoever hears of a run first, its end is recorded with its message, once.   *)
CloudIsTold == SaidOnce /\ EndIsRecorded /\ TreeAndMessageTogether

(* dbt_cloud.ingest_running: "When the run ends, `ingest_run` emits the full  *)
(* tree under the same run id and the feed edits its existing message".       *)
(* Not so of a run whose results cannot be read (README, 5).                *)
EndReplacesRunning == \A r \in Runs : settled[r] = "kept" => row[r] # "RUNNING"

(* dbt_cloud.pull: "One run failing must not stop the others".                *)
(* Not so of one the database refuses: the transaction of the whole pull has   *)
(* failed then, as it will again on every later pull (README, 5).            *)
OneStopsNoOther ==
  \A r \in Runs : settled[r] # "never" /\ cloud[r] = "readable" => row[r] = RootState(nodes[r])
=============================================================================
