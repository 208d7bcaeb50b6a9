------------------------------ MODULE JobSeries ------------------------------
(***************************************************************************)
(* Monitors on jobs: what a check collects of the runs of a job, stores as   *)
(* points and judges with a stated threshold (checks.collect, judge).  Runs,  *)
(* parent links, event logs and bills arrive in any order, and a check        *)
(* collects a window but judges the stored history.                          *)
(***************************************************************************)
EXTENDS Integers, FiniteSets, Functions

CONSTANTS
  Watched,   \* runs of the job the monitor names
  Below,     \* the Spark runs that land below them
  Limit,     \* the monitor's threshold, for a spill or a cost
  Window,    \* how far back a narrow check collects; a rate's window
  MaxAmount, \* bound on what an application spills or costs
  Horizon,   \* bound on the clock
  Redates,   \* bound: times that a run turns out to have begun earlier
  Unknown    \* null

JobSeriesAssumption ==
  /\ IsFiniteSet(Watched) /\ Watched \cap Below = {}
  /\ Unknown \notin Int \union Watched /\ Window \in Nat /\ MaxAmount \in Nat

Runs == Watched \union Below
Kinds == {"failure_rate", "spill", "cost"}

VARIABLES
  now,
  kind,    \* the monitor's kind
  start, state,  \* the watched runs, of which only some have begun
  parent,  \* of the runs below: a watched run, or Unknown until it is learned
  amount,  \* what a run's application spilled, or was billed
  points,  \* metric_points: <<observed_at, run>> to the value
  judged,  \* what the last check said, and of what
  stale,   \* history: watched runs that changed since they were collected
  redated  \* history: watched runs that turned out to have begun earlier

vars == <<now, kind, start, state, parent, amount, points, judged, stale, redated>>
runs == <<start, state, parent, amount>>

NoJudgement == [status |-> "insufficient_data", of |-> Unknown, value |-> 0, count |-> 0, at |-> 0]

Init ==
  /\ now = 1 /\ kind \in Kinds
  /\ start = [r \in Watched |-> Unknown]
  /\ state = [r \in Watched |-> "RUNNING"]
  /\ parent = [r \in Below |-> Unknown] /\ amount = [r \in Runs |-> Unknown]
  /\ points = <<>> /\ judged = NoJudgement /\ stale = {} /\ redated = {}

Begun == {r \in Watched : start[r] # Unknown}
\* A run and what is known to be below it.
Subtree(r) == {r} \union {b \in Below : parent[b] = r}

-----------------------------------------------------------------------------
\* What arrives about the runs.  Times are microseconds: two runs share none.
Free(at) == /\ \A r \in Begun : start[r] # at
            /\ \A p \in DOMAIN points : p[1] # at

Begin(r) ==
  /\ start[r] = Unknown /\ Free(now)
  /\ start' = [start EXCEPT ![r] = now]
  /\ stale' = stale \union {r}
  /\ UNCHANGED <<now, kind, state, parent, amount, points, judged, redated>>

\* An earlier event of the run comes late: its start is the least of them.
Redate(r) ==
  /\ r \in Begun /\ r \notin redated /\ Cardinality(redated) < Redates
  /\ \E at \in 1..(start[r] - 1) : Free(at) /\ start' = [start EXCEPT ![r] = at]
  /\ redated' = redated \union {r}
  /\ stale' = stale \union {r}
  /\ UNCHANGED <<now, kind, state, parent, amount, points, judged>>

\* An ABORT and a FAIL may follow a COMPLETE.
Finish(r, outcome) ==
  /\ r \in Begun
  /\ state[r] = "RUNNING" \/ (state[r] = "COMPLETED" /\ outcome = "FAILED")
  /\ state' = [state EXCEPT ![r] = outcome]
  /\ stale' = stale \union {r}
  /\ UNCHANGED <<now, kind, start, parent, amount, points, judged, redated>>

Hang(b, r) ==
  /\ parent[b] = Unknown
  /\ parent' = [parent EXCEPT ![b] = r]
  /\ stale' = stale \union {r}
  /\ UNCHANGED <<now, kind, start, state, amount, points, judged, redated>>

\* An event log is imported, or a bill is attributed.
Account(r, n) ==
  /\ amount[r] # n
  /\ amount' = [amount EXCEPT ![r] = n]
  /\ stale' = stale \union {w \in Watched : r \in Subtree(w)}
  /\ UNCHANGED <<now, kind, start, state, parent, points, judged, redated>>

Tick == now < Horizon /\ now' = now + 1
        /\ UNCHANGED <<kind, runs, points, judged, stale, redated>>

-----------------------------------------------------------------------------
\* A fault: a run in flight has not failed.
OverOrNotYet(r) == TRUE
\* _failure_points: a run in flight has no point.
Over(r) == state[r] # "RUNNING"
Failure(r) == IF state[r] = "FAILED" THEN 1 ELSE 0

\* _spill_points and _cost_points: the applications of the run's tree, and no
\* point for a tree that has none.
Counted(r) == {x \in Subtree(r) : amount[x] # Unknown}
\* A fault: the application of the run itself.
TotalOfOwn(r) == IF r \in Counted(r) THEN amount[r] ELSE 0
Total(r) == SumFunction([x \in Counted(r) |-> amount[x]])

Known(r) == IF kind = "failure_rate" THEN Over(r) ELSE Counted(r) # {}
Measured(r) == IF kind = "failure_rate" THEN Failure(r) ELSE Total(r)

\* checks.collect: the runs of the job that began in the window.
Collected(since) == {r \in Begun : start[r] >= since /\ Known(r)}

\* A fault: what is stored already is left.
StoredOnce(since) ==
  LET new == {<<start[r], r>> : r \in Collected(since)} \ DOMAIN points
  IN [p \in DOMAIN points \union new |-> IF p \in new THEN Measured(p[2]) ELSE points[p]]
\* store_points: upserted by time and run.
Stored(since) ==
  LET new == {<<start[r], r>> : r \in Collected(since)}
  IN [p \in DOMAIN points \union new |-> IF p \in new THEN Measured(p[2]) ELSE points[p]]

\* A fault: the points just collected.
JudgedFromCollected(since, stored) == {p \in DOMAIN stored : p[1] >= since}
\* evaluate judges what is stored, however little it collected.
JudgedFrom(since, stored) == DOMAIN stored

\* _judge_failure_rate: over half of the runs in the window failed.
Rate(stored, seen) ==
  LET in == {p \in seen : p[1] >= now - Window}
      failed == Cardinality({p \in in : stored[p] > 0})
  IN IF in = {} THEN NoJudgement
     ELSE [status |-> IF 2 * failed > Cardinality(in) THEN "breach" ELSE "ok",
           of |-> Unknown, value |-> failed, count |-> Cardinality(in), at |-> now]

\* _judge_spill: at the limit is within it.
Exceeds(value) == value > Limit

\* _judge_spill and _judge_bounds: the newest point against the limit.
Newest(stored, seen) ==
  LET p == CHOOSE p \in seen : \A q \in seen : q[1] <= p[1]
  IN IF seen = {} THEN NoJudgement
     ELSE [status |-> IF Exceeds(stored[p]) THEN "breach" ELSE "ok",
           of |-> p[2], value |-> stored[p], count |-> 1, at |-> now]

Check(since) ==
  LET stored == Stored(since)
      seen == JudgedFrom(since, stored)
  IN /\ points' = stored
     /\ judged' = IF kind = "failure_rate" THEN Rate(stored, seen) ELSE Newest(stored, seen)
     /\ stale' = {r \in stale : r \in Begun /\ start[r] < since}
     /\ UNCHANGED <<now, kind, runs, redated>>

\* A kind of monitor reads the outcomes of the runs or their applications: the
\* other rows do not move under it.
OfStates == kind = "failure_rate"

Next ==
  \/ \E r \in Watched : Begin(r) \/ Redate(r)
  \/ OfStates /\ \E r \in Watched, s \in {"COMPLETED", "FAILED"} : Finish(r, s)
  \/ ~OfStates /\ \E b \in Below, r \in Watched : Hang(b, r)
  \/ ~OfStates /\ \E r \in Runs, n \in 0..MaxAmount : Account(r, n)
  \/ \E since \in {0, now - Window} : Check(since)
  \/ Tick

Spec == Init /\ [][Next]_vars

-----------------------------------------------------------------------------
\* After a check that has collected every change, however it was cut into windows.
Settled == stale = {} /\ redated = {}

(* A failure rate is that of the runs of the window that have ended: a hanging *)
(* run dilutes nothing, a run is counted once, a success that turned into a    *)
(* failure counts as one.  Not so for a run whose start moved: its point at    *)
(* the old time stays (checks._failure_points, store_points).                  *)
RateIsOfEndedRuns ==
  (kind = "failure_rate" /\ Settled /\ judged # NoJudgement) =>
    LET ended == {r \in Begun : start[r] >= judged.at - Window /\ state[r] # "RUNNING"}
    IN /\ judged.count = Cardinality(ended)
       /\ judged.value = Cardinality({r \in ended : state[r] = "FAILED"})

(* A spill or a cost is judged of the whole tree of the newest run that has    *)
(* one, and a job without any is not within its budget but unknown             *)
(* (checks._cost_points).                                                      *)
NewestTreeIsJudged ==
  (kind \in {"spill", "cost"} /\ Settled) =>
    LET known == {r \in Begun : \E x \in Subtree(r) : amount[x] # Unknown}
        newest == CHOOSE r \in known : \A s \in known : start[s] <= start[r]
    IN IF known = {} THEN judged.status = "insufficient_data"
       ELSE /\ judged.of = newest
            /\ judged.value =
                SumFunction([x \in {y \in Subtree(newest) : amount[y] # Unknown} |-> amount[x]])

(* What a check says is so of the runs, and nothing is said of what is unknown. *)
JudgedOfTheRuns == RateIsOfEndedRuns /\ NewestTreeIsJudged
=============================================================================
