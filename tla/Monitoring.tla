----------------------------- MODULE Monitoring -----------------------------
(***************************************************************************)
(* The monitoring sweep (checks.py, alerts.py, incidents.py).  `wishd check` *)
(* lists the monitors, evaluates them one by one, groups the breaches by     *)
(* lineage, alerts on what changed, and commits: all in one transaction.     *)
(* Cron, the API and people start sweeps, so they overlap; the database      *)
(* orders only the update of a monitor's row, whose lock lasts to the commit. *)
(*                                                                         *)
(* How a verdict is reached is in JobSeries, SchemaDrift and Anomaly;         *)
(* here a monitor has the verdict its data deserve, and the data change.     *)
(***************************************************************************)
EXTENDS Integers, Sequences, FiniteSets, SequencesExt

CONSTANTS
  ByName,     \* the monitors, in the order of their names
  Entities,   \* datasets that lineage knows
  Entity,     \* the dataset a monitor watches, or Nothing
  Nothing,    \* no status yet, no dataset, no sweep
  Distance,   \* lineage: hops from a dataset up to another, 0 if there is no path
  Sweeps,     \* processes that may sweep at the same time
  Scopes,     \* what a sweep may be asked for: all monitors, a schedule, a name
  BlastDepth, \* MAX_BLAST_DEPTH
  Window,     \* DEFAULT_WINDOW_HOURS, in ticks of the clock
  Verdicts,   \* what judging may say
  Budget,     \* bound: sweeps begun, verdicts changed and ticks of the clock
  Mishaps     \* what may go wrong: "overlap", "quiet", "lost", "refused"

Monitors == Range(ByName)
Rank(m) == CHOOSE i \in DOMAIN ByName : ByName[i] = m
Statuses == {"ok", "breach", "insufficient_data", "error"}
Alertable == {"breach", "ok", "error"}

MonitoringAssumption ==
  /\ ByName \in Seq(Monitors) /\ Nothing \notin Sweeps
  /\ Entity \in [Monitors -> Entities \union {Nothing}]
  /\ Distance \in [Entities -> [Entities -> Nat]]
  /\ Scopes \subseteq SUBSET Monitors
  /\ Verdicts \subseteq Statuses
  /\ Budget \in Nat
  /\ Mishaps \subseteq {"overlap", "quiet", "lost", "refused"}

VARIABLES
  now,       \* the clock
  verdict,   \* what judging each monitor would say now
  row,       \* monitors: last_status, and when its latest result was evaluated
  held,      \* the sweep that locked the monitor's row, or Nothing
  sweep,     \* what each sweep has in its hands
  incidents, \* open incidents: the cause and its recorded consequences
  budget,    \* what is left of Budget
  told,      \* history: the last status the alert channels were sent and took
  lapse      \* history: why they may not know the status a monitor holds

vars == <<now, verdict, row, held, sweep, incidents, budget, told, lapse>>

Idle == [pc |-> "idle", began |-> 0, quiet |-> FALSE, todo |-> <<>>,
         seen |-> <<>>, judged |-> <<>>, found |-> <<>>, changed |-> {}, sent |-> {},
         refused |-> {}]

Init ==
  /\ now = 0
  /\ verdict = [m \in Monitors |-> "ok"]
  /\ row = [m \in Monitors |-> [status |-> Nothing, at |-> 0]]
  /\ held = [m \in Monitors |-> Nothing]
  /\ sweep = [s \in Sweeps |-> Idle]
  /\ incidents = {}
  /\ budget = Budget
  /\ told = [m \in Monitors |-> Nothing]
  /\ lapse = [m \in Monitors |-> {}]

-----------------------------------------------------------------------------
(* Grouping breaches (incidents.detect).  `view` is the monitors' rows as    *)
(* the transaction that asks sees them.                                      *)
Breaching(view) == {m \in Monitors : view[m].status = "breach"}

Apart(x, y) == IF x > y THEN x - y ELSE y - x

\* by_entity: of several breaching monitors of a dataset, the last evaluated.
OnEntity(view, e) ==
  LET here == {m \in Breaching(view) : Entity[m] = e}
  IN CHOOSE m \in here : \A k \in here :
       view[k].at < view[m].at \/ (view[k].at = view[m].at /\ Rank(k) <= Rank(m))

\* The datasets above m whose breach is close enough, in hops and in time.
Above(view, m) ==
  IF Entity[m] = Nothing THEN {} ELSE
  {e \in {Entity[k] : k \in Breaching(view)} \ {Nothing} :
     /\ Distance[Entity[m]][e] \in 1..BlastDepth
     /\ OnEntity(view, e) # m
     /\ Apart(view[OnEntity(view, e)].at, view[m].at) <= Window}

Explained(view) == {m \in Breaching(view) : Above(view, m) # {}}

Explainer(view, m) ==
  OnEntity(view, CHOOSE e \in Above(view, m) : \A f \in Above(view, m) :
                   Distance[Entity[m]][e] >= Distance[Entity[m]][f])

\* A fault: the consequences of consequences are listed too.
LooseCauses(view) == Breaching(view)

Causes(view) == Breaching(view) \ Explained(view)

Consequences(view, c) == {m \in Explained(view) : Explainer(view, m) = c}

\* A fault: recoveries are suppressed along with breaches.
SwallowRecoveries(view, found) ==
  {m \in DOMAIN found : Entity[m] # Nothing /\ \E k \in Causes(view) \ {m} :
     Entity[k] # Nothing /\ Distance[Entity[m]][Entity[k]] > 0}

\* suppress: breaches that a cause explains, when the sweep found at least two.
Swallowed(view, found) ==
  LET broken == {m \in DOMAIN found : found[m] = "breach"}
  IN IF Cardinality(broken) < 2 THEN {}
     ELSE broken \intersect UNION {Consequences(view, c) : c \in Causes(view)}

-----------------------------------------------------------------------------
Spend == budget > 0 /\ budget' = budget - 1

\* The rows as sweep s sees them: what is committed, and what it stored itself.
View(s) ==
  [m \in Monitors |-> IF m \in DOMAIN sweep[s].found
                      THEN [status |-> sweep[s].found[m], at |-> sweep[s].began]
                      ELSE row[m]]

\* list_monitors: those never evaluated first, for null sorts first, then those
\* in breach, each by name.
Urgency(m) == CASE row[m].status = Nothing -> 0
                [] row[m].status = "breach" -> 1
                [] OTHER -> 2
ListedBefore(m, k) ==
  Urgency(m) < Urgency(k) \/ (Urgency(m) = Urgency(k) /\ Rank(m) < Rank(k))
Listed(scope) ==
  {l \in UNION {[1..n -> scope] : n \in 0..Len(ByName)} :
     /\ scope \subseteq Range(l)
     /\ \A i, j \in DOMAIN l : i < j => ListedBefore(l[i], l[j])}

\* check_all begins: the statuses it will compare with are read here, once.
Start(s, scope, quiet) ==
  /\ sweep[s].pc = "idle"
  /\ "overlap" \in Mishaps \/ \A t \in Sweeps : sweep[t].pc = "idle"
  /\ quiet => "quiet" \in Mishaps
  /\ Spend
  /\ \E listed \in Listed(scope) : sweep' = [sweep EXCEPT ![s] =
       [Idle EXCEPT !.pc = "judging", !.began = now, !.quiet = quiet, !.todo = listed,
                    !.seen = [m \in scope |-> row[m].status]]]
  /\ UNCHANGED <<now, verdict, row, held, incidents, told, lapse>>

\* evaluate: collect and judge.  A failure is the verdict "error".
Judge(s) ==
  /\ sweep[s].pc = "judging"
  /\ sweep[s].todo # <<>>
  /\ sweep' = [sweep EXCEPT ![s].pc = "storing",
                            ![s].judged = verdict[Head(sweep[s].todo)]]
  /\ UNCHANGED <<now, verdict, row, held, incidents, budget, told, lapse>>

\* A fault: every result counts as a transition.
AlwaysTransitioned(s, m, status) == status # Nothing

\* store_result: the transition, and the row's lock until the commit.
Transitioned(s, m, status) == sweep[s].seen[m] # status

Store(s) ==
  LET m == Head(sweep[s].todo)
      status == sweep[s].judged
  IN /\ sweep[s].pc = "storing"
     /\ held[m] \in {Nothing, s}
     /\ held' = [held EXCEPT ![m] = s]
     /\ sweep' = [sweep EXCEPT ![s].pc = "judging", ![s].todo = Tail(@),
          ![s].found = [k \in DOMAIN @ \union {m} |-> IF k = m THEN status ELSE @[k]],
          ![s].changed = IF Transitioned(s, m, status) THEN @ \union {m} ELSE @]
     /\ UNCHANGED <<now, verdict, row, incidents, budget, told, lapse>>

\* deliver: what transitioned, is worth telling and was not swallowed.
Sending(s) ==
  {m \in sweep[s].changed : sweep[s].found[m] \in Alertable}
    \ Swallowed(View(s), sweep[s].found)

\* The alerts are out, whether or not the transaction will commit.  One that is
\* refused by its channel, routed to none, or has none configured is swallowed,
\* and the sweep goes on.  A sweep is several messages, so any of them may be.
Deliver(s) ==
  /\ sweep[s].pc = "judging"
  /\ sweep[s].todo = <<>>
  /\ LET sending == IF sweep[s].quiet THEN {} ELSE Sending(s)
     IN \E refused \in SUBSET sending :
          LET sent == sending \ refused
          IN /\ refused # {} => "refused" \in Mishaps
             /\ sweep' = [sweep EXCEPT ![s].pc = "committing", ![s].sent = sent,
                                       ![s].refused = refused]
             /\ told' = [m \in Monitors |-> IF m \in sent THEN sweep[s].found[m]
                                           ELSE told[m]]
  /\ UNCHANGED <<now, verdict, row, held, incidents, budget, lapse>>

\* Why the channels may not know of the status that s commits for m.
LapseOf(s, m) ==
  LET found == sweep[s].found[m]
  IN IF sweep[s].seen[m] # row[m].status THEN {"stale"}
     ELSE IF m \notin sweep[s].changed THEN lapse[m]
     ELSE IF sweep[s].quiet THEN {"quiet"}
     ELSE IF m \in sweep[s].refused THEN {"refused"}
     ELSE IF found = "breach" /\ m \notin sweep[s].sent THEN {"withheld"}
     ELSE {}

Released(s) == [m \in Monitors |-> IF held[m] = s THEN Nothing ELSE held[m]]

Commit(s) ==
  LET found == sweep[s].found
  IN /\ sweep[s].pc = "committing"
     /\ row' = [m \in Monitors |->
          IF m \notin DOMAIN found THEN row[m]
          ELSE [status |-> found[m],
                at |-> IF row[m].at > sweep[s].began THEN row[m].at ELSE sweep[s].began]]
     /\ lapse' = [m \in Monitors |-> IF m \in DOMAIN found THEN LapseOf(s, m) ELSE lapse[m]]
     /\ held' = Released(s)
     /\ sweep' = [sweep EXCEPT ![s] = Idle]
     /\ UNCHANGED <<now, verdict, incidents, budget, told>>

\* The transaction rolls back: the sweep is killed, a statement of evaluate or
\* _record failed inside it, or it was the victim of a deadlock of row locks.
Lose(s) ==
  /\ "lost" \in Mishaps
  /\ sweep[s].pc # "idle"
  /\ lapse' = [m \in Monitors |->
       IF m \in sweep[s].sent THEN lapse[m] \union {"lost"} ELSE lapse[m]]
  /\ held' = Released(s)
  /\ sweep' = [sweep EXCEPT ![s] = Idle]
  /\ UNCHANGED <<now, verdict, row, incidents, budget, told>>

\* A fault: arming records the status.
ArmedAndRecorded(m) == [row EXCEPT ![m] = [status |-> verdict[m], at |-> now]]
\* `wishd apply` arms a monitor: evaluate with record=False leaves its row.
Armed(m) == row

Arm(m) ==
  /\ held[m] = Nothing
  /\ row' = Armed(m)
  /\ UNCHANGED <<now, verdict, held, sweep, incidents, budget, told, lapse>>

\* detect with persist=True: one open incident for each cause, which keeps the
\* consequences it ever had; the incidents of other monitors are resolved.
Kept(c) == UNION {i.members : i \in {j \in incidents : j.cause = c}}

Group ==
  /\ incidents' = {[cause |-> c, members |-> Consequences(row, c) \union Kept(c)]
                     : c \in Causes(row)}
  /\ UNCHANGED <<now, verdict, row, held, sweep, budget, told, lapse>>

-----------------------------------------------------------------------------
\* External: the data get better or worse: another run, a late table, a broken query.
Change(m, v) ==
  /\ Spend
  /\ verdict[m] # v
  /\ verdict' = [verdict EXCEPT ![m] = v]
  /\ UNCHANGED <<now, row, held, sweep, incidents, told, lapse>>

Tick ==
  /\ Spend
  /\ now' = now + 1
  /\ UNCHANGED <<verdict, row, held, sweep, incidents, told, lapse>>

Next ==
  \/ \E s \in Sweeps, scope \in Scopes, quiet \in BOOLEAN : Start(s, scope, quiet)
  \/ \E s \in Sweeps : Judge(s) \/ Store(s) \/ Deliver(s) \/ Commit(s) \/ Lose(s)
  \/ \E m \in Monitors : Arm(m)
  \/ Group
  \/ \E m \in Monitors, v \in Verdicts : Change(m, v)
  \/ Tick

Spec == Init /\ [][Next]_vars

-----------------------------------------------------------------------------
TypeOK ==
  /\ now \in 0..Budget
  /\ verdict \in [Monitors -> Statuses]
  /\ row \in [Monitors -> [status : Statuses \union {Nothing}, at : 0..Budget]]
  /\ held \in [Monitors -> Sweeps \union {Nothing}]
  /\ told \in [Monitors -> Alertable \union {Nothing}]
  /\ \A s \in Sweeps : sweep[s].changed \subseteq DOMAIN sweep[s].found
  /\ \A i \in incidents : i.members \subseteq Monitors

Quiescent == \A s \in Sweeps : sweep[s].pc = "idle"

(* What the channels were last told of a monitor is the status it holds,     *)
(* breach, error or recovery, unless the last change was found by a stale    *)
(* sweep or in a quiet one, was swallowed or refused, or was told by a sweep *)
(* that then rolled back.  In particular a change that was told is not       *)
(* forgotten by arming the monitor or by a sweep that finds nothing new.      *)
ChannelsKnow ==
  \A m \in Monitors :
    (Quiescent /\ lapse[m] = {} /\ row[m].status \in Alertable)
      => told[m] = row[m].status

(* A status is told twice running only by a sweep that compared with a       *)
(* status that had changed since it listed the monitors, or after a lapse    *)
(* or a status nobody is told of: "one alert, not one an hour".               *)
RepeatsOnlyIfStale ==
  \A s \in Sweeps :
    (sweep[s].pc = "judging" /\ sweep'[s].pc = "committing" /\ ~sweep[s].quiet) =>
      \A m \in Sending(s) :
        sweep[s].found[m] = told[m] =>
          \/ sweep[s].seen[m] # row[m].status
          \/ row[m].status # told[m]
          \/ lapse[m] # {}

(* A sweep that finds the only breaches there are, all of them new, sends at *)
(* least one of them, whatever the shape of the graph: monitors that explain *)
(* one another in a cycle cannot swallow each other.                          *)
SomethingIsSent ==
  \A s \in Sweeps :
    LET found == sweep[s].found
        broken == {m \in DOMAIN found : found[m] = "breach"}
    IN (/\ sweep[s].pc = "judging" /\ sweep'[s].pc = "committing"
        /\ broken # {}
        /\ broken = Breaching(View(s))
        /\ broken \subseteq sweep[s].changed)
       => \E m \in broken : m \in Sending(s)

(* An alert is neither repeated nor lost among the others.                     *)
AlertsAreSent == [][RepeatsOnlyIfStale /\ SomethingIsSent]_vars

(* incidents.py: "Only the cause is delivered."  So whoever is the cause of  *)
(* an open incident has been delivered.                                       *)
(* Not so when a consequence becomes the cause (README, 5).                 *)
CauseWasDelivered ==
  \A i \in incidents :
    (/\ Quiescent /\ row[i.cause].status = "breach"
     /\ lapse[i.cause] \subseteq {"withheld"}
     /\ i.cause \in Causes(row))
      => told[i.cause] = "breach"

(* checks.py, store_result: a transition "is computed here, against the      *)
(* status the monitor held before this evaluation".                           *)
(* Not so when sweeps overlap (README, 5).                                  *)
TransitionFromHeld ==
  [][\A s \in Sweeps :
       (sweep[s].pc = "committing" /\ row' # row) =>
         \A m \in DOMAIN sweep[s].found :
           row'[m].status # row[m].status => m \in sweep[s].changed]_vars
=============================================================================
