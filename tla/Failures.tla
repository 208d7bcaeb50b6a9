------------------------------ MODULE Failures -------------------------------
(***************************************************************************)
(* Which failed pipelines a sweep speaks of (notify.run_failures): one        *)
(* message for the tree, after a grace period in which a retry may land,      *)
(* within a window, and not when the dbt job message has said it.  Claims      *)
(* and posts are NotifyLedger's; here a claimed message is out.                *)
(***************************************************************************)
EXTENDS Integers, FiniteSets

CONSTANTS
  Pipelines,  \* root runs
  ByCloud,    \* those a dbt Cloud courier records, which sends the job message
  Grace,      \* DEFAULT_GRACE_MINUTES
  Since,      \* DEFAULT_SINCE_HOURS
  Limit,      \* run_failures' limit: the newest so many
  Gap,        \* cron: a sweep at least this often
  Delay,      \* bound: how late an event arrives
  Horizon,    \* bound on the clock
  Never

FailuresAssumption ==
  /\ IsFiniteSet(Pipelines) /\ ByCloud \subseteq Pipelines
  /\ Never \notin 0..Horizon
  /\ {Grace, Since, Limit, Gap, Delay, Horizon} \subseteq Nat

VARIABLES
  now,
  root,      \* the root run's state in the database
  failedAt,  \* times of the failed runs of its tree
  endedAt,   \* history: when the root's last event was recorded
  ledger,    \* notifications claimed
  lastSweep

vars == <<now, root, failedAt, endedAt, ledger, lastSweep>>

Init ==
  /\ now = 0 /\ lastSweep = 0
  /\ root = [p \in Pipelines |-> "RUNNING"]
  /\ failedAt = [p \in Pipelines |-> {}]
  /\ endedAt = [p \in Pipelines |-> Never]
  /\ ledger = {}

\* Notifications: an event and the key that claims it.
Note(p) == <<"run_failure", p>>
JobNote(p) == <<"dbt_job", p>>

\* A failed run is recorded, with the time its event gives.
Recorded(p) ==
  \E at \in 0..now : /\ now - at <= Delay
                    /\ failedAt' = [failedAt EXCEPT ![p] = @ \union {at}]

\* A task below the root fails; the scheduler may retry it, as a run of its own.
TaskFails(p) ==
  /\ p \notin ByCloud /\ root[p] = "RUNNING"
  /\ Recorded(p)
  /\ UNCHANGED <<now, root, endedAt, ledger, lastSweep>>

\* The root ends, one way or the other.
RootEnds(p, state) ==
  /\ p \notin ByCloud /\ root[p] = "RUNNING"
  /\ root' = [root EXCEPT ![p] = state]
  /\ endedAt' = [endedAt EXCEPT ![p] = now]
  /\ IF state = "FAILED" THEN Recorded(p) ELSE UNCHANGED failedAt
  /\ UNCHANGED <<now, ledger, lastSweep>>

\* The courier commits the tree and the claim of its message together.
CloudJobFails(p) ==
  /\ p \in ByCloud /\ root[p] = "RUNNING"
  /\ root' = [root EXCEPT ![p] = "FAILED"]
  /\ endedAt' = [endedAt EXCEPT ![p] = now]
  /\ Recorded(p)
  /\ ledger' = ledger \union {JobNote(p)}
  /\ UNCHANGED <<now, lastSweep>>

\* A fault: a failure counts at once.
InWindowAtOnce(at) == now - at <= Since
\* A fault: the window closes when the grace period is over.
InWindowOfGrace(at) == now - at = Grace
InWindow(at) == now - at >= Grace /\ now - at <= Since

\* A fault: the job message is not looked up.
NeverStandDown(p) == FALSE
StandDown(p) == JobNote(p) \in ledger

Unsettled(p) == root[p] # "COMPLETED"

Worth(p) == Unsettled(p) /\ ~StandDown(p) /\ \E at \in failedAt[p] : InWindow(at)

\* Of the failures in the window.
Latest(p) == LET at == {t \in failedAt[p] : InWindow(t)}
             IN CHOOSE t \in at : \A u \in at : u <= t

\* The limit counts what was told before too.
Sweep ==
  /\ \E some \in SUBSET {p \in Pipelines : Worth(p)} :
       LET left == {p \in Pipelines : Worth(p)} \ some
       IN /\ Cardinality(some) <= Limit
          /\ left # {} => Cardinality(some) = Limit
          /\ \A p \in some, q \in left : Latest(p) >= Latest(q)
          /\ ledger' = ledger \union {Note(p) : p \in some}
  /\ lastSweep' = now
  /\ UNCHANGED <<now, root, failedAt, endedAt>>

Tick ==
  /\ now < Horizon
  /\ now + 1 - lastSweep <= Gap
  /\ now' = now + 1
  /\ UNCHANGED <<root, failedAt, endedAt, ledger, lastSweep>>

Next ==
  \/ \E p \in Pipelines : \/ TaskFails(p) \/ CloudJobFails(p)
                          \/ \E s \in {"COMPLETED", "FAILED"} : RootEnds(p, s)
  \/ Sweep \/ Tick

Spec == Init /\ [][Next]_vars

-----------------------------------------------------------------------------
Earliest(S) == CHOOSE t \in S : \A u \in S : t <= u

(* A pipeline whose retry completes it within the grace period of its first   *)
(* failure is never a message, whenever the events arrive and sweeps run.      *)
RetryThatWorksIsSilent ==
  \A p \in Pipelines :
    (root[p] = "COMPLETED" /\ failedAt[p] # {} /\ endedAt[p] < Earliest(failedAt[p]) + Grace)
      => Note(p) \notin ledger

(* A failed pipeline is a message once the grace period and one gap between   *)
(* sweeps have passed since its failure was recorded: the window is wide       *)
(* enough that no failure falls between two sweeps, as long as no more         *)
(* pipelines than the limit failed within it.                                  *)
FailureIsSaid ==
  Cardinality({p \in Pipelines : failedAt[p] # {}}) <= Limit =>
  \A p \in Pipelines :
    (root[p] = "FAILED" /\ now > endedAt[p] + Grace + Gap) => {Note(p), JobNote(p)} \intersect ledger # {}

(* A dbt Cloud job that failed is one message, never also "the pipeline        *)
(* failed".                                                                    *)
OneMessagePerCloudJob == \A p \in ByCloud : Note(p) \notin ledger

(* A failure that stands is a message, one message, and a retry that works is   *)
(* none.                                                                       *)
FailuresAreSaid == RetryThatWorksIsSilent /\ FailureIsSaid /\ OneMessagePerCloudJob
=============================================================================
