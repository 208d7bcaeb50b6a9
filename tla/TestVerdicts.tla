----------------------------- MODULE TestVerdicts -----------------------------
(***************************************************************************)
(* Results of data tests that other engines ran (dq.py), and the messages     *)
(* about them (notify.data_test_notifications).  Results of a check arrive in *)
(* any order, again and again, and late; a sweep says every change of verdict *)
(* in its window once.  The check is one that is not dbt's: those have the    *)
(* message of their job (DbtCloud) and are skipped here.                      *)
(***************************************************************************)
EXTENDS Integers, Sequences, FiniteSets

CONSTANTS
  Verdicts,   \* results that happen: "pass", "fail" or "error", and its severity
  Window,     \* DEFAULT_SINCE_HOURS
  Limit,      \* transitions' limit
  Gap,        \* cron: a sweep at least this often
  Late,       \* bound: how long after its measurement a result arrives
  MaxImports, \* bound
  Horizon     \* bound on the clock

TestVerdictsAssumption ==
  /\ Verdicts \subseteq [status : {"pass", "fail", "error"}, warn : BOOLEAN]
  /\ {Window, Limit, Gap, Late, MaxImports, Horizon} \subseteq Nat

VARIABLES
  now,
  checks,   \* external_checks, for one check: measurement time to result
  said,     \* data_test notifications claimed: times
  channel,  \* what the channel shows: <<time, status>>, in posting order
  imports,
  lastSweep,
  moved,    \* history: when a result, or the one before it, last changed
  revised   \* history: measurements whose result changed after its message

vars == <<now, checks, said, channel, imports, lastSweep, moved, revised>>

Init ==
  /\ now = 0 /\ lastSweep = 0 /\ imports = 0
  /\ checks = <<>> /\ moved = <<>>
  /\ said = {} /\ revised = {} /\ channel = <<>>

Measured == DOMAIN checks
Newest(S) == CHOOSE t \in S : \A u \in S : u <= t

\* Nothing was measured between the two.
Adjacent(t, u) == t < u /\ \A w \in Measured : ~(t < w /\ w < u)

\* import_results: the same measurement again rewrites its row.
Import(t, v) ==
  /\ imports < MaxImports /\ now - t <= Late
  /\ t \in Measured => checks[t] # v
  /\ checks' = [u \in Measured \union {t} |-> IF u = t THEN v ELSE checks[u]]
  /\ moved' = [u \in Measured \union {t} |-> IF u = t \/ Adjacent(t, u) THEN now ELSE moved[u]]
  /\ revised' = IF t \in Measured \intersect said THEN revised \union {t} ELSE revised
  /\ imports' = imports + 1
  /\ UNCHANGED <<now, said, channel, lastSweep>>

Bad == {"fail", "error"}

\* lag(status), by time of measurement: "none" before the first.
Previous(t) == LET before == {u \in Measured : u < t}
               IN IF before = {} THEN "none" ELSE checks[Newest(before)].status

\* A fault: a first result is news, whatever it says.
AnyChange(t) == checks[t].status # Previous(t)
\* A fault: only the latest result of a check is looked at.
LatestChange(t) ==
  /\ \A u \in Measured : u <= t
  /\ checks[t].status # Previous(t)
  /\ checks[t].status \in Bad \/ Previous(t) \in Bad

\* transitions: into, out of, or between failures.
Transition(t) ==
  /\ checks[t].status # Previous(t)
  /\ checks[t].status \in Bad \/ Previous(t) \in Bad

\* Failures before recoveries, and the newest first.
SaidBefore(t, u) ==
  LET rank(w) == IF checks[w].status = "pass" THEN 1 ELSE 0
  IN rank(t) < rank(u) \/ (rank(t) = rank(u) /\ t > u)

InWindow == {t \in Measured : Transition(t) /\ now - t <= Window}
\* The limit comes before what the sweep passes over.
Transitions == {t \in InWindow : Cardinality({u \in InWindow : SaidBefore(u, t)}) < Limit}
\* A warning is never a message, in either direction.
News == {t \in Transitions : ~checks[t].warn /\ t \notin said}

Orders(news) ==
  {order \in [1..Cardinality(news) -> news] :
     /\ \A t \in news : \E i \in DOMAIN order : order[i] = t
     /\ \A i, j \in DOMAIN order : i < j => SaidBefore(order[i], order[j])}

Sweep ==
  /\ \E order \in Orders(News) :
       channel' = channel \o [i \in DOMAIN order |-> <<order[i], checks[order[i]].status>>]
  /\ said' = said \union News
  /\ lastSweep' = now
  /\ UNCHANGED <<now, checks, imports, moved, revised>>

Tick ==
  /\ now < Horizon
  /\ now + 1 - lastSweep <= Gap
  /\ now' = now + 1
  /\ UNCHANGED <<checks, said, channel, imports, lastSweep, moved, revised>>

Next ==
  \/ \E t \in 0..now, v \in Verdicts : Import(t, v)
  \/ Sweep \/ Tick

Spec == Init /\ [][Next]_vars

-----------------------------------------------------------------------------
\* The results from u to t say the same, and the one before u does not.
Begins(u, t) ==
  /\ u <= t
  /\ \A w \in Measured : w \in u..t => checks[w].status = checks[t].status
  /\ \A w \in Measured : Adjacent(w, u) => checks[w].status # checks[t].status

\* It came to be a change of verdict early enough for a sweep to find it in
\* the window.
InTime(u) == moved[u] + Gap <= u + Window

\* There was a sweep since.
Swept(u) == now > moved[u] + Gap

(* Every failure is covered by the message about where it began, however many  *)
(* results fell between two sweeps, in whatever order they arrived and however *)
(* often they were revised, if it began to be a failure in time, not as a      *)
(* warning, and with no more results than the limit.                           *)
EveryFailureIsCovered ==
  Cardinality(Measured) <= Limit =>
    \A t \in Measured : checks[t].status \in Bad =>
      \E u \in Measured :
        /\ Begins(u, t)
        /\ InTime(u) /\ Swept(u) /\ ~checks[u].warn =>
             /\ u \in said
             /\ u \in revised \/ \E i \in DOMAIN channel : channel[i] = <<u, checks[u].status>>

(* A recovery is told only to a reader who was told before of the failure that *)
(* it ends, unless that one was a warning or had left the window.              *)
RecoveryHasItsFailure ==
  \A i \in DOMAIN channel' \ DOMAIN channel : channel'[i][2] = "pass" =>
    \E u, v \in Measured :
      /\ Adjacent(v, channel'[i][1]) /\ checks[v].status \in Bad /\ Begins(u, v)
      /\ \/ \E j \in DOMAIN channel' : j < i /\ channel'[j][1] = u
         \/ checks[u].warn \/ now - u > Window

(* The channel is told of every failure, and of recoveries it can place.       *)
VerdictsAreTold == []EveryFailureIsCovered /\ [][RecoveryHasItsFailure]_vars

(* dq.transitions: "A check that only ever speaks when it breaks leaves an     *)
(* unresolved failure indistinguishable from an ongoing one": the last message *)
(* about a check agrees with its latest result.                                *)
(* Not so: a sweep tells recoveries last (README, 5).                       *)
LastWordIsCurrent ==
  (/\ channel # <<>> /\ revised = {} /\ Cardinality(Measured) <= Limit
   /\ \A t \in Measured : InTime(t) /\ Swept(t) /\ ~checks[t].warn) =>
    (channel[Len(channel)][2] \in Bad <=> checks[Newest(Measured)].status \in Bad)

(* notify.py, of a check whose failures are warnings: "Announcing the recovery *)
(* of something we deliberately never mentioned breaking is worse than noise". *)
(* Not so when it stopped being one in between (README, 5).                 *)
WarningsAreSilent ==
  [][\A i \in DOMAIN channel' \ DOMAIN channel : channel'[i][2] = "pass" =>
       \A v \in Measured : Adjacent(v, channel'[i][1]) => ~checks[v].warn]_vars
=============================================================================
