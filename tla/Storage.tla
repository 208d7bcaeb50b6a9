------------------------------- MODULE Storage -------------------------------
(***************************************************************************)
(* Monthly partitions of a table (retention.py) and the thread that keeps    *)
(* them ahead of the clock (upkeep.py).  A row whose month has no partition   *)
(* goes to the default partition, and from then on PostgreSQL refuses to      *)
(* create that month.  Months are pairs <<year, month>>, as in the code.      *)
(***************************************************************************)
EXTENDS Integers, FiniteSets

CONSTANTS
  Start,       \* the month the table is created in
  Horizon,     \* bound: months the clock advances
  MonthsAhead, \* DATASPINE_PARTITION_MONTHS_AHEAD
  KeepMonths   \* DATASPINE_RETENTION_MONTHS, 0 when it is not set

StorageAssumption ==
  /\ Start \in Nat \X (1..12)
  /\ MonthsAhead \in Nat \ {0} /\ KeepMonths \in Nat /\ Horizon \in Nat

VARIABLES
  month,      \* the month it is
  months,     \* months with a partition
  rows,       \* months with rows in their own partition
  backstop,   \* months with rows in the default partition
  lastUpkeep, \* the last month upkeep ran in
  elapsed,    \* months since Start
  lapsed      \* history: months that began with upkeep too long ago

vars == <<month, months, rows, backstop, lastUpkeep, elapsed, lapsed>>

-----------------------------------------------------------------------------
Index(m) == 12 * m[1] + m[2]
After(m) == IF m[2] = 12 THEN <<m[1] + 1, 1>> ELSE <<m[1], m[2] + 1>>

Before(m) == IF m[2] = 1 THEN <<m[1] - 1, 12>> ELSE <<m[1], m[2] - 1>>

\* _months_from: so many months, from this one on.
MonthsFrom(m, count) ==
  LET at[n \in Nat] == IF n = 0 THEN m ELSE After(at[n - 1])
  IN {at[n] : n \in 0..(count - 1)}

\* A fault: this month is not counted among those ahead, yet it is one of them.
MonthsFromShort(m, count) == MonthsFrom(m, count - 1)
MonthsFromHere(m, count) == MonthsFrom(m, count)

\* A fault: the year does not change with the month.
CutoffSameYear(m, keep) ==
  IF m[2] > keep - 1 THEN <<m[1], m[2] - (keep - 1)>>
  ELSE <<m[1], m[2] - (keep - 1) + 12>>

\* apply_retention: count back from the current month, which is included.
Back(m, count) ==
  LET at[n \in Nat] == IF n = 0 THEN m ELSE Before(at[n - 1])
  IN at[count]

\* A fault: the current month is not counted.
CutoffExclusive(m, keep) == Back(m, keep)

Cutoff(m, keep) == Back(m, keep - 1)

Earlier(a, b) == a[1] < b[1] \/ (a[1] = b[1] /\ a[2] < b[2])

\* Upkeep has never run: longer ago than it looks ahead.
Never == <<0 - MonthsAhead, 1>>

Init ==
  /\ month = Start
  /\ months = {} /\ rows = {} /\ backstop = {} /\ lapsed = {Start}
  /\ lastUpkeep = Never
  /\ elapsed = 0

\* An event is archived: received_at is the clock's.
Insert ==
  /\ IF month \in months
     THEN rows' = rows \union {month} /\ UNCHANGED backstop
     ELSE backstop' = backstop \union {month} /\ UNCHANGED rows
  /\ UNCHANGED <<month, months, lastUpkeep, elapsed, lapsed>>

\* ensure_partitions: each month in a savepoint of its own, so that one that the
\* default partition blocks does not take the others with it.
Provisioned == MonthsFromHere(month, MonthsAhead) \ backstop

\* Never the default partition, whatever is in it.
Expired == IF KeepMonths = 0 THEN {}
           ELSE {m \in months : Earlier(m, Cutoff(month, KeepMonths))}

\* run_once.  On a failure nothing happens, and the thread ticks on.
Upkeep ==
  /\ months' = (months \union Provisioned) \ Expired
  /\ rows' = rows \ Expired
  /\ lastUpkeep' = month
  /\ UNCHANGED <<month, backstop, elapsed, lapsed>>

\* External: the clock.  Nothing makes upkeep run: it can be turned off.
NextMonth ==
  /\ elapsed < Horizon
  /\ elapsed' = elapsed + 1
  /\ month' = After(month)
  /\ lapsed' = IF Index(After(month)) - Index(lastUpkeep) >= MonthsAhead
               THEN lapsed \union {After(month)} ELSE lapsed
  /\ UNCHANGED <<months, rows, backstop, lastUpkeep>>

Next == Insert \/ Upkeep \/ NextMonth

Spec == Init /\ [][Next]_vars

\* status: names are compared as strings, and "default" is above every month.
Ahead == Cardinality({m \in months : ~Earlier(m, month)}) + 1
Healthy == Ahead >= 2

-----------------------------------------------------------------------------
TypeOK ==
  /\ month \in Nat \X (1..12) /\ elapsed \in 0..Horizon
  /\ rows \subseteq months
  /\ rows \intersect backstop = {}

(* Rows reach the default partition only in a month that upkeep had not       *)
(* provisioned because it last ran MonthsAhead months ago or more, or never.  *)
BackstopOnlyAfterLapse == backstop \subseteq lapsed

(* Whatever retention drops is older than the window, across the turn of a    *)
(* year too: keep_months=3 in January keeps November.                         *)
DropsOnlyOld == \A m \in months \ months' : Index(m) <= Index(month) - KeepMonths
WindowIsKept == [][DropsOnlyOld]_vars

(* Once upkeep has run in a month, what is left from before the window is in  *)
(* the default partition, which only a person empties.                        *)
OldRowsOnlyInBackstop ==
  (KeepMonths > 0 /\ lastUpkeep = month) =>
    \A m \in rows : Index(m) > Index(month) - KeepMonths

(* Rows are in the partition of their month, and those from before the window  *)
(* are gone, but for what a lapse of upkeep let into the default partition.    *)
RowsAreInPlace == BackstopOnlyAfterLapse /\ OldRowsOnlyInBackstop

(* upkeep.status: "One provisioned month means this month only", so a healthy *)
(* table has the next month.                                                  *)
(* Not so: the default partition counts as a month (README, 5).             *)
HealthyMeansNextMonth == Healthy => After(month) \in months
=============================================================================
