------------------------------ MODULE Observing ------------------------------
(***************************************************************************)
(* The history of one table's writes (checks.collect and store_points).  A     *)
(* run tree writes the table at several levels, and that is one write, at the *)
(* time of the last; a check stores a point for it with the gap since the      *)
(* write before, and people label points.  A check sees a window, arming sees *)
(* the archive.                                                               *)
(***************************************************************************)
EXTENDS Integers, FiniteSets

CONSTANTS
  Trees,    \* run trees that write the table
  Reports,  \* bound: completed runs of a tree that write it
  Late,     \* bound: how late their events arrive
  Window,   \* how far back a check collects
  Horizon,  \* bound on the clock
  Unknown   \* null

ObservingAssumption == Unknown \notin Nat /\ Window \in Nat

VARIABLES
  now,
  writes,   \* run_datasets: the times of each tree's completed writes
  points,   \* metric_points: <<time, tree>> to its gap and its feedback
  labelled, \* history: trees whose newest point a person labelled, and where
  midway,   \* history: trees that wrote again after a check had seen them
  whole     \* history: nothing was written since a check of the whole archive

vars == <<now, writes, points, labelled, midway, whole>>

Init ==
  /\ now = 1
  /\ writes = [t \in Trees |-> {}]
  /\ points = <<>>
  /\ labelled = {} /\ midway = {} /\ whole = FALSE

Greatest(S) == CHOOSE x \in S : \A y \in S : y <= x

\* A run of the tree that wrote the table completes; events can be late.
Complete(t) ==
  /\ Cardinality(writes[t]) < Reports
  /\ \E at \in 1..now :
       /\ now - at <= Late /\ at \notin writes[t]
       \* Times are microseconds: two trees do not share one.
       /\ \A u \in Trees \ {t} : at \notin writes[u]
       /\ writes' = [writes EXCEPT ![t] = @ \union {at}]
       /\ midway' = IF /\ writes[t] # {} /\ at > Greatest(writes[t])
                       /\ <<Greatest(writes[t]), t>> \in DOMAIN points
                    THEN midway \union {t} ELSE midway
  /\ whole' = FALSE
  /\ UNCHANGED <<now, points, labelled>>

\* A fault: the first report is when the table was written.
WrittenFirst(t) == CHOOSE x \in writes[t] : \A y \in writes[t] : x <= y
\* A tree's write, once for all its reports.
Written(t) == Greatest(writes[t])

\* _dataset_writes and _freshness_points, from `since` on.
Collected(since) == {t \in Trees : writes[t] # {} /\ Written(t) >= since}
GapOf(t, since) ==
  LET before == {Written(u) : u \in {v \in Collected(since) : Written(v) < Written(t)}}
  IN IF before = {} THEN Unknown ELSE Written(t) - Greatest(before)

\* Faults: what was collected replaces what was stored; or never does.
Latest(old, new) == new
Oldest(old, new) == IF old # Unknown THEN old ELSE new
\* coalesce(excluded.value, metric_points.value)
Corrected(old, new) == IF new # Unknown THEN new ELSE old

\* A fault: a collected point starts without a label.
Unlabelled(k) == "none"
Feedback(k) == IF k \in DOMAIN points THEN points[k].feedback ELSE "none"

\* store_points
Store(since) ==
  LET seen == {<<Written(t), t>> : t \in Collected(since)}
      gap(k) == GapOf(k[2], since)
  IN points' = [k \in DOMAIN points \union seen |->
       IF k \notin seen THEN points[k]
       ELSE [gap |-> IF k \in DOMAIN points THEN Corrected(points[k].gap, gap(k)) ELSE gap(k),
             feedback |-> Feedback(k)]]

\* The first point has no gap, and it is kept for its time.
Check == /\ Store(now - Window) /\ whole' = (whole \/ now - Window <= 1)
         /\ UNCHANGED <<now, writes, labelled, midway>>
Arm == Store(0) /\ whole' = TRUE /\ UNCHANGED <<now, writes, labelled, midway>>

\* set_feedback, by subject: every point of the tree.
Label(t) ==
  \E mark \in {"expected", "anomaly"} :
    /\ writes[t] # {} /\ <<Written(t), t>> \in DOMAIN points
    /\ t \notin {l[1] : l \in labelled}
    /\ labelled' = labelled \union {<<t, Written(t), mark>>}
    /\ points' = [k \in DOMAIN points |->
                   IF k[2] = t THEN [points[k] EXCEPT !.feedback = mark] ELSE points[k]]
    /\ UNCHANGED <<now, writes, midway, whole>>

Tick == now < Horizon /\ now' = now + 1 /\ UNCHANGED <<writes, points, labelled, midway, whole>>

Next == (\E t \in Trees : Complete(t) \/ Label(t)) \/ Check \/ Arm \/ Tick

Spec == Init /\ [][Next]_vars

-----------------------------------------------------------------------------
(* A check of a narrow window never erases a gap that a wider one measured:   *)
(* the baseline does not erode.                                               *)
KeepsGaps == \A k \in DOMAIN points : points[k].gap # Unknown => points'[k].gap # Unknown

(* After a check of the whole archive, and as long as nothing more is written, *)
(* every write after the first has its true gap, also where one before it      *)
(* arrived late.                                                               *)
GapsAreTrue ==
  whole => \A t \in Trees : (writes[t] # {} /\ GapOf(t, 0) # Unknown) =>
    points[<<Written(t), t>>].gap = GapOf(t, 0)

(* A person's label outlives every later check of the same observation: an     *)
(* incident someone confirmed does not drift back into the baseline.           *)
LabelsStick == \A l \in labelled : points[<<l[2], l[1]>>].feedback = l[3]

(* A tree has more than one point only when it wrote again after a check.       *)
ExtraPointsOnlyMidway ==
  \A j, k \in DOMAIN points : j[2] = k[2] /\ j # k => j[2] \in midway

(* The history a monitor judges by is that of the table, and only gains by      *)
(* being collected again.                                                      *)
TrueNow == GapsAreTrue /\ LabelsStick /\ ExtraPointsOnlyMidway
HistoryIsTrue == []TrueNow /\ [][KeepsGaps]_vars

(* checks._dataset_writes: "Keyed by `root_run_id` they are one write".         *)
(* Not so of a tree that a check saw midway (README, 5).                    *)
OnePointPerWrite == \A j, k \in DOMAIN points : j[2] = k[2] => j = k
=============================================================================
