------------------------------- MODULE Anomaly -------------------------------
(***************************************************************************)
(* Learned bounds (anomaly.detect) on a metric whose cadence has no season:   *)
(* the newest point against the median and MAD of the points before it, less  *)
(* the ones a person confirmed as anomalies.  Medians are kept as their       *)
(* doubles, so that all of it is in integers.                                 *)
(***************************************************************************)
EXTENDS Integers, Sequences, FiniteSets, Functions

CONSTANTS
  Values,    \* what is measured
  Days,      \* days between two points
  MinPoints, \* min_training_points
  MinDays,   \* min_training_days
  MaxPoints  \* bound

AnomalyAssumption ==
  /\ Values \subseteq Int /\ Days \subseteq Nat
  /\ MinPoints \in Nat /\ MinDays \in Nat

VARIABLES
  series,  \* metric_points: day, value, feedback
  verdict

vars == <<series, verdict>>

Init == series = <<>> /\ verdict = "insufficient_data"

Abs(x) == IF x < 0 THEN -x ELSE x
IntMax(a, b) == IF a > b THEN a ELSE b

\* The k-th smallest of the values of f at I.
Ranked(I, f, k) ==
  CHOOSE x \in {f[i] : i \in I} : /\ Cardinality({i \in I : f[i] < x}) < k
                                  /\ k <= Cardinality({i \in I : f[i] <= x})
\* A fault: a mean in the place of the median.
Mean2(I, f) == (2 * FoldFunctionOnSet(+, 0, f, I)) \div Cardinality(I)
Median2(I, f) ==
  LET n == Cardinality(I)
  IN IF I = {} THEN 0 ELSE Ranked(I, f, (n + 1) \div 2) + Ranked(I, f, n \div 2 + 1)

\* A fault: the elapsed time is not looked at.
ArmedByCount(s) == Len(s) >= MinPoints
Armed(s) == Len(s) >= MinPoints /\ s[Len(s)].day - s[1].day >= MinDays

\* A fault: confirmed anomalies train the detector.
WholeHistory(s) == 1..(Len(s) - 1)
Baseline(s) == {i \in 1..(Len(s) - 1) : s[i].feedback # "anomaly"}

\* The level of the most recent half, or five points, twofold.
Recent(base) ==
  {i \in base : Cardinality({j \in base : j > i}) < IntMax(Cardinality(base) \div 2, 5)}
Level2(base, value) == Median2(Recent(base), value)

\* The MAD of the residuals, fourfold: about the median of all of them.
Mad4(base, value) ==
  Median2(base, [i \in base |-> Abs(2 * value[i] - Median2(base, value))])

\* The band is three robust sigmas (1.4826 MAD), and 15 % of the level at least.
Outside(latest, base, value) ==
  10000 * Abs(4 * latest - 2 * Level2(base, value)) >
    IntMax(44478 * Mad4(base, value), 1500 * Abs(2 * Level2(base, value)))

Detect(s) ==
  LET base == Baseline(s)
      value == [i \in base |-> s[i].value]
      latest == s[Len(s)]
  IN IF ~Armed(s) \/ Cardinality(base) < MinPoints - 1 THEN "insufficient_data"
     ELSE IF latest.feedback # "expected" /\ Outside(latest.value, base, value) THEN "breach"
     ELSE "ok"

Measure ==
  /\ Len(series) < MaxPoints
  /\ \E v \in Values, d \in Days :
       series' = Append(series, [value |-> v, feedback |-> "none",
                   day |-> IF series = <<>> THEN 0 ELSE series[Len(series)].day + d])
  /\ verdict' = Detect(series')

\* set_feedback; the next evaluation sees it.
Mark ==
  /\ \E i \in DOMAIN series, f \in {"none", "expected", "anomaly"} :
       series' = [series EXCEPT ![i].feedback = f]
  /\ verdict' = Detect(series')

Next == Measure \/ Mark

Spec == Init /\ [][Next]_vars

-----------------------------------------------------------------------------
(* Points of one busy afternoon do not arm the detector, however many.         *)
NoBreachBeforeArmed ==
  verdict = "breach" => /\ Len(series) >= MinPoints
                        /\ series[Len(series)].day - series[1].day >= MinDays

Far(w, v) == 100 * Abs(w - v) > 15 * Abs(v)
IsNormal(v) == {series[i].value : i \in Baseline(series)} = {v}
Unlabelled(i) == series[i].feedback = "none"

(* On a level metric an incident is seen again each time it recurs, once the   *)
(* earlier ones have been confirmed: they do not widen the band.                *)
RecurrenceIsSeen ==
  \A v \in Values :
    (series # <<>> /\ verdict # "insufficient_data" /\ IsNormal(v) /\ Unlabelled(Len(series)))
      => (verdict = "breach" <=> Far(series[Len(series)].value, v))

(* Nor does an incident nobody confirmed hide the next, as long as most of the *)
(* training points were level.                                                  *)
MinorityHidesNothing ==
  LET n == Len(series)
      odd(v) == {i \in 1..(n - 1) : series[i].value # v}
  IN \A v \in Values :
       (/\ n > 0 /\ verdict # "insufficient_data"
        /\ \A i \in 1..n : Unlabelled(i)
        /\ 2 * Cardinality(odd(v)) < n - 1 /\ n - 1 <= 5
        /\ Far(series[n].value, v))
       => verdict = "breach"

(* The detector breaches on what is unusual, once it knows what is usual.      *)
BreachesAreEarned == NoBreachBeforeArmed /\ RecurrenceIsSeen /\ MinorityHidesNothing
=============================================================================
