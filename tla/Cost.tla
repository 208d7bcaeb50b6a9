-------------------------------- MODULE Cost --------------------------------
(***************************************************************************)
(* Three divisions of a bill (cost.py, resources.py): rows to clusters by tag, *)
(* a cluster's hour to the applications that ran in it by core-seconds, an     *)
(* application to the dbt models beside it by the time of their work. Rows are *)
(* restated; clusters, logs and the runs of applications come late or never,   *)
(* and models end late.                                                        *)
(***************************************************************************)
EXTENDS Integers, FiniteSets, Functions

CONSTANTS
  Rows,        \* of the bill: <<line item id, hour>>
  TagOf,       \* the tag of each line item id
  Amounts,     \* what a row may say; divisible by whatever shares it below
  Clusters, ClusterTag, ClusterStart, ClusterEnd,  \* times in hours
  Apps, PathOf, SpanOf, CoreSeconds,  \* the cluster in the log's path, <<start, end>>
  Models, TreeOf, WorkOf,  \* the models in the tree of an application, their seconds
  MaxBills     \* bound: deliveries of a row, restatements included

VARIABLES
  synced,   \* clusters that are known
  stored,   \* applications whose log was read, each with its cluster or None
  ended,    \* models that have ended
  bill,     \* the report as it is delivered now
  bills,    \* deliveries so far
  lines,    \* cost_line_items: row to [cluster, cost]
  costs,    \* application_costs
  reported, \* applications that some run names, by its events so far
  linked,   \* of those stored, the ones with a run (spark_apps.run_id)
  fresh     \* history: nothing changed since the last import, or attribution

vars == <<synced, stored, ended, bill, bills, lines, costs, reported, linked, fresh>>
None == "none"
Spread(F) == SumFunction(F)

Overlap(r, a) ==
  LET from == IF SpanOf[a][1] > r[2] THEN SpanOf[a][1] ELSE r[2]
      to == IF SpanOf[a][2] < r[2] + 1 THEN SpanOf[a][2] ELSE r[2] + 1
  IN IF to > from THEN to - from ELSE 0
Held(r, a) == (CoreSeconds[a] * Overlap(r, a)) \div (SpanOf[a][2] - SpanOf[a][1])

\* The code divides numerics; amounts are in a unit so small that whatever may
\* divide one divides it exactly.
HeldTogether(r) == {Spread([a \in A |-> Held(r, a)]) : A \in SUBSET Apps} \ {0}
DoneTogether(a) == {Spread([m \in M |-> WorkOf[m]]) : M \in SUBSET TreeOf[a]} \ {0}
Exact ==
  \A r \in Rows, a \in Apps :
    /\ (CoreSeconds[a] * Overlap(r, a)) % (SpanOf[a][2] - SpanOf[a][1]) = 0
    /\ \A amount \in Amounts, held \in HeldTogether(r), work \in DoneTogether(a) \union {1} :
         amount % (held * work) = 0

CostAssumption ==
  /\ IsFiniteSet(Rows) /\ IsFiniteSet(Apps) /\ IsFiniteSet(Models)
  /\ \A r \in Rows : r[2] \in Nat
  /\ Amounts \subseteq Int /\ None \notin Clusters
  /\ PathOf \in [Apps -> Clusters] /\ CoreSeconds \in [Apps -> Nat]
  /\ \A a \in Apps : SpanOf[a] \in Nat \X Nat /\ SpanOf[a][1] < SpanOf[a][2]
  /\ TreeOf \in [Apps -> SUBSET Models] /\ WorkOf \in [Models -> Nat]
  /\ Exact

Init ==
  /\ synced = {} /\ stored = <<>> /\ ended = {}
  /\ bill = <<>> /\ bills = 0 /\ lines = <<>> /\ costs = <<>>
  /\ reported = {} /\ linked = {} /\ fresh = {}

-----------------------------------------------------------------------------
Sync(c) ==
  /\ c \notin synced /\ synced' = synced \union {c} /\ fresh' = {}
  /\ UNCHANGED <<stored, ended, bill, bills, lines, costs, reported, linked>>

\* store: with the run that is known of it now; a log that is read again keeps
\* what it was given.
IngestLog(a) ==
  /\ stored' = [b \in DOMAIN stored \union {a} |->
                  IF b \in DOMAIN stored THEN stored[b] ELSE None]
  /\ linked' = linked \union ({a} \intersect reported)
  /\ fresh' = IF a \in DOMAIN stored THEN fresh ELSE fresh \ {"attributed"}
  /\ UNCHANGED <<synced, ended, bill, bills, lines, costs, reported>>

\* The OpenLineage events of the application, if it ever sends any.
Report(a) ==
  /\ a \notin reported /\ reported' = reported \union {a}
  /\ UNCHANGED <<synced, stored, ended, bill, bills, lines, costs, linked, fresh>>

\* relink_orphans, which a backfill of logs ends with unless told not to.
RelinkOrphans ==
  /\ linked' = linked \union (DOMAIN stored \intersect reported)
  /\ UNCHANGED <<synced, stored, ended, bill, bills, lines, costs, reported, fresh>>

EndModel(m) ==
  /\ m \notin ended /\ ended' = ended \union {m}
  /\ UNCHANGED <<synced, stored, bill, bills, lines, costs, reported, linked, fresh>>

Deliver(r) ==
  /\ bills < MaxBills /\ bills' = bills + 1
  /\ \E amount \in Amounts :
       bill' = [s \in DOMAIN bill \union {r} |-> IF s = r THEN amount ELSE bill[s]]
  /\ fresh' = {}
  /\ UNCHANGED <<synced, stored, ended, lines, costs, reported, linked>>

\* link_applications: the cluster of the path, if the application ran within it.
RanIn(a, c) ==
  c = PathOf[a] /\ c \in synced /\ ClusterStart[c] <= SpanOf[a][1] /\ SpanOf[a][1] <= ClusterEnd[c]
LinkApplications ==
  LET found == [a \in DOMAIN stored |->
                  IF stored[a] = None /\ RanIn(a, PathOf[a]) THEN PathOf[a] ELSE stored[a]]
  IN /\ found # stored /\ stored' = found
     /\ fresh' = fresh \ {"attributed"}
     /\ UNCHANGED <<synced, ended, bill, bills, lines, costs, reported, linked>>

-----------------------------------------------------------------------------
\* The cluster that started last of those with the tag, now.
ClusterFor(tag) ==
  LET tagged == {c \in synced : ClusterTag[c] = tag}
  IN IF tagged = {} THEN None
     ELSE CHOOSE c \in tagged : \A d \in tagged : ClusterStart[d] <= ClusterStart[c]

\* A fault: a line item id is a row of its own, and its hours replace each other.
RowKeyById(r) == <<r[1], 0>>
RowKey(r) == r

\* import_cur: upserted under the key, in the order of the file.
ImportCur ==
  LET keys == {RowKey(r) : r \in DOMAIN bill}
      last(k) == CHOOSE r \in DOMAIN bill :
                   RowKey(r) = k /\ \A s \in DOMAIN bill : RowKey(s) = k => s[2] <= r[2]
  IN [k \in DOMAIN lines \union keys |->
        IF k \in keys THEN [cluster |-> ClusterFor(TagOf[k[1]]), cost |-> bill[last(k)]]
        ELSE lines[k]]

\* Core-seconds that an application held in the hour of a row of its cluster.
Weight(r, a, in) ==
  IF in[r].cluster = None \/ stored[a] # in[r].cluster THEN 0 ELSE Held(r, a)

\* A fault: divided by what all hours of the line item held.
DivisorOfItem(r, in) ==
  Spread([ra \in {s \in DOMAIN in : s[1] = r[1]} \X DOMAIN stored |-> Weight(ra[1], ra[2], in)])
Divisor(r, in) == Spread([a \in DOMAIN stored |-> Weight(r, a, in)])
Share(r, a, in) ==
  IF Weight(r, a, in) = 0 THEN 0 ELSE (in[r].cost * Weight(r, a, in)) \div Divisor(r, in)

\* attribute: made anew for those that held anything.
Attributed(in) ==
  [a \in {b \in DOMAIN stored : \E r \in DOMAIN in : Weight(r, b, in) > 0} |->
     Spread([r \in DOMAIN in |-> Share(r, a, in)])]

\* `wishd import-cost`: imports the report as it is, and attributes in the same
\* transaction unless told not to.
ImportCost ==
  /\ bill # <<>>
  /\ lines' = ImportCur
  /\ \/ costs' = Attributed(ImportCur) /\ fresh' = {"imported", "attributed"}
     \/ costs' = costs /\ fresh' = (fresh \ {"attributed"}) \union {"imported"}
  /\ UNCHANGED <<synced, stored, ended, bill, bills, reported, linked>>

Next ==
  \/ \E c \in Clusters : Sync(c)
  \/ \E a \in Apps : IngestLog(a) \/ Report(a)
  \/ \E m \in Models : EndModel(m)
  \/ \E r \in Rows : Deliver(r)
  \/ RelinkOrphans \/ LinkApplications \/ ImportCost

Spec == Init /\ [][Next]_vars

-----------------------------------------------------------------------------
(* by_job: what each model is shown to cost, and what stays with applications, *)
(* of those whose run is known.                                                *)
Priced == DOMAIN costs \intersect linked
ModelWeight(m) == IF m \in ended THEN WorkOf[m] ELSE 0
TreeWork(a) == Spread([m \in TreeOf[a] |-> ModelWeight(m)])
OfModel(m) ==
  Spread([a \in {b \in Priced : m \in TreeOf[b] /\ ModelWeight(m) > 0} |->
            (costs[a] * ModelWeight(m)) \div TreeWork(a)])
\* A fault: an application with models is theirs, though none has ended.
UnsplitIfNoModels == {a \in Priced : TreeOf[a] = {}}
Unsplit == {a \in Priced : \A m \in TreeOf[a] : ModelWeight(m) = 0}
ByJob == Spread([m \in Models |-> OfModel(m)]) + Spread([a \in Unsplit |-> costs[a]])

(* What is stored adds up to the report: restated rows take the place of what  *)
(* they said before, every hour of a line item counts, and rows of no known    *)
(* cluster are kept (import_cur, migration 019).                               *)
BillReconciles ==
  "imported" \in fresh => Spread([r \in DOMAIN lines |-> lines[r].cost]) = Spread(bill)

(* Each hour of a cluster in which anything ran is divided whole among what    *)
(* ran in it, and the hours in which nothing did are nobody's (attribute,      *)
(* cluster_summary).                                                           *)
IdleHoursAreNobodys ==
  "attributed" \in fresh =>
    \A c \in Clusters :
      Spread([a \in {b \in DOMAIN costs : stored[b] = c} |-> costs[a]])
        = Spread([r \in {s \in DOMAIN lines : lines[s].cluster = c
                           /\ \E a \in DOMAIN stored :
                                stored[a] = c /\ Overlap(s, a) > 0 /\ CoreSeconds[a] > 0} |->
                    lines[r].cost])

(* The cost per job and the cost of the applications that no run is known of   *)
(* add up to the cost of all: with no model to carry it, or none that has      *)
(* ended, the cost of an application stays where it was (by_job).              *)
NoSpendVanishes ==
  Spread(costs) = ByJob + Spread([a \in DOMAIN costs \ linked |-> costs[a]])

(* Every amount of the bill is some application's, or visibly nobody's, once;   *)
(* the cost per job lacks what applications of no known run cost, nothing else. *)
EveryCentPlaced == BillReconciles /\ IdleHoursAreNobodys /\ NoSpendVanishes

(* The cost per job adds up to the cost of the applications.  Not so before    *)
(* the run of an application is linked to it (README, 5).                      *)
EveryJobIsListed == ByJob = Spread(costs)

(* A row that is imported again stays with the cluster it was billed for.      *)
(* Not so when the tag is on a newer cluster by then (README, 5).           *)
RestatedInPlace ==
  [][\A r \in DOMAIN lines : lines[r].cluster # None => lines'[r].cluster = lines[r].cluster]_vars
=============================================================================
