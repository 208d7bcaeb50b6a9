------------------------------- MODULE TreeOps -------------------------------
(***************************************************************************)
(* The run tree as ingest.py stores it: every row names its parent and       *)
(* caches the root of its tree and its own depth.  The operators below are   *)
(* the recursive queries of the correlator over the parent column, given as  *)
(* least fixed points rather than by iteration.  They are used on acyclic    *)
(* parent columns only (see RunTree), where every run has one path upward.   *)
(***************************************************************************)
EXTENDS Integers, FiniteSets

CONSTANTS
  Runs,          \* run ids
  NoRun,         \* SQL null in a run id column
  MaxTreeDepth   \* MAX_TREE_DEPTH

ASSUME RunsAssumption == IsFiniteSet(Runs) /\ NoRun \notin Runs
ASSUME DepthAssumption == MaxTreeDepth \in Nat

\* A set of runs that contains d and, with a run, its parent.
ClosedUp(par, d, S) ==
  /\ d \in S
  /\ \A x \in S : par[x] # NoRun => par[x] \in S

\* d and everything above it: the smallest such set.
Ancestors(par, d) ==
  {a \in Runs : \A S \in SUBSET Runs : ClosedUp(par, d, S) => a \in S}

\* r and everything below it: the rows the CTE `tree` of _REPAIR_SUBTREE
\* reaches from r.
Below(par, r) == {d \in Runs : r \in Ancestors(par, d)}

\* Levels between r and a run d below it: the iteration of the CTE that
\* reaches d.
Distance(par, r, d) == Cardinality(Ancestors(par, d)) - Cardinality(Ancestors(par, r))

\* No run is its own ancestor, through any number of parents.
Acyclic(par) ==
  \A r \in Runs : par[r] # NoRun => r \notin Ancestors(par, par[r])

\* The runs a repair from r rewrites when r stands at depth n: the
\* descendants the CTE reaches before MAX_TREE_DEPTH stops it.
Repairable(par, r, n) ==
  {d \in Below(par, r) \ {r} : n + Distance(par, r, d) <= MaxTreeDepth}

\* The run at the top of d's chain of parents, and the length of the chain:
\* what root_run_id and depth are caches of.
TopOf(par, d) == CHOOSE a \in Ancestors(par, d) : par[a] = NoRun
HeightOf(par, d) == Cardinality(Ancestors(par, d)) - 1

=============================================================================
