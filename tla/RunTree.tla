------------------------------- MODULE RunTree -------------------------------
(***************************************************************************)
(* The correlator (ingest.py): every RunEvent names its run, perhaps the     *)
(* run's parent and perhaps a root hint, and ingest_run_event keeps for      *)
(* every run the parent, the root of its tree and its depth, whatever the    *)
(* order in which the events of a pipeline arrive.  Events are ingested one  *)
(* after the other, as one worker, the synchronous API and replay do; the    *)
(* interleaved transactions of several workers are the subject of TreeRace.  *)
(*                                                                         *)
(* What the producers say is the environment: parentOf is the parent every   *)
(* event of a run names.  It is chosen once (any acyclic choice) and never   *)
(* changes.  Runs in Omitting have a producer that leaves the parent facet   *)
(* out of some events.                                                       *)
(***************************************************************************)
EXTENDS TreeOps

CONSTANTS
  Types,      \* event types producers send
  Omitting    \* runs whose producer omits the parent facet now and then

ASSUME TypesAssumption ==
  Types \subseteq {"START", "RUNNING", "COMPLETE", "FAIL", "ABORT", "OTHER"}
ASSUME OmittingAssumption == Omitting \subseteq Runs

VARIABLES
  parentOf,  \* environment: the parent each run really has, or NoRun
  known,     \* runs with a row
  stubs,     \* rows with is_placeholder
  parent,    \* parent_run_id
  root,      \* root_run_id; a run without a row has the value of a fresh stub
  depth,     \* depth; likewise
  state,     \* state; likewise
  heard      \* history: runs with an event of their own ingested

vars == <<parentOf, known, stubs, parent, root, depth, state, heard>>

-----------------------------------------------------------------------------
States == {"UNKNOWN", "RUNNING", "COMPLETED", "FAILED", "ABORTED"}

StateOf ==
  [t \in {"START", "RUNNING", "COMPLETE", "FAIL", "ABORT"} |->
     CASE t \in {"START", "RUNNING"} -> "RUNNING"
       [] t = "COMPLETE"             -> "COMPLETED"
       [] t = "FAIL"                 -> "FAILED"
       [] t = "ABORT"                -> "ABORTED"]

Rank(s) == IF s = "UNKNOWN" THEN 0 ELSE IF s = "RUNNING" THEN 1 ELSE 2

\* Fault: the last writer wins.
NextStateLastWins(old, type) == IF type # "OTHER" THEN StateOf[type] ELSE old

\* The `case` on runs.state in _UPSERT_RUN; OTHER carries no state.
NextState(old, type) ==
  IF type # "OTHER" /\ Rank(old) <= Rank(StateOf[type]) THEN StateOf[type] ELSE old

\* The parent facets an event of r may carry.  A run without a parent sends
\* none, or names itself (a wrapper that reuses one run id).
FacetsOf(r) ==
  IF parentOf[r] = NoRun THEN {NoRun, r}
  ELSE IF r \in Omitting THEN {NoRun, parentOf[r]}
  ELSE {parentOf[r]}

\* The root facet comes inside the parent facet and may name any run.
HintsOf(facet) == IF facet = NoRun THEN {NoRun} ELSE Runs \cup {NoRun}

Init ==
  /\ parentOf \in [Runs -> Runs \cup {NoRun}]
  /\ Acyclic(parentOf)
  /\ known = {}
  /\ stubs = {}
  /\ parent = [r \in Runs |-> NoRun]
  /\ root = [r \in Runs |-> r]
  /\ depth = [r \in Runs |-> 0]
  /\ state = [r \in Runs |-> "UNKNOWN"]
  /\ heard = {}

-----------------------------------------------------------------------------
(* ingest_run_event, one transaction.                                      *)

\* Fault: a run may be its own parent.
ParentNamedSelf(r, facet) == facet

\* A run that names itself as its parent has none.
ParentNamed(r, facet) == IF facet = r THEN NoRun ELSE facet

\* Fault: no placeholder for the parent.
MentionedHint(r, facet, hint) == {hint} \ {NoRun, r}

\* The rows _ensure_placeholder is called for: the parent and the hinted root.
Mentioned(r, facet, hint) == {ParentNamed(r, facet), hint} \ {NoRun, r}

\* Faults: the parent is taken for the root; every child is at level 1.
ResolvedRootParent(r, p) == IF p = NoRun THEN r ELSE p
ResolvedDepthOne(p) == IF p = NoRun THEN 0 ELSE 1

\* root_run_id and depth resolved from the parent's row, which exists by now.
ResolvedRoot(r, p) == IF p = NoRun THEN r ELSE root[p]
ResolvedDepth(p) == IF p = NoRun THEN 0 ELSE depth[p] + 1

\* _UPSERT_RUN on the position columns.
UpsertParent(r, p) ==
  [parent EXCEPT ![r] = IF p = NoRun THEN @ ELSE p]

\* Fault: the subtree is not repaired.
PlaceAlone(r, newParent, newRoot, newDepth, fresh) ==
  /\ parent' = newParent
  /\ root' = [root EXCEPT ![r] = newRoot]
  /\ depth' = [depth EXCEPT ![r] = newDepth]

\* _UPSERT_RUN, then _repair_subtree when the row is new or has moved.
Place(r, newParent, newRoot, newDepth, fresh) ==
  LET moved == fresh \/ root[r] # newRoot \/ depth[r] # newDepth
      repaired == IF moved THEN Repairable(newParent, r, newDepth) ELSE {}
  IN /\ parent' = newParent
     /\ root' = [d \in Runs |->
                   IF d = r \/ d \in repaired THEN newRoot ELSE root[d]]
     /\ depth' = [d \in Runs |->
                    IF d = r THEN newDepth
                    ELSE IF d \in repaired
                         THEN newDepth + Distance(newParent, r, d)
                         ELSE depth[d]]

Ingest(r, type, facet, hint) ==
  LET p == ParentNamed(r, facet)
      mentioned == Mentioned(r, facet, hint)
  IN /\ known' = known \cup mentioned \cup {r}
     /\ stubs' = (stubs \cup (mentioned \ known)) \ {r}
     /\ Place(r, UpsertParent(r, p), ResolvedRoot(r, p), ResolvedDepth(p),
              r \notin known)
     /\ state' = [state EXCEPT ![r] = NextState(@, type)]
     /\ heard' = heard \cup {r}
     /\ UNCHANGED parentOf

Next ==
  \E r \in Runs, type \in Types : \E facet \in FacetsOf(r) :
    \E hint \in HintsOf(facet) : Ingest(r, type, facet, hint)

Spec == Init /\ [][Next]_vars

-----------------------------------------------------------------------------
TypeOK ==
  /\ parentOf \in [Runs -> Runs \cup {NoRun}]
  /\ known \subseteq Runs
  /\ stubs \subseteq known
  /\ parent \in [Runs -> Runs \cup {NoRun}]
  /\ root \in [Runs -> Runs]
  /\ depth \in [Runs -> Nat]
  /\ state \in [Runs -> States]
  /\ heard \subseteq Runs

(* Every cached position agrees with the row above: a run under a parent has *)
(* the parent's root and one more level, a run without one is its own root   *)
(* at level 0.  Queries that page a tree by root_run_id rely on it.          *)
TreeConsistent ==
  \A r \in Runs :
    /\ parent[r] = NoRun => root[r] = r /\ depth[r] = 0
    /\ parent[r] # NoRun => /\ root[r] = root[parent[r]]
                            /\ depth[r] = depth[parent[r]] + 1

(* Arrival order does not matter: which rows exist as real rows and what     *)
(* tree they form is a function of the set of runs heard from, so a Spark    *)
(* event that lands before its dbt model, before its Airflow task, ends up   *)
(* in the same tree as if they had arrived in order (_repair_subtree).       *)
OrderIndependent ==
  /\ known \ stubs = heard
  /\ \A r \in Runs :
       /\ parent[r] = IF r \in heard THEN parentOf[r] ELSE NoRun
       /\ root[r] = TopOf(parent, r)
       /\ depth[r] = HeightOf(parent, r)

(* Why the tree is right, as an inductive invariant: parents are exactly what *)
(* was heard, rows exist for everything mentioned, and every cached position  *)
(* is the top and the length of the run's own chain of parents.               *)
ParentsHeard ==
  \A r \in Runs : parent[r] = IF r \in heard THEN parentOf[r] ELSE NoRun
RowsHeard == known \ stubs = heard
ParentsKnown == \A r \in Runs : parent[r] # NoRun => parent[r] \in known
PositionsCached ==
  \A r \in Runs : /\ root[r] \in Ancestors(parent, r)
                  /\ parent[root[r]] = NoRun
                  /\ depth[r] = HeightOf(parent, r)

TreeInv ==
  /\ TypeOK
  /\ Acyclic(parentOf)
  /\ ParentsHeard
  /\ RowsHeard
  /\ ParentsKnown
  /\ PositionsCached

(* The view unstitched_runs: rows whose parent has no row of its own.        *)
Unstitched ==
  {r \in known : /\ parent[r] # NoRun
                 /\ ~\E p \in known \ stubs : p = parent[r]}

(* A run whose parent never arrives is visible, and stops being reported     *)
(* once the parent does: the view lists exactly the runs heard from whose    *)
(* parent was not.  The parent's row is there to render the tree with.       *)
OrphansVisible ==
  /\ Unstitched = {r \in heard : parentOf[r] # NoRun /\ parentOf[r] \notin heard}
  /\ \A r \in known : parent[r] # NoRun => parent[r] \in known

(* A run never leaves a tree it was stitched into: once a row names a        *)
(* parent it keeps that parent, and events only ever lengthen the chain      *)
(* above it ("a producer that omits a field must not erase", ingest.py).     *)
StitchingIsMonotone ==
  [][\A r \in Runs : /\ parent[r] # NoRun => parent'[r] = parent[r]
                     /\ depth[r] <= depth'[r]]_vars

(* Run state only moves forward.                                             *)
StateForward ==
  [][\A r \in Runs : Rank(state[r]) <= Rank(state'[r])]_vars

=============================================================================
