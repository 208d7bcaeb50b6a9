------------------------------ MODULE Projection ------------------------------
(***************************************************************************)
(* What happens to the run tree besides ingest: stitching (stitch.py), which *)
(* hangs a Spark query under the dbt node that its comment names, and replay  *)
(* (replay.py), which truncates the projection and ingests the archive again. *)
(*                                                                         *)
(* Ingest itself is RunTree's.  Workers draw archive ids before they commit,  *)
(* so an event may be archived ahead of one that was projected before it.    *)
(***************************************************************************)
EXTENDS TreeOps, Sequences, SequencesExt

CONSTANTS
  Types,      \* as in RunTree
  Omitting,   \* runs that leave the parent facet out of some events
  Named,      \* the parent that the other events name
  Queries,    \* Spark runs whose SQL carries a dbt comment
  DbtRuns,    \* runs of dbt jobs; dbt issues queries, and no query runs dbt
  Gap,        \* seconds between the start of a query and of a run of its node
  WindowSeconds,
  MaxArchive, \* bound: events received
  Overtaking  \* whether several workers ingest

ProjectionAssumption ==
  /\ Queries \subseteq Runs /\ DbtRuns \subseteq Runs
  /\ Named \in [Runs -> Runs \union {NoRun}] /\ Acyclic(Named)
  /\ \A d \in DbtRuns : Ancestors(Named, d) \intersect Queries = {}
  /\ \A q \in Queries, d \in DbtRuns : Gap[q][d] \in Nat
  /\ Overtaking \in BOOLEAN

VARIABLES
  known, stubs, parent, root, depth, state, heard,  \* the projection: RunTree's
  archive,  \* events, in the order of their ids
  todo,     \* what replay has still to ingest
  saved,    \* the projection as it was when the replay in progress began
  stitched, \* history: runs that stitching moved
  reset,    \* history: stitched runs heard from without a parent since
  healed    \* history: nothing was received since a replay

rows == <<known, stubs, parent, root, depth, state, heard>>
vars == <<rows, archive, todo, saved, stitched, reset, healed>>

Tree == INSTANCE RunTree WITH parentOf <- Named

Empty == <<{}, {}, [r \in Runs |-> NoRun], [r \in Runs |-> r],
           [r \in Runs |-> 0], [r \in Runs |-> "UNKNOWN"], {}>>

SetRows(new) ==
  /\ known' = new[1] /\ stubs' = new[2] /\ heard' = new[7]
  /\ parent' = new[3] /\ root' = new[4] /\ depth' = new[5] /\ state' = new[6]

NotReplaying == saved = <<>>

Init ==
  /\ known = {} /\ stubs = {} /\ heard = {}
  /\ parent = Empty[3] /\ root = Empty[4] /\ depth = Empty[5] /\ state = Empty[6]
  /\ archive = <<>> /\ todo = <<>> /\ saved = <<>>
  /\ stitched = {} /\ reset = {}
  /\ healed = FALSE

-----------------------------------------------------------------------------
\* The ids another worker may have drawn first: one commit behind, at most.
ArchivedAs(e) ==
  {Append(archive, e)} \union
  (IF Overtaking /\ archive # <<>>
   THEN {Append(SubSeq(archive, 1, Len(archive) - 1), e) \o <<Last(archive)>>} ELSE {})

Receive(r, type, facet) ==
  /\ NotReplaying
  /\ Len(archive) < MaxArchive
  /\ Tree!Ingest(r, type, facet, NoRun)
  /\ archive' \in ArchivedAs([run |-> r, type |-> type, facet |-> facet])
  /\ LET alone == Tree!ParentNamed(r, facet) = NoRun
     IN /\ reset' = IF r \in stitched /\ alone THEN reset \union {r} ELSE reset
        /\ stitched' = IF alone THEN stitched ELSE stitched \ {r}
  /\ healed' = FALSE
  /\ UNCHANGED <<todo, saved>>

-----------------------------------------------------------------------------
\* Queries with nothing of dbt's above them; an explicit parent stands.
Candidates ==
  {q \in Queries \intersect heard : Ancestors(parent, q) \intersect DbtRuns = {}}

\* The run of the node nearest in time, of those that have arrived.
Near(q) == {d \in DbtRuns \intersect heard : Gap[q][d] <= WindowSeconds}
Nearest(q) == CHOOSE d \in Near(q) : \A e \in Near(q) : Gap[q][d] <= Gap[q][e]

Stitchable == {q \in Candidates : Near(q) # {}}

\* A fault: what hangs below the query stays behind.
RepairedAlone(par, q, n) == {}

\* _repair_subtree, from the moved run down.
Repaired(par, q, n) == Repairable(par, q, n)

Stitch(q) ==
  LET d == Nearest(q)
      n == depth[d] + 1
      par == [parent EXCEPT ![q] = d]
      moved == Repaired(par, q, n)
  IN /\ NotReplaying
     /\ q \in Stitchable
     /\ parent' = par
     /\ root' = [r \in Runs |-> IF r = q \/ r \in moved THEN root[d] ELSE root[r]]
     /\ depth' = [r \in Runs |-> IF r = q THEN n
                                 ELSE IF r \in moved THEN n + Distance(par, q, r)
                                 ELSE depth[r]]
     /\ stitched' = stitched \union {q}
     /\ reset' = reset \ {q}
     /\ UNCHANGED <<known, stubs, state, heard, archive, todo, saved, healed>>

-----------------------------------------------------------------------------
\* A fault: the replay goes over the rows that are there.
StartsFromStale == rows

\* truncate: the projection is derived from nothing.
StartsFrom == Empty

\* A fault: the page that is not full is taken for the end.
StreamedFullPages == Front(archive)

\* iter_events: the archive, page by page, in the order of the ids.
Streamed == archive

\* Replay is one transaction, and truncate locks everyone else out of it.
ReplayBegin ==
  /\ NotReplaying
  /\ archive # <<>>
  /\ saved' = <<rows, stitched, reset>>
  /\ todo' = Streamed
  /\ SetRows(StartsFrom)
  /\ stitched' = {} /\ reset' = {}
  /\ UNCHANGED <<archive, healed>>

ReplayEvent ==
  /\ todo # <<>>
  /\ Tree!Ingest(Head(todo).run, Head(todo).type, Head(todo).facet, NoRun)
  /\ todo' = Tail(todo)
  /\ UNCHANGED <<archive, saved, stitched, reset, healed>>

ReplayCommit ==
  /\ ~NotReplaying /\ todo = <<>>
  /\ saved' = <<>>
  /\ healed' = TRUE
  /\ UNCHANGED <<rows, archive, todo, stitched, reset>>

ReplayFails ==
  /\ ~NotReplaying
  /\ SetRows(saved[1]) /\ stitched' = saved[2] /\ reset' = saved[3]
  /\ saved' = <<>> /\ todo' = <<>>
  /\ UNCHANGED <<archive, healed>>

Next ==
  \/ \E r \in Runs, type \in Types : \E facet \in Tree!FacetsOf(r) :
       Receive(r, type, facet)
  \/ \E q \in Queries : Stitch(q)
  \/ ReplayBegin \/ ReplayEvent \/ ReplayCommit \/ ReplayFails

Spec == Init /\ [][Next]_vars

-----------------------------------------------------------------------------
TypeOK ==
  /\ known \subseteq Runs /\ stubs \subseteq known /\ heard \subseteq Runs
  /\ parent \in [Runs -> Runs \union {NoRun}]
  /\ root \in [Runs -> Runs] /\ depth \in [Runs -> Nat]
  /\ Len(archive) <= MaxArchive /\ Len(todo) <= Len(archive)

Omitted == \E i \in DOMAIN archive :
             archive[i].facet = NoRun /\ Named[archive[i].run] # NoRun

(* A position in the tree disagrees with the row above only at a run that was *)
(* stitched and then sent an event without a parent facet, which makes it its *)
(* own root again, or at a run that omits its facet, or below one of these.   *)
(* Stitching alone never splits a tree, and moves what hangs below the query. *)
SplitOnlyByReset ==
  \A r \in Runs :
    (NotReplaying /\ parent[r] # NoRun
       /\ (root[r] # root[parent[r]] \/ depth[r] # depth[parent[r]] + 1)
       /\ ~Omitted)
      => Ancestors(parent, r) \intersect reset # {}

(* The repair for a split tree: replay, then stitch what can be stitched.     *)
(* With nothing received in between, every position agrees with the row above. *)
RebuildHeals ==
  (NotReplaying /\ healed /\ Stitchable = {} /\ ~Omitted) =>
    \A r \in Runs : parent[r] # NoRun =>
      root[r] = root[parent[r]] /\ depth[r] = depth[parent[r]] + 1

(* A tree that disagrees with itself has a reason, and a rebuild ends it.      *)
TreesHold == SplitOnlyByReset /\ RebuildHeals

(* Replay arrives at the rows that the live path had, in whatever order the   *)
(* workers drew their ids, as long as nothing had been stitched and no        *)
(* producer contradicted itself about its parent.                             *)
ReplayArrives ==
  (~NotReplaying /\ todo = <<>> /\ saved' = <<>> /\ ~Omitted
        /\ saved[2] = {} /\ saved[3] = {}
        /\ \A q \in Queries : saved[1][3][q] \notin DbtRuns)
     => rows = saved[1]
ReplayReproduces == [][ReplayArrives]_vars
=============================================================================
