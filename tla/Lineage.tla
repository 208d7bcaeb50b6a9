------------------------------- MODULE Lineage -------------------------------
(***************************************************************************)
(* Which dataset rows are one table (identity.py) and which table feeds which  *)
(* (lineage.py): derived by `wishd resolve` from the runs, their trees and     *)
(* what producers declare, all of which change under it, and rebuilt after     *)
(* `wishd replay` has emptied the projection.                                  *)
(***************************************************************************)
EXTENDS Integers, Sequences, FiniteSets, FiniteSetsExt

CONSTANTS
  Datasets,  \* numbers, as their ids are
  Leaf,      \* the last segment of each dataset's name
  Runs,
  Reads, Writes,  \* the datasets of each run
  Symlinks,  \* pairs that a producer may declare to be one table
  Columns,   \* the columnLineage facet each dataset may carry: datasets named in it
  Query,     \* the SQL of each run's job: how it projects, and from which tables
  Depth,     \* hops a walk takes
  Facts,     \* what reaches the database other than by events: test results,
             \* table snapshots, column profiles
  MaxMoves   \* bound: times a run changes its tree, and replays

LineageAssumption ==
  /\ Datasets \subseteq Nat /\ IsFiniteSet(Datasets)
  /\ Reads \in [Runs -> SUBSET Datasets] /\ Writes \in [Runs -> SUBSET Datasets]
  /\ Depth \in Nat

VARIABLES
  seen,     \* runs that have been recorded
  root,     \* the root of each run's tree
  linked,   \* pairs declared so far
  faceted,  \* datasets that carry a columnLineage facet
  entity,   \* dataset_identities
  next,     \* the next entity id
  edges,    \* lineage_edges
  columns,  \* column_edges: pair of entities to its source
  stored,   \* facts in the database
  sent,     \* history: facts that were ever sent
  fresh,    \* history: nothing changed since the last resolve
  moves

vars == <<seen, root, linked, faceted, entity, next, edges, columns, stored, sent,
          fresh, moves>>
graph == <<entity, next, edges, columns>>

Init ==
  /\ seen = {} /\ linked = {} /\ faceted = {}
  /\ root = [r \in Runs |-> r]
  /\ entity = <<>> /\ next = 1 /\ edges = {} /\ columns = <<>>
  /\ stored = {} /\ sent = {}
  /\ fresh = FALSE /\ moves = 0

Known == UNION {Reads[r] \union Writes[r] : r \in seen}

-----------------------------------------------------------------------------
Record(r) ==
  /\ seen' = seen \union {r}
  /\ fresh' = (fresh /\ r \in seen)
  /\ UNCHANGED <<root, linked, faceted, graph, stored, sent, moves>>

\* Stitched onto a node of another tree, with what hangs below it.
Stitch(r, s) ==
  /\ moves < MaxMoves /\ moves' = moves + 1
  /\ {r, s} \subseteq seen /\ root[r] = r /\ root[s] # r
  /\ root' = [q \in Runs |-> IF root[q] = r THEN root[s] ELSE root[q]]
  /\ fresh' = FALSE
  /\ UNCHANGED <<seen, linked, faceted, graph, stored, sent>>

\* A later event of a stitched run names no parent, and re-roots it.
Reset(r) ==
  /\ moves < MaxMoves /\ moves' = moves + 1
  /\ root[r] # r
  /\ root' = [root EXCEPT ![r] = r]
  /\ fresh' = FALSE
  /\ UNCHANGED <<seen, linked, faceted, graph, stored, sent>>

Declare ==
  /\ \/ \E p \in Symlinks \ linked : p \subseteq Known /\ linked' = linked \union {p}
                                     /\ UNCHANGED faceted
     \/ \E d \in Known \ faceted : Columns[d] # {} /\ faceted' = faceted \union {d}
                                   /\ UNCHANGED linked
  /\ fresh' = FALSE
  /\ UNCHANGED <<seen, root, graph, stored, sent, moves>>

Send(k) ==
  /\ k \notin sent
  /\ stored' = stored \union {k} /\ sent' = sent \union {k}
  /\ UNCHANGED <<seen, root, linked, faceted, graph, fresh, moves>>

-----------------------------------------------------------------------------
(* identity.resolve.                                                          *)
\* A fault: co-writing alone is evidence.
SameTree(d, e) ==
  \E r, s \in seen : d \in Writes[r] /\ e \in Writes[s] /\ root[r] = root[s]
CoWritten(d, e) == Leaf[d] = Leaf[e] /\ SameTree(d, e)

Evidence(d, e) == {d, e} \in linked \/ CoWritten(d, e)
Pairs == {{de[1], de[2]} : de \in {de \in Known \X Known : de[1] < de[2] /\ Evidence(de[1], de[2])}}

\* A fault: only what is compared directly is merged.
GroupsDirect(pairs) == {{d} \union UNION {p \in pairs : d \in p} : d \in Known}
\* union-find: what is paired, directly or through others, is one group.
Group(pairs, d) ==
  LET closed(S) == \A p \in pairs : p \intersect S # {} => p \subseteq S
  IN {e \in Known : \A S \in SUBSET Known : d \in S /\ closed(S) => e \in S}
Groups(pairs) == {Group(pairs, d) : d \in Known}

\* A fault: every resolve makes its entities anew.
EntityAnew(g) == next + Min(g)
\* _entity_for: the entity most of them are in, or else a new one.
EntityFor(g) ==
  LET had == g \intersect DOMAIN entity
      votes(x) == Cardinality({d \in had : entity[d] = x})
      best == {entity[d] : d \in had}
      most == {x \in best : \A y \in best : votes(x) >= votes(y)}
  IN IF had = {} THEN next + Min(g) ELSE Min(most)

Resolved ==
  LET groups == Groups(Pairs)
  IN [d \in Known |-> EntityFor(CHOOSE g \in groups : d \in g)]

-----------------------------------------------------------------------------
(* lineage.resolve, given the entities.                                       *)
Shows(ids) ==
  {<<ids[io[1]], ids[io[2]]>> : io \in UNION {Reads[r] \X Writes[r] : r \in seen}}
Proper(pairs) == {p \in pairs : p[1] # p[2]}

\* _entity_for_name: that dataset, or else one with its leaf, in no stated order:
\* any choice of a dataset for each leaf.
Leaves == {Leaf[d] : d \in Known}
LeafChoices == {pick \in [Leaves -> Known] : \A l \in Leaves : Leaf[pick[l]] = l}
ByLeaf(pick, n) == IF Leaf[n] \in DOMAIN pick THEN {pick[Leaf[n]]} ELSE {}
Called(pick, n) == IF n \in Known THEN {n} ELSE ByLeaf(pick, n)
FromFacets(ids, pick) ==
  Proper(UNION {{<<ids[u], ids[d]>> : u \in UNION {Called(pick, n) : n \in Columns[d]}}
                : d \in faceted})

\* parse_column_lineage declines a star, and a bare column of several tables.
Traced(query) ==
  IF \/ query.projects = "star"
     \/ query.projects = "bare" /\ Cardinality(query.tables) > 1
  THEN {} ELSE query.tables
\* Only for outputs that no facet speaks of, now or before; SQL names a table
\* without its namespace, so that only the leaf is compared.
FromSql(ids, old, pick) ==
  LET told == {p[2] : p \in FromFacets(ids, pick) \union {q \in DOMAIN old : old[q] = "facet"}}
  IN Proper(UNION {{<<ids[u], ids[o]>> : u \in UNION {ByLeaf(pick, n) : n \in Traced(Query[r])},
                                        o \in {w \in Writes[r] : ids[w] \notin told}}
                   : r \in seen})

\* A fault: the edge that is there stays as it is.
ColumnsFirst(old, facet, sql) ==
  [p \in DOMAIN old \union facet \union sql |->
     IF p \in DOMAIN old THEN old[p] ELSE IF p \in facet THEN "facet" ELSE "sql"]
\* _upsert_column_edge: a facet takes the place of a guess, not the reverse.
ColumnsMerged(old, facet, sql) ==
  [p \in DOMAIN old \union facet \union sql |->
     IF p \in facet \/ (p \in DOMAIN old /\ old[p] = "facet") THEN "facet" ELSE "sql"]

\* _drop_empty_entities: an entity goes with its edges.
Surviving(pairs, ids) == {p \in pairs : {p[1], p[2]} \subseteq {ids[d] : d \in Known}}

Resolve ==
  LET ids == Resolved
      kept == [p \in Surviving(DOMAIN columns, ids) |-> columns[p]]
  IN /\ Known # {} /\ ~fresh
     /\ entity' = ids
     /\ next' = Max({next} \union {ids[d] + 1 : d \in Known})
     /\ edges' = Surviving(edges, ids) \union Proper(Shows(ids))
     /\ \E pick \in LeafChoices :
          columns' = ColumnsMerged(kept, FromFacets(ids, pick), FromSql(ids, kept, pick))
     /\ fresh' = TRUE
     /\ UNCHANGED <<seen, root, linked, faceted, stored, sent, moves>>

\* truncate ... cascade: also every table that refers to datasets, which are
\* dataset_identities and those that hold the facts.
Replay ==
  /\ moves < MaxMoves /\ moves' = moves + 1
  /\ root' = [r \in Runs |-> r]
  /\ entity' = <<>> /\ stored' = {}
  /\ fresh' = FALSE
  /\ UNCHANGED <<seen, linked, faceted, next, edges, columns, sent>>

Next ==
  \/ \E r \in Runs : Record(r) \/ Reset(r) \/ \E s \in Runs : Stitch(r, s)
  \/ Declare \/ Resolve \/ Replay
  \/ \E k \in Facts : Send(k)

Spec == Init /\ [][Next]_vars

-----------------------------------------------------------------------------
(* Walking the graph: rows of the recursive query, then of each node the one   *)
(* with the least distance. Hops go from a node to the next one.               *)
Walked(start, hops) ==
  LET rows[n \in 0..Depth] ==
        IF n = 0 THEN {<<start, 0>>}
        ELSE rows[n - 1] \union
             {<<hw[1][2], n>> : hw \in {x \in hops \X rows[n - 1] : x[1][1] = x[2][1] /\ x[2][2] = n - 1}}
  IN {w \in rows[Depth] : w[2] > 0}
\* A fault: one row of each node, but not the nearest.
Farthest(walked) == {w \in walked : \A v \in walked : v[1] = w[1] => v[2] <= w[2]}
Nearest(walked) == {w \in walked : \A v \in walked : v[1] = w[1] => v[2] >= w[2]}
Upstream(start) == Nearest(Walked(start, {<<e[2], e[1]>> : e \in edges}))
Downstream(start) == Nearest(Walked(start, edges))

Entities == {entity[d] : d \in DOMAIN entity}
Feeders(ys) == {e[1] : e \in {x \in edges : x[2] \in ys}}

(* Walking up from a table gives each table that feeds it, once and with the   *)
(* fewest hops, through diamonds and cycles alike: each one is new at its      *)
(* distance. What walking up finds, walking down from there finds back.        *)
NearestFirst ==
  fresh => \A x \in Entities :
    LET found == Upstream(x)
        within(n) == {w[1] : w \in {v \in found : v[2] <= n}}
    IN /\ Cardinality({w[1] : w \in found}) = Cardinality(found)
       /\ \A n \in 1..Depth : within(n) = Feeders({x} \union within(n - 1))
       /\ \A y \in Entities, n \in 1..Depth : <<y, n>> \in found <=> <<x, n>> \in Downstream(y)

(* After a resolve, datasets with evidence that they are one table are one     *)
(* node, also when the evidence is a chain: Monday A=B, Tuesday B=C.           *)
EvidenceMerges == fresh => \A p \in Pairs : \A d, e \in p : entity[d] = entity[e]

(* Tables of different names are one node only along what producers declared:   *)
(* writing in one tree alone merges nothing.                                  *)
MergedOnEvidence ==
  fresh => LET plausible == Groups(linked \union {{de[1], de[2]} : de \in
                              {de \in Known \X Known : Leaf[de[1]] = Leaf[de[2]]}})
           IN \A d, e \in Known : entity[d] = entity[e] => \E g \in plausible : {d, e} \subseteq g

(* A table keeps its node when a name joins it, so that what refers to the     *)
(* node, an incident or a note, still does.                                    *)
NodeSurvives ==
  (fresh' /\ ~fresh) =>
    \A d \in DOMAIN entity :
      (\A g \in Groups(Pairs) : d \in g =>
          \A e \in g \intersect DOMAIN entity : entity[e] = entity[d])
         => entity'[d] = entity[d]

(* Once a producer sends column lineage, its edges are not guesses from SQL.   *)
FacetsSupersede ==
  fresh => \E pick \in LeafChoices : \A p \in FromFacets(entity, pick) : columns[p] = "facet"

(* Nodes of the graph are tables: as much one as the evidence says, no more,   *)
(* and the same from one resolve to the next.                                  *)
TablesNow == EvidenceMerges /\ MergedOnEvidence /\ FacetsSupersede
NodesAreTables == []TablesNow /\ [][NodeSurvives]_vars

(* identity.py: "a wrong merge is fixed by improving this resolver and         *)
(* re-running rather than by surgery on production rows": a resolve undoes     *)
(* merges that nothing supports any more.                                      *)
(* Not so: the parts of a split vote for one entity (README, 5).            *)
SplitsTakeEffect ==
  fresh => \A d, e \in Known : entity[d] = entity[e] => \E g \in Groups(Pairs) : {d, e} \subseteq g

(* cli.replay: "This drops and rebuilds runs/jobs/datasets from the event      *)
(* archive": what did not come from the archive is still there.                *)
ReplayKeepsTheRest == stored = sent
=============================================================================
