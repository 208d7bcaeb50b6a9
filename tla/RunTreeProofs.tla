--------------------------- MODULE RunTreeProofs ---------------------------
(***************************************************************************)
(* The correlator keeps the run tree right for any set of runs and any       *)
(* acyclic parents: TreeInv is inductive, and TreeConsistent,                *)
(* OrderIndependent, OrphansVisible and the step properties follow from it.  *)
(* Assumed: every event of a run with a parent carries the parent facet, and *)
(* no chain of runs is longer than a repair descends.                        *)
(***************************************************************************)
EXTENDS RunTree, TreeOpsProofs

Covered ==
  /\ Omitting = {}
  /\ Cardinality(Runs) <= MaxTreeDepth + 1

-----------------------------------------------------------------------------
LEMMA InitTreeInv == Init => TreeInv
<1> SUFFICES ASSUME Init PROVE TreeInv
  OBVIOUS
<1>1. TypeOK
  BY DEF Init, TypeOK, States
<1>2. ParentsHeard /\ RowsHeard /\ ParentsKnown
  BY DEF Init, ParentsHeard, RowsHeard, ParentsKnown
<1>3. ASSUME NEW r \in Runs
      PROVE  /\ root[r] \in Ancestors(parent, r)
             /\ parent[root[r]] = NoRun
             /\ depth[r] = HeightOf(parent, r)
  <2>1. parent \in Column /\ parent[r] = NoRun
    BY DEF Init, Column
  <2>2. Ancestors(parent, r) = {r}
    BY <2>1, AncestorsOfTop
  <2>3. Cardinality({r}) = 1
    BY FS_Singleton
  <2> QED
    BY <2>1, <2>2, <2>3 DEF Init, HeightOf
<1> QED
  BY <1>1, <1>2, <1>3 DEF Init, TreeInv, PositionsCached

\* One event keeps the invariant.
LEMMA IngestTreeInv ==
  ASSUME Covered, TreeInv,
         NEW r \in Runs, NEW type \in Types,
         NEW facet \in FacetsOf(r), NEW hint \in HintsOf(facet),
         Ingest(r, type, facet, hint)
  PROVE  TreeInv'
<1> DEFINE p == ParentNamed(r, facet)
           mentioned == Mentioned(r, facet, hint)
           new == UpsertParent(r, p)
           newRoot == ResolvedRoot(r, p)
           newDepth == ResolvedDepth(p)
           moved == r \notin known \/ root[r] # newRoot \/ depth[r] # newDepth
           repaired == IF moved THEN Repairable(new, r, newDepth) ELSE {}
<1>1. /\ parentOf' = parentOf
      /\ parent' = new
      /\ root' = [d \in Runs |-> IF d = r \/ d \in repaired THEN newRoot ELSE root[d]]
      /\ depth' = [d \in Runs |-> IF d = r THEN newDepth
                                  ELSE IF d \in repaired
                                       THEN newDepth + Distance(new, r, d)
                                       ELSE depth[d]]
      /\ known' = known \cup mentioned \cup {r}
      /\ stubs' = (stubs \cup (mentioned \ known)) \ {r}
      /\ heard' = heard \cup {r}
  BY DEF Ingest, Place
<1>2. parentOf \in Column /\ parent \in Column
  BY DEF TreeInv, TypeOK, Column
<1>3. p = parentOf[r] /\ p # r /\ p \in Runs \cup {NoRun}
  <2>1. parentOf[r] # NoRun =>
          parentOf[r] \in Ancestors(parentOf, parentOf[r]) /\ parentOf[r] \in Runs
    BY <1>2, AncestorsClosed DEF Column, ClosedUp
  <2>2. parentOf[r] # r
    BY <2>1, RunsAssumption DEF TreeInv, Acyclic
  <2> QED
    BY <1>2, <2>2, RunsAssumption DEF Covered, FacetsOf, ParentNamed, Column
<1>4. /\ new \in Column
      /\ new[r] = p
      /\ \A x \in Runs \ {r} : new[x] = parent[x]
      /\ \A x \in Runs : new[x] # NoRun => new[x] = parentOf[x]
      /\ ParentsHeard'
  <2>1. ParentsHeard
    BY DEF TreeInv
  <2>2. parent[r] = p \/ parent[r] = NoRun
    BY <1>3, <2>1 DEF ParentsHeard
  <2>3. /\ new \in Column
        /\ new[r] = p
        /\ \A x \in Runs \ {r} : new[x] = parent[x]
    BY <1>2, <1>3, <2>2 DEF UpsertParent, Column
  <2>4. ParentsHeard'
    BY <1>1, <1>3, <2>1, <2>3 DEF ParentsHeard
  <2> QED
    BY <1>3, <2>1, <2>3, <2>4 DEF ParentsHeard
<1>5. Acyclic(new)
  BY <1>2, <1>4, RestrictedAcyclic DEF TreeInv
<1>6. ASSUME NEW d \in Runs, r \notin Ancestors(new, d)
      PROVE  Ancestors(new, d) = Ancestors(parent, d)
  BY <1>2, <1>4, <1>6, ChainsElsewhere
<1>7. /\ newRoot \in Ancestors(new, r)
      /\ new[newRoot] = NoRun
      /\ newDepth = HeightOf(new, r)
  <2>1. CASE p = NoRun
    <3>1. Ancestors(new, r) = {r}
      BY <1>4, <2>1, AncestorsOfTop
    <3>2. newRoot = r /\ newDepth = 0
      BY <2>1 DEF ResolvedRoot, ResolvedDepth
    <3>3. HeightOf(new, r) = 0
      BY <3>1, FS_Singleton DEF HeightOf
    <3> QED
      BY <1>4, <2>1, <3>1, <3>2, <3>3
  <2>2. CASE p \in Runs
    <3>1. r \notin Ancestors(new, p)
      BY <1>4, <1>5, <2>2, RunsAssumption DEF Acyclic
    <3>2. Ancestors(new, p) = Ancestors(parent, p)
      BY <1>6, <2>2, <3>1
    <3>3. /\ root[p] \in Ancestors(parent, p)
          /\ parent[root[p]] = NoRun
          /\ depth[p] = HeightOf(parent, p)
          /\ newRoot = root[p] /\ newDepth = depth[p] + 1
      BY <2>2, RunsAssumption
      DEF TreeInv, PositionsCached, ResolvedRoot, ResolvedDepth
    <3>4. /\ Ancestors(new, r) = {r} \cup Ancestors(new, p)
          /\ Cardinality(Ancestors(new, r)) = Cardinality(Ancestors(new, p)) + 1
      BY <1>4, <1>5, <2>2, RunsAssumption, AncestorsStep, OneLevel
    <3>5. root[p] \in Runs /\ root[p] # r
      BY <1>2, <2>2, <3>1, <3>2, <3>3, AncestorsClosed
    <3>6. Cardinality(Ancestors(new, p)) \in Nat
      BY <1>4, <2>2, AncestorsFinite
    <3> QED
      BY <1>4, <3>2, <3>3, <3>4, <3>5, <3>6 DEF HeightOf
  <2> QED
    BY <1>3, <2>1, <2>2
<1>8. ASSUME NEW d \in Runs, r \in Ancestors(new, d)
      PROVE  /\ newRoot \in Ancestors(new, d)
             /\ newDepth + Distance(new, r, d) = HeightOf(new, d)
             /\ HeightOf(new, d) <= MaxTreeDepth
  <2>1. Ancestors(new, r) \subseteq Ancestors(new, d)
    BY <1>4, <1>8, AncestorsTransitive
  <2>2. /\ Cardinality(Ancestors(new, d)) \in Nat
        /\ Cardinality(Ancestors(new, r)) \in Nat
        /\ Cardinality(Ancestors(new, d)) <= Cardinality(Runs)
        /\ Cardinality(Runs) \in Nat
    BY <1>4, AncestorsFinite
  <2> QED
    BY <1>7, <2>1, <2>2, DepthAssumption DEF Distance, HeightOf, Covered
<1>9. ASSUME ~moved
      PROVE  new = parent
  <2>1. root[r] = newRoot /\ depth[r] = newDepth
    BY <1>9
  <2>2. depth[r] = HeightOf(parent, r) /\ parent[r] \in {p, NoRun}
    BY <1>3 DEF TreeInv, PositionsCached, ParentsHeard
  <2>3. CASE p # NoRun /\ parent[r] = NoRun
    <3>1. Ancestors(parent, r) = {r}
      BY <1>2, <2>3, AncestorsOfTop
    <3>2. depth[r] = 0
      BY <2>2, <3>1, FS_Singleton DEF HeightOf
    <3>3. depth[p] \in Nat /\ newDepth = depth[p] + 1
      BY <1>3, <2>3 DEF TreeInv, TypeOK, ResolvedDepth
    <3>4. depth[r] = depth[p] + 1
      BY <2>1, <3>3
    <3>5. FALSE
      <4> HIDE DEF p
      <4> QED BY <3>2, <3>3, <3>4
    <3> QED
      BY <3>5
  <2>4. CASE p = NoRun \/ parent[r] = p
    <3>1. \A x \in Runs : new[x] = parent[x]
      BY <1>4, <2>2, <2>4
    <3>2. new \in Column
      BY <1>4
    <3> HIDE DEF new
    <3> QED
      BY <1>2, <3>1, <3>2, SameColumn
  <2> QED
    BY <2>2, <2>3, <2>4
<1>10. ASSUME NEW d \in Runs
       PROVE  /\ root'[d] \in Ancestors(new, d)
              /\ new[root'[d]] = NoRun
              /\ depth'[d] = HeightOf(new, d)
  <2>1. CASE d = r
    BY <1>1, <1>7, <2>1
  <2>2. CASE d # r /\ r \notin Ancestors(new, d)
    <3>1. d \notin repaired
      BY <2>2 DEF Repairable, Below
    <3>2. root'[d] = root[d] /\ depth'[d] = depth[d]
      BY <1>1, <2>2, <3>1
    <3>3. Ancestors(new, d) = Ancestors(parent, d)
      BY <1>6, <2>2
    <3>4. /\ root[d] \in Ancestors(parent, d)
          /\ parent[root[d]] = NoRun
          /\ depth[d] = HeightOf(parent, d)
      BY DEF TreeInv, PositionsCached
    <3>5. root[d] \in Runs /\ root[d] # r
      BY <1>2, <2>2, <3>3, <3>4, AncestorsClosed
    <3> QED
      BY <1>4, <3>2, <3>3, <3>4, <3>5 DEF HeightOf
  <2>3. CASE d # r /\ r \in Ancestors(new, d) /\ moved
    <3>1. d \in repaired
      BY <1>8, <2>3 DEF Repairable, Below
    <3>2. root'[d] = newRoot /\ depth'[d] = newDepth + Distance(new, r, d)
      BY <1>1, <2>3, <3>1
    <3> QED
      BY <1>7, <1>8, <2>3, <3>2
  <2>4. CASE d # r /\ ~moved
    <3>1. root'[d] = root[d] /\ depth'[d] = depth[d]
      BY <1>1, <2>4
    <3> QED
      BY <1>9, <2>4, <3>1 DEF TreeInv, PositionsCached
  <2> QED
    BY <2>1, <2>2, <2>3, <2>4
<1>11. PositionsCached'
  BY <1>1, <1>10 DEF PositionsCached
<1>12. RowsHeard' /\ ParentsKnown'
  <2>1. RowsHeard /\ ParentsKnown /\ r \notin mentioned
    BY DEF TreeInv, Mentioned
  <2>2. RowsHeard'
    BY <1>1, <2>1 DEF RowsHeard
  <2>3. p # NoRun => p \in known'
    BY <1>1, <1>3 DEF Mentioned
  <2> QED
    BY <1>1, <1>4, <2>1, <2>2, <2>3 DEF ParentsKnown
<1>13. TypeOK'
  <2>1. mentioned \subseteq Runs
    BY <1>3, RunsAssumption DEF Mentioned, HintsOf
  <2>2. root' \in [Runs -> Runs]
    BY <1>1, <1>4, <1>10, AncestorsClosed
  <2>3. depth' \in [Runs -> Nat]
    <3>1. ASSUME NEW d \in Runs
          PROVE  depth'[d] \in Nat
      BY <1>4, <1>10, AncestorsFinite DEF HeightOf
    <3> QED
      BY <1>1, <3>1
  <2>4. state' \in [Runs -> States]
    <3>1. \A old \in States : NextState(old, type) \in States
      BY TypesAssumption DEF NextState, StateOf, States
    <3> QED
      BY <3>1 DEF Ingest, TreeInv, TypeOK
  <2>5. /\ known' \subseteq Runs /\ stubs' \subseteq known' /\ heard' \subseteq Runs
        /\ parentOf' \in [Runs -> Runs \cup {NoRun}]
        /\ parent' \in [Runs -> Runs \cup {NoRun}]
    BY <1>1, <1>4, <2>1 DEF TreeInv, TypeOK, Column
  <2> QED
    BY <2>2, <2>3, <2>4, <2>5 DEF TypeOK
<1> QED
  BY <1>1, <1>4, <1>11, <1>12, <1>13 DEF TreeInv

\* Every step keeps the invariant.
LEMMA NextTreeInv == ASSUME Covered PROVE TreeInv /\ [Next]_vars => TreeInv'
<1> SUFFICES ASSUME TreeInv, [Next]_vars PROVE TreeInv'
  OBVIOUS
<1>1. CASE Next
  BY <1>1, IngestTreeInv DEF Next
<1>2. CASE UNCHANGED vars
  BY <1>2 DEF vars, TreeInv, TypeOK, ParentsHeard, RowsHeard, ParentsKnown,
              PositionsCached
<1> QED
  BY <1>1, <1>2

\* The invariant of the correlator, for any runs and any acyclic parents.
THEOREM TreeInvariant == ASSUME Covered PROVE Spec => []TreeInv
<1>1. Init => TreeInv
  BY InitTreeInv
<1>2. TreeInv /\ [Next]_vars => TreeInv'
  BY NextTreeInv
<1> QED
  BY <1>1, <1>2, PTL DEF Spec

-----------------------------------------------------------------------------
\* The cached positions are what the parents' rows say.
LEMMA InvConsistent == ASSUME TreeInv PROVE TreeConsistent
<1>1. parent \in Column /\ parentOf \in Column
  BY DEF TreeInv, TypeOK, Column
<1>2. Acyclic(parent)
  BY <1>1, RestrictedAcyclic DEF TreeInv, ParentsHeard
<1> SUFFICES ASSUME NEW r \in Runs
             PROVE  /\ parent[r] = NoRun => root[r] = r /\ depth[r] = 0
                    /\ parent[r] # NoRun => /\ root[r] = root[parent[r]]
                                            /\ depth[r] = depth[parent[r]] + 1
  BY DEF TreeConsistent
<1>3. \A x \in Runs : /\ root[x] \in Ancestors(parent, x)
                      /\ parent[root[x]] = NoRun
                      /\ depth[x] = HeightOf(parent, x)
  BY DEF TreeInv, PositionsCached
<1>4. CASE parent[r] = NoRun
  <2>1. Ancestors(parent, r) = {r}
    BY <1>1, <1>4, AncestorsOfTop
  <2>2. root[r] = r
    BY <1>3, <2>1
  <2>3. HeightOf(parent, r) = 0
    BY <2>1, FS_Singleton DEF HeightOf
  <2> QED
    BY <1>3, <1>4, <2>2, <2>3
<1>5. CASE parent[r] # NoRun
  <2>1. /\ parent[r] \in Runs
        /\ Ancestors(parent, r) = {r} \cup Ancestors(parent, parent[r])
        /\ Cardinality(Ancestors(parent, r))
             = Cardinality(Ancestors(parent, parent[r])) + 1
        /\ Cardinality(Ancestors(parent, parent[r])) \in Nat
    BY <1>1, <1>2, <1>5, AncestorsStep, OneLevel, AncestorsFinite
  <2>2. root[r] = TopOf(parent, r) /\ root[parent[r]] = TopOf(parent, r)
    BY <1>1, <1>3, <2>1, TopIsUnique
  <2>3. /\ depth[r] = Cardinality(Ancestors(parent, r)) - 1
        /\ depth[parent[r]] = Cardinality(Ancestors(parent, parent[r])) - 1
    BY <1>3, <2>1 DEF HeightOf
  <2>4. depth[r] = depth[parent[r]] + 1
    BY <2>1, <2>3
  <2> QED
    BY <1>5, <2>2, <2>4
<1> QED
  BY <1>4, <1>5

\* Roots are the tops of the chains, so the tree is determined by who was heard.
LEMMA InvOrderIndependent == ASSUME TreeInv PROVE OrderIndependent
<1>1. parent \in Column
  BY DEF TreeInv, TypeOK, Column
<1>2. ASSUME NEW r \in Runs
      PROVE  root[r] = TopOf(parent, r)
  BY <1>1, TopIsUnique DEF TreeInv, PositionsCached
<1> QED
  BY <1>2 DEF OrderIndependent, TreeInv, PositionsCached, ParentsHeard, RowsHeard

\* The view shows the orphans: a row of its own means an event heard.
LEMMA InvOrphansVisible == ASSUME TreeInv PROVE OrphansVisible
<1>1. \A r \in Runs : parent[r] # NoRun <=> r \in heard /\ parentOf[r] # NoRun
  BY DEF TreeInv, ParentsHeard
<1>2. \A r \in heard : parent[r] = parentOf[r] /\ r \in known /\ r \in Runs
  BY DEF TreeInv, TypeOK, ParentsHeard, RowsHeard
<1> QED
  BY <1>1, <1>2 DEF OrphansVisible, Unstitched, TreeInv, TypeOK, ParentsKnown, RowsHeard

(* Every cached root and depth agrees with the parent's row, in every state  *)
(* the correlator reaches, for any runs, parents and order of arrival.       *)
THEOREM TreeAlwaysConsistent == ASSUME Covered PROVE Spec => []TreeConsistent
<1>1. TreeInv => TreeConsistent
  BY InvConsistent
<1> QED
  BY <1>1, TreeInvariant, PTL

(* The stored tree is a function of the set of runs heard from: the order in *)
(* which their events arrived, and how often, is forgotten.                  *)
THEOREM TreeOrderIndependent == ASSUME Covered PROVE Spec => []OrderIndependent
<1>1. TreeInv => OrderIndependent
  BY InvOrderIndependent
<1> QED
  BY <1>1, TreeInvariant, PTL

(* A run whose parent was never heard from is always in unstitched_runs, and *)
(* nothing else is.                                                          *)
THEOREM OrphansAlwaysVisible == ASSUME Covered PROVE Spec => []OrphansVisible
<1>1. TreeInv => OrphansVisible
  BY InvOrphansVisible
<1> QED
  BY <1>1, TreeInvariant, PTL

-----------------------------------------------------------------------------
\* Hearing more runs only adds parents, which only lengthens chains.
LEMMA StepMonotone ==
  ASSUME TreeInv, TreeInv', UNCHANGED parentOf, heard \subseteq heard',
         NEW r \in Runs
  PROVE  (parent[r] # NoRun => parent'[r] = parent[r]) /\ depth[r] <= depth'[r]
<1>1. parent \in Column /\ parent' \in Column
  BY DEF TreeInv, TypeOK, Column
<1>2. \A x \in Runs : parent[x] # NoRun => parent[x] = parent'[x]
  BY DEF TreeInv, ParentsHeard
<1>3. Ancestors(parent, r) \subseteq Ancestors(parent', r)
  BY <1>1, <1>2, RestrictedChains
<1>4. /\ IsFiniteSet(Ancestors(parent', r))
      /\ Cardinality(Ancestors(parent, r)) \in Nat
      /\ Cardinality(Ancestors(parent', r)) \in Nat
  BY <1>1, AncestorsFinite
<1>5. Cardinality(Ancestors(parent, r)) <= Cardinality(Ancestors(parent', r))
  BY <1>3, <1>4, FS_Subset
<1>6. depth[r] = HeightOf(parent, r) /\ depth'[r] = HeightOf(parent', r)
  BY DEF TreeInv, PositionsCached
<1> QED
  BY <1>2, <1>4, <1>5, <1>6 DEF HeightOf

(* A stitched run stays where it was stitched and only ever moves down, as   *)
(* the chain above it becomes known.                                         *)
THEOREM StitchingAlwaysMonotone == ASSUME Covered PROVE Spec => StitchingIsMonotone
<1>1. TreeInv /\ TreeInv' /\ [Next]_vars
        => [\A r \in Runs : /\ parent[r] # NoRun => parent'[r] = parent[r]
                            /\ depth[r] <= depth'[r]]_vars
  <2> SUFFICES ASSUME TreeInv, TreeInv', Next, NEW r \in Runs
               PROVE  /\ parent[r] # NoRun => parent'[r] = parent[r]
                      /\ depth[r] <= depth'[r]
    BY DEF vars
  <2>1. UNCHANGED parentOf /\ heard \subseteq heard'
    BY DEF Next, Ingest
  <2> QED
    BY <2>1, StepMonotone
<1> QED
  BY <1>1, TreeInvariant, PTL DEF Spec, StitchingIsMonotone

(* No order of events ever takes a run's state back.                         *)
THEOREM StateAlwaysForward == ASSUME Covered PROVE Spec => StateForward
<1>1. TreeInv /\ [Next]_vars
        => [\A r \in Runs : Rank(state[r]) <= Rank(state'[r])]_vars
  <2> SUFFICES ASSUME TreeInv, Next, NEW x \in Runs
               PROVE  Rank(state[x]) <= Rank(state'[x])
    BY DEF vars
  <2>1. PICK r \in Runs, type \in Types :
          state' = [state EXCEPT ![r] = NextState(@, type)]
    BY DEF Next, Ingest
  <2>2. state \in [Runs -> States]
    BY DEF TreeInv, TypeOK
  <2>3. \A old \in States : Rank(old) <= Rank(NextState(old, type))
    BY DEF NextState, Rank
  <2>4. \A old \in States : Rank(old) \in {0, 1, 2}
    BY DEF Rank
  <2> QED
    BY <2>1, <2>2, <2>3, <2>4
<1> QED
  BY <1>1, TreeInvariant, PTL DEF Spec, StateForward

=============================================================================
