--------------------------- MODULE TreeOpsProofs ---------------------------
(***************************************************************************)
(* Facts about chains of parents: what Ancestors, Below, Distance and TopOf  *)
(* of TreeOps return for an arbitrary parent column, and how they change     *)
(* when one row's parent is set.  No induction is needed: Ancestors is the   *)
(* least set closed upward, so a property of all ancestors is a closed set.  *)
(***************************************************************************)
EXTENDS TreeOps, FiniteSetTheorems, TLAPS

\* The parent columns the lemmas are about.
Column == [Runs -> Runs \cup {NoRun}]

\* Two columns with the same parents are the same.
LEMMA SameColumn ==
  ASSUME NEW a \in Column, NEW b \in Column, \A x \in Runs : a[x] = b[x]
  PROVE  a = b
  BY DEF Column

\* A run is among its ancestors, and a run's parent is where the run is.
LEMMA AncestorsClosed ==
  ASSUME NEW par \in Column, NEW d \in Runs
  PROVE  /\ Ancestors(par, d) \subseteq Runs
         /\ ClosedUp(par, d, Ancestors(par, d))
  BY RunsAssumption DEF Column, Ancestors, ClosedUp

\* Ancestors is the least set closed upward.
LEMMA AncestorsLeast ==
  ASSUME NEW par, NEW d, NEW S \in SUBSET Runs, ClosedUp(par, d, S)
  PROVE  Ancestors(par, d) \subseteq S
  BY DEF Ancestors

\* The chain of a run without a parent is the run alone.
LEMMA AncestorsOfTop ==
  ASSUME NEW par \in Column, NEW d \in Runs, par[d] = NoRun
  PROVE  Ancestors(par, d) = {d}
<1>1. {d} \in SUBSET Runs /\ ClosedUp(par, d, {d})
  BY DEF ClosedUp
<1>2. Ancestors(par, d) \subseteq {d}
  BY <1>1, AncestorsLeast
<1>3. d \in Ancestors(par, d)
  BY AncestorsClosed DEF ClosedUp
<1> QED
  BY <1>2, <1>3

\* The chain of an ancestor is part of the chain.
LEMMA AncestorsTransitive ==
  ASSUME NEW par \in Column, NEW d \in Runs, NEW a \in Ancestors(par, d)
  PROVE  Ancestors(par, a) \subseteq Ancestors(par, d)
<1>1. a \in Runs /\ ClosedUp(par, a, Ancestors(par, d))
  BY AncestorsClosed DEF ClosedUp
<1> QED
  BY <1>1, AncestorsLeast, AncestorsClosed

\* The chain of a run is the run and the chain of its parent.
LEMMA AncestorsStep ==
  ASSUME NEW par \in Column, NEW d \in Runs, par[d] # NoRun
  PROVE  /\ par[d] \in Runs
         /\ Ancestors(par, d) = {d} \cup Ancestors(par, par[d])
<1>1. par[d] \in Runs
  BY DEF Column
<1>2. ClosedUp(par, d, {d} \cup Ancestors(par, par[d]))
  BY <1>1, AncestorsClosed DEF ClosedUp
<1>3. Ancestors(par, d) \subseteq {d} \cup Ancestors(par, par[d])
  BY <1>1, <1>2, AncestorsLeast, AncestorsClosed
<1>4. par[d] \in Ancestors(par, d) /\ d \in Ancestors(par, d)
  BY <1>1, AncestorsClosed DEF ClosedUp
<1>5. Ancestors(par, par[d]) \subseteq Ancestors(par, d)
  BY <1>4, AncestorsTransitive
<1> QED
  BY <1>1, <1>3, <1>4, <1>5

\* Chains are finite, no longer than there are runs.
LEMMA AncestorsFinite ==
  ASSUME NEW par \in Column, NEW d \in Runs
  PROVE  /\ IsFiniteSet(Ancestors(par, d))
         /\ Cardinality(Ancestors(par, d)) \in Nat
         /\ Cardinality(Ancestors(par, d)) >= 1
         /\ Cardinality(Ancestors(par, d)) <= Cardinality(Runs)
         /\ Cardinality(Runs) \in Nat
<1>1. Ancestors(par, d) \subseteq Runs /\ d \in Ancestors(par, d)
  BY AncestorsClosed DEF ClosedUp
<1>2. /\ IsFiniteSet(Ancestors(par, d))
      /\ Cardinality(Ancestors(par, d)) <= Cardinality(Runs)
  BY <1>1, RunsAssumption, FS_Subset
<1>3. Cardinality(Ancestors(par, d)) \in Nat /\ Cardinality(Runs) \in Nat
  BY <1>2, RunsAssumption, FS_CardinalityType
<1>4. Cardinality(Ancestors(par, d)) # 0
  BY <1>1, <1>2, FS_EmptySet
<1> QED
  BY <1>2, <1>3, <1>4

\* In an acyclic column a run is one level below its parent.
LEMMA OneLevel ==
  ASSUME NEW par \in Column, Acyclic(par), NEW d \in Runs, par[d] # NoRun
  PROVE  Cardinality(Ancestors(par, d)) = Cardinality(Ancestors(par, par[d])) + 1
<1>1. par[d] \in Runs /\ d \notin Ancestors(par, par[d])
  BY AncestorsStep DEF Acyclic
<1>2. IsFiniteSet(Ancestors(par, par[d]))
  BY <1>1, AncestorsFinite
<1>3. Ancestors(par, d) = Ancestors(par, par[d]) \cup {d}
  BY AncestorsStep
<1> QED
  BY <1>1, <1>2, <1>3, FS_AddElement

\* Two runs on one chain: one of them is above the other.
LEMMA ChainsAreLinear ==
  ASSUME NEW par \in Column, NEW d \in Runs,
         NEW a \in Ancestors(par, d), NEW b \in Ancestors(par, d)
  PROVE  a \in Ancestors(par, b) \/ b \in Ancestors(par, a)
<1> DEFINE S == {x \in Ancestors(par, d) :
                   a \in Ancestors(par, x) \/ x \in Ancestors(par, a)}
<1>1. Ancestors(par, d) \subseteq Runs /\ d \in Ancestors(par, d)
  BY AncestorsClosed DEF ClosedUp
<1>2. ASSUME NEW x \in S, par[x] # NoRun
      PROVE  par[x] \in S
  <2>1. x \in Runs /\ a \in Runs /\ par[x] \in Runs /\ par[x] \in Ancestors(par, d)
    BY <1>1, <1>2, AncestorsClosed DEF ClosedUp, Column
  <2>2. CASE a \in Ancestors(par, x)
    <3>1. a = x \/ a \in Ancestors(par, par[x])
      BY <2>1, <2>2, <1>2, AncestorsStep
    <3>2. a = x => par[x] \in Ancestors(par, a)
      BY <2>1, <1>2, AncestorsClosed DEF ClosedUp
    <3> QED
      BY <2>1, <3>1, <3>2
  <2>3. CASE x \in Ancestors(par, a)
    BY <2>1, <2>3, <1>2, AncestorsClosed DEF ClosedUp
  <2> QED
    BY <2>2, <2>3, <1>2
<1>3. S \in SUBSET Runs /\ ClosedUp(par, d, S)
  BY <1>1, <1>2 DEF ClosedUp
<1>4. Ancestors(par, d) \subseteq S
  BY <1>3, AncestorsLeast
<1> QED
  BY <1>4

\* A chain has one top: TopOf is any ancestor without a parent.
LEMMA TopIsUnique ==
  ASSUME NEW par \in Column, NEW d \in Runs,
         NEW a \in Ancestors(par, d), par[a] = NoRun
  PROVE  TopOf(par, d) = a
<1>1. Ancestors(par, d) \subseteq Runs
  BY AncestorsClosed
<1>2. ASSUME NEW b \in Ancestors(par, d), par[b] = NoRun
      PROVE  b = a
  <2>1. a \in Runs /\ b \in Runs
    BY <1>1
  <2>2. Ancestors(par, a) = {a} /\ Ancestors(par, b) = {b}
    BY <2>1, <1>2, AncestorsOfTop
  <2> QED
    BY <2>2, ChainsAreLinear
<1> QED
  BY <1>2 DEF TopOf

\* Fewer known parents, shorter chains: a column that lacks some of the
\* parents of another one has chains within the other's.
LEMMA RestrictedChains ==
  ASSUME NEW full \in Column, NEW some \in Column, NEW d \in Runs,
         \A x \in Runs : some[x] # NoRun => some[x] = full[x]
  PROVE  Ancestors(some, d) \subseteq Ancestors(full, d)
<1>1. Ancestors(full, d) \in SUBSET Runs /\ ClosedUp(full, d, Ancestors(full, d))
  BY AncestorsClosed
<1>2. ClosedUp(some, d, Ancestors(full, d))
  BY <1>1 DEF ClosedUp
<1> QED
  BY <1>1, <1>2, AncestorsLeast

\* ... and stays acyclic.
LEMMA RestrictedAcyclic ==
  ASSUME NEW full \in Column, NEW some \in Column, Acyclic(full),
         \A x \in Runs : some[x] # NoRun => some[x] = full[x]
  PROVE  Acyclic(some)
<1> SUFFICES ASSUME NEW r \in Runs, some[r] # NoRun
             PROVE  r \notin Ancestors(some, some[r])
  BY DEF Acyclic
<1>1. some[r] = full[r] /\ full[r] # NoRun /\ some[r] \in Runs
  BY DEF Column
<1>2. Ancestors(some, some[r]) \subseteq Ancestors(full, some[r])
  BY <1>1, RestrictedChains
<1> QED
  BY <1>1, <1>2 DEF Acyclic

\* Setting the parent of r leaves alone the chains r is not part of.
LEMMA ChainsElsewhere ==
  ASSUME NEW par \in Column, NEW new \in Column, NEW r \in Runs, NEW d \in Runs,
         \A x \in Runs \ {r} : new[x] = par[x],
         r \notin Ancestors(new, d)
  PROVE  Ancestors(new, d) = Ancestors(par, d)
<1>1. Ancestors(new, d) \in SUBSET Runs /\ ClosedUp(new, d, Ancestors(new, d))
  BY AncestorsClosed
<1>2. ClosedUp(par, d, Ancestors(new, d))
  BY <1>1 DEF ClosedUp
<1>3. Ancestors(par, d) \subseteq Ancestors(new, d)
  BY <1>1, <1>2, AncestorsLeast
<1>4. Ancestors(par, d) \in SUBSET Runs /\ ClosedUp(par, d, Ancestors(par, d))
  BY AncestorsClosed
<1>5. ClosedUp(new, d, Ancestors(par, d))
  BY <1>3, <1>4 DEF ClosedUp
<1>6. Ancestors(new, d) \subseteq Ancestors(par, d)
  BY <1>4, <1>5, AncestorsLeast
<1> QED
  BY <1>3, <1>6

\* Two runs of an acyclic column are not above each other.
LEMMA AncestorsOneWay ==
  ASSUME NEW par \in Column, Acyclic(par), NEW d \in Runs,
         NEW a \in Ancestors(par, d), d \in Ancestors(par, a)
  PROVE  a = d
<1> SUFFICES ASSUME a # d PROVE FALSE
  OBVIOUS
<1>1. par[d] # NoRun
  BY AncestorsOfTop
<1>2. a \in Ancestors(par, par[d]) /\ par[d] \in Runs
  BY <1>1, AncestorsStep
<1>3. d \in Ancestors(par, par[d])
  BY <1>2, AncestorsTransitive
<1> QED
  BY <1>1, <1>3 DEF Acyclic

\* What hangs below r is as far below it whoever the parent of r is.
LEMMA ChainFromBelow ==
  ASSUME NEW par \in Column, Acyclic(par), NEW cut \in Column, NEW r \in Runs,
         cut[r] = NoRun, \A x \in Runs \ {r} : cut[x] = par[x],
         NEW d \in Runs, r \in Ancestors(par, d)
  PROVE  Distance(par, r, d) = Cardinality(Ancestors(cut, d)) - 1
<1>1. \A x \in Runs : cut[x] # NoRun => cut[x] = par[x]
  OBVIOUS
<1>2. r \in Ancestors(cut, d)
  BY ChainsElsewhere
<1>3. Ancestors(cut, d) \subseteq Ancestors(par, d)
  BY <1>1, RestrictedChains
<1>4. Ancestors(par, r) \subseteq Ancestors(par, d)
  BY AncestorsTransitive
<1>5. Ancestors(par, d) \subseteq Ancestors(cut, d) \cup Ancestors(par, r)
  <2> DEFINE S == Ancestors(cut, d) \cup Ancestors(par, r)
  <2>1. S \in SUBSET Runs /\ d \in S
    BY AncestorsClosed DEF ClosedUp
  <2>2. ASSUME NEW x \in S, par[x] # NoRun
        PROVE  par[x] \in S
    BY <2>2, AncestorsClosed DEF ClosedUp
  <2> QED
    BY <2>1, <2>2, AncestorsLeast DEF ClosedUp
<1>6. Ancestors(cut, d) \cap Ancestors(par, r) = {r}
  <2>1. r \in Ancestors(par, r)
    BY AncestorsClosed DEF ClosedUp
  <2>2. ASSUME NEW z \in Ancestors(cut, d), z \in Ancestors(par, r)
        PROVE  z = r
    <3>1. z \in Runs /\ Ancestors(cut, r) = {r}
      BY AncestorsClosed, AncestorsOfTop
    <3>2. z \in Ancestors(cut, r) \/ r \in Ancestors(cut, z)
      BY <1>2, ChainsAreLinear
    <3>3. Ancestors(cut, z) \subseteq Ancestors(par, z)
      BY <1>1, <3>1, RestrictedChains
    <3> QED
      BY <2>2, <3>1, <3>2, <3>3, AncestorsOneWay
  <2> QED
    BY <1>2, <2>1, <2>2
<1>7. /\ IsFiniteSet(Ancestors(cut, d)) /\ IsFiniteSet(Ancestors(par, r))
      /\ Cardinality(Ancestors(cut, d)) \in Nat /\ Cardinality(Ancestors(par, r)) \in Nat
  BY AncestorsFinite
<1>8. Cardinality(Ancestors(cut, d) \cup Ancestors(par, r))
        = Cardinality(Ancestors(cut, d)) + Cardinality(Ancestors(par, r)) - 1
  <2>1. Cardinality(Ancestors(cut, d) \cap Ancestors(par, r)) = 1
    BY <1>6, FS_Singleton
  <2>2. Cardinality(Ancestors(cut, d) \cup Ancestors(par, r))
          = Cardinality(Ancestors(cut, d)) + Cardinality(Ancestors(par, r))
              - Cardinality(Ancestors(cut, d) \cap Ancestors(par, r))
    BY <1>7, FS_Union
  <2> QED
    BY <2>1, <2>2
<1>9. Ancestors(par, d) = Ancestors(cut, d) \cup Ancestors(par, r)
  BY <1>3, <1>4, <1>5
<1> QED
  BY <1>7, <1>8, <1>9 DEF Distance

LEMMA DistanceKept ==
  ASSUME NEW par \in Column, Acyclic(par), NEW new \in Column, Acyclic(new),
         NEW r \in Runs, \A x \in Runs \ {r} : new[x] = par[x],
         NEW d \in Runs, r \in Ancestors(new, d)
  PROVE  r \in Ancestors(par, d) /\ Distance(new, r, d) = Distance(par, r, d)
<1> DEFINE cut == [par EXCEPT ![r] = NoRun]
<1>1. /\ cut \in Column /\ cut[r] = NoRun
      /\ \A x \in Runs \ {r} : cut[x] = par[x]
      /\ \A x \in Runs \ {r} : cut[x] = new[x]
  BY DEF Column
<1> HIDE DEF cut
<1>2. r \in Ancestors(par, d)
  <2>1. \A x \in Runs \ {r} : par[x] = new[x]
    OBVIOUS
  <2> QED
    BY <2>1, ChainsElsewhere
<1> QED
  BY <1>1, <1>2, ChainFromBelow

\* The cached position of d is the top and the length of its chain.
RightAt(par, rt, dep, d) ==
  /\ rt[d] \in Ancestors(par, d)
  /\ par[rt[d]] = NoRun
  /\ dep[d] = HeightOf(par, d)

\* A run below r is no less deep.
LEMMA DistanceIsNatural ==
  ASSUME NEW par \in Column, NEW r \in Runs, NEW d \in Runs, r \in Ancestors(par, d)
  PROVE  Distance(par, r, d) \in Nat
<1>1. Ancestors(par, r) \subseteq Ancestors(par, d)
  BY AncestorsTransitive
<1>2. /\ IsFiniteSet(Ancestors(par, d))
      /\ Cardinality(Ancestors(par, d)) \in Nat
      /\ Cardinality(Ancestors(par, r)) \in Nat
  BY AncestorsFinite
<1>3. Cardinality(Ancestors(par, r)) <= Cardinality(Ancestors(par, d))
  BY <1>1, <1>2, FS_Subset
<1> QED
  BY <1>2, <1>3 DEF Distance

\* A repair from r, which stands right, reaches everything below r and gives it
\* its position, if no chain is longer than a repair descends.
LEMMA RepairPlaces ==
  ASSUME NEW par \in Column, NEW r \in Runs, NEW top \in Ancestors(par, r),
         par[top] = NoRun, Cardinality(Runs) <= MaxTreeDepth + 1,
         NEW d \in Runs, r \in Ancestors(par, d)
  PROVE  /\ top \in Ancestors(par, d)
         /\ HeightOf(par, r) + Distance(par, r, d) = HeightOf(par, d)
         /\ d # r => d \in Repairable(par, r, HeightOf(par, r))
<1>1. Ancestors(par, r) \subseteq Ancestors(par, d)
  BY AncestorsTransitive
<1>2. /\ Cardinality(Ancestors(par, d)) \in Nat
      /\ Cardinality(Ancestors(par, r)) \in Nat
      /\ Cardinality(Ancestors(par, d)) <= Cardinality(Runs)
      /\ Cardinality(Runs) \in Nat
  BY AncestorsFinite
<1>3. HeightOf(par, r) + Distance(par, r, d) = HeightOf(par, d)
  BY <1>2 DEF Distance, HeightOf
<1>4. HeightOf(par, d) <= MaxTreeDepth
  BY <1>2, DepthAssumption DEF HeightOf
<1> QED
  BY <1>1, <1>3, <1>4 DEF Repairable, Below

\* Two rights are one: the column says what a right position is.
LEMMA RightIsOne ==
  ASSUME NEW par \in Column, NEW d \in Runs, NEW rt, NEW dep,
         RightAt(par, rt, dep, d)
  PROVE  rt[d] = TopOf(par, d) /\ dep[d] = HeightOf(par, d)
  BY TopIsUnique DEF RightAt

\* Where a run and its parent stand right, they agree.
LEMMA RightAgrees ==
  ASSUME NEW par \in Column, Acyclic(par), NEW d \in Runs, par[d] # NoRun,
         NEW rt, NEW dep, RightAt(par, rt, dep, d), RightAt(par, rt, dep, par[d])
  PROVE  rt[d] = rt[par[d]] /\ dep[d] = dep[par[d]] + 1
<1>1. /\ par[d] \in Runs
      /\ Ancestors(par, par[d]) \subseteq Ancestors(par, d)
      /\ Cardinality(Ancestors(par, d)) = Cardinality(Ancestors(par, par[d])) + 1
      /\ Cardinality(Ancestors(par, par[d])) \in Nat
  BY AncestorsStep, OneLevel, AncestorsFinite
<1>2. rt[par[d]] \in Ancestors(par, d)
  BY <1>1 DEF RightAt
<1>3. rt[d] = rt[par[d]]
  BY <1>2, TopIsUnique DEF RightAt
<1>4. dep[d] = dep[par[d]] + 1
  BY <1>1 DEF RightAt, HeightOf
<1> QED
  BY <1>3, <1>4

=============================================================================
