--------------------------- MODULE TreeRaceProofs ---------------------------
(***************************************************************************)
(* What another session sees while workers ingest in open transactions, for  *)
(* any runs, parents, hints, jobs, datasets, number of workers, failures and *)
(* deadlocks: RaceInv is inductive.  Its core is what one transaction sees: a  *)
(* row that exists for it goes on existing, because a locked row is nobody  *)
(* else's and a committed one is never taken away.                           *)
(***************************************************************************)
EXTENDS TreeRace, TLAPS

\* A version of r's row: its parent is the one its events name, or not yet known.
GoodRow(r, row) ==
  /\ row.exists \in BOOLEAN /\ row.stub \in BOOLEAN
  /\ row.parent \in {NoRun, ParentOf[r]}
  /\ row.exists /\ ~row.stub => row.parent = ParentOf[r]

RowTypes ==
  /\ db = [r \in Runs |-> db[r]] /\ dirty = [r \in Runs |-> dirty[r]]
  /\ rowLock \in [Runs -> Workers \cup {Free}]
  /\ \A r \in Runs : GoodRow(r, db[r]) /\ GoodRow(r, dirty[r])

\* A worker is where it writes a parent's or a hint's row only if there is one.
AtPoint(r, point) ==
  /\ point \in {"parent job", "parent stub"} => ParentOf[r] # NoRun
  /\ point \in {"hint job", "hint stub"} => HintOf[r] # NoRun

WorkerTypes ==
  /\ pc = [w \in Workers |-> pc[w]] /\ ev = [w \in Workers |-> ev[w]]
  /\ \A w \in Workers : pc[w] # "idle" => ev[w] \in Runs /\ AtPoint(ev[w], pc[w])

\* A row nobody is writing has one version, and no version takes a row away.
VersionsAgree ==
  \A r \in Runs :
    /\ rowLock[r] = Free => dirty[r] = db[r]
    /\ db[r].exists => dirty[r].exists

\* The parent of a committed row is committed, and that of a row a transaction
\* wrote is there for that transaction.
ParentsStand ==
  \A r \in Runs :
    /\ db[r].parent # NoRun => db[db[r].parent].exists
    /\ \A w \in Workers :
         rowLock[r] = w /\ dirty[r].parent # NoRun => Sees(w, dirty[r].parent).exists

\* From the parent's stub to the upsert that names the parent.
HasParent == {"hint job", "hint stub", "parent row", "before", "upsert"}

StubStands ==
  \A w \in Workers :
    pc[w] \in HasParent /\ Parent(w) # NoRun => Sees(w, Parent(w)).exists

RaceInv == RowTypes /\ WorkerTypes /\ VersionsAgree /\ ParentsStand /\ StubStands

-----------------------------------------------------------------------------
LEMMA ParentsAreRuns ==
  \A r \in Runs : ParentOf[r] \in Runs \cup {NoRun} /\ HintOf[r] \in Runs \cup {NoRun}
BY RaceAssumption

LEMMA SeesIsGood ==
  ASSUME RowTypes, NEW w \in Workers, NEW r \in Runs
  PROVE  GoodRow(r, Sees(w, r))
BY DEF RowTypes, Sees

LEMMA RaceStarts == ASSUME Init PROVE RaceInv
<1>1. /\ db = [r \in Runs |-> NoRow(r)] /\ dirty = db
      /\ rowLock = [r \in Runs |-> Free]
      /\ pc = [w \in Workers |-> "idle"] /\ ev = [w \in Workers |-> NoRun]
  BY DEF Init
<1>2. \A r \in Runs : db[r] = NoRow(r) /\ dirty[r] = NoRow(r) /\ rowLock[r] = Free
  BY <1>1
<1>3. \A r \in Runs : GoodRow(r, NoRow(r)) /\ NoRow(r).parent = NoRun
  BY DEF GoodRow, NoRow
<1>4. RowTypes
  BY <1>1, <1>2, <1>3 DEF RowTypes
<1>5. WorkerTypes /\ StubStands
  BY <1>1 DEF WorkerTypes, StubStands, HasParent
<1>6. VersionsAgree /\ ParentsStand
  BY <1>1, <1>2, <1>3 DEF VersionsAgree, ParentsStand
<1> QED
  BY <1>4, <1>5, <1>6 DEF RaceInv

(* A statement that writes no row and goes on within its transaction.          *)
LEMMA StatementKeeps ==
  ASSUME RaceInv, NEW w \in Workers, UNCHANGED rows, NEW to, pc' = [pc EXCEPT ![w] = to],
         \A u \in Workers \ {w} : ev'[u] = ev[u],
         ev' = [u \in Workers |-> ev'[u]], ev'[w] \in Runs, AtPoint(ev'[w], to),
         to \in HasParent /\ ParentOf[ev'[w]] # NoRun => Sees(w, ParentOf[ev'[w]]).exists
  PROVE  RaceInv'
<1>1. \A u \in Workers, r \in Runs : Sees(u, r)' = Sees(u, r)
  BY DEF rows, Sees
<1>2. RowTypes' /\ VersionsAgree'
  BY DEF rows, RaceInv, RowTypes, VersionsAgree
<1>3. ParentsStand'
  BY <1>1, ParentsAreRuns DEF rows, RaceInv, ParentsStand, RowTypes, GoodRow
<1>4. WorkerTypes'
  BY DEF RaceInv, WorkerTypes
<1>5. pc'[w] = to /\ \A u \in Workers \ {w} : pc'[u] = pc[u]
  BY DEF RaceInv, WorkerTypes
<1>6. ASSUME NEW u \in Workers, pc'[u] \in HasParent, Parent(u)' # NoRun
      PROVE  Sees(u, Parent(u))'.exists
  <2>1. ev'[u] \in Runs /\ Parent(u)' = ParentOf[ev'[u]]
    BY <1>4, <1>6 DEF WorkerTypes, Parent, HasParent
  <2>2. Parent(u)' \in Runs
    BY <1>6, <2>1, ParentsAreRuns
  <2>3. CASE u = w
    BY <1>1, <1>5, <1>6, <2>1, <2>2, <2>3
  <2>4. CASE u # w
    BY <1>1, <1>5, <1>6, <2>1, <2>2, <2>4 DEF RaceInv, StubStands, Parent
  <2> QED
    BY <2>3, <2>4
<1> QED
  BY <1>2, <1>3, <1>4, <1>6 DEF RaceInv, StubStands

(* A statement that writes a row: what existed for a transaction exists still. *)
LEMMA WriteShows ==
  ASSUME RaceInv, NEW w \in Workers, NEW d \in Runs, NEW row, WriteRow(w, d, row),
         GoodRow(d, row), Sees(w, d).exists => row.exists
  PROVE  /\ RowTypes' /\ VersionsAgree'
         /\ Sees(w, d)' = row
         /\ \A r \in Runs \ {d} : Sees(w, r)' = Sees(w, r)
         /\ \A u \in Workers \ {w}, r \in Runs : Sees(u, r)' = Sees(u, r)
         /\ \A u \in Workers, r \in Runs : Sees(u, r).exists => Sees(u, r)'.exists
<1>1. /\ rowLock[d] \in {Free, w} /\ rowLock' = [rowLock EXCEPT ![d] = w]
      /\ dirty' = [dirty EXCEPT ![d] = row] /\ db' = db
  BY DEF WriteRow, CanLock
<1>2. /\ rowLock'[d] = w /\ dirty'[d] = row
      /\ \A r \in Runs \ {d} : rowLock'[r] = rowLock[r] /\ dirty'[r] = dirty[r]
  BY <1>1 DEF RaceInv, RowTypes
<1>3. w # Free
  BY RaceAssumption
<1>4. RowTypes'
  BY <1>1, <1>2 DEF RaceInv, RowTypes
<1>5. db[d].exists => row.exists
  BY <1>1, <1>3 DEF RaceInv, VersionsAgree, Sees
<1>6. VersionsAgree'
  BY <1>1, <1>2, <1>3, <1>5 DEF RaceInv, VersionsAgree
<1>7. Sees(w, d)' = row
  BY <1>2 DEF Sees
<1>8. \A r \in Runs \ {d} : Sees(w, r)' = Sees(w, r)
  BY <1>1, <1>2 DEF Sees
<1>9. ASSUME NEW u \in Workers \ {w}, NEW r \in Runs PROVE Sees(u, r)' = Sees(u, r)
  <2>1. rowLock[d] # u /\ rowLock'[d] # u
    BY <1>1, <1>2, <1>3, RaceAssumption
  <2>2. CASE r = d
    BY <1>1, <2>1, <2>2 DEF Sees
  <2>3. CASE r # d
    BY <1>1, <1>2, <2>3 DEF Sees
  <2> QED
    BY <2>2, <2>3
<1>10. ASSUME NEW u \in Workers, NEW r \in Runs, Sees(u, r).exists PROVE Sees(u, r)'.exists
  <2>1. CASE u = w /\ r = d
    BY <1>7, <1>10, <2>1
  <2>2. CASE u # w \/ r # d
    BY <1>8, <1>9, <1>10, <2>2
  <2> QED
    BY <2>1, <2>2
<1> QED
  BY <1>4, <1>6, <1>7, <1>8, <1>9, <1>10

LEMMA WriteKeeps ==
  ASSUME RaceInv, NEW w \in Workers, NEW d \in Runs, NEW row, WriteRow(w, d, row),
         GoodRow(d, row), Sees(w, d).exists => row.exists,
         row.parent # NoRun => Sees(w, row.parent).exists,
         NEW to, pc' = [pc EXCEPT ![w] = to], UNCHANGED ev, ev[w] \in Runs,
         AtPoint(ev[w], to),
         to \in HasParent /\ Parent(w) # NoRun =>
           (Parent(w) = d /\ row.exists) \/ Sees(w, Parent(w)).exists
  PROVE  RaceInv'
<1>1. /\ RowTypes' /\ VersionsAgree' /\ Sees(w, d)' = row
      /\ \A r \in Runs \ {d} : Sees(w, r)' = Sees(w, r)
      /\ \A u \in Workers, r \in Runs : Sees(u, r).exists => Sees(u, r)'.exists
  BY WriteShows
<1>2. WorkerTypes' /\ pc'[w] = to /\ \A u \in Workers \ {w} : pc'[u] = pc[u]
  BY DEF RaceInv, WorkerTypes
<1>3. /\ db' = db /\ dirty'[d] = row /\ rowLock'[d] = w
      /\ \A r \in Runs \ {d} : rowLock'[r] = rowLock[r] /\ dirty'[r] = dirty[r]
  BY DEF WriteRow, RaceInv, RowTypes
<1>4. ParentsStand'
  <2>1. ASSUME NEW r \in Runs, NEW u \in Workers, rowLock'[r] = u, dirty'[r].parent # NoRun
        PROVE  Sees(u, dirty[r].parent)'.exists
    <3>1. dirty'[r].parent \in Runs
      BY <1>1, <2>1, ParentsAreRuns DEF RowTypes, GoodRow
    <3>2. CASE r = d
      BY <1>1, <1>3, <2>1, <3>1, <3>2
    <3>3. CASE r # d
      BY <1>1, <1>3, <2>1, <3>1, <3>3 DEF RaceInv, ParentsStand
    <3> QED
      BY <3>2, <3>3
  <2> QED
    BY <1>3, <2>1 DEF RaceInv, ParentsStand
<1>5. ASSUME NEW u \in Workers, pc'[u] \in HasParent, Parent(u)' # NoRun
      PROVE  Sees(u, Parent(u))'.exists
  <2>1. ev'[u] \in Runs /\ Parent(u)' = Parent(u) /\ Parent(u) \in Runs
    BY <1>2, <1>5, ParentsAreRuns DEF WorkerTypes, Parent, HasParent
  <2>2. CASE u = w /\ Parent(w) = d /\ row.exists
    BY <1>1, <2>1, <2>2
  <2>3. CASE u = w /\ Sees(w, Parent(w)).exists
    BY <1>1, <2>1, <2>3
  <2>4. CASE u # w
    BY <1>1, <1>2, <1>5, <2>1, <2>4 DEF RaceInv, StubStands
  <2> QED
    BY <1>2, <1>5, <2>1, <2>2, <2>3, <2>4
<1> QED
  BY <1>1, <1>2, <1>4, <1>5 DEF RaceInv, StubStands

(* insert ... on conflict do nothing.                                         *)
LEMMA StubKeeps ==
  ASSUME RaceInv, NEW w \in Workers, NEW d \in Runs, InsertStub(w, d),
         NEW to, pc' = [pc EXCEPT ![w] = to], UNCHANGED ev, ev[w] \in Runs,
         AtPoint(ev[w], to),
         Parent(w) # NoRun => Parent(w) = d \/ Sees(w, Parent(w)).exists
  PROVE  RaceInv'
<1>1. CASE Sees(w, d).exists
  <2>1. UNCHANGED rows
    BY <1>1 DEF InsertStub
  <2> QED
    BY <1>1, <2>1, StatementKeeps DEF RaceInv, WorkerTypes, Parent
<1>2. CASE ~Sees(w, d).exists
  <2>1. WriteRow(w, d, StubRow(d))
    BY <1>2 DEF InsertStub
  <2>2. GoodRow(d, StubRow(d)) /\ StubRow(d).exists /\ StubRow(d).parent = NoRun
    BY DEF GoodRow, StubRow, NoRow
  <2> HIDE DEF StubRow
  <2> QED
    BY <2>1, <2>2, WriteKeeps
<1> QED
  BY <1>1, <1>2

LEMMA UpsertKeeps ==
  ASSUME RaceInv, NEW w \in Workers, Upsert(w)
  PROVE  RaceInv'
<1> DEFINE r == ev[w]
           latest == Sees(w, r)
           row == [exists |-> TRUE, stub |-> FALSE,
                   parent |-> IF Parent(w) = NoRun THEN latest.parent ELSE Parent(w),
                   root |-> NewRoot(w), depth |-> NewDepth(w)]
           to == IF Moved(w) THEN "repair" ELSE "datasets"
<1>1. pc[w] = "upsert" /\ pc' = [pc EXCEPT ![w] = to] /\ WriteRow(w, r, row) /\ UNCHANGED ev
  BY DEF Upsert, Step, locals
<1>2. r \in Runs /\ Parent(w) = ParentOf[r] /\ to \notin HasParent /\ AtPoint(r, to)
  BY <1>1 DEF RaceInv, WorkerTypes, Parent, HasParent, AtPoint
<1>3. GoodRow(r, latest)
  BY <1>2, SeesIsGood DEF RaceInv
<1>4. GoodRow(r, row) /\ row.exists /\ row.parent = Parent(w)
  BY <1>2, <1>3 DEF GoodRow
<1>5. Parent(w) # NoRun => Sees(w, Parent(w)).exists
  BY <1>1 DEF RaceInv, StubStands, HasParent
<1> HIDE DEF row, to
<1> QED
  BY <1>1, <1>2, <1>4, <1>5, WriteKeeps

LEMMA RewriteKeeps ==
  ASSUME RaceInv, NEW w \in Workers, NEW d \in Runs, Rewrite(w, d)
  PROVE  RaceInv'
<1> DEFINE old == Sees(w, d)
           row == [old EXCEPT !.root = plan[w][d].root, !.depth = plan[w][d].depth]
<1>1. pc[w] = "rewrite" /\ WriteRow(w, d, row) /\ UNCHANGED <<pc, ev>>
  BY DEF Rewrite
<1>2. pc' = [pc EXCEPT ![w] = "rewrite"] /\ ev[w] \in Runs /\ AtPoint(ev[w], "rewrite")
  BY <1>1 DEF RaceInv, WorkerTypes, AtPoint
<1>3. row.exists = old.exists /\ row.stub = old.stub /\ row.parent = old.parent
  OBVIOUS
<1>4. GoodRow(d, row)
  BY <1>3, SeesIsGood DEF RaceInv, GoodRow
<1>5. ASSUME row.parent # NoRun PROVE Sees(w, row.parent).exists
  <2>1. CASE rowLock[d] = w
    BY <1>3, <1>5, <2>1 DEF RaceInv, ParentsStand, Sees
  <2>2. CASE rowLock[d] # w
    <3>1. db[row.parent].exists /\ row.parent \in Runs
      BY <1>3, <1>4, <1>5, <2>2, ParentsAreRuns DEF RaceInv, ParentsStand, Sees, GoodRow
    <3> QED
      BY <3>1 DEF RaceInv, VersionsAgree, Sees
  <2> QED
    BY <2>1, <2>2
<1> HIDE DEF row
<1> QED
  BY <1>1, <1>2, <1>3, <1>4, <1>5, WriteKeeps DEF HasParent

(* A transaction that ends: its rows become the committed ones, or go back to   *)
(* them, and nobody else's change.                                            *)
LEMMA EndKeeps ==
  ASSUME RaceInv, NEW w \in Workers, Commit(w) \/ RollBack(w)
  PROVE  RaceInv'
<1>1. /\ rowLock' = [r \in Runs |-> IF rowLock[r] = w THEN Free ELSE rowLock[r]]
      /\ pc' = [pc EXCEPT ![w] = "idle"] /\ ev' = [ev EXCEPT ![w] = NoRun]
  BY DEF Commit, RollBack, EndTransaction
<1>2. /\ db' = [r \in Runs |-> db'[r]] /\ dirty' = [r \in Runs |-> dirty'[r]]
      /\ \A r \in Runs : rowLock[r] # w => db'[r] = db[r] /\ dirty'[r] = dirty[r]
  <2>1. CASE Commit(w)
    BY <2>1 DEF Commit, Mine, RaceInv, RowTypes
  <2>2. CASE RollBack(w)
    BY <2>2 DEF RollBack, Mine, RaceInv, RowTypes
  <2> QED
    BY <2>1, <2>2
<1>3. \A r \in Runs : rowLock[r] = w =>
        /\ rowLock'[r] = Free /\ dirty'[r] = db'[r]
        /\ \/ db'[r] = dirty[r] /\ Commit(w)
           \/ db'[r] = db[r] /\ RollBack(w)
  <2>1. CASE Commit(w)
    BY <1>1, <2>1 DEF Commit, Mine
  <2>2. CASE RollBack(w)
    BY <1>1, <2>2 DEF RollBack, Mine
  <2> QED
    BY <2>1, <2>2
<1>4. Free \notin Workers
  BY RaceAssumption
<1>5. RowTypes'
  <2>1. rowLock' \in [Runs -> Workers \cup {Free}]
    BY <1>1 DEF RaceInv, RowTypes
  <2>2. \A r \in Runs : GoodRow(r, db'[r]) /\ GoodRow(r, dirty'[r])
    BY <1>2, <1>3 DEF RaceInv, RowTypes
  <2> QED
    BY <1>2, <2>1, <2>2 DEF RowTypes
<1>6. \A r \in Runs : db[r].exists => db'[r].exists
  BY <1>2, <1>3 DEF RaceInv, VersionsAgree
<1>7. VersionsAgree'
  BY <1>1, <1>2, <1>3 DEF RaceInv, VersionsAgree
<1>8. ASSUME NEW u \in Workers \ {w}, NEW r \in Runs, Sees(u, r).exists
      PROVE  Sees(u, r)'.exists
  <2>1. CASE rowLock[r] = u
    BY <1>1, <1>2, <1>8, <2>1 DEF Sees
  <2>2. CASE rowLock[r] # u
    <3>1. rowLock'[r] # u /\ db[r].exists
      BY <1>1, <1>4, <1>8, <2>2 DEF Sees
    <3> QED
      BY <1>6, <3>1 DEF Sees
  <2> QED
    BY <2>1, <2>2
<1>9. WorkerTypes'
  BY <1>1 DEF RaceInv, WorkerTypes
<1>10. ASSUME NEW r \in Runs, db'[r].parent # NoRun PROVE db'[db'[r].parent].exists
  <2> DEFINE q == db'[r].parent
  <2>1. q \in Runs
    BY <1>5, <1>10, ParentsAreRuns DEF RowTypes, GoodRow
  <2>2. CASE db'[r] = db[r]
    BY <1>6, <1>10, <2>1, <2>2 DEF RaceInv, ParentsStand
  <2>3. CASE db'[r] # db[r]
    <3>1. rowLock[r] = w /\ db'[r] = dirty[r] /\ Commit(w)
      BY <1>2, <1>3, <2>3
    <3>2. Sees(w, q).exists
      BY <1>10, <3>1 DEF RaceInv, ParentsStand
    <3>3. CASE rowLock[q] = w
      <4>1. db'[q] = dirty[q]
        BY <2>1, <3>1, <3>3 DEF Commit, Mine
      <4> QED
        BY <3>2, <3>3, <4>1 DEF Sees
    <3>4. CASE rowLock[q] # w
      BY <1>2, <2>1, <3>2, <3>4 DEF Sees
    <3> QED
      BY <3>3, <3>4
  <2> QED
    BY <2>2, <2>3
<1>11. ASSUME NEW r \in Runs, NEW u \in Workers, rowLock'[r] = u, dirty'[r].parent # NoRun
       PROVE  Sees(u, dirty[r].parent)'.exists
  <2>1. u # w /\ rowLock[r] = u /\ dirty'[r] = dirty[r]
    BY <1>1, <1>2, <1>4, <1>11
  <2>2. dirty'[r].parent \in Runs
    BY <1>5, <1>11, ParentsAreRuns DEF RowTypes, GoodRow
  <2> QED
    BY <1>8, <1>11, <2>1, <2>2 DEF RaceInv, ParentsStand
<1>12. ASSUME NEW u \in Workers, pc'[u] \in HasParent, Parent(u)' # NoRun
       PROVE  Sees(u, Parent(u))'.exists
  <2>1. u # w /\ pc'[u] = pc[u] /\ ev'[u] = ev[u]
    BY <1>1, <1>12 DEF RaceInv, WorkerTypes, HasParent
  <2>2. Parent(u)' = Parent(u) /\ Parent(u) \in Runs
    BY <1>9, <1>12, <2>1, ParentsAreRuns DEF WorkerTypes, Parent, HasParent
  <2> QED
    BY <1>8, <1>12, <2>1, <2>2 DEF RaceInv, StubStands
<1> QED
  BY <1>5, <1>7, <1>9, <1>10, <1>11, <1>12 DEF RaceInv, ParentsStand, StubStands

(* The statements that write no row of a run.                                 *)
LEMMA OthersKeep ==
  ASSUME RaceInv, NEW w \in Workers, UNCHANGED rows, UNCHANGED ev, pc[w] # "idle",
         NEW to, pc' = [pc EXCEPT ![w] = to], AtPoint(ev[w], to),
         to \in HasParent /\ Parent(w) # NoRun => pc[w] \in HasParent
  PROVE  RaceInv'
<1>1. to \in HasParent /\ Parent(w) # NoRun => Sees(w, Parent(w)).exists
  BY DEF RaceInv, StubStands
<1>2. ev' = [u \in Workers |-> ev'[u]] /\ ev'[w] \in Runs /\ Parent(w) = ParentOf[ev'[w]]
  BY DEF RaceInv, WorkerTypes, Parent
<1> QED
  BY <1>1, <1>2, StatementKeeps

LEMMA TransactionKeeps ==
  ASSUME RaceInv, NEW w \in Workers, Transaction(w)
  PROVE  RaceInv'
<1>0. pc[w] # "idle" => ev[w] \in Runs /\ AtPoint(ev[w], pc[w])
  BY DEF RaceInv, WorkerTypes
<1>1. ASSUME NEW r \in Runs, Take(w, r)
      PROVE  RaceInv'
  <2>1. /\ UNCHANGED rows /\ pc' = [pc EXCEPT ![w] = "own job"]
        /\ ev' = [ev EXCEPT ![w] = r]
    BY <1>1 DEF Take, Step, rows
  <2>2. /\ ev'[w] = r /\ ev' = [u \in Workers |-> ev'[u]]
        /\ \A u \in Workers \ {w} : ev'[u] = ev[u]
    BY <2>1 DEF RaceInv, WorkerTypes
  <2>3. AtPoint(r, "own job")
    BY DEF AtPoint
  <2> QED
    BY <2>1, <2>2, <2>3, StatementKeeps DEF HasParent
<1>2. ASSUME NEW r \in Runs, Rewrite(w, r)
      PROVE  RaceInv'
  BY <1>2, RewriteKeeps
<1>3. CASE OwnJob(w)
  <2> DEFINE to == IF Parent(w) = NoRun THEN "before" ELSE "parent job"
  <2>1. UNCHANGED rows /\ UNCHANGED ev /\ pc[w] = "own job" /\ pc' = [pc EXCEPT ![w] = to]
    BY <1>3 DEF OwnJob, Step, locals
  <2>2. AtPoint(ev[w], to) /\ (to \in HasParent => Parent(w) = NoRun)
    BY DEF AtPoint, Parent, HasParent
  <2> HIDE DEF to
  <2> QED
    BY <2>1, <2>2, OthersKeep
<1>4. CASE ParentJob(w)
  <2>1. /\ UNCHANGED rows /\ UNCHANGED ev /\ pc[w] = "parent job"
        /\ pc' = [pc EXCEPT ![w] = "parent stub"]
    BY <1>4 DEF ParentJob, Step, locals
  <2>2. AtPoint(ev[w], "parent stub")
    BY <1>0, <2>1 DEF AtPoint
  <2> QED
    BY <2>1, <2>2, OthersKeep DEF HasParent
<1>5. CASE ParentStub(w)
  <2> DEFINE to == IF Hint(w) \in {NoRun, ev[w]} THEN "parent row" ELSE "hint job"
  <2>1. /\ InsertStub(w, Parent(w)) /\ UNCHANGED ev /\ pc[w] = "parent stub"
        /\ pc' = [pc EXCEPT ![w] = to]
    BY <1>5 DEF ParentStub, Step, locals
  <2>2. ev[w] \in Runs /\ Parent(w) \in Runs /\ AtPoint(ev[w], to)
    BY <1>0, <2>1, ParentsAreRuns DEF AtPoint, Parent, Hint
  <2> HIDE DEF to
  <2> QED
    BY <2>1, <2>2, StubKeeps
<1>6. CASE HintJob(w)
  <2>1. /\ UNCHANGED rows /\ UNCHANGED ev /\ pc[w] = "hint job"
        /\ pc' = [pc EXCEPT ![w] = "hint stub"]
    BY <1>6 DEF HintJob, Step, locals
  <2>2. AtPoint(ev[w], "hint stub")
    BY <1>0, <2>1 DEF AtPoint
  <2> QED
    BY <2>1, <2>2, OthersKeep DEF HasParent
<1>7. CASE HintStub(w)
  <2>1. /\ InsertStub(w, Hint(w)) /\ UNCHANGED ev /\ pc[w] = "hint stub"
        /\ pc' = [pc EXCEPT ![w] = "parent row"]
    BY <1>7 DEF HintStub, Step, locals
  <2>2. ev[w] \in Runs /\ Hint(w) \in Runs /\ AtPoint(ev[w], "parent row")
    BY <1>0, <2>1, ParentsAreRuns DEF AtPoint, Hint
  <2>3. Parent(w) # NoRun => Sees(w, Parent(w)).exists
    BY <2>1 DEF RaceInv, StubStands, HasParent
  <2> QED
    BY <2>1, <2>2, <2>3, StubKeeps
<1>8. CASE ReadParent(w)
  <2>1. /\ UNCHANGED rows /\ UNCHANGED ev /\ pc[w] = "parent row"
        /\ pc' = [pc EXCEPT ![w] = "before"]
    BY <1>8 DEF ReadParent, Step
  <2> QED
    BY <2>1, OthersKeep DEF HasParent, AtPoint
<1>9. CASE ReadBefore(w)
  <2>1. /\ UNCHANGED rows /\ UNCHANGED ev /\ pc[w] = "before"
        /\ pc' = [pc EXCEPT ![w] = "upsert"]
    BY <1>9 DEF ReadBefore, Step
  <2> QED
    BY <2>1, OthersKeep DEF HasParent, AtPoint
<1>10. CASE Upsert(w)
  BY <1>10, UpsertKeeps
<1>11. CASE Repair(w)
  <2>1. /\ UNCHANGED rows /\ UNCHANGED ev /\ pc[w] = "repair"
        /\ pc' = [pc EXCEPT ![w] = "rewrite"]
    BY <1>11 DEF Repair, Step
  <2> QED
    BY <2>1, OthersKeep DEF HasParent, AtPoint
<1>12. CASE Rewritten(w)
  <2>1. /\ UNCHANGED rows /\ UNCHANGED ev /\ pc[w] = "rewrite"
        /\ pc' = [pc EXCEPT ![w] = "datasets"]
    BY <1>12 DEF Rewritten, Step, locals
  <2> QED
    BY <2>1, OthersKeep DEF HasParent, AtPoint
<1>13. CASE UpsertDataset(w)
  <2>1. /\ UNCHANGED rows /\ UNCHANGED ev /\ pc[w] = "datasets"
        /\ pc' = [pc EXCEPT ![w] = "datasets"]
    BY <1>13 DEF UpsertDataset, Step
  <2> QED
    BY <2>1, OthersKeep DEF HasParent, AtPoint
<1>14. CASE Commit(w)
  BY <1>14, EndKeeps
<1> QED
  BY <1>1, <1>2, <1>3, <1>4, <1>5, <1>6, <1>7, <1>8, <1>9, <1>10, <1>11, <1>12, <1>13, <1>14
     DEF Transaction

LEMMA RaceStep ==
  ASSUME RaceInv, [Next]_vars
  PROVE  RaceInv'
<1>1. CASE UNCHANGED vars
  <2>1. UNCHANGED <<rows, pc, ev>>
    BY <1>1 DEF vars, rows
  <2>2. \A u \in Workers, r \in Runs : Sees(u, r)' = Sees(u, r)
    BY <2>1 DEF rows, Sees
  <2>3. RowTypes' /\ VersionsAgree' /\ WorkerTypes'
    BY <2>1 DEF rows, RaceInv, RowTypes, VersionsAgree, WorkerTypes
  <2>4. ParentsStand'
    BY <2>1, <2>2, ParentsAreRuns DEF rows, RaceInv, ParentsStand, RowTypes, GoodRow
  <2>5. StubStands'
    BY <2>1, <2>2, ParentsAreRuns DEF RaceInv, StubStands, WorkerTypes, Parent, HasParent
  <2> QED
    BY <2>3, <2>4, <2>5 DEF RaceInv
<1>2. ASSUME NEW w \in Workers, Transaction(w) \/ RollBack(w)
      PROVE  RaceInv'
  BY <1>2, TransactionKeeps, EndKeeps
<1> QED
  BY <1>1, <1>2 DEF Next, Done, Fail, DeadlockVictim

-----------------------------------------------------------------------------
(* An event is with one worker at a time, and until its transaction commits no  *)
(* other session sees more of its run than a stub.                            *)

Real(row) == row.exists /\ ~row.stub
Has(w, r) == pc[w] # "idle" /\ ev[w] = r

EventsInv ==
  /\ todo \cap spoiled = {}
  /\ \A w \in Workers : pc[w] # "idle" => ev[w] \notin todo \cup spoiled
  /\ \A u, w \in Workers : pc[u] # "idle" /\ pc[w] # "idle" /\ ev[u] = ev[w] => u = w
  /\ \A r \in Runs :
       /\ Real(db[r]) => r \notin todo \cup spoiled /\ \A w \in Workers : ~Has(w, r)
       /\ Real(dirty[r]) => Real(db[r]) \/ \E w \in Workers : rowLock[r] = w /\ Has(w, r)

LEMMA EventsStart == ASSUME Init PROVE EventsInv
<1>1. \A r \in Runs : db[r] = NoRow(r) /\ dirty[r] = NoRow(r) /\ ~Real(NoRow(r))
  BY DEF Init, NoRow, Real
<1> QED
  BY <1>1 DEF Init, EventsInv

\* A step of a worker that keeps its event and writes at most one row, a real one
\* only if it is its event's or was real.
LEMMA SameEvents ==
  ASSUME RaceInv, EventsInv, NEW w \in Workers, UNCHANGED <<db, events, ev>>,
         pc[w] # "idle", NEW to, to # "idle", pc' = [pc EXCEPT ![w] = to],
         \A r \in Runs :
           \/ dirty'[r] = dirty[r] /\ rowLock'[r] = rowLock[r]
           \/ /\ rowLock'[r] = w
              /\ Real(dirty'[r]) => Real(Sees(w, r)) \/ ev[w] = r
  PROVE  EventsInv'
<1>1. \A u \in Workers : pc'[u] # "idle" <=> pc[u] # "idle"
  BY DEF RaceInv, WorkerTypes
<1>2. \A u \in Workers, r \in Runs : Has(u, r)' <=> Has(u, r)
  BY <1>1 DEF Has
<1>3. ASSUME NEW r \in Runs, Real(dirty'[r])
      PROVE  Real(db'[r]) \/ \E u \in Workers : rowLock'[r] = u /\ Has(u, r)'
  <2>1. CASE dirty'[r] = dirty[r] /\ rowLock'[r] = rowLock[r]
    BY <1>2, <1>3, <2>1 DEF EventsInv
  <2>2. CASE rowLock'[r] = w /\ ev[w] = r
    BY <1>2, <2>2 DEF Has
  <2>3. CASE rowLock'[r] = w /\ Real(Sees(w, r))
    <3>1. CASE Real(db[r])
      BY <3>1
    <3>2. CASE rowLock[r] = w /\ Real(dirty[r])
      BY <1>2, <2>3, <3>2 DEF EventsInv
    <3> QED
      BY <2>3, <3>1, <3>2 DEF Sees
  <2> QED
    BY <1>3, <2>1, <2>2, <2>3
<1>4. \A r \in Runs : Real(db'[r]) =>
        r \notin todo' \cup spoiled' /\ \A u \in Workers : ~Has(u, r)'
  BY <1>2 DEF EventsInv, events
<1>5. /\ todo' \cap spoiled' = {}
      /\ \A u \in Workers : pc'[u] # "idle" => ev'[u] \notin todo' \cup spoiled'
      /\ \A u, v \in Workers :
           pc'[u] # "idle" /\ pc'[v] # "idle" /\ ev'[u] = ev'[v] => u = v
  BY <1>1 DEF EventsInv, events
<1> QED
  BY <1>3, <1>4, <1>5 DEF EventsInv

LEMMA EndEvents ==
  ASSUME RaceInv, EventsInv, NEW w \in Workers, Commit(w) \/ RollBack(w)
  PROVE  EventsInv'
<1>1. /\ rowLock' = [r \in Runs |-> IF rowLock[r] = w THEN Free ELSE rowLock[r]]
      /\ pc' = [pc EXCEPT ![w] = "idle"] /\ ev' = [ev EXCEPT ![w] = NoRun]
      /\ UNCHANGED todo /\ pc[w] # "idle"
  BY DEF Commit, RollBack, EndTransaction
<1>2. \A u \in Workers : pc'[u] # "idle" => u # w /\ pc[u] # "idle" /\ ev'[u] = ev[u]
  BY <1>1 DEF RaceInv, WorkerTypes
<1>3. \A u \in Workers, r \in Runs : Has(u, r)' <=> u # w /\ Has(u, r)
  BY <1>1 DEF RaceInv, WorkerTypes, Has
<1>4. ev[w] \in Runs
  BY <1>1 DEF RaceInv, WorkerTypes
<1>5. CASE Commit(w)
  <2>1. /\ \A r \in Runs : db'[r] = IF rowLock[r] = w THEN dirty[r] ELSE db[r]
        /\ UNCHANGED <<dirty, spoiled>>
    BY <1>5 DEF Commit, Mine
  <2>2. \A r \in Runs : Real(db'[r]) => Real(db[r]) \/ r = ev[w]
    BY <2>1 DEF EventsInv, Has
  <2>3. ASSUME NEW r \in Runs, Real(db'[r])
        PROVE  r \notin todo' \cup spoiled' /\ \A u \in Workers : ~Has(u, r)'
    BY <1>1, <1>3, <2>1, <2>2, <2>3 DEF EventsInv, Has
  <2>4. ASSUME NEW r \in Runs, Real(dirty'[r])
        PROVE  Real(db'[r]) \/ \E u \in Workers : rowLock'[r] = u /\ Has(u, r)'
    <3>1. CASE rowLock[r] = w
      BY <2>1, <2>4, <3>1
    <3>2. CASE rowLock[r] # w
      BY <1>1, <1>3, <2>1, <2>4, <3>2 DEF EventsInv
    <3> QED
      BY <3>1, <3>2
  <2> QED
    BY <1>1, <1>2, <2>1, <2>3, <2>4 DEF EventsInv
<1>6. CASE RollBack(w)
  <2>1. /\ \A r \in Runs : dirty'[r] = IF rowLock[r] = w THEN db[r] ELSE dirty[r]
        /\ db' = db /\ spoiled' = spoiled \cup {ev[w]}
    BY <1>6 DEF RollBack, Mine
  <2>2. ASSUME NEW r \in Runs, Real(db'[r])
        PROVE  r \notin todo' \cup spoiled' /\ \A u \in Workers : ~Has(u, r)'
    BY <1>1, <1>3, <2>1, <2>2 DEF EventsInv, Has
  <2>3. ASSUME NEW r \in Runs, Real(dirty'[r])
        PROVE  Real(db'[r]) \/ \E u \in Workers : rowLock'[r] = u /\ Has(u, r)'
    <3>1. CASE rowLock[r] = w
      BY <2>1, <2>3, <3>1
    <3>2. CASE rowLock[r] # w
      BY <1>1, <1>3, <2>1, <2>3, <3>2 DEF EventsInv
    <3> QED
      BY <3>1, <3>2
  <2>4. todo' \cap spoiled' = {}
    BY <1>1, <2>1 DEF EventsInv
  <2>5. ASSUME NEW u \in Workers, pc'[u] # "idle" PROVE ev'[u] \notin todo' \cup spoiled'
    BY <1>1, <1>2, <2>1, <2>5 DEF EventsInv
  <2>6. \A u, v \in Workers :
          pc'[u] # "idle" /\ pc'[v] # "idle" /\ ev'[u] = ev'[v] => u = v
    BY <1>2 DEF EventsInv
  <2> QED
    BY <2>2, <2>3, <2>4, <2>5, <2>6 DEF EventsInv
<1> QED
  BY <1>5, <1>6

LEMMA TakeEvents ==
  ASSUME RaceInv, EventsInv, NEW w \in Workers, NEW e \in Runs, Take(w, e)
  PROVE  EventsInv'
<1>1. /\ e \in todo /\ pc[w] = "idle" /\ pc' = [pc EXCEPT ![w] = "own job"]
      /\ ev' = [ev EXCEPT ![w] = e] /\ todo' = todo \ {e}
      /\ UNCHANGED <<db, dirty, rowLock, spoiled>>
  BY DEF Take, Step, rows
<1>2. /\ pc'[w] = "own job" /\ ev'[w] = e
      /\ \A u \in Workers \ {w} : pc'[u] = pc[u] /\ ev'[u] = ev[u]
  BY <1>1 DEF RaceInv, WorkerTypes
<1>3. \A r \in Runs : Real(db[r]) => r # e
  BY <1>1 DEF EventsInv
<1>4. \A u \in Workers, r \in Runs :
        /\ Has(u, r) => Has(u, r)' /\ u # w
        /\ Has(u, r)' => Has(u, r) \/ r = e
  BY <1>1, <1>2 DEF Has
<1>5. /\ todo' \cap spoiled' = {}
      /\ \A u \in Workers : pc'[u] # "idle" => ev'[u] \notin todo' \cup spoiled'
      /\ \A u, v \in Workers :
           pc'[u] # "idle" /\ pc'[v] # "idle" /\ ev'[u] = ev'[v] => u = v
  <2>1. todo' \cap spoiled' = {} /\ e \notin todo' \cup spoiled'
    BY <1>1 DEF EventsInv
  <2>2. \A u \in Workers \ {w} :
          pc'[u] # "idle" => ev'[u] \notin todo \cup spoiled /\ ev'[u] # e
    <3>1. ASSUME NEW u \in Workers \ {w}, pc'[u] # "idle"
          PROVE  ev'[u] \notin todo \cup spoiled /\ ev'[u] # e
      <4>1. pc[u] # "idle" /\ ev'[u] = ev[u]
        BY <1>2, <3>1
      <4>2. ev[u] \notin todo \cup spoiled
        BY <4>1 DEF EventsInv
      <4> QED
        BY <1>1, <4>1, <4>2
    <3> QED
      BY <3>1
  <2>3. ASSUME NEW u \in Workers, pc'[u] # "idle" PROVE ev'[u] \notin todo' \cup spoiled'
    <3>1. todo' \subseteq todo /\ spoiled' = spoiled
      BY <1>1
    <3>2. CASE u = w
      BY <1>2, <2>1, <3>2
    <3>3. CASE u # w
      BY <2>2, <2>3, <3>1, <3>3
    <3> QED
      BY <3>2, <3>3
  <2>4. \A u, v \in Workers \ {w} :
          pc'[u] # "idle" /\ pc'[v] # "idle" /\ ev'[u] = ev'[v] => u = v
    BY <1>2 DEF EventsInv
  <2> QED
    BY <1>2, <2>1, <2>2, <2>3, <2>4
<1>6. ASSUME NEW r \in Runs, Real(db'[r])
      PROVE  r \notin todo' \cup spoiled' /\ \A u \in Workers : ~Has(u, r)'
  BY <1>1, <1>3, <1>4, <1>6 DEF EventsInv
<1>7. ASSUME NEW r \in Runs, Real(dirty'[r])
      PROVE  Real(db'[r]) \/ \E u \in Workers : rowLock'[r] = u /\ Has(u, r)'
  BY <1>1, <1>4, <1>7 DEF EventsInv
<1> QED
  BY <1>5, <1>6, <1>7 DEF EventsInv

\* insert ... on conflict do nothing writes a stub or nothing.
LEMMA StubIsNotReal ==
  ASSUME RaceInv, NEW w \in Workers, NEW d \in Runs, InsertStub(w, d)
  PROVE  /\ UNCHANGED db
         /\ \A r \in Runs :
              \/ dirty'[r] = dirty[r] /\ rowLock'[r] = rowLock[r]
              \/ rowLock'[r] = w /\ ~Real(dirty'[r])
<1>1. ~Real(StubRow(d))
  BY DEF Real, StubRow, NoRow
<1> HIDE DEF StubRow
<1> QED
  BY <1>1 DEF InsertStub, WriteRow, rows, RaceInv, RowTypes

LEMMA EventsStep ==
  ASSUME RaceInv, EventsInv, [Next]_vars
  PROVE  EventsInv'
<1>1. CASE UNCHANGED vars
  BY <1>1 DEF vars, EventsInv, Has
<1>2. ASSUME NEW w \in Workers, Commit(w) \/ RollBack(w)
      PROVE  EventsInv'
  BY <1>2, EndEvents
<1>3. ASSUME NEW w \in Workers, NEW r \in Runs, Take(w, r)
      PROVE  EventsInv'
  BY <1>3, TakeEvents
<1>4. ASSUME NEW w \in Workers,
             OwnJob(w) \/ ParentJob(w) \/ HintJob(w) \/ ReadParent(w) \/ ReadBefore(w)
               \/ Repair(w) \/ Rewritten(w) \/ UpsertDataset(w)
      PROVE  EventsInv'
  <2> DEFINE to == IF OwnJob(w) THEN (IF Parent(w) = NoRun THEN "before" ELSE "parent job")
                   ELSE IF ParentJob(w) THEN "parent stub" ELSE IF HintJob(w) THEN "hint stub"
                   ELSE IF ReadParent(w) THEN "before" ELSE IF ReadBefore(w) THEN "upsert"
                   ELSE IF Repair(w) THEN "rewrite" ELSE "datasets"
  <2>1. UNCHANGED <<rows, events, ev>> /\ pc[w] # "idle" /\ pc' = [pc EXCEPT ![w] = to]
    BY <1>4 DEF OwnJob, ParentJob, HintJob, ReadParent, ReadBefore, Repair, Rewritten,
       UpsertDataset, Step, locals
  <2>2. to # "idle"
    OBVIOUS
  <2> HIDE DEF to
  <2> QED
    BY <2>1, <2>2, SameEvents DEF rows
<1>5. ASSUME NEW w \in Workers, ParentStub(w)
      PROVE  EventsInv'
  <2> DEFINE to == IF Hint(w) \in {NoRun, ev[w]} THEN "parent row" ELSE "hint job"
  <2>1. /\ InsertStub(w, Parent(w)) /\ UNCHANGED <<events, ev>> /\ pc[w] = "parent stub"
        /\ pc' = [pc EXCEPT ![w] = to]
    BY <1>5 DEF ParentStub, Step, locals
  <2>2. Parent(w) \in Runs
    BY <2>1, ParentsAreRuns DEF RaceInv, WorkerTypes, AtPoint, Parent
  <2>3. to # "idle"
    OBVIOUS
  <2> HIDE DEF to
  <2> QED
    BY <2>1, <2>2, <2>3, StubIsNotReal, SameEvents
<1>6. ASSUME NEW w \in Workers, HintStub(w)
      PROVE  EventsInv'
  <2>1. /\ InsertStub(w, Hint(w)) /\ UNCHANGED <<events, ev>> /\ pc[w] = "hint stub"
        /\ pc' = [pc EXCEPT ![w] = "parent row"]
    BY <1>6 DEF HintStub, Step, locals
  <2>2. Hint(w) \in Runs
    BY <2>1, ParentsAreRuns DEF RaceInv, WorkerTypes, AtPoint, Hint
  <2> QED
    BY <2>1, <2>2, StubIsNotReal, SameEvents
<1>7. ASSUME NEW w \in Workers, Upsert(w)
      PROVE  EventsInv'
  <2> DEFINE to == IF Moved(w) THEN "repair" ELSE "datasets"
  <2>1. /\ UNCHANGED <<db, events, ev>> /\ pc[w] = "upsert" /\ pc' = [pc EXCEPT ![w] = to]
        /\ rowLock' = [rowLock EXCEPT ![ev[w]] = w]
        /\ \A r \in Runs \ {ev[w]} : dirty'[r] = dirty[r]
    BY <1>7 DEF Upsert, Step, WriteRow, locals, RaceInv, RowTypes
  <2>2. \A r \in Runs : rowLock'[r] = IF r = ev[w] THEN w ELSE rowLock[r]
    BY <2>1 DEF RaceInv, RowTypes
  <2>3. to # "idle"
    OBVIOUS
  <2>4. \A r \in Runs :
          \/ dirty'[r] = dirty[r] /\ rowLock'[r] = rowLock[r]
          \/ rowLock'[r] = w /\ ev[w] = r
    BY <2>1, <2>2
  <2>5. pc[w] # "idle"
    BY <2>1
  <2> HIDE DEF to
  <2> QED
    BY <2>1, <2>3, <2>4, <2>5, SameEvents
<1>8. ASSUME NEW w \in Workers, NEW d \in Runs, Rewrite(w, d)
      PROVE  EventsInv'
  <2> DEFINE row == [Sees(w, d) EXCEPT !.root = plan[w][d].root, !.depth = plan[w][d].depth]
  <2>1. UNCHANGED <<db, events, ev, pc>> /\ pc[w] = "rewrite" /\ WriteRow(w, d, row)
    BY <1>8 DEF Rewrite, WriteRow
  <2>2. Real(row) <=> Real(Sees(w, d))
    BY DEF Real
  <2> HIDE DEF row
  <2>3. /\ rowLock'[d] = w /\ dirty'[d] = row
        /\ \A r \in Runs \ {d} : dirty'[r] = dirty[r] /\ rowLock'[r] = rowLock[r]
    BY <2>1 DEF WriteRow, RaceInv, RowTypes
  <2>4. pc' = [pc EXCEPT ![w] = "rewrite"]
    BY <2>1 DEF RaceInv, WorkerTypes
  <2> QED
    BY <2>1, <2>2, <2>3, <2>4, SameEvents
<1> QED
  BY <1>1, <1>2, <1>3, <1>4, <1>5, <1>6, <1>7, <1>8
     DEF Next, Transaction, Done, Fail, DeadlockVictim

-----------------------------------------------------------------------------
(* For any runs, parents, hints, jobs, datasets, any number of workers and any *)
(* failures and deadlocks: another session never sees a run whose parent has no row, or more than a    *)
(* stub of a run whose event is queued, in progress or failed (ingest.py       *)
(* ingest_run_event, db.py connection, queue.py _work).                       *)
THEOREM TreeRaceCommittedWhole == Spec => []CommittedWhole
<1>1. Init => RaceInv /\ EventsInv
  BY RaceStarts, EventsStart
<1>2. RaceInv /\ EventsInv /\ [Next]_vars => (RaceInv /\ EventsInv)'
  BY RaceStep, EventsStep
<1>3. RaceInv /\ EventsInv => CommittedWhole
  BY DEF RaceInv, CommittedWhole, ParentsStand, RowTypes, GoodRow, EventsInv, Real
<1> QED
  BY <1>1, <1>2, <1>3, PTL DEF Spec
=============================================================================
