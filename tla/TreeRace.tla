------------------------------ MODULE TreeRace ------------------------------
(***************************************************************************)
(* The queue's workers ingest events in concurrent transactions (queue.py,   *)
(* ingest.py, db.py).  RunTree takes ingest_run_event as one step; here it   *)
(* is the sequence of statements it is, under PostgreSQL's READ COMMITTED:   *)
(*   - a statement reads what was committed when it began, and its own       *)
(*     transaction's writes;                                                 *)
(*   - a row written by an open transaction is locked: another writer waits; *)
(*   - the upserts of `jobs` lock the job's row to the end of the            *)
(*     transaction, so transactions that name a job in common are serialised *)
(*     from there on; the upserts of `datasets` lock theirs in the order in  *)
(*     which the event names them;                                           *)
(*   - of transactions that wait for one another in a cycle one is rolled    *)
(*     back.                                                                 *)
(* Of `runs` only the position columns are kept, of `jobs` and `datasets` the *)
(* locks.                                                                    *)
(***************************************************************************)
EXTENDS TreeOps, Sequences

CONSTANTS
  Workers,   \* the queue's worker threads
  Free,      \* nobody holds the lock
  Jobs,      \* job rows
  JobOf,     \* the job of each run
  ParentOf,  \* the parent every event of a run names, or NoRun
  HintOf,    \* the root hint it carries, or NoRun
  Datasets,  \* dataset rows
  TouchesOf, \* the datasets it names, inputs and then outputs
  MayFail    \* whether a transaction may raise and roll back

ASSUME RaceAssumption ==
  /\ Free \notin Workers
  /\ JobOf \in [Runs -> Jobs]
  /\ ParentOf \in [Runs -> Runs \cup {NoRun}]
  /\ HintOf \in [Runs -> Runs \cup {NoRun}]
  /\ TouchesOf \in [Runs -> Seq(Datasets)]
  /\ Acyclic(ParentOf)
  /\ MayFail \in BOOLEAN

VARIABLES
  todo,     \* runs whose event is still queued
  db,       \* committed rows of runs
  dirty,    \* the version of a locked row its writer sees
  rowLock,  \* the transaction that wrote the row, or Free
  jobLock,  \* the transaction that upserted the job, or Free
  dataLock, \* the transaction that upserted the dataset, or Free
  pc,       \* the statement each worker is about to run
  ev,       \* the run whose event it ingests
  above,    \* the parent row it read
  before,   \* the run's row it read before the upsert
  plan,     \* rows its repair has still to rewrite, with their new position
  left,     \* datasets it has still to upsert
  spoiled   \* history: runs whose event raised or was a deadlock's victim

vars == <<todo, db, dirty, rowLock, jobLock, dataLock, pc, ev, above, before, plan, left,
          spoiled>>
events == <<todo, spoiled>>
locals == <<ev, above, before, plan, left>>
keys == <<jobLock, dataLock>>
rows == <<db, dirty, rowLock>>

-----------------------------------------------------------------------------
NoRow(r) == [exists |-> FALSE, stub |-> FALSE, parent |-> NoRun, root |-> r, depth |-> 0]
StubRow(r) == [NoRow(r) EXCEPT !.exists = TRUE, !.stub = TRUE]
NoPlan == [r \in {} |-> NoRow(r)]

Init ==
  /\ todo = Runs
  /\ db = [r \in Runs |-> NoRow(r)]
  /\ dirty = db
  /\ rowLock = [r \in Runs |-> Free]
  /\ jobLock = [j \in Jobs |-> Free]
  /\ dataLock = [d \in Datasets |-> Free]
  /\ pc = [w \in Workers |-> "idle"]
  /\ ev = [w \in Workers |-> NoRun]
  /\ above = [w \in Workers |-> NoPlan]
  /\ before = [w \in Workers |-> NoPlan]
  /\ plan = [w \in Workers |-> NoPlan]
  /\ left = [w \in Workers |-> <<>>]
  /\ spoiled = {}

\* What a statement of w reads.
Sees(w, r) == IF rowLock[r] = w THEN dirty[r] ELSE db[r]
Columns(w) == [r \in Runs |-> Sees(w, r).parent]

CanLock(lock, k, w) == lock[k] \in {Free, w}

\* Statement of w from one program point to another.
Step(w, from, to) == pc[w] = from /\ pc' = [pc EXCEPT ![w] = to]

LockJob(w, r) ==
  /\ CanLock(jobLock, JobOf[r], w)
  /\ jobLock' = [jobLock EXCEPT ![JobOf[r]] = w]
  /\ UNCHANGED dataLock

WriteRow(w, r, row) ==
  /\ CanLock(rowLock, r, w)
  /\ rowLock' = [rowLock EXCEPT ![r] = w]
  /\ dirty' = [dirty EXCEPT ![r] = row]
  /\ UNCHANGED db

\* Faults: the stub is not written; it overwrites the row that is there.
InsertStubSkipped(w, r) == UNCHANGED rows
InsertStubOverwrites(w, r) == WriteRow(w, r, StubRow(r))

\* insert ... on conflict (run_id) do nothing: an existing row is neither
\* changed nor locked, an uncommitted insert of another transaction is waited
\* for.
InsertStub(w, r) ==
  IF Sees(w, r).exists THEN UNCHANGED rows ELSE WriteRow(w, r, StubRow(r))

-----------------------------------------------------------------------------
(* ingest_run_event, statement by statement.                               *)

Parent(w) == ParentOf[ev[w]]
Hint(w) == HintOf[ev[w]]

\* The worker takes a queued event and opens a transaction.
Take(w, r) ==
  /\ r \in todo
  /\ Step(w, "idle", "own job")
  /\ ev' = [ev EXCEPT ![w] = r]
  /\ todo' = todo \ {r}
  /\ left' = [left EXCEPT ![w] = TouchesOf[r]]
  /\ UNCHANGED <<rows, keys, above, before, plan, spoiled>>

OwnJob(w) ==
  /\ Step(w, "own job", IF Parent(w) = NoRun THEN "before" ELSE "parent job")
  /\ LockJob(w, ev[w])
  /\ UNCHANGED <<events, rows, locals>>

ParentJob(w) ==
  /\ Step(w, "parent job", "parent stub")
  /\ LockJob(w, Parent(w))
  /\ UNCHANGED <<events, rows, locals>>

ParentStub(w) ==
  /\ Step(w, "parent stub",
          IF Hint(w) \in {NoRun, ev[w]} THEN "parent row" ELSE "hint job")
  /\ InsertStub(w, Parent(w))
  /\ UNCHANGED <<events, keys, locals>>

HintJob(w) ==
  /\ Step(w, "hint job", "hint stub")
  /\ LockJob(w, Hint(w))
  /\ UNCHANGED <<events, rows, locals>>

HintStub(w) ==
  /\ Step(w, "hint stub", "parent row")
  /\ InsertStub(w, Hint(w))
  /\ UNCHANGED <<events, keys, locals>>

ReadParent(w) ==
  /\ Step(w, "parent row", "before")
  /\ above' = [above EXCEPT ![w] = Sees(w, Parent(w))]
  /\ UNCHANGED <<events, rows, keys, ev, before, plan, left>>

ReadBefore(w) ==
  /\ Step(w, "before", "upsert")
  /\ before' = [before EXCEPT ![w] = Sees(w, ev[w])]
  /\ UNCHANGED <<events, rows, keys, ev, above, plan, left>>

\* Fault: a run without a parent gets no root.
NewRootNull(w) == IF Parent(w) = NoRun THEN NoRun ELSE above[w].root

NewRoot(w) == IF Parent(w) = NoRun THEN ev[w] ELSE above[w].root
NewDepth(w) == IF Parent(w) = NoRun THEN 0 ELSE above[w].depth + 1

\* Fault: a stub whose position changes is not taken for moved.
MovedNewOnly(w) == ~before[w].exists

Moved(w) ==
  \/ ~before[w].exists
  \/ before[w].root # NewRoot(w)
  \/ before[w].depth # NewDepth(w)

\* _UPSERT_RUN waits for the row, then merges into its latest version.
Upsert(w) ==
  LET r == ev[w]
      latest == Sees(w, r)
  IN /\ Step(w, "upsert", IF Moved(w) THEN "repair" ELSE "datasets")
     /\ WriteRow(w, r,
          [exists |-> TRUE, stub |-> FALSE,
           parent |-> IF Parent(w) = NoRun THEN latest.parent ELSE Parent(w),
           root |-> NewRoot(w), depth |-> NewDepth(w)])
     /\ UNCHANGED <<events, keys, locals>>

\* _REPAIR_SUBTREE: the CTE is evaluated when the statement begins; the rows
\* that differ are then rewritten one by one, each as soon as its lock is free.
Repair(w) ==
  LET r == ev[w]
      newPosition(d) == [root |-> NewRoot(w),
                         depth |-> NewDepth(w) + Distance(Columns(w), r, d)]
      differs(d) == \/ Sees(w, d).root # newPosition(d).root
                    \/ Sees(w, d).depth # newPosition(d).depth
  IN /\ Step(w, "repair", "rewrite")
     /\ plan' = [plan EXCEPT ![w] =
                   [d \in {x \in Repairable(Columns(w), r, NewDepth(w)) : differs(x)}
                      |-> newPosition(d)]]
     /\ UNCHANGED <<events, rows, keys, ev, above, before, left>>

Rewrite(w, d) ==
  /\ pc[w] = "rewrite"
  /\ d \in DOMAIN plan[w]
  /\ WriteRow(w, d, [Sees(w, d) EXCEPT !.root = plan[w][d].root,
                                       !.depth = plan[w][d].depth])
  /\ plan' = [plan EXCEPT ![w] = [x \in DOMAIN plan[w] \ {d} |-> plan[w][x]]]
  /\ UNCHANGED <<events, keys, pc, ev, above, before, left>>

Rewritten(w) ==
  /\ DOMAIN plan[w] = {}
  /\ Step(w, "rewrite", "datasets")
  /\ UNCHANGED <<events, rows, keys, locals>>

\* _upsert_datasets: insert ... on conflict do update, dataset after dataset.
UpsertDataset(w) ==
  /\ left[w] # <<>>
  /\ Step(w, "datasets", "datasets")
  /\ CanLock(dataLock, Head(left[w]), w)
  /\ dataLock' = [dataLock EXCEPT ![Head(left[w])] = w]
  /\ left' = [left EXCEPT ![w] = Tail(@)]
  /\ UNCHANGED <<events, rows, jobLock, ev, above, before, plan>>

Released(lock, w) == [k \in DOMAIN lock |-> IF lock[k] = w THEN Free ELSE lock[k]]

\* The locks go and the worker's locals with them.
EndTransaction(w) ==
  /\ rowLock' = [r \in Runs |-> IF rowLock[r] = w THEN Free ELSE rowLock[r]]
  /\ jobLock' = Released(jobLock, w)
  /\ dataLock' = Released(dataLock, w)
  /\ pc' = [pc EXCEPT ![w] = "idle"]
  /\ ev' = [ev EXCEPT ![w] = NoRun]
  /\ above' = [above EXCEPT ![w] = NoPlan]
  /\ before' = [before EXCEPT ![w] = NoPlan]
  /\ plan' = [plan EXCEPT ![w] = NoPlan]
  /\ left' = [left EXCEPT ![w] = <<>>]
  /\ UNCHANGED todo

Mine(w) == {r \in Runs : rowLock[r] = w}

Commit(w) ==
  /\ pc[w] = "datasets"
  /\ left[w] = <<>>
  /\ db' = [r \in Runs |-> IF r \in Mine(w) THEN dirty[r] ELSE db[r]]
  /\ UNCHANGED <<dirty, spoiled>>
  /\ EndTransaction(w)

\* connection() rolls the transaction back; the worker counts a failure and goes
\* on with the next event.
RollBack(w) ==
  /\ pc[w] # "idle"
  /\ dirty' = [r \in Runs |-> IF r \in Mine(w) THEN db[r] ELSE dirty[r]]
  /\ spoiled' = spoiled \cup {ev[w]}
  /\ UNCHANGED db
  /\ EndTransaction(w)

\* A statement raises.
Fail(w) == MayFail /\ RollBack(w)

\* Whose locks the statement w is at needs; a rewrite may come to any row of its
\* plan next.
WaitsFor(w) ==
  {u \in Workers \ {w} :
     \/ pc[w] = "own job" /\ jobLock[JobOf[ev[w]]] = u
     \/ pc[w] = "parent job" /\ jobLock[JobOf[Parent(w)]] = u
     \/ pc[w] = "hint job" /\ jobLock[JobOf[Hint(w)]] = u
     \/ pc[w] = "parent stub" /\ ~Sees(w, Parent(w)).exists /\ rowLock[Parent(w)] = u
     \/ pc[w] = "hint stub" /\ ~Sees(w, Hint(w)).exists /\ rowLock[Hint(w)] = u
     \/ pc[w] = "upsert" /\ rowLock[ev[w]] = u
     \/ \E d \in DOMAIN plan[w] : rowLock[d] = u
     \/ pc[w] = "datasets" /\ left[w] # <<>> /\ dataLock[Head(left[w])] = u}

\* Workers each of which waits for another of them; and the smallest such sets.
Waiting(S) == S # {} /\ \A w \in S : WaitsFor(w) \cap S # {}
Cycle(S) == Waiting(S) /\ \A T \in SUBSET S : Waiting(T) => T = S

\* The statement of one transaction of a cycle is made to raise.
DeadlockVictim(w) ==
  /\ \E S \in SUBSET Workers : w \in S /\ Cycle(S)
  /\ RollBack(w)

Transaction(w) ==
  \/ \E r \in Runs : Take(w, r) \/ Rewrite(w, r)
  \/ OwnJob(w) \/ ParentJob(w) \/ ParentStub(w) \/ HintJob(w) \/ HintStub(w)
  \/ ReadParent(w) \/ ReadBefore(w) \/ Upsert(w)
  \/ Repair(w) \/ Rewritten(w) \/ UpsertDataset(w) \/ Commit(w)

Quiet == todo = {} /\ \A w \in Workers : pc[w] = "idle"

\* The queue is empty: nothing more happens.
Done == Quiet /\ UNCHANGED vars

Next == (\E w \in Workers : Transaction(w) \/ Fail(w) \/ DeadlockVictim(w)) \/ Done

Spec == Init /\ [][Next]_vars

FairSpec ==
  /\ Spec
  /\ \A w \in Workers : WF_vars(Transaction(w))
  /\ WF_vars(\E w \in Workers : DeadlockVictim(w))

-----------------------------------------------------------------------------
Row == [exists : BOOLEAN, stub : BOOLEAN, parent : Runs \cup {NoRun},
        root : Runs, depth : Nat]

TypeOK ==
  /\ todo \subseteq Runs
  /\ db \in [Runs -> Row]
  /\ dirty \in [Runs -> Row]
  /\ rowLock \in [Runs -> Workers \cup {Free}]
  /\ jobLock \in [Jobs -> Workers \cup {Free}]
  /\ dataLock \in [Datasets -> Workers \cup {Free}]
  /\ ev \in [Workers -> Runs \cup {NoRun}]
  /\ left \in [Workers -> Seq(Datasets)]

Placed(r) ==
  IF db[r].parent = NoRun
  THEN db[r].root = r /\ db[r].depth = 0
  ELSE /\ db[r].root = db[db[r].parent].root
       /\ db[r].depth = db[db[r].parent].depth + 1

(* When the queue is empty every row stands where its parent's row says,     *)
(* whichever transactions overlapped: workers together leave the tree one    *)
(* worker would have left (_repair_subtree: "exactly the same tree as if     *)
(* they had arrived in order").                                              *)
TreeSettlesConsistent == Quiet => \A r \in Runs : Placed(r)

(* At any moment another session sees no half-ingested event: a committed    *)
(* row's parent has a committed row, and a run whose event is still queued,  *)
(* or failed, is there at most as the stub a child asked for.                *)
CommittedWhole ==
  \A r \in Runs :
    /\ db[r].parent # NoRun => db[db[r].parent].exists
    /\ db[r].exists /\ ~db[r].stub =>
         db[r].parent = ParentOf[r] /\ r \notin todo \cup spoiled

\* r locks dataset a before it asks for b.
LocksBefore(r, a, b) ==
  \E i, k \in DOMAIN TouchesOf[r] :
    /\ i < k /\ TouchesOf[r][i] = a /\ TouchesOf[r][k] = b
    /\ \A j \in 1..(i - 1) : TouchesOf[r][j] # b

\* There is an order of the datasets in which each of these runs locks its own.
InOneOrder(rs) ==
  \E rank \in [Datasets -> 1..Cardinality(Datasets)] :
    \A r \in rs, a, b \in Datasets : a # b /\ LocksBefore(r, a, b) => rank[a] < rank[b]

(* The locks on jobs and run rows never close a cycle, in whatever order      *)
(* parents, hints and repairs take them: transactions kill each other only    *)
(* over datasets, and only when their events name these in orders that no one *)
(* order agrees with.  So the queue empties, and every event that did not     *)
(* raise and was not the victim of such a deadlock has its row.               *)
EveryEventLands ==
  /\ <>(Quiet /\ \A r \in Runs \ spoiled : db[r].exists /\ ~db[r].stub)
  /\ [](\A S \in SUBSET Workers : Cycle(S) => ~InOneOrder({ev[w] : w \in S}))

(* No transaction is ever killed by another.  Not so when two events name     *)
(* datasets in opposite orders (README, 5).                                   *)
NobodyIsKilled == \A S \in SUBSET Workers : ~Cycle(S)

=============================================================================
