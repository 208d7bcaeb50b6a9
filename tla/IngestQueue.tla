----------------------------- MODULE IngestQueue -----------------------------
(***************************************************************************)
(* The bounded ingest queue (queue.py) with the two users it has in api.py:  *)
(* POST /lineage, which submits, and the lifespan, which starts the workers  *)
(* and drains them at shutdown.  Both run on the event loop, so nothing is   *)
(* submitted while drain_and_stop blocks it.                                 *)
(*                                                                         *)
(* queue.Queue of the standard library is the sequence q and the counter     *)
(* unfinished of put and task_done, which join() waits for.  The             *)
(* transaction a worker runs is atomic here (IngestOk, IngestFails); what    *)
(* concurrent transactions do to one another is the subject of TreeRace.     *)
(***************************************************************************)
EXTENDS Integers, Sequences, FiniteSets

CONSTANTS
  Events,       \* payloads, each submitted at most once
  Threads,      \* thread identities
  Sentinel,     \* _SENTINEL
  Nothing,      \* no item in a worker's hands
  MaxSize,      \* maxsize of the queue
  WorkerCount,  \* worker_count
  MaxStarts,    \* bound: times the queue is started
  MayCrash,     \* whether the process may be killed
  ReuseQueue    \* whether a process may start its queue again after a drain

ASSUME QueueAssumption ==
  /\ IsFiniteSet(Threads)
  /\ Sentinel \notin Events
  /\ MaxSize \in Nat \ {0}
  /\ WorkerCount \in Nat \ {0}
  /\ MaxStarts \in Nat
  /\ MayCrash \in BOOLEAN
  /\ ReuseQueue \in BOOLEAN

VARIABLES
  q,           \* the items waiting
  unfinished,  \* puts minus task_dones
  handles,     \* _threads
  pc,          \* where each thread is in _worker
  item,        \* what each thread took from the queue
  stopping,    \* _stopping
  processed, failed, dropped,  \* the counters of stats()
  loop,        \* where the event loop is in the lifespan
  toWake,      \* sentinels drain_and_stop has still to put
  starts,      \* starts so far
  accepted, shed, committed, spoiled
               \* history of this process: events answered 201, answered 202,
               \* written, failed

queueVars == <<q, unfinished>>
workerVars == <<pc, item>>
counters == <<processed, failed, dropped>>
loopVars == <<loop, toWake, starts, handles, stopping>>
history == <<accepted, shed, committed, spoiled>>
vars == <<queueVars, workerVars, counters, loopVars, history>>

-----------------------------------------------------------------------------
Init ==
  /\ q = <<>>
  /\ unfinished = 0
  /\ handles = {}
  /\ pc = [t \in Threads |-> "dead"]
  /\ item = [t \in Threads |-> Nothing]
  /\ stopping = FALSE
  /\ processed = 0 /\ failed = 0 /\ dropped = 0
  /\ loop = "down"
  /\ toWake = 0
  /\ starts = 0
  /\ accepted = {} /\ shed = {} /\ committed = {} /\ spoiled = {}

\* Workers at one of the positions, those holding an unacknowledged item, and
\* the places an accepted event can be in.
At(positions) == {t \in Threads : pc[t] \in positions}
Busy == At({"ingest", "ok", "err", "ack"})

Waiting == {q[i] : i \in DOMAIN q}
InHand == {item[t] : t \in At({"ingest"})}
Settled == committed \cup spoiled

Full == Len(q) >= MaxSize

Put(x) == q' = Append(q, x) /\ unfinished' = unfinished + 1

-----------------------------------------------------------------------------
(* The event loop: lifespan and POST /lineage.                             *)

\* start(): worker_count new threads beside those alive before.  _threads is
\* empty whenever the lifespan calls it, so its early return is not taken.
StartWorkers(before) ==
  \E fresh \in SUBSET {t \in Threads : before[t] = "dead"} :
    /\ Cardinality(fresh) = WorkerCount
    /\ handles' = fresh
    /\ pc' = [t \in Threads |-> IF t \in fresh THEN "get" ELSE before[t]]
    /\ stopping' = FALSE
    /\ loop' = "serving"
    /\ starts' = starts + 1

\* A new process: a new IngestQueue, started.  Threads of an earlier process
\* that outlived its drain died with it.
Boot ==
  /\ loop = "down"
  /\ starts < MaxStarts
  /\ StartWorkers([t \in Threads |-> "dead"])
  /\ q' = <<>> /\ unfinished' = 0
  /\ processed' = 0 /\ failed' = 0 /\ dropped' = 0
  /\ accepted' = {} /\ shed' = {} /\ committed' = {} /\ spoiled' = {}
  /\ UNCHANGED <<item, toWake>>

\* The lifespan starts again in the process that drained the queue: get_queue()
\* returns the same object.
Reopen ==
  /\ ReuseQueue
  /\ loop = "down"
  /\ starts < MaxStarts
  /\ stopping
  /\ StartWorkers(pc)
  /\ UNCHANGED <<queueVars, item, counters, toWake, history>>

\* submit(): put_nowait, or count the event as dropped.
SubmitAccepted(e) ==
  /\ loop = "serving"
  /\ e \notin accepted \cup shed
  /\ ~Full
  /\ Put(e)
  /\ accepted' = accepted \cup {e}
  /\ UNCHANGED <<workerVars, counters, loopVars, shed, committed, spoiled>>

\* Faults: a shed event is answered as accepted, or not counted; events are shed
\* too early.
SubmitShedUncounted(e) ==
  /\ loop = "serving"
  /\ e \notin accepted \cup shed
  /\ Full
  /\ shed' = shed \cup {e}
  /\ UNCHANGED <<queueVars, workerVars, counters, loopVars, accepted, committed, spoiled>>
SubmitShedSilently(e) ==
  /\ loop = "serving"
  /\ e \notin accepted \cup shed
  /\ Full
  /\ dropped' = dropped + 1
  /\ accepted' = accepted \cup {e}
  /\ UNCHANGED <<queueVars, workerVars, processed, failed, loopVars,
                 shed, committed, spoiled>>
SubmitShedEarly(e) ==
  /\ loop = "serving"
  /\ e \notin accepted \cup shed
  /\ dropped' = dropped + 1
  /\ shed' = shed \cup {e}
  /\ UNCHANGED <<queueVars, workerVars, processed, failed, loopVars,
                 accepted, committed, spoiled>>

SubmitShed(e) ==
  /\ loop = "serving"
  /\ e \notin accepted \cup shed
  /\ Full
  /\ dropped' = dropped + 1
  /\ shed' = shed \cup {e}
  /\ UNCHANGED <<queueVars, workerVars, processed, failed, loopVars,
                 accepted, committed, spoiled>>

\* drain_and_stop(), in the order of its statements.
BeginDrain ==
  /\ loop = "serving"
  /\ handles # {}
  /\ loop' = "joining"
  /\ UNCHANGED <<queueVars, workerVars, counters, toWake, starts, handles,
                 stopping, history>>

\* Fault: the stop flag is set without waiting for the queue.
QueueNotJoined ==
  /\ loop = "joining"
  /\ stopping' = TRUE
  /\ toWake' = Cardinality(handles)
  /\ loop' = "waking"
  /\ UNCHANGED <<queueVars, workerVars, counters, starts, handles, history>>

\* _q.join() returns; the stop flag is set.
QueueJoined ==
  /\ loop = "joining"
  /\ unfinished = 0
  /\ stopping' = TRUE
  /\ toWake' = Cardinality(handles)
  /\ loop' = "waking"
  /\ UNCHANGED <<queueVars, workerVars, counters, starts, handles, history>>

\* One put_nowait(_SENTINEL); a full queue is ignored.
Wake ==
  /\ loop = "waking"
  /\ toWake > 0
  /\ IF Full THEN UNCHANGED queueVars ELSE Put(Sentinel)
  /\ toWake' = toWake - 1
  /\ UNCHANGED <<workerVars, counters, loop, starts, handles, stopping, history>>

AllWoken ==
  /\ loop = "waking"
  /\ toWake = 0
  /\ loop' = "threads"
  /\ UNCHANGED <<queueVars, workerVars, counters, toWake, starts, handles,
                 stopping, history>>

\* Every thread.join(timeout) has returned, because the thread ended or
\* because its share of the timeout passed; the handles are dropped.
ThreadsJoined ==
  /\ loop = "threads"
  /\ handles' = {}
  /\ loop' = "down"
  /\ UNCHANGED <<queueVars, workerVars, counters, toWake, starts, stopping, history>>

-----------------------------------------------------------------------------
(* _worker.                                                                *)

Goto(t, from, to) == pc[t] = from /\ pc' = [pc EXCEPT ![t] = to]

\* Fault: the sentinel is taken for an event.
TakeAnything(t) ==
  /\ q # <<>>
  /\ Goto(t, "get", "ingest")
  /\ item' = [item EXCEPT ![t] = Head(q)]
  /\ q' = Tail(q)
  /\ UNCHANGED <<unfinished, counters, loopVars, history>>

Take(t) ==
  /\ q # <<>>
  /\ Head(q) # Sentinel
  /\ Goto(t, "get", "ingest")
  /\ item' = [item EXCEPT ![t] = Head(q)]
  /\ q' = Tail(q)
  /\ UNCHANGED <<unfinished, counters, loopVars, history>>

\* The sentinel is acknowledged and the worker returns.
TakeSentinel(t) ==
  /\ q # <<>>
  /\ Head(q) = Sentinel
  /\ Goto(t, "get", "dead")
  /\ q' = Tail(q)
  /\ unfinished' = unfinished - 1
  /\ UNCHANGED <<item, counters, loopVars, history>>

\* get(timeout=0.25) raised Empty and the stop flag is set.
TimeOut(t) ==
  /\ q = <<>>
  /\ stopping
  /\ Goto(t, "get", "dead")
  /\ UNCHANGED <<queueVars, item, counters, loopVars, history>>

\* The event's transaction commits.
IngestOk(t) ==
  /\ Goto(t, "ingest", "ok")
  /\ committed' = committed \cup {item[t]}
  /\ UNCHANGED <<queueVars, item, counters, loopVars,
                 accepted, shed, spoiled>>

\* Faults: a failed event is put back; a failed ingest ends the worker.
IngestFailsRequeues(t) ==
  /\ Goto(t, "ingest", "err")
  /\ spoiled' = spoiled \cup {item[t]}
  /\ Put(item[t])
  /\ UNCHANGED <<item, counters, loopVars, accepted, shed, committed>>
IngestFailsFatally(t) ==
  /\ Goto(t, "ingest", "dead")
  /\ spoiled' = spoiled \cup {item[t]}
  /\ UNCHANGED <<queueVars, item, counters, loopVars,
                 accepted, shed, committed>>

\* Validation, the connection or the transaction raised.
IngestFails(t) ==
  /\ Goto(t, "ingest", "err")
  /\ spoiled' = spoiled \cup {item[t]}
  /\ UNCHANGED <<queueVars, item, counters, loopVars,
                 accepted, shed, committed>>

CountOk(t) ==
  /\ Goto(t, "ok", "ack")
  /\ processed' = processed + 1
  /\ UNCHANGED <<queueVars, item, failed, dropped, loopVars, history>>

\* Fault: a failure is not counted.
CountFailedNot(t) ==
  /\ Goto(t, "err", "ack")
  /\ UNCHANGED <<queueVars, item, counters, loopVars, history>>

CountFailed(t) ==
  /\ Goto(t, "err", "ack")
  /\ failed' = failed + 1
  /\ UNCHANGED <<queueVars, item, processed, dropped, loopVars, history>>

\* Fault: no task_done after the ingest.
AcknowledgeNot(t) ==
  /\ Goto(t, "ack", "get")
  /\ item' = [item EXCEPT ![t] = Nothing]
  /\ UNCHANGED <<queueVars, counters, loopVars, history>>

\* The finally clause: task_done().
Acknowledge(t) ==
  /\ Goto(t, "ack", "get")
  /\ item' = [item EXCEPT ![t] = Nothing]
  /\ unfinished' = unfinished - 1
  /\ UNCHANGED <<q, counters, loopVars, history>>

Worker(t) ==
  \/ Take(t) \/ TakeSentinel(t) \/ TimeOut(t)
  \/ IngestOk(t) \/ IngestFails(t)
  \/ CountOk(t) \/ CountFailed(t) \/ Acknowledge(t)

-----------------------------------------------------------------------------
\* The process is killed: the queue, its threads and its counters are gone,
\* what was committed stays.
Crash ==
  /\ MayCrash
  /\ loop # "down"
  /\ q' = <<>> /\ unfinished' = 0
  /\ handles' = {} /\ stopping' = FALSE
  /\ pc' = [t \in Threads |-> "dead"]
  /\ item' = [t \in Threads |-> Nothing]
  /\ loop' = "down" /\ toWake' = 0
  /\ UNCHANGED <<starts, counters, accepted, shed, committed, spoiled>>

Lifespan ==
  BeginDrain \/ QueueJoined \/ Wake \/ AllWoken \/ ThreadsJoined

Next ==
  \/ Boot \/ Reopen \/ Lifespan \/ Crash
  \/ \E e \in Events : SubmitAccepted(e) \/ SubmitShed(e)
  \/ \E t \in Threads : Worker(t)

\* Threads are scheduled, a transaction ends one way or the other, and the
\* event loop carries a shutdown on once it has begun.  Nothing obliges
\* producers to submit or anyone to start or stop the gateway.
Fairness ==
  /\ \A t \in Threads : WF_vars(Worker(t))
  /\ WF_vars(QueueJoined \/ Wake \/ AllWoken \/ ThreadsJoined)

Spec == Init /\ [][Next]_vars

FairSpec == Spec /\ Fairness

-----------------------------------------------------------------------------
Positions == {"dead", "get", "ingest", "ok", "err", "ack"}
Phases == {"down", "serving", "joining", "waking", "threads"}

TypeOK ==
  /\ q \in Seq(Events \cup {Sentinel})
  /\ unfinished \in Int
  /\ handles \subseteq Threads
  /\ pc \in [Threads -> Positions]
  /\ item \in [Threads -> Events \cup {Nothing}]
  /\ stopping \in BOOLEAN
  /\ processed \in Nat /\ failed \in Nat /\ dropped \in Nat
  /\ loop \in Phases
  /\ toWake \in Nat
  /\ starts \in Nat
  /\ accepted \subseteq Events /\ shed \subseteq Events
  /\ committed \subseteq Events /\ spoiled \subseteq Events

ShedCounted == dropped = Cardinality(shed)

(* Every accepted event is waiting, in a worker's hands or settled: none     *)
(* falls between the queue and the database while the process lives; and     *)
(* every one that was not accepted is in the count of the dropped.           *)
NoneLost ==
  /\ loop # "down" => accepted = (Waiting \ {Sentinel}) \cup InHand \cup Settled
  /\ ShedCounted

(* ... and in only one of those places, with one worker, with one outcome:   *)
(* no event is ingested twice or counted as both processed and failed.       *)
NoneTwice ==
  /\ \A i, j \in DOMAIN q : q[i] = q[j] /\ q[i] # Sentinel => i = j
  /\ \A s, t \in At({"ingest"}) : item[s] = item[t] => s = t
  /\ Waiting \cap InHand = {}
  /\ (Waiting \cup InHand) \cap Settled = {}
  /\ committed \cap spoiled = {}

(* join() waits for exactly the work there is: the unfinished count is the   *)
(* items waiting plus the workers that have not acknowledged theirs.         *)
JoinCountExact == unfinished = Len(q) + Cardinality(Busy)

\* The process that accepted the events still has its queue.
Up == loop # "down" \/ stopping

(* Why a drain leaves nothing behind, as an inductive invariant: while the    *)
(* process lives every accepted event is in one of its places and counted    *)
(* once settled, join() counts the work exactly, and once it has returned    *)
(* there is none.                                                            *)
Tally ==
  Up => /\ accepted = (Waiting \ {Sentinel}) \cup InHand \cup Settled
        /\ processed + failed + Cardinality(At({"ok", "err"}))
             = Cardinality(Settled)
Idle == Busy = {} /\ Waiting \subseteq {Sentinel}

QueueInv ==
  /\ TypeOK
  /\ IsFiniteSet(Settled)
  /\ \A t \in At({"ingest"}) : item[t] \in Events
  /\ JoinCountExact
  /\ NoneTwice
  /\ Tally
  /\ loop \in {"waking", "threads", "down"} => Idle
  /\ loop \in {"waking", "threads"} => stopping

(* "Finish what is queued, then stop": once join() has returned, every       *)
(* accepted event is settled and the counters say so.                        *)
DrainedBeforeStopping ==
  loop \in {"waking", "threads"} =>
    /\ accepted = Settled
    /\ processed + failed = Cardinality(accepted)

(* An event answered 201 is written or counted as failed in the end.         *)
AcceptedSettles == \A e \in Events : e \in accepted ~> e \in Settled

(* A shutdown that has begun ends, and leaves no worker running.             *)
ShutdownEnds == loop = "joining" ~> loop = "down" /\ \A t \in Threads : pc[t] = "dead"

(* The queue implements the promise of Intake.                               *)
Promise == INSTANCE Intake WITH
  Capacity <- MaxSize,
  Hands <- WorkerCount,
  phase <- IF loop \in {"joining", "waking", "threads"} THEN "draining" ELSE loop,
  pending <- accepted \ Settled,
  settled <- Settled

ImplementsIntake == Promise!Spec

=============================================================================
