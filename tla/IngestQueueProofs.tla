------------------------- MODULE IngestQueueProofs -------------------------
(***************************************************************************)
(* The ingest queue loses nothing while its process lives, for any number of *)
(* events, threads, workers and starts and any queue size: QueueInv is       *)
(* inductive, and a drain that has got past join() has settled and counted   *)
(* every accepted event.  In one life of its process the queue keeps what    *)
(* Intake promises, step by step.                                            *)
(***************************************************************************)
EXTENDS IngestQueue, FiniteSetTheorems, TLAPS

-----------------------------------------------------------------------------
(* Sequences as sets of waiting items.                                     *)

Elements(s) == {s[i] : i \in DOMAIN s}
NoRepeats(s) == \A i, j \in DOMAIN s : s[i] = s[j] /\ s[i] # Sentinel => i = j

LEMMA PutElements ==
  ASSUME NEW S, NEW s \in Seq(S), NEW x \in S
  PROVE  /\ Append(s, x) \in Seq(S)
         /\ Len(Append(s, x)) = Len(s) + 1
         /\ Elements(Append(s, x)) = Elements(s) \cup {x}
         /\ NoRepeats(s) /\ (x = Sentinel \/ x \notin Elements(s))
              => NoRepeats(Append(s, x))
<1>1. /\ Append(s, x) \in Seq(S)
      /\ DOMAIN s = 1..Len(s) /\ Len(s) \in Nat
      /\ DOMAIN Append(s, x) = 1..(Len(s) + 1)
      /\ Len(Append(s, x)) = Len(s) + 1
      /\ \A i \in 1..Len(s) : Append(s, x)[i] = s[i]
      /\ Append(s, x)[Len(s) + 1] = x
  OBVIOUS
<1>2. Elements(Append(s, x)) = Elements(s) \cup {x}
  BY <1>1 DEF Elements
<1>3. ASSUME NoRepeats(s), x = Sentinel \/ x \notin Elements(s)
      PROVE  NoRepeats(Append(s, x))
  BY <1>1, <1>3 DEF NoRepeats, Elements
<1> QED
  BY <1>1, <1>2, <1>3

LEMMA GetElements ==
  ASSUME NEW S, NEW s \in Seq(S), s # <<>>
  PROVE  /\ Head(s) \in S
         /\ Tail(s) \in Seq(S)
         /\ Len(Tail(s)) = Len(s) - 1
         /\ Elements(s) = {Head(s)} \cup Elements(Tail(s))
         /\ NoRepeats(s) =>
              /\ NoRepeats(Tail(s))
              /\ Head(s) # Sentinel => Head(s) \notin Elements(Tail(s))
<1>1. /\ Tail(s) \in Seq(S)
      /\ Len(s) \in Nat /\ Len(s) >= 1
      /\ DOMAIN s = 1..Len(s)
      /\ DOMAIN Tail(s) = 1..(Len(s) - 1)
      /\ Len(Tail(s)) = Len(s) - 1
      /\ \A i \in 1..(Len(s) - 1) : Tail(s)[i] = s[i + 1]
      /\ Head(s) = s[1]
      /\ Head(s) \in S
  OBVIOUS
<1>2. Elements(s) = {Head(s)} \cup Elements(Tail(s))
  <2>1. ASSUME NEW i \in 1..Len(s)
        PROVE  s[i] \in {Head(s)} \cup Elements(Tail(s))
    <3>1. CASE i = 1
      BY <1>1, <3>1
    <3>2. CASE i # 1
      <4>1. i - 1 \in 1..(Len(s) - 1) /\ Tail(s)[i - 1] = s[i]
        BY <1>1, <3>2
      <4> QED
        BY <1>1, <4>1 DEF Elements
    <3> QED
      BY <3>1, <3>2
  <2>2. ASSUME NEW i \in 1..(Len(s) - 1)
        PROVE  Tail(s)[i] \in Elements(s)
    BY <1>1 DEF Elements
  <2>3. Head(s) \in Elements(s)
    BY <1>1 DEF Elements
  <2> QED
    BY <1>1, <2>1, <2>2, <2>3 DEF Elements
<1>3. ASSUME NoRepeats(s)
      PROVE  /\ NoRepeats(Tail(s))
             /\ Head(s) # Sentinel => Head(s) \notin Elements(Tail(s))
  <2>1. ASSUME NEW i \in 1..(Len(s) - 1), NEW j \in 1..(Len(s) - 1),
               Tail(s)[i] = Tail(s)[j], Tail(s)[i] # Sentinel
        PROVE  i = j
    <3>1. /\ s[i + 1] = s[j + 1] /\ s[i + 1] # Sentinel
          /\ i + 1 \in 1..Len(s) /\ j + 1 \in 1..Len(s)
      BY <1>1, <2>1
    <3> QED
      BY <1>1, <1>3, <3>1 DEF NoRepeats
  <2>2. ASSUME Head(s) # Sentinel, NEW i \in 1..(Len(s) - 1), Tail(s)[i] = Head(s)
        PROVE  FALSE
    <3>1. /\ s[1] = s[i + 1] /\ s[1] # Sentinel
          /\ i + 1 \in 1..Len(s) /\ 1 \in 1..Len(s)
      BY <1>1, <2>2
    <3>2. 1 = i + 1
      BY <1>1, <1>3, <3>1 DEF NoRepeats
    <3> QED
      BY <3>2
  <2> QED
    BY <1>1, <2>1, <2>2 DEF NoRepeats, Elements
<1> QED
  BY <1>1, <1>2, <1>3

-----------------------------------------------------------------------------
(* Counting the threads at a position as one of them moves.                *)

LEMMA AtFinite ==
  ASSUME NEW P
  PROVE  IsFiniteSet(At(P)) /\ Cardinality(At(P)) \in Nat
<1>1. At(P) \subseteq Threads /\ IsFiniteSet(Threads)
  BY QueueAssumption DEF At
<1> QED
  BY <1>1, FS_Subset, FS_CardinalityType

LEMMA Leaves ==
  ASSUME pc \in [Threads -> Positions], NEW t \in Threads, NEW P,
         NEW from \in P, NEW to \in Positions \ P, Goto(t, from, to)
  PROVE  /\ t \in At(P)
         /\ At(P)' = At(P) \ {t}
         /\ Cardinality(At(P)') = Cardinality(At(P)) - 1
<1>1. t \in At(P) /\ At(P)' = At(P) \ {t}
  BY DEF Goto, At
<1> QED
  BY <1>1, AtFinite, FS_RemoveElement

LEMMA Enters ==
  ASSUME pc \in [Threads -> Positions], NEW t \in Threads, NEW P,
         NEW from \in Positions \ P, NEW to \in P, Goto(t, from, to)
  PROVE  /\ t \notin At(P)
         /\ At(P)' = At(P) \cup {t}
         /\ Cardinality(At(P)') = Cardinality(At(P)) + 1
<1>1. t \notin At(P) /\ At(P)' = At(P) \cup {t}
  BY DEF Goto, At
<1> QED
  BY <1>1, AtFinite, FS_AddElement

LEMMA Stays ==
  ASSUME pc \in [Threads -> Positions], NEW t \in Threads, NEW P,
         NEW from, NEW to, from \in P <=> to \in P, Goto(t, from, to)
  PROVE  At(P)' = At(P)
  BY DEF Goto, At

-----------------------------------------------------------------------------
(* The invariant, action by action.                                        *)

LEMMA InitQueueInv == Init => QueueInv
<1> SUFFICES ASSUME Init PROVE QueueInv
  OBVIOUS
<1>1. At({"ingest"}) = {} /\ At({"ok", "err"}) = {} /\ Busy = {}
  BY DEF Init, At, Busy
<1>2. Waiting = {} /\ InHand = {} /\ Settled = {} /\ Len(q) = 0 /\ DOMAIN q = {}
  BY <1>1 DEF Init, Waiting, InHand, Settled
<1>3. Cardinality({}) = 0 /\ IsFiniteSet({})
  BY FS_EmptySet
<1>4. TypeOK
  <2>1. q \in Seq(Events \cup {Sentinel})
    BY DEF Init
  <2>2. pc \in [Threads -> Positions] /\ item \in [Threads -> Events \cup {Nothing}]
    BY DEF Init, Positions
  <2>3. /\ unfinished = 0 /\ processed = 0 /\ failed = 0 /\ dropped = 0
        /\ toWake = 0 /\ starts = 0
    BY DEF Init
  <2>4. /\ handles \subseteq Threads /\ stopping \in BOOLEAN
        /\ accepted \subseteq Events /\ shed \subseteq Events
        /\ committed \subseteq Events /\ spoiled \subseteq Events
    BY Zenon DEF Init
  <2>5. loop \in Phases
    BY DEF Init, Phases
  <2> QED
    BY <2>1, <2>2, <2>3, <2>4, <2>5 DEF TypeOK
<1> QED
  BY <1>1, <1>2, <1>3, <1>4
  DEF Init, QueueInv, JoinCountExact, NoneTwice, Tally, Idle, Up

\* Actions of the event loop that touch neither queue nor workers.
LEMMA LoopStep ==
  ASSUME QueueInv, UNCHANGED <<q, unfinished, pc, item, processed, failed, accepted,
                               committed, spoiled>>,
         TypeOK', Up' => Up,
         loop' \in {"waking", "threads", "down"} => Idle,
         loop' \in {"waking", "threads"} => stopping'
  PROVE  QueueInv'
<1>1. /\ Waiting' = Waiting /\ InHand' = InHand /\ Settled' = Settled
      /\ Busy' = Busy /\ At({"ingest"})' = At({"ingest"})
      /\ At({"ok", "err"})' = At({"ok", "err"})
  BY DEF Waiting, InHand, Settled, Busy, At
<1> QED
  BY <1>1 DEF QueueInv, JoinCountExact, NoneTwice, Tally, Idle

LEMMA BeginDrainInv == ASSUME QueueInv, BeginDrain PROVE QueueInv'
<1>1. TypeOK'
  BY DEF QueueInv, TypeOK, BeginDrain, queueVars, workerVars, counters, history, Phases
<1> QED
  BY <1>1, LoopStep
  DEF BeginDrain, queueVars, workerVars, counters, history, Up

LEMMA AllWokenInv == ASSUME QueueInv, AllWoken PROVE QueueInv'
<1>1. TypeOK'
  BY DEF QueueInv, TypeOK, AllWoken, queueVars, workerVars, counters, history, Phases
<1> QED
  BY <1>1, LoopStep
  DEF QueueInv, AllWoken, queueVars, workerVars, counters, history, Up

LEMMA ThreadsJoinedInv == ASSUME QueueInv, ThreadsJoined PROVE QueueInv'
<1>1. TypeOK'
  BY DEF QueueInv, TypeOK, ThreadsJoined, queueVars, workerVars, counters, history, Phases
<1> QED
  BY <1>1, LoopStep
  DEF QueueInv, ThreadsJoined, queueVars, workerVars, counters, history, Up

LEMMA SubmitShedInv ==
  ASSUME QueueInv, NEW e \in Events, SubmitShed(e) PROVE QueueInv'
<1>1. TypeOK'
  BY DEF QueueInv, TypeOK, SubmitShed, queueVars, workerVars, loopVars
<1> QED
  BY <1>1, LoopStep
  DEF QueueInv, SubmitShed, queueVars, workerVars, loopVars, Up

\* join() returns only when nothing is waiting and no worker is busy.
LEMMA QueueJoinedInv == ASSUME QueueInv, QueueJoined PROVE QueueInv'
<1>1. Cardinality(handles) \in Nat
  <2>1. handles \subseteq Threads /\ IsFiniteSet(Threads)
    BY QueueAssumption DEF QueueInv, TypeOK
  <2> QED
    BY <2>1, FS_Subset, FS_CardinalityType
<1>2. TypeOK'
  BY <1>1 DEF QueueInv, TypeOK, QueueJoined, queueVars, workerVars, counters, history,
              Phases
<1>3. IsFiniteSet(Busy) /\ Cardinality(Busy) \in Nat
  BY AtFinite DEF Busy
<1>4. Len(q) \in Nat /\ q \in Seq(Events \cup {Sentinel})
  BY DEF QueueInv, TypeOK
<1>5. Len(q) = 0 /\ Cardinality(Busy) = 0
  BY <1>3, <1>4 DEF QueueInv, JoinCountExact, QueueJoined
<1>6. Idle
  BY <1>3, <1>4, <1>5, FS_EmptySet DEF Idle, Waiting
<1> QED
  BY <1>2, <1>6, LoopStep
  DEF QueueJoined, queueVars, workerVars, counters, history, Up

\* A submitted event waits at the end of the queue.
LEMMA SubmitAcceptedInv ==
  ASSUME QueueInv, NEW e \in Events, SubmitAccepted(e) PROVE QueueInv'
<1>1. /\ q' = Append(q, e) /\ unfinished' = unfinished + 1
      /\ UNCHANGED <<pc, item, processed, failed, committed, spoiled, loop, stopping>>
      /\ accepted' = accepted \cup {e}
      /\ loop = "serving" /\ e \notin accepted
  BY DEF SubmitAccepted, Put, workerVars, counters, loopVars
<1>2. q \in Seq(Events \cup {Sentinel}) /\ e # Sentinel
  BY QueueAssumption DEF QueueInv, TypeOK
<1>3. Waiting = Elements(q) /\ Waiting' = Elements(q')
  BY DEF Waiting, Elements
<1>4. /\ InHand' = InHand /\ Settled' = Settled
      /\ Busy' = Busy /\ At({"ingest"})' = At({"ingest"})
      /\ At({"ok", "err"})' = At({"ok", "err"})
  BY <1>1 DEF InHand, Settled, Busy, At
<1>5. accepted = (Waiting \ {Sentinel}) \cup InHand \cup Settled
  BY <1>1 DEF QueueInv, Tally, Up
<1>6. e \notin Waiting /\ e \notin InHand /\ e \notin Settled
  BY <1>1, <1>2, <1>5
<1>7. /\ q' \in Seq(Events \cup {Sentinel})
      /\ Len(q') = Len(q) + 1
      /\ Waiting' = Waiting \cup {e}
      /\ NoRepeats(q) => NoRepeats(q')
  BY <1>1, <1>2, <1>3, <1>6, PutElements
<1>8. TypeOK'
  BY <1>1, <1>7 DEF QueueInv, TypeOK, SubmitAccepted, counters, loopVars
<1>9. NoneTwice'
  <2>1. NoneTwice /\ NoRepeats(q)
    BY DEF QueueInv, NoneTwice, NoRepeats
  <2> QED
    BY <1>1, <1>4, <1>6, <1>7, <2>1 DEF NoneTwice, NoRepeats
<1>10. JoinCountExact'
  <2>1. Len(q) \in Nat /\ Cardinality(Busy) \in Nat
    BY <1>2, AtFinite DEF Busy
  <2> QED
    BY <1>1, <1>4, <1>7, <2>1 DEF QueueInv, JoinCountExact
<1>11. Tally'
  BY <1>1, <1>2, <1>4, <1>5, <1>7 DEF QueueInv, Tally, Up
<1> QED
  BY <1>1, <1>4, <1>8, <1>9, <1>10, <1>11 DEF QueueInv

\* A sentinel waits like an event but counts for nothing.
LEMMA WakeInv == ASSUME QueueInv, Wake PROVE QueueInv'
<1>1. /\ UNCHANGED <<pc, item, processed, failed, accepted, committed, spoiled, loop,
                     stopping>>
      /\ loop = "waking"
  BY DEF Wake, workerVars, counters, history
<1>2. CASE Full
  <2>1. UNCHANGED <<q, unfinished>>
    BY <1>2 DEF Wake, queueVars
  <2>2. TypeOK'
    BY <1>1, <2>1 DEF QueueInv, TypeOK, Wake, counters, history
  <2> QED
    BY <1>1, <2>1, <2>2, LoopStep DEF QueueInv, Up
<1>3. CASE ~Full
  <2>1. q' = Append(q, Sentinel) /\ unfinished' = unfinished + 1
    BY <1>3 DEF Wake, Put
  <2>2. q \in Seq(Events \cup {Sentinel})
    BY DEF QueueInv, TypeOK
  <2>3. Waiting = Elements(q) /\ Waiting' = Elements(q')
    BY DEF Waiting, Elements
  <2>4. /\ InHand' = InHand /\ Settled' = Settled
        /\ Busy' = Busy /\ At({"ingest"})' = At({"ingest"})
        /\ At({"ok", "err"})' = At({"ok", "err"})
    BY <1>1 DEF InHand, Settled, Busy, At
  <2>5. /\ q' \in Seq(Events \cup {Sentinel})
        /\ Len(q') = Len(q) + 1
        /\ Waiting' = Waiting \cup {Sentinel}
        /\ NoRepeats(q) => NoRepeats(q')
    BY <2>1, <2>2, <2>3, PutElements
  <2>6. TypeOK'
    BY <1>1, <2>1, <2>5 DEF QueueInv, TypeOK, Wake, counters, history
  <2>7. InHand \subseteq Events /\ Settled \subseteq Events /\ Sentinel \notin Events
    BY QueueAssumption DEF QueueInv, TypeOK, InHand, At, Settled
  <2>8. NoneTwice'
    <3>1. NoneTwice /\ NoRepeats(q)
      BY DEF QueueInv, NoneTwice, NoRepeats
    <3> QED
      BY <1>1, <2>4, <2>5, <2>7, <3>1 DEF NoneTwice, NoRepeats
  <2>9. JoinCountExact'
    <3>1. Len(q) \in Nat /\ Cardinality(Busy) \in Nat
      BY <2>2, AtFinite DEF Busy
    <3> QED
      BY <2>1, <2>4, <2>5, <3>1 DEF QueueInv, JoinCountExact
  <2>10. Tally'
    BY <1>1, <2>4, <2>5 DEF QueueInv, Tally, Up
  <2>11. Idle'
    BY <1>1, <2>4, <2>5 DEF QueueInv, Idle
  <2> QED
    BY <1>1, <2>4, <2>6, <2>8, <2>9, <2>10, <2>11 DEF QueueInv
<1> QED
  BY <1>2, <1>3

\* A fresh process has nothing waiting, nothing in hand and nothing settled.
LEMMA BootInv == ASSUME QueueInv, Boot PROVE QueueInv'
<1>1. PICK fresh \in SUBSET Threads :
        /\ handles' = fresh
        /\ pc' = [t \in Threads |-> IF t \in fresh THEN "get" ELSE "dead"]
        /\ stopping' = FALSE /\ loop' = "serving" /\ starts' = starts + 1
  BY DEF Boot, StartWorkers
<1>2. /\ q' = <<>> /\ unfinished' = 0
      /\ processed' = 0 /\ failed' = 0 /\ dropped' = 0
      /\ accepted' = {} /\ shed' = {} /\ committed' = {} /\ spoiled' = {}
      /\ UNCHANGED <<item, toWake>>
  BY DEF Boot
<1>3. At({"ingest"})' = {} /\ At({"ok", "err"})' = {} /\ Busy' = {}
  BY <1>1 DEF At, Busy
<1>4. /\ Waiting' = {} /\ InHand' = {} /\ Settled' = {}
      /\ Len(q') = 0 /\ DOMAIN q' = {} /\ q' \in Seq(Events \cup {Sentinel})
  BY <1>2, <1>3 DEF Waiting, InHand, Settled
<1>5. Cardinality({}) = 0 /\ IsFiniteSet({})
  BY FS_EmptySet
<1>6. TypeOK'
  <2>1. pc' \in [Threads -> Positions]
    BY <1>1 DEF Positions
  <2>2. stopping' \in BOOLEAN
    BY <1>1, Zenon
  <2>3. starts' \in Nat /\ loop' \in Phases
    BY <1>1 DEF QueueInv, TypeOK, Phases
  <2>4. /\ unfinished' \in Int /\ processed' \in Nat /\ failed' \in Nat /\ dropped' \in Nat
    BY <1>2
  <2> QED
    BY <1>1, <1>2, <1>4, <2>1, <2>2, <2>3, <2>4 DEF QueueInv, TypeOK
<1>7. NoneTwice'
  BY <1>2, <1>3, <1>4 DEF NoneTwice
<1>8. JoinCountExact' /\ Tally'
  <2>1. unfinished' = 0 /\ Len(q') = 0 /\ Cardinality(Busy') = 0
    BY <1>2, <1>3, <1>4, <1>5
  <2>2. /\ accepted' = {} /\ processed' = 0 /\ failed' = 0
        /\ Cardinality(At({"ok", "err"})') = 0 /\ Cardinality(Settled') = 0
    BY <1>2, <1>3, <1>4, <1>5
  <2> QED
    BY <1>4, <2>1, <2>2 DEF JoinCountExact, Tally
<1>9. \A t \in At({"ingest"})' : item'[t] \in Events
  BY <1>3
<1>10. loop' \notin {"waking", "threads", "down"}
  BY <1>1
<1> QED
  BY <1>4, <1>5, <1>6, <1>7, <1>8, <1>9, <1>10 DEF QueueInv

\* New workers hold nothing; what the drained queue left is unchanged.
LEMMA ReopenInv == ASSUME QueueInv, Reopen PROVE QueueInv'
<1>1. PICK fresh \in SUBSET Threads :
        /\ handles' = fresh
        /\ pc' = [t \in Threads |-> IF t \in fresh THEN "get" ELSE pc[t]]
        /\ stopping' = FALSE /\ loop' = "serving" /\ starts' = starts + 1
  BY DEF Reopen, StartWorkers
<1>2. /\ UNCHANGED <<q, unfinished, item, processed, failed, dropped, toWake,
                     accepted, shed, committed, spoiled>>
      /\ loop = "down" /\ stopping
  BY DEF Reopen, queueVars, counters, history
<1>3. Busy = {} /\ Busy' = {}
  <2>1. Busy = {}
    BY <1>2 DEF QueueInv, Idle
  <2> QED
    BY <1>1, <2>1 DEF Busy, At
<1>4. /\ At({"ingest"}) = {} /\ At({"ingest"})' = {}
      /\ At({"ok", "err"}) = {} /\ At({"ok", "err"})' = {}
  BY <1>3 DEF At, Busy
<1>5. Waiting' = Waiting /\ InHand = {} /\ InHand' = {} /\ Settled' = Settled
  BY <1>2, <1>4 DEF Waiting, InHand, Settled
<1>6. TypeOK'
  <2>1. pc' \in [Threads -> Positions]
    BY <1>1 DEF QueueInv, TypeOK, Positions
  <2>2. stopping' \in BOOLEAN
    BY <1>1, Zenon
  <2>3. starts' \in Nat /\ loop' \in Phases
    BY <1>1 DEF QueueInv, TypeOK, Phases
  <2> QED
    BY <1>1, <1>2, <2>1, <2>2, <2>3 DEF QueueInv, TypeOK
<1>7. NoneTwice'
  BY <1>2, <1>4, <1>5 DEF QueueInv, NoneTwice
<1>8. JoinCountExact' /\ Tally'
  BY <1>2, <1>3, <1>4, <1>5 DEF QueueInv, JoinCountExact, Tally, Up
<1>9. IsFiniteSet(Settled')
  BY <1>5 DEF QueueInv
<1>10. \A t \in At({"ingest"})' : item'[t] \in Events
  BY <1>4
<1>11. loop' \notin {"waking", "threads", "down"}
  BY <1>1
<1> QED
  BY <1>6, <1>7, <1>8, <1>9, <1>10, <1>11 DEF QueueInv

\* The head of the queue moves into the worker's hands.
LEMMA TakeInv == ASSUME QueueInv, NEW t \in Threads, Take(t) PROVE QueueInv'
<1>1. /\ q # <<>> /\ Head(q) # Sentinel /\ q' = Tail(q)
      /\ Goto(t, "get", "ingest") /\ item' = [item EXCEPT ![t] = Head(q)]
      /\ UNCHANGED <<unfinished, processed, failed, dropped, loop, toWake, starts,
                     handles, stopping, accepted, shed, committed, spoiled>>
  BY DEF Take, counters, loopVars, history
<1>2. /\ q \in Seq(Events \cup {Sentinel}) /\ pc \in [Threads -> Positions]
      /\ item \in [Threads -> Events \cup {Nothing}]
      /\ Waiting = Elements(q) /\ Waiting' = Elements(q')
  BY DEF QueueInv, TypeOK, Waiting, Elements
<1>3. /\ Head(q) \in Events /\ q' \in Seq(Events \cup {Sentinel})
      /\ Len(q') = Len(q) - 1 /\ Waiting = {Head(q)} \cup Waiting'
      /\ NoRepeats(q) => NoRepeats(q') /\ Head(q) \notin Waiting'
  BY <1>1, <1>2, GetElements
<1>4. /\ t \notin At({"ingest"}) /\ At({"ingest"})' = At({"ingest"}) \cup {t}
  BY <1>1, <1>2, Enters DEF Positions
<1>5. At({"ok", "err"})' = At({"ok", "err"})
  BY <1>1, <1>2, Stays
<1>6. Cardinality(Busy') = Cardinality(Busy) + 1
  BY <1>1, <1>2, Enters DEF Positions, Busy
<1>7. /\ item'[t] = Head(q)
      /\ \A s \in At({"ingest"}) : item'[s] = item[s]
  BY <1>1, <1>2, <1>4 DEF At
<1>8. InHand' = InHand \cup {Head(q)}
  BY <1>4, <1>7 DEF InHand
<1>9. Settled' = Settled
  BY <1>1 DEF Settled
<1>10. TypeOK'
  <2>1. pc' \in [Threads -> Positions]
    BY <1>1, <1>2 DEF Goto, Positions
  <2>2. item' \in [Threads -> Events \cup {Nothing}]
    BY <1>1, <1>2, <1>3
  <2> QED
    BY <1>1, <1>3, <2>1, <2>2 DEF QueueInv, TypeOK
<1>11. NoneTwice /\ NoRepeats(q) /\ NoRepeats(q') /\ Head(q) \notin Waiting'
  BY <1>3 DEF QueueInv, NoneTwice, NoRepeats
<1>12. NoneTwice'
  <2>1. ASSUME NEW s \in At({"ingest"})', NEW r \in At({"ingest"})', item'[s] = item'[r]
        PROVE  s = r
    <3>1. \A u \in At({"ingest"}) : item[u] # Head(q)
      BY <1>3, <1>11 DEF NoneTwice, InHand
    <3> QED
      BY <1>4, <1>7, <1>11, <2>1, <3>1 DEF NoneTwice
  <2>2. Waiting' \cap InHand' = {} /\ (Waiting' \cup InHand') \cap Settled' = {}
    BY <1>3, <1>8, <1>9, <1>11 DEF NoneTwice
  <2> QED
    BY <1>1, <1>11, <2>1, <2>2 DEF NoneTwice, NoRepeats
<1>13. JoinCountExact'
  <2>1. Len(q) \in Nat /\ Cardinality(Busy) \in Nat
    BY <1>2, AtFinite DEF Busy
  <2> QED
    BY <1>1, <1>3, <1>6, <2>1 DEF QueueInv, JoinCountExact
<1>14. Tally'
  BY <1>1, <1>3, <1>5, <1>8, <1>9 DEF QueueInv, Tally, Up
<1>15. loop \notin {"waking", "threads", "down"}
  BY <1>1, <1>3 DEF QueueInv, Idle
<1>16. \A s \in At({"ingest"})' : item'[s] \in Events
  BY <1>3, <1>4, <1>7 DEF QueueInv
<1> QED
  BY <1>1, <1>9, <1>10, <1>12, <1>13, <1>14, <1>15, <1>16 DEF QueueInv

\* A sentinel leaves the queue and its worker ends.
LEMMA TakeSentinelInv ==
  ASSUME QueueInv, NEW t \in Threads, TakeSentinel(t) PROVE QueueInv'
<1>1. /\ q # <<>> /\ Head(q) = Sentinel /\ q' = Tail(q)
      /\ unfinished' = unfinished - 1 /\ Goto(t, "get", "dead")
      /\ UNCHANGED <<item, processed, failed, dropped, loop, toWake, starts,
                     handles, stopping, accepted, shed, committed, spoiled>>
  BY DEF TakeSentinel, counters, loopVars, history
<1>2. /\ q \in Seq(Events \cup {Sentinel}) /\ pc \in [Threads -> Positions]
      /\ Waiting = Elements(q) /\ Waiting' = Elements(q')
  BY DEF QueueInv, TypeOK, Waiting, Elements
<1>3. /\ q' \in Seq(Events \cup {Sentinel})
      /\ Len(q') = Len(q) - 1 /\ Waiting = {Sentinel} \cup Waiting'
      /\ NoRepeats(q) => NoRepeats(q')
  BY <1>1, <1>2, GetElements
<1>4. /\ At({"ingest"})' = At({"ingest"}) /\ At({"ok", "err"})' = At({"ok", "err"})
      /\ Busy' = Busy
  BY <1>1, <1>2, Stays DEF Busy
<1>5. InHand' = InHand /\ Settled' = Settled
  BY <1>1, <1>4 DEF InHand, Settled
<1>6. TypeOK'
  <2>1. pc' \in [Threads -> Positions]
    BY <1>1, <1>2 DEF Goto, Positions
  <2>2. unfinished' \in Int
    BY <1>1 DEF QueueInv, TypeOK
  <2> QED
    BY <1>1, <1>3, <2>1, <2>2 DEF QueueInv, TypeOK
<1>7. NoneTwice'
  <2>1. NoneTwice /\ NoRepeats(q)
    BY DEF QueueInv, NoneTwice, NoRepeats
  <2> QED
    BY <1>1, <1>3, <1>4, <1>5, <2>1 DEF NoneTwice, NoRepeats
<1>8. JoinCountExact'
  <2>1. Len(q) \in Nat /\ Cardinality(Busy) \in Nat
    BY <1>2, AtFinite DEF Busy
  <2> QED
    BY <1>1, <1>3, <1>4, <2>1 DEF QueueInv, JoinCountExact
<1>9. Tally'
  BY <1>1, <1>3, <1>4, <1>5 DEF QueueInv, Tally, Up
<1>10. Idle => Idle'
  BY <1>3, <1>4 DEF Idle
<1> QED
  BY <1>1, <1>4, <1>5, <1>6, <1>7, <1>8, <1>9, <1>10 DEF QueueInv

\* An idle worker ends when the queue stays empty after the stop flag.
LEMMA TimeOutInv ==
  ASSUME QueueInv, NEW t \in Threads, TimeOut(t) PROVE QueueInv'
<1>1. /\ Goto(t, "get", "dead")
      /\ UNCHANGED <<q, unfinished, item, processed, failed, dropped, loop, toWake,
                     starts, handles, stopping, accepted, shed, committed, spoiled>>
  BY DEF TimeOut, queueVars, counters, loopVars, history
<1>2. pc \in [Threads -> Positions]
  BY DEF QueueInv, TypeOK
<1>3. /\ At({"ingest"})' = At({"ingest"}) /\ At({"ok", "err"})' = At({"ok", "err"})
      /\ Busy' = Busy
  BY <1>1, <1>2, Stays DEF Busy
<1>4. Waiting' = Waiting /\ InHand' = InHand /\ Settled' = Settled
  BY <1>1, <1>3 DEF Waiting, InHand, Settled
<1>5. TypeOK'
  <2>1. pc' \in [Threads -> Positions]
    BY <1>1, <1>2 DEF Goto, Positions
  <2> QED
    BY <1>1, <2>1 DEF QueueInv, TypeOK
<1>6. NoneTwice' /\ JoinCountExact' /\ Tally' /\ (Idle => Idle')
  BY <1>1, <1>3, <1>4 DEF QueueInv, NoneTwice, JoinCountExact, Tally, Up, Idle
<1>7. IsFiniteSet(Settled') /\ \A s \in At({"ingest"})' : item'[s] \in Events
  BY <1>1, <1>3, <1>4 DEF QueueInv
<1> QED
  BY <1>1, <1>5, <1>6, <1>7 DEF QueueInv

\* Settling: the event in hand, which no one else holds and which was not
\* settled before, becomes committed or spoiled.
LEMMA SettleStep ==
  ASSUME QueueInv, NEW t \in Threads, NEW to \in {"ok", "err"}, Goto(t, "ingest", to),
         UNCHANGED <<q, unfinished, item, processed, failed, dropped, loop, toWake,
                     starts, handles, stopping, accepted, shed>>,
         \/ committed' = committed \cup {item[t]} /\ spoiled' = spoiled
         \/ spoiled' = spoiled \cup {item[t]} /\ committed' = committed
  PROVE  QueueInv'
<1> DEFINE e == item[t]
<1>1. pc \in [Threads -> Positions] /\ t \in At({"ingest"}) /\ e \in Events
  BY DEF QueueInv, TypeOK, Goto, At
<1>2. At({"ingest"})' = At({"ingest"}) \ {t}
  BY <1>1, Leaves DEF Positions
<1>3. Cardinality(At({"ok", "err"})') = Cardinality(At({"ok", "err"})) + 1
  <2>1. CASE to = "ok"
    BY <1>1, <2>1, Enters DEF Positions
  <2>2. CASE to = "err"
    BY <1>1, <2>2, Enters DEF Positions
  <2> QED
    BY <2>1, <2>2
<1>4. Busy' = Busy
  BY <1>1, Stays DEF Busy
<1>5. /\ NoneTwice /\ e \in InHand /\ e \notin Settled /\ e \notin Waiting
      /\ \A s \in At({"ingest"}) : s # t => item[s] # e
  BY <1>1 DEF QueueInv, NoneTwice, InHand
<1>6. InHand' = InHand \ {e} /\ Waiting' = Waiting
  BY <1>1, <1>2, <1>5 DEF InHand, Waiting
<1>7. Settled' = Settled \cup {e}
  BY DEF Settled
<1>8. IsFiniteSet(Settled') /\ Cardinality(Settled') = Cardinality(Settled) + 1
  BY <1>5, <1>7, FS_AddElement DEF QueueInv
<1>9. TypeOK'
  <2>1. pc' \in [Threads -> Positions]
    BY <1>1 DEF Goto, Positions
  <2>2. committed' \subseteq Events /\ spoiled' \subseteq Events
    BY <1>1 DEF QueueInv, TypeOK
  <2> QED
    BY <2>1, <2>2 DEF QueueInv, TypeOK
<1>10. NoneTwice'
  <2>1. committed' \cap spoiled' = {}
    BY <1>5 DEF NoneTwice, Settled
  <2>2. \A r, s \in At({"ingest"})' : item'[r] = item'[s] => r = s
    BY <1>2, <1>5 DEF NoneTwice
  <2>3. Waiting' \cap InHand' = {} /\ (Waiting' \cup InHand') \cap Settled' = {}
    BY <1>5, <1>6, <1>7 DEF NoneTwice
  <2>4. \A i, j \in DOMAIN q' : q'[i] = q'[j] /\ q'[i] # Sentinel => i = j
    BY <1>5 DEF NoneTwice
  <2> QED
    BY <2>1, <2>2, <2>3, <2>4 DEF NoneTwice
<1>11. JoinCountExact'
  BY <1>4 DEF QueueInv, JoinCountExact
<1>12. Tally'
  <2>1. Up' => Up
    BY DEF Up
  <2>2. Up => accepted' = (Waiting' \ {Sentinel}) \cup InHand' \cup Settled'
    BY <1>5, <1>6, <1>7 DEF QueueInv, Tally
  <2>3. Cardinality(At({"ok", "err"})) \in Nat /\ Cardinality(Settled) \in Nat
    BY AtFinite, FS_CardinalityType DEF QueueInv
  <2>4. processed \in Nat /\ failed \in Nat /\ processed' = processed /\ failed' = failed
    BY DEF QueueInv, TypeOK
  <2>5. Up => processed + failed + Cardinality(At({"ok", "err"})) = Cardinality(Settled)
    BY DEF QueueInv, Tally
  <2>6. Up => processed' + failed' + Cardinality(At({"ok", "err"})')
                = Cardinality(Settled')
    BY <1>3, <1>8, <2>3, <2>4, <2>5
  <2> QED
    BY <2>1, <2>2, <2>6 DEF Tally
<1>13. loop' \notin {"waking", "threads", "down"}
  BY <1>1 DEF QueueInv, Idle, Busy, At
<1>14. \A s \in At({"ingest"})' : item'[s] \in Events
  BY <1>2 DEF QueueInv
<1> QED
  BY <1>8, <1>9, <1>10, <1>11, <1>12, <1>13, <1>14 DEF QueueInv

\* Counting: a settled event is counted once.
LEMMA CountStep ==
  ASSUME QueueInv, NEW t \in Threads, NEW from \in {"ok", "err"}, Goto(t, from, "ack"),
         UNCHANGED <<q, unfinished, item, dropped, loop, toWake, starts, handles,
                     stopping, accepted, shed, committed, spoiled>>,
         \/ processed' = processed + 1 /\ failed' = failed
         \/ failed' = failed + 1 /\ processed' = processed
  PROVE  QueueInv'
<1>1. pc \in [Threads -> Positions] /\ processed \in Nat /\ failed \in Nat
  BY DEF QueueInv, TypeOK
<1>2. /\ t \in At({"ok", "err"})
      /\ Cardinality(At({"ok", "err"})') = Cardinality(At({"ok", "err"})) - 1
  <2>1. CASE from = "ok"
    BY <1>1, <2>1, Leaves DEF Positions
  <2>2. CASE from = "err"
    BY <1>1, <2>2, Leaves DEF Positions
  <2> QED
    BY <2>1, <2>2
<1>3. At({"ingest"})' = At({"ingest"}) /\ Busy' = Busy
  BY <1>1, Stays DEF Busy
<1>4. Waiting' = Waiting /\ InHand' = InHand /\ Settled' = Settled
  BY <1>3 DEF Waiting, InHand, Settled
<1>5. TypeOK'
  <2>1. pc' \in [Threads -> Positions]
    BY <1>1 DEF Goto, Positions
  <2>2. processed' \in Nat /\ failed' \in Nat
    BY <1>1
  <2> QED
    BY <2>1, <2>2 DEF QueueInv, TypeOK
<1>6. NoneTwice' /\ JoinCountExact'
  BY <1>3, <1>4 DEF QueueInv, NoneTwice, JoinCountExact
<1>7. Tally'
  <2>1. Cardinality(At({"ok", "err"})) \in Nat
    BY AtFinite
  <2>2. Up => processed + failed + Cardinality(At({"ok", "err"})) = Cardinality(Settled)
    BY DEF QueueInv, Tally
  <2>3. Up => processed' + failed' + Cardinality(At({"ok", "err"})')
                = Cardinality(Settled')
    BY <1>1, <1>2, <1>4, <2>1, <2>2
  <2> QED
    BY <1>4, <2>3 DEF QueueInv, Tally, Up
<1>8. loop' \notin {"waking", "threads", "down"}
  BY <1>2 DEF QueueInv, Idle, Busy, At
<1>9. IsFiniteSet(Settled') /\ \A s \in At({"ingest"})' : item'[s] \in Events
  BY <1>3, <1>4 DEF QueueInv
<1> QED
  BY <1>5, <1>6, <1>7, <1>8, <1>9 DEF QueueInv

\* The finally clause: the worker is no longer busy and its put is accounted for.
LEMMA AcknowledgeInv ==
  ASSUME QueueInv, NEW t \in Threads, Acknowledge(t) PROVE QueueInv'
<1>1. /\ Goto(t, "ack", "get") /\ item' = [item EXCEPT ![t] = Nothing]
      /\ unfinished' = unfinished - 1
      /\ UNCHANGED <<q, processed, failed, dropped, loop, toWake, starts, handles,
                     stopping, accepted, shed, committed, spoiled>>
  BY DEF Acknowledge, counters, loopVars, history
<1>2. /\ pc \in [Threads -> Positions] /\ item \in [Threads -> Events \cup {Nothing}]
      /\ unfinished \in Int /\ q \in Seq(Events \cup {Sentinel})
  BY DEF QueueInv, TypeOK
<1>3. /\ At({"ingest"})' = At({"ingest"}) /\ At({"ok", "err"})' = At({"ok", "err"})
      /\ t \notin At({"ingest"})
  BY <1>1, <1>2, Stays DEF Goto, At
<1>4. t \in Busy /\ Cardinality(Busy') = Cardinality(Busy) - 1
  BY <1>1, <1>2, Leaves DEF Positions, Busy
<1>5. \A s \in At({"ingest"}) : item'[s] = item[s]
  BY <1>1, <1>2, <1>3 DEF At
<1>6. Waiting' = Waiting /\ InHand' = InHand /\ Settled' = Settled
  BY <1>1, <1>3, <1>5 DEF Waiting, InHand, Settled
<1>7. TypeOK'
  <2>1. pc' \in [Threads -> Positions]
    BY <1>1, <1>2 DEF Goto, Positions
  <2>2. item' \in [Threads -> Events \cup {Nothing}] /\ unfinished' \in Int
    BY <1>1, <1>2
  <2> QED
    BY <1>1, <2>1, <2>2 DEF QueueInv, TypeOK
<1>8. NoneTwice'
  BY <1>1, <1>3, <1>5, <1>6 DEF QueueInv, NoneTwice
<1>9. JoinCountExact'
  <2>1. Len(q) \in Nat /\ Cardinality(Busy) \in Nat
    BY <1>2, AtFinite DEF Busy
  <2> QED
    BY <1>1, <1>2, <1>4, <2>1 DEF QueueInv, JoinCountExact
<1>10. Tally'
  BY <1>1, <1>3, <1>6 DEF QueueInv, Tally, Up
<1>11. loop' \notin {"waking", "threads", "down"}
  BY <1>1, <1>4 DEF QueueInv, Idle
<1>12. IsFiniteSet(Settled') /\ \A s \in At({"ingest"})' : item'[s] \in Events
  BY <1>3, <1>5, <1>6 DEF QueueInv
<1> QED
  BY <1>7, <1>8, <1>9, <1>10, <1>11, <1>12 DEF QueueInv

\* A killed process leaves no queue and no threads.
LEMMA CrashInv == ASSUME QueueInv, Crash PROVE QueueInv'
<1>1. /\ q' = <<>> /\ unfinished' = 0 /\ handles' = {} /\ stopping' = FALSE
      /\ pc' = [t \in Threads |-> "dead"] /\ item' = [t \in Threads |-> Nothing]
      /\ loop' = "down" /\ toWake' = 0
      /\ UNCHANGED <<starts, processed, failed, dropped, accepted, shed, committed,
                     spoiled>>
  BY DEF Crash, counters
<1>2. At({"ingest"})' = {} /\ Busy' = {} /\ Cardinality({}) = 0
  BY <1>1, FS_EmptySet DEF At, Busy
<1>3. /\ Waiting' = {} /\ InHand' = {} /\ Settled' = Settled
      /\ Len(q') = 0 /\ DOMAIN q' = {} /\ q' \in Seq(Events \cup {Sentinel})
  BY <1>1, <1>2 DEF Waiting, InHand, Settled
<1>4. TypeOK'
  <2>1. pc' \in [Threads -> Positions] /\ item' \in [Threads -> Events \cup {Nothing}]
    BY <1>1 DEF Positions
  <2>2. stopping' \in BOOLEAN /\ handles' \subseteq Threads
    BY <1>1, Zenon
  <2>3. unfinished' \in Int /\ toWake' \in Nat /\ loop' \in Phases
    BY <1>1 DEF Phases
  <2> QED
    BY <1>1, <1>3, <2>1, <2>2, <2>3 DEF QueueInv, TypeOK
<1>5. NoneTwice'
  <2>1. committed' \cap spoiled' = {}
    BY <1>1 DEF QueueInv, NoneTwice
  <2> QED
    BY <1>2, <1>3, <2>1 DEF NoneTwice
<1>6. JoinCountExact'
  <2>1. unfinished' = 0 /\ Len(q') = 0 /\ Cardinality(Busy') = 0
    BY <1>1, <1>2, <1>3
  <2> QED
    BY <2>1 DEF JoinCountExact
<1>7. Tally'
  <2>1. ~Up'
    BY <1>1, Zenon DEF Up
  <2> QED
    BY <2>1 DEF Tally
<1>8. Idle' /\ loop' \notin {"waking", "threads"}
  BY <1>1, <1>2, <1>3 DEF Idle
<1>9. IsFiniteSet(Settled') /\ \A s \in At({"ingest"})' : item'[s] \in Events
  BY <1>2, <1>3 DEF QueueInv
<1> QED
  BY <1>4, <1>5, <1>6, <1>7, <1>8, <1>9 DEF QueueInv

LEMMA WorkerInv ==
  ASSUME QueueInv, NEW t \in Threads, Worker(t) PROVE QueueInv'
<1>1. CASE IngestOk(t)
  BY <1>1, SettleStep DEF IngestOk, queueVars, counters, loopVars
<1>2. CASE IngestFails(t)
  BY <1>2, SettleStep DEF IngestFails, queueVars, counters, loopVars
<1>3. CASE CountOk(t)
  BY <1>3, CountStep DEF CountOk, queueVars, loopVars, history
<1>4. CASE CountFailed(t)
  BY <1>4, CountStep DEF CountFailed, queueVars, loopVars, history
<1> QED
  BY <1>1, <1>2, <1>3, <1>4, TakeInv, TakeSentinelInv, TimeOutInv, AcknowledgeInv
  DEF Worker

LEMMA NextQueueInv == QueueInv /\ [Next]_vars => QueueInv'
<1> SUFFICES ASSUME QueueInv, [Next]_vars PROVE QueueInv'
  OBVIOUS
<1>1. CASE UNCHANGED vars
  <2>1. TypeOK'
    BY <1>1 DEF QueueInv, TypeOK, vars, queueVars, workerVars, counters, loopVars, history
  <2> QED
    BY <1>1, <2>1, LoopStep
    DEF vars, queueVars, workerVars, counters, loopVars, history, QueueInv, Up
<1>2. CASE Lifespan
  BY <1>2, BeginDrainInv, QueueJoinedInv, WakeInv, AllWokenInv, ThreadsJoinedInv
  DEF Lifespan
<1>3. ASSUME NEW e \in Events, SubmitAccepted(e) \/ SubmitShed(e)
      PROVE  QueueInv'
  BY <1>3, SubmitAcceptedInv, SubmitShedInv
<1> QED
  BY <1>1, <1>2, <1>3, BootInv, ReopenInv, CrashInv, WorkerInv DEF Next

-----------------------------------------------------------------------------
(* The results.                                                            *)

(* QueueInv holds in every reachable state: the bookkeeping of the queue, its  *)
(* join counter, its workers and its statistics always agree.               *)
THEOREM QueueInvariant == Spec => []QueueInv
<1> QED
  BY InitQueueInv, NextQueueInv, PTL DEF Spec

\* Only a new process and a full queue touch the events shed or their count.
LEMMA ShedStep ==
  ASSUME TypeOK, IsFiniteSet(shed) /\ ShedCounted, [Next]_vars
  PROVE  (IsFiniteSet(shed) /\ ShedCounted)'
<1>1. CASE UNCHANGED <<dropped, shed>>
  BY <1>1 DEF ShedCounted
<1>2. CASE Boot
  BY <1>2, FS_EmptySet DEF Boot, ShedCounted
<1>3. ASSUME NEW e \in Events, SubmitShed(e)
      PROVE  (IsFiniteSet(shed) /\ ShedCounted)'
  <2>1. dropped' = dropped + 1 /\ shed' = shed \cup {e} /\ e \notin shed
    BY <1>3 DEF SubmitShed
  <2>2. IsFiniteSet(shed') /\ Cardinality(shed') = Cardinality(shed) + 1
    BY <2>1, FS_AddElement
  <2> QED
    BY <2>1, <2>2 DEF ShedCounted
<1>4. Reopen \/ Lifespan \/ Crash => UNCHANGED <<dropped, shed>>
  BY Zenon DEF Reopen, Lifespan, BeginDrain, QueueJoined, Wake, AllWoken, ThreadsJoined, Crash,
     counters, history
<1>5. ASSUME NEW e \in Events, SubmitAccepted(e) PROVE UNCHANGED <<dropped, shed>>
  BY <1>5 DEF SubmitAccepted, counters
<1>6. ASSUME NEW t \in Threads, Worker(t) PROVE UNCHANGED <<dropped, shed>>
  BY <1>6, Zenon DEF Worker, Take, TakeSentinel, TimeOut, IngestOk, IngestFails, CountOk,
     CountFailed, Acknowledge, counters, history
<1>7. UNCHANGED vars => UNCHANGED <<dropped, shed>>
  BY DEF vars, counters, history
<1> QED
  BY <1>1, <1>2, <1>3, <1>4, <1>5, <1>6, <1>7 DEF Next

(* No accepted event falls between the queue and the database while the       *)
(* process lives, and every event shed is counted.                           *)
THEOREM NothingLost == Spec => []NoneLost
<1>1. Init => IsFiniteSet(shed) /\ ShedCounted
  BY FS_EmptySet DEF Init, ShedCounted
<1>2. QueueInv /\ IsFiniteSet(shed) /\ ShedCounted /\ [Next]_vars
        => (IsFiniteSet(shed) /\ ShedCounted)'
  BY ShedStep DEF QueueInv
<1>3. QueueInv /\ ShedCounted => NoneLost
  BY DEF QueueInv, Tally, Up, NoneLost
<1> QED
  BY <1>1, <1>2, <1>3, QueueInvariant, PTL DEF Spec

(* No event is handed to two workers or settled twice.                      *)
THEOREM NothingTwice == Spec => []NoneTwice
<1>1. QueueInv => NoneTwice
  BY DEF QueueInv
<1> QED
  BY <1>1, QueueInvariant, PTL

(* join() returns when and only when every item put has been acknowledged.   *)
THEOREM JoinCountAlwaysExact == Spec => []JoinCountExact
<1>1. QueueInv => JoinCountExact
  BY DEF QueueInv
<1> QED
  BY <1>1, QueueInvariant, PTL

(* A drain past join() has settled and counted every accepted event.         *)
THEOREM DrainLeavesNothing == Spec => []DrainedBeforeStopping
<1>1. QueueInv => DrainedBeforeStopping
  <2> SUFFICES ASSUME QueueInv, loop \in {"waking", "threads"}
               PROVE  accepted = Settled /\ processed + failed = Cardinality(accepted)
    BY DEF DrainedBeforeStopping
  <2>1. Idle /\ Up
    BY DEF QueueInv, Up
  <2>2. At({"ingest"}) = {} /\ At({"ok", "err"}) = {} /\ Waiting \ {Sentinel} = {}
    BY <2>1 DEF Idle, Busy, At
  <2>3. accepted = Settled
    BY <2>1, <2>2 DEF QueueInv, Tally, InHand
  <2>4. processed + failed + Cardinality({}) = Cardinality(Settled)
    BY <2>1, <2>2 DEF QueueInv, Tally
  <2>5. processed \in Nat /\ failed \in Nat /\ Cardinality({}) = 0
    BY FS_EmptySet DEF QueueInv, TypeOK
  <2> QED
    BY <2>3, <2>4, <2>5
<1> QED
  BY <1>1, QueueInvariant, PTL

-----------------------------------------------------------------------------
(* The promise of Intake.                                                  *)

(* What QueueInv leaves open while the process lives its one life: no more     *)
(* workers than were started, no sentinel before the drain has joined the    *)
(* queue, and nothing of an earlier life.                                   *)
Alive == At(Positions \ {"dead"})
LifeInv ==
  /\ loop = "down" => \/ starts = 0 /\ ~stopping /\ accepted = {} /\ shed = {} /\ Settled = {}
                      \/ starts = 1 /\ stopping
  /\ loop # "down" => starts = 1
  /\ loop \in {"serving", "joining"} => Sentinel \notin Waiting
  /\ Cardinality(Alive) <= WorkerCount

OneLife == ~MayCrash /\ MaxStarts = 1

LEMMA InitLifeInv == Init => LifeInv
<1> SUFFICES ASSUME Init PROVE LifeInv
  OBVIOUS
<1>1. Alive = {} /\ Settled = {} /\ loop = "down" /\ ~stopping
  BY Zenon DEF Init, Alive, At, Settled
<1>2. Cardinality(Alive) <= WorkerCount
  BY <1>1, FS_EmptySet, QueueAssumption
<1> QED
  BY <1>1, <1>2 DEF Init, LifeInv

\* No step but Boot and Reopen brings a worker to life.
LEMMA AliveShrinks ==
  ASSUME LifeInv, Alive' \subseteq Alive
  PROVE  Cardinality(Alive') <= WorkerCount
<1>1. IsFiniteSet(Alive)
  BY AtFinite DEF Alive
<1>2. Cardinality(Alive) \in Nat /\ Cardinality(Alive') \in Nat
      /\ Cardinality(Alive') <= Cardinality(Alive)
  BY <1>1, FS_Subset, FS_CardinalityType
<1> QED
  BY <1>2, QueueAssumption DEF LifeInv

LEMMA BootLifeInv ==
  ASSUME OneLife, QueueInv, LifeInv, Boot
  PROVE  LifeInv' /\ starts = 0
<1>1. PICK fresh \in SUBSET Threads :
        /\ Cardinality(fresh) = WorkerCount
        /\ pc' = [t \in Threads |-> IF t \in fresh THEN "get" ELSE "dead"]
        /\ loop' = "serving" /\ starts' = starts + 1
  BY DEF Boot, StartWorkers
<1>2. starts = 0
  BY DEF Boot, OneLife, QueueInv, TypeOK
<1>3. Alive' = fresh
  BY <1>1 DEF Alive, At, Positions
<1>4. Waiting' = {}
  BY DEF Boot, Waiting
<1>5. Cardinality(Alive') <= WorkerCount
  BY <1>1, <1>3, QueueAssumption
<1> QED
  BY <1>1, <1>2, <1>4, <1>5 DEF LifeInv

LEMMA NoReopen == OneLife /\ QueueInv /\ LifeInv => ~Reopen
  BY DEF OneLife, QueueInv, TypeOK, LifeInv, Reopen

\* The event loop's steps leave the workers alone; only Wake, after the join,
\* puts a sentinel into the queue.
LEMMA LoopLifeInv ==
  ASSUME QueueInv, LifeInv, pc' = pc, starts' = starts,
         Settled' = Settled,
         loop' = "down" =>
           \/ loop = "down" /\ UNCHANGED <<stopping, accepted, shed>>
           \/ loop # "down" /\ stopping',
         loop' # "down" => loop # "down",
         loop' \in {"serving", "joining"} =>
           loop \in {"serving", "joining"} /\ Sentinel \notin Waiting'
  PROVE  LifeInv'
<1>1. Alive' = Alive
  BY DEF Alive, At
<1>2. Cardinality(Alive') <= WorkerCount
  BY <1>1, AliveShrinks
<1>3. CASE loop' = "down" /\ loop = "down"
  BY <1>2, <1>3 DEF LifeInv
<1>4. CASE loop' = "down" /\ loop # "down"
  BY <1>2, <1>4 DEF LifeInv
<1>5. CASE loop' # "down"
  BY <1>2, <1>5 DEF LifeInv
<1> QED
  BY <1>3, <1>4, <1>5

LEMMA LifespanLifeInv ==
  ASSUME QueueInv, LifeInv, Lifespan
  PROVE  LifeInv'
<1>1. pc' = pc /\ starts' = starts /\ Settled' = Settled
  BY DEF Lifespan, BeginDrain, QueueJoined, Wake, AllWoken, ThreadsJoined, workerVars,
         counters, history, Settled
<1>2. CASE BeginDrain
  <2>1. Waiting' = Waiting /\ loop = "serving" /\ loop' = "joining"
    BY <1>2 DEF BeginDrain, queueVars, Waiting
  <2> QED
    BY <1>1, <2>1, LoopLifeInv DEF LifeInv
<1>3. CASE QueueJoined \/ Wake \/ AllWoken
  <2>1. loop # "down" /\ loop' \in {"waking", "threads"}
    BY <1>3 DEF QueueJoined, Wake, AllWoken
  <2> QED
    BY <1>1, <2>1, LoopLifeInv
<1>4. CASE ThreadsJoined
  <2>1. loop = "threads" /\ loop' = "down" /\ stopping'
    BY <1>4 DEF ThreadsJoined, QueueInv
  <2> QED
    BY <1>1, <2>1, LoopLifeInv
<1> QED
  BY <1>2, <1>3, <1>4 DEF Lifespan

LEMMA SubmitLifeInv ==
  ASSUME QueueInv, LifeInv, NEW e \in Events, SubmitAccepted(e) \/ SubmitShed(e)
  PROVE  LifeInv'
<1>1. /\ pc' = pc /\ starts' = starts /\ Settled' = Settled
      /\ loop = "serving" /\ loop' = "serving"
  BY DEF SubmitAccepted, SubmitShed, workerVars, loopVars, Settled
<1>2. Sentinel \notin Waiting'
  <2>1. CASE SubmitAccepted(e)
    <3>1. q' = Append(q, e) /\ q \in Seq(Events \cup {Sentinel}) /\ e # Sentinel
      BY <2>1, QueueAssumption DEF SubmitAccepted, Put, QueueInv, TypeOK
    <3>2. Elements(q') = Elements(q) \cup {e}
      BY <3>1, PutElements
    <3> QED
      BY <1>1, <3>1, <3>2 DEF Elements, Waiting, LifeInv
  <2>2. CASE SubmitShed(e)
    BY <1>1, <2>2 DEF SubmitShed, queueVars, Waiting, LifeInv
  <2> QED
    BY <2>1, <2>2
<1> QED
  BY <1>1, <1>2, LoopLifeInv

\* A worker's step takes from the queue or leaves it, and brings nobody to life.
LEMMA WorkerLifeInv ==
  ASSUME QueueInv, LifeInv, NEW t \in Threads, Worker(t)
  PROVE  LifeInv'
<1>1. UNCHANGED <<loop, starts, stopping, accepted, shed>>
  <2>1. UNCHANGED loopVars
    BY Zenon DEF Worker, Take, TakeSentinel, TimeOut, IngestOk, IngestFails, CountOk,
                 CountFailed, Acknowledge
  <2>2. UNCHANGED <<accepted, shed>>
    BY DEF Worker, Take, TakeSentinel, TimeOut, IngestOk, IngestFails, CountOk,
           CountFailed, Acknowledge, history
  <2> QED
    BY <2>1, <2>2 DEF loopVars
<1>2. /\ q' = q \/ (q # <<>> /\ q' = Tail(q))
      /\ pc[t] # "ingest" => UNCHANGED <<committed, spoiled>>
  <2>1. \/ UNCHANGED queueVars
        \/ q # <<>> /\ q' = Tail(q)
        \/ q' = q
    BY Zenon DEF Worker, Take, TakeSentinel, TimeOut, IngestOk, IngestFails, CountOk,
                 CountFailed, Acknowledge
  <2>2. pc[t] = "ingest" \/ UNCHANGED history
    BY Zenon DEF Worker, Take, TakeSentinel, TimeOut, IngestOk, IngestFails, CountOk,
                 CountFailed, Acknowledge, Goto
  <2> QED
    BY <2>1, <2>2 DEF queueVars, history
<1>3. \E from \in Positions \ {"dead"}, to \in Positions : Goto(t, from, to)
  <2> DEFINE Moves(from, to) == Goto(t, from, to)
  <2>1. \/ Moves("get", "ingest") \/ Moves("get", "dead") \/ Moves("ingest", "ok")
        \/ Moves("ingest", "err") \/ Moves("ok", "ack") \/ Moves("err", "ack")
        \/ Moves("ack", "get")
    BY Zenon DEF Worker, Take, TakeSentinel, TimeOut, IngestOk, IngestFails, CountOk,
                 CountFailed, Acknowledge
  <2> HIDE DEF Moves
  <2>2. \E from \in Positions \ {"dead"}, to \in Positions : Moves(from, to)
    BY <2>1 DEF Positions
  <2> QED
    BY <2>2 DEF Moves
<1>4. t \in Alive /\ Alive' \subseteq Alive
  BY <1>3 DEF QueueInv, TypeOK, Goto, Alive, At
<1>5. Cardinality(Alive') <= WorkerCount
  BY <1>4, AliveShrinks
<1>6. Waiting' \subseteq Waiting
  <2>1. CASE q' = q
    BY <2>1 DEF Waiting
  <2>2. CASE q # <<>> /\ q' = Tail(q)
    <3>1. q \in Seq(Events \cup {Sentinel})
      BY DEF QueueInv, TypeOK
    <3>2. Elements(q) = {Head(q)} \cup Elements(Tail(q))
      BY <2>2, <3>1, GetElements
    <3> QED
      BY <2>2, <3>2 DEF Elements, Waiting
  <2> QED
    BY <1>2, <2>1, <2>2
<1>7. loop = "down" => Settled' = Settled
  BY <1>2, <1>3 DEF QueueInv, TypeOK, Positions, Idle, Busy, At, Goto, Settled
<1> QED
  BY <1>1, <1>5, <1>6, <1>7 DEF LifeInv

LEMMA NextLifeInv == OneLife /\ QueueInv /\ LifeInv /\ [Next]_vars => LifeInv'
<1> SUFFICES ASSUME OneLife, QueueInv, LifeInv, [Next]_vars PROVE LifeInv'
  OBVIOUS
<1>1. CASE UNCHANGED vars
  <2>1. /\ Alive' = Alive /\ Waiting' = Waiting /\ Settled' = Settled
        /\ UNCHANGED <<loop, starts, stopping, accepted, shed>>
    BY <1>1 DEF vars, queueVars, workerVars, loopVars, history, Alive, At, Waiting, Settled
  <2>2. Cardinality(Alive') <= WorkerCount
    BY <2>1, AliveShrinks
  <2> QED
    BY <2>1, <2>2 DEF LifeInv
<1>2. ASSUME NEW e \in Events, SubmitAccepted(e) \/ SubmitShed(e)
      PROVE  LifeInv'
  BY <1>2, SubmitLifeInv
<1>3. ~Crash
  BY DEF OneLife, Crash
<1> QED
  BY <1>1, <1>2, <1>3, BootLifeInv, NoReopen, LifespanLifeInv, WorkerLifeInv DEF Next

\* Counting inside the instance is the same counting.
LEMMA PromiseCounts == \A S : Promise!Cardinality(S) = Cardinality(S)
  BY DEF Promise!Cardinality, Cardinality

\* What the promise calls pending waits in the queue or is in a worker's hands.
LEMMA PendingPlaces ==
  ASSUME QueueInv, Up
  PROVE  /\ accepted \ Settled = (Waiting \ {Sentinel}) \cup InHand
         /\ Settled \subseteq accepted
  BY QueueAssumption DEF QueueInv, TypeOK, Tally, NoneTwice

\* At most one event per live worker is in hand.
LEMMA HandsBound ==
  ASSUME QueueInv, LifeInv
  PROVE  IsFiniteSet(InHand) /\ Cardinality(InHand) <= WorkerCount
<1> DEFINE hands == At({"ingest"})
           f == [t \in hands |-> item[t]]
<1>1. IsFiniteSet(hands) /\ IsFiniteSet(Alive) /\ hands \subseteq Alive
  BY AtFinite DEF Alive, At, Positions
<1>2. f \in Surjection(hands, InHand)
  BY DEF Surjection, InHand
<1>3. /\ IsFiniteSet(InHand) /\ Cardinality(InHand) <= Cardinality(hands)
      /\ Cardinality(hands) <= Cardinality(Alive)
  BY <1>1, <1>2, FS_Surjection, FS_Subset
<1>4. /\ Cardinality(InHand) \in Nat /\ Cardinality(hands) \in Nat
      /\ Cardinality(Alive) \in Nat
  BY <1>1, <1>3, FS_CardinalityType
<1> QED
  BY <1>3, <1>4, QueueAssumption DEF LifeInv

\* Before the drain the queue holds one entry per waiting event.
LEMMA WaitingCount ==
  ASSUME QueueInv, Sentinel \notin Waiting
  PROVE  IsFiniteSet(Waiting) /\ Cardinality(Waiting) = Len(q)
<1> DEFINE slots == 1..Len(q)
<1>1. q \in Seq(Events \cup {Sentinel}) /\ Len(q) \in Nat /\ DOMAIN q = slots
  BY DEF QueueInv, TypeOK
<1>2. IsFiniteSet(slots) /\ Cardinality(slots) = Len(q)
  BY <1>1, FS_Interval
<1>3. q \in Injection(slots, Waiting) /\ q \in Surjection(slots, Waiting)
  <2>1. q \in [slots -> Waiting]
    BY <1>1 DEF Waiting
  <2>2. \A i, j \in slots : q[i] = q[j] => i = j
    BY <1>1 DEF Waiting, QueueInv, NoneTwice
  <2>3. \A x \in Waiting : \E i \in slots : q[i] = x
    BY <1>1 DEF Waiting
  <2> QED
    BY <1>1, <2>1, <2>2, <2>3 DEF Injection, IsInjective, Surjection
<1> QED
  BY <1>2, <1>3, FS_Surjection

\* Accepting is bounded, and only a queue that is full sheds.
LEMMA PendingBounds ==
  ASSUME QueueInv, LifeInv, loop = "serving"
  PROVE  /\ ~Full => Cardinality(accepted \ Settled) < MaxSize + WorkerCount
         /\ Full => Cardinality(accepted \ Settled) >= MaxSize
<1>1. accepted \ Settled = Waiting \cup InHand /\ Sentinel \notin Waiting
  BY PendingPlaces DEF Up, LifeInv
<1>2. IsFiniteSet(Waiting) /\ Cardinality(Waiting) = Len(q)
  BY <1>1, WaitingCount
<1>3. IsFiniteSet(InHand) /\ Cardinality(InHand) <= WorkerCount
  BY HandsBound
<1>4. Cardinality(Waiting \cap InHand) = 0
  <2>1. Waiting \cap InHand = {}
    BY DEF QueueInv, NoneTwice
  <2> QED
    BY <2>1, FS_EmptySet
<1>5. Cardinality(Waiting \cup InHand) = Len(q) + Cardinality(InHand)
  <2>1. Cardinality(Waiting \cup InHand)
          = Cardinality(Waiting) + Cardinality(InHand) - Cardinality(Waiting \cap InHand)
    BY <1>2, <1>3, FS_Union
  <2>2. Cardinality(Waiting) \in Nat /\ Cardinality(InHand) \in Nat
    BY <1>2, <1>3, FS_CardinalityType
  <2> QED
    BY <1>2, <1>4, <2>1, <2>2
<1>6. /\ Len(q) \in Nat /\ Cardinality(InHand) \in Nat
      /\ MaxSize \in Nat /\ WorkerCount \in Nat
  BY <1>2, <1>3, FS_CardinalityType, QueueAssumption
<1>7. Cardinality(accepted \ Settled) = Len(q) + Cardinality(InHand)
  BY <1>1, <1>5
<1> QED
  BY <1>3, <1>6, <1>7 DEF Full

\* Every step of the queue is a step of the promise or none.
StepKept == [Promise!Next]_(Promise!ivars)

LEMMA SubmitKeeps ==
  ASSUME QueueInv, LifeInv, NEW e \in Events, SubmitAccepted(e) \/ SubmitShed(e)
  PROVE  StepKept
<1>1. /\ loop = "serving" /\ loop' = "serving" /\ e \notin accepted \cup shed
      /\ Settled' = Settled
  BY DEF SubmitAccepted, SubmitShed, loopVars, Settled
<1>2. Settled \subseteq accepted
  BY <1>1, PendingPlaces DEF Up
<1>3. CASE SubmitAccepted(e)
  <2>1. accepted' = accepted \cup {e} /\ shed' = shed /\ ~Full
    BY <1>3 DEF SubmitAccepted
  <2>2. Cardinality(accepted \ Settled) < MaxSize + WorkerCount
    BY <1>1, <2>1, PendingBounds
  <2>3. accepted' \ Settled' = (accepted \ Settled) \cup {e}
    BY <1>1, <1>2, <2>1
  <2>4. Promise!Accept(e)
    BY <1>1, <1>2, <2>1, <2>2, <2>3, PromiseCounts DEF Promise!Accept, Promise!Fresh
  <2> QED
    BY <2>4, Zenon DEF StepKept, Promise!Next
<1>4. CASE SubmitShed(e)
  <2>1. accepted' = accepted /\ shed' = shed \cup {e} /\ Full
    BY <1>4 DEF SubmitShed
  <2>2. Cardinality(accepted \ Settled) >= MaxSize
    BY <1>1, <2>1, PendingBounds
  <2>3. Promise!Shed(e)
    BY <1>1, <1>2, <2>1, <2>2, PromiseCounts DEF Promise!Shed, Promise!Fresh
  <2> QED
    BY <2>3, Zenon DEF StepKept, Promise!Next
<1> QED
  BY <1>3, <1>4

LEMMA LifespanKeeps ==
  ASSUME QueueInv, LifeInv, Lifespan
  PROVE  StepKept
<1>1. accepted' = accepted /\ shed' = shed /\ Settled' = Settled
  BY DEF Lifespan, BeginDrain, QueueJoined, Wake, AllWoken, ThreadsJoined, history, Settled
<1>2. CASE BeginDrain
  <2>1. Promise!Drain
    BY <1>1, <1>2 DEF BeginDrain, Promise!Drain
  <2> QED
    BY <2>1, Zenon DEF StepKept, Promise!Next
<1>3. CASE QueueJoined \/ Wake \/ AllWoken
  <2>1. /\ loop \in {"joining", "waking", "threads"}
        /\ loop' \in {"joining", "waking", "threads"}
    BY <1>3 DEF QueueJoined, Wake, AllWoken
  <2> QED
    BY <1>1, <2>1 DEF StepKept, Promise!ivars
<1>4. CASE ThreadsJoined
  <2>1. loop = "threads" /\ loop' = "down" /\ Idle /\ Up
    BY <1>4 DEF ThreadsJoined, QueueInv, Up
  <2>2. accepted \ Settled = {}
    BY <2>1, PendingPlaces DEF Idle, Busy, At, InHand
  <2>3. Promise!Close
    BY <1>1, <2>1, <2>2 DEF Promise!Close
  <2> QED
    BY <2>3, Zenon DEF StepKept, Promise!Next
<1> QED
  BY <1>2, <1>3, <1>4 DEF Lifespan

LEMMA WorkerKeeps ==
  ASSUME QueueInv, LifeInv, NEW t \in Threads, Worker(t)
  PROVE  StepKept
<1>1. loop' = loop /\ accepted' = accepted /\ shed' = shed
  <2>1. UNCHANGED loopVars
    BY Zenon DEF Worker, Take, TakeSentinel, TimeOut, IngestOk, IngestFails, CountOk,
                 CountFailed, Acknowledge
  <2>2. UNCHANGED <<accepted, shed>>
    BY DEF Worker, Take, TakeSentinel, TimeOut, IngestOk, IngestFails, CountOk,
           CountFailed, Acknowledge, history
  <2> QED
    BY <2>1, <2>2 DEF loopVars
<1>2. CASE IngestOk(t) \/ IngestFails(t)
  <2> DEFINE e == item[t]
  <2>1. t \in At({"ingest"}) /\ Settled' = Settled \cup {e}
    BY <1>2 DEF IngestOk, IngestFails, Goto, At, Settled
  <2>2. e \in Events /\ e \in InHand /\ e \notin Settled /\ loop # "down"
    BY <2>1 DEF QueueInv, InHand, NoneTwice, Idle, Busy, At
  <2>3. e \in accepted \ Settled
    BY <2>2, PendingPlaces DEF Up
  <2>4. accepted' \ Settled' = (accepted \ Settled) \ {e}
    BY <1>1, <2>1
  <2>5. Promise!Settle(e)
    BY <1>1, <2>1, <2>3, <2>4 DEF Promise!Settle
  <2> QED
    BY <2>2, <2>5, Zenon DEF StepKept, Promise!Next
<1>3. CASE ~(IngestOk(t) \/ IngestFails(t))
  <2>1. UNCHANGED history
    BY <1>3, Zenon DEF Worker, Take, TakeSentinel, TimeOut, CountOk, CountFailed,
                       Acknowledge
  <2>2. Settled' = Settled
    BY <2>1 DEF history, Settled
  <2> QED
    BY <1>1, <2>2 DEF StepKept, Promise!ivars
<1> QED
  BY <1>2, <1>3

LEMMA StepKeepsPromise ==
  OneLife /\ QueueInv /\ LifeInv /\ [Next]_vars => [Promise!Next]_(Promise!ivars)
<1> SUFFICES ASSUME OneLife, QueueInv, LifeInv, [Next]_vars PROVE StepKept
  BY DEF StepKept
<1>1. CASE UNCHANGED vars
  <2>1. loop' = loop /\ accepted' = accepted /\ shed' = shed /\ Settled' = Settled
    BY <1>1 DEF vars, loopVars, history, Settled
  <2> QED
    BY <2>1 DEF StepKept, Promise!ivars
<1>2. CASE Boot
  <2>1. starts = 0 /\ loop = "down"
    BY <1>2, BootLifeInv DEF Boot
  <2>2. accepted = {} /\ shed = {} /\ Settled = {}
    BY <2>1 DEF LifeInv
  <2>3. /\ accepted' = {} /\ shed' = {} /\ Settled' = {} /\ loop' = "serving"
    BY <1>2 DEF Boot, StartWorkers, Settled
  <2>4. Promise!Open
    BY <2>1, <2>2, <2>3 DEF Promise!Open
  <2> QED
    BY <2>4, Zenon DEF StepKept, Promise!Next
<1>3. ASSUME NEW e \in Events, SubmitAccepted(e) \/ SubmitShed(e)
      PROVE  StepKept
  BY <1>3, SubmitKeeps
<1>4. ~Crash
  BY DEF OneLife, Crash
<1> QED
  BY <1>1, <1>2, <1>3, <1>4, NoReopen, LifespanKeeps, WorkerKeeps DEF Next

(* One life of the gateway keeps the promise of Intake, whatever the number of  *)
(* events, threads and workers and the size of the queue: it accepts no more   *)
(* than the queue and its workers hold, sheds only when the queue is full,    *)
(* settles every accepted event once, and ends a drain with nothing pending.   *)
THEOREM PromiseKept ==
  ASSUME MayCrash = FALSE, MaxStarts = 1
  PROVE  Spec => Promise!Safety
<1>1. OneLife
  BY Zenon DEF OneLife
<1>2. Init => Promise!Init
  BY DEF Init, Settled, Promise!Init
<1>3. Init => QueueInv /\ LifeInv
  BY InitQueueInv, InitLifeInv
<1>4. QueueInv /\ LifeInv /\ [Next]_vars => QueueInv' /\ LifeInv'
  BY <1>1, NextQueueInv, NextLifeInv
<1>5. QueueInv /\ LifeInv /\ [Next]_vars => [Promise!Next]_(Promise!ivars)
  BY <1>1, StepKeepsPromise
<1> QED
  BY <1>2, <1>3, <1>4, <1>5, PTL DEF Spec, Promise!Safety

=============================================================================
