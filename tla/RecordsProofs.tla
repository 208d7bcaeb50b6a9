--------------------------- MODULE RecordsProofs ---------------------------
(***************************************************************************)
(* What the records keep, for every value of the constants: a section for    *)
(* each component proved, which names the component's slots as the component  *)
(* does, gives its inductive invariant and shows that its steps preserve it.  *)
(* The last theorems of a section are about MCRecords, whose behaviours are   *)
(* those of its components.                                                  *)
(***************************************************************************)
EXTENDS MCRecords, TLAPS, WellFoundedInduction, SequenceTheorems, FiniteSetTheorems

(* A set of numbers has a least element, by well-founded induction.            *)
LEMMA LeastExists == ASSUME NEW S \in SUBSET Nat, S # {} PROVE \E x \in S : \A y \in S : x <= y
<1> DEFINE R == OpToRel(<, Nat)
<1>1. IsWellFoundedOn(R, Nat)
  BY NatLessThanWellFounded
<1>2. R = {ss \in Nat \X Nat : ss[1] < ss[2]}
  BY DEF OpToRel
<1> HIDE DEF R
<1>3. PICK x \in S : \A y \in S : ~(<<y, x>> \in R)
  BY <1>1, WFMin
<1>4. ASSUME NEW y \in S PROVE x <= y
  <2>1. <<y, x>> \in Nat \X Nat /\ <<y, x>>[1] = y /\ <<y, x>>[2] = x
    OBVIOUS
  <2>2. ~(y < x)
    BY <1>2, <1>3, <2>1
  <2> QED
    BY <2>2
<1> QED BY <1>4

-----------------------------------------------------------------------------
(* RunRow: a run's row is what the set of its events says.  The bounds are    *)
(* carried as least and greatest elements, which holds step by step without   *)
(* induction; CHOOSE then has one element to find.                           *)

row == v1
seen == v2
USE DEF row, seen

IsLeast(t, S) == IF S = {} THEN t = RunRow!NoTime ELSE t \in S /\ \A u \in S : t <= u
IsGreatest(t, S) == IF S = {} THEN t = RunRow!NoTime ELSE t \in S /\ \A u \in S : u <= t

Starts == {e \in seen : e.type = "START"}

RowInv ==
  /\ RunRow!TypeOK
  /\ IsLeast(row.started, RunRow!TimesOf(Starts))
  /\ IsGreatest(row.ended, RunRow!TimesOf(RunRow!Terminals))
  /\ IsLeast(row.first, RunRow!TimesOf(seen))
  /\ IsGreatest(row.last, RunRow!TimesOf(seen))
  /\ RunRow!StateIsFurthest

-----------------------------------------------------------------------------
LEMMA LeastExtends ==
  ASSUME NEW S \in SUBSET (Nat \ {0}), NEW t, IsLeast(t, S), NEW n \in Nat \ {0}
  PROVE  IsLeast(RunRow!Least(t, n), S \cup {n})
<1>1. CASE S = {}
  BY <1>1 DEF IsLeast, RunRow!Least, RunRow!NoTime
<1>2. CASE S # {}
  <2>1. t \in Nat \ {0} /\ \A u \in S : u \in Nat /\ t <= u
    BY <1>2 DEF IsLeast
  <2> QED
    BY <1>2, <2>1 DEF IsLeast, RunRow!Least, RunRow!NoTime
<1> QED
  BY <1>1, <1>2

LEMMA GreatestExtends ==
  ASSUME NEW S \in SUBSET (Nat \ {0}), NEW t, IsGreatest(t, S), NEW n \in Nat \ {0}
  PROVE  IsGreatest(RunRow!Greatest(t, n), S \cup {n})
<1>1. CASE S = {}
  BY <1>1 DEF IsGreatest, RunRow!Greatest, RunRow!NoTime
<1>2. CASE S # {}
  <2>1. t \in Nat \ {0} /\ \A u \in S : u \in Nat /\ u <= t
    BY <1>2 DEF IsGreatest
  <2> QED
    BY <1>2, <2>1 DEF IsGreatest, RunRow!Greatest, RunRow!NoTime
<1> QED
  BY <1>1, <1>2

LEMMA NullChangesNoBound ==
  ASSUME NEW t
  PROVE  RunRow!Least(t, RunRow!NoTime) = t /\ RunRow!Greatest(t, RunRow!NoTime) = t
  BY DEF RunRow!Least, RunRow!Greatest, RunRow!NoTime

LEMMA LeastIsEarliest ==
  ASSUME NEW S \in SUBSET Nat, NEW t, IsLeast(t, S)
  PROVE  t = RunRow!EarliestOf(S)
<1>1. CASE S = {}
  BY <1>1 DEF IsLeast, RunRow!EarliestOf
<1>2. CASE S # {}
  <2>1. t \in S /\ \A u \in S : t <= u
    BY <1>2 DEF IsLeast
  <2>2. ASSUME NEW x \in S, \A u \in S : x <= u
        PROVE  x = t
    BY <2>1, <2>2
  <2> QED
    BY <1>2, <2>1, <2>2 DEF RunRow!EarliestOf
<1> QED
  BY <1>1, <1>2

LEMMA GreatestIsLatest ==
  ASSUME NEW S \in SUBSET Nat, NEW t, IsGreatest(t, S)
  PROVE  t = RunRow!LatestOf(S)
<1>1. CASE S = {}
  BY <1>1 DEF IsGreatest, RunRow!LatestOf
<1>2. CASE S # {}
  <2>1. t \in S /\ \A u \in S : u <= t
    BY <1>2 DEF IsGreatest
  <2>2. ASSUME NEW x \in S, \A u \in S : u <= x
        PROVE  x = t
    BY <2>1, <2>2
  <2> QED
    BY <1>2, <2>1, <2>2 DEF RunRow!LatestOf
<1> QED
  BY <1>1, <1>2

LEMMA TimesOfMore ==
  ASSUME NEW S, NEW e
  PROVE  RunRow!TimesOf(S \cup {e}) = RunRow!TimesOf(S) \cup {e.at}
  BY DEF RunRow!TimesOf

-----------------------------------------------------------------------------
LEMMA RowStarts == ASSUME RunRow!RunRowAssumption, RunRow!Init PROVE RowInv
  BY DEF RunRow!Init, RunRow!Blank, RowInv, RunRow!TypeOK, RunRow!States, RunRow!NoTime,
         IsLeast, IsGreatest, Starts,
         RunRow!Terminals, RunRow!TimesOf, RunRow!StateIsFurthest, RunRow!TerminalStates

(* The states an event may carry, and what they weigh.                        *)
LEMMA EventStates ==
  ASSUME RunRow!RunRowAssumption, NEW e \in RunRow!Events
  PROVE  /\ RunRow!StateOf(e.type) \in RunRow!TerminalStates \cup {"RUNNING", RunRow!NoState}
         /\ e.type = "START" => RunRow!StateOf(e.type) = "RUNNING"
         /\ e.at \in Nat \ {0} /\ e.at \in Times
         /\ e.error \in Errors \cup {Nothing}
  BY DEF RunRow!Events, RunRow!EventTypes, RunRow!StateOf, RunRow!TerminalStates,
         RunRow!NoState, RunRow!RunRowAssumption

LEMMA IngestKeeps ==
  ASSUME RunRow!RunRowAssumption, RowInv, NEW e \in RunRow!Events, RunRow!Ingest(e)
  PROVE  RowInv'
<1> DEFINE new == RunRow!StateOf(e.type)
<1>1. /\ seen' = seen \cup {e} /\ seen \subseteq RunRow!Events
      /\ row.state \in RunRow!States
      /\ row.started \in Nat /\ row.ended \in Nat /\ row.first \in Nat /\ row.last \in Nat
  <2>1. seen' = seen \cup {e}
    BY DEF RunRow!Ingest
  <2>2. RunRow!TypeOK /\ Times \cup {RunRow!NoTime} \subseteq Nat
    BY DEF RowInv, RunRow!RunRowAssumption, RunRow!NoTime
  <2> QED
    BY <2>1, <2>2 DEF RunRow!TypeOK
<1>2. /\ row'.state = RunRow!NextState(row.state, new)
      /\ row'.started =
           RunRow!Least(row.started, IF e.type = "START" THEN e.at ELSE RunRow!NoTime)
      /\ row'.ended =
           RunRow!Greatest(row.ended,
                           IF new \in RunRow!TerminalStates THEN e.at ELSE RunRow!NoTime)
      /\ row'.first = RunRow!Least(row.first, e.at)
      /\ row'.last = RunRow!Greatest(row.last, e.at)
  BY DEF RunRow!Ingest, RunRow!Merge
<1>3. /\ RunRow!TimesOf(seen) \in SUBSET (Nat \ {0})
      /\ RunRow!TimesOf(Starts) \in SUBSET (Nat \ {0})
      /\ RunRow!TimesOf(RunRow!Terminals) \in SUBSET (Nat \ {0})
  BY <1>1, EventStates DEF RunRow!TimesOf, Starts, RunRow!Terminals
<1>4. RunRow!TypeOK'
  <2>1. RunRow!Merge(row, e).state \in RunRow!States
    BY <1>1, EventStates
       DEF RunRow!Merge, RunRow!NextState, RunRow!States, RunRow!TerminalStates, RunRow!NoState
  <2>2. /\ RunRow!Merge(row, e).started \in Times \cup {RunRow!NoTime}
        /\ RunRow!Merge(row, e).ended \in Times \cup {RunRow!NoTime}
        /\ RunRow!Merge(row, e).first \in Times \cup {RunRow!NoTime}
        /\ RunRow!Merge(row, e).last \in Times \cup {RunRow!NoTime}
    BY EventStates DEF RunRow!Merge, RunRow!Least, RunRow!Greatest, RowInv, RunRow!TypeOK
  <2>3. RunRow!Merge(row, e).error \in Errors \cup {Nothing}
        /\ RunRow!Merge(row, e).count \in Nat
    BY EventStates DEF RunRow!Merge, RunRow!Coalesce, RowInv, RunRow!TypeOK
  <2>4. row' = RunRow!Merge(row, e)
    BY DEF RunRow!Ingest
  <2> QED
    BY <1>1, <2>1, <2>2, <2>3, <2>4 DEF RunRow!TypeOK, RunRow!Merge
<1>5. IsLeast(row'.first, RunRow!TimesOf(seen')) /\ IsGreatest(row'.last, RunRow!TimesOf(seen'))
  BY <1>1, <1>2, <1>3, EventStates, TimesOfMore, LeastExtends, GreatestExtends DEF RowInv
<1>6. IsLeast(row'.started, RunRow!TimesOf(Starts)')
  <2>1. CASE e.type = "START"
    <3>1. Starts' = Starts \cup {e}
      BY <1>1, <2>1 DEF Starts
    <3>2. RunRow!TimesOf(Starts)' = RunRow!TimesOf(Starts) \cup {e.at}
      BY <3>1, TimesOfMore DEF RunRow!TimesOf
    <3> QED
      BY <1>2, <1>3, <2>1, <3>2, EventStates, LeastExtends DEF RowInv
  <2>2. CASE e.type # "START"
    <3>1. Starts' = Starts
      BY <1>1, <2>2 DEF Starts
    <3> QED
      BY <1>2, <2>2, <3>1, NullChangesNoBound DEF RowInv, RunRow!TimesOf
  <2> QED
    BY <2>1, <2>2
<1>7. IsGreatest(row'.ended, RunRow!TimesOf(RunRow!Terminals)')
  <2>1. CASE new \in RunRow!TerminalStates
    <3>1. RunRow!Terminals' = RunRow!Terminals \cup {e}
      BY <1>1, <2>1 DEF RunRow!Terminals
    <3>2. RunRow!TimesOf(RunRow!Terminals)' = RunRow!TimesOf(RunRow!Terminals) \cup {e.at}
      BY <3>1, TimesOfMore DEF RunRow!TimesOf
    <3> QED
      BY <1>2, <1>3, <2>1, <3>2, EventStates, GreatestExtends DEF RowInv
  <2>2. CASE new \notin RunRow!TerminalStates
    <3>1. RunRow!Terminals' = RunRow!Terminals
      BY <1>1, <2>2 DEF RunRow!Terminals
    <3> QED
      BY <1>2, <2>2, <3>1, NullChangesNoBound DEF RowInv, RunRow!TimesOf
  <2> QED
    BY <2>1, <2>2
<1>8. RunRow!StateIsFurthest'
  <2>1. /\ RunRow!Rank(row.state) <= RunRow!Rank(row'.state)
        /\ new # RunRow!NoState => RunRow!Rank(new) <= RunRow!Rank(row'.state)
        /\ row'.state = row.state \/ (new # RunRow!NoState /\ row'.state = new)
    BY <1>1, <1>2, EventStates
       DEF RunRow!NextState, RunRow!Rank, RunRow!States, RunRow!TerminalStates, RunRow!NoState
  <2>2. \A x \in seen' : RunRow!StateOf(x.type) # RunRow!NoState =>
          RunRow!Rank(RunRow!StateOf(x.type)) <= RunRow!Rank(row'.state)
    <3>1. \A x \in seen : RunRow!StateOf(x.type) # RunRow!NoState =>
            /\ RunRow!Rank(RunRow!StateOf(x.type)) \in Int
            /\ RunRow!Rank(RunRow!StateOf(x.type)) <= RunRow!Rank(row.state)
      BY <1>1, EventStates DEF RowInv, RunRow!StateIsFurthest, RunRow!Rank
    <3>2. RunRow!Rank(row.state) \in Int /\ RunRow!Rank(row'.state) \in Int
      BY DEF RunRow!Rank
    <3> QED
      BY <1>1, <2>1, <3>1, <3>2
  <2>3. row'.state # "UNKNOWN" => \E x \in seen' : RunRow!StateOf(x.type) = row'.state
    BY <1>1, <2>1 DEF RowInv, RunRow!StateIsFurthest
  <2>4. row'.state \in RunRow!TerminalStates <=> row'.ended # RunRow!NoTime
    <3>1. CASE new \in RunRow!TerminalStates
      <4>1. row'.state = new
        BY <1>1, <1>2, <3>1 DEF RunRow!NextState, RunRow!Rank, RunRow!States,
                                RunRow!TerminalStates, RunRow!NoState
      <4>2. row'.ended # RunRow!NoTime
        BY <1>1, <1>2, <3>1, EventStates DEF RunRow!Greatest, RunRow!NoTime
      <4> QED
        BY <3>1, <4>1, <4>2
    <3>2. CASE new \notin RunRow!TerminalStates
      <4>1. row'.ended = row.ended
        BY <1>2, <3>2, NullChangesNoBound
      <4>2. row'.state \in RunRow!TerminalStates <=> row.state \in RunRow!TerminalStates
        BY <1>1, <1>2, <3>2, EventStates
           DEF RunRow!NextState, RunRow!Rank, RunRow!States, RunRow!TerminalStates,
               RunRow!NoState
      <4> QED
        BY <4>1, <4>2 DEF RowInv, RunRow!StateIsFurthest
    <3> QED
      BY <3>1, <3>2
  <2> QED
    BY <2>2, <2>3, <2>4 DEF RunRow!StateIsFurthest
<1> QED
  BY <1>4, <1>5, <1>6, <1>7, <1>8 DEF RowInv, RunRow!TimesOf

LEMMA RowStep ==
  ASSUME RunRow!RunRowAssumption, RowInv, [RunRow!Next]_(RunRow!vars)
  PROVE  RowInv'
<1>1. CASE RunRow!Next
  BY <1>1, IngestKeeps DEF RunRow!Next
<1>2. CASE UNCHANGED RunRow!vars
  BY <1>2 DEF RunRow!vars, RowInv, RunRow!TypeOK, Starts, RunRow!Terminals,
              RunRow!TimesOf, IsLeast, IsGreatest, RunRow!StateIsFurthest
<1> QED
  BY <1>1, <1>2

LEMMA RowIsTold == ASSUME RunRow!RunRowAssumption, RowInv PROVE RunRow!RowIsOrderFree
<1>1. /\ RunRow!TimesOf(seen) \in SUBSET Nat /\ RunRow!TimesOf(Starts) \in SUBSET Nat
      /\ RunRow!TimesOf(RunRow!Terminals) \in SUBSET Nat
  BY EventStates DEF RowInv, RunRow!TypeOK, RunRow!TimesOf, Starts, RunRow!Terminals
<1>2. RunRow!BoundsAreOutermost
  BY <1>1, LeastIsEarliest, GreatestIsLatest
     DEF RowInv, RunRow!BoundsAreOutermost, Starts
<1> QED
  BY <1>2 DEF RowInv, RunRow!RowIsOrderFree

(* What is said stays said by a run that ends in one way only.               *)
LEMMA RowUnsaysNothing ==
  ASSUME RunRow!RunRowAssumption, \A a, b \in TerminalTypes : a = b, RowInv, RunRow!Next
  PROVE  RunRow!NothingUnsaid
<1>1. PICK e \in RunRow!Events : RunRow!Ingest(e)
  BY DEF RunRow!Next
<1>2. row.error # Nothing => row'.error # Nothing
  BY <1>1 DEF RunRow!Ingest, RunRow!Merge, RunRow!Coalesce
<1>3. ASSUME seen' = seen PROVE row'.state = row.state
  <2>1. e \in seen /\ row.state \in RunRow!States /\ seen \subseteq RunRow!Events
    BY <1>1, <1>3 DEF RunRow!Ingest, RowInv, RunRow!TypeOK
  <2>2. row'.state = RunRow!NextState(row.state, RunRow!StateOf(e.type))
    BY <1>1 DEF RunRow!Ingest, RunRow!Merge
  <2>3. CASE RunRow!StateOf(e.type) = RunRow!NoState
    BY <2>2, <2>3 DEF RunRow!NextState
  <2>4. CASE RunRow!StateOf(e.type) # RunRow!NoState
    <3>1. RunRow!Rank(RunRow!StateOf(e.type)) <= RunRow!Rank(row.state)
      BY <2>1, <2>4 DEF RowInv, RunRow!StateIsFurthest
    <3>2. PICK x \in seen : RunRow!StateOf(x.type) = row.state
      BY <2>1, <2>4, <3>1, EventStates
         DEF RowInv, RunRow!StateIsFurthest, RunRow!Rank, RunRow!States, RunRow!TerminalStates
    <3>3. x \in RunRow!Events
      BY <2>1, <3>2
    <3>4. RunRow!Rank(row.state) <= RunRow!Rank(RunRow!StateOf(e.type)) =>
            RunRow!StateOf(e.type) = row.state
      <4>1. CASE RunRow!StateOf(e.type) = "RUNNING"
        BY <2>1, <3>1, <4>1 DEF RunRow!Rank, RunRow!States
      <4>2. CASE RunRow!StateOf(e.type) \in RunRow!TerminalStates
        <5>1. RunRow!Rank(row.state) = 2 /\ row.state \in RunRow!TerminalStates
          BY <2>1, <3>1, <4>2 DEF RunRow!Rank, RunRow!States, RunRow!TerminalStates
        <5>2. x.type \in TerminalTypes /\ e.type \in TerminalTypes
          BY <3>2, <3>3, <4>2, <5>1
             DEF RunRow!Events, RunRow!EventTypes, RunRow!StateOf, RunRow!TerminalStates,
                 RunRow!NoState
        <5> QED
          BY <3>2, <5>2
      <4> QED
        BY <2>4, <4>1, <4>2, EventStates
    <3> QED
      BY <2>2, <3>4 DEF RunRow!NextState
  <2> QED
    BY <2>3, <2>4
<1> QED
  BY <1>2, <1>3 DEF RunRow!NothingUnsaid

HIDE DEF row, seen

(* For any event times, errors and terminal types and any number of         *)
(* deliveries, RowInv holds of a run's row: each bound is the least or       *)
(* greatest of what was heard, and the state the furthest (ingest.py         *)
(* _UPSERT_RUN).                                                            *)
THEOREM RowInvariant == Spec => [](part = "row" => RowInv)
<1> DEFINE Inv == part = "row" => RowInv
<1>1. Init => Inv
  BY RecordsAssumption, RowStarts DEF Init
<1>2. Inv /\ [Next]_all => Inv'
  <2>1. CASE UNCHANGED all
    <3>1. UNCHANGED <<part, RunRow!vars>>
      BY <2>1 DEF all, slots, RunRow!vars
    <3> QED
      BY <3>1, RecordsAssumption, RowStep
  <2>2. CASE Next
    <3>1. part' = part /\ (part = "row" => RunRow!Next)
      BY <2>2 DEF Next
    <3> QED
      BY <3>1, RecordsAssumption, RowStep
  <2> QED
    BY <2>1, <2>2
<1> QED
  BY <1>1, <1>2, PTL DEF Spec

(* A row is the same for every order and number of deliveries of its events; *)
(* and for a run whose producer ends it in one way only, an event already    *)
(* seen changes no state, and none takes an error back.                     *)
THEOREM RecordsRowIsOrderFree ==
  ASSUME \A a, b \in TerminalTypes : a = b
  PROVE  Spec => RowIsOrderFree
<1>1. (part = "row" => RowInv) => (part = "row" => RunRow!RowIsOrderFree)
  BY RecordsAssumption, RowIsTold
<1>2. ASSUME part = "row" => RowInv, [Next]_all
      PROVE  [part = "row" => RunRow!NothingUnsaid]_all
  <2>1. Next => (part = "row" => RunRow!Next)
    BY DEF Next
  <2> QED
    BY <1>2, <2>1, RecordsAssumption, RowUnsaysNothing
<1> QED
  BY <1>1, <1>2, RowInvariant, PTL DEF Spec, RowIsOrderFree

-----------------------------------------------------------------------------
(* Migrate: replicas that migrate together leave one schema, for any number   *)
(* of them, any files and any crashes.  The lock alone is not enough for that; *)
(* what a replica read must still be true when it applies.                   *)

advisory == v1
recorded == v2
stage == v3
done == v4
current == v5
crashes == v6
USE DEF advisory, recorded, stage, done, current, crashes

MigrateTypes ==
  /\ recorded = [v \in DOMAIN recorded |-> recorded[v]]
  /\ DOMAIN recorded \subseteq 1..Versions
  /\ stage \in [Replicas -> {"start", "locked", "applying", "serving", "refused", "collided"}]
  /\ current \in [Replicas -> Nat]
  /\ done = [p \in Replicas |-> done[p]]

\* The lock is the lock: whoever is at work holds it, and nobody else is.
OneAtWork == \A p \in Replicas : stage[p] \in {"locked", "applying"} <=> advisory = p

InForce(p, v) == v \in DOMAIN recorded /\ recorded[v] = Carried[p][v]

\* Up to where it is, a replica's files are in; from there on, the table is what
\* it read.
InStep(p) ==
  /\ current[p] \in 1..(Versions + 1)
  /\ \A v \in DOMAIN Carried[p] : v < current[p] => InForce(p, v)
  /\ \A v \in 1..Versions : v >= current[p] =>
       /\ v \in DOMAIN done[p] <=> v \in DOMAIN recorded
       /\ v \in DOMAIN recorded => done[p][v] = recorded[v]

MigrateInv ==
  /\ MigrateTypes
  /\ OneAtWork
  /\ \A p \in Replicas : stage[p] = "applying" => InStep(p)
  /\ Migrate!NobodyCollides
  /\ Migrate!ServesItsSchema

-----------------------------------------------------------------------------
(* No file that is in force goes out of force: a row is written only where     *)
(* there was none, or none with a text.                                       *)
LEMMA StaysInForce ==
  ASSUME Migrate!MigrateAssumption, NEW p \in Replicas, NEW v \in DOMAIN Carried[p],
         NEW w, NEW text, w \notin DOMAIN recorded \/ recorded[w] = Nothing,
         InForce(p, v)
  PROVE  v \in DOMAIN Migrate!With(w, text) /\ Migrate!With(w, text)[v] = Carried[p][v]
<1>1. w # v
  BY DEF InForce, Migrate!MigrateAssumption
<1>2. DOMAIN Migrate!With(w, text) = DOMAIN recorded \union {w}
  BY DEF Migrate!With
<1>3. Migrate!With(w, text)[v] = recorded[v]
  BY <1>1 DEF Migrate!With, InForce
<1> QED
  BY <1>2, <1>3 DEF InForce

LEMMA MigrateStarts == ASSUME Migrate!MigrateAssumption, Migrate!Init PROVE MigrateInv
<1>1. /\ recorded = [v \in DOMAIN recorded |-> recorded[v]]
      /\ DOMAIN recorded \subseteq 1..Versions
  <2>1. CASE recorded = <<>>
    BY <2>1
  <2>2. CASE recorded = [v \in {1} |-> Nothing]
    BY <2>2 DEF Migrate!MigrateAssumption
  <2> QED
    BY <2>1, <2>2 DEF Migrate!Init
<1>2. MigrateTypes
  BY <1>1 DEF Migrate!Init, MigrateTypes
<1>3. \A p \in Replicas : stage[p] = "start" /\ advisory # p
  BY DEF Migrate!Init, Migrate!MigrateAssumption
<1> QED
  BY <1>2, <1>3 DEF MigrateInv, OneAtWork, Migrate!NobodyCollides, Migrate!ServesItsSchema

LEMMA ApplyKeeps ==
  ASSUME Migrate!MigrateAssumption, MigrateInv, NEW p \in Replicas, Migrate!Apply(p)
  PROVE  MigrateInv'
<1>0. PICK v : v = current[p]
  OBVIOUS
<1>1. /\ stage[p] = "applying" /\ advisory = p
      /\ v \in 1..Versions /\ InStep(p)
      /\ \A q \in Replicas : q # p => stage[q] \notin {"locked", "applying"}
      /\ Nothing \notin Replicas
  <2>1. stage[p] = "applying" /\ v <= Versions
    BY <1>0 DEF Migrate!Apply
  <2>2. InStep(p)
    BY <2>1 DEF MigrateInv
  <2> QED
    BY <1>0, <2>1, <2>2 DEF InStep, MigrateInv, OneAtWork, Migrate!MigrateAssumption
<1>2. v \in DOMAIN done[p] <=> v \in DOMAIN recorded
  BY <1>0, <1>1 DEF InStep
<1>3. v \in DOMAIN recorded => done[p][v] = recorded[v]
  BY <1>0, <1>1 DEF InStep
<1>4. done' = done
  BY DEF Migrate!Apply
\* Whatever is written is written where no text was.
<1>5. \/ recorded' = recorded
      \/ /\ v \in DOMAIN Carried[p]
         /\ v \notin DOMAIN recorded \/ recorded[v] = Nothing
         /\ recorded' = Migrate!With(v, Carried[p][v])
  BY <1>0, <1>1, <1>2, <1>3 DEF Migrate!Apply
<1>6. /\ recorded' = [w \in DOMAIN recorded' |-> recorded'[w]]
      /\ DOMAIN recorded' \subseteq 1..Versions
      /\ \A w \in DOMAIN recorded : w \in DOMAIN recorded'
      /\ \A w \in 1..Versions : w # v =>
           /\ w \in DOMAIN recorded' <=> w \in DOMAIN recorded
           /\ w \in DOMAIN recorded => recorded'[w] = recorded[w]
  <2>1. CASE recorded' = recorded
    BY <2>1 DEF MigrateInv, MigrateTypes
  <2>2. CASE recorded' = Migrate!With(v, Carried[p][v])
    BY <1>1, <2>2 DEF Migrate!With, MigrateInv, MigrateTypes
  <2> QED
    BY <1>5, <2>1, <2>2
<1>7. \A q \in Replicas : \A w \in DOMAIN Carried[q] : InForce(q, w) => InForce(q, w)'
  <2>1. CASE recorded' = recorded
    BY <2>1 DEF InForce
  <2>2. CASE recorded' # recorded
    BY <1>5, <2>2, StaysInForce DEF InForce
  <2> QED
    BY <2>1, <2>2
<1>8. \/ /\ stage' = [stage EXCEPT ![p] = "refused"] /\ advisory' = Nothing
         /\ UNCHANGED <<recorded, current>>
      \/ /\ UNCHANGED <<stage, advisory>>
         /\ current' = [current EXCEPT ![p] = v + 1]
         /\ v \in DOMAIN Carried[p] => InForce(p, v)'
  <2>1. CASE v \in DOMAIN Carried[p] /\ v \in DOMAIN done[p] /\ Migrate!Drifted(p, v)
    BY <1>0, <2>1 DEF Migrate!Apply
  <2>2. CASE v \notin DOMAIN Carried[p]
    BY <1>0, <2>2 DEF Migrate!Apply
  <2>3. CASE v \in DOMAIN Carried[p] /\ v \in DOMAIN done[p] /\ ~Migrate!Drifted(p, v)
    <3>1. /\ UNCHANGED <<stage, advisory>>
          /\ current' = [current EXCEPT ![p] = v + 1]
          /\ recorded' =
               IF done[p][v] = Nothing THEN Migrate!With(v, Carried[p][v]) ELSE recorded
      BY <1>0, <2>3 DEF Migrate!Apply
    <3>2. InForce(p, v)'
      BY <3>1, <2>3, <1>2, <1>3 DEF Migrate!With, Migrate!Drifted, InForce
    <3> QED
      BY <3>1, <3>2
  <2>4. CASE v \in DOMAIN Carried[p] /\ v \notin DOMAIN done[p]
    <3>1. /\ UNCHANGED <<stage, advisory>>
          /\ current' = [current EXCEPT ![p] = v + 1]
          /\ recorded' = Migrate!With(v, Carried[p][v])
      BY <1>0, <2>4, <1>2 DEF Migrate!Apply
    <3>2. InForce(p, v)'
      BY <3>1 DEF Migrate!With, InForce
    <3> QED
      BY <3>1, <3>2
  <2> QED
    BY <2>1, <2>2, <2>3, <2>4
<1>9. MigrateTypes'
  BY <1>1, <1>4, <1>6, <1>8 DEF MigrateInv, MigrateTypes
<1>10. OneAtWork'
  BY <1>1, <1>8 DEF MigrateInv, MigrateTypes, OneAtWork
<1>11. ASSUME NEW q \in Replicas, stage'[q] = "applying"
       PROVE  InStep(q)'
  <2>1. q = p /\ UNCHANGED <<stage, advisory>> /\ current'[p] = v + 1
        /\ (v \in DOMAIN Carried[p] => InForce(p, v)')
    BY <1>1, <1>8, <1>11 DEF MigrateInv, MigrateTypes
  <2>2. current'[p] \in 1..(Versions + 1)
    BY <1>1, <2>1 DEF Migrate!MigrateAssumption
  <2>3. \A w \in DOMAIN Carried[p] : w < v + 1 => InForce(p, w)'
    <3>1. ASSUME NEW w \in DOMAIN Carried[p], w < v + 1 PROVE InForce(p, w)'
      <4>1. w \in 1..Versions
        BY DEF Migrate!MigrateAssumption
      <4>2. CASE w = v
        BY <2>1, <4>2
      <4>3. CASE w < v
        BY <1>0, <1>1, <1>7, <4>3 DEF InStep
      <4> QED
        BY <1>1, <3>1, <4>1, <4>2, <4>3
    <3> QED
      BY <3>1
  <2>4. \A w \in 1..Versions : w >= v + 1 =>
          /\ w \in DOMAIN done'[p] <=> w \in DOMAIN recorded'
          /\ w \in DOMAIN recorded' => done'[p][w] = recorded'[w]
    BY <1>0, <1>1, <1>4, <1>6 DEF InStep
  <2> QED
    BY <2>1, <2>2, <2>3, <2>4 DEF InStep, InForce
<1>12. Migrate!NobodyCollides'
  BY <1>8 DEF MigrateInv, MigrateTypes, Migrate!NobodyCollides
<1>13. Migrate!ServesItsSchema'
  BY <1>7, <1>8 DEF MigrateInv, MigrateTypes, Migrate!ServesItsSchema, InForce
<1> QED
  BY <1>9, <1>10, <1>11, <1>12, <1>13 DEF MigrateInv

LEMMA MigrateStep ==
  ASSUME Migrate!MigrateAssumption, MigrateInv, [Migrate!Next]_(Migrate!vars)
  PROVE  MigrateInv'
<1>1. ASSUME NEW p \in Replicas, Migrate!Lock(p)
      PROVE  MigrateInv'
  BY <1>1 DEF Migrate!Lock, Migrate!LockFree, MigrateInv, MigrateTypes, OneAtWork, InStep,
              InForce,
              Migrate!NobodyCollides, Migrate!ServesItsSchema, Migrate!MigrateAssumption
<1>2. ASSUME NEW p \in Replicas, Migrate!Read(p)
      PROVE  MigrateInv'
  <2>1. MigrateTypes' /\ OneAtWork' /\ Migrate!NobodyCollides' /\ Migrate!ServesItsSchema'
    BY <1>2 DEF Migrate!Read, MigrateInv, MigrateTypes, OneAtWork, Migrate!NobodyCollides,
                Migrate!ServesItsSchema
  <2>2. ASSUME NEW q \in Replicas, stage'[q] = "applying"
        PROVE  InStep(q)'
    <3>1. CASE q = p
      BY <1>2, <3>1 DEF Migrate!Read, MigrateInv, MigrateTypes, InStep,
                        Migrate!MigrateAssumption
    <3>2. CASE q # p
      BY <1>2, <2>2, <3>2 DEF Migrate!Read, MigrateInv, MigrateTypes, OneAtWork
    <3> QED
      BY <3>1, <3>2
  <2> QED
    BY <2>1, <2>2 DEF MigrateInv
<1>3. ASSUME NEW p \in Replicas, Migrate!Unlock(p)
      PROVE  MigrateInv'
  <2>1. InStep(p) /\ current[p] = Versions + 1
    BY <1>3 DEF Migrate!Unlock, MigrateInv
  <2>2. \A v \in DOMAIN Carried[p] : InForce(p, v)
    BY <2>1 DEF InStep, Migrate!MigrateAssumption
  <2>3. MigrateTypes' /\ OneAtWork' /\ Migrate!NobodyCollides'
    BY <1>3 DEF Migrate!Unlock, MigrateInv, MigrateTypes, OneAtWork,
                Migrate!NobodyCollides, Migrate!MigrateAssumption
  <2>4. Migrate!ServesItsSchema'
    BY <1>3, <2>2 DEF Migrate!Unlock, MigrateInv, MigrateTypes, Migrate!ServesItsSchema, InForce
  <2>5. \A q \in Replicas : stage'[q] = "applying" => InStep(q)'
    BY <1>3 DEF Migrate!Unlock, MigrateInv, MigrateTypes, InStep, InForce
  <2> QED
    BY <2>3, <2>4, <2>5 DEF MigrateInv
<1>4. ASSUME NEW p \in Replicas, Migrate!Crash(p)
      PROVE  MigrateInv'
  BY <1>4 DEF Migrate!Crash, MigrateInv, MigrateTypes, OneAtWork, InStep, InForce,
              Migrate!NobodyCollides, Migrate!ServesItsSchema, Migrate!MigrateAssumption
<1>5. CASE UNCHANGED Migrate!vars
  BY <1>5 DEF Migrate!vars, MigrateInv, MigrateTypes, OneAtWork, InStep, InForce,
              Migrate!NobodyCollides,
              Migrate!ServesItsSchema
<1> QED
  BY <1>1, <1>2, <1>3, <1>4, <1>5, ApplyKeeps DEF Migrate!Next

HIDE DEF advisory, recorded, stage, done, current, crashes

(* However many replicas start together, with whatever files, and die where    *)
(* they will: no migration runs twice, and none serves on less than its files. *)
(* MigrateInv is inductive: one replica is at work at a time, and what it read  *)
(* is still true of every migration it has yet to reach (db.py migrate).       *)
THEOREM RecordsMigratedOnce == Spec => []MigratedOnce
<1> DEFINE Inv == part = "migrate" => MigrateInv
<1>1. Init => Inv
  BY RecordsAssumption, MigrateStarts DEF Init
<1>2. Inv /\ [Next]_all => Inv'
  <2>1. CASE UNCHANGED all
    <3>1. UNCHANGED <<part, Migrate!vars>>
      BY <2>1 DEF all, slots, Migrate!vars
    <3>2. part = "migrate" => (MigrateInv => MigrateInv')
      BY <3>1, RecordsAssumption, MigrateStep
    <3> QED
      BY <3>1, <3>2
  <2>2. CASE Next
    <3>1. part' = part /\ (part = "migrate" => Migrate!Next)
      BY <2>2 DEF Next
    <3> QED
      BY <3>1, RecordsAssumption, MigrateStep
  <2> QED
    BY <2>1, <2>2
<1>3. Inv => MigratedOnce
  BY DEF MigrateInv, MigratedOnce, Migrate!MigratedOnce
<1> QED
  BY <1>1, <1>2, <1>3, PTL DEF Spec

-----------------------------------------------------------------------------
(* Artifacts: a file is under its digest before it is recorded, and what is     *)
(* under a digest is replaced and never taken away.  A file belongs to one     *)
(* digest; unless two gateways had its .tmp at once, it is whole when it is     *)
(* renamed, and whoever left it short has it open or was killed.               *)

store == v1
pc == v2
upload == v3
handle == v4
files == v5
temporary == v6
stored == v7
artifacts == v8
sharedBy == v9
cutShort == v10
uploads == v11
USE DEF store, pc, upload, handle, files, temporary, stored, artifacts, sharedBy, cutShort,
        uploads

\* There are as many files as were created.
ArtifactTypes ==
  /\ pc = [g \in Gateways |-> pc[g]] /\ upload = [g \in Gateways |-> upload[g]]
  /\ handle \in [Gateways -> Nat]
  /\ stored \in [Digests -> Nat] /\ temporary \in [Digests -> Nat]
  /\ \E n \in Nat : DOMAIN files = 1..n
  /\ \A f \in DOMAIN files : files[f] \in {"none", "all"}
  /\ \A g \in Gateways : pc[g] # "idle" => upload[g].digest \in Digests
  /\ \A d \in Digests : /\ stored[d] # 0 => stored[d] \in DOMAIN files
                        /\ temporary[d] # 0 => temporary[d] \in DOMAIN files
  /\ \A g \in Gateways : /\ pc[g] = "fill" => handle[g] \in DOMAIN files
                         /\ pc[g] # "fill" => handle[g] = 0

\* Files of different digests differ, and the one to be renamed is not yet named.
FilesApart ==
  /\ \A c, d \in Digests : temporary[c] # 0 => stored[d] # temporary[c]
  /\ \A c, d \in Digests : temporary[c] # 0 /\ temporary[d] = temporary[c] => c = d
  /\ \A c, d \in Digests : stored[c] # 0 /\ stored[d] = stored[c] => c = d
  /\ \A g \in Gateways, d \in Digests :
       pc[g] = "fill" /\ d # upload[g].digest => handle[g] # temporary[d] /\ handle[g] # stored[d]

\* One writes a file alone unless it is known to be shared, and it becomes whole.
WrittenAlone ==
  \A d \in Digests \ sharedBy :
    /\ stored[d] # 0 => files[stored[d]] = "all"
    /\ \A g, h \in Gateways : Artifacts!Writing(g, d) /\ Artifacts!Writing(h, d) => g = h
    /\ \A g \in Gateways : Artifacts!Writing(g, d) =>
         /\ temporary[d] # 0
         /\ IF pc[g] = "fill" THEN handle[g] = temporary[d] ELSE files[temporary[d]] = "all"

LeftByOne ==
  \A f \in DOMAIN files :
    files[f] = "none" => f \in cutShort \/ \E g \in Gateways : handle[g] = f

RecordedAfter ==
  /\ \A g \in Gateways : pc[g] = "record" => stored[upload[g].digest] # 0
  /\ \A n \in DOMAIN artifacts : artifacts[n] \in Digests /\ stored[artifacts[n]] # 0

ArtifactsInv == ArtifactTypes /\ FilesApart /\ WrittenAlone /\ LeftByOne /\ RecordedAfter

LEMMA NextFile ==
  ASSUME NEW n \in Nat, DOMAIN files = 1..n
  PROVE  /\ Artifacts!Cardinality(DOMAIN files) + 1 = n + 1
         /\ (1..n) \union {n + 1} = 1..(n + 1) /\ n + 1 \notin 1..n
<1>1. Artifacts!Cardinality(DOMAIN files) = Cardinality(DOMAIN files)
  BY DEF Artifacts!Cardinality, Cardinality
<1>2. Cardinality(1..n) = n
  BY FS_Interval
<1> QED
  BY <1>1, <1>2

LEMMA ArtifactsStart ==
  ASSUME Artifacts!Init
  PROVE  ArtifactsInv
<1>1. /\ pc = [g \in Gateways |-> "idle"] /\ handle = [g \in Gateways |-> 0]
      /\ upload = [g \in Gateways |-> Artifacts!NoUpload]
      /\ temporary = [d \in Digests |-> 0] /\ stored = [d \in Digests |-> 0]
      /\ DOMAIN artifacts = {} /\ DOMAIN files = {}
  BY DEF Artifacts!Init, Artifacts!None
<1>2. {} = 1..0
  OBVIOUS
<1>3. ArtifactTypes
  BY <1>1, <1>2 DEF ArtifactTypes
<1> QED
  BY <1>1, <1>3 DEF ArtifactsInv, FilesApart, WrittenAlone, LeftByOne, RecordedAfter,
     Artifacts!Writing

(* What the invariant says of a download.                                      *)
LEMMA DownloadsAre ==
  ASSUME ArtifactsInv PROVE Artifacts!BytesAreKept
<1> SUFFICES ASSUME NEW n \in DOMAIN artifacts
             PROVE  \/ Artifacts!Download(n) = "right"
                    \/ /\ Artifacts!Download(n) = "corrupt" /\ artifacts[n] \in sharedBy
                       /\ \/ stored[artifacts[n]] \in cutShort
                          \/ \E g \in Gateways : handle[g] = stored[artifacts[n]]
  BY DEF Artifacts!BytesAreKept
<1> DEFINE d == artifacts[n]
           f == stored[d]
<1>1. d \in Digests /\ f # 0
  BY DEF ArtifactsInv, RecordedAfter
<1>2. f \in DOMAIN files /\ files[f] \in {"none", "all"}
  BY <1>1 DEF ArtifactsInv, ArtifactTypes
<1>3. CASE files[f] = "all"
  BY <1>1, <1>3 DEF Artifacts!Download, Artifacts!Verified, Artifacts!None
<1>4. CASE files[f] = "none"
  <2>1. Artifacts!Download(n) = "corrupt"
    BY <1>1, <1>4 DEF Artifacts!Download, Artifacts!Verified, Artifacts!None
  <2>2. d \in sharedBy
    BY <1>1, <1>4 DEF ArtifactsInv, WrittenAlone
  <2>3. f \in cutShort \/ \E g \in Gateways : handle[g] = f
    BY <1>2, <1>4 DEF ArtifactsInv, LeftByOne
  <2> QED
    BY <2>1, <2>2, <2>3
<1> QED
  BY <1>2, <1>3, <1>4

LEMMA BeginKeeps ==
  ASSUME ArtifactsInv, NEW g \in Gateways, Artifacts!Begin(g) PROVE ArtifactsInv'
<1>1. PICK n \in Names, d \in Digests : upload' = [upload EXCEPT ![g] = [name |-> n, digest |-> d]]
  BY DEF Artifacts!Begin
<1>2. /\ UNCHANGED <<handle, files, temporary, stored, artifacts, sharedBy, cutShort>>
      /\ pc[g] = "idle" /\ pc' = [pc EXCEPT ![g] = "put"]
  BY DEF Artifacts!Begin, Artifacts!After
<1>3. /\ pc'[g] = "put" /\ upload'[g].digest = d
      /\ \A h \in Gateways \ {g} : pc'[h] = pc[h] /\ upload'[h] = upload[h]
  BY <1>1, <1>2 DEF ArtifactsInv, ArtifactTypes
<1>4. ArtifactTypes'
  BY <1>1, <1>2, <1>3 DEF ArtifactsInv, ArtifactTypes
<1>5. FilesApart'
  BY <1>2, <1>3 DEF ArtifactsInv, FilesApart
<1>6. WrittenAlone'
  BY <1>2, <1>3 DEF ArtifactsInv, WrittenAlone, Artifacts!Writing
<1>7. LeftByOne' /\ RecordedAfter'
  BY <1>2, <1>3 DEF ArtifactsInv, LeftByOne, RecordedAfter
<1> QED
  BY <1>4, <1>5, <1>6, <1>7 DEF ArtifactsInv

\* A gateway goes on, not to write, with what it had and with nothing open.
LEMMA GoesOn ==
  ASSUME ArtifactsInv, NEW g \in Gateways, pc[g] # "fill",
         UNCHANGED <<upload, handle, files, temporary, stored, artifacts, sharedBy, cutShort>>,
         NEW next, next \notin {"fill", "rename"}, pc' = [pc EXCEPT ![g] = next],
         pc[g] = "idle" => next = "idle",
         next = "record" => stored[upload[g].digest] # 0
  PROVE  ArtifactsInv'
<1>1. pc'[g] = next /\ \A h \in Gateways \ {g} : pc'[h] = pc[h]
  BY DEF ArtifactsInv, ArtifactTypes
<1>2. ArtifactTypes'
  BY <1>1 DEF ArtifactsInv, ArtifactTypes
<1>3. FilesApart' /\ LeftByOne' /\ RecordedAfter'
  BY <1>1 DEF ArtifactsInv, FilesApart, LeftByOne, RecordedAfter
<1>4. WrittenAlone'
  BY <1>1 DEF ArtifactsInv, WrittenAlone, Artifacts!Writing
<1> QED
  BY <1>2, <1>3, <1>4 DEF ArtifactsInv

LEMMA PutS3Keeps ==
  ASSUME ArtifactsInv, NEW g \in Gateways, Artifacts!PutS3(g) PROVE ArtifactsInv'
<1> DEFINE d == upload[g].digest
<1>0. ArtifactTypes
  BY DEF ArtifactsInv
<1>1. PICK n \in Nat : DOMAIN files = 1..n
  BY <1>0 DEF ArtifactTypes
<1> DEFINE new == n + 1
<1>2. /\ Artifacts!Cardinality(DOMAIN files) + 1 = new
      /\ (1..n) \union {new} = 1..new /\ new \notin 1..n /\ new \in Nat \ {0}
  BY <1>1, NextFile
<1>3. /\ UNCHANGED <<upload, handle, temporary, artifacts, sharedBy, cutShort>>
      /\ pc[g] = "put" /\ pc' = [pc EXCEPT ![g] = "record"]
      /\ \/ stored[d] # 0 /\ UNCHANGED <<files, stored>>
         \/ /\ stored[d] = 0 /\ stored' = [stored EXCEPT ![d] = new]
            /\ files' = [f \in 1..new |-> IF f = new THEN "all" ELSE files[f]]
  <2> HIDE DEF new
  <2> QED
    BY <1>1, <1>2 DEF Artifacts!PutS3, Artifacts!After, Artifacts!None
<1> HIDE DEF new
<1>4. d \in Digests
  BY <1>0, <1>3 DEF ArtifactTypes
<1>5. CASE stored[d] # 0 /\ UNCHANGED <<files, stored>>
  BY <1>3, <1>5, GoesOn
<1>6. CASE /\ stored[d] = 0 /\ stored' = [stored EXCEPT ![d] = new]
           /\ files' = [f \in 1..new |-> IF f = new THEN "all" ELSE files[f]]
  <2>1. /\ pc'[g] = "record" /\ \A h \in Gateways \ {g} : pc'[h] = pc[h]
        /\ stored'[d] = new /\ \A c \in Digests \ {d} : stored'[c] = stored[c]
        /\ DOMAIN files' = 1..new /\ files'[new] = "all"
        /\ \A f \in DOMAIN files : f \in DOMAIN files' /\ f # new /\ files'[f] = files[f]
        /\ \A f \in DOMAIN files' : f = new \/ f \in DOMAIN files
    BY <1>0, <1>1, <1>2, <1>3, <1>4, <1>6 DEF ArtifactTypes
  <2>2. ArtifactTypes'
    BY <1>0, <1>2, <1>3, <1>4, <1>6, <2>1 DEF ArtifactTypes
  <2>3. FilesApart'
    <3>1. /\ \A c \in Digests : temporary[c] # new /\ stored[c] # new
          /\ \A h \in Gateways : handle[h] # new
      BY <1>0, <1>2, <2>1 DEF ArtifactTypes
    <3>2. FilesApart
      BY DEF ArtifactsInv
    <3>3. temporary' = temporary /\ handle' = handle /\ upload' = upload
      BY <1>3
    <3>4. /\ \A b, c \in Digests : temporary[c] # 0 => stored'[b] # temporary[c]
          /\ \A b, c \in Digests : stored'[c] # 0 /\ stored'[b] = stored'[c] => c = b
      BY <1>4, <2>1, <3>1, <3>2 DEF FilesApart
    <3>5. \A h \in Gateways, c \in Digests :
            pc'[h] = "fill" /\ c # upload[h].digest => handle[h] # temporary[c] /\ handle[h] # stored'[c]
      BY <1>4, <2>1, <3>1, <3>2 DEF FilesApart
    <3> QED
      BY <3>2, <3>3, <3>4, <3>5 DEF FilesApart
  <2>4. WrittenAlone'
    BY <1>0, <1>3, <1>4, <2>1 DEF ArtifactsInv, ArtifactTypes, WrittenAlone, Artifacts!Writing
  <2>5. LeftByOne'
    BY <1>3, <2>1 DEF ArtifactsInv, LeftByOne
  <2>6. RecordedAfter'
    BY <1>0, <1>2, <1>3, <1>4, <2>1 DEF ArtifactsInv, ArtifactTypes, RecordedAfter
  <2> QED
    BY <2>2, <2>3, <2>4, <2>5, <2>6 DEF ArtifactsInv
<1> QED
  BY <1>3, <1>5, <1>6

LEMMA OpenKeeps ==
  ASSUME ArtifactsInv, NEW g \in Gateways, Artifacts!Open(g) PROVE ArtifactsInv'
<1> DEFINE d == upload[g].digest
<1>0. ArtifactTypes
  BY DEF ArtifactsInv
<1>1. PICK n \in Nat : DOMAIN files = 1..n
  BY <1>0 DEF ArtifactTypes
<1> DEFINE f == IF temporary[d] # 0 THEN temporary[d] ELSE n + 1
<1>2. /\ Artifacts!Cardinality(DOMAIN files) + 1 = n + 1
      /\ (1..n) \union {n + 1} = 1..(n + 1) /\ n + 1 \notin 1..n
  BY <1>1, NextFile
<1>3. /\ UNCHANGED <<upload, stored, artifacts, cutShort>>
      /\ pc[g] = "open" /\ pc' = [pc EXCEPT ![g] = "fill"]
      /\ files' = [e \in DOMAIN files \union {f} |-> IF e = f THEN "none" ELSE files[e]]
      /\ temporary' = [temporary EXCEPT ![d] = f] /\ handle' = [handle EXCEPT ![g] = f]
      /\ sharedBy' = IF \E h \in Gateways \ {g} : Artifacts!Writing(h, d)
                     THEN sharedBy \union {d} ELSE sharedBy
  BY <1>2 DEF Artifacts!Open, Artifacts!After, Artifacts!None
<1>4. d \in Digests
  BY <1>0, <1>3 DEF ArtifactTypes
<1>5. /\ f \in Nat \ {0} /\ f \in DOMAIN files'
      /\ temporary[d] = 0 => f \notin DOMAIN files
      /\ temporary[d] # 0 => f = temporary[d] /\ f \in DOMAIN files
      /\ \E m \in Nat : DOMAIN files' = 1..m
  <2>1. CASE temporary[d] # 0
    BY <1>0, <1>1, <1>3, <1>4, <2>1 DEF ArtifactTypes
  <2>2. CASE temporary[d] = 0
    BY <1>1, <1>2, <1>3, <2>2
  <2> QED
    BY <2>1, <2>2
<1> HIDE DEF f
<1>6. /\ pc'[g] = "fill" /\ \A h \in Gateways \ {g} : pc'[h] = pc[h]
      /\ handle'[g] = f /\ \A h \in Gateways \ {g} : handle'[h] = handle[h]
      /\ handle[g] = 0
      /\ temporary'[d] = f /\ \A c \in Digests \ {d} : temporary'[c] = temporary[c]
      /\ files'[f] = "none" /\ \A e \in DOMAIN files \ {f} : files'[e] = files[e]
      /\ DOMAIN files' = DOMAIN files \union {f}
  BY <1>0, <1>3, <1>4 DEF ArtifactTypes
<1>7. /\ \A c \in Digests : stored[c] # f
      /\ \A c \in Digests \ {d} : temporary[c] # f
      /\ \A h \in Gateways : pc[h] = "fill" /\ upload[h].digest # d => handle[h] # f
  BY <1>0, <1>4, <1>5 DEF ArtifactsInv, ArtifactTypes, FilesApart
<1>8. ArtifactTypes'
  <2>1. /\ handle' \in [Gateways -> Nat] /\ temporary' \in [Digests -> Nat]
        /\ pc' = [h \in Gateways |-> pc'[h]]
    BY <1>0, <1>3, <1>4, <1>5 DEF ArtifactTypes
  <2> QED
    BY <1>0, <1>3, <1>4, <1>5, <1>6, <2>1 DEF ArtifactTypes
<1>9. FilesApart'
  BY <1>0, <1>3, <1>4, <1>5, <1>6, <1>7 DEF ArtifactsInv, ArtifactTypes, FilesApart
<1>10. WrittenAlone'
  <2> SUFFICES ASSUME NEW c \in Digests, c \notin sharedBy'
               PROVE  /\ stored[c] # 0 => files'[stored[c]] = "all"
                      /\ \A h, k \in Gateways : Artifacts!Writing(h, c)' /\ Artifacts!Writing(k, c)' => h = k
                      /\ \A h \in Gateways : Artifacts!Writing(h, c)' =>
                           /\ temporary'[c] # 0
                           /\ IF pc'[h] = "fill" THEN handle'[h] = temporary'[c]
                              ELSE files'[temporary'[c]] = "all"
    BY <1>3 DEF WrittenAlone
  <2>1. c \notin sharedBy /\ (c = d => \A h \in Gateways \ {g} : ~Artifacts!Writing(h, d))
    BY <1>3
  <2>2. stored[c] # 0 => files'[stored[c]] = "all"
    BY <1>0, <1>6, <1>7, <2>1 DEF ArtifactsInv, ArtifactTypes, WrittenAlone
  <2>3. \A h \in Gateways : Artifacts!Writing(h, c)' <=> IF h = g THEN c = d ELSE Artifacts!Writing(h, c)
    BY <1>3, <1>6 DEF Artifacts!Writing
  <2>4. CASE c = d
    BY <1>5, <1>6, <2>1, <2>2, <2>3, <2>4
  <2>5. CASE c # d
    BY <1>0, <1>5, <1>6, <1>7, <2>1, <2>2, <2>3, <2>5
       DEF ArtifactsInv, ArtifactTypes, WrittenAlone
  <2> QED
    BY <2>4, <2>5
<1>11. LeftByOne'
  <2> SUFFICES ASSUME NEW e \in DOMAIN files', files'[e] = "none"
               PROVE  e \in cutShort' \/ \E h \in Gateways : handle'[h] = e
    BY DEF LeftByOne
  <2>1. CASE e = f
    BY <1>6, <2>1
  <2>2. CASE e # f
    <3>1. e \in DOMAIN files /\ files[e] = "none" /\ e # 0
      BY <1>1, <1>6, <2>2
    <3>2. e \in cutShort \/ \E h \in Gateways : handle[h] = e
      BY <3>1 DEF ArtifactsInv, LeftByOne
    <3> QED
      BY <1>3, <1>6, <3>1, <3>2
  <2> QED
    BY <2>1, <2>2
<1>12. RecordedAfter'
  BY <1>3, <1>6 DEF ArtifactsInv, RecordedAfter
<1> QED
  BY <1>8, <1>9, <1>10, <1>11, <1>12 DEF ArtifactsInv

LEMMA FillKeeps ==
  ASSUME ArtifactsInv, NEW g \in Gateways, Artifacts!Fill(g) PROVE ArtifactsInv'
<1> DEFINE f == handle[g]
<1>0. ArtifactTypes
  BY DEF ArtifactsInv
<1>1. /\ UNCHANGED <<upload, temporary, stored, artifacts, sharedBy, cutShort>>
      /\ pc[g] = "fill" /\ pc' = [pc EXCEPT ![g] = "rename"]
      /\ files' = [files EXCEPT ![f] = "all"] /\ handle' = [handle EXCEPT ![g] = 0]
  BY DEF Artifacts!Fill, Artifacts!After, Artifacts!None
<1>2. /\ f \in DOMAIN files /\ DOMAIN files' = DOMAIN files /\ files'[f] = "all"
      /\ \A e \in DOMAIN files \ {f} : files'[e] = files[e]
      /\ pc'[g] = "rename" /\ \A h \in Gateways \ {g} : pc'[h] = pc[h]
      /\ handle'[g] = 0 /\ \A h \in Gateways \ {g} : handle'[h] = handle[h]
  BY <1>0, <1>1 DEF ArtifactTypes
<1>3. ArtifactTypes'
  <2>1. handle' \in [Gateways -> Nat] /\ pc' = [h \in Gateways |-> pc'[h]]
    BY <1>0, <1>1 DEF ArtifactTypes
  <2> QED
    BY <1>0, <1>1, <1>2, <2>1 DEF ArtifactTypes
<1>4. FilesApart'
  BY <1>0, <1>1, <1>2 DEF ArtifactsInv, ArtifactTypes, FilesApart
<1>5. WrittenAlone'
  <2>1. \A d \in Digests, h \in Gateways : Artifacts!Writing(h, d)' <=> Artifacts!Writing(h, d)
    BY <1>1, <1>2 DEF Artifacts!Writing
  <2>2. \A e \in DOMAIN files : files[e] = "all" => files'[e] = "all"
    BY <1>2
  <2>3. \A d \in Digests : Artifacts!Writing(g, d) /\ d \notin sharedBy => temporary[d] = f
    BY <1>1 DEF ArtifactsInv, WrittenAlone
  <2> QED
    BY <1>0, <1>1, <1>2, <2>1, <2>2, <2>3 DEF ArtifactsInv, ArtifactTypes, WrittenAlone
<1>6. LeftByOne'
  <2> SUFFICES ASSUME NEW e \in DOMAIN files', files'[e] = "none"
               PROVE  e \in cutShort' \/ \E h \in Gateways : handle'[h] = e
    BY DEF LeftByOne
  <2>1. e # f /\ e \in DOMAIN files /\ files[e] = "none"
    BY <1>2
  <2>2. e \in cutShort \/ \E h \in Gateways : handle[h] = e
    BY <2>1 DEF ArtifactsInv, LeftByOne
  <2> QED
    BY <1>1, <1>2, <2>1, <2>2
<1>7. RecordedAfter'
  BY <1>1, <1>2 DEF ArtifactsInv, RecordedAfter
<1> QED
  BY <1>3, <1>4, <1>5, <1>6, <1>7 DEF ArtifactsInv

LEMMA RenameKeeps ==
  ASSUME ArtifactsInv, NEW g \in Gateways, Artifacts!Rename(g) PROVE ArtifactsInv'
<1> DEFINE d == upload[g].digest
           f == temporary[d]
<1>0. ArtifactTypes
  BY DEF ArtifactsInv
<1>1. /\ UNCHANGED <<upload, handle, files, artifacts, sharedBy, cutShort>> /\ pc[g] = "rename"
      /\ \/ pc' = [pc EXCEPT ![g] = "idle"] /\ UNCHANGED <<temporary, stored>>
         \/ /\ f # 0 /\ stored' = [stored EXCEPT ![d] = f]
            /\ temporary' = [temporary EXCEPT ![d] = 0] /\ pc' = [pc EXCEPT ![g] = "record"]
  BY DEF Artifacts!Rename, Artifacts!After, Artifacts!None
<1>2. d \in Digests
  BY <1>0, <1>1 DEF ArtifactTypes
<1>3. CASE pc' = [pc EXCEPT ![g] = "idle"] /\ UNCHANGED <<temporary, stored>>
  BY <1>1, <1>3, GoesOn
<1>4. CASE /\ f # 0 /\ stored' = [stored EXCEPT ![d] = f]
           /\ temporary' = [temporary EXCEPT ![d] = 0] /\ pc' = [pc EXCEPT ![g] = "record"]
  <2>1. /\ pc'[g] = "record" /\ \A h \in Gateways \ {g} : pc'[h] = pc[h]
        /\ stored'[d] = f /\ \A c \in Digests \ {d} : stored'[c] = stored[c]
        /\ temporary'[d] = 0 /\ \A c \in Digests \ {d} : temporary'[c] = temporary[c]
        /\ f \in DOMAIN files /\ f \in Nat
    BY <1>0, <1>2, <1>4 DEF ArtifactTypes
  <2>2. ArtifactTypes'
    <3>1. /\ stored' \in [Digests -> Nat] /\ temporary' \in [Digests -> Nat]
          /\ pc' = [h \in Gateways |-> pc'[h]]
      BY <1>0, <1>2, <1>4, <2>1 DEF ArtifactTypes
    <3> QED
      BY <1>0, <1>1, <1>2, <2>1, <3>1 DEF ArtifactTypes
  <2>3. FilesApart'
    BY <1>0, <1>1, <1>2, <1>4, <2>1 DEF ArtifactsInv, ArtifactTypes, FilesApart
  <2>4. WrittenAlone'
    <3>1. \A c \in Digests, h \in Gateways :
            Artifacts!Writing(h, c)' <=> h # g /\ Artifacts!Writing(h, c)
      BY <1>1, <2>1 DEF Artifacts!Writing
    <3>2. Artifacts!Writing(g, d) /\ (d \notin sharedBy => files[f] = "all")
      BY <1>1, <1>2 DEF ArtifactsInv, WrittenAlone, Artifacts!Writing
    <3> QED
      BY <1>0, <1>1, <1>2, <2>1, <3>1, <3>2 DEF ArtifactsInv, ArtifactTypes, WrittenAlone
  <2>5. LeftByOne' /\ RecordedAfter'
    BY <1>0, <1>1, <1>2, <1>4, <2>1 DEF ArtifactsInv, ArtifactTypes, LeftByOne, RecordedAfter
  <2> QED
    BY <2>2, <2>3, <2>4, <2>5 DEF ArtifactsInv
<1> QED
  BY <1>1, <1>3, <1>4

LEMMA RecordKeeps ==
  ASSUME ArtifactsInv, NEW g \in Gateways, Artifacts!Record(g) PROVE ArtifactsInv'
<1> DEFINE u == upload[g]
<1>1. /\ UNCHANGED <<upload, handle, files, temporary, stored, sharedBy, cutShort>>
      /\ pc[g] = "record" /\ pc' = [pc EXCEPT ![g] = "idle"]
      /\ artifacts' = [n \in DOMAIN artifacts \union {u.name} |->
                         IF n = u.name THEN u.digest ELSE artifacts[n]]
  BY DEF Artifacts!Record, Artifacts!After
<1>2. /\ pc'[g] = "idle" /\ \A h \in Gateways \ {g} : pc'[h] = pc[h]
      /\ u.digest \in Digests /\ stored[u.digest] # 0
  BY <1>1 DEF ArtifactsInv, ArtifactTypes, RecordedAfter
<1>3. pc' = [h \in Gateways |-> pc'[h]]
  BY <1>1 DEF ArtifactsInv, ArtifactTypes
<1>4. ArtifactTypes'
  BY <1>1, <1>2, <1>3 DEF ArtifactsInv, ArtifactTypes
<1>5. FilesApart' /\ LeftByOne'
  BY <1>1, <1>2 DEF ArtifactsInv, FilesApart, LeftByOne
<1>6. WrittenAlone'
  BY <1>1, <1>2 DEF ArtifactsInv, WrittenAlone, Artifacts!Writing
<1>7. \A n \in DOMAIN artifacts' : artifacts'[n] \in Digests /\ stored[artifacts'[n]] # 0
  BY <1>1, <1>2 DEF ArtifactsInv, RecordedAfter
<1>8. RecordedAfter'
  BY <1>1, <1>2, <1>7 DEF ArtifactsInv, RecordedAfter
<1> QED
  BY <1>4, <1>5, <1>6, <1>8 DEF ArtifactsInv

LEMMA CrashKeeps ==
  ASSUME ArtifactsInv, NEW g \in Gateways, Artifacts!Crash(g) PROVE ArtifactsInv'
<1>0. ArtifactTypes
  BY DEF ArtifactsInv
<1>1. /\ UNCHANGED <<upload, files, temporary, stored, artifacts, sharedBy>>
      /\ pc' = [pc EXCEPT ![g] = "idle"] /\ handle' = [handle EXCEPT ![g] = 0]
      /\ cutShort' = cutShort \union ({handle[g]} \ {0})
  BY DEF Artifacts!Crash, Artifacts!None
<1>2. /\ pc'[g] = "idle" /\ \A h \in Gateways \ {g} : pc'[h] = pc[h]
      /\ handle'[g] = 0 /\ \A h \in Gateways \ {g} : handle'[h] = handle[h]
  BY <1>0, <1>1 DEF ArtifactTypes
<1>3. ArtifactTypes'
  <2>1. handle' \in [Gateways -> Nat] /\ pc' = [h \in Gateways |-> pc'[h]]
    BY <1>0, <1>1 DEF ArtifactTypes
  <2> QED
    BY <1>0, <1>1, <1>2, <2>1 DEF ArtifactTypes
<1>4. FilesApart' /\ RecordedAfter'
  BY <1>1, <1>2 DEF ArtifactsInv, FilesApart, RecordedAfter
<1>5. WrittenAlone'
  BY <1>1, <1>2 DEF ArtifactsInv, WrittenAlone, Artifacts!Writing
<1>6. LeftByOne'
  <2> SUFFICES ASSUME NEW e \in DOMAIN files, files[e] = "none"
               PROVE  e \in cutShort' \/ \E h \in Gateways : handle'[h] = e
    BY <1>1 DEF LeftByOne
  <2>1. e # 0
    BY <1>0 DEF ArtifactTypes
  <2>2. e \in cutShort \/ \E h \in Gateways : handle[h] = e
    BY DEF ArtifactsInv, LeftByOne
  <2> QED
    BY <1>1, <1>2, <2>1, <2>2
<1> QED
  BY <1>3, <1>4, <1>5, <1>6 DEF ArtifactsInv

LEMMA ArtifactsStep ==
  ASSUME ArtifactsInv, [Artifacts!Next]_(Artifacts!vars)
  PROVE  ArtifactsInv'
<1>1. ASSUME NEW g \in Gateways, Artifacts!PutLocal(g) PROVE ArtifactsInv'
  <2>1. /\ UNCHANGED <<upload, handle, files, temporary, stored, artifacts, sharedBy, cutShort>>
        /\ pc[g] = "put"
        /\ pc' = [pc EXCEPT ![g] = IF stored[upload[g].digest] # 0 THEN "record" ELSE "open"]
    BY <1>1 DEF Artifacts!PutLocal, Artifacts!After, Artifacts!None
  <2> QED
    BY <2>1, GoesOn
<1>2. CASE UNCHANGED Artifacts!vars
  BY <1>2 DEF Artifacts!vars, ArtifactsInv, ArtifactTypes, FilesApart, WrittenAlone, LeftByOne,
     RecordedAfter, Artifacts!Writing
<1> QED
  BY <1>1, <1>2, BeginKeeps, PutS3Keeps, OpenKeeps, FillKeeps, RenameKeeps, RecordKeeps,
     CrashKeeps DEF Artifacts!Next

HIDE DEF store, pc, upload, handle, files, temporary, stored, artifacts, sharedBy, cutShort,
         uploads

(* However many gateways upload what and die where they will, a recorded        *)
(* artifact is given as it was uploaded, or refused because two of them shared  *)
(* its .tmp and one still writes or was killed at it (artifacts.py              *)
(* LocalStore.put, put_artifact, get_artifact).                                *)
THEOREM RecordsBytesAreKept == Spec => []BytesAreKept
<1> DEFINE Inv == part = "artifacts" => ArtifactsInv
<1>1. Init => Inv
  BY ArtifactsStart DEF Init
<1>2. Inv /\ [Next]_all => Inv'
  <2>1. CASE UNCHANGED all
    <3>1. UNCHANGED <<part, Artifacts!vars>>
      BY <2>1 DEF all, slots, Artifacts!vars
    <3>2. part = "artifacts" => (ArtifactsInv => ArtifactsInv')
      BY <3>1, ArtifactsStep
    <3> QED
      BY <3>1, <3>2
  <2>2. CASE Next
    <3>1. part' = part /\ (part = "artifacts" => Artifacts!Next)
      BY <2>2 DEF Next
    <3> QED
      BY <3>1, ArtifactsStep
  <2> QED
    BY <2>1, <2>2
<1>3. Inv => BytesAreKept
  BY DownloadsAre DEF BytesAreKept
<1> QED
  BY <1>1, <1>2, <1>3, PTL DEF Spec

-----------------------------------------------------------------------------
(* Storage: the months of a calendar are as many numbers, and what upkeep      *)
(* provisioned when it last ran is there, up to what the default partition     *)
(* keeps from it.                                                             *)

month == v1
months == v2
inPlace == v3
backstop == v4
lastUpkeep == v5
elapsed == v6
lapsed == v7
USE DEF month, months, inPlace, backstop, lastUpkeep, elapsed, lapsed

Calendar == Int \X (1..12)
MonthAt(i) == <<(i - 1) \div 12, 1 + ((i - 1) % 12)>>

LEMMA MonthOfIndex ==
  ASSUME NEW i \in Int
  PROVE  MonthAt(i) \in Calendar /\ Storage!Index(MonthAt(i)) = i
BY DEF MonthAt, Storage!Index, Calendar

LEMMA IndexOfMonth ==
  ASSUME NEW m \in Calendar
  PROVE  Storage!Index(m) \in Int /\ MonthAt(Storage!Index(m)) = m
BY DEF MonthAt, Storage!Index, Calendar

LEMMA IndexIsExact ==
  ASSUME NEW m \in Calendar, NEW k \in Calendar, Storage!Index(m) = Storage!Index(k)
  PROVE  m = k
BY IndexOfMonth

LEMMA EarlierIsLess ==
  ASSUME NEW m \in Calendar, NEW k \in Calendar
  PROVE  Storage!Earlier(m, k) <=> Storage!Index(m) < Storage!Index(k)
BY DEF Storage!Earlier, Storage!Index, Calendar

LEMMA AfterCounts ==
  ASSUME NEW m \in Calendar
  PROVE  Storage!After(m) \in Calendar /\ Storage!Index(Storage!After(m)) = Storage!Index(m) + 1
BY DEF Storage!After, Storage!Index, Calendar

LEMMA BeforeCounts ==
  ASSUME NEW m \in Calendar
  PROVE  /\ Storage!Before(m) \in Calendar
         /\ Storage!Index(Storage!Before(m)) = Storage!Index(m) - 1
BY DEF Storage!Before, Storage!Index, Calendar

(* A walk through the calendar, a month on (by = 1) or back (by = -1) at a     *)
(* time.  Its recursive equation has a solution, the one the arithmetic gives, *)
(* and no solution can differ from that one first.                            *)
Step(by, m) == IF by = 1 THEN Storage!After(m) ELSE Storage!Before(m)
Walks(f, m, by) == f = [n \in Nat |-> IF n = 0 THEN m ELSE Step(by, f[n - 1])]

LEMMA StepCounts ==
  ASSUME NEW m \in Calendar, NEW by \in {1, -1}
  PROVE  Step(by, m) \in Calendar /\ Storage!Index(Step(by, m)) = Storage!Index(m) + by
<1>1. CASE by = 1
  BY <1>1, AfterCounts DEF Step
<1>2. CASE by = -1
  <2>1. Storage!Index(m) - 1 = Storage!Index(m) + (-1)
    BY IndexOfMonth
  <2> QED
    BY <1>2, <2>1, BeforeCounts DEF Step
<1> QED
  BY <1>1, <1>2

LEMMA WalkExists ==
  ASSUME NEW m \in Calendar, NEW by \in {1, -1}
  PROVE  \E f : Walks(f, m, by)
<1> DEFINE at(n) == Storage!Index(m) + by * n
           g == [n \in Nat |-> MonthAt(at(n))]
<1>1. \A n \in Nat : at(n) \in Int
  BY IndexOfMonth
<1>2. ASSUME NEW n \in Nat, n # 0 PROVE g[n] = Step(by, g[n - 1])
  <2>1. n - 1 \in Nat /\ at(n - 1) \in Int /\ at(n - 1) + by = at(n)
    <3>1. n - 1 \in Nat /\ Storage!Index(m) \in Int
      BY <1>2, IndexOfMonth
    <3>2. by * (n - 1) + by = by * n /\ by * (n - 1) \in Int /\ by * n \in Int
      BY <3>1
    <3> QED
      BY <1>1, <3>1, <3>2
  <2>2. g[n] = MonthAt(at(n)) /\ g[n - 1] = MonthAt(at(n - 1))
    BY <2>1
  <2> HIDE DEF g, at
  <2>3. g[n - 1] \in Calendar /\ Storage!Index(g[n - 1]) = at(n - 1)
    BY <2>1, <2>2, MonthOfIndex
  <2>4. Step(by, g[n - 1]) \in Calendar /\ Storage!Index(Step(by, g[n - 1])) = at(n)
    BY <2>1, <2>3, StepCounts
  <2> QED
    BY <2>2, <2>4, IndexOfMonth
<1>3. g[0] = m
  BY IndexOfMonth
<1>4. g = [n \in Nat |-> IF n = 0 THEN m ELSE Step(by, g[n - 1])]
  <2>1. \A n \in Nat : g[n] = IF n = 0 THEN m ELSE Step(by, g[n - 1])
    <3> HIDE DEF g
    <3> QED
      BY <1>2, <1>3
  <2> QED
    BY <2>1
<1> HIDE DEF g
<1> QED
  BY <1>4 DEF Walks

LEMMA WalkCounts ==
  ASSUME NEW m \in Calendar, NEW by \in {1, -1}, NEW f, Walks(f, m, by), NEW n \in Nat
  PROVE  f[n] \in Calendar /\ Storage!Index(f[n]) = Storage!Index(m) + by * n
<1> DEFINE right(j) == f[j] \in Calendar /\ Storage!Index(f[j]) = Storage!Index(m) + by * j
           wrong == {j \in Nat : ~right(j)}
<1>1. f[0] = m /\ \A j \in Nat : j # 0 => f[j] = Step(by, f[j - 1])
  <2> DEFINE e == [j \in Nat |-> IF j = 0 THEN m ELSE Step(by, f[j - 1])]
  <2>1. f = e
    BY DEF Walks
  <2>2. e[0] = m /\ \A j \in Nat : j # 0 => e[j] = Step(by, f[j - 1])
    OBVIOUS
  <2> HIDE DEF e
  <2> QED
    BY <2>1, <2>2
<1>2. CASE wrong = {}
  BY <1>2
<1>3. CASE wrong # {}
  <2>1. PICK j \in wrong : \A i \in wrong : j <= i
    BY <1>3, LeastExists
  <2>2. j # 0
    <3>1. right(0)
      BY <1>1, IndexOfMonth
    <3> QED
      BY <2>1, <3>1
  <2>3. j - 1 \in Nat /\ right(j - 1)
    BY <2>1, <2>2
  <2>4. f[j] \in Calendar /\ Storage!Index(f[j]) = Storage!Index(m) + by * (j - 1) + by
    BY <1>1, <2>1, <2>2, <2>3, StepCounts
  <2>5. Storage!Index(m) + by * (j - 1) + by = Storage!Index(m) + by * j
    <3>1. by * (j - 1) + by = by * j /\ by * (j - 1) \in Int /\ by * j \in Int
      BY <2>3
    <3> QED
      BY <3>1, IndexOfMonth
  <2> QED
    BY <2>1, <2>4, <2>5
<1> QED
  BY <1>2, <1>3

(* _months_from, and the cutoff of apply_retention.                           *)
LEMMA MonthsFromAre ==
  ASSUME NEW m \in Calendar, NEW count \in Nat
  PROVE  /\ Storage!MonthsFrom(m, count) \subseteq Calendar
         /\ \A k \in Calendar : k \in Storage!MonthsFrom(m, count) <=>
              /\ Storage!Index(m) <= Storage!Index(k)
              /\ Storage!Index(k) < Storage!Index(m) + count
<1> DEFINE walk == CHOOSE f : f = [n \in Nat |->
                     IF n = 0 THEN m ELSE Storage!After(f[n - 1])]
<1>1. Storage!MonthsFrom(m, count) = {walk[n] : n \in 0..(count - 1)}
  BY DEF Storage!MonthsFrom
<1>2. Walks(walk, m, 1)
  <2>1. PICK f : Walks(f, m, 1)
    BY WalkExists
  <2>2. f = [n \in Nat |-> IF n = 0 THEN m ELSE Storage!After(f[n - 1])]
    BY <2>1 DEF Walks, Step
  <2>3. walk = [n \in Nat |-> IF n = 0 THEN m ELSE Storage!After(walk[n - 1])]
    BY <2>2
  <2> HIDE DEF walk
  <2> QED
    BY <2>3 DEF Walks, Step
<1> HIDE DEF walk
<1>3. \A n \in Nat : walk[n] \in Calendar /\ Storage!Index(walk[n]) = Storage!Index(m) + n
  <2>1. ASSUME NEW n \in Nat
        PROVE  walk[n] \in Calendar /\ Storage!Index(walk[n]) = Storage!Index(m) + 1 * n
    BY <1>2, WalkCounts
  <2> QED
    BY <2>1
<1>4. ASSUME NEW k \in Calendar, Storage!Index(m) <= Storage!Index(k),
             Storage!Index(k) < Storage!Index(m) + count
      PROVE  k \in Storage!MonthsFrom(m, count)
  <2> DEFINE n == Storage!Index(k) - Storage!Index(m)
  <2>1. n \in 0..(count - 1) /\ Storage!Index(m) + n = Storage!Index(k)
    BY <1>4, IndexOfMonth
  <2> HIDE DEF n
  <2>2. walk[n] = k
    BY <1>3, <2>1, IndexIsExact
  <2> QED
    BY <1>1, <2>1, <2>2
<1>5. ASSUME NEW k \in Storage!MonthsFrom(m, count)
      PROVE  /\ k \in Calendar /\ Storage!Index(m) <= Storage!Index(k)
             /\ Storage!Index(k) < Storage!Index(m) + count
  <2>1. PICK n \in 0..(count - 1) : k = walk[n]
    BY <1>1, <1>5
  <2> QED
    BY <1>3, <2>1, IndexOfMonth
<1> QED
  BY <1>4, <1>5

LEMMA CutoffIs ==
  ASSUME NEW m \in Calendar, NEW keep \in Nat \ {0}
  PROVE  /\ Storage!Cutoff(m, keep) \in Calendar
         /\ Storage!Index(Storage!Cutoff(m, keep)) = Storage!Index(m) - (keep - 1)
<1> DEFINE walk == CHOOSE f : f = [n \in Nat |->
                     IF n = 0 THEN m ELSE Storage!Before(f[n - 1])]
<1>1. Storage!Cutoff(m, keep) = walk[keep - 1]
  BY DEF Storage!Cutoff, Storage!Back
<1>2. Walks(walk, m, -1)
  <2>1. PICK f : Walks(f, m, -1)
    BY WalkExists
  <2>2. f = [n \in Nat |-> IF n = 0 THEN m ELSE Storage!Before(f[n - 1])]
    BY <2>1 DEF Walks, Step
  <2>3. walk = [n \in Nat |-> IF n = 0 THEN m ELSE Storage!Before(walk[n - 1])]
    BY <2>2
  <2> HIDE DEF walk
  <2> QED
    BY <2>3 DEF Walks, Step
<1> HIDE DEF walk
<1>3. keep - 1 \in Nat
  OBVIOUS
<1>4. /\ walk[keep - 1] \in Calendar
      /\ Storage!Index(walk[keep - 1]) = Storage!Index(m) + (-1) * (keep - 1)
  BY <1>2, <1>3, WalkCounts
<1> QED
  BY <1>1, <1>3, <1>4, IndexOfMonth

StorageTypes ==
  /\ month \in Calendar /\ months \subseteq Calendar /\ lastUpkeep \in Calendar
  /\ inPlace \subseteq months /\ backstop \subseteq Calendar

\* What is in the default partition came in a month that has been.
BackstopIsPast == \A k \in backstop : Storage!Index(k) <= Storage!Index(month)

\* The months to come that upkeep looked ahead to when it last ran are there.
AheadStands ==
  \A k \in Calendar :
    /\ Storage!Index(month) < Storage!Index(k)
    /\ Storage!Index(k) < Storage!Index(lastUpkeep) + MonthsAhead
    => k \in months

StorageInv ==
  /\ StorageTypes /\ BackstopIsPast /\ AheadStands
  /\ Storage!Index(lastUpkeep) <= Storage!Index(month)
  /\ month \in months \/ month \in lapsed
  /\ Storage!BackstopOnlyAfterLapse /\ Storage!OldRowsOnlyInBackstop

LEMMA StorageStarts ==
  ASSUME Storage!StorageAssumption, Storage!Init
  PROVE  StorageInv
<1>1. /\ Start \in Calendar /\ Start[1] \in Nat /\ Start[2] \in 1..12
      /\ MonthsAhead \in Nat \ {0}
      /\ Storage!Index(Start) \in Nat \ {0} /\ Storage!Never \in Calendar
  BY DEF Storage!StorageAssumption, Storage!Never, Storage!Index, Calendar
<1>2. Storage!Index(Storage!Never) = 1 - 12 * MonthsAhead
  BY <1>1 DEF Storage!Never, Storage!Index
<1>3. Storage!Index(Storage!Never) + MonthsAhead <= 1
  BY <1>1, <1>2
<1>4. month = Start /\ months = {} /\ inPlace = {} /\ backstop = {} /\ lapsed = {Start}
      /\ lastUpkeep = Storage!Never
  BY DEF Storage!Init
<1>5. AheadStands
  <2>1. ASSUME NEW k \in Calendar, Storage!Index(Start) < Storage!Index(k),
               Storage!Index(k) < Storage!Index(Storage!Never) + MonthsAhead
        PROVE  FALSE
    BY <1>1, <1>3, <2>1, IndexOfMonth
  <2> QED
    BY <1>4, <2>1 DEF AheadStands
<1>6. Storage!Index(lastUpkeep) <= Storage!Index(month)
  BY <1>1, <1>2, <1>4
<1> QED
  BY <1>1, <1>4, <1>5, <1>6 DEF StorageInv, StorageTypes, BackstopIsPast,
     Storage!BackstopOnlyAfterLapse, Storage!OldRowsOnlyInBackstop

\* Retention drops nothing that began after the window did.
LEMMA ExpiredIsOld ==
  ASSUME Storage!StorageAssumption, StorageInv
  PROVE  /\ Storage!Expired \subseteq months
         /\ \A k \in Storage!Expired : Storage!Index(k) <= Storage!Index(month) - KeepMonths
         /\ \A k \in months \ Storage!Expired :
              KeepMonths > 0 => Storage!Index(k) > Storage!Index(month) - KeepMonths
<1>1. month \in Calendar /\ months \subseteq Calendar /\ KeepMonths \in Nat
  BY DEF StorageInv, StorageTypes, Storage!StorageAssumption
<1>2. CASE KeepMonths = 0
  BY <1>2 DEF Storage!Expired
<1>3. CASE KeepMonths # 0
  <2> DEFINE cutoff == Storage!Cutoff(month, KeepMonths)
  <2>1. /\ cutoff \in Calendar
        /\ Storage!Index(cutoff) = Storage!Index(month) - (KeepMonths - 1)
    BY <1>1, <1>3, CutoffIs
  <2>2. Storage!Expired = {k \in months : Storage!Earlier(k, cutoff)}
    BY <1>3 DEF Storage!Expired
  <2> HIDE DEF cutoff
  <2>3. \A k \in months : k \in Storage!Expired <=>
          Storage!Index(k) < Storage!Index(month) - (KeepMonths - 1)
    BY <1>1, <2>1, <2>2, EarlierIsLess
  <2>4. \A k \in months : Storage!Index(k) \in Int /\ Storage!Index(month) \in Int
    BY <1>1, IndexOfMonth
  <2> QED
    BY <1>1, <2>2, <2>3, <2>4
<1> QED
  BY <1>2, <1>3

LEMMA UpkeepKeeps ==
  ASSUME Storage!StorageAssumption, StorageInv, Storage!Upkeep
  PROVE  StorageInv'
<1>1. /\ StorageTypes /\ MonthsAhead \in Nat \ {0} /\ KeepMonths \in Nat
      /\ month \in Calendar /\ months \subseteq Calendar
  BY DEF StorageInv, StorageTypes, Storage!StorageAssumption
<1>2. /\ months' = (months \union Storage!Provisioned) \ Storage!Expired
      /\ inPlace' = inPlace \ Storage!Expired
      /\ lastUpkeep' = month /\ UNCHANGED <<month, backstop, lapsed>>
  BY DEF Storage!Upkeep
<1>3. /\ Storage!Provisioned \subseteq Calendar
      /\ \A k \in Calendar : k \in Storage!Provisioned <=>
           /\ Storage!Index(month) <= Storage!Index(k)
           /\ Storage!Index(k) < Storage!Index(month) + MonthsAhead
           /\ k \notin backstop
  BY <1>1, MonthsFromAre DEF Storage!Provisioned, Storage!MonthsFromHere
<1>4. \A k \in Calendar : Storage!Index(k) \in Int
  BY IndexOfMonth
<1>5. \A k \in Calendar : Storage!Index(month) <= Storage!Index(k) => k \notin Storage!Expired
  <2>1. ASSUME NEW k \in Storage!Expired PROVE ~(Storage!Index(month) <= Storage!Index(k))
    <3>1. k \in Calendar /\ Storage!Index(k) <= Storage!Index(month) - KeepMonths
      BY <1>1, ExpiredIsOld
    <3>2. KeepMonths # 0
      BY <2>1 DEF Storage!Expired
    <3> QED
      BY <1>1, <1>4, <3>1, <3>2
  <2> QED
    BY <2>1
<1>6. StorageTypes'
  BY <1>1, <1>2, <1>3 DEF StorageTypes
<1>7. BackstopIsPast' /\ Storage!Index(lastUpkeep') <= Storage!Index(month')
  BY <1>1, <1>2, <1>4 DEF StorageInv, BackstopIsPast
<1>8. AheadStands'
  <2>1. ASSUME NEW k \in Calendar, Storage!Index(month) < Storage!Index(k),
               Storage!Index(k) < Storage!Index(month) + MonthsAhead
        PROVE  k \in months'
    <3>1. k \notin backstop
      BY <1>1, <1>4, <2>1 DEF StorageInv, BackstopIsPast
    <3>2. Storage!Index(month) <= Storage!Index(k)
      BY <1>1, <1>4, <2>1
    <3> QED
      BY <1>2, <1>3, <1>5, <2>1, <3>1, <3>2
  <2> QED
    BY <1>2, <2>1 DEF AheadStands
<1>9. month' \in months' \/ month' \in lapsed'
  <2>1. CASE month \in backstop
    BY <1>2, <2>1 DEF StorageInv, Storage!BackstopOnlyAfterLapse
  <2>2. CASE month \notin backstop
    BY <1>1, <1>2, <1>3, <1>4, <1>5, <2>2
  <2> QED
    BY <2>1, <2>2
<1>10. Storage!BackstopOnlyAfterLapse'
  BY <1>2 DEF StorageInv, Storage!BackstopOnlyAfterLapse
<1>11. Storage!OldRowsOnlyInBackstop'
  BY <1>1, <1>2, ExpiredIsOld DEF StorageTypes, Storage!OldRowsOnlyInBackstop
<1> QED
  BY <1>6, <1>7, <1>8, <1>9, <1>10, <1>11 DEF StorageInv

LEMMA StorageStep ==
  ASSUME Storage!StorageAssumption, StorageInv, [Storage!Next]_(Storage!vars)
  PROVE  StorageInv'
<1>1. /\ month \in Calendar /\ lastUpkeep \in Calendar /\ Storage!Index(month) \in Int
      /\ Storage!Index(lastUpkeep) \in Int /\ MonthsAhead \in Nat /\ KeepMonths \in Nat
  BY IndexOfMonth DEF StorageInv, StorageTypes, Storage!StorageAssumption
<1>2. CASE Storage!Insert
  <2>1. /\ UNCHANGED <<month, months, lastUpkeep, lapsed>>
        /\ \/ month \in months /\ inPlace' = inPlace \union {month} /\ UNCHANGED backstop
           \/ month \notin months /\ backstop' = backstop \union {month} /\ UNCHANGED inPlace
    BY <1>2 DEF Storage!Insert
  <2>2. StorageTypes' /\ BackstopIsPast' /\ AheadStands'
    BY <1>1, <2>1 DEF StorageInv, StorageTypes, BackstopIsPast, AheadStands
  <2>3. Storage!BackstopOnlyAfterLapse'
    BY <2>1 DEF StorageInv, Storage!BackstopOnlyAfterLapse
  <2>4. Storage!OldRowsOnlyInBackstop'
    BY <1>1, <2>1 DEF StorageInv, Storage!OldRowsOnlyInBackstop
  <2> QED
    BY <2>1, <2>2, <2>3, <2>4 DEF StorageInv
<1>3. CASE Storage!Upkeep
  BY <1>3, UpkeepKeeps
<1>4. CASE Storage!NextMonth
  <2>1. /\ month' = Storage!After(month) /\ UNCHANGED <<months, inPlace, backstop, lastUpkeep>>
        /\ lapsed' = IF Storage!Index(month') - Storage!Index(lastUpkeep) >= MonthsAhead
                     THEN lapsed \union {month'} ELSE lapsed
    BY <1>4 DEF Storage!NextMonth
  <2>2. month' \in Calendar /\ Storage!Index(month') = Storage!Index(month) + 1
    BY <1>1, <2>1, AfterCounts
  <2>3. StorageTypes'
    BY <2>1, <2>2 DEF StorageInv, StorageTypes
  <2>4. BackstopIsPast'
    <3>1. \A k \in backstop : Storage!Index(k) \in Int
      BY IndexOfMonth DEF StorageInv, StorageTypes
    <3> QED
      BY <1>1, <2>1, <2>2, <3>1 DEF StorageInv, BackstopIsPast
  <2>5. AheadStands'
    <3>1. \A k \in Calendar : Storage!Index(k) \in Int
      BY IndexOfMonth
    <3> QED
      BY <1>1, <2>1, <2>2, <3>1 DEF StorageInv, AheadStands
  <2>6. Storage!Index(lastUpkeep') <= Storage!Index(month')
    BY <1>1, <2>1, <2>2 DEF StorageInv
  <2>7. month' \in months' \/ month' \in lapsed'
    BY <1>1, <2>1, <2>2 DEF StorageInv, AheadStands
  <2>8. Storage!BackstopOnlyAfterLapse'
    BY <2>1 DEF StorageInv, Storage!BackstopOnlyAfterLapse
  <2>9. Storage!OldRowsOnlyInBackstop'
    <3>1. lastUpkeep' # month'
      BY <1>1, <2>1, <2>2 DEF StorageInv
    <3> QED
      BY <3>1 DEF Storage!OldRowsOnlyInBackstop
  <2> QED
    BY <2>3, <2>4, <2>5, <2>6, <2>7, <2>8, <2>9 DEF StorageInv
<1>5. CASE UNCHANGED Storage!vars
  <2>1. UNCHANGED <<month, months, inPlace, backstop, lastUpkeep, lapsed>>
    BY <1>5 DEF Storage!vars
  <2> QED
    BY <2>1 DEF StorageInv, StorageTypes, BackstopIsPast, AheadStands,
       Storage!BackstopOnlyAfterLapse, Storage!OldRowsOnlyInBackstop
<1> QED
  BY <1>2, <1>3, <1>4, <1>5 DEF Storage!Next

LEMMA DropsAreOld ==
  ASSUME Storage!StorageAssumption, StorageInv, [Storage!Next]_(Storage!vars)
  PROVE  Storage!DropsOnlyOld
<1>1. CASE Storage!Upkeep
  <2>1. months \ months' \subseteq Storage!Expired
    BY <1>1 DEF Storage!Upkeep
  <2> QED
    BY <2>1, ExpiredIsOld DEF Storage!DropsOnlyOld
<1>2. CASE ~Storage!Upkeep
  <2>1. months' = months
    BY <1>2 DEF Storage!Next, Storage!Insert, Storage!NextMonth, Storage!vars
  <2> QED
    BY <2>1 DEF Storage!DropsOnlyOld
<1> QED
  BY <1>1, <1>2

HIDE DEF month, months, inPlace, backstop, lastUpkeep, elapsed, lapsed

StoragePart == part = "storage" => StorageInv

LEMMA StoragePartHolds == Spec => []StoragePart
<1>1. Init => StoragePart
  BY RecordsAssumption, StorageStarts DEF Init, StoragePart
<1>2. StoragePart /\ [Next]_all => StoragePart'
  <2>1. CASE UNCHANGED all
    <3>1. UNCHANGED <<part, Storage!vars>>
      BY <2>1 DEF all, slots, Storage!vars
    <3> QED
      BY <3>1, RecordsAssumption, StorageStep DEF StoragePart
  <2>2. CASE Next
    <3>1. part' = part /\ (part = "storage" => Storage!Next)
      BY <2>2 DEF Next
    <3> QED
      BY <3>1, RecordsAssumption, StorageStep DEF StoragePart
  <2> QED
    BY <2>1, <2>2
<1> QED
  BY <1>1, <1>2, PTL DEF Spec

(* For any start, any windows and any order of inserts, upkeep and the clock:  *)
(* a row is in the default partition only if upkeep had lapsed, and once it    *)
(* ran nothing from before the window is left in a partition of its own        *)
(* (retention.py ensure_partitions, apply_retention).                         *)
THEOREM RecordsRowsAreInPlace == Spec => []RowsAreInPlace
<1>1. StoragePart => RowsAreInPlace
  BY DEF StoragePart, StorageInv, RowsAreInPlace, Storage!RowsAreInPlace
<1> QED
  BY <1>1, StoragePartHolds, PTL

(* And retention never drops a month of the window, wherever in the calendar   *)
(* it counts back to (retention.py apply_retention).                          *)
THEOREM RecordsWindowIsKept == Spec => WindowIsKept
<1>1. StoragePart /\ [Next]_all => [part = "storage" => Storage!DropsOnlyOld]_all
  <2>1. CASE UNCHANGED all
    BY <2>1
  <2>2. CASE Next
    <3>1. part = "storage" => Storage!Next
      BY <2>2 DEF Next
    <3> QED
      BY <3>1, RecordsAssumption, DropsAreOld DEF StoragePart
  <2> QED
    BY <2>1, <2>2
<1> QED
  BY <1>1, StoragePartHolds, PTL DEF Spec, WindowIsKept

-----------------------------------------------------------------------------
(* Polling: what is stored of a table is what it was at each write.          *)

now == v1
delta == v2
iceberg == v3
snapshot == v4
schema == v5
observed == v6
polls == v7
ruled == v8
fresh == v9
USE DEF now, delta, iceberg, snapshot, schema, observed, polls, ruled, fresh

Adding == {k \in DOMAIN delta : delta[k].add # {}}

LogIsOrdered ==
  /\ \E S : delta \in Seq(S)
  /\ \A k \in DOMAIN delta : delta[k].at \in Nat /\ delta[k].at < now
  /\ \A j, k \in DOMAIN delta : j < k => delta[j].at < delta[k].at

SnapshotsRuled ==
  /\ iceberg \in Seq([id : Nat \ {0}, at : Nat \ {0}, rows : 0..1])
  /\ \A k \in DOMAIN iceberg :
       iceberg[k].id = iceberg[k].at /\ \E p \in ruled : p[1] = iceberg[k].at
  /\ snapshot # 0 => <<snapshot, schema>> \in ruled

\* A Delta table is observed at the time of a commit that added to it.
ObservedAtAdding ==
  \A key \in DOMAIN observed :
    /\ key = <<key[1], key[2]>>
    /\ key[1] = "delta" => \E k \in Adding : delta[k].at = key[2]

PollingInv ==
  /\ now \in Nat \ {0} /\ LogIsOrdered /\ SnapshotsRuled /\ ObservedAtAdding
  /\ Polling!DeltaIsCounted /\ Polling!ObservedWhenWritten /\ Polling!ColumnsOfItsTime

LEMMA GreatestExists ==
  ASSUME NEW n \in Nat, NEW S \in SUBSET (1..n), S # {}
  PROVE  \E x \in S : \A y \in S : y <= x
<1>1. PICK m \in {n - y : y \in S} : \A z \in {n - y : y \in S} : m <= z
  <2> DEFINE D == {n - y : y \in S}
  <2>1. D \in SUBSET Nat /\ D # {}
    <3>1. \A y \in S : n - y \in Nat
      OBVIOUS
    <3>2. PICK y \in S : TRUE
      OBVIOUS
    <3> QED
      BY <3>1, <3>2
  <2> HIDE DEF D
  <2>2. \E x \in D : \A y \in D : x <= y
    BY <2>1, LeastExists
  <2> QED
    BY <2>2 DEF D
<1>2. PICK x \in S : m = n - x
  BY <1>1
<1>3. ASSUME NEW y \in S PROVE y <= x
  <2>1. n - y \in {n - w : w \in S}
    BY <1>3
  <2>2. n - x <= n - y
    BY <1>1, <1>2, <2>1
  <2> QED
    BY <1>2, <2>2
<1> QED
  BY <1>2, <1>3

(* Replaying a log that adds nothing leaves nothing: a table with files has a  *)
(* commit that added one.                                                    *)
LEMMA FilesWereAdded ==
  ASSUME LogIsOrdered, Polling!InTable # {}
  PROVE  Adding # {}
<1> SUFFICES ASSUME Adding = {} PROVE FALSE
  OBVIOUS
<1> DEFINE replays(f) == f = [n \in 0..Len(delta) |->
                                IF n = 0 THEN {} ELSE Polling!Held(f[n - 1], delta[n])]
           held == CHOOSE f : replays(f)
           nothing == [n \in 0..Len(delta) |-> {}]
<1>1. /\ Len(delta) \in Nat /\ DOMAIN delta = 1..Len(delta)
      /\ \A k \in 1..Len(delta) : delta[k].add = {}
  BY DEF LogIsOrdered, Adding
<1>2. \A k \in 1..Len(delta) : Polling!Held({}, delta[k]) = {}
  BY <1>1 DEF Polling!Held
<1>3. replays(nothing)
  <2>1. \A n \in 0..Len(delta) : n # 0 => n \in 1..Len(delta) /\ n - 1 \in 0..Len(delta)
    BY <1>1
  <2>2. \A n \in 0..Len(delta) :
          nothing[n] = IF n = 0 THEN {} ELSE Polling!Held(nothing[n - 1], delta[n])
    BY <1>2, <2>1
  <2> QED
    BY <2>2
<1>4. Polling!InTable = held[Len(delta)]
  BY DEF Polling!InTable
<1>5. replays(held)
  BY <1>3
<1> HIDE DEF held, nothing
<1>6. /\ held[0] = {}
      /\ \A n \in 1..Len(delta) : held[n] = Polling!Held(held[n - 1], delta[n])
  <2> DEFINE e == [n \in 0..Len(delta) |->
                     IF n = 0 THEN {} ELSE Polling!Held(held[n - 1], delta[n])]
  <2>1. e[0] = {} /\ \A n \in 1..Len(delta) : e[n] = Polling!Held(held[n - 1], delta[n])
    BY <1>1
  <2>2. held = e
    BY <1>5
  <2> HIDE DEF e
  <2> QED
    BY <2>1, <2>2
<1> HIDE DEF replays
<1> DEFINE wrong == {n \in 0..Len(delta) : held[n] # {}}
<1>7. PICK n \in wrong : \A m \in wrong : n <= m
  <2>1. Len(delta) \in wrong
    BY <1>1, <1>4
  <2>2. wrong \in SUBSET Nat /\ wrong # {}
    BY <1>1, <2>1
  <2> HIDE DEF wrong
  <2> QED
    BY <2>2, LeastExists
<1>8. n \in 1..Len(delta) /\ n - 1 \in 0..Len(delta) /\ n - 1 \notin wrong
  BY <1>1, <1>6, <1>7
<1>9. held[n - 1] = {} /\ held[n] # {}
  BY <1>7, <1>8
<1> QED
  BY <1>2, <1>6, <1>8, <1>9

(* What is observed of a Delta table is observed under its newest addition.    *)
LEMMA DeltaTimeIsNewest ==
  ASSUME LogIsOrdered, Adding # {}
  PROVE  \E k \in Adding : /\ Polling!DeltaTime = delta[k].at
                           /\ \A j \in Adding : delta[j].at <= delta[k].at
<1>1. Len(delta) \in Nat /\ DOMAIN delta = 1..Len(delta)
  BY DEF LogIsOrdered
<1>2. Adding \in SUBSET (1..Len(delta))
  BY <1>1 DEF Adding
<1>3. PICK k \in Adding : \A j \in Adding : j <= k
  BY <1>1, <1>2, GreatestExists
<1>4. ASSUME NEW i \in Adding, \A j \in Adding : j <= i PROVE i = k
  BY <1>2, <1>3, <1>4
<1>5. (CHOOSE i \in Adding : \A j \in Adding : j <= i) = k
  BY <1>3, <1>4
<1>6. Polling!DeltaTime = delta[k].at
  BY <1>5 DEF Polling!DeltaTime, Adding
<1>7. ASSUME NEW j \in Adding PROVE delta[j].at <= delta[k].at
  <2>1. j \in DOMAIN delta /\ k \in DOMAIN delta
    BY DEF Adding
  <2>2. delta[j].at \in Nat /\ delta[k].at \in Nat /\ (j < k => delta[j].at < delta[k].at)
    BY <2>1 DEF LogIsOrdered
  <2>3. j = k \/ j < k
    BY <1>2, <1>3
  <2> QED
    BY <2>2, <2>3
<1> QED
  BY <1>6, <1>7

-----------------------------------------------------------------------------
LEMMA PollingStarts == ASSUME Polling!Init PROVE PollingInv
<1>1. /\ now = 1 /\ delta = <<>> /\ iceberg = <<>> /\ snapshot = 0
      /\ observed = <<>> /\ fresh = FALSE /\ ruled = {}
  BY DEF Polling!Init, Polling!None
<1>2. DOMAIN delta = {} /\ DOMAIN iceberg = {} /\ DOMAIN observed = {}
  BY <1>1
<1>3. delta \in Seq({}) /\ iceberg \in Seq([id : Nat \ {0}, at : Nat \ {0}, rows : 0..1])
  BY <1>1
<1>4. LogIsOrdered
  BY <1>2, <1>3 DEF LogIsOrdered
<1> QED
  BY <1>1, <1>2, <1>3, <1>4 DEF PollingInv, SnapshotsRuled, ObservedAtAdding,
     Polling!DeltaIsCounted, Polling!ObservedWhenWritten, Polling!ColumnsOfItsTime

(* A write changes nothing that was stored, and forgets nothing that ruled.    *)
LEMMA WritingKeeps ==
  ASSUME PollingInv, UNCHANGED observed, fresh' = FALSE, now' = now + 1,
         LogIsOrdered', SnapshotsRuled', ruled \subseteq ruled',
         \A key \in DOMAIN observed :
           key[1] = "delta" => \E k \in Adding' : delta'[k].at = key[2]
  PROVE  PollingInv'
<1>1. ObservedAtAdding'
  BY DEF PollingInv, ObservedAtAdding
<1>2. Polling!DeltaIsCounted'
  BY DEF Polling!DeltaIsCounted
<1>3. Polling!ObservedWhenWritten' /\ Polling!ColumnsOfItsTime'
  BY DEF PollingInv, Polling!ObservedWhenWritten, Polling!ColumnsOfItsTime
<1>4. now' \in Nat \ {0}
  BY DEF PollingInv
<1> QED
  BY <1>1, <1>2, <1>3, <1>4 DEF PollingInv

LEMMA CommitKeeps ==
  ASSUME PollingInv, NEW add, NEW remove, Polling!Commit(add, remove)
  PROVE  PollingInv'
<1> DEFINE entry == [add |-> add, remove |-> remove, at |-> now]
<1>1. /\ now' = now + 1 /\ fresh' = FALSE /\ delta' = Append(delta, entry)
      /\ UNCHANGED <<iceberg, snapshot, schema, observed, ruled>>
  BY DEF Polling!Commit, Polling!Elsewhen
<1>2. PICK S : delta \in Seq(S)
  BY DEF PollingInv, LogIsOrdered
<1>3. /\ Len(delta) \in Nat /\ DOMAIN delta = 1..Len(delta)
      /\ delta' \in Seq(S \union {entry})
      /\ DOMAIN delta' = 1..(Len(delta) + 1)
      /\ \A k \in DOMAIN delta : delta'[k] = delta[k]
      /\ delta'[Len(delta) + 1] = entry
  <2> HIDE DEF entry
  <2>1. delta \in Seq(S \union {entry}) /\ entry \in S \union {entry}
    BY <1>2
  <2> QED
    BY <1>1, <1>2, <2>1
<1>4. now \in Nat /\ entry.at = now
  BY DEF PollingInv
<1> HIDE DEF entry
<1>5. \A k \in DOMAIN delta' : k \in DOMAIN delta \/ k = Len(delta) + 1
  BY <1>3
<1>6. \A k \in DOMAIN delta : delta[k].at \in Nat /\ delta[k].at < now
  BY DEF PollingInv, LogIsOrdered
<1>7. LogIsOrdered'
  <2>1. \A k \in DOMAIN delta' : delta'[k].at \in Nat /\ delta'[k].at < now'
    BY <1>1, <1>3, <1>4, <1>5, <1>6
  <2>2. ASSUME NEW j \in DOMAIN delta', NEW k \in DOMAIN delta', j < k
        PROVE  delta'[j].at < delta'[k].at
    <3>1. j \in DOMAIN delta
      BY <1>3, <1>5, <2>2
    <3>2. CASE k \in DOMAIN delta
      BY <1>3, <2>2, <3>1, <3>2 DEF PollingInv, LogIsOrdered
    <3>3. CASE k = Len(delta) + 1
      BY <1>3, <1>4, <1>6, <3>1, <3>3
    <3> QED
      BY <1>5, <3>2, <3>3
  <2> QED
    BY <1>3, <2>1, <2>2 DEF LogIsOrdered
<1>8. SnapshotsRuled'
  BY <1>1 DEF PollingInv, SnapshotsRuled
<1>9. ASSUME NEW key \in DOMAIN observed, key[1] = "delta"
      PROVE  \E k \in Adding' : delta'[k].at = key[2]
  <2>1. PICK k \in Adding : delta[k].at = key[2]
    BY <1>9 DEF PollingInv, ObservedAtAdding
  <2>2. k \in DOMAIN delta /\ delta[k].add # {}
    BY <2>1 DEF Adding
  <2>3. k \in DOMAIN delta' /\ delta'[k] = delta[k]
    BY <1>3, <2>2
  <2> QED
    BY <2>1, <2>2, <2>3 DEF Adding
<1> QED
  BY <1>1, <1>7, <1>8, <1>9, WritingKeeps

LEMMA IcebergKeeps ==
  ASSUME PollingInv,
         Polling!WriteIceberg \/ Polling!Rollback \/ Polling!AlterTable \/ Polling!Expire
  PROVE  PollingInv'
<1> DEFINE Entry == [id : Nat \ {0}, at : Nat \ {0}, rows : 0..1]
<1>1. now' = now + 1 /\ fresh' = FALSE /\ UNCHANGED <<delta, observed>>
  BY DEF Polling!WriteIceberg, Polling!Rollback, Polling!AlterTable, Polling!Expire,
         Polling!Elsewhen
<1>2. now \in Nat \ {0} /\ LogIsOrdered /\ SnapshotsRuled /\ ObservedAtAdding
  BY DEF PollingInv
<1>3. iceberg \in Seq(Entry) /\ Len(iceberg) \in Nat /\ DOMAIN iceberg = 1..Len(iceberg)
  BY <1>2 DEF SnapshotsRuled
<1>4. LogIsOrdered'
  <2>1. PICK S : delta \in Seq(S)
    BY <1>2 DEF LogIsOrdered
  <2>2. \A k \in DOMAIN delta : delta[k].at \in Nat /\ delta[k].at < now'
    BY <1>1, <1>2 DEF LogIsOrdered
  <2> QED
    BY <1>1, <1>2, <2>1, <2>2 DEF LogIsOrdered
<1>5. ruled \subseteq ruled' /\ SnapshotsRuled'
  <2>1. CASE Polling!WriteIceberg
    <3>1. PICK rows \in 0..1 :
            iceberg' = Append(iceberg, [id |-> now, at |-> now, rows |-> rows])
      BY <2>1 DEF Polling!WriteIceberg
    <3>2. snapshot' = now /\ ruled' = ruled \union {<<now, schema>>} /\ schema' = schema
      BY <2>1 DEF Polling!WriteIceberg
    <3> DEFINE entry == [id |-> now, at |-> now, rows |-> rows]
    <3>3. entry \in Entry /\ entry.id = now /\ entry.at = now
      BY <1>2
    <3> HIDE DEF entry, Entry
    <3>4. /\ iceberg' \in Seq(Entry) /\ DOMAIN iceberg' = 1..(Len(iceberg) + 1)
          /\ \A k \in DOMAIN iceberg : iceberg'[k] = iceberg[k]
          /\ iceberg'[Len(iceberg) + 1] = entry
      <4>1. iceberg' = Append(iceberg, entry)
        BY <3>1 DEF entry
      <4> QED
        BY <1>3, <3>3, <4>1
    <3>5. \A k \in DOMAIN iceberg' : k \in DOMAIN iceberg \/ k = Len(iceberg) + 1
      BY <1>3, <3>4
    <3>6. \E p \in ruled' : p[1] = now
      <4>1. <<now, schema>> \in ruled' /\ <<now, schema>>[1] = now
        BY <3>2
      <4> QED
        BY <4>1
    <3>7. \A k \in DOMAIN iceberg' :
            iceberg'[k].id = iceberg'[k].at /\ \E p \in ruled' : p[1] = iceberg'[k].at
      BY <1>2, <3>2, <3>3, <3>4, <3>5, <3>6 DEF SnapshotsRuled
    <3> QED
      BY <3>2, <3>4, <3>7 DEF SnapshotsRuled, Entry
  <2>2. CASE Polling!Rollback
    <3>1. PICK k \in DOMAIN iceberg :
            /\ snapshot' = iceberg[k].id
            /\ ruled' = ruled \union {<<iceberg[k].id, schema>>}
      BY <2>2 DEF Polling!Rollback
    <3>2. UNCHANGED <<iceberg, schema>>
      BY <2>2 DEF Polling!Rollback
    <3> QED
      BY <1>2, <3>1, <3>2 DEF SnapshotsRuled
  <2>3. CASE Polling!AlterTable
    <3>1. PICK s \in Layouts : schema' = s /\ ruled' = ruled \union {<<snapshot, s>>}
      BY <2>3 DEF Polling!AlterTable
    <3>2. UNCHANGED <<iceberg, snapshot>>
      BY <2>3 DEF Polling!AlterTable
    <3> QED
      BY <1>2, <3>1, <3>2 DEF SnapshotsRuled
  <2>4. CASE Polling!Expire
    <3>1. /\ iceberg' = Tail(iceberg) /\ Len(iceberg) > 1
          /\ UNCHANGED <<schema, snapshot, ruled>>
      BY <2>4 DEF Polling!Expire
    <3> HIDE DEF Entry
    <3>2. /\ iceberg' \in Seq(Entry)
          /\ \A k \in DOMAIN iceberg' : k + 1 \in DOMAIN iceberg /\ iceberg'[k] = iceberg[k + 1]
      BY <1>3, <3>1
    <3> QED
      BY <1>2, <3>1, <3>2 DEF SnapshotsRuled, Entry
  <2> QED
    BY <2>1, <2>2, <2>3, <2>4
<1>6. \A key \in DOMAIN observed :
        key[1] = "delta" => \E k \in Adding' : delta'[k].at = key[2]
  BY <1>1, <1>2 DEF ObservedAtAdding, Adding
<1> QED
  BY <1>1, <1>4, <1>5, <1>6, WritingKeeps

(* What the poll of an Iceberg table adds: observations under the time of a    *)
(* write, with columns it is known to have had then.                         *)
LEMMA HistoryIsTrue ==
  ASSUME PollingInv, NEW read, read \subseteq {iceberg[k] : k \in DOMAIN iceberg},
         NEW key \in DOMAIN Polling!IcebergSnapshots(read)
  PROVE  /\ key = <<"iceberg", key[2]>> /\ \E p \in ruled : p[1] = key[2]
         /\ LET columns == Polling!IcebergSnapshots(read)[key].columns
            IN columns = 0 \/ <<key[2], columns>> \in ruled
<1> DEFINE at(t) == {s \in read : Polling!WhenWritten(s) = t}
           chosen == CHOOSE x \in at(key[2]) : \A y \in at(key[2]) : y.id <= x.id
<1>1. key \in {<<"iceberg", Polling!WhenWritten(s)>> : s \in read}
  BY DEF Polling!IcebergSnapshots
<1>2. Polling!IcebergSnapshots(read)[key].columns = Polling!ColumnsOf(chosen)
  BY <1>1 DEF Polling!IcebergSnapshots
<1>3. \A s \in read : /\ s.id \in Nat \ {0} /\ s.at = s.id
                      /\ \E p \in ruled : p[1] = s.at
  <2>1. ASSUME NEW k \in DOMAIN iceberg
        PROVE  /\ iceberg[k].id \in Nat \ {0} /\ iceberg[k].at = iceberg[k].id
               /\ \E p \in ruled : p[1] = iceberg[k].at
    <3> DEFINE Entry == [id : Nat \ {0}, at : Nat \ {0}, rows : 0..1]
    <3>1. iceberg \in Seq(Entry)
      BY DEF PollingInv, SnapshotsRuled
    <3> HIDE DEF Entry
    <3>2. iceberg[k] \in Entry
      BY <3>1
    <3> QED
      BY <3>2 DEF PollingInv, SnapshotsRuled, Entry
  <2> QED
    BY <2>1
<1>4. PICK s \in read : key = <<"iceberg", s.at>>
  BY <1>1 DEF Polling!WhenWritten
<1>5. \A x \in at(key[2]) : x \in read /\ x.id = key[2]
  BY <1>3 DEF Polling!WhenWritten
<1>6. s \in at(key[2])
  BY <1>4 DEF Polling!WhenWritten
<1>7. key[2] \in Nat \ {0}
  BY <1>3, <1>4
<1>8. \E x \in at(key[2]) : \A y \in at(key[2]) : y.id <= x.id
  BY <1>5, <1>6, <1>7
<1>9. chosen \in at(key[2])
  BY <1>8
<1> HIDE DEF chosen
<1>10. chosen.id = key[2]
  BY <1>5, <1>9
<1>11. Polling!ColumnsOf(chosen) = 0 \/ <<key[2], Polling!ColumnsOf(chosen)>> \in ruled
  BY <1>7, <1>10 DEF Polling!ColumnsOf, Polling!None, PollingInv, SnapshotsRuled
<1> QED
  BY <1>2, <1>3, <1>4, <1>11

LEMMA PollKeeps ==
  ASSUME PollingInv, Polling!Poll
  PROVE  PollingInv'
<1>1. /\ fresh' = TRUE /\ UNCHANGED <<now, delta, iceberg, snapshot, schema, ruled>>
      /\ \E read : /\ read \subseteq {iceberg[k] : k \in DOMAIN iceberg}
                   /\ observed' = Polling!Upserted(Polling!Snapshots(read))
  BY DEF Polling!Poll, Polling!Retained, Polling!Current
<1>2. PICK read : /\ read \subseteq {iceberg[k] : k \in DOMAIN iceberg}
                  /\ observed' = Polling!Upserted(Polling!Snapshots(read))
  BY <1>1
<1> DEFINE history == Polling!IcebergSnapshots(read)
           log == Polling!DeltaSnapshots
           new == Polling!Snapshots(read)
           time == Polling!DeltaTime
<1>3. /\ DOMAIN new = DOMAIN log \union DOMAIN history
      /\ \A key \in DOMAIN history : new[key] = history[key]
      /\ \A key \in DOMAIN log \ DOMAIN history : new[key] = log[key]
  BY DEF Polling!Snapshots
<1>4. /\ DOMAIN log = IF Polling!InTable = {} THEN {} ELSE {<<"delta", time>>}
      /\ \A key \in DOMAIN log : log[key].rows = Polling!Cardinality(Polling!InTable)
  BY DEF Polling!DeltaSnapshots, Polling!ReadDelta
<1>5. /\ DOMAIN observed' = DOMAIN observed \union DOMAIN new
      /\ \A key \in DOMAIN observed \ DOMAIN new : observed'[key] = observed[key]
      /\ \A key \in DOMAIN new :
           /\ observed'[key].rows = new[key].rows
           /\ observed'[key].columns \in
                {new[key].columns} \union
                {observed[k].columns : k \in {key} \intersect DOMAIN observed}
  <2> HIDE DEF new
  <2> QED
    BY <1>2 DEF new, Polling!Upserted, Polling!Coalesced
<1>6. \A key \in DOMAIN history :
        /\ key = <<"iceberg", key[2]>> /\ \E p \in ruled : p[1] = key[2]
        /\ history[key].columns = 0 \/ <<key[2], history[key].columns>> \in ruled
  BY <1>2, HistoryIsTrue
<1> HIDE DEF history, log, new, time
<1>7. \A key \in DOMAIN log : key \notin DOMAIN history /\ key[1] = "delta"
  <2>1. \A key \in DOMAIN log : key[1] = "delta"
    BY <1>4
  <2>2. \A key \in DOMAIN history : key[1] = "iceberg"
    <3>1. ASSUME NEW key \in DOMAIN history PROVE key[1] = "iceberg"
      <4>1. key = <<"iceberg", key[2]>>
        BY <1>6
      <4>2. \A t : <<"iceberg", t>>[1] = "iceberg"
        OBVIOUS
      <4> QED
        BY ONLY <4>1, <4>2, Zenon
    <3> QED
      BY <3>1
  <2> QED
    BY <2>1, <2>2
<1>8. DOMAIN log # {} => \E k \in Adding : /\ time = delta[k].at
                                           /\ \A j \in Adding : delta[j].at <= time
  BY <1>4, FilesWereAdded, DeltaTimeIsNewest DEF PollingInv, time
<1>9. ObservedAtAdding'
  <2>1. ASSUME NEW key \in DOMAIN observed'
        PROVE  /\ key = <<key[1], key[2]>>
               /\ key[1] = "delta" => \E k \in Adding : delta[k].at = key[2]
    <3>1. CASE key \in DOMAIN observed
      BY <3>1 DEF PollingInv, ObservedAtAdding
    <3>2. CASE key \in DOMAIN log
      <4>1. key = <<"delta", time>>
        BY <1>4, <3>2
      <4>2. key[1] = "delta" /\ key[2] = time
        BY <4>1
      <4> QED
        BY <1>8, <3>2, <4>1, <4>2
    <3>3. CASE key \in DOMAIN history
      <4>1. key = <<"iceberg", key[2]>>
        BY <1>6, <3>3
      <4>2. \A t : <<"iceberg", t>>[1] = "iceberg"
        OBVIOUS
      <4>3. key[1] = "iceberg"
        BY ONLY <4>1, <4>2, Zenon
      <4> QED
        BY <4>1, <4>3
    <3> QED
      BY <1>3, <1>5, <2>1, <3>1, <3>2, <3>3
  <2>2. Adding' = Adding
    BY <1>1 DEF Adding
  <2> QED
    BY <1>1, <2>1, <2>2 DEF ObservedAtAdding
<1>10. Polling!ObservedWhenWritten'
  <2>1. ASSUME NEW key \in DOMAIN observed', key[1] = "iceberg"
        PROVE  \E p \in ruled : p[1] = key[2]
    <3>1. CASE key \in DOMAIN observed
      BY <2>1, <3>1 DEF PollingInv, Polling!ObservedWhenWritten
    <3>2. CASE key \in DOMAIN history
      BY <1>6, <3>2
    <3> QED
      BY <1>3, <1>5, <1>7, <2>1, <3>1, <3>2
  <2> QED
    BY <1>1, <2>1 DEF Polling!ObservedWhenWritten
<1>11. Polling!ColumnsOfItsTime'
  <2>1. ASSUME NEW key \in DOMAIN observed', key[1] = "iceberg", observed'[key].columns # 0
        PROVE  <<key[2], observed'[key].columns>> \in ruled
    <3>1. ASSUME key \in DOMAIN observed, observed'[key].columns = observed[key].columns
          PROVE  <<key[2], observed'[key].columns>> \in ruled
      BY <2>1, <3>1 DEF PollingInv, Polling!ColumnsOfItsTime, Polling!None
    <3>2. CASE key \notin DOMAIN new
      BY <1>5, <2>1, <3>1, <3>2
    <3>3. CASE key \in DOMAIN new
      <4>1. key \in DOMAIN history /\ new[key] = history[key]
        BY <1>3, <1>7, <2>1, <3>3
      <4>2. \/ observed'[key].columns = history[key].columns
            \/ key \in DOMAIN observed /\ observed'[key].columns = observed[key].columns
        BY <1>5, <3>3, <4>1
      <4> QED
        BY <1>6, <2>1, <3>1, <4>1, <4>2
    <3> QED
      BY <3>2, <3>3
  <2> QED
    BY <1>1, <2>1 DEF Polling!ColumnsOfItsTime, Polling!None
<1>12. Polling!DeltaIsCounted'
  <2> SUFFICES ASSUME Polling!InTable # {}
               PROVE  /\ Polling!Latest("delta")' = time
                      /\ observed'[<<"delta", time>>].rows = Polling!Cardinality(Polling!InTable)
    <3>1. Polling!InTable' = Polling!InTable
      BY <1>1 DEF Polling!InTable
    <3>2. Polling!Cardinality(Polling!InTable)' = Polling!Cardinality(Polling!InTable)
      BY <3>1
    <3> QED
      BY <3>1, <3>2 DEF Polling!DeltaIsCounted
  <2> DEFINE times == {k[2] : k \in {j \in DOMAIN observed' : j[1] = "delta"}}
  <2>1. <<"delta", time>> \in DOMAIN log
    BY <1>4
  <2>2. observed'[<<"delta", time>>].rows = Polling!Cardinality(Polling!InTable)
    BY <1>3, <1>4, <1>5, <1>7, <2>1
  <2>3. PICK k \in Adding : time = delta[k].at /\ \A j \in Adding : delta[j].at <= time
    BY <1>8, <2>1
  <2>4. time \in times
    <3>1. <<"delta", time>> \in DOMAIN observed'
      BY <1>3, <1>5, <2>1
    <3> QED
      BY <3>1
  <2>5. \A t \in times : t \in Nat /\ t <= time
    <3>1. ASSUME NEW key \in DOMAIN observed', key[1] = "delta"
          PROVE  key[2] \in Nat /\ key[2] <= time
      <4>1. \E j \in Adding' : delta'[j].at = key[2]
        BY <1>9, <3>1 DEF ObservedAtAdding
      <4>2. PICK j \in Adding : delta[j].at = key[2]
        BY <1>1, <4>1 DEF Adding
      <4> QED
        BY <2>3, <4>2 DEF PollingInv, LogIsOrdered, Adding
    <3> QED
      BY <3>1
  <2>6. time \in Nat
    BY <2>4, <2>5
  <2> HIDE DEF times
  <2>7. ASSUME NEW t \in times, \A u \in times : u <= t PROVE t = time
    BY <2>4, <2>5, <2>6, <2>7
  <2>8. (CHOOSE t \in times : \A u \in times : u <= t) = time
    BY <2>4, <2>5, <2>7
  <2>9. Polling!Latest("delta")' = time
    BY <2>8 DEF Polling!Latest, times
  <2> QED
    BY <2>2, <2>9
<1>13. now' \in Nat \ {0} /\ LogIsOrdered' /\ SnapshotsRuled'
  BY <1>1 DEF PollingInv, LogIsOrdered, SnapshotsRuled
<1> QED
  BY <1>9, <1>10, <1>11, <1>12, <1>13 DEF PollingInv

LEMMA PollingStep ==
  ASSUME PollingInv, [Polling!Next]_(Polling!vars)
  PROVE  PollingInv'
<1>1. CASE Polling!WriteDelta
  <2>1. \E add, remove : Polling!Commit(add, remove)
    BY <1>1 DEF Polling!WriteDelta
  <2> QED
    BY <2>1, CommitKeeps
<1>2. CASE UNCHANGED Polling!vars
  <2>1. UNCHANGED <<now, delta, iceberg, snapshot, schema, observed, polls, ruled, fresh>>
    BY <1>2 DEF Polling!vars
  <2>2. LogIsOrdered' /\ SnapshotsRuled' /\ ObservedAtAdding' /\ now' \in Nat \ {0}
    BY <2>1 DEF PollingInv, LogIsOrdered, SnapshotsRuled, ObservedAtAdding, Adding
  <2>3. Polling!ObservedWhenWritten' /\ Polling!ColumnsOfItsTime'
    BY <2>1 DEF PollingInv, Polling!ObservedWhenWritten, Polling!ColumnsOfItsTime
  <2>4. Polling!DeltaIsCounted'
    <3>1. Polling!InTable' = Polling!InTable
      BY <2>1 DEF Polling!InTable
    <3>2. Polling!Latest("delta")' = Polling!Latest("delta")
      BY <2>1 DEF Polling!Latest
    <3>3. /\ fresh' = fresh /\ observed' = observed
          /\ Polling!Cardinality(Polling!InTable)' = Polling!Cardinality(Polling!InTable)
      BY <2>1, <3>1
    <3> QED
      BY <3>1, <3>2, <3>3 DEF PollingInv, Polling!DeltaIsCounted
  <2> QED
    BY <2>2, <2>3, <2>4 DEF PollingInv
<1> QED
  BY <1>1, <1>2, IcebergKeeps, PollKeeps DEF Polling!Next

HIDE DEF now, delta, iceberg, snapshot, schema, observed, polls, ruled, fresh

PollingPart == part = "polling" => PollingInv

(* For any files, schemas and retained history, and any order of writes and    *)
(* polls: what is stored of a table that is polled is what it was at each     *)
(* write (sources.py read_delta_log, read_iceberg_history; store_snapshots).  *)
THEOREM RecordsObservedAsWritten == Spec => []ObservedAsWritten
<1>1. Init => PollingPart
  BY PollingStarts DEF Init, PollingPart
<1>2. PollingPart /\ [Next]_all => PollingPart'
  <2>1. CASE UNCHANGED all
    <3>1. UNCHANGED <<part, Polling!vars>>
      BY <2>1 DEF all, slots, Polling!vars
    <3> QED
      BY <3>1, PollingStep DEF PollingPart
  <2>2. CASE Next
    <3>1. part' = part /\ (part = "polling" => Polling!Next)
      BY <2>2 DEF Next
    <3> QED
      BY <3>1, PollingStep DEF PollingPart
  <2> QED
    BY <2>1, <2>2
<1>3. PollingPart => ObservedAsWritten
  BY DEF PollingPart, PollingInv, ObservedAsWritten, Polling!ObservedAsWritten
<1> QED
  BY <1>1, <1>2, <1>3, PTL DEF Spec

-----------------------------------------------------------------------------
(* Projection: stitching and replay keep the run tree.  The facts about chains *)
(* of parents are those of TreeOpsProofs.                                      *)
Trees == INSTANCE TreeOpsProofs WITH NoRun <- Nothing

TreeAssumption ==
  /\ Projection!RunsAssumption /\ Projection!DepthAssumption
  /\ Projection!Tree!TypesAssumption
  /\ Projection!ProjectionAssumption

(* No chain of runs is longer than a repair descends.                          *)
DeepEnough == Cardinality(Runs) <= MaxTreeDepth + 1

LEMMA TreesApply ==
  ASSUME TreeAssumption
  PROVE  /\ Trees!RunsAssumption /\ Trees!DepthAssumption
         /\ DeepEnough => Trees!Cardinality(Runs) <= MaxTreeDepth + 1
<1>1. Trees!IsFiniteSet(Runs) = Projection!IsFiniteSet(Runs)
  BY DEF Trees!IsFiniteSet, Projection!IsFiniteSet
<1>2. Trees!Cardinality(Runs) = Cardinality(Runs)
  BY DEF Trees!Cardinality, Cardinality
<1> QED
  BY <1>1, <1>2 DEF TreeAssumption, Projection!RunsAssumption, Projection!DepthAssumption,
     Trees!RunsAssumption, Trees!DepthAssumption, DeepEnough

(* The operators of the two instances are one.                                 *)
LEMMA SameChains ==
  ASSUME NEW par, NEW d
  PROVE  /\ Projection!Ancestors(par, d) = Trees!Ancestors(par, d)
         /\ Projection!Tree!Ancestors(par, d) = Trees!Ancestors(par, d)
  BY DEF Projection!Ancestors, Trees!Ancestors, Projection!ClosedUp, Trees!ClosedUp,
         Projection!Tree!Ancestors, Projection!Tree!ClosedUp

LEMMA SameCount ==
  ASSUME NEW S
  PROVE  /\ Projection!Cardinality(S) = Trees!Cardinality(S)
         /\ Projection!Tree!Cardinality(S) = Trees!Cardinality(S)
  BY DEF Projection!Cardinality, Trees!Cardinality, Projection!Tree!Cardinality

LEMMA SameDistance ==
  ASSUME NEW par, NEW r, NEW d
  PROVE  /\ Projection!Distance(par, r, d) = Trees!Distance(par, r, d)
         /\ Projection!Tree!Distance(par, r, d) = Trees!Distance(par, r, d)
  BY SameChains, SameCount DEF Projection!Distance, Projection!Tree!Distance, Trees!Distance

LEMMA SameRepairs ==
  ASSUME NEW par, NEW r, NEW n
  PROVE  /\ Projection!Repairable(par, r, n) = Trees!Repairable(par, r, n)
         /\ Projection!Tree!Repairable(par, r, n) = Trees!Repairable(par, r, n)
<1>1. /\ Projection!Below(par, r) = Trees!Below(par, r)
      /\ Projection!Tree!Below(par, r) = Trees!Below(par, r)
  BY SameChains DEF Projection!Below, Projection!Tree!Below, Trees!Below
<1> QED
  BY <1>1, SameDistance DEF Projection!Repairable, Projection!Tree!Repairable, Trees!Repairable

LEMMA NamedTree ==
  ASSUME TreeAssumption
  PROVE  /\ Named \in Trees!Column /\ Trees!Acyclic(Named)
         /\ Queries \subseteq Runs /\ DbtRuns \subseteq Runs
         /\ Nothing \notin Runs
         /\ \A d \in DbtRuns : Trees!Ancestors(Named, d) \intersect Queries = {}
<1>1. Projection!Acyclic(Named) = Trees!Acyclic(Named)
  BY SameChains DEF Projection!Acyclic, Trees!Acyclic
<1> QED
  BY <1>1, SameChains DEF TreeAssumption, Projection!ProjectionAssumption, Trees!Column,
     Projection!RunsAssumption

-----------------------------------------------------------------------------
(* A run hangs where its events say, or, stitched, below a run of dbt.  A      *)
(* stitched run that was heard from without a parent since is reset.           *)
Stitches(par, hrd, sti, res) ==
  /\ par \in Trees!Column /\ hrd \subseteq Runs
  /\ sti \subseteq Queries \intersect hrd
  /\ res \subseteq {r \in sti : Named[r] = Nothing}
  /\ \A r \in Runs \ sti : par[r] = IF r \in hrd THEN Named[r] ELSE Nothing
  /\ \A r \in sti : par[r] \in DbtRuns \intersect hrd

(* A run stands right unless it or one above it was reset.                     *)
Placed(par, rt, dep, res) ==
  /\ rt \in [Runs -> Runs] /\ dep \in [Runs -> Nat]
  /\ \A x \in Runs : Trees!Ancestors(par, x) \intersect res = {}
                       => Trees!RightAt(par, rt, dep, x)

(* What stands above dbt, by name: no query is among it.                       *)
AboveDbt == UNION {Trees!Ancestors(Named, d) : d \in DbtRuns}

LEMMA AboveDbtIsClosed ==
  ASSUME TreeAssumption
  PROVE  /\ AboveDbt \subseteq Runs /\ DbtRuns \subseteq AboveDbt
         /\ AboveDbt \intersect Queries = {}
         /\ \A x \in AboveDbt : Named[x] # Nothing => Named[x] \in AboveDbt
<1>1. \A d \in DbtRuns : /\ Trees!Ancestors(Named, d) \subseteq Runs
                         /\ Trees!ClosedUp(Named, d, Trees!Ancestors(Named, d))
  BY NamedTree, TreesApply, Trees!AncestorsClosed
<1> QED
  BY <1>1, NamedTree DEF AboveDbt, Trees!ClosedUp

(* Nothing that was stitched stands above dbt, and no chain is closed by it.   *)
LEMMA NoStitchAboveDbt ==
  ASSUME TreeAssumption, NEW par, NEW hrd, NEW sti, NEW res,
         Stitches(par, hrd, sti, res), NEW x \in AboveDbt
  PROVE  Trees!Ancestors(par, x) \subseteq AboveDbt
<1>1. par \in Trees!Column
  BY DEF Stitches
<1>2. ASSUME NEW y \in AboveDbt, par[y] # Nothing
      PROVE  par[y] \in AboveDbt
  BY <1>2, AboveDbtIsClosed DEF Stitches
<1> QED
  BY <1>1, <1>2, AboveDbtIsClosed, TreesApply, Trees!AncestorsLeast DEF Trees!ClosedUp

LEMMA StitchedAcyclic ==
  ASSUME TreeAssumption, NEW par, NEW hrd, NEW sti, NEW res,
         Stitches(par, hrd, sti, res)
  PROVE  Trees!Acyclic(par)
<1> SUFFICES ASSUME NEW r \in Runs, par[r] # Nothing,
                    r \in Trees!Ancestors(par, par[r])
             PROVE  FALSE
  BY DEF Trees!Acyclic
<1>1. par \in Trees!Column /\ par[r] \in Runs
  BY DEF Stitches, Trees!Column
<1>2. r \notin Trees!Ancestors(Named, Named[r]) \/ Named[r] = Nothing
  BY NamedTree DEF Trees!Acyclic
<1>3. CASE r \in sti
  <2>1. r \notin AboveDbt /\ par[r] \in AboveDbt
    BY <1>3, AboveDbtIsClosed DEF Stitches
  <2> QED
    BY <2>1, NoStitchAboveDbt
<1>4. CASE r \notin sti
  <2> DEFINE S == Trees!Ancestors(Named, Named[r]) \cup (AboveDbt \ {r})
  <2>1. par[r] = Named[r] /\ Named[r] \in Runs
    BY <1>1, <1>4 DEF Stitches
  <2>2. /\ Trees!Ancestors(Named, Named[r]) \subseteq Runs
        /\ Trees!ClosedUp(Named, Named[r], Trees!Ancestors(Named, Named[r]))
    BY <2>1, NamedTree, TreesApply, Trees!AncestorsClosed
  <2>3. CASE r \notin AboveDbt
    <3>1. ASSUME NEW x \in S, par[x] # Nothing
          PROVE  par[x] \in S
      <4>1. CASE par[x] = Named[x]
        BY <2>2, <2>3, <3>1, <4>1, AboveDbtIsClosed DEF Trees!ClosedUp
      <4>2. CASE par[x] \in DbtRuns
        BY <2>3, <4>2, AboveDbtIsClosed
      <4> QED
        BY <2>2, <3>1, <4>1, <4>2, AboveDbtIsClosed DEF Stitches
    <3>2. S \in SUBSET Runs /\ par[r] \in S
      BY <2>1, <2>2, AboveDbtIsClosed DEF Trees!ClosedUp
    <3>3. Trees!ClosedUp(par, par[r], S)
      BY <3>1, <3>2 DEF Trees!ClosedUp
    <3>4. Trees!Ancestors(par, par[r]) \subseteq S
      <4> HIDE DEF S
      <4> QED
        BY <3>2, <3>3, TreesApply, Trees!AncestorsLeast
    <3> QED
      BY <1>2, <2>1, <2>3, <3>4, NamedTree
  <2>4. CASE r \in AboveDbt
    <3> DEFINE T == Trees!Ancestors(Named, Named[r]) \intersect AboveDbt
    <3>1. ASSUME NEW x \in T, par[x] # Nothing
          PROVE  par[x] \in T
      <4>1. par[x] = Named[x]
        BY <3>1, AboveDbtIsClosed DEF Stitches
      <4> QED
        BY <2>2, <3>1, <4>1, AboveDbtIsClosed DEF Trees!ClosedUp
    <3>2. T \in SUBSET Runs /\ par[r] \in T
      BY <2>1, <2>2, <2>4, NamedTree, AboveDbtIsClosed DEF Trees!ClosedUp
    <3>3. Trees!ClosedUp(par, par[r], T)
      BY <3>1, <3>2 DEF Trees!ClosedUp
    <3>4. Trees!Ancestors(par, par[r]) \subseteq T
      <4> HIDE DEF T
      <4> QED
        BY <3>2, <3>3, TreesApply, Trees!AncestorsLeast
    <3> QED
      BY <1>2, <2>1, <3>4, NamedTree
  <2> QED
    BY <2>3, <2>4
<1> QED
  BY <1>3, <1>4

-----------------------------------------------------------------------------
(* The rows of runs that are not below r are as right as they were.            *)
LEMMA ElsewhereKept ==
  ASSUME TreeAssumption, NEW par \in Trees!Column, NEW new \in Trees!Column,
         NEW r \in Runs, \A x \in Runs \ {r} : new[x] = par[x],
         NEW d \in Runs, r \notin Trees!Ancestors(new, d)
  PROVE  /\ Trees!Ancestors(new, d) = Trees!Ancestors(par, d)
         /\ \A rt, dep : Trees!RightAt(par, rt, dep, d) => Trees!RightAt(new, rt, dep, d)
<1>1. Trees!Ancestors(new, d) = Trees!Ancestors(par, d)
  BY TreesApply, Trees!ChainsElsewhere
<1>2. Trees!Ancestors(par, d) \subseteq Runs
  BY TreesApply, Trees!AncestorsClosed
<1> QED
  BY <1>1, <1>2 DEF Trees!RightAt, Trees!HeightOf

(* The columns after an update of r and a repair of what moved along with it.  *)
RootPlaced(r, moved, top, rt) ==
  [d \in Runs |-> IF d = r \/ d \in moved THEN top ELSE rt[d]]
DepthPlaced(par, r, moved, n, dep) ==
  [d \in Runs |-> IF d = r THEN n
                  ELSE IF d \in moved THEN n + Trees!Distance(par, r, d)
                  ELSE dep[d]]

LEMMA PlacingIsRight ==
  ASSUME TreeAssumption, DeepEnough, NEW par \in Trees!Column, NEW r \in Runs,
         NEW rt, NEW dep,
         NEW top \in Trees!Ancestors(par, r), par[top] = Nothing,
         NEW n, n = Trees!HeightOf(par, r),
         NEW moved, moved = Trees!Repairable(par, r, n),
         NEW d \in Runs, r \in Trees!Ancestors(par, d)
  PROVE  Trees!RightAt(par, RootPlaced(r, moved, top, rt),
                       DepthPlaced(par, r, moved, n, dep), d)
<1>1. /\ top \in Trees!Ancestors(par, d)
      /\ Trees!HeightOf(par, r) + Trees!Distance(par, r, d) = Trees!HeightOf(par, d)
      /\ d # r => d \in moved
  BY TreesApply, Trees!RepairPlaces
<1> QED
  BY <1>1 DEF Trees!RightAt, RootPlaced, DepthPlaced

(* Positions stay numbers and runs, whatever is repaired.                      *)
LEMMA PlacingIsTyped ==
  ASSUME TreeAssumption, NEW par \in Trees!Column, NEW r \in Runs,
         NEW rt \in [Runs -> Runs], NEW dep \in [Runs -> Nat],
         NEW top \in Runs, NEW n \in Nat, NEW moved,
         moved \subseteq Trees!Repairable(par, r, n)
  PROVE  /\ RootPlaced(r, moved, top, rt) \in [Runs -> Runs]
         /\ DepthPlaced(par, r, moved, n, dep) \in [Runs -> Nat]
<1>1. ASSUME NEW d \in moved
      PROVE  n + Trees!Distance(par, r, d) \in Nat
  <2>1. d \in Runs /\ r \in Trees!Ancestors(par, d)
    BY DEF Trees!Repairable, Trees!Below
  <2>2. Trees!Distance(par, r, d) \in Nat
    BY <2>1, TreesApply, Trees!DistanceIsNatural
  <2> QED
    BY <2>2
<1> QED
  BY <1>1 DEF RootPlaced, DepthPlaced

(* stitch.py moves a query below a run of dbt, and what hangs below it along.  *)
LEMMA StitchingPlaces ==
  ASSUME TreeAssumption, DeepEnough, NEW par, NEW hrd, NEW sti, NEW res,
         Stitches(par, hrd, sti, res), NEW rt, NEW dep, Placed(par, rt, dep, res),
         NEW q \in Queries \intersect hrd, NEW d \in DbtRuns \intersect hrd,
         NEW new \in Trees!Column, new[q] = d, \A x \in Runs \ {q} : new[x] = par[x],
         NEW moved, moved = Trees!Repairable(new, q, dep[d] + 1)
  PROVE  /\ Stitches(new, hrd, sti \cup {q}, res \ {q})
         /\ Placed(new, RootPlaced(q, moved, rt[d], rt),
                   DepthPlaced(new, q, moved, dep[d] + 1, dep), res \ {q})
<1> DEFINE n == dep[d] + 1
           rt2 == RootPlaced(q, moved, rt[d], rt)
           dep2 == DepthPlaced(new, q, moved, n, dep)
<1>0. /\ n = dep[d] + 1 /\ moved = Trees!Repairable(new, q, n)
      /\ rt2 = RootPlaced(q, moved, rt[d], rt)
      /\ dep2 = DepthPlaced(new, q, moved, n, dep)
  OBVIOUS
<1> HIDE DEF n, rt2, dep2
<1> USE <1>0
<1>1. /\ par \in Trees!Column /\ new \in Trees!Column /\ new[q] = d
      /\ \A x \in Runs \ {q} : new[x] = par[x]
      /\ q \in Runs /\ d \in Runs /\ d # Nothing
  BY NamedTree DEF Stitches, Trees!Column
<1>2. Stitches(new, hrd, sti \cup {q}, res \ {q})
  BY <1>1 DEF Stitches
<1>3. Trees!Acyclic(new)
  BY <1>2, StitchedAcyclic
<1>4. q \notin Trees!Ancestors(new, d)
  BY ONLY <1>1, <1>3 DEF Trees!Acyclic
<1>5. Trees!Ancestors(new, d) = Trees!Ancestors(par, d)
  BY <1>1, <1>4, ElsewhereKept
<1>6. Trees!Ancestors(par, d) \intersect res = {}
  <2>1. d \in AboveDbt
    BY AboveDbtIsClosed
  <2> QED
    BY <2>1, NoStitchAboveDbt, AboveDbtIsClosed, ZenonT(40) DEF Stitches
<1>7. Trees!RightAt(par, rt, dep, d) /\ rt \in [Runs -> Runs] /\ dep \in [Runs -> Nat]
  BY <1>1, <1>6 DEF Placed
<1>8. /\ rt[d] \in Trees!Ancestors(new, q) /\ new[rt[d]] = Nothing
      /\ n = Trees!HeightOf(new, q) /\ n \in Nat
  <2>1. Trees!RightAt(new, rt, dep, d)
    BY <1>1, <1>4, <1>7, ElsewhereKept
  <2>2. /\ Trees!Ancestors(new, q) = {q} \cup Trees!Ancestors(new, d)
        /\ Trees!Cardinality(Trees!Ancestors(new, q))
             = Trees!Cardinality(Trees!Ancestors(new, d)) + 1
        /\ Trees!Cardinality(Trees!Ancestors(new, d)) \in Nat
    <3>1. new[q] # Nothing /\ new[q] = d
      BY <1>1
    <3>2. /\ Trees!Ancestors(new, q) = {q} \cup Trees!Ancestors(new, new[q])
          /\ Trees!Cardinality(Trees!Ancestors(new, q))
               = Trees!Cardinality(Trees!Ancestors(new, new[q])) + 1
      BY <1>1, <1>3, <3>1, TreesApply, Trees!AncestorsStep, Trees!OneLevel
    <3>3. Trees!Cardinality(Trees!Ancestors(new, d)) \in Nat
      BY <1>1, TreesApply, Trees!AncestorsFinite
    <3> QED
      BY ONLY <3>1, <3>2, <3>3
  <2>3. n = dep[d] + 1
    OBVIOUS
  <2>4. /\ rt[d] \in Trees!Ancestors(new, d) /\ new[rt[d]] = Nothing
        /\ dep[d] = Trees!Cardinality(Trees!Ancestors(new, d)) - 1
    BY ONLY <2>1 DEF Trees!RightAt, Trees!HeightOf
  <2>5. Trees!HeightOf(new, q) = Trees!Cardinality(Trees!Ancestors(new, q)) - 1
    BY DEF Trees!HeightOf
  <2>6. dep[d] \in Nat
    BY ONLY <1>1, <1>7
  <2> QED
    BY ONLY <2>2, <2>3, <2>4, <2>5, <2>6
<1>9. rt2 \in [Runs -> Runs] /\ dep2 \in [Runs -> Nat]
  <2>1. q \in Runs /\ rt[d] \in Runs /\ moved \subseteq Trees!Repairable(new, q, n)
    BY <1>1, <1>7
  <2> QED
    BY <1>1, <1>7, <1>8, <2>1, PlacingIsTyped
<1>10. ASSUME NEW x \in Runs, Trees!Ancestors(new, x) \intersect (res \ {q}) = {}
       PROVE  Trees!RightAt(new, rt2, dep2, x)
  <2>1. CASE q \in Trees!Ancestors(new, x)
    BY <1>1, <1>7, <1>8, <2>1, PlacingIsRight
  <2>2. CASE q \notin Trees!Ancestors(new, x)
    <3>1. Trees!Ancestors(new, x) = Trees!Ancestors(par, x)
      BY <1>1, <2>2, ElsewhereKept
    <3>2. Trees!RightAt(par, rt, dep, x)
      BY <1>10, <2>2, <3>1 DEF Placed
    <3>3. Trees!RightAt(new, rt, dep, x)
      BY <1>1, <2>2, <3>2, ElsewhereKept
    <3>4. x # q
      BY <1>1, <2>2, TreesApply, Trees!AncestorsClosed DEF Trees!ClosedUp
    <3>5. x \notin moved
      BY <2>2 DEF Trees!Repairable, Trees!Below
    <3>6. rt2[x] = rt[x] /\ dep2[x] = dep[x]
      BY <3>4, <3>5 DEF RootPlaced, DepthPlaced
    <3> QED
      BY <3>3, <3>6 DEF Trees!RightAt
  <2> QED
    BY <2>1, <2>2
<1>11. Placed(new, rt2, dep2, res \ {q})
  BY <1>9, <1>10 DEF Placed
<1> QED
  BY <1>2, <1>11 DEF n, rt2, dep2

(* What an event of r does to the columns: r is placed, and what is below it is *)
(* repaired or, where the place is the old one, left.                          *)
EventMoves(par, rt, dep, r, new, top, n, moved) ==
  /\ new \in Trees!Column
  /\ new[r] = IF Named[r] = Nothing THEN par[r] ELSE Named[r]
  /\ \A x \in Runs \ {r} : new[x] = par[x]
  /\ top = IF Named[r] = Nothing THEN r ELSE rt[Named[r]]
  /\ n = IF Named[r] = Nothing THEN 0 ELSE dep[Named[r]] + 1
  /\ \/ moved = Trees!Repairable(new, r, n)
     \/ moved = {} /\ rt[r] = top /\ dep[r] = n

StillStitched(r, sti) == IF Named[r] = Nothing THEN sti ELSE sti \ {r}
NowReset(r, sti, res) == IF r \in sti /\ Named[r] = Nothing THEN res \cup {r} ELSE res

(* An event of r hangs r where it says. A stitched run that says nothing of a  *)
(* parent is reset; one that names a parent moves there.                       *)
LEMMA EventPlaces ==
  ASSUME TreeAssumption, DeepEnough, NEW par, NEW hrd, NEW sti, NEW res,
         Stitches(par, hrd, sti, res), NEW rt, NEW dep, Placed(par, rt, dep, res),
         NEW r \in Runs, NEW new, NEW top, NEW n, NEW moved,
         EventMoves(par, rt, dep, r, new, top, n, moved)
  PROVE  /\ Stitches(new, hrd \cup {r}, StillStitched(r, sti), NowReset(r, sti, res))
         /\ Placed(new, RootPlaced(r, moved, top, rt), DepthPlaced(new, r, moved, n, dep),
                   NowReset(r, sti, res))
<1> DEFINE sti2 == StillStitched(r, sti)
           res2 == NowReset(r, sti, res)
           rt2 == RootPlaced(r, moved, top, rt)
           dep2 == DepthPlaced(new, r, moved, n, dep)
<1>0. /\ new \in Trees!Column
      /\ new[r] = IF Named[r] = Nothing THEN par[r] ELSE Named[r]
      /\ \A x \in Runs \ {r} : new[x] = par[x]
      /\ top = IF Named[r] = Nothing THEN r ELSE rt[Named[r]]
      /\ n = IF Named[r] = Nothing THEN 0 ELSE dep[Named[r]] + 1
      /\ \/ moved = Trees!Repairable(new, r, n)
         \/ moved = {} /\ rt[r] = top /\ dep[r] = n
      /\ sti2 = (IF Named[r] = Nothing THEN sti ELSE sti \ {r})
      /\ res2 = (IF r \in sti /\ Named[r] = Nothing THEN res \cup {r} ELSE res)
      /\ rt2 = RootPlaced(r, moved, top, rt)
      /\ dep2 = DepthPlaced(new, r, moved, n, dep)
  BY DEF EventMoves, StillStitched, NowReset
<1> HIDE DEF sti2, res2, rt2, dep2
<1> USE <1>0
<1>1. /\ par \in Trees!Column /\ rt \in [Runs -> Runs] /\ dep \in [Runs -> Nat]
      /\ Named[r] = Nothing \/ Named[r] \in Runs
      /\ Nothing \notin Runs
  BY NamedTree DEF Stitches, Placed, Trees!Column
<1>2. Stitches(new, hrd \cup {r}, sti2, res2)
  <2>1. r \notin sti => (new[r] = Named[r] /\ (r \notin hrd => par[r] = Nothing))
    BY DEF Stitches
  <2>2. \A x \in Runs \ sti2 : new[x] = IF x \in hrd \cup {r} THEN Named[x] ELSE Nothing
    BY <2>1 DEF Stitches
  <2>3. \A x \in sti2 : new[x] \in DbtRuns \intersect (hrd \cup {r})
    BY DEF Stitches
  <2>4. hrd \cup {r} \subseteq Runs /\ sti2 \subseteq Queries \intersect (hrd \cup {r})
    BY DEF Stitches
  <2>5. res2 \subseteq {x \in sti2 : Named[x] = Nothing}
    BY DEF Stitches
  <2> QED
    BY <2>2, <2>3, <2>4, <2>5 DEF Stitches
<1>3. Trees!Acyclic(new) /\ Trees!Acyclic(par)
  BY <1>2, StitchedAcyclic
<1>4. top \in Runs /\ n \in Nat
  BY <1>1
<1>5. rt2 \in [Runs -> Runs] /\ dep2 \in [Runs -> Nat]
  <2>1. moved \subseteq Trees!Repairable(new, r, n)
    OBVIOUS
  <2> QED
    BY <1>1, <1>4, <2>1, PlacingIsTyped
<1>6. ASSUME NEW x \in Runs, r \notin Trees!Ancestors(new, x),
             Trees!Ancestors(new, x) \intersect res2 = {}
      PROVE  Trees!RightAt(new, rt2, dep2, x)
  <2>1. Trees!Ancestors(new, x) = Trees!Ancestors(par, x)
    BY <1>1, <1>6, ElsewhereKept
  <2>2. Trees!RightAt(par, rt, dep, x)
    BY <1>6, <2>1 DEF Placed
  <2>3. Trees!RightAt(new, rt, dep, x)
    BY <1>1, <1>6, <2>2, ElsewhereKept
  <2>4. x # r
    BY <1>6, TreesApply, Trees!AncestorsClosed DEF Trees!ClosedUp
  <2>5. x \notin moved
    BY <1>6 DEF Trees!Repairable, Trees!Below
  <2>6. rt2[x] = rt[x] /\ dep2[x] = dep[x]
    BY <2>4, <2>5 DEF RootPlaced, DepthPlaced
  <2> QED
    BY <2>3, <2>6 DEF Trees!RightAt
<1>7. ASSUME NEW x \in Runs, r \in Trees!Ancestors(new, x),
             Trees!Ancestors(new, x) \intersect res2 = {}
      PROVE  Trees!RightAt(new, rt2, dep2, x)
  <2>1. ~(r \in sti /\ Named[r] = Nothing) /\ res2 = res
    BY <1>7
  <2>2. Trees!Ancestors(new, r) \subseteq Trees!Ancestors(new, x)
    BY <1>7, TreesApply, Trees!AncestorsTransitive
  <2>3. /\ top \in Trees!Ancestors(new, r) /\ new[top] = Nothing
        /\ n = Trees!HeightOf(new, r)
    <3>1. CASE Named[r] = Nothing
      <4>1. new[r] = Nothing
        BY <2>1, <3>1 DEF Stitches
      <4>2. Trees!Ancestors(new, r) = {r}
        BY <4>1, TreesApply, Trees!AncestorsOfTop
      <4>3. Trees!HeightOf(new, r) = 0
        <5>1. Trees!Cardinality({r}) = 1
          BY FS_Singleton DEF Trees!Cardinality, Cardinality
        <5> QED
          BY ONLY <4>2, <5>1 DEF Trees!HeightOf
      <4> QED
        BY <3>1, <4>1, <4>2, <4>3
    <3>2. CASE Named[r] # Nothing
      <4>1. new[r] = Named[r] /\ Named[r] \in Runs
        BY <1>1, <3>2
      <4>2. r \notin Trees!Ancestors(new, Named[r])
        BY ONLY <1>3, <3>2, <4>1, r \in Runs DEF Trees!Acyclic
      <4>3. Trees!Ancestors(new, r) = {r} \cup Trees!Ancestors(new, Named[r])
        BY <3>2, <4>1, TreesApply, Trees!AncestorsStep
      <4>4. Trees!Cardinality(Trees!Ancestors(new, r))
               = Trees!Cardinality(Trees!Ancestors(new, Named[r])) + 1
        BY <1>3, <3>2, <4>1, TreesApply, Trees!OneLevel
      <4>5. Trees!Ancestors(new, Named[r]) = Trees!Ancestors(par, Named[r])
        BY <1>1, <4>1, <4>2, ElsewhereKept
      <4>6. Trees!RightAt(par, rt, dep, Named[r])
        BY <1>7, <2>1, <2>2, <4>1, <4>3, <4>5 DEF Placed
      <4>7. Trees!RightAt(new, rt, dep, Named[r])
        BY <1>1, <4>1, <4>2, <4>6, ElsewhereKept
      <4>8. /\ rt[Named[r]] \in Trees!Ancestors(new, Named[r]) /\ new[rt[Named[r]]] = Nothing
            /\ dep[Named[r]] = Trees!Cardinality(Trees!Ancestors(new, Named[r])) - 1
        BY ONLY <4>7 DEF Trees!RightAt, Trees!HeightOf
      <4>9. Trees!Cardinality(Trees!Ancestors(new, Named[r])) \in Nat
        BY <4>1, TreesApply, Trees!AncestorsFinite
      <4>10. n = dep[Named[r]] + 1 /\ top = rt[Named[r]]
        BY <3>2
      <4>11. Trees!HeightOf(new, r) = Trees!Cardinality(Trees!Ancestors(new, r)) - 1
        BY DEF Trees!HeightOf
      <4> QED
        BY ONLY <4>3, <4>4, <4>8, <4>9, <4>10, <4>11
    <3> QED
      BY <3>1, <3>2
  <2>4. CASE moved = Trees!Repairable(new, r, n)
    BY <1>7, <2>3, <2>4, PlacingIsRight
  <2>5. CASE moved = {} /\ rt[r] = top /\ dep[r] = n
    <3>1. rt2[x] = rt[x] /\ dep2[x] = dep[x]
      BY <2>5 DEF RootPlaced, DepthPlaced
    <3>2. Trees!RightAt(new, rt, dep, x)
      <4>1. CASE new[r] = par[r]
        <5>1. new = par
          BY <1>1, <4>1, TreesApply, Trees!SameColumn
        <5> QED
          BY <1>7, <2>1, <5>1 DEF Placed
      <4>2. CASE new[r] # par[r] /\ r \notin sti
        <5>1. Named[r] # Nothing /\ par[r] = Nothing /\ r \notin res
          BY <4>2 DEF Stitches
        <5>2. Trees!Ancestors(par, r) = {r}
          BY <1>1, <5>1, TreesApply, Trees!AncestorsOfTop
        <5>3. Trees!RightAt(par, rt, dep, r)
          BY <5>1, <5>2 DEF Placed
        <5>4. Trees!Cardinality({r}) = 1
          BY FS_Singleton DEF Trees!Cardinality, Cardinality
        <5>5. dep[r] = 0
          BY ONLY <5>2, <5>3, <5>4 DEF Trees!RightAt, Trees!HeightOf
        <5>6. n = dep[Named[r]] + 1 /\ dep[Named[r]] \in Nat
          BY <1>1, <5>1
        <5>7. n # 0
          BY ONLY <5>6
        <5> QED
          BY ONLY <2>5, <5>5, <5>7, Zenon
      <4>3. CASE new[r] # par[r] /\ r \in sti
        <5>1. /\ Named[r] # Nothing /\ r \notin res
              /\ par[r] \in DbtRuns /\ par[r] \in Runs /\ par[r] # Nothing
          BY <1>1, <2>1, <4>3, NamedTree DEF Stitches
        <5>2. Trees!Ancestors(par, par[r]) \intersect res = {}
          <6>1. par[r] \in AboveDbt
            BY <5>1, AboveDbtIsClosed
          <6> QED
            BY <6>1, NoStitchAboveDbt, AboveDbtIsClosed, ZenonT(40) DEF Stitches
        <5>3. Trees!Ancestors(par, r) = {r} \cup Trees!Ancestors(par, par[r])
          BY <1>1, <5>1, TreesApply, Trees!AncestorsStep
        <5>4. r \in Trees!Ancestors(par, x) /\ Trees!Distance(new, r, x) = Trees!Distance(par, r, x)
          BY <1>1, <1>3, <1>7, TreesApply, Trees!DistanceKept
        <5>5. Trees!Ancestors(par, x) \subseteq Trees!Ancestors(new, x) \cup Trees!Ancestors(par, r)
          <6> DEFINE S == Trees!Ancestors(new, x) \cup Trees!Ancestors(par, r)
          <6>1. /\ Trees!Ancestors(new, x) \subseteq Runs /\ Trees!Ancestors(par, r) \subseteq Runs
                /\ Trees!ClosedUp(new, x, Trees!Ancestors(new, x))
                /\ Trees!ClosedUp(par, r, Trees!Ancestors(par, r))
            BY <1>1, TreesApply, Trees!AncestorsClosed
          <6>2. S \in SUBSET Runs /\ Trees!ClosedUp(par, x, S)
            BY <6>1 DEF Trees!ClosedUp
          <6> QED
            <7> HIDE DEF S
            <7>1. Trees!Ancestors(par, x) \subseteq S
              BY <6>2, TreesApply, Trees!AncestorsLeast
            <7> QED
              BY <7>1 DEF S
        <5>6. Trees!RightAt(par, rt, dep, x) /\ Trees!RightAt(par, rt, dep, r)
          BY <1>7, <2>1, <5>1, <5>2, <5>3, <5>5 DEF Placed
        <5>7. Trees!Ancestors(par, r) \subseteq Trees!Ancestors(par, x)
          BY <1>1, <5>4, TreesApply, Trees!AncestorsTransitive
        <5>8. rt[x] = rt[r]
          <6>1. rt[r] \in Trees!Ancestors(par, x) /\ par[rt[r]] = Nothing
            BY <5>6, <5>7 DEF Trees!RightAt
          <6>2. Trees!TopOf(par, x) = rt[r]
            BY <1>1, <6>1, TreesApply, Trees!TopIsUnique
          <6>3. Trees!TopOf(par, x) = rt[x]
            BY <1>1, <5>6, TreesApply, Trees!RightIsOne
          <6> QED
            BY <6>2, <6>3
        <5>9. Trees!HeightOf(par, r) + Trees!Distance(par, r, x) = Trees!HeightOf(par, x)
          <6>1. rt[r] \in Trees!Ancestors(par, r) /\ par[rt[r]] = Nothing
            BY <5>6 DEF Trees!RightAt
          <6> QED
            BY <1>1, <5>4, <6>1, TreesApply, Trees!RepairPlaces
        <5>10. Trees!HeightOf(new, r) + Trees!Distance(new, r, x) = Trees!HeightOf(new, x)
          BY <1>7, <2>3, TreesApply, Trees!RepairPlaces
        <5>11. dep[x] = Trees!HeightOf(new, x)
          BY ONLY <2>3, <2>5, <5>4, <5>6, <5>9, <5>10 DEF Trees!RightAt
        <5> QED
          BY ONLY <2>2, <2>3, <2>5, <5>8, <5>11 DEF Trees!RightAt
      <4> QED
        BY <4>1, <4>2, <4>3
    <3> QED
      BY <3>1, <3>2 DEF Trees!RightAt
  <2> QED
    BY <2>4, <2>5
<1>8. Stitches(new, hrd \cup {r}, sti2, res2) /\ Placed(new, rt2, dep2, res2)
  BY <1>2, <1>5, <1>6, <1>7 DEF Placed
<1> QED
  BY <1>8 DEF sti2, res2, rt2, dep2

-----------------------------------------------------------------------------
(* What an event leaves besides positions: rows for the run and its parent,    *)
(* and the furthest of the run's states.                                       *)
Ending == {"COMPLETE", "FAIL", "ABORT"}

(* The state of a run with these events, whatever their order, if none of them *)
(* contradicts how it ended.                                                   *)
IsStateOf(s, types) ==
  IF types \intersect Ending # {}
  THEN \E t \in types \intersect Ending : s = Projection!Tree!StateOf[t]
  ELSE IF types \intersect {"START", "RUNNING"} # {} THEN s = "RUNNING" ELSE s = "UNKNOWN"

TypesOf(r, events) == {e.type : e \in {f \in events : f.run = r}}

Told(kno, stu, sta, hrd, events) ==
  /\ hrd = {e.run : e \in events}
  /\ kno = hrd \cup ({Named[r] : r \in hrd} \ {Nothing})
  /\ stu = kno \ hrd
  /\ DOMAIN sta = Runs /\ sta = [r \in Runs |-> sta[r]]
  /\ \A r \in Runs : IsStateOf(sta[r], TypesOf(r, events))

(* No producer says of a run that it ended in two ways.                        *)
EndsOneWay == \A s, t \in Types \intersect Ending : s = t

LEMMA OneMoreType ==
  ASSUME TreeAssumption, EndsOneWay, NEW types \in SUBSET Types, NEW type \in Types,
         NEW s, IsStateOf(s, types)
  PROVE  IsStateOf(Projection!Tree!NextState(s, type), types \cup {type})
<1>1. Types \subseteq {"START", "RUNNING", "COMPLETE", "FAIL", "ABORT", "OTHER"}
  BY DEF TreeAssumption, Projection!Tree!TypesAssumption
<1>2. /\ Projection!Tree!StateOf["START"] = "RUNNING"
      /\ Projection!Tree!StateOf["RUNNING"] = "RUNNING"
      /\ Projection!Tree!StateOf["COMPLETE"] = "COMPLETED"
      /\ Projection!Tree!StateOf["FAIL"] = "FAILED"
      /\ Projection!Tree!StateOf["ABORT"] = "ABORTED"
  BY DEF Projection!Tree!StateOf
<1>3. CASE type = "OTHER"
  <2>1. Projection!Tree!NextState(s, type) = s
    BY <1>3 DEF Projection!Tree!NextState
  <2>2. /\ (types \cup {type}) \intersect Ending = types \intersect Ending
        /\ (types \cup {type}) \intersect {"START", "RUNNING"}
              = types \intersect {"START", "RUNNING"}
    BY <1>3 DEF Ending
  <2> QED
    BY <2>1, <2>2 DEF IsStateOf
<1>4. CASE type \in {"START", "RUNNING"}
  <2>1. /\ (types \cup {type}) \intersect Ending = types \intersect Ending
        /\ (types \cup {type}) \intersect {"START", "RUNNING"} # {}
    BY <1>4 DEF Ending
  <2>2. CASE types \intersect Ending = {}
    <3>1. s \in {"RUNNING", "UNKNOWN"}
      BY <2>2 DEF IsStateOf
    <3>2. Projection!Tree!NextState(s, type) = "RUNNING"
      BY <1>2, <1>4, <3>1 DEF Projection!Tree!NextState, Projection!Tree!Rank
    <3> QED
      BY <2>1, <2>2, <3>2 DEF IsStateOf
  <2>3. CASE types \intersect Ending # {}
    <3>1. s \in {"COMPLETED", "FAILED", "ABORTED"}
      BY <1>2, <2>3 DEF IsStateOf, Ending
    <3>2. Projection!Tree!NextState(s, type) = s
      BY <1>2, <1>4, <3>1 DEF Projection!Tree!NextState, Projection!Tree!Rank
    <3> QED
      BY <2>1, <2>3, <3>2 DEF IsStateOf
  <2> QED
    BY <2>2, <2>3
<1>5. CASE type \in Ending
  <2>1. type \in (types \cup {type}) \intersect Ending
    BY <1>5
  <2>2. s \in {"COMPLETED", "FAILED", "ABORTED", "RUNNING", "UNKNOWN"}
    BY <1>2 DEF IsStateOf, Ending
  <2>3. Projection!Tree!StateOf[type] \in {"COMPLETED", "FAILED", "ABORTED"} /\ type # "OTHER"
    BY <1>2, <1>5 DEF Ending
  <2>4. Projection!Tree!NextState(s, type) = Projection!Tree!StateOf[type]
    BY ONLY <2>2, <2>3 DEF Projection!Tree!NextState, Projection!Tree!Rank
  <2> QED
    BY <2>1, <2>4 DEF IsStateOf
<1> QED
  BY <1>1, <1>3, <1>4, <1>5 DEF Ending

LEMMA EventTells ==
  ASSUME TreeAssumption, EndsOneWay, NEW events, NEW kno, NEW stu, NEW sta, NEW hrd,
         Told(kno, stu, sta, hrd, events), NEW r \in Runs, NEW e, e.run = r, e.type \in Types,
         \A f \in events : f.run \in Runs /\ f.type \in Types
  PROVE  Told(kno \cup ({Named[r]} \ {Nothing, r}) \cup {r},
              (stu \cup (({Named[r]} \ {Nothing, r}) \ kno)) \ {r},
              [sta EXCEPT ![r] = Projection!Tree!NextState(@, e.type)],
              hrd \cup {r}, events \cup {e})
<1> DEFINE kno2 == kno \cup ({Named[r]} \ {Nothing, r}) \cup {r}
           stu2 == (stu \cup (({Named[r]} \ {Nothing, r}) \ kno)) \ {r}
           sta2 == [sta EXCEPT ![r] = Projection!Tree!NextState(@, e.type)]
<1>1. hrd \cup {r} = {f.run : f \in events \cup {e}}
  BY DEF Told
<1>2. Nothing \notin Runs
  BY NamedTree
<1>3. kno2 = (hrd \cup {r}) \cup ({Named[x] : x \in hrd \cup {r}} \ {Nothing})
  BY <1>2 DEF Told
<1>4. stu2 = kno2 \ (hrd \cup {r})
  BY <1>2 DEF Told
<1>5. sta2 = [x \in Runs |-> sta2[x]] /\ DOMAIN sta2 = Runs
  BY DEF Told
<1>6. ASSUME NEW x \in Runs
      PROVE  IsStateOf(sta2[x], TypesOf(x, events \cup {e}))
  <2>1. IsStateOf(sta[x], TypesOf(x, events)) /\ TypesOf(x, events) \subseteq Types
    BY DEF Told, TypesOf
  <2>2. CASE x = r
    <3>1. TypesOf(x, events \cup {e}) = TypesOf(x, events) \cup {e.type}
      BY <2>2 DEF TypesOf
    <3>2. sta2[x] = Projection!Tree!NextState(sta[x], e.type)
      BY <2>2 DEF Told
    <3> QED
      BY <2>1, <3>1, <3>2, OneMoreType
  <2>3. CASE x # r
    <3>1. TypesOf(x, events \cup {e}) = TypesOf(x, events)
      BY <2>3 DEF TypesOf
    <3>2. sta2[x] = sta[x]
      BY <2>3 DEF Told
    <3> QED
      BY <2>1, <3>1, <3>2
  <2> QED
    BY <2>2, <2>3
<1> HIDE DEF kno2, stu2, sta2
<1>7. Told(kno2, stu2, sta2, hrd \cup {r}, events \cup {e})
  BY <1>1, <1>3, <1>4, <1>5, <1>6 DEF Told
<1> QED
  BY <1>7 DEF kno2, stu2, sta2

(* Two projections of the same events are one.                                 *)
LEMMA ToldOnce ==
  ASSUME TreeAssumption, EndsOneWay, NEW events,
         \A f \in events : f.run \in Runs /\ f.type \in Types,
         NEW k1, NEW u1, NEW s1, NEW h1, Told(k1, u1, s1, h1, events),
         NEW k2, NEW u2, NEW s2, NEW h2, Told(k2, u2, s2, h2, events)
  PROVE  k1 = k2 /\ u1 = u2 /\ s1 = s2 /\ h1 = h2
<1>1. h1 = h2 /\ k1 = k2 /\ u1 = u2
  BY DEF Told
<1>2. ASSUME NEW r \in Runs PROVE s1[r] = s2[r]
  <2>1. IsStateOf(s1[r], TypesOf(r, events)) /\ IsStateOf(s2[r], TypesOf(r, events))
    BY DEF Told
  <2>2. TypesOf(r, events) \subseteq Types
    BY DEF TypesOf
  <2> QED
    BY <2>1, <2>2 DEF IsStateOf, EndsOneWay
<1>3. s1 = [r \in Runs |-> s1[r]] /\ s2 = [r \in Runs |-> s2[r]]
  BY DEF Told
<1> QED
  BY <1>1, <1>2, <1>3

-----------------------------------------------------------------------------
known == v1
stubs == v2
parent == v3
rootOf == v4
depthOf == v5
state == v6
heard == v7
archive == v8
todo == v9
saved == v10
stitched == v11
reset == v12
healed == v13
USE DEF known, stubs, parent, rootOf, depthOf, state, heard, archive, todo, saved,
        stitched, reset, healed

Event ==
  {e \in [run : Runs, type : Types, facet : Runs \cup {Nothing}] :
     e.facet \in Projection!Tree!FacetsOf(e.run)}

(* What replay has still to ingest is the end of the archive, and only replay  *)
(* has something to ingest.                                                    *)
LogInv ==
  /\ archive \in Seq(Event) /\ todo \in Seq(Event)
  /\ Len(todo) <= Len(archive)
  /\ \A j \in 1 .. Len(todo) : todo[j] = archive[Len(archive) - Len(todo) + j]
  /\ saved = <<>> => todo = <<>>

(* The events that the projection is made from.                                *)
Played == {archive[i] : i \in 1 .. (Len(archive) - Len(todo))}

LEMMA EventNames ==
  ASSUME TreeAssumption, NEW r \in Runs, NEW facet \in Projection!Tree!FacetsOf(r),
         facet = Nothing => Named[r] = Nothing
  PROVE  Projection!Tree!ParentNamed(r, facet) = Named[r] /\ Named[r] # r
<1>1. Named[r] # r
  <2>1. Named[r] \in Runs => Named[r] \in Trees!Ancestors(Named, Named[r])
    BY NamedTree, TreesApply, Trees!AncestorsClosed DEF Trees!ClosedUp
  <2> QED
    BY <2>1, NamedTree DEF Trees!Acyclic, Trees!Column
<1> QED
  BY <1>1, NamedTree DEF Projection!Tree!FacetsOf, Projection!Tree!ParentNamed

(* Ingest, for such an event.                                                  *)
LEMMA IngestIs ==
  ASSUME TreeAssumption, parent \in Trees!Column, NEW r \in Runs, NEW type,
         NEW facet \in Projection!Tree!FacetsOf(r), facet = Nothing => Named[r] = Nothing,
         Projection!Tree!Ingest(r, type, facet, Nothing)
  PROVE  /\ known' = known \cup ({Named[r]} \ {Nothing, r}) \cup {r}
         /\ stubs' = (stubs \cup (({Named[r]} \ {Nothing, r}) \ known)) \ {r}
         /\ heard' = heard \cup {r}
         /\ state' = [state EXCEPT ![r] = Projection!Tree!NextState(@, type)]
         /\ \E top, n, moved :
              /\ EventMoves(parent, rootOf, depthOf, r, parent', top, n, moved)
              /\ rootOf' = RootPlaced(r, moved, top, rootOf)
              /\ depthOf' = DepthPlaced(parent', r, moved, n, depthOf)
<1> DEFINE p == Projection!Tree!ParentNamed(r, facet)
           new == Projection!Tree!UpsertParent(r, p)
           top == Projection!Tree!ResolvedRoot(r, p)
           n == Projection!Tree!ResolvedDepth(p)
           far == r \notin known \/ rootOf[r] # top \/ depthOf[r] # n
           moved == IF far THEN Projection!Tree!Repairable(new, r, n) ELSE {}
<1>1. p = Named[r] /\ Named[r] # r
  BY EventNames
<1>2. Projection!Tree!Mentioned(r, facet, Nothing) = {Named[r]} \ {Nothing, r}
  BY <1>1 DEF Projection!Tree!Mentioned
<1>3. /\ known' = known \cup Projection!Tree!Mentioned(r, facet, Nothing) \cup {r}
      /\ stubs' = (stubs \cup (Projection!Tree!Mentioned(r, facet, Nothing) \ known)) \ {r}
      /\ heard' = heard \cup {r}
      /\ state' = [state EXCEPT ![r] = Projection!Tree!NextState(@, type)]
      /\ Projection!Tree!Place(r, new, top, n, r \notin known)
  BY DEF Projection!Tree!Ingest
<1>4. /\ parent' = new
      /\ rootOf' = [d \in Runs |-> IF d = r \/ d \in moved THEN top ELSE rootOf[d]]
      /\ depthOf' = [d \in Runs |->
           IF d = r THEN n
           ELSE IF d \in moved THEN n + Projection!Tree!Distance(new, r, d)
           ELSE depthOf[d]]
  BY <1>3 DEF Projection!Tree!Place
<1>5. /\ new \in Trees!Column
      /\ new[r] = IF Named[r] = Nothing THEN parent[r] ELSE Named[r]
      /\ \A x \in Runs \ {r} : new[x] = parent[x]
  BY <1>1, NamedTree DEF Projection!Tree!UpsertParent, Trees!Column
<1>6. /\ top = IF Named[r] = Nothing THEN r ELSE rootOf[Named[r]]
      /\ n = IF Named[r] = Nothing THEN 0 ELSE depthOf[Named[r]] + 1
  BY <1>1 DEF Projection!Tree!ResolvedRoot, Projection!Tree!ResolvedDepth
<1>7. \/ moved = Trees!Repairable(new, r, n)
      \/ moved = {} /\ rootOf[r] = top /\ depthOf[r] = n
  BY SameRepairs
<1> HIDE DEF new, top, n, moved, p
<1>8. rootOf' = RootPlaced(r, moved, top, rootOf)
  BY <1>4 DEF RootPlaced
<1>9. depthOf' = DepthPlaced(new, r, moved, n, depthOf)
  BY <1>4, SameDistance DEF DepthPlaced
<1>10. EventMoves(parent, rootOf, depthOf, r, new, top, n, moved)
  BY <1>5, <1>6, <1>7 DEF EventMoves
<1> QED
  BY <1>2, <1>3, <1>4, <1>8, <1>9, <1>10

(* Stitching hangs a query that was heard from below a run of dbt that was.    *)
LEMMA NearestIsNear ==
  ASSUME TreeAssumption, NEW q \in Queries, q \in Projection!Stitchable
  PROVE  Projection!Nearest(q) \in DbtRuns \intersect heard /\ q \in heard
<1> DEFINE S == {Gap[q][d] : d \in Projection!Near(q)}
<1>1. Projection!Near(q) # {} /\ q \in heard /\ Projection!Near(q) \subseteq DbtRuns \intersect heard
  BY DEF Projection!Stitchable, Projection!Candidates, Projection!Near
<1>2. S \in SUBSET Nat /\ S # {}
  BY <1>1 DEF TreeAssumption, Projection!ProjectionAssumption
<1>3. PICK x \in S : \A y \in S : x <= y
  <2> HIDE DEF S
  <2> QED
    BY <1>2, LeastExists
<1>4. \E d \in Projection!Near(q) : \A e \in Projection!Near(q) : Gap[q][d] <= Gap[q][e]
  BY <1>3
<1>5. Projection!Nearest(q) \in Projection!Near(q)
  BY <1>4 DEF Projection!Nearest
<1> QED
  BY <1>1, <1>5

(* The first events of a sequence.                                             *)
LEMMA FrontIs ==
  ASSUME NEW S, NEW s, NEW k \in Nat, \A i \in 1 .. k : s[i] \in S
  PROVE  /\ SubSeq(s, 1, k) \in Seq(S) /\ Len(SubSeq(s, 1, k)) = k
         /\ \A i \in 1 .. k : SubSeq(s, 1, k)[i] = s[i]
  OBVIOUS

(* What is archived grows by the event, wherever its id falls.                 *)
LEMMA ArchiveGrows ==
  ASSUME archive \in Seq(Event), NEW e \in Event, archive' \in Projection!ArchivedAs(e)
  PROVE  /\ archive' \in Seq(Event) /\ Len(archive') = Len(archive) + 1
         /\ {archive'[i] : i \in 1 .. Len(archive')}
              = {archive[i] : i \in 1 .. Len(archive)} \cup {e}
<1>1. CASE archive' = Append(archive, e)
  <2>1. Len(archive') = Len(archive) + 1 /\ archive' \in Seq(Event)
    BY <1>1
  <2>2. \A i \in 1 .. Len(archive) : archive'[i] = archive[i]
    BY <1>1
  <2>3. archive'[Len(archive) + 1] = e
    BY <1>1
  <2>4. 1 .. (Len(archive) + 1) = (1 .. Len(archive)) \cup {Len(archive) + 1}
    OBVIOUS
  <2> QED
    BY <2>1, <2>2, <2>3, <2>4
<1>2. ASSUME NEW s, archive # <<>>,
             s = Append(SubSeq(archive, 1, Len(archive) - 1), e),
             archive' = s \o <<Projection!Last(archive)>>
      PROVE  /\ archive' \in Seq(Event) /\ Len(archive') = Len(archive) + 1
             /\ {archive'[i] : i \in 1 .. Len(archive')}
                  = {archive[i] : i \in 1 .. Len(archive)} \cup {e}
  <2> DEFINE n == Len(archive)
             m == SubSeq(archive, 1, n - 1)
             z == archive[n]
  <2>1. n \in Nat /\ n >= 1 /\ z \in Event
    <3>1. Len(archive) \in Nat /\ Len(archive) # 0
      BY <1>2
    <3>2. Len(archive) \in 1 .. Len(archive)
      BY <3>1
    <3>3. archive[Len(archive)] \in Event
      BY <3>2
    <3> QED
      BY <3>1, <3>3
  <2>2. /\ m \in Seq(Event) /\ Len(m) = n - 1
        /\ \A i \in 1 .. (n - 1) : m[i] = archive[i]
    <3>1. n - 1 \in Nat /\ \A i \in 1 .. (n - 1) : archive[i] \in Event
      BY <2>1
    <3> HIDE DEF n
    <3> QED
      BY ONLY <3>1, FrontIs DEF m
  <2>3. Projection!Last(archive) = z
    BY DEF Projection!Last
  <2> HIDE DEF m, z
  <2>4. /\ s \in Seq(Event) /\ Len(s) = n /\ s[n] = e
        /\ \A i \in 1 .. (n - 1) : s[i] = archive[i]
    BY <1>2, <2>1, <2>2 DEF m
  <2>5. archive' = s \o <<z>> /\ <<z>> \in Seq(Event) /\ Len(<<z>>) = 1
    BY <1>2, <2>1, <2>3
  <2>6. /\ archive' \in Seq(Event) /\ Len(archive') = n + 1
        /\ archive'[n + 1] = z /\ \A i \in 1 .. n : archive'[i] = s[i]
    <3> HIDE DEF n
    <3> DEFINE t == <<z>>
    <3>1. t \in Seq(Event) /\ Len(t) = 1 /\ t[1] = z /\ s \in Seq(Event) /\ Len(s) = n
      BY <2>4, <2>5
    <3> HIDE DEF t
    <3>2. /\ s \o t \in Seq(Event) /\ Len(s \o t) = n + 1
          /\ \A i \in 1 .. n + 1 : (s \o t)[i] = IF i <= n THEN s[i] ELSE t[i - n]
      <4>1. /\ s \o t \in Seq(Event) /\ Len(s \o t) = Len(s) + Len(t)
            /\ \A i \in 1 .. Len(s) + Len(t) :
                 (s \o t)[i] = IF i <= Len(s) THEN s[i] ELSE t[i - Len(s)]
        BY ONLY <3>1, ConcatProperties
      <4>2. Len(s) = n /\ Len(t) = 1
        BY <3>1
      <4> QED
        BY ONLY <4>1, <4>2
    <3>3. (s \o t)[n + 1] = t[1]
      <4>1. n + 1 \in 1 .. n + 1 /\ ~(n + 1 <= n) /\ (n + 1) - n = 1
        BY ONLY <2>1
      <4> QED
        BY ONLY <3>2, <4>1
    <3>4. ASSUME NEW i \in 1 .. n PROVE (s \o t)[i] = s[i]
      <4>1. i \in 1 .. n + 1 /\ i <= n
        BY <2>1
      <4> QED
        BY ONLY <3>2, <4>1
    <3> QED
      BY <2>5, <3>1, <3>2, <3>3, <3>4 DEF t
  <2>7. 1 .. (n + 1) = (1 .. (n - 1)) \cup {n, n + 1} /\ 1 .. n = (1 .. (n - 1)) \cup {n}
    BY <2>1
  <2>8. {archive'[i] : i \in 1 .. (n + 1)} = {archive'[i] : i \in 1 .. (n - 1)} \cup {e, z}
    <3>1. archive'[n] = e
      BY <2>1, <2>4, <2>6
    <3> QED
      BY <2>6, <2>7, <3>1
  <2>9. {archive[i] : i \in 1 .. n} = {archive[i] : i \in 1 .. (n - 1)} \cup {z}
    BY <2>7 DEF z
  <2>10. {archive'[i] : i \in 1 .. (n - 1)} = {archive[i] : i \in 1 .. (n - 1)}
    BY <2>1, <2>4, <2>6
  <2> QED
    BY <2>6, <2>8, <2>9, <2>10
<1> QED
  BY <1>1, <1>2 DEF Projection!ArchivedAs

(* An event said otherwise stays in the archive.                               *)
LEMMA StaysOmitted ==
  ASSUME LogInv, LogInv',
         {archive[i] : i \in 1 .. Len(archive)} \subseteq {archive'[i] : i \in 1 .. Len(archive')},
         ~Projection!Omitted'
  PROVE  ~Projection!Omitted
<1>1. DOMAIN archive = 1 .. Len(archive) /\ DOMAIN archive' = 1 .. Len(archive')
  BY DEF LogInv
<1> SUFFICES ASSUME NEW i \in 1 .. Len(archive), archive[i].facet = Nothing,
                    Named[archive[i].run] # Nothing
             PROVE  FALSE
  BY <1>1 DEF Projection!Omitted
<1>2. PICK k \in 1 .. Len(archive') : archive'[k] = archive[i]
  OBVIOUS
<1> QED
  BY <1>1, <1>2 DEF Projection!Omitted

LEMMA LogStep ==
  ASSUME TreeAssumption, LogInv, [Projection!Next]_(Projection!vars)
  PROVE  /\ LogInv'
         /\ {archive[i] : i \in 1 .. Len(archive)} \subseteq {archive'[i] : i \in 1 .. Len(archive')}
<1>1. ASSUME NEW r \in Runs, NEW type \in Types, NEW facet \in Projection!Tree!FacetsOf(r),
             Projection!Receive(r, type, facet)
      PROVE  /\ LogInv'
             /\ {archive[i] : i \in 1 .. Len(archive)}
                  \subseteq {archive'[i] : i \in 1 .. Len(archive')}
  <2> DEFINE e == [run |-> r, type |-> type, facet |-> facet]
  <2>1. e \in Event
    BY NamedTree DEF Event, Projection!Tree!FacetsOf, Trees!Column
  <2>2. archive' \in Projection!ArchivedAs(e) /\ UNCHANGED <<todo, saved>> /\ saved = <<>>
    BY <1>1 DEF Projection!Receive, Projection!NotReplaying
  <2> HIDE DEF e
  <2>3. archive \in Seq(Event) /\ todo = <<>>
    BY <2>2 DEF LogInv
  <2>4. /\ archive' \in Seq(Event) /\ Len(archive') = Len(archive) + 1
        /\ {archive'[i] : i \in 1 .. Len(archive')}
              = {archive[i] : i \in 1 .. Len(archive)} \cup {e}
    BY <2>1, <2>2, <2>3, ArchiveGrows
  <2>5. /\ todo' = <<>> /\ todo' \in Seq(Event) /\ Len(todo') = 0
        /\ Len(archive) \in Nat
    BY <2>2, <2>3
  <2>6. LogInv'
    BY <2>4, <2>5 DEF LogInv
  <2> QED
    BY <2>4, <2>6
<1>2. ASSUME NEW q \in Queries, Projection!Stitch(q)
      PROVE  UNCHANGED <<archive, todo, saved>>
  BY <1>2 DEF Projection!Stitch
<1>3. ASSUME Projection!ReplayBegin
      PROVE  LogInv' /\ archive' = archive
  <2>1. /\ archive' = archive /\ todo' = archive
        /\ saved' = <<Projection!rows, stitched, reset>>
    BY <1>3 DEF Projection!ReplayBegin, Projection!Streamed
  <2>2. saved' # <<>>
    BY <2>1
  <2> QED
    BY <2>1, <2>2 DEF LogInv
<1>4. ASSUME Projection!ReplayEvent
      PROVE  LogInv' /\ archive' = archive
  <2>1. archive' = archive /\ saved' = saved /\ todo # <<>> /\ todo' = Tail(todo)
    BY <1>4 DEF Projection!ReplayEvent
  <2>2. /\ todo' \in Seq(Event) /\ Len(todo') = Len(todo) - 1 /\ Len(todo) >= 1
        /\ Len(todo) \in Nat /\ Len(archive) \in Nat
        /\ \A j \in 1 .. (Len(todo) - 1) : todo'[j] = todo[j + 1]
    BY <2>1 DEF LogInv
  <2>3. ASSUME NEW j \in 1 .. Len(todo')
        PROVE  todo'[j] = archive[Len(archive) - Len(todo') + j]
    <3>1. j + 1 \in 1 .. Len(todo) /\ j \in 1 .. (Len(todo) - 1)
      BY <2>2
    <3>2. todo'[j] = archive[Len(archive) - Len(todo) + (j + 1)]
      BY <2>2, <3>1 DEF LogInv
    <3>3. Len(archive) - Len(todo) + (j + 1) = Len(archive) - Len(todo') + j
      BY <2>2
    <3> QED
      BY <3>2, <3>3
  <2> QED
    BY <2>1, <2>2, <2>3 DEF LogInv
<1>5. ASSUME Projection!ReplayCommit
      PROVE  LogInv' /\ archive' = archive
  <2>1. archive' = archive /\ todo' = todo /\ saved' = <<>> /\ todo = <<>>
    BY <1>5 DEF Projection!ReplayCommit
  <2> QED
    BY <2>1 DEF LogInv
<1>6. ASSUME Projection!ReplayFails
      PROVE  LogInv' /\ archive' = archive
  <2>1. archive' = archive /\ todo' = <<>> /\ saved' = <<>>
    BY <1>6 DEF Projection!ReplayFails
  <2> QED
    BY <2>1 DEF LogInv
<1>7. ASSUME UNCHANGED <<archive, todo, saved>>
      PROVE  LogInv' /\ archive' = archive
  BY <1>7 DEF LogInv
<1>8. CASE UNCHANGED Projection!vars
  BY <1>7, <1>8 DEF Projection!vars
<1> QED
  BY <1>1, <1>2, <1>3, <1>4, <1>5, <1>6, <1>7, <1>8 DEF Projection!Next

-----------------------------------------------------------------------------
Archived == {archive[i] : i \in 1 .. Len(archive)}

(* The rows, and those that a replay in progress would go back to.             *)
TreesInv ==
  ~Projection!Omitted =>
    /\ Stitches(parent, heard, stitched, reset)
    /\ Placed(parent, rootOf, depthOf, reset)
    /\ (saved = <<>> /\ healed) => reset = {}
    /\ (saved # <<>>) =>
         /\ stitched = {} /\ reset = {}
         /\ Stitches(saved[1][3], saved[1][7], saved[2], saved[3])
         /\ Placed(saved[1][3], saved[1][4], saved[1][5], saved[3])
         /\ (healed => saved[3] = {})

ToldInv ==
  ~Projection!Omitted =>
    /\ Told(known, stubs, state, heard, Played)
    /\ (saved # <<>>) =>
         /\ Told(saved[1][1], saved[1][2], saved[1][6], saved[1][7], Archived)
         /\ saved[1] = <<saved[1][1], saved[1][2], saved[1][3], saved[1][4],
                         saved[1][5], saved[1][6], saved[1][7]>>

LEMMA TypedEvents ==
  ASSUME LogInv, NEW e \in Archived
  PROVE  e \in Event /\ e.run \in Runs /\ e.type \in Types /\ Played \subseteq Archived
<1>1. archive \in Seq(Event) /\ Len(archive) \in Nat /\ Len(todo) \in Nat
      /\ Len(todo) <= Len(archive)
  BY DEF LogInv
<1>2. \A i \in 1 .. Len(archive) : archive[i] \in Event
  BY <1>1
<1>3. e \in Event
  BY <1>2 DEF Archived
<1>4. 1 .. (Len(archive) - Len(todo)) \subseteq 1 .. Len(archive)
  BY <1>1
<1> QED
  BY <1>3, <1>4 DEF Event, Played, Archived

LEMMA NothingOmitted ==
  ASSUME LogInv, ~Projection!Omitted, NEW e \in Archived, e.facet = Nothing
  PROVE  Named[e.run] = Nothing
  BY DEF LogInv, Archived, Projection!Omitted

(* The empty projection.                                                       *)
LEMMA EmptyHolds ==
  ASSUME TreeAssumption
  PROVE  LET none == [r \in Runs |-> Nothing]
             self == [r \in Runs |-> r]
             zero == [r \in Runs |-> 0]
         IN  /\ Stitches(none, {}, {}, {})
             /\ Placed(none, self, zero, {})
             /\ Told({}, {}, [r \in Runs |-> "UNKNOWN"], {}, {})
<1> DEFINE none == [r \in Runs |-> Nothing]
           self == [r \in Runs |-> r]
           zero == [r \in Runs |-> 0]
<1>1. Stitches(none, {}, {}, {})
  BY DEF Stitches, Trees!Column
<1>2. Placed(none, self, zero, {})
  <2>1. ASSUME NEW x \in Runs PROVE Trees!RightAt(none, self, zero, x)
    <3>1. none \in Trees!Column /\ none[x] = Nothing /\ self[x] = x /\ zero[x] = 0
      BY DEF Trees!Column
    <3> HIDE DEF none, self, zero
    <3>2. Trees!Ancestors(none, x) = {x}
      BY <3>1, TreesApply, Trees!AncestorsOfTop
    <3>3. Trees!Cardinality({x}) = 1
      BY FS_Singleton DEF Trees!Cardinality, Cardinality
    <3>4. Trees!HeightOf(none, x) = 0
      BY ONLY <3>2, <3>3 DEF Trees!HeightOf
    <3> QED
      BY <3>1, <3>2, <3>4 DEF Trees!RightAt
  <2>2. self \in [Runs -> Runs] /\ zero \in [Runs -> Nat]
    OBVIOUS
  <2> HIDE DEF none, self, zero
  <2> QED
    BY <2>1, <2>2 DEF Placed
<1>3. Told({}, {}, [r \in Runs |-> "UNKNOWN"], {}, {})
  BY DEF Told, IsStateOf, TypesOf
<1> QED
  BY <1>1, <1>2, <1>3

LEMMA ProjectionStarts ==
  ASSUME TreeAssumption, Projection!Init
  PROVE  LogInv /\ TreesInv /\ ToldInv
<1>1. /\ known = {} /\ stubs = {} /\ heard = {} /\ stitched = {} /\ reset = {}
      /\ archive = <<>> /\ todo = <<>> /\ saved = <<>> /\ healed = FALSE
      /\ parent = [r \in Runs |-> Nothing] /\ rootOf = [r \in Runs |-> r]
      /\ depthOf = [r \in Runs |-> 0] /\ state = [r \in Runs |-> "UNKNOWN"]
  BY DEF Projection!Init, Projection!Empty
<1>2. LogInv
  BY <1>1 DEF LogInv
<1>3. Played = {}
  BY <1>1 DEF Played
<1>4. TreesInv
  BY <1>1, EmptyHolds DEF TreesInv
<1>5. ToldInv
  BY <1>1, <1>3, EmptyHolds DEF ToldInv
<1> QED
  BY <1>2, <1>4, <1>5

(* What ingesting one event does to the invariants' first part.                *)
LEMMA IngestPlaces ==
  ASSUME TreeAssumption, DeepEnough, NEW r \in Runs, NEW type,
         NEW facet \in Projection!Tree!FacetsOf(r), facet = Nothing => Named[r] = Nothing,
         Projection!Tree!Ingest(r, type, facet, Nothing),
         NEW sti, NEW res, Stitches(parent, heard, sti, res),
         Placed(parent, rootOf, depthOf, res)
  PROVE  /\ Stitches(parent', heard', StillStitched(r, sti), NowReset(r, sti, res))
         /\ Placed(parent', rootOf', depthOf', NowReset(r, sti, res))
<1>1. parent \in Trees!Column
  BY DEF Stitches
<1>2. /\ heard' = heard \cup {r}
      /\ \E top, n, moved :
           /\ EventMoves(parent, rootOf, depthOf, r, parent', top, n, moved)
           /\ rootOf' = RootPlaced(r, moved, top, rootOf)
           /\ depthOf' = DepthPlaced(parent', r, moved, n, depthOf)
  BY <1>1, IngestIs
<1>3. PICK top, n, moved :
           /\ EventMoves(parent, rootOf, depthOf, r, parent', top, n, moved)
           /\ rootOf' = RootPlaced(r, moved, top, rootOf)
           /\ depthOf' = DepthPlaced(parent', r, moved, n, depthOf)
  BY <1>2
<1> QED
  BY <1>2, <1>3, EventPlaces

LEMMA TreesStep ==
  ASSUME TreeAssumption, DeepEnough, LogInv, TreesInv, [Projection!Next]_(Projection!vars)
  PROVE  TreesInv'
<1> SUFFICES ASSUME ~Projection!Omitted' PROVE TreesInv'
  BY DEF TreesInv
<1>1. LogInv' /\ Archived \subseteq Archived'
  BY LogStep DEF Archived
<1>2. ~Projection!Omitted
  BY <1>1, StaysOmitted DEF Archived
<1>3. /\ Stitches(parent, heard, stitched, reset)
      /\ Placed(parent, rootOf, depthOf, reset)
      /\ (saved = <<>> /\ healed) => reset = {}
      /\ (saved # <<>>) =>
           /\ stitched = {} /\ reset = {}
           /\ Stitches(saved[1][3], saved[1][7], saved[2], saved[3])
           /\ Placed(saved[1][3], saved[1][4], saved[1][5], saved[3])
           /\ (healed => saved[3] = {})
  BY <1>2 DEF TreesInv
<1>4. ASSUME NEW r \in Runs, NEW type \in Types, NEW facet \in Projection!Tree!FacetsOf(r),
             Projection!Receive(r, type, facet)
      PROVE  TreesInv'
  <2> DEFINE e == [run |-> r, type |-> type, facet |-> facet]
  <2>1. /\ saved = <<>> /\ saved' = saved /\ healed' = FALSE
        /\ archive' \in Projection!ArchivedAs(e)
        /\ Projection!Tree!Ingest(r, type, facet, Nothing)
        /\ reset' = (IF r \in stitched /\ Projection!Tree!ParentNamed(r, facet) = Nothing
                     THEN reset \union {r} ELSE reset)
        /\ stitched' = (IF Projection!Tree!ParentNamed(r, facet) = Nothing
                        THEN stitched ELSE stitched \ {r})
    BY <1>4 DEF Projection!Receive, Projection!NotReplaying
  <2>2. e \in Event /\ e.facet = facet /\ e.run = r
    BY NamedTree DEF Event, Projection!Tree!FacetsOf, Trees!Column
  <2> HIDE DEF e
  <2>3. e \in Archived'
    BY <2>1, <2>2, ArchiveGrows DEF LogInv, Archived
  <2>4. facet = Nothing => Named[r] = Nothing
    BY <1>1, <2>2, <2>3 DEF LogInv, Archived, Projection!Omitted
  <2>5. Projection!Tree!ParentNamed(r, facet) = Named[r]
    BY <2>4, EventNames
  <2>6. /\ Stitches(parent', heard', StillStitched(r, stitched), NowReset(r, stitched, reset))
        /\ Placed(parent', rootOf', depthOf', NowReset(r, stitched, reset))
    BY <1>3, <2>1, <2>4, IngestPlaces
  <2>7. stitched' = StillStitched(r, stitched) /\ reset' = NowReset(r, stitched, reset)
    BY <2>1, <2>5 DEF StillStitched, NowReset
  <2> QED
    BY <2>1, <2>6, <2>7 DEF TreesInv
<1>5. ASSUME NEW q \in Queries, Projection!Stitch(q)
      PROVE  TreesInv'
  <2> DEFINE d == Projection!Nearest(q)
             new == [parent EXCEPT ![q] = d]
             n == depthOf[d] + 1
             moved == Projection!Repaired(new, q, n)
  <2>1. /\ saved = <<>> /\ saved' = <<>> /\ healed' = healed /\ heard' = heard
        /\ q \in Projection!Stitchable
        /\ stitched' = stitched \union {q} /\ reset' = reset \ {q}
        /\ parent' = new
        /\ rootOf' = [r \in Runs |-> IF r = q \/ r \in moved THEN rootOf[d] ELSE rootOf[r]]
        /\ depthOf' = [r \in Runs |-> IF r = q THEN n
                                      ELSE IF r \in moved THEN n + Projection!Distance(new, q, r)
                                      ELSE depthOf[r]]
    BY <1>5 DEF Projection!Stitch, Projection!NotReplaying
  <2>2. d \in DbtRuns \intersect heard /\ q \in Queries \intersect heard
    BY <2>1, NearestIsNear
  <2>3. new \in Trees!Column /\ new[q] = d /\ \A x \in Runs \ {q} : new[x] = parent[x]
    BY <1>3, <2>2, NamedTree DEF Stitches, Trees!Column
  <2>4. moved = Trees!Repairable(new, q, n)
    BY SameRepairs DEF Projection!Repaired
  <2> HIDE DEF d, new, n, moved
  <2>5. rootOf' = RootPlaced(q, moved, rootOf[d], rootOf)
    BY <2>1 DEF RootPlaced
  <2>6. depthOf' = DepthPlaced(new, q, moved, n, depthOf)
    BY <2>1, SameDistance DEF DepthPlaced
  <2>7. n = depthOf[d] + 1
    BY DEF n
  <2>8. /\ Stitches(new, heard, stitched \cup {q}, reset \ {q})
        /\ Placed(new, rootOf', depthOf', reset \ {q})
    <3>1. moved = Trees!Repairable(new, q, depthOf[d] + 1)
      BY <2>4, <2>7
    <3>2. /\ Stitches(new, heard, stitched \cup {q}, reset \ {q})
          /\ Placed(new, RootPlaced(q, moved, rootOf[d], rootOf),
                    DepthPlaced(new, q, moved, depthOf[d] + 1, depthOf), reset \ {q})
      BY <1>3, <2>2, <2>3, <3>1, StitchingPlaces
    <3> QED
      BY <2>5, <2>6, <2>7, <3>2
  <2>9. (saved' = <<>> /\ healed') => reset' = {}
    BY <1>3, <2>1
  <2> QED
    BY <2>1, <2>8, <2>9 DEF TreesInv
<1>6. ASSUME Projection!ReplayBegin
      PROVE  TreesInv'
  <2>1. /\ saved = <<>> /\ saved' = <<Projection!rows, stitched, reset>>
        /\ stitched' = {} /\ reset' = {} /\ healed' = healed /\ heard' = {}
        /\ parent' = [r \in Runs |-> Nothing] /\ rootOf' = [r \in Runs |-> r]
        /\ depthOf' = [r \in Runs |-> 0]
    BY <1>6 DEF Projection!ReplayBegin, Projection!NotReplaying, Projection!SetRows,
                Projection!StartsFrom, Projection!Empty
  <2>2. /\ saved'[1][3] = parent /\ saved'[1][4] = rootOf /\ saved'[1][5] = depthOf
        /\ saved'[1][7] = heard /\ saved'[2] = stitched /\ saved'[3] = reset
    BY <2>1 DEF Projection!rows
  <2>3. Stitches(parent', heard', stitched', reset') /\ Placed(parent', rootOf', depthOf', reset')
    BY <2>1, EmptyHolds
  <2>4. /\ Stitches(saved'[1][3], saved'[1][7], saved'[2], saved'[3])
        /\ Placed(saved'[1][3], saved'[1][4], saved'[1][5], saved'[3])
        /\ healed' => saved'[3] = {}
    BY <1>3, <2>1, <2>2
  <2>5. saved' # <<>>
    BY <2>1
  <2> QED
    BY <2>1, <2>3, <2>4, <2>5 DEF TreesInv
<1>7. ASSUME Projection!ReplayEvent
      PROVE  TreesInv'
  <2> DEFINE e == Head(todo)
  <2>1. /\ todo # <<>> /\ saved' = saved /\ UNCHANGED <<stitched, reset, healed>>
        /\ Projection!Tree!Ingest(e.run, e.type, e.facet, Nothing)
    BY <1>7 DEF Projection!ReplayEvent
  <2>2. saved # <<>> /\ e \in Archived
    <3>1. Len(todo) \in Nat /\ Len(todo) >= 1 /\ Len(archive) \in Nat
          /\ Len(todo) <= Len(archive) /\ e = todo[1] /\ saved # <<>>
      BY <2>1 DEF LogInv
    <3>2. todo[1] = archive[Len(archive) - Len(todo) + 1]
      BY <3>1 DEF LogInv
    <3>3. Len(archive) - Len(todo) + 1 \in 1 .. Len(archive)
      BY <3>1
    <3> QED
      BY <3>1, <3>2, <3>3 DEF Archived
  <2>3. e \in Event /\ e.run \in Runs /\ e.facet \in Projection!Tree!FacetsOf(e.run)
    BY <2>2, TypedEvents DEF Event
  <2>4. e.facet = Nothing => Named[e.run] = Nothing
    BY <1>2, <2>2, NothingOmitted
  <2>5. stitched = {} /\ reset = {} /\ stitched' = {} /\ reset' = {}
    BY <1>3, <2>1, <2>2
  <2> HIDE DEF e
  <2>6. Stitches(parent', heard', {}, {}) /\ Placed(parent', rootOf', depthOf', {})
    <3>1. /\ Stitches(parent', heard', StillStitched(e.run, {}), NowReset(e.run, {}, {}))
          /\ Placed(parent', rootOf', depthOf', NowReset(e.run, {}, {}))
      BY <1>3, <2>1, <2>3, <2>4, <2>5, IngestPlaces
    <3>2. StillStitched(e.run, {}) = {} /\ NowReset(e.run, {}, {}) = {}
      BY DEF StillStitched, NowReset
    <3> QED
      BY <3>1, <3>2
  <2> QED
    BY <1>3, <2>1, <2>2, <2>5, <2>6 DEF TreesInv
<1>8. ASSUME Projection!ReplayCommit
      PROVE  TreesInv'
  <2>1. /\ saved # <<>> /\ saved' = <<>>
        /\ UNCHANGED <<parent, heard, rootOf, depthOf, stitched, reset>>
    BY <1>8 DEF Projection!ReplayCommit, Projection!NotReplaying, Projection!rows
  <2> QED
    BY <1>3, <2>1 DEF TreesInv
<1>9. ASSUME Projection!ReplayFails
      PROVE  TreesInv'
  <2>1. /\ saved # <<>> /\ saved' = <<>> /\ healed' = healed
        /\ stitched' = saved[2] /\ reset' = saved[3]
        /\ parent' = saved[1][3] /\ rootOf' = saved[1][4] /\ depthOf' = saved[1][5]
        /\ heard' = saved[1][7]
    BY <1>9 DEF Projection!ReplayFails, Projection!NotReplaying, Projection!SetRows
  <2> QED
    BY <1>3, <2>1 DEF TreesInv
<1>10. CASE UNCHANGED Projection!vars
  <2>1. UNCHANGED <<parent, heard, rootOf, depthOf, stitched, reset, saved, healed>>
    BY <1>10 DEF Projection!vars, Projection!rows
  <2> QED
    BY <1>3, <2>1 DEF TreesInv
<1> QED
  BY <1>4, <1>5, <1>6, <1>7, <1>8, <1>9, <1>10 DEF Projection!Next

LEMMA ToldStep ==
  ASSUME TreeAssumption, EndsOneWay, LogInv, ToldInv, parent \in Trees!Column \/ Projection!Omitted,
         [Projection!Next]_(Projection!vars)
  PROVE  ToldInv'
<1> SUFFICES ASSUME ~Projection!Omitted' PROVE ToldInv'
  BY DEF ToldInv
<1>1. LogInv' /\ Archived \subseteq Archived'
  BY LogStep DEF Archived
<1>2. ~Projection!Omitted /\ parent \in Trees!Column
  BY <1>1, StaysOmitted DEF Archived
<1>3. /\ Told(known, stubs, state, heard, Played)
      /\ (saved # <<>>) =>
           /\ Told(saved[1][1], saved[1][2], saved[1][6], saved[1][7], Archived)
           /\ saved[1] = <<saved[1][1], saved[1][2], saved[1][3], saved[1][4],
                           saved[1][5], saved[1][6], saved[1][7]>>
  BY <1>2 DEF ToldInv
<1>4. \A f \in Played : f.run \in Runs /\ f.type \in Types
  <2>1. Played \subseteq Archived
    <3>1. 1 .. (Len(archive) - Len(todo)) \subseteq 1 .. Len(archive)
      BY DEF LogInv
    <3> QED
      BY <3>1 DEF Played, Archived
  <2> QED
    BY <2>1, TypedEvents
<1>5. ASSUME NEW e \in Event, e.facet = Nothing => Named[e.run] = Nothing,
             Projection!Tree!Ingest(e.run, e.type, e.facet, Nothing)
      PROVE  Told(known', stubs', state', heard', Played \cup {e})
  <2>1. /\ e.run \in Runs /\ e.type \in Types
        /\ e.facet \in Projection!Tree!FacetsOf(e.run)
    BY <1>5 DEF Event
  <2>2. /\ known' = known \cup ({Named[e.run]} \ {Nothing, e.run}) \cup {e.run}
        /\ stubs' = (stubs \cup (({Named[e.run]} \ {Nothing, e.run}) \ known)) \ {e.run}
        /\ heard' = heard \cup {e.run}
        /\ state' = [state EXCEPT ![e.run] = Projection!Tree!NextState(@, e.type)]
    BY <1>2, <1>5, <2>1, IngestIs
  <2>3. Told(known \cup ({Named[e.run]} \ {Nothing, e.run}) \cup {e.run},
             (stubs \cup (({Named[e.run]} \ {Nothing, e.run}) \ known)) \ {e.run},
             [state EXCEPT ![e.run] = Projection!Tree!NextState(@, e.type)],
             heard \cup {e.run}, Played \cup {e})
    BY <1>3, <1>4, <2>1, EventTells
  <2> QED
    BY <2>2, <2>3, Zenon
<1>6. ASSUME NEW r \in Runs, NEW type \in Types, NEW facet \in Projection!Tree!FacetsOf(r),
             Projection!Receive(r, type, facet)
      PROVE  ToldInv'
  <2> DEFINE e == [run |-> r, type |-> type, facet |-> facet]
  <2>1. /\ saved = <<>> /\ saved' = saved /\ todo' = todo
        /\ archive' \in Projection!ArchivedAs(e)
        /\ Projection!Tree!Ingest(e.run, e.type, e.facet, Nothing)
    BY <1>6 DEF Projection!Receive, Projection!NotReplaying
  <2>2. e \in Event
    BY NamedTree DEF Event, Projection!Tree!FacetsOf, Trees!Column
  <2> HIDE DEF e
  <2>3. Archived' = Archived \cup {e} /\ Len(archive') = Len(archive) + 1
    BY <2>1, <2>2, ArchiveGrows DEF LogInv, Archived
  <2>4. todo = <<>> /\ Len(todo) = 0 /\ Len(archive) \in Nat
    BY <2>1 DEF LogInv
  <2>5. Played = Archived /\ Played' = Archived'
    <3>1. Len(archive) - Len(todo) = Len(archive) /\ Len(archive') - Len(todo') = Len(archive')
      BY <2>1, <2>3, <2>4
    <3>2. Played = Archived
      BY ONLY <3>1 DEF Played, Archived
    <3>3. Played' = Archived'
      BY ONLY <3>1 DEF Played, Archived
    <3> QED
      BY <3>2, <3>3
  <2>6. e.facet = Nothing => Named[e.run] = Nothing
    <3>1. archive' \in Seq(Event)
      BY <1>1 DEF LogInv
    <3>2. DOMAIN archive' = 1 .. Len(archive')
      BY ONLY <3>1
    <3>3. e \in Archived'
      BY <2>3
    <3>4. PICK i \in 1 .. Len(archive') : archive'[i] = e
      BY <3>3 DEF Archived
    <3> QED
      BY <3>2, <3>4 DEF Projection!Omitted
  <2>7. Told(known', stubs', state', heard', Played \cup {e})
    BY <1>5, <2>1, <2>2, <2>6
  <2>8. Told(known', stubs', state', heard', Played')
    BY <2>3, <2>5, <2>7
  <2> QED
    BY <2>1, <2>8 DEF ToldInv
<1>7. ASSUME NEW q \in Queries, Projection!Stitch(q)
      PROVE  ToldInv'
  <2>1. UNCHANGED <<known, stubs, state, heard, archive, todo, saved>> /\ saved = <<>>
    BY <1>7 DEF Projection!Stitch, Projection!NotReplaying
  <2>2. Played' = Played
    BY <2>1 DEF Played
  <2> QED
    BY <1>3, <2>1, <2>2 DEF ToldInv
<1>8. ASSUME Projection!ReplayBegin
      PROVE  ToldInv'
  <2>1. /\ saved = <<>> /\ saved' = <<Projection!rows, stitched, reset>>
        /\ archive' = archive /\ todo' = archive
        /\ known' = {} /\ stubs' = {} /\ heard' = {}
        /\ state' = [r \in Runs |-> "UNKNOWN"]
    BY <1>8 DEF Projection!ReplayBegin, Projection!NotReplaying, Projection!SetRows,
                Projection!StartsFrom, Projection!Empty, Projection!Streamed
  <2>2. Len(archive) \in Nat /\ todo = <<>> /\ Len(todo) = 0
    BY <2>1 DEF LogInv
  <2>3. Played' = {}
    BY <2>1, <2>2 DEF Played
  <2>4. Played = Archived /\ Archived' = Archived
    BY <2>1, <2>2 DEF Played, Archived
  <2>5. saved'[1] = <<known, stubs, parent, rootOf, depthOf, state, heard>>
    BY <2>1 DEF Projection!rows
  <2>6. /\ saved'[1][1] = known /\ saved'[1][2] = stubs /\ saved'[1][3] = parent
        /\ saved'[1][4] = rootOf /\ saved'[1][5] = depthOf /\ saved'[1][6] = state
        /\ saved'[1][7] = heard
    BY <2>5
  <2>7. /\ Told(saved'[1][1], saved'[1][2], saved'[1][6], saved'[1][7], Archived')
        /\ saved'[1] = <<saved'[1][1], saved'[1][2], saved'[1][3], saved'[1][4],
                         saved'[1][5], saved'[1][6], saved'[1][7]>>
    BY ONLY <1>3, <2>4, <2>5, <2>6, Zenon
  <2>8. Told(known', stubs', state', heard', Played')
    BY <2>1, <2>3, EmptyHolds
  <2> QED
    BY <2>7, <2>8 DEF ToldInv
<1>9. ASSUME Projection!ReplayEvent
      PROVE  ToldInv'
  <2> DEFINE e == Head(todo)
             k == Len(archive) - Len(todo) + 1
  <2>1. /\ todo # <<>> /\ saved' = saved /\ archive' = archive /\ todo' = Tail(todo)
        /\ Projection!Tree!Ingest(e.run, e.type, e.facet, Nothing)
    BY <1>9 DEF Projection!ReplayEvent
  <2>2. /\ Len(todo) \in Nat /\ Len(todo) >= 1 /\ Len(archive) \in Nat
        /\ Len(todo) <= Len(archive) /\ e = todo[1] /\ saved # <<>>
        /\ Len(todo') = Len(todo) - 1
    BY <2>1 DEF LogInv
  <2>3. e = archive[k]
    BY <2>2 DEF LogInv
  <2>4. /\ k \in 1 .. Len(archive) /\ Len(archive') - Len(todo') = k
        /\ 1 .. k = (1 .. (Len(archive) - Len(todo))) \cup {k}
    BY <2>1, <2>2
  <2>5. e \in Archived /\ e \in Event
    BY <2>3, <2>4, TypedEvents DEF Archived
  <2>6. e.facet = Nothing => Named[e.run] = Nothing
    BY <1>2, <2>5, NothingOmitted
  <2> HIDE DEF e
  <2>7. Played' = Played \cup {e}
    BY <2>1, <2>3, <2>4 DEF Played
  <2>8. Told(known', stubs', state', heard', Played')
    BY <1>5, <2>1, <2>5, <2>6, <2>7
  <2>9. Archived' = Archived
    BY <2>1 DEF Archived
  <2> QED
    BY <1>3, <2>1, <2>2, <2>8, <2>9 DEF ToldInv
<1>10. ASSUME Projection!ReplayCommit
       PROVE  ToldInv'
  <2>1. /\ saved' = <<>> /\ UNCHANGED <<known, stubs, state, heard, archive, todo>>
    BY <1>10 DEF Projection!ReplayCommit, Projection!rows
  <2>2. Played' = Played
    BY <2>1 DEF Played
  <2> QED
    BY <1>3, <2>1, <2>2 DEF ToldInv
<1>11. ASSUME Projection!ReplayFails
       PROVE  ToldInv'
  <2>1. /\ saved # <<>> /\ saved' = <<>> /\ archive' = archive /\ todo' = <<>>
        /\ known' = saved[1][1] /\ stubs' = saved[1][2] /\ state' = saved[1][6]
        /\ heard' = saved[1][7]
    BY <1>11 DEF Projection!ReplayFails, Projection!NotReplaying, Projection!SetRows
  <2>2. Played' = Archived
    BY <2>1 DEF Played, Archived, LogInv
  <2> QED
    BY <1>3, <2>1, <2>2 DEF ToldInv
<1>12. CASE UNCHANGED Projection!vars
  <2>1. UNCHANGED <<known, stubs, state, heard, archive, todo, saved>>
    BY <1>12 DEF Projection!vars, Projection!rows
  <2>2. Played' = Played /\ Archived' = Archived
    BY <2>1 DEF Played, Archived
  <2> QED
    BY <1>3, <2>1, <2>2 DEF ToldInv
<1> QED
  BY <1>6, <1>7, <1>8, <1>9, <1>10, <1>11, <1>12 DEF Projection!Next

-----------------------------------------------------------------------------
LEMMA TreesAreHeld == ASSUME TreeAssumption, TreesInv PROVE Projection!TreesHold
<1>1. ASSUME ~Projection!Omitted
      PROVE  /\ parent \in Trees!Column /\ Trees!Acyclic(parent)
             /\ Placed(parent, rootOf, depthOf, reset)
             /\ (saved = <<>> /\ healed) => reset = {}
  BY <1>1, StitchedAcyclic DEF TreesInv, Stitches
<1>2. ASSUME ~Projection!Omitted, NEW r \in Runs, parent[r] # Nothing,
             Trees!Ancestors(parent, r) \intersect reset = {}
      PROVE  rootOf[r] = rootOf[parent[r]] /\ depthOf[r] = depthOf[parent[r]] + 1
  <2>1. /\ parent[r] \in Runs
        /\ Trees!Ancestors(parent, parent[r]) \subseteq Trees!Ancestors(parent, r)
    BY <1>1, <1>2, TreesApply, Trees!AncestorsStep
  <2>2. Trees!RightAt(parent, rootOf, depthOf, r) /\ Trees!RightAt(parent, rootOf, depthOf, parent[r])
    BY <1>1, <1>2, <2>1 DEF Placed
  <2> QED
    BY <1>1, <1>2, <2>2, TreesApply, Trees!RightAgrees
<1>3. Projection!SplitOnlyByReset
  BY <1>2, SameChains DEF Projection!SplitOnlyByReset, Projection!NotReplaying
<1>4. Projection!RebuildHeals
  BY <1>1, <1>2 DEF Projection!RebuildHeals, Projection!NotReplaying
<1> QED
  BY <1>3, <1>4 DEF Projection!TreesHold

LEMMA ReplayIsExact ==
  ASSUME TreeAssumption, EndsOneWay, LogInv, TreesInv, ToldInv
  PROVE  Projection!ReplayArrives
<1> SUFFICES ASSUME saved # <<>>, todo = <<>>, ~Projection!Omitted, saved[2] = {}, saved[3] = {}
             PROVE  Projection!rows = saved[1]
  BY DEF Projection!ReplayArrives, Projection!NotReplaying
<1>1. Played = Archived
  <2>1. Len(archive) - Len(todo) = Len(archive)
    BY DEF LogInv
  <2> QED
    BY <2>1 DEF Played, Archived
<1>2. /\ Told(known, stubs, state, heard, Archived)
      /\ Told(saved[1][1], saved[1][2], saved[1][6], saved[1][7], Archived)
      /\ saved[1] = <<saved[1][1], saved[1][2], saved[1][3], saved[1][4],
                      saved[1][5], saved[1][6], saved[1][7]>>
  BY <1>1 DEF ToldInv
<1>3. known = saved[1][1] /\ stubs = saved[1][2] /\ state = saved[1][6] /\ heard = saved[1][7]
  <2>1. \A f \in Archived : f.run \in Runs /\ f.type \in Types
    BY TypedEvents
  <2> QED
    BY <1>2, <2>1, ToldOnce
<1>4. /\ Stitches(parent, heard, {}, {}) /\ Placed(parent, rootOf, depthOf, {})
      /\ Stitches(saved[1][3], saved[1][7], {}, {})
      /\ Placed(saved[1][3], saved[1][4], saved[1][5], {})
  BY DEF TreesInv
<1> DEFINE p == saved[1][3]
           t == saved[1][4]
           d == saved[1][5]
<1>5. parent = p
  <2>1. parent \in Trees!Column /\ p \in Trees!Column
    BY <1>4 DEF Stitches
  <2>2. \A r \in Runs : parent[r] = p[r]
    BY <1>3, <1>4 DEF Stitches
  <2> HIDE DEF p
  <2> QED
    BY <2>1, <2>2, TreesApply, Trees!SameColumn
<1>6. rootOf = t /\ depthOf = d
  <2>1. /\ rootOf \in [Runs -> Runs] /\ t \in [Runs -> Runs]
        /\ depthOf \in [Runs -> Nat] /\ d \in [Runs -> Nat] /\ parent \in Trees!Column
    BY <1>4 DEF Placed, Stitches
  <2>2. ASSUME NEW r \in Runs
        PROVE  rootOf[r] = t[r] /\ depthOf[r] = d[r]
    <3>1. Trees!RightAt(parent, rootOf, depthOf, r) /\ Trees!RightAt(parent, t, d, r)
      BY <1>4, <1>5 DEF Placed
    <3> HIDE DEF t, d
    <3> QED
      BY <2>1, <3>1, TreesApply, Trees!RightIsOne
  <2> HIDE DEF t, d
  <2> QED
    BY <2>1, <2>2
<1>7. Projection!rows = <<known, stubs, parent, rootOf, depthOf, state, heard>>
  BY DEF Projection!rows
<1> QED
  BY ONLY <1>2, <1>3, <1>5, <1>6, <1>7, Zenon

HIDE DEF known, stubs, parent, rootOf, depthOf, state, heard, archive, todo, saved,
        stitched, reset, healed

TreesPart == part = "projection" => LogInv /\ TreesInv
ToldPart == part = "projection" => ToldInv

LEMMA TreesPartHolds == ASSUME DeepEnough PROVE Spec => []TreesPart
<1>0. TreeAssumption
  BY RecordsAssumption DEF TreeAssumption
<1>1. Init => TreesPart
  BY <1>0, ProjectionStarts DEF Init, TreesPart
<1>2. TreesPart /\ [Next]_all => TreesPart'
  <2> SUFFICES ASSUME TreesPart, [Next]_all, part' = "projection"
               PROVE  LogInv' /\ TreesInv'
    BY DEF TreesPart
  <2>1. part = "projection" /\ [Projection!Next]_(Projection!vars)
    <3>1. CASE UNCHANGED all
      BY <3>1 DEF all, slots, Projection!vars, Projection!rows
    <3>2. CASE Next
      BY <3>2 DEF Next
    <3> QED
      BY <3>1, <3>2
  <2> QED
    BY <1>0, <2>1, LogStep, TreesStep DEF TreesPart
<1> QED
  BY <1>1, <1>2, PTL DEF Spec

(* For any runs, parents, queries and events, in whatever order they come and  *)
(* whenever queries are stitched or the projection is rebuilt: a position that *)
(* disagrees with the row above is explained by an event that reset a stitched *)
(* run, and a rebuild leaves none (stitch.py, replay.py, ingest.py             *)
(* _repair_subtree). TreesInv is why: a run stands at the top and length of    *)
(* its chain unless one in the chain was reset.                                *)
THEOREM RecordsTreesHold == ASSUME DeepEnough PROVE Spec => []TreesHold
<1>1. TreesPart => TreesHold
  BY RecordsAssumption, TreesAreHeld DEF TreesPart, TreesHold, TreeAssumption
<1> QED
  BY <1>1, TreesPartHolds, PTL

(* A replay ends with the rows it began with, if nothing was stitched and no   *)
(* producer contradicts itself: whatever order the archive drew its ids in,    *)
(* and however long the archive is (replay.py replay, iter_events).            *)
THEOREM RecordsReplayReproduces ==
  ASSUME DeepEnough, EndsOneWay PROVE Spec => ReplayReproduces
<1>0. TreeAssumption
  BY RecordsAssumption DEF TreeAssumption
<1>1. Init => ToldPart
  BY <1>0, ProjectionStarts DEF Init, ToldPart
<1>2. TreesPart /\ ToldPart /\ [Next]_all => ToldPart'
  <2> SUFFICES ASSUME TreesPart, ToldPart, [Next]_all, part' = "projection"
               PROVE  ToldInv'
    BY DEF ToldPart
  <2>1. part = "projection" /\ [Projection!Next]_(Projection!vars)
    <3>1. CASE UNCHANGED all
      BY <3>1 DEF all, slots, Projection!vars, Projection!rows
    <3>2. CASE Next
      BY <3>2 DEF Next
    <3> QED
      BY <3>1, <3>2
  <2>2. LogInv /\ TreesInv /\ ToldInv
    BY <2>1 DEF TreesPart, ToldPart
  <2>3. parent \in Trees!Column \/ Projection!Omitted
    BY <2>2 DEF TreesInv, Stitches
  <2> QED
    BY <1>0, <2>1, <2>2, <2>3, ToldStep
<1>3. TreesPart /\ ToldPart => (part = "projection" => Projection!ReplayArrives)
  BY <1>0, ReplayIsExact DEF TreesPart, ToldPart
<1>4. TreesPart /\ ToldPart /\ [Next]_all
        => [part = "projection" => Projection!ReplayArrives]_all
  BY <1>3
<1> QED
  BY <1>1, <1>2, <1>4, TreesPartHolds, PTL DEF Spec, ReplayReproduces

-----------------------------------------------------------------------------
(* Lineage: nodes of the graph are tables, and walks find the nearest.  Groups *)
(* are the classes of an equivalence: none of what follows needs to know how   *)
(* union-find makes them.                                                      *)
ClosedUnder(pairs, S) == \A p \in pairs : p \intersect S # {} => p \subseteq S
Together(K, pairs, d) == {e \in K : \A S \in SUBSET K : d \in S /\ ClosedUnder(pairs, S) => e \in S}

LEMMA GroupIsTogether ==
  ASSUME NEW pairs, NEW d PROVE Lineage!Group(pairs, d) = Together(Lineage!Known, pairs, d)
  BY DEF Lineage!Group, Together, ClosedUnder

LEMMA InOwnGroup ==
  ASSUME NEW K, NEW pairs, NEW d \in K
  PROVE  d \in Together(K, pairs, d) /\ Together(K, pairs, d) \subseteq K
  BY DEF Together

LEMMA TogetherOnwards ==
  ASSUME NEW K, NEW pairs, NEW d, NEW e \in Together(K, pairs, d), NEW f \in Together(K, pairs, e)
  PROVE  f \in Together(K, pairs, d)
  BY DEF Together

LEMMA TogetherBack ==
  ASSUME NEW K, NEW pairs, \A p \in pairs : p \subseteq K, NEW d \in K,
         NEW e \in Together(K, pairs, d)
  PROVE  d \in Together(K, pairs, e)
<1>1. ASSUME NEW S \in SUBSET K, e \in S, ClosedUnder(pairs, S), d \notin S
      PROVE  FALSE
  <2>1. ClosedUnder(pairs, K \ S)
    BY <1>1 DEF ClosedUnder
  <2>2. K \ S \in SUBSET K /\ d \in K \ S
    BY <1>1
  <2>3. e \in K \ S
    BY <2>1, <2>2 DEF Together
  <2> QED
    BY <1>1, <2>3
<1> QED
  BY <1>1 DEF Together

LEMMA PairedAreTogether ==
  ASSUME NEW K, NEW pairs, NEW p \in pairs, p \subseteq K, NEW d \in p, NEW e \in p
  PROVE  e \in Together(K, pairs, d)
  BY DEF Together, ClosedUnder

LEMMA TogetherGrows ==
  ASSUME NEW K, NEW K2, K \subseteq K2, NEW pairs, NEW pairs2, pairs \subseteq pairs2,
         \A p \in pairs : p \subseteq K, NEW d \in K, NEW e \in Together(K, pairs, d)
  PROVE  e \in Together(K2, pairs2, d)
<1>1. ASSUME NEW S \in SUBSET K2, d \in S, ClosedUnder(pairs2, S) PROVE e \in S
  <2>1. ClosedUnder(pairs, S \intersect K)
    BY <1>1 DEF ClosedUnder
  <2>2. S \intersect K \in SUBSET K /\ d \in S \intersect K
    BY <1>1
  <2> QED
    BY <2>1, <2>2 DEF Together
<1> QED
  BY <1>1 DEF Together

LEMMA GroupsAreApart ==
  ASSUME NEW K, NEW pairs, \A p \in pairs : p \subseteq K, NEW d \in K, NEW e \in K,
         NEW f \in Together(K, pairs, d), f \in Together(K, pairs, e)
  PROVE  Together(K, pairs, d) = Together(K, pairs, e)
<1>1. f \in K
  BY DEF Together
<1>2. d \in Together(K, pairs, f) /\ e \in Together(K, pairs, f)
  BY TogetherBack
<1>3. e \in Together(K, pairs, d) /\ d \in Together(K, pairs, e)
  BY <1>2, TogetherOnwards
<1> QED
  BY <1>3, TogetherOnwards

-----------------------------------------------------------------------------
(* Walks as functions from hops to nodes.                                      *)
Goes(N, H, x, y, m) ==
  \E f \in [0..m -> N] : f[0] = x /\ f[m] = y /\ \A i \in 1..m : <<f[i - 1], f[i]>> \in H
Flipped(H) == {<<e[2], e[1]>> : e \in H}

LEMMA GoesNowhere ==
  ASSUME NEW N, NEW H, NEW x \in N, NEW y PROVE Goes(N, H, x, y, 0) <=> x = y
<1>1. ASSUME x = y PROVE Goes(N, H, x, y, 0)
  <2> DEFINE f == [i \in 0..0 |-> x]
  <2>1. f \in [0..0 -> N] /\ f[0] = x
    OBVIOUS
  <2>2. ~\E i \in 1..0 : TRUE
    OBVIOUS
  <2> HIDE DEF f
  <2>3. f[0] = y /\ \A i \in 1..0 : <<f[i - 1], f[i]>> \in H
    BY <1>1, <2>1, <2>2
  <2> QED
    BY <2>1, <2>3 DEF Goes
<1> QED
  BY <1>1 DEF Goes

LEMMA GoesOneFurther ==
  ASSUME NEW N, NEW H \in SUBSET (N \X N), NEW x \in N, NEW y, NEW m \in Nat \ {0}
  PROVE  Goes(N, H, x, y, m) <=> \E z \in N : Goes(N, H, x, z, m - 1) /\ <<z, y>> \in H
<1>1. ASSUME Goes(N, H, x, y, m)
      PROVE  \E z \in N : Goes(N, H, x, z, m - 1) /\ <<z, y>> \in H
  <2>1. PICK f \in [0..m -> N] : f[0] = x /\ f[m] = y /\ \A i \in 1..m : <<f[i - 1], f[i]>> \in H
    BY <1>1 DEF Goes
  <2> DEFINE g == [i \in 0..(m - 1) |-> f[i]]
  <2>2. g \in [0..(m - 1) -> N] /\ g[0] = x /\ g[m - 1] = f[m - 1]
    BY <2>1
  <2>3. \A i \in 1..(m - 1) : <<g[i - 1], g[i]>> \in H
    BY <2>1
  <2>4. f[m - 1] \in N /\ <<f[m - 1], y>> \in H
    BY <2>1
  <2> HIDE DEF g
  <2> QED
    BY <2>2, <2>3, <2>4 DEF Goes
<1>2. ASSUME NEW z \in N, Goes(N, H, x, z, m - 1), <<z, y>> \in H
      PROVE  Goes(N, H, x, y, m)
  <2>1. PICK f \in [0..(m - 1) -> N] :
          f[0] = x /\ f[m - 1] = z /\ \A i \in 1..(m - 1) : <<f[i - 1], f[i]>> \in H
    BY <1>2 DEF Goes
  <2> DEFINE g == [i \in 0..m |-> IF i = m THEN y ELSE f[i]]
  <2>2. y \in N
    BY <1>2
  <2>3. g \in [0..m -> N] /\ g[0] = x /\ g[m] = y
    BY <2>1, <2>2
  <2>4. ASSUME NEW i \in 1..m PROVE <<g[i - 1], g[i]>> \in H
    <3>1. CASE i = m
      BY <1>2, <2>1, <3>1
    <3>2. CASE i # m
      <4>1. i \in 1..(m - 1) /\ i - 1 \in 0..m /\ i \in 0..m /\ i - 1 # m
        BY <3>2
      <4>2. g[i - 1] = f[i - 1] /\ g[i] = f[i]
        BY <3>2, <4>1
      <4> QED
        BY <2>1, <4>1, <4>2
    <3> QED
      BY <3>1, <3>2
  <2> HIDE DEF g
  <2> QED
    BY <2>3, <2>4 DEF Goes
<1> QED
  BY <1>1, <1>2

LEMMA GoesBack ==
  ASSUME NEW N, NEW H \in SUBSET (N \X N), NEW x, NEW y, NEW m \in Nat, Goes(N, H, x, y, m)
  PROVE  Goes(N, Flipped(H), y, x, m)
<1>1. PICK f \in [0..m -> N] : f[0] = x /\ f[m] = y /\ \A i \in 1..m : <<f[i - 1], f[i]>> \in H
  BY DEF Goes
<1> DEFINE g == [i \in 0..m |-> f[m - i]]
<1>2. g \in [0..m -> N] /\ g[0] = y /\ g[m] = x
  BY <1>1
<1>3. ASSUME NEW i \in 1..m PROVE <<g[i - 1], g[i]>> \in Flipped(H)
  <2>1. (m - i) + 1 \in 1..m /\ m - i \in 0..m /\ ((m - i) + 1) - 1 = m - i /\ m - (i - 1) = (m - i) + 1
    OBVIOUS
  <2>2. g[i - 1] = f[(m - i) + 1] /\ g[i] = f[m - i]
    BY <2>1
  <2>3. <<f[m - i], f[(m - i) + 1]>> \in H
    BY <1>1, <2>1
  <2> HIDE DEF g
  <2>4. <<f[(m - i) + 1], f[m - i]>> \in Flipped(H)
    BY <2>3 DEF Flipped
  <2> QED
    BY <2>2, <2>4
<1> HIDE DEF g
<1> QED
  BY <1>2, <1>3 DEF Goes

LEMMA FlippedHas ==
  ASSUME NEW N, NEW H \in SUBSET (N \X N)
  PROVE  /\ Flipped(H) \in SUBSET (N \X N)
         /\ \A a, b \in N : <<a, b>> \in H <=> <<b, a>> \in Flipped(H)
  BY DEF Flipped

LEMMA FlippedTwice ==
  ASSUME NEW N, NEW H \in SUBSET (N \X N)
  PROVE  Flipped(Flipped(H)) = H
<1> DEFINE F == Flipped(H)
<1>1. F \in SUBSET (N \X N) /\ \A a, b \in N : <<a, b>> \in H <=> <<b, a>> \in F
  BY FlippedHas
<1> HIDE DEF F
<1>2. Flipped(F) \in SUBSET (N \X N) /\ \A a, b \in N : <<a, b>> \in F <=> <<b, a>> \in Flipped(F)
  BY <1>1, FlippedHas
<1>3. \A a, b \in N : <<a, b>> \in Flipped(F) <=> <<a, b>> \in H
  BY <1>1, <1>2
<1>4. Flipped(F) = H
  BY <1>2, <1>3
<1> QED
  BY <1>4 DEF F

LEMMA GoesBothWays ==
  ASSUME NEW N, NEW H \in SUBSET (N \X N), NEW x, NEW y, NEW m \in Nat
  PROVE  Goes(N, H, x, y, m) <=> Goes(N, Flipped(H), y, x, m)
<1>1. Flipped(H) \in SUBSET (N \X N)
  BY FlippedHas
<1> QED
  BY <1>1, GoesBack, FlippedTwice

-----------------------------------------------------------------------------
(* The recursive query: its rows are the walks.                                *)
Layers(N, H, start, n) == {w \in N \X (0..n) : Goes(N, H, start, w[1], w[2])}
Hop(H, rows, n) ==
  {<<hw[1][2], n>> : hw \in {x \in H \X rows : x[1][1] = x[2][1] /\ x[2][2] = n - 1}}
Recurses(rows, start, H) ==
  rows = [n \in 0..Depth |-> IF n = 0 THEN {<<start, 0>>}
                             ELSE rows[n - 1] \union Hop(H, rows[n - 1], n)]

LEMMA LayersBegin ==
  ASSUME NEW N, NEW H, NEW start \in N PROVE Layers(N, H, start, 0) = {<<start, 0>>}
<1>1. \A y : Goes(N, H, start, y, 0) <=> start = y
  BY GoesNowhere
<1>2. ASSUME NEW w \in Layers(N, H, start, 0) PROVE w = <<start, 0>>
  BY <1>1 DEF Layers
<1>3. <<start, 0>> \in Layers(N, H, start, 0)
  BY <1>1 DEF Layers
<1> QED
  BY <1>2, <1>3

LEMMA LayersGrow ==
  ASSUME NEW N, NEW H \in SUBSET (N \X N), NEW start \in N, NEW n \in Nat \ {0}
  PROVE  Layers(N, H, start, n)
           = Layers(N, H, start, n - 1) \union Hop(H, Layers(N, H, start, n - 1), n)
<1> DEFINE below == Layers(N, H, start, n - 1)
<1>1. ASSUME NEW w \in Layers(N, H, start, n), w \notin below PROVE w \in Hop(H, below, n)
  <2>1. w[1] \in N /\ w[2] = n /\ w = <<w[1], n>> /\ Goes(N, H, start, w[1], n)
    BY <1>1 DEF Layers
  <2>2. PICK z \in N : Goes(N, H, start, z, n - 1) /\ <<z, w[1]>> \in H
    BY <2>1, GoesOneFurther
  <2>3. <<z, n - 1>> \in below
    BY <2>2 DEF Layers
  <2>4. <<<<z, w[1]>>, <<z, n - 1>>>> \in {x \in H \X below : x[1][1] = x[2][1] /\ x[2][2] = n - 1}
    BY <2>2, <2>3
  <2> HIDE DEF below
  <2> QED
    BY <2>1, <2>4 DEF Hop
<1>2. ASSUME NEW w \in below PROVE w \in Layers(N, H, start, n)
  BY DEF Layers
<1>3. ASSUME NEW w \in Hop(H, below, n) PROVE w \in Layers(N, H, start, n)
  <2>1. PICK hw \in H \X below : hw[1][1] = hw[2][1] /\ hw[2][2] = n - 1 /\ w = <<hw[1][2], n>>
    BY <1>3 DEF Hop
  <2> DEFINE z == hw[2][1]
             y == hw[1][2]
  <2>2. hw[2] \in below /\ hw[1] \in H
    BY <2>1
  <2>3. z \in N /\ Goes(N, H, start, z, n - 1)
    BY <2>1, <2>2 DEF Layers
  <2>4. hw[1] = <<z, y>> /\ y \in N
    BY <2>1, <2>2
  <2>5. Goes(N, H, start, y, n)
    BY <2>2, <2>3, <2>4, GoesOneFurther
  <2> QED
    BY <2>1, <2>4, <2>5 DEF Layers
<1> QED
  BY <1>1, <1>2, <1>3

LEMMA RowsAreLayers ==
  ASSUME NEW N, NEW H \in SUBSET (N \X N), NEW start \in N, Depth \in Nat,
         NEW rows, Recurses(rows, start, H), NEW n \in 0..Depth
  PROVE  rows[n] = Layers(N, H, start, n)
<1> DEFINE wrong == {j \in 0..Depth : rows[j] # Layers(N, H, start, j)}
<1>1. CASE wrong = {}
  BY <1>1
<1>2. CASE wrong # {}
  <2>1. PICK j \in wrong : \A i \in wrong : j <= i
    <3>1. wrong \in SUBSET Nat
      OBVIOUS
    <3> HIDE DEF wrong
    <3> QED
      BY <1>2, <3>1, LeastExists
  <2>2. \A i \in 0..Depth : rows[i] = IF i = 0 THEN {<<start, 0>>}
                                      ELSE rows[i - 1] \union Hop(H, rows[i - 1], i)
    <3> DEFINE e == [i \in 0..Depth |-> IF i = 0 THEN {<<start, 0>>}
                                      ELSE rows[i - 1] \union Hop(H, rows[i - 1], i)]
    <3>1. rows = e
      BY DEF Recurses
    <3>2. \A i \in 0..Depth : e[i] = IF i = 0 THEN {<<start, 0>>}
                                      ELSE rows[i - 1] \union Hop(H, rows[i - 1], i)
      OBVIOUS
    <3> HIDE DEF e
    <3> QED
      BY <3>1, <3>2
  <2>3. j \in 0..Depth /\ rows[j] # Layers(N, H, start, j)
    BY <2>1
  <2>4. j # 0
    BY <2>2, <2>3, LayersBegin
  <2>5. j - 1 \in 0..Depth /\ j \in Nat \ {0}
    BY <2>3, <2>4
  <2>6. rows[j - 1] = Layers(N, H, start, j - 1)
    BY <2>1, <2>5
  <2>7. rows[j] = rows[j - 1] \union Hop(H, rows[j - 1], j)
    BY <2>2, <2>3, <2>4
  <2>8. Layers(N, H, start, j) = Layers(N, H, start, j - 1) \union Hop(H, Layers(N, H, start, j - 1), j)
    BY <2>5, LayersGrow
  <2> QED
    BY <2>3, <2>6, <2>7, <2>8
<1> QED
  BY <1>1, <1>2

LEMMA LayersRecurse ==
  ASSUME NEW N, NEW H \in SUBSET (N \X N), NEW start \in N, Depth \in Nat
  PROVE  Recurses([n \in 0..Depth |-> Layers(N, H, start, n)], start, H)
<1> DEFINE R == [n \in 0..Depth |-> Layers(N, H, start, n)]
<1>1. \A n \in 0..Depth : R[n] = Layers(N, H, start, n)
  OBVIOUS
<1>2. R = [n \in 0..Depth |-> R[n]]
  OBVIOUS
<1> HIDE DEF R
<1>3. ASSUME NEW n \in 0..Depth
      PROVE  R[n] = IF n = 0 THEN {<<start, 0>>} ELSE R[n - 1] \union Hop(H, R[n - 1], n)
  <2>1. CASE n = 0
    BY <1>1, <2>1, LayersBegin
  <2>2. CASE n # 0
    <3>1. n \in Nat \ {0} /\ n - 1 \in 0..Depth
      BY <2>2
    <3>2. R[n] = Layers(N, H, start, n) /\ R[n - 1] = Layers(N, H, start, n - 1)
      BY <1>1, <3>1
    <3> QED
      BY <2>2, <3>1, <3>2, LayersGrow
  <2> QED
    BY <2>1, <2>2
<1>4. Recurses(R, start, H)
  BY <1>2, <1>3 DEF Recurses
<1> QED
  BY <1>4 DEF R

LEMMA WalkedAre ==
  ASSUME NEW N, NEW H \in SUBSET (N \X N), NEW start \in N, Depth \in Nat
  PROVE  Lineage!Walked(start, H) = {w \in N \X (1..Depth) : Goes(N, H, start, w[1], w[2])}
<1> DEFINE rows == CHOOSE r : r = [n \in 0..Depth |-> IF n = 0 THEN {<<start, 0>>}
             ELSE r[n - 1] \union
               {<<hw[1][2], n>> : hw \in {x \in H \X r[n - 1] : x[1][1] = x[2][1] /\ x[2][2] = n - 1}}]
<1>1. Lineage!Walked(start, H) = {w \in rows[Depth] : w[2] > 0}
  BY DEF Lineage!Walked
<1>2. Recurses(rows, start, H)
  <2>1. PICK r : Recurses(r, start, H)
    BY LayersRecurse
  <2>2. r = [n \in 0..Depth |-> IF n = 0 THEN {<<start, 0>>}
             ELSE r[n - 1] \union
               {<<hw[1][2], n>> : hw \in {x \in H \X r[n - 1] : x[1][1] = x[2][1] /\ x[2][2] = n - 1}}]
    BY <2>1 DEF Recurses, Hop
  <2>3. rows = [n \in 0..Depth |-> IF n = 0 THEN {<<start, 0>>}
             ELSE rows[n - 1] \union
               {<<hw[1][2], n>> : hw \in {x \in H \X rows[n - 1] : x[1][1] = x[2][1] /\ x[2][2] = n - 1}}]
    BY <2>2
  <2> HIDE DEF rows
  <2> QED
    BY <2>3 DEF Recurses, Hop
<1> HIDE DEF rows
<1>3. rows[Depth] = Layers(N, H, start, Depth)
  BY <1>2, RowsAreLayers
<1>4. {w \in Layers(N, H, start, Depth) : w[2] > 0}
        = {w \in N \X (1..Depth) : Goes(N, H, start, w[1], w[2])}
  BY DEF Layers
<1> QED
  BY <1>1, <1>3, <1>4
-----------------------------------------------------------------------------
(* What a walk shows of each node: its least distance.                         *)
LeastAt(N, H, x, y, n) ==
  /\ n \in 1..Depth /\ Goes(N, H, x, y, n)
  /\ \A m \in 1..Depth : Goes(N, H, x, y, m) => n <= m

LEMMA NearestAre ==
  ASSUME NEW N, NEW H \in SUBSET (N \X N), NEW x \in N, Depth \in Nat
  PROVE  Lineage!Nearest(Lineage!Walked(x, H))
           = {w \in N \X (1..Depth) : LeastAt(N, H, x, w[1], w[2])}
<1> DEFINE W == {w \in N \X (1..Depth) : Goes(N, H, x, w[1], w[2])}
<1>1. Lineage!Walked(x, H) = W
  BY WalkedAre
<1>2. ASSUME NEW w \in W
      PROVE  (\A v \in W : v[1] = w[1] => v[2] >= w[2]) <=> LeastAt(N, H, x, w[1], w[2])
  <2>1. ASSUME \A v \in W : v[1] = w[1] => v[2] >= w[2], NEW m \in 1..Depth, Goes(N, H, x, w[1], m)
        PROVE  w[2] <= m
    <3>1. <<w[1], m>> \in W
      BY <2>1
    <3> QED
      BY <2>1, <3>1
  <2>2. ASSUME LeastAt(N, H, x, w[1], w[2]), NEW v \in W, v[1] = w[1] PROVE v[2] >= w[2]
    BY <2>2 DEF LeastAt
  <2> QED
    BY <2>1, <2>2 DEF LeastAt
<1>3. Lineage!Nearest(W) = {w \in W : \A v \in W : v[1] = w[1] => v[2] >= w[2]}
  BY DEF Lineage!Nearest
<1>4. {w \in W : \A v \in W : v[1] = w[1] => v[2] >= w[2]}
        = {w \in W : LeastAt(N, H, x, w[1], w[2])}
  <2> HIDE DEF W
  <2> QED
    BY <1>2
<1>5. {w \in W : LeastAt(N, H, x, w[1], w[2])}
        = {w \in N \X (1..Depth) : LeastAt(N, H, x, w[1], w[2])}
  BY DEF LeastAt
<1> QED
  BY <1>1, <1>3, <1>4, <1>5

LEMMA LeastIsThere ==
  ASSUME NEW N, NEW H, NEW x, NEW y, Depth \in Nat, NEW m \in 1..Depth, Goes(N, H, x, y, m)
  PROVE  \E n \in 1..m : LeastAt(N, H, x, y, n)
<1> DEFINE S == {j \in Nat : j \in 1..Depth /\ Goes(N, H, x, y, j)}
<1>1. S \in SUBSET Nat /\ m \in S
  OBVIOUS
<1>2. PICK n \in S : \A j \in S : n <= j
  BY <1>1, LeastExists
<1>3. n <= m /\ n \in 1..Depth /\ Goes(N, H, x, y, n)
  BY <1>1, <1>2
<1>4. n \in 1..m
  BY <1>3
<1>5. LeastAt(N, H, x, y, n)
  BY <1>2, <1>3 DEF LeastAt
<1> QED
  BY <1>4, <1>5

LEMMA LeastIsOne ==
  ASSUME NEW N, NEW H, NEW x, NEW y, NEW m, NEW n, Depth \in Nat,
         LeastAt(N, H, x, y, m), LeastAt(N, H, x, y, n)
  PROVE  m = n
  BY DEF LeastAt

LEMMA LeastBothWays ==
  ASSUME NEW N, NEW H \in SUBSET (N \X N), NEW x, NEW y, NEW n, Depth \in Nat
  PROVE  LeastAt(N, Flipped(H), x, y, n) <=> LeastAt(N, H, y, x, n)
<1>1. \A m \in 1..Depth : Goes(N, H, y, x, m) <=> Goes(N, Flipped(H), x, y, m)
  BY GoesBothWays
<1> QED
  BY <1>1 DEF LeastAt
Found(N, H, x) == {w \in N \X (1..Depth) : LeastAt(N, H, x, w[1], w[2])}
Within(found, n) == {w[1] : w \in {v \in found : v[2] <= n}}
Before(H, ys) == {e[1] : e \in {h \in H : h[2] \in ys}}

Near(N, H, x, n) == {y \in N : \E m \in 1..n : Goes(N, H, x, y, m)}

LEMMA WithinAre ==
  ASSUME NEW N, NEW H \in SUBSET (N \X N), NEW x \in N, Depth \in Nat, NEW n \in 0..Depth
  PROVE  Within(Found(N, H, x), n) = Near(N, H, x, n)
<1>1. ASSUME NEW y \in Within(Found(N, H, x), n)
      PROVE  y \in N /\ \E m \in 1..n : Goes(N, H, x, y, m)
  <2>1. PICK w \in Found(N, H, x) : w[2] <= n /\ w[1] = y
    BY <1>1 DEF Within
  <2>2. w[1] \in N /\ w[2] \in 1..Depth /\ Goes(N, H, x, w[1], w[2])
    BY DEF Found, LeastAt
  <2>3. w[2] \in 1..n
    BY <2>1, <2>2
  <2> QED
    BY <2>1, <2>2, <2>3
<1>2. ASSUME NEW y \in N, NEW m \in 1..n, Goes(N, H, x, y, m)
      PROVE  y \in Within(Found(N, H, x), n)
  <2>1. m \in 1..Depth
    OBVIOUS
  <2>2. PICK k \in 1..m : LeastAt(N, H, x, y, k)
    BY <1>2, <2>1, LeastIsThere
  <2>3. k \in 1..Depth /\ k <= n
    BY <2>1
  <2>4. <<y, k>> \in Found(N, H, x)
    BY <2>2, <2>3 DEF Found
  <2>5. <<y, k>> \in {v \in Found(N, H, x) : v[2] <= n} /\ <<y, k>>[1] = y
    BY <2>3, <2>4
  <2> QED
    BY <2>5 DEF Within
<1> QED
  BY <1>1, <1>2 DEF Near

LEMMA WithinGrows ==
  ASSUME NEW N, NEW H \in SUBSET (N \X N), NEW x \in N, Depth \in Nat, NEW n \in 1..Depth
  PROVE  Within(Found(N, Flipped(H), x), n)
           = Before(H, {x} \union Within(Found(N, Flipped(H), x), n - 1))
<1> DEFINE F == Flipped(H)
           near(k) == Near(N, F, x, k)
<1>1. F \in SUBSET (N \X N) /\ \A a, b \in N : <<a, b>> \in H <=> <<b, a>> \in F
  BY FlippedHas
<1> HIDE DEF F
<1>2. Within(Found(N, F, x), n) = near(n) /\ Within(Found(N, F, x), n - 1) = near(n - 1)
  <2>1. n \in 0..Depth /\ n - 1 \in 0..Depth
    OBVIOUS
  <2>2. ASSUME NEW k \in 0..Depth PROVE Within(Found(N, F, x), k) = near(k)
    BY <1>1, WithinAre
  <2> QED
    BY <2>1, <2>2
<1>3. ASSUME NEW y \in near(n) PROVE y \in Before(H, {x} \union near(n - 1))
  <2>1. PICK m \in 1..n : Goes(N, F, x, y, m)
    BY <1>3 DEF Near
  <2>2. m \in Nat \ {0} /\ m - 1 \in Nat
    OBVIOUS
  <2>3. PICK z \in N : Goes(N, F, x, z, m - 1) /\ <<z, y>> \in F
    BY <1>1, <2>1, <2>2, GoesOneFurther
  <2>4. <<y, z>> \in H /\ <<y, z>>[1] = y /\ <<y, z>>[2] = z
    BY <1>1, <1>3, <2>3 DEF Near
  <2>5. z \in {x} \union near(n - 1)
    <3>1. CASE m - 1 = 0
      BY <2>3, <3>1, GoesNowhere
    <3>2. CASE m - 1 # 0
      <4>1. m - 1 \in 1..(n - 1)
        BY <3>2
      <4> QED
        BY <2>3, <4>1 DEF Near
    <3> QED
      BY <3>1, <3>2
  <2> HIDE DEF near
  <2> QED
    BY <2>4, <2>5 DEF Before
<1>4. ASSUME NEW y \in Before(H, {x} \union near(n - 1)) PROVE y \in near(n)
  <2>1. PICK h \in H : h[2] \in {x} \union near(n - 1) /\ h[1] = y
    <3> HIDE DEF near
    <3> QED
      BY <1>4 DEF Before
  <2>2. y \in N /\ h[2] \in N /\ h = <<y, h[2]>>
    BY <2>1
  <2>3. <<h[2], y>> \in F
    BY <1>1, <2>2
  <2>4. PICK m \in 0..(n - 1) : Goes(N, F, x, h[2], m)
    <3>1. CASE h[2] = x
      <4>1. Goes(N, F, x, h[2], 0) /\ 0 \in 0..(n - 1)
        BY <3>1, GoesNowhere
      <4> QED
        BY <4>1
    <3>2. CASE h[2] \in near(n - 1)
      BY <3>2 DEF Near
    <3> QED
      BY <2>1, <3>1, <3>2
  <2>5. m + 1 \in 1..n /\ m + 1 \in Nat \ {0} /\ (m + 1) - 1 = m
    OBVIOUS
  <2>6. Goes(N, F, x, y, m + 1)
    <3>1. Goes(N, F, x, h[2], (m + 1) - 1) /\ h[2] \in N
      BY <2>2, <2>4, <2>5
    <3> QED
      BY <1>1, <2>3, <2>5, <3>1, GoesOneFurther
  <2> QED
    BY <2>2, <2>5, <2>6 DEF Near
<1>5. near(n) = Before(H, {x} \union near(n - 1))
  <2> HIDE DEF near
  <2>1. Before(H, {x} \union near(n - 1)) \subseteq near(n)
    BY <1>4
  <2>2. near(n) \subseteq Before(H, {x} \union near(n - 1))
    BY <1>3
  <2> QED
    BY <2>1, <2>2
<1> HIDE DEF near
<1>6. Within(Found(N, F, x), n) = Before(H, {x} \union Within(Found(N, F, x), n - 1))
  BY <1>2, <1>5
<1> QED
  BY <1>6 DEF F

LEMMA FoundOnce ==
  ASSUME NEW N, IsFiniteSet(N), NEW H, NEW x, Depth \in Nat
  PROVE  /\ IsFiniteSet(Found(N, H, x))
         /\ Cardinality({w[1] : w \in Found(N, H, x)}) = Cardinality(Found(N, H, x))
<1> DEFINE T == {w[1] : w \in Found(N, H, x)}
           f == [w \in Found(N, H, x) |-> w[1]]
<1>1. IsFiniteSet(N \X (1..Depth))
  <2>1. IsFiniteSet(1..Depth)
    BY FS_Interval
  <2> QED
    BY <2>1, FS_Product
<1>2. IsFiniteSet(Found(N, H, x))
  BY <1>1, FS_Subset DEF Found
<1>3. ASSUME NEW v \in Found(N, H, x), NEW w \in Found(N, H, x), v[1] = w[1] PROVE v = w
  <2>1. /\ v = <<v[1], v[2]>> /\ w = <<w[1], w[2]>>
        /\ LeastAt(N, H, x, v[1], v[2]) /\ LeastAt(N, H, x, w[1], w[2])
    BY DEF Found
  <2>2. v[2] = w[2]
    BY <1>3, <2>1, LeastIsOne
  <2> QED
    BY <1>3, <2>1, <2>2
<1>4. f \in Bijection(Found(N, H, x), T)
  <2>1. f \in [Found(N, H, x) -> T]
    OBVIOUS
  <2>2. \A v, w \in Found(N, H, x) : f[v] = f[w] => v = w
    BY <1>3
  <2>3. \A t \in T : \E w \in Found(N, H, x) : f[w] = t
    OBVIOUS
  <2> HIDE DEF f, T
  <2> QED
    BY <2>1, <2>2, <2>3 DEF Bijection, Injection, Surjection, IsInjective
<1>5. ExistsBijection(Found(N, H, x), T)
  BY <1>4 DEF ExistsBijection
<1>6. Cardinality(T) = Cardinality(Found(N, H, x))
  <2> HIDE DEF T
  <2> QED
    BY <1>2, <1>5, FS_Bijection
<1> QED
  BY <1>2, <1>6
-----------------------------------------------------------------------------
jobs == v1
treeOf == v2
linked == v3
faceted == v4
entity == v5
nextId == v6
edges == v7
columns == v8
resolved == v11
USE DEF jobs, treeOf, linked, faceted, entity, nextId, edges, columns, resolved

Plausible ==
  linked \union {{de[1], de[2]} : de \in {de \in Lineage!Known \X Lineage!Known :
                                            Leaf[de[1]] = Leaf[de[2]]}}

(* Nodes are one table at most as far as declarations and names allow: ever,   *)
(* as a merge outlives the evidence for it.                                   *)
NodesInv ==
  /\ jobs \subseteq Jobs /\ resolved \in BOOLEAN
  /\ \A p \in linked : p \subseteq Lineage!Known
  /\ DOMAIN entity \subseteq Lineage!Known /\ nextId \in Nat /\ edges \subseteq Nat \X Nat
  /\ \A d \in DOMAIN entity : entity[d] \in Nat /\ entity[d] < nextId
  /\ \A d, e \in DOMAIN entity :
       entity[d] = entity[e] => e \in Together(Lineage!Known, Plausible, d)
  /\ resolved =>
       /\ DOMAIN entity = Lineage!Known
       /\ edges \subseteq Lineage!Entities \X Lineage!Entities
       /\ Lineage!EvidenceMerges /\ Lineage!FacetsSupersede

LEMMA SameSizes ==
  ASSUME NEW S
  PROVE  Lineage!Cardinality(S) = Cardinality(S) /\ Lineage!IsFiniteSet(S) = IsFiniteSet(S)
  BY DEF Lineage!Cardinality, Cardinality, Lineage!IsFiniteSet, IsFiniteSet

LEMMA KnownAre ==
  ASSUME Lineage!LineageAssumption, jobs \subseteq Jobs
  PROVE  Lineage!Known \in SUBSET Datasets /\ Lineage!Known \in SUBSET Nat /\ IsFiniteSet(Lineage!Known)
<1>1. Lineage!Known \in SUBSET Datasets
  BY DEF Lineage!Known, Lineage!LineageAssumption
<1>2. IsFiniteSet(Datasets) /\ Datasets \subseteq Nat
  BY SameSizes DEF Lineage!LineageAssumption
<1> QED
  BY <1>1, <1>2, FS_Subset

LEMMA PairsArePlausible ==
  /\ \A p \in Lineage!Pairs : p \subseteq Lineage!Known
  /\ Lineage!Pairs \subseteq Plausible
<1>1. ASSUME NEW p \in Lineage!Pairs PROVE p \subseteq Lineage!Known /\ p \in Plausible
  <2>1. PICK de \in Lineage!Known \X Lineage!Known :
          Lineage!Evidence(de[1], de[2]) /\ p = {de[1], de[2]}
    BY DEF Lineage!Pairs
  <2>2. p \in linked \/ Leaf[de[1]] = Leaf[de[2]]
    BY <2>1 DEF Lineage!Evidence, Lineage!CoWritten
  <2> QED
    BY <2>1, <2>2 DEF Plausible
<1> QED
  BY <1>1

LEMMA PlausibleAreKnown ==
  ASSUME \A p \in linked : p \subseteq Lineage!Known
  PROVE  \A p \in Plausible : p \subseteq Lineage!Known
  BY DEF Plausible

(* _entity_for: one of those that members of the group have, if any has one.   *)
Votes(had, x) == Cardinality({d \in had : entity[d] = x})

LEMMA MostAreThere ==
  ASSUME NEW had, had # {}, IsFiniteSet(had)
  PROVE  \E d \in had : \A e \in had : Votes(had, entity[d]) >= Votes(had, entity[e])
<1> DEFINE c == Cardinality(had)
           S == {k \in Nat : \E d \in had : k = c - Votes(had, entity[d])}
<1>1. c \in Nat /\ \A x : Votes(had, x) \in Nat /\ Votes(had, x) <= c
  <2>1. c \in Nat
    BY FS_CardinalityType
  <2>2. ASSUME NEW x PROVE Votes(had, x) \in Nat /\ Votes(had, x) <= c
    <3>1. {d \in had : entity[d] = x} \in SUBSET had
      OBVIOUS
    <3>2. IsFiniteSet({d \in had : entity[d] = x}) /\ Cardinality({d \in had : entity[d] = x}) <= c
      BY <3>1, FS_Subset
    <3> QED
      BY <3>2, FS_CardinalityType DEF Votes
  <2> QED
    BY <2>1, <2>2
<1> HIDE DEF c
<1>2. PICK d \in had : TRUE
  OBVIOUS
<1>3. c - Votes(had, entity[d]) \in S
  BY <1>1, <1>2
<1>4. PICK k \in S : \A j \in S : k <= j
  <2>1. S \in SUBSET Nat /\ S # {}
    BY <1>3
  <2> HIDE DEF S
  <2> QED
    BY <2>1, LeastExists
<1>5. PICK f \in had : k = c - Votes(had, entity[f])
  BY <1>4
<1>6. ASSUME NEW e \in had PROVE Votes(had, entity[f]) >= Votes(had, entity[e])
  <2>1. c - Votes(had, entity[e]) \in S
    BY <1>1
  <2>2. k <= c - Votes(had, entity[e])
    BY <1>4, <2>1
  <2> QED
    BY <1>1, <1>5, <2>2
<1> QED
  BY <1>6

LEMMA MinIsThere ==
  ASSUME NEW S \in SUBSET Nat, S # {} PROVE Lineage!Min(S) \in S
<1>1. \E x \in S : \A y \in S : x <= y
  BY LeastExists
<1> QED
  BY <1>1 DEF Lineage!Min

LEMMA MaxIsThere ==
  ASSUME NEW S \in SUBSET Nat, NEW c \in S, \A y \in S : c >= y
  PROVE  Lineage!Max(S) = c
<1>1. Lineage!Max(S) \in S /\ \A y \in S : Lineage!Max(S) >= y
  BY DEF Lineage!Max
<1>2. Lineage!Max(S) >= c /\ c >= Lineage!Max(S)
  BY <1>1
<1>3. c \in Nat /\ Lineage!Max(S) \in Nat
  BY <1>1
<1> QED
  BY <1>2, <1>3

LEMMA EntityForIs ==
  ASSUME NEW g \in SUBSET Nat, g # {}, IsFiniteSet(g), \A d \in DOMAIN entity : entity[d] \in Nat
  PROVE  /\ g \intersect DOMAIN entity = {} => \E m \in g : Lineage!EntityFor(g) = nextId + m
         /\ g \intersect DOMAIN entity # {} =>
              \E d \in g \intersect DOMAIN entity : Lineage!EntityFor(g) = entity[d]
<1> DEFINE had == g \intersect DOMAIN entity
           best == {entity[d] : d \in had}
           most == {x \in best : \A y \in best : Votes(had, x) >= Votes(had, y)}
<1>1. Lineage!EntityFor(g) = IF had = {} THEN nextId + Lineage!Min(g) ELSE Lineage!Min(most)
  <2> DEFINE votes(x) == Lineage!Cardinality({d \in had : entity[d] = x})
             voted == {x \in best : \A y \in best : votes(x) >= votes(y)}
  <2>1. Lineage!EntityFor(g) = IF had = {} THEN nextId + Lineage!Min(g) ELSE Lineage!Min(voted)
    BY DEF Lineage!EntityFor
  <2>2. ASSUME NEW x PROVE votes(x) = Votes(had, x)
    BY SameSizes DEF Votes
  <2>3. voted = most
    <3> HIDE DEF votes
    <3> QED
      BY <2>2
  <2> QED
    BY <2>1, <2>3
<1>2. CASE had = {}
  BY <1>1, <1>2, MinIsThere
<1>3. CASE had # {}
  <2>1. IsFiniteSet(had)
    BY FS_Subset
  <2>2. PICK d \in had : \A e \in had : Votes(had, entity[d]) >= Votes(had, entity[e])
    <3> HIDE DEF had
    <3> QED
      BY <1>3, <2>1, MostAreThere
  <2>3. entity[d] \in most /\ most \in SUBSET Nat
    BY <2>2
  <2>4. Lineage!Min(most) \in most
    <3> HIDE DEF most
    <3> QED
      BY <2>3, MinIsThere
  <2> QED
    BY <1>1, <1>3, <2>4
<1> QED
  BY <1>2, <1>3

-----------------------------------------------------------------------------
(* A resolve: what is paired is one node; what is one node is one plausibly.   *)
LEMMA ResolvedOf ==
  ASSUME Lineage!LineageAssumption, NodesInv, NEW d \in Lineage!Known
  PROVE  /\ Lineage!Resolved[d] = Lineage!EntityFor(Together(Lineage!Known, Lineage!Pairs, d))
         /\ Together(Lineage!Known, Lineage!Pairs, d) \in SUBSET Nat
         /\ Together(Lineage!Known, Lineage!Pairs, d) # {}
         /\ IsFiniteSet(Together(Lineage!Known, Lineage!Pairs, d))
         /\ d \in Together(Lineage!Known, Lineage!Pairs, d)
<1> DEFINE groups == Lineage!Groups(Lineage!Pairs)
           T(e) == Together(Lineage!Known, Lineage!Pairs, e)
<1>1. groups = {T(e) : e \in Lineage!Known}
  BY GroupIsTogether DEF Lineage!Groups
<1>2. d \in T(d) /\ T(d) \subseteq Lineage!Known
  BY InOwnGroup
<1>3. ASSUME NEW g \in groups, d \in g PROVE g = T(d)
  <2>1. PICK e \in Lineage!Known : g = T(e)
    BY <1>1
  <2> QED
    BY <1>2, <1>3, <2>1, PairsArePlausible, GroupsAreApart
<1>4. (CHOOSE g \in groups : d \in g) = T(d)
  <2>1. T(d) \in groups
    BY <1>1
  <2> HIDE DEF T, groups
  <2> QED
    BY <1>2, <1>3, <2>1
<1>5. Lineage!Resolved[d] = Lineage!EntityFor(CHOOSE g \in groups : d \in g)
  BY DEF Lineage!Resolved
<1>6. T(d) \in SUBSET Nat /\ T(d) # {} /\ IsFiniteSet(T(d))
  BY <1>2, KnownAre, FS_Subset DEF NodesInv
<1> QED
  BY <1>2, <1>4, <1>5, <1>6
(* Members of one group get one id, and of two groups only if an id was theirs. *)
LEMMA ResolvedAsPaired ==
  ASSUME Lineage!LineageAssumption, NodesInv, NEW p \in Lineage!Pairs, NEW d \in p, NEW e \in p
  PROVE  Lineage!Resolved[d] = Lineage!Resolved[e]
<1>1. p \subseteq Lineage!Known /\ d \in Lineage!Known /\ e \in Lineage!Known
  BY PairsArePlausible
<1>2. e \in Together(Lineage!Known, Lineage!Pairs, d)
  BY <1>1, PairedAreTogether
<1>3. e \in Together(Lineage!Known, Lineage!Pairs, e)
  BY <1>1, InOwnGroup
<1>4. Together(Lineage!Known, Lineage!Pairs, d) = Together(Lineage!Known, Lineage!Pairs, e)
  BY <1>1, <1>2, <1>3, PairsArePlausible, GroupsAreApart
<1> QED
  BY <1>1, <1>4, ResolvedOf

LEMMA ResolvedIs ==
  ASSUME Lineage!LineageAssumption, NodesInv, NEW d \in Lineage!Known
  PROVE  \E f \in Together(Lineage!Known, Lineage!Pairs, d) :
           /\ f \in Lineage!Known /\ f \in Nat
           /\ IF Together(Lineage!Known, Lineage!Pairs, d) \intersect DOMAIN entity = {}
              THEN Lineage!Resolved[d] = nextId + f
              ELSE f \in DOMAIN entity /\ Lineage!Resolved[d] = entity[f]
<1> DEFINE g == Together(Lineage!Known, Lineage!Pairs, d)
<1>1. /\ Lineage!Resolved[d] = Lineage!EntityFor(g)
      /\ g \in SUBSET Nat /\ g # {} /\ IsFiniteSet(g) /\ g \subseteq Lineage!Known
  BY ResolvedOf, InOwnGroup
<1> HIDE DEF g
<1>2. /\ g \intersect DOMAIN entity = {} => \E m \in g : Lineage!EntityFor(g) = nextId + m
      /\ g \intersect DOMAIN entity # {} =>
              \E f \in g \intersect DOMAIN entity : Lineage!EntityFor(g) = entity[f]
  BY <1>1, EntityForIs DEF NodesInv
<1>3. \E f \in g : /\ f \in Lineage!Known /\ f \in Nat
           /\ IF g \intersect DOMAIN entity = {}
              THEN Lineage!Resolved[d] = nextId + f
              ELSE f \in DOMAIN entity /\ Lineage!Resolved[d] = entity[f]
  <2>1. CASE g \intersect DOMAIN entity = {}
    BY <1>1, <1>2, <2>1
  <2>2. CASE g \intersect DOMAIN entity # {}
    BY <1>1, <1>2, <2>2
  <2> QED
    BY <2>1, <2>2
<1> QED
  BY <1>3 DEF g

LEMMA ResolvedAsPlausible ==
  ASSUME Lineage!LineageAssumption, NodesInv,
         NEW d \in Lineage!Known, NEW e \in Lineage!Known,
         Lineage!Resolved[d] = Lineage!Resolved[e]
  PROVE  e \in Together(Lineage!Known, Plausible, d)
<1> DEFINE T(pairs, x) == Together(Lineage!Known, pairs, x)
<1>1. /\ \A p \in Plausible : p \subseteq Lineage!Known
      /\ \A p \in Lineage!Pairs : p \subseteq Lineage!Known
      /\ Lineage!Pairs \subseteq Plausible
  BY PlausibleAreKnown, PairsArePlausible DEF NodesInv
<1>2. \A x \in Lineage!Known : T(Lineage!Pairs, x) \subseteq T(Plausible, x)
  BY <1>1, TogetherGrows
<1>3. PICK f \in T(Lineage!Pairs, d) : /\ f \in Lineage!Known /\ f \in Nat
        /\ IF T(Lineage!Pairs, d) \intersect DOMAIN entity = {}
           THEN Lineage!Resolved[d] = nextId + f
           ELSE f \in DOMAIN entity /\ Lineage!Resolved[d] = entity[f]
  BY ResolvedIs
<1>4. PICK h \in T(Lineage!Pairs, e) : /\ h \in Lineage!Known /\ h \in Nat
        /\ IF T(Lineage!Pairs, e) \intersect DOMAIN entity = {}
           THEN Lineage!Resolved[e] = nextId + h
           ELSE h \in DOMAIN entity /\ Lineage!Resolved[e] = entity[h]
  BY ResolvedIs
<1>5. nextId \in Nat /\ \A x \in DOMAIN entity : entity[x] \in Nat /\ entity[x] < nextId
  BY DEF NodesInv
<1>6. h \in T(Plausible, f)
  <2> HIDE DEF T
  <2>1. CASE h = f
    <3>1. f \in T(Plausible, f)
      BY <1>3, InOwnGroup DEF T
    <3> QED
      BY <2>1, <3>1
  <2>2. CASE h # f
    <3>1. f \in DOMAIN entity /\ h \in DOMAIN entity /\ entity[f] = entity[h]
      BY <1>3, <1>4, <1>5, <2>2
    <3> QED
      BY <3>1 DEF NodesInv, T
  <2> QED
    BY <2>1, <2>2
<1>7. f \in T(Plausible, d) /\ h \in T(Plausible, e)
  <2> HIDE DEF T
  <2> QED
    BY <1>2, <1>3, <1>4
<1>8. e \in T(Plausible, h)
  BY <1>1, <1>7, TogetherBack
<1>9. h \in T(Plausible, d)
  BY <1>6, <1>7, TogetherOnwards
<1> QED
  BY <1>8, <1>9, TogetherOnwards

LEMMA GreatestOfFinite ==
  ASSUME NEW S \in SUBSET Nat, S # {}, IsFiniteSet(S)
  PROVE  \E x \in S : \A y \in S : x >= y
<1> DEFINE Bare(T) == ~\E x \in T : \A y \in T : x >= y
           Bad == {n \in Nat : \E T \in SUBSET S : T # {} /\ Cardinality(T) = n /\ Bare(T)}
<1>1. CASE Bad = {}
  <2>1. Cardinality(S) \in Nat /\ S \in SUBSET S
    BY FS_CardinalityType
  <2> QED
    BY <1>1, <2>1
<1>2. CASE Bad # {}
  <2>1. PICK n \in Bad : n \in Nat /\ \A m \in Bad : n <= m
    <3>1. Bad \in SUBSET Nat
      OBVIOUS
    <3> HIDE DEF Bad
    <3> QED
      BY <1>2, <3>1, LeastExists
  <2>2. PICK T \in SUBSET S : T # {} /\ Cardinality(T) = n /\ Bare(T)
    BY <2>1
  <2>3. PICK t \in T : TRUE
    BY <2>2
  <2>4. IsFiniteSet(T)
    BY FS_Subset
  <2>5. IsFiniteSet(T \ {t}) /\ Cardinality(T \ {t}) = n - 1
    BY <2>2, <2>3, <2>4, FS_RemoveElement
  <2>6. n - 1 \in Nat
    BY <2>5, FS_CardinalityType
  <2>7. CASE T \ {t} = {}
    <3>1. T = {t} /\ t \in Nat
      BY <2>3, <2>7
    <3> QED
      BY <2>2, <3>1
  <2>8. CASE T \ {t} # {}
    <3>1. n - 1 \notin Bad
      <4> HIDE DEF Bad
      <4> QED
        BY <2>1, <2>6
    <3>2. ~Bare(T \ {t})
      <4>1. T \ {t} \in SUBSET S
        OBVIOUS
      <4> QED
        BY <2>5, <2>6, <2>8, <3>1, <4>1
    <3>3. PICK u \in T \ {t} : \A y \in T \ {t} : u >= y
      BY <3>2
    <3>4. t \in Nat /\ u \in Nat /\ \A y \in T : y \in Nat
      BY <2>3, <3>3
    <3>5. CASE u >= t
      <4>1. \A y \in T : u >= y
        BY <3>3, <3>5
      <4> QED
        BY <2>2, <3>3, <4>1
    <3>6. CASE ~(u >= t)
      <4>1. \A y \in T : t >= y
        BY <3>3, <3>4, <3>6
      <4> QED
        BY <2>2, <2>3, <4>1
    <3> QED
      BY <3>5, <3>6
  <2> QED
    BY <2>7, <2>8
<1> QED
  BY <1>1, <1>2
-----------------------------------------------------------------------------
LEMMA NodesStart == ASSUME Lineage!Init PROVE NodesInv
<1>1. jobs = {} /\ linked = {} /\ entity = <<>> /\ nextId = 1 /\ edges = {} /\ resolved = FALSE
  BY DEF Lineage!Init
<1>2. DOMAIN entity = {} /\ Lineage!Known = {}
  BY <1>1 DEF Lineage!Known
<1> QED
  BY <1>1, <1>2 DEF NodesInv

(* What is recorded or declared only adds to what may be one table.            *)
LEMMA NodesWiden ==
  ASSUME Lineage!LineageAssumption, NodesInv, jobs \subseteq jobs', jobs' \subseteq Jobs,
         linked \subseteq linked', \A p \in linked' : p \subseteq Lineage!Known',
         entity' = entity, nextId' = nextId, edges' = edges, resolved' = FALSE
  PROVE  NodesInv'
<1>1. Lineage!Known \subseteq Lineage!Known'
  BY DEF Lineage!Known
<1>2. Plausible \subseteq Plausible'
  BY <1>1 DEF Plausible
<1>3. \A p \in Plausible : p \subseteq Lineage!Known
  BY PlausibleAreKnown DEF NodesInv
<1>4. ASSUME NEW d \in DOMAIN entity, NEW e \in DOMAIN entity, entity[d] = entity[e]
      PROVE  e \in Together(Lineage!Known', Plausible', d)
  <2>1. d \in Lineage!Known /\ e \in Together(Lineage!Known, Plausible, d)
    BY <1>4 DEF NodesInv
  <2> QED
    BY <1>1, <1>2, <1>3, <2>1, TogetherGrows
<1> QED
  BY <1>1, <1>4 DEF NodesInv

(* Nothing a resolve reads has changed.                                        *)
LEMMA NodesStay ==
  ASSUME NodesInv, UNCHANGED <<jobs, treeOf, linked, faceted, entity, nextId, edges, columns, resolved>>
  PROVE  NodesInv'
<1>1. Lineage!Known' = Lineage!Known
  BY DEF Lineage!Known
<1>2. Plausible' = Plausible
  BY <1>1 DEF Plausible
<1>3. Lineage!Pairs' = Lineage!Pairs
  BY <1>1 DEF Lineage!Pairs, Lineage!Evidence, Lineage!CoWritten, Lineage!SameTree
<1>4. Lineage!EvidenceMerges' = Lineage!EvidenceMerges
  BY <1>3 DEF Lineage!EvidenceMerges
<1>5. Lineage!LeafChoices' = Lineage!LeafChoices
  BY <1>1 DEF Lineage!LeafChoices, Lineage!Leaves
<1>6. Lineage!FacetsSupersede' = Lineage!FacetsSupersede
  BY <1>1, <1>5 DEF Lineage!FacetsSupersede, Lineage!FromFacets, Lineage!Called, Lineage!ByLeaf
<1>7. Lineage!Entities' = Lineage!Entities
  BY DEF Lineage!Entities
<1> QED
  BY <1>1, <1>2, <1>4, <1>6, <1>7 DEF NodesInv
LEMMA ResolvedNumbers ==
  ASSUME Lineage!LineageAssumption, NodesInv, NEW d \in Lineage!Known
  PROVE  Lineage!Resolved[d] \in Nat
<1>1. PICK f \in Together(Lineage!Known, Lineage!Pairs, d) :
        /\ f \in Lineage!Known /\ f \in Nat
        /\ \/ Lineage!Resolved[d] = nextId + f
           \/ f \in DOMAIN entity /\ Lineage!Resolved[d] = entity[f]
  BY ResolvedIs
<1> QED
  BY <1>1 DEF NodesInv

LEMMA NextIsAbove ==
  ASSUME Lineage!LineageAssumption, NodesInv
  PROVE  LET next2 == Lineage!Max({nextId} \union {Lineage!Resolved[d] + 1 : d \in Lineage!Known})
         IN next2 \in Nat /\ \A d \in Lineage!Known : Lineage!Resolved[d] < next2
<1> DEFINE T == {Lineage!Resolved[d] + 1 : d \in Lineage!Known}
           f == [d \in Lineage!Known |-> Lineage!Resolved[d] + 1]
           S == {nextId} \union T
<1>1. IsFiniteSet(T)
  <2>1. f \in [Lineage!Known -> T] /\ \A t \in T : \E d \in Lineage!Known : f[d] = t
    OBVIOUS
  <2>2. f \in Surjection(Lineage!Known, T)
    <3> HIDE DEF f, T
    <3> QED
      BY <2>1 DEF Surjection
  <2>3. IsFiniteSet(Lineage!Known)
    BY KnownAre DEF NodesInv
  <2> HIDE DEF f, T
  <2> QED
    BY <2>2, <2>3, FS_Surjection
<1>2. IsFiniteSet(S)
  <2> HIDE DEF T
  <2> QED
    BY <1>1, FS_AddElement
<1>3. S \in SUBSET Nat /\ S # {}
  BY ResolvedNumbers DEF NodesInv
<1>4. \A d \in Lineage!Known : Lineage!Resolved[d] + 1 \in S /\ Lineage!Resolved[d] \in Nat
  BY ResolvedNumbers
<1> HIDE DEF S
<1>5. PICK c \in S : \A y \in S : c >= y
  BY <1>2, <1>3, GreatestOfFinite
<1>6. Lineage!Max(S) = c
  BY <1>3, <1>5, MaxIsThere
<1>7. Lineage!Max(S) \in Nat /\ \A d \in Lineage!Known : Lineage!Resolved[d] < Lineage!Max(S)
  BY <1>3, <1>4, <1>5, <1>6
<1> QED
  BY <1>7 DEF S

LEMMA NodesResolve ==
  ASSUME Lineage!LineageAssumption, NodesInv, Lineage!Resolve
  PROVE  NodesInv'
<1> DEFINE ids == Lineage!Resolved
           kept == [p \in Lineage!Surviving(DOMAIN columns, ids) |-> columns[p]]
<1>1. /\ entity' = ids
      /\ nextId' = Lineage!Max({nextId} \union {ids[d] + 1 : d \in Lineage!Known})
      /\ edges' = Lineage!Surviving(edges, ids) \union Lineage!Proper(Lineage!Shows(ids))
      /\ UNCHANGED <<jobs, treeOf, linked, faceted>>
  BY DEF Lineage!Resolve
<1>0. PICK pick \in Lineage!LeafChoices :
        columns' = Lineage!ColumnsMerged(kept, Lineage!FromFacets(ids, pick),
                                         Lineage!FromSql(ids, kept, pick))
  BY DEF Lineage!Resolve
<1>2. /\ Lineage!Known' = Lineage!Known
      /\ Lineage!Pairs' = Lineage!Pairs
  <2>1. Lineage!Known' = Lineage!Known
    BY <1>1 DEF Lineage!Known
  <2> QED
    BY <1>1, <2>1 DEF Lineage!Pairs, Lineage!Evidence, Lineage!CoWritten, Lineage!SameTree
<1>3. Plausible' = Plausible
  BY <1>1, <1>2 DEF Plausible
<1>4. DOMAIN ids = Lineage!Known
  BY DEF Lineage!Resolved
<1>5. nextId' \in Nat /\ \A d \in Lineage!Known : ids[d] \in Nat /\ ids[d] < nextId'
  BY <1>1, NextIsAbove, ResolvedNumbers
<1>6. Lineage!Entities' = {ids[d] : d \in Lineage!Known}
  BY <1>1, <1>4 DEF Lineage!Entities
<1>7. edges' \subseteq Lineage!Entities' \X Lineage!Entities'
  <2>1. ASSUME NEW p \in Lineage!Surviving(edges, ids)
        PROVE  p \in Lineage!Entities' \X Lineage!Entities'
    <3>1. p \in Nat \X Nat /\ {p[1], p[2]} \subseteq Lineage!Entities'
      BY <1>6, <2>1 DEF Lineage!Surviving, NodesInv
    <3> QED
      BY <3>1
  <2>2. ASSUME NEW p \in Lineage!Proper(Lineage!Shows(ids))
        PROVE  p \in Lineage!Entities' \X Lineage!Entities'
    <3>1. PICK r \in jobs : \E io \in Reads[r] \X Writes[r] : p = <<ids[io[1]], ids[io[2]]>>
      BY <2>2 DEF Lineage!Proper, Lineage!Shows
    <3>2. Reads[r] \subseteq Lineage!Known /\ Writes[r] \subseteq Lineage!Known
      BY DEF Lineage!Known
    <3>3. PICK d \in Lineage!Known, e \in Lineage!Known : p = <<ids[d], ids[e]>>
      BY <3>1, <3>2
    <3> QED
      BY <1>6, <3>3
  <2> QED
    BY <1>1, <2>1, <2>2
<1>8. edges' \subseteq Nat \X Nat
  BY <1>5, <1>6, <1>7
<1>9. Lineage!EvidenceMerges'
  <2>1. \A p \in Lineage!Pairs : \A d, e \in p : ids[d] = ids[e]
    BY ResolvedAsPaired
  <2> QED
    BY <1>1, <1>2, <2>1 DEF Lineage!EvidenceMerges
<1>10. Lineage!FacetsSupersede'
  <2>1. Lineage!LeafChoices' = Lineage!LeafChoices
    BY <1>1, <1>2 DEF Lineage!LeafChoices, Lineage!Leaves
  <2>2. \A p \in Lineage!FromFacets(ids, pick) : columns'[p] = "facet"
    <3> HIDE DEF kept, ids
    <3> QED
      BY <1>0 DEF Lineage!ColumnsMerged
  <2>3. \A p \in Lineage!FromFacets(entity, pick)' : columns'[p] = "facet"
    BY <1>1, <1>2, <2>2 DEF Lineage!FromFacets, Lineage!Called, Lineage!ByLeaf
  <2> QED
    BY <2>1, <2>3 DEF Lineage!FacetsSupersede
<1>11. \A d, e \in Lineage!Known : ids[d] = ids[e] => e \in Together(Lineage!Known, Plausible, d)
  BY ResolvedAsPlausible
<1> HIDE DEF ids, kept
<1> QED
  <2>1. jobs' \subseteq Jobs /\ resolved' \in BOOLEAN
    BY DEF NodesInv, Lineage!Resolve
  <2>2. \A p \in linked' : p \subseteq Lineage!Known'
    BY <1>1, <1>2 DEF NodesInv
  <2>3. DOMAIN entity' = Lineage!Known'
    BY <1>1, <1>2, <1>4
  <2>4. \A d \in DOMAIN entity' : entity'[d] \in Nat /\ entity'[d] < nextId'
    BY <1>1, <1>2, <1>5, <2>3
  <2>5. \A d, e \in DOMAIN entity' :
          entity'[d] = entity'[e] => e \in Together(Lineage!Known', Plausible', d)
    BY <1>1, <1>2, <1>3, <1>11, <2>3
  <2> QED
    BY <1>5, <1>7, <1>8, <1>9, <1>10, <2>1, <2>2, <2>3, <2>4, <2>5 DEF NodesInv

LEMMA NodesStep ==
  ASSUME Lineage!LineageAssumption, NodesInv, [Lineage!Next]_(Lineage!vars)
  PROVE  NodesInv'
<1>1. ASSUME NEW r \in Jobs, Lineage!Record(r) PROVE NodesInv'
  <2>1. jobs' = jobs \union {r} /\ resolved' = (resolved /\ r \in jobs)
        /\ UNCHANGED <<treeOf, linked, faceted, entity, nextId, edges, columns>>
    BY <1>1 DEF Lineage!Record, Lineage!graph
  <2>2. CASE r \in jobs
    <3>1. jobs' = jobs /\ resolved' = resolved
      BY <2>1, <2>2 DEF NodesInv
    <3> QED
      BY <2>1, <3>1, NodesStay
  <2>3. CASE r \notin jobs
    <3>1. resolved' = FALSE /\ jobs \subseteq jobs' /\ jobs' \subseteq Jobs
      BY <2>1, <2>3 DEF NodesInv
    <3>2. Lineage!Known \subseteq Lineage!Known'
      BY <3>1 DEF Lineage!Known
    <3>3. \A p \in linked' : p \subseteq Lineage!Known'
      BY <2>1, <3>2 DEF NodesInv
    <3> QED
      BY <2>1, <3>1, <3>3, NodesWiden
  <2> QED
    BY <2>2, <2>3
<1>2. ASSUME resolved' = FALSE, UNCHANGED <<jobs, linked, entity, nextId, edges>> PROVE NodesInv'
  <2>1. \A p \in linked' : p \subseteq Lineage!Known'
    BY <1>2 DEF NodesInv, Lineage!Known
  <2> QED
    BY <1>2, <2>1, NodesWiden DEF NodesInv
<1>3. ASSUME NEW r \in Jobs, Lineage!Reset(r) PROVE NodesInv'
  BY <1>2, <1>3 DEF Lineage!Reset, Lineage!graph
<1>4. ASSUME NEW r \in Jobs, NEW s \in Jobs, Lineage!Stitch(r, s) PROVE NodesInv'
  BY <1>2, <1>4 DEF Lineage!Stitch, Lineage!graph
<1>5. ASSUME Lineage!Declare PROVE NodesInv'
  <2>1. /\ UNCHANGED <<jobs, entity, nextId, edges>> /\ resolved' = FALSE
        /\ linked \subseteq linked' /\ \A p \in linked' \ linked : p \subseteq Lineage!Known
    BY <1>5 DEF Lineage!Declare, Lineage!graph
  <2>2. Lineage!Known' = Lineage!Known
    BY <2>1 DEF Lineage!Known
  <2>3. \A p \in linked' : p \subseteq Lineage!Known'
    BY <2>1, <2>2 DEF NodesInv
  <2> QED
    BY <2>1, <2>3, NodesWiden DEF NodesInv
<1>6. ASSUME Lineage!Replay PROVE NodesInv'
  <2>1. /\ UNCHANGED <<jobs, linked, nextId, edges>> /\ resolved' = FALSE /\ entity' = <<>>
    BY <1>6 DEF Lineage!Replay
  <2>2. Lineage!Known' = Lineage!Known /\ DOMAIN entity' = {}
    BY <2>1 DEF Lineage!Known
  <2> QED
    BY <2>1, <2>2 DEF NodesInv
<1>7. ASSUME NEW k \in Facts, Lineage!Send(k) PROVE NodesInv'
  BY <1>7, NodesStay DEF Lineage!Send, Lineage!graph
<1>8. CASE UNCHANGED Lineage!vars
  BY <1>8, NodesStay DEF Lineage!vars, Lineage!graph
<1> QED
  BY <1>1, <1>3, <1>4, <1>5, <1>6, <1>7, <1>8, NodesResolve DEF Lineage!Next

-----------------------------------------------------------------------------
LEMMA NodesAreMerged == ASSUME NodesInv PROVE Lineage!TablesNow
<1>1. ASSUME resolved, NEW d \in Lineage!Known, NEW e \in Lineage!Known, entity[d] = entity[e]
      PROVE  \E g \in Lineage!Groups(Plausible) : {d, e} \subseteq g
  <2>1. d \in Together(Lineage!Known, Plausible, d) /\ e \in Together(Lineage!Known, Plausible, d)
    BY <1>1, InOwnGroup DEF NodesInv
  <2>2. Together(Lineage!Known, Plausible, d) \in Lineage!Groups(Plausible)
    BY GroupIsTogether DEF Lineage!Groups
  <2> QED
    BY <2>1, <2>2
<1>2. Lineage!MergedOnEvidence
  BY <1>1 DEF Lineage!MergedOnEvidence, Plausible
<1>3. Lineage!EvidenceMerges /\ Lineage!FacetsSupersede
  <2>1. CASE resolved
    BY <2>1 DEF NodesInv
  <2>2. CASE ~resolved
    BY <2>2 DEF Lineage!EvidenceMerges, Lineage!FacetsSupersede
  <2> QED
    BY <2>1, <2>2
<1> QED
  BY <1>2, <1>3 DEF Lineage!TablesNow

LEMMA NodesSurvive ==
  ASSUME Lineage!LineageAssumption, NodesInv, [Lineage!Next]_(Lineage!vars)
  PROVE  Lineage!NodeSurvives
<1> SUFFICES ASSUME resolved', ~resolved, NEW d \in DOMAIN entity,
                    \A g \in Lineage!Groups(Lineage!Pairs) : d \in g =>
                      \A e \in g \intersect DOMAIN entity : entity[e] = entity[d]
             PROVE  entity'[d] = entity[d]
  BY DEF Lineage!NodeSurvives
<1>1. CASE Lineage!Resolve
  <2> DEFINE g == Together(Lineage!Known, Lineage!Pairs, d)
  <2>1. d \in Lineage!Known /\ entity' = Lineage!Resolved
    BY <1>1 DEF NodesInv, Lineage!Resolve
  <2>2. d \in g /\ g \in Lineage!Groups(Lineage!Pairs)
    BY <2>1, InOwnGroup, GroupIsTogether DEF Lineage!Groups
  <2>3. d \in g \intersect DOMAIN entity
    BY <2>2
  <2>4. PICK f \in g : f \in DOMAIN entity /\ Lineage!Resolved[d] = entity[f]
    BY <2>1, <2>3, ResolvedIs
  <2> HIDE DEF g
  <2> QED
    BY <2>1, <2>2, <2>4
<1>2. CASE ~Lineage!Resolve
  BY <1>2 DEF Lineage!Next, Lineage!Record, Lineage!Reset, Lineage!Stitch, Lineage!Declare,
              Lineage!Replay, Lineage!Send, Lineage!vars
<1> QED
  BY <1>1, <1>2

LEMMA WalksAreNearest ==
  ASSUME Lineage!LineageAssumption, NodesInv PROVE Lineage!NearestFirst
<1> DEFINE N == Lineage!Entities
<1> SUFFICES ASSUME resolved, NEW x \in N
             PROVE  LET found == Lineage!Upstream(x)
                        within(n) == {w[1] : w \in {v \in found : v[2] <= n}}
                    IN /\ Lineage!Cardinality({w[1] : w \in found}) = Lineage!Cardinality(found)
                       /\ \A n \in 1..Depth : within(n) = Lineage!Feeders({x} \union within(n - 1))
                       /\ \A y \in N, n \in 1..Depth :
                            <<y, n>> \in found <=> <<x, n>> \in Lineage!Downstream(y)
  BY DEF Lineage!NearestFirst
<1>1. edges \in SUBSET (N \X N) /\ Depth \in Nat /\ Flipped(edges) \in SUBSET (N \X N)
  <2>1. edges \in SUBSET (N \X N)
    BY DEF NodesInv
  <2> QED
    BY <2>1, FlippedHas DEF Lineage!LineageAssumption
<1>2. IsFiniteSet(N)
  <2> DEFINE f == [d \in DOMAIN entity |-> entity[d]]
  <2>1. f \in [DOMAIN entity -> N] /\ \A t \in N : \E d \in DOMAIN entity : f[d] = t
    BY DEF Lineage!Entities
  <2>2. f \in Surjection(DOMAIN entity, N)
    <3> HIDE DEF f, N
    <3> QED
      BY <2>1 DEF Surjection
  <2>3. IsFiniteSet(DOMAIN entity)
    BY KnownAre, FS_Subset DEF NodesInv
  <2> HIDE DEF f, N
  <2> QED
    BY <2>2, <2>3, FS_Surjection
<1> HIDE DEF N
<1>3. Lineage!Upstream(x) = Found(N, Flipped(edges), x)
  BY <1>1, NearestAre DEF Lineage!Upstream, Flipped, Found
<1>4. ASSUME NEW y \in N PROVE Lineage!Downstream(y) = Found(N, edges, y)
  BY <1>1, NearestAre DEF Lineage!Downstream, Found
<1>5. \A ys : Lineage!Feeders(ys) = Before(edges, ys)
  BY DEF Lineage!Feeders, Before
<1> DEFINE found == Found(N, Flipped(edges), x)
<1>6. Lineage!Cardinality({w[1] : w \in found}) = Lineage!Cardinality(found)
  BY <1>1, <1>2, FoundOnce, SameSizes
<1>7. ASSUME NEW n \in 1..Depth
      PROVE  Within(found, n) = Lineage!Feeders({x} \union Within(found, n - 1))
  <2>1. Within(Found(N, Flipped(edges), x), n)
          = Before(edges, {x} \union Within(Found(N, Flipped(edges), x), n - 1))
    BY <1>1, WithinGrows
  <2> HIDE DEF found
  <2>2. Within(found, n) = Before(edges, {x} \union Within(found, n - 1))
    BY <2>1 DEF found
  <2> QED
    BY <1>5, <2>2
<1>8. ASSUME NEW y \in N, NEW n \in 1..Depth
      PROVE  <<y, n>> \in found <=> <<x, n>> \in Lineage!Downstream(y)
  <2>1. LeastAt(N, Flipped(edges), x, y, n) <=> LeastAt(N, edges, y, x, n)
    BY <1>1, LeastBothWays
  <2>2. <<y, n>> \in found <=> LeastAt(N, Flipped(edges), x, y, n)
    BY DEF Found
  <2>3. <<x, n>> \in Found(N, edges, y) <=> LeastAt(N, edges, y, x, n)
    BY DEF Found
  <2> QED
    BY <1>4, <2>1, <2>2, <2>3
<1> HIDE DEF found
<1>9. Lineage!Upstream(x) = found
  BY <1>3 DEF found
<1> QED
  BY <1>6, <1>7, <1>8, <1>9 DEF Within

HIDE DEF jobs, treeOf, linked, faceted, entity, nextId, edges, columns, resolved

LineagePart == part = "lineage" => NodesInv

LEMMA LineagePartHolds == Spec => []LineagePart
<1>1. Init => LineagePart
  BY NodesStart DEF Init, LineagePart
<1>2. LineagePart /\ [Next]_all => LineagePart'
  <2>1. CASE UNCHANGED all
    <3>1. UNCHANGED <<part, Lineage!vars>>
      BY <2>1 DEF all, slots, Lineage!vars, Lineage!graph
    <3> QED
      BY <3>1, NodesStep, RecordsAssumption DEF LineagePart
  <2>2. CASE Next
    <3>1. part' = part /\ (part = "lineage" => Lineage!Next)
      BY <2>2 DEF Next
    <3> QED
      BY <3>1, NodesStep, RecordsAssumption DEF LineagePart
  <2> QED
    BY <2>1, <2>2
<1> QED
  BY <1>1, <1>2, PTL DEF Spec

THEOREM RecordsNearestFirst == Spec => []NearestFirst
<1>1. LineagePart => NearestFirst
  BY WalksAreNearest, RecordsAssumption DEF LineagePart, NearestFirst
<1> QED
  BY <1>1, LineagePartHolds, PTL

THEOREM RecordsNodesAreTables == Spec => NodesAreTables
<1>1. LineagePart => (part = "lineage" => Lineage!TablesNow)
  BY NodesAreMerged DEF LineagePart
<1>2. LineagePart /\ [Next]_all => [part = "lineage" => Lineage!NodeSurvives]_all
  <2> SUFFICES ASSUME LineagePart, Next, part = "lineage" PROVE Lineage!NodeSurvives
    OBVIOUS
  <2>1. Lineage!Next
    BY DEF Next
  <2> QED
    BY <2>1, NodesSurvive, RecordsAssumption DEF LineagePart
<1> QED
  BY <1>1, <1>2, LineagePartHolds, PTL DEF Spec, NodesAreTables

-----------------------------------------------------------------------------
(***************************************************************************)
(* Sums.  A sum over a finite set is a recursive function that takes its    *)
(* elements in an order of its own.  It is as many units as there are, less *)
(* those owed (Tally), which satisfies the recursion whatever the order; so *)
(* that is what it is, and what follows is proved of tallies.               *)
(***************************************************************************)
Units(F, S) == {p \in S \X Nat : 1 <= p[2] /\ p[2] <= F[p[1]]}
Owed(F, S) == {p \in S \X Nat : 1 <= p[2] /\ p[2] <= -F[p[1]]}
Tally(F, S) == Cardinality(Units(F, S)) - Cardinality(Owed(F, S))

\* What Functions!SumFunction iterates.
Adds(F, D, f) ==
  f = [s \in SUBSET D |-> IF s = {} THEN 0
                          ELSE F[CHOOSE x \in s : TRUE] + f[s \ {CHOOSE x \in s : TRUE}]]

LEMMA SpreadAdds ==
  ASSUME NEW F PROVE Cost!Spread(F) = (CHOOSE f : Adds(F, DOMAIN F, f))[DOMAIN F]
  BY DEF Cost!Spread, Cost!SumFunction, Cost!SumFunctionOnSet, Cost!FoldFunctionOnSet,
         Cost!MapThenFoldSet, Adds

(* Induction on a finite set, for a set of its subsets.                       *)
LEMMA EveryElement ==
  ASSUME NEW D, IsFiniteSet(D), NEW Good \in SUBSET (SUBSET D), {} \in Good,
         \A S \in Good, x \in D : x \notin S => S \union {x} \in Good
  PROVE  D \in Good
<1> DEFINE missed == {Cardinality(D \ S) : S \in Good}
<1>1. \A S \in SUBSET D : IsFiniteSet(D \ S) /\ Cardinality(D \ S) \in Nat
  <2>1. ASSUME NEW S \in SUBSET D PROVE IsFiniteSet(D \ S)
    BY FS_Subset
  <2> QED
    BY <2>1, FS_CardinalityType
<1>2. missed \in SUBSET Nat /\ missed # {}
  BY <1>1
<1>3. PICK n \in missed : \A m \in missed : n <= m
  <2> HIDE DEF missed
  <2> QED
    BY <1>2, LeastExists
<1>4. PICK S \in Good : n = Cardinality(D \ S)
  BY <1>3
<1>5. ASSUME NEW x \in D, x \notin S PROVE FALSE
  <2>1. S \union {x} \in Good /\ D \ (S \union {x}) = (D \ S) \ {x} /\ x \in D \ S
    BY <1>5
  <2>2. Cardinality((D \ S) \ {x}) = Cardinality(D \ S) - 1
    <3>1. IsFiniteSet(D \ S)
      BY <1>1
    <3> QED
      BY <2>1, <3>1, FS_RemoveElement
  <2>3. Cardinality((D \ S) \ {x}) \in missed /\ Cardinality(D \ S) \in Nat
    BY <1>1, <2>1
  <2>4. n <= Cardinality(D \ S) - 1 /\ n = Cardinality(D \ S)
    BY <1>3, <1>4, <2>2, <2>3
  <2> QED
    BY <2>3, <2>4
<1>6. S = D
  BY <1>5
<1> QED
  BY <1>4, <1>6

LEMMA UnitsOfOne ==
  ASSUME NEW F, NEW x, F[x] \in Int
  PROVE  /\ IsFiniteSet(Units(F, {x}))
         /\ Cardinality(Units(F, {x})) = IF F[x] > 0 THEN F[x] ELSE 0
<1> DEFINE n == F[x]
<1>1. Units(F, {x}) = {x} \X (1..n)
  BY DEF Units
<1>2. IsFiniteSet(1..n) /\ Cardinality(1..n) = IF n > 0 THEN n ELSE 0
  <2>1. IsFiniteSet(1..n) /\ Cardinality(1..n) = IF 1 > n THEN 0 ELSE n - 1 + 1
    BY FS_Interval
  <2> HIDE DEF n
  <2>2. n \in Int
    BY DEF n
  <2> QED
    BY <2>1, <2>2
<1>3. IsFiniteSet({x}) /\ Cardinality({x}) = 1
  BY FS_Singleton
<1> HIDE DEF n
<1>4. IsFiniteSet({x} \X (1..n)) /\ Cardinality({x} \X (1..n)) = 1 * Cardinality(1..n)
  BY <1>2, <1>3, FS_Product
<1>5. Cardinality(1..n) \in Nat
  BY <1>2, FS_CardinalityType
<1>6. Cardinality({x} \X (1..n)) = Cardinality(1..n)
  BY <1>4, <1>5
<1>7. Cardinality(Units(F, {x})) = IF n > 0 THEN n ELSE 0
  BY <1>1, <1>2, <1>6
<1> QED
  BY <1>1, <1>4, <1>7 DEF n

LEMMA UnitsOfMore ==
  ASSUME NEW F, NEW S, NEW x, x \notin S, F[x] \in Int, IsFiniteSet(Units(F, S))
  PROVE  /\ IsFiniteSet(Units(F, S \union {x}))
         /\ Cardinality(Units(F, S \union {x}))
              = Cardinality(Units(F, S)) + IF F[x] > 0 THEN F[x] ELSE 0
<1>1. Units(F, S \union {x}) = Units(F, S) \union Units(F, {x})
  BY DEF Units
<1>2. Units(F, S) \intersect Units(F, {x}) = {}
  BY DEF Units
<1>3. /\ IsFiniteSet(Units(F, {x}))
      /\ Cardinality(Units(F, {x})) = IF F[x] > 0 THEN F[x] ELSE 0
  BY UnitsOfOne
<1>4. /\ IsFiniteSet(Units(F, S) \union Units(F, {x}))
      /\ Cardinality(Units(F, S) \union Units(F, {x}))
           = Cardinality(Units(F, S)) + Cardinality(Units(F, {x}))
             - Cardinality(Units(F, S) \intersect Units(F, {x}))
  BY <1>3, FS_Union
<1>5. Cardinality(Units(F, S) \intersect Units(F, {x})) = 0
  BY <1>2, FS_EmptySet
<1>6. Cardinality(Units(F, S)) \in Nat /\ Cardinality(Units(F, {x})) \in Nat
  BY <1>3, FS_CardinalityType
<1>7. Cardinality(Units(F, S \union {x}))
        = Cardinality(Units(F, S)) + Cardinality(Units(F, {x}))
  <2> DEFINE here == Cardinality(Units(F, S))
             one == Cardinality(Units(F, {x}))
             both == Cardinality(Units(F, S) \union Units(F, {x}))
  <2>1. here \in Nat /\ one \in Nat /\ both = here + one - 0
    BY <1>4, <1>5, <1>6
  <2>2. Cardinality(Units(F, S \union {x})) = both
    BY <1>1
  <2> HIDE DEF here, one, both
  <2>3. both = here + one
    BY <2>1
  <2> QED
    BY <2>2, <2>3 DEF here, one
<1> QED
  BY <1>1, <1>3, <1>4, <1>7

Summable(F, S) == IsFiniteSet(S) /\ \A x \in S : F[x] \in Int

LEMMA UnitsAreFinite == ASSUME NEW F, NEW D, Summable(F, D) PROVE IsFiniteSet(Units(F, D))
<1> DEFINE Good == {S \in SUBSET D : IsFiniteSet(Units(F, S))}
<1>1. {} \in Good
  <2>1. Units(F, {}) = {}
    BY DEF Units
  <2> QED
    BY <2>1, FS_EmptySet
<1>2. ASSUME NEW S \in Good, NEW x \in D, x \notin S PROVE S \union {x} \in Good
  BY <1>2, UnitsOfMore DEF Summable
<1>3. Good \in SUBSET (SUBSET D) /\ IsFiniteSet(D)
  BY DEF Summable
<1>4. D \in Good
  <2> HIDE DEF Good
  <2> QED
    BY <1>1, <1>2, <1>3, EveryElement
<1> QED
  BY <1>4

LEMMA OwedAreUnits ==
  ASSUME NEW F, NEW S PROVE Owed(F, S) = Units([x \in S |-> -F[x]], S)
  BY DEF Owed, Units

(* A tally grows by what is added; what is owed are units of the negation.    *)
LEMMA TallyMore ==
  ASSUME NEW F, NEW S, Summable(F, S), NEW x, x \notin S, F[x] \in Int
  PROVE  Tally(F, S \union {x}) = F[x] + Tally(F, S) /\ Tally(F, S) \in Int
<1> DEFINE T == S \union {x}
           G == [y \in T |-> -F[y]]
<1>1. \A R \in SUBSET T : Owed(F, R) = Units(G, R)
  BY DEF Owed, Units
<1>2. Summable(G, S) /\ G[x] = -F[x] /\ G[x] \in Int
  BY DEF Summable
<1>3. Owed(F, T) = Units(G, T) /\ Owed(F, S) = Units(G, S)
  BY <1>1
<1> HIDE DEF G
<1>4. IsFiniteSet(Units(F, S)) /\ IsFiniteSet(Units(G, S))
  BY <1>2, UnitsAreFinite
<1>5. Cardinality(Units(F, T)) = Cardinality(Units(F, S)) + IF F[x] > 0 THEN F[x] ELSE 0
  BY <1>4, UnitsOfMore
<1>6. Cardinality(Units(G, T)) = Cardinality(Units(G, S)) + IF G[x] > 0 THEN G[x] ELSE 0
  BY <1>2, <1>4, UnitsOfMore
<1>7. Cardinality(Units(F, S)) \in Nat /\ Cardinality(Units(G, S)) \in Nat
  BY <1>4, FS_CardinalityType
<1>8. /\ Tally(F, T) = Cardinality(Units(F, T)) - Cardinality(Units(G, T))
      /\ Tally(F, S) = Cardinality(Units(F, S)) - Cardinality(Units(G, S))
  BY <1>3 DEF Tally
<1> HIDE DEF T
<1>9. Tally(F, T) = F[x] + Tally(F, S) /\ Tally(F, S) \in Int
  BY <1>2, <1>5, <1>6, <1>7, <1>8
<1> QED
  BY <1>9 DEF T

LEMMA TallyOfNone ==
  ASSUME NEW F, NEW S, \A x \in S : F[x] = 0 PROVE Tally(F, S) = 0
<1>1. Units(F, S) = {} /\ Owed(F, S) = {}
  BY DEF Units, Owed
<1> QED
  BY <1>1, FS_EmptySet DEF Tally

LEMMA TallyIsInt == ASSUME NEW F, NEW S, Summable(F, S) PROVE Tally(F, S) \in Int
<1>1. Summable([x \in S |-> -F[x]], S)
  BY DEF Summable
<1>2. IsFiniteSet(Units(F, S)) /\ IsFiniteSet(Owed(F, S))
  BY <1>1, UnitsAreFinite, OwedAreUnits
<1>3. Cardinality(Units(F, S)) \in Nat /\ Cardinality(Owed(F, S)) \in Nat
  BY <1>2, FS_CardinalityType
<1> QED
  BY <1>3 DEF Tally

(* Only what is added up matters, and what adds nothing need not be.          *)
LEMMA TallyOfSame ==
  ASSUME NEW F, NEW G, NEW S, \A x \in S : F[x] = G[x] PROVE Tally(F, S) = Tally(G, S)
<1>1. Units(F, S) = Units(G, S) /\ Owed(F, S) = Owed(G, S)
  BY DEF Units, Owed
<1> QED
  BY <1>1 DEF Tally

LEMMA TallyWithin ==
  ASSUME NEW F, NEW S, NEW T, S \subseteq T, \A x \in T \ S : F[x] = 0
  PROVE  Tally(F, T) = Tally(F, S)
<1>1. Units(F, T) = Units(F, S) /\ Owed(F, T) = Owed(F, S)
  BY DEF Units, Owed
<1> QED
  BY <1>1 DEF Tally

LEMMA TallyAdds ==
  ASSUME NEW F, NEW D, Summable(F, D) PROVE \E f : Adds(F, D, f)
<1> DEFINE f == [s \in SUBSET D |-> Tally(F, s)]
           g == [s \in SUBSET D |-> IF s = {} THEN 0
                   ELSE F[CHOOSE x \in s : TRUE] + f[s \ {CHOOSE x \in s : TRUE}]]
<1>1. ASSUME NEW s \in SUBSET D, s # {}
      PROVE  f[s] = F[CHOOSE x \in s : TRUE] + f[s \ {CHOOSE x \in s : TRUE}]
  <2> DEFINE x == CHOOSE y \in s : TRUE
             rest == s \ {x}
  <2>1. x \in s
    BY <1>1
  <2>2. s = rest \union {x} /\ x \notin rest /\ rest \in SUBSET D
    BY <2>1
  <2>3. Summable(F, rest) /\ F[x] \in Int
    <3>1. IsFiniteSet(rest)
      BY <2>2, FS_Subset DEF Summable
    <3> QED
      BY <2>1, <2>2, <3>1 DEF Summable
  <2> HIDE DEF x, rest
  <2>4. Tally(F, s) = F[x] + Tally(F, rest)
    BY <2>2, <2>3, TallyMore
  <2>5. f[s] = Tally(F, s) /\ f[rest] = Tally(F, rest)
    BY <2>2
  <2> QED
    BY <2>4, <2>5 DEF x, rest
<1>2. f[{}] = 0
  <2>1. f[{}] = Tally(F, {})
    OBVIOUS
  <2> QED
    BY <2>1, TallyOfNone
<1>3. \A s \in SUBSET D : f[s] = g[s]
  <2> HIDE DEF f
  <2> QED
    BY <1>1, <1>2
<1>4. f = g
  <2>1. f = [s \in SUBSET D |-> f[s]] /\ g = [s \in SUBSET D |-> g[s]]
    OBVIOUS
  <2> HIDE DEF f, g
  <2> QED
    BY <1>3, <2>1
<1>5. Adds(F, D, f)
  <2> HIDE DEF f
  <2> QED
    BY <1>4 DEF Adds
<1> HIDE DEF f
<1> QED
  BY <1>5

LEMMA AddsTallies ==
  ASSUME NEW F, NEW D, Summable(F, D), NEW f, Adds(F, D, f)
  PROVE  f[D] = Tally(F, D)
<1> DEFINE wrong == {s \in SUBSET D : f[s] # Tally(F, s)}
           sizes == {Cardinality(s) : s \in wrong}
<1>1. ASSUME NEW s \in SUBSET D PROVE IsFiniteSet(s) /\ Cardinality(s) \in Nat
  <2>1. IsFiniteSet(s)
    BY FS_Subset DEF Summable
  <2> QED
    BY <2>1, FS_CardinalityType
<1>2. CASE wrong = {}
  BY <1>2
<1>3. ASSUME wrong # {} PROVE FALSE
  <2>1. sizes \in SUBSET Nat /\ sizes # {}
    BY <1>1, <1>3
  <2>2. PICK n \in sizes : \A m \in sizes : n <= m
    <3> HIDE DEF sizes
    <3> QED
      BY <2>1, LeastExists
  <2>3. PICK s \in wrong : n = Cardinality(s)
    BY <2>2
  <2>4. s # {}
    <3>1. f[{}] = 0
      BY DEF Adds
    <3>2. Tally(F, {}) = 0
      BY TallyOfNone
    <3> QED
      BY <2>3, <3>1, <3>2
  <2> DEFINE x == CHOOSE y \in s : TRUE
             rest == s \ {x}
  <2>5. x \in s
    BY <2>4
  <2>6. f[s] = F[x] + f[rest]
    BY <2>3, <2>4 DEF Adds
  <2>7. s = rest \union {x} /\ x \notin rest /\ rest \in SUBSET D
    BY <2>3, <2>5
  <2> HIDE DEF x
  <2>8. Cardinality(rest) = Cardinality(s) - 1
    <3>1. IsFiniteSet(s)
      BY <1>1, <2>3
    <3> QED
      BY <2>5, <3>1, FS_RemoveElement
  <2> HIDE DEF rest
  <2>9. Summable(F, rest) /\ F[x] \in Int
    BY <1>1, <2>3, <2>5, <2>7 DEF Summable
  <2>10. Tally(F, s) = F[x] + Tally(F, rest)
    BY <2>7, <2>9, TallyMore
  <2>11. rest \in wrong
    BY <2>3, <2>6, <2>7, <2>10
  <2>12. n <= Cardinality(s) - 1 /\ n \in Nat /\ n = Cardinality(s)
    BY <2>1, <2>2, <2>3, <2>8, <2>11
  <2> QED
    BY <2>12
<1> QED
  BY <1>2, <1>3

LEMMA SpreadIsTally ==
  ASSUME NEW F, Summable(F, DOMAIN F) PROVE Cost!Spread(F) = Tally(F, DOMAIN F)
<1>1. Adds(F, DOMAIN F, CHOOSE f : Adds(F, DOMAIN F, f))
  BY TallyAdds
<1> QED
  BY <1>1, AddsTallies, SpreadAdds

LEMMA TallyPlus ==
  ASSUME NEW F, NEW G, NEW D, Summable(F, D), Summable(G, D)
  PROVE  Tally([x \in D |-> F[x] + G[x]], D) = Tally(F, D) + Tally(G, D)
<1> DEFINE H == [x \in D |-> F[x] + G[x]]
           Good == {S \in SUBSET D : Tally(H, S) = Tally(F, S) + Tally(G, S)}
<1>1. {} \in Good
  <2>1. Tally(H, {}) = 0 /\ Tally(F, {}) = 0 /\ Tally(G, {}) = 0
    BY TallyOfNone
  <2> QED
    BY <2>1
<1>2. ASSUME NEW S \in Good, NEW x \in D, x \notin S PROVE S \union {x} \in Good
  <2>1. IsFiniteSet(S)
    BY FS_Subset DEF Summable
  <2>2. /\ Summable(F, S) /\ Summable(G, S) /\ Summable(H, S)
        /\ F[x] \in Int /\ G[x] \in Int /\ H[x] = F[x] + G[x] /\ H[x] \in Int
    BY <2>1 DEF Summable
  <2>3. Tally(H, S) = Tally(F, S) + Tally(G, S)
    OBVIOUS
  <2> HIDE DEF H
  <2>4. /\ Tally(F, S \union {x}) = F[x] + Tally(F, S) /\ Tally(F, S) \in Int
        /\ Tally(G, S \union {x}) = G[x] + Tally(G, S) /\ Tally(G, S) \in Int
        /\ Tally(H, S \union {x}) = H[x] + Tally(H, S)
    BY <1>2, <2>2, TallyMore
  <2>5. Tally(H, S \union {x}) = Tally(F, S \union {x}) + Tally(G, S \union {x})
    BY <2>2, <2>3, <2>4
  <2> QED
    BY <2>5
<1>3. Good \in SUBSET (SUBSET D) /\ IsFiniteSet(D)
  BY DEF Summable
<1>4. D \in Good
  <2> HIDE DEF Good
  <2> QED
    BY <1>1, <1>2, <1>3, EveryElement
<1> QED
  BY <1>4

LEMMA TallyTimes ==
  ASSUME NEW F, NEW D, Summable(F, D), NEW c \in Int
  PROVE  Tally([x \in D |-> c * F[x]], D) = c * Tally(F, D)
<1> DEFINE H == [x \in D |-> c * F[x]]
           Good == {S \in SUBSET D : Tally(H, S) = c * Tally(F, S)}
<1>1. {} \in Good
  <2>1. Tally(H, {}) = 0 /\ Tally(F, {}) = 0
    BY TallyOfNone
  <2> QED
    BY <2>1
<1>2. ASSUME NEW S \in Good, NEW x \in D, x \notin S PROVE S \union {x} \in Good
  <2>1. IsFiniteSet(S)
    BY FS_Subset DEF Summable
  <2>2. /\ Summable(F, S) /\ Summable(H, S)
        /\ F[x] \in Int /\ H[x] = c * F[x] /\ H[x] \in Int
    BY <2>1 DEF Summable
  <2>3. Tally(H, S) = c * Tally(F, S)
    OBVIOUS
  <2> HIDE DEF H
  <2>4. /\ Tally(F, S \union {x}) = F[x] + Tally(F, S) /\ Tally(F, S) \in Int
        /\ Tally(H, S \union {x}) = H[x] + Tally(H, S)
    BY <1>2, <2>2, TallyMore
  <2>5. \A p, q \in Int : c * p + c * q = c * (p + q)
    OBVIOUS
  <2>6. Tally(H, S \union {x}) = c * Tally(F, S \union {x})
    BY <2>2, <2>3, <2>4, <2>5
  <2> QED
    BY <2>6
<1>3. Good \in SUBSET (SUBSET D) /\ IsFiniteSet(D)
  BY DEF Summable
<1>4. D \in Good
  <2> HIDE DEF Good
  <2> QED
    BY <1>1, <1>2, <1>3, EveryElement
<1> QED
  BY <1>4

LEMMA TallyOfSome ==
  ASSUME NEW F, NEW S, Summable(F, S), \A x \in S : F[x] >= 0
  PROVE  Tally(F, S) \in Nat /\ (Tally(F, S) = 0 <=> \A x \in S : F[x] = 0)
<1>1. ASSUME NEW R \in SUBSET S PROVE Tally(F, R) \in Nat
  <2>1. Owed(F, R) = {}
    BY DEF Owed, Summable
  <2>2. IsFiniteSet(Units(F, R))
    <3>1. IsFiniteSet(R)
      BY FS_Subset DEF Summable
    <3> QED
      BY <3>1, UnitsAreFinite DEF Summable
  <2>3. Cardinality(Units(F, R)) \in Nat
    BY <2>2, FS_CardinalityType
  <2> QED
    BY <2>1, <2>3, FS_EmptySet DEF Tally
<1>2. ASSUME NEW x \in S, F[x] # 0 PROVE Tally(F, S) # 0
  <2> DEFINE rest == S \ {x}
  <2>1. S = rest \union {x} /\ x \notin rest /\ rest \in SUBSET S
    OBVIOUS
  <2>2. Summable(F, rest)
    <3>1. IsFiniteSet(rest)
      BY FS_Subset DEF Summable
    <3> QED
      BY <3>1 DEF Summable
  <2> HIDE DEF rest
  <2>3. Tally(F, S) = F[x] + Tally(F, rest)
    BY <2>1, <2>2, TallyMore DEF Summable
  <2>4. Tally(F, rest) \in Nat /\ F[x] \in Int /\ F[x] > 0
    BY <1>1, <1>2, <2>1 DEF Summable
  <2> QED
    BY <2>3, <2>4
<1> QED
  BY <1>1, <1>2, TallyOfNone

(* By rows and by columns.                                                    *)
LEMMA TallySwap ==
  ASSUME NEW A, IsFiniteSet(A), NEW R, IsFiniteSet(R),
         NEW M, \A a \in A, r \in R : M[a][r] \in Int
  PROVE  Tally([a \in A |-> Tally(M[a], R)], A)
           = Tally([r \in R |-> Tally([a \in A |-> M[a][r]], A)], R)
<1> DEFINE rows == [a \in A |-> Tally(M[a], R)]
           down(r) == [a \in A |-> M[a][r]]
           across(S) == [r \in R |-> Tally(down(r), S)]
           Good == {S \in SUBSET A : Tally(rows, S) = Tally(across(S), R)}
<1>1. {} \in Good
  <2>1. Tally(rows, {}) = 0
    BY TallyOfNone
  <2>2. \A r \in R : Tally(down(r), {}) = 0
    BY TallyOfNone
  <2>3. \A r \in R : across({})[r] = 0
    BY <2>2
  <2> HIDE DEF across, rows
  <2>4. Tally(across({}), R) = 0
    BY <2>3, TallyOfNone
  <2> QED
    BY <2>1, <2>4
<1>2. ASSUME NEW S \in Good, NEW a \in A, a \notin S PROVE S \union {a} \in Good
  <2>1. IsFiniteSet(S) /\ S \in SUBSET A
    BY FS_Subset
  <2>2. Summable(M[a], R) /\ \A b \in A : Tally(M[b], R) \in Int
    <3>1. \A b \in A : Summable(M[b], R)
      BY DEF Summable
    <3> QED
      BY <3>1, TallyIsInt
  <2>3. Summable(rows, S) /\ rows[a] = Tally(M[a], R) /\ rows[a] \in Int
    BY <2>1, <2>2 DEF Summable
  <2>4. Tally(rows, S \union {a}) = Tally(M[a], R) + Tally(rows, S)
    <3> HIDE DEF rows
    <3> QED
      BY <1>2, <2>3, TallyMore
  <2>5. \A r \in R : /\ Summable(down(r), S) /\ down(r)[a] = M[a][r]
                     /\ down(r)[a] \in Int
    BY <2>1 DEF Summable
  <2>6. ASSUME NEW r \in R
        PROVE  /\ Tally(down(r), S \union {a}) = M[a][r] + Tally(down(r), S)
               /\ Tally(down(r), S) \in Int
    <3> DEFINE f == down(r)
    <3>1. Summable(f, S) /\ f[a] = M[a][r] /\ f[a] \in Int
      BY <2>5
    <3> HIDE DEF f
    <3>2. Tally(f, S \union {a}) = f[a] + Tally(f, S) /\ Tally(f, S) \in Int
      BY <1>2, <3>1, TallyMore
    <3> QED
      BY <3>1, <3>2 DEF f
  <2>7. Summable(across(S), R)
    BY <2>6 DEF Summable
  <2> DEFINE sums == [r \in R |-> M[a][r] + across(S)[r]]
  <2>8. Tally(sums, R) = Tally(M[a], R) + Tally(across(S), R)
    <3> HIDE DEF across
    <3> QED
      BY <2>2, <2>7, TallyPlus
  <2>9. \A r \in R : sums[r] = across(S \union {a})[r]
    BY <2>6
  <2>10. Tally(sums, R) = Tally(across(S \union {a}), R)
    <3> DEFINE more == across(S \union {a})
    <3>1. \A r \in R : sums[r] = more[r]
      BY <2>9
    <3> HIDE DEF sums, more
    <3>2. Tally(sums, R) = Tally(more, R)
      BY <3>1, TallyOfSame
    <3> QED
      BY <3>2 DEF more
  <2>11. Tally(rows, S) = Tally(across(S), R)
    OBVIOUS
  <2> HIDE DEF rows, across, sums
  <2>12. Tally(rows, S \union {a}) = Tally(across(S \union {a}), R)
    BY <2>4, <2>8, <2>10, <2>11
  <2> QED
    BY <2>12
<1>3. Good \in SUBSET (SUBSET A)
  OBVIOUS
<1>4. A \in Good
  <2> HIDE DEF Good
  <2> QED
    BY <1>1, <1>2, <1>3, EveryElement
<1> QED
  BY <1>4

-----------------------------------------------------------------------------
(***************************************************************************)
(* Cost: three divisions of a bill.                                        *)
(*                                                                         *)
(* What is stored is what the report said last of each row, and what is    *)
(* attributed is the shares of that, for as long as nothing changed since.  *)
(* A row is divided by what its cluster's applications held in its hour, so *)
(* its shares add up to it; summed by application instead of by row, they   *)
(* add up to the hours in which anything was held.  Whatever is divided     *)
(* once more by models divides exactly, since each share did; what has no     *)
(* run is left out whole.                                                    *)
(***************************************************************************)
metClusters == v1
readLogs == v2
endedModels == v3
report == v4
billed == v6
charged == v7
withRun == v9
sinceChange == v10
USE DEF metClusters, readLogs, endedModels, report, billed, charged, withRun, sinceChange

LEMMA DivIs ==
  ASSUME NEW k \in Int, NEW d \in Nat \ {0} PROVE (d * k) \div d = k /\ (d * k) % d = 0
  OBVIOUS

LEMMA DivExact ==
  ASSUME NEW n \in Int, NEW d \in Nat \ {0}, n % d = 0
  PROVE  (n \div d) \in Int /\ n = d * (n \div d)
  OBVIOUS

Logs(S) == S = [a \in DOMAIN S |-> S[a]] /\ DOMAIN S \in SUBSET Apps
LinesOf(in) == DOMAIN in \in SUBSET Rows /\ \A r \in DOMAIN in : in[r].cost \in Amounts
Divisible(cost, a) == cost \in Int /\ \A work \in Cost!DoneTogether(a) : cost % work = 0

CostInv ==
  /\ Logs(readLogs) /\ endedModels \in SUBSET Models
  /\ DOMAIN report \in SUBSET Rows /\ report \in [DOMAIN report -> Amounts]
  /\ LinesOf(billed) /\ DOMAIN billed \subseteq DOMAIN report
  /\ DOMAIN charged \in SUBSET Apps /\ \A a \in DOMAIN charged : Divisible(charged[a], a)
  /\ "imported" \in sinceChange => [r \in DOMAIN billed |-> billed[r].cost] = report
  /\ "attributed" \in sinceChange => charged = Cost!Attributed(billed)

-----------------------------------------------------------------------------
LEMMA HeldIs ==
  ASSUME Cost!CostAssumption, NEW r \in Rows, NEW a \in Apps
  PROVE  /\ Cost!Held(r, a) \in Nat
         /\ Cost!Held(r, a) > 0 <=> Cost!Overlap(r, a) > 0 /\ CoreSeconds[a] > 0
<1> DEFINE n == CoreSeconds[a]
           m == Cost!Overlap(r, a)
           d == SpanOf[a][2] - SpanOf[a][1]
<1>1. /\ r[2] \in Nat /\ SpanOf[a][1] \in Nat /\ SpanOf[a][2] \in Nat
      /\ SpanOf[a][1] < SpanOf[a][2] /\ n \in Nat
  BY DEF Cost!CostAssumption
<1>2. m \in Nat
  BY <1>1 DEF Cost!Overlap
<1>3. d \in Nat \ {0}
  BY <1>1
<1>4. (n * m) % d = 0
  BY DEF Cost!CostAssumption, Cost!Exact
<1>5. Cost!Held(r, a) = (n * m) \div d
  BY DEF Cost!Held
<1> HIDE DEF n, m, d
<1>6. n * m \in Nat /\ (n * m > 0 <=> n > 0 /\ m > 0)
  BY <1>1, <1>2
<1>7. n * m = d * ((n * m) \div d) /\ ((n * m) \div d) \in Int
  BY <1>3, <1>4, <1>6, DivExact
<1>8. \A k \in Int : (d * k >= 0 => k >= 0) /\ (d * k > 0 <=> k > 0)
  BY <1>3
<1>9. ((n * m) \div d) \in Nat /\ (((n * m) \div d) > 0 <=> m > 0 /\ n > 0)
  BY <1>6, <1>7, <1>8
<1> QED
  BY <1>5, <1>9 DEF n, m

(* Work that was done together is positive.                                   *)
LEMMA WorkIs ==
  ASSUME Cost!CostAssumption, NEW a \in Apps, NEW M \in SUBSET TreeOf[a]
  PROVE  /\ Summable(WorkOf, M) /\ Tally(WorkOf, M) \in Nat
         /\ Tally(WorkOf, M) # 0 => Tally(WorkOf, M) \in Cost!DoneTogether(a)
<1>1. M \in SUBSET Models /\ IsFiniteSet(Models) /\ \A m \in Models : WorkOf[m] \in Nat
  BY DEF Cost!CostAssumption, Cost!IsFiniteSet, IsFiniteSet
<1>2. IsFiniteSet(M)
  BY <1>1, FS_Subset
<1>3. Summable(WorkOf, M) /\ \A m \in M : WorkOf[m] >= 0
  BY <1>1, <1>2 DEF Summable
<1>4. Tally(WorkOf, M) \in Nat
  BY <1>3, TallyOfSome
<1> DEFINE f == [m \in M |-> WorkOf[m]]
<1>5. Summable(f, M) /\ DOMAIN f = M /\ \A m \in M : f[m] = WorkOf[m]
  BY <1>3 DEF Summable
<1>6. Cost!Spread(f) \in {Cost!Spread([m \in L |-> WorkOf[m]]) : L \in SUBSET TreeOf[a]}
  OBVIOUS
<1> HIDE DEF f
<1>7. Cost!Spread(f) = Tally(WorkOf, M)
  BY <1>5, SpreadIsTally, TallyOfSame
<1> QED
  BY <1>3, <1>4, <1>6, <1>7 DEF Cost!DoneTogether

LEMMA DoneIsPositive ==
  ASSUME Cost!CostAssumption, NEW a \in Apps, NEW work \in Cost!DoneTogether(a)
  PROVE  work \in Nat \ {0}
<1>1. PICK M \in SUBSET TreeOf[a] : work = Cost!Spread([m \in M |-> WorkOf[m]]) /\ work # 0
  BY DEF Cost!DoneTogether
<1> DEFINE f == [m \in M |-> WorkOf[m]]
<1>2. Summable(WorkOf, M) /\ Tally(WorkOf, M) \in Nat
  BY WorkIs
<1>3. Summable(f, M) /\ DOMAIN f = M /\ \A m \in M : f[m] = WorkOf[m]
  BY <1>2 DEF Summable
<1>4. work = Cost!Spread(f)
  BY <1>1
<1> HIDE DEF f
<1>5. work = Tally(WorkOf, M)
  BY <1>3, <1>4, SpreadIsTally, TallyOfSame
<1> QED
  BY <1>1, <1>2, <1>5

LEMMA HeldTogetherIs ==
  ASSUME Cost!CostAssumption, NEW r \in Rows, NEW A \in SUBSET Apps,
         NEW f, DOMAIN f = A, f = [a \in A |-> Cost!Held(r, a)]
  PROVE  /\ Summable(f, A) /\ Tally(f, A) \in Nat
         /\ Tally(f, A) = 0 <=> \A a \in A : Cost!Held(r, a) = 0
         /\ Tally(f, A) # 0 => Tally(f, A) \in Cost!HeldTogether(r)
<1>1. IsFiniteSet(A)
  <2>1. IsFiniteSet(Apps)
    BY DEF Cost!CostAssumption, Cost!IsFiniteSet, IsFiniteSet
  <2> QED
    BY <2>1, FS_Subset
<1>2. \A a \in A : f[a] = Cost!Held(r, a) /\ f[a] \in Nat
  BY HeldIs
<1>3. Summable(f, A) /\ \A a \in A : f[a] >= 0
  BY <1>1, <1>2 DEF Summable
<1>4. Tally(f, A) \in Nat /\ (Tally(f, A) = 0 <=> \A a \in A : f[a] = 0)
  BY <1>3, TallyOfSome
<1>5. Cost!Spread(f) \in {Cost!Spread([a \in B |-> Cost!Held(r, a)]) : B \in SUBSET Apps}
  OBVIOUS
<1>6. Cost!Spread(f) = Tally(f, A)
  BY <1>3, SpreadIsTally
<1> QED
  BY <1>2, <1>3, <1>4, <1>5, <1>6 DEF Cost!HeldTogether

(* How a row is divided.                                                      *)
LEMMA RowDivided ==
  ASSUME Cost!CostAssumption, Logs(readLogs), NEW in, LinesOf(in), NEW r \in DOMAIN in
  PROVE  /\ \A a \in DOMAIN readLogs :
              /\ Cost!Weight(r, a, in) \in Nat /\ Divisible(Cost!Share(r, a, in), a)
              /\ Cost!Weight(r, a, in) = 0 => Cost!Share(r, a, in) = 0
         /\ IF \A a \in DOMAIN readLogs : Cost!Weight(r, a, in) = 0
            THEN \A a \in DOMAIN readLogs : Cost!Share(r, a, in) = 0
            ELSE Tally([a \in DOMAIN readLogs |-> Cost!Share(r, a, in)], DOMAIN readLogs)
                   = in[r].cost
<1> DEFINE L == DOMAIN readLogs
           A == {a \in L : in[r].cluster # Cost!None /\ readLogs[a] = in[r].cluster}
           w == [a \in L |-> Cost!Weight(r, a, in)]
           h == [a \in A |-> Cost!Held(r, a)]
           held == Cost!Divisor(r, in)
           cost == in[r].cost
           q == cost \div held
           share == [a \in L |-> Cost!Share(r, a, in)]
<1>1. /\ L \in SUBSET Apps /\ A \in SUBSET L /\ A \in SUBSET Apps /\ IsFiniteSet(L)
      /\ r \in Rows /\ cost \in Amounts /\ cost \in Int
  <2>1. L \in SUBSET Apps /\ r \in Rows /\ cost \in Amounts
    BY DEF Logs, LinesOf
  <2>2. IsFiniteSet(Apps) /\ Amounts \subseteq Int
    BY DEF Cost!CostAssumption, Cost!IsFiniteSet, IsFiniteSet
  <2> QED
    BY <2>1, <2>2, FS_Subset
<1>2. \A a \in L : w[a] = IF a \in A THEN h[a] ELSE 0
  BY DEF Cost!Weight
<1>3. \A a \in L : w[a] \in Nat
  <2>1. \A a \in A : h[a] \in Nat
    BY <1>1, HeldIs
  <2> HIDE DEF w, h, A
  <2> QED
    BY <1>2, <2>1
<1>4. /\ Summable(h, A) /\ Tally(h, A) \in Nat
      /\ Tally(h, A) # 0 => Tally(h, A) \in Cost!HeldTogether(r)
  BY <1>1, HeldTogetherIs
<1>5. Summable(w, L) /\ held = Tally(w, L) /\ Tally(w, L) = Tally(h, A)
  <2>1. Summable(w, L)
    BY <1>1, <1>3 DEF Summable
  <2>2. held = Cost!Spread(w) /\ DOMAIN w = L
    BY DEF Cost!Divisor
  <2>3. \A a \in L \ A : w[a] = 0
    BY <1>2
  <2>4. \A a \in A : w[a] = h[a]
    BY <1>1, <1>2
  <2> HIDE DEF w, h, A, held, L
  <2>5. Tally(w, L) = Tally(w, A) /\ Tally(w, A) = Tally(h, A)
    BY <1>1, <2>3, <2>4, TallyWithin, TallyOfSame
  <2> QED
    BY <2>1, <2>2, <2>5, SpreadIsTally
<1>6. held \in Nat /\ (held = 0 <=> \A a \in L : w[a] = 0)
  <2> HIDE DEF w, L, held, h, A
  <2>1. \A a \in L : w[a] >= 0
    BY <1>3
  <2> QED
    BY <1>5, <2>1, TallyOfSome
<1>7. \A a \in L : share[a] = IF w[a] = 0 THEN 0 ELSE (cost * w[a]) \div held
  BY DEF Cost!Share
<1>8. ASSUME held # 0, NEW a \in L, NEW work \in Cost!DoneTogether(a) \union {1}
      PROVE  /\ work \in Nat \ {0} /\ q \in Int /\ cost = held * q
             /\ share[a] = q * w[a] /\ share[a] \in Int /\ share[a] % work = 0
  <2>1. work \in Nat \ {0}
    BY <1>1, DoneIsPositive
  <2>2. held \in Cost!HeldTogether(r) /\ held \in Nat \ {0}
    BY <1>4, <1>5, <1>6, <1>8
  <2>3. cost % (held * work) = 0
    BY <1>1, <1>8, <2>2 DEF Cost!CostAssumption, Cost!Exact
  <2> HIDE DEF cost, held, w, L, share
  <2> DEFINE k == cost \div (held * work)
  <2>4. k \in Int /\ cost = (held * work) * k
    <3>1. held * work \in Nat \ {0}
      BY <2>1, <2>2
    <3> QED
      BY <1>1, <2>3, <3>1, DivExact
  <2> HIDE DEF k
  <2>5. cost = held * (work * k) /\ work * k \in Int
    BY <2>1, <2>2, <2>4
  <2>6. q = work * k
    BY <2>2, <2>5, DivIs
  <2>7. w[a] \in Nat
    BY <1>3
  <2>8. (cost * w[a]) \div held = q * w[a]
    <3>1. cost * w[a] = held * (q * w[a]) /\ q * w[a] \in Int
      BY <2>2, <2>5, <2>6, <2>7
    <3> QED
      BY <2>2, <3>1, DivIs
  <2>9. share[a] = q * w[a]
    BY <1>7, <2>5, <2>6, <2>7, <2>8
  <2>10. share[a] = work * (k * w[a]) /\ k * w[a] \in Int
    BY <2>1, <2>4, <2>6, <2>7, <2>9
  <2>11. share[a] % work = 0
    BY <2>1, <2>10, DivIs
  <2> QED
    BY <2>1, <2>5, <2>6, <2>7, <2>9, <2>11
<1>9. \A a \in L : w[a] = 0 => share[a] = 0
  BY <1>7
<1>10. \A a \in L : Divisible(share[a], a)
  <2>1. CASE held = 0
    <3>1. \A a \in L : share[a] = 0
      BY <1>6, <1>9, <2>1
    <3>2. \A a \in L : \A work \in Cost!DoneTogether(a) : 0 % work = 0
      <4>1. \A a \in L : \A work \in Cost!DoneTogether(a) : work \in Nat \ {0}
        BY <1>1, DoneIsPositive
      <4> QED
        BY <4>1
    <3> HIDE DEF share, L
    <3> QED
      BY <3>1, <3>2 DEF Divisible
  <2>2. CASE held # 0
    <3> HIDE DEF share, L, held, q, w, cost
    <3> QED
      BY <1>8, <2>2 DEF Divisible
  <2> QED
    BY <2>1, <2>2
<1>11. held # 0 => Tally(share, L) = cost
  <2>1. ASSUME held # 0 PROVE Tally(share, L) = cost
    <3> DEFINE scaled == [a \in L |-> q * w[a]]
    <3>1. CASE L = {}
      BY <1>6, <2>1, <3>1
    <3>2. CASE L # {}
      <4>1. q \in Int /\ cost = held * q /\ \A a \in L : share[a] = scaled[a]
        <5> HIDE DEF share, held, q, w, cost, L
        <5> QED
          BY <1>8, <2>1, <3>2
      <4> HIDE DEF share, held, q, w, cost, L
      <4>2. Tally(scaled, L) = q * Tally(w, L)
        BY <1>5, <4>1, TallyTimes
      <4> HIDE DEF scaled
      <4>3. Tally(share, L) = Tally(scaled, L)
        BY <4>1, TallyOfSame
      <4> QED
        BY <1>5, <1>6, <4>1, <4>2, <4>3
    <3> QED
      BY <3>1, <3>2
  <2> QED
    BY <2>1
<1>12. (\A a \in L : w[a] = 0) => \A a \in L : share[a] = 0
  BY <1>9
<1>13. \A a \in L : /\ w[a] = Cost!Weight(r, a, in)
                    /\ share[a] = Cost!Share(r, a, in)
  OBVIOUS
<1> QED
  BY <1>3, <1>6, <1>9, <1>10, <1>11, <1>12

LEMMA AttributedIs ==
  ASSUME Cost!CostAssumption, Logs(readLogs), NEW in, LinesOf(in),
         NEW c, c = Cost!Attributed(in)
  PROVE  /\ DOMAIN c = {b \in DOMAIN readLogs : \E r \in DOMAIN in : Cost!Weight(r, b, in) > 0}
         /\ \A a \in DOMAIN c :
              /\ c[a] = Tally([r \in DOMAIN in |-> Cost!Share(r, a, in)], DOMAIN in)
              /\ Divisible(c[a], a)
<1>1. DOMAIN c = {b \in DOMAIN readLogs : \E r \in DOMAIN in : Cost!Weight(r, b, in) > 0}
  BY DEF Cost!Attributed
<1>2. ASSUME NEW a \in DOMAIN c
      PROVE  /\ c[a] = Tally([r \in DOMAIN in |-> Cost!Share(r, a, in)], DOMAIN in)
             /\ Divisible(c[a], a)
  <2> DEFINE f == [r \in DOMAIN in |-> Cost!Share(r, a, in)]
  <2>1. a \in DOMAIN readLogs /\ a \in Apps /\ c[a] = Cost!Spread(f) /\ DOMAIN f = DOMAIN in
    BY <1>1 DEF Cost!Attributed, Logs
  <2>2. \A r \in DOMAIN in : f[r] = Cost!Share(r, a, in) /\ Divisible(f[r], a)
    BY <2>1, RowDivided
  <2>3. IsFiniteSet(DOMAIN in)
    <3>1. IsFiniteSet(Rows)
      BY DEF Cost!CostAssumption, Cost!IsFiniteSet, IsFiniteSet
    <3> QED
      BY <3>1, FS_Subset DEF LinesOf
  <2> HIDE DEF f
  <2>4. Summable(f, DOMAIN in)
    BY <2>2, <2>3 DEF Summable, Divisible
  <2>5. c[a] = Tally(f, DOMAIN in) /\ c[a] \in Int
    BY <2>1, <2>4, SpreadIsTally, TallyIsInt
  <2>6. ASSUME NEW work \in Cost!DoneTogether(a) PROVE c[a] % work = 0
    <3> DEFINE g == [r \in DOMAIN in |-> f[r] \div work]
               h == [r \in DOMAIN in |-> work * g[r]]
    <3>1. work \in Nat \ {0}
      BY <2>1, DoneIsPositive
    <3>2. \A r \in DOMAIN in : g[r] \in Int /\ f[r] = h[r]
      <4>1. \A r \in DOMAIN in : f[r] \in Int /\ f[r] % work = 0
        BY <2>2 DEF Divisible
      <4> QED
        BY <3>1, <4>1, DivExact
    <3>3. Summable(g, DOMAIN in)
      BY <2>3, <3>2 DEF Summable
    <3> HIDE DEF g
    <3>4. Tally(h, DOMAIN in) = work * Tally(g, DOMAIN in) /\ Tally(g, DOMAIN in) \in Int
      BY <3>1, <3>3, TallyTimes, TallyIsInt
    <3> HIDE DEF h
    <3>5. Tally(f, DOMAIN in) = Tally(h, DOMAIN in)
      BY <3>2, TallyOfSame
    <3> QED
      BY <2>5, <3>1, <3>4, <3>5, DivIs
  <2> QED
    BY <2>5, <2>6 DEF Divisible, f
<1> QED
  BY <1>1, <1>2

LEMMA ImportedIs ==
  ASSUME Cost!CostAssumption, CostInv, NEW in, in = Cost!ImportCur
  PROVE  LinesOf(in) /\ DOMAIN in = DOMAIN report /\ [r \in DOMAIN in |-> in[r].cost] = report
<1> DEFINE last(k) == CHOOSE r \in DOMAIN report :
                        /\ Cost!RowKey(r) = k
                        /\ \A s \in DOMAIN report : Cost!RowKey(s) = k => s[2] <= r[2]
<1>1. \A r : Cost!RowKey(r) = r
  BY DEF Cost!RowKey
<1>2. \A k \in DOMAIN report : k[2] \in Nat
  BY DEF CostInv, Cost!CostAssumption
<1>3. \A k \in DOMAIN report : last(k) = k
  BY <1>1, <1>2
<1>4. {Cost!RowKey(r) : r \in DOMAIN report} = DOMAIN report
  BY <1>1
<1>5. DOMAIN billed \union DOMAIN report = DOMAIN report
  BY DEF CostInv
<1>6. in = [k \in DOMAIN report |-> [cluster |-> Cost!ClusterFor(TagOf[k[1]]),
                                     cost |-> report[last(k)]]]
  <2> HIDE DEF last
  <2>1. in = [k \in DOMAIN billed \union {Cost!RowKey(r) : r \in DOMAIN report} |->
                IF k \in {Cost!RowKey(r) : r \in DOMAIN report}
                THEN [cluster |-> Cost!ClusterFor(TagOf[k[1]]), cost |-> report[last(k)]]
                ELSE billed[k]]
    BY DEF Cost!ImportCur, last
  <2> QED
    BY <1>4, <1>5, <2>1
<1> HIDE DEF last
<1>7. DOMAIN in = DOMAIN report /\ \A k \in DOMAIN report : in[k].cost = report[k]
  BY <1>3, <1>6
<1>8. report \in [DOMAIN report -> Amounts] /\ DOMAIN report \in SUBSET Rows
  BY DEF CostInv
<1> QED
  BY <1>7, <1>8 DEF LinesOf

LEMMA CostStep ==
  ASSUME Cost!CostAssumption, CostInv, [Cost!Next]_(Cost!vars)
  PROVE  CostInv'
<1> USE DEF CostInv
<1>1. CASE UNCHANGED Cost!vars
  BY <1>1 DEF Cost!vars, Logs, LinesOf, Divisible, Cost!Attributed, Cost!Weight, Cost!Share,
              Cost!Divisor
<1>2. ASSUME NEW m \in Models, Cost!EndModel(m) PROVE CostInv'
  <2>1. /\ endedModels' = endedModels \union {m}
        /\ UNCHANGED <<metClusters, readLogs, report, billed, charged, sinceChange>>
    BY <1>2 DEF Cost!EndModel
  <2>2. Cost!Attributed(billed)' = Cost!Attributed(billed)
    BY <2>1 DEF Cost!Attributed, Cost!Weight, Cost!Share, Cost!Divisor
  <2> QED
    BY <2>1, <2>2 DEF Logs, LinesOf, Divisible
<1>6. ASSUME \/ \E a \in Apps : Cost!Report(a)
             \/ Cost!RelinkOrphans
             \/ \E a \in DOMAIN readLogs : Cost!IngestLog(a)
      PROVE  CostInv'
  <2>1. UNCHANGED <<endedModels, report, billed, charged, sinceChange>> /\ readLogs' = readLogs
    <3>1. CASE \E a \in DOMAIN readLogs : Cost!IngestLog(a)
      <4>1. UNCHANGED <<endedModels, report, billed, charged, sinceChange>>
        BY <3>1 DEF Cost!IngestLog
      <4>2. readLogs' = [b \in DOMAIN readLogs |-> readLogs[b]]
        <5>1. PICK a \in DOMAIN readLogs : Cost!IngestLog(a)
          BY <3>1
        <5>2. DOMAIN readLogs \union {a} = DOMAIN readLogs
          OBVIOUS
        <5> QED
          BY <5>1, <5>2 DEF Cost!IngestLog
      <4> QED
        BY <4>1, <4>2 DEF Logs
    <3> QED
      BY <1>6, <3>1 DEF Cost!Report, Cost!RelinkOrphans
  <2>2. Cost!Attributed(billed)' = Cost!Attributed(billed)
    BY <2>1 DEF Cost!Attributed, Cost!Weight, Cost!Share, Cost!Divisor
  <2> QED
    BY <2>1, <2>2 DEF Logs, LinesOf, Divisible
<1>3. ASSUME \/ \E c \in Clusters : Cost!Sync(c)
             \/ \E a \in Apps \ DOMAIN readLogs : Cost!IngestLog(a)
             \/ Cost!LinkApplications
      PROVE  CostInv'
  <2>1. /\ UNCHANGED <<endedModels, report, billed, charged>>
        /\ "attributed" \notin sinceChange' /\ sinceChange' \subseteq sinceChange
        /\ Logs(readLogs)'
    BY <1>3 DEF Cost!Sync, Cost!IngestLog, Cost!LinkApplications, Logs
  <2> QED
    BY <2>1 DEF LinesOf, Divisible
<1>4. ASSUME NEW r \in Rows, Cost!Deliver(r) PROVE CostInv'
  <2>1. PICK amount \in Amounts :
          /\ report' = [s \in DOMAIN report \union {r} |-> IF s = r THEN amount ELSE report[s]]
          /\ sinceChange' = {} /\ UNCHANGED <<readLogs, endedModels, billed, charged>>
    BY <1>4 DEF Cost!Deliver
  <2>2. DOMAIN report' = DOMAIN report \union {r} /\ report' \in [DOMAIN report' -> Amounts]
    BY <2>1
  <2> QED
    BY <2>1, <2>2 DEF Logs, LinesOf, Divisible
<1>5. ASSUME Cost!ImportCost PROVE CostInv'
  <2> DEFINE in == Cost!ImportCur
  <2>1. LinesOf(in) /\ DOMAIN in = DOMAIN report /\ [r \in DOMAIN in |-> in[r].cost] = report
    BY ImportedIs
  <2>2. /\ billed' = in /\ UNCHANGED <<readLogs, endedModels, report>>
        /\ \/ charged' = Cost!Attributed(in)
           \/ charged' = charged /\ "attributed" \notin sinceChange'
    BY <1>5 DEF Cost!ImportCost
  <2>3. Cost!Attributed(in) = Cost!Attributed(billed)'
    <3> HIDE DEF in
    <3> QED
      BY <2>2 DEF Cost!Attributed, Cost!Weight, Cost!Share, Cost!Divisor
  <2> HIDE DEF in
  <2>4. DOMAIN charged' \in SUBSET Apps /\ \A a \in DOMAIN charged' : Divisible(charged'[a], a)
    <3>1. ASSUME NEW c, c = Cost!Attributed(in)
          PROVE  DOMAIN c \in SUBSET Apps /\ \A a \in DOMAIN c : Divisible(c[a], a)
      <4>1. Logs(readLogs)
        OBVIOUS
      <4>2. /\ DOMAIN c \subseteq DOMAIN readLogs
            /\ \A a \in DOMAIN c : Divisible(c[a], a)
        BY <2>1, <3>1, <4>1, AttributedIs
      <4> QED
        BY <4>1, <4>2 DEF Logs
    <3> QED
      BY <2>2, <3>1
  <2>5. LinesOf(billed)'
    BY <2>1, <2>2 DEF LinesOf
  <2> QED
    BY <2>1, <2>2, <2>3, <2>4, <2>5 DEF Logs, Divisible
<1> QED
  BY <1>1, <1>2, <1>3, <1>4, <1>5, <1>6 DEF Cost!Next

-----------------------------------------------------------------------------
LEMMA BillIsStored ==
  ASSUME CostInv PROVE Cost!BillReconciles
<1> SUFFICES ASSUME "imported" \in sinceChange
             PROVE  Cost!Spread([r \in DOMAIN billed |-> billed[r].cost]) = Cost!Spread(report)
  BY DEF Cost!BillReconciles
<1>1. [r \in DOMAIN billed |-> billed[r].cost] = report
  BY DEF CostInv
<1> QED
  BY <1>1

(* Summed by application, the shares of a cluster's rows are the hours in     *)
(* which anything was held.                                                   *)
LEMMA IdleIsNobodys ==
  ASSUME Cost!CostAssumption, CostInv PROVE Cost!IdleHoursAreNobodys
<1> SUFFICES ASSUME "attributed" \in sinceChange, NEW c \in Clusters
             PROVE  Cost!Spread([a \in {b \in DOMAIN charged : readLogs[b] = c} |-> charged[a]])
                      = Cost!Spread(
                          [r \in {s \in DOMAIN billed : billed[s].cluster = c
                                    /\ \E a \in DOMAIN readLogs :
                                         readLogs[a] = c /\ Cost!Overlap(s, a) > 0
                                           /\ CoreSeconds[a] > 0} |-> billed[r].cost])
  BY DEF Cost!IdleHoursAreNobodys
<1> DEFINE R == DOMAIN billed
           L == DOMAIN readLogs
           B == {b \in DOMAIN charged : readLogs[b] = c}
           busy == {s \in R : billed[s].cluster = c
                      /\ \E a \in L : readLogs[a] = c /\ Cost!Overlap(s, a) > 0
                                        /\ CoreSeconds[a] > 0}
           ofRow(r) == [a \in L |-> Cost!Share(r, a, billed)]
           M == [a \in B |-> [r \in R |-> Cost!Share(r, a, billed)]]
           due == [r \in R |-> IF r \in busy THEN billed[r].cost ELSE 0]
<1>1. /\ Logs(readLogs) /\ LinesOf(billed) /\ charged = Cost!Attributed(billed)
      /\ DOMAIN billed \in SUBSET Rows /\ c # Cost!None
  BY DEF CostInv, LinesOf, Cost!CostAssumption
<1>2. /\ DOMAIN charged = {b \in L : \E r \in R : Cost!Weight(r, b, billed) > 0}
      /\ \A a \in DOMAIN charged :
           /\ charged[a] = Tally([r \in R |-> Cost!Share(r, a, billed)], R)
           /\ charged[a] \in Int
  <2>1. /\ DOMAIN charged = {b \in DOMAIN readLogs :
                              \E r \in DOMAIN billed : Cost!Weight(r, b, billed) > 0}
        /\ \A a \in DOMAIN charged :
             /\ charged[a] = Tally([r \in DOMAIN billed |-> Cost!Share(r, a, billed)], DOMAIN billed)
             /\ Divisible(charged[a], a)
    BY <1>1, AttributedIs
  <2> QED
    BY <2>1 DEF Divisible
<1>3. /\ L \in SUBSET Apps /\ B \in SUBSET L /\ R \in SUBSET Rows
      /\ IsFiniteSet(L) /\ IsFiniteSet(B) /\ IsFiniteSet(R)
  <2>1. L \in SUBSET Apps /\ B \in SUBSET L /\ R \in SUBSET Rows
    BY <1>1, <1>2 DEF Logs
  <2>2. IsFiniteSet(Apps) /\ IsFiniteSet(Rows)
    BY DEF Cost!CostAssumption, Cost!IsFiniteSet, IsFiniteSet
  <2> HIDE DEF L, B, R
  <2> QED
    BY <2>1, <2>2, FS_Subset
<1>4. \A a \in B, r \in R : M[a][r] \in Int /\ M[a][r] = Cost!Share(r, a, billed)
  BY <1>1, <1>3, RowDivided DEF Divisible
<1>5. ASSUME NEW r \in R PROVE Tally([a \in B |-> M[a][r]], B) = due[r] /\ due[r] \in Int
  <2> DEFINE f == ofRow(r)
             g == [a \in B |-> M[a][r]]
  <2>1. \A a \in L : /\ Cost!Weight(r, a, billed) \in Nat /\ f[a] \in Int
                     /\ Cost!Weight(r, a, billed) = 0 => f[a] = 0
    BY <1>1, RowDivided DEF Divisible
  <2>2. billed[r].cost \in Int
    BY <1>1 DEF LinesOf, Cost!CostAssumption
  <2>3. \A a \in B : g[a] = f[a]
    BY <1>3
  <2>4. Tally(g, B) = Tally(f, B)
    <3> HIDE DEF f, g, B
    <3> QED
      BY <2>3, TallyOfSame
  <2>5. ASSUME billed[r].cluster # c PROVE Tally(g, B) = due[r] /\ due[r] \in Int
    <3>1. \A a \in B : Cost!Weight(r, a, billed) = 0
      BY <2>5 DEF Cost!Weight
    <3>2. \A a \in B : f[a] = 0
      <4> HIDE DEF f
      <4> QED
        BY <1>3, <2>1, <3>1
    <3>3. Tally(f, B) = 0
      <4> HIDE DEF f, B
      <4> QED
        BY <3>2, TallyOfNone
    <3>4. due[r] = 0
      BY <2>5
    <3> HIDE DEF due, f, g, B
    <3> QED
      BY <2>4, <3>3, <3>4
  <2>6. ASSUME billed[r].cluster = c PROVE Tally(g, B) = due[r] /\ due[r] \in Int
    <3>1. \A a \in L : Cost!Weight(r, a, billed)
                         = IF readLogs[a] = c THEN Cost!Held(r, a) ELSE 0
      BY <1>1, <2>6 DEF Cost!Weight
    <3>2. \A a \in L \ B : Cost!Weight(r, a, billed) = 0
      <4>1. ASSUME NEW a \in L \ B, readLogs[a] = c PROVE Cost!Weight(r, a, billed) = 0
        BY <1>2, <2>1, <4>1
      <4> QED
        BY <3>1, <4>1
    <3>3. \A a \in L \ B : f[a] = 0
      <4> HIDE DEF f, B
      <4> QED
        BY <2>1, <3>2
    <3>4. Tally(f, L) = Tally(f, B)
      <4> HIDE DEF f, B, L
      <4> QED
        BY <1>3, <3>3, TallyWithin
    <3>5. (\A a \in L : Cost!Weight(r, a, billed) = 0) <=> r \notin busy
      <4>1. \A a \in L : /\ Cost!Held(r, a) \in Nat
                         /\ Cost!Held(r, a) > 0 <=> Cost!Overlap(r, a) > 0 /\ CoreSeconds[a] > 0
        BY <1>3, HeldIs
      <4>2. r \in busy <=> \E a \in L : readLogs[a] = c /\ Cost!Held(r, a) > 0
        BY <2>6, <4>1
      <4> HIDE DEF busy, L
      <4> QED
        BY <3>1, <4>1, <4>2
    <3>6. ASSUME r \in busy PROVE Tally(g, B) = due[r] /\ due[r] \in Int
      <4>1. Tally(f, L) = billed[r].cost
        <5> HIDE DEF busy
        <5> QED
          BY <1>1, <3>5, <3>6, RowDivided
      <4>2. due[r] = billed[r].cost
        BY <3>6
      <4> HIDE DEF due, f, g, B, L, R, busy
      <4> QED
        BY <2>2, <2>4, <3>4, <4>1, <4>2
    <3>7. ASSUME r \notin busy PROVE Tally(g, B) = due[r] /\ due[r] \in Int
      <4>1. \A a \in L : f[a] = 0
        <5> HIDE DEF busy, f
        <5> QED
          BY <2>1, <3>5, <3>7
      <4>2. Tally(f, L) = 0
        <5> HIDE DEF f, L
        <5> QED
          BY <4>1, TallyOfNone
      <4>3. due[r] = 0
        BY <3>7
      <4> HIDE DEF due, f, g, B, L, R, busy
      <4> QED
        BY <2>4, <3>4, <4>2, <4>3
    <3> HIDE DEF due, f, g, B, busy
    <3> QED
      BY <3>6, <3>7
  <2>7. Tally(g, B) = due[r] /\ due[r] \in Int
    <3> HIDE DEF due, f, g, B
    <3> QED
      BY <2>5, <2>6
  <2> HIDE DEF due, f, B, M
  <2> QED
    BY <2>7 DEF g
<1> DEFINE sums == [a \in B |-> Tally(M[a], R)]
           byRow == [r \in R |-> Tally([a \in B |-> M[a][r]], B)]
           shown == [a \in B |-> charged[a]]
           spent == [r \in busy |-> billed[r].cost]
<1>6. Tally(sums, B) = Tally(byRow, R)
  <2> HIDE DEF M, B, R
  <2> QED
    BY <1>3, <1>4, TallySwap
<1>7. Tally(byRow, R) = Tally(due, R)
  <2>1. \A r \in R : byRow[r] = due[r]
    <3> HIDE DEF M, B, due
    <3> QED
      BY <1>5
  <2> HIDE DEF byRow, due, R
  <2> QED
    BY <2>1, TallyOfSame
<1>8. Tally(due, R) = Tally(due, busy)
  <2>1. busy \subseteq R /\ \A r \in R \ busy : due[r] = 0
    OBVIOUS
  <2> HIDE DEF due, busy, R
  <2> QED
    BY <2>1, TallyWithin
<1>9. Tally(due, busy) = Tally(spent, busy)
  <2>1. \A r \in busy : due[r] = spent[r]
    OBVIOUS
  <2> HIDE DEF due, busy, spent
  <2> QED
    BY <2>1, TallyOfSame
<1>10. Cost!Spread(spent) = Tally(spent, busy)
  <2>1. DOMAIN spent = busy /\ \A r \in busy : spent[r] \in Int
    BY <1>5
  <2>2. IsFiniteSet(busy)
    <3>1. busy \subseteq R
      OBVIOUS
    <3> HIDE DEF busy, R
    <3> QED
      BY <1>3, <3>1, FS_Subset
  <2> HIDE DEF spent, busy
  <2>3. Summable(spent, busy)
    BY <2>1, <2>2 DEF Summable
  <2> QED
    BY <2>1, <2>3, SpreadIsTally
<1>11. Cost!Spread(shown) = Tally(shown, B)
  <2>1. DOMAIN shown = B /\ \A a \in B : shown[a] \in Int
    BY <1>2
  <2> HIDE DEF shown, B
  <2>2. Summable(shown, B)
    BY <1>3, <2>1 DEF Summable
  <2> QED
    BY <2>1, <2>2, SpreadIsTally
<1>12. Tally(shown, B) = Tally(sums, B)
  <2>1. \A a \in B : shown[a] = sums[a]
    BY <1>2
  <2> HIDE DEF shown, sums, B
  <2> QED
    BY <2>1, TallyOfSame
<1>13. Cost!Spread(shown) = Cost!Spread(spent)
  <2> HIDE DEF shown, spent, sums, byRow, due, busy, B, R
  <2> QED
    BY <1>6, <1>7, <1>8, <1>9, <1>10, <1>11, <1>12
<1> QED
  BY <1>13

LEMMA TimesTimes ==
  ASSUME NEW i \in Int, NEW j \in Int, NEW k \in Int
  PROVE  (i * j) * k = i * (j * k) /\ j * k \in Int
  OBVIOUS

(* What an application was charged is divided whole among the models of its   *)
(* tree that ended, or not at all.                                            *)
OfJob(m, a) ==
  IF m \in TreeOf[a] /\ Cost!ModelWeight(m) > 0
  THEN (charged[a] * Cost!ModelWeight(m)) \div Cost!TreeWork(a) ELSE 0

LEMMA JobDivided ==
  ASSUME Cost!CostAssumption, NEW a \in Apps, Divisible(charged[a], a)
  PROVE  /\ \A m \in Models : OfJob(m, a) \in Int
         /\ Tally([m \in Models |-> OfJob(m, a)], Models)
              = IF \A m \in TreeOf[a] : Cost!ModelWeight(m) = 0 THEN 0 ELSE charged[a]
<1> DEFINE T == TreeOf[a]
           D == T \intersect endedModels
           w == [m \in T |-> Cost!ModelWeight(m)]
           work == Cost!TreeWork(a)
           cost == charged[a]
           q == cost \div work
           part1 == [m \in Models |-> OfJob(m, a)]
           scaled == [m \in T |-> q * w[m]]
<1>1. /\ T \in SUBSET Models /\ D \in SUBSET T /\ IsFiniteSet(T)
      /\ \A m \in Models : WorkOf[m] \in Nat
  <2>1. T \in SUBSET Models /\ IsFiniteSet(Models) /\ \A m \in Models : WorkOf[m] \in Nat
    BY DEF Cost!CostAssumption, Cost!IsFiniteSet, IsFiniteSet
  <2> QED
    BY <2>1, FS_Subset
<1>2. \A m \in T : w[m] \in Nat /\ w[m] = IF m \in D THEN WorkOf[m] ELSE 0
  BY <1>1 DEF Cost!ModelWeight
<1>3. Summable(w, T) /\ \A m \in T : w[m] >= 0
  BY <1>1, <1>2 DEF Summable
<1>4. work = Tally(w, T)
  <2>1. work = Cost!Spread(w) /\ DOMAIN w = T
    BY DEF Cost!TreeWork
  <2> HIDE DEF w, work, T
  <2> QED
    BY <1>3, <2>1, SpreadIsTally
<1>5. Tally(w, T) = Tally(WorkOf, D)
  <2>1. \A m \in T \ D : w[m] = 0
    BY <1>2
  <2>2. \A m \in D : w[m] = WorkOf[m]
    BY <1>1, <1>2
  <2> HIDE DEF w, T, D
  <2> QED
    BY <1>1, <2>1, <2>2, TallyWithin, TallyOfSame
<1>6. work \in Nat /\ (work = 0 <=> \A m \in T : w[m] = 0)
  <2> HIDE DEF w, T, work
  <2> QED
    BY <1>3, <1>4, TallyOfSome
<1>7. work # 0 => work \in Cost!DoneTogether(a)
  <2>1. Tally(WorkOf, D) # 0 => Tally(WorkOf, D) \in Cost!DoneTogether(a)
    <3>1. D \in SUBSET TreeOf[a]
      BY <1>1
    <3> HIDE DEF D
    <3> QED
      BY <3>1, WorkIs
  <2> HIDE DEF work, w, T, D
  <2> QED
    BY <1>4, <1>5, <2>1
<1>8. \A m \in Models : part1[m] = IF m \in T /\ w[m] > 0 THEN (cost * w[m]) \div work ELSE 0
  BY DEF OfJob
<1>9. (\A m \in T : w[m] = 0) <=> \A m \in TreeOf[a] : Cost!ModelWeight(m) = 0
  OBVIOUS
<1>10. ASSUME work = 0
       PROVE  (\A m \in Models : part1[m] \in Int) /\ Tally(part1, Models) = 0
  <2>1. \A m \in Models : part1[m] = 0
    <3> HIDE DEF part1, w, T, work, cost
    <3> QED
      BY <1>6, <1>8, <1>10
  <2> HIDE DEF part1
  <2> QED
    BY <2>1, TallyOfNone
<1>11. ASSUME work # 0
       PROVE  (\A m \in Models : part1[m] \in Int) /\ Tally(part1, Models) = cost
  <2>1. work \in Nat \ {0} /\ cost \in Int /\ cost % work = 0
    BY <1>6, <1>7, <1>11 DEF Divisible
  <2>2. q \in Int /\ cost = work * q
    <3> HIDE DEF work, cost
    <3> QED
      BY <2>1, DivExact
  <2>3. ASSUME NEW m \in T PROVE part1[m] = scaled[m] /\ scaled[m] \in Int
    <3>1. w[m] \in Nat /\ m \in T /\ m \in Models
      <4>1. m \in T
        OBVIOUS
      <4> HIDE DEF w, T, D
      <4> QED
        BY <1>1, <1>2, <4>1
    <3> HIDE DEF part1, w, work, cost, T, q
    <3>2. cost * w[m] = work * (q * w[m]) /\ q * w[m] \in Int
      <4>1. work \in Int /\ q \in Int /\ w[m] \in Int
        BY <2>1, <2>2, <3>1
      <4>2. (work * q) * w[m] = work * (q * w[m]) /\ q * w[m] \in Int
        BY <4>1, TimesTimes
      <4> QED
        BY <2>2, <4>2
    <3>3. (cost * w[m]) \div work = q * w[m]
      BY <2>1, <3>2, DivIs
    <3>4. part1[m] = q * w[m]
      <4>1. CASE w[m] > 0
        BY <1>8, <3>1, <3>3, <4>1
      <4>2. CASE w[m] = 0
        <5>1. part1[m] = 0
          BY <1>8, <3>1, <4>2
        <5> QED
          BY <2>2, <4>2, <5>1
      <4> QED
        BY <3>1, <4>1, <4>2
    <3> QED
      BY <2>3, <3>2, <3>4
  <2>4. \A m \in Models \ T : part1[m] = 0
    BY <1>8
  <2> HIDE DEF part1, w, work, cost, T, q
  <2>5. Tally(scaled, T) = q * Tally(w, T)
    BY <1>3, <2>2, TallyTimes
  <2> HIDE DEF scaled
  <2>6. Tally(part1, Models) = Tally(part1, T) /\ Tally(part1, T) = Tally(scaled, T)
    BY <1>1, <2>3, <2>4, TallyWithin, TallyOfSame
  <2>7. q * work = cost
    BY <2>1, <2>2
  <2>8. \A m \in Models : part1[m] \in Int
    BY <2>3, <2>4
  <2> QED
    BY <1>4, <2>5, <2>6, <2>7, <2>8
<1>12. \A m \in Models : OfJob(m, a) = part1[m]
  OBVIOUS
<1>13. work = 0 <=> \A m \in TreeOf[a] : Cost!ModelWeight(m) = 0
  <2> HIDE DEF work, w, T
  <2> QED
    BY <1>6, <1>9
<1>14. /\ \A m \in Models : part1[m] \in Int
       /\ Tally(part1, Models) = IF work = 0 THEN 0 ELSE cost
  <2> HIDE DEF part1, work, cost
  <2> QED
    BY <1>10, <1>11
<1> QED
  BY <1>12, <1>13, <1>14

(* So by job, those with a run add up to what they add up to by application,   *)
(* and those without one are what is missing.                                 *)
LEMMA NothingVanishes ==
  ASSUME Cost!CostAssumption, CostInv PROVE Cost!NoSpendVanishes
<1> DEFINE D == DOMAIN charged
           A == D \intersect withRun
           U == {a \in A : \A m \in TreeOf[a] : Cost!ModelWeight(m) = 0}
           M == [m \in Models |-> [a \in A |-> OfJob(m, a)]]
           byModel == [m \in Models |-> Cost!OfModel(m)]
           byRow == [m \in Models |-> Tally(M[m], A)]
           down == [a \in A |-> Tally([m \in Models |-> M[m][a]], Models)]
           stays == [a \in A |-> IF a \in U THEN charged[a] ELSE 0]
           left == [a \in U |-> charged[a]]
           gone == [a \in D \ withRun |-> charged[a]]
<1>0. D \in SUBSET Apps /\ IsFiniteSet(D) /\ \A a \in D : charged[a] \in Int
  <2>1. D \in SUBSET Apps /\ \A a \in D : Divisible(charged[a], a)
    BY DEF CostInv
  <2>2. IsFiniteSet(Apps)
    BY DEF Cost!CostAssumption, Cost!IsFiniteSet, IsFiniteSet
  <2> HIDE DEF D
  <2> QED
    BY <2>1, <2>2, FS_Subset DEF Divisible
<1>1. /\ A \in SUBSET Apps /\ U \in SUBSET A /\ IsFiniteSet(A) /\ IsFiniteSet(U)
      /\ IsFiniteSet(Models)
      /\ \A a \in A : Divisible(charged[a], a) /\ charged[a] \in Int
  <2>1. A \in SUBSET Apps /\ \A a \in A : Divisible(charged[a], a)
    BY DEF CostInv
  <2>2. IsFiniteSet(Apps) /\ IsFiniteSet(Models)
    BY DEF Cost!CostAssumption, Cost!IsFiniteSet, IsFiniteSet
  <2>3. U \in SUBSET A
    OBVIOUS
  <2> HIDE DEF A, U
  <2> QED
    BY <2>1, <2>2, <2>3, FS_Subset DEF Divisible
<1>2. \A m \in Models, a \in A : M[m][a] = OfJob(m, a) /\ M[m][a] \in Int
  BY <1>1, JobDivided
<1>3. ASSUME NEW a \in A
      PROVE  down[a] = IF a \in U THEN 0 ELSE charged[a]
  <2> DEFINE f == [m \in Models |-> M[m][a]]
             g == [m \in Models |-> OfJob(m, a)]
  <2>1. Tally(g, Models) = IF a \in U THEN 0 ELSE charged[a]
    BY <1>1, JobDivided
  <2>2. \A m \in Models : f[m] = g[m]
    OBVIOUS
  <2>3. down[a] = Tally(f, Models)
    OBVIOUS
  <2> HIDE DEF f, g, down, U
  <2> QED
    BY <2>1, <2>2, <2>3, TallyOfSame
<1>4. ASSUME NEW m \in Models PROVE byModel[m] = byRow[m] /\ byRow[m] \in Int
  <2> DEFINE S == {b \in A : m \in TreeOf[b] /\ Cost!ModelWeight(m) > 0}
             g == [a \in S |-> (charged[a] * Cost!ModelWeight(m)) \div Cost!TreeWork(a)]
             mine == M[m]
  <2>1. byModel[m] = Cost!Spread(g) /\ DOMAIN g = S
    BY DEF Cost!OfModel, Cost!Priced
  <2>2. S \in SUBSET A /\ \A a \in A : mine[a] \in Int
    BY <1>2
  <2>3. \A a \in S : g[a] = mine[a]
    BY DEF OfJob
  <2>4. \A a \in A \ S : mine[a] = 0
    BY DEF OfJob
  <2>5. byRow[m] = Tally(mine, A)
    OBVIOUS
  <2> HIDE DEF S, g, mine, A, byModel, byRow
  <2>6. IsFiniteSet(S)
    BY <1>1, <2>2, FS_Subset
  <2>7. Summable(g, S) /\ Summable(mine, A)
    BY <1>1, <2>2, <2>3, <2>6 DEF Summable
  <2>8. Cost!Spread(g) = Tally(g, S)
    BY <2>1, <2>7, SpreadIsTally
  <2>9. Tally(g, S) = Tally(mine, S) /\ Tally(mine, A) = Tally(mine, S) /\ Tally(mine, A) \in Int
    BY <2>2, <2>3, <2>4, <2>7, TallyOfSame, TallyWithin, TallyIsInt
  <2> QED
    BY <2>1, <2>5, <2>8, <2>9
<1>5. Cost!Spread(byModel) = Tally(byRow, Models)
  <2>1. DOMAIN byModel = Models
    OBVIOUS
  <2> HIDE DEF byModel, byRow
  <2>2. Summable(byModel, Models)
    BY <1>1, <1>4 DEF Summable
  <2> QED
    BY <1>4, <2>1, <2>2, SpreadIsTally, TallyOfSame
<1>6. Tally(byRow, Models) = Tally(down, A)
  <2> HIDE DEF M, A
  <2> QED
    BY <1>1, <1>2, TallySwap
<1>7. Cost!Spread(left) = Tally(stays, A)
  <2>1. DOMAIN left = U /\ \A a \in U : left[a] \in Int /\ left[a] = stays[a]
    BY <1>1
  <2>2. \A a \in A \ U : stays[a] = 0
    OBVIOUS
  <2> HIDE DEF left, stays, U, A
  <2>3. Summable(left, U)
    BY <1>1, <2>1 DEF Summable
  <2> QED
    BY <1>1, <2>1, <2>2, <2>3, SpreadIsTally, TallyOfSame, TallyWithin
<1>8. Cost!Spread(charged) = Tally(charged, A) + Cost!Spread(gone)
  <2> DEFINE kept == [a \in D |-> IF a \in A THEN charged[a] ELSE 0]
             lost == [a \in D |-> IF a \in A THEN 0 ELSE charged[a]]
             both == [a \in D |-> kept[a] + lost[a]]
             B == D \ withRun
  <2>1. /\ DOMAIN gone = B /\ \A a \in B : gone[a] = charged[a] /\ lost[a] = charged[a]
        /\ B \subseteq D /\ A \subseteq D /\ \A a \in D \ B : lost[a] = 0
    OBVIOUS
  <2>2. \A a \in A : kept[a] = charged[a]
    OBVIOUS
  <2>3. \A a \in D \ A : kept[a] = 0
    OBVIOUS
  <2>4. \A a \in D : kept[a] \in Int /\ lost[a] \in Int /\ kept[a] + lost[a] = charged[a]
    BY <1>0
  <2>5. \A a \in D : both[a] = charged[a]
    BY <2>4
  <2>6. DOMAIN charged = D
    OBVIOUS
  <2> HIDE DEF A, B, D, gone, kept, lost
  <2>7. Tally(both, D) = Tally(kept, D) + Tally(lost, D)
    BY <1>0, <2>4, TallyPlus DEF Summable
  <2> HIDE DEF both
  <2>8. Tally(both, D) = Tally(charged, D)
    BY <2>5, TallyOfSame
  <2>9. Tally(kept, D) = Tally(charged, A)
    BY <2>1, <2>2, <2>3, TallyWithin, TallyOfSame
  <2>10. Tally(lost, D) = Tally(gone, B)
    BY <2>1, TallyWithin, TallyOfSame
  <2>11. IsFiniteSet(B)
    BY <1>0, <2>1, FS_Subset
  <2>12. Summable(charged, D) /\ Summable(gone, B)
    BY <1>0, <2>1, <2>11 DEF Summable
  <2>13. Cost!Spread(charged) = Tally(charged, D) /\ Cost!Spread(gone) = Tally(gone, B)
    BY <2>1, <2>6, <2>12, SpreadIsTally
  <2> QED
    BY <2>7, <2>8, <2>9, <2>10, <2>13
<1>9. Tally(charged, A) = Tally(down, A) + Tally(stays, A)
  <2> DEFINE both == [a \in A |-> down[a] + stays[a]]
  <2>1. \A a \in A : stays[a] = IF a \in U THEN charged[a] ELSE 0
    OBVIOUS
  <2> HIDE DEF down, stays, A, U
  <2>2. Summable(down, A) /\ Summable(stays, A)
    BY <1>1, <1>3, <2>1 DEF Summable
  <2>3. Tally(both, A) = Tally(down, A) + Tally(stays, A)
    BY <2>2, TallyPlus
  <2>4. \A a \in A : both[a] = charged[a]
    BY <1>1, <1>3, <2>1
  <2> HIDE DEF both
  <2> QED
    BY <2>3, <2>4, TallyOfSame
<1>10. Cost!ByJob = Cost!Spread(byModel) + Cost!Spread(left)
  BY DEF Cost!ByJob, Cost!Unsplit, Cost!Priced
<1>11. Cost!Spread(charged) = Cost!ByJob + Cost!Spread(gone)
  <2>1. Tally(charged, A) \in Int
    <3> HIDE DEF A
    <3>1. Summable(charged, A)
      BY <1>1 DEF Summable
    <3> QED
      BY <3>1, TallyIsInt
  <2>2. Tally(charged, A) = Cost!ByJob
    <3> HIDE DEF byModel, left, byRow, down, stays, A
    <3> QED
      BY <1>5, <1>6, <1>7, <1>9, <1>10
  <2> HIDE DEF A, gone
  <2> QED
    BY <1>8, <2>1, <2>2
<1> QED
  BY <1>11 DEF Cost!NoSpendVanishes

LEMMA CostStarts == Cost!Init => CostInv
  BY DEF Cost!Init, CostInv, Logs, LinesOf

HIDE DEF metClusters, readLogs, endedModels, report, billed, charged, withRun, sinceChange

(* Every amount that was billed is some application's or visibly nobody's, and *)
(* the models it is divided among are shown no more of it, and no less than    *)
(* what applications without a run hold back: of a bill of any size, restated  *)
(* any number of times.                                                        *)
THEOREM RecordsEveryCentPlaced == Spec => []EveryCentPlaced
<1> DEFINE Inv == part = "cost" => CostInv
<1>1. Init => Inv
  BY CostStarts DEF Init
<1>2. Inv /\ [Next]_all => Inv'
  <2>1. CASE UNCHANGED all
    <3>1. UNCHANGED <<part, Cost!vars>>
      BY <2>1 DEF all, slots, Cost!vars
    <3> QED
      BY <3>1, RecordsAssumption, CostStep
  <2>2. CASE Next
    <3>1. part' = part /\ (part = "cost" => Cost!Next)
      BY <2>2 DEF Next
    <3> QED
      BY <3>1, RecordsAssumption, CostStep
  <2> QED
    BY <2>1, <2>2
<1>3. Inv => EveryCentPlaced
  BY RecordsAssumption, BillIsStored, IdleIsNobodys, NothingVanishes
     DEF EveryCentPlaced, Cost!EveryCentPlaced
<1> QED
  BY <1>1, <1>2, <1>3, PTL DEF Spec

-----------------------------------------------------------------------------
(***************************************************************************)
(* SparkMetrics: what an event log says.                                   *)
(*                                                                         *)
(* A log is written in order, says of an executor once that it came and     *)
(* once that it went, and ends with the application or in the middle of a    *)
(* line (WellWritten); so is every beginning of it, which is what an        *)
(* importer reads.  Parsing is a recursive function on the lines: what it    *)
(* has after each of them is what the lines up to there say (Says).  Time    *)
(* that each executor was there is then a sum by executor, and by the        *)
(* moments at which it was there.                                           *)
(***************************************************************************)
sparkLog == v1
logTime == v2
sparkRuns == v3
imports == v4
appRow == v5
USE DEF sparkLog, logTime, sparkRuns, imports, appRow

OfExecutor == {"added", "removed"}
OfAttempt == {"submitted", "completed", "task"}
LineKinds == {"start", "end", "torn"} \union OfExecutor \union OfAttempt
LogLines == [kind : LineKinds, of : {"app"} \union Executors \union Attempts,
             at : Nat \ {0}, failed : BOOLEAN]

WellWritten(L) ==
  /\ L \in Seq(LogLines)
  /\ \A j, k \in DOMAIN L : j <= k => L[j].at <= L[k].at
  /\ \A k \in DOMAIN L : L[k].kind \in {"end", "torn"} => k = Len(L)
  /\ L # <<>> => L[1].kind = "start"
  /\ \A k \in DOMAIN L : /\ L[k].kind \in OfExecutor => L[k].of \in Executors
                         /\ L[k].kind \in OfAttempt => L[k].of \in Attempts
  /\ \A j, k \in DOMAIN L :
       L[j].kind \in OfExecutor /\ L[j].kind = L[k].kind /\ L[j].of = L[k].of => j = k
  /\ \A k \in DOMAIN L :
       L[k].kind = "removed" =>
         \E j \in DOMAIN L : j < k /\ L[j].kind = "added" /\ L[j].of = L[k].of

SparkInv ==
  /\ logTime \in Nat \ {0}
  /\ WellWritten(sparkLog) /\ \A k \in DOMAIN sparkLog : sparkLog[k].at <= logTime
  /\ DOMAIN imports = Importers
  /\ \A i \in Importers :
       imports[i] # SparkMetrics!Idle => imports[i].lines \in 1..Len(sparkLog)
  /\ appRow # SparkMetrics!Idle => appRow.lines \in 1..Len(sparkLog)

LEMMA BeginningIsWritten ==
  ASSUME NEW L, WellWritten(L), NEW n \in 1..Len(L)
  PROVE  /\ WellWritten(SubSeq(L, 1, n)) /\ Len(SubSeq(L, 1, n)) = n
         /\ \A k \in 1..n : SubSeq(L, 1, n)[k] = L[k]
<1> DEFINE B == SubSeq(L, 1, n)
<1>1. L \in Seq(LogLines) /\ Len(L) \in Nat /\ DOMAIN L = 1..Len(L)
  BY DEF WellWritten
<1>2. B \in Seq(LogLines) /\ Len(B) = n /\ DOMAIN B = 1..n /\ \A k \in 1..n : B[k] = L[k]
  BY <1>1
<1> HIDE DEF B
<1>3. \A k \in 1..n : k \in DOMAIN L
  BY <1>1
<1>4. \A k \in DOMAIN B : B[k].kind \in {"end", "torn"} => k = Len(B)
  <2>1. \A k \in DOMAIN B : B[k].kind \in {"end", "torn"} => k = Len(L)
    BY <1>2, <1>3 DEF WellWritten
  <2> QED
    BY <1>1, <1>2, <2>1
<1>5. \A k \in DOMAIN B :
        B[k].kind = "removed" =>
          \E j \in DOMAIN B : j < k /\ B[j].kind = "added" /\ B[j].of = B[k].of
  <2> SUFFICES ASSUME NEW k \in DOMAIN B, B[k].kind = "removed"
               PROVE  \E j \in DOMAIN B : j < k /\ B[j].kind = "added" /\ B[j].of = B[k].of
    OBVIOUS
  <2>1. PICK j \in DOMAIN L : j < k /\ L[j].kind = "added" /\ L[j].of = L[k].of
    BY <1>2, <1>3 DEF WellWritten
  <2>2. j \in 1..n
    BY <1>1, <1>2, <2>1
  <2> QED
    BY <1>2, <2>1, <2>2
<1>6. \A j, k \in DOMAIN B : j <= k => B[j].at <= B[k].at
  BY <1>2, <1>3 DEF WellWritten
<1>7. B # <<>> => B[1].kind = "start"
  <2>1. L # <<>> /\ 1 \in 1..n
    BY <1>1
  <2> QED
    BY <1>2, <2>1 DEF WellWritten
<1>8. \A k \in DOMAIN B : /\ B[k].kind \in OfExecutor => B[k].of \in Executors
                          /\ B[k].kind \in OfAttempt => B[k].of \in Attempts
  BY <1>2, <1>3 DEF WellWritten
<1>9. \A j, k \in DOMAIN B :
        B[j].kind \in OfExecutor /\ B[j].kind = B[k].kind /\ B[j].of = B[k].of => j = k
  BY <1>2, <1>3 DEF WellWritten
<1>10. WellWritten(B)
  BY <1>2, <1>4, <1>5, <1>6, <1>7, <1>8, <1>9 DEF WellWritten
<1> QED
  BY <1>2, <1>10 DEF B

LEMMA MoreIsWritten ==
  ASSUME NEW L, WellWritten(L), NEW line \in LogLines,
         \A k \in DOMAIN L : L[k].at <= line.at /\ L[k].kind \notin {"end", "torn"},
         L = <<>> => line.kind = "start",
         line.kind \in OfExecutor => line.of \in Executors,
         line.kind \in OfAttempt => line.of \in Attempts,
         line.kind \in OfExecutor =>
           ~\E k \in DOMAIN L : L[k].kind = line.kind /\ L[k].of = line.of,
         line.kind = "removed" =>
           \E k \in DOMAIN L : L[k].kind = "added" /\ L[k].of = line.of
  PROVE  WellWritten(Append(L, line)) /\ Len(Append(L, line)) = Len(L) + 1
<1> DEFINE B == Append(L, line)
           n == Len(L)
<1>1. L \in Seq(LogLines) /\ n \in Nat /\ DOMAIN L = 1..n
  BY DEF WellWritten
<1>2. /\ B \in Seq(LogLines) /\ Len(B) = n + 1 /\ DOMAIN B = 1..n + 1
      /\ B[n + 1] = line /\ \A k \in 1..n : B[k] = L[k]
  BY <1>1
<1> HIDE DEF B, n
<1>3. \A k \in DOMAIN B : k \in DOMAIN L \/ k = n + 1
  BY <1>1, <1>2
<1>4. line.at \in Nat /\ \A k \in DOMAIN L : B[k] = L[k] /\ k <= n /\ k \in DOMAIN B /\ k \in Nat
  BY <1>1, <1>2 DEF LogLines
<1>5. \A j, k \in DOMAIN B : j <= k => B[j].at <= B[k].at
  <2> SUFFICES ASSUME NEW j \in DOMAIN B, NEW k \in DOMAIN B, j <= k PROVE B[j].at <= B[k].at
    OBVIOUS
  <2>1. CASE k = n + 1
    BY <1>2, <1>3, <1>4, <2>1
  <2>2. CASE k # n + 1
    <3>1. k \in DOMAIN L /\ j \in DOMAIN L
      BY <1>1, <1>2, <2>2
    <3> QED
      BY <1>4, <3>1 DEF WellWritten
  <2> QED
    BY <2>1, <2>2
<1>6. \A k \in DOMAIN B : B[k].kind \in {"end", "torn"} => k = Len(B)
  BY <1>2, <1>3, <1>4
<1>7. B # <<>> => B[1].kind = "start"
  <2>1. CASE L = <<>>
    <3>1. n = 0
      BY <2>1 DEF n
    <3> QED
      BY <1>2, <2>1, <3>1
  <2>2. CASE L # <<>>
    <3>1. 1 \in DOMAIN L
      BY <1>1, <2>2 DEF n
    <3> QED
      BY <1>4, <2>2, <3>1 DEF WellWritten
  <2> QED
    BY <2>1, <2>2
<1>8. \A k \in DOMAIN B : /\ B[k].kind \in OfExecutor => B[k].of \in Executors
                          /\ B[k].kind \in OfAttempt => B[k].of \in Attempts
  BY <1>2, <1>3, <1>4 DEF WellWritten
<1>9. \A j, k \in DOMAIN B :
        B[j].kind \in OfExecutor /\ B[j].kind = B[k].kind /\ B[j].of = B[k].of => j = k
  BY <1>2, <1>3, <1>4 DEF WellWritten
<1>10. \A k \in DOMAIN B :
         B[k].kind = "removed" =>
           \E j \in DOMAIN B : j < k /\ B[j].kind = "added" /\ B[j].of = B[k].of
  <2> SUFFICES ASSUME NEW k \in DOMAIN B, B[k].kind = "removed"
               PROVE  \E j \in DOMAIN B : j < k /\ B[j].kind = "added" /\ B[j].of = B[k].of
    OBVIOUS
  <2>1. PICK j \in DOMAIN L : j < k /\ L[j].kind = "added" /\ L[j].of = B[k].of
    <3>1. CASE k = n + 1
      <4>1. PICK j \in DOMAIN L : L[j].kind = "added" /\ L[j].of = B[k].of
        BY <1>2, <3>1
      <4>2. j < k
        BY <1>1, <1>4, <3>1, <4>1
      <4> QED
        BY <4>1, <4>2
    <3>2. CASE k \in DOMAIN L
      BY <1>4, <3>2 DEF WellWritten
    <3> QED
      BY <1>3, <3>1, <3>2
  <2> QED
    BY <1>4, <2>1
<1>11. WellWritten(B)
  BY <1>2, <1>5, <1>6, <1>7, <1>8, <1>9, <1>10 DEF WellWritten
<1> QED
  BY <1>2, <1>11 DEF B, n

LEMMA SparkStarts == SparkMetrics!Init => SparkInv
<1>1. WellWritten(<<>>) /\ DOMAIN (<<>>) = {}
  BY EmptySeq DEF WellWritten
<1> QED
  BY <1>1 DEF SparkMetrics!Init, SparkInv

LEMMA SparkWrites ==
  ASSUME SparkInv, SparkMetrics!Write PROVE SparkInv'
<1> DEFINE L == sparkLog
<1>1. WellWritten(L) /\ logTime \in Nat \ {0} /\ L \in Seq(LogLines) /\ DOMAIN L = 1..Len(L)
  BY DEF SparkInv, WellWritten
<1>2. PICK line :
        /\ L' = Append(L, line)
        /\ line \in LogLines /\ line.at = logTime
        /\ L = <<>> => line.kind = "start"
        /\ line.kind \in OfExecutor => line.of \in Executors
        /\ line.kind \in OfAttempt => line.of \in Attempts
        /\ line.kind \in OfExecutor => ~SparkMetrics!So(line.kind, line.of)
        /\ line.kind = "removed" => SparkMetrics!So("added", line.of)
        /\ UNCHANGED <<logTime, imports, appRow>>
  <2> DEFINE made(kind, of, failed) == [kind |-> kind, of |-> of, at |-> logTime, failed |-> failed]
  <2>1. CASE L = <<>>
    <3>1. SparkMetrics!Line("start", "app", FALSE)
      BY <2>1 DEF SparkMetrics!Write
    <3> WITNESS made("start", "app", FALSE)
    <3> QED
      BY <1>1, <3>1 DEF SparkMetrics!Line, LogLines, LineKinds, OfExecutor, OfAttempt
  <2>2. CASE \E kind \in {"end", "torn"} : SparkMetrics!Line(kind, "app", FALSE) /\ L # <<>>
    <3>1. PICK kind \in {"end", "torn"} : SparkMetrics!Line(kind, "app", FALSE) /\ L # <<>>
      BY <2>2
    <3> WITNESS made(kind, "app", FALSE)
    <3> QED
      BY <1>1, <3>1 DEF SparkMetrics!Line, LogLines, LineKinds, OfExecutor, OfAttempt
  <2>3. CASE \E e \in Executors : ~SparkMetrics!So("added", e) /\ L # <<>>
                                    /\ SparkMetrics!Line("added", e, FALSE)
    <3>1. PICK e \in Executors : ~SparkMetrics!So("added", e) /\ L # <<>>
                                   /\ SparkMetrics!Line("added", e, FALSE)
      BY <2>3
    <3> WITNESS made("added", e, FALSE)
    <3> QED
      BY <1>1, <3>1 DEF SparkMetrics!Line, LogLines, LineKinds, OfExecutor, OfAttempt
  <2>4. CASE \E e \in Executors : /\ SparkMetrics!So("added", e) /\ ~SparkMetrics!So("removed", e)
                                  /\ L # <<>> /\ SparkMetrics!Line("removed", e, FALSE)
    <3>1. PICK e \in Executors : /\ SparkMetrics!So("added", e) /\ ~SparkMetrics!So("removed", e)
                                 /\ L # <<>> /\ SparkMetrics!Line("removed", e, FALSE)
      BY <2>4
    <3> WITNESS made("removed", e, FALSE)
    <3> QED
      BY <1>1, <3>1 DEF SparkMetrics!Line, LogLines, LineKinds, OfExecutor, OfAttempt
  <2>5. CASE \E a \in Attempts, kind \in OfAttempt, bad \in BOOLEAN :
               L # <<>> /\ SparkMetrics!Line(kind, a, bad)
    <3>1. PICK a \in Attempts, kind \in OfAttempt, bad \in BOOLEAN :
            L # <<>> /\ SparkMetrics!Line(kind, a, bad)
      BY <2>5
    <3> WITNESS made(kind, a, bad)
    <3> QED
      BY <1>1, <3>1 DEF SparkMetrics!Line, LogLines, LineKinds, OfExecutor, OfAttempt
  <2>6. L # <<>> =>
          \/ \E kind \in {"end", "torn"} : SparkMetrics!Line(kind, "app", FALSE)
          \/ \E e \in Executors :
               \/ ~SparkMetrics!So("added", e) /\ SparkMetrics!Line("added", e, FALSE)
               \/ /\ SparkMetrics!So("added", e) /\ ~SparkMetrics!So("removed", e)
                  /\ SparkMetrics!Line("removed", e, FALSE)
          \/ \E a \in Attempts, kind \in OfAttempt, bad \in BOOLEAN : SparkMetrics!Line(kind, a, bad)
    BY DEF SparkMetrics!Write, OfAttempt
  <2> HIDE DEF L, made
  <2> QED
    BY <2>1, <2>2, <2>3, <2>4, <2>5, <2>6
<1>3. \A k \in DOMAIN L : L[k].kind \notin {"end", "torn"}
  BY DEF SparkMetrics!Write, SparkMetrics!Over
<1>4. \A k \in DOMAIN L : L[k].at <= line.at
  BY <1>2 DEF SparkInv
<1>5. WellWritten(L') /\ Len(L') = Len(L) + 1
  <2>1. \A kind, of : SparkMetrics!So(kind, of)
                        <=> \E k \in DOMAIN L : L[k].kind = kind /\ L[k].of = of
    BY DEF SparkMetrics!So
  <2> HIDE DEF L
  <2>2. WellWritten(Append(L, line)) /\ Len(Append(L, line)) = Len(L) + 1
    BY <1>1, <1>2, <1>3, <1>4, <2>1, MoreIsWritten
  <2> QED
    BY <1>2, <2>2 DEF L
<1>6. \A k \in DOMAIN L' : L'[k].at <= logTime'
  <2>1. DOMAIN L' = 1..Len(L) + 1 /\ \A k \in 1..Len(L) : L'[k] = L[k]
    BY <1>1, <1>2
  <2>2. L'[Len(L) + 1] = line
    BY <1>1, <1>2
  <2> QED
    BY <1>1, <1>2, <1>4, <2>1, <2>2
<1>7. Len(L) \in Nat /\ \A n \in 1..Len(L) : n \in 1..Len(L) + 1
  BY <1>1
<1> QED
  BY <1>2, <1>5, <1>6, <1>7 DEF SparkInv

LEMMA SparkStep ==
  ASSUME SparkInv, [SparkMetrics!Next]_(SparkMetrics!vars) PROVE SparkInv'
<1>1. CASE UNCHANGED SparkMetrics!vars
  BY <1>1 DEF SparkMetrics!vars, SparkInv, WellWritten
<1>2. CASE SparkMetrics!Tick
  <2>1. logTime' = logTime + 1 /\ UNCHANGED <<sparkLog, imports, appRow>>
    BY <1>2 DEF SparkMetrics!Tick
  <2>2. \A k \in DOMAIN sparkLog : sparkLog[k].at <= logTime + 1
    <3>1. \A k \in DOMAIN sparkLog : sparkLog[k] \in LogLines
      BY DEF SparkInv, WellWritten
    <3> QED
      BY <3>1 DEF SparkInv, LogLines
  <2> QED
    BY <2>1, <2>2 DEF SparkInv, WellWritten
<1>3. CASE \E d \in Depths : SparkMetrics!Arrive(d)
  BY <1>3 DEF SparkMetrics!Arrive, SparkInv, WellWritten
<1>4. CASE SparkMetrics!Relink
  <2>1. PICK d : appRow' = [appRow EXCEPT !.run = d] /\ UNCHANGED <<sparkLog, logTime, imports>>
                 /\ appRow # SparkMetrics!Idle
    BY <1>4 DEF SparkMetrics!Relink
  <2>2. appRow'.lines = appRow.lines
    BY <2>1
  <2> QED
    BY <2>1, <2>2 DEF SparkInv, WellWritten
<1>5. CASE \E i \in Importers : SparkMetrics!Parse(i)
  <2>1. PICK i \in Importers :
          /\ imports' = [imports EXCEPT ![i] = [step |-> "parsed", lines |-> Len(sparkLog),
                                                run |-> SparkMetrics!RunFound]]
          /\ sparkLog # <<>> /\ UNCHANGED <<sparkLog, logTime, appRow>>
    BY <1>5 DEF SparkMetrics!Parse
  <2>2. Len(sparkLog) \in 1..Len(sparkLog)
    <3>1. sparkLog \in Seq(LogLines)
      BY DEF SparkInv, WellWritten
    <3> QED
      BY <2>1, <3>1
  <2> QED
    BY <2>1, <2>2 DEF SparkInv, WellWritten
<1>6. CASE \E i \in Importers : SparkMetrics!Store(i)
  <2>1. PICK i \in Importers : SparkMetrics!Store(i)
    BY <1>6
  <2>2. /\ imports[i] # SparkMetrics!Idle /\ appRow'.lines = imports[i].lines
        /\ imports' = [imports EXCEPT ![i] = SparkMetrics!Idle]
        /\ UNCHANGED <<sparkLog, logTime>>
    BY <2>1 DEF SparkMetrics!Store
  <2> QED
    BY <2>2 DEF SparkInv, WellWritten
<1> QED
  BY <1>1, <1>2, <1>3, <1>4, <1>5, <1>6, SparkWrites DEF SparkMetrics!Next

LEMMA LinksSurvive == SparkMetrics!Next => SparkMetrics!LinkSurvives
<1> SUFFICES ASSUME SparkMetrics!Next, appRow # SparkMetrics!Idle, appRow.run # SparkMetrics!None
             PROVE  appRow'.run # SparkMetrics!None
  BY DEF SparkMetrics!LinkSurvives
<1>1. CASE \E i \in Importers : SparkMetrics!Store(i)
  <2>1. PICK i \in Importers : SparkMetrics!Store(i)
    BY <1>1
  <2>2. appRow'.run = SparkMetrics!Linked(imports[i].run, appRow.run)
    BY <2>1 DEF SparkMetrics!Store
  <2> QED
    BY <2>2 DEF SparkMetrics!Linked
<1>2. ASSUME ~\E i \in Importers : SparkMetrics!Store(i) PROVE UNCHANGED appRow
  BY <1>2 DEF SparkMetrics!Next, SparkMetrics!Write, SparkMetrics!Line, SparkMetrics!Tick,
              SparkMetrics!Relink, SparkMetrics!Arrive, SparkMetrics!Parse
<1> QED
  BY <1>1, <1>2

-----------------------------------------------------------------------------
(* Parsing.                                                                   *)
ParsesTo(L, f) ==
  f = [k \in 0..Len(L) |->
         IF k = 0 THEN SparkMetrics!NoApp ELSE SparkMetrics!Read(f[k - 1], L[k])]

\* The same, as far as n.
ParsesUpTo(L, n, f) ==
  /\ f = [k \in 0..n |-> f[k]] /\ f[0] = SparkMetrics!NoApp
  /\ \A k \in 1..n : f[k] = SparkMetrics!Read(f[k - 1], L[k])

LEMMA ParseExists ==
  ASSUME NEW L, Len(L) \in Nat PROVE \E f : ParsesTo(L, f)
<1> DEFINE missed == {n \in Nat : ~\E f : ParsesUpTo(L, n, f)}
<1>1. 0 \notin missed
  <2> DEFINE f == [k \in 0..0 |-> SparkMetrics!NoApp]
  <2>1. f = [k \in 0..0 |-> f[k]] /\ f[0] = SparkMetrics!NoApp /\ 1..0 = {}
    OBVIOUS
  <2> HIDE DEF f
  <2>2. ParsesUpTo(L, 0, f)
    BY <2>1 DEF ParsesUpTo
  <2> QED
    BY <2>2
<1>2. ASSUME NEW n \in Nat, n \notin missed PROVE n + 1 \notin missed
  <2>1. PICK f : ParsesUpTo(L, n, f)
    BY <1>2
  <2> DEFINE g == [k \in 0..n + 1 |->
                     IF k <= n THEN f[k] ELSE SparkMetrics!Read(f[n], L[n + 1])]
  <2>2. g = [k \in 0..n + 1 |-> g[k]]
    OBVIOUS
  <2>3. g[0] = SparkMetrics!NoApp
    BY <2>1 DEF ParsesUpTo
  <2>4. \A k \in 1..n + 1 : g[k] = SparkMetrics!Read(g[k - 1], L[k])
    <3> SUFFICES ASSUME NEW k \in 1..n + 1 PROVE g[k] = SparkMetrics!Read(g[k - 1], L[k])
      OBVIOUS
    <3>1. k - 1 \in 0..n + 1 /\ k - 1 <= n /\ k \in 0..n + 1
      OBVIOUS
    <3>2. g[k - 1] = f[k - 1]
      BY <3>1
    <3>3. CASE k <= n
      <4>1. k \in 1..n /\ g[k] = f[k]
        BY <3>1, <3>3
      <4> HIDE DEF g
      <4> QED
        BY <2>1, <3>2, <4>1 DEF ParsesUpTo
    <3>4. CASE k = n + 1
      <4>1. g[k] = SparkMetrics!Read(f[n], L[n + 1]) /\ k - 1 = n
        BY <3>1, <3>4
      <4> HIDE DEF g
      <4> QED
        BY <3>2, <3>4, <4>1
    <3> QED
      BY <3>3, <3>4
  <2> HIDE DEF g
  <2>5. ParsesUpTo(L, n + 1, g)
    BY <2>2, <2>3, <2>4 DEF ParsesUpTo
  <2> QED
    BY <2>5
<1>3. missed = {}
  <2> SUFFICES ASSUME missed # {} PROVE FALSE
    OBVIOUS
  <2>1. missed \in SUBSET Nat
    OBVIOUS
  <2> HIDE DEF missed
  <2>2. PICK n \in missed : \A m \in missed : n <= m
    BY <2>1, LeastExists
  <2>3. n \in Nat /\ n # 0
    BY <1>1, <2>1, <2>2
  <2>4. n - 1 \in Nat /\ n - 1 \notin missed /\ n - 1 + 1 = n
    BY <2>2, <2>3
  <2> QED
    BY <1>2, <2>2, <2>4
<1>4. PICK f : ParsesUpTo(L, Len(L), f)
  BY <1>3
<1> DEFINE g == [k \in 0..Len(L) |->
                   IF k = 0 THEN SparkMetrics!NoApp ELSE SparkMetrics!Read(f[k - 1], L[k])]
<1>5. \A k \in 0..Len(L) : f[k] = g[k]
  BY <1>4 DEF ParsesUpTo
<1>6. f = [k \in 0..Len(L) |-> f[k]] /\ g = [k \in 0..Len(L) |-> g[k]]
  BY <1>4 DEF ParsesUpTo
<1>7. f = g
  <2> HIDE DEF g
  <2> QED
    BY <1>5, <1>6
<1> QED
  BY <1>7 DEF ParsesTo

LEMMA ParsedIs ==
  ASSUME NEW L, Len(L) \in Nat
  PROVE  \E f : ParsesTo(L, f) /\ SparkMetrics!Parsed(L) = f[Len(L)]
<1>1. ParsesTo(L, CHOOSE f : ParsesTo(L, f))
  BY ParseExists
<1>2. SparkMetrics!Parsed(L) = (CHOOSE f : ParsesTo(L, f))[Len(L)]
  BY DEF SparkMetrics!Parsed, ParsesTo
<1> QED
  BY <1>1, <1>2

StageType == [tasks : Int, failed : Int, submitted : Nat, completed : Nat]
AppType ==
  [start : Nat, end : Nat, last : Nat, executors : Int, cores : Int, tasks : Int, failed : Int,
   torn : BOOLEAN, added : [Executors -> Nat], removed : [Executors -> Nat],
   stages : [Attempts -> StageType]]

\* t is when the lines up to k say it of an executor, or nothing.
Marks(t, L, kind, of, k) ==
  /\ t # SparkMetrics!None => \E j \in 1..k : L[j].kind = kind /\ L[j].of = of /\ L[j].at = t
  /\ \A j \in 1..k : L[j].kind = kind /\ L[j].of = of => L[j].at = t

TasksOf(L, a, k) == {j \in 1..k : L[j].kind = "task" /\ L[j].of = a}

Says(app, L, k) ==
  /\ app \in AppType
  /\ \A j \in 1..k : L[j].kind # "torn" => L[j].at <= app.last
  /\ k = 0 => app.last = SparkMetrics!None
  /\ k > 0 => \E j \in 1..k : L[j].kind # "torn" /\ L[j].at = app.last
  /\ app.end # SparkMetrics!None => app.end = app.last /\ \E j \in 1..k : L[j].kind = "end"
  /\ \A e \in Executors : /\ Marks(app.added[e], L, "added", e, k)
                          /\ Marks(app.removed[e], L, "removed", e, k)
  /\ \A a \in Attempts : app.stages[a].tasks = Cardinality(TasksOf(L, a, k))

LEMMA StageCounts ==
  ASSUME NEW s \in StageType, NEW bad \in Int
  PROVE  LET new == [s EXCEPT !.tasks = s.tasks + 1, !.failed = s.failed + bad]
         IN new \in StageType /\ new.tasks = s.tasks + 1
<1>1. s.tasks + 1 \in Int /\ s.failed + bad \in Int
  BY DEF StageType
<1> QED
  BY <1>1 DEF StageType

LEMMA NothingSaid == ASSUME NEW L PROVE Says(SparkMetrics!NoApp, L, 0)
<1>1. SparkMetrics!NoApp \in AppType
  BY DEF SparkMetrics!NoApp, SparkMetrics!NoStage, SparkMetrics!None, AppType, StageType
<1>2. \A a : TasksOf(L, a, 0) = {}
  BY DEF TasksOf
<1> QED
  BY <1>1, <1>2, FS_EmptySet
     DEF Says, Marks, SparkMetrics!NoApp, SparkMetrics!NoStage, SparkMetrics!None

\* What stays as it was, and what the line adds.
LEMMA MarkStays ==
  ASSUME NEW L, NEW k \in Nat \ {0}, NEW t, NEW kind, NEW of, Marks(t, L, kind, of, k - 1),
         ~(L[k].kind = kind /\ L[k].of = of)
  PROVE  Marks(t, L, kind, of, k)
<1>1. \A j : j \in 1..k <=> j \in 1..k - 1 \/ j = k
  OBVIOUS
<1> QED
  BY <1>1 DEF Marks

LEMMA TasksGrow ==
  ASSUME NEW L, NEW k \in Nat \ {0}, NEW a
  PROVE  Cardinality(TasksOf(L, a, k))
           = Cardinality(TasksOf(L, a, k - 1))
             + IF L[k].kind = "task" /\ L[k].of = a THEN 1 ELSE 0
<1> DEFINE before == TasksOf(L, a, k - 1)
<1>1. \A j : j \in 1..k <=> j \in 1..k - 1 \/ j = k
  OBVIOUS
<1>2. IsFiniteSet(before) /\ Cardinality(before) \in Nat /\ k \notin before
  <2>1. IsFiniteSet(1..k - 1)
    BY FS_Interval
  <2>2. before \subseteq 1..k - 1 /\ k \notin 1..k - 1
    BY DEF TasksOf
  <2> HIDE DEF before
  <2>3. IsFiniteSet(before)
    BY <2>1, <2>2, FS_Subset
  <2> QED
    BY <2>2, <2>3, FS_CardinalityType
<1>3. TasksOf(L, a, k) = IF L[k].kind = "task" /\ L[k].of = a THEN before \union {k} ELSE before
  BY <1>1 DEF TasksOf
<1> HIDE DEF before
<1>4. Cardinality(before \union {k}) = Cardinality(before) + 1
  BY <1>2, FS_AddElement
<1> QED
  BY <1>2, <1>3, <1>4 DEF before

LEMMA ReadSays ==
  ASSUME SparkMetrics!SparkAssumption, NEW L, WellWritten(L), NEW k \in 1..Len(L), NEW app,
         Says(app, L, k - 1)
  PROVE  Says(SparkMetrics!Read(app, L[k]), L, k)
<1> DEFINE ev == L[k]
           seenApp == SparkMetrics!Observed(app, ev)
           new == SparkMetrics!Read(app, ev)
<1>1. /\ L \in Seq(LogLines) /\ k \in Nat \ {0} /\ k \in DOMAIN L /\ ev \in LogLines
      /\ \A j \in 1..k - 1 : j \in DOMAIN L /\ j < k
      /\ \A j : j \in 1..k <=> j \in 1..k - 1 \/ j = k
  BY DEF WellWritten
<1>2. ev.at \in Nat \ {0} /\ ev.kind \in LineKinds /\ ev.failed \in BOOLEAN
  BY <1>1 DEF LogLines
<1>3. app \in AppType
  BY DEF Says
<1>4. /\ \A j \in 1..k - 1 : L[j].at <= ev.at /\ L[j].kind \notin {"end", "torn"}
  <2>1. Len(L) \in Nat
    BY <1>1
  <2> QED
    BY <1>1, <2>1 DEF WellWritten
<1>5. app.end = SparkMetrics!None /\ app.last <= ev.at
  <2>1. app.end = SparkMetrics!None
    BY <1>4 DEF Says
  <2>2. CASE k - 1 = 0
    BY <1>2, <2>2 DEF Says, SparkMetrics!None
  <2>3. CASE k - 1 > 0
    BY <1>4, <2>3 DEF Says
  <2> QED
    BY <1>1, <2>1, <2>2, <2>3
<1>6. /\ ev.kind \in OfExecutor => ev.of \in Executors
      /\ ev.kind \in OfAttempt => ev.of \in Attempts
  BY <1>1 DEF WellWritten
<1>7. ev.kind \in OfExecutor =>
        \A j \in 1..k - 1 : ~(L[j].kind = ev.kind /\ L[j].of = ev.of)
  BY <1>1 DEF WellWritten
<1>8. ev.kind = "added" =>
        \A j \in 1..k - 1 : ~(L[j].kind = "removed" /\ L[j].of = ev.of)
  <2> SUFFICES ASSUME ev.kind = "added", NEW j \in 1..k - 1, L[j].kind = "removed", L[j].of = ev.of
               PROVE  FALSE
    OBVIOUS
  <2>1. PICK i \in DOMAIN L : i < j /\ L[i].kind = "added" /\ L[i].of = L[j].of
    BY <1>1 DEF WellWritten
  <2>2. i = k
    BY <1>1, <2>1 DEF WellWritten, OfExecutor
  <2> QED
    BY <1>1, <2>1, <2>2
<1>9. ev.kind = "removed" => app.added[ev.of] # SparkMetrics!None
  <2> SUFFICES ASSUME ev.kind = "removed" PROVE app.added[ev.of] # SparkMetrics!None
    OBVIOUS
  <2>1. PICK j \in DOMAIN L : j < k /\ L[j].kind = "added" /\ L[j].of = ev.of
    BY <1>1 DEF WellWritten
  <2>2. j \in 1..k - 1 /\ L[j] \in LogLines
    BY <1>1, <2>1
  <2>3. L[j].at # SparkMetrics!None
    BY <2>2 DEF LogLines, SparkMetrics!None
  <2>4. ev.of \in Executors
    BY <1>6 DEF OfExecutor
  <2> QED
    BY <2>1, <2>2, <2>3, <2>4 DEF Says, Marks
<1>10. ASSUME ev.kind = "torn" PROVE Says(new, L, k)
  <2>1. new = [app EXCEPT !.torn = TRUE]
    BY <1>10 DEF SparkMetrics!Read
  <2>2. /\ new \in AppType /\ new.last = app.last /\ new.end = app.end
        /\ new.added = app.added /\ new.removed = app.removed /\ new.stages = app.stages
    BY <1>3, <2>1 DEF AppType
  <2>3. k - 1 > 0
    <3>1. L # <<>> => L[1].kind = "start"
      BY DEF WellWritten
    <3>2. L # <<>>
      BY <1>1
    <3> QED
      BY <1>1, <1>10, <3>1, <3>2
  <2>4. \A j \in 1..k : L[j].kind # "torn" => j \in 1..k - 1
    BY <1>1, <1>10
  <2>5. \A e \in Executors : /\ Marks(new.added[e], L, "added", e, k)
                             /\ Marks(new.removed[e], L, "removed", e, k)
    <3>1. \A e \in Executors : /\ Marks(app.added[e], L, "added", e, k - 1)
                               /\ Marks(app.removed[e], L, "removed", e, k - 1)
      BY DEF Says
    <3> HIDE DEF new
    <3> QED
      BY <1>1, <1>10, <2>2, <3>1, MarkStays
  <2>6. \A a \in Attempts : new.stages[a].tasks = Cardinality(TasksOf(L, a, k))
    <3>1. \A a \in Attempts : Cardinality(TasksOf(L, a, k)) = Cardinality(TasksOf(L, a, k - 1)) + 0
      BY <1>1, <1>10, TasksGrow
    <3>2. \A a \in Attempts : app.stages[a].tasks = Cardinality(TasksOf(L, a, k - 1))
      BY DEF Says
    <3>3. \A a \in Attempts : app.stages[a].tasks \in Int
      BY <1>3 DEF AppType, StageType
    <3> HIDE DEF new
    <3> QED
      BY <2>2, <3>1, <3>2, <3>3
  <2>7. /\ \A j \in 1..k : L[j].kind # "torn" => L[j].at <= new.last
        /\ \E j \in 1..k : L[j].kind # "torn" /\ L[j].at = new.last
    <3> HIDE DEF new
    <3> QED
      BY <1>1, <2>2, <2>3, <2>4 DEF Says
  <2> HIDE DEF new
  <2> QED
    BY <1>1, <1>5, <2>2, <2>5, <2>6, <2>7 DEF Says
<1>11. ASSUME ev.kind # "torn"
       PROVE  /\ seenApp \in AppType /\ seenApp.last = ev.at /\ seenApp.end = app.end
              /\ seenApp.added = app.added /\ seenApp.removed = app.removed
              /\ seenApp.stages = app.stages
  <2>1. (IF ev.at > app.last THEN ev.at ELSE app.last) = ev.at
    <3>1. app.last \in Nat
      BY <1>3 DEF AppType
    <3> QED
      BY <1>2, <1>5, <3>1
  <2>2. seenApp = [app EXCEPT !.last = ev.at]
    BY <2>1 DEF SparkMetrics!Observed
  <2> QED
    BY <1>2, <1>3, <2>2 DEF AppType
\* A line that is whole is the last thing said; the rest is by its kind.
<1>12. ASSUME ev.kind # "torn", new \in AppType, new.last = ev.at,
              new.end = app.end \/ (ev.kind = "end" /\ new.end = ev.at),
              \A e \in Executors : /\ Marks(new.added[e], L, "added", e, k)
                                   /\ Marks(new.removed[e], L, "removed", e, k),
              \A a \in Attempts : new.stages[a].tasks = Cardinality(TasksOf(L, a, k))
       PROVE  Says(new, L, k)
  <2>1. \A j \in 1..k : L[j].at <= ev.at
    BY <1>1, <1>2, <1>4
  <2>2. k \in 1..k /\ k # 0
    BY <1>1
  <2>3. new.end # SparkMetrics!None =>
          new.end = new.last /\ \E j \in 1..k : L[j].kind = "end"
    <3> HIDE DEF new
    <3> QED
      BY <1>5, <1>12, <2>2
  <2> HIDE DEF new
  <2> QED
    BY <1>12, <2>1, <2>2, <2>3 DEF Says
<1>13. \A e \in Executors : /\ Marks(app.added[e], L, "added", e, k - 1)
                            /\ Marks(app.removed[e], L, "removed", e, k - 1)
  BY DEF Says
<1>14. \A a \in Attempts : /\ app.stages[a].tasks = Cardinality(TasksOf(L, a, k - 1))
                           /\ app.stages[a].tasks \in Int
  BY <1>3 DEF Says, AppType, StageType
<1>15. ASSUME ev.kind \notin OfExecutor, new.added = app.added, new.removed = app.removed
       PROVE  \A e \in Executors : /\ Marks(new.added[e], L, "added", e, k)
                                   /\ Marks(new.removed[e], L, "removed", e, k)
  <2> HIDE DEF new
  <2> QED
    BY <1>1, <1>13, <1>15, MarkStays DEF OfExecutor
<1>16. ASSUME ev.kind # "task", \A a \in Attempts : new.stages[a].tasks = app.stages[a].tasks
       PROVE  \A a \in Attempts : new.stages[a].tasks = Cardinality(TasksOf(L, a, k))
  <2>1. \A a \in Attempts : Cardinality(TasksOf(L, a, k)) = Cardinality(TasksOf(L, a, k - 1)) + 0
    BY <1>1, <1>16, TasksGrow
  <2> HIDE DEF new
  <2> QED
    BY <1>14, <1>16, <2>1
<1>17. ASSUME ev.kind \in {"start", "end"} PROVE Says(new, L, k)
  <2>1. new = IF ev.kind = "start" THEN [seenApp EXCEPT !.start = ev.at]
              ELSE [seenApp EXCEPT !.end = ev.at]
    BY <1>17 DEF SparkMetrics!Read
  <2> HIDE DEF new, seenApp
  <2>2. /\ new \in AppType /\ new.last = ev.at
        /\ new.end = app.end \/ (ev.kind = "end" /\ new.end = ev.at)
        /\ new.added = app.added /\ new.removed = app.removed /\ new.stages = app.stages
    BY <1>2, <1>11, <1>17, <2>1 DEF AppType
  <2>3. ev.kind # "torn" /\ ev.kind # "task" /\ ev.kind \notin OfExecutor
    BY <1>17 DEF OfExecutor
  <2>4. \A e \in Executors : /\ Marks(new.added[e], L, "added", e, k)
                             /\ Marks(new.removed[e], L, "removed", e, k)
    BY <1>15, <2>2, <2>3
  <2>5. \A a \in Attempts : new.stages[a].tasks = Cardinality(TasksOf(L, a, k))
    BY <1>16, <2>2, <2>3
  <2> QED
    BY <1>12, <2>2, <2>3, <2>4, <2>5
<1>18. ASSUME ev.kind = "added" PROVE Says(new, L, k)
  <2>1. new = [seenApp EXCEPT !.executors = @ + 1, !.cores = @ + CoresOf[ev.of],
                              !.added[ev.of] = ev.at, !.removed[ev.of] = SparkMetrics!None]
    BY <1>18 DEF SparkMetrics!Read
  <2>2. ev.of \in Executors /\ CoresOf[ev.of] \in Nat
    BY <1>6, <1>18 DEF OfExecutor, SparkMetrics!SparkAssumption
  <2> HIDE DEF new, seenApp
  <2> DEFINE came == [app.added EXCEPT ![ev.of] = ev.at]
             went == [app.removed EXCEPT ![ev.of] = SparkMetrics!None]
             cores == seenApp.cores + CoresOf[ev.of]
  <2>3. /\ new \in AppType /\ new.last = ev.at /\ new.end = app.end /\ new.stages = app.stages
        /\ new.added = came /\ new.removed = went
    <3>1. /\ came \in [Executors -> Nat] /\ went \in [Executors -> Nat]
          /\ cores \in Int /\ seenApp.executors + 1 \in Int
      <4>1. seenApp \in AppType
        BY <1>11, <1>18
      <4>2. seenApp.cores \in Int /\ seenApp.executors \in Int
        BY <4>1 DEF AppType
      <4>3. app.added \in [Executors -> Nat] /\ app.removed \in [Executors -> Nat]
        BY <1>3 DEF AppType
      <4>4. came \in [Executors -> Nat]
        BY <1>2, <4>3
      <4>5. went \in [Executors -> Nat]
        BY <4>3 DEF SparkMetrics!None
      <4>6. cores \in Int /\ seenApp.executors + 1 \in Int
        BY <2>2, <4>2
      <4> QED
        BY <4>4, <4>5, <4>6
    <3>2. new = [seenApp EXCEPT !.executors = @ + 1, !.cores = cores, !.added = came, !.removed = went]
      BY <1>11, <1>18, <2>1
    <3> HIDE DEF came, went, cores
    <3> QED
      BY <1>11, <1>18, <3>1, <3>2 DEF AppType
  <2>4. app.added \in [Executors -> Nat] /\ app.removed \in [Executors -> Nat]
    BY <1>3 DEF AppType
  <2>5. ASSUME NEW e \in Executors
        PROVE  /\ Marks(new.added[e], L, "added", e, k)
               /\ Marks(new.removed[e], L, "removed", e, k)
    <3>1. CASE e # ev.of
      <4>1. new.added[e] = app.added[e] /\ new.removed[e] = app.removed[e]
        BY <2>3, <2>4, <3>1
      <4> QED
        BY <1>1, <1>13, <3>1, <4>1, MarkStays
    <3>2. CASE e = ev.of
      <4>1. new.added[e] = ev.at /\ new.removed[e] = SparkMetrics!None
        BY <2>3, <2>4, <3>2
      <4>2. \A j \in 1..k : L[j].kind = "added" /\ L[j].of = e => j = k
        BY <1>1, <1>7, <1>18, <3>2 DEF OfExecutor
      <4>3. \A j \in 1..k : ~(L[j].kind = "removed" /\ L[j].of = e)
        BY <1>1, <1>8, <1>18, <3>2
      <4>4. k \in 1..k
        BY <1>1
      <4> QED
        BY <1>18, <3>2, <4>1, <4>2, <4>3, <4>4 DEF Marks
    <3> QED
      BY <3>1, <3>2
  <2>6. \A a \in Attempts : new.stages[a].tasks = Cardinality(TasksOf(L, a, k))
    BY <1>16, <1>18, <2>3
  <2>7. ev.kind # "torn"
    BY <1>18
  <2> QED
    BY <1>12, <2>3, <2>5, <2>6, <2>7
<1>19. ASSUME ev.kind = "removed" PROVE Says(new, L, k)
  <2>1. new = [seenApp EXCEPT !.removed[ev.of] = ev.at]
    BY <1>9, <1>19 DEF SparkMetrics!Read
  <2>2. ev.of \in Executors
    BY <1>6, <1>19 DEF OfExecutor
  <2> HIDE DEF new, seenApp
  <2>3. /\ new \in AppType /\ new.last = ev.at /\ new.end = app.end /\ new.stages = app.stages
        /\ new.added = app.added /\ new.removed = [app.removed EXCEPT ![ev.of] = ev.at]
    BY <1>2, <1>11, <1>19, <2>1, <2>2 DEF AppType
  <2>4. app.removed \in [Executors -> Nat]
    BY <1>3 DEF AppType
  <2>5. ASSUME NEW e \in Executors
        PROVE  /\ Marks(new.added[e], L, "added", e, k)
               /\ Marks(new.removed[e], L, "removed", e, k)
    <3>1. Marks(new.added[e], L, "added", e, k)
      BY <1>1, <1>13, <1>19, <2>3, MarkStays
    <3>2. CASE e # ev.of
      <4>1. new.removed[e] = app.removed[e]
        BY <2>3, <2>4, <3>2
      <4> QED
        BY <1>1, <1>13, <3>1, <3>2, <4>1, MarkStays
    <3>3. CASE e = ev.of
      <4>1. new.removed[e] = ev.at
        BY <2>3, <2>4, <3>3
      <4>2. \A j \in 1..k : L[j].kind = "removed" /\ L[j].of = e => j = k
        BY <1>1, <1>7, <1>19, <3>3 DEF OfExecutor
      <4>3. k \in 1..k
        BY <1>1
      <4>4. Marks(new.removed[e], L, "removed", e, k)
        BY <1>19, <3>3, <4>1, <4>2, <4>3 DEF Marks
      <4> QED
        BY <3>1, <4>4
    <3> QED
      BY <3>2, <3>3
  <2>6. \A a \in Attempts : new.stages[a].tasks = Cardinality(TasksOf(L, a, k))
    BY <1>16, <1>19, <2>3
  <2>7. ev.kind # "torn"
    BY <1>19
  <2> QED
    BY <1>12, <2>3, <2>5, <2>6, <2>7
<1>20. ASSUME ev.kind \in {"submitted", "completed"} PROVE Says(new, L, k)
  <2>1. new = IF ev.kind = "submitted" THEN [seenApp EXCEPT !.stages[ev.of].submitted = ev.at]
              ELSE [seenApp EXCEPT !.stages[ev.of].completed = ev.at]
    BY <1>20 DEF SparkMetrics!Read, SparkMetrics!StageOf
  <2>2. ev.of \in Attempts
    BY <1>6, <1>20 DEF OfAttempt
  <2> HIDE DEF new, seenApp
  <2> DEFINE stages == [seenApp.stages EXCEPT
                          ![ev.of] = IF ev.kind = "submitted" THEN [@ EXCEPT !.submitted = ev.at]
                                     ELSE [@ EXCEPT !.completed = ev.at]]
  <2>3. /\ new \in AppType /\ new.last = ev.at /\ new.end = app.end
        /\ new.added = app.added /\ new.removed = app.removed
        /\ \A a \in Attempts : new.stages[a].tasks = app.stages[a].tasks
    <3>1. new = [seenApp EXCEPT !.stages = stages]
      BY <1>20, <2>1
    <3>2. seenApp.stages \in [Attempts -> StageType]
      BY <1>11, <1>20 DEF AppType
    <3>3. /\ stages \in [Attempts -> StageType]
          /\ \A a \in Attempts : stages[a].tasks = seenApp.stages[a].tasks
      BY <1>2, <2>2, <3>2 DEF StageType
    <3> HIDE DEF stages
    <3>4. new \in AppType /\ new.stages = stages /\ new.last = seenApp.last
            /\ new.end = seenApp.end /\ new.added = seenApp.added /\ new.removed = seenApp.removed
      BY <1>11, <1>20, <3>1, <3>3 DEF AppType
    <3> QED
      BY <1>11, <1>20, <3>3, <3>4
  <2>4. ev.kind # "torn" /\ ev.kind # "task" /\ ev.kind \notin OfExecutor
    BY <1>20 DEF OfExecutor
  <2>5. \A e \in Executors : /\ Marks(new.added[e], L, "added", e, k)
                             /\ Marks(new.removed[e], L, "removed", e, k)
    BY <1>15, <2>3, <2>4
  <2>6. \A a \in Attempts : new.stages[a].tasks = Cardinality(TasksOf(L, a, k))
    BY <1>16, <2>3, <2>4
  <2> QED
    BY <1>12, <2>3, <2>4, <2>5, <2>6
<1>21. ASSUME ev.kind = "task" PROVE Says(new, L, k)
  <2> DEFINE bad == IF ev.failed THEN 1 ELSE 0
  <2>1. new = [seenApp EXCEPT !.tasks = @ + 1, !.failed = @ + bad,
                              !.stages[ev.of].tasks = @ + 1, !.stages[ev.of].failed = @ + bad]
    BY <1>21 DEF SparkMetrics!Read, SparkMetrics!TaskEnded, SparkMetrics!StageOf
  <2>2. ev.of \in Attempts /\ bad \in Int
    BY <1>6, <1>21 DEF OfAttempt
  <2> HIDE DEF new, seenApp, bad
  <2> DEFINE old == seenApp.stages[ev.of]
             counted == [old EXCEPT !.tasks = old.tasks + 1, !.failed = old.failed + bad]
             stages == [seenApp.stages EXCEPT ![ev.of] = counted]
  <2>3. /\ new \in AppType /\ new.last = ev.at /\ new.end = app.end
        /\ new.added = app.added /\ new.removed = app.removed
        /\ \A a \in Attempts : new.stages[a].tasks
                                 = app.stages[a].tasks + IF a = ev.of THEN 1 ELSE 0
    <3>0. seenApp \in AppType
      BY <1>11, <1>21
    <3>1. new = [seenApp EXCEPT !.tasks = @ + 1, !.failed = @ + bad, !.stages = stages]
      BY <2>1, <2>2, <3>0 DEF AppType
    <3>2. seenApp.stages \in [Attempts -> StageType]
      BY <1>11, <1>21 DEF AppType
    <3>3. /\ stages \in [Attempts -> StageType]
          /\ \A a \in Attempts : stages[a].tasks
                                   = seenApp.stages[a].tasks + IF a = ev.of THEN 1 ELSE 0
      <4>1. old \in StageType
        BY <2>2, <3>2
      <4>2. /\ counted \in StageType
            /\ counted.tasks = old.tasks + 1
        <5> HIDE DEF old
        <5> QED
          BY <2>2, <4>1, StageCounts
      <4>3. \A a \in Attempts : seenApp.stages[a].tasks \in Int
        BY <3>2 DEF StageType
      <4> HIDE DEF counted
      <4> QED
        BY <2>2, <3>2, <4>2, <4>3
    <3> HIDE DEF stages
    <3>4. new \in AppType /\ new.stages = stages /\ new.last = seenApp.last
            /\ new.end = seenApp.end /\ new.added = seenApp.added /\ new.removed = seenApp.removed
      <4>1. seenApp.tasks + 1 \in Int /\ seenApp.failed + bad \in Int
        BY <2>2, <3>0 DEF AppType
      <4> QED
        BY <3>0, <3>1, <3>3, <4>1 DEF AppType
    <3> QED
      BY <1>11, <1>21, <3>3, <3>4
  <2>4. \A a \in Attempts : new.stages[a].tasks = Cardinality(TasksOf(L, a, k))
    <3>1. \A a \in Attempts : Cardinality(TasksOf(L, a, k))
                                = Cardinality(TasksOf(L, a, k - 1)) + IF a = ev.of THEN 1 ELSE 0
      BY <1>1, <1>21, TasksGrow
    <3> QED
      BY <1>14, <2>3, <3>1
  <2>5. ev.kind # "torn" /\ ev.kind \notin OfExecutor
    BY <1>21 DEF OfExecutor
  <2>6. \A e \in Executors : /\ Marks(new.added[e], L, "added", e, k)
                             /\ Marks(new.removed[e], L, "removed", e, k)
    BY <1>15, <2>3, <2>5
  <2> QED
    BY <1>12, <2>3, <2>4, <2>5, <2>6
<1>22. Says(new, L, k)
  <2> HIDE DEF new
  <2> QED
    BY <1>2, <1>10, <1>17, <1>18, <1>19, <1>20, <1>21 DEF LineKinds, OfExecutor, OfAttempt
<1> QED
  BY <1>22

LEMMA ParsedSays ==
  ASSUME SparkMetrics!SparkAssumption, NEW L, WellWritten(L)
  PROVE  Says(SparkMetrics!Parsed(L), L, Len(L))
<1>1. Len(L) \in Nat
  BY DEF WellWritten
<1>2. PICK f : ParsesTo(L, f) /\ SparkMetrics!Parsed(L) = f[Len(L)]
  BY <1>1, ParsedIs
<1>3. f[0] = SparkMetrics!NoApp /\ \A k \in 1..Len(L) : f[k] = SparkMetrics!Read(f[k - 1], L[k])
  <2> DEFINE g == [k \in 0..Len(L) |->
                     IF k = 0 THEN SparkMetrics!NoApp ELSE SparkMetrics!Read(f[k - 1], L[k])]
  <2>1. f = g
    BY <1>2 DEF ParsesTo
  <2>2. g[0] = SparkMetrics!NoApp /\ \A k \in 1..Len(L) : g[k] = SparkMetrics!Read(f[k - 1], L[k])
    BY <1>1
  <2> HIDE DEF g
  <2> QED
    BY <2>1, <2>2
<1> DEFINE wrong == {k \in 0..Len(L) : ~Says(f[k], L, k)}
<1>4. wrong = {}
  <2> SUFFICES ASSUME wrong # {} PROVE FALSE
    OBVIOUS
  <2>1. wrong \in SUBSET Nat
    BY <1>1
  <2>2. PICK n \in wrong : \A m \in wrong : n <= m
    <3> HIDE DEF wrong
    <3> QED
      BY <2>1, LeastExists
  <2>3. n \in 0..Len(L) /\ ~Says(f[n], L, n)
    BY <2>2
  <2>4. n # 0
    BY <1>3, <2>3, NothingSaid
  <2>5. n \in 1..Len(L) /\ n - 1 \in 0..Len(L) /\ ~(n <= n - 1)
    BY <1>1, <2>3, <2>4
  <2>6. Says(f[n - 1], L, n - 1)
    BY <2>2, <2>5
  <2> QED
    BY <1>3, <2>3, <2>5, <2>6, ReadSays
<1> QED
  BY <1>1, <1>2, <1>4

-----------------------------------------------------------------------------
(* The time an executor was there, and when.                                  *)
LEMMA TotalIsTally ==
  ASSUME NEW F, Summable(F, DOMAIN F) PROVE SparkMetrics!Total(F) = Tally(F, DOMAIN F)
<1>1. SparkMetrics!Total(F) = Cost!Spread(F)
  BY DEF SparkMetrics!Total, Cost!Spread, SparkMetrics!SumFunction, Cost!SumFunction,
         SparkMetrics!SumFunctionOnSet, Cost!SumFunctionOnSet, SparkMetrics!FoldFunctionOnSet,
         Cost!FoldFunctionOnSet, SparkMetrics!MapThenFoldSet, Cost!MapThenFoldSet
<1> QED
  BY <1>1, SpreadIsTally

LEMMA TallyOfSpan ==
  ASSUME NEW c \in Nat, NEW from \in Nat, NEW to \in Nat, from <= to
  PROVE  Tally([t \in from..to - 1 |-> c], from..to - 1) = c * (to - from)
<1> DEFINE S == from..to - 1
           one == [t \in S |-> 1]
           scaled == [t \in S |-> c * one[t]]
           flat == [t \in S |-> c]
<1>1. IsFiniteSet(S) /\ Cardinality(S) = to - from
  <2>1. IsFiniteSet(S) /\ Cardinality(S) = IF from > to - 1 THEN 0 ELSE (to - 1) - from + 1
    BY FS_Interval
  <2> HIDE DEF S
  <2> QED
    BY <2>1
<1>2. Units(one, S) = S \X {1} /\ Owed(one, S) = {}
  <2>1. \A t \in S : one[t] = 1
    OBVIOUS
  <2> HIDE DEF one, S
  <2> QED
    BY <2>1 DEF Units, Owed
<1>3. Tally(one, S) = to - from
  <2>1. IsFiniteSet({1}) /\ Cardinality({1}) = 1
    BY FS_Singleton
  <2> HIDE DEF S, one
  <2>2. Cardinality(S \X {1}) = Cardinality(S) * 1
    BY <1>1, <2>1, FS_Product
  <2>3. Cardinality(Owed(one, S)) = 0
    BY <1>2, FS_EmptySet
  <2>4. Cardinality(Units(one, S)) = to - from
    BY <1>1, <1>2, <2>2
  <2>5. to - from \in Int
    OBVIOUS
  <2> QED
    BY <2>3, <2>4, <2>5 DEF Tally
<1>4. Summable(one, S) /\ \A t \in S : flat[t] = scaled[t]
  BY <1>1 DEF Summable
<1>5. Tally(scaled, S) = c * Tally(one, S)
  <2> HIDE DEF S, one
  <2> QED
    BY <1>4, TallyTimes
<1>6. Tally(flat, S) = Tally(scaled, S)
  <2> HIDE DEF S, one, scaled, flat
  <2> QED
    BY <1>4, TallyOfSame
<1>7. Tally(flat, S) = c * (to - from)
  BY <1>3, <1>5, <1>6
<1> QED
  BY <1>7 DEF flat, S

\* When an executor that came is counted until, and the last time a log says.
Until(app, e) ==
  IF app.removed[e] # SparkMetrics!None THEN app.removed[e] ELSE SparkMetrics!Closing(app)

LEMMA LastSaidIs ==
  ASSUME NEW L, WellWritten(L), L # <<>>, NEW app, Says(app, L, Len(L))
  PROVE  /\ L[SparkMetrics!Greatest({k \in 1..Len(L) : L[k].kind # "torn"})].at = app.last
         /\ SparkMetrics!Closing(app) = app.last /\ app.last \in Nat \ {0}
<1> DEFINE n == Len(L)
           S == {k \in 1..n : L[k].kind # "torn"}
           top == SparkMetrics!Greatest(S)
<1>1. n \in Nat \ {0} /\ DOMAIN L = 1..n /\ \A k \in 1..n : L[k] \in LogLines
  BY DEF WellWritten
<1>2. \A k \in 1..n : L[k].kind = "torn" => k = n
  BY <1>1 DEF WellWritten
<1>3. 1 \in S
  BY <1>1 DEF WellWritten
<1>4. \E x \in S : \A y \in S : y <= x
  <2>1. CASE n \in S
    <3>1. \A y \in S : y <= n
      BY <1>1
    <3> QED
      BY <2>1, <3>1
  <2>2. CASE n \notin S
    <3>1. n # 1
      BY <1>3, <2>2
    <3>2. n - 1 \in 1..n /\ n - 1 # n
      <4> HIDE DEF n
      <4>1. n \in Nat /\ n # 0
        BY <1>1
      <4> QED
        BY <3>1, <4>1
    <3>3. n - 1 \in S
      BY <1>2, <3>2
    <3>4. \A y \in S : y <= n - 1
      BY <1>1, <2>2
    <3> QED
      BY <3>3, <3>4
  <2> QED
    BY <2>1, <2>2
<1>5. top \in S /\ \A y \in S : y <= top
  <2> HIDE DEF S
  <2> QED
    BY <1>4 DEF SparkMetrics!Greatest
<1>6. app \in AppType /\ app.last \in Nat /\ app.end \in Nat
  BY DEF Says, AppType
<1>7. PICK j \in S : L[j].at = app.last
  BY <1>1 DEF Says
<1>8. app.last # SparkMetrics!None
  BY <1>1, <1>7 DEF LogLines, SparkMetrics!None
<1> HIDE DEF top
<1>9. L[top].at = app.last
  <2>1. L[top].at <= app.last
    BY <1>5 DEF Says
  <2>2. L[j].at <= L[top].at
    BY <1>1, <1>5, <1>7 DEF WellWritten
  <2>3. L[top].at \in Nat
    BY <1>1, <1>5 DEF LogLines
  <2> QED
    BY <1>6, <1>7, <2>1, <2>2, <2>3
<1>10. SparkMetrics!Closing(app) = app.last
  BY <1>8 DEF SparkMetrics!Closing, Says
<1> QED
  BY <1>6, <1>8, <1>9, <1>10 DEF top, SparkMetrics!None

\* An executor goes after it came, and both are said of it at most once.
LEMMA StayIs ==
  ASSUME NEW L, WellWritten(L), L # <<>>, NEW app, Says(app, L, Len(L)), NEW e \in Executors,
         app.added[e] # SparkMetrics!None
  PROVE  /\ app.added[e] \in Nat \ {0} /\ Until(app, e) \in Nat
         /\ app.added[e] <= Until(app, e) /\ Until(app, e) <= app.last
<1> DEFINE n == Len(L)
<1>1. n \in Nat \ {0} /\ DOMAIN L = 1..n /\ \A k \in 1..n : L[k] \in LogLines
  BY DEF WellWritten
<1>2. app.added[e] \in Nat /\ app.removed[e] \in Nat /\ app.last \in Nat
  BY DEF Says, AppType
<1>3. PICK j \in 1..n : L[j].kind = "added" /\ L[j].of = e /\ L[j].at = app.added[e]
  BY DEF Says, Marks
<1>4. app.added[e] <= app.last
  BY <1>3 DEF Says
<1>5. SparkMetrics!Closing(app) = app.last
  BY LastSaidIs
<1>6. CASE app.removed[e] = SparkMetrics!None
  BY <1>2, <1>4, <1>5, <1>6 DEF Until, SparkMetrics!None
<1>7. CASE app.removed[e] # SparkMetrics!None
  <2>1. PICK k \in 1..n : L[k].kind = "removed" /\ L[k].of = e /\ L[k].at = app.removed[e]
    BY <1>7 DEF Says, Marks
  <2>2. PICK i \in 1..n : i < k /\ L[i].kind = "added" /\ L[i].of = e
    BY <1>1, <2>1 DEF WellWritten
  <2>3. i = j
    BY <1>1, <1>3, <2>2 DEF WellWritten, OfExecutor
  <2>4. L[j].at <= L[k].at
    BY <1>1, <2>1, <2>2, <2>3 DEF WellWritten
  <2>5. app.removed[e] <= app.last
    BY <2>1 DEF Says
  <2> QED
    BY <1>2, <1>3, <1>7, <2>1, <2>4, <2>5 DEF Until, SparkMetrics!None
<1> QED
  BY <1>6, <1>7

\* A log that says an executor is there says so of the time it is counted for.
LEMMA ThereIs ==
  ASSUME NEW L, WellWritten(L), L # <<>>, NEW app, Says(app, L, Len(L)), NEW e \in Executors,
         NEW t \in Nat, t < app.last
  PROVE  (/\ \E k \in DOMAIN L : L[k].kind = "added" /\ L[k].of = e /\ L[k].at <= t
          /\ ~\E k \in DOMAIN L : L[k].kind = "removed" /\ L[k].of = e /\ L[k].at <= t)
           <=> (app.added[e] # SparkMetrics!None /\ app.added[e] <= t /\ t < Until(app, e))
<1> DEFINE n == Len(L)
           came == \E k \in DOMAIN L : L[k].kind = "added" /\ L[k].of = e /\ L[k].at <= t
           went == \E k \in DOMAIN L : L[k].kind = "removed" /\ L[k].of = e /\ L[k].at <= t
<1>1. n \in Nat \ {0} /\ DOMAIN L = 1..n /\ \A k \in 1..n : L[k] \in LogLines
  BY DEF WellWritten
<1>2. /\ app.added[e] \in Nat /\ app.removed[e] \in Nat /\ app.last \in Nat
      /\ Marks(app.added[e], L, "added", e, n) /\ Marks(app.removed[e], L, "removed", e, n)
  BY DEF Says, AppType
<1>3. \A k \in 1..n : L[k].at \in Nat \ {0}
  BY <1>1 DEF LogLines
<1>4. came <=> (app.added[e] # SparkMetrics!None /\ app.added[e] <= t)
  BY <1>1, <1>2, <1>3 DEF Marks, SparkMetrics!None
<1>5. went <=> (app.removed[e] # SparkMetrics!None /\ app.removed[e] <= t)
  BY <1>1, <1>2, <1>3 DEF Marks, SparkMetrics!None
<1>6. SparkMetrics!Closing(app) = app.last
  BY LastSaidIs
<1> HIDE DEF came, went
<1>7. ~went <=> t < Until(app, e)
  BY <1>2, <1>5, <1>6 DEF Until
<1>8. (came /\ ~went) <=> (app.added[e] # SparkMetrics!None /\ app.added[e] <= t /\ t < Until(app, e))
  BY <1>4, <1>7
<1> QED
  BY <1>8 DEF came, went

LEMMA CoreTimeHeld ==
  ASSUME SparkMetrics!SparkAssumption, NEW L, WellWritten(L), L # <<>>, NEW app,
         Says(app, L, Len(L))
  PROVE  SparkMetrics!CoreTime(app)
           = SparkMetrics!Total([t \in 1..app.last - 1 |-> SparkMetrics!HeldAt(L, t)])
<1> DEFINE A == {x \in Executors : app.added[x] # SparkMetrics!None}
           T == 1..app.last - 1
           in(e, t) == e \in A /\ app.added[e] <= t /\ t < Until(app, e)
           M == [e \in Executors |-> [t \in T |-> IF in(e, t) THEN CoresOf[e] ELSE 0]]
           stay == [e \in A |->
                      LET until == IF app.removed[e] # SparkMetrics!None THEN app.removed[e]
                                   ELSE SparkMetrics!Closing(app)
                      IN CoresOf[e]
                           * (IF until > app.added[e] THEN until - app.added[e] ELSE 0)]
           byCore == [e \in Executors |-> Tally(M[e], T)]
           byTime == [t \in T |-> Tally([e \in Executors |-> M[e][t]], Executors)]
           held == [t \in T |-> SparkMetrics!HeldAt(L, t)]
<1>1. /\ IsFiniteSet(Executors) /\ \A e \in Executors : CoresOf[e] \in Nat
      /\ A \subseteq Executors /\ IsFiniteSet(A) /\ app.last \in Nat \ {0} /\ IsFiniteSet(T)
      /\ T \subseteq Nat /\ \A t \in T : t < app.last /\ t >= 1
  <2>1. IsFiniteSet(Executors) /\ \A e \in Executors : CoresOf[e] \in Nat
    BY DEF SparkMetrics!SparkAssumption, SparkMetrics!IsFiniteSet, IsFiniteSet
  <2>2. A \subseteq Executors
    OBVIOUS
  <2>3. app.last \in Nat \ {0}
    BY LastSaidIs
  <2>4. 1 \in Int /\ app.last - 1 \in Int
    BY <2>3
  <2>5. IsFiniteSet(T)
    BY <2>4, FS_Interval
  <2>6. T \subseteq Nat /\ \A t \in T : t < app.last /\ t >= 1
    BY <2>3
  <2> HIDE DEF A, T
  <2> QED
    BY <2>1, <2>2, <2>3, <2>5, <2>6, FS_Subset
<1>2. \A e \in Executors, t \in T : M[e][t] \in Int
  <2> HIDE DEF A, T
  <2> QED
    BY <1>1
<1>3. ASSUME NEW e \in A
      PROVE  /\ app.added[e] \in Nat \ {0} /\ Until(app, e) \in Nat
             /\ app.added[e] <= Until(app, e) /\ Until(app, e) <= app.last
             /\ CoresOf[e] \in Nat /\ e \in Executors
  BY <1>1, StayIs
<1>4. ASSUME NEW e \in A
      PROVE  stay[e] = byCore[e] /\ byCore[e] \in Int
  <2> DEFINE from == app.added[e]
             to == Until(app, e)
             c == CoresOf[e]
             I == from..to - 1
             row1 == M[e]
             flat == [t \in I |-> c]
  <2>1. from \in Nat \ {0} /\ to \in Nat /\ from <= to /\ to <= app.last /\ c \in Nat
    BY <1>3
  <2>2. stay[e] = c * (IF to > from THEN to - from ELSE 0)
    BY DEF Until
  <2>3. \A t \in T : row1[t] = IF from <= t /\ t < to THEN c ELSE 0
    BY <1>3
  <2>4. byCore[e] = Tally(row1, T)
    BY <1>3
  <2> HIDE DEF from, to, c, row1, stay, byCore, M, A
  <2>5. (IF to > from THEN to - from ELSE 0) = to - from
    BY <2>1
  <2>6. I \subseteq T /\ \A t \in I : from <= t /\ t < to
    BY <1>1, <2>1
  <2>7. \A t \in T \ I : ~(from <= t /\ t < to)
    BY <1>1, <2>1
  <2>8. \A t \in I : row1[t] = flat[t]
    BY <2>3, <2>6
  <2>9. \A t \in T \ I : row1[t] = 0
    BY <2>3, <2>7
  <2>10. Tally(flat, I) = c * (to - from)
    BY <2>1, TallyOfSpan
  <2> HIDE DEF I, T, flat
  <2>11. Tally(row1, T) = Tally(row1, I) /\ Tally(row1, I) = Tally(flat, I)
    BY <2>6, <2>8, <2>9, TallyWithin, TallyOfSame
  <2>12. c * (to - from) \in Int
    BY <2>1
  <2> QED
    BY <2>2, <2>4, <2>5, <2>10, <2>11, <2>12
<1>5. ASSUME NEW e \in Executors, e \notin A PROVE byCore[e] = 0
  <2> DEFINE row1 == M[e]
  <2>1. \A t \in T : row1[t] = 0
    BY <1>5
  <2>2. byCore[e] = Tally(row1, T)
    OBVIOUS
  <2> HIDE DEF row1, byCore, T
  <2> QED
    BY <2>1, <2>2, TallyOfNone
<1>6. SparkMetrics!CoreTime(app) = Tally(byCore, Executors)
  <2>1. SparkMetrics!CoreTime(app) = SparkMetrics!Total(stay) /\ DOMAIN stay = A
    BY DEF SparkMetrics!CoreTime
  <2> HIDE DEF stay, byCore, A
  <2>2. Summable(stay, A)
    BY <1>1, <1>4 DEF Summable
  <2>3. SparkMetrics!Total(stay) = Tally(stay, A)
    BY <2>1, <2>2, TotalIsTally
  <2>4. Tally(stay, A) = Tally(byCore, A)
    BY <1>4, <2>2, TallyOfSame
  <2>5. Tally(byCore, Executors) = Tally(byCore, A)
    <3>1. \A e \in Executors \ A : byCore[e] = 0
      BY <1>5
    <3> QED
      BY <1>1, <3>1, TallyWithin
  <2> QED
    BY <2>1, <2>3, <2>4, <2>5
<1>7. Tally(byCore, Executors) = Tally(byTime, T)
  <2> HIDE DEF M, T
  <2> QED
    BY <1>1, <1>2, TallySwap
<1>8. ASSUME NEW t \in T PROVE held[t] = byTime[t] /\ byTime[t] \in Int
  <2> DEFINE there == {e \in Executors : in(e, t)}
             cores == [e \in there |-> CoresOf[e]]
             down == [e \in Executors |-> M[e][t]]
  <2>1. SparkMetrics!HeldAt(L, t) = SparkMetrics!Total(cores)
    <3>1. t \in Nat /\ t < app.last
      BY <1>1
    <3>2. \A e \in Executors :
            (/\ \E k \in DOMAIN L : L[k].kind = "added" /\ L[k].of = e /\ L[k].at <= t
             /\ ~\E k \in DOMAIN L : L[k].kind = "removed" /\ L[k].of = e /\ L[k].at <= t)
              <=> in(e, t)
      BY <3>1, ThereIs
    <3>3. {e \in Executors :
             /\ \E k \in DOMAIN L : L[k].kind = "added" /\ L[k].of = e /\ L[k].at <= t
             /\ ~\E k \in DOMAIN L : L[k].kind = "removed" /\ L[k].of = e /\ L[k].at <= t}
            = there
      <4> HIDE DEF in
      <4> QED
        BY <3>2
    <3> HIDE DEF there
    <3> QED
      BY <3>3 DEF SparkMetrics!HeldAt
  <2>2. there \subseteq Executors /\ DOMAIN cores = there
    OBVIOUS
  <2>3. \A e \in there : cores[e] = down[e]
    OBVIOUS
  <2>4. \A e \in Executors \ there : down[e] = 0
    OBVIOUS
  <2>5. byTime[t] = Tally(down, Executors) /\ held[t] = SparkMetrics!HeldAt(L, t)
    OBVIOUS
  <2>6. Summable(down, Executors)
    BY <1>1, <1>2 DEF Summable
  <2>7. \A e \in there : cores[e] \in Int
    BY <1>1
  <2> HIDE DEF there, cores, down, byTime, held, T, M
  <2>8. Summable(cores, there)
    BY <1>1, <2>2, <2>7, FS_Subset DEF Summable
  <2>9. SparkMetrics!Total(cores) = Tally(cores, there)
    BY <2>2, <2>8, TotalIsTally
  <2>10. /\ Tally(cores, there) = Tally(down, there)
         /\ Tally(down, Executors) = Tally(down, there) /\ Tally(down, Executors) \in Int
    BY <2>2, <2>3, <2>4, <2>6, TallyOfSame, TallyWithin, TallyIsInt
  <2> QED
    BY <2>1, <2>5, <2>9, <2>10
<1>9. SparkMetrics!Total(held) = Tally(byTime, T)
  <2>1. DOMAIN held = T
    OBVIOUS
  <2> HIDE DEF held, byTime, T
  <2>2. Summable(held, T)
    BY <1>1, <1>8 DEF Summable
  <2> QED
    BY <1>8, <2>1, <2>2, TotalIsTally, TallyOfSame
<1>10. SparkMetrics!CoreTime(app) = SparkMetrics!Total(held)
  BY <1>6, <1>7, <1>9
<1> QED
  BY <1>10 DEF held, T

LEMMA StoredAreLogged ==
  ASSUME SparkMetrics!SparkAssumption, SparkInv PROVE SparkMetrics!AsLogged
<1> SUFFICES ASSUME appRow # SparkMetrics!Idle PROVE SparkMetrics!AsLogged
  BY DEF SparkMetrics!AsLogged, SparkMetrics!CoreTimeIsHeld, SparkMetrics!AttemptsApart
<1> DEFINE n == appRow.lines
           L == SubSeq(sparkLog, 1, n)
           app == SparkMetrics!Metrics
<1>1. n \in 1..Len(sparkLog) /\ WellWritten(sparkLog)
  BY DEF SparkInv
<1>2. WellWritten(L) /\ Len(L) = n /\ \A k \in 1..n : L[k] = sparkLog[k]
  <2> HIDE DEF n
  <2> QED
    BY <1>1, BeginningIsWritten
<1>3. n \in Nat \ {0}
  <2>1. Len(sparkLog) \in Nat
    BY <1>1 DEF WellWritten
  <2> QED
    BY <1>1, <2>1
<1>4. L # <<>>
  <2> HIDE DEF L
  <2>1. L = <<>> => Len(L) = 0
    OBVIOUS
  <2> QED
    BY <1>2, <1>3, <2>1
<1>5. app = SparkMetrics!Parsed(L)
  BY DEF SparkMetrics!Metrics
<1> HIDE DEF L, app, n
<1>6. Says(app, L, Len(L))
  BY <1>2, <1>5, ParsedSays
<1>7. /\ SparkMetrics!CoreTime(app)
           = SparkMetrics!Total([t \in 1..app.last - 1 |-> SparkMetrics!HeldAt(L, t)])
      /\ L[SparkMetrics!Greatest({k \in 1..n : L[k].kind # "torn"})].at = app.last
  BY <1>2, <1>4, <1>6, CoreTimeHeld, LastSaidIs
<1>8. SparkMetrics!CoreTimeIsHeld
  BY <1>7 DEF SparkMetrics!CoreTimeIsHeld, L, app, n
<1>9. \A a \in Attempts : TasksOf(L, a, n)
                            = {k \in 1..n : sparkLog[k].kind = "task" /\ sparkLog[k].of = a}
  BY <1>2 DEF TasksOf
<1>10. \A a \in Attempts : app.stages[a].tasks = Cardinality(TasksOf(L, a, n))
  BY <1>2, <1>6 DEF Says
<1>11. SparkMetrics!AttemptsApart
  <2>1. \A S : SparkMetrics!Cardinality(S) = Cardinality(S)
    BY DEF SparkMetrics!Cardinality, Cardinality
  <2> QED
    BY <1>9, <1>10, <2>1 DEF SparkMetrics!AttemptsApart, app, n
<1> QED
  BY <1>8, <1>11 DEF SparkMetrics!AsLogged

HIDE DEF sparkLog, logTime, sparkRuns, imports, appRow

(* The core time that a bill is divided by is what the executors of a log     *)
(* held, moment by moment, as far as it had been read, and each attempt of a   *)
(* stage has its own tasks; no later import loses a link to a run: of any log, *)
(* torn or not, and any number of importers.                                  *)
THEOREM RecordsMetricsAreTheLogs == Spec => MetricsAreTheLogs
<1> DEFINE Inv == part = "spark" => SparkInv
<1>1. Init => Inv
  BY SparkStarts DEF Init
<1>2. Inv /\ [Next]_all => Inv'
  <2>1. CASE UNCHANGED all
    <3>1. UNCHANGED <<part, SparkMetrics!vars>>
      BY <2>1 DEF all, slots, SparkMetrics!vars
    <3> QED
      BY <3>1, SparkStep
  <2>2. CASE Next
    <3>1. part' = part /\ (part = "spark" => SparkMetrics!Next)
      BY <2>2 DEF Next
    <3> QED
      BY <3>1, SparkStep
  <2> QED
    BY <2>1, <2>2
<1>3. Inv => (part = "spark" => SparkMetrics!AsLogged)
  BY RecordsAssumption, StoredAreLogged
<1>4. [Next]_all => [part = "spark" => SparkMetrics!LinkSurvives]_all
  <2> SUFFICES ASSUME Next, part = "spark" PROVE SparkMetrics!LinkSurvives
    OBVIOUS
  <2>1. SparkMetrics!Next
    BY DEF Next
  <2> QED
    BY <2>1, LinksSurvive
<1> QED
  BY <1>1, <1>2, <1>3, <1>4, PTL DEF Spec, MetricsAreTheLogs
=============================================================================
