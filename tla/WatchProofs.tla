---------------------------- MODULE WatchProofs ----------------------------
(***************************************************************************)
(* What the watchers promise, for every value of the constants: a section   *)
(* for each component proved, which names the component's slots as the      *)
(* component does, gives its inductive invariant and shows that every action *)
(* preserves it.  The theorems are about MCWatch, whose behaviours are those *)
(* of its components.                                                        *)
(***************************************************************************)
EXTENDS MCWatch, TLAPS, WellFoundedInduction, SequenceTheorems, FiniteSetTheorems

(* A set of numbers has a least element, by well-founded induction; and a     *)
(* bounded one has a greatest.                                                *)
LEMMA LeastExists == ASSUME NEW S \in SUBSET Nat, S # {} PROVE \E x \in S : \A y \in S : x <= y
<1> DEFINE R == OpToRel(<, Nat)
<1>1. IsWellFoundedOn(R, Nat)
  BY NatLessThanWellFounded
<1>2. R = {ss \in Nat \X Nat : ss[1] < ss[2]}
  BY DEF OpToRel
<1> HIDE DEF R
<1>3. PICK x \in S : \A y \in S : ~(<<y, x>> \in R)
  BY <1>1, WFMin
<1>4. ASSUME NEW y \in S PROVE x <= y
  <2>1. <<y, x>> \in Nat \X Nat /\ <<y, x>>[1] = y /\ <<y, x>>[2] = x
    OBVIOUS
  <2>2. ~(y < x)
    BY <1>2, <1>3, <2>1
  <2> QED
    BY <2>2
<1> QED BY <1>4

LEMMA GreatestExists ==
  ASSUME NEW S \in SUBSET Nat, S # {}, NEW n \in Nat, \A y \in S : y <= n
  PROVE \E x \in S : \A y \in S : y <= x
<1> DEFINE T == {m \in Nat : \A y \in S : y <= m}
<1>1. PICK m \in T : \A k \in T : m <= k
  <2>1. n \in T /\ T \in SUBSET Nat
    OBVIOUS
  <2> QED
    BY <2>1, LeastExists
<1>2. ASSUME m \notin S PROVE FALSE
  <2>1. \A y \in S : y < m
    BY <1>1, <1>2
  <2>2. m # 0 /\ m \in Nat
    <3>1. PICK y \in S : TRUE
      OBVIOUS
    <3>2. y < m /\ y \in Nat /\ m \in Nat
      BY <1>1, <2>1, <3>1
    <3> QED
      BY <3>2
  <2>3. m - 1 \in T
    BY <2>1, <2>2
  <2> QED
    BY <1>1, <2>2, <2>3
<1> QED BY <1>1, <1>2

(* ... and CHOOSE finds it.                                                    *)
LEMMA GreatestIsChosen ==
  ASSUME NEW S \in SUBSET Nat, S # {}, NEW n \in Nat, \A y \in S : y <= n
  PROVE  /\ (CHOOSE x \in S : \A y \in S : y <= x) \in S
         /\ \A z \in S : z <= (CHOOSE x \in S : \A y \in S : y <= x)
<1>1. \E x \in S : \A y \in S : y <= x
  BY GreatestExists
<1> QED
  BY <1>1

-----------------------------------------------------------------------------
(* Monitoring: a sweep stores under the rows' locks, so of a monitor that no   *)
(* sweep has told anything yet the channels know what the row says.            *)

clock == v1
due == v2
standing == v3
locks == v4
hands == v5
opened == v6
left == v7
announced == v8
reasons == v9
USE DEF clock, due, standing, locks, hands, opened, left, announced, reasons

Watched == Monitoring!Monitors
Stages == {"idle", "judging", "storing", "committing"}

SweepFields(h) ==
  /\ h = [field \in DOMAIN h |-> h[field]]
  /\ DOMAIN h = {"pc", "began", "quiet", "todo", "seen", "judged", "found", "changed", "sent",
                  "refused"}
  /\ h.pc \in Stages /\ h.quiet \in BOOLEAN

MonitoringTypes ==
  /\ standing = [m \in Watched |-> standing[m]]
  /\ locks = [m \in Watched |-> locks[m]]
  /\ hands = [s \in Sweeps |-> hands[s]]
  /\ announced = [m \in Watched |-> announced[m]]
  /\ reasons = [m \in Watched |-> reasons[m]]
  /\ \A s \in Sweeps : SweepFields(hands[s])

\* What a sweep still has to judge: monitors it has not stored, each once.
AheadOf(h) ==
  /\ h.todo \in Seq(Watched)
  /\ \A i \in 1..Len(h.todo) : h.todo[i] \notin DOMAIN h.found
  /\ \A i, j \in 1..Len(h.todo) : i # j => h.todo[i] # h.todo[j]

\* What it has stored, changed and sent.
Behind(h) ==
  /\ h.found = [m \in DOMAIN h.found |-> h.found[m]] /\ DOMAIN h.found \subseteq Watched
  /\ h.changed = {m \in DOMAIN h.found : h.seen[m] # h.found[m]}
  /\ h.sent \subseteq h.changed
  /\ h.pc # "committing" => h.sent = {}
  /\ h.pc = "storing" => h.todo # <<>>
  /\ h.pc = "committing" =>
       IF h.quiet THEN h.sent = {}
       ELSE \A m \in h.changed :
              h.found[m] \in {"ok", "error"} => m \in h.sent \union h.refused

HoldsItsRows(s) ==
  /\ \A m \in DOMAIN hands[s].found : locks[m] = s
  /\ \A m \in hands[s].sent : announced[m] = hands[s].found[m]

KnownUnlessSent(m) ==
  (\A s \in Sweeps : m \notin hands[s].sent) =>
    (reasons[m] = {} /\ standing[m].status \in Monitoring!Alertable =>
       announced[m] = standing[m].status)

SweepInv(s) == AheadOf(hands[s]) /\ Behind(hands[s]) /\ HoldsItsRows(s)

MonitoringInv ==
  /\ MonitoringTypes
  /\ \A s \in Sweeps : SweepInv(s)
  /\ \A m \in Watched : KnownUnlessSent(m)

LEMMA IdleHands ==
  /\ SweepFields(Monitoring!Idle) /\ AheadOf(Monitoring!Idle) /\ Behind(Monitoring!Idle)
  /\ Monitoring!Idle.sent = {} /\ DOMAIN Monitoring!Idle.found = {}
  BY DEF Monitoring!Idle, SweepFields, Stages, AheadOf, Behind

LEMMA MonitoringStarts == ASSUME Monitoring!Init PROVE MonitoringInv
<1>1. /\ standing = [m \in Watched |-> [status |-> Nothing, at |-> 0]]
      /\ locks = [m \in Watched |-> Nothing]
      /\ hands = [s \in Sweeps |-> Monitoring!Idle]
      /\ announced = [m \in Watched |-> Nothing]
      /\ reasons = [m \in Watched |-> {}]
  BY DEF Monitoring!Init, Watched
<1>2. \A s \in Sweeps : hands[s] = Monitoring!Idle
  BY <1>1
<1>3. MonitoringTypes
  BY <1>1, <1>2, IdleHands DEF MonitoringTypes
<1>4. \A s \in Sweeps : SweepInv(s)
  BY <1>2, IdleHands DEF SweepInv, HoldsItsRows
<1>5. \A m \in Watched : KnownUnlessSent(m)
  BY <1>1 DEF KnownUnlessSent
<1> QED
  BY <1>3, <1>4, <1>5 DEF MonitoringInv

(* A monitor is listed once.                                                   *)
LEMMA ListedOnce ==
  ASSUME Monitoring!MonitoringAssumption, NEW scope \in SUBSET Watched,
         NEW l \in Monitoring!Listed(scope)
  PROVE  l \in Seq(Watched) /\ \A i, j \in 1..Len(l) : i # j => l[i] # l[j]
<1>1. PICK n \in 0..Len(ByName) : l \in [1..n -> scope]
  BY DEF Monitoring!Listed
<1>2. n \in Nat
  BY <1>1 DEF Monitoring!MonitoringAssumption
<1>3. l \in Seq(Watched) /\ Len(l) = n /\ DOMAIN l = 1..n
  BY <1>1, <1>2
<1>4. \A i, j \in 1..n : i < j => Monitoring!ListedBefore(l[i], l[j])
  BY <1>3 DEF Monitoring!Listed
<1>5. ASSUME NEW m \in Watched PROVE ~Monitoring!ListedBefore(m, m)
  <2>1. \E i \in DOMAIN ByName : ByName[i] = m
    BY DEF Watched, Monitoring!Monitors, Monitoring!Range
  <2>2. Monitoring!Rank(m) \in DOMAIN ByName
    BY <2>1 DEF Monitoring!Rank
  <2>3. Monitoring!Rank(m) \in Int /\ Monitoring!Urgency(m) \in Int
    BY <2>2 DEF Monitoring!MonitoringAssumption, Monitoring!Urgency
  <2> QED
    BY <2>3 DEF Monitoring!ListedBefore
<1>6. ASSUME NEW i \in 1..n, NEW j \in 1..n, i # j PROVE l[i] # l[j]
  <2>1. l[i] \in Watched /\ l[j] \in Watched
    BY <1>1
  <2>2. i < j \/ j < i
    BY <1>2, <1>6
  <2> QED
    BY <1>4, <1>5, <2>1, <2>2
<1> QED
  BY <1>3, <1>6

(* One sweep moves, and sends nothing: whoever else there is stays as it is.   *)
LEMMA OneMoves ==
  ASSUME MonitoringInv, NEW s \in Sweeps, NEW h,
         hands' = [hands EXCEPT ![s] = h], SweepFields(h), AheadOf(h), Behind(h),
         h.sent = {}, hands[s].sent = {},
         locks' = [m \in Watched |-> locks'[m]],
         \A m \in Watched : locks[m] \in Sweeps \ {s} => locks'[m] = locks[m],
         \A m \in DOMAIN h.found : locks'[m] = s,
         UNCHANGED <<standing, announced, reasons>>
  PROVE  MonitoringInv'
<1>1. /\ hands' = [t \in Sweeps |-> hands'[t]] /\ hands'[s] = h
      /\ \A t \in Sweeps \ {s} : hands'[t] = hands[t]
  BY DEF MonitoringInv, MonitoringTypes
<1>2. MonitoringTypes'
  BY <1>1 DEF MonitoringInv, MonitoringTypes
<1>3. SweepInv(s)'
  BY <1>1 DEF SweepInv, HoldsItsRows
<1>4. ASSUME NEW t \in Sweeps \ {s} PROVE SweepInv(t)'
  BY <1>1, <1>4 DEF MonitoringInv, SweepInv, HoldsItsRows, Behind
<1>5. \A m \in Watched : KnownUnlessSent(m)'
  BY <1>1 DEF MonitoringInv, KnownUnlessSent
<1> QED
  BY <1>2, <1>3, <1>4, <1>5 DEF MonitoringInv

LEMMA StartKeeps ==
  ASSUME Monitoring!MonitoringAssumption, MonitoringInv, NEW s \in Sweeps, NEW scope \in Scopes,
         NEW quiet \in BOOLEAN, Monitoring!Start(s, scope, quiet)
  PROVE  MonitoringInv'
<1>1. PICK l \in Monitoring!Listed(scope) :
        hands' = [hands EXCEPT ![s] =
          [Monitoring!Idle EXCEPT !.pc = "judging", !.began = clock,
                                  !.quiet = quiet, !.todo = l,
                                  !.seen = [m \in scope |-> standing[m].status]]]
  BY DEF Monitoring!Start
<1> DEFINE h == [Monitoring!Idle EXCEPT !.pc = "judging", !.began = clock, !.quiet = quiet,
                   !.todo = l, !.seen = [m \in scope |-> standing[m].status]]
<1>2. scope \in SUBSET Watched
  BY DEF Monitoring!MonitoringAssumption, Watched
<1>3. /\ SweepFields(h) /\ h.todo = l /\ h.found = <<>> /\ h.changed = {} /\ h.sent = {}
      /\ h.pc = "judging"
  <2>1. SweepFields(Monitoring!Idle)
    BY IdleHands
  <2>2. /\ Monitoring!Idle.found = <<>>
        /\ Monitoring!Idle.changed = {} /\ Monitoring!Idle.sent = {}
    BY DEF Monitoring!Idle
  <2> QED
    BY <2>1, <2>2 DEF SweepFields, Stages
<1>4. DOMAIN h.found = {} /\ h.found = [m \in DOMAIN h.found |-> h.found[m]]
  BY <1>3
<1> HIDE DEF h
<1>5. AheadOf(h) /\ Behind(h)
  BY <1>1, <1>2, <1>3, <1>4, ListedOnce DEF AheadOf, Behind
<1>6. hands[s].pc = "idle" /\ UNCHANGED <<standing, locks, announced, reasons>>
  BY DEF Monitoring!Start
<1>7. hands[s].sent = {}
  BY <1>6 DEF MonitoringInv, SweepInv, Behind
<1>8. locks' = [m \in Watched |-> locks'[m]] /\ hands' = [hands EXCEPT ![s] = h]
  BY <1>1, <1>6 DEF MonitoringInv, MonitoringTypes, h
<1> QED
  BY <1>3, <1>4, <1>5, <1>6, <1>7, <1>8, OneMoves

LEMMA JudgeKeeps ==
  ASSUME MonitoringInv, NEW s \in Sweeps, Monitoring!Judge(s) PROVE MonitoringInv'
<1> DEFINE h == [hands[s] EXCEPT !.pc = "storing", !.judged = due[Head(hands[s].todo)]]
<1>1. hands' = [hands EXCEPT ![s] = h]
  BY DEF Monitoring!Judge, MonitoringInv, MonitoringTypes
<1>2. /\ hands[s].pc = "judging" /\ hands[s].todo # <<>>
      /\ UNCHANGED <<standing, locks, announced, reasons>>
  BY DEF Monitoring!Judge
<1>3. SweepFields(hands[s]) /\ AheadOf(hands[s]) /\ Behind(hands[s]) /\ HoldsItsRows(s)
      /\ locks = [m \in Watched |-> locks[m]]
  BY DEF MonitoringInv, MonitoringTypes, SweepInv
<1>4. /\ SweepFields(h) /\ h.todo = hands[s].todo /\ h.found = hands[s].found
      /\ h.seen = hands[s].seen
      /\ h.changed = hands[s].changed /\ h.sent = hands[s].sent /\ h.pc = "storing"
  BY <1>3 DEF SweepFields, Stages
<1> HIDE DEF h
<1>5. AheadOf(h) /\ Behind(h) /\ h.sent = {} /\ hands[s].sent = {}
  BY <1>2, <1>3, <1>4 DEF AheadOf, Behind
<1>6. locks' = [m \in Watched |-> locks'[m]] /\ \A m \in DOMAIN h.found : locks'[m] = s
  BY <1>2, <1>3, <1>4 DEF HoldsItsRows
<1> QED
  BY <1>1, <1>2, <1>4, <1>5, <1>6, OneMoves

LEMMA RestOfTodo ==
  ASSUME NEW l \in Seq(Watched), l # <<>>, \A i, j \in 1..Len(l) : i # j => l[i] # l[j]
  PROVE  /\ Head(l) \in Watched /\ Tail(l) \in Seq(Watched)
         /\ \A i \in 1..Len(Tail(l)) : /\ Tail(l)[i] # Head(l)
                                       /\ \E j \in 1..Len(l) : Tail(l)[i] = l[j]
         /\ \A i, j \in 1..Len(Tail(l)) : i # j => Tail(l)[i] # Tail(l)[j]
<1>1. /\ Len(l) \in Nat /\ Len(l) > 0 /\ Head(l) = l[1] /\ Len(Tail(l)) = Len(l) - 1
      /\ \A i \in 1..Len(Tail(l)) : Tail(l)[i] = l[i + 1]
  BY EmptySeq
<1>2. \A i \in 1..Len(Tail(l)) : i + 1 \in 1..Len(l) /\ i + 1 # 1
  BY <1>1
<1>3. \A i, j \in 1..Len(Tail(l)) : i # j => i + 1 # j + 1
  BY <1>1
<1>4. Head(l) \in Watched /\ Tail(l) \in Seq(Watched)
  BY <1>1
<1>5. 1 \in 1..Len(l)
  BY <1>1
<1> QED
  BY <1>1, <1>2, <1>3, <1>4, <1>5

LEMMA StoreResultKeeps ==
  ASSUME Monitoring!MonitoringAssumption, MonitoringInv, NEW s \in Sweeps, Monitoring!Store(s)
  PROVE  MonitoringInv'
<1> DEFINE m == Head(hands[s].todo)
           status == hands[s].judged
           stored == [k \in DOMAIN hands[s].found \union {m} |->
                        IF k = m THEN status ELSE hands[s].found[k]]
           h == [hands[s] EXCEPT !.pc = "judging", !.todo = Tail(@), !.found = stored,
                   !.changed = IF hands[s].seen[m] # status THEN @ \union {m} ELSE @]
<1>1. hands' = [hands EXCEPT ![s] = h]
  BY DEF Monitoring!Store, Monitoring!Transitioned, MonitoringInv, MonitoringTypes
<1>2. /\ hands[s].pc = "storing" /\ locks[m] \in {Nothing, s}
      /\ locks' = [locks EXCEPT ![m] = s] /\ UNCHANGED <<standing, announced, reasons>>
  BY DEF Monitoring!Store
<1>3. /\ SweepFields(hands[s]) /\ AheadOf(hands[s]) /\ Behind(hands[s]) /\ HoldsItsRows(s)
      /\ locks = [k \in Watched |-> locks[k]]
  BY DEF MonitoringInv, MonitoringTypes, SweepInv
<1>4. /\ SweepFields(h) /\ h.todo = Tail(hands[s].todo) /\ h.seen = hands[s].seen
      /\ h.found = stored /\ h.sent = hands[s].sent /\ h.pc = "judging"
      /\ h.changed = IF hands[s].seen[m] # status THEN hands[s].changed \union {m}
                     ELSE hands[s].changed
  <2> HIDE DEF m, status, stored
  <2>1. SweepFields(hands[s]) /\ "judging" \in Stages
    BY <1>3 DEF Stages
  <2> QED
    BY <2>1 DEF SweepFields
<1> HIDE DEF h
<1>5. /\ m \in Watched /\ m \notin DOMAIN hands[s].found
      /\ Tail(hands[s].todo) \in Seq(Watched)
      /\ \A i \in 1..Len(Tail(hands[s].todo)) :
           /\ Tail(hands[s].todo)[i] # m
           /\ Tail(hands[s].todo)[i] \notin DOMAIN hands[s].found
      /\ \A i, j \in 1..Len(Tail(hands[s].todo)) :
           i # j => Tail(hands[s].todo)[i] # Tail(hands[s].todo)[j]
  <2> HIDE DEF status, stored
  <2>1. hands[s].todo # <<>>
    BY <1>2, <1>3, Zenon DEF Behind
  <2>2. /\ hands[s].todo \in Seq(Watched)
        /\ \A i \in 1..Len(hands[s].todo) : hands[s].todo[i] \notin DOMAIN hands[s].found
        /\ \A i, j \in 1..Len(hands[s].todo) :
             i # j => hands[s].todo[i] # hands[s].todo[j]
    BY <1>3, Zenon DEF AheadOf
  <2>3. 1 \in 1..Len(hands[s].todo) /\ Head(hands[s].todo) = hands[s].todo[1]
    BY <2>1, <2>2, EmptySeq
  <2>4. m \in Watched /\ m \notin DOMAIN hands[s].found
    BY <2>2, <2>3
  <2> QED
    BY <2>1, <2>2, <2>4, RestOfTodo
<1>6. /\ DOMAIN stored = DOMAIN hands[s].found \union {m}
      /\ stored = [k \in DOMAIN stored |-> stored[k]] /\ stored[m] = status
      /\ \A k \in DOMAIN hands[s].found : stored[k] = hands[s].found[k]
  BY <1>5
<1> HIDE DEF m, status, stored
<1>7. AheadOf(h)
  BY <1>4, <1>5, <1>6 DEF AheadOf
<1>8. hands[s].sent = {} /\ h.sent = {}
  BY <1>2, <1>3, <1>4 DEF Behind
<1>9. Behind(h)
  <2>1. h.changed = {k \in DOMAIN h.found : h.seen[k] # h.found[k]}
    BY <1>3, <1>4, <1>5, <1>6 DEF Behind
  <2> QED
    BY <1>3, <1>4, <1>5, <1>6, <1>8, <2>1 DEF Behind
<1>10. /\ locks' = [k \in Watched |-> locks'[k]]
       /\ \A k \in Watched : locks[k] \in Sweeps \ {s} => locks'[k] = locks[k]
       /\ \A k \in DOMAIN h.found : locks'[k] = s
  <2>1. locks' = [k \in Watched |-> IF k = m THEN s ELSE locks[k]]
    BY <1>2, <1>3, <1>5
  <2>2. \A k \in DOMAIN h.found : k \in Watched /\ (k = m \/ locks[k] = s)
    BY <1>3, <1>4, <1>5, <1>6 DEF HoldsItsRows, Behind
  <2>3. Nothing \notin Sweeps
    BY DEF Monitoring!MonitoringAssumption
  <2> QED
    BY <1>2, <2>1, <2>2, <2>3
<1> QED
  BY <1>1, <1>2, <1>4, <1>7, <1>8, <1>9, <1>10, OneMoves

(* A sweep ends: its rows are let go, and what it sent is known, or lost.      *)
LEMMA EndKeeps ==
  ASSUME MonitoringInv, NEW s \in Sweeps, hands' = [hands EXCEPT ![s] = Monitoring!Idle],
         locks' = Monitoring!Released(s), announced' = announced,
         standing' = [m \in Watched |-> standing'[m]],
         reasons' = [m \in Watched |-> reasons'[m]],
         \A m \in Watched \ DOMAIN hands[s].found :
           standing'[m] = standing[m] /\ reasons'[m] = reasons[m],
         \A m \in DOMAIN hands[s].found :
           reasons'[m] = {} /\ standing'[m].status \in Monitoring!Alertable =>
             announced[m] = standing'[m].status
  PROVE  MonitoringInv'
<1>1. MonitoringTypes /\ SweepInv(s) /\ \A t \in Sweeps : SweepInv(t)
  BY DEF MonitoringInv
<1>2. /\ hands' = [t \in Sweeps |-> hands'[t]] /\ hands'[s] = Monitoring!Idle
      /\ \A t \in Sweeps \ {s} : hands'[t] = hands[t]
  BY <1>1 DEF MonitoringTypes
<1>3. locks' = [m \in Watched |-> IF locks[m] = s THEN Nothing ELSE locks[m]]
  BY DEF Monitoring!Released, Watched
<1>4. MonitoringTypes'
  BY <1>1, <1>2, <1>3, IdleHands DEF MonitoringTypes
<1>5. SweepInv(s)'
  BY <1>2, IdleHands DEF SweepInv, HoldsItsRows
<1>6. ASSUME NEW t \in Sweeps \ {s} PROVE SweepInv(t)'
  <2>1. /\ AheadOf(hands[t]) /\ Behind(hands[t]) /\ HoldsItsRows(t)
        /\ DOMAIN hands[t].found \subseteq Watched /\ hands'[t] = hands[t]
    BY <1>1, <1>2 DEF SweepInv, Behind
  <2>2. \A m \in DOMAIN hands[t].found : locks'[m] = t
    BY <1>3, <2>1 DEF HoldsItsRows
  <2> QED
    BY <2>1, <2>2 DEF SweepInv, HoldsItsRows
<1>7. ASSUME NEW m \in Watched PROVE KnownUnlessSent(m)'
  <2>1. CASE m \in DOMAIN hands[s].found
    BY <2>1 DEF KnownUnlessSent
  <2>2. CASE m \notin DOMAIN hands[s].found
    <3>1. m \notin hands[s].sent /\ KnownUnlessSent(m)
      BY <1>1, <2>2 DEF SweepInv, Behind, MonitoringInv
    <3>2. (\A t \in Sweeps : m \notin hands'[t].sent) =>
            (\A t \in Sweeps : m \notin hands[t].sent)
      BY <1>2, <3>1
    <3> QED
      BY <2>2, <3>1, <3>2 DEF KnownUnlessSent
  <2> QED
    BY <2>1, <2>2
<1> QED
  BY <1>4, <1>5, <1>6, <1>7 DEF MonitoringInv

(* No two sweeps have sent something of the same monitor.                      *)
LEMMA OneSender ==
  ASSUME MonitoringInv, NEW s \in Sweeps, NEW m \in DOMAIN hands[s].found,
         NEW t \in Sweeps, m \in hands[t].sent
  PROVE  t = s
<1>1. SweepInv(s) /\ SweepInv(t)
  BY DEF MonitoringInv
<1>2. m \in DOMAIN hands[t].found
  BY <1>1 DEF SweepInv, Behind
<1> QED
  BY <1>1, <1>2 DEF SweepInv, HoldsItsRows

LEMMA CommitSweepKeeps ==
  ASSUME MonitoringInv, NEW s \in Sweeps, Monitoring!Commit(s) PROVE MonitoringInv'
<1> DEFINE h == hands[s]
<1>1. /\ h.pc = "committing"
      /\ standing' = [m \in Watched |->
           IF m \notin DOMAIN h.found THEN standing[m]
           ELSE [status |-> h.found[m],
                 at |-> IF standing[m].at > h.began THEN standing[m].at ELSE h.began]]
      /\ reasons' = [m \in Watched |->
           IF m \in DOMAIN h.found THEN Monitoring!LapseOf(s, m) ELSE reasons[m]]
      /\ locks' = Monitoring!Released(s) /\ announced' = announced
      /\ hands' = [hands EXCEPT ![s] = Monitoring!Idle]
  BY DEF Monitoring!Commit, Watched
<1>2. SweepInv(s) /\ Behind(h) /\ HoldsItsRows(s) /\ h.quiet \in BOOLEAN
      /\ DOMAIN h.found \subseteq Watched
  BY DEF MonitoringInv, MonitoringTypes, SweepInv, SweepFields, Behind
<1>3. ASSUME NEW m \in DOMAIN h.found, reasons'[m] = {},
             standing'[m].status \in Monitoring!Alertable
      PROVE  announced[m] = standing'[m].status
  <2>1. standing'[m].status = h.found[m] /\ m \in Watched
    BY <1>1, <1>2
  <2>2. Monitoring!LapseOf(s, m) = {}
    BY <1>1, <1>3, <2>1
  <2>3. h.seen[m] = standing[m].status
    BY <2>2 DEF Monitoring!LapseOf
  <2>4. CASE m \notin h.changed
    <3>1. reasons[m] = {} /\ h.found[m] = standing[m].status
      BY <1>2, <2>2, <2>3, <2>4 DEF Monitoring!LapseOf, Behind
    <3>2. m \notin h.sent
      BY <1>2, <2>4 DEF Behind
    <3>3. \A t \in Sweeps : m \notin hands[t].sent
      BY <3>2, OneSender
    <3> QED
      BY <1>3, <2>1, <3>1, <3>3 DEF MonitoringInv, KnownUnlessSent
  <2>5. CASE m \in h.changed
    <3>1. ~h.quiet /\ m \notin h.refused /\ ~(h.found[m] = "breach" /\ m \notin h.sent)
      BY <2>2, <2>3, <2>5 DEF Monitoring!LapseOf
    <3>2. m \in h.sent
      BY <1>1, <1>2, <1>3, <2>1, <2>5, <3>1 DEF Behind, Monitoring!Alertable
    <3> QED
      BY <1>2, <2>1, <3>2 DEF HoldsItsRows
  <2> QED
    BY <2>4, <2>5
<1>4. /\ standing' = [m \in Watched |-> standing'[m]]
      /\ reasons' = [m \in Watched |-> reasons'[m]]
      /\ \A m \in Watched \ DOMAIN h.found :
             standing'[m] = standing[m] /\ reasons'[m] = reasons[m]
  BY <1>1
<1> QED
  BY <1>1, <1>3, <1>4, EndKeeps

LEMMA LoseKeeps ==
  ASSUME MonitoringInv, NEW s \in Sweeps, Monitoring!Lose(s) PROVE MonitoringInv'
<1>1. /\ reasons' = [m \in Watched |->
           IF m \in hands[s].sent THEN reasons[m] \union {"lost"} ELSE reasons[m]]
      /\ locks' = Monitoring!Released(s) /\ announced' = announced /\ standing' = standing
      /\ hands' = [hands EXCEPT ![s] = Monitoring!Idle]
  BY DEF Monitoring!Lose, Watched
<1>2. Behind(hands[s]) /\ DOMAIN hands[s].found \subseteq Watched
      /\ standing = [m \in Watched |-> standing[m]]
  BY DEF MonitoringInv, MonitoringTypes, SweepInv, Behind
<1>3. ASSUME NEW m \in DOMAIN hands[s].found, reasons'[m] = {},
             standing'[m].status \in Monitoring!Alertable
      PROVE  announced[m] = standing'[m].status
  <2>1. m \notin hands[s].sent /\ reasons[m] = {} /\ m \in Watched
    BY <1>1, <1>2, <1>3
  <2>2. \A t \in Sweeps : m \notin hands[t].sent
    BY <2>1, OneSender
  <2> QED
    BY <1>1, <1>3, <2>1, <2>2 DEF MonitoringInv, KnownUnlessSent
<1>4. /\ standing' = [m \in Watched |-> standing'[m]]
      /\ reasons' = [m \in Watched |-> reasons'[m]]
      /\ \A m \in Watched \ DOMAIN hands[s].found :
             standing'[m] = standing[m] /\ reasons'[m] = reasons[m]
  BY <1>1, <1>2 DEF Behind
<1> QED
  BY <1>1, <1>3, <1>4, EndKeeps

LEMMA DeliverKeeps ==
  ASSUME MonitoringInv, NEW s \in Sweeps, Monitoring!Deliver(s) PROVE MonitoringInv'
<1> DEFINE sending == IF hands[s].quiet THEN {} ELSE Monitoring!Sending(s)
<1>0. PICK refused \in SUBSET sending :
        /\ hands' = [hands EXCEPT ![s].pc = "committing", ![s].sent = sending \ refused,
                                  ![s].refused = refused]
        /\ announced' = [m \in Watched |-> IF m \in sending \ refused THEN hands[s].found[m]
                                           ELSE announced[m]]
  BY DEF Monitoring!Deliver, Watched
<1> DEFINE out == sending \ refused
           h == [hands[s] EXCEPT !.pc = "committing", !.sent = out, !.refused = refused]
<1>1. /\ hands[s].pc = "judging" /\ hands' = [hands EXCEPT ![s] = h]
      /\ announced' = [m \in Watched |-> IF m \in out THEN hands[s].found[m] ELSE announced[m]]
      /\ UNCHANGED <<standing, locks, reasons>>
  BY <1>0 DEF Monitoring!Deliver, MonitoringInv, MonitoringTypes
<1>2. /\ MonitoringTypes /\ SweepFields(hands[s]) /\ AheadOf(hands[s]) /\ Behind(hands[s])
      /\ HoldsItsRows(s) /\ \A t \in Sweeps : SweepInv(t)
  BY DEF MonitoringInv, MonitoringTypes, SweepInv
<1>3. /\ SweepFields(h) /\ h.todo = hands[s].todo /\ h.found = hands[s].found
      /\ h.seen = hands[s].seen /\ h.changed = hands[s].changed /\ h.sent = out
      /\ h.refused = refused
      /\ h.quiet = hands[s].quiet /\ h.pc = "committing"
  BY <1>2 DEF SweepFields, Stages
<1>4. /\ out \subseteq hands[s].changed
      /\ ~hands[s].quiet => \A m \in hands[s].changed :
             hands[s].found[m] \in {"ok", "error"} => m \in out \union refused
  <2>1. \A m \in Monitoring!Swallowed(Monitoring!View(s), hands[s].found) :
          hands[s].found[m] = "breach"
    BY DEF Monitoring!Swallowed
  <2> QED
    BY <2>1 DEF Monitoring!Sending, Monitoring!Alertable
<1>12. hands[s].quiet => out = {}
  OBVIOUS
<1> HIDE DEF h, out
<1>5. AheadOf(h) /\ Behind(h)
  <2>1. AheadOf(h)
    BY <1>2, <1>3 DEF AheadOf
  <2>2. h.quiet => h.sent = {}
    BY <1>3, <1>12
  <2> QED
    BY <1>2, <1>3, <1>4, <2>1, <2>2 DEF Behind
<1>6. /\ hands' = [t \in Sweeps |-> hands'[t]] /\ hands'[s] = h
      /\ \A t \in Sweeps \ {s} : hands'[t] = hands[t]
  BY <1>1, <1>2 DEF MonitoringTypes
<1>7. /\ out \subseteq DOMAIN hands[s].found /\ DOMAIN hands[s].found \subseteq Watched
      /\ hands[s].sent = {}
  BY <1>1, <1>2, <1>4 DEF Behind
<1>8. MonitoringTypes'
  BY <1>1, <1>2, <1>3, <1>6 DEF MonitoringTypes
<1>9. SweepInv(s)'
  <2>1. HoldsItsRows(s)'
    BY <1>1, <1>2, <1>3, <1>6, <1>7 DEF HoldsItsRows
  <2> QED
    BY <1>5, <1>6, <2>1 DEF SweepInv
<1>10. ASSUME NEW t \in Sweeps \ {s} PROVE SweepInv(t)'
  <2>1. AheadOf(hands[t]) /\ Behind(hands[t]) /\ HoldsItsRows(t) /\ hands'[t] = hands[t]
    BY <1>2, <1>6 DEF SweepInv
  <2>2. ASSUME NEW m \in hands[t].sent PROVE announced'[m] = hands[t].found[m]
    <3>1. m \notin out
      BY <1>7, <2>2, OneSender
    <3>2. m \in Watched /\ announced[m] = hands[t].found[m]
      BY <2>1, <2>2 DEF Behind, HoldsItsRows
    <3> QED
      BY <1>1, <3>1, <3>2
  <2> QED
    BY <1>1, <2>1, <2>2 DEF SweepInv, HoldsItsRows
<1>11. ASSUME NEW m \in Watched PROVE KnownUnlessSent(m)'
  <2>1. CASE m \in out
    BY <1>3, <1>6, <2>1 DEF KnownUnlessSent
  <2>2. CASE m \notin out
    <3>1. announced'[m] = announced[m] /\ KnownUnlessSent(m)
      BY <1>1, <2>2 DEF MonitoringInv
    <3>2. (\A t \in Sweeps : m \notin hands'[t].sent) =>
            (\A t \in Sweeps : m \notin hands[t].sent)
      BY <1>6, <1>7
    <3> QED
      BY <1>1, <3>1, <3>2 DEF KnownUnlessSent
  <2> QED
    BY <2>1, <2>2
<1> QED
  BY <1>8, <1>9, <1>10, <1>11 DEF MonitoringInv

LEMMA MonitoringStep ==
  ASSUME Monitoring!MonitoringAssumption, MonitoringInv,
         [Monitoring!Next]_(Monitoring!vars)
  PROVE  MonitoringInv'
<1>1. ASSUME UNCHANGED <<standing, locks, hands, announced, reasons>> PROVE MonitoringInv'
  <2>1. MonitoringTypes'
    BY <1>1 DEF MonitoringInv, MonitoringTypes
  <2>2. ASSUME NEW s \in Sweeps PROVE SweepInv(s)'
    <3>1. AheadOf(hands[s]) /\ Behind(hands[s]) /\ HoldsItsRows(s)
      BY DEF MonitoringInv, SweepInv
    <3> QED
      BY <1>1, <3>1 DEF SweepInv, HoldsItsRows
  <2>3. ASSUME NEW m \in Watched PROVE KnownUnlessSent(m)'
    BY <1>1 DEF MonitoringInv, KnownUnlessSent
  <2> QED
    BY <2>1, <2>2, <2>3 DEF MonitoringInv
<1>2. ASSUME NEW s \in Sweeps, NEW scope \in Scopes, NEW quiet \in BOOLEAN,
             Monitoring!Start(s, scope, quiet)
      PROVE  MonitoringInv'
  BY <1>2, StartKeeps
<1>3. ASSUME NEW s \in Sweeps,
             \/ Monitoring!Judge(s) \/ Monitoring!Store(s) \/ Monitoring!Deliver(s)
             \/ Monitoring!Commit(s) \/ Monitoring!Lose(s)
      PROVE  MonitoringInv'
  BY <1>3, JudgeKeeps, StoreResultKeeps, DeliverKeeps, CommitSweepKeeps, LoseKeeps
<1>4. ASSUME NEW m \in Watched, Monitoring!Arm(m) PROVE MonitoringInv'
  BY <1>1, <1>4 DEF Monitoring!Arm, Monitoring!Armed
<1>5. ASSUME NEW m \in Watched, NEW v \in Judgements, Monitoring!Change(m, v)
      PROVE  MonitoringInv'
  BY <1>1, <1>5 DEF Monitoring!Change
<1>6. CASE Monitoring!Group \/ Monitoring!Tick \/ UNCHANGED Monitoring!vars
  BY <1>1, <1>6 DEF Monitoring!Group, Monitoring!Tick, Monitoring!vars
<1> QED
  BY <1>2, <1>3, <1>4, <1>5, <1>6 DEF Monitoring!Next, Watched

LEMMA ChannelsAreTold == ASSUME MonitoringInv PROVE Monitoring!ChannelsKnow
<1> SUFFICES ASSUME NEW m \in Watched, Monitoring!Quiescent, reasons[m] = {},
                    standing[m].status \in Monitoring!Alertable
             PROVE  announced[m] = standing[m].status
  BY DEF Monitoring!ChannelsKnow, Watched
<1>1. \A s \in Sweeps : hands[s].sent = {}
  BY DEF Monitoring!Quiescent, MonitoringInv, SweepInv, Behind
<1> QED
  BY <1>1 DEF MonitoringInv, KnownUnlessSent

(* An alert that repeats what the channels were told is one of a change, or    *)
(* the sweep compared with a status that was no longer the monitor's.          *)
LEMMA RepeatsAreStale == ASSUME MonitoringInv PROVE Monitoring!RepeatsOnlyIfStale
<1> SUFFICES ASSUME NEW s \in Sweeps, NEW m \in Monitoring!Sending(s),
                    hands[s].found[m] = announced[m], hands[s].seen[m] = standing[m].status
             PROVE  standing[m].status # announced[m]
  BY DEF Monitoring!RepeatsOnlyIfStale
<1>1. m \in hands[s].changed
  BY DEF Monitoring!Sending
<1>2. hands[s].changed = {k \in DOMAIN hands[s].found : hands[s].seen[k] # hands[s].found[k]}
  BY DEF MonitoringInv, SweepInv, Behind
<1>3. hands[s].seen[m] # hands[s].found[m]
  BY <1>1, <1>2
<1> QED
  BY <1>3

(* What is swallowed has a cause, which is itself in breach and not swallowed. *)
LEMMA CausesAreSent == Monitoring!SomethingIsSent
<1> DEFINE ailing(s) == {m \in DOMAIN hands[s].found : hands[s].found[m] = "breach"}
<1> SUFFICES ASSUME NEW s \in Sweeps, ailing(s) # {},
                    ailing(s) = Monitoring!Breaching(Monitoring!View(s)),
                    ailing(s) \subseteq hands[s].changed
             PROVE  \E m \in ailing(s) : m \in Monitoring!Sending(s)
  BY DEF Monitoring!SomethingIsSent
<1> DEFINE view == Monitoring!View(s)
           swallowed == Monitoring!Swallowed(view, hands[s].found)
<1>1. \A m \in ailing(s) \ swallowed : m \in Monitoring!Sending(s)
  BY DEF Monitoring!Sending, Monitoring!Alertable
<1>2. CASE Monitoring!Causes(view) = {}
  <2>1. swallowed = {}
    BY <1>2 DEF Monitoring!Swallowed
  <2> QED
    BY <1>1, <2>1
<1>3. CASE Monitoring!Causes(view) # {}
  <2>1. PICK c \in Monitoring!Causes(view) : TRUE
    BY <1>3
  <2>2. c \in ailing(s) /\ c \notin Monitoring!Explained(view)
    BY <2>1 DEF Monitoring!Causes
  <2>3. swallowed \subseteq Monitoring!Explained(view)
    BY DEF Monitoring!Swallowed, Monitoring!Consequences
  <2> QED
    BY <1>1, <2>2, <2>3
<1> QED
  BY <1>2, <1>3

HIDE DEF clock, due, standing, locks, hands, opened, left, announced, reasons

MonitoringPart == part = "monitoring" => MonitoringInv

LEMMA MonitoringPartKeeps ==
  /\ Init => MonitoringPart
  /\ MonitoringPart /\ [Next]_all => MonitoringPart'
<1>1. Init => MonitoringPart
  BY MonitoringStarts DEF Init, MonitoringPart
<1>2. ASSUME MonitoringPart, [Next]_all PROVE MonitoringPart'
  <2>1. part' = part /\ (part = "monitoring" => [Monitoring!Next]_(Monitoring!vars))
    <3>1. CASE UNCHANGED all
      BY <3>1 DEF all, slots, Monitoring!vars
    <3>2. CASE Next
      BY <3>2 DEF Next
    <3> QED
      BY <1>2, <3>1, <3>2
  <2> QED
    BY <1>2, <2>1, WatchAssumption, MonitoringStep DEF MonitoringPart
<1> QED
  BY <1>1, <1>2

(* For any monitors, lineage, schedules and overlaps: the channels know what  *)
(* status a monitor holds, or the model names why not (checks.py              *)
(* store_result, alerts.py deliver, cli.py apply).                            *)
THEOREM WatchChannelsKnow == Spec => []ChannelsKnow
<1>1. MonitoringPart => ChannelsKnow
  BY ChannelsAreTold DEF MonitoringPart, ChannelsKnow
<1> QED
  BY <1>1, MonitoringPartKeeps, PTL DEF Spec

(* For the same: no alert repeats the last one unless its sweep had listed a  *)
(* status that is no longer held or the channels had missed one, and where    *)
(* everything broken is new something is sent (incidents.py suppress).        *)
THEOREM WatchAlertsAreSent == Spec => AlertsAreSent
<1>1. MonitoringPart /\ [Next]_all =>
        [part = "monitoring" => Monitoring!RepeatsOnlyIfStale /\ Monitoring!SomethingIsSent]_all
  BY RepeatsAreStale, CausesAreSent DEF MonitoringPart
<1> QED
  BY <1>1, MonitoringPartKeeps, PTL DEF Spec, AlertsAreSent

-----------------------------------------------------------------------------
(* MonitorFiles: a monitor's row names the file that declared it last, and a   *)
(* monitor that runs is armed, about to be, or was cut off.                    *)

texts == v1
monitorRows == v2
named == v3
armedWith == v4
toArm == v5
inSync == v7
declaredIn == v8
cutOff == v9
USE DEF texts, monitorRows, named, armedWith, toArm, inSync, declaredIn, cutOff

FilesTypes ==
  /\ texts = [f \in MonitorFiles!Files |-> texts[f]]
  /\ \A f \in MonitorFiles!Files :
       /\ texts[f].specs = [m \in DOMAIN texts[f].specs |-> texts[f].specs[m]]
       /\ texts[f].reads # "monitors" => texts[f].specs = <<>>
  /\ \A m \in DOMAIN monitorRows :
       /\ monitorRows[m] = [source |-> monitorRows[m].source,
                              version |-> monitorRows[m].version,
                            enabled |-> monitorRows[m].enabled]
       /\ monitorRows[m].enabled \in BOOLEAN

SourceIsHome ==
  \A m \in DOMAIN monitorRows :
    /\ m \in DOMAIN declaredIn /\ declaredIn[m] = monitorRows[m].source
    /\ monitorRows[m].source \in MonitorFiles!Files

FilesInv ==
  FilesTypes /\ SourceIsHome /\ MonitorFiles!DirectoryStands /\ MonitorFiles!RunningIsArmed

LEMMA FilesStart == ASSUME MonitorFiles!Init PROVE FilesInv
<1>1. /\ texts = [f \in MonitorFiles!Files |-> MonitorFiles!Blank]
      /\ monitorRows = <<>> /\ inSync = FALSE
  BY DEF MonitorFiles!Init
<1>2. DOMAIN monitorRows = {} /\ <<>> = [m \in DOMAIN <<>> |-> <<>>[m]]
  BY <1>1
<1>3. FilesTypes
  BY <1>1, <1>2 DEF FilesTypes, MonitorFiles!Blank
<1> QED
  BY <1>1, <1>2, <1>3 DEF FilesInv, SourceIsHome, MonitorFiles!DirectoryStands,
                          MonitorFiles!RunningIsArmed, MonitorFiles!Enabled

(* Whoever declares a monitor is among the files that are ours.                *)
LEMMA DeclaredSomewhere ==
  ASSUME NEW path, NEW m \in MonitorFiles!Declared(path)
  PROVE  /\ MonitorFiles!FileOf(path, m) \in MonitorFiles!Ours(path)
         /\ m \in DOMAIN texts[MonitorFiles!FileOf(path, m)].specs
<1>1. \E f \in MonitorFiles!Ours(path) : m \in DOMAIN texts[f].specs
  BY DEF MonitorFiles!Declared
<1> QED
  BY <1>1 DEF MonitorFiles!FileOf

LEMMA ApplyIs ==
  ASSUME FilesInv, NEW path \in SUBSET MonitorFiles!Files, NEW prune \in BOOLEAN,
         NEW backfill \in BOOLEAN, MonitorFiles!Apply(path, prune, backfill)
  PROVE  /\ \A m \in MonitorFiles!Declared(path) :
              /\ m \in DOMAIN monitorRows' /\ m \in DOMAIN declaredIn'
              /\ monitorRows'[m] = MonitorFiles!Upserted(path, m)
              /\ declaredIn'[m] = MonitorFiles!FileOf(path, m)
         /\ \A m \in DOMAIN monitorRows' \ MonitorFiles!Declared(path) :
              /\ m \in DOMAIN monitorRows
              /\ monitorRows'[m].source = monitorRows[m].source
              /\ monitorRows'[m].version = monitorRows[m].version
              /\ monitorRows'[m].enabled \in BOOLEAN
              /\ monitorRows'[m].enabled <=>
                   monitorRows[m].enabled /\ m \notin MonitorFiles!Stale(path)
              /\ monitorRows'[m] = [source |-> monitorRows'[m].source,
                   version |-> monitorRows'[m].version, enabled |-> monitorRows'[m].enabled]
         /\ \A m \in DOMAIN monitorRows \ MonitorFiles!Stale(path) : m \in DOMAIN monitorRows'
         /\ \A m \in DOMAIN declaredIn \ MonitorFiles!Declared(path) :
              m \in DOMAIN declaredIn' /\ declaredIn'[m] = declaredIn[m]
         /\ \A m \in DOMAIN armedWith \ MonitorFiles!Stale(path) :
              m \in DOMAIN armedWith' /\ armedWith'[m] = armedWith[m]
<1> DEFINE declared == MonitorFiles!Declared(path)
           stale == MonitorFiles!Stale(path)
           gone == IF prune THEN stale ELSE {}
<1>1. /\ monitorRows' = [m \in (DOMAIN monitorRows \union declared) \ gone |->
           IF m \in declared THEN MonitorFiles!Upserted(path, m)
           ELSE [monitorRows[m] EXCEPT !.enabled = @ /\ m \notin stale]]
      /\ declaredIn' = [m \in DOMAIN declaredIn \union declared |->
           IF m \in declared THEN MonitorFiles!FileOf(path, m) ELSE declaredIn[m]]
      /\ armedWith' = [m \in DOMAIN armedWith \ gone |-> armedWith[m]]
  BY DEF MonitorFiles!Apply, MonitorFiles!Reconciled
<1>2. stale \intersect declared = {} /\ gone \subseteq stale
  BY DEF MonitorFiles!Stale
<1> HIDE DEF declared, stale, gone
<1>3. \A m \in declared :
        /\ m \in DOMAIN monitorRows' /\ m \in DOMAIN declaredIn'
        /\ monitorRows'[m] = MonitorFiles!Upserted(path, m)
        /\ declaredIn'[m] = MonitorFiles!FileOf(path, m)
  BY <1>1, <1>2
<1>4. ASSUME NEW m \in DOMAIN monitorRows' \ declared
      PROVE  /\ m \in DOMAIN monitorRows
             /\ monitorRows'[m].source = monitorRows[m].source
             /\ monitorRows'[m].version = monitorRows[m].version
             /\ monitorRows'[m].enabled \in BOOLEAN
             /\ monitorRows'[m].enabled <=> monitorRows[m].enabled /\ m \notin stale
             /\ monitorRows'[m] = [source |-> monitorRows'[m].source,
                  version |-> monitorRows'[m].version, enabled |-> monitorRows'[m].enabled]
  <2>1. m \in DOMAIN monitorRows
    BY <1>1
  <2> DEFINE old == monitorRows[m]
             on == old.enabled /\ m \notin stale
  <2>2. /\ old = [source |-> old.source, version |-> old.version, enabled |-> old.enabled]
        /\ old.enabled \in BOOLEAN
    BY <2>1 DEF FilesInv, FilesTypes
  <2>3. monitorRows'[m] = [old EXCEPT !.enabled = on]
    BY <1>1
  <2>4. on \in BOOLEAN
    OBVIOUS
  <2> HIDE DEF on
  <2>5. monitorRows'[m] = [source |-> old.source, version |-> old.version, enabled |-> on]
    BY <2>2, <2>3
  <2>6. /\ monitorRows'[m].enabled = on /\ monitorRows'[m].source = old.source
        /\ monitorRows'[m].version = old.version
    BY <2>5
  <2>7. monitorRows'[m].enabled <=> old.enabled /\ m \notin stale
    BY <2>4, <2>6, Zenon DEF on
  <2> QED
    BY <2>1, <2>4, <2>5, <2>6, <2>7
<1>5. \A m \in DOMAIN monitorRows \ stale : m \in DOMAIN monitorRows'
  BY <1>1, <1>2
<1>6. \A m \in DOMAIN declaredIn \ declared :
        m \in DOMAIN declaredIn' /\ declaredIn'[m] = declaredIn[m]
  BY <1>1
<1>7. \A m \in DOMAIN armedWith \ stale :
        m \in DOMAIN armedWith' /\ armedWith'[m] = armedWith[m]
  BY <1>1, <1>2
<1> QED
  BY <1>3, <1>4, <1>5, <1>6, <1>7 DEF declared, stale

LEMMA ApplyKeeps ==
  ASSUME FilesInv, NEW path \in SUBSET MonitorFiles!Files, NEW prune \in BOOLEAN,
         NEW backfill \in BOOLEAN, MonitorFiles!Apply(path, prune, backfill)
  PROVE  FilesInv'
<1> DEFINE declared == MonitorFiles!Declared(path)
<1>1. FilesTypes /\ SourceIsHome /\ MonitorFiles!RunningIsArmed
  BY DEF FilesInv
<1>2. /\ toArm = {} /\ MonitorFiles!Loads(path)
      /\ \A m : m \notin toArm' /\ m \notin cutOff' =>
                  m \notin MonitorFiles!Changed(path) /\ m \notin cutOff
      /\ texts' = texts
  BY DEF MonitorFiles!Apply, MonitorFiles!ToArm
<1>3. \A m \in declared : MonitorFiles!FileOf(path, m) \in MonitorFiles!Files
  BY DeclaredSomewhere DEF MonitorFiles!Ours, MonitorFiles!Present
<1>4. \A m \in declared :
        MonitorFiles!Upserted(path, m) =
             [source |-> MonitorFiles!FileOf(path, m),
              version |-> MonitorFiles!SpecOf(path, m),
              enabled |-> MonitorFiles!SpecOf(path, m) \notin Off]
  BY DEF MonitorFiles!Upserted
<1>9. ASSUME NEW m \in declared
      PROVE  /\ m \in DOMAIN monitorRows'
             /\ monitorRows'[m].version = MonitorFiles!SpecOf(path, m)
             /\ monitorRows'[m].enabled = (MonitorFiles!SpecOf(path, m) \notin Off)
  <2> DEFINE f == MonitorFiles!FileOf(path, m)
             v == MonitorFiles!SpecOf(path, m)
             on == v \notin Off
  <2>1. monitorRows'[m] = [source |-> f, version |-> v, enabled |-> on]
    BY <1>4, <1>9, ApplyIs
  <2>2. m \in DOMAIN monitorRows'
    BY <1>9, ApplyIs
  <2> HIDE DEF f, v, on
  <2>3. monitorRows'[m].version = v /\ monitorRows'[m].enabled = on
    BY <2>1
  <2> QED
    BY <2>2, <2>3 DEF v, on
<1>5. FilesTypes'
  <2>1. ASSUME NEW m \in DOMAIN monitorRows'
        PROVE  /\ monitorRows'[m] = [source |-> monitorRows'[m].source,
                    version |-> monitorRows'[m].version, enabled |-> monitorRows'[m].enabled]
               /\ monitorRows'[m].enabled \in BOOLEAN
    <3>1. CASE m \in declared
      <4>1. monitorRows'[m] = MonitorFiles!Upserted(path, m)
        BY <3>1, ApplyIs
      <4> DEFINE f == MonitorFiles!FileOf(path, m)
                 v == MonitorFiles!SpecOf(path, m)
                 on == v \notin Off
      <4>2. monitorRows'[m] = [source |-> f, version |-> v, enabled |-> on]
        BY <1>4, <3>1, <4>1
      <4>3. on \in BOOLEAN
        OBVIOUS
      <4> HIDE DEF f, v, on
      <4> QED
        BY <4>2, <4>3
    <3>2. CASE m \notin declared
      BY <3>2, ApplyIs
    <3> QED
      BY <3>1, <3>2
  <2>2. texts' = [f \in MonitorFiles!Files |-> texts'[f]]
    BY <1>1, <1>2 DEF FilesTypes
  <2> QED
    BY <1>1, <1>2, <2>1, <2>2 DEF FilesTypes
<1>6. SourceIsHome'
  BY <1>1, <1>3, <1>4, ApplyIs DEF SourceIsHome
<1>7. MonitorFiles!RunningIsArmed'
  <2> SUFFICES ASSUME NEW m \in DOMAIN monitorRows', monitorRows'[m].enabled,
                      m \notin toArm', m \notin cutOff'
               PROVE  m \in DOMAIN armedWith' /\ armedWith'[m] = monitorRows'[m].version
    BY DEF MonitorFiles!RunningIsArmed, MonitorFiles!Enabled
  <2>1. m \notin cutOff
    BY <1>2
  <2>2. /\ m \in DOMAIN monitorRows /\ monitorRows[m].enabled
        /\ m \notin MonitorFiles!Stale(path)
        /\ monitorRows'[m].version = monitorRows[m].version
    <3>1. CASE m \in declared
      <4>1. m \in DOMAIN monitorRows /\ monitorRows[m].enabled
            /\ monitorRows[m].version = MonitorFiles!SpecOf(path, m)
        <5>1. monitorRows'[m].enabled = (MonitorFiles!SpecOf(path, m) \notin Off)
          BY <1>9, <3>1
        <5>2. m \notin MonitorFiles!Changed(path)
          BY <1>2
        <5> QED
          BY <3>1, <5>1, <5>2 DEF MonitorFiles!Changed
      <4> QED
        BY <1>4, <3>1, <4>1, ApplyIs DEF MonitorFiles!Stale
    <3>2. CASE m \notin declared
      BY <3>2, ApplyIs
    <3> QED
      BY <3>1, <3>2
  <2>3. m \in DOMAIN armedWith /\ armedWith[m] = monitorRows[m].version
    BY <1>1, <1>2, <2>1, <2>2 DEF MonitorFiles!RunningIsArmed, MonitorFiles!Enabled
  <2> QED
    BY <2>2, <2>3, ApplyIs
<1>8. MonitorFiles!DirectoryStands'
  <2> SUFFICES ASSUME inSync' PROVE MonitorFiles!DirectoryStands'
    BY DEF MonitorFiles!DirectoryStands
  <2>1. path = MonitorFiles!Files
    BY DEF MonitorFiles!Apply
  <2>2. /\ MonitorFiles!Declared(path)' = declared
        /\ \A m : MonitorFiles!FileOf(path, m)' = MonitorFiles!FileOf(path, m)
        /\ MonitorFiles!Annotating(path)' = MonitorFiles!Annotating(path)
    BY <1>2 DEF MonitorFiles!Declared, MonitorFiles!Ours, MonitorFiles!Present,
                MonitorFiles!FileOf,
                MonitorFiles!Annotating
  <2>6. \A m : MonitorFiles!SpecOf(path, m)' = MonitorFiles!SpecOf(path, m)
    BY <1>2, <2>2 DEF MonitorFiles!SpecOf
  <2>3. \A m \in declared :
          /\ monitorRows'[m].version = MonitorFiles!SpecOf(path, m)
          /\ m \in MonitorFiles!Enabled' <=> MonitorFiles!SpecOf(path, m) \notin Off
    BY <1>9 DEF MonitorFiles!Enabled
  <2>4. ASSUME NEW m \in DOMAIN monitorRows' \ declared, monitorRows'[m].enabled
        PROVE  texts'[declaredIn'[m]].specs = <<>>
    <3> DEFINE f == monitorRows[m].source
    <3>1. /\ m \in DOMAIN monitorRows /\ m \notin MonitorFiles!Stale(path)
          /\ m \in DOMAIN declaredIn /\ declaredIn[m] = f /\ declaredIn'[m] = f
          /\ f \in MonitorFiles!Files
      BY <1>1, <2>4, ApplyIs DEF SourceIsHome
    <3>2. f \notin MonitorFiles!Sources(path)
      BY <2>4, <3>1 DEF MonitorFiles!Stale
    <3> HIDE DEF f
    <3>3. ASSUME NEW k \in DOMAIN texts[f].specs PROVE FALSE
      <4>1. texts[f].specs # <<>>
        BY <3>3
      <4>2. f \in MonitorFiles!Ours(path)
        BY <1>1, <2>1, <3>1, <4>1 DEF FilesTypes, MonitorFiles!Ours, MonitorFiles!Present
      <4>3. k \in declared
        BY <3>3, <4>2 DEF MonitorFiles!Declared
      <4>4. MonitorFiles!FileOf(path, k) = f
        BY <1>2, <3>3, <4>2, <4>3, DeclaredSomewhere
           DEF MonitorFiles!Loads, MonitorFiles!Duplicated
      <4> QED
        BY <3>2, <4>3, <4>4 DEF MonitorFiles!Sources
    <3>4. texts[f].specs = <<>>
      <4>1. DOMAIN texts[f].specs = {}
        BY <3>3
      <4>2. texts[f].specs = [x \in {} |-> texts[f].specs[x]]
        BY <1>1, <3>1, <4>1 DEF FilesTypes
      <4> QED
        BY <4>2
    <3> QED
      BY <1>2, <3>1, <3>4
  <2>5. MonitorFiles!Annotating(path) # {} => named' = MonitorFiles!Annotated(path)'
    <3>1. named' = MonitorFiles!Annotated(path)
      BY DEF MonitorFiles!Apply
    <3> QED
      BY <2>2, <3>1 DEF MonitorFiles!Annotated
  <2>7. \A m : m \in MonitorFiles!Wanted' <=>
                  m \in declared /\ MonitorFiles!SpecOf(path, m) \notin Off
    BY <2>1, <2>2, <2>6 DEF MonitorFiles!Wanted
  <2>8. MonitorFiles!Wanted' \subseteq MonitorFiles!Enabled'
    BY <2>3, <2>7
  <2>9. \A m \in MonitorFiles!Enabled' \ MonitorFiles!Wanted' :
           texts'[declaredIn'[m]].specs = <<>>
    BY <2>3, <2>4, <2>7 DEF MonitorFiles!Enabled
  <2>10. \A m \in MonitorFiles!Declared(path)' :
           monitorRows'[m].version = MonitorFiles!SpecOf(path, m)'
    BY <2>2, <2>3, <2>6
  <2>11. ASSUME MonitorFiles!Annotating(MonitorFiles!Files)' # {}
         PROVE  named' = MonitorFiles!Annotated(MonitorFiles!Files)'
    BY <2>1, <2>2, <2>5, <2>11
  <2>12. \A m \in MonitorFiles!Declared(MonitorFiles!Files)' :
           monitorRows'[m].version = MonitorFiles!SpecOf(MonitorFiles!Files, m)'
    BY <2>1, <2>10
  <2> QED
    BY <2>8, <2>9, <2>11, <2>12
       DEF MonitorFiles!DirectoryStands, MonitorFiles!Emptied
<1> QED
  BY <1>5, <1>6, <1>7, <1>8 DEF FilesInv

LEMMA ApplyLeaves ==
  ASSUME FilesInv, NEW path \in SUBSET MonitorFiles!Files, NEW prune \in BOOLEAN,
         NEW backfill \in BOOLEAN, MonitorFiles!Apply(path, prune, backfill)
  PROVE  MonitorFiles!LeavesOthersAlone
<1> SUFFICES ASSUME NEW m \in MonitorFiles!Enabled \ MonitorFiles!Enabled',
                    ~ (/\ m \in DOMAIN texts[declaredIn'[m]].specs
                       /\ texts[declaredIn'[m]].specs[m] \in Off)
             PROVE  m \notin DOMAIN texts[declaredIn[m]].specs
  BY DEF MonitorFiles!LeavesOthersAlone
<1>1. m \notin MonitorFiles!Declared(path)
  <2>1. SUFFICES ASSUME m \in MonitorFiles!Declared(path) PROVE FALSE
    OBVIOUS
  <2>2. /\ m \in DOMAIN monitorRows' /\ monitorRows'[m] = MonitorFiles!Upserted(path, m)
        /\ declaredIn'[m] = MonitorFiles!FileOf(path, m)
    BY <2>1, ApplyIs
  <2>3. MonitorFiles!Upserted(path, m).enabled = (MonitorFiles!SpecOf(path, m) \notin Off)
    BY DEF MonitorFiles!Upserted
  <2>4. MonitorFiles!SpecOf(path, m) \in Off
    BY <2>2, <2>3 DEF MonitorFiles!Enabled
  <2> QED
    BY <2>1, <2>2, <2>4, DeclaredSomewhere DEF MonitorFiles!SpecOf
<1>2. m \in MonitorFiles!Stale(path)
  <2>1. SUFFICES ASSUME m \notin MonitorFiles!Stale(path) PROVE m \in MonitorFiles!Enabled'
    OBVIOUS
  <2>2. m \in DOMAIN monitorRows /\ monitorRows[m].enabled
    BY DEF MonitorFiles!Enabled
  <2>3. m \in DOMAIN monitorRows'
    BY <2>1, <2>2, ApplyIs
  <2>4. monitorRows'[m].enabled
    BY <1>1, <2>1, <2>2, <2>3, ApplyIs
  <2> QED
    BY <2>3, <2>4 DEF MonitorFiles!Enabled
<1>3. declaredIn[m] \in MonitorFiles!Sources(path)
  BY <1>2 DEF MonitorFiles!Stale, FilesInv, SourceIsHome
<1>4. declaredIn[m] \in MonitorFiles!Ours(path)
  BY <1>3, DeclaredSomewhere DEF MonitorFiles!Sources
<1> QED
  BY <1>1, <1>4 DEF MonitorFiles!Declared

LEMMA FilesStep ==
  ASSUME FilesInv, [MonitorFiles!Next]_(MonitorFiles!vars)
  PROVE  FilesInv' /\ MonitorFiles!LeavesOthersAlone
<1>1. ASSUME NEW f \in MonitorFiles!Files, MonitorFiles!Edit(f)
      PROVE  FilesInv' /\ MonitorFiles!LeavesOthersAlone
  <2>1. PICK reads \in MonitorFiles!Readings, specs \in MonitorFiles!Specs, owns \in BOOLEAN :
          /\ reads = "monitors" \/ specs = <<>>
          /\ texts' = [texts EXCEPT ![f] = [reads |-> reads, specs |-> specs, owns |-> owns]]
    BY <1>1 DEF MonitorFiles!Edit
  <2>2. inSync' = FALSE /\ UNCHANGED <<monitorRows, armedWith, toArm, declaredIn, cutOff>>
    BY <1>1 DEF MonitorFiles!Edit
  <2>3. specs = [m \in DOMAIN specs |-> specs[m]]
    BY DEF MonitorFiles!Specs
  <2>4. FilesTypes'
    BY <2>1, <2>2, <2>3 DEF FilesInv, FilesTypes
  <2>5. SourceIsHome' /\ MonitorFiles!RunningIsArmed' /\ MonitorFiles!DirectoryStands'
    BY <2>2 DEF FilesInv, SourceIsHome, MonitorFiles!RunningIsArmed, MonitorFiles!Enabled,
                MonitorFiles!DirectoryStands
  <2>6. MonitorFiles!LeavesOthersAlone
    BY <2>2 DEF MonitorFiles!LeavesOthersAlone, MonitorFiles!Enabled
  <2> QED
    BY <2>4, <2>5, <2>6 DEF FilesInv
<1>2. ASSUME NEW path \in {MonitorFiles!Files} \union {{f} : f \in MonitorFiles!Files},
             NEW prune \in BOOLEAN, NEW backfill \in BOOLEAN,
             MonitorFiles!Apply(path, prune, backfill)
      PROVE  FilesInv' /\ MonitorFiles!LeavesOthersAlone
  <2>1. path \in SUBSET MonitorFiles!Files
    OBVIOUS
  <2> QED
    BY <1>2, <2>1, ApplyKeeps, ApplyLeaves
<1>3. ASSUME UNCHANGED <<texts, monitorRows, named, inSync, declaredIn>>
      PROVE  /\ FilesTypes' /\ SourceIsHome' /\ MonitorFiles!DirectoryStands'
             /\ MonitorFiles!LeavesOthersAlone
  <2>1. FilesTypes' /\ SourceIsHome'
    BY <1>3 DEF FilesInv, FilesTypes, SourceIsHome
  <2>2. MonitorFiles!LeavesOthersAlone
    BY <1>3 DEF MonitorFiles!LeavesOthersAlone, MonitorFiles!Enabled
  <2>3. /\ \A path : MonitorFiles!Declared(path)' = MonitorFiles!Declared(path)
        /\ \A path, m : MonitorFiles!FileOf(path, m)' = MonitorFiles!FileOf(path, m)
    BY <1>3 DEF MonitorFiles!Declared, MonitorFiles!Ours, MonitorFiles!Present,
                MonitorFiles!FileOf
  <2>4. /\ \A path : MonitorFiles!Annotating(path)' = MonitorFiles!Annotating(path)
        /\ \A path : MonitorFiles!Annotated(path)' = MonitorFiles!Annotated(path)
    BY <1>3 DEF MonitorFiles!Present, MonitorFiles!Annotating, MonitorFiles!Annotated
  <2>6. \A path, m : MonitorFiles!SpecOf(path, m)' = MonitorFiles!SpecOf(path, m)
    BY <1>3, <2>3 DEF MonitorFiles!SpecOf
  <2>7. MonitorFiles!Wanted' = MonitorFiles!Wanted
    BY <2>3, <2>6 DEF MonitorFiles!Wanted
  <2>5. MonitorFiles!DirectoryStands'
    BY <1>3, <2>3, <2>4, <2>6, <2>7 DEF FilesInv, MonitorFiles!DirectoryStands, MonitorFiles!Enabled,
                            MonitorFiles!Emptied
  <2> QED
    BY <2>1, <2>2, <2>5
<1>4. CASE MonitorFiles!Arm
  <2> DEFINE now == toArm \intersect MonitorFiles!Enabled
  <2>1. /\ armedWith' = [m \in DOMAIN armedWith \union now |->
                          IF m \in now THEN monitorRows[m].version ELSE armedWith[m]]
        /\ toArm' = {} /\ UNCHANGED <<texts, monitorRows, named, inSync, declaredIn, cutOff>>
    BY <1>4 DEF MonitorFiles!Arm
  <2>2. MonitorFiles!RunningIsArmed'
    BY <2>1 DEF FilesInv, MonitorFiles!RunningIsArmed, MonitorFiles!Enabled
  <2> QED
    BY <1>3, <2>1, <2>2 DEF FilesInv
<1>5. CASE MonitorFiles!Interrupt
  <2>1. /\ cutOff' = cutOff \union toArm /\ toArm' = {}
        /\ UNCHANGED <<texts, monitorRows, named, inSync, declaredIn, armedWith>>
    BY <1>5 DEF MonitorFiles!Interrupt
  <2>2. MonitorFiles!RunningIsArmed'
    BY <2>1 DEF FilesInv, MonitorFiles!RunningIsArmed, MonitorFiles!Enabled
  <2> QED
    BY <1>3, <2>1, <2>2 DEF FilesInv
<1>6. CASE UNCHANGED MonitorFiles!vars
  <2>1. UNCHANGED <<texts, monitorRows, named, armedWith, toArm, inSync, declaredIn, cutOff>>
    BY <1>6 DEF MonitorFiles!vars
  <2>2. MonitorFiles!RunningIsArmed'
    BY <2>1 DEF FilesInv, MonitorFiles!RunningIsArmed, MonitorFiles!Enabled
  <2> QED
    BY <1>3, <2>1, <2>2 DEF FilesInv
<1> QED
  BY <1>1, <1>2, <1>4, <1>5, <1>6 DEF MonitorFiles!Next

HIDE DEF texts, monitorRows, named, armedWith, toArm, inSync, declaredIn, cutOff

FilesPart == part = "files" => FilesInv

(* For any directory, monitors and order of edits and applies: after the      *)
(* whole directory was applied what runs is what the files declare, what runs *)
(* is armed as declared unless its arming was cut off, and applying one file  *)
(* leaves the monitors of the others alone (monitors.py apply_specs, cli.py   *)
(* apply).                                                                    *)
THEOREM WatchFilesAreInForce == Spec => FilesAreInForce
<1>1. Init => FilesPart
  BY FilesStart DEF Init, FilesPart
<1>2. ASSUME FilesPart, [Next]_all
      PROVE  FilesPart' /\ (part = "files" => MonitorFiles!LeavesOthersAlone)
  <2>1. part' = part /\ (part = "files" => [MonitorFiles!Next]_(MonitorFiles!vars))
    <3>1. CASE UNCHANGED all
      BY <3>1 DEF all, slots, MonitorFiles!vars
    <3>2. CASE Next
      BY <3>2 DEF Next
    <3> QED
      BY <1>2, <3>1, <3>2
  <2> QED
    BY <1>2, <2>1, FilesStep DEF FilesPart
<1>3. FilesPart => (part = "files" => MonitorFiles!AppliedNow)
  BY DEF FilesPart, FilesInv, MonitorFiles!AppliedNow
<1>4. FilesPart /\ [Next]_all =>
        FilesPart' /\ [part = "files" => MonitorFiles!LeavesOthersAlone]_all
  BY <1>2
<1> QED
  BY <1>1, <1>3, <1>4, PTL DEF Spec, FilesAreInForce

-----------------------------------------------------------------------------
(* Observing: a tree that was not seen midway has no point but that of its     *)
(* last write, and the gap of a narrow window, where there is one, is that of  *)
(* the archive.                                                                *)

instant == v1
writes == v2
points == v3
labelled == v4
midway == v5
whole == v6
USE DEF instant, writes, points, labelled, midway, whole

Gaps == Nat \union {Nothing}
Marks == {"none", "expected", "anomaly"}

ObservedTypes ==
  /\ instant \in Nat
  /\ writes = [t \in Trees |-> writes[t]]
  /\ \A t \in Trees : writes[t] \subseteq 1..instant
  /\ points = [k \in DOMAIN points |-> points[k]]
  /\ \A k \in DOMAIN points : /\ k = <<k[1], k[2]>> /\ k[2] \in Trees /\ k[1] \in writes[k[2]]
                              /\ points[k] \in [gap : Gaps, feedback : Marks]

\* A label is on a point, and there is one to a tree.
LabelsAreOnPoints ==
  \A l \in labelled : /\ <<l[2], l[1]>> \in DOMAIN points
                      /\ points[<<l[2], l[1]>>].feedback = l[3]

NewestOnly ==
  \A k \in DOMAIN points : k[2] \notin midway => k[1] = Observing!Written(k[2])

\* After the whole archive every tree has its point, and its gap if there is one.
AllMeasured ==
  whole => \A t \in Trees : writes[t] # {} =>
    /\ <<Observing!Written(t), t>> \in DOMAIN points
    /\ Observing!GapOf(t, 0) # Nothing =>
         points[<<Observing!Written(t), t>>].gap = Observing!GapOf(t, 0)

ObservedInv == ObservedTypes /\ LabelsAreOnPoints /\ NewestOnly /\ AllMeasured

LEMMA GreatestIs ==
  ASSUME NEW n \in Nat, NEW S \in SUBSET (1..n), S # {}
  PROVE  Observing!Greatest(S) \in S /\ \A at \in S : at <= Observing!Greatest(S)
<1>1. S \in SUBSET Nat /\ \A at \in S : at <= n
  OBVIOUS
<1> QED
  BY <1>1, GreatestIsChosen DEF Observing!Greatest

LEMMA WrittenIs ==
  ASSUME ObservedTypes, NEW t \in Trees, writes[t] # {}
  PROVE  /\ Observing!Written(t) \in writes[t] /\ Observing!Written(t) \in 1..instant
         /\ \A at \in writes[t] : at <= Observing!Written(t)
<1> DEFINE S == writes[t]
<1>1. S \in SUBSET Nat /\ S # {} /\ instant \in Nat /\ \A at \in S :
        at <= instant /\ at \in 1..instant
  BY DEF ObservedTypes
<1>2. Observing!Written(t) = CHOOSE x \in S : \A y \in S : y <= x
  BY DEF Observing!Written, Observing!Greatest
<1> HIDE DEF S
<1>3. Observing!Written(t) \in S /\ \A at \in S : at <= Observing!Written(t)
  BY <1>1, <1>2, GreatestIsChosen
<1> QED
  BY <1>1, <1>3 DEF S

(* The gap since the write before, as far as the window shows one.             *)
LEMMA GapIs ==
  ASSUME ObservedTypes, NEW t \in Trees, writes[t] # {}, NEW since \in Int
  PROVE  \/ /\ Observing!GapOf(t, since) = Nothing
            /\ \A v \in Observing!Collected(since) :
                   ~(Observing!Written(v) < Observing!Written(t))
         \/ \E v \in Observing!Collected(since) :
              /\ Observing!Written(v) < Observing!Written(t)
              /\ Observing!GapOf(t, since) = Observing!Written(t) - Observing!Written(v)
              /\ Observing!GapOf(t, since) \in Nat
              /\ \A u \in Observing!Collected(since) :
                   Observing!Written(u) < Observing!Written(t) =>
                     Observing!Written(u) <= Observing!Written(v)
<1> DEFINE before == {Observing!Written(u) : u \in {v \in Observing!Collected(since) :
                        Observing!Written(v) < Observing!Written(t)}}
           last == CHOOSE x \in before : \A y \in before : y <= x
<1>1. /\ Observing!Written(t) \in Nat /\ instant \in Nat
      /\ \A v \in Observing!Collected(since) : Observing!Written(v) \in 1..instant
  BY WrittenIs DEF ObservedTypes, Observing!Collected
<1>2. before \in SUBSET Nat /\ \A y \in before : y <= instant
  BY <1>1
<1>3. Observing!GapOf(t, since) =
        IF before = {} THEN Nothing ELSE Observing!Written(t) - last
  BY DEF Observing!GapOf, Observing!Greatest
<1>4. CASE before = {}
  BY <1>3, <1>4
<1>5. CASE before # {}
  <2>1. last \in before /\ \A y \in before : y <= last
    <3> HIDE DEF before
    <3> QED
      BY <1>1, <1>2, <1>5, GreatestIsChosen
  <2>2. Observing!GapOf(t, since) = Observing!Written(t) - last
    BY <1>3, <1>5
  <2> HIDE DEF last
  <2>3. PICK v \in Observing!Collected(since) :
          Observing!Written(v) < Observing!Written(t) /\ last = Observing!Written(v)
    BY <2>1
  <2>4. Observing!GapOf(t, since) \in Nat
    BY <1>1, <2>2, <2>3
  <2> QED
    BY <2>1, <2>2, <2>3, <2>4
<1> QED
  BY <1>4, <1>5

(* A gap that a window shows is the gap, and one that reaches back to the      *)
(* beginning shows them all.                                                   *)
LEMMA NarrowGap ==
  ASSUME ObservedTypes, Nothing \notin Nat, NEW since \in Int,
         NEW t \in Observing!Collected(since)
  PROVE  Observing!GapOf(t, since) \in {Nothing, Observing!GapOf(t, 0)}
<1>1. t \in Trees /\ writes[t] # {}
  BY DEF Observing!Collected
<1>2. /\ Observing!Written(t) \in Int
      /\ \A u \in Observing!Collected(since) :
             u \in Observing!Collected(0) /\ Observing!Written(u) \in Int
      /\ \A u \in Observing!Collected(0) :
           Observing!Written(u) >= since => u \in Observing!Collected(since)
      /\ \A u \in Observing!Collected(0) : Observing!Written(u) \in Int
  BY <1>1, WrittenIs DEF ObservedTypes, Observing!Collected
<1>3. ASSUME NEW v \in Observing!Collected(since),
             Observing!Written(v) < Observing!Written(t),
             Observing!GapOf(t, since) = Observing!Written(t) - Observing!Written(v),
             \A u \in Observing!Collected(since) :
               Observing!Written(u) < Observing!Written(t) =>
                 Observing!Written(u) <= Observing!Written(v)
      PROVE  Observing!GapOf(t, since) = Observing!GapOf(t, 0)
  <2>1. PICK w \in Observing!Collected(0) :
          /\ Observing!Written(w) < Observing!Written(t)
          /\ Observing!GapOf(t, 0) = Observing!Written(t) - Observing!Written(w)
          /\ \A u \in Observing!Collected(0) :
               Observing!Written(u) < Observing!Written(t) =>
                 Observing!Written(u) <= Observing!Written(w)
    BY <1>1, <1>2, <1>3, GapIs, 0 \in Int
  <2>2. Observing!Written(v) <= Observing!Written(w)
    BY <1>2, <1>3, <2>1
  <2>3. Observing!Written(v) >= since
    BY DEF Observing!Collected
  <2>4. w \in Observing!Collected(since)
    BY <1>2, <2>1, <2>2, <2>3
  <2>5. Observing!Written(w) = Observing!Written(v)
    BY <1>2, <1>3, <2>1, <2>2, <2>4
  <2> QED
    BY <1>3, <2>1, <2>5
<1> QED
  BY <1>1, <1>3, GapIs

LEMMA WholeGap ==
  ASSUME ObservedTypes, NEW since \in Int, since <= 1
  PROVE  /\ Observing!Collected(since) = {t \in Trees : writes[t] # {}}
         /\ \A t : Observing!GapOf(t, since) = Observing!GapOf(t, 0)
<1>1. \A t \in Trees : writes[t] # {} =>
        Observing!Written(t) \in Nat /\ Observing!Written(t) >= 1
  BY WrittenIs DEF ObservedTypes
<1>2. /\ Observing!Collected(since) = {t \in Trees : writes[t] # {}}
      /\ Observing!Collected(0) = {t \in Trees : writes[t] # {}}
  BY <1>1 DEF Observing!Collected
<1> QED
  BY <1>2 DEF Observing!GapOf

LEMMA ObservedStarts == ASSUME Observing!Init PROVE ObservedInv
<1>1. /\ instant = 1 /\ writes = [t \in Trees |-> {}]
      /\ points = <<>> /\ labelled = {} /\ whole = FALSE
  BY DEF Observing!Init
<1>2. DOMAIN points = {} /\ points = [k \in DOMAIN points |-> points[k]]
  BY <1>1
<1> QED
  BY <1>1, <1>2 DEF ObservedInv, ObservedTypes, LabelsAreOnPoints, NewestOnly, AllMeasured

LEMMA CompleteKeeps ==
  ASSUME ObservedInv, NEW t \in Trees, Observing!Complete(t) PROVE ObservedInv'
<1>1. PICK at \in 1..instant :
        /\ writes' = [writes EXCEPT ![t] = @ \union {at}]
        /\ midway' = IF /\ writes[t] # {} /\ at > Observing!Greatest(writes[t])
                        /\ <<Observing!Greatest(writes[t]), t>> \in DOMAIN points
                     THEN midway \union {t} ELSE midway
  BY DEF Observing!Complete
<1>2. whole' = FALSE /\ UNCHANGED <<instant, points, labelled>>
  BY DEF Observing!Complete
<1>3. ObservedTypes /\ LabelsAreOnPoints /\ NewestOnly
  BY DEF ObservedInv
<1>4. \A u \in Trees : writes'[u] = IF u = t THEN writes[t] \union {at} ELSE writes[u]
  BY <1>1, <1>3 DEF ObservedTypes
<1>5. ObservedTypes'
  <2>1. writes' = [u \in Trees |-> writes'[u]]
    BY <1>1, <1>3 DEF ObservedTypes
  <2>2. \A u \in Trees : writes'[u] \subseteq 1..instant /\ writes[u] \subseteq writes'[u]
    BY <1>3, <1>4 DEF ObservedTypes
  <2> QED
    BY <1>2, <1>3, <2>1, <2>2 DEF ObservedTypes
<1>6. ASSUME NEW k \in DOMAIN points, k[2] \notin midway'
      PROVE  k[1] = Observing!Written(k[2])'
  <2>1. k[2] \notin midway /\ k[1] = Observing!Written(k[2]) /\ k[2] \in Trees
        /\ k[1] \in writes[k[2]] /\ k = <<k[1], k[2]>>
    BY <1>1, <1>3, <1>6 DEF ObservedTypes, NewestOnly
  <2>2. CASE k[2] # t
    <3>1. writes'[k[2]] = writes[k[2]]
      BY <1>4, <2>1, <2>2
    <3>2. Observing!Written(k[2])' = Observing!Written(k[2])
      BY <3>1 DEF Observing!Written, Observing!Greatest
    <3> QED
      BY <2>1, <3>2
  <2>3. CASE k[2] = t
    <3>1. /\ k[1] = Observing!Written(t) /\ writes[t] # {} /\ <<k[1], t>> \in DOMAIN points
          /\ Observing!Written(t) = Observing!Greatest(writes[t])
      BY <2>1, <2>3 DEF Observing!Written
    <3>2. ~(at > Observing!Written(t))
      BY <1>1, <1>6, <2>3, <3>1
    <3>3. /\ Observing!Written(t) \in writes[t] /\ Observing!Written(t) \in Nat
          /\ \A y \in writes[t] : y <= Observing!Written(t) /\ y \in Nat
      <4>1. instant \in Nat /\ writes[t] \in SUBSET (1..instant)
        BY <1>3 DEF ObservedTypes
      <4>2. /\ Observing!Greatest(writes[t]) \in writes[t]
            /\ \A y \in writes[t] : y <= Observing!Greatest(writes[t])
        BY <3>1, <4>1, GreatestIs
      <4>3. \A y \in writes[t] : y \in Nat
        BY <4>1
      <4> QED
        BY <3>1, <4>2, <4>3
    <3>4. /\ writes'[t] # {} /\ Observing!Written(t)' \in writes'[t]
          /\ \A y \in writes'[t] : y <= Observing!Written(t)'
          /\ Observing!Written(t)' \in Nat
      <4>1. instant \in Nat /\ writes'[t] \in SUBSET (1..instant) /\ writes'[t] # {}
        BY <1>3, <1>4 DEF ObservedTypes
      <4>2. Observing!Written(t)' = Observing!Greatest(writes'[t])
        BY DEF Observing!Written, Observing!Greatest
      <4>3. /\ Observing!Greatest(writes'[t]) \in writes'[t]
            /\ \A y \in writes'[t] : y <= Observing!Greatest(writes'[t])
        BY <4>1, GreatestIs
      <4>4. \A y \in writes'[t] : y \in Nat
        BY <4>1
      <4> QED
        BY <4>1, <4>2, <4>3, <4>4
    <3>5. Observing!Written(t)' = Observing!Written(t)
      BY <1>4, <3>2, <3>3, <3>4
    <3> QED
      BY <2>3, <3>1, <3>5
  <2> QED
    BY <2>2, <2>3
<1>7. NewestOnly'
  BY <1>2, <1>6 DEF NewestOnly
<1>8. LabelsAreOnPoints' /\ AllMeasured'
  BY <1>2, <1>3 DEF LabelsAreOnPoints, AllMeasured
<1> QED
  BY <1>5, <1>7, <1>8 DEF ObservedInv

(* What a check stores, point by point.                                        *)
LEMMA StoreIs ==
  ASSUME ObservedInv, Nothing \notin Nat, NEW since \in Int, Observing!Store(since)
  PROVE  /\ points' = [k \in DOMAIN points' |-> points'[k]]
         /\ DOMAIN points \subseteq DOMAIN points'
         /\ \A k \in DOMAIN points' \ DOMAIN points :
              \E t \in Observing!Collected(since) : k = <<Observing!Written(t), t>>
         /\ \A t \in Observing!Collected(since) : <<Observing!Written(t), t>> \in DOMAIN points'
         /\ \A k \in DOMAIN points' : points'[k] \in [gap : Gaps, feedback : Marks]
         /\ \A k \in DOMAIN points :
              /\ points'[k].feedback = points[k].feedback
              /\ points[k].gap # Nothing => points'[k].gap # Nothing
         /\ \A t \in Observing!Collected(since) : Observing!GapOf(t, since) # Nothing =>
              points'[<<Observing!Written(t), t>>].gap = Observing!GapOf(t, since)
         /\ \A k \in DOMAIN points :
              points'[k].gap # points[k].gap =>
                \E t \in Observing!Collected(since) :
                  /\ k = <<Observing!Written(t), t>>
                  /\ Observing!GapOf(t, since) # Nothing
                  /\ points'[k].gap = Observing!GapOf(t, since)
<1> DEFINE found == {<<Observing!Written(t), t>> : t \in Observing!Collected(since)}
           gap(k) == Observing!GapOf(k[2], since)
           stored(k) == [gap |-> IF k \in DOMAIN points
                                 THEN Observing!Corrected(points[k].gap, gap(k)) ELSE gap(k),
                         feedback |-> Observing!Feedback(k)]
<1>1. points' = [k \in DOMAIN points \union found |->
                   IF k \notin found THEN points[k] ELSE stored(k)]
  BY DEF Observing!Store
<1>2. ObservedTypes
  BY DEF ObservedInv
<1>3. \A t \in Observing!Collected(since) : t \in Trees /\ writes[t] # {}
  BY DEF Observing!Collected
<1>4. \A t \in Observing!Collected(since) : Observing!GapOf(t, since) \in Gaps
  BY <1>2, <1>3, GapIs DEF Gaps
<1>5. \A k \in found : gap(k) \in Gaps /\ k[2] \in Observing!Collected(since)
                       /\ k = <<Observing!Written(k[2]), k[2]>>
  BY <1>4
<1>6. DOMAIN points' = DOMAIN points \union found
  BY <1>1
<1>7. \A k \in DOMAIN points \ found : points'[k] = points[k]
  BY <1>1
<1>8. \A k \in found : points'[k] = stored(k)
  BY <1>1
<1>9. \A k \in DOMAIN points : points[k].gap \in Gaps /\ points[k].feedback \in Marks
                               /\ points[k] \in [gap : Gaps, feedback : Marks]
  BY <1>2 DEF ObservedTypes
<1>10. \A k \in found : stored(k).feedback = Observing!Feedback(k)
         /\ Observing!Feedback(k) \in Marks
  BY <1>9 DEF Observing!Feedback, Marks
<1>11. ASSUME NEW k \in found
       PROVE  /\ stored(k).gap \in Gaps
              /\ gap(k) # Nothing => stored(k).gap = gap(k)
              /\ gap(k) = Nothing /\ k \in DOMAIN points => stored(k).gap = points[k].gap
  BY <1>5, <1>9 DEF Observing!Corrected
<1>12. \A k \in found : stored(k) \in [gap : Gaps, feedback : Marks]
  BY <1>10, <1>11
<1>13. \A t \in Observing!Collected(since) :
         /\ <<Observing!Written(t), t>> \in found
         /\ gap(<<Observing!Written(t), t>>) = Observing!GapOf(t, since)
  OBVIOUS
<1>14. \A k \in DOMAIN points \intersect found : Observing!Feedback(k) = points[k].feedback
  BY DEF Observing!Feedback
<1>15. points' = [k \in DOMAIN points' |-> points'[k]]
  BY <1>1
<1>16. \A k \in DOMAIN points' \ DOMAIN points :
         \E t \in Observing!Collected(since) : k = <<Observing!Written(t), t>>
  BY <1>5, <1>6
<1> HIDE DEF found, stored, gap
<1>17. \A k \in DOMAIN points' : points'[k] \in [gap : Gaps, feedback : Marks]
  BY <1>6, <1>7, <1>8, <1>9, <1>12
<1>18. \A k \in DOMAIN points : points'[k].feedback = points[k].feedback
  BY <1>7, <1>8, <1>10, <1>14
<1>19. \A k \in DOMAIN points : points[k].gap # Nothing => points'[k].gap # Nothing
  BY <1>7, <1>8, <1>11
<1>20. \A t \in Observing!Collected(since) : Observing!GapOf(t, since) # Nothing =>
         points'[<<Observing!Written(t), t>>].gap = Observing!GapOf(t, since)
  BY <1>8, <1>11, <1>13
<1>21. ASSUME NEW k \in DOMAIN points, points'[k].gap # points[k].gap
       PROVE  \E t \in Observing!Collected(since) :
                /\ k = <<Observing!Written(t), t>>
                /\ Observing!GapOf(t, since) # Nothing
                /\ points'[k].gap = Observing!GapOf(t, since)
  <2>1. k \in found /\ gap(k) # Nothing /\ points'[k].gap = gap(k)
    BY <1>7, <1>8, <1>11, <1>21
  <2>2. k[2] \in Observing!Collected(since) /\ k = <<Observing!Written(k[2]), k[2]>>
    BY <1>5, <2>1
  <2> QED
    BY <2>1, <2>2 DEF gap
<1> QED
  BY <1>6, <1>13, <1>15, <1>16, <1>17, <1>18, <1>19, <1>20, <1>21

LEMMA StoreKeeps ==
  ASSUME ObservedInv, Nothing \notin Nat, NEW since \in Int, Observing!Store(since),
         UNCHANGED <<instant, writes, labelled, midway>>,
         whole' => whole \/ since <= 1
  PROVE  ObservedInv'
<1>1. ObservedTypes /\ LabelsAreOnPoints /\ NewestOnly /\ AllMeasured
  BY DEF ObservedInv
<1>2. /\ points' = [k \in DOMAIN points' |-> points'[k]]
      /\ DOMAIN points \subseteq DOMAIN points'
      /\ \A k \in DOMAIN points' \ DOMAIN points :
           \E t \in Observing!Collected(since) : k = <<Observing!Written(t), t>>
      /\ \A t \in Observing!Collected(since) : <<Observing!Written(t), t>> \in DOMAIN points'
      /\ \A k \in DOMAIN points' : points'[k] \in [gap : Gaps, feedback : Marks]
      /\ \A k \in DOMAIN points : points'[k].feedback = points[k].feedback
  BY StoreIs
<1>3. \A t \in Observing!Collected(since) :
        t \in Trees /\ writes[t] # {} /\ Observing!Written(t) \in writes[t]
  BY <1>1, WrittenIs DEF Observing!Collected
<1>4. /\ \A t : Observing!Written(t)' = Observing!Written(t)
      /\ \A t : Observing!GapOf(t, 0)' = Observing!GapOf(t, 0)
  BY DEF Observing!Written, Observing!GapOf, Observing!Collected, Observing!Greatest
<1>5. ObservedTypes'
  <2>1. ASSUME NEW k \in DOMAIN points'
        PROVE  k = <<k[1], k[2]>> /\ k[2] \in Trees /\ k[1] \in writes[k[2]]
    <3>1. CASE k \in DOMAIN points
      BY <1>1, <3>1 DEF ObservedTypes
    <3>2. CASE k \notin DOMAIN points
      BY <1>2, <1>3, <3>2
    <3> QED
      BY <3>1, <3>2
  <2> QED
    BY <1>1, <1>2, <2>1 DEF ObservedTypes
<1>6. LabelsAreOnPoints'
  BY <1>1, <1>2 DEF LabelsAreOnPoints
<1>7. NewestOnly'
  BY <1>1, <1>2, <1>4 DEF NewestOnly
<1>8. AllMeasured'
  <2> SUFFICES ASSUME whole', NEW t \in Trees, writes[t] # {}
               PROVE  /\ <<Observing!Written(t), t>> \in DOMAIN points'
                      /\ Observing!GapOf(t, 0) # Nothing =>
                           points'[<<Observing!Written(t), t>>].gap = Observing!GapOf(t, 0)
    BY <1>4 DEF AllMeasured
  <2>1. CASE since <= 1
    <3>1. t \in Observing!Collected(since) /\ Observing!GapOf(t, since) = Observing!GapOf(t, 0)
      BY <1>1, <2>1, WholeGap
    <3>2. Observing!GapOf(t, since) # Nothing =>
            points'[<<Observing!Written(t), t>>].gap = Observing!GapOf(t, since)
      BY <3>1, StoreIs
    <3> QED
      BY <1>2, <3>1, <3>2
  <2>2. CASE whole
    <3> DEFINE k == <<Observing!Written(t), t>>
    <3>1. /\ k \in DOMAIN points
          /\ Observing!GapOf(t, 0) # Nothing => points[k].gap = Observing!GapOf(t, 0)
      BY <1>1, <2>2 DEF AllMeasured
    <3>2. CASE points'[k].gap = points[k].gap
      BY <1>2, <3>1, <3>2
    <3>3. CASE points'[k].gap # points[k].gap
      <4>1. PICK u \in Observing!Collected(since) :
              /\ k = <<Observing!Written(u), u>> /\ Observing!GapOf(u, since) # Nothing
              /\ points'[k].gap = Observing!GapOf(u, since)
        BY <3>1, <3>3, StoreIs
      <4>2. u = t
        BY <4>1
      <4>3. Observing!GapOf(t, since) = Observing!GapOf(t, 0)
        BY <1>1, <4>1, <4>2, NarrowGap
      <4> QED
        BY <1>2, <3>1, <4>1, <4>2, <4>3
    <3> QED
      BY <3>2, <3>3
  <2> QED
    BY <2>1, <2>2
<1> QED
  BY <1>5, <1>6, <1>7, <1>8 DEF ObservedInv

LEMMA LabelKeeps ==
  ASSUME ObservedInv, NEW t \in Trees, Observing!Label(t)
  PROVE  /\ ObservedInv'
         /\ \A k \in DOMAIN points : points'[k].gap = points[k].gap
<1>1. PICK mark \in {"expected", "anomaly"} :
        /\ <<Observing!Written(t), t>> \in DOMAIN points
        /\ t \notin {l[1] : l \in labelled}
        /\ labelled' = labelled \union {<<t, Observing!Written(t), mark>>}
        /\ points' = [k \in DOMAIN points |->
                       IF k[2] = t THEN [points[k] EXCEPT !.feedback = mark] ELSE points[k]]
  BY DEF Observing!Label
<1>2. UNCHANGED <<instant, writes, midway, whole>>
  BY DEF Observing!Label
<1>3. ObservedTypes /\ LabelsAreOnPoints /\ NewestOnly /\ AllMeasured
  BY DEF ObservedInv
<1>4. \A k \in DOMAIN points : points[k] \in [gap : Gaps, feedback : Marks]
  BY <1>3 DEF ObservedTypes
<1>5. DOMAIN points' = DOMAIN points
  BY <1>1
<1>6. ASSUME NEW k \in DOMAIN points
      PROVE  /\ points'[k] \in [gap : Gaps, feedback : Marks] /\ points'[k].gap = points[k].gap
             /\ k[2] # t => points'[k] = points[k]
             /\ k[2] = t => points'[k].feedback = mark
  BY <1>1, <1>4 DEF Marks
<1>7. ObservedTypes'
  BY <1>1, <1>2, <1>3, <1>5, <1>6 DEF ObservedTypes
<1>8. LabelsAreOnPoints'
  <2>1. ASSUME NEW l \in labelled
        PROVE  <<l[2], l[1]>> \in DOMAIN points /\ points'[<<l[2], l[1]>>].feedback = l[3]
    <3>1. l[1] # t /\ <<l[2], l[1]>> \in DOMAIN points /\ points[<<l[2], l[1]>>].feedback = l[3]
      BY <1>1, <1>3 DEF LabelsAreOnPoints
    <3> QED
      BY <1>6, <3>1
  <2> DEFINE new == <<t, Observing!Written(t), mark>>
  <2>2. /\ <<new[2], new[1]>> \in DOMAIN points
        /\ points'[<<new[2], new[1]>>].feedback = new[3]
    BY <1>1, <1>6
  <2>3. \A l \in labelled' : l \in labelled \/ l = new
    BY <1>1
  <2> HIDE DEF new
  <2> QED
    BY <1>5, <2>1, <2>2, <2>3 DEF LabelsAreOnPoints
<1>9. NewestOnly'
  BY <1>2, <1>3, <1>5 DEF NewestOnly, Observing!Written, Observing!Greatest
<1>10. AllMeasured'
  <2>1. /\ \A u : Observing!Written(u)' = Observing!Written(u)
        /\ \A u : Observing!GapOf(u, 0)' = Observing!GapOf(u, 0)
    BY <1>2 DEF Observing!Written, Observing!GapOf, Observing!Collected, Observing!Greatest
  <2> QED
    BY <1>2, <1>3, <1>5, <1>6, <2>1 DEF AllMeasured
<1> QED
  BY <1>6, <1>7, <1>8, <1>9, <1>10 DEF ObservedInv

LEMMA ObservedStep ==
  ASSUME Observing!ObservingAssumption, ObservedInv, [Observing!Next]_(Observing!vars)
  PROVE  ObservedInv' /\ Observing!KeepsGaps
<1>1. Nothing \notin Nat /\ Window \in Nat /\ instant \in Nat
  BY DEF Observing!ObservingAssumption, ObservedInv, ObservedTypes
<1>2. ASSUME NEW t \in Trees, Observing!Complete(t) PROVE ObservedInv' /\ Observing!KeepsGaps
  <2>1. points' = points
    BY <1>2 DEF Observing!Complete
  <2> QED
    BY <1>2, <2>1, CompleteKeeps DEF Observing!KeepsGaps
<1>3. ASSUME NEW t \in Trees, Observing!Label(t) PROVE ObservedInv' /\ Observing!KeepsGaps
  BY <1>3, LabelKeeps DEF Observing!KeepsGaps
<1>4. CASE Observing!Check
  <2>1. /\ Observing!Store(instant - Window) /\ whole' = (whole \/ instant - Window <= 1)
        /\ UNCHANGED <<instant, writes, labelled, midway>>
    BY <1>4, Zenon DEF Observing!Check
  <2>2. instant - Window \in Int
    BY <1>1
  <2> QED
    BY <1>1, <2>1, <2>2, StoreKeeps, StoreIs DEF Observing!KeepsGaps
<1>5. CASE Observing!Arm
  <2>1. Observing!Store(0) /\ UNCHANGED <<instant, writes, labelled, midway>>
    BY <1>5 DEF Observing!Arm
  <2> QED
    BY <1>1, <2>1, StoreKeeps, StoreIs DEF Observing!KeepsGaps
<1>6. CASE Observing!Tick \/ UNCHANGED Observing!vars
  <2>1. /\ UNCHANGED <<writes, points, labelled, midway, whole>>
        /\ instant' \in {instant, instant + 1}
    BY <1>6 DEF Observing!Tick, Observing!vars
  <2>2. /\ \A u : Observing!Written(u)' = Observing!Written(u)
        /\ \A u : Observing!GapOf(u, 0)' = Observing!GapOf(u, 0)
    BY <2>1 DEF Observing!Written, Observing!GapOf, Observing!Collected, Observing!Greatest
  <2>3. ObservedTypes'
    <3>1. instant' \in Nat /\ 1..instant \subseteq 1..instant'
      BY <1>1, <2>1
    <3> QED
      BY <2>1, <3>1 DEF ObservedInv, ObservedTypes
  <2> QED
    BY <2>1, <2>2, <2>3 DEF ObservedInv, LabelsAreOnPoints, NewestOnly, AllMeasured,
                            Observing!KeepsGaps
<1> QED
  BY <1>2, <1>3, <1>4, <1>5, <1>6 DEF Observing!Next

LEMMA ObservedIsTrue == ASSUME ObservedInv PROVE Observing!TrueNow
<1>1. Observing!GapsAreTrue
  BY DEF ObservedInv, AllMeasured, Observing!GapsAreTrue
<1>2. Observing!LabelsStick
  BY DEF ObservedInv, LabelsAreOnPoints, Observing!LabelsStick
<1>3. Observing!ExtraPointsOnlyMidway
  BY DEF ObservedInv, ObservedTypes, NewestOnly, Observing!ExtraPointsOnlyMidway
<1> QED
  BY <1>1, <1>2, <1>3 DEF Observing!TrueNow

HIDE DEF instant, writes, points, labelled, midway, whole

ObservingPart == part = "observing" => ObservedInv

(* For any trees, windows, labels and lateness: after a check of the whole    *)
(* archive every gap is that of the table, a narrow window takes none back,   *)
(* a label outlives every collection, and a tree has one point unless it was  *)
(* seen midway (checks.py collect, store_points).                             *)
THEOREM WatchHistoryIsTrue == Spec => HistoryIsTrue
<1>1. Init => ObservingPart
  BY ObservedStarts DEF Init, ObservingPart
<1>2. ASSUME ObservingPart, [Next]_all
      PROVE  ObservingPart' /\ (part = "observing" => Observing!KeepsGaps)
  <2>1. part' = part /\ (part = "observing" => [Observing!Next]_(Observing!vars))
    <3>1. CASE UNCHANGED all
      BY <3>1 DEF all, slots, Observing!vars
    <3>2. CASE Next
      BY <3>2 DEF Next
    <3> QED
      BY <1>2, <3>1, <3>2
  <2> QED
    BY <1>2, <2>1, WatchAssumption, ObservedStep DEF ObservingPart
<1>3. ObservingPart => (part = "observing" => Observing!TrueNow)
  BY ObservedIsTrue DEF ObservingPart
<1>4. ObservingPart /\ [Next]_all =>
        ObservingPart' /\ [part = "observing" => Observing!KeepsGaps]_all
  BY <1>2
<1> QED
  BY <1>1, <1>3, <1>4, PTL DEF Spec, HistoryIsTrue

-----------------------------------------------------------------------------
(* SchemaDrift: what a producer took away is named as soon as its observation *)
(* is evaluated, because the one compared with is its last; and as long as no *)
(* column is dropped, what is observed only grows.                           *)

table == v1
seen == v2
judged == v3
noticed == v4
pending == v5
prompt == v6
changes == v7
dropped == v8
USE DEF table, seen, judged, noticed, pending, prompt, changes, dropped

Observation == [reporter : Reporters, columns : UNION {[S -> Reporters] : S \in SUBSET Columns}]

SchemaTypes ==
  /\ seen \in Seq(Observation)
  /\ \A i \in 1..Len(seen) :
         seen[i].columns = [c \in DOMAIN seen[i].columns |-> seen[i].reporter]
  /\ table \subseteq Columns /\ noticed \subseteq Columns
  /\ pending \in Nat /\ prompt \in BOOLEAN /\ dropped \in BOOLEAN

\* What observation j lacks of i, its producer's.
Lost(i, j, c) ==
  /\ i < j /\ seen[i].reporter = seen[j].reporter
  /\ c \in DOMAIN seen[i].columns /\ c \notin DOMAIN seen[j].columns

\* Evaluated or not, no column is missed but those of the newest observation.
NoticedInTime ==
  prompt => /\ pending \in {0, 1}
            /\ \A i, j \in 1..Len(seen) : \A c \in Columns :
                 (j <= Len(seen) - pending /\ Lost(i, j, c)) => c \in noticed

OnlyGrows ==
  ~dropped => /\ judged # "breach"
              /\ \A i \in 1..Len(seen) : DOMAIN seen[i].columns \subseteq table
              /\ \A i, j \in 1..Len(seen) :
                   i <= j => DOMAIN seen[i].columns \subseteq DOMAIN seen[j].columns

SchemaInv == SchemaTypes /\ NoticedInTime /\ OnlyGrows

LEMMA ObservedColumns ==
  ASSUME NEW o \in Observation PROVE DOMAIN o.columns \subseteq Columns
<1>1. PICK S \in SUBSET Columns : o.columns \in [S -> Reporters]
  BY DEF Observation
<1> QED
  BY <1>1

LEMMA SchemaStarts == ASSUME SchemaDrift!Init PROVE SchemaInv
<1>1. /\ table = Columns /\ seen = <<>> /\ judged = "insufficient_data"
      /\ noticed = {} /\ pending = 0 /\ prompt = TRUE /\ dropped = FALSE
  BY DEF SchemaDrift!Init
<1>2. seen \in Seq(Observation) /\ 1..Len(seen) = {}
  BY <1>1
<1>3. SchemaTypes
  BY <1>1, <1>2 DEF SchemaTypes
<1> QED
  BY <1>1, <1>2, <1>3 DEF SchemaInv, NoticedInTime, OnlyGrows

LEMMA EvaluateKeeps == ASSUME SchemaInv, SchemaDrift!Evaluate PROVE SchemaInv'
<1> DEFINE n == Len(seen)
           earlier == SchemaDrift!EarlierBySame(n)
           k == CHOOSE i \in earlier : \A j \in earlier : j <= i
           breaking == IF earlier = {} THEN {}
                       ELSE SchemaDrift!Removed(seen[k].columns, seen[n].columns)
                              \union SchemaDrift!Retyped(seen[k].columns, seen[n].columns)
<1>1. /\ seen # <<>> /\ UNCHANGED <<table, seen, prompt, dropped>> /\ pending' = 0
      /\ judged' = IF breaking = {} THEN "ok" ELSE "breach"
      /\ noticed' = noticed \union breaking
  BY DEF SchemaDrift!Evaluate
<1>2. SchemaTypes /\ n \in 1..Len(seen)
  <2>1. SchemaTypes
    BY DEF SchemaInv
  <2>2. seen \in Seq(Observation)
    BY <2>1 DEF SchemaTypes
  <2>3. \A s \in Seq(Observation) : s # <<>> => Len(s) \in Nat \ {0}
    BY EmptySeq
  <2> QED
    BY <1>1, <2>1, <2>2, <2>3
<1>3. \A i \in 1..n : DOMAIN seen[i].columns \subseteq Columns
  BY <1>2, ObservedColumns DEF SchemaTypes
<1>4. earlier # {} => /\ k \in 1..(n - 1) /\ seen[k].reporter = seen[n].reporter
                      /\ \A i \in earlier : i <= k
  <2>1. earlier \in SUBSET Nat /\ n \in Nat /\ \A i \in earlier : i <= n
    BY <1>2 DEF SchemaDrift!EarlierBySame
  <2>2. earlier # {} => k \in earlier /\ \A i \in earlier : i <= k
    <3> HIDE DEF earlier
    <3> QED
      BY <2>1, GreatestIsChosen
  <2> QED
    BY <2>2 DEF SchemaDrift!EarlierBySame
<1>5. earlier # {} => SchemaDrift!Retyped(seen[k].columns, seen[n].columns) = {}
  <2>1. n \in Nat /\ k \in 1..(n - 1) => k \in 1..n
    BY <1>2
  <2>2. ASSUME earlier # {}, NEW c \in DOMAIN seen[k].columns \intersect DOMAIN seen[n].columns
        PROVE  seen[k].columns[c] = seen[n].columns[c]
    <3>1. \A i \in 1..n : \A d \in DOMAIN seen[i].columns :
            seen[i].columns[d] = seen[i].reporter
      BY <1>2 DEF SchemaTypes
    <3>2. k \in 1..n /\ seen[k].reporter = seen[n].reporter
      BY <1>2, <1>4, <2>1, <2>2
    <3> QED
      BY <1>2, <2>2, <3>1, <3>2
  <2> QED
    BY <2>2 DEF SchemaDrift!Retyped
<1> HIDE DEF k
<1>6. SchemaTypes'
  <2>1. breaking \subseteq Columns
    <3>1. CASE earlier # {}
      <4>1. k \in 1..n
        BY <1>2, <1>4, <3>1
      <4> QED
        BY <1>3, <1>5, <4>1 DEF SchemaDrift!Removed
    <3> QED
      BY <3>1
  <2> QED
    BY <1>1, <1>2, <2>1 DEF SchemaTypes
<1>7. NoticedInTime'
  <2> SUFFICES ASSUME prompt, NEW i \in 1..n, NEW j \in 1..n, NEW c \in Columns, Lost(i, j, c)
               PROVE  c \in noticed'
    BY <1>1 DEF NoticedInTime, Lost
  <2>1. pending \in {0, 1} /\ \A x, y \in 1..n :
          y <= n - pending /\ Lost(x, y, c) => c \in noticed
    BY DEF SchemaInv, NoticedInTime
  <2>2. CASE j <= n - pending
    BY <1>1, <2>1, <2>2
  <2>3. CASE j > n - pending
    <3>1. j = n /\ pending = 1
      BY <1>2, <2>1, <2>3
    <3>2. i \in earlier /\ i <= n - 1
      BY <1>2, <3>1 DEF Lost, SchemaDrift!EarlierBySame
    <3>3. k \in 1..(n - 1) /\ seen[k].reporter = seen[n].reporter /\ i <= k
      BY <1>4, <3>2
    <3>4. CASE c \in DOMAIN seen[k].columns
      <4>1. c \in breaking
        BY <3>1, <3>2, <3>4 DEF Lost, SchemaDrift!Removed
      <4> QED
        BY <1>1, <4>1
    <3>5. CASE c \notin DOMAIN seen[k].columns
      <4>1. Lost(i, k, c) /\ k \in 1..n /\ k <= n - pending
        <5>1. i # k
          BY <3>5 DEF Lost
        <5> QED
          BY <1>2, <3>1, <3>3, <3>5, <5>1 DEF Lost
      <4> QED
        BY <1>1, <2>1, <4>1
    <3> QED
      BY <3>4, <3>5
  <2> QED
    BY <1>2, <2>1, <2>2, <2>3
<1>8. OnlyGrows'
  <2>1. ASSUME ~dropped, earlier # {} PROVE breaking = {}
    <3>1. DOMAIN seen[k].columns \subseteq DOMAIN seen[n].columns
      <4>1. k \in 1..n /\ k <= n
        BY <1>2, <1>4, <2>1
      <4> QED
        BY <1>2, <2>1, <4>1 DEF SchemaInv, OnlyGrows
    <3> QED
      BY <1>5, <2>1, <3>1 DEF SchemaDrift!Removed
  <2> QED
    BY <1>1, <2>1 DEF SchemaInv, OnlyGrows
<1> QED
  BY <1>6, <1>7, <1>8 DEF SchemaInv

LEMMA ObserveKeeps ==
  ASSUME SchemaInv, NEW r \in Reporters, SchemaDrift!Observe(r) PROVE SchemaInv'
<1> DEFINE n == Len(seen)
           o == [reporter |-> r, columns |-> [c \in table |-> r]]
<1>1. /\ seen' = Append(seen, o) /\ pending' = pending + 1
      /\ prompt' = (prompt /\ pending = 0)
      /\ UNCHANGED <<table, judged, noticed, dropped>>
  BY DEF SchemaDrift!Observe
<1>2. SchemaTypes /\ n \in Nat
  BY DEF SchemaInv, SchemaTypes
<1>3. o \in Observation /\ DOMAIN o.columns = table
  <2>1. table \in SUBSET Columns
    BY <1>2 DEF SchemaTypes
  <2>2. o.columns \in UNION {[S -> Reporters] : S \in SUBSET Columns}
    BY <2>1
  <2> QED
    BY <2>2 DEF Observation
<1>4. /\ seen' \in Seq(Observation) /\ Len(seen') = n + 1
      /\ seen'[n + 1] = o
      /\ \A i \in 1..n : seen'[i] = seen[i]
  BY <1>1, <1>2, <1>3 DEF SchemaTypes
<1>5. \A i \in 1..(n + 1) : i \in 1..n \/ i = n + 1
  BY <1>2
<1>6. SchemaTypes'
  <2>1. \A i \in 1..n : seen'[i].columns = [c \in DOMAIN seen'[i].columns |-> seen'[i].reporter]
    BY <1>2, <1>4 DEF SchemaTypes
  <2>2. o.columns = [c \in DOMAIN o.columns |-> o.reporter]
    OBVIOUS
  <2>3. \A i \in 1..(n + 1) :
          seen'[i].columns = [c \in DOMAIN seen'[i].columns |-> seen'[i].reporter]
    BY <1>4, <1>5, <2>1, <2>2
  <2>4. pending' \in Nat /\ prompt' \in BOOLEAN
    BY <1>1, <1>2 DEF SchemaTypes
  <2>5. table' \subseteq Columns /\ noticed' \subseteq Columns /\ dropped' \in BOOLEAN
    BY <1>1, <1>2 DEF SchemaTypes
  <2>6. \A i \in 1..Len(seen') :
          seen'[i].columns = [c \in DOMAIN seen'[i].columns |-> seen'[i].reporter]
    BY <1>4, <2>3
  <2> QED
    BY <1>4, <2>4, <2>5, <2>6 DEF SchemaTypes
<1>7. NoticedInTime'
  <2>1. prompt' => prompt /\ pending = 0 /\ pending' = 1
    <3>1. prompt' => prompt /\ pending = 0
      BY <1>1, Zenon
    <3> QED
      BY <1>1, <3>1
  <2>2. ASSUME prompt', NEW i \in 1..(n + 1), NEW j \in 1..(n + 1), NEW c \in Columns,
               j <= n + 1 - pending', Lost(i, j, c)'
        PROVE  c \in noticed'
    <3>1. i \in 1..n /\ j \in 1..n /\ j <= n - pending
      BY <1>2, <2>1, <2>2 DEF Lost
    <3>2. Lost(i, j, c)
      BY <1>4, <2>2, <3>1 DEF Lost
    <3> QED
      BY <1>1, <2>1, <2>2, <3>1, <3>2 DEF SchemaInv, NoticedInTime
  <2> QED
    BY <1>4, <2>1, <2>2 DEF NoticedInTime
<1>8. OnlyGrows'
  BY <1>1, <1>2, <1>3, <1>4, <1>5 DEF SchemaInv, OnlyGrows
<1> QED
  BY <1>6, <1>7, <1>8 DEF SchemaInv

LEMMA SchemaStep ==
  ASSUME SchemaInv, [SchemaDrift!Next]_(SchemaDrift!vars) PROVE SchemaInv'
<1>1. CASE SchemaDrift!Alter
  <2>1. UNCHANGED <<seen, judged, noticed, pending, prompt>>
    BY <1>1 DEF SchemaDrift!Alter
  <2>2. PICK c \in Columns :
          /\ table' = IF c \in table THEN table \ {c} ELSE table \union {c}
          /\ dropped' = (dropped \/ c \in table)
    BY <1>1 DEF SchemaDrift!Alter
  <2>3. SchemaTypes'
    BY <2>1, <2>2 DEF SchemaInv, SchemaTypes
  <2>4. NoticedInTime'
    BY <2>1 DEF SchemaInv, NoticedInTime, Lost
  <2>5. OnlyGrows'
    BY <2>1, <2>2 DEF SchemaInv, SchemaTypes, OnlyGrows
  <2> QED
    BY <2>3, <2>4, <2>5 DEF SchemaInv
<1>2. CASE UNCHANGED SchemaDrift!vars
  BY <1>2 DEF SchemaDrift!vars, SchemaInv, SchemaTypes, NoticedInTime, OnlyGrows, Lost
<1> QED
  BY <1>1, <1>2, EvaluateKeeps, ObserveKeeps DEF SchemaDrift!Next

LEMMA SchemaIsSeen == ASSUME SchemaInv PROVE SchemaDrift!DriftIsSeen
<1>1. SchemaDrift!UntouchedIsQuiet
  BY DEF SchemaInv, OnlyGrows, SchemaDrift!UntouchedIsQuiet
<1>2. SchemaDrift!PromptNoticesAll
  <2> SUFFICES ASSUME prompt, pending = 0, NEW c \in Columns, SchemaDrift!Gone(c)
               PROVE  c \in noticed
    BY DEF SchemaDrift!PromptNoticesAll
  <2>1. DOMAIN seen = 1..Len(seen) /\ Len(seen) \in Nat
    BY DEF SchemaInv, SchemaTypes
  <2>2. PICK i, j \in 1..Len(seen) : Lost(i, j, c)
    BY <2>1 DEF SchemaDrift!Gone, Lost
  <2> QED
    BY <2>1, <2>2 DEF SchemaInv, NoticedInTime
<1> QED
  BY <1>1, <1>2 DEF SchemaDrift!DriftIsSeen

HIDE DEF table, seen, judged, noticed, pending, prompt, changes, dropped

(* For any columns, any producers and any order of their observations: a table *)
(* nobody dropped a column from never breaches, and evaluated promptly the     *)
(* monitor names every column that a producer reported and then did not        *)
(* (checks.py _judge_schema).                                                 *)
THEOREM WatchDriftIsSeen == Spec => []DriftIsSeen
<1> DEFINE Inv == part = "schema" => SchemaInv
<1>1. Init => Inv
  BY SchemaStarts DEF Init
<1>2. Inv /\ [Next]_all => Inv'
  <2>1. CASE UNCHANGED all
    <3>1. UNCHANGED <<part, SchemaDrift!vars>>
      BY <2>1 DEF all, slots, SchemaDrift!vars
    <3> QED
      BY <3>1, SchemaStep
  <2>2. CASE Next
    <3>1. part' = part /\ (part = "schema" => SchemaDrift!Next)
      BY <2>2 DEF Next
    <3> QED
      BY <3>1, SchemaStep
  <2> QED
    BY <2>1, <2>2
<1>3. Inv => DriftIsSeen
  BY SchemaIsSeen DEF DriftIsSeen
<1> QED
  BY <1>1, <1>2, <1>3, PTL DEF Spec

-----------------------------------------------------------------------------
(* TestVerdicts: a failure is a change of verdict where its stretch of equal  *)
(* verdicts begins.  A change that is not said yet came to be one after the    *)
(* last sweep, so the next sweep still finds it in the window; and with no     *)
(* more results than the limit nothing crowds it out.                          *)

moment == v1
checks == v2
said == v3
channel == v4
received == v5
sweptAt == v6
movedAt == v7
revised == v8
USE DEF moment, checks, said, channel, received, sweptAt, movedAt, revised

TestStatuses == {"pass", "fail", "error"}

VerdictTypes ==
  /\ \A t \in DOMAIN checks : t \in Nat /\ checks[t] \in [status : TestStatuses, warn : BOOLEAN]
  /\ IsFiniteSet(DOMAIN checks)
  /\ said \subseteq DOMAIN checks
  /\ channel \in Seq(Nat \X TestStatuses)
  /\ moment \in Nat /\ sweptAt \in Nat
  /\ sweptAt <= moment /\ moment - sweptAt <= SweepGap
  /\ DOMAIN movedAt = DOMAIN checks
  /\ \A t \in DOMAIN checks : movedAt[t] \in Nat

SaidIsShown ==
  \A t \in said : \E i \in 1..Len(channel) :
    channel[i][1] = t /\ (t \notin revised => channel[i] = <<t, checks[t].status>>)

Roomy == Cardinality(DOMAIN checks) <= TestLimit

ChangesAreSaid ==
  Roomy => \A u \in DOMAIN checks :
    /\ TestVerdicts!Transition(u) /\ checks[u].status \in TestVerdicts!Bad
    /\ ~checks[u].warn /\ TestVerdicts!InTime(u)
    => u \in said \/ sweptAt <= movedAt[u]

VerdictInv == VerdictTypes /\ SaidIsShown /\ ChangesAreSaid

LEMMA VerdictsCount == \A S : TestVerdicts!Cardinality(S) = Cardinality(S)
  BY DEF TestVerdicts!Cardinality, Cardinality

(* What was measured just before.                                            *)
LEMMA PreviousIs ==
  ASSUME VerdictTypes, NEW t \in DOMAIN checks
  PROVE  \/ TestVerdicts!Previous(t) = "none" /\ \A u \in DOMAIN checks : ~(u < t)
         \/ \E v \in DOMAIN checks :
              /\ v < t /\ TestVerdicts!Previous(t) = checks[v].status
              /\ \A u \in DOMAIN checks : u < t => u <= v
<1> DEFINE before == {u \in DOMAIN checks : u < t}
           v == CHOOSE x \in before : \A y \in before : y <= x
<1>1. before \in SUBSET Nat /\ t \in Nat /\ \A u \in before : u <= t
  BY DEF VerdictTypes
<1>2. CASE before = {}
  <2>1. TestVerdicts!Previous(t) = "none"
    BY <1>2 DEF TestVerdicts!Previous, TestVerdicts!Measured
  <2>2. \A u \in DOMAIN checks : ~(u < t)
    BY <1>2
  <2> QED
    BY <2>1, <2>2
<1>3. CASE before # {}
  <2>1. TestVerdicts!Previous(t) = checks[v].status
    BY <1>3 DEF TestVerdicts!Previous, TestVerdicts!Newest, TestVerdicts!Measured
  <2>2. v \in before /\ \A u \in before : u <= v
    <3> HIDE DEF before
    <3> QED
      BY <1>1, <1>3, GreatestIsChosen
  <2> HIDE DEF v
  <2> QED
    BY <2>1, <2>2
<1> QED
  BY <1>2, <1>3

(* The stretch of equal verdicts that a failure is in begins with a transition. *)
LEMMA StretchBegins ==
  ASSUME VerdictTypes, NEW t \in DOMAIN checks, checks[t].status \in TestVerdicts!Bad
  PROVE  \E u \in DOMAIN checks :
           /\ TestVerdicts!Begins(u, t) /\ TestVerdicts!Transition(u)
           /\ checks[u].status = checks[t].status
<1> DEFINE same == {u \in DOMAIN checks : u <= t /\ \A w \in DOMAIN checks :
             w \in u..t => checks[w].status = checks[t].status}
<1>1. same \in SUBSET Nat /\ t \in same /\ \A w \in DOMAIN checks : w \in Nat
  BY DEF VerdictTypes
<1>2. PICK u \in same : \A w \in same : u <= w
  <2> HIDE DEF same
  <2> QED
    BY <1>1, LeastExists
<1>3. u \in DOMAIN checks /\ checks[u].status = checks[t].status /\ u \in Nat /\ t \in Nat /\ u <= t
  BY <1>1, <1>2
<1>4. ASSUME NEW v \in DOMAIN checks, v < u,
             \A w \in DOMAIN checks : ~(v < w /\ w < u)
      PROVE  checks[v].status # checks[t].status
  <2>1. SUFFICES ASSUME checks[v].status = checks[t].status PROVE FALSE
    OBVIOUS
  <2>2. v \in Nat /\ v <= t
    BY <1>1, <1>3, <1>4
  <2>3. ASSUME NEW w \in DOMAIN checks, w \in v..t
        PROVE  checks[w].status = checks[t].status
    <3>1. CASE w < u
      <4>1. w = v
        BY <1>1, <1>4, <2>2, <2>3, <3>1
      <4> QED
        BY <2>1, <4>1
    <3>2. CASE ~(w < u)
      <4>1. w \in u..t
        BY <1>1, <1>3, <2>3, <3>2
      <4> QED
        BY <1>2, <4>1
    <3> QED
      BY <3>1, <3>2
  <2>4. v \in same
    BY <2>2, <2>3
  <2> QED
    BY <1>2, <1>3, <1>4, <2>2, <2>4
<1>5. TestVerdicts!Previous(u) # checks[u].status
  <2>1. CASE TestVerdicts!Previous(u) = "none"
    BY <1>3, <2>1 DEF TestVerdicts!Bad
  <2>2. ASSUME NEW v \in DOMAIN checks, v < u, TestVerdicts!Previous(u) = checks[v].status,
               \A w \in DOMAIN checks : w < u => w <= v
        PROVE  TestVerdicts!Previous(u) # checks[u].status
    <3>1. \A w \in DOMAIN checks : ~(v < w /\ w < u)
      BY <1>1, <1>3, <2>2
    <3> QED
      BY <1>3, <1>4, <2>2, <3>1
  <2> QED
    BY <1>3, <2>1, <2>2, PreviousIs
<1>6. TestVerdicts!Transition(u)
  BY <1>3, <1>5 DEF TestVerdicts!Transition
<1>7. TestVerdicts!Begins(u, t)
  BY <1>2, <1>3, <1>4 DEF TestVerdicts!Begins, TestVerdicts!Adjacent, TestVerdicts!Measured
<1> QED
  BY <1>3, <1>6, <1>7

LEMMA VerdictsStart ==
  ASSUME TestVerdicts!TestVerdictsAssumption, TestVerdicts!Init PROVE VerdictInv
<1>1. /\ checks = <<>> /\ movedAt = <<>> /\ said = {} /\ channel = <<>>
      /\ moment = 0 /\ sweptAt = 0
  BY DEF TestVerdicts!Init
<1>2. DOMAIN checks = {} /\ DOMAIN movedAt = {}
  BY <1>1
<1>3. IsFiniteSet(DOMAIN checks)
  BY <1>2, FS_EmptySet
<1>4. channel \in Seq(Nat \X TestStatuses)
  BY <1>1
<1>5. SweepGap \in Nat
  BY DEF TestVerdicts!TestVerdictsAssumption
<1> QED
  BY <1>1, <1>2, <1>3, <1>4, <1>5
     DEF VerdictInv, VerdictTypes, SaidIsShown, ChangesAreSaid

(* A result changes what is a change of verdict only at its own time and at    *)
(* the next one measured.                                                      *)
LEMMA PreviousStays ==
  ASSUME VerdictTypes, NEW t \in Nat, DOMAIN checks' = DOMAIN checks \union {t},
         \A w \in DOMAIN checks : w # t => checks'[w] = checks[w],
         NEW u \in DOMAIN checks, u # t, ~TestVerdicts!Adjacent(t, u)
  PROVE  TestVerdicts!Previous(u)' = TestVerdicts!Previous(u)
<1> DEFINE before == {w \in DOMAIN checks : w < u}
           v == CHOOSE x \in before : \A y \in before : y <= x
           after == {w \in DOMAIN checks' : w < u}
           z == CHOOSE x \in after : \A y \in after : y <= x
<1>1. /\ before \in SUBSET Nat /\ u \in Nat /\ \A w \in before : w <= u
      /\ after \in SUBSET Nat /\ \A w \in after : w <= u
      /\ after = before \union (IF t < u THEN {t} ELSE {})
  BY DEF VerdictTypes
<1>2. /\ TestVerdicts!Previous(u) = IF before = {} THEN "none" ELSE checks[v].status
      /\ TestVerdicts!Previous(u)' = IF after = {} THEN "none" ELSE checks'[z].status
  BY DEF TestVerdicts!Previous, TestVerdicts!Newest, TestVerdicts!Measured
<1>3. t < u => \E w \in before : t < w
  BY DEF TestVerdicts!Adjacent, TestVerdicts!Measured
<1>4. CASE before = {}
  <2>1. after = {}
    BY <1>1, <1>3, <1>4
  <2> QED
    BY <1>2, <1>4, <2>1
<1>5. CASE before # {}
  <2>1. after # {}
    BY <1>1, <1>5
  <2>2. v \in before /\ \A w \in before : w <= v
    <3> HIDE DEF before
    <3> QED
      BY <1>1, <1>5, GreatestIsChosen
  <2>3. z \in after /\ \A w \in after : w <= z
    <3> HIDE DEF after
    <3> QED
      BY <1>1, <2>1, GreatestIsChosen
  <2> HIDE DEF v, z
  <2>4. z # t
    <3>1. SUFFICES ASSUME z = t PROVE FALSE
      OBVIOUS
    <3>2. t < u
      BY <2>3, <3>1
    <3>3. PICK w \in before : t < w
      BY <1>3, <3>2
    <3>4. w \in after /\ w \in Nat
      BY <1>1, <3>3
    <3> QED
      BY <2>3, <3>1, <3>3, <3>4
  <2>5. z \in before
    BY <1>1, <2>3, <2>4
  <2>6. v \in after /\ v \in Nat /\ z \in Nat
    BY <1>1, <2>2, <2>3
  <2>7. z = v
    BY <2>2, <2>3, <2>5, <2>6
  <2>8. checks'[v] = checks[v]
    BY <2>2, <2>4, <2>7
  <2> QED
    BY <1>2, <1>5, <2>1, <2>7, <2>8
<1> QED
  BY <1>4, <1>5

LEMMA ImportKeeps ==
  ASSUME TestVerdicts!TestVerdictsAssumption, VerdictInv,
         NEW t \in 0..moment, NEW v \in Verdicts, TestVerdicts!Import(t, v)
  PROVE  VerdictInv'
<1>1. /\ t \in DOMAIN checks => checks[t] # v
      /\ checks' = [u \in DOMAIN checks \union {t} |-> IF u = t THEN v ELSE checks[u]]
      /\ movedAt' = [u \in DOMAIN checks \union {t} |->
                      IF u = t \/ TestVerdicts!Adjacent(t, u) THEN moment ELSE movedAt[u]]
      /\ revised' = IF t \in DOMAIN checks \intersect said THEN revised \union {t} ELSE revised
      /\ UNCHANGED <<moment, said, channel, sweptAt>>
  BY DEF TestVerdicts!Import, TestVerdicts!Measured
<1>2. /\ VerdictTypes /\ SaidIsShown /\ ChangesAreSaid /\ moment \in Nat /\ t \in Nat
      /\ v \in [status : TestStatuses, warn : BOOLEAN]
  BY DEF VerdictInv, VerdictTypes, TestVerdicts!TestVerdictsAssumption, TestStatuses
<1>3. /\ DOMAIN checks' = DOMAIN checks \union {t} /\ checks'[t] = v
      /\ \A u \in DOMAIN checks : u # t => checks'[u] = checks[u]
  BY <1>1
<1>4. /\ DOMAIN movedAt' = DOMAIN checks'
      /\ \A u \in DOMAIN checks' :
           movedAt'[u] = IF u = t \/ TestVerdicts!Adjacent(t, u) THEN moment ELSE movedAt[u]
  BY <1>1, <1>3
<1>5. IsFiniteSet(DOMAIN checks')
  BY <1>2, <1>3, FS_AddElement DEF VerdictTypes
<1>6. VerdictTypes'
  <2>1. \A u \in DOMAIN checks' :
          u \in Nat /\ checks'[u] \in [status : TestStatuses, warn : BOOLEAN]
    BY <1>2, <1>3 DEF VerdictTypes
  <2>2. \A u \in DOMAIN checks' : movedAt'[u] \in Nat
    BY <1>2, <1>3, <1>4 DEF VerdictTypes
  <2> QED
    BY <1>1, <1>2, <1>3, <1>4, <1>5, <2>1, <2>2 DEF VerdictTypes
<1>7. SaidIsShown'
  <2> SUFFICES ASSUME NEW u \in said
               PROVE  \E i \in 1..Len(channel) : channel[i][1] = u /\
                        (u \notin revised' => channel[i] = <<u, checks'[u].status>>)
    BY <1>1 DEF SaidIsShown
  <2>1. PICK i \in 1..Len(channel) : channel[i][1] = u /\
               (u \notin revised => channel[i] = <<u, checks[u].status>>)
    BY <1>2 DEF SaidIsShown
  <2>2. u \in DOMAIN checks
    BY <1>2 DEF VerdictTypes
  <2>3. CASE u = t
    BY <1>1, <2>1, <2>2, <2>3
  <2>4. CASE u # t
    BY <1>1, <1>3, <2>1, <2>2, <2>4
  <2> QED
    BY <2>3, <2>4
<1>8. ChangesAreSaid'
  <2> SUFFICES ASSUME Roomy', NEW u \in DOMAIN checks', TestVerdicts!Transition(u)',
                      checks'[u].status \in TestVerdicts!Bad, ~checks'[u].warn,
                      TestVerdicts!InTime(u)'
               PROVE  u \in said \/ sweptAt <= movedAt'[u]
    BY <1>1 DEF ChangesAreSaid, TestVerdicts!Bad
  <2>1. CASE u = t \/ TestVerdicts!Adjacent(t, u)
    BY <1>2, <1>4, <2>1 DEF VerdictTypes
  <2>2. CASE ~(u = t \/ TestVerdicts!Adjacent(t, u))
    <3>1. u \in DOMAIN checks /\ checks'[u] = checks[u] /\ movedAt'[u] = movedAt[u]
      BY <1>3, <1>4, <2>2
    <3>2. TestVerdicts!Previous(u)' = TestVerdicts!Previous(u)
      BY <1>2, <1>3, <2>2, <3>1, PreviousStays
    <3>3. TestVerdicts!Transition(u) /\ TestVerdicts!InTime(u)
      BY <3>1, <3>2 DEF TestVerdicts!Transition, TestVerdicts!InTime, TestVerdicts!Bad
    <3>4. Roomy
      <4>1. Cardinality(DOMAIN checks) <= Cardinality(DOMAIN checks')
        BY <1>3, <1>5, FS_Subset
      <4>2. Cardinality(DOMAIN checks) \in Nat /\ Cardinality(DOMAIN checks') \in Nat
        BY <1>2, <1>5, FS_CardinalityType DEF VerdictTypes
      <4>3. TestLimit \in Nat
        BY DEF TestVerdicts!TestVerdictsAssumption
      <4> QED
        BY <4>1, <4>2, <4>3 DEF Roomy
    <3> QED
      BY <1>2, <3>1, <3>3, <3>4 DEF ChangesAreSaid
  <2> QED
    BY <2>1, <2>2
<1> QED
  BY <1>6, <1>7, <1>8 DEF VerdictInv

(* What the sweep posts, as a continuation of the channel.                     *)
LEMMA SweepPosts ==
  ASSUME TestVerdicts!TestVerdictsAssumption, VerdictInv, TestVerdicts!Sweep
  PROVE  \E n \in Nat : \E order \in [1..n -> TestVerdicts!News] :
           /\ \A t \in TestVerdicts!News : \E i \in 1..n : order[i] = t
           /\ \A i, j \in 1..n : i < j => TestVerdicts!SaidBefore(order[i], order[j])
           /\ Len(channel) \in Nat /\ Len(channel') = Len(channel) + n
           /\ \A i \in 1..Len(channel) : channel'[i] = channel[i]
           /\ \A i \in 1..n : channel'[Len(channel) + i] = <<order[i], checks[order[i]].status>>
           /\ channel' \in Seq(Nat \X TestStatuses)
<1> DEFINE news == TestVerdicts!News
           n == Cardinality(news)
           l == Len(channel)
<1>1. PICK order \in TestVerdicts!Orders(news) :
        channel' = channel \o [i \in DOMAIN order |-> <<order[i], checks[order[i]].status>>]
  BY Zenon DEF TestVerdicts!Sweep
<1>2. VerdictTypes
  BY DEF VerdictInv
<1>3. n \in Nat /\ news \subseteq DOMAIN checks
  <2>1. news \subseteq DOMAIN checks /\ IsFiniteSet(DOMAIN checks)
    BY <1>2 DEF VerdictTypes, TestVerdicts!News, TestVerdicts!Transitions,
                TestVerdicts!InWindow, TestVerdicts!Measured
  <2>2. IsFiniteSet(news)
    BY <2>1, FS_Subset
  <2> QED
    BY <2>1, <2>2, FS_CardinalityType
<1>4. /\ order \in [1..n -> news] /\ DOMAIN order = 1..n
      /\ \A t \in news : \E i \in 1..n : order[i] = t
      /\ \A i, j \in 1..n : i < j => TestVerdicts!SaidBefore(order[i], order[j])
  BY <1>1, VerdictsCount DEF TestVerdicts!Orders
<1> HIDE DEF n, news
<1> DEFINE more == [i \in 1..n |-> <<order[i], checks[order[i]].status>>]
<1>5. more \in [1..n -> Nat \X TestStatuses]
  <2> SUFFICES ASSUME NEW i \in 1..n
               PROVE  <<order[i], checks[order[i]].status>> \in Nat \X TestStatuses
    OBVIOUS
  <2>1. order[i] \in DOMAIN checks
    BY <1>3, <1>4
  <2> QED
    BY <1>2, <2>1 DEF VerdictTypes
<1>6. more \in Seq(Nat \X TestStatuses) /\ Len(more) = n
  BY <1>3, <1>5
<1>7. channel' = channel \o more /\ channel \in Seq(Nat \X TestStatuses)
  BY <1>1, <1>2, <1>4 DEF VerdictTypes
<1>8. \A i \in 1..n : more[i] = <<order[i], checks[order[i]].status>>
  OBVIOUS
<1>9. DOMAIN more = 1..n
  OBVIOUS
<1> HIDE DEF more
<1>10. l \in Nat
  BY <1>7
<1>11. channel' \in Seq(Nat \X TestStatuses)
  BY <1>6, <1>7
<1>12. Len(channel') = l + n
  BY <1>6, <1>7
<1>13. \A i \in 1..l : channel'[i] = channel[i]
  BY <1>3, <1>6, <1>7, <1>10
<1>14. ASSUME NEW i \in 1..n PROVE channel'[l + i] = <<order[i], checks[order[i]].status>>
  <2>1. l + i \in 1..(l + n) /\ ~(l + i \in 1..l) /\ (l + i) - l = i
    BY <1>3, <1>10
  <2>2. channel'[l + i] = more[i]
    BY <1>3, <1>6, <1>7, <1>10, <2>1
  <2> QED
    BY <1>8, <2>2
<1> QED
  BY <1>3, <1>4, <1>10, <1>11, <1>12, <1>13, <1>14 DEF news

(* What fewer results than the limit come before is on the sweep's list.       *)
LEMMA NotCrowdedOut ==
  ASSUME TestVerdicts!TestVerdictsAssumption, VerdictTypes, Roomy,
         NEW u \in TestVerdicts!InWindow
  PROVE  u \in TestVerdicts!Transitions
<1> DEFINE ahead == {w \in TestVerdicts!InWindow : TestVerdicts!SaidBefore(w, u)}
           rest == DOMAIN checks \ {u}
<1>1. u \in DOMAIN checks /\ TestVerdicts!InWindow \subseteq DOMAIN checks
  BY DEF TestVerdicts!InWindow, TestVerdicts!Measured
<1>2. ~TestVerdicts!SaidBefore(u, u)
  <2>1. u \in Nat
    BY <1>1 DEF VerdictTypes
  <2> QED
    BY <2>1 DEF TestVerdicts!SaidBefore
<1>3. ahead \subseteq rest
  BY <1>1, <1>2
<1>4. IsFiniteSet(DOMAIN checks) /\ IsFiniteSet(rest)
      /\ Cardinality(rest) = Cardinality(DOMAIN checks) - 1
  <2>1. IsFiniteSet(DOMAIN checks)
    BY DEF VerdictTypes
  <2> QED
    BY <1>1, <2>1, FS_RemoveElement
<1>5. IsFiniteSet(ahead) /\ Cardinality(ahead) <= Cardinality(rest)
  <2> HIDE DEF ahead, rest
  <2> QED
    BY <1>3, <1>4, FS_Subset
<1>6. /\ Cardinality(ahead) \in Nat /\ Cardinality(rest) \in Nat
      /\ Cardinality(DOMAIN checks) \in Nat /\ TestLimit \in Nat
  BY <1>4, <1>5, FS_CardinalityType DEF TestVerdicts!TestVerdictsAssumption
<1>7. Cardinality(ahead) < TestLimit
  BY <1>4, <1>5, <1>6 DEF Roomy
<1> QED
  BY <1>7, VerdictsCount DEF TestVerdicts!Transitions

LEMMA SayKeeps ==
  ASSUME TestVerdicts!TestVerdictsAssumption, VerdictInv, TestVerdicts!Sweep PROVE VerdictInv'
<1> DEFINE news == TestVerdicts!News
           l == Len(channel)
<1>1. PICK n \in Nat : \E order \in [1..n -> news] :
        /\ \A t \in news : \E i \in 1..n : order[i] = t
        /\ l \in Nat /\ Len(channel') = l + n
        /\ \A i \in 1..l : channel'[i] = channel[i]
        /\ \A i \in 1..n : channel'[l + i] = <<order[i], checks[order[i]].status>>
        /\ channel' \in Seq(Nat \X TestStatuses)
  BY SweepPosts
<1>2. PICK order \in [1..n -> news] :
        /\ \A t \in news : \E i \in 1..n : order[i] = t
        /\ l \in Nat /\ Len(channel') = l + n
        /\ \A i \in 1..l : channel'[i] = channel[i]
        /\ \A i \in 1..n : channel'[l + i] = <<order[i], checks[order[i]].status>>
        /\ channel' \in Seq(Nat \X TestStatuses)
  BY <1>1
<1>3. said' = said \union news /\ sweptAt' = moment
      /\ UNCHANGED <<moment, checks, received, movedAt, revised>>
  BY DEF TestVerdicts!Sweep
<1>4. VerdictTypes /\ SaidIsShown /\ ChangesAreSaid /\ SweepGap \in Nat /\ TestWindow \in Nat
  BY DEF VerdictInv, TestVerdicts!TestVerdictsAssumption
<1>5. news \subseteq DOMAIN checks
  BY DEF TestVerdicts!News, TestVerdicts!Transitions, TestVerdicts!InWindow,
         TestVerdicts!Measured
<1>6. VerdictTypes'
  BY <1>2, <1>3, <1>4, <1>5 DEF VerdictTypes
<1>7. SaidIsShown'
  <2>1. ASSUME NEW t \in said
        PROVE  \E i \in 1..(l + n) : channel'[i][1] = t /\
                 (t \notin revised => channel'[i] = <<t, checks[t].status>>)
    <3>1. PICK i \in 1..l : channel[i][1] = t /\
                 (t \notin revised => channel[i] = <<t, checks[t].status>>)
      BY <1>4 DEF SaidIsShown
    <3>2. i \in 1..(l + n) /\ channel'[i] = channel[i]
      BY <1>2, <3>1
    <3> QED
      BY <3>1, <3>2
  <2>2. ASSUME NEW t \in news
        PROVE  \E i \in 1..(l + n) : channel'[i][1] = t /\
                 (t \notin revised => channel'[i] = <<t, checks[t].status>>)
    <3>1. PICK i \in 1..n : order[i] = t
      BY <1>2
    <3>2. l + i \in 1..(l + n) /\ channel'[l + i] = <<t, checks[t].status>>
      BY <1>2, <3>1
    <3>3. channel'[l + i][1] = t
      BY <3>2
    <3> QED
      BY <3>2, <3>3
  <2> QED
    BY <1>2, <1>3, <2>1, <2>2 DEF SaidIsShown
<1>8. ChangesAreSaid'
  <2> SUFFICES ASSUME Roomy, NEW u \in DOMAIN checks, TestVerdicts!Transition(u),
                      checks[u].status \in TestVerdicts!Bad, ~checks[u].warn,
                      TestVerdicts!InTime(u), u \notin said, moment > movedAt[u]
               PROVE  u \in news
    <3>1. \A u : /\ TestVerdicts!Transition(u)' <=> TestVerdicts!Transition(u)
                 /\ TestVerdicts!InTime(u)' <=> TestVerdicts!InTime(u)
      BY <1>3 DEF TestVerdicts!Transition, TestVerdicts!Previous, TestVerdicts!Newest,
                  TestVerdicts!Bad, TestVerdicts!Measured, TestVerdicts!InTime
    <3>2. Roomy' = Roomy
      BY <1>3 DEF Roomy
    <3>3. \A u \in DOMAIN checks : movedAt[u] \in Nat /\ moment \in Nat
      BY <1>4 DEF VerdictTypes
    <3> QED
      BY <1>3, <3>1, <3>2, <3>3 DEF ChangesAreSaid, TestVerdicts!Bad
  <2>1. sweptAt <= movedAt[u]
    BY <1>4 DEF ChangesAreSaid
  <2>2. u \in Nat /\ movedAt[u] \in Nat /\ moment \in Nat /\ sweptAt \in Nat
        /\ moment - sweptAt <= SweepGap
    BY <1>4 DEF VerdictTypes
  <2>3. movedAt[u] + SweepGap <= u + TestWindow
    BY DEF TestVerdicts!InTime
  <2>4. moment - u <= TestWindow
    BY <1>4, <2>1, <2>2, <2>3
  <2>5. u \in TestVerdicts!InWindow
    BY <2>4 DEF TestVerdicts!InWindow, TestVerdicts!Measured
  <2>6. u \in TestVerdicts!Transitions
    BY <1>4, <2>5, NotCrowdedOut
  <2> QED
    BY <2>6 DEF TestVerdicts!News
<1> QED
  BY <1>6, <1>7, <1>8 DEF VerdictInv

LEMMA VerdictStep ==
  ASSUME TestVerdicts!TestVerdictsAssumption, VerdictInv,
         [TestVerdicts!Next]_(TestVerdicts!vars)
  PROVE  VerdictInv'
<1>1. ASSUME UNCHANGED <<checks, said, channel, movedAt, revised, sweptAt>>,
             moment' \in Nat, moment <= moment', moment' - sweptAt <= SweepGap
      PROVE  VerdictInv'
  <2>1. \A u : /\ TestVerdicts!Transition(u)' <=> TestVerdicts!Transition(u)
               /\ TestVerdicts!InTime(u)' <=> TestVerdicts!InTime(u)
    BY <1>1 DEF TestVerdicts!Transition, TestVerdicts!Previous, TestVerdicts!Newest,
                TestVerdicts!Bad, TestVerdicts!Measured, TestVerdicts!InTime
  <2>2. VerdictTypes'
    BY <1>1 DEF VerdictInv, VerdictTypes
  <2>3. SaidIsShown'
    BY <1>1 DEF VerdictInv, SaidIsShown
  <2>4. ChangesAreSaid'
    BY <1>1, <2>1 DEF VerdictInv, ChangesAreSaid, Roomy, TestVerdicts!Bad
  <2> QED
    BY <2>2, <2>3, <2>4 DEF VerdictInv
<1>2. CASE UNCHANGED TestVerdicts!vars
  <2>1. UNCHANGED <<checks, said, channel, movedAt, revised, sweptAt>> /\ moment' = moment
    BY <1>2 DEF TestVerdicts!vars
  <2>2. moment \in Nat /\ moment - sweptAt <= SweepGap
    BY DEF VerdictInv, VerdictTypes
  <2>3. moment' \in Nat /\ moment <= moment' /\ moment' - sweptAt <= SweepGap
    BY <2>1, <2>2
  <2> QED
    BY <1>1, <2>1, <2>3
<1>3. CASE TestVerdicts!Tick
  <2>1. /\ UNCHANGED <<checks, said, channel, movedAt, revised, sweptAt>>
        /\ moment' = moment + 1 /\ moment + 1 - sweptAt <= SweepGap
    BY <1>3 DEF TestVerdicts!Tick
  <2>2. moment \in Nat /\ sweptAt \in Nat /\ SweepGap \in Nat
    BY DEF VerdictInv, VerdictTypes, TestVerdicts!TestVerdictsAssumption
  <2>3. moment' \in Nat /\ moment <= moment' /\ moment' - sweptAt <= SweepGap
    BY <2>1, <2>2
  <2> QED
    BY <1>1, <2>1, <2>3
<1> QED
  BY <1>2, <1>3, ImportKeeps, SayKeeps DEF TestVerdicts!Next

LEMMA FailuresAreCovered ==
  ASSUME TestVerdicts!TestVerdictsAssumption, VerdictInv
  PROVE  TestVerdicts!EveryFailureIsCovered
<1>1. VerdictTypes /\ SaidIsShown /\ ChangesAreSaid /\ SweepGap \in Nat
  BY DEF VerdictInv, TestVerdicts!TestVerdictsAssumption
<1>2. SUFFICES ASSUME Roomy, NEW t \in DOMAIN checks, checks[t].status \in TestVerdicts!Bad
               PROVE  \E u \in DOMAIN checks :
                        /\ TestVerdicts!Begins(u, t)
                        /\ TestVerdicts!InTime(u) /\ TestVerdicts!Swept(u) /\ ~checks[u].warn =>
                             /\ u \in said
                             /\ u \in revised \/ \E i \in DOMAIN channel :
                                                   channel[i] = <<u, checks[u].status>>
  BY VerdictsCount DEF TestVerdicts!EveryFailureIsCovered, TestVerdicts!Measured, Roomy
<1>3. PICK u \in DOMAIN checks :
        /\ TestVerdicts!Begins(u, t) /\ TestVerdicts!Transition(u)
        /\ checks[u].status = checks[t].status
  BY <1>1, <1>2, StretchBegins
<1>4. ASSUME TestVerdicts!InTime(u), TestVerdicts!Swept(u), ~checks[u].warn
      PROVE  /\ u \in said
             /\ u \in revised \/ \E i \in DOMAIN channel : channel[i] = <<u, checks[u].status>>
  <2>1. moment > movedAt[u] + SweepGap
    BY <1>4 DEF TestVerdicts!Swept
  <2>2. moment \in Nat /\ sweptAt \in Nat /\ movedAt[u] \in Nat /\ moment - sweptAt <= SweepGap
    BY <1>1, <1>3 DEF VerdictTypes
  <2>3. ~(sweptAt <= movedAt[u])
    BY <1>1, <2>1, <2>2
  <2>4. u \in said
    BY <1>1, <1>2, <1>3, <1>4, <2>3 DEF ChangesAreSaid
  <2>5. PICK i \in 1..Len(channel) : u \notin revised => channel[i] = <<u, checks[u].status>>
    BY <1>1, <2>4 DEF SaidIsShown
  <2>6. DOMAIN channel = 1..Len(channel)
    BY <1>1 DEF VerdictTypes
  <2> QED
    BY <2>4, <2>5, <2>6
<1> QED
  BY <1>3, <1>4

LEMMA RecoveriesFollow ==
  ASSUME TestVerdicts!TestVerdictsAssumption, VerdictInv,
         [TestVerdicts!Next]_(TestVerdicts!vars)
  PROVE  TestVerdicts!RecoveryHasItsFailure
<1>1. VerdictTypes /\ SaidIsShown
  BY DEF VerdictInv
<1>2. CASE channel' = channel
  BY <1>2 DEF TestVerdicts!RecoveryHasItsFailure
<1>3. ASSUME TestVerdicts!Sweep PROVE TestVerdicts!RecoveryHasItsFailure
  <2> DEFINE news == TestVerdicts!News
             l == Len(channel)
  <2>1. PICK n \in Nat : \E order \in [1..n -> news] :
          /\ \A t \in news : \E i \in 1..n : order[i] = t
          /\ \A i, j \in 1..n : i < j => TestVerdicts!SaidBefore(order[i], order[j])
          /\ l \in Nat /\ Len(channel') = l + n
          /\ \A i \in 1..l : channel'[i] = channel[i]
          /\ \A i \in 1..n : channel'[l + i] = <<order[i], checks[order[i]].status>>
          /\ channel' \in Seq(Nat \X TestStatuses)
    BY <1>3, SweepPosts
  <2>2. PICK order \in [1..n -> news] :
          /\ \A t \in news : \E i \in 1..n : order[i] = t
          /\ \A i, j \in 1..n : i < j => TestVerdicts!SaidBefore(order[i], order[j])
          /\ l \in Nat /\ Len(channel') = l + n
          /\ \A i \in 1..l : channel'[i] = channel[i]
          /\ \A i \in 1..n : channel'[l + i] = <<order[i], checks[order[i]].status>>
          /\ channel' \in Seq(Nat \X TestStatuses)
    BY <2>1
  <2>3. DOMAIN channel = 1..l /\ DOMAIN channel' = 1..(l + n)
    BY <1>1, <2>2 DEF VerdictTypes
  <2> SUFFICES ASSUME NEW i \in DOMAIN channel' \ DOMAIN channel, channel'[i][2] = "pass"
               PROVE  \E u, v \in DOMAIN checks :
                        /\ TestVerdicts!Adjacent(v, channel'[i][1])
                        /\ checks[v].status \in TestVerdicts!Bad /\ TestVerdicts!Begins(u, v)
                        /\ \/ \E j \in DOMAIN channel' : j < i /\ channel'[j][1] = u
                           \/ checks[u].warn \/ moment - u > TestWindow
    BY DEF TestVerdicts!RecoveryHasItsFailure, TestVerdicts!Measured
  <2>4. PICK k \in 1..n : i = l + k
    <3>1. i - l \in 1..n /\ i = l + (i - l)
      BY <2>2, <2>3
    <3> QED
      BY <3>1
  <2>5. /\ order[k] \in news /\ channel'[i] = <<order[k], checks[order[k]].status>>
        /\ checks[order[k]].status = "pass" /\ channel'[i][1] = order[k]
    <3>1. channel'[i] = <<order[k], checks[order[k]].status>>
      BY <2>2, <2>4
    <3> QED
      BY <2>2, <3>1
  <2> DEFINE r == order[k]
  <2>6. /\ r \in TestVerdicts!Transitions /\ r \in TestVerdicts!InWindow
        /\ r \in DOMAIN checks /\ TestVerdicts!Transition(r)
    BY <2>5 DEF TestVerdicts!News, TestVerdicts!Transitions, TestVerdicts!InWindow,
                TestVerdicts!Measured
  <2> HIDE DEF r
  <2>7. TestVerdicts!Previous(r) \in TestVerdicts!Bad
    BY <2>5, <2>6 DEF TestVerdicts!Transition, TestVerdicts!Bad, r
  <2>8. PICK v \in DOMAIN checks :
          /\ v < r /\ TestVerdicts!Previous(r) = checks[v].status
          /\ \A u \in DOMAIN checks : u < r => u <= v
    <3>1. TestVerdicts!Previous(r) # "none"
      BY <2>7 DEF TestVerdicts!Bad
    <3> QED
      BY <1>1, <2>6, <3>1, PreviousIs
  <2>9. TestVerdicts!Adjacent(v, r)
    <3>1. \A w \in DOMAIN checks : w \in Nat
      BY <1>1 DEF VerdictTypes
    <3> QED
      BY <2>6, <2>8, <3>1 DEF TestVerdicts!Adjacent, TestVerdicts!Measured
  <2>10. PICK u \in DOMAIN checks :
           /\ TestVerdicts!Begins(u, v) /\ TestVerdicts!Transition(u)
           /\ checks[u].status = checks[v].status
    BY <1>1, <2>7, <2>8, StretchBegins
  <2>11. ASSUME ~checks[u].warn, ~(moment - u > TestWindow)
         PROVE  \E j \in DOMAIN channel' : j < i /\ channel'[j][1] = u
    <3>1. moment \in Nat /\ u \in Nat /\ TestWindow \in Nat
      BY <1>1 DEF VerdictTypes, TestVerdicts!TestVerdictsAssumption
    <3>2. u \in TestVerdicts!InWindow
      BY <2>10, <2>11, <3>1 DEF TestVerdicts!InWindow, TestVerdicts!Measured
    <3>3. checks[u].status # "pass" /\ checks[r].status = "pass"
      BY <2>5, <2>7, <2>8, <2>10 DEF TestVerdicts!Bad, r
    <3>4. u \in TestVerdicts!Transitions
      <4> DEFINE A == {w \in TestVerdicts!InWindow : TestVerdicts!SaidBefore(w, u)}
                 B == {w \in TestVerdicts!InWindow : TestVerdicts!SaidBefore(w, r)}
      <4>1. A \subseteq B
        BY <3>3 DEF TestVerdicts!SaidBefore
      <4>2. IsFiniteSet(B)
        <5>1. B \subseteq DOMAIN checks /\ IsFiniteSet(DOMAIN checks)
          BY <1>1 DEF VerdictTypes, TestVerdicts!InWindow, TestVerdicts!Measured
        <5> HIDE DEF B
        <5> QED
          BY <5>1, FS_Subset
      <4>3. Cardinality(B) < TestLimit
        BY <2>6, VerdictsCount DEF TestVerdicts!Transitions
      <4> HIDE DEF A, B
      <4>4. IsFiniteSet(A) /\ Cardinality(A) <= Cardinality(B)
        BY <4>1, <4>2, FS_Subset
      <4>5. Cardinality(A) \in Nat /\ Cardinality(B) \in Nat /\ TestLimit \in Nat
        BY <4>2, <4>4, FS_CardinalityType DEF TestVerdicts!TestVerdictsAssumption
      <4>6. Cardinality(A) < TestLimit
        BY <4>3, <4>4, <4>5
      <4> QED
        BY <3>2, <4>6, VerdictsCount DEF TestVerdicts!Transitions, A
    <3>5. CASE u \in said
      <4>1. PICK j \in 1..l : channel[j][1] = u
        BY <1>1, <3>5 DEF SaidIsShown
      <4>2. j \in DOMAIN channel' /\ j < i /\ channel'[j] = channel[j]
        BY <2>2, <2>3, <2>4, <4>1
      <4> QED
        BY <4>1, <4>2
    <3>6. CASE u \notin said
      <4>1. u \in news
        BY <2>11, <3>4, <3>6 DEF TestVerdicts!News
      <4>2. PICK m \in 1..n : order[m] = u
        BY <2>2, <4>1
      <4>3. ~TestVerdicts!SaidBefore(order[k], order[m]) /\ m # k
        <5>1. order[k] = r /\ order[m] = u
          BY <4>2 DEF r
        <5> QED
          BY <3>3, <5>1 DEF TestVerdicts!SaidBefore
      <4>4. m < k
        BY <2>2, <4>3
      <4>5. l + m \in DOMAIN channel' /\ l + m < i
        BY <2>2, <2>3, <2>4, <4>4
      <4>6. channel'[l + m][1] = u
        <5>1. channel'[l + m] = <<order[m], checks[order[m]].status>>
          BY <2>2
        <5> QED
          BY <4>2, <5>1
      <4> QED
        BY <4>5, <4>6
    <3> QED
      BY <3>5, <3>6
  <2>12. /\ TestVerdicts!Adjacent(v, channel'[i][1]) /\ checks[v].status \in TestVerdicts!Bad
         /\ TestVerdicts!Begins(u, v)
    BY <2>5, <2>7, <2>8, <2>9, <2>10 DEF r
  <2>13. \/ \E j \in DOMAIN channel' : j < i /\ channel'[j][1] = u
         \/ checks[u].warn \/ moment - u > TestWindow
    BY <2>11
  <2> QED
    BY <2>8, <2>10, <2>12, <2>13
<1> QED
  BY <1>2, <1>3 DEF TestVerdicts!Next, TestVerdicts!vars, TestVerdicts!Import,
                    TestVerdicts!Tick

HIDE DEF moment, checks, said, channel, received, sweptAt, movedAt, revised

(* For any results, windows, limits and order of arrival: a failure that came  *)
(* to be a change of verdict early enough for a sweep to find it in its window,*)
(* and is not crowded out, is covered by a message about it or the one it      *)
(* continues; and a recovery is told only after its failure, unless that was a *)
(* warning or had left the window (dq.py transitions, notify.py                *)
(* data_test_notifications).                                                   *)
THEOREM WatchVerdictsAreTold == Spec => VerdictsAreTold
<1> DEFINE Inv == part = "tests" => VerdictInv
           Covered == part = "tests" => TestVerdicts!EveryFailureIsCovered
           Follows == part = "tests" => TestVerdicts!RecoveryHasItsFailure
<1>1. Init => Inv
  BY WatchAssumption, VerdictsStart DEF Init
<1>2. Inv /\ [Next]_all => Inv' /\ [Follows]_all
  <2>1. CASE UNCHANGED all
    <3>1. UNCHANGED <<part, TestVerdicts!vars>>
      BY <2>1 DEF all, slots, TestVerdicts!vars
    <3> QED
      BY <2>1, <3>1, WatchAssumption, VerdictStep
  <2>2. CASE Next
    <3>1. part' = part /\ (part = "tests" => TestVerdicts!Next)
      BY <2>2 DEF Next
    <3> QED
      BY <3>1, WatchAssumption, VerdictStep, RecoveriesFollow
  <2> QED
    BY <2>1, <2>2
<1>3. Inv => Covered
  BY WatchAssumption, FailuresAreCovered
<1> QED
  BY <1>1, <1>2, <1>3, PTL DEF Spec, VerdictsAreTold

-----------------------------------------------------------------------------
(* DbtCloud: everything rests on the row locks.  A run's row is written,      *)
(* looked at and announced by one courier at a time, and let go with the      *)
(* transaction.                                                               *)

cloud == v1
nodes == v2
stage == v3
todo == v4
draft == v5
heard == v6
broken == v7
listed == v8
holder == v9
row == v10
ledger == v11
posts == v12
forgotten == v13
settled == v14
trips == v15
USE DEF cloud, nodes, stage, todo, draft, heard, broken, listed, holder,
        row, ledger, posts, forgotten, settled, trips

CloudFinished == {"COMPLETED", "FAILED"}
CloudStates == {"none", "RUNNING"} \union CloudFinished
CloudEnds == (Mishaps \ {"unreachable"}) \union {"readable"}

CloudTypes ==
  /\ cloud \in [DbtCloud!Runs -> {"absent", "running"} \union CloudEnds]
  /\ nodes = [r \in DbtCloud!Runs |-> nodes[r]]
  /\ stage \in [Couriers -> {"idle", "finished", "running", "called"}]
  /\ todo = [c \in Couriers |-> todo[c]]
  /\ draft = [c \in Couriers |-> draft[c]]
  /\ heard \in [Couriers -> SUBSET DbtCloud!Runs]
  /\ broken \in [Couriers -> BOOLEAN]
  /\ listed \in [Couriers -> SUBSET DbtCloud!Runs]
  /\ holder \in [DbtCloud!Runs -> Couriers \union {Nothing}]
  /\ row \in [DbtCloud!Runs -> CloudStates]
  /\ ledger \in SUBSET DbtCloud!Runs
  /\ settled \in [DbtCloud!Runs -> {"never", "kept", "undone"}]
  /\ posts \in [DbtCloud!Runs -> Nat] /\ forgotten \in [DbtCloud!Runs -> Nat]

\* What may be recorded of a run, given which messages are claimed.
MayStand(r, state, claimed) ==
  /\ state \in CloudStates
  /\ state \in CloudFinished => cloud[r] = "readable" /\ state = DbtCloud!RootState(nodes[r])
  /\ state = "FAILED" => r \in claimed
  /\ r \in claimed => state \in CloudFinished

RowStands(r) == MayStand(r, row[r], ledger)

\* One message, and one more for each that was forgotten.
CloudSaid(r) == r \in ledger \/ \E c \in Couriers : r \in heard[c]
PostsCounted(r) ==
  /\ posts[r] <= forgotten[r] + 1
  /\ ~CloudSaid(r) => posts[r] <= forgotten[r]

\* A courier has written what it holds, and claimed none but those.
CourierWrites(c) ==
  /\ \A r \in DbtCloud!Runs : r \in DOMAIN draft[c] <=> holder[r] = c
  /\ DOMAIN draft[c] \subseteq DbtCloud!Runs
  /\ \A r \in heard[c] : holder[r] = c /\ r \notin ledger
  /\ \A r \in DOMAIN draft[c] :
       /\ MayStand(r, draft[c][r], ledger \union heard[c])
       /\ row[r] \in CloudFinished => draft[c][r] \in CloudFinished

\* What a courier still has to do is known to have ended if it says so.
CourierLists(c) ==
  /\ todo[c] \in Seq({"finished", "running"} \X DbtCloud!Runs)
  /\ \A i \in 1..Len(todo[c]) : todo[c][i][1] = "finished" => cloud[todo[c][i][2]] \in CloudEnds
  /\ \A r \in listed[c] : cloud[r] \in CloudEnds

\* What a pull found finished is written, or still on its list.
StillListed(c, r) == \E i \in 1..Len(todo[c]) : todo[c][i] = <<"finished", r>>
CourierRecords(c) ==
  /\ stage[c] = "idle" => listed[c] = {}
  /\ ~broken[c] => \A r \in listed[c] :
       cloud[r] = "readable" =>
         StillListed(c, r) \/ DbtCloud!Seen(c, r) = DbtCloud!RootState(nodes[r])

CloudSettles ==
  \A r \in DbtCloud!Runs : settled[r] = "kept" => cloud[r] \in CloudEnds
    /\ (cloud[r] = "readable" => row[r] = DbtCloud!RootState(nodes[r]))

CloudInv ==
  /\ CloudTypes
  /\ \A r \in DbtCloud!Runs : RowStands(r) /\ PostsCounted(r)
  /\ \A c \in Couriers : CourierWrites(c) /\ CourierLists(c) /\ CourierRecords(c)
  /\ CloudSettles
-----------------------------------------------------------------------------
LEMMA RootStates ==
  ASSUME NEW results
  PROVE  /\ DbtCloud!RootState(results) \in CloudFinished
         /\ DbtCloud!RootState(results) = "FAILED" => DbtCloud!Failed(results) # {}
  BY DEF DbtCloud!RootState, CloudFinished, DbtCloud!Failed

LEMMA EndsAreEnds ==
  ASSUME DbtCloud!DbtCloudAssumption
  PROVE  "absent" \notin CloudEnds /\ "running" \notin CloudEnds /\ "readable" \in CloudEnds
         /\ CloudEnds \subseteq {"missing", "garbled", "fatal", "readable"}
  BY DEF DbtCloud!DbtCloudAssumption, CloudEnds

(* What a courier sees of a run is true, and has not gone back.                *)
LEMMA SeenIsTrue ==
  ASSUME NEW c \in Couriers, NEW r \in DbtCloud!Runs, CourierWrites(c), RowStands(r)
  PROVE  /\ MayStand(r, DbtCloud!Seen(c, r), ledger \union heard[c])
         /\ row[r] \in CloudFinished => DbtCloud!Seen(c, r) \in CloudFinished
<1>1. CASE r \in DOMAIN draft[c]
  BY <1>1 DEF CourierWrites, DbtCloud!Seen
<1>2. CASE r \notin DOMAIN draft[c]
  <2>1. r \notin heard[c] /\ DbtCloud!Seen(c, r) = row[r]
    BY <1>2 DEF CourierWrites, DbtCloud!Seen
  <2>2. (r \in ledger \union heard[c]) <=> r \in ledger
    BY <2>1
  <2> QED
    BY <2>1, <2>2 DEF RowStands, MayStand
<1> QED
  BY <1>1, <1>2

LEMMA CloudStarts == ASSUME DbtCloud!DbtCloudAssumption, DbtCloud!Init PROVE CloudInv
<1>1. CloudTypes
  BY DEF DbtCloud!Init, CloudTypes, CloudStates
<1>2. ASSUME NEW r \in DbtCloud!Runs PROVE RowStands(r) /\ PostsCounted(r)
  BY DEF DbtCloud!Init, RowStands, MayStand, PostsCounted, CloudSaid, CloudStates, CloudFinished
<1>3. ASSUME NEW c \in Couriers PROVE CourierWrites(c) /\ CourierLists(c) /\ CourierRecords(c)
  <2>1. CourierWrites(c)
    BY DEF DbtCloud!Init, CourierWrites, DbtCloud!DbtCloudAssumption
  <2>2. CourierLists(c) /\ CourierRecords(c)
    BY DEF DbtCloud!Init, CourierLists, CourierRecords
  <2> QED
    BY <2>1, <2>2
<1>4. CloudSettles
  BY DEF DbtCloud!Init, CloudSettles
<1> QED
  BY <1>1, <1>2, <1>3, <1>4 DEF CloudInv

-----------------------------------------------------------------------------
(* Jobs run on at dbt Cloud; a run that has ended stays as it is.              *)
LEMMA JobMovesKeeps ==
  ASSUME DbtCloud!DbtCloudAssumption, CloudInv, DbtCloud!JobMoves
  PROVE  CloudInv'
<1>1. /\ UNCHANGED <<stage, todo, draft, heard, broken, listed, holder, row, ledger,
                     posts, forgotten, settled>>
      /\ cloud \in [DbtCloud!Runs -> {"absent", "running"} \union CloudEnds]
      /\ nodes = [r \in DbtCloud!Runs |-> nodes[r]]
  BY DEF DbtCloud!JobMoves, CloudInv, CloudTypes
<1>2. PICK s \in DbtCloud!Runs : \E to \in {"running"} \union CloudEnds :
        /\ cloud[s] \in {"absent", "running"}
        /\ cloud' = [cloud EXCEPT ![s] = to]
        /\ nodes' = [r \in DbtCloud!Runs |-> nodes'[r]]
        /\ \A r \in DbtCloud!Runs : r # s => nodes'[r] = nodes[r]
  <2>1. PICK s \in DbtCloud!Runs :
          \/ cloud[s] = "absent" /\ cloud' = [cloud EXCEPT ![s] = "running"] /\ UNCHANGED nodes
          \/ /\ cloud[s] = "running"
             /\ \/ \E m \in Mishaps \ {"unreachable"} : cloud' = [cloud EXCEPT ![s] = m] /\ UNCHANGED nodes
                \/ \E a \in Results : /\ cloud' = [cloud EXCEPT ![s] = "readable"]
                                       /\ nodes' = [nodes EXCEPT ![s] = a]
    BY DEF DbtCloud!JobMoves
  <2>2. /\ nodes' = [r \in DbtCloud!Runs |-> nodes'[r]]
        /\ \A r \in DbtCloud!Runs : r # s => nodes'[r] = nodes[r]
    BY <1>1, <2>1
  <2>3. cloud[s] \in {"absent", "running"}
        /\ \E to \in {"running"} \union CloudEnds : cloud' = [cloud EXCEPT ![s] = to]
    BY <2>1 DEF CloudEnds
  <2> QED
    BY <2>2, <2>3
<1>3. /\ cloud' \in [DbtCloud!Runs -> {"absent", "running"} \union CloudEnds]
      /\ nodes' = [r \in DbtCloud!Runs |-> nodes'[r]]
      /\ \A r \in DbtCloud!Runs :
             cloud[r] \in CloudEnds => cloud'[r] = cloud[r] /\ nodes'[r] = nodes[r]
  BY <1>1, <1>2, EndsAreEnds
<1>4. CloudTypes'
  BY <1>1, <1>3 DEF CloudInv, CloudTypes
<1>5. ASSUME NEW r \in DbtCloud!Runs, NEW state, NEW claimed, MayStand(r, state, claimed)
      PROVE  MayStand(r, state, claimed)'
  BY <1>3, <1>5, EndsAreEnds DEF MayStand
<1>6. \A r \in DbtCloud!Runs : RowStands(r)' /\ PostsCounted(r)'
  BY <1>1, <1>5 DEF CloudInv, RowStands, PostsCounted, CloudSaid
<1>7. ASSUME NEW c \in Couriers
      PROVE  CourierWrites(c)' /\ CourierLists(c)' /\ CourierRecords(c)'
  <2>1. CourierWrites(c)'
    BY <1>1, <1>5 DEF CloudInv, CourierWrites
  <2>2. CourierLists(c)'
    <3>1. \A i \in 1..Len(todo[c]) : todo[c][i][2] \in DbtCloud!Runs
      BY DEF CloudInv, CourierLists
    <3>2. \A r \in listed[c] : r \in DbtCloud!Runs
      BY DEF CloudInv, CloudTypes
    <3> QED
      BY <1>1, <1>3, <3>1, <3>2 DEF CloudInv, CourierLists
  <2>3. CourierRecords(c)'
    <3>1. \A r \in listed[c] : r \in DbtCloud!Runs /\ cloud[r] \in CloudEnds
      BY DEF CloudInv, CloudTypes, CourierLists
    <3>2. \A r \in listed[c] :
            DbtCloud!Seen(c, r)' = DbtCloud!Seen(c, r) /\ StillListed(c, r)' = StillListed(c, r)
      BY <1>1 DEF DbtCloud!Seen, StillListed
    <3> QED
      BY <1>1, <1>3, <3>1, <3>2 DEF CloudInv, CourierRecords
  <2> QED
    BY <2>1, <2>2, <2>3
<1>8. CloudSettles'
  BY <1>1, <1>3 DEF CloudInv, CloudTypes, CloudSettles
<1> QED
  BY <1>4, <1>6, <1>7, <1>8 DEF CloudInv

-----------------------------------------------------------------------------
(* A courier that is left alone has what it had, however rows come to their end. *)
LEMMA RecordsStay ==
  ASSUME NEW c \in Couriers, CourierRecords(c), cloud' = cloud, nodes' = nodes,
         listed[c] \subseteq DbtCloud!Runs,
         \A r \in DbtCloud!Runs : row[r] \in CloudFinished => row'[r] = row[r],
         stage'[c] = stage[c], listed'[c] = listed[c], broken'[c] = broken[c],
         todo'[c] = todo[c], draft'[c] = draft[c]
  PROVE  CourierRecords(c)'
<1>1. ASSUME NEW r \in DbtCloud!Runs, DbtCloud!Seen(c, r) = DbtCloud!RootState(nodes[r])
      PROVE  DbtCloud!Seen(c, r)' = DbtCloud!RootState(nodes[r])
  BY <1>1, RootStates DEF DbtCloud!Seen
<1>2. \A r : StillListed(c, r) => StillListed(c, r)'
  BY DEF StillListed
<1> QED
  BY <1>1, <1>2 DEF CourierRecords

(* The lists.                                                              *)
LEMMA ListingIs ==
  ASSUME DbtCloud!DbtCloudAssumption, NEW S \in SUBSET DbtCloud!Runs,
         NEW l \in DbtCloud!NewestFirst(S),
         NEW kind \in {"finished", "running"}
  PROVE  /\ DbtCloud!Listed(l, kind) \in Seq({"finished", "running"} \X DbtCloud!Runs)
         /\ \A i \in 1..Len(DbtCloud!Listed(l, kind)) :
              DbtCloud!Listed(l, kind)[i][1] = kind /\ DbtCloud!Listed(l, kind)[i][2] \in S
         /\ \A r \in S : \E i \in 1..Len(DbtCloud!Listed(l, kind)) :
                DbtCloud!Listed(l, kind)[i] = <<kind, r>>
<1>1. PICK n \in 0..Len(ByRecency) : l \in [1..n -> S]
  BY DEF DbtCloud!NewestFirst
<1>2. n \in Nat
  BY <1>1 DEF DbtCloud!DbtCloudAssumption
<1>3. /\ DbtCloud!Listed(l, kind) = [i \in 1..n |-> <<kind, l[i]>>]
      /\ \A i \in 1..n : l[i] \in S
  BY <1>1 DEF DbtCloud!Listed
<1>4. DbtCloud!Listed(l, kind) \in Seq({"finished", "running"} \X DbtCloud!Runs)
      /\ Len(DbtCloud!Listed(l, kind)) = n
  BY <1>2, <1>3
<1>5. \A r \in S : \E i \in 1..n : l[i] = r
  BY <1>1 DEF DbtCloud!NewestFirst, DbtCloud!Range
<1> QED
  BY <1>3, <1>4, <1>5

(* A step that only gives a courier something to do.                          *)
LEMMA ErrandKeeps ==
  ASSUME CloudInv, NEW c \in Couriers,
         UNCHANGED <<cloud, nodes, draft, heard, broken, holder, row, ledger, posts,
                     forgotten, settled>>,
         NEW next \in {"finished", "running", "called"}, stage' = [stage EXCEPT ![c] = next],
         NEW work, todo' = [todo EXCEPT ![c] = work],
         NEW found \in SUBSET DbtCloud!Runs, listed' = [listed EXCEPT ![c] = found],
         CourierLists(c)', CourierRecords(c)'
  PROVE  CloudInv'
<1>1. CloudTypes'
  BY DEF CloudInv, CloudTypes
<1>2. \A r \in DbtCloud!Runs : RowStands(r)' /\ PostsCounted(r)'
  BY DEF CloudInv, RowStands, MayStand, PostsCounted, CloudSaid
<1>3. \A d \in Couriers : CourierWrites(d)'
  BY DEF CloudInv, CourierWrites, MayStand
<1>4. ASSUME NEW d \in Couriers, d # c PROVE CourierLists(d)' /\ CourierRecords(d)'
  <2>1. todo'[d] = todo[d] /\ listed'[d] = listed[d] /\ stage'[d] = stage[d]
    BY <1>4 DEF CloudInv, CloudTypes
  <2>2. CourierLists(d)'
    BY <2>1, <1>4 DEF CloudInv, CourierLists
  <2>3. CourierRecords(d)'
    BY <2>1, <1>4, RecordsStay DEF CloudInv, CloudTypes
  <2> QED
    BY <2>2, <2>3
<1>5. CloudSettles'
  BY DEF CloudInv, CloudSettles
<1> QED
  BY <1>1, <1>2, <1>3, <1>4, <1>5 DEF CloudInv

LEMMA PullKeeps ==
  ASSUME DbtCloud!DbtCloudAssumption, CloudInv, NEW c \in Couriers, DbtCloud!Pull(c)
  PROVE  CloudInv'
<1>0. PICK ended \in DbtCloud!Recent({r \in DbtCloud!Runs : DbtCloud!HasEnded(r)}) :
        /\ listed' = [listed EXCEPT ![c] = ended]
        /\ \E l \in DbtCloud!NewestFirst(ended) :
             DbtCloud!Leave(c, "finished", DbtCloud!Listed(l, "finished"))
  BY DEF DbtCloud!Pull
<1>1. PICK l \in DbtCloud!NewestFirst(ended) :
             DbtCloud!Leave(c, "finished", DbtCloud!Listed(l, "finished"))
  BY <1>0
<1>2. /\ UNCHANGED <<cloud, nodes, draft, heard, broken, holder, row, ledger, posts,
                     forgotten, settled>>
      /\ stage' = [stage EXCEPT ![c] = "finished"]
      /\ todo' = [todo EXCEPT ![c] = DbtCloud!Listed(l, "finished")]
      /\ listed' = [listed EXCEPT ![c] = ended]
  BY <1>0, <1>1 DEF DbtCloud!Leave
<1>3. todo'[c] = DbtCloud!Listed(l, "finished") /\ listed'[c] = ended /\ stage'[c] = "finished"
  BY <1>2 DEF CloudInv, CloudTypes
<1>4. \A r \in ended : r \in DbtCloud!Runs /\ cloud[r] \in CloudEnds
  <2>1. ended \subseteq {r \in DbtCloud!Runs : DbtCloud!HasEnded(r)}
    BY DEF DbtCloud!Recent
  <2> QED
    BY <2>1 DEF DbtCloud!HasEnded, CloudInv, CloudTypes
<1>5. /\ DbtCloud!Listed(l, "finished") \in Seq({"finished", "running"} \X DbtCloud!Runs)
      /\ \A i \in 1..Len(DbtCloud!Listed(l, "finished")) :
             DbtCloud!Listed(l, "finished")[i][2] \in ended
      /\ \A r \in ended : \E i \in 1..Len(DbtCloud!Listed(l, "finished")) :
           DbtCloud!Listed(l, "finished")[i] = <<"finished", r>>
  <2>1. ended \in SUBSET DbtCloud!Runs
    BY <1>4
  <2> QED
    BY <2>1, ListingIs
<1>6. CourierLists(c)'
  BY <1>2, <1>3, <1>4, <1>5 DEF CourierLists
<1>7. CourierRecords(c)'
  BY <1>3, <1>5 DEF CourierRecords, StillListed
<1> QED
  BY <1>2, <1>4, <1>6, <1>7, ErrandKeeps

LEMMA RingKeeps ==
  ASSUME DbtCloud!DbtCloudAssumption, CloudInv, NEW c \in Couriers, DbtCloud!Ring(c)
  PROVE  CloudInv'
<1>1. PICK r \in DbtCloud!Runs :
             DbtCloud!HasEnded(r) /\ DbtCloud!Leave(c, "called", <<(<<"finished", r>>)>>)
                        /\ UNCHANGED listed
  BY DEF DbtCloud!Ring
<1> DEFINE work == <<(<<"finished", r>>)>>
<1>2. /\ UNCHANGED <<cloud, nodes, draft, heard, broken, holder, row, ledger, posts,
                     forgotten, settled>>
      /\ stage' = [stage EXCEPT ![c] = "called"]
      /\ todo' = [todo EXCEPT ![c] = work]
      /\ listed[c] = {} /\ listed' = [listed EXCEPT ![c] = {}]
  <2>1. stage[c] = "idle"
    BY <1>1 DEF DbtCloud!Leave
  <2>2. listed[c] = {}
    BY <2>1 DEF CloudInv, CourierRecords
  <2> QED
    BY <1>1, <2>2 DEF DbtCloud!Leave, CloudInv, CloudTypes
<1>3. todo'[c] = work /\ listed'[c] = {}
  BY <1>2 DEF CloudInv, CloudTypes
<1>4. cloud[r] \in CloudEnds
  BY <1>1 DEF DbtCloud!HasEnded, CloudInv, CloudTypes
<1>5. /\ work \in Seq({"finished", "running"} \X DbtCloud!Runs) /\ Len(work) = 1
      /\ work[1][2] = r /\ \A i \in 1..Len(work) : i = 1
  OBVIOUS
<1> HIDE DEF work
<1>6. CourierLists(c)'
  BY <1>2, <1>3, <1>4, <1>5 DEF CourierLists
<1>7. CourierRecords(c)'
  BY <1>3 DEF CourierRecords
<1> QED
  BY <1>2, <1>6, <1>7, ErrandKeeps

LEMMA ListRunningKeeps ==
  ASSUME DbtCloud!DbtCloudAssumption, CloudInv, NEW c \in Couriers, DbtCloud!ListRunning(c)
  PROVE  CloudInv'
<1>0. PICK going \in DbtCloud!Recent({r \in DbtCloud!Runs : DbtCloud!IsRunning(r)}) :
        \E l \in DbtCloud!NewestFirst(going) :
             todo' = [todo EXCEPT ![c] = DbtCloud!Listed(l, "running")]
  BY DEF DbtCloud!ListRunning
<1>1. PICK l \in DbtCloud!NewestFirst(going) :
             todo' = [todo EXCEPT ![c] = DbtCloud!Listed(l, "running")]
  BY <1>0
<1>2. /\ UNCHANGED <<cloud, nodes, draft, heard, broken, holder, row, ledger, posts,
                     forgotten, settled, listed>>
      /\ stage' = [stage EXCEPT ![c] = "running"]
      /\ listed' = [listed EXCEPT ![c] = listed[c]]
      /\ listed[c] \in SUBSET DbtCloud!Runs
      /\ todo[c] = <<>>
  BY DEF DbtCloud!ListRunning, CloudInv, CloudTypes
<1>3. todo'[c] = DbtCloud!Listed(l, "running") /\ stage'[c] = "running"
  BY <1>1, <1>2 DEF CloudInv, CloudTypes
<1>4. /\ DbtCloud!Listed(l, "running") \in Seq({"finished", "running"} \X DbtCloud!Runs)
      /\ \A i \in 1..Len(DbtCloud!Listed(l, "running")) :
             DbtCloud!Listed(l, "running")[i][1] = "running"
  <2>1. going \in SUBSET DbtCloud!Runs
    BY DEF DbtCloud!Recent
  <2> QED
    BY <2>1, ListingIs
<1>5. CourierLists(c)'
  BY <1>2, <1>3, <1>4 DEF CloudInv, CourierLists
<1>6. CourierRecords(c)'
  <2>1. \A r \in listed[c] : ~StillListed(c, r)
    BY <1>2 DEF StillListed
  <2> QED
    BY <1>2, <1>3, <2>1 DEF CloudInv, CourierRecords, DbtCloud!Seen
<1> QED
  BY <1>1, <1>2, <1>5, <1>6, ErrandKeeps

-----------------------------------------------------------------------------
(* Giving up what a transaction has written and claimed.                      *)
LEMMA UndoKeeps ==
  ASSUME DbtCloud!DbtCloudAssumption, CloudInv, NEW c \in Couriers, DbtCloud!Undo(c),
         UNCHANGED <<cloud, nodes, row, ledger, posts>>
  PROVE  /\ draft' = [d \in Couriers |-> draft'[d]]
         /\ heard' \in [Couriers -> SUBSET DbtCloud!Runs]
         /\ holder' \in [DbtCloud!Runs -> Couriers \union {Nothing}]
         /\ forgotten' \in [DbtCloud!Runs -> Nat]
         /\ \A r \in DbtCloud!Runs : RowStands(r)' /\ PostsCounted(r)'
         /\ \A d \in Couriers : CourierWrites(d)'
         /\ \A d \in Couriers \ {c} : draft'[d] = draft[d]
<1>1. /\ draft' = [d \in Couriers |-> draft'[d]]
      /\ draft'[c] = <<>> /\ \A d \in Couriers \ {c} : draft'[d] = draft[d]
      /\ heard' \in [Couriers -> SUBSET DbtCloud!Runs]
      /\ heard'[c] = {} /\ \A d \in Couriers \ {c} : heard'[d] = heard[d]
      /\ holder' \in [DbtCloud!Runs -> Couriers \union {Nothing}]
      /\ \A r \in DbtCloud!Runs : holder'[r] = IF holder[r] = c THEN Nothing ELSE holder[r]
  BY DEF DbtCloud!Undo, CloudInv, CloudTypes
<1>2. /\ forgotten' \in [DbtCloud!Runs -> Nat]
      /\ \A r \in DbtCloud!Runs :
             forgotten'[r] = forgotten[r] + (IF r \in heard[c] THEN 1 ELSE 0)
  BY DEF DbtCloud!Undo, CloudInv, CloudTypes
<1>3. ASSUME NEW r \in DbtCloud!Runs PROVE RowStands(r)' /\ PostsCounted(r)'
  <2>1. RowStands(r)'
    BY DEF CloudInv, RowStands, MayStand
  <2>2. posts[r] \in Nat /\ forgotten[r] \in Nat /\ PostsCounted(r)
    BY DEF CloudInv, CloudTypes
  <2>3. CASE r \in heard[c]
    BY <1>2, <2>1, <2>2, <2>3 DEF PostsCounted
  <2>4. CASE r \notin heard[c]
    <3>1. CloudSaid(r) => CloudSaid(r)'
      BY <1>1, <2>4 DEF CloudSaid
    <3> QED
      BY <1>2, <2>1, <2>2, <2>4, <3>1 DEF PostsCounted
  <2> QED
    BY <2>1, <2>3, <2>4
<1>4. CourierWrites(c)'
  BY <1>1 DEF CourierWrites, DbtCloud!DbtCloudAssumption
<1>5. ASSUME NEW d \in Couriers, d # c PROVE CourierWrites(d)'
  <2>1. CourierWrites(d) /\ draft'[d] = draft[d] /\ heard'[d] = heard[d]
    BY <1>1, <1>5 DEF CloudInv
  <2>2. \A r \in DbtCloud!Runs : holder'[r] = d <=> holder[r] = d
    BY <1>1, <1>5 DEF DbtCloud!DbtCloudAssumption
  <2> QED
    BY <2>1, <2>2 DEF CourierWrites, MayStand, CloudInv, CloudTypes
<1> QED
  BY <1>1, <1>2, <1>3, <1>4, <1>5

LEMMA VictimKeeps ==
  ASSUME DbtCloud!DbtCloudAssumption, CloudInv, NEW c \in Couriers, DbtCloud!Victim(c)
  PROVE  CloudInv'
<1>1. /\ DbtCloud!Undo(c) /\ broken' = [broken EXCEPT ![c] = TRUE]
      /\ UNCHANGED <<cloud, nodes, stage, todo, listed, row, ledger, posts, settled>>
  BY DEF DbtCloud!Victim, DbtCloud!RollBack
<1>2. CloudTypes'
  BY <1>1, UndoKeeps DEF CloudInv, CloudTypes
<1>3. ASSUME NEW d \in Couriers PROVE CourierLists(d)' /\ CourierRecords(d)'
  <2>1. CourierLists(d)'
    BY <1>1 DEF CloudInv, CourierLists
  <2>2. CASE d = c
    <3>1. broken'[c] = TRUE /\ stage'[c] = stage[c] /\ listed'[c] = listed[c]
      BY <1>1 DEF CloudInv, CloudTypes
    <3>2. CourierRecords(c)
      BY DEF CloudInv
    <3> QED
      BY <2>1, <2>2, <3>1, <3>2 DEF CourierRecords
  <2>3. CASE d # c
    <3>1. /\ broken'[d] = broken[d] /\ draft'[d] = draft[d] /\ stage'[d] = stage[d]
          /\ listed'[d] = listed[d] /\ todo'[d] = todo[d] /\ row' = row
      BY <1>1, <2>3, UndoKeeps DEF CloudInv, CloudTypes
    <3>2. CourierRecords(d) /\ listed[d] \subseteq DbtCloud!Runs
      BY DEF CloudInv, CloudTypes
    <3> QED
      BY <1>1, <2>1, <2>3, <3>1, <3>2, RecordsStay
  <2> QED
    BY <2>1, <2>2, <2>3
<1>4. CloudSettles'
  BY <1>1 DEF CloudInv, CloudSettles
<1> QED
  BY <1>1, <1>2, <1>3, <1>4, UndoKeeps DEF CloudInv

(* Back at rest without having committed.                                     *)
LEMMA LostKeeps ==
  ASSUME DbtCloud!DbtCloudAssumption, CloudInv, NEW c \in Couriers, DbtCloud!Rested(c),
         DbtCloud!Undo(c),
         UNCHANGED <<row, ledger>>,
         settled' \in [DbtCloud!Runs -> {"never", "kept", "undone"}],
         \A r \in DbtCloud!Runs : settled'[r] = "kept" => settled[r] = "kept"
  PROVE  CloudInv'
<1>1. /\ UNCHANGED <<cloud, nodes, posts>>
      /\ stage' = [stage EXCEPT ![c] = "idle"] /\ todo' = [todo EXCEPT ![c] = <<>>]
      /\ broken' = [broken EXCEPT ![c] = FALSE] /\ listed' = [listed EXCEPT ![c] = {}]
  BY DEF DbtCloud!Rested
<1>2. CloudTypes'
  BY <1>1, UndoKeeps DEF CloudInv, CloudTypes
<1>3. ASSUME NEW d \in Couriers PROVE CourierLists(d)' /\ CourierRecords(d)'
  <2>1. CASE d = c
    <3>1. todo'[c] = <<>> /\ listed'[c] = {}
      BY <1>1 DEF CloudInv, CloudTypes
    <3> QED
      BY <2>1, <3>1 DEF CourierLists, CourierRecords
  <2>2. CASE d # c
    <3>1. /\ todo'[d] = todo[d] /\ listed'[d] = listed[d] /\ stage'[d] = stage[d]
          /\ broken'[d] = broken[d] /\ draft'[d] = draft[d]
      BY <1>1, <2>2, UndoKeeps DEF CloudInv, CloudTypes
    <3>2. CourierLists(d)'
      BY <1>1, <3>1 DEF CloudInv, CourierLists
    <3>3. CourierRecords(d)'
      BY <1>1, <3>1, RecordsStay DEF CloudInv, CloudTypes
    <3> QED
      BY <3>2, <3>3
  <2> QED
    BY <2>1, <2>2
<1>4. CloudSettles'
  BY <1>1 DEF CloudInv, CloudSettles
<1> QED
  BY <1>1, <1>2, <1>3, <1>4, UndoKeeps DEF CloudInv

-----------------------------------------------------------------------------
(* Writing a run's row, with its message or without.                          *)
LEMMA WriteKeeps ==
  ASSUME DbtCloud!DbtCloudAssumption, CloudInv, NEW c \in Couriers, NEW r \in DbtCloud!Runs,
         NEW state \in CloudFinished \union {"RUNNING"},
         holder[r] \in {c, Nothing}, DbtCloud!Write(c, r, state),
         UNCHANGED <<cloud, nodes, row, ledger, forgotten>>,
         state \in CloudFinished =>
           cloud[r] = "readable" /\ state = DbtCloud!RootState(nodes[r]),
         \/ UNCHANGED <<heard, posts>>
         \/ /\ state \in CloudFinished /\ r \notin ledger \union heard[c]
            /\ heard' = [heard EXCEPT ![c] = @ \union {r}]
            /\ posts' = [posts EXCEPT ![r] = @ + 1],
         state = "FAILED" => r \in ledger \union heard'[c]
  PROVE  /\ draft' = [d \in Couriers |-> draft'[d]]
         /\ heard' \in [Couriers -> SUBSET DbtCloud!Runs]
         /\ holder' \in [DbtCloud!Runs -> Couriers \union {Nothing}]
         /\ posts' \in [DbtCloud!Runs -> Nat]
         /\ \A q \in DbtCloud!Runs : RowStands(q)' /\ PostsCounted(q)'
         /\ \A d \in Couriers : CourierWrites(d)'
         /\ \A d \in Couriers \ {c} : draft'[d] = draft[d]
         /\ DbtCloud!Seen(c, r)' = DbtCloud!NextState(DbtCloud!Seen(c, r), state)
         /\ \A q \in DbtCloud!Runs \ {r} : DbtCloud!Seen(c, q)' = DbtCloud!Seen(c, q)
<1> DEFINE v == DbtCloud!NextState(DbtCloud!Seen(c, r), state)
<1>1. /\ draft' = [d \in Couriers |-> draft'[d]]
      /\ draft'[c] = [q \in DOMAIN draft[c] \union {r} |-> IF q = r THEN v ELSE draft[c][q]]
      /\ \A d \in Couriers \ {c} : draft'[d] = draft[d]
      /\ holder' \in [DbtCloud!Runs -> Couriers \union {Nothing}]
      /\ holder'[r] = c /\ \A q \in DbtCloud!Runs \ {r} : holder'[q] = holder[q]
  BY DEF DbtCloud!Write, CloudInv, CloudTypes
<1>2. /\ heard' \in [Couriers -> SUBSET DbtCloud!Runs]
      /\ \A d \in Couriers \ {c} : heard'[d] = heard[d]
      /\ \A q \in DbtCloud!Runs \ {r} : q \in heard'[c] <=> q \in heard[c]
      /\ heard[c] \subseteq heard'[c]
      /\ state \notin CloudFinished => heard'[c] = heard[c]
  BY DEF CloudInv, CloudTypes
<1>3. /\ posts' \in [DbtCloud!Runs -> Nat] /\ posts \in [DbtCloud!Runs -> Nat]
      /\ forgotten \in [DbtCloud!Runs -> Nat]
      /\ \A q \in DbtCloud!Runs \ {r} : posts'[q] = posts[q]
  BY DEF CloudInv, CloudTypes
<1>4. /\ CourierWrites(c) /\ \A q \in DbtCloud!Runs : RowStands(q) /\ PostsCounted(q)
      /\ \A d \in Couriers : CourierWrites(d)
      /\ DOMAIN draft'[c] = DOMAIN draft[c] \union {r}
      /\ draft'[c][r] = v /\ \A q \in DOMAIN draft[c] \ {r} : draft'[c][q] = draft[c][q]
  BY <1>1 DEF CloudInv
<1>5. /\ DbtCloud!Seen(c, r)' = v
      /\ \A q \in DbtCloud!Runs \ {r} : DbtCloud!Seen(c, q)' = DbtCloud!Seen(c, q)
  BY <1>4 DEF DbtCloud!Seen
<1>6. /\ MayStand(r, DbtCloud!Seen(c, r), ledger \union heard[c])
      /\ row[r] \in CloudFinished => DbtCloud!Seen(c, r) \in CloudFinished
  BY <1>4, SeenIsTrue
<1>7. MayStand(r, v, ledger \union heard'[c])
      /\ (row[r] \in CloudFinished => v \in CloudFinished)
  <2>1. CASE state \in CloudFinished
    <3>1. v = state
      BY <2>1 DEF DbtCloud!NextState, CloudFinished
    <3> QED
      BY <2>1, <3>1 DEF MayStand, CloudStates
  <2>2. CASE state = "RUNNING"
    <3>1. v = IF DbtCloud!Seen(c, r) \in CloudFinished THEN DbtCloud!Seen(c, r) ELSE "RUNNING"
      BY <2>2 DEF DbtCloud!NextState, CloudFinished
    <3>2. heard'[c] = heard[c]
      BY <1>2, <2>2 DEF CloudFinished
    <3> QED
      BY <1>6, <3>1, <3>2 DEF MayStand, CloudStates, CloudFinished
  <2> QED
    BY <2>1, <2>2
<1>8. CourierWrites(c)'
  <2>1. \A q \in DbtCloud!Runs : q \in DOMAIN draft'[c] <=> holder'[q] = c
    BY <1>1, <1>4 DEF CourierWrites
  <2>2. DOMAIN draft'[c] \subseteq DbtCloud!Runs
    BY <1>4 DEF CourierWrites
  <2>3. \A q \in heard'[c] : holder'[q] = c /\ q \notin ledger'
    <3>1. ASSUME NEW q \in heard'[c], q # r PROVE holder'[q] = c /\ q \notin ledger'
      <4>1. q \in DbtCloud!Runs /\ q \in heard[c]
        BY <1>2, <3>1
      <4> QED
        BY <1>1, <1>4, <3>1, <4>1 DEF CourierWrites
    <3>2. ASSUME r \in heard'[c] PROVE holder'[r] = c /\ r \notin ledger'
      BY <1>1, <1>4, <3>2 DEF CourierWrites
    <3> QED
      BY <3>1, <3>2
  <2>4. ASSUME NEW q \in DOMAIN draft'[c]
        PROVE  /\ MayStand(q, draft[c][q], ledger \union heard[c])'
               /\ row'[q] \in CloudFinished => draft'[c][q] \in CloudFinished
    <3>1. CASE q = r
      BY <1>4, <1>7, <3>1 DEF MayStand
    <3>2. CASE q # r
      <4>1. q \in DOMAIN draft[c] /\ q \in DbtCloud!Runs /\ draft'[c][q] = draft[c][q]
        BY <1>4, <2>2, <3>2
      <4>2. /\ MayStand(q, draft[c][q], ledger \union heard[c])
            /\ row[q] \in CloudFinished => draft[c][q] \in CloudFinished
        BY <1>4, <4>1 DEF CourierWrites
      <4> QED
        BY <1>2, <3>2, <4>1, <4>2 DEF MayStand
    <3> QED
      BY <3>1, <3>2
  <2> QED
    BY <2>1, <2>2, <2>3, <2>4 DEF CourierWrites, MayStand
<1>9. ASSUME NEW d \in Couriers, d # c PROVE CourierWrites(d)'
  <2>1. CourierWrites(d) /\ draft'[d] = draft[d] /\ heard'[d] = heard[d]
    BY <1>1, <1>2, <1>4, <1>9
  <2>2. \A q \in DbtCloud!Runs : holder'[q] = d <=> holder[q] = d
    BY <1>1, <1>9 DEF DbtCloud!DbtCloudAssumption
  <2>3. heard[d] \subseteq DbtCloud!Runs
    BY DEF CloudInv, CloudTypes
  <2> QED
    BY <2>1, <2>2, <2>3 DEF CourierWrites, MayStand
<1>10. ASSUME NEW q \in DbtCloud!Runs PROVE RowStands(q)' /\ PostsCounted(q)'
  <2>1. RowStands(q)'
    BY <1>4 DEF RowStands, MayStand
  <2>2. CloudSaid(q) => CloudSaid(q)'
    BY <1>2 DEF CloudSaid
  <2>3. PostsCounted(q)'
    <3>1. CASE q # r \/ posts' = posts
      <4>1. posts'[q] = posts[q]
        BY <1>3, <3>1
      <4> QED
        BY <1>4, <2>2, <4>1 DEF PostsCounted
    <3>2. CASE q = r /\ posts' # posts
      <4>1. /\ r \notin ledger \union heard[c] /\ r \in heard'[c]
            /\ posts'[r] = posts[r] + 1
        BY <1>3, <3>2 DEF CloudInv, CloudTypes
      <4>2. ~CloudSaid(r)
        <5>1. ASSUME NEW d \in Couriers, r \in heard[d] PROVE FALSE
          <6>1. holder[r] = d
            BY <1>4, <5>1 DEF CourierWrites
          <6> QED
            BY <4>1, <5>1, <6>1 DEF DbtCloud!DbtCloudAssumption
        <5> QED
          BY <4>1, <5>1 DEF CloudSaid
      <4>3. CloudSaid(r)'
        BY <4>1 DEF CloudSaid
      <4> QED
        BY <1>3, <1>4, <3>2, <4>1, <4>2, <4>3 DEF PostsCounted
    <3> QED
      BY <3>1, <3>2
  <2> QED
    BY <2>1, <2>3
<1> QED
  BY <1>1, <1>2, <1>3, <1>5, <1>8, <1>9, <1>10

-----------------------------------------------------------------------------
(* One run off the list.                                                    *)
LEMMA TodoShrinks ==
  ASSUME NEW work \in Seq({"finished", "running"} \X DbtCloud!Runs), work # <<>>
  PROVE  /\ Head(work)[1] \in {"finished", "running"} /\ Head(work)[2] \in DbtCloud!Runs
         /\ Head(work) = work[1] /\ Len(work) >= 1
         /\ Tail(work) \in Seq({"finished", "running"} \X DbtCloud!Runs)
         /\ \A i \in 1..Len(Tail(work)) : i + 1 \in 1..Len(work) /\ Tail(work)[i] = work[i + 1]
         /\ \A x : (\E i \in 1..Len(work) : work[i] = x) /\ x # Head(work)
                     => \E i \in 1..Len(Tail(work)) : Tail(work)[i] = x
<1>1. /\ Len(work) \in Nat /\ Len(work) >= 1
      /\ Head(work) = work[1] /\ Head(work) \in {"finished", "running"} \X DbtCloud!Runs
      /\ Tail(work) \in Seq({"finished", "running"} \X DbtCloud!Runs)
      /\ Len(Tail(work)) = Len(work) - 1
      /\ \A i \in 1..(Len(work) - 1) : Tail(work)[i] = work[i + 1]
  OBVIOUS
<1>2. ASSUME NEW x, NEW i \in 1..Len(work), work[i] = x, x # Head(work)
      PROVE  \E j \in 1..Len(Tail(work)) : Tail(work)[j] = x
  <2>1. i - 1 \in 1..Len(Tail(work)) /\ Tail(work)[i - 1] = x
    BY <1>1, <1>2
  <2> QED
    BY <2>1
<1> QED
  BY <1>1, <1>2

(* What the step may do with the run, apart from taking it off the list.       *)
LEMMA TakeParts ==
  ASSUME DbtCloud!DbtCloudAssumption, CloudInv, NEW c \in Couriers, DbtCloud!Take(c),
         NEW kind, kind = Head(todo[c])[1], NEW r, r = Head(todo[c])[2]
  PROVE  /\ \/ /\ broken[c] \/ kind = "running" \/ cloud[r] # "readable"
               /\ DbtCloud!Skip /\ UNCHANGED listed
            \/ DbtCloud!Skip /\ listed' = [listed EXCEPT ![c] = listed[c] \ {r}]
            \/ DbtCloud!RollBack(c) /\ UNCHANGED <<posts, listed>>
            \/ /\ kind = "finished" /\ cloud[r] = "readable" /\ holder[r] \in {c, Nothing}
               /\ DbtCloud!Write(c, r, DbtCloud!RootState(nodes[r])) /\ DbtCloud!Announce(c, r)
               /\ UNCHANGED <<broken, forgotten, listed>>
            \/ /\ kind = "running" /\ holder[r] \in {c, Nothing}
               /\ DbtCloud!Write(c, r, "RUNNING")
               /\ UNCHANGED <<heard, posts, broken, forgotten, listed>>
         /\ stage[c] # "idle" /\ todo[c] # <<>> /\ r \in DbtCloud!Runs
         /\ todo' = [todo EXCEPT ![c] = Tail(todo[c])]
         /\ UNCHANGED <<cloud, nodes, stage, row, ledger, settled>>
<1>1. /\ stage[c] # "idle" /\ todo[c] # <<>>
      /\ todo' = [todo EXCEPT ![c] = Tail(todo[c])]
      /\ UNCHANGED <<cloud, nodes, stage, row, ledger, settled>>
      /\ IF broken[c] THEN DbtCloud!Skip /\ UNCHANGED listed
         ELSE /\ holder[r] \in {c, Nothing}
              /\ IF kind = "finished"
                 THEN DbtCloud!IngestRun(c, r) ELSE DbtCloud!IngestRunning(c, r)
  BY DEF DbtCloud!Take, DbtCloud!Rest
<1>2. todo[c] \in Seq({"finished", "running"} \X DbtCloud!Runs)
      /\ \A i \in 1..Len(todo[c]) :
             todo[c][i][1] = "finished" => cloud[todo[c][i][2]] \in CloudEnds
  BY DEF CloudInv, CourierLists
<1>3. kind \in {"finished", "running"} /\ r \in DbtCloud!Runs
      /\ (kind = "finished" => cloud[r] \in CloudEnds)
  BY <1>1, <1>2, TodoShrinks
<1>4. CASE broken[c]
  BY <1>1, <1>3, <1>4
<1>5. CASE ~broken[c] /\ kind = "finished"
  <2>1. holder[r] \in {c, Nothing} /\ DbtCloud!IngestRun(c, r)
    BY <1>1, <1>5
  <2>2. cloud[r] \in {"missing", "garbled", "fatal", "readable"}
    BY <1>3, <1>5, EndsAreEnds
  <2>6. CASE DbtCloud!Skip /\ listed' = [listed EXCEPT ![c] = @ \ {r}]
    BY <1>1, <1>3, <2>6
  <2>3. CASE ~DbtCloud!Parsed(r) /\ DbtCloud!Skip /\ UNCHANGED listed
    BY <1>1, <1>3, <1>5, <2>3 DEF DbtCloud!Parsed, DbtCloud!Fetched
  <2>4. CASE DbtCloud!RollBack(c) /\ UNCHANGED <<posts, listed>>
    BY <1>1, <1>3, <2>4
  <2>5. CASE /\ DbtCloud!Parsed(r) /\ cloud[r] # "fatal"
             /\ DbtCloud!Write(c, r, DbtCloud!RootState(nodes[r])) /\ DbtCloud!Announce(c, r)
             /\ UNCHANGED <<broken, forgotten, listed>>
    <3>1. cloud[r] = "readable"
      BY <2>2, <2>5 DEF DbtCloud!Parsed, DbtCloud!Fetched
    <3> QED
      BY <1>1, <1>3, <1>5, <2>1, <2>5, <3>1
  <2> QED
    BY <2>1, <2>3, <2>4, <2>5, <2>6 DEF DbtCloud!IngestRun
<1>6. CASE ~broken[c] /\ kind = "running"
  BY <1>1, <1>3, <1>6 DEF DbtCloud!IngestRunning
<1> QED
  BY <1>3, <1>4, <1>5, <1>6

LEMMA TakeKeeps ==
  ASSUME DbtCloud!DbtCloudAssumption, CloudInv, NEW c \in Couriers, DbtCloud!Take(c)
  PROVE  CloudInv'
<1>1. PICK kind, r : kind = Head(todo[c])[1] /\ r = Head(todo[c])[2]
  OBVIOUS
<1>2. /\ stage[c] # "idle" /\ todo[c] # <<>> /\ r \in DbtCloud!Runs
      /\ todo' = [todo EXCEPT ![c] = Tail(todo[c])]
      /\ UNCHANGED <<cloud, nodes, stage, row, ledger, settled>>
  BY <1>1, TakeParts
<1>0. /\ listed' \in [Couriers -> SUBSET DbtCloud!Runs] /\ listed'[c] \subseteq listed[c]
      /\ \A d \in Couriers \ {c} : listed'[d] = listed[d]
  <2>1. \/ UNCHANGED listed
        \/ listed' = [listed EXCEPT ![c] = listed[c] \ {r}]
    BY <1>1, TakeParts
  <2> QED
    BY <2>1 DEF CloudInv, CloudTypes
<1>3. /\ todo'[c] = Tail(todo[c]) /\ \A d \in Couriers \ {c} : todo'[d] = todo[d]
      /\ todo' = [d \in Couriers |-> todo'[d]]
  BY <1>2 DEF CloudInv, CloudTypes
<1>4. todo[c] \in Seq({"finished", "running"} \X DbtCloud!Runs)
  BY DEF CloudInv, CourierLists
<1>5. ASSUME NEW d \in Couriers PROVE CourierLists(d)'
  <2>1. CASE d = c
    <3>1. /\ Tail(todo[c]) \in Seq({"finished", "running"} \X DbtCloud!Runs)
          /\ \A i \in 1..Len(Tail(todo[c])) :
               i + 1 \in 1..Len(todo[c]) /\ Tail(todo[c])[i] = todo[c][i + 1]
      BY <1>2, <1>4, TodoShrinks
    <3>2. /\ \A i \in 1..Len(todo[c]) :
               todo[c][i][1] = "finished" => cloud[todo[c][i][2]] \in CloudEnds
          /\ \A q \in listed[c] : cloud[q] \in CloudEnds
      BY DEF CloudInv, CourierLists
    <3>3. \A i \in 1..Len(Tail(todo[c])) :
            Tail(todo[c])[i][1] = "finished" => cloud[Tail(todo[c])[i][2]] \in CloudEnds
      BY <3>1, <3>2
    <3>4. todo'[d] = Tail(todo[c]) /\ listed'[d] \subseteq listed[c] /\ cloud' = cloud
      BY <1>0, <1>2, <1>3, <2>1
    <3> QED
      BY <3>1, <3>2, <3>3, <3>4 DEF CourierLists, CloudEnds
  <2>2. CASE d # c
    BY <1>0, <1>2, <1>3, <2>2 DEF CloudInv, CourierLists
  <2> QED
    BY <2>1, <2>2
<1>6. \A q : StillListed(c, q) => StillListed(c, q)' \/ (kind = "finished" /\ q = r)
  <2>1. ASSUME NEW q, StillListed(c, q), ~StillListed(c, q)' PROVE kind = "finished" /\ q = r
    <3>1. <<"finished", q>> = Head(todo[c])
      <4>1. \E i \in 1..Len(todo[c]) : todo[c][i] = <<"finished", q>>
        BY <2>1 DEF StillListed
      <4>2. ~\E i \in 1..Len(Tail(todo[c])) : Tail(todo[c])[i] = <<"finished", q>>
        BY <1>3, <2>1 DEF StillListed
      <4> QED
        BY <1>2, <1>4, <4>1, <4>2, TodoShrinks
    <3> QED
      BY <1>1, <3>1
  <2> QED
    BY <2>1
<1>7. CloudSettles'
  BY <1>2 DEF CloudInv, CloudSettles
\* It suffices to account for the rows and for what the courier records.
<1>8. SUFFICES /\ draft' = [d \in Couriers |-> draft'[d]]
               /\ heard' \in [Couriers -> SUBSET DbtCloud!Runs]
               /\ broken' \in [Couriers -> BOOLEAN]
               /\ holder' \in [DbtCloud!Runs -> Couriers \union {Nothing}]
               /\ posts' \in [DbtCloud!Runs -> Nat] /\ forgotten' \in [DbtCloud!Runs -> Nat]
               /\ \A q \in DbtCloud!Runs : RowStands(q)' /\ PostsCounted(q)'
               /\ \A d \in Couriers : CourierWrites(d)'
               /\ \A d \in Couriers \ {c} : draft'[d] = draft[d] /\ broken'[d] = broken[d]
               /\ CourierRecords(c)'
  <2>1. ASSUME NEW d \in Couriers \ {c}, draft'[d] = draft[d], broken'[d] = broken[d]
        PROVE  CourierRecords(d)'
    <3>1. CourierRecords(d) /\ listed[d] \subseteq DbtCloud!Runs
      BY DEF CloudInv, CloudTypes
    <3> QED
      BY <1>0, <1>2, <1>3, <2>1, <3>1, RecordsStay
  <2> QED
    BY <1>0, <1>2, <1>3, <1>5, <1>7, <2>1 DEF CloudInv, CloudTypes
<1>9. CourierRecords(c) /\ CloudTypes /\ listed[c] \subseteq DbtCloud!Runs
  BY DEF CloudInv, CloudTypes
<1>10. CASE /\ DbtCloud!Skip
            /\ \/ /\ broken[c] \/ kind = "running" \/ cloud[r] # "readable"
                  /\ UNCHANGED listed
               \/ listed' = [listed EXCEPT ![c] = listed[c] \ {r}]
  <2>1. UNCHANGED <<holder, draft, heard, posts, broken, forgotten>>
    BY <1>10 DEF DbtCloud!Skip
  <2>2. \A q \in DbtCloud!Runs : RowStands(q)' /\ PostsCounted(q)'
    BY <1>2, <2>1 DEF CloudInv, RowStands, MayStand, PostsCounted, CloudSaid
  <2>3. \A d \in Couriers : CourierWrites(d)'
    BY <1>2, <2>1 DEF CloudInv, CourierWrites, MayStand
  <2>4. \A q : DbtCloud!Seen(c, q)' = DbtCloud!Seen(c, q)
    BY <1>2, <2>1 DEF DbtCloud!Seen
  <2>6. \A q \in listed'[c] : q \in listed[c]
          /\ (~broken[c] /\ cloud[q] = "readable" => ~(kind = "finished" /\ q = r))
    <3>1. CASE listed' = [listed EXCEPT ![c] = listed[c] \ {r}]
      BY <1>9, <3>1 DEF CloudTypes
    <3> QED
      BY <1>10, <3>1
  <2>5. CourierRecords(c)'
    BY <1>2, <1>6, <1>9, <2>1, <2>4, <2>6 DEF CourierRecords
  <2> QED
    BY <1>9, <2>1, <2>2, <2>3, <2>5 DEF CloudTypes
<1>11. CASE DbtCloud!RollBack(c) /\ UNCHANGED <<posts, listed>>
  <2>1. DbtCloud!Undo(c) /\ broken' = [broken EXCEPT ![c] = TRUE]
    BY <1>11 DEF DbtCloud!RollBack
  <2>2. broken' \in [Couriers -> BOOLEAN] /\ broken'[c] = TRUE
        /\ \A d \in Couriers \ {c} : broken'[d] = broken[d]
    BY <1>9, <2>1 DEF CloudTypes
  <2>3. CourierRecords(c)'
    BY <1>2, <2>2 DEF CourierRecords
  <2>4. UNCHANGED <<cloud, nodes, row, ledger, posts>>
    BY <1>2, <1>11
  <2> QED
    BY <1>9, <1>11, <2>1, <2>2, <2>3, <2>4, UndoKeeps DEF CloudTypes
<1>12. CASE /\ kind = "finished" /\ cloud[r] = "readable" /\ holder[r] \in {c, Nothing}
            /\ DbtCloud!Write(c, r, DbtCloud!RootState(nodes[r])) /\ DbtCloud!Announce(c, r)
            /\ UNCHANGED <<broken, forgotten, listed>>
  <2> DEFINE state == DbtCloud!RootState(nodes[r])
  <2>1. state \in CloudFinished /\ (state = "FAILED" => DbtCloud!HasMessage(r))
    BY RootStates DEF DbtCloud!HasMessage
  <2>2. /\ \/ UNCHANGED <<heard, posts>>
           \/ /\ r \notin ledger \union heard[c]
              /\ heard' = [heard EXCEPT ![c] = @ \union {r}]
              /\ posts' = [posts EXCEPT ![r] = @ + 1]
        /\ DbtCloud!HasMessage(r) => r \in ledger \union heard'[c]
    <3>1. CASE DbtCloud!HasMessage(r) /\ ~DbtCloud!Claimed(c, r)
      <4>1. /\ heard' = [heard EXCEPT ![c] = @ \union {r}]
            /\ posts' = [posts EXCEPT ![r] = @ + 1]
        BY <1>12, <3>1 DEF DbtCloud!Announce
      <4>2. r \in heard'[c]
        BY <1>9, <4>1 DEF CloudTypes
      <4> QED
        BY <3>1, <4>1, <4>2 DEF DbtCloud!Claimed
    <3>2. CASE ~(DbtCloud!HasMessage(r) /\ ~DbtCloud!Claimed(c, r))
      BY <1>12, <3>2 DEF DbtCloud!Announce, DbtCloud!Claimed
    <3> QED
      BY <3>1, <3>2
  <2>3. UNCHANGED <<cloud, nodes, row, ledger, forgotten>>
    BY <1>2, <1>12
  <2>4. /\ draft' = [d \in Couriers |-> draft'[d]]
        /\ heard' \in [Couriers -> SUBSET DbtCloud!Runs]
        /\ holder' \in [DbtCloud!Runs -> Couriers \union {Nothing}]
        /\ posts' \in [DbtCloud!Runs -> Nat]
        /\ \A q \in DbtCloud!Runs : RowStands(q)' /\ PostsCounted(q)'
        /\ \A d \in Couriers : CourierWrites(d)'
        /\ \A d \in Couriers \ {c} : draft'[d] = draft[d]
        /\ DbtCloud!Seen(c, r)' = DbtCloud!NextState(DbtCloud!Seen(c, r), state)
        /\ \A q \in DbtCloud!Runs \ {r} : DbtCloud!Seen(c, q)' = DbtCloud!Seen(c, q)
    BY <1>2, <1>12, <2>1, <2>2, <2>3, WriteKeeps
  <2>5. DbtCloud!Seen(c, r)' = state
    BY <2>1, <2>4 DEF DbtCloud!NextState, CloudFinished
  <2>6. CourierRecords(c)'
    BY <1>2, <1>6, <1>9, <1>12, <2>4, <2>5 DEF CourierRecords
  <2> QED
    BY <1>9, <1>12, <2>4, <2>6 DEF CloudTypes
<1>13. CASE /\ kind = "running" /\ holder[r] \in {c, Nothing}
            /\ DbtCloud!Write(c, r, "RUNNING")
            /\ UNCHANGED <<heard, posts, broken, forgotten, listed>>
  <2>1. UNCHANGED <<cloud, nodes, row, ledger, forgotten>> /\ UNCHANGED <<heard, posts>>
        /\ "RUNNING" \notin CloudFinished
    BY <1>2, <1>13 DEF CloudFinished
  <2>2. /\ draft' = [d \in Couriers |-> draft'[d]]
        /\ heard' \in [Couriers -> SUBSET DbtCloud!Runs]
        /\ holder' \in [DbtCloud!Runs -> Couriers \union {Nothing}]
        /\ posts' \in [DbtCloud!Runs -> Nat]
        /\ \A q \in DbtCloud!Runs : RowStands(q)' /\ PostsCounted(q)'
        /\ \A d \in Couriers : CourierWrites(d)'
        /\ \A d \in Couriers \ {c} : draft'[d] = draft[d]
        /\ DbtCloud!Seen(c, r)' = DbtCloud!NextState(DbtCloud!Seen(c, r), "RUNNING")
        /\ \A q \in DbtCloud!Runs \ {r} : DbtCloud!Seen(c, q)' = DbtCloud!Seen(c, q)
    BY <1>2, <1>13, <2>1, WriteKeeps
  <2>3. DbtCloud!Seen(c, r) \in CloudFinished => DbtCloud!Seen(c, r)' = DbtCloud!Seen(c, r)
    BY <2>2 DEF DbtCloud!NextState, CloudFinished
  <2>4. CourierRecords(c)'
    <3>1. \A q \in DbtCloud!Runs :
            DbtCloud!Seen(c, q) = DbtCloud!RootState(nodes[q]) =>
              DbtCloud!Seen(c, q)' = DbtCloud!RootState(nodes[q])
      BY <2>2, <2>3, RootStates
    <3> QED
      BY <1>2, <1>6, <1>9, <1>13, <3>1 DEF CourierRecords
  <2> QED
    BY <1>9, <1>13, <2>2, <2>4 DEF CloudTypes
<1> QED
  BY <1>1, <1>10, <1>11, <1>12, <1>13, TakeParts

-----------------------------------------------------------------------------
(* A commit takes no row back from its end.                                   *)
LEMMA CommitForward ==
  ASSUME CloudInv, NEW c \in Couriers, NEW r \in DbtCloud!Runs
  PROVE  /\ MayStand(r, DbtCloud!Seen(c, r), ledger \union heard[c])
         /\ row[r] \in CloudFinished => DbtCloud!Seen(c, r) = row[r]
<1>1. CourierWrites(c) /\ RowStands(r)
  BY DEF CloudInv
<1>2. /\ MayStand(r, DbtCloud!Seen(c, r), ledger \union heard[c])
      /\ row[r] \in CloudFinished => DbtCloud!Seen(c, r) \in CloudFinished
  BY <1>1, SeenIsTrue
<1> QED
  BY <1>1, <1>2 DEF RowStands, MayStand

LEMMA CommitKeeps ==
  ASSUME DbtCloud!DbtCloudAssumption, CloudInv, NEW c \in Couriers, DbtCloud!Commit(c),
         ~broken[c]
  PROVE  CloudInv'
<1>1. /\ stage' = [stage EXCEPT ![c] = "idle"] /\ todo' = [todo EXCEPT ![c] = <<>>]
      /\ broken' = [broken EXCEPT ![c] = FALSE] /\ listed' = [listed EXCEPT ![c] = {}]
      /\ UNCHANGED <<cloud, nodes, posts, forgotten>>
      /\ todo[c] = <<>>
      /\ row' = [r \in DbtCloud!Runs |-> DbtCloud!Seen(c, r)]
      /\ ledger' = ledger \union heard[c]
      /\ DbtCloud!Settle(c, "kept")
      /\ holder' = [r \in DbtCloud!Runs |-> IF holder[r] = c THEN Nothing ELSE holder[r]]
      /\ draft' = [draft EXCEPT ![c] = <<>>]
      /\ heard' = [heard EXCEPT ![c] = {}]
  BY DEF DbtCloud!Commit, DbtCloud!Rested
<1>2. /\ todo'[c] = <<>> /\ listed'[c] = {} /\ draft'[c] = <<>> /\ heard'[c] = {}
      /\ \A d \in Couriers \ {c} :
           /\ todo'[d] = todo[d] /\ listed'[d] = listed[d] /\ draft'[d] = draft[d]
           /\ heard'[d] = heard[d] /\ stage'[d] = stage[d] /\ broken'[d] = broken[d]
  BY <1>1 DEF CloudInv, CloudTypes
<1>3. \A r \in DbtCloud!Runs :
        /\ row'[r] = DbtCloud!Seen(c, r)
        /\ MayStand(r, DbtCloud!Seen(c, r), ledger \union heard[c])
        /\ row[r] \in CloudFinished => row'[r] = row[r]
  BY <1>1, CommitForward
<1>4. CloudTypes'
  <2>1. row' \in [DbtCloud!Runs -> CloudStates]
    BY <1>1, <1>3 DEF MayStand
  <2>2. settled' \in [DbtCloud!Runs -> {"never", "kept", "undone"}]
    BY <1>1 DEF DbtCloud!Settle, CloudInv, CloudTypes
  <2> QED
    BY <1>1, <2>1, <2>2 DEF CloudInv, CloudTypes
<1>5. ASSUME NEW r \in DbtCloud!Runs PROVE RowStands(r)' /\ PostsCounted(r)'
  <2>1. RowStands(r)'
    BY <1>1, <1>3 DEF RowStands, MayStand
  <2>2. CloudSaid(r) => CloudSaid(r)'
    BY <1>1, <1>2 DEF CloudSaid
  <2>3. PostsCounted(r)'
    BY <1>1, <2>2 DEF CloudInv, PostsCounted
  <2> QED
    BY <2>1, <2>3
<1>6. CourierWrites(c)'
  BY <1>1, <1>2 DEF CourierWrites, DbtCloud!DbtCloudAssumption
<1>7. ASSUME NEW d \in Couriers, d # c PROVE CourierWrites(d)'
  <2>1. CourierWrites(c) /\ CourierWrites(d) /\ heard[c] \subseteq DbtCloud!Runs
        /\ heard[d] \subseteq DbtCloud!Runs
    BY DEF CloudInv, CloudTypes
  <2>2. \A r \in DbtCloud!Runs : holder'[r] = d <=> holder[r] = d
    BY <1>1, <1>7 DEF DbtCloud!DbtCloudAssumption
  <2>3. \A r \in DbtCloud!Runs : holder[r] = d => r \notin heard[c] /\ row'[r] = row[r]
    BY <1>3, <1>7, <2>1 DEF CourierWrites, DbtCloud!Seen
  <2>4. \A r \in heard'[d] : holder'[r] = d /\ r \notin ledger'
    BY <1>1, <1>2, <1>7, <2>1, <2>2, <2>3 DEF CourierWrites
  <2>5. ASSUME NEW r \in DOMAIN draft[d]
        PROVE  /\ MayStand(r, draft[d][r], ledger \union heard[d])'
               /\ row'[r] \in CloudFinished => draft[d][r] \in CloudFinished
    <3>1. r \in DbtCloud!Runs /\ holder[r] = d
      BY <2>1 DEF CourierWrites
    <3>2. /\ MayStand(r, draft[d][r], ledger \union heard[d])
          /\ row[r] \in CloudFinished => draft[d][r] \in CloudFinished
      BY <2>1 DEF CourierWrites
    <3>3. r \in ledger' \union heard'[d] <=> r \in ledger \union heard[d]
      BY <1>1, <1>2, <1>7, <2>3, <3>1
    <3>4. draft'[d] = draft[d] /\ row'[r] = row[r]
      BY <1>2, <1>7, <2>3, <3>1
    <3> QED
      BY <1>1, <3>2, <3>3, <3>4 DEF MayStand
  <2> QED
    BY <1>2, <1>7, <2>1, <2>2, <2>4, <2>5 DEF CourierWrites
<1>8. ASSUME NEW d \in Couriers PROVE CourierLists(d)' /\ CourierRecords(d)'
  <2>1. CASE d = c
    <3>1. todo'[d] = <<>> /\ listed'[d] = {}
      BY <1>2, <2>1
    <3>2. /\ <<>> \in Seq({"finished", "running"} \X DbtCloud!Runs)
          /\ \A i \in 1..Len(<<>>) : FALSE
      OBVIOUS
    <3>3. CourierLists(d)'
      BY <3>1, <3>2 DEF CourierLists, CloudEnds
    <3>4. CourierRecords(d)'
      BY <3>1 DEF CourierRecords
    <3> QED
      BY <3>3, <3>4
  <2>2. CASE d # c
    <3>1. CourierRecords(d) /\ listed[d] \subseteq DbtCloud!Runs /\ CourierLists(d)
      BY DEF CloudInv, CloudTypes
    <3>2. CourierLists(d)'
      BY <1>1, <1>2, <2>2, <3>1 DEF CourierLists
    <3>3. CourierRecords(d)'
      BY <1>1, <1>2, <1>3, <2>2, <3>1, RecordsStay
    <3> QED
      BY <3>2, <3>3
  <2> QED
    BY <2>1, <2>2
<1>9. CloudSettles'
  <2>1. ASSUME NEW r \in DbtCloud!Runs, settled[r] = "kept"
        PROVE  cloud[r] \in CloudEnds
               /\ (cloud[r] = "readable" => row'[r] = DbtCloud!RootState(nodes[r]))
    BY <1>3, <2>1, RootStates DEF CloudInv, CloudTypes, CloudSettles
  <2>2. ASSUME NEW r \in listed[c]
        PROVE  cloud[r] \in CloudEnds
               /\ (cloud[r] = "readable" => row'[r] = DbtCloud!RootState(nodes[r]))
    <3>1. r \in DbtCloud!Runs /\ cloud[r] \in CloudEnds /\ ~StillListed(c, r)
      BY <1>1 DEF CloudInv, CloudTypes, CourierLists, StillListed
    <3>2. CourierRecords(c)
      BY DEF CloudInv
    <3> QED
      BY <1>3, <3>1, <3>2 DEF CourierRecords
  <2>3. \A r \in DbtCloud!Runs : settled'[r] = "kept" => settled[r] = "kept" \/ r \in listed[c]
    BY <1>1 DEF DbtCloud!Settle
  <2> QED
    BY <1>1, <2>1, <2>2, <2>3 DEF CloudSettles
<1> QED
  BY <1>4, <1>5, <1>6, <1>7, <1>8, <1>9 DEF CloudInv

-----------------------------------------------------------------------------
LEMMA CloudStep ==
  ASSUME DbtCloud!DbtCloudAssumption, CloudInv, [DbtCloud!Next]_(DbtCloud!vars) PROVE CloudInv'
<1>1. ASSUME NEW c \in Couriers, DbtCloud!Commit(c) \/ DbtCloud!Die(c) PROVE CloudInv'
  <2>1. CASE DbtCloud!Commit(c) /\ ~broken[c]
    BY <2>1, CommitKeeps
  <2>2. CASE DbtCloud!Commit(c) /\ broken[c]
    <3>1. DbtCloud!Rested(c) /\ DbtCloud!Undo(c) /\ UNCHANGED <<row, ledger>>
          /\ DbtCloud!Settle(c, "undone")
      BY <2>2 DEF DbtCloud!Commit
    <3>2. /\ settled' \in [DbtCloud!Runs -> {"never", "kept", "undone"}]
          /\ \A r \in DbtCloud!Runs : settled'[r] = "kept" => settled[r] = "kept"
      BY <3>1 DEF DbtCloud!Settle, CloudInv, CloudTypes
    <3> QED
      BY <3>1, <3>2, LostKeeps
  <2>3. CASE DbtCloud!Die(c)
    <3>1. DbtCloud!Rested(c) /\ DbtCloud!Undo(c) /\ UNCHANGED <<row, ledger, settled>>
      BY <2>3 DEF DbtCloud!Die
    <3>2. settled \in [DbtCloud!Runs -> {"never", "kept", "undone"}]
      BY DEF CloudInv, CloudTypes
    <3> QED
      BY <3>1, <3>2, LostKeeps
  <2> QED
    BY <1>1, <2>1, <2>2, <2>3
<1>2. CASE UNCHANGED DbtCloud!vars
  <2>1. \A r \in DbtCloud!Runs : RowStands(r)' /\ PostsCounted(r)'
    BY <1>2 DEF DbtCloud!vars, CloudInv, RowStands, MayStand, PostsCounted, CloudSaid
  <2>2. ASSUME NEW c \in Couriers
        PROVE  CourierWrites(c)' /\ CourierLists(c)' /\ CourierRecords(c)'
    <3>1. CourierWrites(c) /\ CourierLists(c) /\ CourierRecords(c)
      BY DEF CloudInv
    <3>2. CourierWrites(c)' /\ CourierLists(c)'
      BY <1>2, <3>1 DEF DbtCloud!vars, CourierWrites, CourierLists, MayStand
    <3>3. CourierRecords(c)'
      BY <1>2, <3>1 DEF DbtCloud!vars, CourierRecords, DbtCloud!Seen, StillListed
    <3> QED
      BY <3>2, <3>3
  <2>3. CloudTypes' /\ CloudSettles'
    BY <1>2 DEF DbtCloud!vars, CloudInv, CloudTypes, CloudSettles
  <2> QED
    BY <2>1, <2>2, <2>3 DEF CloudInv
<1> QED
  BY <1>1, <1>2, JobMovesKeeps, PullKeeps, RingKeeps, TakeKeeps, ListRunningKeeps,
     VictimKeeps DEF DbtCloud!Next

LEMMA CloudTells == ASSUME CloudInv PROVE DbtCloud!CloudIsTold
<1>1. DbtCloud!SaidOnce
  <2>1. ASSUME NEW r \in DbtCloud!Runs PROVE posts[r] <= 1 + forgotten[r]
    <3>1. posts[r] <= forgotten[r] + 1 /\ forgotten[r] \in Nat
      BY DEF CloudInv, CloudTypes, PostsCounted
    <3> QED
      BY <3>1
  <2> QED
    BY <2>1 DEF DbtCloud!SaidOnce
<1>2. DbtCloud!EndIsRecorded
  BY DEF CloudInv, CloudSettles, DbtCloud!EndIsRecorded
<1>3. DbtCloud!TreeAndMessageTogether
  BY DEF CloudInv, RowStands, MayStand, DbtCloud!TreeAndMessageTogether, CloudFinished
<1> QED
  BY <1>1, <1>2, <1>3 DEF DbtCloud!CloudIsTold

LEMMA NoneTakenBack ==
  ASSUME DbtCloud!DbtCloudAssumption, CloudInv, [DbtCloud!Next]_(DbtCloud!vars)
  PROVE  DbtCloud!StaysFinished
<1>1. ASSUME NEW c \in Couriers, DbtCloud!Commit(c) PROVE DbtCloud!StaysFinished
  <2>1. \A r \in DbtCloud!Runs : row'[r] = row[r] \/ row'[r] = DbtCloud!Seen(c, r)
    BY <1>1 DEF DbtCloud!Commit
  <2> QED
    BY <2>1, CommitForward DEF DbtCloud!StaysFinished, CloudFinished
<1>2. CASE row' = row
  BY <1>2 DEF DbtCloud!StaysFinished
<1>3. ASSUME NEW c \in Couriers, DbtCloud!Take(c) PROVE row' = row
  BY <1>3 DEF DbtCloud!Take
<1>4. ASSUME NEW c \in Couriers,
             \/ DbtCloud!Pull(c) \/ DbtCloud!Ring(c) \/ DbtCloud!ListRunning(c)
             \/ DbtCloud!Victim(c) \/ DbtCloud!Die(c)
      PROVE  row' = row
  BY <1>4 DEF DbtCloud!Pull, DbtCloud!Ring, DbtCloud!Leave, DbtCloud!ListRunning,
              DbtCloud!Victim, DbtCloud!Die
<1>5. CASE DbtCloud!JobMoves
  BY <1>2, <1>5 DEF DbtCloud!JobMoves
<1>6. CASE UNCHANGED DbtCloud!vars
  BY <1>2, <1>6 DEF DbtCloud!vars
<1> QED
  BY <1>1, <1>2, <1>3, <1>4, <1>5, <1>6 DEF DbtCloud!Next

HIDE DEF cloud, nodes, stage, todo, draft, heard, broken, listed, holder,
        row, ledger, posts, forgotten, settled, trips

\* What is recorded of a run is true and goes with its message, in the tables
\* and in every open transaction.
CloudPart == part = "dbtcloud" => CloudInv

LEMMA CloudPartKeeps ==
  /\ Init => CloudPart
  /\ CloudPart /\ [Next]_all =>
       CloudPart' /\ (part = "dbtcloud" => [DbtCloud!Next]_(DbtCloud!vars))
<1>1. Init => CloudPart
  BY WatchAssumption, CloudStarts DEF Init, CloudPart
<1>2. ASSUME CloudPart, [Next]_all
      PROVE  CloudPart' /\ (part = "dbtcloud" => [DbtCloud!Next]_(DbtCloud!vars))
  <2>1. part' = part /\ (part = "dbtcloud" => [DbtCloud!Next]_(DbtCloud!vars))
    <3>1. CASE UNCHANGED all
      BY <3>1 DEF all, slots, DbtCloud!vars
    <3>2. CASE Next
      BY <3>2 DEF Next
    <3> QED
      BY <1>2, <3>1, <3>2
  <2> QED
    BY <1>2, <2>1, WatchAssumption, CloudStep DEF CloudPart
<1> QED
  BY <1>1, <1>2

(* However many pulls and webhook calls cross, fail, die or deadlock: a run's *)
(* end is said once, save for claims rolled back; it is recorded by any pull  *)
(* that saw it; and no tree is recorded without its message, or the reverse   *)
(* (dbt_cloud.py pull, announce_dbt_job).                                     *)
THEOREM WatchCloudIsTold == Spec => []CloudIsTold
<1>1. CloudPart => CloudIsTold
  BY CloudTells DEF CloudPart, CloudIsTold
<1> QED
  BY <1>1, CloudPartKeeps, PTL DEF Spec

(* No courier, however late, takes a run back from its end (ingest.py         *)
(* _UPSERT_RUN).                                                              *)
THEOREM WatchFinishedStays == Spec => FinishedStays
<1>1. CloudPart /\ [Next]_all => [part = "dbtcloud" => DbtCloud!StaysFinished]_all
  BY CloudPartKeeps, WatchAssumption, NoneTakenBack DEF CloudPart
<1> QED
  BY <1>1, CloudPartKeeps, PTL DEF Spec, FinishedStays

-----------------------------------------------------------------------------
(* Failures: an unsaid failure is one that no sweep has been late enough to   *)
(* say, and what was said had failed a grace period before the pipeline ended. *)

hour == v1
root == v2
failedAt == v3
endedAt == v4
claims == v5
lastSweep == v6
USE DEF hour, root, failedAt, endedAt, claims, lastSweep

FailedOnes == {p \in Pipelines : failedAt[p] # {}}

FailureTypes ==
  /\ hour \in Nat /\ lastSweep \in Nat /\ lastSweep <= hour /\ hour <= lastSweep + Gap
  /\ root \in [Pipelines -> {"RUNNING", "COMPLETED", "FAILED"}]
  /\ failedAt \in [Pipelines -> SUBSET Nat]
  /\ endedAt = [p \in Pipelines |-> endedAt[p]]
  /\ \A p \in Pipelines : \A at \in failedAt[p] : at <= hour
  /\ \A p \in Pipelines : root[p] # "RUNNING" => endedAt[p] \in 0..hour

\* A message was due when it went out, and so before a retry ended the pipeline.
SaidWhenDue(p) ==
  Failures!Note(p) \in claims =>
    \E at \in failedAt[p] : /\ at + Grace <= hour
                            /\ root[p] = "COMPLETED" => at + Grace <= endedAt[p]

\* The courier speaks for its job.
CourierSpeaks(p) ==
  /\ Failures!Note(p) \notin claims
  /\ IF root[p] = "RUNNING" THEN failedAt[p] = {} ELSE Failures!JobNote(p) \in claims

Unsaid(p) ==
  root[p] = "FAILED" /\ {Failures!Note(p), Failures!JobNote(p)} \intersect claims = {}

\* The last sweep came too early for a failure that is not said.
StillEarly(p) ==
  Unsaid(p) => \E at \in failedAt[p] : /\ at <= endedAt[p] /\ endedAt[p] <= at + Delay
                                       /\ lastSweep <= endedAt[p] \/ lastSweep < at + Grace

FailureInv ==
  /\ FailureTypes
  /\ \A p \in Pipelines : SaidWhenDue(p)
  /\ \A p \in ByCloud : CourierSpeaks(p)

Reaches == Delay + Gap <= Since /\ Grace + Gap <= Since + 1

NobodyForgotten == Cardinality(FailedOnes) <= Limit => \A p \in Pipelines : StillEarly(p)

(* The component's counting is this module's.                                *)
LEMMA FailuresCounts ==
  \A S : /\ Failures!IsFiniteSet(S) <=> IsFiniteSet(S)
         /\ Failures!Cardinality(S) = Cardinality(S)
<1>1. \A S : Failures!IsFiniteSet(S) <=> IsFiniteSet(S)
  BY DEF Failures!IsFiniteSet, IsFiniteSet
<1>2. \A S : Failures!Cardinality(S) = Cardinality(S)
  BY DEF Failures!Cardinality, Cardinality
<1> QED
  BY <1>1, <1>2

LEMMA NotesDiffer ==
  \A p, q : /\ Failures!Note(p) # Failures!JobNote(q)
            /\ Failures!Note(p) = Failures!Note(q) => p = q
            /\ Failures!JobNote(p) = Failures!JobNote(q) => p = q
  BY DEF Failures!Note, Failures!JobNote

LEMMA FailureStarts ==
  ASSUME Failures!FailuresAssumption, Failures!Init
  PROVE  FailureInv /\ NobodyForgotten
<1>1. /\ hour = 0 /\ lastSweep = 0 /\ claims = {} /\ Gap \in Nat
      /\ root = [p \in Pipelines |-> "RUNNING"]
      /\ failedAt = [p \in Pipelines |-> {}]
      /\ endedAt = [p \in Pipelines |-> Never]
      /\ ByCloud \subseteq Pipelines
  BY DEF Failures!Init, Failures!FailuresAssumption
<1>2. FailureTypes
  BY <1>1 DEF FailureTypes
<1>3. \A p \in Pipelines : SaidWhenDue(p) /\ StillEarly(p) /\ CourierSpeaks(p)
  BY <1>1 DEF SaidWhenDue, StillEarly, Unsaid, CourierSpeaks
<1> QED
  BY <1>1, <1>2, <1>3 DEF FailureInv, NobodyForgotten

(* A failure that is recorded: what is known of the others stays.            *)
LEMMA RecordedKeeps ==
  ASSUME Failures!FailuresAssumption, FailureInv, NEW p \in Pipelines,
         NEW at \in 0..hour, hour - at <= Delay,
         failedAt' = [failedAt EXCEPT ![p] = @ \union {at}],
         UNCHANGED <<hour, lastSweep>>
  PROVE  /\ failedAt' \in [Pipelines -> SUBSET Nat]
         /\ at \in failedAt'[p] /\ at <= hour /\ hour <= at + Delay /\ at \in Nat
         /\ \A q \in Pipelines : failedAt[q] \subseteq failedAt'[q]
         /\ \A q \in Pipelines : q # p => failedAt'[q] = failedAt[q]
         /\ \A q \in Pipelines : \A t \in failedAt'[q] : t <= hour
<1>1. hour \in Nat /\ failedAt \in [Pipelines -> SUBSET Nat] /\ Delay \in Nat
      /\ \A q \in Pipelines : \A t \in failedAt[q] : t <= hour
  BY DEF FailureInv, FailureTypes, Failures!FailuresAssumption
<1> QED
  BY <1>1

LEMMA MoreFailed ==
  ASSUME Failures!FailuresAssumption, \A q \in Pipelines : failedAt[q] \subseteq failedAt'[q],
         Cardinality(FailedOnes') <= Limit
  PROVE  Cardinality(FailedOnes) <= Limit
<1>1. FailedOnes \subseteq FailedOnes' /\ FailedOnes' \subseteq Pipelines
      /\ IsFiniteSet(Pipelines)
  <2>1. ASSUME NEW q \in Pipelines, failedAt[q] # {} PROVE failedAt'[q] # {}
    BY <2>1
  <2> QED
    BY <2>1, FailuresCounts DEF FailedOnes, Failures!FailuresAssumption
<1>2. IsFiniteSet(FailedOnes')
  BY <1>1, FS_Subset
<1>3. IsFiniteSet(FailedOnes) /\ Cardinality(FailedOnes) <= Cardinality(FailedOnes')
  BY <1>1, <1>2, FS_Subset
<1>4. Cardinality(FailedOnes) \in Nat /\ Cardinality(FailedOnes') \in Nat /\ Limit \in Nat
  BY <1>2, <1>3, FS_CardinalityType DEF Failures!FailuresAssumption
<1> QED
  BY <1>3, <1>4

LEMMA TaskFailsKeeps ==
  ASSUME Failures!FailuresAssumption, FailureInv, NEW p \in Pipelines, Failures!TaskFails(p)
  PROVE  FailureInv' /\ (NobodyForgotten => NobodyForgotten')
<1>1. /\ p \notin ByCloud /\ root[p] = "RUNNING"
      /\ UNCHANGED <<hour, root, endedAt, claims, lastSweep>>
  BY DEF Failures!TaskFails
<1>2. PICK at \in 0..hour :
             hour - at <= Delay /\ failedAt' = [failedAt EXCEPT ![p] = @ \union {at}]
  BY DEF Failures!TaskFails, Failures!Recorded
<1>3. /\ failedAt' \in [Pipelines -> SUBSET Nat]
      /\ \A q \in Pipelines : failedAt[q] \subseteq failedAt'[q]
      /\ \A q \in Pipelines : q # p => failedAt'[q] = failedAt[q]
      /\ \A q \in Pipelines : \A t \in failedAt'[q] : t <= hour
  BY <1>1, <1>2, RecordedKeeps
<1>4. FailureTypes'
  BY <1>1, <1>3 DEF FailureInv, FailureTypes
<1>5. \A q \in Pipelines : SaidWhenDue(q)'
  BY <1>1, <1>3 DEF FailureInv, SaidWhenDue, Failures!Note
<1>6. \A q \in ByCloud : CourierSpeaks(q)'
  BY <1>1, <1>3 DEF FailureInv, CourierSpeaks, Failures!Note, Failures!JobNote,
                    Failures!FailuresAssumption
<1>7. NobodyForgotten => NobodyForgotten'
  BY <1>1, <1>3, MoreFailed
     DEF NobodyForgotten, StillEarly, Unsaid, Failures!Note, Failures!JobNote
<1> QED
  BY <1>4, <1>5, <1>6, <1>7 DEF FailureInv

LEMMA EndsKeeps ==
  ASSUME Failures!FailuresAssumption, FailureInv, NEW p \in Pipelines,
         NEW state \in {"COMPLETED", "FAILED"},
         Failures!RootEnds(p, state) \/ (state = "FAILED" /\ Failures!CloudJobFails(p))
  PROVE  FailureInv' /\ (NobodyForgotten => NobodyForgotten')
<1>1. /\ root[p] = "RUNNING" /\ root' = [root EXCEPT ![p] = state]
      /\ endedAt' = [endedAt EXCEPT ![p] = hour]
      /\ UNCHANGED <<hour, lastSweep>>
      /\ IF p \in ByCloud THEN state = "FAILED" /\ claims' = claims \union {Failures!JobNote(p)}
                          ELSE claims' = claims
  BY DEF Failures!RootEnds, Failures!CloudJobFails
<1>2. \/ state = "COMPLETED" /\ UNCHANGED failedAt
      \/ /\ state = "FAILED"
         /\ \E at \in 0..hour :
                hour - at <= Delay /\ failedAt' = [failedAt EXCEPT ![p] = @ \union {at}]
  BY DEF Failures!RootEnds, Failures!CloudJobFails, Failures!Recorded
<1>3. /\ failedAt' \in [Pipelines -> SUBSET Nat]
      /\ \A q \in Pipelines : failedAt[q] \subseteq failedAt'[q]
      /\ \A q \in Pipelines : q # p => failedAt'[q] = failedAt[q]
      /\ \A q \in Pipelines : \A t \in failedAt'[q] : t <= hour
      /\ state = "FAILED" => \E at \in failedAt'[p] :
             at \in Nat /\ at <= hour /\ hour <= at + Delay
  <2>1. CASE state = "COMPLETED" /\ UNCHANGED failedAt
    BY <2>1 DEF FailureInv, FailureTypes
  <2>2. CASE state = "FAILED" /\ \E at \in 0..hour :
               hour - at <= Delay /\ failedAt' = [failedAt EXCEPT ![p] = @ \union {at}]
    BY <1>1, <2>2, RecordedKeeps
  <2> QED
    BY <1>2, <2>1, <2>2
<1>4. /\ root \in [Pipelines -> {"RUNNING", "COMPLETED", "FAILED"}] /\ hour \in Nat
      /\ endedAt = [q \in Pipelines |-> endedAt[q]]
      /\ ByCloud \subseteq Pipelines /\ Grace \in Nat
  BY DEF FailureInv, FailureTypes, Failures!FailuresAssumption
<1>5. /\ root'[p] = state /\ endedAt'[p] = hour
      /\ \A q \in Pipelines : q # p => root'[q] = root[q] /\ endedAt'[q] = endedAt[q]
      /\ endedAt' = [q \in Pipelines |-> endedAt'[q]]
  BY <1>1, <1>4
<1>6. \A q \in Pipelines : /\ Failures!Note(q) \in claims' <=> Failures!Note(q) \in claims
                           /\ Failures!JobNote(q) \in claims => Failures!JobNote(q) \in claims'
                           /\ q # p => (Failures!JobNote(q) \in claims' =>
                                  Failures!JobNote(q) \in claims)
  BY <1>1, NotesDiffer
<1>7. FailureTypes'
  BY <1>1, <1>3, <1>4, <1>5 DEF FailureInv, FailureTypes
<1>8. ASSUME NEW q \in Pipelines PROVE SaidWhenDue(q)'
  <2>1. SaidWhenDue(q)
    BY DEF FailureInv
  <2>2. CASE q = p
    BY <1>1, <1>3, <1>5, <1>6, <2>1, <2>2 DEF SaidWhenDue, Failures!Note
  <2>3. CASE q # p
    BY <1>1, <1>3, <1>5, <1>6, <2>1, <2>3 DEF SaidWhenDue, Failures!Note
  <2> QED
    BY <2>2, <2>3
<1>9. ASSUME NEW q \in ByCloud PROVE CourierSpeaks(q)'
  <2>1. CourierSpeaks(q) /\ q \in Pipelines
    BY <1>4 DEF FailureInv
  <2>2. CASE q = p
    <3>1. Failures!JobNote(q) \in claims' /\ root'[q] # "RUNNING"
      BY <1>1, <1>5, <2>2
    <3> QED
      BY <1>6, <2>1, <3>1 DEF CourierSpeaks, Failures!Note, Failures!JobNote
  <2>3. CASE q # p
    BY <1>3, <1>5, <1>6, <2>1, <2>3 DEF CourierSpeaks, Failures!Note, Failures!JobNote
  <2> QED
    BY <2>2, <2>3
<1>10. NobodyForgotten => NobodyForgotten'
  <2> SUFFICES ASSUME NobodyForgotten, Cardinality(FailedOnes') <= Limit,
                      NEW q \in Pipelines, Unsaid(q)'
               PROVE  \E at \in failedAt'[q] :
                        /\ at <= endedAt'[q] /\ endedAt'[q] <= at + Delay
                        /\ lastSweep' <= endedAt'[q] \/ lastSweep' < at + Grace
    BY DEF NobodyForgotten, StillEarly
  <2>1. StillEarly(q) /\ lastSweep <= hour
    BY <1>3, MoreFailed DEF NobodyForgotten, FailureInv, FailureTypes
  <2>2. CASE q = p
    BY <1>1, <1>3, <1>5, <2>1, <2>2 DEF Unsaid
  <2>3. CASE q # p
    <3>1. Unsaid(q)
      BY <1>5, <1>6, <2>3 DEF Unsaid, Failures!Note, Failures!JobNote
    <3> QED
      BY <1>1, <1>3, <1>5, <2>1, <2>3, <3>1 DEF StillEarly
  <2> QED
    BY <2>2, <2>3
<1> QED
  BY <1>7, <1>8, <1>9, <1>10 DEF FailureInv

LEMMA SweepKeeps ==
  ASSUME Failures!FailuresAssumption, FailureInv, Failures!Sweep
  PROVE  FailureInv' /\ (Reaches /\ NobodyForgotten => NobodyForgotten')
<1> DEFINE worth == {p \in Pipelines : Failures!Worth(p)}
<1>1. PICK some \in SUBSET worth :
        /\ (worth \ some) # {} => Failures!Cardinality(some) = Limit
        /\ claims' = claims \union {Failures!Note(p) : p \in some}
  BY Zenon DEF Failures!Sweep
<1>2. lastSweep' = hour /\ UNCHANGED <<hour, root, failedAt, endedAt>>
  BY DEF Failures!Sweep
<1>3. \A p \in worth : /\ root[p] # "COMPLETED" /\ Failures!JobNote(p) \notin claims
                       /\ \E at \in failedAt[p] : hour - at >= Grace
  BY DEF Failures!Worth, Failures!Unsettled, Failures!StandDown, Failures!InWindow
<1>4. \A p \in Pipelines :
        /\ Failures!Note(p) \in claims' <=> Failures!Note(p) \in claims \/ p \in some
        /\ Failures!JobNote(p) \in claims' <=> Failures!JobNote(p) \in claims
  BY <1>1, NotesDiffer
<1>5. /\ FailureTypes /\ Gap \in Nat /\ Grace \in Nat /\ Since \in Nat /\ Delay \in Nat
      /\ Limit \in Nat /\ IsFiniteSet(Pipelines) /\ ByCloud \subseteq Pipelines
  BY FailuresCounts DEF FailureInv, Failures!FailuresAssumption
<1>9. FailureTypes'
  BY <1>2, <1>5 DEF FailureTypes
<1>6. ASSUME NEW p \in Pipelines PROVE SaidWhenDue(p)'
  <2>1. SaidWhenDue(p)
    BY DEF FailureInv
  <2>2. CASE p \in some
    <3>1. PICK at \in failedAt[p] : hour - at >= Grace
      BY <1>1, <1>3, <2>2
    <3>2. at \in Nat /\ hour \in Nat
      BY <1>5 DEF FailureTypes
    <3>3. root[p] # "COMPLETED"
      BY <1>1, <1>3, <2>2
    <3> QED
      BY <1>2, <1>5, <3>1, <3>2, <3>3 DEF SaidWhenDue
  <2>3. CASE p \notin some
    BY <1>2, <1>4, <2>1, <2>3 DEF SaidWhenDue, Failures!Note
  <2> QED
    BY <2>2, <2>3
<1>7. ASSUME NEW p \in ByCloud PROVE CourierSpeaks(p)'
  <2>1. CourierSpeaks(p) /\ p \in Pipelines
    BY <1>5 DEF FailureInv
  <2>2. p \notin some
    BY <1>1, <1>3, <2>1 DEF CourierSpeaks
  <2> QED
    BY <1>2, <1>4, <2>1, <2>2 DEF CourierSpeaks, Failures!Note, Failures!JobNote
<1>8. Reaches /\ NobodyForgotten => NobodyForgotten'
  <2> SUFFICES ASSUME Reaches, NobodyForgotten, Cardinality(FailedOnes) <= Limit,
                      NEW p \in Pipelines, Unsaid(p)'
               PROVE  \E at \in failedAt[p] :
                        /\ at <= endedAt[p] /\ endedAt[p] <= at + Delay
                        /\ hour <= endedAt[p] \/ hour < at + Grace
    BY <1>2 DEF NobodyForgotten, StillEarly, FailedOnes
  <2>1. Unsaid(p) /\ p \notin some
    BY <1>2, <1>4 DEF Unsaid, Failures!Note, Failures!JobNote
  <2>2. PICK at \in failedAt[p] : /\ at <= endedAt[p] /\ endedAt[p] <= at + Delay
                                  /\ lastSweep <= endedAt[p] \/ lastSweep < at + Grace
    BY <2>1 DEF NobodyForgotten, StillEarly
  <2>3. /\ at \in Nat /\ endedAt[p] \in Nat /\ hour \in Nat /\ lastSweep \in Nat
        /\ hour <= lastSweep + Gap
    BY <1>5, <2>1 DEF FailureTypes, Unsaid
  <2>4. ASSUME hour > endedAt[p], hour >= at + Grace PROVE FALSE
    <3>1. hour - at >= Grace /\ hour - at <= Since
      BY <1>5, <2>2, <2>3, <2>4 DEF Reaches
    <3>2. p \in worth /\ p \notin some
      BY <2>1, <2>2, <3>1 DEF Unsaid, Failures!Worth, Failures!Unsettled, Failures!StandDown,
                              Failures!InWindow
    <3>3. Cardinality(some) = Limit
      BY <1>1, <3>2, FailuresCounts
    <3>4. some \subseteq FailedOnes \ {p} /\ p \in FailedOnes /\ FailedOnes \subseteq Pipelines
      BY <1>1, <1>3, <2>2, <3>2 DEF FailedOnes
    <3>5. IsFiniteSet(FailedOnes)
      BY <1>5, <3>4, FS_Subset
    <3>6. IsFiniteSet(FailedOnes \ {p})
          /\ Cardinality(FailedOnes \ {p}) = Cardinality(FailedOnes) - 1
      BY <3>4, <3>5, FS_RemoveElement
    <3>7. Cardinality(some) <= Cardinality(FailedOnes \ {p}) /\ IsFiniteSet(some)
      BY <3>4, <3>6, FS_Subset
    <3>8. Cardinality(FailedOnes) \in Nat
      BY <3>5, FS_CardinalityType
    <3> QED
      BY <1>5, <3>3, <3>6, <3>7, <3>8
  <2> QED
    BY <1>5, <2>2, <2>3, <2>4
<1> QED
  BY <1>6, <1>7, <1>8, <1>9 DEF FailureInv

LEMMA FailureStep ==
  ASSUME Failures!FailuresAssumption, Reaches, FailureInv, NobodyForgotten,
         [Failures!Next]_(Failures!vars)
  PROVE  FailureInv' /\ NobodyForgotten'
<1>1. CASE Failures!Tick
  <2>1. hour' = hour + 1 /\ hour + 1 - lastSweep <= Gap
        /\ UNCHANGED <<root, failedAt, endedAt, claims, lastSweep>>
    BY <1>1 DEF Failures!Tick
  <2>2. FailureTypes /\ Gap \in Nat /\ Grace \in Nat
    BY DEF FailureInv, Failures!FailuresAssumption
  <2>3. FailureTypes'
    BY <2>1, <2>2 DEF FailureTypes
  <2>4. ASSUME NEW p \in Pipelines PROVE SaidWhenDue(p)'
    <3>1. SaidWhenDue(p) /\ failedAt[p] \subseteq Nat /\ hour \in Nat
      BY <2>2 DEF FailureInv, FailureTypes
    <3> QED
      BY <2>1, <2>2, <3>1 DEF SaidWhenDue, Failures!Note
  <2>5. /\ \A p \in ByCloud : CourierSpeaks(p)'
        /\ NobodyForgotten'
    BY <2>1 DEF FailureInv, CourierSpeaks, NobodyForgotten, StillEarly, Unsaid, FailedOnes,
                Failures!Note, Failures!JobNote
  <2> QED
    BY <2>3, <2>4, <2>5 DEF FailureInv
<1>2. CASE UNCHANGED Failures!vars
  BY <1>2 DEF Failures!vars, FailureInv, FailureTypes, SaidWhenDue, CourierSpeaks,
              NobodyForgotten,
              StillEarly, Unsaid, FailedOnes, Failures!Note, Failures!JobNote
<1>3. ASSUME NEW p \in Pipelines,
             \/ Failures!TaskFails(p) \/ Failures!CloudJobFails(p)
             \/ \E s \in {"COMPLETED", "FAILED"} : Failures!RootEnds(p, s)
      PROVE  FailureInv' /\ NobodyForgotten'
  BY <1>3, TaskFailsKeeps, EndsKeeps
<1> QED
  BY <1>1, <1>2, <1>3, SweepKeeps DEF Failures!Next

LEMMA FailuresAreTold ==
  ASSUME Failures!FailuresAssumption, FailureInv, NobodyForgotten PROVE Failures!FailuresAreSaid
<1>1. FailureTypes /\ Gap \in Nat /\ Grace \in Nat /\ ByCloud \subseteq Pipelines
  BY DEF FailureInv, Failures!FailuresAssumption
<1>2. Failures!RetryThatWorksIsSilent
  <2> SUFFICES ASSUME NEW p \in Pipelines, root[p] = "COMPLETED", failedAt[p] # {},
                      endedAt[p] < Failures!Earliest(failedAt[p]) + Grace,
                      Failures!Note(p) \in claims
               PROVE  FALSE
    BY DEF Failures!RetryThatWorksIsSilent
  <2>1. PICK at \in failedAt[p] : at + Grace <= endedAt[p]
    BY DEF FailureInv, SaidWhenDue
  <2>2. failedAt[p] \in SUBSET Nat /\ endedAt[p] \in Nat
    BY <1>1 DEF FailureTypes
  <2>3. \E t \in failedAt[p] : \A u \in failedAt[p] : t <= u
    BY <2>2, LeastExists
  <2>4. /\ Failures!Earliest(failedAt[p]) \in failedAt[p]
        /\ \A u \in failedAt[p] : Failures!Earliest(failedAt[p]) <= u
    BY <2>3 DEF Failures!Earliest
  <2>5. Failures!Earliest(failedAt[p]) \in Nat /\ at \in Nat
        /\ Failures!Earliest(failedAt[p]) <= at
    BY <2>1, <2>2, <2>4
  <2> QED
    BY <1>1, <2>1, <2>2, <2>5
<1>3. Failures!FailureIsSaid
  <2> SUFFICES ASSUME Cardinality(FailedOnes) <= Limit, NEW p \in Pipelines, root[p] = "FAILED",
                      hour > endedAt[p] + Grace + Gap, Unsaid(p)
               PROVE  FALSE
    BY FailuresCounts, Zenon DEF Failures!FailureIsSaid, FailedOnes, Unsaid
  <2>1. PICK at \in failedAt[p] : /\ at <= endedAt[p]
                                  /\ lastSweep <= endedAt[p] \/ lastSweep < at + Grace
    BY DEF NobodyForgotten, StillEarly
  <2>2. /\ at \in Nat /\ endedAt[p] \in Nat /\ hour \in Nat /\ lastSweep \in Nat
        /\ hour <= lastSweep + Gap
    BY <1>1 DEF FailureTypes
  <2> QED
    BY <1>1, <2>1, <2>2
<1>4. Failures!OneMessagePerCloudJob
  BY DEF FailureInv, CourierSpeaks, Failures!OneMessagePerCloudJob
<1> QED
  BY <1>2, <1>3, <1>4 DEF Failures!FailuresAreSaid

HIDE DEF hour, root, failedAt, endedAt, claims, lastSweep

(* For any pipelines, grace period and limit: where the window reaches back    *)
(* over a late event or the grace period, and one gap between sweeps, no       *)
(* failure falls between two sweeps; and in any case a retry that works is     *)
(* silent and a cloud job is one message (notify.py run_failures).             *)
THEOREM WatchFailuresAreSaid == ASSUME Reaches PROVE Spec => []FailuresAreSaid
<1> DEFINE Inv == part = "failures" => FailureInv /\ NobodyForgotten
<1>1. Init => Inv
  BY WatchAssumption, FailureStarts DEF Init
<1>2. Inv /\ [Next]_all => Inv'
  <2>1. CASE UNCHANGED all
    <3>1. UNCHANGED <<part, Failures!vars>>
      BY <2>1 DEF all, slots, Failures!vars
    <3> QED
      BY <3>1, WatchAssumption, FailureStep
  <2>2. CASE Next
    <3>1. part' = part /\ (part = "failures" => Failures!Next)
      BY <2>2 DEF Next
    <3> QED
      BY <3>1, WatchAssumption, FailureStep
  <2> QED
    BY <2>1, <2>2
<1>3. Inv => FailuresAreSaid
  BY WatchAssumption, FailuresAreTold DEF FailuresAreSaid
<1> QED
  BY <1>1, <1>2, <1>3, PTL DEF Spec

-----------------------------------------------------------------------------
(***************************************************************************)
(* JobSeries: monitors on jobs.                                            *)
(*                                                                         *)
(* A point is of a run that has begun and is known, and a run that has not *)
(* changed since it was collected has its point: so long as no start moved, *)
(* for a start that moves leaves a point behind.  What was said last is of  *)
(* the points that are stored.                                             *)
(***************************************************************************)
today == v1
measure == v2
begins == v3
outcome == v4
above == v5
spent == v6
kept == v7
saying == v8
changed == v9
moved == v10
USE DEF today, measure, begins, outcome, above, spent, kept, saying, changed, moved

Key(r) == <<begins[r], r>>
Running == JobSeries!Begun

JobTypes ==
  /\ today \in Nat /\ measure \in {"failure_rate", "spill", "cost"}
  /\ begins \in [JobRuns -> Nat \union {Nothing}]
  /\ outcome \in [JobRuns -> {"RUNNING", "COMPLETED", "FAILED"}]
  /\ above \in [SparkRuns -> JobRuns \union {Nothing}]
  /\ spent \in [JobRuns \union SparkRuns -> Int \union {Nothing}]
  /\ \A r \in Running : begins[r] \in Nat /\ begins[r] <= today
  /\ \A r, s \in Running : begins[r] = begins[s] => r = s

PointsAreOfRuns == \A p \in DOMAIN kept : \E r \in Running : JobSeries!Known(r) /\ p = Key(r)

PointsAreFresh ==
  \A r \in Running \ changed :
    JobSeries!Known(r) => Key(r) \in DOMAIN kept /\ kept[Key(r)] = JobSeries!Measured(r)

InWindow == {p \in DOMAIN kept : p[1] >= saying.at - Lookback}

RateOfPoints ==
  saying # JobSeries!NoJudgement =>
    /\ saying.at \in Nat
    /\ saying.count = JobSeries!Cardinality(InWindow)
    /\ saying.value = JobSeries!Cardinality({p \in InWindow : kept[p] > 0})

NewestPoint == CHOOSE p \in DOMAIN kept : \A q \in DOMAIN kept : q[1] <= p[1]

NewestOfPoints ==
  IF DOMAIN kept = {} THEN saying = JobSeries!NoJudgement
  ELSE saying.of = NewestPoint[2] /\ saying.value = kept[NewestPoint]

JudgedOfPoints == IF measure = "failure_rate" THEN RateOfPoints ELSE NewestOfPoints

JobInv ==
  /\ JobTypes /\ JudgedOfPoints
  /\ moved = {} => PointsAreOfRuns /\ PointsAreFresh

LEMMA JobsStart == ASSUME JobSeries!JobSeriesAssumption, JobSeries!Init PROVE JobInv
<1>1. /\ today = 1 /\ measure \in {"failure_rate", "spill", "cost"}
      /\ begins = [r \in JobRuns |-> Nothing]
      /\ outcome = [r \in JobRuns |-> "RUNNING"]
      /\ above = [r \in SparkRuns |-> Nothing]
      /\ spent = [r \in JobRuns \union SparkRuns |-> Nothing]
      /\ kept = <<>> /\ saying = JobSeries!NoJudgement
  BY DEF JobSeries!Init, JobSeries!Kinds, JobSeries!Runs
<1>2. Running = {} /\ DOMAIN kept = {}
  BY <1>1 DEF JobSeries!Begun, Running
<1>3. JobTypes
  BY <1>1, <1>2 DEF JobTypes
<1>4. JudgedOfPoints
  BY <1>1, <1>2 DEF JudgedOfPoints, RateOfPoints, NewestOfPoints
<1> QED
  BY <1>2, <1>3, <1>4 DEF JobInv, PointsAreOfRuns, PointsAreFresh

(* What was said is of the points, whatever happens to the runs.             *)
LEMMA SayingStays ==
  ASSUME JudgedOfPoints, UNCHANGED <<measure, kept, saying>> PROVE JudgedOfPoints'
  BY DEF JudgedOfPoints, RateOfPoints, NewestOfPoints, InWindow, NewestPoint,
         JobSeries!NoJudgement

(* Runs that change what is measured of them, but not when they began.       *)
LEMMA ChangesKeep ==
  ASSUME JobInv, JobTypes', UNCHANGED <<begins, measure, kept, saying, moved>>,
         changed \subseteq changed',
         \A r \in Running : JobSeries!Known(r) => JobSeries!Known(r)',
         \A r \in Running \ changed' :
           /\ JobSeries!Known(r)' => JobSeries!Known(r)
           /\ JobSeries!Measured(r)' = JobSeries!Measured(r)
  PROVE  JobInv'
<1>1. JudgedOfPoints'
  BY SayingStays DEF JobInv
<1>2. Running' = Running /\ \A r : Key(r)' = Key(r)
  BY DEF Running, JobSeries!Begun, Key
<1> HIDE DEF begins, kept, changed, moved
<1>3. ASSUME moved = {} PROVE PointsAreOfRuns' /\ PointsAreFresh'
  <2>1. PointsAreOfRuns /\ PointsAreFresh
    BY <1>3 DEF JobInv
  <2>2. PointsAreOfRuns'
    BY <1>2, <2>1 DEF PointsAreOfRuns
  <2>3. ASSUME NEW r \in Running \ changed', JobSeries!Known(r)'
        PROVE  Key(r) \in DOMAIN kept /\ kept[Key(r)] = JobSeries!Measured(r)'
    BY <2>1, <2>3 DEF PointsAreFresh
  <2> QED
    BY <1>2, <2>2, <2>3 DEF PointsAreFresh
<1> QED
  BY <1>1, <1>3 DEF JobInv

LEMMA BeginKeeps ==
  ASSUME JobSeries!JobSeriesAssumption, JobInv, NEW r \in JobRuns, JobSeries!Begin(r)
  PROVE  JobInv'
<1>1. /\ begins[r] = Nothing
      /\ \A s \in Running : begins[s] # today
      /\ begins' = [begins EXCEPT ![r] = today]
      /\ changed' = changed \union {r}
      /\ UNCHANGED <<today, measure, outcome, above, spent, kept, saying, moved>>
  BY DEF JobSeries!Begin, JobSeries!Free, Running
<1>2. JobTypes /\ Nothing \notin Int
  BY DEF JobInv, JobSeries!JobSeriesAssumption
<1>3. /\ r \notin Running /\ Running' = Running \union {r} /\ begins'[r] = today
      /\ \A s \in Running : begins'[s] = begins[s] /\ Key(s)' = Key(s)
  BY <1>1, <1>2 DEF JobTypes, Running, JobSeries!Begun, Key
<1>4. JobTypes'
  BY <1>1, <1>2, <1>3 DEF JobTypes
<1>5. \A s : /\ JobSeries!Known(s)' <=> JobSeries!Known(s)
             /\ JobSeries!Measured(s)' = JobSeries!Measured(s)
  BY <1>1 DEF JobSeries!Known, JobSeries!Over, JobSeries!Counted, JobSeries!Subtree,
              JobSeries!Measured, JobSeries!Failure, JobSeries!Total
<1>6. JudgedOfPoints'
  BY <1>1, SayingStays DEF JobInv
<1>7. ASSUME moved = {} PROVE PointsAreOfRuns' /\ PointsAreFresh'
  <2> HIDE DEF begins, kept, changed, moved
  <2>1. PointsAreOfRuns /\ PointsAreFresh /\ kept' = kept
    BY <1>1, <1>7 DEF JobInv
  <2>2. PointsAreOfRuns'
    BY <1>3, <1>5, <2>1 DEF PointsAreOfRuns
  <2>3. \A s \in Running' \ changed' : s \in Running \ changed
    BY <1>1, <1>3
  <2> QED
    BY <1>3, <1>5, <2>1, <2>2, <2>3 DEF PointsAreFresh
<1> QED
  BY <1>1, <1>4, <1>6, <1>7 DEF JobInv

LEMMA RedateKeeps ==
  ASSUME JobSeries!JobSeriesAssumption, JobInv, NEW r \in JobRuns, JobSeries!Redate(r)
  PROVE  JobInv'
<1>1. PICK at \in 1..(begins[r] - 1) :
        /\ r \in Running
        /\ \A s \in Running : begins[s] # at
        /\ begins' = [begins EXCEPT ![r] = at]
        /\ r \in moved'
        /\ UNCHANGED <<today, measure, outcome, above, spent, kept, saying>>
  BY DEF JobSeries!Redate, JobSeries!Free, Running
<1>2. JobTypes /\ Nothing \notin Int
  BY DEF JobInv, JobSeries!JobSeriesAssumption
<1>3. begins[r] \in Nat /\ begins[r] <= today /\ today \in Nat /\ at \in Nat /\ at <= today
  BY <1>1, <1>2 DEF JobTypes
<1>4. /\ Running' = Running /\ begins'[r] = at
      /\ \A s \in Running : s # r => begins'[s] = begins[s]
  BY <1>1, <1>2, <1>3 DEF JobTypes, Running, JobSeries!Begun
<1>5. JobTypes'
  BY <1>1, <1>2, <1>3, <1>4 DEF JobTypes
<1>6. JudgedOfPoints' /\ moved' # {}
  BY <1>1, SayingStays DEF JobInv
<1> QED
  BY <1>5, <1>6 DEF JobInv

LEMMA FinishKeeps ==
  ASSUME JobSeries!JobSeriesAssumption, JobInv, measure = "failure_rate", NEW r \in JobRuns,
         NEW s \in {"COMPLETED", "FAILED"}, JobSeries!Finish(r, s)
  PROVE  JobInv'
<1>1. /\ outcome' = [outcome EXCEPT ![r] = s] /\ changed' = changed \union {r}
      /\ UNCHANGED <<today, measure, begins, above, spent, kept, saying, moved>>
  BY DEF JobSeries!Finish
<1>2. JobTypes
  BY DEF JobInv
<1>3. Running' = Running /\ Running \subseteq JobRuns
  BY <1>1 DEF Running, JobSeries!Begun
<1>4. JobTypes'
  BY <1>1, <1>2, <1>3 DEF JobTypes
<1>5. \A t \in JobRuns : /\ t # r => outcome'[t] = outcome[t]
                         /\ t = r => outcome'[t] = s
  BY <1>1, <1>2 DEF JobTypes
<1>6. \A t \in Running : JobSeries!Known(t) => JobSeries!Known(t)'
  BY <1>1, <1>3, <1>5 DEF JobSeries!Known, JobSeries!Over
<1>7. \A t \in Running \ changed' : /\ JobSeries!Known(t)' => JobSeries!Known(t)
                                /\ JobSeries!Measured(t)' = JobSeries!Measured(t)
  BY <1>1, <1>3, <1>5
     DEF JobSeries!Known, JobSeries!Over, JobSeries!Measured, JobSeries!Failure
<1> QED
  BY <1>1, <1>4, <1>6, <1>7, ChangesKeep

LEMMA HangKeeps ==
  ASSUME JobSeries!JobSeriesAssumption, JobInv, measure # "failure_rate",
         NEW b \in SparkRuns, NEW r \in JobRuns, JobSeries!Hang(b, r)
  PROVE  JobInv'
<1>1. /\ above[b] = Nothing /\ above' = [above EXCEPT ![b] = r] /\ changed' = changed \union {r}
      /\ UNCHANGED <<today, measure, begins, outcome, spent, kept, saying, moved>>
  BY DEF JobSeries!Hang
<1>2. JobTypes /\ Nothing \notin JobRuns
  BY DEF JobInv, JobSeries!JobSeriesAssumption
<1>3. Running' = Running /\ Running \subseteq JobRuns
  BY <1>1 DEF Running, JobSeries!Begun
<1>4. JobTypes'
  BY <1>1, <1>2, <1>3 DEF JobTypes
<1>5. /\ \A c \in SparkRuns : c # b => above'[c] = above[c]
      /\ above'[b] = r
  BY <1>1, <1>2 DEF JobTypes
<1>6. \A t \in JobRuns : t # r => JobSeries!Counted(t)' = JobSeries!Counted(t)
  BY <1>1, <1>2, <1>5 DEF JobSeries!Counted, JobSeries!Subtree
<1>7. JobSeries!Counted(r) \subseteq JobSeries!Counted(r)'
  BY <1>1, <1>2, <1>5 DEF JobSeries!Counted, JobSeries!Subtree
<1>8. \A t \in Running : JobSeries!Known(t) => JobSeries!Known(t)'
  BY <1>1, <1>3, <1>6, <1>7 DEF JobSeries!Known
<1>9. \A t \in Running \ changed' : /\ JobSeries!Known(t)' => JobSeries!Known(t)
                                /\ JobSeries!Measured(t)' = JobSeries!Measured(t)
  BY <1>1, <1>3, <1>6 DEF JobSeries!Known, JobSeries!Measured, JobSeries!Total
<1> QED
  BY <1>1, <1>4, <1>8, <1>9, ChangesKeep

LEMMA AccountKeeps ==
  ASSUME JobSeries!JobSeriesAssumption, JobInv, measure # "failure_rate",
         NEW x \in JobRuns \union SparkRuns, NEW n \in 0..MaxCharge, JobSeries!Account(x, n)
  PROVE  JobInv'
<1>1. /\ spent' = [spent EXCEPT ![x] = n]
      /\ changed' = changed \union {w \in JobRuns : x \in JobSeries!Subtree(w)}
      /\ UNCHANGED <<today, measure, begins, outcome, above, kept, saying, moved>>
  BY DEF JobSeries!Account
<1>2. JobTypes /\ n \in Int /\ n # Nothing
  BY DEF JobInv, JobSeries!JobSeriesAssumption
<1>3. Running' = Running /\ Running \subseteq JobRuns
  BY <1>1 DEF Running, JobSeries!Begun
<1>4. JobTypes'
  BY <1>1, <1>2, <1>3 DEF JobTypes
<1>5. /\ \A y \in JobRuns \union SparkRuns : y # x => spent'[y] = spent[y]
      /\ spent'[x] = n
  BY <1>1, <1>2 DEF JobTypes
<1>6. \A t \in JobRuns : /\ JobSeries!Subtree(t)' = JobSeries!Subtree(t)
                         /\ JobSeries!Subtree(t) \subseteq JobRuns \union SparkRuns
  BY <1>1 DEF JobSeries!Subtree
<1>7. \A t \in JobRuns : JobSeries!Counted(t) \subseteq JobSeries!Counted(t)'
  BY <1>2, <1>5, <1>6 DEF JobSeries!Counted
<1>8. ASSUME NEW t \in Running \ changed'
      PROVE  /\ JobSeries!Counted(t)' = JobSeries!Counted(t)
             /\ JobSeries!Total(t)' = JobSeries!Total(t)
  <2>1. t \in JobRuns /\ x \notin JobSeries!Subtree(t)
    BY <1>1, <1>3, <1>8
  <2>2. JobSeries!Counted(t)' = JobSeries!Counted(t)
    BY <1>5, <1>6, <2>1 DEF JobSeries!Counted
  <2>3. \A y \in JobSeries!Counted(t) : spent'[y] = spent[y]
    BY <1>5, <1>6, <2>1 DEF JobSeries!Counted
  <2>4. [y \in JobSeries!Counted(t)' |-> spent'[y]] = [y \in JobSeries!Counted(t) |-> spent[y]]
    BY <2>2, <2>3
  <2> QED
    BY <2>2, <2>4 DEF JobSeries!Total
<1>9. \A t \in Running : JobSeries!Known(t) => JobSeries!Known(t)'
  BY <1>1, <1>3, <1>7 DEF JobSeries!Known
<1>10. \A t \in Running \ changed' : /\ JobSeries!Known(t)' => JobSeries!Known(t)
                                 /\ JobSeries!Measured(t)' = JobSeries!Measured(t)
  BY <1>1, <1>8 DEF JobSeries!Known, JobSeries!Measured
<1> QED
  BY <1>1, <1>4, <1>9, <1>10, ChangesKeep

(* What a check stores: the runs it collects, and what was stored before.    *)
LEMMA CheckKeeps ==
  ASSUME JobSeries!JobSeriesAssumption, JobInv, NEW since \in Int, JobSeries!Check(since)
  PROVE  JobInv'
<1> DEFINE new == {Key(r) : r \in JobSeries!Collected(since)}
<1>1. /\ DOMAIN kept' = DOMAIN kept \union new
      /\ \A p \in DOMAIN kept' :
           kept'[p] = IF p \in new THEN JobSeries!Measured(p[2]) ELSE kept[p]
      /\ changed' = {r \in changed : r \in Running /\ begins[r] < since}
      /\ UNCHANGED <<today, measure, begins, outcome, above, spent, moved>>
  BY DEF JobSeries!Check, JobSeries!Stored, JobSeries!runs, Key, Running
<1>2. saying' = IF measure = "failure_rate" THEN JobSeries!Rate(kept', DOMAIN kept')
                ELSE JobSeries!Newest(kept', DOMAIN kept')
  BY DEF JobSeries!Check, JobSeries!JudgedFrom
<1>3. JobTypes
  BY DEF JobInv
<1>4. Running' = Running /\ \A r : Key(r)' = Key(r)
  BY <1>1 DEF Running, JobSeries!Begun, Key
<1>5. \A s : /\ JobSeries!Known(s)' <=> JobSeries!Known(s)
             /\ JobSeries!Measured(s)' = JobSeries!Measured(s)
  BY <1>1 DEF JobSeries!Known, JobSeries!Over, JobSeries!Counted, JobSeries!Subtree,
              JobSeries!Measured, JobSeries!Failure, JobSeries!Total
<1>6. JobTypes'
  BY <1>1, <1>3, <1>4 DEF JobTypes
<1>7. JudgedOfPoints'
  <2>1. CASE measure = "failure_rate"
    <3>1. saying' = JobSeries!Rate(kept', DOMAIN kept') /\ today \in Nat /\ today' = today
      BY <1>1, <1>2, <1>3, <2>1 DEF JobTypes
    <3> HIDE DEF kept, saying
    <3>2. RateOfPoints'
      BY <3>1 DEF JobSeries!Rate, RateOfPoints, InWindow, JobSeries!NoJudgement
    <3> QED
      BY <1>1, <2>1, <3>2 DEF JudgedOfPoints
  <2>2. CASE measure # "failure_rate"
    <3>1. saying' = JobSeries!Newest(kept', DOMAIN kept')
      BY <1>2, <2>2
    <3> HIDE DEF kept, saying
    <3>2. NewestOfPoints'
      BY <3>1 DEF JobSeries!Newest, NewestOfPoints, NewestPoint, JobSeries!NoJudgement
    <3> QED
      BY <1>1, <2>2, <3>2 DEF JudgedOfPoints
  <2> QED
    BY <2>1, <2>2
<1>8. /\ JobSeries!Collected(since) \subseteq Running
      /\ \A r \in Running : r \in JobSeries!Collected(since) <=>
                              begins[r] >= since /\ JobSeries!Known(r)
  BY DEF JobSeries!Collected, Running
<1>9. ASSUME moved = {} PROVE PointsAreOfRuns' /\ PointsAreFresh'
  <2> HIDE DEF begins, kept, changed, moved
  <2>1. PointsAreOfRuns /\ PointsAreFresh
    BY <1>9 DEF JobInv
  <2>2. ASSUME NEW p \in DOMAIN kept'
        PROVE  \E r \in Running : JobSeries!Known(r) /\ p = Key(r)
    BY <1>1, <1>8, <2>1 DEF PointsAreOfRuns
  <2>3. PointsAreOfRuns'
    BY <1>4, <1>5, <2>2 DEF PointsAreOfRuns
  <2>4. ASSUME NEW r \in Running \ changed', JobSeries!Known(r)
        PROVE  Key(r) \in DOMAIN kept' /\ kept'[Key(r)] = JobSeries!Measured(r)
    <3>1. CASE begins[r] >= since
      <4>1. Key(r) \in new /\ Key(r)[2] = r
        BY <1>8, <2>4, <3>1 DEF Key
      <4> QED
        BY <1>1, <4>1
    <3>2. CASE ~(begins[r] >= since)
      <4>1. begins[r] \in Nat /\ r \notin changed
        BY <1>1, <1>3, <2>4, <3>2 DEF JobTypes
      <4>2. Key(r) \in DOMAIN kept /\ kept[Key(r)] = JobSeries!Measured(r)
        BY <2>1, <2>4, <4>1 DEF PointsAreFresh
      <4>3. ASSUME NEW s \in JobSeries!Collected(since), Key(r) = Key(s) PROVE FALSE
        <5>1. r = s
          BY <4>3 DEF Key
        <5> QED
          BY <1>8, <3>2, <4>3, <5>1
      <4> QED
        BY <1>1, <4>2, <4>3
    <3> QED
      BY <3>1, <3>2
  <2>5. PointsAreFresh'
    BY <1>4, <1>5, <2>4 DEF PointsAreFresh
  <2> QED
    BY <2>3, <2>5
<1> QED
  BY <1>1, <1>6, <1>7, <1>9 DEF JobInv

LEMMA JobStep ==
  ASSUME JobSeries!JobSeriesAssumption, JobInv, [JobSeries!Next]_(JobSeries!vars)
  PROVE  JobInv'
<1>1. today \in Nat /\ Lookback \in Nat
  BY DEF JobInv, JobTypes, JobSeries!JobSeriesAssumption
<1>2. CASE \E since \in {0, today - Lookback} : JobSeries!Check(since)
  BY <1>1, <1>2, CheckKeeps
<1>3. CASE JobSeries!Tick \/ UNCHANGED JobSeries!vars
  <2>1. /\ today' \in {today, today + 1} /\ changed' = changed
        /\ UNCHANGED <<measure, begins, outcome, above, spent, kept, saying, moved>>
    BY <1>3 DEF JobSeries!Tick, JobSeries!vars, JobSeries!runs
  <2>2. Running' = Running /\ JobTypes
    BY <2>1 DEF Running, JobSeries!Begun, JobInv
  <2>3. JobTypes'
    BY <2>1, <2>2 DEF JobTypes
  <2>4. \A s : /\ JobSeries!Known(s)' <=> JobSeries!Known(s)
               /\ JobSeries!Measured(s)' = JobSeries!Measured(s)
    BY <2>1 DEF JobSeries!Known, JobSeries!Over, JobSeries!Counted, JobSeries!Subtree,
                JobSeries!Measured, JobSeries!Failure, JobSeries!Total
  <2> QED
    BY <2>1, <2>3, <2>4, ChangesKeep
<1>4. CASE JobSeries!OfStates /\ \E r \in JobRuns, s \in {"COMPLETED", "FAILED"} :
             JobSeries!Finish(r, s)
  BY <1>4, FinishKeeps DEF JobSeries!OfStates
<1>5. CASE ~JobSeries!OfStates /\ \E b \in SparkRuns, r \in JobRuns : JobSeries!Hang(b, r)
  BY <1>5, HangKeeps DEF JobSeries!OfStates
<1>6. CASE ~JobSeries!OfStates /\ \E r \in JobRuns \union SparkRuns, n \in 0..MaxCharge :
             JobSeries!Account(r, n)
  BY <1>6, AccountKeeps DEF JobSeries!OfStates
<1>7. CASE \E r \in JobRuns : JobSeries!Begin(r) \/ JobSeries!Redate(r)
  BY <1>7, BeginKeeps, RedateKeeps
<1> QED
  BY <1>2, <1>3, <1>4, <1>5, <1>6, <1>7 DEF JobSeries!Next, JobSeries!Runs

LEMMA SameCount ==
  ASSUME NEW S, NEW T, NEW f \in Surjection(S, T), f \in Injection(S, T), IsFiniteSet(S)
  PROVE  JobSeries!Cardinality(T) = JobSeries!Cardinality(S)
<1>1. \A X : JobSeries!Cardinality(X) = Cardinality(X)
  BY DEF JobSeries!Cardinality, Cardinality
<1>2. Cardinality(T) = Cardinality(S)
  BY FS_Surjection
<1> QED
  BY <1>1, <1>2

(* The points of the runs that have ended are as many as they.               *)
LEMMA RateIsTold ==
  ASSUME JobSeries!JobSeriesAssumption, JobInv PROVE JobSeries!RateIsOfEndedRuns
<1> SUFFICES ASSUME measure = "failure_rate", changed = {}, moved = {},
                    saying # JobSeries!NoJudgement
             PROVE  LET ended == {r \in Running : /\ begins[r] >= saying.at - Lookback
                                                  /\ outcome[r] # "RUNNING"}
                    IN /\ saying.count = JobSeries!Cardinality(ended)
                       /\ saying.value =
                            JobSeries!Cardinality({r \in ended : outcome[r] = "FAILED"})
  BY DEF JobSeries!RateIsOfEndedRuns, JobSeries!Settled, Running
<1> DEFINE ended == {r \in Running : /\ begins[r] >= saying.at - Lookback
                                     /\ outcome[r] # "RUNNING"}
           failed == {r \in ended : outcome[r] = "FAILED"}
           broke == {p \in InWindow : kept[p] > 0}
           f == [r \in ended |-> Key(r)]
           g == [r \in failed |-> Key(r)]
<1>1. PointsAreOfRuns /\ PointsAreFresh /\ RateOfPoints /\ JobTypes
  BY DEF JobInv, JudgedOfPoints
<1>2. /\ \A r : JobSeries!Known(r) <=> outcome[r] # "RUNNING"
      /\ \A r : JobSeries!Measured(r) = IF outcome[r] = "FAILED" THEN 1 ELSE 0
  BY DEF JobSeries!Known, JobSeries!Over, JobSeries!Measured, JobSeries!Failure
<1>3. \A r : Key(r)[1] = begins[r] /\ Key(r)[2] = r
  BY DEF Key
<1>4. IsFiniteSet(ended) /\ IsFiniteSet(failed)
  <2>1. ended \subseteq JobRuns /\ failed \subseteq JobRuns /\ IsFiniteSet(JobRuns)
    <3>1. JobSeries!IsFiniteSet(JobRuns) /\ (JobSeries!IsFiniteSet(JobRuns) <=> IsFiniteSet(JobRuns))
      BY DEF JobSeries!JobSeriesAssumption, JobSeries!IsFiniteSet, IsFiniteSet
    <3> QED
      BY <3>1 DEF Running, JobSeries!Begun
  <2> QED
    BY <2>1, FS_Subset
<1> HIDE DEF begins, kept, outcome, saying, changed, moved, measure
<1>5. \A r \in ended : /\ Key(r) \in InWindow
                       /\ kept[Key(r)] = IF outcome[r] = "FAILED" THEN 1 ELSE 0
  BY <1>1, <1>2, <1>3 DEF PointsAreFresh, InWindow
<1>6. \A p \in InWindow : \E r \in ended : p = Key(r)
  <2> SUFFICES ASSUME NEW p \in InWindow PROVE \E r \in ended : p = Key(r)
    OBVIOUS
  <2>1. p \in DOMAIN kept /\ p[1] >= saying.at - Lookback
    BY DEF InWindow
  <2>2. PICK r \in Running : JobSeries!Known(r) /\ p = Key(r)
    BY <1>1, <2>1 DEF PointsAreOfRuns
  <2> QED
    BY <1>2, <1>3, <2>1, <2>2
<1>7. f \in Injection(ended, InWindow) /\ f \in Surjection(ended, InWindow)
  <2>1. f \in [ended -> InWindow]
    BY <1>5
  <2>2. \A r, s \in ended : f[r] = f[s] => r = s
    BY <1>3
  <2>3. \A p \in InWindow : \E r \in ended : f[r] = p
    BY <1>6
  <2> QED
    BY <2>1, <2>2, <2>3 DEF Injection, IsInjective, Surjection
<1>8. g \in Injection(failed, broke) /\ g \in Surjection(failed, broke)
  <2>1. g \in [failed -> broke]
    BY <1>5
  <2>2. \A r, s \in failed : g[r] = g[s] => r = s
    BY <1>3
  <2>3. ASSUME NEW p \in broke PROVE \E r \in failed : g[r] = p
    <3>1. PICK r \in ended : p = Key(r)
      BY <1>6
    <3>2. kept[p] > 0 /\ kept[p] = IF outcome[r] = "FAILED" THEN 1 ELSE 0
      BY <1>5, <3>1
    <3>3. r \in failed
      BY <3>2
    <3> QED
      BY <3>1, <3>3
  <2> QED
    BY <2>1, <2>2, <2>3 DEF Injection, IsInjective, Surjection
<1> HIDE DEF f, g, ended, failed, broke
<1>9. /\ JobSeries!Cardinality(InWindow) = JobSeries!Cardinality(ended)
      /\ JobSeries!Cardinality(broke) = JobSeries!Cardinality(failed)
  BY <1>4, <1>7, <1>8, SameCount
<1>10. saying.count = JobSeries!Cardinality(ended) /\ saying.value = JobSeries!Cardinality(failed)
  BY <1>1, <1>9 DEF RateOfPoints, broke
<1> QED
  BY <1>10 DEF ended, failed

(* The newest point is the newest run's.                                     *)
LEMMA NewestIsTold ==
  ASSUME JobSeries!JobSeriesAssumption, JobInv PROVE JobSeries!NewestTreeIsJudged
<1> DEFINE known == {r \in Running : \E x \in JobSeries!Subtree(r) : spent[x] # Nothing}
           newest == CHOOSE r \in known : \A s \in known : begins[s] <= begins[r]
<1> SUFFICES ASSUME measure \in {"spill", "cost"}, changed = {}, moved = {}
             PROVE  IF known = {} THEN saying.status = "insufficient_data"
                    ELSE saying.of = newest /\ saying.value = JobSeries!Total(newest)
  BY DEF JobSeries!NewestTreeIsJudged, JobSeries!Settled, Running, JobSeries!Total,
         JobSeries!Counted
<1>1. PointsAreOfRuns /\ PointsAreFresh /\ NewestOfPoints /\ JobTypes
  BY DEF JobInv, JudgedOfPoints
<1>2. \A r : JobSeries!Measured(r) = JobSeries!Total(r)
  BY DEF JobSeries!Measured
<1>3. known = {r \in Running : JobSeries!Known(r)}
  BY DEF JobSeries!Known, JobSeries!Counted
<1>4. \A r : Key(r)[1] = begins[r] /\ Key(r)[2] = r
  BY DEF Key
<1>5. /\ \A r \in Running : begins[r] \in Nat /\ begins[r] <= today
      /\ \A r, s \in Running : begins[r] = begins[s] => r = s
      /\ today \in Nat
  BY <1>1 DEF JobTypes
<1>6. JobSeries!NoJudgement.status = "insufficient_data"
  BY DEF JobSeries!NoJudgement
<1> HIDE DEF begins, kept, saying, changed, moved, measure, today, spent, known
<1>7. /\ known \subseteq Running
      /\ \A r \in known : Key(r) \in DOMAIN kept /\ kept[Key(r)] = JobSeries!Total(r)
      /\ \A p \in DOMAIN kept : \E r \in known : p = Key(r)
  BY <1>1, <1>2, <1>3 DEF PointsAreOfRuns, PointsAreFresh
<1>8. CASE known = {}
  BY <1>1, <1>6, <1>7, <1>8 DEF NewestOfPoints
<1>9. CASE known # {}
  <2> DEFINE at == {begins[r] : r \in known}
  <2>1. PICK t \in at : \A u \in at : u <= t
    <3>1. at \in SUBSET Nat /\ at # {} /\ \A u \in at : u <= today
      BY <1>5, <1>7, <1>9
    <3> HIDE DEF at
    <3> QED
      BY <1>5, <3>1, GreatestExists
  <2>2. PICK r \in known : \A s \in known : begins[s] <= begins[r]
    BY <2>1
  <2>3. newest \in known /\ \A s \in known : begins[s] <= begins[newest]
    BY <2>2
  <2> HIDE DEF newest
  <2>4. Key(newest) \in DOMAIN kept /\ \A q \in DOMAIN kept : q[1] <= Key(newest)[1]
    <3>1. ASSUME NEW q \in DOMAIN kept PROVE q[1] <= Key(newest)[1]
      <4>1. PICK s \in known : q = Key(s)
        BY <1>7
      <4> QED
        BY <1>4, <2>3, <4>1
    <3> QED
      BY <1>7, <2>3, <3>1
  <2>5. NewestPoint \in DOMAIN kept /\ \A q \in DOMAIN kept : q[1] <= NewestPoint[1]
    BY <2>4 DEF NewestPoint
  <2>6. PICK s \in known : NewestPoint = Key(s)
    BY <1>7, <2>5
  <2>7. begins[s] <= begins[newest] /\ begins[newest] <= begins[s]
    BY <1>4, <2>3, <2>4, <2>5, <2>6
  <2>8. s = newest
    BY <1>5, <1>7, <2>3, <2>6, <2>7
  <2>9. saying.of = NewestPoint[2] /\ saying.value = kept[NewestPoint]
    BY <1>1, <2>5 DEF NewestOfPoints
  <2> QED
    BY <1>4, <1>7, <1>9, <2>3, <2>6, <2>8, <2>9
<1> QED
  BY <1>8, <1>9

HIDE DEF today, measure, begins, outcome, above, spent, kept, saying, changed, moved

(* For any runs of a job and any below them, any amounts and any window:      *)
(* what a check says of the job is so of the runs, once it has collected      *)
(* what changed and unless a start moved (checks.py collect, store_points,    *)
(* judge).                                                                    *)
THEOREM WatchJudgedOfTheRuns == Spec => []JudgedOfTheRuns
<1> DEFINE Inv == part = "jobs" => JobInv
<1>1. Init => Inv
  BY WatchAssumption, JobsStart DEF Init
<1>2. Inv /\ [Next]_all => Inv'
  <2>1. CASE UNCHANGED all
    <3>1. UNCHANGED <<part, JobSeries!vars>>
      BY <2>1 DEF all, slots, JobSeries!vars
    <3> QED
      BY <3>1, WatchAssumption, JobStep
  <2>2. CASE Next
    <3>1. part' = part /\ (part = "jobs" => JobSeries!Next)
      BY <2>2 DEF Next
    <3> QED
      BY <3>1, WatchAssumption, JobStep
  <2> QED
    BY <2>1, <2>2
<1>3. Inv => JudgedOfTheRuns
  BY WatchAssumption, RateIsTold, NewestIsTold DEF JudgedOfTheRuns, JobSeries!JudgedOfTheRuns
<1> QED
  BY <1>1, <1>2, <1>3, PTL DEF Spec

-----------------------------------------------------------------------------
(***************************************************************************)
(* Anomaly: learned bounds.                                                *)
(*                                                                         *)
(* What is said is what Detect says of the series.  A median is what most   *)
(* of the values are, and the deviation from it is then zero, so that the   *)
(* band is 15 % of the level: the confirmed incidents are not in the        *)
(* baseline, and an unconfirmed minority moves neither median.              *)
(***************************************************************************)
history == v1
ruling == v2
USE DEF history, ruling

LEMMA AnomalySizes ==
  ASSUME NEW S
  PROVE  Anomaly!Cardinality(S) = Cardinality(S)
  BY DEF Anomaly!Cardinality, Cardinality

LEMMA RankedIs ==
  ASSUME NEW I, IsFiniteSet(I), NEW f, \A i \in I : f[i] \in Int, NEW v \in Int, NEW k \in Nat,
         NEW at \in I, f[at] = v,
         Cardinality({i \in I : f[i] < v}) < k, k <= Cardinality({i \in I : f[i] <= v})
  PROVE  Anomaly!Ranked(I, f, k) = v
<1> DEFINE below(x) == {i \in I : f[i] < x}
           upto(x) == {i \in I : f[i] <= x}
           stands(x) == Cardinality(below(x)) < k /\ k <= Cardinality(upto(x))
           values == {f[i] : i \in I}
<1>1. Anomaly!Ranked(I, f, k)
        = CHOOSE x \in values : /\ Anomaly!Cardinality(below(x)) < k
                             /\ k <= Anomaly!Cardinality(upto(x))
  BY DEF Anomaly!Ranked
<1>2. \A x : /\ Anomaly!Cardinality(below(x)) = Cardinality(below(x))
             /\ Anomaly!Cardinality(upto(x)) = Cardinality(upto(x))
  BY AnomalySizes
<1>3. \A x : Cardinality(below(x)) \in Nat /\ Cardinality(upto(x)) \in Nat
  <2>1. \A x : IsFiniteSet(below(x)) /\ IsFiniteSet(upto(x))
    BY FS_Subset
  <2> HIDE DEF below, upto
  <2> QED
    BY <2>1, FS_CardinalityType
<1>4. ASSUME NEW x \in Int, NEW y \in Int, x < y
      PROVE  Cardinality(upto(x)) <= Cardinality(below(y))
  <2>1. upto(x) \subseteq below(y) /\ IsFiniteSet(below(y))
    BY <1>4, FS_Subset
  <2> HIDE DEF upto, below
  <2> QED
    BY <2>1, FS_Subset
<1>5. ASSUME NEW x \in values, stands(x) PROVE x = v
  <2>1. x \in Int /\ stands(v)
    OBVIOUS
  <2> HIDE DEF below, upto
  <2>2. ~(x < v)
    BY <1>3, <1>4, <1>5, <2>1
  <2>3. ~(v < x)
    BY <1>3, <1>4, <1>5, <2>1
  <2> QED
    BY <2>1, <2>2, <2>3
<1>6. v \in values /\ stands(v)
  OBVIOUS
<1> HIDE DEF values, below, upto
<1> QED
  BY <1>1, <1>2, <1>5, <1>6

LEMMA MedianOfMajority ==
  ASSUME NEW I, IsFiniteSet(I), NEW f, \A i \in I : f[i] \in Int, NEW v \in Int,
         2 * Cardinality({i \in I : f[i] # v}) < Cardinality(I)
  PROVE  Anomaly!Median2(I, f) = 2 * v
<1> DEFINE odd == {i \in I : f[i] # v}
           below == {i \in I : f[i] < v}
           upto == {i \in I : f[i] <= v}
           n == Cardinality(I)
<1>1. /\ IsFiniteSet(odd) /\ IsFiniteSet(below) /\ IsFiniteSet(upto) /\ IsFiniteSet(I \ odd)
      /\ below \subseteq odd /\ (I \ odd) \subseteq upto
  BY FS_Subset
<1>2. /\ n \in Nat /\ Cardinality(odd) \in Nat
      /\ Cardinality(below) \in Nat /\ Cardinality(upto) \in Nat
  <2> HIDE DEF odd, below, upto
  <2> QED
    BY <1>1, FS_CardinalityType
<1>3. Cardinality(below) <= Cardinality(odd)
  <2> HIDE DEF odd, below
  <2> QED
    BY <1>1, FS_Subset
<1>4. n - Cardinality(odd) <= Cardinality(upto)
  <2>1. Cardinality(I \ odd) = n - Cardinality(odd)
    <3>1. I \intersect odd = odd
      OBVIOUS
    <3> HIDE DEF odd
    <3> QED
      BY <1>1, <3>1, FS_Difference
  <2>2. Cardinality(I \ odd) <= Cardinality(upto)
    <3> HIDE DEF odd, upto
    <3> QED
      BY <1>1, FS_Subset
  <2> QED
    BY <2>1, <2>2
<1>5. PICK at \in I : f[at] = v
  <2>1. odd # I
    <3>1. 2 * Cardinality(odd) < n
      OBVIOUS
    <3> HIDE DEF odd
    <3> QED
      BY <1>2, <3>1
  <2> QED
    BY <2>1
<1>6. 2 * Cardinality(odd) < n
  OBVIOUS
<1> HIDE DEF odd, n
<1>7. ASSUME NEW k \in {(n + 1) \div 2, n \div 2 + 1} PROVE Anomaly!Ranked(I, f, k) = v
  <2>1. k \in Nat /\ Cardinality(odd) < k /\ k <= n - Cardinality(odd)
    BY <1>2, <1>6
  <2>2. Cardinality(below) < k /\ k <= Cardinality(upto)
    <3> HIDE DEF below, upto
    <3> QED
      BY <1>2, <1>3, <1>4, <2>1
  <2> QED
    BY <1>5, <2>1, <2>2, RankedIs
<1>8. Anomaly!Median2(I, f)
        = Anomaly!Ranked(I, f, (n + 1) \div 2) + Anomaly!Ranked(I, f, n \div 2 + 1)
  BY <1>5, AnomalySizes DEF Anomaly!Median2, n
<1> QED
  BY <1>7, <1>8

LEMMA DeviationOfMajority ==
  ASSUME NEW I, IsFiniteSet(I), NEW f, \A i \in I : f[i] \in Int, NEW v \in Int,
         2 * Cardinality({i \in I : f[i] # v}) < Cardinality(I)
  PROVE  Anomaly!Mad4(I, f) = 0
<1> DEFINE g == [i \in I |-> Anomaly!Abs(2 * f[i] - Anomaly!Median2(I, f))]
<1>1. Anomaly!Median2(I, f) = 2 * v
  BY MedianOfMajority
<1>2. \A i \in I : g[i] \in Int /\ (g[i] # 0 <=> f[i] # v)
  BY <1>1 DEF Anomaly!Abs
<1>3. {i \in I : g[i] # 0} = {i \in I : f[i] # v}
  <2> HIDE DEF g
  <2> QED
    BY <1>2
<1>4. Anomaly!Median2(I, g) = 2 * 0
  <2> HIDE DEF g
  <2> QED
    BY <1>2, <1>3, MedianOfMajority
<1> QED
  BY <1>4 DEF Anomaly!Mad4

LEMMA FarIsOutside ==
  ASSUME NEW v \in Int, NEW latest \in Int, NEW base, NEW value,
         Anomaly!Level2(base, value) = 2 * v, Anomaly!Mad4(base, value) = 0
  PROVE  Anomaly!Outside(latest, base, value) <=> Anomaly!Far(latest, v)
  BY DEF Anomaly!Outside, Anomaly!Far, Anomaly!Abs, Anomaly!IntMax

(* Among at most five points the recent ones are all of them, and among any   *)
(* some: the last is.                                                         *)
LEMMA RecentOfFew ==
  ASSUME NEW base \in SUBSET Nat, IsFiniteSet(base), Cardinality(base) <= 5
  PROVE  Anomaly!Recent(base) = base
<1> DEFINE after(i) == {j \in base : j > i}
<1>1. \A i : Anomaly!Cardinality(after(i)) = Cardinality(after(i))
             /\ Anomaly!Cardinality(base) = Cardinality(base)
  BY AnomalySizes
<1>2. Cardinality(base) \in Nat
  BY FS_CardinalityType
<1>3. ASSUME NEW i \in base PROVE Cardinality(after(i)) < 5
  <2>1. after(i) \subseteq base \ {i} /\ IsFiniteSet(base \ {i})
        /\ Cardinality(base \ {i}) = Cardinality(base) - 1
    <3>1. IsFiniteSet(base \ {i}) /\ Cardinality(base \ {i}) = Cardinality(base) - 1
      BY FS_RemoveElement
    <3>2. ASSUME NEW j \in base, j > i PROVE j # i
      <4>1. i \in Nat
        OBVIOUS
      <4> QED
        BY <3>2, <4>1
    <3> QED
      BY <3>1, <3>2
  <2> HIDE DEF after
  <2>2. Cardinality(after(i)) <= Cardinality(base \ {i}) /\ Cardinality(after(i)) \in Nat
    BY <2>1, FS_Subset, FS_CardinalityType
  <2> QED
    BY <1>2, <2>1, <2>2
<1>4. ASSUME NEW i \in base PROVE Cardinality(after(i)) \in Nat
  <2>1. IsFiniteSet(after(i))
    BY FS_Subset
  <2> HIDE DEF after
  <2> QED
    BY <2>1, FS_CardinalityType
<1>5. Anomaly!Recent(base)
        = {i \in base : Cardinality(after(i)) < Anomaly!IntMax(Cardinality(base) \div 2, 5)}
  BY <1>1 DEF Anomaly!Recent
<1> HIDE DEF after
<1>6. \A i \in base : Cardinality(after(i)) < Anomaly!IntMax(Cardinality(base) \div 2, 5)
  BY <1>2, <1>3, <1>4 DEF Anomaly!IntMax
<1> QED
  BY <1>5, <1>6

LEMMA SomeAreRecent ==
  ASSUME NEW base \in SUBSET Nat, base # {}, NEW n \in Nat, \A i \in base : i <= n,
         IsFiniteSet(base)
  PROVE  Anomaly!Recent(base) # {}
<1>1. PICK last \in base : \A i \in base : i <= last
  BY GreatestExists
<1> DEFINE after(i) == {j \in base : j > i}
<1>2. after(last) = {}
  <2>1. ASSUME NEW j \in base PROVE ~(j > last)
    <3>1. j \in Nat /\ last \in Nat /\ j <= last
      BY <1>1
    <3> QED
      BY <3>1
  <2> QED
    BY <2>1
<1>3. Anomaly!Cardinality(after(last)) = 0
  <2>1. Anomaly!Cardinality(after(last)) = Cardinality(after(last))
    BY AnomalySizes
  <2> HIDE DEF after
  <2> QED
    BY <1>2, <2>1, FS_EmptySet
<1>4. Anomaly!Cardinality(base) \in Nat
  <2>1. Anomaly!Cardinality(base) = Cardinality(base)
    BY AnomalySizes
  <2> QED
    BY <2>1, FS_CardinalityType
<1>5. 0 < Anomaly!IntMax(Anomaly!Cardinality(base) \div 2, 5)
  BY <1>4 DEF Anomaly!IntMax
<1>6. Anomaly!Recent(base)
        = {i \in base : Anomaly!Cardinality(after(i))
                          < Anomaly!IntMax(Anomaly!Cardinality(base) \div 2, 5)}
  BY DEF Anomaly!Recent
<1> HIDE DEF after
<1> QED
  BY <1>1, <1>3, <1>5, <1>6

-----------------------------------------------------------------------------
Points == [value : Int, feedback : {"none", "expected", "anomaly"}, day : Nat]

(* Learning is what Detect says of the series, once there is one.             *)
SeriesInv ==
  /\ history \in Seq(Points)
  /\ ruling = IF history = <<>> THEN "insufficient_data" ELSE Anomaly!Detect(history)

LEMMA SeriesStep ==
  ASSUME Anomaly!AnomalyAssumption, SeriesInv, [Anomaly!Next]_(Anomaly!vars)
  PROVE  SeriesInv'
<1>1. history \in Seq(Points)
  BY DEF SeriesInv
<1>2. CASE Anomaly!Measure
  <2>1. PICK v \in Values, d \in Days :
          history' = Append(history, [value |-> v, feedback |-> "none",
                       day |-> IF history = <<>> THEN 0 ELSE history[Len(history)].day + d])
    BY <1>2 DEF Anomaly!Measure
  <2>2. [value |-> v, feedback |-> "none",
         day |-> IF history = <<>> THEN 0 ELSE history[Len(history)].day + d] \in Points
    <3>1. v \in Int /\ d \in Nat
      BY DEF Anomaly!AnomalyAssumption
    <3>2. history # <<>> => history[Len(history)] \in Points
      <4>1. history # <<>> => Len(history) \in 1..Len(history)
        BY <1>1, EmptySeq
      <4> QED
        BY <1>1, <4>1, ElementOfSeq
    <3> QED
      BY <3>1, <3>2 DEF Points
  <2>3. history' \in Seq(Points) /\ history' # <<>>
    BY <1>1, <2>1, <2>2, AppendProperties, EmptySeq
  <2>4. ruling' = Anomaly!Detect(history)'
    BY <1>2 DEF Anomaly!Measure, Anomaly!Detect, Anomaly!Baseline, Anomaly!Armed
  <2> QED
    BY <2>3, <2>4 DEF SeriesInv
<1>3. CASE Anomaly!Mark
  <2>1. PICK i \in DOMAIN history, f \in {"none", "expected", "anomaly"} :
          history' = [history EXCEPT ![i].feedback = f]
    BY <1>3 DEF Anomaly!Mark
  <2>2. i \in 1..Len(history) /\ [history[i] EXCEPT !.feedback = f] \in Points
    <3>1. i \in 1..Len(history)
      BY <1>1, LenProperties
    <3>2. history[i] \in Points
      BY <1>1, <3>1, ElementOfSeq
    <3> QED
      BY <3>1, <3>2 DEF Points
  <2>3. history' = [history EXCEPT ![i] = [history[i] EXCEPT !.feedback = f]]
    BY <2>1
  <2>4. history' \in Seq(Points) /\ Len(history') = Len(history)
    BY <1>1, <2>2, <2>3, ExceptSeq
  <2>5. history' # <<>>
    BY <1>1, <2>2, <2>4, EmptySeq
  <2>6. ruling' = Anomaly!Detect(history)'
    BY <1>3 DEF Anomaly!Mark
  <2> QED
    BY <2>4, <2>5, <2>6 DEF SeriesInv
<1>4. CASE UNCHANGED Anomaly!vars
  BY <1>4 DEF Anomaly!vars, SeriesInv
<1> QED
  BY <1>2, <1>3, <1>4 DEF Anomaly!Next

(* The training points are among those before the last.                       *)
LEMMA Training ==
  ASSUME NEW s \in Seq(Points)
  PROVE  /\ Len(s) \in Nat
         /\ Anomaly!Baseline(s) \in SUBSET Nat /\ IsFiniteSet(Anomaly!Baseline(s))
         /\ \A i \in Anomaly!Baseline(s) : i \in 1..(Len(s) - 1) /\ s[i] \in Points
<1>1. Len(s) \in Nat
  BY LenProperties
<1>2. Anomaly!Baseline(s) \subseteq 1..(Len(s) - 1)
  BY DEF Anomaly!Baseline
<1>3. IsFiniteSet(Anomaly!Baseline(s))
  <2>1. IsFiniteSet(1..(Len(s) - 1))
    BY <1>1, FS_Interval
  <2> QED
    BY <1>2, <2>1, FS_Subset
<1>4. \A i \in 1..(Len(s) - 1) : s[i] \in Points
  BY <1>1, ElementOfSeq
<1> QED
  BY <1>1, <1>2, <1>3, <1>4

(* A judgement of an unlabelled point where the level is v and the points do  *)
(* not differ from it.                                                        *)
LEMMA JudgedByLevel ==
  ASSUME Anomaly!AnomalyAssumption, NEW s \in Seq(Points), s # <<>>, NEW v \in Int,
         Anomaly!Detect(s) # "insufficient_data", s[Len(s)].feedback = "none",
         LET base == Anomaly!Baseline(s)
             value == [i \in base |-> s[i].value]
         IN /\ 2 * Cardinality({i \in base : value[i] # v}) < Cardinality(base)
            /\ 2 * Cardinality({i \in Anomaly!Recent(base) : value[i] # v})
                 < Cardinality(Anomaly!Recent(base))
  PROVE  Anomaly!Detect(s) = "breach" <=> Anomaly!Far(s[Len(s)].value, v)
<1> DEFINE base == Anomaly!Baseline(s)
           value == [i \in base |-> s[i].value]
           recent == Anomaly!Recent(base)
<1>1. IsFiniteSet(base) /\ \A i \in base : value[i] \in Int
  BY Training DEF Points
<1>2. recent \subseteq base
  BY DEF Anomaly!Recent
<1>3. IsFiniteSet(recent) /\ \A i \in recent : value[i] \in Int
  BY <1>1, <1>2, FS_Subset
<1>4. s[Len(s)].value \in Int
  <2>1. Len(s) \in 1..Len(s)
    BY EmptySeq
  <2>2. s[Len(s)] \in Points
    BY <2>1, ElementOfSeq
  <2> QED
    BY <2>2 DEF Points
<1>5. Anomaly!Detect(s) = IF Anomaly!Outside(s[Len(s)].value, base, value) THEN "breach" ELSE "ok"
  BY DEF Anomaly!Detect
<1>6. /\ 2 * Cardinality({i \in base : value[i] # v}) < Cardinality(base)
      /\ 2 * Cardinality({i \in recent : value[i] # v}) < Cardinality(recent)
  OBVIOUS
<1> HIDE DEF value, base
<1>7. Anomaly!Mad4(base, value) = 0
  BY <1>1, <1>6, DeviationOfMajority
<1>8. Anomaly!Level2(base, value) = 2 * v
  <2>1. Anomaly!Level2(base, value) = Anomaly!Median2(recent, value)
    BY DEF Anomaly!Level2
  <2> HIDE DEF recent
  <2>2. Anomaly!Median2(recent, value) = 2 * v
    BY <1>3, <1>6, MedianOfMajority
  <2> QED
    BY <2>1, <2>2
<1>9. Anomaly!Outside(s[Len(s)].value, base, value) <=> Anomaly!Far(s[Len(s)].value, v)
  BY <1>4, <1>7, <1>8, FarIsOutside
<1> QED
  BY <1>5, <1>9

LEMMA RecurrenceSeen ==
  ASSUME Anomaly!AnomalyAssumption, SeriesInv PROVE Anomaly!RecurrenceIsSeen
<1> SUFFICES ASSUME NEW v \in Values, history # <<>>, ruling # "insufficient_data",
                    Anomaly!IsNormal(v), Anomaly!Unlabelled(Len(history))
             PROVE  ruling = "breach" <=> Anomaly!Far(history[Len(history)].value, v)
  BY DEF Anomaly!RecurrenceIsSeen
<1> DEFINE base == Anomaly!Baseline(history)
           value == [i \in base |-> history[i].value]
           recent == Anomaly!Recent(base)
<1>1. history \in Seq(Points) /\ ruling = Anomaly!Detect(history) /\ v \in Int
  BY DEF SeriesInv, Anomaly!AnomalyAssumption
<1>2. base # {} /\ \A i \in base : value[i] = v
  BY DEF Anomaly!IsNormal
<1>4. recent \subseteq base
  BY DEF Anomaly!Recent
<1>5. recent # {}
  <2>1. /\ base \in SUBSET Nat /\ IsFiniteSet(base)
        /\ \A i \in base : i <= Len(history) /\ Len(history) \in Nat
    BY <1>1, Training
  <2> HIDE DEF base
  <2> QED
    BY <1>2, <2>1, SomeAreRecent
<1>6. IsFiniteSet(recent) /\ Cardinality(recent) \in Nat /\ Cardinality(recent) # 0
  <2>1. IsFiniteSet(recent)
    BY <1>1, <1>4, Training, FS_Subset
  <2> HIDE DEF recent
  <2> QED
    BY <1>5, <2>1, FS_CardinalityType, FS_EmptySet
<1> DEFINE oddOf(S) == {i \in S : value[i] # v}
<1>7. oddOf(base) = {} /\ oddOf(recent) = {}
  BY <1>2, <1>4
<1>8. /\ 2 * Cardinality(oddOf(base)) < Cardinality(base)
      /\ 2 * Cardinality(oddOf(recent)) < Cardinality(recent)
  <2> HIDE DEF base, value, recent, oddOf
  <2>1. Cardinality({}) = 0 /\ Cardinality(base) \in Nat \ {0}
    <3>1. IsFiniteSet(base)
      BY <1>1, Training DEF base
    <3> QED
      BY <1>2, <3>1, FS_CardinalityType, FS_EmptySet
  <2> QED
    BY <1>6, <1>7, <2>1
<1>9. history[Len(history)].feedback = "none"
  BY DEF Anomaly!Unlabelled
<1> QED
  BY <1>1, <1>8, <1>9, JudgedByLevel

LEMMA MinorityHides ==
  ASSUME Anomaly!AnomalyAssumption, SeriesInv PROVE Anomaly!MinorityHidesNothing
<1> DEFINE n == Len(history)
           odd(v) == {i \in 1..(n - 1) : history[i].value # v}
<1> SUFFICES ASSUME NEW v \in Values, n > 0, ruling # "insufficient_data",
                    \A i \in 1..n : Anomaly!Unlabelled(i),
                    2 * Anomaly!Cardinality(odd(v)) < n - 1, n - 1 <= 5,
                    Anomaly!Far(history[n].value, v)
             PROVE  ruling = "breach"
  BY DEF Anomaly!MinorityHidesNothing
<1> DEFINE base == Anomaly!Baseline(history)
           value == [i \in base |-> history[i].value]
<1>1. history \in Seq(Points) /\ v \in Int /\ n \in Nat
  BY LenProperties DEF SeriesInv, Anomaly!AnomalyAssumption
<1>2. history # <<>> /\ ruling = Anomaly!Detect(history)
  BY <1>1, EmptySeq DEF SeriesInv
<1>3. base = 1..(n - 1)
  <2>1. \A i \in 1..(n - 1) : i \in 1..n
    BY <1>1
  <2>2. \A i \in 1..(n - 1) : history[i].feedback = "none"
    BY <2>1 DEF Anomaly!Unlabelled
  <2> QED
    BY <2>2 DEF Anomaly!Baseline
<1>4. IsFiniteSet(base) /\ Cardinality(base) = n - 1
  <2>1. IsFiniteSet(1..(n - 1)) /\ Cardinality(1..(n - 1)) = n - 1
    <3> HIDE DEF n
    <3> QED
      BY <1>1, FS_Interval
  <2> HIDE DEF base, n
  <2> QED
    BY <1>3, <2>1
<1>5. Anomaly!Recent(base) = base
  <2>1. base \in SUBSET Nat /\ Cardinality(base) <= 5
    <3>1. base \in SUBSET Nat
      BY <1>1, Training
    <3> QED
      BY <1>4, <3>1
  <2> HIDE DEF base, n
  <2> QED
    BY <1>4, <2>1, RecentOfFew
<1>6. {i \in base : value[i] # v} = odd(v)
  BY <1>3
<1>7. Anomaly!Cardinality(odd(v)) = Cardinality(odd(v))
  BY AnomalySizes
<1>8. 2 * Cardinality({i \in base : value[i] # v}) < Cardinality(base)
  BY <1>4, <1>6, <1>7
<1>9. history[n].feedback = "none"
  <2>1. n \in 1..n
    BY <1>1
  <2> QED
    BY <2>1 DEF Anomaly!Unlabelled
<1>10. ruling = "breach" <=> Anomaly!Far(history[n].value, v)
  BY <1>1, <1>2, <1>5, <1>8, <1>9, JudgedByLevel
<1> QED
  BY <1>10

HIDE DEF history, ruling

(* For any values, any days between the points and any labels: on a level     *)
(* metric what differs is seen, each time and only then, and nothing is said  *)
(* before there are points and days enough (anomaly.py detect, checks.py      *)
(* judge, set_feedback).                                                      *)
THEOREM WatchBreachesAreEarned == Spec => []BreachesAreEarned
<1> DEFINE Inv == part = "anomaly" => SeriesInv
<1>1. Init => Inv
  <2>1. Anomaly!Init => SeriesInv
    BY EmptySeq DEF Anomaly!Init, SeriesInv, history, ruling
  <2> QED
    BY <2>1 DEF Init
<1>2. Inv /\ [Next]_all => Inv'
  <2>1. CASE UNCHANGED all
    <3>1. UNCHANGED <<part, Anomaly!vars>>
      BY <2>1 DEF all, slots, Anomaly!vars
    <3> QED
      BY <3>1, WatchAssumption, SeriesStep
  <2>2. CASE Next
    <3>1. part' = part /\ (part = "anomaly" => Anomaly!Next)
      BY <2>2 DEF Next
    <3> QED
      BY <3>1, WatchAssumption, SeriesStep
  <2> QED
    BY <2>1, <2>2
<1>3. Inv => BreachesAreEarned
  <2>1. ASSUME SeriesInv PROVE Anomaly!NoBreachBeforeArmed
    <3>1. ASSUME ruling = "breach" PROVE Anomaly!Armed(history)
      BY <2>1, <3>1 DEF SeriesInv, Anomaly!Detect
    <3> QED
      BY <3>1 DEF Anomaly!NoBreachBeforeArmed, Anomaly!Armed, history, ruling
  <2> QED
    BY <2>1, WatchAssumption, RecurrenceSeen, MinorityHides
       DEF BreachesAreEarned, Anomaly!BreachesAreEarned
<1> QED
  BY <1>1, <1>2, <1>3, PTL DEF Spec

=============================================================================
