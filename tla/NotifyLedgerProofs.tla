------------------------- MODULE NotifyLedgerProofs -------------------------
(***************************************************************************)
(* The safety of the notification ledger for any notifications, routes,      *)
(* sweepers, bounds and number of kills: LedgerInv is inductive, and one     *)
(* sender per notification, one message per channel and an exact ledger      *)
(* follow from it.                                                           *)
(***************************************************************************)
EXTENDS NotifyLedger, TLAPS, FiniteSetTheorems

\* A note whose row, history and owner's business with it stay as they are.
LEMMA NoteSame ==
  ASSUME NEW n \in Notes, NoteInv(n),
         db'[n] = db[n], dirty'[n] = dirty[n], lock'[n] = lock[n],
         tried'[n] = tried[n], posts'[n] = posts[n],
         n \in unsure' <=> n \in unsure, n \in forgotten' <=> n \in forgotten,
         \A s \in Sweepers : lock[n] = s =>
           /\ pc'[s] = "post" <=> pc[s] = "post"
           /\ n \in fresh'[s] <=> n \in fresh[s]
           /\ n \in reached'[s] <=> n \in reached[s]
           /\ pending'[s] \subseteq pending[s]
  PROVE  NoteInv(n)'
<1>1. Told(n)' <=> Told(n)
  BY DEF Told
<1>2. Exact(n)' <=> Exact(n)
  BY <1>1 DEF Exact
<1>3. ASSUME NEW s \in Sweepers, lock[n] = s, InDelivery(n, s)
      PROVE  InDelivery(n, s)'
  BY <1>1, <1>3 DEF InDelivery
<1>4. ASSUME NEW s \in Sweepers, lock[n] = s, BeforeDelivery(n, s)
      PROVE  BeforeDelivery(n, s)'
  BY <1>2, <1>4 DEF BeforeDelivery
<1> QED
  BY <1>2, <1>3, <1>4 DEF NoteInv

-----------------------------------------------------------------------------
LEMMA InitLedgerInv == Init => LedgerInv
<1> SUFFICES ASSUME Init PROVE LedgerInv
  OBVIOUS
<1>1. NoRow \in Row
  BY LedgerAssumption DEF NoRow, Row
<1>2. TypeOK
  <2>1. todo \in [Sweepers -> Seq(Notes)]
    BY DEF Init
  <2>2. posts \in [Notes -> [Channels -> Nat]] /\ tried \in [Notes -> Nat]
    BY DEF Init
  <2>3. pc \in [Sweepers -> Positions] /\ lock \in [Notes -> Sweepers \cup {Free}]
    BY DEF Init, Positions
  <2> QED
    BY <1>1, <2>1, <2>2, <2>3 DEF Init, TypeOK
<1>3. Owned
  BY LedgerAssumption DEF Init, Owned
<1>4. BlankUntilClaimed
  BY DEF Init, BlankUntilClaimed, NoRow
<1>5. ASSUME NEW n \in Notes PROVE NoteInv(n)
  <2>1. lock[n] = Free /\ Free \notin Sweepers
    BY LedgerAssumption DEF Init
  <2>2. \A c \in Channels : posts[n][c] = 0
    BY DEF Init
  <2>3. ~db[n].delivered /\ db[n].attempts = 0 /\ tried[n] = 0
    BY DEF Init, NoRow
  <2>4. Exact(n)
    BY <2>2, <2>3 DEF Exact, Told
  <2> QED
    BY <2>1, <2>2, <2>4 DEF NoteInv
<1> QED
  BY <1>2, <1>3, <1>4, <1>5 DEF LedgerInv

\* Time and what there is to say.
LEMMA EnvironmentInv ==
  ASSUME LedgerInv,
         UNCHANGED <<rows, pc, locals, crashes, history>>,
         now' \in Nat, due' \subseteq Notes
  PROVE  LedgerInv'
<1>1. UNCHANGED <<db, dirty, lock, pc, todo, fresh, pending, reached, crashes,
                  tried, posts, unsure, forgotten>>
  BY DEF rows, locals, history
<1>2. TypeOK'
  BY <1>1 DEF LedgerInv, TypeOK
<1>3. Owned' /\ BlankUntilClaimed'
  BY <1>1 DEF LedgerInv, Owned, BlankUntilClaimed
<1>4. ASSUME NEW n \in Notes PROVE NoteInv(n)'
  BY <1>1, NoteSame DEF LedgerInv
<1> QED
  BY <1>2, <1>3, <1>4 DEF LedgerInv

LEMMA BeginInv == ASSUME LedgerInv, NEW s \in Sweepers, Begin(s) PROVE LedgerInv'
<1>1. /\ UNCHANGED <<now, due, db, dirty, lock, fresh, pending, reached, crashes,
                     tried, posts, unsure, forgotten>>
      /\ pc[s] = "idle" /\ pc' = [pc EXCEPT ![s] = "claim"]
  BY DEF Begin, Goto, environment, rows, history
<1>2. PICK order \in Orders(due) : todo' = [todo EXCEPT ![s] = order]
  BY DEF Begin
<1>3. /\ order \in Seq(Notes)
      /\ \A i, j \in DOMAIN order : order[i] = order[j] => i = j
      /\ \A i \in DOMAIN order : order[i] \in Notes
  <2>1. due \subseteq Notes
    BY DEF LedgerInv, TypeOK
  <2>2. Cardinality(due) \in Nat
    BY <2>1, LedgerAssumption, FS_Subset, FS_CardinalityType
  <2> QED
    BY <2>1, <2>2 DEF Orders
<1>4. TypeOK'
  <2>1. todo' \in [Sweepers -> Seq(Notes)]
    BY <1>2, <1>3 DEF LedgerInv, TypeOK
  <2>2. pc' \in [Sweepers -> Positions]
    BY <1>1 DEF LedgerInv, TypeOK, Positions
  <2> QED
    BY <1>1, <2>1, <2>2 DEF LedgerInv, TypeOK
<1>5. Owned'
  BY <1>1, <1>2, <1>3 DEF LedgerInv, TypeOK, Owned
<1>6. BlankUntilClaimed'
  BY <1>1 DEF LedgerInv, BlankUntilClaimed
<1>7. ASSUME NEW n \in Notes PROVE NoteInv(n)'
  BY <1>1, NoteSame DEF LedgerInv, TypeOK
<1> QED
  BY <1>4, <1>5, <1>6, <1>7 DEF LedgerInv

\* The row a claim leaves is a row, and is not blank.
LEMMA ClaimedRow ==
  ASSUME NEW row \in Row, Claimable(row), now \in Nat,
         ~row.exists => row.attempts = 0 /\ ~row.delivered
  PROVE  /\ Claimed(row) \in Row
         /\ Claimed(row).exists
         /\ Claimed(row).attempts = row.attempts + 1
         /\ ~row.delivered
         /\ Claimed(row).delivered = row.delivered
<1>1. row.attempts \in 0..MaxAttempts /\ row.attempts + 1 \in 0..MaxAttempts
  BY LedgerAssumption DEF Claimable, Row
<1> QED
  BY <1>1 DEF Claimed, Claimable, Row

LEMMA ClaimInv == ASSUME LedgerInv, NEW s \in Sweepers, Claim(s) PROVE LedgerInv'
<1> DEFINE n0 == Head(todo[s])
           new == IF Claimable(db[n0]) THEN Claimed(db[n0]) ELSE db[n0]
<1>1. /\ UNCHANGED <<now, due, db, pc, pending, reached, crashes,
                     tried, posts, unsure, forgotten>>
      /\ pc[s] = "claim" /\ todo[s] # <<>>
      /\ todo' = [todo EXCEPT ![s] = Tail(@)]
      /\ lock' = [lock EXCEPT ![n0] = s]
      /\ lock[n0] \in {Free, s}
      /\ fresh' = [fresh EXCEPT ![s] =
                     IF Claimable(IF lock[n0] = s THEN dirty[n0] ELSE db[n0])
                     THEN @ \cup {n0} ELSE @]
      /\ dirty' = [dirty EXCEPT ![n0] =
                     IF Claimable(IF lock[n0] = s THEN dirty[n0] ELSE db[n0])
                     THEN Claimed(IF lock[n0] = s THEN dirty[n0] ELSE db[n0])
                     ELSE IF lock[n0] = s THEN dirty[n0] ELSE db[n0]]
  BY DEF Claim, environment, history, RowFree
<1>2. /\ todo[s] \in Seq(Notes) /\ n0 \in Notes /\ n0 = todo[s][1]
      /\ 1 \in DOMAIN todo[s]
      /\ Tail(todo[s]) \in Seq(Notes)
      /\ \A i \in DOMAIN Tail(todo[s]) :
           i + 1 \in DOMAIN todo[s] /\ Tail(todo[s])[i] = todo[s][i + 1] /\ i + 1 # 1
  BY <1>1 DEF LedgerInv, TypeOK
<1>3. lock[n0] = Free /\ Free # s
  BY <1>1, <1>2, LedgerAssumption DEF LedgerInv, Owned
<1>4. /\ fresh' = [fresh EXCEPT ![s] = IF Claimable(db[n0]) THEN @ \cup {n0} ELSE @]
      /\ dirty' = [dirty EXCEPT ![n0] = new]
  BY <1>1, <1>3
<1>5. /\ db[n0] \in Row /\ now \in Nat
      /\ ~db[n0].exists => db[n0].attempts = 0 /\ ~db[n0].delivered
  BY <1>2 DEF LedgerInv, TypeOK, BlankUntilClaimed
<1>6. /\ new \in Row
      /\ ~new.exists => new.attempts = 0 /\ ~new.delivered
  BY <1>5, ClaimedRow
<1>7. TypeOK'
  <2>1. todo' \in [Sweepers -> Seq(Notes)]
    BY <1>1, <1>2 DEF LedgerInv, TypeOK
  <2>2. dirty' \in [Notes -> Row] /\ lock' \in [Notes -> Sweepers \cup {Free}]
    BY <1>1, <1>4, <1>6 DEF LedgerInv, TypeOK
  <2>3. fresh' \in [Sweepers -> SUBSET Notes]
    BY <1>2, <1>4 DEF LedgerInv, TypeOK
  <2> QED
    BY <1>1, <2>1, <2>2, <2>3 DEF LedgerInv, TypeOK
<1>8. Owned'
  <2> SUFFICES ASSUME NEW t \in Sweepers
               PROVE  /\ \A n \in fresh'[t] : lock'[n] = t
                      /\ \A i \in DOMAIN todo'[t] : lock'[todo'[t][i]] # t
                      /\ \A i, j \in DOMAIN todo'[t] : todo'[t][i] = todo'[t][j] => i = j
                      /\ pc'[t] = "idle" => \A n \in Notes : lock'[n] # t
                      /\ pc'[t] # "claim" => todo'[t] = <<>>
                      /\ pc'[t] # "post" => reached'[t] = {}
    BY DEF Owned
  <2>1. \A n \in Notes : lock'[n] = IF n = n0 THEN s ELSE lock[n]
    BY <1>1 DEF LedgerInv, TypeOK
  <2>2. CASE t = s
    <3>1. \A n \in fresh'[s] : n \in Notes /\ (n = n0 \/ n \in fresh[s])
      BY <1>2, <1>4 DEF LedgerInv, TypeOK
    <3>2. \A n \in fresh'[s] : lock'[n] = s
      BY <2>1, <3>1 DEF LedgerInv, Owned
    <3>3. todo'[s] = Tail(todo[s])
      BY <1>1 DEF LedgerInv, TypeOK
    <3>4. \A i \in DOMAIN Tail(todo[s]) : /\ Tail(todo[s])[i] \in Notes
                                          /\ Tail(todo[s])[i] # n0
                                          /\ lock[Tail(todo[s])[i]] # s
      BY <1>2 DEF LedgerInv, Owned
    <3>5. \A i, j \in DOMAIN Tail(todo[s]) : Tail(todo[s])[i] = Tail(todo[s])[j] => i = j
      <4>1. \A i, j \in DOMAIN todo[s] : todo[s][i] = todo[s][j] => i = j
        BY DEF LedgerInv, Owned
      <4> QED
        BY <1>2, <4>1
    <3>6. \A i \in DOMAIN Tail(todo[s]) : lock'[Tail(todo[s])[i]] # s
      BY <2>1, <3>4
    <3>7. pc'[s] = "claim" /\ reached'[s] = {}
      BY <1>1 DEF LedgerInv, Owned
    <3> QED
      BY <2>2, <3>2, <3>3, <3>5, <3>6, <3>7
  <2>3. CASE t # s
    <3>1. /\ fresh'[t] = fresh[t] /\ todo'[t] = todo[t] /\ todo[t] \in Seq(Notes)
          /\ fresh[t] \subseteq Notes
      BY <1>1, <1>4, <2>3 DEF LedgerInv, TypeOK
    <3>2. \A n \in fresh[t] : lock'[n] = t
      BY <1>3, <2>1, <3>1, LedgerAssumption DEF LedgerInv, Owned
    <3>3. \A i \in DOMAIN todo[t] : todo[t][i] \in Notes /\ lock'[todo[t][i]] # t
      BY <2>1, <2>3, <3>1 DEF LedgerInv, Owned
    <3> QED
      BY <1>1, <2>1, <2>3, <3>1, <3>2, <3>3 DEF LedgerInv, Owned
  <2> QED
    BY <2>2, <2>3
<1>9. BlankUntilClaimed'
  <2> SUFFICES ASSUME NEW n \in Notes
               PROVE  /\ ~db'[n].exists => db'[n].attempts = 0 /\ ~db'[n].delivered
                      /\ ~dirty'[n].exists => dirty'[n].attempts = 0 /\ ~dirty'[n].delivered
                      /\ \A t \in Sweepers : n \in fresh'[t] => dirty'[n].exists
    BY DEF BlankUntilClaimed
  <2>1. CASE n # n0
    <3>1. dirty'[n] = dirty[n] /\ \A t \in Sweepers : n \in fresh'[t] <=> n \in fresh[t]
      BY <1>4, <2>1 DEF LedgerInv, TypeOK
    <3> QED
      BY <1>1, <3>1 DEF LedgerInv, BlankUntilClaimed
  <2>2. CASE n = n0
    <3>1. dirty'[n] = new
      BY <1>2, <1>4, <2>2 DEF LedgerInv, TypeOK
    <3>2. \A t \in Sweepers : n \notin fresh[t]
      BY <1>3, <2>2, LedgerAssumption DEF LedgerInv, Owned
    <3>3. \A t \in Sweepers : n \in fresh'[t] => Claimable(db[n0])
      BY <1>4, <2>2, <3>2 DEF LedgerInv, TypeOK
    <3>4. Claimable(db[n0]) => new.exists
      BY <1>5, ClaimedRow
    <3> QED
      BY <1>1, <1>5, <1>6, <2>2, <3>1, <3>3, <3>4
  <2> QED
    BY <2>1, <2>2
<1>10. ASSUME NEW n \in Notes PROVE NoteInv(n)'
  <2>1. CASE n # n0
    <3>1. /\ db'[n] = db[n] /\ dirty'[n] = dirty[n] /\ lock'[n] = lock[n]
          /\ \A t \in Sweepers : n \in fresh'[t] <=> n \in fresh[t]
      BY <1>1, <1>4, <2>1 DEF LedgerInv, TypeOK
    <3> QED
      BY <1>1, <3>1, NoteSame DEF LedgerInv
  <2>2. CASE n = n0
    <3>1. /\ lock'[n] = s /\ dirty'[n] = new /\ pc'[s] # "post"
          /\ n \in fresh'[s] <=> Claimable(db[n])
      <4>1. n \notin fresh[s]
        BY <1>3, <2>2 DEF LedgerInv, Owned
      <4> QED
        BY <1>1, <1>2, <1>4, <2>2, <4>1 DEF LedgerInv, TypeOK
    <3>2. /\ Exact(n)' /\ (n \notin unsure' \cup forgotten'
                             => \A c \in Channels : posts'[n][c] <= 1)
      BY <1>1, <1>3, <2>2 DEF LedgerInv, NoteInv, Exact, Told
    <3>3. BeforeDelivery(n, s)'
      <4>1. CASE Claimable(db[n])
        BY <1>1, <1>5, <2>2, <3>1, <3>2, <4>1, ClaimedRow DEF BeforeDelivery
      <4>2. CASE ~Claimable(db[n])
        BY <1>1, <2>2, <3>1, <3>2, <4>2 DEF BeforeDelivery
      <4> QED
        BY <4>1, <4>2
    <3> QED
      BY <1>3, <3>1, <3>2, <3>3 DEF NoteInv
  <2> QED
    BY <2>1, <2>2
<1> QED
  BY <1>7, <1>8, <1>9, <1>10 DEF LedgerInv

LEMMA DeliverInv == ASSUME LedgerInv, NEW s \in Sweepers, Deliver(s) PROVE LedgerInv'
<1>1. /\ UNCHANGED <<now, due, db, dirty, lock, todo, fresh, reached, crashes,
                     posts, unsure, forgotten>>
      /\ pc[s] = "claim" /\ todo[s] = <<>>
      /\ pc' = [pc EXCEPT ![s] = "post"]
      /\ pending' = [pending EXCEPT ![s] = UNION {Routes[n] : n \in fresh[s]}]
      /\ tried' = [n \in Notes |-> IF n \in fresh[s] THEN tried[n] + 1 ELSE tried[n]]
  BY DEF Deliver, Goto, environment, rows
<1>2. TypeOK'
  <2>1. pc' \in [Sweepers -> Positions] /\ tried' \in [Notes -> Nat]
    BY <1>1 DEF LedgerInv, TypeOK, Positions
  <2>2. pending' \in [Sweepers -> SUBSET Channels]
    BY <1>1, LedgerAssumption DEF LedgerInv, TypeOK
  <2> QED
    BY <1>1, <2>1, <2>2 DEF LedgerInv, TypeOK
<1>3. Owned'
  BY <1>1 DEF LedgerInv, TypeOK, Owned
<1>4. BlankUntilClaimed'
  BY <1>1 DEF LedgerInv, BlankUntilClaimed
<1>5. ASSUME NEW n \in Notes PROVE NoteInv(n)'
  <2>1. CASE n \notin fresh[s] /\ lock[n] # s
    BY <1>1, <2>1, NoteSame DEF LedgerInv, TypeOK
  <2>2. CASE n \notin fresh[s] /\ lock[n] = s
    <3>1. Exact(n) /\ dirty[n] = db[n]
      BY <1>1, <2>2 DEF LedgerInv, NoteInv, BeforeDelivery
    <3>2. Exact(n)' /\ dirty'[n] = db'[n]
      BY <1>1, <2>2, <3>1 DEF Exact, Told
    <3>3. BeforeDelivery(n, s)'
      BY <1>1, <2>2, <3>2 DEF BeforeDelivery
    <3> QED
      BY <1>1, <2>2, <3>2, <3>3 DEF LedgerInv, NoteInv
  <2>3. CASE n \in fresh[s]
    <3>1. lock[n] = s /\ reached[s] = {}
      BY <1>1, <2>3 DEF LedgerInv, Owned
    <3>2. BeforeDelivery(n, s)
      BY <1>1, <3>1 DEF LedgerInv, NoteInv
    <3>3. ~db[n].delivered /\ (n \notin forgotten \cup unsure => ~Told(n))
      BY <2>3, <3>2 DEF BeforeDelivery, Exact
    <3>4. n \notin forgotten => dirty'[n].attempts = tried'[n]
      BY <1>1, <2>3, <3>2 DEF BeforeDelivery, Exact
    <3>5. n \notin forgotten \cup unsure => \A c \in Channels : posts[n][c] = 0
      BY <3>3 DEF Told, LedgerInv, TypeOK
    <3>6. pending'[s] \subseteq Channels /\ (Told(n)' <=> Told(n))
      BY <1>1, <1>2 DEF TypeOK, Told
    <3>7. InDelivery(n, s)'
      BY <1>1, <3>1, <3>3, <3>4, <3>5, <3>6 DEF InDelivery
    <3>8. pc'[s] = "post"
      BY <1>1 DEF LedgerInv, TypeOK
    <3>9. s # Free
      BY LedgerAssumption
    <3> QED
      BY <1>1, <2>3, <3>1, <3>7, <3>8, <3>9 DEF LedgerInv, NoteInv
  <2> QED
    BY <2>1, <2>2, <2>3
<1> QED
  BY <1>2, <1>3, <1>4, <1>5 DEF LedgerInv

LEMMA PostInv ==
  ASSUME LedgerInv, NEW s \in Sweepers, NEW c \in Channels, Post(s, c)
  PROVE  LedgerInv'
<1>1. /\ UNCHANGED <<now, due, db, dirty, lock, pc, todo, fresh, crashes, tried,
                     forgotten>>
      /\ pc[s] = "post" /\ c \in pending[s]
      /\ pending' = [pending EXCEPT ![s] = @ \ {c}]
      /\ PostOk(s, c) \/ PostUnanswered(s, c) \/ PostRefused(s, c)
  BY DEF Post, environment, rows
<1>2. Group(s, c) \subseteq fresh[s] /\ fresh[s] \subseteq Notes
  BY DEF Group, LedgerInv, TypeOK
<1>3. Shown(s, c) \/ posts' = posts
  <2>1. PostRefused(s, c) => posts' = posts
    BY DEF PostRefused
  <2>2. PostOk(s, c) \/ PostUnanswered(s, c) => Shown(s, c)
    BY Zenon DEF PostOk, PostUnanswered
  <2> QED
    BY <1>1, <2>1, <2>2, Zenon
<1>4. posts' \in [Notes -> [Channels -> Nat]]
  <2>1. posts \in [Notes -> [Channels -> Nat]]
    BY DEF LedgerInv, TypeOK
  <2>2. CASE Shown(s, c)
    <3>1. \A n \in Notes, d \in Channels : posts[n][d] \in Nat /\ posts[n][d] + 1 \in Nat
      BY <2>1
    <3> QED
      BY <2>2, <3>1 DEF Shown
  <2> QED
    BY <1>3, <2>1, <2>2
<1>5. /\ \A n \in Notes \ Group(s, c) : posts'[n] = posts[n]
      /\ \A n \in Notes, d \in Channels : d # c => posts'[n][d] = posts[n][d]
      /\ \A n \in Group(s, c) : Shown(s, c) => posts'[n][c] = posts[n][c] + 1
  BY <1>2, <1>3 DEF Shown, LedgerInv, TypeOK
<1>6. /\ unsure \subseteq unsure' /\ unsure' \subseteq unsure \cup Group(s, c)
      /\ \A t \in Sweepers : t # s => reached'[t] = reached[t]
      /\ reached[s] \subseteq reached'[s]
      /\ reached'[s] \subseteq reached[s] \cup Group(s, c)
      /\ reached' \in [Sweepers -> SUBSET Notes] /\ unsure' \subseteq Notes
  BY <1>1, <1>2 DEF PostOk, PostUnanswered, PostRefused, LedgerInv, TypeOK
<1>7. /\ pending' \in [Sweepers -> SUBSET Channels]
      /\ \A t \in Sweepers : pending'[t] \subseteq pending[t]
      /\ pending'[s] = pending[s] \ {c}
  BY <1>1 DEF LedgerInv, TypeOK
<1>8. TypeOK'
  BY <1>1, <1>4, <1>6, <1>7 DEF LedgerInv, TypeOK
<1>9. Owned'
  BY <1>1, <1>6 DEF LedgerInv, Owned
<1>10. BlankUntilClaimed'
  BY <1>1 DEF LedgerInv, BlankUntilClaimed
<1>11. ASSUME NEW n \in Notes PROVE NoteInv(n)'
  <2>1. CASE n \notin Group(s, c)
    BY <1>1, <1>5, <1>6, <1>7, <2>1, NoteSame DEF LedgerInv
  <2>2. CASE n \in Group(s, c)
    <3>1. lock[n] = s /\ n \in fresh[s] /\ s # Free
      BY <1>2, <2>2, LedgerAssumption DEF LedgerInv, Owned
    <3>2. InDelivery(n, s)
      BY <1>1, <3>1 DEF LedgerInv, NoteInv
    <3>3. \A d \in Channels : posts[n][d] \in Nat /\ posts'[n][d] \in Nat
      BY <1>4 DEF LedgerInv, TypeOK
    <3>4. CASE PostOk(s, c)
      <4>1. n \in reached'[s] /\ unsure' = unsure /\ Shown(s, c)
        BY <2>2, <3>4 DEF PostOk, LedgerInv, TypeOK
      <4>2. posts'[n][c] > 0
        BY <1>5, <2>2, <3>3, <4>1
      <4>3. Told(n)'
        BY <4>2 DEF Told
      <4>4. n \notin unsure' \cup forgotten' =>
              /\ \A d \in pending'[s] : posts'[n][d] = 0
              /\ \A d \in Channels : posts'[n][d] <= 1
        <5>1. n \notin unsure \cup forgotten =>
                /\ \A d \in pending[s] : posts[n][d] = 0
                /\ \A d \in Channels : posts[n][d] <= 1
          BY <3>2 DEF InDelivery, LedgerInv, NoteInv
        <5>2. pending[s] \subseteq Channels
          BY DEF LedgerInv, TypeOK
        <5> QED
          BY <1>1, <1>5, <1>7, <2>2, <3>3, <4>1, <5>1, <5>2
      <4>5. InDelivery(n, s)'
        BY <1>1, <3>2, <4>1, <4>3, <4>4 DEF InDelivery
      <4> QED
        BY <1>1, <3>1, <4>4, <4>5 DEF NoteInv
    <3>5. CASE PostUnanswered(s, c)
      <4>1. n \in unsure' /\ reached' = reached /\ Shown(s, c)
        BY <2>2, <3>5 DEF PostUnanswered
      <4>2. posts'[n][c] > 0
        BY <1>5, <2>2, <3>3, <4>1
      <4>3. Told(n)'
        BY <4>2 DEF Told
      <4>4. InDelivery(n, s)'
        BY <1>1, <3>2, <4>1, <4>3 DEF InDelivery
      <4> QED
        BY <1>1, <3>1, <4>1, <4>4 DEF NoteInv
    <3>6. CASE PostRefused(s, c)
      BY <1>1, <1>7, <3>6, NoteSame DEF PostRefused, LedgerInv
    <3> QED
      BY <1>1, <3>4, <3>5, <3>6
  <2> QED
    BY <2>1, <2>2
<1> QED
  BY <1>8, <1>9, <1>10, <1>11 DEF LedgerInv

\* The transaction ends: what its end does to locks and locals.
LEMMA EndFacts ==
  ASSUME LedgerInv, NEW s \in Sweepers, End(s)
  PROVE  /\ pc' \in [Sweepers -> Positions] /\ lock' \in [Notes -> Sweepers \cup {Free}]
         /\ todo' \in [Sweepers -> Seq(Notes)]
         /\ fresh' \in [Sweepers -> SUBSET Notes]
         /\ pending' \in [Sweepers -> SUBSET Channels]
         /\ reached' \in [Sweepers -> SUBSET Notes]
         /\ \A n \in Notes : lock'[n] = IF lock[n] = s THEN Free ELSE lock[n]
         /\ \A t \in Sweepers \ {s} :
              /\ pc'[t] = pc[t] /\ fresh'[t] = fresh[t] /\ todo'[t] = todo[t]
              /\ pending'[t] = pending[t] /\ reached'[t] = reached[t]
         /\ Owned'
<1>1. /\ pc' \in [Sweepers -> Positions] /\ lock' \in [Notes -> Sweepers \cup {Free}]
      /\ todo' \in [Sweepers -> Seq(Notes)]
      /\ fresh' \in [Sweepers -> SUBSET Notes]
      /\ pending' \in [Sweepers -> SUBSET Channels]
      /\ reached' \in [Sweepers -> SUBSET Notes]
  BY DEF End, LedgerInv, TypeOK, Positions
<1>2. /\ \A n \in Notes : lock'[n] = IF lock[n] = s THEN Free ELSE lock[n]
      /\ \A t \in Sweepers \ {s} :
           /\ pc'[t] = pc[t] /\ fresh'[t] = fresh[t] /\ todo'[t] = todo[t]
           /\ pending'[t] = pending[t] /\ reached'[t] = reached[t]
      /\ pc'[s] = "idle" /\ fresh'[s] = {} /\ todo'[s] = <<>> /\ reached'[s] = {}
  BY DEF End, LedgerInv, TypeOK
<1>3. \A n \in Notes : lock'[n] # s
  BY <1>2, LedgerAssumption
<1>4. \A t \in Sweepers \ {s} :
        /\ fresh[t] \subseteq Notes
        /\ \A i \in DOMAIN todo[t] : todo[t][i] \in Notes
        /\ t # Free
  BY LedgerAssumption DEF LedgerInv, TypeOK
<1>5. ASSUME NEW t \in Sweepers
      PROVE  /\ \A n \in fresh'[t] : lock'[n] = t
             /\ \A i \in DOMAIN todo'[t] : lock'[todo'[t][i]] # t
             /\ \A i, j \in DOMAIN todo'[t] : todo'[t][i] = todo'[t][j] => i = j
             /\ pc'[t] = "idle" => \A n \in Notes : lock'[n] # t
             /\ pc'[t] # "claim" => todo'[t] = <<>>
             /\ pc'[t] # "post" => reached'[t] = {}
  <2>1. CASE t = s
    BY <1>2, <1>3, <2>1
  <2>2. CASE t # s
    BY <1>2, <1>4, <2>2 DEF LedgerInv, Owned
  <2> QED
    BY <2>1, <2>2
<1> QED
  BY <1>1, <1>2, <1>5 DEF Owned

\* A note that another sweep, or none, has locked.
LEMMA EndOthers ==
  ASSUME LedgerInv, NEW s \in Sweepers, End(s), NEW n \in Notes, lock[n] # s,
         db'[n] = db[n], dirty'[n] = dirty[n], UNCHANGED <<tried, posts, unsure>>,
         n \in forgotten' <=> n \in forgotten
  PROVE  NoteInv(n)'
<1>1. lock'[n] = lock[n]
  BY EndFacts
<1>2. \A t \in Sweepers : lock[n] = t =>
        /\ pc'[t] = "post" <=> pc[t] = "post"
        /\ n \in fresh'[t] <=> n \in fresh[t]
        /\ n \in reached'[t] <=> n \in reached[t]
        /\ pending'[t] \subseteq pending[t]
  <2> SUFFICES ASSUME NEW t \in Sweepers, lock[n] = t
               PROVE  /\ pc'[t] = pc[t] /\ fresh'[t] = fresh[t]
                      /\ reached'[t] = reached[t] /\ pending'[t] = pending[t]
    OBVIOUS
  <2> t \in Sweepers \ {s}
    OBVIOUS
  <2> QED
    BY EndFacts
<1>3. NoteInv(n)
  BY DEF LedgerInv
<1> QED
  BY <1>1, <1>2, <1>3, NoteSame

LEMMA CommitInv == ASSUME LedgerInv, NEW s \in Sweepers, Commit(s) PROVE LedgerInv'
<1>1. /\ UNCHANGED <<now, due, crashes, tried, posts, unsure, forgotten>>
      /\ End(s)
      /\ pc[s] = "post" \/ fresh[s] = {}
      /\ db' = [n \in Notes |-> IF lock[n] = s THEN Recorded(s, n) ELSE db[n]]
      /\ dirty' = [n \in Notes |-> IF lock[n] = s THEN Recorded(s, n) ELSE dirty[n]]
  BY DEF Commit, environment, history
<1>2. ASSUME NEW n \in Notes
      PROVE  /\ Recorded(s, n) \in Row
             /\ Recorded(s, n).attempts = dirty[n].attempts
             /\ Recorded(s, n).exists = dirty[n].exists
             /\ n \in fresh[s] => (Recorded(s, n).delivered <=> n \in reached[s])
             /\ n \notin fresh[s] => Recorded(s, n) = dirty[n]
  <2>1. dirty[n] \in Row
    BY DEF LedgerInv, TypeOK
  <2>2. CASE n \in fresh[s] /\ n \in reached[s]
    <3>1. (n \in reached[s]) = TRUE
      BY <2>2
    <3>2. Recorded(s, n) = [dirty[n] EXCEPT !.delivered = TRUE]
      BY <2>2, <3>1, Zenon DEF Recorded
    <3> QED
      BY <2>1, <2>2, <3>2 DEF Row
  <2>3. CASE n \in fresh[s] /\ n \notin reached[s]
    <3>1. (n \in reached[s]) = FALSE
      BY <2>3
    <3>2. Recorded(s, n) = [dirty[n] EXCEPT !.delivered = FALSE]
      BY <2>3, <3>1, Zenon DEF Recorded
    <3> QED
      BY <2>1, <2>3, <3>2 DEF Row
  <2>4. CASE n \notin fresh[s]
    <3>1. Recorded(s, n) = dirty[n]
      BY <2>4, Zenon DEF Recorded
    <3> QED
      BY <2>1, <2>4, <3>1
  <2> QED
    BY <2>2, <2>3, <2>4
<1>3. TypeOK'
  <2>1. db' \in [Notes -> Row] /\ dirty' \in [Notes -> Row]
    BY <1>1, <1>2 DEF LedgerInv, TypeOK
  <2> QED
    BY <1>1, <2>1, EndFacts DEF LedgerInv, TypeOK
<1>4. ASSUME NEW n \in Notes PROVE NoteInv(n)'
  <2>1. CASE lock[n] # s
    <3>1. db'[n] = db[n] /\ dirty'[n] = dirty[n]
      BY <1>1, <2>1
    <3> QED
      BY <1>1, <2>1, <3>1, EndOthers
  <2>2. CASE lock[n] = s
    <3>1. lock'[n] = Free /\ db'[n] = Recorded(s, n)
      BY <1>1, <2>2, EndFacts
    <3>2. CASE n \in fresh[s]
      <4>1. InDelivery(n, s)
        BY <1>1, <2>2, <3>2 DEF LedgerInv, NoteInv
      <4>2. Exact(n)'
        BY <1>1, <1>2, <3>1, <3>2, <4>1 DEF InDelivery, Exact, Told
      <4> QED
        BY <1>1, <3>1, <4>2, LedgerAssumption DEF LedgerInv, NoteInv
    <3>3. CASE n \notin fresh[s]
      <4>1. Exact(n) /\ dirty[n] = db[n]
        BY <2>2, <3>3 DEF LedgerInv, NoteInv, BeforeDelivery
      <4>2. Exact(n)'
        BY <1>1, <1>2, <3>1, <3>3, <4>1 DEF Exact, Told
      <4> QED
        BY <1>1, <3>1, <4>2, LedgerAssumption DEF LedgerInv, NoteInv
    <3> QED
      BY <3>2, <3>3
  <2> QED
    BY <2>1, <2>2
<1>5. BlankUntilClaimed'
  <2> SUFFICES ASSUME NEW n \in Notes
               PROVE  /\ ~db'[n].exists => db'[n].attempts = 0 /\ ~db'[n].delivered
                      /\ ~dirty'[n].exists => dirty'[n].attempts = 0 /\ ~dirty'[n].delivered
                      /\ \A t \in Sweepers : n \in fresh'[t] => dirty'[n].exists
    BY DEF BlankUntilClaimed
  <2> \A t \in Sweepers : n \in fresh'[t] => n \in fresh[t]
    BY <1>1 DEF End, LedgerInv, TypeOK
  <2>1. CASE lock[n] # s
    BY <1>1, <2>1 DEF LedgerInv, BlankUntilClaimed
  <2>2. CASE lock[n] = s
    <3>1. db'[n] = Recorded(s, n) /\ dirty'[n] = Recorded(s, n)
      BY <1>1, <2>2
    <3>2. ~dirty[n].exists => dirty[n].attempts = 0 /\ ~dirty[n].delivered
      BY DEF LedgerInv, BlankUntilClaimed
    <3>3. n \in fresh[s] => dirty[n].exists
      BY DEF LedgerInv, BlankUntilClaimed
    <3>4. \A t \in Sweepers : n \in fresh[t] => dirty[n].exists
      BY DEF LedgerInv, BlankUntilClaimed
    <3> QED
      BY <1>2, <3>1, <3>2, <3>3, <3>4
  <2> QED
    BY <2>1, <2>2
<1> QED
  BY <1>1, <1>3, <1>4, <1>5, EndFacts DEF LedgerInv

\* A rollback: the rows are as they were, what was posted is forgotten.
LEMMA RollBackInv ==
  ASSUME LedgerInv, NEW s \in Sweepers, RollBack(s),
         UNCHANGED <<tried, posts, unsure>>, crashes' \in Nat,
         forgotten' = IF pc[s] = "post" THEN forgotten \cup fresh[s] ELSE forgotten
  PROVE  LedgerInv'
<1>1. /\ UNCHANGED <<now, due, db>> /\ End(s)
      /\ dirty' = [n \in Notes |-> IF lock[n] = s THEN db[n] ELSE dirty[n]]
  BY DEF RollBack, environment
<1>2. TypeOK'
  <2>1. dirty' \in [Notes -> Row] /\ forgotten' \subseteq Notes
    BY <1>1 DEF LedgerInv, TypeOK
  <2> QED
    BY <1>1, <2>1, EndFacts DEF LedgerInv, TypeOK
<1>3. BlankUntilClaimed'
  <2>1. \A n \in Notes, t \in Sweepers :
          n \in fresh'[t] => n \in fresh[t] /\ lock[n] # s
    BY <1>1, EndFacts DEF End, LedgerInv, TypeOK, Owned
  <2> QED
    BY <1>1, <2>1 DEF LedgerInv, BlankUntilClaimed
<1>4. ASSUME NEW n \in Notes PROVE NoteInv(n)'
  <2>1. CASE lock[n] # s
    <3>1. n \notin fresh[s]
      BY <2>1 DEF LedgerInv, Owned
    <3>2. db'[n] = db[n] /\ dirty'[n] = dirty[n]
      BY <1>1, <2>1
    <3>3. n \in forgotten' <=> n \in forgotten
      BY <3>1
    <3> QED
      BY <1>1, <2>1, <3>2, <3>3, EndOthers
  <2>2. CASE lock[n] = s
    <3>1. lock'[n] = Free
      BY <1>1, <2>2, EndFacts
    <3>2. Exact(n)'
      <4>1. CASE pc[s] = "post" /\ n \in fresh[s]
        <5>1. ~db[n].delivered /\ n \in forgotten'
          BY <2>2, <4>1 DEF LedgerInv, NoteInv, InDelivery
        <5> QED
          BY <1>1, <5>1 DEF Exact
      <4>2. CASE ~(pc[s] = "post" /\ n \in fresh[s])
        <5>1. Exact(n) /\ (n \in forgotten' <=> n \in forgotten)
          BY <2>2, <4>2 DEF LedgerInv, NoteInv, BeforeDelivery
        <5> QED
          BY <1>1, <5>1 DEF Exact, Told
      <4> QED
        BY <4>1, <4>2
    <3> QED
      BY <3>1, <3>2, LedgerAssumption DEF LedgerInv, NoteInv
  <2> QED
    BY <2>1, <2>2
<1> QED
  BY <1>1, <1>2, <1>3, <1>4, EndFacts DEF LedgerInv

LEMMA DeadlockVictimInv ==
  ASSUME LedgerInv, NEW s \in Sweepers, DeadlockVictim(s) PROVE LedgerInv'
<1>1. pc[s] = "claim" /\ RollBack(s) /\ UNCHANGED <<crashes, tried, posts, unsure, forgotten>>
  BY DEF DeadlockVictim, InCycle, history
<1> QED
  BY <1>1, RollBackInv DEF LedgerInv, TypeOK

LEMMA CrashInv == ASSUME LedgerInv, NEW s \in Sweepers, Crash(s) PROVE LedgerInv'
<1>1. /\ RollBack(s) /\ UNCHANGED <<tried, posts, unsure>> /\ crashes' = crashes + 1
      /\ forgotten' = IF pc[s] = "post" THEN forgotten \cup fresh[s] ELSE forgotten
  BY DEF Crash
<1>2. crashes' \in Nat
  BY <1>1 DEF LedgerInv, TypeOK
<1> QED
  BY <1>1, <1>2, RollBackInv

-----------------------------------------------------------------------------
(* The inductive invariant holds in every reachable state.                  *)
THEOREM LedgerInvariant == Spec => []LedgerInv
<1>1. LedgerInv /\ [Next]_vars => LedgerInv'
  <2> SUFFICES ASSUME LedgerInv, [Next]_vars PROVE LedgerInv'
    OBVIOUS
  <2>1. CASE Tick
    BY <2>1, EnvironmentInv DEF Tick, LedgerInv, TypeOK
  <2>2. ASSUME NEW n \in Notes, Arise(n) PROVE LedgerInv'
    BY <2>2, EnvironmentInv DEF Arise, LedgerInv, TypeOK
  <2>3. ASSUME NEW s \in Sweepers, Sweep(s) \/ Crash(s) PROVE LedgerInv'
    BY <2>3, BeginInv, ClaimInv, DeliverInv, PostInv, CommitInv, DeadlockVictimInv,
       CrashInv
    DEF Sweep
  <2>4. CASE UNCHANGED vars
    BY <2>4, EnvironmentInv DEF vars, environment, LedgerInv, TypeOK
  <2> QED
    BY <2>1, <2>2, <2>3, <2>4 DEF Next
<1> QED
  BY InitLedgerInv, <1>1, PTL DEF Spec

(* No two sweeps ever hold the same notification (claim, notify.py).         *)
THEOREM AlwaysOneSender == Spec => []OneSender
<1>1. LedgerInv => OneSender
  BY DEF LedgerInv, Owned, OneSender
<1> QED
  BY LedgerInvariant, <1>1, PTL

(* No channel is told twice, lost answers and killed sweeps aside (send).    *)
THEOREM AlwaysToldOnce == Spec => []ToldOnce
<1>1. LedgerInv => ToldOnce
  BY DEF LedgerInv, NoteInv, ToldOnce
<1> QED
  BY LedgerInvariant, <1>1, PTL

(* A row no sweep is working on tells what was done (record).                *)
THEOREM LedgerAlwaysExact == Spec => []LedgerExact
<1>1. LedgerInv => LedgerExact
  BY DEF LedgerInv, NoteInv, LedgerExact
<1> QED
  BY LedgerInvariant, <1>1, PTL

(* What no killed sweep has posted is handed to Slack at most                *)
(* MAX_DELIVERY_ATTEMPTS times, for any number of sweeps: the bound that     *)
(* migration 021 states, under the condition it needs.                       *)
THEOREM TriesBoundedUnlessKilled ==
  Spec => [](\A n \in Notes \ forgotten : tried[n] <= MaxAttempts)
<1>1. LedgerInv => \A n \in Notes \ forgotten : tried[n] <= MaxAttempts
  <2> SUFFICES ASSUME LedgerInv, NEW n \in Notes, n \notin forgotten
               PROVE  tried[n] <= MaxAttempts
    OBVIOUS
  <2>1. db[n].attempts \in 0..MaxAttempts /\ dirty[n].attempts \in 0..MaxAttempts
    BY DEF LedgerInv, TypeOK, Row
  <2>2. lock[n] = Free \/ \E s \in Sweepers : lock[n] = s
    BY DEF LedgerInv, TypeOK
  <2>3. tried[n] = db[n].attempts \/ tried[n] = dirty[n].attempts
    BY <2>2 DEF LedgerInv, NoteInv, InDelivery, BeforeDelivery, Exact
  <2> QED
    BY <2>1, <2>3, LedgerAssumption
<1> QED
  BY LedgerInvariant, <1>1, PTL

=============================================================================
