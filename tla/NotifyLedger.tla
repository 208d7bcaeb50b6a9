---------------------------- MODULE NotifyLedger ----------------------------
(***************************************************************************)
(* The notification ledger (notify.py): send() claims every notification,   *)
(* posts what it claimed to Slack and records the outcome.  `wishd notify`   *)
(* runs it from cron, in one transaction that is committed at the end        *)
(* (cli.py); sweeps may overlap, and a sweep may die between a post and its   *)
(* commit.                                                                   *)
(*                                                                         *)
(* The claim is one upsert, `insert ... on conflict do update ... where`.   *)
(* PostgreSQL locks the conflicting row to the end of the transaction,       *)
(* whether or not the where clause then lets it be updated.  What the sweep  *)
(* has to say comes from queries in an order of their own (the latest        *)
(* failure first), so two sweeps may claim in different orders.              *)
(***************************************************************************)
EXTENDS Integers, Sequences, FiniteSets

CONSTANTS
  Notes,        \* notifications: one (event, dedup_key) each
  Channels,     \* Slack channels
  Routes,       \* the channels each notification is routed to
  Sweepers,     \* processes that may sweep at the same time
  Free,         \* nobody has locked the row
  MaxAttempts,  \* MAX_DELIVERY_ATTEMPTS
  RetryWindow,  \* RETRY_WINDOW_HOURS
  MaxTime,      \* bound: the clock
  MaxCrashes    \* bound: sweeps killed

ASSUME LedgerAssumption ==
  /\ IsFiniteSet(Notes)
  /\ Routes \in [Notes -> SUBSET Channels]
  /\ Free \notin Sweepers
  /\ MaxAttempts \in Nat \ {0}
  /\ RetryWindow \in Nat
  /\ MaxTime \in Nat
  /\ MaxCrashes \in Nat

VARIABLES
  now,       \* the clock
  due,       \* what the sweep's queries return: failures and incidents
  db,        \* committed rows of notifications
  dirty,     \* the version of a locked row its writer sees
  lock,      \* the sweep that locked the row, or Free
  pc,        \* where each sweep is in send()
  todo,      \* notifications it has still to claim, in its order
  fresh,     \* those it claimed
  pending,   \* channels it has still to post to
  reached,   \* claimed notifications that reached a channel, as far as it knows
  crashes,   \* sweeps killed so far
  tried,     \* history: times each notification was handed to Slack
  posts,     \* history: messages in each channel about each notification
  unsure,    \* history: posted, with an answer that was lost
  forgotten  \* history: posted by a sweep that was killed before its commit

environment == <<now, due>>
rows == <<db, dirty, lock>>
locals == <<todo, fresh, pending, reached>>
history == <<tried, posts, unsure, forgotten>>
vars == <<environment, rows, pc, locals, crashes, history>>

-----------------------------------------------------------------------------
NoRow == [exists |-> FALSE, attempts |-> 0, created |-> 0, delivered |-> FALSE]

Init ==
  /\ now = 0
  /\ due = {}
  /\ db = [n \in Notes |-> NoRow]
  /\ dirty = db
  /\ lock = [n \in Notes |-> Free]
  /\ pc = [s \in Sweepers |-> "idle"]
  /\ todo = [s \in Sweepers |-> <<>>]
  /\ fresh = [s \in Sweepers |-> {}]
  /\ pending = [s \in Sweepers |-> {}]
  /\ reached = [s \in Sweepers |-> {}]
  /\ crashes = 0
  /\ tried = [n \in Notes |-> 0]
  /\ posts = [n \in Notes |-> [c \in Channels |-> 0]]
  /\ unsure = {} /\ forgotten = {}

\* Time passes; pipelines fail, incidents open.
Tick ==
  /\ now < MaxTime
  /\ now' = now + 1
  /\ UNCHANGED <<due, rows, pc, locals, crashes, history>>

Arise(n) ==
  /\ n \notin due
  /\ due' = due \cup {n}
  /\ UNCHANGED <<now, rows, pc, locals, crashes, history>>

-----------------------------------------------------------------------------
(* send().                                                                 *)

Goto(s, from, to) == pc[s] = from /\ pc' = [pc EXCEPT ![s] = to]

Orders(S) ==
  {f \in [1..Cardinality(S) -> S] : \A i, j \in DOMAIN f : f[i] = f[j] => i = j}

\* The sweep opens its transaction and builds its notes.
Begin(s) ==
  /\ due # {}
  /\ Goto(s, "idle", "claim")
  /\ \E order \in Orders(due) : todo' = [todo EXCEPT ![s] = order]
  /\ UNCHANGED <<environment, rows, fresh, pending, reached, crashes, history>>

\* Faults: what was delivered is sent again; a notification is claimed once and
\* for all (migration 020).
ClaimableDelivered(row) ==
  \/ ~row.exists
  \/ row.attempts < MaxAttempts /\ row.created + RetryWindow >= now
ClaimableOnce(row) == ~row.exists

\* First time, or undelivered, recent and with tries left.
Claimable(row) ==
  \/ ~row.exists
  \/ /\ ~row.delivered
     /\ row.attempts < MaxAttempts
     /\ row.created + RetryWindow >= now

\* Fault: the attempt is not counted.
ClaimedUncounted(row) ==
  [exists |-> TRUE, attempts |-> row.attempts, delivered |-> row.delivered,
   created |-> IF row.exists THEN row.created ELSE now]

Claimed(row) ==
  [exists |-> TRUE, attempts |-> row.attempts + 1, delivered |-> row.delivered,
   created |-> IF row.exists THEN row.created ELSE now]

\* Fault: a select and then an insert, which waits for nobody.
RowFreeUnchecked(s, n) == TRUE

RowFree(s, n) == lock[n] \in {Free, s}

\* claim(): one upsert, which waits for the row.
Claim(s) ==
  LET n == Head(todo[s])
      row == IF lock[n] = s THEN dirty[n] ELSE db[n]
  IN /\ pc[s] = "claim"
     /\ todo[s] # <<>>
     /\ RowFree(s, n)
     /\ lock' = [lock EXCEPT ![n] = s]
     /\ dirty' = [dirty EXCEPT ![n] = IF Claimable(row) THEN Claimed(row) ELSE row]
     /\ fresh' = [fresh EXCEPT ![s] = IF Claimable(row) THEN @ \cup {n} ELSE @]
     /\ todo' = [todo EXCEPT ![s] = Tail(@)]
     /\ UNCHANGED <<environment, db, pc, pending, reached, crashes, history>>

\* slack.deliver(): one message per channel, about all notes routed there.
Deliver(s) ==
  /\ todo[s] = <<>> /\ fresh[s] # {}
  /\ Goto(s, "claim", "post")
  /\ pending' = [pending EXCEPT ![s] = UNION {Routes[n] : n \in fresh[s]}]
  /\ tried' = [n \in Notes |-> IF n \in fresh[s] THEN tried[n] + 1 ELSE tried[n]]
  /\ UNCHANGED <<environment, rows, todo, fresh, reached, crashes, posts, unsure,
                 forgotten>>

Group(s, c) == {n \in fresh[s] : c \in Routes[n]}

Shown(s, c) ==
  posts' = [n \in Notes |-> [d \in Channels |->
              IF n \in Group(s, c) /\ d = c THEN posts[n][d] + 1 ELSE posts[n][d]]]

\* Slack takes the message and says so; it takes it and the answer is lost (a
\* timeout, a body that does not parse); or it does not take it.
PostOk(s, c) ==
  /\ Shown(s, c)
  /\ reached' = [reached EXCEPT ![s] = @ \cup Group(s, c)]
  /\ UNCHANGED unsure
PostUnanswered(s, c) ==
  /\ Shown(s, c)
  /\ unsure' = unsure \cup Group(s, c)
  /\ UNCHANGED reached
PostRefused(s, c) == UNCHANGED <<posts, reached, unsure>>

Post(s, c) ==
  /\ pc[s] = "post"
  /\ c \in pending[s]
  /\ PostOk(s, c) \/ PostUnanswered(s, c) \/ PostRefused(s, c)
  /\ pending' = [pending EXCEPT ![s] = @ \ {c}]
  /\ UNCHANGED <<environment, rows, pc, todo, fresh, crashes, tried, forgotten>>

\* The transaction is over and the process with it.
End(s) ==
  /\ pc' = [pc EXCEPT ![s] = "idle"]
  /\ lock' = [n \in Notes |-> IF lock[n] = s THEN Free ELSE lock[n]]
  /\ todo' = [todo EXCEPT ![s] = <<>>]
  /\ fresh' = [fresh EXCEPT ![s] = {}]
  /\ pending' = [pending EXCEPT ![s] = {}]
  /\ reached' = [reached EXCEPT ![s] = {}]

\* Fault: whatever was handed to Slack is recorded as delivered.
RecordedBlindly(s, n) ==
  IF n \in fresh[s] THEN [dirty[n] EXCEPT !.delivered = TRUE] ELSE dirty[n]

\* record() for every note claimed (delivered if it reached one channel), and
\* the commit: the rows are locked, so nobody sees them in between.  A sweep
\* that claimed nothing posts nothing.
Recorded(s, n) ==
  IF n \in fresh[s] THEN [dirty[n] EXCEPT !.delivered = n \in reached[s]] ELSE dirty[n]

Commit(s) ==
  /\ \/ pc[s] = "post" /\ pending[s] = {}
     \/ pc[s] = "claim" /\ todo[s] = <<>> /\ fresh[s] = {}
  /\ db' = [n \in Notes |-> IF lock[n] = s THEN Recorded(s, n) ELSE db[n]]
  /\ dirty' = [n \in Notes |-> IF lock[n] = s THEN Recorded(s, n) ELSE dirty[n]]
  /\ End(s)
  /\ UNCHANGED <<environment, crashes, history>>

RollBack(s) ==
  /\ dirty' = [n \in Notes |-> IF lock[n] = s THEN db[n] ELSE dirty[n]]
  /\ End(s)
  /\ UNCHANGED <<environment, db>>

\* s is in a circle of sweeps that wait for one another's rows.
InCycle(s) ==
  \E C \in SUBSET Sweepers :
    /\ s \in C
    /\ \A x \in C : /\ pc[x] = "claim" /\ todo[x] # <<>>
                    /\ lock[Head(todo[x])] \in C \ {x}

\* PostgreSQL ends one of them: the claim raises, the command exits.
DeadlockVictim(s) ==
  /\ InCycle(s)
  /\ RollBack(s)
  /\ UNCHANGED <<crashes, history>>

\* The sweep is killed, or loses its connection.
Crash(s) ==
  /\ pc[s] # "idle"
  /\ crashes < MaxCrashes
  /\ crashes' = crashes + 1
  /\ forgotten' = IF pc[s] = "post" THEN forgotten \cup fresh[s]
                  ELSE forgotten
  /\ RollBack(s)
  /\ UNCHANGED <<tried, posts, unsure>>

Sweep(s) ==
  \/ Begin(s) \/ Claim(s) \/ Deliver(s)
  \/ \E c \in Channels : Post(s, c)
  \/ Commit(s) \/ DeadlockVictim(s)

Next ==
  \/ Tick
  \/ \E n \in Notes : Arise(n)
  \/ \E s \in Sweepers : Sweep(s) \/ Crash(s)

Spec == Init /\ [][Next]_vars

\* cron starts sweeps again and again and a sweep that runs goes on; row
\* locks are granted in the order they were asked for, so a claim that waits
\* is not passed by for ever.
FairSpec ==
  /\ Spec
  /\ \A s \in Sweepers :
       /\ WF_vars(Sweep(s))
       /\ \A n \in Notes : SF_vars(todo[s] # <<>> /\ Head(todo[s]) = n /\ Claim(s))

-----------------------------------------------------------------------------
Positions == {"idle", "claim", "post"}
Row == [exists : BOOLEAN, attempts : 0..MaxAttempts, created : Nat,
        delivered : BOOLEAN]

TypeOK ==
  /\ now \in Nat
  /\ due \subseteq Notes
  /\ db \in [Notes -> Row]
  /\ dirty \in [Notes -> Row]
  /\ lock \in [Notes -> Sweepers \cup {Free}]
  /\ pc \in [Sweepers -> Positions]
  /\ todo \in [Sweepers -> Seq(Notes)]
  /\ fresh \in [Sweepers -> SUBSET Notes]
  /\ pending \in [Sweepers -> SUBSET Channels]
  /\ reached \in [Sweepers -> SUBSET Notes]
  /\ crashes \in Nat
  /\ tried \in [Notes -> Nat]
  /\ posts \in [Notes -> [Channels -> Nat]]
  /\ unsure \subseteq Notes /\ forgotten \subseteq Notes

(* "Exactly one of two concurrent sweeps wins the claim" (operations.md):    *)
(* no two sweeps hold the same notification between its claim and the end    *)
(* of their transactions, so none is being posted twice at once.             *)
OneSender ==
  \A s, t \in Sweepers : fresh[s] \cap fresh[t] # {} => s = t

(* A channel is told once: as long as no answer was lost and no sweep killed *)
(* after posting, no channel has two messages about one notification, over   *)
(* any number of sweeps, overlapping or not, failed or not.                  *)
ToldOnce ==
  \A n \in Notes \ (unsure \cup forgotten), c \in Channels : posts[n][c] <= 1

(* What the ledger's answer to "why did nobody get told?" is worth, for a row *)
(* as it stands in the table.                                                *)
Told(n) == \E c \in Channels : posts[n][c] > 0
Exact(n) ==
  /\ db[n].delivered => Told(n)
  /\ n \notin forgotten => db[n].attempts = tried[n]
  /\ n \notin forgotten \cup unsure => (db[n].delivered <=> Told(n))

(* The ledger answers "why did nobody get told?": a row no sweep is working  *)
(* on counts the attempts that were made, says delivered only if a channel   *)
(* has the message, and says undelivered only if none has or Slack's answer  *)
(* was lost.                                                                 *)
LedgerExact == \A n \in Notes : lock[n] = Free => Exact(n)

(* Why, as an inductive invariant: a sweep owns the rows it claimed and has   *)
(* done with them; a row it owns is as it was until it is handed to Slack,   *)
(* and from then on the sweep knows what the channels show, lost answers     *)
(* aside.                                                                    *)
Owned ==
  \A s \in Sweepers :
    /\ \A n \in fresh[s] : lock[n] = s
    /\ \A i \in DOMAIN todo[s] : lock[todo[s][i]] # s
    /\ \A i, j \in DOMAIN todo[s] : todo[s][i] = todo[s][j] => i = j
    /\ pc[s] = "idle" => \A n \in Notes : lock[n] # s
    /\ pc[s] # "claim" => todo[s] = <<>>
    /\ pc[s] # "post" => reached[s] = {}

BlankUntilClaimed ==
  \A n \in Notes :
    /\ ~db[n].exists => db[n].attempts = 0 /\ ~db[n].delivered
    /\ ~dirty[n].exists => dirty[n].attempts = 0 /\ ~dirty[n].delivered
    /\ \A s \in Sweepers : n \in fresh[s] => dirty[n].exists

BeforeDelivery(n, s) ==
  /\ Exact(n)
  /\ n \notin fresh[s] => dirty[n] = db[n]
  /\ n \in fresh[s] => /\ ~db[n].delivered /\ ~dirty[n].delivered
                       /\ dirty[n].attempts = db[n].attempts + 1

InDelivery(n, s) ==
  /\ ~db[n].delivered
  /\ n \in reached[s] => Told(n)
  /\ n \notin forgotten => dirty[n].attempts = tried[n]
  /\ n \notin forgotten \cup unsure =>
       /\ Told(n) <=> n \in reached[s]
       /\ \A c \in pending[s] : posts[n][c] = 0

NoteInv(n) ==
  /\ n \notin unsure \cup forgotten => \A c \in Channels : posts[n][c] <= 1
  /\ lock[n] = Free => Exact(n)
  /\ \A s \in Sweepers : lock[n] = s =>
       IF pc[s] = "post" /\ n \in fresh[s] THEN InDelivery(n, s)
       ELSE BeforeDelivery(n, s)

LedgerInv == TypeOK /\ Owned /\ BlankUntilClaimed /\ \A n \in Notes : NoteInv(n)

(* What is worth saying is said or given up for a reason the ledger shows:   *)
(* delivered, out of attempts, or past the retry window.                     *)
Spent(row) ==
  row.exists /\ (row.attempts = MaxAttempts \/ row.created + RetryWindow < now)
SaidOrSpent ==
  \A n \in Notes : n \in due ~> db[n].delivered \/ Spent(db[n])

(* "At most a few tries" (migration 021): a notification is handed to Slack  *)
(* at most MAX_DELIVERY_ATTEMPTS times, whatever happens to the sweeps.      *)
TriesBounded == \A n \in Notes : tried[n] <= MaxAttempts

=============================================================================
