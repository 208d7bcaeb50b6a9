--------------------------- MODULE LiveFeedProofs ---------------------------
(***************************************************************************)
(* A message of the feed is closed for editing only when its pipeline is     *)
(* over, for any number of steps and of overlapping trackers, any refusals   *)
(* and any deaths, when the root reports for itself.  A tracker acts on what  *)
(* it saw when it looked; the invariant is that what is terminal then has    *)
(* not been resumed since.                                                   *)
(***************************************************************************)
EXTENDS LiveFeed, FiniteSetTheorems, TLAPS

Statuses == {"running", "stalled", "failed", "completed"}
Notes == {<<>>} \union (Statuses \X Nat \X Nat \X Nat)
Rows == [exists : BOOLEAN, attempts : Nat, delivered : BOOLEAN, live : BOOLEAN,
         ts : Nat, hash : Notes]
Hands == [pc : {"idle", "claim", "post", "edit", "save", "commit"}, row : Rows,
          note : Notes, next : Rows, late : BOOLEAN, refused : BOOLEAN]

Types ==
  /\ run \in [Runs -> {"unseen", "RUNNING"} \union Ended]
  /\ ledger \in Rows
  /\ tracker \in [Trackers -> Hands]
  /\ channel \in Seq(Notes)

\* The root reports first, so a pipeline of which anything is known has begun.
RootFirst ==
  /\ \A r \in Runs : run[r] # "unseen" => run[0] # "unseen"
  /\ ledger.live => run[0] # "unseen"
  /\ \A t \in Trackers : tracker[t].pc # "idle" => run[0] # "unseen"

\* Delivered rows exist, open ones are delivered.
Sane(row) == (row.live => row.delivered) /\ (row.delivered => row.exists)
Honest(row) == Sane(row) /\ (row.delivered /\ ~row.live => run[0] \in Ended)

\* What is in a tracker's hands is as honest as the ledger.
HandHonest(t) ==
  /\ tracker[t].pc \in {"claim", "post", "edit"} /\ IsTerminal(tracker[t].note)
       => run[0] \in Ended
  /\ tracker[t].pc = "post" => tracker[t].next.exists /\ ~tracker[t].next.delivered
                               /\ ~tracker[t].next.live
  /\ tracker[t].pc = "edit" => tracker[t].row.exists /\ tracker[t].row.delivered
  /\ tracker[t].pc \in {"save", "commit"} => Honest(tracker[t].next)

FeedInv ==
  /\ Types
  /\ RootFirst
  /\ Honest(ledger)
  /\ \A t \in Trackers : HandHonest(t)

-----------------------------------------------------------------------------
LEMMA CountOfRuns ==
  ASSUME NEW states
  PROVE  /\ Count(states) \in Nat
         /\ Count(states) > 0 <=> \E r \in Runs : run[r] \in states
<1> DEFINE S == {r \in Runs : run[r] \in states}
<1>1. IsFiniteSet(Runs)
  BY FS_Interval, LiveFeedAssumption DEF Runs
<1>2. IsFiniteSet(S)
  <2>1. S \subseteq Runs
    OBVIOUS
  <2> QED
    BY <1>1, <2>1, FS_Subset
<1>3. Cardinality(S) \in Nat /\ (Cardinality(S) = 0 <=> S = {})
  BY <1>2, FS_CardinalityType, FS_EmptySet
<1> QED
  BY <1>3 DEF Count

LEMMA NoteIsNote == Note \in Notes
<1>1. Status \in Statuses
  BY DEF Status, Statuses
<1> QED
  BY <1>1, CountOfRuns DEF Note, Notes

(* A pipeline that has begun, and that the feed calls completed or failed, has *)
(* ended: its root is not running.                                            *)
LEMMA TerminalIsOver ==
  ASSUME Types, run[0] # "unseen", IsTerminal(Note)
  PROVE  run[0] \in Ended
<1>1. Note[1] = Status
  BY DEF Note
<1>2. ~(Count({"RUNNING"}) > 0)
  BY <1>1 DEF IsTerminal, Status
<1>3. 0 \in Runs
  BY LiveFeedAssumption DEF Runs
<1> QED
  BY <1>2, <1>3, CountOfRuns DEF Types

LEMMA FeedStarts == ASSUME RootReports, Init PROVE FeedInv
<1>1. NoRow \in Rows /\ Resting \in Hands
  BY DEF NoRow, Rows, Resting, Hands, Notes
<1>2. Types
  BY <1>1 DEF Init, Types
<1> QED
  BY <1>1, <1>2 DEF Init, FeedInv, RootFirst, Honest, Sane, HandHonest, NoRow, Resting

(* The pipeline moves on, and never back from its end.                        *)
LEMMA PipelineKeeps ==
  ASSUME RootReports, FeedInv, NEW r \in Runs,
         Begin(r) \/ \E state \in Outcomes : Finish(r, state)
  PROVE  FeedInv'
<1>1. 0 \in Runs /\ UNCHANGED <<ledger, tracker, channel>>
  BY LiveFeedAssumption DEF Runs, Begin, Finish
<1>2. PICK state : /\ run' = [run EXCEPT ![r] = state]
                   /\ state \in {"RUNNING"} \union Ended
                   /\ run[r] \notin Ended
                   /\ r = 0 \/ run[0] # "unseen"
  <2>1. CASE Begin(r)
    BY <2>1 DEF Begin, Ended
  <2>2. ASSUME NEW state \in Outcomes, Finish(r, state)
        PROVE  /\ run' = [run EXCEPT ![r] = state]
               /\ state \in {"RUNNING"} \union Ended
               /\ run[r] \notin Ended
               /\ r = 0 \/ run[0] # "unseen"
    BY <1>1, <2>2, LiveFeedAssumption DEF Finish, Ended, FeedInv, RootFirst
  <2> QED
    BY <2>1, <2>2
<1>3. Types'
  BY <1>1, <1>2 DEF FeedInv, Types
<1>4. /\ run[0] \in Ended => run'[0] \in Ended
      /\ run[0] # "unseen" => run'[0] # "unseen"
      /\ run'[r] # "unseen" /\ (r = 0 \/ run[0] # "unseen")
      /\ \A q \in Runs : q # r => run'[q] = run[q]
  BY <1>1, <1>2 DEF FeedInv, Types, Ended
<1>5. RootFirst'
  BY <1>1, <1>4 DEF FeedInv, RootFirst
<1>6. Honest(ledger)' /\ \A t \in Trackers : HandHonest(t)'
  BY <1>1, <1>4 DEF FeedInv, Honest, HandHonest, IsTerminal, Sane
<1> QED
  BY <1>3, <1>5, <1>6 DEF FeedInv

(* What a step of one tracker has to leave behind.                            *)
LEMMA TrackerKeeps ==
  ASSUME FeedInv, NEW t \in Trackers, NEW hand \in Hands,
         run' = run, ledger' = ledger, tracker' = [tracker EXCEPT ![t] = hand],
         channel' \in Seq(Notes),
         hand.pc # "idle" => run[0] # "unseen",
         HandHonest(t)'
  PROVE  FeedInv'
<1>1. \A u \in Trackers : u # t => tracker'[u] = tracker[u]
  BY DEF FeedInv, Types
<1>2. tracker'[t] = hand
  BY DEF FeedInv, Types
<1>3. Types'
  BY DEF FeedInv, Types
<1>4. RootFirst' /\ Honest(ledger)'
  BY <1>1, <1>2 DEF FeedInv, RootFirst, Honest
<1>5. \A u \in Trackers : HandHonest(u)'
  BY <1>1 DEF FeedInv, HandHonest, Honest
<1> QED
  BY <1>3, <1>4, <1>5 DEF FeedInv

LEMMA RestingIsHand == Resting \in Hands /\ Resting.pc = "idle"
  BY DEF Resting, NoRow, Hands, Rows, Notes

LEMMA LookKeeps == ASSUME FeedInv, NEW t \in Trackers, Look(t) PROVE FeedInv'
<1> DEFINE closed == [ledger EXCEPT !.live = FALSE]
           toPost == [Resting EXCEPT !.pc = "claim", !.note = Note, !.late = age # "young"]
           toEdit == [Resting EXCEPT !.pc = "edit", !.note = Note, !.row = ledger]
           toClose == [Resting EXCEPT !.pc = "save", !.next = closed]
<1>1. /\ InFeed(Open) /\ UNCHANGED <<run, ledger, channel>>
      /\ \/ tracker' = [tracker EXCEPT ![t] = toPost]
         \/ Open /\ tracker' = [tracker EXCEPT ![t] = toEdit]
         \/ Open /\ IsTerminal(Note) /\ tracker' = [tracker EXCEPT ![t] = toClose]
  BY DEF Look
<1>2. run[0] # "unseen"
  <2>1. CASE Open
    BY <2>1 DEF FeedInv, RootFirst, Open
  <2>2. CASE Count({"RUNNING"}) > 0
    BY <2>2, CountOfRuns DEF FeedInv, RootFirst
  <2>3. CASE run[0] \in Ended
    BY <2>3 DEF Ended
  <2> QED
    BY <1>1, <2>1, <2>2, <2>3 DEF InFeed
<1>3. /\ ledger \in Rows /\ closed \in Rows /\ Sane(ledger) /\ channel \in Seq(Notes)
      /\ ~closed.live /\ closed.delivered = ledger.delivered /\ closed.exists = ledger.exists
  BY DEF FeedInv, Types, Rows, Honest
<1>4. IsTerminal(Note) => run[0] \in Ended
  BY <1>2, TerminalIsOver DEF FeedInv
<1> HIDE DEF closed
<1>5. CASE tracker' = [tracker EXCEPT ![t] = toPost]
  <2>1. /\ toPost \in Hands /\ toPost.pc = "claim" /\ toPost.note = Note
    BY RestingIsHand, NoteIsNote DEF Hands
  <2> HIDE DEF toPost
  <2>2. tracker'[t] = toPost
    BY <1>5 DEF FeedInv, Types
  <2>3. HandHonest(t)'
    BY <1>1, <1>4, <2>1, <2>2 DEF HandHonest, IsTerminal
  <2> QED
    BY <1>1, <1>2, <1>3, <1>5, <2>1, <2>3, TrackerKeeps
<1>6. CASE Open /\ tracker' = [tracker EXCEPT ![t] = toEdit]
  <2>1. /\ toEdit \in Hands /\ toEdit.pc = "edit" /\ toEdit.note = Note /\ toEdit.row = ledger
    BY <1>3, RestingIsHand, NoteIsNote DEF Hands
  <2> HIDE DEF toEdit
  <2>2. tracker'[t] = toEdit
    BY <1>6 DEF FeedInv, Types
  <2>3. ledger.exists /\ ledger.delivered
    BY <1>3, <1>6 DEF Open, Sane
  <2>4. HandHonest(t)'
    BY <1>1, <1>4, <2>1, <2>2, <2>3 DEF HandHonest, IsTerminal
  <2> QED
    BY <1>1, <1>2, <1>3, <1>6, <2>1, <2>4, TrackerKeeps
<1>7. CASE IsTerminal(Note) /\ tracker' = [tracker EXCEPT ![t] = toClose]
  <2>1. /\ toClose \in Hands /\ toClose.pc = "save" /\ toClose.next = closed
    BY <1>3, RestingIsHand DEF Hands
  <2> HIDE DEF toClose
  <2>2. tracker'[t] = toClose
    BY <1>7 DEF FeedInv, Types
  <2>3. HandHonest(t)'
    BY <1>1, <1>3, <1>4, <1>7, <2>1, <2>2 DEF HandHonest, Honest, Sane
  <2> QED
    BY <1>1, <1>2, <1>3, <1>7, <2>1, <2>3, TrackerKeeps
<1> QED
  BY <1>1, <1>5, <1>6, <1>7

LEMMA ClaimKeeps == ASSUME FeedInv, NEW t \in Trackers, Claim(t) PROVE FeedInv'
<1> DEFINE next == IF Claimable(t) THEN [ledger EXCEPT !.exists = TRUE, !.attempts = ledger.attempts + 1]
                   ELSE ledger
           hand == [tracker[t] EXCEPT !.pc = IF Claimable(t) THEN "post" ELSE "commit",
                                      !.next = next]
<1>1. /\ tracker[t] \in Hands /\ ledger \in Rows /\ channel \in Seq(Notes)
      /\ tracker[t].pc = "claim" /\ UNCHANGED <<run, ledger, channel>>
      /\ Sane(ledger) /\ Honest(ledger) /\ HandHonest(t)
  BY DEF Claim, FeedInv, Types, Honest
<1>2. next \in Rows
  <2>1. ledger.attempts + 1 \in Nat
    BY <1>1 DEF Rows
  <2>2. [ledger EXCEPT !.exists = TRUE, !.attempts = ledger.attempts + 1] \in Rows
    BY <1>1, <2>1 DEF Rows
  <2> QED
    BY <1>1, <2>2
<1>3. hand \in Hands
  BY <1>1, <1>2 DEF Hands
<1>4. tracker' = [tracker EXCEPT ![t] = hand]
  BY <1>1 DEF Claim, FeedInv, Types, Hands
<1>5. tracker'[t] = hand
  BY <1>4 DEF FeedInv, Types
<1>6. /\ hand.pc = (IF Claimable(t) THEN "post" ELSE "commit")
      /\ hand.note = tracker[t].note /\ hand.next = next
  BY <1>1 DEF Hands
<1>7. Claimable(t) => next.exists /\ ~next.delivered /\ ~next.live
  BY <1>1 DEF Claimable, Rows, Sane
<1>8. HandHonest(t)'
  BY <1>1, <1>5, <1>6, <1>7 DEF HandHonest, Honest, IsTerminal
<1>9. run[0] # "unseen"
  BY <1>1 DEF FeedInv, RootFirst
<1> QED
  BY <1>1, <1>3, <1>4, <1>8, <1>9, TrackerKeeps

LEMMA PostKeeps == ASSUME FeedInv, NEW t \in Trackers, Post(t) PROVE FeedInv'
<1> DEFINE note == tracker[t].note
           old == tracker[t].next
           taken == [old EXCEPT !.ts = Len(channel) + 1, !.delivered = TRUE,
                                !.live = ~IsTerminal(note), !.hash = note]
           refused == [old EXCEPT !.hash = note]
<1>1. /\ tracker[t] \in Hands /\ channel \in Seq(Notes) /\ note \in Notes /\ old \in Rows
      /\ tracker[t].pc = "post" /\ UNCHANGED <<run, ledger>>
      /\ HandHonest(t)
  BY DEF Post, FeedInv, Types, Hands
<1>2. taken \in Rows /\ refused \in Rows
  <2>1. Len(channel) + 1 \in Nat /\ (~IsTerminal(note)) \in BOOLEAN
    BY <1>1 DEF IsTerminal
  <2> QED
    BY <1>1, <2>1 DEF Rows
<1>3. /\ taken.delivered /\ taken.exists /\ (~taken.live => IsTerminal(note))
      /\ ~refused.delivered /\ ~refused.live
  BY <1>1 DEF Rows, HandHonest
<1>4. /\ channel' \in Seq(Notes)
      /\ \/ tracker' = [tracker EXCEPT ![t] = [Resting EXCEPT !.pc = "commit", !.next = taken]]
         \/ tracker' = [tracker EXCEPT ![t] = [Resting EXCEPT !.pc = "commit", !.next = refused]]
  <2>1. \/ /\ channel' = Append(channel, note)
           /\ tracker' = [tracker EXCEPT ![t] = [Resting EXCEPT !.pc = "commit", !.next = taken]]
        \/ /\ channel' = channel
           /\ tracker' = [tracker EXCEPT ![t] = [Resting EXCEPT !.pc = "commit", !.next = refused]]
    BY Zenon DEF Post
  <2>2. Append(channel, note) \in Seq(Notes)
    BY <1>1
  <2> QED
    BY <1>1, <2>1, <2>2
<1>5. PICK next \in {taken, refused} :
        tracker' = [tracker EXCEPT ![t] = [Resting EXCEPT !.pc = "commit", !.next = next]]
  BY <1>4
<1> DEFINE hand == [Resting EXCEPT !.pc = "commit", !.next = next]
<1>6. hand \in Hands /\ hand.pc = "commit" /\ hand.next = next
  BY <1>2, <1>5, RestingIsHand DEF Hands
<1>7. tracker' = [tracker EXCEPT ![t] = hand] /\ tracker'[t] = hand
  BY <1>5 DEF FeedInv, Types
<1>8. Honest(next)'
  BY <1>1, <1>3, <1>5 DEF HandHonest, Honest, Sane
<1>9. HandHonest(t)'
  BY <1>6, <1>7, <1>8 DEF HandHonest, Honest, Sane
<1>10. run[0] # "unseen"
  BY <1>1 DEF FeedInv, RootFirst
<1> QED
  BY <1>1, <1>4, <1>6, <1>7, <1>9, <1>10, TrackerKeeps

LEMMA EditKeeps == ASSUME FeedInv, NEW t \in Trackers, Edit(t) PROVE FeedInv'
<1> DEFINE note == tracker[t].note
           row == tracker[t].row
           done == [Resting EXCEPT !.pc = "save", !.next = Edited(t)]
           failed == [Resting EXCEPT !.pc = "save", !.next = Edited(t), !.refused = TRUE]
<1>1. /\ tracker[t] \in Hands /\ channel \in Seq(Notes) /\ note \in Notes /\ row \in Rows
      /\ tracker[t].pc = "edit" /\ UNCHANGED <<run, ledger>>
      /\ HandHonest(t)
  BY DEF Edit, FeedInv, Types, Hands
<1>2. Edited(t) \in Rows /\ Edited(t).delivered /\ Edited(t).exists
      /\ (~Edited(t).live => IsTerminal(note))
  <2>1. (~IsTerminal(note)) \in BOOLEAN
    BY DEF IsTerminal
  <2> QED
    BY <1>1, <2>1 DEF Edited, Rows, HandHonest
<1>3. \A h \in {done, failed} : h \in Hands /\ h.pc = "save" /\ h.next = Edited(t)
  BY <1>2, RestingIsHand DEF Hands
<1>8. PICK hand \in {done, failed} : tracker' = [tracker EXCEPT ![t] = hand]
  BY DEF Edit
<1> HIDE DEF done, failed
<1>4. tracker'[t] = hand
  BY <1>8 DEF FeedInv, Types
<1>5. channel' \in Seq(Notes)
  BY <1>1 DEF Edit
<1>6. HandHonest(t)'
  BY <1>1, <1>2, <1>3, <1>4 DEF HandHonest, Honest, Sane
<1>7. run[0] # "unseen"
  BY <1>1 DEF FeedInv, RootFirst
<1> QED
  BY <1>1, <1>3, <1>5, <1>6, <1>7, <1>8, TrackerKeeps

LEMMA SaveKeeps == ASSUME FeedInv, NEW t \in Trackers, Save(t) PROVE FeedInv'
<1> DEFINE hand == [tracker[t] EXCEPT !.pc = "commit"]
<1>1. /\ tracker[t] \in Hands /\ channel' \in Seq(Notes) /\ tracker[t].pc = "save"
      /\ UNCHANGED <<run, ledger>> /\ HandHonest(t)
  BY DEF Save, FeedInv, Types
<1>2. hand \in Hands /\ hand.pc = "commit" /\ hand.next = tracker[t].next
  BY <1>1 DEF Hands
<1>3. tracker' = [tracker EXCEPT ![t] = hand] /\ tracker'[t] = hand
  BY DEF Save, FeedInv, Types, Hands
<1>4. HandHonest(t)'
  BY <1>1, <1>2, <1>3 DEF HandHonest, Honest, Sane
<1>5. run[0] # "unseen"
  BY <1>1 DEF FeedInv, RootFirst
<1> QED
  BY <1>1, <1>2, <1>3, <1>4, <1>5, TrackerKeeps

LEMMA CommitKeeps == ASSUME FeedInv, NEW t \in Trackers, Commit(t) PROVE FeedInv'
<1>1. /\ tracker[t] \in Hands /\ tracker[t].pc = "commit" /\ HandHonest(t)
      /\ ledger' = tracker[t].next /\ tracker' = [tracker EXCEPT ![t] = Resting]
      /\ UNCHANGED <<run, channel>>
  BY DEF Commit, FeedInv, Types
<1>2. Resting \in Hands /\ Resting.pc = "idle"
  BY RestingIsHand
<1>3. Types'
  BY <1>1, <1>2 DEF FeedInv, Types, Hands
<1>4. RootFirst'
  BY <1>1, <1>2 DEF FeedInv, Types, RootFirst
<1>5. Honest(ledger)'
  BY <1>1 DEF HandHonest, Honest
<1>6. ASSUME NEW u \in Trackers PROVE HandHonest(u)'
  <2>1. CASE u = t
    BY <1>1, <1>2, <2>1 DEF FeedInv, Types, HandHonest
  <2>2. CASE u # t
    BY <1>1, <2>2 DEF FeedInv, Types, HandHonest, Honest
  <2> QED
    BY <2>1, <2>2
<1> QED
  BY <1>3, <1>4, <1>5, <1>6 DEF FeedInv

LEMMA KillKeeps == ASSUME FeedInv, NEW t \in Trackers, Kill(t) PROVE FeedInv'
<1>1. /\ tracker' = [tracker EXCEPT ![t] = Resting] /\ UNCHANGED <<run, ledger>>
      /\ channel' \in Seq(Notes)
  BY DEF Kill, FeedInv, Types
<1>2. Resting \in Hands /\ Resting.pc = "idle"
  BY RestingIsHand
<1>3. HandHonest(t)'
  BY <1>1, <1>2 DEF FeedInv, Types, HandHonest
<1> QED
  BY <1>1, <1>2, <1>3, TrackerKeeps

(* The inductive invariant: what a tracker saw as over when it looked is over, *)
(* in its hands and in the ledger, however many others wrote in between.       *)
THEOREM FeedInvariant == ASSUME RootReports PROVE Spec => []FeedInv
<1>1. Init => FeedInv
  BY FeedStarts
<1>2. ASSUME FeedInv, [Next]_vars PROVE FeedInv'
  <2>1. ASSUME NEW r \in Runs, Begin(r) \/ \E state \in Outcomes : Finish(r, state)
        PROVE  FeedInv'
    BY <1>2, <2>1, PipelineKeeps
  <2>2. CASE FallSilent \/ GrowOld
    BY <1>2, <2>2 DEF FallSilent, GrowOld, FeedInv, Types, RootFirst, Honest, HandHonest
  <2>3. ASSUME NEW t \in Trackers, Look(t) \/ Advance(t) \/ Kill(t)
        PROVE  FeedInv'
    BY <1>2, <2>3, LookKeeps, ClaimKeeps, PostKeeps, EditKeeps, SaveKeeps, CommitKeeps,
       KillKeeps DEF Advance
  <2>4. CASE UNCHANGED vars
    BY <1>2, <2>4 DEF vars, FeedInv, Types, RootFirst, Honest, HandHonest
  <2> QED
    BY <1>2, <2>1, <2>2, <2>3, <2>4 DEF Next
<1> QED
  BY <1>1, <1>2, PTL DEF Spec

(* No message is frozen while its pipeline still runs, though trackers overlap, *)
(* are refused, die, and write back a row they read long before.               *)
THEOREM AlwaysClosedIsOver == ASSUME RootReports PROVE Spec => []ClosedIsOver
<1>1. ASSUME FeedInv PROVE ClosedIsOver
  BY <1>1 DEF FeedInv, Honest, ClosedIsOver, Over
<1> QED
  BY <1>1, FeedInvariant, PTL
=============================================================================
