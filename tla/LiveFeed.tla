------------------------------ MODULE LiveFeed ------------------------------
(***************************************************************************)
(* `wishd track` (notify.track): one Slack message for each pipeline          *)
(* execution, edited in place as the pipeline advances.  A ledger row keeps   *)
(* the address of the message, the hash of what it says, and whether it is    *)
(* still open for editing.  Trackers run from cron, each in one transaction,  *)
(* and may overlap; Slack is outside the transaction.                        *)
(*                                                                         *)
(* One execution is modelled, with its root run (0) and its steps.           *)
(***************************************************************************)
EXTENDS Integers, Sequences, FiniteSets

CONSTANTS
  Steps,        \* runs below the root of the execution
  RootReports,  \* whether the root sends events of its own, or is a placeholder
  Trackers,     \* processes that may track at the same time
  Nobody,       \* the ledger row is not locked
  MaxAttempts,  \* MAX_DELIVERY_ATTEMPTS
  Outcomes,     \* how the runs may end
  MaxMishaps    \* bound: posts and edits refused, trackers killed

Ended == {"COMPLETED", "FAILED", "ABORTED"}

ASSUME LiveFeedAssumption ==
  /\ Steps \in Nat /\ MaxAttempts \in Nat \ {0} /\ MaxMishaps \in Nat
  /\ RootReports \in BOOLEAN /\ Outcomes \subseteq Ended

VARIABLES
  run,      \* the state of every run of the execution
  silent,   \* no event has arrived for STALE_AFTER_MINUTES
  ledger,   \* the committed notifications row of the execution
  lock,     \* the tracker that has locked it, or Nobody
  tracker,  \* what each tracker has in its hands
  channel,  \* Slack: what each message posted so far says
  age,      \* since the row was made: past RETRY_WINDOW_HOURS, past TRACK_FOR_HOURS
  mishaps,
  crossed,  \* history: two trackers had an edit under way at the same time
  frozen    \* history: a row was closed with the edit that Slack refused

vars == <<run, silent, ledger, lock, tracker, channel, age, mishaps, crossed, frozen>>

Runs == 0..Steps
NoRow == [exists |-> FALSE, attempts |-> 0, delivered |-> FALSE, live |-> FALSE,
          ts |-> 0, hash |-> <<>>]
Resting == [pc |-> "idle", row |-> NoRow, note |-> <<>>, next |-> NoRow,
            late |-> FALSE, refused |-> FALSE]

Init ==
  /\ run = [r \in Runs |-> IF r = 0 /\ ~RootReports THEN "UNKNOWN" ELSE "unseen"]
  /\ silent = FALSE
  /\ ledger = NoRow
  /\ lock = Nobody
  /\ tracker = [t \in Trackers |-> Resting]
  /\ channel = <<>>
  /\ age = "young"
  /\ mishaps = 0
  /\ crossed = FALSE /\ frozen = FALSE

-----------------------------------------------------------------------------
(* What the feed says of the execution (live_pipelines, _pipeline_notification). *)
Count(states) == Cardinality({r \in Runs : run[r] \in states})

Status ==
  IF Count({"RUNNING"}) > 0 THEN IF silent THEN "stalled" ELSE "running"
  ELSE IF Count({"FAILED"}) > 0 THEN "failed" ELSE "completed"

\* The content, and so the hash: no elapsed time is in it.
Note == <<Status, Count(Ended), Count({"UNKNOWN", "RUNNING"} \union Ended),
          Count({"FAILED"})>>

\* A fault: a stalled pipeline is taken to be over.
TerminalWhenStalled(note) == note[1] # "running"

\* A stalled pipeline may still report and finish.
IsTerminal(note) == note[1] \in {"completed", "failed"}

\* pipeline_feed: in flight, ended lately, or with a message open.
InFeed(open) == open \/ Count({"RUNNING"}) > 0 \/ run[0] \in Ended

-----------------------------------------------------------------------------
(* The pipeline, as ingest records it.                                        *)
Over ==
  IF RootReports THEN run[0] \in Ended
  ELSE \A r \in Runs \ {0} : run[r] \in Ended

Begin(r) ==
  /\ run[r] = "unseen"
  /\ RootReports => (IF r = 0 THEN TRUE ELSE run[0] = "RUNNING")
  /\ run' = [run EXCEPT ![r] = "RUNNING"]
  /\ silent' = FALSE
  /\ UNCHANGED <<ledger, lock, tracker, channel, age, mishaps, crossed, frozen>>

Finish(r, state) ==
  /\ run[r] = "RUNNING"
  /\ r = 0 => \A k \in Runs : k # 0 => run[k] # "RUNNING"
  /\ run' = [run EXCEPT ![r] = state]
  /\ silent' = FALSE
  /\ UNCHANGED <<ledger, lock, tracker, channel, age, mishaps, crossed, frozen>>

FallSilent ==
  /\ Count({"RUNNING"}) > 0
  /\ silent' = TRUE
  /\ UNCHANGED <<run, ledger, lock, tracker, channel, age, mishaps, crossed, frozen>>

-----------------------------------------------------------------------------
\* Hours pass.  One limit is about rows not delivered, the other about open ones.
GrowOld ==
  /\ \/ age = "young" /\ ledger.exists /\ ~ledger.delivered /\ age' = "late"
     \/ age # "gone" /\ ledger.live /\ age' = "gone"
  /\ UNCHANGED <<run, silent, ledger, lock, tracker, channel, mishaps, crossed, frozen>>

\* open_messages: what was posted too long ago is not looked at again.
Open == ledger.live /\ age # "gone"

\* open_messages and pipeline_feed, at the start of a tracker: what it will do.
\* A message that says all there is to say is left alone.
Look(t) ==
  /\ tracker[t].pc = "idle"
  /\ InFeed(Open)
  /\ \/ /\ ~Open
        /\ tracker' = [tracker EXCEPT ![t] =
             [Resting EXCEPT !.pc = "claim", !.note = Note, !.late = age # "young"]]
     \/ /\ Open /\ ledger.hash # Note
        /\ tracker' = [tracker EXCEPT ![t] =
             [Resting EXCEPT !.pc = "edit", !.note = Note, !.row = ledger]]
     \/ /\ Open /\ ledger.hash = Note /\ IsTerminal(Note)
        /\ tracker' = [tracker EXCEPT ![t] =
             [Resting EXCEPT !.pc = "save", !.next = [ledger EXCEPT !.live = FALSE]]]
  /\ UNCHANGED <<run, silent, ledger, lock, channel, age, mishaps, crossed, frozen>>

\* claim: the row is new, or undelivered, recent and with tries left.
Claimable(t) ==
  \/ ~ledger.exists
  \/ ~ledger.delivered /\ ledger.attempts < MaxAttempts /\ ~tracker[t].late

Claim(t) ==
  /\ tracker[t].pc = "claim"
  /\ lock = Nobody
  /\ lock' = t
  /\ tracker' = [tracker EXCEPT ![t].pc = IF Claimable(t) THEN "post" ELSE "commit",
                  ![t].next = IF Claimable(t)
                     THEN [ledger EXCEPT !.exists = TRUE, !.attempts = ledger.attempts + 1]
                     ELSE ledger]
  /\ UNCHANGED <<run, silent, ledger, channel, age, mishaps, crossed, frozen>>

Mishap == mishaps < MaxMishaps /\ mishaps' = mishaps + 1

\* slack.deliver, then _open_message.
Post(t) ==
  LET note == tracker[t].note
  IN /\ tracker[t].pc = "post"
     /\ \/ /\ channel' = Append(channel, note)
           /\ tracker' = [tracker EXCEPT ![t] = [Resting EXCEPT !.pc = "commit", !.next =
                [tracker[t].next EXCEPT !.ts = Len(channel) + 1, !.delivered = TRUE,
                                        !.live = ~IsTerminal(note), !.hash = note]]]
           /\ UNCHANGED mishaps
        \/ /\ Mishap
           /\ tracker' = [tracker EXCEPT ![t] = [Resting EXCEPT !.pc = "commit",
                !.next = [tracker[t].next EXCEPT !.hash = note]]]
           /\ UNCHANGED channel
     /\ UNCHANGED <<run, silent, ledger, lock, age, crossed, frozen>>

\* A fault: whether to close is asked of the pipeline as it is by then, not of
\* the note that was sent.
EditedByNow(t) ==
  [tracker[t].row EXCEPT !.live = ~IsTerminal(Note), !.hash = tracker[t].note]

\* _edit_message: the same, whether Slack took the edit or not.
Edited(t) ==
  [tracker[t].row EXCEPT !.live = ~IsTerminal(tracker[t].note),
                         !.hash = tracker[t].note]

\* slack.update.
Edit(t) ==
  LET note == tracker[t].note
  IN /\ tracker[t].pc = "edit"
     /\ \/ /\ channel' = [channel EXCEPT ![tracker[t].row.ts] = note]
           /\ tracker' = [tracker EXCEPT ![t] = [Resting EXCEPT !.pc = "save", !.next = Edited(t)]]
           /\ UNCHANGED mishaps
        \/ /\ Mishap
           /\ tracker' = [tracker EXCEPT ![t] = [Resting EXCEPT !.pc = "save", !.next = Edited(t),
                                                              !.refused = TRUE]]
           /\ UNCHANGED channel
     /\ crossed' = (crossed \/ \E u \in Trackers \ {t} : tracker[u].pc \in {"edit", "save"})
     /\ UNCHANGED <<run, silent, ledger, lock, age, frozen>>

\* The update of the row waits for whoever has it locked.
Save(t) ==
  /\ tracker[t].pc = "save"
  /\ lock = Nobody
  /\ lock' = t
  /\ tracker' = [tracker EXCEPT ![t].pc = "commit"]
  /\ UNCHANGED <<run, silent, ledger, channel, age, mishaps, crossed, frozen>>

Commit(t) ==
  /\ tracker[t].pc = "commit"
  /\ ledger' = tracker[t].next
  /\ lock' = Nobody
  /\ tracker' = [tracker EXCEPT ![t] = Resting]
  /\ frozen' = (frozen \/ (tracker[t].refused /\ ~tracker[t].next.live))
  /\ UNCHANGED <<run, silent, channel, age, mishaps, crossed>>

Kill(t) ==
  /\ tracker[t].pc # "idle"
  /\ Mishap
  /\ lock' = IF lock = t THEN Nobody ELSE lock
  /\ tracker' = [tracker EXCEPT ![t] = Resting]
  /\ UNCHANGED <<run, silent, ledger, channel, age, crossed, frozen>>

Advance(t) == Claim(t) \/ Post(t) \/ Edit(t) \/ Save(t) \/ Commit(t)

Next ==
  \/ \E r \in Runs : Begin(r) \/ \E state \in Outcomes : Finish(r, state)
  \/ FallSilent \/ GrowOld
  \/ \E t \in Trackers : Look(t) \/ Advance(t) \/ Kill(t)

\* Cron starts trackers again and again, and each runs on to its commit.
Fairness == \A t \in Trackers : WF_vars(Look(t)) /\ SF_vars(Advance(t))

Spec == Init /\ [][Next]_vars
FairSpec == Spec /\ Fairness

-----------------------------------------------------------------------------
TypeOK ==
  /\ run \in [Runs -> {"unseen", "UNKNOWN", "RUNNING"} \union Ended]
  /\ lock \in Trackers \union {Nobody}
  /\ ledger.ts \in 0..Len(channel) /\ ledger.attempts \in 0..MaxAttempts
  /\ mishaps \in 0..MaxMishaps

(* A message is closed for editing only when its pipeline is over: notify.py, *)
(* "the cost of closing early is a message frozen mid-run forever".  Needs a   *)
(* root that reports, since a placeholder is not RUNNING between two steps.    *)
ClosedIsOver == (ledger.delivered /\ ~ledger.live) => Over

(* With every death, overlap short of two edits in flight at once, and refusal *)
(* of other edits than the one that would have closed it, the message of a     *)
(* pipeline that is over comes to say how it ended, while it is young enough   *)
(* to be looked at.                                                           *)
FeedSettles ==
  (Over /\ Open) ~>
    (crossed \/ frozen \/ age = "gone" \/ (ledger.ts # 0 /\ channel[ledger.ts] = Note))

(* notify.track, on a refused edit: "A failed edit stays live so the next      *)
(* sweep tries again".  Not so of the last one (README, 5).                  *)
FailedEditStaysLive == \A t \in Trackers : tracker[t].refused => tracker[t].next.live
=============================================================================
