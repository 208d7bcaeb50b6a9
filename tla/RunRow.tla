------------------------------- MODULE RunRow -------------------------------
(***************************************************************************)
(* One row of the `runs` table under the upsert of ingest.py (_UPSERT_RUN):  *)
(* how the columns that are not about the tree are merged when the events of *)
(* the run arrive in any order and more than once.  The position columns     *)
(* (parent, root, depth) are the subject of RunTree.                         *)
(*                                                                         *)
(* Delivery is the environment's: a producer's set of events is delivered in *)
(* any order, each any number of times (buffered clients, retries, replay).  *)
(***************************************************************************)
EXTENDS Integers, FiniteSets

CONSTANTS
  Times,          \* event times, positive integers
  Errors,         \* error messages an errorMessage facet may carry
  NoError,        \* no errorMessage facet (SQL null)
  TerminalTypes,  \* the terminal event types this run's producer emits
  MaxDeliveries   \* bound: events ingested in one behaviour

RunRowAssumption ==
  /\ Times \subseteq Nat \ {0}
  /\ NoError \notin Errors
  /\ TerminalTypes \subseteq {"COMPLETE", "FAIL", "ABORT"}
  /\ MaxDeliveries \in Nat

VARIABLES
  row,   \* the columns of the run's row
  seen   \* history: the distinct events delivered so far

vars == <<row, seen>>

-----------------------------------------------------------------------------
(* events.py: event types, states and their rank.                          *)

States == {"UNKNOWN", "RUNNING", "COMPLETED", "FAILED", "ABORTED"}
TerminalStates == {"COMPLETED", "FAILED", "ABORTED"}

NoState == "null"   \* OTHER carries no state
NoTime == 0         \* SQL null in a timestamp column

EventTypes == {"START", "RUNNING", "OTHER"} \cup TerminalTypes

StateOf(type) ==
  CASE type \in {"START", "RUNNING"} -> "RUNNING"
    [] type = "COMPLETE"             -> "COMPLETED"
    [] type = "FAIL"                 -> "FAILED"
    [] type = "ABORT"                -> "ABORTED"
    [] OTHER                         -> NoState

Rank(state) ==
  CASE state = "UNKNOWN" -> 0
    [] state = "RUNNING" -> 1
    [] OTHER             -> 2

Events == [type : EventTypes, at : Times, error : Errors \cup {NoError}]

-----------------------------------------------------------------------------
(* The column merges of the upsert.                                        *)

\* Fault: the last writer wins.
NextStateLastWins(old, new) == IF new # NoState THEN new ELSE old

\* The `case` on runs.state: forward or sideways in rank, never back.
NextState(old, new) ==
  IF new # NoState /\ Rank(old) <= Rank(new) THEN new ELSE old

\* Fault: the last START wins.
LeastLastWins(old, new) == IF new # NoTime THEN new ELSE old

\* SQL least and greatest ignore nulls.
Least(old, new) ==
  IF old = NoTime \/ (new # NoTime /\ new < old) THEN new ELSE old
Greatest(old, new) ==
  IF old = NoTime \/ (new # NoTime /\ new > old) THEN new ELSE old

\* Fault: an event without an error clears the column.
CoalesceClears(new, old) == new

\* coalesce(excluded, runs): the newer value unless it is null.
Coalesce(new, old) == IF new # NoError THEN new ELSE old

Blank ==
  [state |-> "UNKNOWN", started |-> NoTime, ended |-> NoTime,
   error |-> NoError, first |-> NoTime, last |-> NoTime, count |-> 0]

\* The insert branch is the merge into a blank row: coalesce(new_state,
\* 'UNKNOWN'), the bounds as given, event_count 1.
Merge(old, e) ==
  LET new == StateOf(e.type)
  IN [state   |-> NextState(old.state, new),
      started |-> Least(old.started, IF e.type = "START" THEN e.at ELSE NoTime),
      ended   |-> Greatest(old.ended, IF new \in TerminalStates THEN e.at ELSE NoTime),
      error   |-> Coalesce(e.error, old.error),
      first   |-> Least(old.first, e.at),
      last    |-> Greatest(old.last, e.at),
      count   |-> old.count + 1]

Init ==
  /\ row = Blank
  /\ seen = {}

Ingest(e) ==
  /\ row.count < MaxDeliveries
  /\ row' = Merge(row, e)
  /\ seen' = seen \cup {e}

Next == \E e \in Events : Ingest(e)

Spec == Init /\ [][Next]_vars

-----------------------------------------------------------------------------
TypeOK ==
  /\ row \in [state : States, started : Times \cup {NoTime},
              ended : Times \cup {NoTime}, error : Errors \cup {NoError},
              first : Times \cup {NoTime}, last : Times \cup {NoTime},
              count : Nat]
  /\ seen \subseteq Events

EarliestOf(S) ==
  IF S = {} THEN NoTime ELSE CHOOSE t \in S : \A u \in S : t <= u
LatestOf(S) ==
  IF S = {} THEN NoTime ELSE CHOOSE t \in S : \A u \in S : u <= t

TimesOf(S) == {e.at : e \in S}
Terminals == {e \in seen : StateOf(e.type) \in TerminalStates}

(* The time columns depend on which events arrived, not on the order or the  *)
(* number of deliveries: started_at is the earliest START, ended_at the      *)
(* latest terminal event, first/last_event_at the outermost events           *)
(* ("timestamps take the outermost bound seen", ingest.py).                  *)
BoundsAreOutermost ==
  /\ row.started = EarliestOf(TimesOf({e \in seen : e.type = "START"}))
  /\ row.ended = LatestOf(TimesOf(Terminals))
  /\ row.first = EarliestOf(TimesOf(seen))
  /\ row.last = LatestOf(TimesOf(seen))

(* The state reached is the furthest any delivered event reports, whatever   *)
(* the order: a late START never resurrects a finished run, and a run is in  *)
(* a terminal state exactly when a terminal event arrived for it.            *)
StateIsFurthest ==
  /\ \A e \in seen : StateOf(e.type) # NoState
                       => Rank(StateOf(e.type)) <= Rank(row.state)
  /\ row.state # "UNKNOWN" => \E e \in seen : StateOf(e.type) = row.state
  /\ row.state \in TerminalStates <=> row.ended # NoTime

(* The row is what its events say together, in whatever order and however     *)
(* often they come: a late START neither resurrects a run that ended nor moves *)
(* its bounds inwards.                                                        *)
RowIsOrderFree == BoundsAreOutermost /\ StateIsFurthest

(* Nothing already said is unsaid: an error message once reported survives     *)
(* every later event that carries none (coalesce keeps what a richer event     *)
(* told us), and an event already seen leaves the state alone                  *)
(* (test_correlator.py: "ingesting the same event twice changes nothing").  For *)
(* a run that both fails and completes the latter does not hold: states of one *)
(* rank replace each other.                                                    *)
NothingUnsaid ==
  /\ row.error # NoError => row'.error # NoError
  /\ seen' = seen => row'.state = row.state
=============================================================================
