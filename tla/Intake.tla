------------------------------- MODULE Intake -------------------------------
(***************************************************************************)
(* What the gateway promises its producers about events (queue.py and api.py *)
(* docstrings): a submitted event is answered at once, accepted or shed; it  *)
(* is shed only under saturation; accepting is bounded; whatever was         *)
(* accepted is written or counted as failed, exactly once; and a gateway     *)
(* that shuts down does so with nothing left over.                           *)
(***************************************************************************)
EXTENDS Integers, FiniteSets

CONSTANTS
  Events,     \* the payloads producers submit, each once
  Capacity,   \* accepted events that may wait before shedding is allowed
  Hands       \* accepted events beyond Capacity that may be in progress

VARIABLES
  phase,      \* "down", "serving" or "draining"
  pending,    \* accepted, not settled
  settled,    \* ingested or failed
  shed        \* refused

ivars == <<phase, pending, settled, shed>>

Init ==
  /\ phase = "down"
  /\ pending = {}
  /\ settled = {}
  /\ shed = {}

Fresh == Events \ (pending \cup settled \cup shed)

Open == phase = "down" /\ phase' = "serving" /\ UNCHANGED <<pending, settled, shed>>

Accept(e) ==
  /\ phase = "serving"
  /\ e \in Fresh
  /\ Cardinality(pending) < Capacity + Hands
  /\ pending' = pending \cup {e}
  /\ UNCHANGED <<phase, settled, shed>>

Shed(e) ==
  /\ phase = "serving"
  /\ e \in Fresh
  /\ Cardinality(pending) >= Capacity
  /\ shed' = shed \cup {e}
  /\ UNCHANGED <<phase, pending, settled>>

Settle(e) ==
  /\ e \in pending
  /\ pending' = pending \ {e}
  /\ settled' = settled \cup {e}
  /\ UNCHANGED <<phase, shed>>

Drain == phase = "serving" /\ phase' = "draining" /\ UNCHANGED <<pending, settled, shed>>

Close ==
  /\ phase = "draining"
  /\ pending = {}
  /\ phase' = "down"
  /\ UNCHANGED <<pending, settled, shed>>

Next ==
  \/ Open \/ Drain \/ Close
  \/ \E e \in Events : Accept(e) \/ Shed(e) \/ Settle(e)

\* Accepted work is finished and a shutdown once begun ends; nobody has to
\* submit, start or stop anything.
Fairness ==
  /\ \A e \in Events : WF_ivars(Settle(e))
  /\ WF_ivars(Close)

Safety == Init /\ [][Next]_ivars
Spec == Safety /\ Fairness

=============================================================================
