----------------------------- MODULE SchemaDrift -----------------------------
(***************************************************************************)
(* The schema monitor (checks._judge_schema).  Several producers report the   *)
(* columns of one table, each with type names of its own, and an evaluation   *)
(* compares the newest observation with the last one of the same producer.    *)
(***************************************************************************)
EXTENDS Integers, Sequences, FiniteSets

CONSTANTS
  Columns,
  Reporters,
  MaxSeen,    \* bound on the observations
  MaxChanges  \* bound on the changes to the table

VARIABLES
  table,    \* external: the columns the table has
  seen,     \* the monitor's points: who reported which columns and types
  verdict,
  noticed,  \* history: columns some breach named
  pending,  \* history: observations since the last evaluation
  prompt,   \* history: every observation was evaluated before the next
  changes,
  dropped   \* history: a column was dropped

vars == <<table, seen, verdict, noticed, pending, prompt, changes, dropped>>

Init ==
  /\ table = Columns /\ seen = <<>> /\ verdict = "insufficient_data"
  /\ noticed = {} /\ pending = 0 /\ prompt = TRUE /\ changes = 0 /\ dropped = FALSE

\* External: a migration of the table.
Alter ==
  /\ changes < MaxChanges
  /\ \E c \in Columns :
       /\ table' = IF c \in table THEN table \ {c} ELSE table \union {c}
       /\ dropped' = (dropped \/ c \in table)
  /\ changes' = changes + 1
  /\ UNCHANGED <<seen, verdict, noticed, pending, prompt>>

\* A write, or a poll: each producer spells types its own way, and no schema
\* at all makes no observation.
Observe(r) ==
  /\ Len(seen) < MaxSeen /\ table # {}
  /\ seen' = Append(seen, [reporter |-> r, columns |-> [c \in table |-> r]])
  /\ pending' = pending + 1
  /\ prompt' = (prompt /\ pending = 0)
  /\ UNCHANGED <<table, verdict, noticed, changes, dropped>>

\* A fault: the comparison is with whoever reported before.
EarlierByAnyone(n) == 1..(n - 1)
EarlierBySame(n) == {i \in 1..(n - 1) : seen[i].reporter = seen[n].reporter}

\* A fault: what was added is taken for what is gone.
RemovedBackwards(before, after) == DOMAIN after \ DOMAIN before
Removed(before, after) == DOMAIN before \ DOMAIN after
Retyped(before, after) ==
  {c \in DOMAIN before \intersect DOMAIN after : before[c] # after[c]}

Evaluate ==
  /\ seen # <<>>
  /\ LET n == Len(seen)
         earlier == EarlierBySame(n)
         before == seen[CHOOSE i \in earlier : \A j \in earlier : j <= i].columns
         breaking == IF earlier = {} THEN {}
                     ELSE Removed(before, seen[n].columns) \union Retyped(before, seen[n].columns)
     IN /\ verdict' = IF breaking = {} THEN "ok" ELSE "breach"
        /\ noticed' = noticed \union breaking
  /\ pending' = 0
  /\ UNCHANGED <<table, seen, prompt, changes, dropped>>

Next == Alter \/ Evaluate \/ \E r \in Reporters : Observe(r)

Spec == Init /\ [][Next]_vars

-----------------------------------------------------------------------------
(* A table nobody dropped a column from never breaches, in whatever order its  *)
(* producers, with their different type names, report it.                      *)
UntouchedIsQuiet == ~dropped => verdict # "breach"

Gone(c) == \E i, j \in DOMAIN seen :
             /\ i < j /\ seen[i].reporter = seen[j].reporter
             /\ c \in DOMAIN seen[i].columns /\ c \notin DOMAIN seen[j].columns

(* Evaluated after every observation, the monitor names every column that a    *)
(* producer reported and then did not, however the producers alternate.        *)
PromptNoticesAll == (prompt /\ pending = 0) => \A c \in Columns : Gone(c) => c \in noticed

(* A change of the table is seen, and a change of who looks at it is not one.   *)
DriftIsSeen == UntouchedIsQuiet /\ PromptNoticesAll

(* checks._judge_schema: "The cost is a real change being noticed one write     *)
(* later when producers alternate": noticed, then, once evaluated.              *)
(* Not so with two observations between checks (README, 5).                 *)
DropIsNoticed == pending = 0 => \A c \in Columns : Gone(c) => c \in noticed
=============================================================================
