------------------------------ MODULE Polling ------------------------------
(***************************************************************************)
(* Tables that nobody sends events for (sources.py): what a Delta log and an  *)
(* Iceberg metadata file say of a table that others write, read by            *)
(* `wishd poll` and kept under the time the table itself gives.               *)
(***************************************************************************)
EXTENDS Integers, Sequences, FiniteSets

CONSTANTS
  Files,      \* that a Delta table can have; each has one row
  Schemas,
  Limit,      \* retained Iceberg snapshots a poll reads
  MaxWrites, MaxPolls

VARIABLES
  now,
  delta,     \* _delta_log: sequence of [add, remove, at]
  iceberg,   \* snapshots: sequence of [id, at, rows]
  current,   \* current-snapshot-id
  schema,    \* of the Iceberg table now
  stored,    \* dataset_snapshots: <<source, observed_at>> to [rows, columns]
  polls,
  ruled,     \* history: <<snapshot, schema>> that were current together
  fresh      \* history: nothing was written since the last poll

vars == <<now, delta, iceberg, current, schema, stored, polls, ruled, fresh>>
None == 0

Init ==
  /\ now = 1 /\ delta = <<>> /\ iceberg = <<>> /\ current = None
  /\ schema \in Schemas
  /\ stored = <<>> /\ polls = 0 /\ ruled = {} /\ fresh = FALSE

-----------------------------------------------------------------------------
(* The tables, as their writers change them.                                 *)
Held(files, commit) == (files \ commit.remove) \union commit.add
InTable ==
  LET held[n \in 0..Len(delta)] == IF n = 0 THEN {} ELSE Held(held[n - 1], delta[n])
  IN held[Len(delta)]

Elsewhen == now' = now + 1 /\ now < MaxWrites + 1 /\ fresh' = FALSE
Commit(add, remove) ==
  /\ Elsewhen
  /\ delta' = Append(delta, [add |-> add, remove |-> remove, at |-> now])
  /\ UNCHANGED <<iceberg, current, schema, stored, polls, ruled>>

\* Files of one row each. A compaction puts what was in some of them in others.
WriteDelta ==
  \/ \E f \in Files \ InTable : Commit({f}, {})
  \/ \E f \in InTable : Commit({}, {f})
  \/ \E f \in InTable, g \in Files \ InTable : Commit({g}, {f})

WriteIceberg ==
  /\ Elsewhen
  /\ \E rows \in 0..1 :
       /\ iceberg' = Append(iceberg, [id |-> now, at |-> now, rows |-> rows])
       /\ current' = now /\ ruled' = ruled \union {<<now, schema>>}
  /\ UNCHANGED <<delta, schema, stored, polls>>

\* To an earlier snapshot; the abandoned ones stay in the list.
Rollback ==
  /\ Elsewhen
  /\ \E k \in DOMAIN iceberg : /\ iceberg[k].id < current /\ current' = iceberg[k].id
                               /\ ruled' = ruled \union {<<iceberg[k].id, schema>>}
  /\ UNCHANGED <<delta, iceberg, schema, stored, polls>>

\* Metadata alone: the snapshot stays.
AlterTable ==
  /\ Elsewhen
  /\ \E s \in Schemas \ {schema} : schema' = s /\ ruled' = ruled \union {<<current, s>>}
  /\ UNCHANGED <<delta, iceberg, current, stored, polls>>

\* Snapshots expire, but for the current one.
Expire ==
  /\ Elsewhen /\ Len(iceberg) > 1 /\ Head(iceberg).id # current
  /\ iceberg' = Tail(iceberg)
  /\ UNCHANGED <<delta, current, schema, stored, polls, ruled>>

-----------------------------------------------------------------------------
\* A fault: what was removed is counted too.
ReadDeltaAdds == UNION {delta[k].add : k \in DOMAIN delta}
\* read_delta_log: replays what was added and removed; nothing of a table without files.
ReadDelta == InTable
DeltaTime == LET adds == {k \in DOMAIN delta : delta[k].add # {}}
             IN delta[CHOOSE k \in adds : \A j \in adds : j <= k].at
DeltaSnapshots ==
  [key \in IF ReadDelta = {} THEN {} ELSE {<<"delta", DeltaTime>>} |->
     [rows |-> Cardinality(ReadDelta), columns |-> None]]

\* A fault: a snapshot is observed when it is read.
WhenRead(snapshot) == now
WhenWritten(snapshot) == snapshot.at

\* A fault: today's columns for all of them.
ColumnsOfToday(snapshot) == schema
\* The file does not say which schema an older snapshot had.
ColumnsOf(snapshot) == IF snapshot.id = current THEN schema ELSE None

\* read_iceberg_history: the newest of those retained.
Retained == {iceberg[k] : k \in {j \in DOMAIN iceberg : j > Len(iceberg) - Limit}}
IcebergSnapshots(read) ==
  LET at(t) == {s \in read : WhenWritten(s) = t}
  IN [key \in {<<"iceberg", WhenWritten(s)>> : s \in read} |->
        LET s == CHOOSE x \in at(key[2]) : \A y \in at(key[2]) : y.id <= x.id
        IN [rows |-> s.rows, columns |-> ColumnsOf(s)]]
\* read_iceberg_metadata: the current one.
Current == {iceberg[k] : k \in {j \in DOMAIN iceberg : iceberg[j].id = current}}

\* What a poll of both tables returns.
Snapshots(read) ==
  LET history == IcebergSnapshots(read)
  IN [key \in DOMAIN DeltaSnapshots \union DOMAIN history |->
        IF key \in DOMAIN history THEN history[key] ELSE DeltaSnapshots[key]]

\* store_snapshots: upserted under source and time; what is not said stays.
Coalesced(new, old) == IF new = None THEN old ELSE new
Upserted(new) ==
  [key \in DOMAIN stored \union DOMAIN new |->
     IF key \notin DOMAIN new THEN stored[key]
     ELSE IF key \notin DOMAIN stored THEN new[key]
     ELSE [rows |-> new[key].rows,
           columns |-> Coalesced(new[key].columns, stored[key].columns)]]

Poll ==
  /\ polls < MaxPolls /\ polls' = polls + 1
  /\ \E read \in {Retained, Current} :
       stored' = Upserted(Snapshots(read))
  /\ fresh' = TRUE
  /\ UNCHANGED <<now, delta, iceberg, current, schema, ruled>>

Next == WriteDelta \/ WriteIceberg \/ Rollback \/ AlterTable \/ Expire \/ Poll

Spec == Init /\ [][Next]_vars

-----------------------------------------------------------------------------
Latest(source) ==
  LET times == {k[2] : k \in {j \in DOMAIN stored : j[1] = source}}
  IN CHOOSE t \in times : \A u \in times : u <= t

(* After a poll the newest observation of a Delta table counts what is in it,  *)
(* whatever was deleted and compacted, unless the table is empty.              *)
DeltaIsCounted ==
  (fresh /\ InTable # {}) => stored[<<"delta", Latest("delta")>>].rows = Cardinality(InTable)

(* What is stored of an Iceberg table is its history: each observation is under *)
(* the time of a write, however often and late the table is polled.           *)
ObservedWhenWritten ==
  \A key \in DOMAIN stored : key[1] = "iceberg" => \E p \in ruled : p[1] = key[2]

(* No write is given columns that the table did not have while that write was  *)
(* the current one, which would show a drift that never happened.              *)
ColumnsOfItsTime ==
  \A key \in DOMAIN stored :
    (key[1] = "iceberg" /\ stored[key].columns # None) => <<key[2], stored[key].columns>> \in ruled

(* What is stored of a table is what it was at each write.                     *)
ObservedAsWritten == DeltaIsCounted /\ ObservedWhenWritten /\ ColumnsOfItsTime

(* sources.py of a rolled-back table: "taking the latest would report data that *)
(* is no longer in the table": the newest observation is the current snapshot. *)
(* Not so of a history, which has the abandoned snapshots (README, 5).      *)
LatestIsCurrent ==
  (fresh /\ current # None) => Latest("iceberg") = current

(* A table that was emptied shows as empty.                                   *)
(* Not so: a log without files gives no observation (README, 5).            *)
EmptyIsSeen ==
  (fresh /\ delta # <<>> /\ InTable = {}) =>
    \A key \in DOMAIN stored : key[1] = "delta" => stored[key].rows = 0
=============================================================================
