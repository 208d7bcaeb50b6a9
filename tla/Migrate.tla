------------------------------- MODULE Migrate -------------------------------
(***************************************************************************)
(* db.migrate: replicas that start together apply the numbered migrations,   *)
(* each in a transaction of its own, under an advisory lock of the session.   *)
(* A replica may carry fewer files, or a file that was edited since.          *)
(***************************************************************************)
EXTENDS Integers, FiniteSets

CONSTANTS
  Replicas,   \* processes that migrate
  Versions,   \* migrations, in filename order: 1..Versions
  Files,      \* what each replica has on disk: its versions and their texts
  Unlocked,   \* no replica
  NoText,     \* applied before checksums existed
  MaxCrashes  \* bound

MigrateAssumption ==
  /\ Versions \in Nat \ {0}
  /\ Unlocked \notin Replicas
  /\ \A p \in Replicas : DOMAIN Files[p] \subseteq 1..Versions
  /\ \A p \in Replicas : \A v \in DOMAIN Files[p] : Files[p][v] # NoText

VARIABLES
  advisory,  \* who holds pg_advisory_lock
  recorded,  \* schema_migrations: version and checksum
  stage,     \* where each replica is
  done,      \* the rows it read
  current,   \* the file it is at
  crashes

vars == <<advisory, recorded, stage, done, current, crashes>>

Init ==
  /\ advisory = Unlocked
  /\ recorded \in {<<>>, [v \in {1} |-> NoText]}
  /\ stage = [p \in Replicas |-> "start"]
  /\ done = [p \in Replicas |-> <<>>]
  /\ current = [p \in Replicas |-> 1]
  /\ crashes = 0

\* A fault: the table is read and then the work is done, with no lock.
LockedByAnyone == TRUE
LockFree == advisory = Unlocked

Lock(p) ==
  /\ stage[p] = "start"
  /\ LockFree
  /\ advisory' = p
  /\ stage' = [stage EXCEPT ![p] = "locked"]
  /\ UNCHANGED <<recorded, done, current, crashes>>

\* The read comes after the lock, so it cannot be stale.
Read(p) ==
  /\ stage[p] = "locked"
  /\ done' = [done EXCEPT ![p] = recorded]
  /\ current' = [current EXCEPT ![p] = 1]
  /\ stage' = [stage EXCEPT ![p] = "applying"]
  /\ UNCHANGED <<advisory, recorded, crashes>>

With(v, text) == [w \in DOMAIN recorded \union {v} |-> IF w = v THEN text ELSE recorded[w]]

\* A fault: an edited file is passed over in silence.
DriftIgnored(p, v) == FALSE
Drifted(p, v) ==
  v \in DOMAIN Files[p] /\ done[p][v] # NoText /\ done[p][v] # Files[p][v]

\* One turn of the loop over the files.
Apply(p) ==
  LET v == current[p]
      mine == v \in DOMAIN Files[p]
      known == v \in DOMAIN done[p]
  IN /\ stage[p] = "applying"
     /\ v <= Versions
     /\ \/ /\ mine /\ known /\ Drifted(p, v)
           /\ stage' = [stage EXCEPT ![p] = "refused"]
           /\ advisory' = Unlocked
           /\ UNCHANGED <<recorded, current>>
        \/ /\ ~mine \/ (known /\ ~Drifted(p, v))
           /\ recorded' = IF mine /\ done[p][v] = NoText THEN With(v, Files[p][v])
                          ELSE recorded
           /\ current' = [current EXCEPT ![p] = v + 1]
           /\ UNCHANGED <<stage, advisory>>
        \/ /\ mine /\ ~known
           \* The version is the primary key: a second insert raises, and
           \* takes its migration back with it.
           /\ LET taken == v \in DOMAIN recorded
              IN /\ recorded' = IF taken THEN recorded ELSE With(v, Files[p][v])
                 /\ stage' = IF taken THEN [stage EXCEPT ![p] = "collided"] ELSE stage
                 /\ advisory' = IF taken THEN Unlocked ELSE advisory
                 /\ current' = IF taken THEN current ELSE [current EXCEPT ![p] = v + 1]
     /\ UNCHANGED <<done, crashes>>

Unlock(p) ==
  /\ stage[p] = "applying"
  /\ current[p] = Versions + 1
  /\ stage' = [stage EXCEPT ![p] = "serving"]
  /\ advisory' = Unlocked
  /\ UNCHANGED <<recorded, done, current, crashes>>

\* A statement fails or the process dies: the transaction rolls back, the
\* session closes and its lock is gone; the replica is started again.
Crash(p) ==
  /\ stage[p] \in {"locked", "applying"}
  /\ crashes < MaxCrashes
  /\ crashes' = crashes + 1
  /\ stage' = [stage EXCEPT ![p] = "start"]
  /\ advisory' = Unlocked
  /\ UNCHANGED <<recorded, done, current>>

Next == \E p \in Replicas : Lock(p) \/ Read(p) \/ Apply(p) \/ Unlock(p) \/ Crash(p)

Spec == Init /\ [][Next]_vars

-----------------------------------------------------------------------------
TypeOK ==
  /\ advisory \in Replicas \union {Unlocked}
  /\ DOMAIN recorded \subseteq 1..Versions
  /\ stage \in [Replicas -> {"start", "locked", "applying", "serving", "refused", "collided"}]
  /\ crashes \in 0..MaxCrashes

(* Replicas that start together never run the same migration: whoever waited  *)
(* for the lock finds it done.  Nor does one that dies halfway leave work that *)
(* the next would repeat.                                                      *)
NobodyCollides == \A p \in Replicas : stage[p] # "collided"

(* A replica serves only on a database that holds every migration it carries, *)
(* with the text it carries.                                                  *)
ServesItsSchema ==
  \A p \in Replicas : stage[p] = "serving" =>
    \A v \in DOMAIN Files[p] : v \in DOMAIN recorded /\ recorded[v] = Files[p][v]

(* Replicas that migrate together leave one schema, each file run once, and    *)
(* serve on nothing else.                                                     *)
MigratedOnce == NobodyCollides /\ ServesItsSchema
=============================================================================
