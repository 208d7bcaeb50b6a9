---------------------------- MODULE MonitorFiles ----------------------------
(***************************************************************************)
(* Monitors declared in YAML files and reconciled into the database            *)
(* (monitors.py, catalog.py, `wishd apply`).  A file is applied alone or with  *)
(* its whole directory; a monitor is disabled, or with --prune deleted, when   *)
(* the file it came from was applied without it.  New and changed monitors are *)
(* armed in a second transaction.                                             *)
(***************************************************************************)
EXTENDS Integers, Sequences, FiniteSets, SequencesExt

CONSTANTS
  Order,     \* the files of the directory, in sorted order
  Monitors,
  VersionsOf, \* what each monitor's definition can be
  Off,       \* those that say `enabled: false`
  MaxEdits,  \* bound: edits of files
  Nothing

Files == Range(Order)

VARIABLES
  repo,     \* each file: how it reads, its monitors, and whether it names an owner
  db,       \* monitors: name to source, version and enabled
  owner,    \* dataset_annotations: the file that the table's owner came from
  armed,    \* monitors with history, and of which version
  todo,     \* monitors that the apply in progress has still to arm
  edits,
  synced,   \* history: the directory was applied last and nothing edited since
  home,     \* history: the file that last declared each monitor, as applied
  cut       \* history: monitors whose arming was cut off, or not asked for

vars == <<repo, db, owner, armed, todo, edits, synced, home, cut>>

Versions == UNION {VersionsOf[m] : m \in Monitors}
Specs == UNION {{s \in [S -> Versions] : \A m \in S : s[m] \in VersionsOf[m]}
                : S \in SUBSET Monitors}
\* "other" is YAML without `monitors:`; "broken" is refused by parse_spec, and
\* "misannotated" by parse_annotations alone.
Readings == {"absent", "other", "broken", "misannotated", "monitors"}
Blank == [reads |-> "absent", specs |-> <<>>, owns |-> FALSE]

Init ==
  /\ repo = [f \in Files |-> Blank]
  /\ db = <<>> /\ owner = Nothing
  /\ armed = <<>> /\ todo = {}
  /\ edits = 0 /\ synced = FALSE
  /\ home = <<>> /\ cut = {}

\* External: a commit changes a file.
Edit(f) ==
  /\ edits < MaxEdits /\ todo = {}
  /\ \E reads \in Readings, specs \in Specs, owns \in BOOLEAN :
       /\ reads = "monitors" \/ specs = <<>>
       /\ owns => reads \in {"monitors", "other"}
       /\ repo' = [repo EXCEPT ![f] = [reads |-> reads, specs |-> specs, owns |-> owns]]
  /\ edits' = edits + 1
  /\ synced' = FALSE
  /\ UNCHANGED <<db, owner, armed, todo, home, cut>>

-----------------------------------------------------------------------------
(* load_specs: a path is a set of files, the directory or one of them.        *)
Present(path) == {f \in path : repo[f].reads # "absent"}
\* In a directory, YAML that is not ours is passed over.
Ours(path) == {f \in Present(path) : repo[f].reads # "other" \/ path # Files}
\* parse_spec: strict, and the whole apply is refused.
Malformed(f) == repo[f].reads \in {"broken", "other"}
Duplicated(path) ==
  \E f, g \in Ours(path) : f # g /\ DOMAIN repo[f].specs \intersect DOMAIN repo[g].specs # {}

Loads(path) ==
  /\ Present(path) # {}
  /\ \A f \in Ours(path) : ~Malformed(f)
  /\ ~Duplicated(path)

Declared(path) == UNION {DOMAIN repo[f].specs : f \in Ours(path)}
FileOf(path, m) == CHOOSE f \in Ours(path) : m \in DOMAIN repo[f].specs
\* Only files that declare something count as applied.
Sources(path) == {FileOf(path, m) : m \in Declared(path)}

SpecOf(path, m) == repo[FileOf(path, m)].specs[m]

\* _changed, or created: what is to be armed if it is enabled.
Changed(path) ==
  {m \in Declared(path) :
     m \in DOMAIN db =>
       db[m].version # SpecOf(path, m) \/ db[m].enabled # (SpecOf(path, m) \notin Off)}
\* A fault: only new monitors are armed.
CreatedOnly(path) == Declared(path) \ DOMAIN db
ToArm(path) == Changed(path)

\* A fault: every monitor that is not in these files is stale.
StaleEverywhere(path) == DOMAIN db \ Declared(path)
\* Scoped: applied from these files before, and now absent from them.
Stale(path) == {m \in DOMAIN db : db[m].source \in Sources(path)} \ Declared(path)

\* A fault: the upsert leaves `enabled` as it was.
UpsertedAsItWas(path, m) ==
  [source |-> FileOf(path, m), version |-> SpecOf(path, m),
   enabled |-> m \in DOMAIN db => db[m].enabled]

Upserted(path, m) ==
  [source |-> FileOf(path, m), version |-> SpecOf(path, m),
   enabled |-> SpecOf(path, m) \notin Off]

\* apply_specs.
Reconciled(path, prune) ==
  [m \in (DOMAIN db \union Declared(path)) \ (IF prune THEN Stale(path) ELSE {}) |->
     IF m \in Declared(path) THEN Upserted(path, m)
     ELSE [db[m] EXCEPT !.enabled = @ /\ m \notin Stale(path)]]

\* _load_annotations reads every file of the path, and the last one stands.
Annotating(path) == {f \in Present(path) : repo[f].owns}
Place(f) == CHOOSE i \in DOMAIN Order : Order[i] = f
Annotated(path) ==
  IF Annotating(path) = {} THEN owner
  ELSE CHOOSE f \in Annotating(path) : \A g \in Annotating(path) : Place(g) <= Place(f)

\* One transaction: an annotation that does not parse takes it all back.  With
\* --no-backfill nothing is armed.
Apply(path, prune, backfill) ==
  /\ todo = {}
  /\ Loads(path)
  /\ \A f \in Present(path) : repo[f].reads # "misannotated"
  /\ db' = Reconciled(path, prune)
  /\ owner' = Annotated(path)
  /\ todo' = IF backfill THEN ToArm(path) ELSE {}
  /\ synced' = (path = Files)
  /\ home' = [m \in DOMAIN home \union Declared(path) |->
               IF m \in Declared(path) THEN FileOf(path, m) ELSE home[m]]
  /\ armed' = [m \in DOMAIN armed \ (IF prune THEN Stale(path) ELSE {}) |-> armed[m]]
  /\ cut' = IF backfill THEN cut \ ToArm(path) ELSE cut \union ToArm(path)
  /\ UNCHANGED <<repo, edits>>

Enabled == {m \in DOMAIN db : db[m].enabled}

\* The second transaction: evaluate the enabled ones over the whole archive.
Arm ==
  /\ todo # {}
  /\ armed' = [m \in DOMAIN armed \union (todo \intersect Enabled) |->
                IF m \in todo \intersect Enabled THEN db[m].version ELSE armed[m]]
  /\ todo' = {}
  /\ UNCHANGED <<repo, db, owner, edits, synced, home, cut>>

\* The process is killed in between, or one of its statements fails.
Interrupt ==
  /\ todo # {}
  /\ cut' = cut \union todo
  /\ todo' = {}
  /\ UNCHANGED <<repo, db, owner, armed, edits, synced, home>>

Next ==
  \/ \E f \in Files : Edit(f)
  \/ \E path \in {Files} \union {{f} : f \in Files}, prune, backfill \in BOOLEAN :
       Apply(path, prune, backfill)
  \/ Arm \/ Interrupt

Spec == Init /\ [][Next]_vars

-----------------------------------------------------------------------------
Emptied(f) == repo[f].specs = <<>>
Wanted == {m \in Declared(Files) : SpecOf(Files, m) \notin Off}

(* A monitor is switched off or deleted only when the file that declared it    *)
(* last no longer does, or the one that declares it now says so: applying one  *)
(* file leaves those of the others alone.                                      *)
LeavesOthersAlone ==
  \A m \in Enabled \ Enabled' :
    \/ m \notin DOMAIN repo[home[m]].specs
    \/ m \in DOMAIN repo[home'[m]].specs /\ repo[home'[m]].specs[m] \in Off

(* After the directory has been applied, what runs is what the files declare   *)
(* and do not switch off, in the version they declare; monitors of a file that *)
(* declares none any more are the exception.  The owner is the one of the last *)
(* file that names one.                                                        *)
DirectoryStands ==
  synced =>
    /\ Wanted \subseteq Enabled
    /\ \A m \in Enabled \ Wanted : Emptied(home[m])
    /\ \A m \in Declared(Files) : db[m].version = SpecOf(Files, m)
    /\ Annotating(Files) # {} => owner = Annotated(Files)

(* A monitor that runs has been armed with the definition it runs with, also   *)
(* when it was disabled and came back, unless its arming was cut off or        *)
(* `--no-backfill` asked for none.                                             *)
RunningIsArmed ==
  \A m \in Enabled \ (todo \union cut) : m \in DOMAIN armed /\ armed[m] = db[m].version

(* What runs is what the files declare, armed as they declare it, however the   *)
(* files were edited and applied one by one.                                   *)
AppliedNow == DirectoryStands /\ RunningIsArmed
FilesAreInForce == []AppliedNow /\ [][LeavesOthersAlone]_vars

(* cli.apply: "Removing one from a file disables it rather than deleting it".  *)
(* Not so of a file that declares none any more (README, 5).                *)
RemovedIsDisabled == synced => Enabled \subseteq Declared(Files)
=============================================================================
