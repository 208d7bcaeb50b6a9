----------------------------- MODULE Artifacts -----------------------------
(***************************************************************************)
(* Files of a run, stored once under the digest of their bytes (artifacts.py): *)
(* gateway processes that share one storage put the bytes there first and then *)
(* record them in their transaction; any of them may be killed at any step.   *)
(***************************************************************************)
EXTENDS Integers, FiniteSets

CONSTANTS
  Gateways,    \* processes
  Names,       \* of the artifacts of a run
  Digests,     \* of contents
  Stores,      \* LocalStore, S3Store
  MaxUploads

VARIABLES
  store,
  pc, upload,  \* of each gateway: its step, and what it uploads
  handle,      \* the file it has open, or None
  files,       \* bytes of each file ever created: "none" yet, or "all"
  temporary, stored,  \* per digest: the file at its .tmp path, and at its path
  rows,        \* artifacts: name to digest
  shared,      \* history: digests of which two had the .tmp at once
  cut,         \* history: files that somebody had open when killed
  uploads

vars == <<store, pc, upload, handle, files, temporary, stored, rows, shared, cut, uploads>>
None == 0
NoUpload == [name |-> "", digest |-> ""]

Init ==
  /\ store \in Stores
  /\ pc = [g \in Gateways |-> "idle"] /\ upload = [g \in Gateways |-> NoUpload]
  /\ handle = [g \in Gateways |-> None]
  /\ files = <<>>
  /\ temporary = [d \in Digests |-> None] /\ stored = [d \in Digests |-> None]
  /\ rows = <<>> /\ shared = {} /\ cut = {} /\ uploads = 0

\* A fault: recorded before the bytes are there.
RecordedFirst(step) ==
  CASE step = "begin" -> "record" [] step = "record" -> "put"
    [] step = "put" -> IF store = "local" THEN "open" ELSE "idle"
    [] step = "open" -> "fill" [] step = "fill" -> "rename" [] step = "rename" -> "idle"
\* A fault: the file has its name before it has its bytes.
RenamedFirst(step) ==
  CASE step = "begin" -> "put"
    [] step = "put" -> IF store = "local" THEN "open" ELSE "record"
    [] step = "open" -> "rename" [] step = "rename" -> "fill" [] step = "fill" -> "record"
    [] step = "record" -> "idle"
After(step) ==
  CASE step = "begin" -> "put"
    [] step = "put" -> IF store = "local" THEN "open" ELSE "record"
    [] step = "open" -> "fill" [] step = "fill" -> "rename" [] step = "rename" -> "record"
    [] step = "record" -> "idle"

\* upload_artifact: refused unless the name is safe and the size within bounds,
\* as it is here.
Begin(g) ==
  /\ pc[g] = "idle" /\ uploads < MaxUploads /\ uploads' = uploads + 1
  /\ \E n \in Names, d \in Digests : upload' = [upload EXCEPT ![g] = [name |-> n, digest |-> d]]
  /\ pc' = [pc EXCEPT ![g] = After("begin")]
  /\ UNCHANGED <<store, handle, files, temporary, stored, rows, shared, cut>>

\* Bytes that are there under their digest are not put again.
PutLocal(g) ==
  /\ store = "local" /\ pc[g] = "put"
  /\ pc' = [pc EXCEPT ![g] = IF stored[upload[g].digest] # None THEN After("rename") ELSE After("put")]
  /\ UNCHANGED <<store, upload, handle, files, temporary, stored, rows, shared, cut, uploads>>

PutS3(g) ==
  LET d == upload[g].digest
      new == Cardinality(DOMAIN files) + 1
  IN /\ store = "s3" /\ pc[g] = "put"
     /\ IF stored[d] # None THEN UNCHANGED <<files, stored>>
        ELSE /\ files' = [f \in DOMAIN files \union {new} |-> IF f = new THEN "all" ELSE files[f]]
             /\ stored' = [stored EXCEPT ![d] = new]
     /\ pc' = [pc EXCEPT ![g] = After("put")]
     /\ UNCHANGED <<store, upload, handle, temporary, rows, shared, cut, uploads>>

\* Has a .tmp of the digest to fill or to rename.
Writing(g, d) == pc[g] \in {"fill", "rename"} /\ upload[g].digest = d

\* write_bytes opens the .tmp of the digest, emptying it if it is there already.
Open(g) ==
  LET d == upload[g].digest
      f == IF temporary[d] # None THEN temporary[d] ELSE Cardinality(DOMAIN files) + 1
  IN /\ pc[g] = "open"
     /\ files' = [e \in DOMAIN files \union {f} |-> IF e = f THEN "none" ELSE files[e]]
     /\ temporary' = [temporary EXCEPT ![d] = f]
     /\ handle' = [handle EXCEPT ![g] = f]
     /\ shared' = IF \E h \in Gateways \ {g} : Writing(h, d) THEN shared \union {d} ELSE shared
     /\ pc' = [pc EXCEPT ![g] = After("open")]
     /\ UNCHANGED <<store, upload, stored, rows, cut, uploads>>

\* ... and writes to the file it has open, wherever that is by then.
Fill(g) ==
  /\ pc[g] = "fill"
  /\ files' = [files EXCEPT ![handle[g]] = "all"]
  /\ handle' = [handle EXCEPT ![g] = None]
  /\ pc' = [pc EXCEPT ![g] = After("fill")]
  /\ UNCHANGED <<store, upload, temporary, stored, rows, shared, cut, uploads>>

\* tmp.replace: fails, and the upload with it, if the .tmp is gone.
Rename(g) ==
  LET d == upload[g].digest
  IN /\ pc[g] = "rename"
     /\ IF temporary[d] = None
        THEN pc' = [pc EXCEPT ![g] = "idle"] /\ UNCHANGED <<temporary, stored>>
        ELSE /\ stored' = [stored EXCEPT ![d] = temporary[d]]
             /\ temporary' = [temporary EXCEPT ![d] = None]
             /\ pc' = [pc EXCEPT ![g] = After("rename")]
     /\ UNCHANGED <<store, upload, handle, files, rows, shared, cut, uploads>>

\* put_artifact's rows, committed; a later upload of the name takes its place.
Record(g) ==
  LET u == upload[g]
  IN /\ pc[g] = "record"
     /\ rows' = [n \in DOMAIN rows \union {u.name} |-> IF n = u.name THEN u.digest ELSE rows[n]]
     /\ pc' = [pc EXCEPT ![g] = After("record")]
     /\ UNCHANGED <<store, upload, handle, files, temporary, stored, shared, cut, uploads>>

Crash(g) ==
  /\ pc[g] # "idle"
  /\ pc' = [pc EXCEPT ![g] = "idle"] /\ handle' = [handle EXCEPT ![g] = None]
  /\ cut' = cut \union ({handle[g]} \ {None})
  /\ UNCHANGED <<store, upload, files, temporary, stored, rows, shared, uploads>>

Next ==
  \E g \in Gateways : \/ Begin(g) \/ PutLocal(g) \/ PutS3(g) \/ Open(g) \/ Fill(g)
                      \/ Rename(g) \/ Record(g) \/ Crash(g)

Spec == Init /\ [][Next]_vars

-----------------------------------------------------------------------------
\* A fault: what is under a digest is taken to have it.
Trusted(f) == TRUE
Verified(f) == files[f] = "all"

\* get_artifact, which changes nothing: what a download of the name gives now.
Download(n) ==
  LET f == stored[rows[n]]
  IN IF f = None THEN "missing"
     ELSE IF ~Verified(f) THEN "corrupt"
     ELSE IF files[f] = "all" THEN "right" ELSE "wrong"

(* What was uploaded can be had.  A download is refused only while another     *)
(* gateway still writes a file that the two shared, or once one was killed at  *)
(* writing it; nothing else is ever given in its place (put_artifact,          *)
(* LocalStore.put, get_artifact).                                              *)
BytesAreKept ==
  \A n \in DOMAIN rows :
    \/ Download(n) = "right"
    \/ /\ Download(n) = "corrupt" /\ rows[n] \in shared
       /\ stored[rows[n]] \in cut \/ \E g \in Gateways : handle[g] = stored[rows[n]]

(* artifacts.py: "a crash mid-write must not leave a truncated blob that looks *)
(* valid by name".                                                            *)
(* Not so when two gateways share the .tmp of a digest (README, 5).         *)
BlobIsWhole == \A d \in Digests : stored[d] # None => files[stored[d]] = "all"
=============================================================================
