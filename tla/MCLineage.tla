----------------------------- MODULE MCLineage ------------------------------
(***************************************************************************)
(* One job that reads a table and writes another, and a test result of it.   *)
(***************************************************************************)
EXTENDS Lineage

LeafOf == <<"stg", "orders">>
ReadsOf == [job |-> {1}]
WritesOf == [job |-> {2}]
ColumnsOf == <<{}, {1}>>
QueryOf == [job |-> [projects |-> "star", tables |-> {1}]]
=============================================================================
