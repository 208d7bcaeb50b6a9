---------------------------- MODULE MCIngestQueue ----------------------------
(* Instance of IngestQueue for TLC.                                        *)
EXTENDS IngestQueue, TLC

Symmetry == Permutations(Events) \cup Permutations(Threads)
=============================================================================
