--------------------------- MODULE MCNotifyLedger ---------------------------
(* Instance of NotifyLedger for TLC: one notification that two routes match, *)
(* one that the second of them does not.                                     *)
EXTENDS NotifyLedger, TLC

CONSTANTS failure, incident, oncall, team

MCRoutes == failure :> {oncall, team} @@ incident :> {oncall}

MCOneRoute == failure :> {oncall, team}

Symmetry == Permutations(Sweepers)
=============================================================================
