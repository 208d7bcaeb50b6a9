----------------------------- MODULE MCTreeRace -----------------------------
(* Instances of TreeRace for TLC: the levels an Airflow, dbt and Spark       *)
(* pipeline really has, one job per run.                                     *)
EXTENDS TreeRace, TLC

CONSTANTS dag, task, model, app, loader, orders, customers

MCIdentity == [r \in Runs |-> r]

\* dag <- task <- model, with a second child of task; and a job run by hand.
MCThreeLevels == dag :> NoRun @@ task :> dag @@ model :> task @@ app :> task
                 @@ loader :> NoRun
\* dag <- task <- model <- app.
MCFourLevels == dag :> NoRun @@ task :> dag @@ model :> task @@ app :> model

\* Airflow tasks name the dag; dbt names its own parent; Spark names none.
MCHints == [r \in Runs |-> CASE r = task -> dag [] r = model -> task [] OTHER -> NoRun]

\* A model and a job outside its pipeline that read each other's outputs; Airflow
\* names no datasets here.
MCCrossed == [r \in Runs |-> CASE r \in {model, app} -> <<orders, customers>>
                             [] r = loader -> <<customers, orders>>
                             [] OTHER -> <<>>]
MCNoDatasets == [r \in Runs |-> <<>>]
=============================================================================
