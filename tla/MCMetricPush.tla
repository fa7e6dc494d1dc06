---------------------------- MODULE MCMetricPush ----------------------------
(***************************************************************************)
(* Bounds of MetricPush for TLC: one project has several batches, the      *)
(* others have a single line at most, and few lines are invalid.           *)
(***************************************************************************)
EXTENDS MetricPush, TLC

CONSTANTS
    Large,        \* the project with several batches
    MaxInvalid    \* bound of the model: invalid lines of a project

MCNext ==
    /\ Next
    /\ \A p \in Projects \ {Large} : lines'[p] <= 1
    /\ \A p \in Projects : invalid'[p] <= MaxInvalid
MCSpec == Init /\ [][MCNext]_vars /\ \A p \in Projects : WF_vars(ProjectStep(p))
=============================================================================
