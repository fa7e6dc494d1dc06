-------------------------- MODULE MCSelfMonitoring --------------------------
(***************************************************************************)
(* Two processes of the forwarder, each the first of its container.        *)
(***************************************************************************)
EXTENDS SelfMonitoring

MCProcesses == {<<"container 1", 1>>, <<"container 2", 1>>}
MCMetricMap == <<"connectivity_failures", "processing_time">>
MCReports ==
    {[counts |-> [c \in Counts |-> 0], connectivity |-> {status}] : status \in {"Ok", "Other"}}
=============================================================================
