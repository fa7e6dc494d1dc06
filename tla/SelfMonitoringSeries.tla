------------------------ MODULE SelfMonitoringSeries ------------------------
(***************************************************************************)
(* The self-monitoring metrics of both forwarders: the descriptors they    *)
(* create in Cloud Monitoring (metric_descriptor.py and                    *)
(* log_sfm_metric_descriptor.py) and the time series they write            *)
(* (metrics_definitions.py, loop_timeout_metric.py,                        *)
(* log_self_monitoring.py).  A descriptor is the labels it has, by the     *)
(* type of its metric; a series is its type and the values of its labels.  *)
(***************************************************************************)
EXTENDS Integers, Sequences, FiniteSets

-----------------------------------------------------------------------------
(***************************************************************************)
(* Metrics.  Sfm holds what a cycle has counted, by project or by status.  *)
(***************************************************************************)
MonitorLabels == {"function_name", "dynatrace_tenant_url"}

\* SELF_MONITORING_METRIC_MAP; the timeouts of the loop have no descriptor.
MetricLabels ==
    [connectivity |-> MonitorLabels \union {"reason"},
     ingest_lines |-> MonitorLabels \union {"project_id", "status"},
     request_count |-> MonitorLabels \union {"response_code"},
     phase_execution_time |-> MonitorLabels \union {"project_id", "phase"}]

Monitor == [l \in MonitorLabels |-> "monitor"]
And(labels, others) ==
    [l \in DOMAIN labels \union DOMAIN others |->
        IF l \in DOMAIN labels THEN labels[l] ELSE others[l]]
SeriesOfType(key, type, labels) == [key |-> key, type |-> type, labels |-> And(labels, Monitor)]

\* Mutant: the lines of all outcomes are written as one series.
IngestLinesUnlabelled(key, status, projects) ==
    {SeriesOfType(key, "ingest_lines", [project_id |-> p]) : p \in projects}

\* generate_timeseries_datapoints of the three counters of ingest lines.
IngestLines(key, status, projects) ==
    {SeriesOfType(key, "ingest_lines", [project_id |-> p, status |-> status]) : p \in projects}

\* generate_timeseries_datapoints of the three execution times.
PhaseTimes(key, phase, projects) ==
    {SeriesOfType(key, "phase_execution_time", [project_id |-> p, phase |-> phase]) : p \in projects}

\* create_sfm_timeseries_datapoints over context.sfm; the requests to Cloud
\* Monitoring are counted and not written.
MetricSeries(sfm) ==
    UNION {IngestLines("ok", "Ok", sfm.ok), IngestLines("invalid", "Invalid", sfm.invalid),
           IngestLines("dropped", "Dropped", sfm.dropped),
           PhaseTimes("setup", "setup", sfm.setup), PhaseTimes("fetch", "fetch_gcp_data", sfm.fetch),
           PhaseTimes("push", "push_to_dynatrace", sfm.push),
           {SeriesOfType("requests", "request_count", [response_code |-> s]) : s \in sfm.requests},
           {SeriesOfType("connectivity", "connectivity", [reason |-> sfm.connectivity])}}

\* What sfm_send_loop_timeouts writes after each cycle.
LoopTimeoutSeries == {SeriesOfType("loop_timeouts", "loop_timeouts", Monitor)}

-----------------------------------------------------------------------------
(***************************************************************************)
(* Logs.  A process of the forwarder is its container and its pid.         *)
(***************************************************************************)
ForwarderLabels == {"dynatrace_tenant_url", "logs_subscription_id", "container_name", "worker_pid"}

Counts == {"all_requests", "too_old_records", "parsing_errors", "too_long_content_size",
           "publish_time_fallback", "log_ingest_payload_size", "raw_log_ingest_payload_size",
           "sent_logs_entries"}
Times == {"processing_time", "sending_time", "pulling_time"}

\* DynatraceConnectivity: what became of a request to Dynatrace.
Connectivity == {"Ok", "ExpiredToken", "WrongToken", "WrongURL", "InvalidInput",
                 "TooManyRequests", "Other"}

\* LOG_SELF_MONITORING_METRIC_MAP
LogLabels ==
    [t \in Counts \union Times \union {"connectivity_failures"} |->
        IF t = "connectivity_failures" THEN ForwarderLabels \union {"connectivity_status"}
        ELSE ForwarderLabels]

\* Mutant: the containers of a deployment are not told apart.
ForwarderUnnamed(process) ==
    [dynatrace_tenant_url |-> "tenant", logs_subscription_id |-> "subscription",
     container_name |-> "container", worker_pid |-> process[2]]

Forwarder(process) ==
    [dynatrace_tenant_url |-> "tenant", logs_subscription_id |-> "subscription",
     container_name |-> process[1], worker_pid |-> process[2]]

\* create_self_monitoring_time_series: counts that are not zero, all times, and
\* the connectivity that is not Ok, by its status.
LogSeries(process, sfm) ==
    {[type |-> t, labels |-> Forwarder(process)] :
        t \in {t \in Counts : sfm.counts[t] > 0} \union Times}
    \union {[type |-> "connectivity_failures",
             labels |-> And([connectivity_status |-> s], Forwarder(process))] :
                s \in sfm.connectivity \ {"Ok"}}

\* aggregate_self_monitoring_metrics, for what decides about the series.
Aggregated(list) ==
    [counts |-> [c \in Counts |-> IF \E n \in DOMAIN list : list[n].counts[c] > 0 THEN 1 ELSE 0],
     connectivity |-> UNION {list[n].connectivity : n \in DOMAIN list}]
=============================================================================
