--------------------------- MODULE SelfMonitoring ---------------------------
(***************************************************************************)
(* The self-monitoring of the log forwarder as Cloud Monitoring sees it    *)
(* (log_self_monitoring.py and self_monitoring.py).  Each process of the   *)
(* forwarder has a loop that drains its queue, aligns the descriptors of   *)
(* the metrics with its own, and writes the time series of the period.     *)
(* The processes share the descriptors, in one project, and do not know of *)
(* each other; every request may be refused or fail.                       *)
(*                                                                         *)
(* Cloud Monitoring is external: it creates a descriptor for the series of *)
(* a metric that has none, updates one that is created again but never     *)
(* removes labels from it, and refuses a series with labels the descriptor *)
(* has not.                                                                *)
(***************************************************************************)
EXTENDS SelfMonitoringSeries, Helpers

CONSTANTS
    Processes,    \* <<container, pid>> of the processes of the forwarder
    MetricMap,    \* types of LOG_SELF_MONITORING_METRIC_MAP considered, in its order
    Reports,      \* the self-monitoring a worker may put into the queue
    MaxQueue,     \* MAX_SFM_MESSAGES_PROCESSED, of the queue and of a period
    ChunkSize,    \* series in one request (200)
    MaxFaults     \* bound: requests that are refused or fail

ASSUME SelfMonitoringAssumption ==
    /\ IsFiniteSet(Processes)
    /\ MetricMap \in Seq(DOMAIN LogLabels) /\ ToSet(MetricMap) \intersect Times # {}
    /\ Reports \subseteq [counts : [Counts -> Nat], connectivity : SUBSET Connectivity]
    /\ MaxQueue \in Nat \ {0} /\ ChunkSize \in Nat \ {0} /\ MaxFaults \in Nat

VARIABLES
    descriptor,   \* per type in Cloud Monitoring: its labels and its name
    queue,        \* sfm_queue of each process
    pc,           \* where the loop of each process is
    ops,          \* the descriptor requests the process has still to send
    chunks,       \* the requests with series it has still to send
    retrying,     \* is_retry of the request it sends
    whole,        \* whether all of the period could be written so far
    lost,         \* periods that were not written completely
    faults        \* requests that were refused or failed

Types == ToSet(MetricMap)

vars == <<descriptor, queue, pc, ops, chunks, retrying, whole, lost, faults>>
loop == <<pc, ops, chunks, retrying, whole, lost>>

-----------------------------------------------------------------------------
(***************************************************************************)
(* Descriptors.                                                            *)
(***************************************************************************)
NoDescriptor == [labels |-> {}, name |-> "none"]
Wanted(type) == [labels |-> LogLabels[type], name |-> "current"]

\* Mutant: only the labels are compared.
MismatchOfLabels(existing, type) == existing.labels # LogLabels[type]

\* The condition of replace_metric_descriptor_if_required.
Mismatch(existing, type) ==
    existing.labels # LogLabels[type] \/ existing.name # "current"

\* Mutant: only what is missing is created.
RepairMissing(existing, type) == IF existing = NoDescriptor THEN {"create"} ELSE {}

\* What the loop of sfm_create_descriptors_if_missing does about one type.
Repair(existing, type) ==
    IF existing = NoDescriptor THEN {"create"}
    ELSE IF Mismatch(existing, type) THEN {"delete", "create"}
    ELSE {}

\* Its requests for what was listed: each has a place in the map and a kind.
Requests == (DOMAIN MetricMap) \X {"delete", "create"}
Repairs(listed) ==
    {op \in Requests : op[2] \in Repair(listed[MetricMap[op[1]]], MetricMap[op[1]])}

\* They are sent in the order of the map, the deletion of a type first.
SentBefore(op, other) == op[1] < other[1] \/ (op[1] = other[1] /\ op[2] = "delete")

\* Cloud Monitoring: what a descriptor is after a request that succeeds.
After(kind, type, existing) ==
    IF kind = "delete" THEN NoDescriptor
    ELSE [Wanted(type) EXCEPT !.labels = @ \union existing.labels]

Accepts(series) ==
    \/ descriptor[series.type] = NoDescriptor
    \/ DOMAIN series.labels \subseteq descriptor[series.type].labels
Written(series) ==
    [t \in Types |->
        IF descriptor[t] = NoDescriptor /\ \E s \in series : s.type = t
        THEN [labels |-> LogLabels[t], name |-> "none"] ELSE descriptor[t]]

\* Descriptors of an earlier or a later version, which another forwarder left.
Earlier(type) == [labels |-> LogLabels[type] \ {"worker_pid"}, name |-> "current"]
Later(type) == [labels |-> LogLabels[type] \union {"later label"}, name |-> "current"]

-----------------------------------------------------------------------------
Init ==
    /\ descriptor \in
           {d \in [Types -> UNION {{NoDescriptor, Wanted(t), Earlier(t), Later(t)} : t \in Types}] :
               \A t \in Types : d[t] \in {NoDescriptor, Wanted(t), Earlier(t), Later(t)}}
    /\ queue = [p \in Processes |-> <<>>]
    /\ pc = [p \in Processes |-> "asleep"]
    /\ ops = [p \in Processes |-> {}]
    /\ chunks = [p \in Processes |-> <<>>]
    /\ retrying = [p \in Processes |-> FALSE]
    /\ whole = [p \in Processes |-> TRUE]
    /\ lost = 0 /\ faults = 0

Fault == faults < MaxFaults /\ faults' = faults + 1

\* A worker reports on a batch it has sent, or on messages it dropped: what
\* does not fit into the queue is rejected.
Put(p) ==
    /\ Len(queue[p]) < MaxQueue
    /\ \E report \in Reports : queue' = [queue EXCEPT ![p] = Append(@, report)]
    /\ UNCHANGED <<descriptor, faults, loop>>

\* A period with something to report: the queue is drained and added up.  (The
\* series are made after the descriptors, of the same values.)
Wake(p) ==
    LET series == {s \in LogSeries(p, Aggregated(queue[p])) : s.type \in Types}
    IN  /\ pc[p] = "asleep" /\ queue[p] # <<>>
        /\ pc' = [pc EXCEPT ![p] = "context"]
        /\ queue' = [queue EXCEPT ![p] = <<>>]
        /\ chunks' = [chunks EXCEPT ![p] = Chunks(SetToSeq(series), ChunkSize)]
        /\ whole' = [whole EXCEPT ![p] = TRUE]
        /\ UNCHANGED <<descriptor, ops, retrying, lost, faults>>

\* The period ends: the loop sleeps again.
EndPeriod(p, complete) ==
    /\ pc' = [pc EXCEPT ![p] = "asleep"]
    /\ chunks' = [chunks EXCEPT ![p] = <<>>]
    /\ retrying' = [retrying EXCEPT ![p] = FALSE]
    /\ whole' = [whole EXCEPT ![p] = TRUE]
    /\ lost' = lost + (IF complete THEN 0 ELSE 1)

ContextMade(p) ==
    /\ pc' = [pc EXCEPT ![p] = "listing"]
    /\ UNCHANGED <<chunks, retrying, whole, lost, faults>>

\* Mutant: without a token the series are kept for the next period.
ContextKeepingSeries(p) ==
    /\ pc[p] = "context"
    /\ \/ ContextMade(p)
       \/ Fault /\ pc' = [pc EXCEPT ![p] = "asleep"] /\ UNCHANGED <<chunks, retrying, whole, lost>>
    /\ UNCHANGED <<descriptor, queue, ops>>

\* Mutant: an exception ends the loop.
ContextEndsLoop(p) ==
    /\ pc[p] = "context"
    /\ \/ ContextMade(p)
       \/ /\ Fault /\ pc' = [pc EXCEPT ![p] = "ended"] /\ lost' = lost + 1
          /\ UNCHANGED <<chunks, retrying, whole>>
    /\ UNCHANGED <<descriptor, queue, ops>>

\* _create_sfm_logs_context: without a token or a URL the drained period is lost.
Context(p) ==
    /\ pc[p] = "context"
    /\ \/ ContextMade(p)
       \/ Fault /\ EndPeriod(p, FALSE)
    /\ UNCHANGED <<descriptor, queue, ops>>

\* What follows when the requests left are these.
Describing(p, left) ==
    /\ ops' = [ops EXCEPT ![p] = left]
    /\ pc' = [pc EXCEPT ![p] = IF left = {} THEN "pushing" ELSE "describing"]

\* sfm_create_descriptors_if_missing lists the descriptors: an error document
\* lists none, an exception skips the descriptors.
List(p) ==
    /\ pc[p] = "listing"
    /\ \/ Describing(p, Repairs(descriptor)) /\ UNCHANGED faults
       \/ Fault /\ Describing(p, Repairs([t \in Types |-> NoDescriptor]))
       \/ Fault /\ Describing(p, {})
    /\ UNCHANGED <<descriptor, queue, chunks, retrying, whole, lost>>

\* delete_metric_descriptor or create_metric_descriptor: a refusal is logged, an
\* exception, also after the request took effect, abandons the descriptors.
Describe(p) ==
    /\ pc[p] = "describing"
    /\ \E op \in ops[p] :
          LET type == MetricMap[op[1]]
              effect == [descriptor EXCEPT ![type] = After(op[2], type, @)]
              left == ops[p] \ {op}
          IN  /\ \A other \in left : SentBefore(op, other)
              /\ \/ descriptor' = effect /\ Describing(p, left) /\ UNCHANGED faults
                 \/ Fault /\ UNCHANGED descriptor /\ Describing(p, left)
                 \/ Fault /\ descriptor' \in {descriptor, effect} /\ Describing(p, {})
    /\ UNCHANGED <<queue, chunks, retrying, whole, lost>>

\* The chunk is done, with all of its series written or not.
ChunkDone(p, complete) ==
    IF Len(chunks[p]) = 1
    THEN EndPeriod(p, whole[p] /\ complete)
    ELSE /\ chunks' = [chunks EXCEPT ![p] = Tail(@)]
         /\ whole' = [whole EXCEPT ![p] = @ /\ complete]
         /\ retrying' = [retrying EXCEPT ![p] = FALSE]
         /\ UNCHANGED <<pc, lost>>

\* 200, or the answer that some series are refused.
PushAnswered(p) ==
    LET series == ToSet(Head(chunks[p]))
        accepted == {s \in series : Accepts(s)}
    IN  /\ descriptor' = Written(accepted)
        /\ ChunkDone(p, accepted = series)
        /\ UNCHANGED faults

\* Any other answer is logged; an exception gives up the rest of the period.
PushFails(p) ==
    /\ Fault
    /\ ChunkDone(p, FALSE) \/ EndPeriod(p, FALSE)
    /\ UNCHANGED descriptor

\* push_single_self_monitoring_time_series: an answer of 500 is retried once.
Push(p) ==
    /\ pc[p] = "pushing"
    /\ \/ PushAnswered(p)
       \/ PushFails(p)
       \/ /\ ~retrying[p]
          /\ retrying' = [retrying EXCEPT ![p] = TRUE]
          /\ UNCHANGED <<descriptor, pc, chunks, whole, lost, faults>>
    /\ UNCHANGED <<queue, ops>>

LoopStep(p) == Wake(p) \/ Context(p) \/ List(p) \/ Describe(p) \/ Push(p)

Next == \E p \in Processes : Put(p) \/ LoopStep(p)

Spec == Init /\ [][Next]_vars

\* The event loop of a process resumes its loop, and every request ends.
FairSpec == Spec /\ \A p \in Processes : WF_vars(LoopStep(p))

-----------------------------------------------------------------------------
\* The descriptors of a type there can be, and the series the processes write.
Descriptors(type) ==
    [labels : SUBSET (LogLabels[type] \union {"later label"}), name : {"none", "current"}]
AnyReport == [counts |-> [c \in Counts |-> 1], connectivity |-> Connectivity]
AllSeries == {s \in UNION {LogSeries(p, AnyReport) : p \in Processes} : s.type \in Types}

\* The variables, and what is left to do where the loop is.
TypeOK ==
    /\ descriptor \in [Types -> UNION {Descriptors(t) : t \in Types}]
    /\ \A t \in Types : descriptor[t] \in Descriptors(t)
    /\ queue \in [Processes -> Seq(Reports)]
    /\ pc \in [Processes -> {"asleep", "context", "listing", "describing", "pushing"}]
    /\ ops \in [Processes -> SUBSET Requests]
    /\ chunks \in [Processes -> Seq(Seq(AllSeries))]
    /\ retrying \in [Processes -> BOOLEAN] /\ whole \in [Processes -> BOOLEAN]
    /\ \A p \in Processes :
          /\ Len(queue[p]) <= MaxQueue
          /\ (chunks[p] = <<>>) <=> (pc[p] = "asleep")
          /\ (ops[p] # {}) <=> (pc[p] = "describing")
          /\ retrying[p] => pc[p] = "pushing"
    /\ lost \in Nat /\ faults \in 0..MaxFaults

\* Whatever descriptors earlier or later versions left, and however the
\* processes get in each other's way while they repair them, no period is lost
\* but by a request that fails (the retry of an answer of 500 counts as one):
\* each process has brought the descriptors in order before it writes.
LossesNeedFaults == lost <= faults

\* The loops stay in order, and no period is lost without a failure.
SelfMonitoringInv == TypeOK /\ LossesNeedFaults

\* No failure ends a loop of self-monitoring, and no answer keeps it busy.
PeriodsGoOn == \A p \in Processes : []<>(pc[p] = "asleep")

\* When one process keeps reporting and the others come to rest, the descriptors
\* end up as this version wants them and stay so, whatever was there and whatever
\* failed or interfered on the way.  (Two that keep reporting can undo each
\* other's repair for ever: a series that is written between the deletion and
\* the creation leaves a descriptor without a name, which is repaired again.)
DescriptorsSettle ==
    (\E p \in Processes : /\ []<>(pc[p] = "listing")
                          /\ \A q \in Processes \ {p} : <>[](pc[q] = "asleep"))
        => <>[](\A t \in Types : descriptor[t] = Wanted(t))
=============================================================================
