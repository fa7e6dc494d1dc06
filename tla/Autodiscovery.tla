---------------------------- MODULE Autodiscovery ----------------------------
(***************************************************************************)
(* Autodiscovery of metrics that no extension lists: the background task   *)
(* (autodiscovery_task_executor.py), what one discovery does               *)
(* (autodiscovery.py, autodiscovery_utils.py) and the polling loop that    *)
(* starts the task, tells it about new extension versions and adds what it *)
(* found to each poll (run_docker.py).                                     *)
(*                                                                         *)
(* Both are coroutines of one event loop.  The lock of the executor is     *)
(* never held over an await, so taking it never waits and it is left out.  *)
(* The loading of extensions is the subject of module ExtensionsRefresh;   *)
(* here a poll finds its services as they are deployed, or as they were.   *)
(***************************************************************************)
EXTENDS FiniteSets, Integers

CONSTANTS
    Services,         \* services (with a feature set) of the extensions
    Flagged,          \* those with allowAutodiscovery
    Versions,         \* extension versions, in the order of deployment
    Metrics,          \* metric types that the projects list
    Resources,        \* monitored resource types
    Projects,         \* accessible projects
    ServiceMetrics,   \* metrics of each service, by version
    ServiceResources, \* autodiscovery-mapping.yaml: resources of each service
    Descriptor,       \* of each metric: valueType, launchStage, resources
    Listed,           \* metrics that each project lists
    Blocked,          \* metrics of the block list
    Alpha,            \* AUTODISCOVERY_INCLUDE_ALPHA_METRICS
    MaxChanges,       \* bound of the model: changes of what is deployed
    MaxFaults         \* bound of the model: failures

ASSUME AutodiscoveryAssumption ==
    /\ Versions # {}
    /\ Flagged \subseteq Services
    /\ ServiceMetrics \in [Versions -> [Services -> SUBSET Metrics]]
    /\ ServiceResources \in [Services -> SUBSET Resources]
    /\ Listed \in [Projects -> SUBSET Metrics]
    /\ {MaxChanges, MaxFaults} \subseteq Nat

VARIABLES
    deployed,     \* extension versions, and the enabled services
    file,         \* autodiscovery-config.yaml on disk
    base,         \* base_services and extension_versions of the polling loop
    loop,         \* the polling loop: "starting" or "polling"
    polled,       \* autodiscovered metrics of the latest poll
    task,         \* the task: "created", "discovering", "waiting" or "ended"
    event,        \* notify_event
    versionsHash, \* autodiscovered_extension_versions_hash
    cached,       \* cached_services, as the base they come from
    loaded,       \* what _load_yamls left in the AutodiscoveryContext
    run,          \* services and resources of the running or latest discovery
    service,      \* autodiscovered_cached_service: projects of each metric
    latest,       \* history: how the latest discovery ended
    known,        \* last_autodiscovered_metric_list_names
    offered,      \* history: how often the metadata of a metric was pushed
    changes, faults

outside == <<deployed, file, changes>>
loopVars == <<base, loop, polled>>
taskVars == <<task, event, versionsHash, cached>>
contextVars == <<loaded, run, service, latest, known, offered>>
vars == <<outside, loopVars, taskVars, contextVars, faults>>

-----------------------------------------------------------------------------
Bases == [versions : Versions, enabled : SUBSET Services]

\* "broken" is no YAML (read as empty), "shapeless" has no mapping where one
\* is needed, "scalar" has a number for searched_resources.
Files == [state : {"list"}, searched : SUBSET Resources]
            \union [state : {"broken", "shapeless", "scalar"}, searched : {{}}]

NoService == [m \in {} |-> {}]
Mapped == UNION {ServiceResources[s] : s \in Services}

\* Linking services of a resource, enabled or not; the resource is discovered
\* for the extensions only when one of them is enabled.
Linked(r) == {s \in Flagged : r \in ServiceResources[s]}

\* _check_resources_to_discover: a resource of the mapping cannot be searched
\* for by configuration.
ResourcesToDiscover(services, searched) ==
    {r \in Resources : Linked(r) \intersect services.enabled # {}}
        \union (searched \ Mapped)

\* Mutant: the metrics of disabled services do not count as existing.
ExistingMetricsEnabledOnly(services, r) ==
    UNION {ServiceMetrics[services.versions][s] :
              s \in Linked(r) \intersect services.enabled}
\* get_existing_metrics.
ExistingMetrics(services, r) ==
    UNION {ServiceMetrics[services.versions][s] : s \in Linked(r)}

\* should_include_metric
ShouldIncludeMetric(m, resources) ==
    /\ m \notin Blocked
    /\ Descriptor[m].valueType # "STRING"
    /\ Descriptor[m].launchStage # "DEPRECATED"
    /\ Alpha \/ Descriptor[m].launchStage # "ALPHA"
    /\ Cardinality(Descriptor[m].resources) = 1
    /\ Descriptor[m].resources \subseteq resources

Resource(m) == CHOOSE r \in Descriptor[m].resources : TRUE

\* get_metric_descriptors: the metrics of interest, each with the projects that
\* list it.
Discovered(listing) ==
    [m \in {m \in UNION {listing[p] : p \in Projects} : ShouldIncludeMetric(m, run.resources)} |->
        {p \in Projects : m \in listing[p]}]

\* _run_autodiscovery: those of them that no extension knows.
NewMetrics(listing) ==
    LET found == Discovered(listing)
    IN  [m \in {m \in DOMAIN found : m \notin ExistingMetrics(run.services, Resource(m))} |->
            found[m]]

\* run_fetch_metric_descriptors of all projects: one whose pages fail lists the
\* metrics of the pages before.
Listings == {listing \in [Projects -> SUBSET Metrics] :
                \A p \in Projects : listing[p] \subseteq Listed[p]}

Fault == faults < MaxFaults /\ faults' = faults + 1

NotLoaded ==
    [ok |-> FALSE, enabled |-> TRUE, file |-> [state |-> "list", searched |-> {}]]

\* _load_yamls: a file of the wrong shape raises, and then the configuration
\* loaded before is kept, if there is one.
LoadYamls(before) ==
    CASE file.state # "shapeless" -> [ok |-> TRUE, enabled |-> TRUE, file |-> file]
      [] file.state = "shapeless" /\ before.ok -> before
      [] file.state = "shapeless" /\ ~before.ok -> [before EXCEPT !.enabled = FALSE]

Init ==
    /\ deployed = [versions |-> CHOOSE v \in Versions : TRUE, enabled |-> Services]
    /\ file \in Files
    /\ base = deployed
    /\ loop = "starting"
    /\ polled = {}
    /\ task = "created"
    /\ event = FALSE
    /\ versionsHash = base.versions
    /\ cached = base
    /\ loaded = LoadYamls(NotLoaded)
    /\ run = [services |-> base, resources |-> {}]
    /\ service = NoService
    /\ latest = "none"
    /\ known = {}
    /\ offered = [m \in Metrics |-> 0]
    /\ changes = 0
    /\ faults = 0

-----------------------------------------------------------------------------
(* What is deployed changes.                                               *)

Change == changes < MaxChanges /\ changes' = changes + 1

Deploy ==
    /\ Change
    /\ deployed' \in Bases \ {deployed}
    /\ UNCHANGED <<file, loopVars, taskVars, contextVars, faults>>

EditFile ==
    /\ Change
    /\ file' \in Files \ {file}
    /\ UNCHANGED <<deployed, loopVars, taskVars, contextVars, faults>>

-----------------------------------------------------------------------------
(* The polling loop.                                                       *)

\* Mutant: the hash is not stored.
UpdateExtensionsForgets(b) ==
    IF b.versions # versionsHash
      THEN event' = TRUE /\ cached' = b /\ UNCHANGED versionsHash
      ELSE UNCHANGED <<event, versionsHash, cached>>
\* _update_extensions: only the versions are compared.
UpdateExtensions(b) ==
    IF b.versions # versionsHash
      THEN event' = TRUE /\ versionsHash' = b.versions /\ cached' = b
      ELSE UNCHANGED <<event, versionsHash, cached>>

\* One cycle: process_autodiscovery_result, with services as deployed or as in
\* the cycle before.
Poll ==
    /\ loop = "polling"
    /\ base' \in {base, deployed}
    /\ IF task # "ended"
         THEN UpdateExtensions(base') /\ polled' = DOMAIN service
         ELSE polled' = {} /\ UNCHANGED <<event, versionsHash, cached>>
    /\ UNCHANGED <<outside, loop, task, contextVars, faults>>

-----------------------------------------------------------------------------
(* The task.                                                               *)

\* _notify_observers: the loop waits in create() for the first notification.
NotifyObservers == loop' = "polling" /\ UNCHANGED <<base, polled>>

\* An exception that reaches _init_autodiscovery_task.
End == task' = "ended" /\ NotifyObservers

\* Mutant: observers are notified only when there is something to poll.
RestSilently ==
    /\ task' = "waiting"
    /\ IF service # NoService THEN NotifyObservers ELSE UNCHANGED loopVars
\* The result, if there is one, is stored; then the task waits.
Rest == task' = "waiting" /\ NotifyObservers

\* get_autodiscovery_service up to its first await.
Begin ==
    LET yamls == LoadYamls(loaded)
        resources == IF yamls.enabled
                       THEN ResourcesToDiscover(cached, yamls.file.searched)
                       ELSE {}
    IN  /\ loaded' = yamls
        /\ run' = [services |-> cached, resources |-> resources]
        /\ UNCHANGED <<outside, versionsHash, cached, service, known, offered, faults>>
        /\ \/ /\ yamls.file.state = "scalar"
              /\ End
              /\ UNCHANGED latest
           \/ /\ yamls.file.state # "scalar" /\ resources = {}
              /\ Rest
              /\ latest' = "empty"
           \/ /\ yamls.file.state # "scalar" /\ resources # {}
              /\ task' = "discovering"
              /\ UNCHANGED <<loopVars, latest>>

FirstDiscovery == task = "created" /\ Begin /\ UNCHANGED event

\* The wait ends because new versions arrived.
Notified == task = "waiting" /\ event /\ event' = FALSE /\ Begin

\* asyncio.TimeoutError: the event keeps what arrives at the same moment.
QueryTimeElapsed == task = "waiting" /\ Begin /\ UNCHANGED event

\* No token, no projects, or an exception inside get_autodiscovery_service.
DiscoveryFails ==
    /\ task = "discovering"
    /\ Fault
    /\ Rest
    /\ latest' = "failed"
    /\ UNCHANGED <<outside, event, versionsHash, cached, loaded, run, service, known,
                   offered>>

\* Mutant: only the names of the latest discovery are remembered.
SendMetricMetadataForgets(new) ==
    /\ known' = new
    /\ offered' = [m \in Metrics |->
                      offered[m] + IF m \in new \ known THEN 1 ELSE 0]
\* send_metric_metadata: a metric is marked before the push, which swallows
\* its failures.
SendMetricMetadata(new) ==
    /\ known' = known \union new
    /\ offered' = [m \in Metrics |->
                      offered[m] + IF m \in new \ known THEN 1 ELSE 0]

\* Mutant: what was found before is kept beside the new metrics.
StoreResultBeside(new) ==
    /\ SendMetricMetadata(DOMAIN new)
    /\ service' = [m \in DOMAIN service \union DOMAIN new |->
                      IF m \in DOMAIN new THEN new[m] ELSE service[m]]
    /\ latest' = IF DOMAIN new # {} THEN "stored" ELSE "empty"

\* Without new metrics the result is None, and the service of before stays.
StoreResult(new) ==
    /\ SendMetricMetadata(DOMAIN new)
    /\ IF DOMAIN new # {}
         THEN service' = new /\ latest' = "stored"
         ELSE UNCHANGED service /\ latest' = "empty"

DiscoveryEnds ==
    /\ task = "discovering"
    /\ \E listing \in Listings :
        /\ IF listing = Listed THEN UNCHANGED faults ELSE Fault
        /\ StoreResult(NewMetrics(listing))
    /\ Rest
    /\ UNCHANGED <<outside, event, versionsHash, cached, loaded, run>>

Next ==
    \/ Deploy \/ EditFile
    \/ Poll
    \/ FirstDiscovery \/ Notified \/ QueryTimeElapsed
    \/ DiscoveryFails \/ DiscoveryEnds

Spec == Init /\ [][Next]_vars

\* The event loop runs every coroutine that is ready; requests end.
FairSpec ==
    /\ Spec
    /\ WF_vars(Poll /\ base' = deployed)
    /\ WF_vars(FirstDiscovery)
    /\ WF_vars(Notified)
    /\ WF_vars(DiscoveryFails \/ DiscoveryEnds)

-----------------------------------------------------------------------------
TypeOK ==
    /\ deployed \in Bases /\ base \in Bases /\ cached \in Bases
    /\ file \in Files
    /\ loop \in {"starting", "polling"}
    /\ polled \subseteq Metrics
    /\ task \in {"created", "discovering", "waiting", "ended"}
    /\ event \in BOOLEAN
    /\ versionsHash \in Versions
    /\ loaded \in [ok : BOOLEAN, enabled : BOOLEAN, file : Files]
    /\ run \in [services : Bases, resources : SUBSET Resources]
    /\ DOMAIN service \subseteq Metrics
    /\ \A m \in DOMAIN service : service[m] \subseteq Projects
    /\ latest \in {"none", "stored", "empty", "failed"}
    /\ known \subseteq Metrics
    /\ offered \in [Metrics -> Nat]
    /\ changes \in 0..MaxChanges /\ faults \in 0..MaxFaults

\* Versions that arrive while a discovery runs, while the task waits or just as
\* its wait times out are never lost: a task that waits undisturbed has run a
\* discovery for the versions that are polled.  Of a change of the activation
\* alone it knows nothing: enabled services are compared nowhere.
NoChangeLost ==
    task = "waiting" /\ ~event => run.services.versions = base.versions

\* The metadata of a metric is offered to Dynatrace once, also when that push
\* fails or the metric disappears and comes back; and before it is polled.
OfferedOnce ==
    \A m \in Metrics :
        /\ offered[m] <= 1
        /\ m \in DOMAIN service => offered[m] = 1

\* A metric that a flagged service lists for a resource it polls is not polled
\* as an autodiscovered one too, whichever services are enabled or disabled.
\* There are two exceptions.  When new versions list a metric that was found
\* before, it is polled twice until a discovery has run for them.  And when
\* that discovery finds nothing new, or fails, what was found before stays:
\* then the metric is polled twice until a discovery has something to store.
TwiceOnlyIfStale ==
    (\E s \in Flagged, m \in DOMAIN service :
        /\ Resource(m) \in ServiceResources[s]
        /\ m \in ServiceMetrics[base.versions][s])
    => \/ task = "ended"                   \* what was found is not polled
       \/ event \/ task = "discovering"    \* the discovery is outstanding,
       \/ latest \in {"empty", "failed"}   \* or has stored nothing

\* A metric is offered once, and polled twice only in the cases above.
AutodiscoveryInv == TypeOK /\ OfferedOnce /\ TwiceOnlyIfStale

\* create() returns: the first discovery notifies the polling loop when it
\* succeeds, finds nothing, fails, and when the task ends.
PollingStarts == <>(loop = "polling")

\* Once nothing changes, the task ends or has run for the versions polled.
VersionsReachDiscovery ==
    <>[](task = "ended" \/ run.services.versions = deployed.versions)

=============================================================================
