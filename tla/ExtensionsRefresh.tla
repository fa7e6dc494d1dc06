-------------------------- MODULE ExtensionsRefresh --------------------------
(***************************************************************************)
(* The services that the metrics polling loop queries, and how they follow *)
(* the extensions of the Dynatrace cluster and the activation file         *)
(* (dt_extensions.py, extensions_fetcher.py, utilities.py, and the loop in *)
(* run_docker.py).  Each cycle starts a refresh task beside its poll and   *)
(* takes the result for the next cycle.  The cluster and the file change,  *)
(* and requests fail, at any moment.                                       *)
(*                                                                         *)
(* An extension stands for one service with one feature set.  Version 0    *)
(* means that there is none.                                               *)
(***************************************************************************)
EXTENDS Integers

CONSTANTS
    Extensions,   \* names of the Google extensions
    Versions,     \* versions an extension may have
    MaxChanges,   \* bound of the model: changes of the cluster and the file
    MaxFaults     \* bound of the model: failed requests and crashes

ASSUME ExtensionsRefreshAssumption ==
    /\ Versions \subseteq Nat \ {0}
    /\ MaxChanges \in Nat /\ MaxFaults \in Nat

VARIABLES
    cluster,     \* version of each extension in the cluster
    activated,   \* what the last valid activation file activates
    broken,      \* the activation file is no valid YAML now
    cache,       \* EXTENSIONS_CACHE_BY_NAME: version, and if it has a definition
    loop,        \* "check" before the loop, then "ready", "polling", "awaiting"
    base,        \* base_services and extension_versions of the loop
    polled,      \* services of the last poll
    refresh,     \* the refresh task: "none", "listing", "loading" or "done"
    listed,      \* its extension_name_to_version_dict
    enabled,     \* its feature_sets_from_activation_config
    todo,        \* extensions it has not loaded yet
    found,       \* its configured_services
    result,      \* what it returned
    steady,      \* polls begun since the last change or fault, up to two
    changes,     \* changes so far
    faults       \* faults so far

outside == <<cluster, activated, broken>>
task == <<listed, enabled, todo, found>>
vars == <<outside, cache, loop, base, polled, refresh, task, result,
          steady, changes, faults>>

Service == [extension : Extensions, version : Versions, enabled : BOOLEAN]
NoVersions == [e \in Extensions |-> 0]
NoConfig == [services |-> {}, versions |-> NoVersions]
NotCached == [version |-> 0, good |-> TRUE]

Listed(versions) == {e \in Extensions : versions[e] # 0}

\* safe_read_yaml returns an empty configuration for a broken file: the
\* environment variable it falls back to is not set by the deployment.
ReadActivation == IF broken THEN {} ELSE activated

ServiceOf(e, version, active) ==
    [extension |-> e, version |-> version, enabled |-> e \in active]

Fault == faults < MaxFaults /\ faults' = faults + 1 /\ steady' = 0

NewProcess ==
    /\ cache' = [e \in Extensions |-> NotCached]
    /\ loop' = "check"
    /\ base' = NoConfig
    /\ polled' = {}
    /\ refresh' = "listing"
    /\ listed' = NoVersions /\ enabled' = {} /\ todo' = {} /\ found' = {}
    /\ result' = NoConfig

Init ==
    /\ cluster \in [Extensions -> Versions \union {0}]
    /\ activated \in SUBSET Extensions
    /\ broken = FALSE
    /\ cache = [e \in Extensions |-> NotCached]
    /\ loop = "check"
    /\ base = NoConfig
    /\ polled = {}
    /\ refresh = "listing"
    /\ listed = NoVersions /\ enabled = {} /\ todo = {} /\ found = {}
    /\ result = NoConfig
    /\ steady = 0 /\ changes = 0 /\ faults = 0

-----------------------------------------------------------------------------
(* ExtensionsFetcher.execute.                                              *)

\* The list of extensions has come; the activation file is read right after.
StartLoading(versions) ==
    /\ refresh = "listing"
    /\ refresh' = "loading"
    /\ listed' = versions
    /\ todo' = Listed(versions)
    /\ found' = {}
    /\ UNCHANGED <<outside, cache, loop, base, polled, result, changes>>

ListAnswered ==
    /\ StartLoading(cluster)
    /\ enabled' = ReadActivation
    /\ UNCHANGED <<steady, faults>>

\* A page is answered with an error: its extensions and those of the pages
\* after it are missing, and nobody notices.
ListPageMissing ==
    /\ Fault
    /\ \E S \in SUBSET Listed(cluster) :
         StartLoading([e \in Extensions |-> IF e \in S THEN cluster[e] ELSE 0])
    /\ enabled' = ReadActivation

Load(e) ==
    /\ refresh = "loading" /\ e \in todo
    /\ todo' = todo \ {e}
    /\ UNCHANGED <<outside, loop, base, polled, refresh, listed, enabled,
                   result, changes>>

AddServices(e, good, version) ==
    found' = IF good THEN found \union {ServiceOf(e, version, enabled)} ELSE found

\* Mutant: whatever is cached is used.
FromCacheUnchecked(e) ==
    /\ cache[e].version # 0
    /\ Load(e)
    /\ AddServices(e, cache[e].good, cache[e].version)
    /\ UNCHANGED <<cache, steady, faults>>

\* An empty definition has no services.
FromCache(e) ==
    /\ cache[e].version = listed[e]
    /\ Load(e)
    /\ AddServices(e, cache[e].good, cache[e].version)
    /\ UNCHANGED <<cache, steady, faults>>

Download(e, good) ==
    /\ cache[e].version # listed[e]
    /\ Load(e)
    /\ AddServices(e, good, listed[e])
    /\ cache' = [cache EXCEPT ![e] = [version |-> listed[e], good |-> good]]

DownloadOk(e) == Download(e, TRUE) /\ UNCHANGED <<steady, faults>>

\* A status other than 200, or a zip that cannot be read: the definition is
\* empty, and cached.
DownloadFails(e) == Download(e, FALSE) /\ Fault

\* The task returns.  Before the loop there is nothing to fall back to: the
\* process ends and is started again.
Return(config) ==
    /\ result' = config
    /\ refresh' = "done"
    /\ UNCHANGED <<outside, cache, loop, base, polled, task, changes>>

EndCheck == NewProcess /\ UNCHANGED <<outside, changes>>

\* Mutant: an empty list of services is a result like any other.
LoadedUnchecked ==
    /\ refresh = "loading" /\ todo = {}
    /\ Return([services |-> found, versions |-> listed])
    /\ UNCHANGED <<steady, faults>>

\* extensions_fetch takes an empty list of services for a failure.
Loaded ==
    /\ refresh = "loading" /\ todo = {}
    /\ IF found # {} THEN Return([services |-> found, versions |-> listed])
       ELSE IF loop = "check" THEN EndCheck
       ELSE Return(base)
    /\ UNCHANGED <<steady, faults>>

\* An exception (no token, a request that fails, a file without services):
\* "will reuse previous configuration".
RefreshError ==
    /\ refresh \in {"listing", "loading"} /\ loop # "check"
    /\ Fault
    /\ Return(base)

-----------------------------------------------------------------------------
(* run_metrics_fetcher_forever.                                            *)

TakeResult ==
    /\ refresh = "done"
    /\ refresh' = "none"
    /\ base' = result
    /\ loop' = "ready"
    /\ UNCHANGED <<outside, cache, polled, task, result, steady, changes, faults>>

\* metrics_pre_launch_check has brought the services of the first cycle.
CheckPassed == loop = "check" /\ TakeResult

\* The refresh task is created, and the poll begins with the services that
\* the loop has now.
StartCycle ==
    /\ loop = "ready"
    /\ loop' = "polling"
    /\ refresh' = "listing"
    /\ polled' = base.services
    /\ steady' = IF steady < 2 THEN steady + 1 ELSE steady
    /\ UNCHANGED <<outside, cache, base, task, result, changes, faults>>

\* Mutant: a poll that timed out is started again.
PollRestarts ==
    /\ loop = "polling"
    /\ UNCHANGED vars

\* The poll is over, or was stopped by its timeout.
PollEnds ==
    /\ loop = "polling"
    /\ loop' = "awaiting"
    /\ UNCHANGED <<outside, cache, base, polled, refresh, task, result,
                   steady, changes, faults>>

\* Mutant: the result is dropped if the refresh is not faster than the poll.
EndCycleImpatient ==
    /\ loop = "awaiting"
    /\ loop' = "ready"
    /\ refresh' = "none"
    /\ base' = IF refresh = "done" THEN result ELSE base
    /\ UNCHANGED <<outside, cache, polled, task, result, steady, changes, faults>>

\* The loop awaits the task and sleeps until the next cycle.
EndCycle == loop = "awaiting" /\ TakeResult

-----------------------------------------------------------------------------
(* External.                                                               *)

Change ==
    /\ changes < MaxChanges
    /\ changes' = changes + 1
    /\ steady' = 0
    /\ UNCHANGED <<cache, loop, base, polled, refresh, task, result, faults>>

\* An extension is installed, upgraded, downgraded or removed.
ClusterChanges ==
    /\ Change
    /\ \E e \in Extensions, v \in Versions \union {0} :
        v # cluster[e] /\ cluster' = [cluster EXCEPT ![e] = v]
    /\ UNCHANGED <<activated, broken>>

\* helm upgrade: a valid activation file, or a broken one.
FileChanges ==
    /\ Change
    /\ \/ \E S \in SUBSET Extensions : activated' = S /\ broken' = FALSE
       \/ ~broken /\ broken' = TRUE /\ UNCHANGED activated
    /\ UNCHANGED cluster

\* The process ends and is started again.
Restart ==
    /\ Fault
    /\ NewProcess
    /\ UNCHANGED <<outside, changes>>

-----------------------------------------------------------------------------
LoadStep(e) == FromCache(e) \/ DownloadOk(e) \/ DownloadFails(e)

RefreshStep ==
    \/ ListAnswered \/ ListPageMissing \/ Loaded \/ RefreshError
    \/ \E e \in Extensions : LoadStep(e)

LoopStep == CheckPassed \/ StartCycle \/ PollEnds \/ EndCycle

Next == RefreshStep \/ LoopStep \/ ClusterChanges \/ FileChanges \/ Restart

Spec == Init /\ [][Next]_vars

\* The event loop runs the loop and the task; their requests end within the
\* session timeouts and the poll within its own.
FairSpec == Spec /\ WF_vars(RefreshStep) /\ WF_vars(LoopStep)

-----------------------------------------------------------------------------
Config == [services : SUBSET Service, versions : [Extensions -> Versions \union {0}]]

TypeOK ==
    /\ cluster \in [Extensions -> Versions \union {0}]
    /\ activated \subseteq Extensions
    /\ broken \in BOOLEAN
    /\ cache \in [Extensions -> [version : Versions \union {0}, good : BOOLEAN]]
    /\ loop \in {"check", "ready", "polling", "awaiting"}
    /\ base \in Config
    /\ polled \subseteq Service
    /\ refresh \in {"none", "listing", "loading", "done"}
    /\ listed \in [Extensions -> Versions \union {0}]
    /\ enabled \subseteq Extensions
    /\ todo \subseteq Listed(listed)
    /\ found \subseteq Service
    /\ result \in Config
    /\ steady \in 0..2
    /\ changes \in 0..MaxChanges
    /\ faults \in 0..MaxFaults

\* The services and the versions that the loop holds come from one refresh,
\* whatever was cached, upgraded or downgraded meanwhile: no service has a
\* definition of another version than the one that goes with it.
Matches(services, versions) ==
    \A s \in services : s.version = versions[s.extension]
ServicesMatchVersions == Matches(base.services, base.versions)

\* Once the loop runs it never polls with an empty list of services, however
\* many refreshes fail or find nothing.
NeverWithoutServices == loop # "check" => base.services # {}

\* What a refresh without failures would find now.  An extension whose
\* download failed once stays out until its version changes.
Poisoned(e) == cache[e].version = cluster[e] /\ ~cache[e].good
Current ==
    {ServiceOf(e, cluster[e], ReadActivation) :
        e \in {x \in Listed(cluster) : ~Poisoned(x)}}

\* "Expect changes to be active within 1-2 polling cycles": the second poll
\* after the last change or failure has the current services, also when that
\* happened in the middle of a refresh.
ActiveWithinTwoCycles == steady = 2 /\ Current # {} => polled = Current

\* Neither a slow poll nor a failing refresh stops the loop: only a process
\* that finds no service at all does not get beyond the check.
PollsGoOn == []<>(loop = "ready" \/ Current = {})

\* "It will simply be ignored until corrected": while the activation file is
\* broken and nothing else has happened, each poll has the services of the poll
\* before it.
BrokenFileIgnored ==
    [][StartCycle /\ polled # {} /\ broken /\ changes = 1 /\ faults = 0
        => polled' = polled]_vars

==============================================================================
