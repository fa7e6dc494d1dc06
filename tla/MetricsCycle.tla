---------------------------- MODULE MetricsCycle ----------------------------
(***************************************************************************)
(* One polling cycle (query_metrics in main.py): a token and a context,    *)
(* the listing of the projects page by page, the check of each project for *)
(* disabled APIs, the project filters, and then all projects at once:      *)
(* their topology, their metrics and the push.  What goes wrong is         *)
(* recorded in faults, with its place, so that what a cycle loses can be   *)
(* compared with what went wrong.                                          *)
(*                                                                         *)
(* A query stands for a metric with one of its label groupings; services   *)
(* are numbered in the order of the configuration.                         *)
(***************************************************************************)
EXTENDS Integers, Sequences, FiniteSets, SequencesExt

CONSTANTS
    Pages,               \* the accessible projects, as the pages of the listing
    Apis, RequiredApis,  \* REQUIRED_SERVICES of gcp_apis.py
    Services, Enabled,   \* 1..n, and those with is_enabled
    ExtractorApi,        \* used_api of the services with an entity extractor
    Queries, ServiceOf, ApiOf,
    OnlyIn,              \* the projects a query is limited to: project_ids of
                         \* an autodiscovered metric, else all projects
    FilteredOut,         \* queries the filter-out list excludes altogether
    Scoping,             \* SCOPING_PROJECT_SUPPORT_ENABLED
    Excluded, Included,  \* EXCLUDED_PROJECTS, INCLUDED_PROJECTS
    ExcludedParts, IncludedParts,   \* ..._BY_PREFIX
    Matches,             \* Matches[part]: the projects whose id contains part
    WorldsOf,            \* bound of the model: per project, what may be enabled
                         \* and deployed in it
    MaxFaults            \* bound of the model

Projects == UNION ToSet(Pages)
Extracted == DOMAIN ExtractorApi

ASSUME MetricsCycleAssumption ==
    /\ Pages \in Seq(SUBSET Projects) /\ Pages # <<>>
    /\ RequiredApis \subseteq Apis /\ MaxFaults \in Nat
    /\ \A s \in Extracted : s \in Services /\ ExtractorApi[s] \in Apis
    /\ \A q \in Queries : ServiceOf[q] \in Services /\ ApiOf[q] \in Apis
    /\ Services \subseteq Nat

VARIABLES
    world,         \* per project: the APIs that are off, and the services with instances
    phase,         \* where query_metrics is
    outcome,       \* how it ended
    found,         \* projects listed so far
    page,          \* the page to fetch
    known,         \* disabled_apis_by_project_id, as far as fetched
    checked,       \* projects whose check has answered
    stage,         \* process_project_metrics of each project
    topology,      \* the extraction task of each project and service
    fetching,      \* queries of a project not answered yet
    lines,         \* queries of a project that returned lines
    delivered,     \* queries of a project that reached Dynatrace
    connectivity,  \* dynatrace_connectivity is Ok
    faults         \* history: what went wrong

vars == <<world, phase, outcome, found, page, known, checked, stage, topology,
          fetching, lines, delivered, connectivity, faults>>
setup == <<phase, outcome, found, page, known, checked>>
work == <<stage, topology, fetching, lines, delivered, connectivity>>

Fault(kind, p, at) == [kind |-> kind, project |-> p, at |-> at]
Fails(kind, p, at) ==
    /\ Cardinality(faults) < MaxFaults
    /\ faults' = faults \union {Fault(kind, p, at)}
Anywhere == 0

Worlds == [off : SUBSET Apis, instances : SUBSET Services]

Init ==
    /\ world \in {w \in [Projects -> Worlds] : \A p \in Projects : w[p] \in WorldsOf[p]}
    /\ phase = "token" /\ outcome = "running"
    /\ found = {} /\ page = 1
    /\ known = [p \in Projects |-> {}] /\ checked = {}
    /\ stage = [p \in Projects |-> "out"]
    /\ topology = [p \in Projects |-> [s \in Services |-> "no task"]]
    /\ fetching = [p \in Projects |-> {}]
    /\ lines = [p \in Projects |-> {}]
    /\ delivered = [p \in Projects |-> {}]
    /\ connectivity = TRUE
    /\ faults = {}

-----------------------------------------------------------------------------
(***************************************************************************)
(* Before the projects: everything that fails here ends the cycle.         *)
(***************************************************************************)
End(how) == phase' = "ended" /\ outcome' = how

\* create_token: None without credentials or on a failed request.
GetToken ==
    /\ phase = "token"
    /\ \/ phase' = "context" /\ UNCHANGED <<outcome, faults>>
       \/ Fails("token", Anywhere, Anywhere) /\ End("no token")
    /\ UNCHANGED <<world, found, page, known, checked>> /\ UNCHANGED work

\* get_metric_context: a secret that cannot be read raises; what
\* check_dynatrace finds is only logged.
GetContext ==
    /\ phase = "context"
    /\ \/ phase' = "listing" /\ UNCHANGED <<outcome, faults>>
       \/ Fails("context", Anywhere, Anywhere) /\ End("raised")
    /\ UNCHANGED <<world, found, page, known, checked>> /\ UNCHANGED work

AfterListing == IF Scoping THEN "choosing" ELSE "checking"

\* One page of get_all_accessible_projects.  An error document has neither
\* projects nor a next page: the list ends there and passes for complete.
ListPage ==
    /\ phase = "listing"
    /\ \/ /\ found' = found \union Pages[page]
          /\ page' = page + 1
          /\ phase' = IF page = Len(Pages) THEN AfterListing ELSE phase
          /\ UNCHANGED <<outcome, faults>>
       \/ /\ Fails("list", Anywhere, page)
          /\ phase' = AfterListing
          /\ UNCHANGED <<outcome, found, page>>
       \/ /\ Fails("list", Anywhere, page)
          /\ End("raised")
          /\ UNCHANGED <<found, page>>
    /\ UNCHANGED <<world, known, checked>> /\ UNCHANGED work

\* Mutant: a check that failed counts the project as disabled.
CheckProjectStrictly(p) ==
    /\ phase = "checking" /\ p \in found \ checked
    /\ \/ known' = [known EXCEPT ![p] = world[p].off] /\ UNCHANGED faults
       \/ Fails("apis", p, Anywhere) /\ known' = [known EXCEPT ![p] = Apis]
    /\ checked' = checked \union {p}
    /\ UNCHANGED <<world, phase, outcome, found, page>> /\ UNCHANGED work

\* _check_if_project_is_disabled_and_get_disabled_api_set: a failing page
\* returns the disabled APIs so far.
CheckProject(p) ==
    /\ phase = "checking" /\ p \in found \ checked
    /\ \/ known' = [known EXCEPT ![p] = world[p].off] /\ UNCHANGED faults
       \/ /\ Fails("apis", p, Anywhere)
          /\ \E some \in SUBSET world[p].off : known' = [known EXCEPT ![p] = some]
    /\ checked' = checked \union {p}
    /\ UNCHANGED <<world, phase, outcome, found, page>> /\ UNCHANGED work

\* Mutant: it waits for the projects a listing without faults has.
ProjectsCheckedAll ==
    /\ phase = "checking" /\ checked = Projects
    /\ phase' = "choosing"
    /\ UNCHANGED <<world, outcome, found, page, known, checked, faults>> /\ UNCHANGED work

\* gather: the answers of all projects are awaited.
ProjectsChecked ==
    /\ phase = "checking" /\ checked = found
    /\ phase' = "choosing"
    /\ UNCHANGED <<world, outcome, found, page, known, checked, faults>> /\ UNCHANGED work

Disabled(off) == off \intersect RequiredApis # {}

\* The filters of query_metrics, applied one after the other; each included
\* part narrows what the parts before it have left.
KeepIncluded(ids) == IF Included = {} THEN ids ELSE ids \intersect Included
WithoutParts(ids) == {p \in ids : \A part \in ExcludedParts : p \notin Matches[part]}
WithParts(ids) == {p \in ids : \A part \in IncludedParts : p \in Matches[part]}
Filtered(ids) == WithParts(KeepIncluded(WithoutParts(ids) \ Excluded))
Chosen == Filtered({p \in found : Scoping \/ ~Disabled(known[p])})

\* choose_services_for_topology_fetch
ExtractorsOf(p) == {s \in Extracted : ~Scoping /\ ExtractorApi[s] \notin known[p]}

\* The tasks of all chosen projects start; each begins with its topology.
StartProjects ==
    /\ phase = "choosing"
    /\ phase' = "processing"
    /\ stage' = [p \in Projects |-> IF p \in Chosen THEN "topology" ELSE "out"]
    /\ topology' = [p \in Projects |-> [s \in Services |->
                       IF p \in Chosen /\ s \in ExtractorsOf(p) THEN "running" ELSE "no task"]]
    /\ UNCHANGED <<world, outcome, found, page, known, checked, fetching, lines,
                   delivered, connectivity, faults>>

-----------------------------------------------------------------------------
(***************************************************************************)
(* process_project_metrics of project p.                                   *)
(***************************************************************************)
SetTopology(p, s, result) == topology' = [topology EXCEPT ![p][s] = result]

\* Mutant: the decorator lets the exception through, and the project fails.
ExtractorEndsOrRaises(p, s) ==
    /\ topology[p][s] = "running"
    /\ \/ /\ SetTopology(p, s, IF s \in world[p].instances THEN "entities" ELSE "none")
          /\ UNCHANGED <<stage, faults>>
       \/ /\ Fails("extractor", p, s) /\ SetTopology(p, s, "none")
          /\ stage' = [stage EXCEPT ![p] = "ended"]
    /\ UNCHANGED <<world, fetching, lines, delivered, connectivity>>
    /\ UNCHANGED setup

\* An extraction task ends: with entities, with none, with the entities of the
\* pages before a failing one (generic_paging), or with an exception (of the
\* request, of fetch_zones, of one zone), which entity_extractor turns into an
\* empty list.  A task that is not awaited any more ends all the same.
ExtractorEnds(p, s) ==
    /\ topology[p][s] = "running"
    /\ \/ /\ SetTopology(p, s, IF s \in world[p].instances THEN "entities" ELSE "none")
          /\ UNCHANGED faults
       \/ /\ Fails("page", p, s) /\ s \in world[p].instances
          /\ \E got \in {"entities", "none"} : SetTopology(p, s, got)
       \/ Fails("extractor", p, s) /\ SetTopology(p, s, "none")
    /\ UNCHANGED <<world, stage, fetching, lines, delivered, connectivity>>
    /\ UNCHANGED setup

\* The tasks are awaited in the order of the services.
AwaitedBefore(p, s) == \A r \in Services : r < s => topology[p][r] # "running"

\* Mutant: an API that is off does not keep a query from being sent.
ToFetchAnyApi(p) ==
    {q \in Queries \ FilteredOut :
        ServiceOf[q] \in Enabled /\ topology[p][ServiceOf[q]] # "none" /\ p \in OnlyIn[q]}

\* Mutant: a service without a result counts as one without instances.
ToFetchWithEntities(p) ==
    {q \in Queries \ FilteredOut :
        /\ ServiceOf[q] \in Enabled
        /\ topology[p][ServiceOf[q]] = "entities"
        /\ p \in OnlyIn[q] /\ ApiOf[q] \notin known[p]}

\* The queries of fetch_ingest_lines_task.
ToFetch(p) ==
    {q \in Queries \ FilteredOut :
        /\ ServiceOf[q] \in Enabled
        /\ topology[p][ServiceOf[q]] # "none"
        /\ p \in OnlyIn[q]
        /\ ApiOf[q] \notin (IF Scoping THEN {} ELSE known[p])}

\* Mutant: the first result is enough.
TopologyCompleteEarly(p) ==
    /\ phase = "processing" /\ stage[p] = "topology"
    /\ \E s \in Services : topology[p][s] \in {"entities", "none"}
    /\ stage' = [stage EXCEPT ![p] = "fetching"]
    /\ fetching' = [fetching EXCEPT ![p] = ToFetch(p)]
    /\ UNCHANGED <<world, topology, lines, delivered, connectivity, faults>>
    /\ UNCHANGED setup

TopologyComplete(p) ==
    /\ phase = "processing" /\ stage[p] = "topology"
    /\ \A s \in Services : topology[p][s] # "running"
    /\ stage' = [stage EXCEPT ![p] = "fetching"]
    /\ fetching' = [fetching EXCEPT ![p] = ToFetch(p)]
    /\ UNCHANGED <<world, topology, lines, delivered, connectivity, faults>>
    /\ UNCHANGED setup

\* Cloud Monitoring has lines for a query of an API that is on, in a project
\* with instances of the service.
HasData(p, q) ==
    /\ ({ApiOf[q]} \union RequiredApis) \intersect world[p].off = {}
    /\ ServiceOf[q] \in world[p].instances

\* Mutant: run_fetch_metric lets the exception through.
QueryAnswersOrRaises(p, q) ==
    /\ phase = "processing" /\ stage[p] = "fetching" /\ q \in fetching[p]
    /\ \/ /\ lines' = [lines EXCEPT ![p] = IF HasData(p, q) THEN @ \union {q} ELSE @]
          /\ fetching' = [fetching EXCEPT ![p] = @ \ {q}]
          /\ UNCHANGED <<faults, stage>>
       \/ /\ Fails("query", p, q) /\ stage' = [stage EXCEPT ![p] = "ended"]
          /\ UNCHANGED <<lines, fetching>>
    /\ UNCHANGED <<world, topology, delivered, connectivity>> /\ UNCHANGED setup

\* run_fetch_metric: whatever fails, on any page, the query has no lines.
QueryAnswers(p, q) ==
    /\ phase = "processing" /\ stage[p] = "fetching" /\ q \in fetching[p]
    /\ \/ /\ lines' = [lines EXCEPT ![p] = IF HasData(p, q) THEN @ \union {q} ELSE @]
          /\ UNCHANGED faults
       \/ Fails("query", p, q) /\ UNCHANGED lines
    /\ fetching' = [fetching EXCEPT ![p] = @ \ {q}]
    /\ UNCHANGED <<world, stage, topology, delivered, connectivity>> /\ UNCHANGED setup

\* push_ingest_lines, in one step (module MetricPush has its own steps): a
\* refusal by Dynatrace marks the connectivity of the cycle, and the projects
\* that come after it skip their push.
Push(p) ==
    /\ phase = "processing" /\ stage[p] = "fetching" /\ fetching[p] = {}
    /\ \/ /\ connectivity
          /\ delivered' = [delivered EXCEPT ![p] = lines[p]]
          /\ UNCHANGED <<connectivity, faults>>
       \/ /\ connectivity /\ lines[p] # {}
          /\ \/ Fails("push", p, Anywhere) /\ UNCHANGED connectivity
             \/ Fails("refusal", p, Anywhere) /\ connectivity' = FALSE
          /\ UNCHANGED delivered
       \/ ~connectivity /\ UNCHANGED <<delivered, connectivity, faults>>
    /\ stage' = [stage EXCEPT ![p] = "ended"]
    /\ UNCHANGED <<world, topology, fetching, lines>> /\ UNCHANGED setup

-----------------------------------------------------------------------------
Processed == {p \in Projects : stage[p] # "out"}

\* gather over the projects has all results; the self-monitoring is pushed,
\* what fails there is logged.
FinishCycle ==
    /\ phase = "processing" /\ \A p \in Processed : stage[p] = "ended"
    /\ End("done")
    /\ UNCHANGED <<world, found, page, known, checked, faults>> /\ UNCHANGED work

\* wait_for of run_docker cancels query_metrics and with it the gathered
\* tasks; of a project's extraction tasks only the awaited one.
Awaited(p, s) ==
    stage[p] = "topology" /\ topology[p][s] = "running" /\ AwaitedBefore(p, s)
TimeOut ==
    /\ phase # "ended"
    /\ End("timed out")
    /\ stage' = [p \in Projects |-> IF stage[p] = "out" THEN "out" ELSE "ended"]
    /\ topology' = [p \in Projects |-> [s \in Services |->
                       IF Awaited(p, s) THEN "cancelled" ELSE topology[p][s]]]
    /\ UNCHANGED <<world, found, page, known, checked, fetching, lines, delivered,
                   connectivity, faults>>

ProjectStep(p) ==
    \/ CheckProject(p) \/ TopologyComplete(p) \/ Push(p)
    \/ \E s \in Services : ExtractorEnds(p, s)
    \/ \E q \in Queries : QueryAnswers(p, q)

CycleStep ==
    \/ GetToken \/ GetContext \/ ListPage \/ ProjectsChecked \/ StartProjects
    \/ FinishCycle
    \/ \E p \in Projects : ProjectStep(p)

Next == CycleStep \/ TimeOut

Spec == Init /\ [][Next]_vars

\* Every request of the cycle has the timeout of its session, so each await
\* returns or raises; the timeout of run_docker need not come.
FairSpec == Spec /\ WF_vars(CycleStep)

-----------------------------------------------------------------------------
Stages == {"out", "topology", "fetching", "ended"}
Phases == {"token", "context", "listing", "checking", "choosing", "processing", "ended"}
TypeOK ==
    /\ phase \in Phases
    /\ outcome \in {"running", "done", "no token", "raised", "timed out"}
    /\ found \subseteq Projects /\ checked \subseteq found
    /\ page \in 1..(Len(Pages) + 1)
    /\ world \in [Projects -> Worlds]
    /\ known \in [Projects -> SUBSET Apis]
    /\ stage \in [Projects -> Stages]
    /\ fetching \in [Projects -> SUBSET Queries]
    /\ lines \in [Projects -> SUBSET Queries]
    /\ delivered \in [Projects -> SUBSET Queries]
    /\ \A p \in Projects : known[p] \subseteq world[p].off /\ delivered[p] \subseteq lines[p]
    /\ topology \in [Projects -> [Services ->
                        {"no task", "running", "entities", "none", "cancelled"}]]
    /\ connectivity \in BOOLEAN
    /\ IsFiniteSet(faults) /\ Cardinality(faults) <= MaxFaults

\* What a user expects of a cycle: the data of the enabled services in the
\* projects the filters leave.
Expected(p) ==
    {q \in Queries \ FilteredOut :
        /\ p \in Filtered(Projects) /\ p \in OnlyIn[q]
        /\ ServiceOf[q] \in Enabled /\ HasData(p, q)}

PageOf(p) == CHOOSE i \in DOMAIN Pages : p \in Pages[i]
\* What a fault may cost, at most.
Explains(f, p, q) ==
    \/ f.kind = "list" /\ PageOf(p) >= f.at
    \/ f.kind \in {"page", "extractor"} /\ f.project = p /\ f.at = ServiceOf[q]
    \/ f.kind = "query" /\ f.project = p /\ f.at = q
    \/ f.kind = "push" /\ f.project = p
    \/ f.kind = "refusal"

\* A cycle that runs to its end delivers all the data there is, but for what
\* is explained by a fault in its place: a failing page of a project listing
\* costs the projects from that page on, a failing extraction the service in
\* its project (it passes for a service without instances), a query that fails
\* itself, a push that fails its project, and only a refusal of Dynatrace
\* reaches the other projects.  A failed check of the disabled APIs costs nothing.
LossesExplained ==
    outcome = "done" =>
        \A p \in Projects : \A q \in Expected(p) \ delivered[p] :
            \E f \in faults : Explains(f, p, q)

\* values.yaml documents includedProjectsByPrefix as a "comma separated list
\* of projects substring that will be included in monitoring": a project that
\* contains one of them is processed.
IncludedByAnyPart ==
    phase = "processing" =>
        \A p \in KeepIncluded(WithoutParts(found) \ Excluded) :
            (\E part \in IncludedParts : p \in Matches[part])
            /\ (Scoping \/ ~Disabled(known[p]))
            => p \in Processed

\* Cloud Monitoring is asked for what cannot be there only if the cycle could
\* not know: the check of the disabled APIs failed, or the service has no
\* extractor that would have looked for instances.
NoNeedlessQuery ==
    \A p \in Projects : \A q \in fetching[p] :
        \/ HasData(p, q)
        \/ Scoping
        \/ Fault("apis", p, Anywhere) \in faults
        \/ ServiceOf[q] \notin ExtractorsOf(p) /\ ApiOf[q] \notin world[p].off

\* An extraction task outlives the cycle only if the timeout has stopped the
\* cycle: it cancels the awaited task of each project and no other.
OrphansNeedTimeout ==
    \A p \in Projects, s \in Services :
        topology[p][s] = "running" /\ stage[p] # "topology" => outcome = "timed out"

\* A cycle asks for what may be there, and leaves nothing running behind.
CycleInv == TypeOK /\ NoNeedlessQuery /\ OrphansNeedTimeout

\* Every cycle ends, whatever fails and in whatever order: no project is left
\* waiting for a task that will not answer.
CycleEnds == <>(phase = "ended")
=============================================================================
