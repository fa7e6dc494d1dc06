# Dynatrace GCP Monitor in TLA+

The Dynatrace GCP Monitor is a container that runs in one of two modes. In
**logs mode** it pulls log messages from a Pub/Sub subscription and sends them
to the Dynatrace log ingest; in **metrics mode** it queries Cloud Monitoring
once a minute for the services that the extensions of a Dynatrace cluster
define, and pushes the values to the Dynatrace metric ingest. Both are Python
programs built on `asyncio`: the hard part is not the parsing but what happens
when many coroutines share a semaphore, a queue, a lock, a token, a cache or a
flag while requests fail, time out, and the process dies.

This directory models those parts in TLA+, checks them with TLC on small
instances and proves what matters most with TLAPS for instances of any size.
The paths below are relative to the repository root (`src/lib` is the program's
library, `tests` its tests, `docs` its documentation).

The models rest on one fact about `asyncio`: between two awaits a coroutine
runs alone. So an action stands for the code between two awaits, and every
await is a state in which the other coroutines, the network and the clock may
act. Processes of logs mode (`PARALLEL_PROCESSES` in `run_docker.py`) share
only the subscription; one of them is modelled, and the others are part of a
subscription that delivers what it likes.

## Inventory

| Component | State it keeps | Operations | Modelled in |
| --- | --- | --- | --- |
| Log forwarding loops (`log_forwarder.py`, `log_integration_service.py`, `dynatrace_client.py`) | per worker: pulled messages, batches, ack ids; shared: push semaphore, sfm queue | pull, process, push, ack, back off | `LogForwarder`, `AtLeastOnce` |
| Pub/Sub client and its token (`gcp_client.py`) | token, expiry, headers, refresh flag, refresh lock | pull, ack, refresh | `GcpToken` |
| Log batching (`logs_processor.py`) | the open batch and its length | decode, check, cut a message; add an entry, close a batch | `PrepareBatches`, `LogEntries` |
| Log metadata engine (`metadata_engine.py`, `jmespath.py`) | rules | load, choose a rule, fill attributes | `LogEntries` |
| Log self-monitoring (`log_self_monitoring.py`, `sfm/for_logs`) | bounded queue, counters of a period, descriptors | put, drain, repair descriptors, write series | `LogForwarder` (queue), `SelfMonitoring`, `SelfMonitoringSeries` |
| Metrics polling loop (`run_docker.py`, `main.py`) | last execution time, services of the next cycle | snap, poll, time out, sleep, take the refresh's result | `MetricsLoop`, `ExtensionsRefresh`, `Autodiscovery` |
| Project processing of a cycle (`main.py`, `gcp_apis.py`) | projects, disabled APIs, one coroutine per project | list, check, filter, choose queries, fetch, push | `MetricsCycle`, `MetricPush` |
| Metric push (`metric_ingest.py`) | batches, attempts, abort flag, connectivity, counters | push, retry, drop, raise | `MetricPush` |
| Metric fetching (`metric_ingest.py`, `metrics.py`) | pages, lines | page, align, aggregate, make dimensions | `MetricLines`, `MetricDimensions` |
| Extensions refresh (`dt_extensions.py`, `extensions_fetcher.py`, `utilities.py`) | cache of definitions by name, activation file | list, download, cache, fall back | `ExtensionsRefresh`, `Helpers` |
| Autodiscovery (`autodiscovery/*`) | cached services, versions hash, event, observers, sent metadata | discover, wait, notify | `Autodiscovery` |
| Topology (`topology.py`, `entities/google_api.py`, `entities/ids.py`) | entities of a project | extract, page, give up, join | `MetricsCycle`, `MetricDimensions` |
| Entity extractors (`entities/extractors`) | none | map an answer to entities | outcomes in `MetricsCycle` |
| Metrics self-monitoring (`self_monitoring.py`, `sfm/for_metrics`) | descriptors, time series | replace a descriptor, push | `SelfMonitoringSeries`, `SelfMonitoring` |
| Credentials (`credentials.py`) | none | create a token | outcomes in `GcpToken`, `MetricsCycle` |
| Contexts (`context.py`) | counters, throttled messages | throttle | `Helpers` |
| Startup checks, web server, configuration, dashboards | values, or none | sequential requests, reading of variables | not modelled |

How they interact:

- **Logs.** A process starts `NUMBER_OF_CONCURRENT_LOG_FORWARDING_LOOPS`
  workers. Each pulls with several concurrent requests, turns the answers into
  batches (`prepare_batches`), sends all batches of the round concurrently
  under one semaphore of the process, and acknowledges the messages of the
  accepted batches and the erroneous ones, in chunks. The workers share the
  Pub/Sub client: whoever sees a 401 answer sets a flag, whoever sees the flag
  or an expired token refreshes it under a lock. Each step puts an element into
  the sfm queue, which one loop drains.
- **Metrics.** The polling loop starts a refresh of the services beside each
  poll and awaits its result after the poll. A poll computes its execution time
  from the last one, gets the projects and runs one coroutine per project,
  under one timeout. The coroutines share the connectivity status and the
  counters. With autodiscovery, a second task maintains the services and the
  loop merges them. Inside a poll the coroutine of a project awaits one task per
  service for its topology, then all its queries at once, then its push.

What is hard, and therefore what the properties are about (`PROJECT.json` lists
every hazard at its line):

- *lost or repeated log messages* when a batch, an ack, a worker or the process
  fails between push and acknowledge;
- *deadlock and starvation* between the push semaphore and the bounded queue,
  whose blocking put is awaited while a permit is held;
- *a thundering herd, stale headers or a token that is never replaced* when
  many workers see one bad token;
- *off-by-one* in the limits of a request, the bounds of a distribution, the
  length of an escaped text;
- *gaps and overlaps* of the queried windows when polls are slow, sleeping is
  late and the clock is corrected, and small delays that add up to a gap;
- *refusals that spread or do not spread* between concurrent batches and
  projects, and counters that do not add up;
- *stale services*: a refresh that mixes two configurations, loses one, or
  never gets over a failure; a discovery that misses a new version;
- *a failure that takes more with it than its share*: the page of a listing, the
  extraction of a service, one of many queries of a cycle;
- *two that disagree*: processes that repair the same descriptors, containers
  whose series collide, lines and entities that must get the same id.

## Modules

Each component is a module of its own; `*_proofs.tla` proves theorems about it
(`AlgorithmsAndMonitoring_proofs` those about log batching, self-monitoring and
the pure algorithms),
and where a configuration needs definitions for its constants, or symmetry, they
are in `MC*.tla`. Definitions that begin with
`Mutant:` in their comment are variants of an action with a plausible bug;
no specification uses them: they show that each property can fail.

### `AtLeastOnce`, `LogForwarder`

`AtLeastOnce` is the promise to a publisher: a message leaves the subscription
only after Dynatrace ingested it or it was judged erroneous; it may be
delivered more than once. `LogForwarder` is the pipeline, and
`ImplementsAtLeastOnce` instantiates the promise with a mapping that forgets the
workers.

| Model | Code |
| --- | --- |
| `PullResponse`, `PullError`, `PullMalformed` | the `gather` of pull requests in `perform_pull`, with their outcomes |
| `Process`, `ProcessError`, `StartRound` | what follows the pull up to the first await of the pushes, in one step |
| `AcquireSlot` | `async with log_push_semaphore` of `push_logs` |
| `SendOk`, `SendError` | the answer of `send_logs`; both end in its `finally`, which awaits `sfm_queue.put` while the permit is held |
| `PutUnblocked` | that put, when the queue was full |
| `FinishPush`, `AckOk`, `AckError` | `push_ack_ids`, in chunks of `AckChunk` ids, whose failures are only logged |
| `WakeUp` | the back-off of `log_forwarder.py` after an exception |
| `DrainSfm`, `ReportSfm` | the sfm loop; its report may fail, the loop goes on |
| `LeaseExpires`, `LeaseExpiresEarly`, `Restart` | the subscription and the container, external |

Batches of a round are a partition of its messages: which messages share a
batch is the business of `PrepareBatches`. The token refresh shows as a failed
pull or ack: it is the business of `GcpToken`. `faults` counts failures of any
kind, and `MaxFaults` bounds them.

### `GcpToken`

A token is a generation number. `expired` is the local clock's view, `accepted`
the server's. `BeginRound`, `EnterRefresh`, `RefreshOk` and `RefreshError` are
`update_gcp_client` with its check before and after the wait for
`_refresh_lock`; `SendPull`, `PullAnswer`, `SendAck`, `AckAnswer` are the
requests, which capture the headers and may set the flag when they are answered
with 401. `update_token` is one step: it has no await, and its rollback
(`src/lib/logs/gcp_client.py:99`) is never reached, since
`create_token_with_expiry` returns a token in either of its branches or raises
before (`src/lib/credentials.py:219`, `:226`). `Expire` and `Revoke` are
external. `causes` is a history variable: expiries and 401 answers minus
refreshes.

### `PrepareBatches`

`AddEntry` is one iteration of the loop of `prepare_batches` and `Finish` its
end. An entry is its size.

### `MetricsLoop`

The code compares the wall clock only with `_last_execution_time`, so the model
keeps their difference `age`. `SnapInit`, `SnapExpected`, `SnapCatchUp` and
`SnapReset` are the alternatives of `_snap_execution_time`, truncation to
seconds included; `PolledOnTime` and `PolledLate` let the poll take its time or
its timeout; `Sleep` is `sleep_until_next_polling`; `ClockJumps` moves the wall
clock, and `Crash` stands for the exceptions the loop does not catch.
`setBack` and `resets` are history variables.

### `MetricPush`

`BeginPush` is the entry of `push_ingest_lines`: the connectivity is read once,
and the lines are cut into batches. `StartBatch` takes a slot, or skips the
batch if another one has raised. The `Post...` actions are the outcomes of one
attempt: a status or a network error that is retried or given up, a fatal
status, a broken answer, an answer that counts its lines and one that does not,
and one that is counted and then raises, since what it says of its warnings or
invalid lines cannot be read (`PostMisread`). `FinishPush` and `CycleTimesOut`
end a project.

### `ExtensionsRefresh`

The refresh task is a second process beside the loop. `ListAnswered` and
`ListPageMissing` are the list of extensions, complete or cut off by a page
that fails; the activation file is read right after it, in the same step.
`FromCache`, `DownloadOk` and `DownloadFails` load one extension each, in any
order; a failed download is cached as an empty definition, as the code does.
`Loaded` returns the result (an empty one counts as a failure) and
`RefreshError` the previous configuration. Of the loop, `StartCycle` starts
refresh and poll, `PollEnds` ends the poll, `EndCycle` awaits the refresh and
takes its result. Before the loop the same refresh runs once as the pre-launch
check, and its failure ends the process (`loop = "check"`, `EndCheck`).
`ClusterChanges`, `FileChanges` and `Restart` are external. `steady` counts the
polls since the last change or fault, up to two. An extension has one service
with one feature set; several services of one extension have the same fate.

### `Autodiscovery`

The executor's task beside the polling loop. `Poll` is the loop's side: it
takes new versions, adds what was discovered, and calls `UpdateExtensions`,
which sets the event. `FirstDiscovery`, `Notified` and `QueryTimeElapsed` are
the three ways into a discovery; `DiscoveryFails` and `DiscoveryEnds` its end,
with the metadata that is offered to Dynatrace (`SendMetricMetadata`) and the
services that are stored (`StoreResult`). `Rest` and `End` notify the observer
that the loop waits for at startup. The lock of the executor is never held over
an await, so it never makes anyone wait and is left out. `offered`, `run` and
`latest` (how the last discovery ended) are history variables. A discovery that
finds nothing new, or fails, leaves the services of the one before in place, and
`TwiceOnlyIfStale` says exactly when a metric is therefore polled twice.

### `MetricsCycle`

`query_metrics` from the token to the end of the last project. `GetToken`,
`GetContext`, `ListPage`, `CheckProject` and `ProjectsChecked` come before the
projects; `Filtered` are the project filters, in their order. Then each project
has its stages: `ExtractorEnds` per service, `TopologyComplete` with the choice
of the queries (`ToFetch`), `QueryAnswers` per query, `Push`. `TimeOut` cancels
what is awaited, and nothing else. Failures are recorded with their place in
`faults`, so that `LossesExplained` can compare what is missing with what went
wrong. What really is in a project, `world`, is chosen at the start.

### `SelfMonitoring`

The processes of the log forwarder and the descriptors they share in Cloud
Monitoring. `Wake` drains the queue, `Context` needs a token, `List` reads the
descriptors and plans their `Repairs`, `Describe` sends one request of them,
type by type in the order of the map (`SentBefore`), `Push` a chunk of series
with one retry. The reaction of Cloud Monitoring
(`After`, `Accepts`, `Written`) is external. The metrics forwarder uses the same
functions, alone.

### The pure algorithms

`MetricLines` (window, alignment and reduction, paging, distributions, local
aggregation), `MetricDimensions` (text of a value, exclusions, dimensions,
entity ids, enrichment), `LogEntries` (rules and messages), `SelfMonitoringSeries`
(series and descriptors of both forwarders) and `Helpers` (chunks, throttling,
version choice) are operators without state. `MCAlgorithms` is the machine that
feeds them: its initial states are all inputs of one subject after another, and
each invariant compares the result with a definition that does not share the
algorithm: the samples a distribution was made of, the sums of the uncut
series of an entity, the entity the line is about, the text a reader gets back from a quoted
value. The lines of `MetricLines` carry the entity they are about, named by the
labels of the series before the cut, which is part of the key by which
`_add_aggregated_line` merges them. `PrepareBatches` runs in the same machine; the length of the JSON array
that is really sent is counted byte by byte, apart from the code's running sum.

## What the runs check

| Run | Bounds | Shows |
| --- | --- | --- |
| `forwarder` | 2 workers, 2 messages, 2 pulls, 1 slot, queue of 1, ack chunks of 1, 1 fault | no permit is lost, the fault costs one more delivery at most, the promise is implemented, no worker gets stuck, every message is acked |
| `token` | 2 workers, 2 lapses, 2 faults | one refresh per cause, acks go out with a fresh token, a bad token is replaced, nobody waits for ever |
| `algorithms` | all inputs of up to 3 to 5 elements | each pure algorithm agrees with its reference definition |
| `metrics_loop` | 3 disturbances, interval 1.5 min, poll up to 3.5 min | the loop gives up, and leaves a gap, at most twice for each disturbance; windows follow the clock, overlap only after a clock correction; resets stop |
| `push` | 2 projects, one with 5 lines in batches of 2, 2 at a time, 1 retry, at most 1 invalid line each | every line is counted once or belongs to a batch that explains why not; a refusal stops who begins later, and nobody else; the push ends |
| `push_bad_url` | 1 project, 3 retries | finding, see below |
| `extensions_refresh` | 2 extensions, 2 versions, 2 changes, 2 faults | services match versions, are never empty, and are current two polls after trouble; the loop goes on polling |
| `extensions_broken_file` | 2 extensions, 1 change | finding, see below |
| `autodiscovery` | 2 services, 4 metrics, 2 projects, 2 versions, 2 changes, 1 fault | no new version is missed, the metadata of a metric is offered once, a metric is polled twice only beside the result of an older discovery, polling starts, the discovery catches up |
| `metrics_cycle` | 3 projects in 2 pages, 3 services and queries, 3 faults | a cycle loses only what a failure in its place explains, asks for nothing it could know is missing, and ends |
| `included_projects` | the same projects, two substrings, no fault | finding, see below |
| `self_monitoring` | 2 processes, 2 metrics, queue and chunks of 1, 2 faults | no period is lost without a failure, the loops go on, the descriptors settle |

**Why the bounds are enough.** Two workers are the least with which one can hold
the only slot and block on the only place of the queue while the other fills it;
a second message gives two batches and two ack chunks to one round. The fault
may be any of a failed pull, push, ack or report, a lost answer, an early lease
or a restart. While one of two workers refreshes the token, the other waits for
the lock, which is when the check after the wait matters; more workers are
covered by the proof. The limits of `algorithms` are so small that entries meet
them exactly and miss them by a byte; texts have quotes and backslashes on both
sides of the maximal length; series have two labels, which is the least with
which cutting one merges some and not others; none of them, one or both name the
entity. In `metrics_loop` only the order of the thresholds matters, and the
durations are chosen on both sides of each. In `push` one project has a batch
that waits while two are posting, and a last one that is smaller; the retries
are one, since each attempt before the last is like the first. One invalid line
(`MaxInvalid`) is enough to tell the two counters of an answer apart. Two
versions and two changes let an extension be upgraded and downgraded while a
refresh that has listed the first version is still loading, and a discovery run
for versions that are replaced meanwhile. The four metrics of `autodiscovery`
are one of an extension, one that a later version lists, one of a resource that
only the configuration searches, and one on the block list. `metrics_cycle` has
services with and without an extractor, so that an empty topology and a missing
one differ, and a second page, so that a listing can fail after the first. Two
processes are the least that can undo each other's repair. For the safety
properties the proofs remove the bounds, where they exist.

**Deadlock** is checked in the systems that run for ever. The algorithms are
functions that return, `MetricPush` and `MetricsCycle` are one cycle: they stop,
and their configurations say so; `PushesEnd` and `CycleEnds` say that they do
not stop half way.

**Fairness.** Weak fairness of each coroutine: the event loop runs whatever is
ready, and each request ends, since the sessions have timeouts. Strong fairness
in three places: `asyncio.Lock` serves its waiters in order (`EnterRefresh`); a
blocked `put` is woken by the drain and queued behind what was ready before, so
it cannot be overtaken for ever (`PutUnblocked`); and Pub/Sub does not withhold
one message from all pulls for ever. The refresh and the loop of
`ExtensionsRefresh` are weakly fair: their requests end within the session
timeouts and the poll within its own; so are the task of `Autodiscovery` beside
its polling loop, each loop of `SelfMonitoring`, and the steps of
`MetricsCycle` together, of which only finitely many are left at any time. The
timeout of a cycle is never forced: `CycleEnds` does not rely on it. Failures
need no assumption: each model has finitely many, so the liveness properties
say what happens after the last one. `ResetsStop` and `KeepsUp` likewise hold
after the last disturbance, whatever jitter remains.

**Mutants.** For every property there is a variant of an action, as a plausible
bug would change it (a dropped check, a lost permit, an off-by-one, a result
that is not taken), and TLC finds the property violated by it. `PROJECT.json`
pairs them.

## Findings

1. **`push_bad_url`** (`src/lib/metric_ingest.py:190`, `:159`). The handler that
   turns an invalid URL into connectivity `WrongURL` cannot be reached: the
   retry loop catches every exception first, retries and drops the lines. It
   also tests for `http.client.InvalidURL`, which `aiohttp` does not raise.
2. **`extensions_broken_file`** (`src/lib/utilities.py:45`). `docs/HOT_RELOAD.md`
   says that a broken activation file is ignored and the previous configuration
   retained. `safe_read_yaml` returns an empty configuration for it, the refresh
   succeeds, and the next poll has every service disabled. Monitoring comes back
   when the file is corrected.
3. **`included_projects`** (`src/main.py:199`). `values.yaml` of the Helm chart
   documents `includedProjectsByPrefix` as a list of substrings of projects that
   will be included. Each substring narrows what the one before it left, so a
   project must contain all of them.

What the models show besides, without a run of its own: a failed download is
cached as an empty definition under its version
(`src/lib/dt_extensions/extensions_fetcher.py:144`), so the extension is missing
until its version changes or the process restarts, and `ActiveWithinTwoCycles`
leaves it out; an activation that changes without a version never reaches the
discovery; an autodiscovered metric that an extension lists later is polled
twice as long as the discovery finds nothing else or fails, since an empty
result leaves the old one in place
(`src/lib/autodiscovery/autodiscovery_task_executor.py:104`); when a label that
names the entity of a cumulative metric is cut, two entities get lines with the
same dimensions, which are sent both, since the local aggregation keeps entities
apart (`src/lib/metric_ingest.py:478`) and the reducer is `REDUCE_NONE`;
versions are compared as digits without dots, so `1.9.12` is newer than `1.10.0`
and `NewestVersionKept` is stated for versions of one shape; two forwarder
processes that report at the same time can undo each other's repair of a
descriptor; one failing zone costs all gce instances of its project.

## What is proved

The assumptions are those the modules name (`...Assumption`): natural bounds,
finite sets, at least one slot, the order of the thresholds. TLC evaluates each
of them in its runs. Every invariant proof has the same three steps: it holds
initially, each action preserves it (one step per action), and it implies the
property; PTL combines them.

- **`LogForwarder`**, for any number of messages, workers, slots and faults.
  `TypeCorrect`. `NoMessageLost` (`AckedOnlyIfHandled`): not inductive on its
  own, as nothing says that what is *about to be* acked is handled; the
  invariant `AckInv` adds `AckIdsHandled`, the ack ids collected and in flight.
  `SlotsAccounted` (`PermitsAccounted`): the invariant counts the holders, a
  finite set, and each action moves one permit and one holder or neither.
  `Refinement` (`ImplementsAtLeastOnce`): each step maps to a delivery, a
  rejection, an acknowledgement (which needs `AckInv`) or a stutter.
  `DuplicatesPaidFor` (`DuplicatesNeedFaults`): the property counts only what
  was delivered, and a copy that is still to be sent may become a delivery at
  any time. `CopiesPaid` therefore counts the deliveries of a message and its
  copies (the workers with it in an unsent batch, and the subscription if it may
  hand it out) together, against one plus the faults; `RoundsOK` says that a
  message is in one batch of a round, so that sending it takes one copy away.
- **`GcpToken`**, for any number of workers. `HerdBounded`
  (`NoThunderingHerd`) and `RefreshesExclude` (`HerdInv`): whoever refreshes
  holds the lock, one worker holds it at most, and whenever the token is
  expired, flagged or being refreshed there is a cause to pay for a refresh.
  `AcksFresh` (`AcksUseFreshToken`): each of the three steps that lead to an
  ack has found the token valid, or got a new one, when it captures it.
- **`PrepareBatches`**, for any limits and entries. `LimitsRespected`
  (`BatchesWithinLimits`): the invariant `LimitsInv` adds that the *open* batch
  is within the limits, for which the first entry of a batch must fit alone,
  which is what `perform_pull` sorts out. `PackingIsExact` (`PackingExact`)
  follows from `PackingInv`: the size that is carried along is the number of
  bytes of the open batch (`OpenSizeExact`), and the entry that closed the last
  batch, which is in the open one, did not fit into it (`LastSplitNeeded`). The
  length of an array is the number of its bytes, a set of places, so that it
  can be reasoned about without induction over the entries.
- **`SelfMonitoring`**, for any processes, part of the map, reports and faults.
  `EveryLossHasAFault` (`SelfMonitoringInv`): a period is counted as lost when
  it ends, long after what went wrong. `LossesPaid` therefore counts the lost
  periods and the processes that are `Doomed` together, against the faults: a
  process is doomed when its period lacks something already, or when some
  descriptor does not take the series (`Ready`) and the process has no request
  left that would repair it. What makes this inductive although the processes
  repair, and delete, each other's descriptors is that no step of any process
  makes a ready descriptor unready (`ReadyStays`): a missing descriptor is as
  good as the right one, as Cloud Monitoring then makes one for the series.
  TLC found `LossesPaid` true, with one fault more than the run has, before it
  was proved. `DescriptorsStayReady` is the action property on its own:
  no step makes an accepting descriptor refuse the series.
- **`Helpers`**. `ChunksExact`: `chunks`, which cuts the ack ids and the series
  into requests, yields for any list and any size consecutive slices that hold
  every element once; none is empty and all but the last are full.
  `ChunksRejoin`: put together they are the list. `ThrottlingExact`: a message
  that comes any number of times is printed as often as the limit says, then
  announced once, then silent. `NewestKept`: of any list of versions of two
  parts and one shape the newest is kept; without the shape only
  `KeptVersionGreatest` holds, which compares versions as the code does, as
  numbers without dots. `HelpersCorrect` (`HelpersTrue`) applies them.
- **`SelfMonitoringSeries`**. `SeriesAccepted` (`SelfMonitoringAccepted`) rests
  on lemmas for any report, projects and processes: the key of a series follows
  from its type and labels (`CycleSeriesDetermined`), two processes that differ
  in container or pid have no series in common (`ForwardersDiffer`), and each
  series has the labels of its descriptor (`LogSeriesLabelled`).
- **`MetricLines`**. `LinesCorrect` (`LinesTrue`) has four parts.
  `OverrideKept`: whichever way an override of the sample period comes, no metric
  is asked for in shorter steps. `CutLinesAddUp`: for any series and any cut,
  each series is in exactly one line, a line has the sum or the mean of the
  series it stands for, those of its entity where the series come as they are,
  and lines with the same dimensions are of different entities of a cumulative
  metric, and only when what names them is cut. Its key is that the entity is a
  function of the values of the labels that name it (`EntityOfKept`): while
  these are kept, the dimensions decide about the entity. `ReadsEachPage`: any number of pages is read once and in
  order, for any pages of which those with an error have no series, as the error
  documents of Cloud Monitoring. `FiguresOfSamples`: the line of a distribution
  has the count and the sum of any samples with an integer mean in any ascending
  bounds, and extremes around the mean, unless a sample is in the bucket above all bounds,
  which has no upper end. A sample is between the bounds of its bucket
  (`BucketFacts`), the buckets that are reported hold all samples however many
  zeros follow (`ReportedBuckets`), so the bounds around them enclose every
  sample (`BoundsEnclose`) and therefore the mean (`TotalWithin`); where the code
  has no bounds to report it reports the mean. `FiguresOfMerged`:
  lines that are true of their samples are merged to one that is true of all.
- **`MetricDimensions`**. `DimensionsCorrect` (`DimensionsTrue`) rests on
  `ValueWellQuoted` (of any value over any alphabet, cut anywhere, no quote is left open and the
  backslashes at the end are even in number: the invariant of the loop over the
  characters counts the backslashes before each place, `TrailingAfter`),
  `OrderOfFilterIrrelevant` (the longest prefix that matches decides, wherever
  it stands, `LongestDecides`), `SeriesToldApart` (series that
  differ in a label that is not cut differ in their dimensions, provided that no
  label is sent under the key of another), `CutAndNothingElse`,
  `LineMeetsItsEntity` and `LineMeetsEntity` (a line has the id of an entity
  exactly when it has the values of its parts).
- **`LogEntries`**. `EntriesCorrect` (`EntriesTrue`) rests on
  `OrderOfFilesIrrelevant`, for any rules of which at most one applies to an
  entry, at first and after one has rewritten its type, which is what the order
  of the files could change; `AttributesSet`, which says of the rules of the
  model what they set; and `NothingDisappears`, for any configuration that gives
  a record its content: what does not become an entry is counted once.

The theorems about the algorithms hold for any arguments of the kind they name,
not only for the inputs of `MCAlgorithms`; those that end in `Correct` apply
them to every input of that machine. The algorithms are folds, so each proof is
an induction over data. An induction theorem that takes a predicate cannot be
used with the provers at hand, so two things replace it. `InductionOnNat` and
`InductionUpTo` are about a *set* of numbers, `{k \in 0..n : ...}`, which is a
value: it holds 0, and k when it holds k - 1, so it holds n. They follow from
`LeastOfSet`, a least element of any set of naturals, which the library's
theorem that inclusion of finite sets is well-founded gives. The folds of the
community modules recurse over sets of positions; `FoldExists` shows that there
is a function with that recursion, so that the one they choose satisfies it. A fold lemma per use of `FoldLeft` (`ThrottledFold`,
`KeptVersionFold`, `TotalFold`, ...) takes from it a sequence of intermediate
results with `f[0]` the start and `f[k]` made of `f[k - 1]` and the element `k`,
and the theorem is then an induction over `k` with an invariant of the loop.

- **`MetricsLoop`**, for any interval, thresholds, durations and jitter.
  `StaysNearClock` (`ExecutionTimeNearClock`).
  `NothingQueriedTwice` (`NoOverlap`) needs `OverlapInv`: as long as
  the clock was not set back, a cycle begins no earlier after the last execution
  time than the interval less the catch-up threshold (`OnSchedule`), so neither
  snapping, catching up nor giving up can move the window back over the last one.
  `ResetsBounded` (`ResetsNeedDisturbances`): the delays of any number of
  undisturbed cycles must not add up, so `ResetsInv` says in which states no
  reset is due (`Settled`, by bounds on the age and the time spent in each
  phase) and counts together with the resets those that are due: one unless the
  loop is settled, two when the start of the cycle is off the clock
  (`OffClock`), and all are paid for by disturbances (`Paid`). It rests on
  `SmallDelaysAssumption`, that waking up and preparing a cycle together take no
  longer than the catch-up threshold, and that the hard reset has at least twice
  that (one minute and thirty in the code): a cycle that begins later than that
  is a stall.
- **`MetricPush`**, for any number of projects and lines and any concurrency.
  `FewRefusals` (`RefusalsBounded`): `SlotsInv` bounds the batches posting and
  raised together by the slots, and says that a batch that raised has set the
  abort flag. `FailuresIsolated` (`SkippedForAReason`) and `RefusalHeeded`
  (`NoPushAfterRefusal`) follow from `RefusalInv`: the connectivity is not Ok
  exactly when some batch was refused, and a project that is still fetching has
  no batches. `NoLineUnaccounted` (`LinesAccounted`): the batches of a project
  are slices of its lines, apart from each other (`BatchesApart`) and together
  all of them (`EveryLineInABatch`, which is where the rounding of `BatchCount`
  matters), so each counted batch takes `Size` lines from the uncounted ones.
- **`ExtensionsRefresh`**, for any extensions and versions. `OneRefresh`
  (`ServicesMatchVersions`): `MatchInv` follows the services through the task,
  its result and the loop. `AlwaysServed` (`NeverWithoutServices`): `ServedInv`
  adds that a result that is ready is not empty. `ChangesReachPolls`
  (`ActiveWithinTwoCycles`): `SteadyInv` says what the task has found, returned
  or handed over since the poll that began after the last trouble; its key
  lemma is that loading an extension adds exactly what a refresh finds now.

- **`Autodiscovery`**, for any services, metrics, projects, versions and
  mappings. `VersionsNotLost` (`NoChangeLost`): `Knows` adds that the cached
  services are those of the versions polled last, and that a discovery under
  way that is behind them has its event set. `NothingTwice` (`AutodiscoveryInv`):
  `Offers` ties the metadata offered to the names remembered, `Apart` says that
  what a discovery has stored is in no service of the versions it ran for; the
  loop may have moved on to others, but then `Knows` says that the next
  discovery is outstanding. If that one stores nothing, the metric is polled
  twice, and the theorem claims no more than the code does.
- **`MetricsCycle`**, for any listing, services, queries, filters and faults.
  `CycleInvariant` (`CycleInv`) and `LossesAreExplained` (`LossesExplained`)
  share one inductive invariant, `IInv`, with a part for each stage of the
  cycle: `ListingInv` (the pages before the next one are found, and only a
  fault ends the listing early), `CheckInv` (what is known of a project is what
  is off in it, unless its check failed), `StageInv` (only checked projects are
  processed, and only until the cycle ends), `TopologyInv` (what each result
  of an extraction says of the project), `FetchingInv` (nothing is fetched
  before the topology is complete) and `DataInv`: at each stage of a project,
  an expected query is still to be sent, has lines, is delivered, or its loss
  is explained by a fault. The last part is what `LossesExplained` says of the
  end of a cycle only. The key lemmas are that a project that is left out was
  in a page the listing did not reach (`LeftOutIsExplained`), that a query that
  is not sent has a service whose extraction failed (`UnsentIsExplained`), and
  that a push that is skipped has the refusal of another project behind it
  (`LinesPushed`). TLC found `IInv` true on `metrics_cycle`, with
  and without scoping projects, before it was proved.

**Only model-checked.** Liveness under fairness (`WorkersKeepPulling`,
`EventuallyAcked`, `BadTokenReplaced`, `WorkersKeepGoing`, `ResetsStop`,
`KeepsUp`, `PushesEnd`, `PollsGoOn`, `PollingStarts`, `VersionsReachDiscovery`,
`CycleEnds`, `PeriodsGoOn`, `DescriptorsSettle`) is out of the prover's reach.
Every invariant of the passing runs is a theorem.

## What is not modelled, and why

- *The layout of data*: the mapping of an answer to an entity in each extractor,
  the parsing of extension files, the text of log lines, dashboards. They have
  no control to check. JMESPath expressions are outcomes of their evaluation.
- *Pure input and output*: startup checks, the web server (it shares no state
  with the loops), reading of configuration, URL and key lookup, statistics of
  latencies that are only printed.
- *In the modelled components*: the recreation of closed sessions in logs mode,
  `KEEP_REFRESHING_EXTENSIONS_CONFIG=false`, the retry delays of the push.
- *Strings and numbers*: sizes and times are small naturals; floating-point sums
  are not modelled, and the samples of a distribution have integer means.

## Plan

Modules were written in the order of what a failure costs: lost logs, lost
metrics, stale services, missing metadata, self-monitoring. Every component with
a state that more than one step shares has its module.

A composition worth adding is `GcpToken` with `LogForwarder`: a bad token delays
the messages and loses none. Each is checked under the outcomes the other may
give it, a pull or ack that fails, so nothing hides in the seam but time.
