---------------------------- MODULE MCAlgorithms ----------------------------
(***************************************************************************)
(* The pure algorithms, each over all of its small inputs.  An initial     *)
(* state chooses an algorithm, the subject, and an input for it; the       *)
(* subject "batches" then runs PrepareBatches step by step, the others are *)
(* functions, whose properties are invariants of their inputs.             *)
(***************************************************************************)
EXTENDS PrepareBatches, MetricLines, MetricDimensions, LogEntries, Helpers,
        SelfMonitoringSeries

VARIABLES subject, input

UpTo(S, n) == UNION {[1..k -> S] : k \in 0..n}

-----------------------------------------------------------------------------
(***************************************************************************)
(* Values of distributions: samples with an integer mean, under bounds.    *)
(***************************************************************************)
Bounds == {<<>>, <<2>>, <<2, 4>>, <<1, 2, 4, 8>>}
Samples == {s \in UpTo({0, 1, 3, 5, 9}, 3) : s = <<>> \/ Total(s) % Len(s) = 0}
DistributionInputs ==
    [samples : Samples, others : {<<3>>, <<1, 3, 5>>}, bounds : Bounds,
     layout : {"explicit", "computed"}, zeros : {0, 2}, percent : BOOLEAN]

\* Without bounds there is one bucket, and a computed layout has bounds.
LineOf(samples, i) ==
    DistributionLine(Distribution(samples, i.bounds, i.zeros), i.layout, i.bounds, i.percent)
InOverflow(samples, bounds) ==
    bounds # <<>> /\ \E n \in DOMAIN samples : samples[n] >= bounds[Len(bounds)]

\* The figures sent of a distribution, also of one that was added up from
\* several series, tell the truth: count and sum are those of the samples, min
\* and max enclose their mean, unless a sample lies above the last bound (the
\* overflow bucket has no upper bound to send).
FiguresTrue(line, samples, i) ==
    LET factor == IF i.percent THEN 100 ELSE 1
    IN  /\ line.count = Len(samples)
        /\ line.sum = factor * Total(samples)
        /\ line.min <= line.max
        /\ ~InOverflow(samples, i.bounds) =>
              line.min * line.count <= line.sum /\ line.sum <= line.max * line.count
DistributionsTrue ==
    subject = "distribution" =>
        LET line == LineOf(input.samples, input)
            other == LineOf(input.others, input)
        IN  /\ FiguresTrue(line, input.samples, input)
            /\ input.samples # <<>> =>
                  FiguresTrue(Merged(line, other), input.samples \o input.others, input)

-----------------------------------------------------------------------------
(***************************************************************************)
(* Excluded dimensions: series over two labels.                            *)
(***************************************************************************)
LabelSets == [{"zone", "kind"} -> {"a", "b"}]
SeriesInputs ==
    [series : UNION {[S -> {1, 2}] : S \in SUBSET LabelSets},
     excluded : SUBSET {"zone", "kind"}, named : {<<>>, <<"zone">>, <<"zone", "kind">>},
     kind : {"cumulative", "gauge", "delta"}, type : {"int64", "double", "distribution"}]

\* The series that a line stands for: those with its dimensions and, where the
\* series come as they are, of its entity.
StandsFor(line, series, kind, excluded, named) ==
    {labels \in DOMAIN series :
        /\ Kept(labels, excluded) = line.dimensions
        /\ kind = "cumulative" => Entity(labels, named) = line.entity}

\* Cutting dimensions changes nothing of what the lines add up to: each series
\* is in exactly one line, and a line says what its series say together, whoever
\* adds them up, Cloud Monitoring or the program.  Nor does it make two lines of
\* one entity with the same dimensions, of which Dynatrace would keep one.  Two
\* entities do get lines with the same dimensions, but only of a cumulative
\* metric, and only when what tells the entities apart is cut.
ExcludedDimensionsAddUp ==
    subject = "series" =>
        LET sent == Lines(input.series, input.kind, input.type, input.excluded, input.named)
            of(line) == StandsFor(line, input.series, input.kind, input.excluded, input.named)
        IN  /\ \A labels \in DOMAIN input.series : \E line \in sent :
                  \A other \in sent : labels \in of(other) <=> other = line
            /\ \A line \in sent :
                  line.value = IF input.kind = "gauge" /\ input.type # "distribution"
                               THEN AverageOf(input.series, of(line))
                               ELSE SumOf(input.series, of(line))
            /\ \A line \in sent : of(line) # {}
            /\ \A a, b \in sent : a # b /\ a.dimensions = b.dimensions =>
                  /\ a.entity # b.entity
                  /\ input.kind = "cumulative"
                  /\ ToSet(input.named) \intersect input.excluded # {}

-----------------------------------------------------------------------------
(***************************************************************************)
(* Pages of a query, and the period it asks for.                           *)
(***************************************************************************)
Pages == {[error |-> TRUE, series |-> <<>>], [error |-> FALSE, series |-> <<>>],
          [error |-> FALSE, series |-> <<"a">>], [error |-> FALSE, series |-> <<"b", "c">>]}
PageInputs == UpTo(Pages, 4) \ {<<>>}

\* A query reads each page once, in order, and all of them, unless a page fails,
\* which costs the query, or a page comes without series, which ends it.
PagesRead ==
    subject = "pages" =>
        LET query == Read(input)
            stops == {n \in DOMAIN input : input[n].series = <<>>}
            first == CHOOSE n \in stops : \A m \in stops : n <= m
            seen == IF stops = {} THEN Len(input) ELSE first - 1
        IN  IF stops # {} /\ input[first].error
            THEN query.end = "raised" /\ query.series = <<>>
            ELSE /\ query.end = "read"
                 /\ query.series = FlattenSeq([n \in 1..seen |-> input[n].series])

PeriodInputs ==
    [samplePeriod : {0, 60, 300}, raw : {{}, {-60}, {0}, {30}, {120}, {300}, {600}},
     linked : BOOLEAN]

\* Whichever way a metric gets its override, as a metric of the service or
\* through the service an autodiscovered metric is linked to, it is not asked
\* for in steps shorter than the override, and the dimension that tells of the
\* override is there exactly when it changed the period.
OverrideHonoured ==
    subject = "period" =>
        LET period == SamplePeriod(input.samplePeriod, IF input.linked THEN {} ELSE input.raw)
            asked == Alignment([period |-> period, linked |-> input.linked,
                                override |-> ParsedOverride(input.raw)])
            base == IF input.samplePeriod = 0 THEN 60 ELSE input.samplePeriod
        IN  /\ asked.seconds >= base /\ \A override \in input.raw : asked.seconds >= override
            /\ asked.marked <=> (asked.seconds # base)

\* A line says what the samples of its series say, of the whole query and in
\* the steps that were asked for.
LinesTrue ==
    DistributionsTrue /\ ExcludedDimensionsAddUp /\ PagesRead /\ OverrideHonoured

-----------------------------------------------------------------------------
(***************************************************************************)
(* Dimension values, names and exclusion.                                  *)
(***************************************************************************)
TextInputs ==
    [value : UpTo({"x", Backslash, Quote, Newline}, 4), max : 1..5, maxLine : 3..4]

\* A quoted value can be read back: no quote ends it early, no backslash
\* at its end takes the closing quote, and every line stays a line.
EscapedAt(text, i) ==
    TrailingBackslashes(SubSeq(text, 1, i - 1)) % 2 = 1
WellQuoted(text) ==
    /\ \A i \in DOMAIN text : text[i] = Quote => EscapedAt(text, i)
    /\ ~EscapedAt(text, Len(text) + 1)
    /\ \A i \in DOMAIN text : text[i] # Newline

\* Whatever a label contains and wherever its value is cut, the line of the
\* metric stays readable, within the limits of both settings.
ValuesWellQuoted ==
    subject = "text" =>
        LET text == ValueText(input.value, input.max, input.maxLine)
        IN  WellQuoted(text) /\ Len(text) <= input.max /\ Len(text) <= input.maxLine

Names == {<<"a">>, <<"a", "b">>, <<"a", "b", "c">>, <<"b">>}
FilterInputs ==
    {i \in [metric : Names,
            entries : UpTo([prefix : Names, dimensions : {{}, {"zone"}}], 3)] :
        \A m, n \in DOMAIN i.entries : i.entries[m].prefix = i.entries[n].prefix => m = n}

\* The order of the filter-out list does not matter: the most specific entry
\* decides, so a metric can be taken out of a group that is excluded.
FilterOrderIrrelevant ==
    subject = "filter" =>
        \A p \in Bijection(DOMAIN input.entries, DOMAIN input.entries) :
            ExcludedEntry(input.metric, [n \in DOMAIN input.entries |-> input.entries[p[n]]])
                = ExcludedEntry(input.metric, input.entries)

Sources == {<<"resource", "zone">>, <<"resource", "project_id">>, <<"metric", "kind">>,
            <<"user", "team">>}
Declarations ==
    {[source |-> <<"resource", "zone">>, key |-> "az"],
     [source |-> <<"resource", "zone">>, key |-> "place"],
     [source |-> <<"metric", "kind">>, key |-> ""],
     [source |-> <<"resource", "project_id">>, key |-> "project"]}
Labellings == UNION {[S -> {"u", "v"}] : S \in {Sources, Sources \ {<<"metric", "kind">>}}}
DimensionInputs ==
    [declared : SUBSET Declarations, cut : SUBSET {"zone", "kind", "az"},
     labels : Labellings, others : Labellings]
PairsOf(dimensions) == {<<d[2], d[3]>> : d \in dimensions}

\* Two series that differ in a label that is not cut have different dimensions
\* in Dynatrace, also when nobody declared the label; and nothing is sent of
\* the labels that are cut.
SeriesStayDistinct ==
    subject = "dimensions" =>
        LET cut == CutSources(input.declared, input.cut)
            sent == Dimensions(input.declared, input.cut, input.labels)
            other == Dimensions(input.declared, input.cut, input.others)
        IN  /\ (Kept(input.labels, cut) # Kept(input.others, cut))
                  => (PairsOf(sent) # PairsOf(other))
            /\ \A d \in sent : d[1] \notin cut
            /\ \A source \in DOMAIN input.labels \ cut : \E d \in sent : d[1] = source

-----------------------------------------------------------------------------
(***************************************************************************)
(* Entities.                                                               *)
(***************************************************************************)
InstanceLabels == {"project_id", "zone", "instance_id"}
Orders == {<<"project_id", "zone", "instance_id">>, <<"instance_id", "project_id", "zone">>,
           <<"project_id", "instance_id", "region">>}
EntityInputs ==
    [dimensions : Orders, instance : [InstanceLabels -> {"p", "q"}],
     other : [InstanceLabels -> {"p", "q"}], cut : SUBSET {"zone", "instance_id"},
     reducer : {"none", "mean"}, ips : UpTo({1, 2}, 2)]

\* A line is joined with the entity of its own instance and no other, unless
\* dimensions are cut by Cloud Monitoring itself: then it is joined with none.
JoinsItsEntity ==
    subject = "entity" =>
        LET labels == IF input.reducer = "none" THEN input.instance
                      ELSE Kept(input.instance, input.cut)
            named == ToSet(input.dimensions) \intersect InstanceLabels
            line == LineId("gce", input.dimensions, labels)
            id(i) == EntityId("gce", input.dimensions, InstanceLabels, i)
        IN  /\ named \subseteq DOMAIN labels => line = id(input.instance)
            /\ line = id(input.other) =>
                  \A l \in named : input.instance[l] = input.other[l]

\* The dimensions of an entity do not depend on the order in which an API lists
\* its addresses: a metric would get a new series with each change.
EnrichmentStable ==
    subject = "entity" =>
        Enrichment([ips |-> input.ips, properties |-> input.cut])
            = Enrichment([ips |-> Reverse(input.ips), properties |-> input.cut])

\* The dimensions of a line can be read, tell its series apart, do not depend on
\* orders that mean nothing, and lead to the entity the line is about.
DimensionsTrue ==
    /\ ValuesWellQuoted /\ FilterOrderIrrelevant /\ SeriesStayDistinct
    /\ JoinsItsEntity /\ EnrichmentStable

-----------------------------------------------------------------------------
(***************************************************************************)
(* Log entries, under rules of the kinds the configuration has: one for a  *)
(* resource type, one that rewrites the type, one with a source that       *)
(* cannot be parsed, the audit rules and the default.                      *)
(***************************************************************************)
TypeIs(type) == [of |-> "resourceType", accepts |-> {type}, valid |-> TRUE]
Unparsed == [of |-> "resourceType", accepts |-> {"lb", "bucket", "vm"}, valid |-> FALSE]
RuleOf(sources, attributes) == [sources |-> sources, attributes |-> attributes]
TypeRules ==
    <<RuleOf({TypeIs("bucket")}, [content |-> "@"]),
      RuleOf({TypeIs("lb")}, [key \in {"content", "gcp.resource.type"} |->
                                 IF key = "content" THEN "@" ELSE "https_lb_rule"]),
      RuleOf({TypeIs("lb"), Unparsed}, [key \in {"gcp.resource.type"} |-> "broken"])>>
AuditRules ==
    <<RuleOf({[of |-> "logName", accepts |-> {"audit"}, valid |-> TRUE]},
             [key \in {"content", "audit.result"} |->
                 IF key = "content" THEN "@" ELSE "Succeeded"])>>
DefaultRules == <<RuleOf({}, [content |-> ContentOrAll])>>
ConfigOf(rules) ==
    [rules |-> Loaded("types", rules), audit |-> Loaded("audit_logs", AuditRules),
     default |-> Loaded("default", DefaultRules)]
Config == ConfigOf(TypeRules)

EntryInputs ==
    {m \in [form : {"object", "text", "other_json", "binary"}, type : {"lb", "bucket", "vm"},
            logName : {"audit", "sys"}, content : {Absent, "plain"}, length : 0..4,
            timestamp : {Absent, "fresh", "old", "no_date", "no_string", "no_zone"},
            published : {"fresh", "old"}] :
        /\ m.form = "text" => m.content = "plain"
        /\ m.form # "object" => m.timestamp = Absent /\ m.type = "vm" /\ m.logName = "sys"
        /\ m.form # "text" => m.length > 0}

\* The attributes of an entry do not depend on the order in which the files of
\* the rules are found on the disk, although a rule may rewrite the type that
\* the others look at; and an audit log has its audit attributes and those of
\* its resource type.
RulesIndependent ==
    subject = "entry" =>
        LET entry == Attributes(input, Config)
        IN  /\ \A p \in Bijection(DOMAIN TypeRules, DOMAIN TypeRules) :
                  Attributes(input, ConfigOf([n \in DOMAIN TypeRules |-> TypeRules[p[n]]])) = entry
            /\ (input.form = "object" /\ input.logName = "audit") =>
                  entry["audit.result"] = "Succeeded"
            /\ (input.form = "object" /\ input.type = "lb") =>
                  entry["gcp.resource.type"] = "https_lb_rule"

\* No message disappears unnoticed: unless it is empty it becomes an entry with
\* its content, cut to the limit and counted if it was longer, or it is counted
\* once, as too old or as a parsing error.  (A JSON value that is no object
\* becomes an entry without content.)
DropsCounted ==
    subject = "entry" =>
        LET outcome == Outcome(input, Config)
            dropped == outcome.counts["too_old_records"] + outcome.counts["parsing_errors"]
            cut == input.length > ContentLimit
        IN  IF outcome.entry
            THEN /\ dropped = 0
                 /\ input.form # "other_json" =>
                      /\ outcome.length = (IF cut THEN ContentLimit ELSE input.length)
                      /\ cut <=> (outcome.counts["records_with_too_long_content"] = 1)
            ELSE dropped = IF input.form = "text" /\ input.length = 0 THEN 0 ELSE 1

\* A log message becomes the same entry whatever the order of the rules' files,
\* or is counted.
EntriesTrue == RulesIndependent /\ DropsCounted

-----------------------------------------------------------------------------
(***************************************************************************)
(* Self-monitoring of a metrics cycle and of a period of the log forwarder.*)
(***************************************************************************)
Some == SUBSET {"p", "q"}
CycleInputs ==
    [ok : Some, invalid : Some, dropped : Some, setup : Some, fetch : Some, push : Some,
     requests : SUBSET {"200", "429"}, connectivity : {"Ok", "WrongURL"}]

\* Whatever a cycle has counted, Cloud Monitoring accepts all of it: no series is
\* written twice in one request, and each has the labels of the descriptor that
\* the cycle has created, if it creates one.
CycleSeriesAccepted ==
    subject = "cycle" =>
        LET sent == MetricSeries(input) \union LoopTimeoutSeries
        IN  /\ \A a, b \in sent : (a.type = b.type /\ a.labels = b.labels) => a = b
            /\ \A a \in sent : a.type \in DOMAIN MetricLabels =>
                  DOMAIN a.labels = MetricLabels[a.type]

Deployed == {<<"container 1", 1>>, <<"container 1", 2>>, <<"container 2", 1>>}
PeriodReports ==
    [counts : [Counts -> {0, 1}], connectivity : SUBSET {"Ok", "Other", "TooManyRequests"}]

\* The processes of the forwarder write to different time series, also when two
\* containers give them the same pid: Cloud Monitoring would mix or refuse their
\* points; and each series has the labels of its descriptor.
ForwardersApart ==
    subject = "forwarders" =>
        \A p \in Deployed :
            /\ \A s \in LogSeries(p, input) : DOMAIN s.labels = LogLabels[s.type]
            /\ \A q \in Deployed \ {p} : LogSeries(p, input) \intersect LogSeries(q, input) = {}

\* All self-monitoring is written to series of its own that Cloud Monitoring takes.
SelfMonitoringAccepted == CycleSeriesAccepted /\ ForwardersApart

-----------------------------------------------------------------------------
(***************************************************************************)
(* Helpers.                                                                *)
(***************************************************************************)
ChunkInputs == [list : {[i \in 1..n |-> i] : n \in 0..6}, size : 0..4]
ThrottleInputs == [calls : 0..6, limit : 0..3]
VersionInputs == UpTo({<<1, 2>>, <<1, 9>>, <<1, 10>>, <<1, 12>>, <<2, 0>>, <<2, 1>>}, 3) \ {<<>>}

\* Ack ids and time series are sent in chunks: each element is in one chunk, in
\* order, no chunk is empty, and none is larger than a request may be, also for
\* a size that is set to zero.
ChunksPartition ==
    subject = "chunks" =>
        LET parts == Chunks(input.list, input.size)
        IN  /\ FlattenSeq(parts) = input.list
            /\ \A k \in DOMAIN parts :
                  Len(parts[k]) \in 1..(IF input.size = 0 THEN 1 ELSE input.size)

\* A message that keeps coming is printed limit times, then its silence is
\* announced once, then nothing is printed of it.
ThrottlingSilences ==
    subject = "throttle" =>
        PrintedAfter(input.calls, input.limit)
            = [n \in 1..(IF input.calls <= input.limit THEN input.calls ELSE input.limit + 1) |->
                  IF n <= input.limit THEN "message" ELSE "notice"]

\* The newest version of an extension is kept, wherever it is in the list, among
\* versions whose parts have as many digits as each other (1.9 and 1.10 have
\* not: without the dots 2.0 is older than 1.10).
SameShape(a, b) == [i \in DOMAIN a |-> Digits(a[i])] = [i \in DOMAIN b |-> Digits(b[i])]
NewerThan(a, b) == a[1] > b[1] \/ (a[1] = b[1] /\ a[2] > b[2])
NewestVersionKept ==
    (subject = "versions" /\ \A m, n \in DOMAIN input : SameShape(input[m], input[n])) =>
        \A n \in DOMAIN input : ~NewerThan(input[n], KeptVersion(input))

\* Chunks, throttling and the choice of a version at their limits.
HelpersTrue == ChunksPartition /\ ThrottlingSilences /\ NewestVersionKept

-----------------------------------------------------------------------------
Inputs ==
    [distribution |-> DistributionInputs, series |-> SeriesInputs, pages |-> PageInputs,
     period |-> PeriodInputs, text |-> TextInputs, filter |-> FilterInputs,
     dimensions |-> DimensionInputs, entity |-> EntityInputs, entry |-> EntryInputs,
     chunks |-> ChunkInputs, throttle |-> ThrottleInputs, versions |-> VersionInputs,
     cycle |-> CycleInputs, forwarders |-> PeriodReports]

NoBatches ==
    /\ logs = <<>> /\ next = 1 /\ current = <<>> /\ totalLen = 0
    /\ batches = <<>> /\ finished = TRUE

AlgorithmsInit ==
    \/ subject = "batches" /\ input = <<>> /\ BatchesInit
    \/ /\ subject \in DOMAIN Inputs
       /\ input \in Inputs[subject]
       /\ NoBatches

AlgorithmsNext == BatchesNext /\ UNCHANGED <<subject, input>>

AlgorithmsSpec == AlgorithmsInit /\ [][AlgorithmsNext]_<<batchVars, subject, input>>
=============================================================================
