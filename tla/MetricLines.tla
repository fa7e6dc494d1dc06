----------------------------- MODULE MetricLines -----------------------------
(***************************************************************************)
(* How a time series of Cloud Monitoring becomes lines of the metric       *)
(* ingest (fetch_metric and what it calls in metric_ingest.py, the classes *)
(* of metrics.py): alignment and reduction, paging, the value of a         *)
(* distribution, local aggregation, dimensions, the text of a dimension    *)
(* value, and the id that joins a line with the entity it is about.        *)
(* Everything here is a function of its arguments.                         *)
(***************************************************************************)
EXTENDS Integers, Sequences, FiniteSets, SequencesExt, MetricDimensions

NoLine == [min |-> 0, max |-> 0, count |-> 0, sum |-> 0]
LeastOf(a, b) == IF a <= b THEN a ELSE b
GreatestOf(a, b) == IF a >= b THEN a ELSE b
Total(samples) == FoldLeft(LAMBDA a, b : a + b, 0, samples)

-----------------------------------------------------------------------------
(***************************************************************************)
(* The window and the period of a query.                                   *)
(***************************************************************************)
\* minSamplePeriodOverride as GCPService and Metric parse it, the set of the
\* number it says, {} for none: what is not a positive number counts as zero.
ParsedOverride(raw) == IF \E n \in raw : n > 0 THEN CHOOSE n \in raw : TRUE ELSE 0

\* The sample period of a metric, and whether the override has set it.
SamplePeriod(samplePeriod, raw) ==
    LET base == IF samplePeriod = 0 THEN 60 ELSE samplePeriod
        override == ParsedOverride(raw)
    IN  IF override > 0 /\ base < override
        THEN [seconds |-> override, overridden |-> TRUE]
        ELSE [seconds |-> base, overridden |-> FALSE]

\* Mutant: the override of the linked service does not reach the metric.
AlignmentUnlinked(metric) ==
    [seconds |-> metric.period.seconds, marked |-> metric.period.overridden]

\* alignment_period of fetch_metric and the dimension that tells of it; an
\* autodiscovered metric takes the override of the service it is linked to.
Alignment(metric) ==
    IF metric.linked /\ metric.override > 0 /\ metric.period.seconds < metric.override
    THEN [seconds |-> metric.override, marked |-> TRUE]
    ELSE [seconds |-> metric.period.seconds, marked |-> metric.period.overridden]

\* _set_aligner and _set_reducer, for the kinds and types of Cloud Monitoring.
Aligner(kind, type) ==
    IF type = "bool" THEN "count true"
    ELSE IF kind = "cumulative" THEN "delta"
    ELSE IF kind = "gauge" /\ type \in {"int64", "double"} THEN "mean" ELSE "sum"

Reducer(kind, type) ==
    IF kind = "cumulative" THEN "none"
    ELSE IF kind = "gauge" /\ type \in {"int64", "double"} THEN "mean" ELSE "sum"

-----------------------------------------------------------------------------
(***************************************************************************)
(* Pages of one query: an error document, or the series of the page.       *)
(***************************************************************************)
HasToken(params) == \E i \in DOMAIN params : params[i][1] = "pageToken"
FirstToken(params) ==
    CHOOSE i \in DOMAIN params : /\ params[i][1] = "pageToken"
                                 /\ \A j \in 1..(i - 1) : params[j][1] # "pageToken"

\* Mutant: the token is always appended.
NextParamsAppended(params, token) == Append(params, <<"pageToken", token>>)

\* _update_params: the first token is replaced, else the token is appended.
NextParams(params, token) ==
    IF HasToken(params) THEN [params EXCEPT ![FirstToken(params)] = <<"pageToken", token>>]
    ELSE Append(params, <<"pageToken", token>>)

\* Cloud Monitoring answers the page of the first token it finds, else page 1.
PageAsked(params) == IF HasToken(params) THEN params[FirstToken(params)][2] ELSE 1

\* One request of the loop of fetch_metric: an error document raises, a page
\* without series ends the loop, also when more pages follow.
Request(query, pages) ==
    LET asked == PageAsked(query.params)
        now == pages[asked]
    IN  CASE query.end # "reading" -> query
          [] query.end = "reading" /\ now.error ->
                [query EXCEPT !.end = "raised", !.series = <<>>]
          [] query.end = "reading" /\ ~now.error /\ now.series = <<>> ->
                [query EXCEPT !.end = "read"]
          [] OTHER ->
                [end |-> IF asked = Len(pages) THEN "read" ELSE "reading",
                 series |-> query.series \o now.series,
                 params |-> IF asked = Len(pages) THEN query.params
                            ELSE NextParams(query.params, asked + 1)]

\* All requests of a query; with one more than pages it would not end.
Read(pages) ==
    FoldLeft(LAMBDA query, n : Request(query, pages),
             [end |-> "reading", series |-> <<>>, params |-> <<>>],
             [n \in 1..(Len(pages) + 1) |-> n])

-----------------------------------------------------------------------------
(***************************************************************************)
(* The value of a point: a number, or the four figures of a distribution.  *)
(***************************************************************************)
\* What Cloud Monitoring reports of samples under bounds: bucket i counts the
\* samples between bound i and bound i + 1; trailing zeros may be left out.
BucketOf(sample, bounds) == Cardinality({i \in DOMAIN bounds : bounds[i] <= sample})
Distribution(samples, bounds, zeros) ==
    LET in(b) == Cardinality({i \in DOMAIN samples : BucketOf(samples[i], bounds) = b})
        last == CHOOSE b \in 0..Len(bounds) :
                    in(b) > 0 /\ \A c \in (b + 1)..Len(bounds) : in(c) = 0
    IN  [count |-> Len(samples), sum |-> Total(samples),
         buckets |-> IF samples = <<>> THEN <<>>
                     ELSE [i \in 1..LeastOf(last + 1 + zeros, Len(bounds) + 1) |-> in(i - 1)]]

\* _gauge_line: the unit 10^2.% is a fraction, and sent as percents.
GaugeLine(min, max, count, sum, percent) ==
    LET factor == IF percent THEN 100 ELSE 1
    IN  [min |-> factor * min, max |-> factor * max, count |-> count, sum |-> factor * sum]

FirstFilled(buckets) ==
    CHOOSE i \in DOMAIN buckets :
        (buckets[i] > 0 /\ \A j \in 1..(i - 1) : buckets[j] = 0)
        \/ (i = Len(buckets) /\ \A j \in DOMAIN buckets : buckets[j] = 0)

\* The bound at a 0-based index; behind the last one stands the last one.
BoundAt(bounds, i) == bounds[LeastOf(i + 1, Len(bounds))]

\* Mutant: the lower bound is taken one bucket late.
ExtremesLate(d, layout, bounds, mean) ==
    LET lowest == FirstFilled(d.buckets) - 1
        highest == Len(d.buckets) - 1
        finite == Len(bounds) - 1
    IN  IF /\ d.count > 2 /\ lowest # 0 /\ bounds # <<>>
           /\ layout = "explicit" \/ Len(d.buckets) < finite
        THEN <<BoundAt(bounds, lowest), BoundAt(bounds, highest)>>
        ELSE <<mean, mean>>

\* min and max of extract_value: the bounds around the filled buckets, but the
\* mean for one or two samples, for samples below all bounds, and where the
\* buckets of a computed layout (linear, exponential) are all reported.
Extremes(d, layout, bounds, mean) ==
    LET lowest == FirstFilled(d.buckets) - 1
        highest == Len(d.buckets) - 1
        finite == Len(bounds) - 1    \* numFiniteBuckets of a computed layout
    IN  IF /\ d.count > 2 /\ lowest # 0 /\ bounds # <<>>
           /\ layout = "explicit" \/ Len(d.buckets) < finite
        THEN <<BoundAt(bounds, lowest - 1), BoundAt(bounds, highest)>>
        ELSE <<mean, mean>>

DistributionLine(d, layout, bounds, percent) ==
    IF d.count = 0 THEN NoLine
    ELSE LET extremes == Extremes(d, layout, bounds, d.sum \div d.count)
         IN  GaugeLine(extremes[1], extremes[2], d.count, d.sum, percent)

\* Mutant: the merged line is scaled again.
MergedScaled(a, b) ==
    GaugeLine(LeastOf(a.min, b.min), GreatestOf(a.max, b.max),
              a.count + b.count, a.sum + b.sum, TRUE)

\* _merge_distribution_values
Merged(a, b) ==
    GaugeLine(LeastOf(a.min, b.min), GreatestOf(a.max, b.max),
              a.count + b.count, a.sum + b.sum, FALSE)

-----------------------------------------------------------------------------
(***************************************************************************)
(* Excluded dimensions.  A series is a function from its labels to their   *)
(* values; a query maps series to what they count, at one time.  named are *)
(* the dimensions of the service, in the order that its entities' ids have.*)
(***************************************************************************)
Kept(labels, excluded) == [l \in DOMAIN labels \ excluded |-> labels[l]]

\* The entity of a line is named by the labels its series came with, also by
\* those that are excluded.
Entity(labels, named) == LineId("service", named, labels)

SumOf(series, group) ==
    FoldLeft(LAMBDA sum, labels : sum + series[labels], 0, SetToSeq(group))
AverageOf(series, group) == SumOf(series, group) \div Cardinality(group)

\* What Cloud Monitoring returns: with the reducer "none" the series as they
\* are, with all their labels, else one for each combination of what the query
\* groups by, the labels that are not excluded.
GroupedBy(series, excluded, dimensions) ==
    {labels \in DOMAIN series : Kept(labels, excluded) = dimensions}
Returned(series, excluded, reducer) ==
    IF reducer = "none" THEN series
    ELSE [dimensions \in {Kept(labels, excluded) : labels \in DOMAIN series} |->
             IF reducer = "mean" THEN AverageOf(series, GroupedBy(series, excluded, dimensions))
             ELSE SumOf(series, GroupedBy(series, excluded, dimensions))]

\* Mutant: the lines of cumulative metrics are sent as they come.
AggregatesNowhere(kind, type, excluded) == FALSE

\* aggregate_locally
Aggregates(kind, type, excluded) ==
    excluded # {} /\ kind = "cumulative" /\ type \in {"int64", "double", "distribution"}

\* The key of _add_aggregated_line: name, type and time of the metric are the
\* same for all the lines here.
KeyOf(labels, excluded, named) ==
    [entity |-> Entity(labels, named), dimensions |-> Kept(labels, excluded)]
SameKey(returned, excluded, named, labels) ==
    {other \in DOMAIN returned : KeyOf(other, excluded, named) = KeyOf(labels, excluded, named)}

\* A line of a series, or of several; "of" tells which, and so keeps apart two
\* lines that say the same.
Line(key, value, group) ==
    [entity |-> key.entity, dimensions |-> key.dimensions, value |-> value, of |-> group]

\* Mutant: of the lines of a key one is kept.
LastLines(returned, excluded, named) ==
    {LET group == SameKey(returned, excluded, named, labels)
     IN  Line(KeyOf(labels, excluded, named), returned[CHOOSE other \in group : TRUE], group) :
        labels \in DOMAIN returned}
\* Mutant: the lines of different entities are merged.
LinesOfAllEntities(returned, excluded, named) ==
    {LET group == GroupedBy(returned, excluded, Kept(labels, excluded))
     IN  Line(KeyOf(CHOOSE other \in group : TRUE, excluded, named),
              SumOf(returned, group), group) :
        labels \in DOMAIN returned}

\* _add_aggregated_line, over all the lines of the query.
AggregatedLines(returned, excluded, named) ==
    {LET group == SameKey(returned, excluded, named, labels)
     IN  Line(KeyOf(labels, excluded, named), SumOf(returned, group), group) :
        labels \in DOMAIN returned}

\* The lines of a query.
Lines(series, kind, type, excluded, named) ==
    LET returned == Returned(series, excluded, Reducer(kind, type))
    IN  IF Aggregates(kind, type, excluded)
        THEN AggregatedLines(returned, excluded, named)
        ELSE {Line(KeyOf(labels, excluded, named), returned[labels], {labels}) :
                 labels \in DOMAIN returned}
=============================================================================
