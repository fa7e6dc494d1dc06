-------------------------- MODULE MetricDimensions --------------------------
(***************************************************************************)
(* The dimensions of a metric line (create_dimensions in metric_ingest.py),*)
(* the text of their values, the exclusion of dimensions, and the ids by   *)
(* which lines meet the entities of the topology (entities/ids.py).  A     *)
(* label of a series is its group and its name, <<"resource", "zone">>.    *)
(***************************************************************************)
EXTENDS Integers, Sequences, FiniteSets, SequencesExt

-----------------------------------------------------------------------------
(***************************************************************************)
(* Text: a sequence of characters, among them "\\" and "\"".               *)
(***************************************************************************)
Backslash == "\\"
Quote == "\""
Newline == "\n"
Blank == " "

\* Mutant: the backslashes that escape the quotes are escaped again.
SanitizedTwice(char) ==
    IF char = Quote THEN <<Backslash, Backslash, Quote>>
    ELSE IF char = Backslash THEN <<Backslash, Backslash>>
    ELSE IF char = Newline THEN <<Blank>> ELSE <<char>>

\* _sanitize_dimension_value, character by character: line breaks and tabs
\* become blanks, then backslashes and quotes are escaped.
SanitizedChar(char) ==
    IF char \in {Quote, Backslash} THEN <<Backslash, char>>
    ELSE IF char = Newline THEN <<Blank>> ELSE <<char>>
Sanitized(value) == FoldLeft(LAMBDA text, char : text \o SanitizedChar(char), <<>>, value)

TrailingBackslashes(text) ==
    CHOOSE n \in 0..Len(text) :
        /\ \A i \in (Len(text) - n + 1)..Len(text) : text[i] = Backslash
        /\ n < Len(text) => text[Len(text) - n] # Backslash

\* Mutant: a backslash at the end is always cut off.
TruncatedAny(text, max) ==
    IF Len(text) <= max THEN text ELSE SubSeq(text, 1, max)

\* _truncate_escaped_dimension_value
Truncated(text, max) ==
    IF Len(text) <= max THEN text
    ELSE LET cut == SubSeq(text, 1, max)
         IN  IF TrailingBackslashes(cut) % 2 = 1 THEN SubSeq(cut, 1, max - 1) ELSE cut

\* The value of create_dimension as dimensions_string sends it, cut to the
\* smaller of the limits first and to the limit of the line again.
ValueText(value, maxDimension, maxLine) ==
    LET limit == IF maxDimension < maxLine THEN maxDimension ELSE maxLine
        text == Truncated(Sanitized(value), limit)
    IN  SubSeq(text, 1, IF Len(text) < maxLine THEN Len(text) ELSE maxLine)

-----------------------------------------------------------------------------
(***************************************************************************)
(* The filter-out list: entries with a prefix of metric names, and the     *)
(* dimensions to cut, or none to exclude the metrics altogether.           *)
(***************************************************************************)
\* The places of the entries that match; an entry without a prefix does not.
Matching(metric, entries) ==
    {i \in DOMAIN entries : entries[i].prefix # <<>> /\ IsPrefix(entries[i].prefix, metric)}

\* Mutant: the first entry that matches decides.
ExcludedEntryFirst(metric, entries) ==
    LET matching == Matching(metric, entries)
    IN  {entries[i] : i \in {i \in matching : \A j \in matching : i <= j}}

\* find_excluded_metric: the entry with the longest prefix, the first of equals.
ExcludedEntry(metric, entries) ==
    LET matching == Matching(metric, entries)
        longest == {i \in matching :
                       \A j \in matching : Len(entries[j].prefix) <= Len(entries[i].prefix)}
    IN  {entries[i] : i \in {i \in longest : \A j \in longest : i <= j}}

\* should_exclude_metric
ExcludesMetric(metric, entries) ==
    \E entry \in ExcludedEntry(metric, entries) : entry.dimensions = {}

-----------------------------------------------------------------------------
(***************************************************************************)
(* Labels to dimensions.  A declared dimension is the label it is fetched  *)
(* from and the key it is sent as, "" for none; cut is the set of names    *)
(* the filter-out list has for the metric.                                 *)
(***************************************************************************)
\* should_exclude_dimension looks at the last part of the source.
CutSources(declared, cut) == {d.source : d \in {d \in declared : d.source[2] \in cut}}

\* dt_dimensions_mapping: what a source is sent as.
MappedTo(declared, cut, source) ==
    {d.key : d \in {d \in declared : /\ d.source = source /\ d.key # ""
                                    /\ source \notin CutSources(declared, cut)}}

\* RESOURCE_LABEL_ALIASES
Alias(source) == IF source = <<"resource", "project_id">> THEN {"gcp.project.id"} ELSE {}

\* Mutant: a label nobody asked for is dropped.
SentAsMapped(declared, cut, source) == MappedTo(declared, cut, source) \union Alias(source)

\* get_dt_dimensions: a label that is not mapped keeps its short name.
SentAs(declared, cut, source) ==
    IF source[1] = "user" THEN {source[2]}
    ELSE (IF MappedTo(declared, cut, source) = {} THEN {source[2]}
          ELSE MappedTo(declared, cut, source)) \union Alias(source)

\* Mutant: the key of Dynatrace is compared with the list.
DimensionsByKey(declared, cut, labels) ==
    UNION {{<<source, key, labels[source]>> : key \in SentAs(declared, cut, source) \ cut} :
           source \in DOMAIN labels}

\* create_dimensions, without the dimensions that are the same for all lines.
Dimensions(declared, cut, labels) ==
    UNION {{<<source, key, labels[source]>> : key \in SentAs(declared, cut, source)} :
           source \in DOMAIN labels \ CutSources(declared, cut)}

-----------------------------------------------------------------------------
(***************************************************************************)
(* Entity ids: the parts that are joined and hashed, in the order of the   *)
(* dimensions of the service.                                              *)
(***************************************************************************)
\* create_entity_id of metric_ingest.py: the resource labels a series has.
LineId(service, dimensions, labels) ==
    FoldLeft(LAMBDA parts, name : IF name \in DOMAIN labels
                                  THEN Append(parts, labels[name]) ELSE parts,
             <<service>>, dimensions)

\* Mutant: the parts are in the order of the extractor.
EntityIdUnordered(service, dimensions, extracted, response) ==
    FoldLeft(LAMBDA parts, name : Append(parts, response[name]),
             <<service>>, SetToSeq(extracted \intersect ToSet(dimensions)))

\* get_func_create_entity_id: the dimensions the extractor has a value for.
EntityId(service, dimensions, extracted, response) ==
    FoldLeft(LAMBDA parts, name : IF name \in extracted
                                  THEN Append(parts, response[name]) ELSE parts,
             <<service>>, dimensions)

\* Mutant: the addresses stay in the order of the response.
EnrichmentUnsorted(entity) ==
    [ip |-> IF entity.ips = <<>> THEN {} ELSE {entity.ips[1]}, properties |-> entity.properties]

\* build_entity_id_map sorts, flatten_and_enrich_metric_results takes the first.
Enrichment(entity) ==
    [ip |-> {ip \in ToSet(entity.ips) : \A other \in ToSet(entity.ips) : ip <= other},
     properties |-> entity.properties]
=============================================================================
