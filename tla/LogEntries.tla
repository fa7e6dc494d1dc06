----------------------------- MODULE LogEntries -----------------------------
(***************************************************************************)
(* How a Pub/Sub message becomes a log entry (logs_processor.py) and how   *)
(* the rules of the configuration fill its attributes                      *)
(* (metadata_engine.py).  A message is a record of what decides about it:  *)
(* the form of its data, its resource type and log name, the state of its  *)
(* timestamp and the length of its content.                                *)
(***************************************************************************)
EXTENDS Integers, Sequences, FiniteSets, SequencesExt

CONSTANTS
    ContentLimit,    \* CONTENT_LENGTH_LIMIT
    MarkLength       \* length of DYNATRACE_LOG_INGEST_CONTENT_MARK_TRIMMED

ASSUME LogEntriesAssumption ==
    ContentLimit \in Nat /\ MarkLength \in Nat /\ MarkLength <= ContentLimit

Absent == "absent"

-----------------------------------------------------------------------------
(***************************************************************************)
(* Rules.  As configured, a rule has sources, each valid or not, that look *)
(* at the resource type or the log name, and attributes: the key and where *)
(* the value comes from.                                                   *)
(***************************************************************************)
Special == {"default", "common"}

\* Mutant: a rule keeps the sources that could be parsed.
LoadedLeniently(name, rules) ==
    [i \in DOMAIN rules |-> [rules[i] EXCEPT !.sources = {s \in @ : s.valid}]]

\* _create_sources: one source that cannot be parsed empties the sources.
Created(rule) ==
    IF \A s \in rule.sources : s.valid THEN rule ELSE [rule EXCEPT !.sources = {}]

\* _create_config_rule: without sources there is no rule, unless its
\* configuration is special.
Keeps(name, rule) == name \in Special \/ Created(rule).sources # {}

\* _create_config_rules
Loaded(name, rules) ==
    FoldLeft(LAMBDA loaded, rule :
                 IF Keeps(name, rule) THEN Append(loaded, Created(rule)) ELSE loaded,
             <<>>, rules)

\* _extract_value: the type is that of the entry so far, which a rule before
\* may have rewritten; the log name is that of the message.
SourceValue(source, message, entry) ==
    IF source.of = "resourceType" THEN entry["gcp.resource.type"] ELSE message.logName

\* _check_if_rule_applies, with the operand as the set of values it accepts.
Applies(rule, message, entry) ==
    \A s \in rule.sources : SourceValue(s, message, entry) \in s.accepts

\* The pattern of the default rules.
ContentOrAll == "content || @"

\* jmespath.search, for what the patterns of the rules take: a constant, the
\* whole record, or its content field if it has one.
Found(pattern, message) ==
    CASE pattern = "@" -> message.form
      [] pattern = ContentOrAll -> IF message.content = Absent THEN message.form
                                                                  ELSE message.content
      [] OTHER -> pattern

\* _apply_rule: a value that is found replaces the attribute.
ApplyRule(rule, message, entry) ==
    [key \in DOMAIN entry |->
        IF key \in DOMAIN rule.attributes THEN Found(rule.attributes[key], message)
        ELSE entry[key]]

\* _apply_rules: the entry and whether any rule has applied.
ApplyRules(rules, message, start) ==
    FoldLeft(LAMBDA done, rule :
                 IF Applies(rule, message, done.entry)
                 THEN [entry |-> ApplyRule(rule, message, done.entry), any |-> TRUE]
                 ELSE done,
             [entry |-> start, any |-> FALSE], rules)

\* apply_common_rules for a JSON object; anything else has no fields.
CommonAttributes(message) ==
    [a \in {"gcp.resource.type", "log.source", "timestamp", "content", "audit.result"} |->
        IF message.form # "object" THEN Absent
        ELSE CASE a = "gcp.resource.type" -> message.type
               [] a = "log.source" -> message.logName
               [] a = "timestamp" -> message.timestamp
               [] OTHER -> Absent]

\* Mutant: the audit rules replace the rules of the resource types.
AttributesEitherOr(message, config) ==
    LET typed == ApplyRules(config.rules, message, CommonAttributes(message))
        audit == ApplyRules(config.audit, message, typed.entry)
    IN  IF typed.any THEN typed.entry
        ELSE IF audit.any THEN audit.entry
        ELSE ApplyRules(config.default, message, audit.entry).entry

\* MetadataEngine.apply: common attributes, the rules, the audit rules, and the
\* default rule if none has applied.  A JSON value that is no object makes the
\* first access raise, which ends it.
Attributes(message, config) ==
    LET typed == ApplyRules(config.rules, message, CommonAttributes(message))
        audit == ApplyRules(config.audit, message, typed.entry)
    IN  IF message.form = "other_json" THEN CommonAttributes(message)
        ELSE IF typed.any \/ audit.any THEN audit.entry
        ELSE ApplyRules(config.default, message, audit.entry).entry

-----------------------------------------------------------------------------
(***************************************************************************)
(* Outcomes.  counts is what the entry adds to its self-monitoring.        *)
(***************************************************************************)
Counters == {"too_old_records", "parsing_errors", "publish_time_fallback_records",
             "records_with_too_long_content"}
Counting(which) == [c \in Counters |-> IF c \in which THEN 1 ELSE 0]

\* The timestamp of the entry: the publish time of the message when the record
\* has none, or one that is no date.
FallsBack(attributes) == attributes["timestamp"] \in {Absent, "no_date"}
Timestamp(message, attributes) ==
    IF FallsBack(attributes) THEN message.published ELSE attributes["timestamp"]

TrimmedLength(length) ==
    IF length > ContentLimit THEN (ContentLimit - MarkLength) + MarkLength ELSE length

\* Mutant: the entry that is too old is dropped without a trace.
OutcomeUncounted(message, config) ==
    LET attributes == Attributes(message, config)
        fallback == IF FallsBack(attributes) THEN {"publish_time_fallback_records"} ELSE {}
    IN  IF message.form = "text" /\ message.length = 0
        THEN [entry |-> FALSE, length |-> 0, counts |-> Counting({})]
        ELSE IF Timestamp(message, attributes) = "old"
        THEN [entry |-> FALSE, length |-> 0, counts |-> Counting(fallback)]
        ELSE [entry |-> TRUE, length |-> TrimmedLength(message.length),
              counts |-> Counting(fallback)]

\* prepare_context_and_process_message: data that is not UTF-8 and a timestamp
\* that is no string, or has no time zone, raise; empty data and entries that
\* are too old are skipped; else the content is cut to the limit.
Outcome(message, config) ==
    LET attributes == Attributes(message, config)
        fallback == IF FallsBack(attributes) THEN {"publish_time_fallback_records"} ELSE {}
        content == attributes["content"] # Absent
        long == content /\ message.length > ContentLimit
        none == [entry |-> FALSE, length |-> 0, counts |-> Counting({})]
    IN  CASE message.form = "binary" ->
                [none EXCEPT !.counts = Counting({"parsing_errors"})]
          [] message.form = "text" /\ message.length = 0 -> none
          [] OTHER ->
              CASE Timestamp(message, attributes) \in {"no_string", "no_zone"} ->
                      [none EXCEPT !.counts = Counting(fallback \union {"parsing_errors"})]
                [] Timestamp(message, attributes) = "old" ->
                      [none EXCEPT !.counts = Counting(fallback \union {"too_old_records"})]
                [] OTHER ->
                      [entry |-> TRUE,
                       length |-> IF content THEN TrimmedLength(message.length) ELSE 0,
                       counts |-> Counting(fallback \union
                           (IF long THEN {"records_with_too_long_content"} ELSE {}))]
=============================================================================
