----------------------------- MODULE MetricPush -----------------------------
(***************************************************************************)
(* Pushing the ingest lines of one polling cycle to Dynatrace              *)
(* (push_ingest_lines and _push_to_dynatrace of metric_ingest.py).         *)
(* query_metrics runs one coroutine per project; each fetches its lines    *)
(* and pushes them in batches, several at a time.  The projects share the  *)
(* context of the cycle: the connectivity status and the self-monitoring   *)
(* counters.  One cycle is modelled: the next one has a context of its own.*)
(*                                                                         *)
(* Between two awaits a coroutine is atomic.  A delay before a retry is    *)
(* part of the time the next post takes.                                   *)
(***************************************************************************)
EXTENDS Integers, FiniteSets

CONSTANTS
    Projects,     \* the projects of the cycle
    MaxLines,     \* bound of the model: ingest lines of a project
    BatchSize,    \* METRIC_INGEST_BATCH_SIZE
    Concurrency,  \* METRIC_INGEST_CONCURRENT_PUSHES
    MaxRetries    \* _MAX_PUSH_RETRIES

ASSUME MetricPushAssumption ==
    /\ IsFiniteSet(Projects)
    /\ {MaxLines, Concurrency, MaxRetries} \subseteq Nat
    /\ BatchSize \in Nat \ {0}

VARIABLES
    connectivity, \* context.dynatrace_connectivity
    stage,        \* of each project
    lines,        \* how many ingest lines it fetched
    batch,        \* its batches, each with its state
    attempt,      \* of each batch
    abort,        \* a batch of the project raised
    ok,           \* dynatrace_ingest_lines_ok_count of each project
    invalid,      \* dynatrace_ingest_lines_invalid_count
    dropped,      \* dynatrace_ingest_lines_dropped_count
    badUrl        \* history: a batch was given up for an InvalidURL

counters == <<ok, invalid, dropped>>
vars == <<connectivity, stage, lines, batch, attempt, abort, counters, badUrl>>

-----------------------------------------------------------------------------
\* "refused", "broken" and "misread" batches raised an exception, the last ones
\* after their lines were counted; "unexplained" ones got an answer that counts
\* no lines, "skipped" ones were never sent.
BatchStates == {"queued", "posting", "answered", "unexplained", "dropped",
                "refused", "broken", "misread", "skipped"}
Raised == {"refused", "broken", "misread"}

\* What connectivity a fatal status (401, 403, 404 or 405) stands for.
FatalConnectivity == {"ExpiredToken", "WrongToken", "WrongURL"}

\* Mutant: the last batch is forgotten unless it is full.
BatchCountFloor(n) == n \div BatchSize

\* The batches are filled one after the other; the last one may be smaller.
BatchCount(n) == (n + BatchSize - 1) \div BatchSize
Size(p, b) ==
    IF b * BatchSize <= lines[p] THEN BatchSize
                                 ELSE lines[p] - (b - 1) * BatchSize

\* One at a time without concurrency, else as many as the semaphore allows.
Slots == IF Concurrency <= 1 THEN 1 ELSE Concurrency

In(p, states) == {b \in DOMAIN batch[p] : batch[p][b] \in states}

Init ==
    /\ connectivity = "Ok"
    /\ stage = [p \in Projects |-> "fetching"]
    /\ lines = [p \in Projects |-> 0]
    /\ batch = [p \in Projects |-> [b \in {} |-> "queued"]]
    /\ attempt = [p \in Projects |-> [b \in {} |-> 0]]
    /\ abort = [p \in Projects |-> FALSE]
    /\ ok = [p \in Projects |-> 0]
    /\ invalid = [p \in Projects |-> 0]
    /\ dropped = [p \in Projects |-> 0]
    /\ badUrl = FALSE

-----------------------------------------------------------------------------
(* push_ingest_lines.                                                      *)

\* Mutant: the connectivity is not looked at.
BeginPushUnchecked(p) ==
    /\ stage[p] = "fetching"
    /\ \E n \in 0..MaxLines :
        /\ lines' = [lines EXCEPT ![p] = n]
        /\ attempt' = [attempt EXCEPT ![p] = [b \in 1..BatchCount(n) |-> 0]]
        /\ stage' = [stage EXCEPT ![p] = "pushing"]
        /\ batch' = [batch EXCEPT ![p] = [b \in 1..BatchCount(n) |-> "queued"]]
    /\ UNCHANGED <<connectivity, abort, counters, badUrl>>

\* The lines are fetched; nothing is pushed after a connectivity error that
\* any project of the cycle has met.
BeginPush(p) ==
    /\ stage[p] = "fetching"
    /\ \E n \in 0..MaxLines :
        /\ lines' = [lines EXCEPT ![p] = n]
        /\ attempt' = [attempt EXCEPT ![p] = [b \in 1..BatchCount(n) |-> 0]]
        /\ IF connectivity = "Ok" /\ n > 0
             THEN /\ stage' = [stage EXCEPT ![p] = "pushing"]
                  /\ batch' = [batch EXCEPT
                         ![p] = [b \in 1..BatchCount(n) |-> "queued"]]
             ELSE /\ stage' = [stage EXCEPT ![p] = "finished"]
                  /\ batch' = [batch EXCEPT
                         ![p] = [b \in 1..BatchCount(n) |-> "skipped"]]
    /\ UNCHANGED <<connectivity, abort, counters, badUrl>>

\* Mutant: a dropped batch keeps the semaphore.
StartBatchAfterLeak(p, b) ==
    /\ stage[p] = "pushing" /\ ~abort[p]
    /\ b \in In(p, {"queued"})
    /\ \A earlier \in 1..(b - 1) : batch[p][earlier] # "queued"
    /\ Cardinality(In(p, {"posting", "dropped"})) < Slots
    /\ batch' = [batch EXCEPT ![p][b] = "posting"]
    /\ UNCHANGED <<connectivity, stage, lines, attempt, abort, counters, badUrl>>

\* The next batch gets the semaphore, whose waiters queue up in order.
StartBatch(p, b) ==
    /\ stage[p] = "pushing" /\ ~abort[p]
    /\ b \in In(p, {"queued"})
    /\ \A earlier \in 1..(b - 1) : batch[p][earlier] # "queued"
    /\ Cardinality(In(p, {"posting"})) < Slots
    /\ batch' = [batch EXCEPT ![p][b] = "posting"]
    /\ UNCHANGED <<connectivity, stage, lines, attempt, abort, counters, badUrl>>

\* gather, or the loop, is over: the outcome is logged and swallowed.
FinishPush(p) ==
    /\ stage[p] = "pushing"
    /\ In(p, {"queued", "posting"}) = {}
    /\ stage' = [stage EXCEPT ![p] = "finished"]
    /\ UNCHANGED <<connectivity, lines, batch, attempt, abort, counters, badUrl>>

\* The poll timed out: wait_for cancels what has not finished.
CycleTimesOut ==
    /\ \E p \in Projects : stage[p] \in {"fetching", "pushing"}
    /\ stage' = [p \in Projects |->
          IF stage[p] = "finished" THEN "finished" ELSE "cancelled"]
    /\ UNCHANGED <<connectivity, lines, batch, attempt, abort, counters, badUrl>>

-----------------------------------------------------------------------------
(* _push_to_dynatrace: the ways a post ends.                               *)

Posting(p, b) == stage[p] = "pushing" /\ b \in In(p, {"posting"})

Retry(p, b) ==
    /\ attempt[p][b] < MaxRetries
    /\ attempt' = [attempt EXCEPT ![p][b] = @ + 1]
    /\ UNCHANGED <<connectivity, stage, lines, batch, abort, counters, badUrl>>

Drop(p, b) ==
    /\ batch' = [batch EXCEPT ![p][b] = "dropped"]
    /\ dropped' = [dropped EXCEPT ![p] = @ + Size(p, b)]
    /\ UNCHANGED <<connectivity, stage, lines, attempt, abort, ok, invalid>>

\* Mutant: the batches that wait are sent all the same.
RaiseWithoutAbort(p, b, why) ==
    /\ batch' = [batch EXCEPT ![p][b] = why]
    /\ UNCHANGED <<stage, lines, attempt, abort, badUrl>>

\* Mutant: all projects share one abort flag.
RaiseEverywhere(p, b, why) ==
    /\ batch' = [q \in Projects |-> [c \in DOMAIN batch[q] |->
          IF q = p /\ c = b THEN why
          ELSE IF batch[q][c] = "queued" THEN "skipped" ELSE batch[q][c]]]
    /\ abort' = [q \in Projects |-> TRUE]
    /\ UNCHANGED <<stage, lines, attempt, badUrl>>

\* The exception ends the sequential push; in the concurrent one it sets the
\* abort flag, and each batch that waits for the semaphore returns.
Raise(p, b, why) ==
    /\ batch' = [batch EXCEPT ![p] =
          [c \in DOMAIN @ |-> IF c = b THEN why
                              ELSE IF @[c] = "queued" THEN "skipped" ELSE @[c]]]
    /\ abort' = [abort EXCEPT ![p] = TRUE]
    /\ UNCHANGED <<stage, lines, attempt, badUrl>>

\* Status 429 or 5xx, or an error of the network, before the last attempt.
PostRetried(p, b) == Posting(p, b) /\ Retry(p, b)

\* The last attempt failed, or the answer is 413 or no JSON.
PostDropped(p, b) == Posting(p, b) /\ Drop(p, b) /\ UNCHANGED badUrl

\* session.post raises InvalidURL: one more "network error".
PostBadUrl(p, b) ==
    /\ Posting(p, b)
    /\ \/ Retry(p, b)
       \/ attempt[p][b] = MaxRetries /\ Drop(p, b) /\ badUrl' = TRUE

PostRefused(p, b) ==
    /\ Posting(p, b)
    /\ connectivity' \in FatalConnectivity
    /\ Raise(p, b, "refused")
    /\ UNCHANGED counters

\* The answer is JSON but no object: get raises AttributeError.
PostBroken(p, b) ==
    /\ Posting(p, b)
    /\ Raise(p, b, "broken")
    /\ UNCHANGED <<connectivity, counters>>

\* The lines of an answer: it tells the valid ones from the invalid ones.
Count(p, b) ==
    /\ \E valid \in 0..Size(p, b) :
        /\ ok' = [ok EXCEPT ![p] = @ + valid]
        /\ invalid' = [invalid EXCEPT ![p] = @ + (Size(p, b) - valid)]
    /\ UNCHANGED dropped

PostAnswered(p, b) ==
    /\ Posting(p, b)
    /\ Count(p, b)
    /\ batch' = [batch EXCEPT ![p][b] = "answered"]
    /\ UNCHANGED <<connectivity, stage, lines, attempt, abort, badUrl>>

\* The warnings or the invalid lines of the answer are not what they should be:
\* reading them raises, after the lines were counted.
PostMisread(p, b) ==
    /\ Posting(p, b)
    /\ Count(p, b)
    /\ Raise(p, b, "misread")
    /\ UNCHANGED connectivity

\* Any other status with a JSON error that has no line counts.
PostUnexplained(p, b) ==
    /\ Posting(p, b)
    /\ batch' = [batch EXCEPT ![p][b] = "unexplained"]
    /\ UNCHANGED <<connectivity, stage, lines, attempt, abort, counters, badUrl>>

Post(p, b) ==
    \/ PostRetried(p, b) \/ PostDropped(p, b) \/ PostBadUrl(p, b)
    \/ PostRefused(p, b) \/ PostBroken(p, b)
    \/ PostAnswered(p, b) \/ PostMisread(p, b) \/ PostUnexplained(p, b)

ProjectStep(p) ==
    \/ BeginPush(p) \/ FinishPush(p)
    \/ \E b \in DOMAIN batch[p] : StartBatch(p, b) \/ Post(p, b)

Next == (\E p \in Projects : ProjectStep(p)) \/ CycleTimesOut

Spec == Init /\ [][Next]_vars

\* The event loop runs every project; a post ends within the session timeout.
FairSpec == Spec /\ \A p \in Projects : WF_vars(ProjectStep(p))

-----------------------------------------------------------------------------
TypeOK ==
    /\ connectivity \in {"Ok"} \union FatalConnectivity
    /\ stage \in [Projects -> {"fetching", "pushing", "finished", "cancelled"}]
    /\ lines \in [Projects -> 0..MaxLines]
    /\ \A p \in Projects :
        /\ batch[p] \in [1..BatchCount(lines[p]) -> BatchStates]
        /\ attempt[p] \in [1..BatchCount(lines[p]) -> 0..MaxRetries]
    /\ DOMAIN batch = Projects /\ DOMAIN attempt = Projects
    /\ abort \in [Projects -> BOOLEAN]
    /\ {ok, invalid, dropped} \subseteq [Projects -> Nat]
    /\ badUrl \in BOOLEAN

\* The lines of a batch, and those of the batches in these states.
LinesOf(p, b) == {i \in 1..lines[p] : (b - 1) * BatchSize < i /\ i <= b * BatchSize}
LinesIn(p, states) == UNION {LinesOf(p, b) : b \in In(p, states)}
Uncounted == {"queued", "posting", "unexplained", "skipped", "refused", "broken"}

\* The counters and the batches agree in every state, whatever mixture of
\* retries, failures and concurrent answers led to it: no line is counted
\* twice, and the lines missing are those of the batches that raised before they
\* were counted, that were never sent or whose answer counts none.
LinesAccounted ==
    \A p \in Projects :
        lines[p] = ok[p] + invalid[p] + dropped[p] + Cardinality(LinesIn(p, Uncounted))

\* A fatal answer wastes no more requests than were under way: however many
\* batches a project has, at most one slot's worth of them raises.
RefusalsBounded ==
    \A p \in Projects : Cardinality(In(p, Raised)) <= Slots

\* A project whose lines are ready after any project was refused sends none,
\* although the refusal may have come while it was still fetching.
NoPushAfterRefusal ==
    [][\A p, q \in Projects :
        stage[p] = "fetching" /\ In(q, {"refused"}) # {} => stage'[p] # "pushing"]_vars

\* A project gives up batches only for a failure of its own, or for a refusal
\* that was known before it began: a failing project does not cut off another
\* one that is already pushing.
SkippedForAReason ==
    \A p \in Projects :
        In(p, {"skipped"}) # {} =>
            \/ In(p, Raised) # {}
            \/ /\ In(p, {"skipped"}) = DOMAIN batch[p]
               /\ \E q \in Projects : In(q, {"refused"}) # {}

\* Every project's push ends, however its posts fail.
PushesEnd == \A p \in Projects : <>(stage[p] \in {"finished", "cancelled"})

\* The outer handler of push_ingest_lines takes an InvalidURL for a fatal
\* error and reports the connectivity WrongURL.
BadUrlReported ==
    (\A p \in Projects : stage[p] = "finished") /\ badUrl => connectivity = "WrongURL"
=============================================================================
