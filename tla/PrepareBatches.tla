--------------------------- MODULE PrepareBatches ---------------------------
(***************************************************************************)
(* prepare_batches (logs_processor.py): packs the processed log entries of *)
(* one pull, in their order, into JSON arrays that respect the limits of   *)
(* the log ingest.  One step is one iteration of its loop; an entry is     *)
(* known by its index and by the size of its payload in bytes.             *)
(***************************************************************************)
EXTENDS Integers, Sequences, FiniteSets

CONSTANTS
    RequestBodyMaxSize,   \* REQUEST_BODY_MAX_SIZE
    RequestMaxEvents,     \* REQUEST_MAX_EVENTS
    MaxLogs               \* bound of the model: entries of one pull

ASSUME PrepareBatchesAssumption ==
    /\ RequestBodyMaxSize \in Nat /\ RequestBodyMaxSize > 2
    /\ RequestMaxEvents \in Nat \ {0}
    /\ MaxLogs \in Nat

VARIABLES
    logs,        \* sizes of the entries, in the order of the pull
    next,        \* index of the entry of the next iteration
    current,     \* logs_for_next_batch and ack_ids_for_next_batch
    totalLen,    \* logs_for_next_batch_total_len
    batches,     \* closed batches: their entries and size_batch_bytes
    finished     \* the function has returned

batchVars == <<logs, next, current, totalLen, batches, finished>>

Batch == [entries : Seq(Nat), size : Nat]

\* perform_pull sorts out what would not fit into a request on its own.
Fits(size) == size <= RequestBodyMaxSize - 2

BatchesInit ==
    /\ \E n \in 0..MaxLogs : logs \in [1..n -> {s \in 1..RequestBodyMaxSize : Fits(s)}]
    /\ next = 1
    /\ current = <<>>
    /\ totalLen = 0
    /\ batches = <<>>
    /\ finished = FALSE

\* Two brackets, and a comma after each entry but the last one.
NewBatchLen == totalLen + 2 + Len(current) - 1

\* Mutant: one event too many.
WouldOverflowLate(size) ==
    \/ NewBatchLen + 1 + size > RequestBodyMaxSize
    \/ Len(current) > RequestMaxEvents

\* Mutant: a request that would be full exactly is not used.
WouldOverflowEarly(size) ==
    \/ NewBatchLen + 1 + size >= RequestBodyMaxSize
    \/ Len(current) >= RequestMaxEvents

WouldOverflow(size) ==
    \/ NewBatchLen + 1 + size > RequestBodyMaxSize
    \/ Len(current) >= RequestMaxEvents

CloseBatch == batches' = Append(batches, [entries |-> current, size |-> NewBatchLen])

\* Mutant: the entry that closes a batch is not carried over to the next one.
AddEntryLosing ==
    /\ next <= Len(logs)
    /\ IF WouldOverflow(logs[next])
         THEN CloseBatch /\ current' = <<>> /\ totalLen' = 0
         ELSE /\ current' = Append(current, next)
              /\ totalLen' = totalLen + logs[next]
              /\ UNCHANGED batches
    /\ next' = next + 1
    /\ UNCHANGED <<logs, finished>>

\* Mutant: the length is not reset with the batch.
AddEntryNoReset ==
    /\ next <= Len(logs)
    /\ IF WouldOverflow(logs[next])
         THEN CloseBatch /\ current' = <<next>>
         ELSE current' = Append(current, next) /\ UNCHANGED batches
    /\ totalLen' = totalLen + logs[next]
    /\ next' = next + 1
    /\ UNCHANGED <<logs, finished>>

\* One iteration: close the batch if the entry would overflow it, then add
\* the entry to the batch that is open now.
AddEntry ==
    /\ next <= Len(logs)
    /\ IF WouldOverflow(logs[next])
         THEN /\ CloseBatch
              /\ current' = <<next>>
              /\ totalLen' = logs[next]
         ELSE /\ current' = Append(current, next)
              /\ totalLen' = totalLen + logs[next]
              /\ UNCHANGED batches
    /\ next' = next + 1
    /\ UNCHANGED <<logs, finished>>

\* After the loop: the last batch, unless there were no entries.
Finish ==
    /\ next = Len(logs) + 1 /\ ~finished
    /\ IF current # <<>> THEN CloseBatch ELSE UNCHANGED batches
    /\ current' = <<>>
    /\ totalLen' = 0
    /\ finished' = TRUE
    /\ UNCHANGED <<logs, next>>

BatchesNext == AddEntry \/ Finish

BatchesSpec == BatchesInit /\ [][BatchesNext]_batchVars

-----------------------------------------------------------------------------
BatchesTypeOK ==
    /\ logs \in Seq({s \in 1..RequestBodyMaxSize : Fits(s)})
    /\ next \in 1..(Len(logs) + 1)
    /\ current \in Seq(Nat)
    /\ totalLen \in Nat
    /\ batches \in Seq(Batch)
    /\ finished \in BOOLEAN

\* No request is larger than the log ingest allows, none carries too many
\* events, and none is empty: also when entries hit the limits exactly.
WithinLimits(b) ==
    /\ b.size <= RequestBodyMaxSize
    /\ Len(b.entries) \in 1..RequestMaxEvents
BatchesWithinLimits == \A k \in 1..Len(batches) : WithinLimits(batches[k])

FirstOf(k) == batches[k].entries[1]
LastOf(k) == batches[k].entries[Len(batches[k].entries)]

\* Every entry is in exactly one batch, in the order of the pull, so each ack
\* id is acknowledged with the request that carries its log: the batches
\* continue each other without a gap, and the open one continues the last.
Consecutive(entries) == \A i \in 1..(Len(entries) - 1) : entries[i + 1] = entries[i] + 1
NextStart == IF batches = <<>> THEN 1 ELSE LastOf(Len(batches)) + 1
EntriesInOrder ==
    /\ \A k \in 1..Len(batches) :
        /\ Consecutive(batches[k].entries)
        /\ FirstOf(k) = IF k = 1 THEN 1 ELSE LastOf(k - 1) + 1
    /\ Consecutive(current)
    /\ IF current = <<>>
         THEN next = NextStart
         ELSE current[1] = NextStart /\ current[Len(current)] = next - 1

\* A batch is closed only when the next entry would have made the request too
\* large or too long: no request is wasted.
NoNeedlessSplit ==
    \A k \in 1..(Len(batches) - 1) :
        \/ Len(batches[k].entries) = RequestMaxEvents
        \/ batches[k].size + 1 + logs[FirstOf(k + 1)] > RequestBodyMaxSize

\* The payload bytes of some entries (byte j of the i-th one), and the bytes of
\* the body "[" + ",".join(entries) + "]".
PayloadBytes(entries) == UNION {{i} \X (1..logs[entries[i]]) : i \in 1..Len(entries)}
SerializedLength(entries) == Cardinality(PayloadBytes(entries)) + 2 + Len(entries) - 1

\* size_batch_bytes, against which the limit is checked, is the size of the
\* body that is really sent.
SizeIsSerializedLength ==
    \A k \in 1..Len(batches) :
        batches[k].size = SerializedLength(batches[k].entries)

\* However the sizes fall, packing loses, repeats and reorders nothing, closes no
\* request early, and counts the bytes that are really sent.
PackingExact == EntriesInOrder /\ NoNeedlessSplit /\ SizeIsSerializedLength
=============================================================================
