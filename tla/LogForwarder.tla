---------------------------- MODULE LogForwarder ----------------------------
(***************************************************************************)
(* One log forwarding process: several worker coroutines that loop over    *)
(* pull, process, push and acknowledge (log_forwarder.py,                  *)
(* log_integration_service.py, dynatrace_client.py), the self-monitoring   *)
(* (sfm) queue they fill, and the loop that drains it                      *)
(* (log_self_monitoring.py).                                               *)
(*                                                                         *)
(* The process is one asyncio event loop: the code between two awaits is   *)
(* one atomic step, and every await is a point where the other coroutines  *)
(* run.  The subscription, the Dynatrace log ingest and the network are    *)
(* external.  The token refresh that perform_pull and push_ack_ids may     *)
(* await is the subject of module GcpToken; its failure shows here as a    *)
(* failed pull or a failed acknowledge request.                            *)
(***************************************************************************)
EXTENDS Integers, FiniteSets

CONSTANTS
    Messages,     \* messages published to the subscription
    Workers,      \* NUMBER_OF_CONCURRENT_LOG_FORWARDING_LOOPS coroutines
    Pulls,        \* NUMBER_OF_CONCURRENT_MESSAGE_PULL_COROUTINES
    PushSlots,    \* NUMBER_OF_CONCURRENT_PUSH_COROUTINES, shared by the workers
    MaxSfm,       \* MAX_SFM_MESSAGES_PROCESSED, the size of the sfm queue
    AckChunk,     \* ack ids of one acknowledge request (2048 in the code)
    MaxFaults     \* bound of the model: how many failures a behaviour has

ASSUME LogForwarderAssumption ==
    /\ IsFiniteSet(Messages)
    /\ IsFiniteSet(Workers)
    /\ {Pulls, PushSlots, MaxSfm, AckChunk} \subseteq Nat \ {0}
    /\ MaxFaults \in Nat

VARIABLES
    sub,          \* subscription: "waiting" to be pulled, "leased" or "acked"
    deliveries,   \* how many times Dynatrace ingested each message
    rejected,     \* messages judged erroneous at least once
    stage,        \* what each worker awaits: "pull", "push", "ack", "backoff"
    pending,      \* pull requests of the worker that are not answered yet
    malformed,    \* a pull returned something that has no receivedMessages
    pulled,       \* messages the worker got in this round
    batch,        \* the batches of the round, each with its state
    toAck,        \* ack_ids_to_send with the erroneous ones of the round
    chunks,       \* acknowledge requests of the worker that are not answered
    permits,      \* value of log_push_semaphore
    sfm,          \* how many elements the sfm queue holds
    sfmLoop,      \* the sfm loop: "sleep" or "report"
    faults        \* failures so far

subscriptionVars == <<sub, deliveries, rejected>>
workerVars == <<stage, pending, malformed, pulled, batch, toAck, chunks>>
sharedVars == <<permits, sfm, sfmLoop>>
vars == <<subscriptionVars, workerVars, sharedVars, faults>>

-----------------------------------------------------------------------------
BatchStates == {"queued", "sending", "blocked", "done"}
NoBatches == [b \in {} |-> "done"]

Partitions(S) ==
    {P \in SUBSET (SUBSET S \ {{}}) :
        /\ UNION P = S
        /\ \A a, b \in P : a = b \/ a \intersect b = {}}

\* chunks(ack_ids, chunk_size): all chunks are full but the last one.
Chunkings(S) ==
    {P \in Partitions(S) :
        /\ \A c \in P : Cardinality(c) <= AckChunk
        /\ \A c, d \in P : c = d \/ AckChunk \in {Cardinality(c), Cardinality(d)}}

\* put_sfm_into_queue of n elements: put_nowait drops what does not fit.
PutNowait(n) == IF sfm + n <= MaxSfm THEN sfm + n ELSE MaxSfm

Fault == faults < MaxFaults /\ faults' = faults + 1

\* A live worker still works on the message in its current round.
Held(m) == \E w \in Workers : m \in pulled[w]

Init ==
    /\ sub = [m \in Messages |-> "waiting"]
    /\ deliveries = [m \in Messages |-> 0]
    /\ rejected = {}
    /\ stage = [w \in Workers |-> "pull"]
    /\ pending = [w \in Workers |-> Pulls]
    /\ malformed = [w \in Workers |-> FALSE]
    /\ pulled = [w \in Workers |-> {}]
    /\ batch = [w \in Workers |-> NoBatches]
    /\ toAck = [w \in Workers |-> {}]
    /\ chunks = [w \in Workers |-> {}]
    /\ permits = PushSlots
    /\ sfm = 0
    /\ sfmLoop = "sleep"
    /\ faults = 0

-----------------------------------------------------------------------------
(* perform_pull: concurrent pull requests, then one synchronous pass.      *)

Lease(S) == sub' = [m \in Messages |-> IF m \in S THEN "leased" ELSE sub[m]]

Answered(w) ==
    /\ stage[w] = "pull" /\ pending[w] > 0
    /\ pending' = [pending EXCEPT ![w] = @ - 1]

\* A pull request is answered with some of the waiting messages.
PullResponse(w) ==
    /\ Answered(w)
    /\ \E S \in SUBSET {m \in Messages : sub[m] = "waiting"} :
        /\ Lease(S)
        /\ pulled' = [pulled EXCEPT ![w] = @ \union S]
    /\ UNCHANGED <<deliveries, rejected, stage, malformed, batch, toAck,
                   chunks, sharedVars, faults>>

\* A pull raises: gather returns the exception and the loop skips it.  What
\* the subscription had leased to it comes back when the lease expires.
PullError(w) ==
    /\ Answered(w)
    /\ Fault
    /\ \E S \in SUBSET {m \in Messages : sub[m] = "waiting"} : Lease(S)
    /\ UNCHANGED <<deliveries, rejected, stage, malformed, pulled, batch,
                   toAck, chunks, sharedVars>>

\* A pull returns something that is no exception and has no .get (None for a
\* 3xx status): the pass over the responses raises AttributeError later.
PullMalformed(w) ==
    /\ Answered(w)
    /\ Fault
    /\ malformed' = [malformed EXCEPT ![w] = TRUE]
    /\ UNCHANGED <<subscriptionVars, stage, pulled, batch, toAck, chunks,
                   sharedVars>>

\* The worker's next perform_pull sends its requests.
StartRound(w) ==
    /\ stage' = [stage EXCEPT ![w] = "pull"]
    /\ pending' = [pending EXCEPT ![w] = Pulls]
    /\ pulled' = [pulled EXCEPT ![w] = {}]
    /\ malformed' = [malformed EXCEPT ![w] = FALSE]
    /\ batch' = [batch EXCEPT ![w] = NoBatches]

\* Mutant: only the first chunk of ack ids is sent.
StartAckFirstChunkOnly(w, ids) ==
    /\ toAck' = [toAck EXCEPT ![w] = {}]
    /\ IF ids = {}
         THEN StartRound(w) /\ UNCHANGED chunks
         ELSE /\ stage' = [stage EXCEPT ![w] = "ack"]
              /\ \E C \in Chunkings(ids) : \E c \in C :
                    chunks' = [chunks EXCEPT ![w] = {c}]
              /\ UNCHANGED <<pending, pulled, malformed, batch>>

\* push_ack_ids: one request per chunk; without ack ids nothing is awaited
\* and the worker is in its next pull.
StartAck(w, ids) ==
    /\ toAck' = [toAck EXCEPT ![w] = {}]
    /\ IF ids = {}
         THEN StartRound(w) /\ UNCHANGED chunks
         ELSE /\ stage' = [stage EXCEPT ![w] = "ack"]
              /\ \E C \in Chunkings(ids) : chunks' = [chunks EXCEPT ![w] = C]
              /\ UNCHANGED <<pending, pulled, malformed, batch>>

\* All pulls are answered.  Erroneous messages (and the oversized ones, which
\* put no sfm) go to the ack list, the others into batches; then push_logs
\* starts, or, without batches, push_ack_ids.
Process(w) ==
    /\ stage[w] = "pull" /\ pending[w] = 0 /\ ~malformed[w]
    /\ \E bad \in SUBSET pulled[w] :
        /\ rejected' = rejected \union bad
        /\ \E n \in 0..Cardinality(bad) : sfm' = PutNowait(n + 1)
        /\ IF bad = pulled[w]
             THEN StartAck(w, bad)
             ELSE /\ stage' = [stage EXCEPT ![w] = "push"]
                  /\ toAck' = [toAck EXCEPT ![w] = bad]
                  /\ \E P \in Partitions(pulled[w] \ bad) :
                        batch' = [batch EXCEPT ![w] = [b \in P |-> "queued"]]
                  /\ UNCHANGED <<pending, pulled, malformed, chunks>>
    /\ UNCHANGED <<sub, deliveries, permits, sfmLoop, faults>>

\* The pass met the malformed response: the exception reaches
\* pull_and_push_logs_forever, which sleeps; the round's messages are lost
\* to the worker.
ProcessError(w) ==
    /\ stage[w] = "pull" /\ pending[w] = 0 /\ malformed[w]
    /\ \E n \in 0..Cardinality(pulled[w]) : sfm' = PutNowait(n)
    /\ stage' = [stage EXCEPT ![w] = "backoff"]
    /\ pulled' = [pulled EXCEPT ![w] = {}]
    /\ malformed' = [malformed EXCEPT ![w] = FALSE]
    /\ UNCHANGED <<subscriptionVars, pending, batch, toAck, chunks, permits,
                   sfmLoop, faults>>

\* asyncio.sleep(60) is over.
WakeUp(w) ==
    /\ stage[w] = "backoff"
    /\ StartRound(w)
    /\ UNCHANGED <<subscriptionVars, toAck, chunks, sharedVars, faults>>

-----------------------------------------------------------------------------
(* push_logs and send_logs: one coroutine per batch.                       *)

InState(w, b, s) == stage[w] = "push" /\ b \in DOMAIN batch[w] /\ batch[w][b] = s

AcquireSlot(w, b) ==
    /\ InState(w, b, "queued")
    /\ permits > 0
    /\ permits' = permits - 1
    /\ batch' = [batch EXCEPT ![w][b] = "sending"]
    /\ UNCHANGED <<subscriptionVars, stage, pending, malformed, pulled, toAck,
                   chunks, sfm, sfmLoop, faults>>

\* Mutant: the slot is released although the put still waits.
PutAfterRelease(w, b) ==
    IF sfm < MaxSfm
      THEN /\ sfm' = sfm + 1
           /\ permits' = permits + 1
           /\ batch' = [batch EXCEPT ![w][b] = "done"]
      ELSE /\ batch' = [batch EXCEPT ![w][b] = "blocked"]
           /\ permits' = permits + 1
           /\ UNCHANGED sfm

\* finally: await sfm_queue.put(...).  The semaphore is released only when
\* the put is done; on a full queue the coroutine waits and keeps its slot.
PutAndRelease(w, b) ==
    IF sfm < MaxSfm
      THEN /\ sfm' = sfm + 1
           /\ permits' = permits + 1
           /\ batch' = [batch EXCEPT ![w][b] = "done"]
      ELSE /\ batch' = [batch EXCEPT ![w][b] = "blocked"]
           /\ UNCHANGED <<sfm, permits>>

Ingest(b) ==
    deliveries' = [m \in Messages |-> deliveries[m] + IF m \in b THEN 1 ELSE 0]

SendOk(w, b) ==
    /\ InState(w, b, "sending")
    /\ Ingest(b)
    /\ toAck' = [toAck EXCEPT ![w] = @ \union b]
    /\ PutAndRelease(w, b)
    /\ UNCHANGED <<sub, rejected, stage, pending, malformed, pulled, chunks,
                   sfmLoop, faults>>

\* Mutant: a failed request keeps its slot (no finally, no async with).
SendErrorLeaksSlot(w, b) ==
    /\ InState(w, b, "sending")
    /\ Fault
    /\ batch' = [batch EXCEPT ![w][b] = "done"]
    /\ UNCHANGED <<subscriptionVars, stage, pending, malformed, pulled, toAck,
                   chunks, sharedVars>>

\* The request fails, or Dynatrace ingested the batch and the answer is lost.
SendError(w, b) ==
    /\ InState(w, b, "sending")
    /\ Fault
    /\ Ingest(b) \/ UNCHANGED deliveries
    /\ PutAndRelease(w, b)
    /\ UNCHANGED <<sub, rejected, stage, pending, malformed, pulled, toAck,
                   chunks, sfmLoop>>

\* There is room in the sfm queue again.
PutUnblocked(w, b) ==
    /\ InState(w, b, "blocked")
    /\ sfm < MaxSfm
    /\ PutAndRelease(w, b)
    /\ UNCHANGED <<subscriptionVars, stage, pending, malformed, pulled, toAck,
                   chunks, sfmLoop, faults>>

\* Mutant: every message of the round is acknowledged.
FinishPushAcksRound(w) ==
    /\ stage[w] = "push"
    /\ \A b \in DOMAIN batch[w] : batch[w][b] = "done"
    /\ sfm' = PutNowait(1)
    /\ StartAck(w, pulled[w])
    /\ UNCHANGED <<subscriptionVars, permits, sfmLoop, faults>>

\* gather returned: all batches of the round are over, whatever their outcome.
FinishPush(w) ==
    /\ stage[w] = "push"
    /\ \A b \in DOMAIN batch[w] : batch[w][b] = "done"
    /\ sfm' = PutNowait(1)
    /\ StartAck(w, toAck[w])
    /\ UNCHANGED <<subscriptionVars, permits, sfmLoop, faults>>

-----------------------------------------------------------------------------
(* push_ack_ids: concurrent acknowledge requests; failures are logged.     *)

ChunkAnswered(w, c) ==
    /\ stage[w] = "ack" /\ c \in chunks[w]
    /\ chunks' = [chunks EXCEPT ![w] = @ \ {c}]
    /\ IF chunks[w] = {c}
         THEN StartRound(w)
         ELSE UNCHANGED <<stage, pending, malformed, pulled, batch>>
    /\ UNCHANGED <<deliveries, rejected, toAck, sharedVars>>

\* Pub/Sub honours the ack of a live lease, and may honour an expired one.
Acknowledge(c) ==
    \E done \in SUBSET c :
        /\ {m \in c : sub[m] = "leased"} \subseteq done
        /\ sub' = [m \in Messages |-> IF m \in done THEN "acked" ELSE sub[m]]

AckOk(w, c) ==
    /\ ChunkAnswered(w, c)
    /\ Acknowledge(c)
    /\ UNCHANGED faults

AckError(w, c) ==
    /\ ChunkAnswered(w, c)
    /\ Fault
    /\ Acknowledge(c) \/ UNCHANGED sub

-----------------------------------------------------------------------------
(* create_sfm_loop: drains the queue after each sleep, then reports what   *)
(* it took; a failure of the report is caught and the loop goes on.        *)

DrainSfm ==
    /\ sfmLoop = "sleep" /\ sfm > 0
    /\ sfm' = 0
    /\ sfmLoop' = "report"
    /\ UNCHANGED <<subscriptionVars, workerVars, permits, faults>>

\* Mutant: an exception of the report ends the loop.
SfmLoopDies ==
    /\ sfmLoop = "report"
    /\ sfmLoop' = "dead"
    /\ UNCHANGED <<subscriptionVars, workerVars, permits, sfm, faults>>

ReportSfm ==
    /\ sfmLoop = "report"
    /\ sfmLoop' = "sleep"
    /\ UNCHANGED <<subscriptionVars, workerVars, permits, sfm, faults>>

(* External: leases expire and the process may die at any point.           *)

\* No worker holds the message any more: it is delivered again.
LeaseExpires(m) ==
    /\ sub[m] = "leased" /\ ~Held(m)
    /\ sub' = [sub EXCEPT ![m] = "waiting"]
    /\ UNCHANGED <<deliveries, rejected, workerVars, sharedVars, faults>>

\* A worker was too slow (its put was blocked, its request hung).
LeaseExpiresEarly(m) ==
    /\ sub[m] = "leased" /\ Held(m)
    /\ Fault
    /\ sub' = [sub EXCEPT ![m] = "waiting"]
    /\ UNCHANGED <<deliveries, rejected, workerVars, sharedVars>>

Restart ==
    /\ Fault
    /\ stage' = [w \in Workers |-> "pull"]
    /\ pending' = [w \in Workers |-> Pulls]
    /\ malformed' = [w \in Workers |-> FALSE]
    /\ pulled' = [w \in Workers |-> {}]
    /\ batch' = [w \in Workers |-> NoBatches]
    /\ toAck' = [w \in Workers |-> {}]
    /\ chunks' = [w \in Workers |-> {}]
    /\ permits' = PushSlots
    /\ sfm' = 0
    /\ sfmLoop' = "sleep"
    /\ UNCHANGED subscriptionVars

-----------------------------------------------------------------------------
PullStep(w) ==
    \/ PullResponse(w) \/ PullError(w) \/ PullMalformed(w)
    \/ Process(w) \/ ProcessError(w) \/ WakeUp(w)

PushStep(w) ==
    \/ \E b \in DOMAIN batch[w] :
        \/ AcquireSlot(w, b) \/ PutUnblocked(w, b)
        \/ SendOk(w, b) \/ SendError(w, b)
    \/ FinishPush(w)

AckStep(w) == \E c \in chunks[w] : AckOk(w, c) \/ AckError(w, c)

WorkerStep(w) == PullStep(w) \/ PushStep(w) \/ AckStep(w)
SfmStep == DrainSfm \/ ReportSfm

Next ==
    \/ \E w \in Workers : WorkerStep(w)
    \/ SfmStep
    \/ \E m \in Messages : LeaseExpires(m) \/ LeaseExpiresEarly(m)
    \/ Restart

Spec == Init /\ [][Next]_vars

\* The event loop runs every coroutine that can run.  A put that waits for
\* room is woken by the drain and queued behind what is ready already, so
\* other workers cannot refill the queue before it every time.  The
\* subscription redelivers, and withholds no message from all pulls for ever.
Fairness ==
    /\ \A w \in Workers : WF_vars(WorkerStep(w))
    /\ \A w \in Workers : SF_vars(\E b \in DOMAIN batch[w] : PutUnblocked(w, b))
    /\ WF_vars(SfmStep)
    /\ \A m \in Messages : WF_vars(LeaseExpires(m))
    /\ \A m \in Messages :
        SF_vars(\E w \in Workers : PullResponse(w) /\ m \in pulled'[w] \ pulled[w])

FairSpec == Spec /\ Fairness
-----------------------------------------------------------------------------
TypeOK ==
    /\ sub \in [Messages -> {"waiting", "leased", "acked"}]
    /\ deliveries \in [Messages -> Nat]
    /\ rejected \subseteq Messages
    /\ stage \in [Workers -> {"pull", "push", "ack", "backoff"}]
    /\ pending \in [Workers -> 0..Pulls]
    /\ malformed \in [Workers -> BOOLEAN]
    /\ pulled \in [Workers -> SUBSET Messages]
    /\ DOMAIN batch = Workers
    /\ \A w \in Workers :
        /\ DOMAIN batch[w] \subseteq SUBSET Messages
        /\ batch[w] \in [DOMAIN batch[w] -> BatchStates]
    /\ toAck \in [Workers -> SUBSET Messages]
    /\ chunks \in [Workers -> SUBSET SUBSET Messages]
    /\ permits \in Nat
    /\ sfm \in 0..MaxSfm
    /\ sfmLoop \in {"sleep", "report"}
    /\ faults \in 0..MaxFaults

Handled == {m \in Messages : deliveries[m] > 0} \union rejected

\* No log message is lost: whatever fails or restarts, and however the workers
\* interleave, a message leaves the subscription only after Dynatrace ingested
\* it or after it was judged erroneous (push_logs collects the ack ids of the
\* accepted batches only, perform_pull those of the erroneous messages).
AckedOnlyIfHandled == \A m \in Messages : sub[m] = "acked" => m \in Handled

\* The ack ids a worker has collected or has in flight all belong to messages
\* that are handled already: what makes AckedOnlyIfHandled inductive.
AckIdsHandled ==
    \A w \in Workers : toAck[w] \union UNION chunks[w] \subseteq Handled

Holders ==
    {h \in Workers \X SUBSET Messages :
        InState(h[1], h[2], "sending") \/ InState(h[1], h[2], "blocked")}

\* log_push_semaphore neither leaks nor multiplies: its value and the batches
\* that hold a slot, of all workers together, always add up to PushSlots, on
\* the failing paths and while the put in the finally clause is blocked too.
PermitsAccounted == permits + Cardinality(Holders) = PushSlots

\* Each failure (of a request, of the process, of a lease) costs a message at
\* most one more delivery; without failures nothing is delivered twice,
\* although many pulls and workers run side by side.
DuplicatesNeedFaults == \A m \in Messages : deliveries[m] <= 1 + faults

\* A put that blocks on the full sfm queue, a failed batch, a malformed pull
\* or a lost slot never stops a worker: it always comes back to pulling.
WorkersKeepPulling == \A w \in Workers : []<>(stage[w] = "pull")

\* Once failures stop, every message is acked: a message whose batch, ack
\* request or worker failed comes back and is handled again.
EventuallyAcked == \A m \in Messages : <>(sub[m] = "acked")

\* The pipeline implements at-least-once delivery (module AtLeastOnce).
Promise == INSTANCE AtLeastOnce WITH
    delivered <- {m \in Messages : deliveries[m] > 0},
    rejected <- rejected,
    acked <- {m \in Messages : sub[m] = "acked"}
ImplementsAtLeastOnce == Promise!Spec
=============================================================================
