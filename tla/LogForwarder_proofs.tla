------------------------ MODULE LogForwarder_proofs ------------------------
(***************************************************************************)
(* Theorems about LogForwarder, for any numbers of messages, workers,      *)
(* pulls, slots and failures.                                              *)
(***************************************************************************)
EXTENDS LogForwarder, FiniteSetTheorems, TLAPS

\* What push_ack_ids cuts into chunks is what it acknowledges.
LEMMA ChunkingsCover ==
    ASSUME NEW S, NEW C \in Chunkings(S)
    PROVE  UNION C = S /\ C \subseteq SUBSET S
  BY DEF Chunkings, Partitions

\* prepare_batches distributes exactly the messages it is given.
LEMMA PartitionsCover ==
    ASSUME NEW S, NEW P \in Partitions(S)
    PROVE  UNION P = S /\ P \subseteq SUBSET S
  BY DEF Partitions

\* put_nowait keeps the queue within its bound.
LEMMA PutNowaitBounded ==
    ASSUME TypeOK, NEW n \in Nat
    PROVE  PutNowait(n) \in 0..MaxSfm
  BY LogForwarderAssumption DEF PutNowait, TypeOK

-----------------------------------------------------------------------------
\* The parts of TypeOK that talk about the subscription, about what each
\* worker holds, and about what the workers share.
SubscriptionTypeOK ==
    /\ sub \in [Messages -> {"waiting", "leased", "acked"}]
    /\ deliveries \in [Messages -> Nat]
    /\ rejected \subseteq Messages

RoundTypeOK ==
    /\ stage \in [Workers -> {"pull", "push", "ack", "backoff"}]
    /\ pending \in [Workers -> 0..Pulls]
    /\ malformed \in [Workers -> BOOLEAN]
    /\ pulled \in [Workers -> SUBSET Messages]
    /\ toAck \in [Workers -> SUBSET Messages]
    /\ chunks \in [Workers -> SUBSET SUBSET Messages]

BatchTypeOK ==
    /\ DOMAIN batch = Workers
    /\ \A w \in Workers :
        /\ DOMAIN batch[w] \subseteq SUBSET Messages
        /\ batch[w] \in [DOMAIN batch[w] -> BatchStates]

SharedTypeOK ==
    /\ permits \in Nat
    /\ sfm \in 0..MaxSfm
    /\ sfmLoop \in {"sleep", "report"}
    /\ faults \in 0..MaxFaults

LEMMA TypeParts ==
    TypeOK <=> SubscriptionTypeOK /\ RoundTypeOK /\ BatchTypeOK /\ SharedTypeOK
  BY DEF TypeOK, SubscriptionTypeOK, RoundTypeOK, BatchTypeOK, SharedTypeOK

LEMMA InitTypeOK == Init => TypeOK
  BY LogForwarderAssumption
     DEF Init, TypeOK, NoBatches, BatchStates

\* Starting a round leaves every variable of the worker well typed.
LEMMA StartRoundType ==
    ASSUME TypeOK, NEW w \in Workers, StartRound(w)
    PROVE  /\ stage' \in [Workers -> {"pull", "push", "ack", "backoff"}]
           /\ pending' \in [Workers -> 0..Pulls]
           /\ malformed' \in [Workers -> BOOLEAN]
           /\ pulled' \in [Workers -> SUBSET Messages]
           /\ BatchTypeOK'
  BY LogForwarderAssumption
     DEF StartRound, TypeOK, BatchTypeOK, NoBatches

LEMMA StartAckType ==
    ASSUME TypeOK, NEW w \in Workers, NEW ids \in SUBSET Messages,
           StartAck(w, ids)
    PROVE  RoundTypeOK' /\ BatchTypeOK'
  <1>1. toAck' \in [Workers -> SUBSET Messages]
    BY DEF StartAck, TypeOK
  <1>2. CASE ids = {}
    BY <1>1, <1>2, StartRoundType DEF StartAck, RoundTypeOK, TypeOK
  <1>3. CASE ids # {}
    <2>1. chunks' \in [Workers -> SUBSET SUBSET Messages]
      BY <1>3, ChunkingsCover DEF StartAck, TypeOK
    <2>2. QED
      BY <1>1, <1>3, <2>1 DEF StartAck, RoundTypeOK, BatchTypeOK, TypeOK
  <1>4. QED
    BY <1>2, <1>3

\* A put in the finally clause changes one batch, one slot, one element.
LEMMA PutAndReleaseType ==
    ASSUME TypeOK, NEW w \in Workers, NEW b \in DOMAIN batch[w],
           PutAndRelease(w, b)
    PROVE  permits' \in Nat /\ sfm' \in 0..MaxSfm /\ BatchTypeOK'
  BY LogForwarderAssumption
     DEF PutAndRelease, TypeOK, BatchTypeOK, BatchStates

LEMMA StepTypeOK == TypeOK /\ [Next]_vars => TypeOK'
  <1> SUFFICES ASSUME TypeOK, [Next]_vars PROVE TypeOK'
    OBVIOUS
  <1> USE LogForwarderAssumption
  <1>1. ASSUME NEW w \in Workers, PullResponse(w) PROVE TypeOK'
    BY <1>1 DEF PullResponse, Answered, Lease, TypeOK, sharedVars
  <1>2. ASSUME NEW w \in Workers, PullError(w) PROVE TypeOK'
    BY <1>2 DEF PullError, Answered, Fault, Lease, TypeOK, sharedVars
  <1>3. ASSUME NEW w \in Workers, PullMalformed(w) PROVE TypeOK'
    BY <1>3 DEF PullMalformed, Answered, Fault, TypeOK, sharedVars,
                subscriptionVars
  <1>4. ASSUME NEW w \in Workers, Process(w) PROVE TypeOK'
    <2> PICK bad \in SUBSET pulled[w] :
          /\ rejected' = rejected \union bad
          /\ \E n \in 0..Cardinality(bad) : sfm' = PutNowait(n + 1)
          /\ IF bad = pulled[w]
               THEN StartAck(w, bad)
               ELSE /\ stage' = [stage EXCEPT ![w] = "push"]
                    /\ toAck' = [toAck EXCEPT ![w] = bad]
                    /\ \E P \in Partitions(pulled[w] \ bad) :
                          batch' = [batch EXCEPT ![w] = [b \in P |-> "queued"]]
                    /\ UNCHANGED <<pending, pulled, malformed, chunks>>
      BY <1>4 DEF Process
    <2>0. bad \in SUBSET Messages
      BY DEF TypeOK
    <2>1. SubscriptionTypeOK'
      BY <1>4, <2>0 DEF Process, TypeOK, SubscriptionTypeOK
    <2>2. SharedTypeOK'
      <3>1. PICK n \in 0..Cardinality(bad) : sfm' = PutNowait(n + 1)
        OBVIOUS
      <3>2. n + 1 \in Nat
        <4>1. IsFiniteSet(bad)
          BY <2>0, FS_Subset
        <4>2. QED
          BY <4>1, FS_CardinalityType
      <3>3. sfm' \in 0..MaxSfm
        BY <3>1, <3>2, PutNowaitBounded
      <3>4. QED
        BY <1>4, <3>3 DEF Process, TypeOK, SharedTypeOK
    <2>3. RoundTypeOK' /\ BatchTypeOK'
      <3>1. CASE bad = pulled[w]
        BY <2>0, <3>1, StartAckType
      <3>2. CASE bad # pulled[w]
        <4>1. RoundTypeOK'
          <5>1. /\ stage' = [stage EXCEPT ![w] = "push"]
                /\ toAck' = [toAck EXCEPT ![w] = bad]
                /\ UNCHANGED <<pending, pulled, malformed, chunks>>
            BY <3>2
          <5>2. QED
            BY <2>0, <5>1 DEF RoundTypeOK, TypeOK
        <4>2. PICK P \in Partitions(pulled[w] \ bad) :
                batch' = [batch EXCEPT ![w] = [b \in P |-> "queued"]]
          BY <3>2
        <4>3. P \subseteq SUBSET Messages
          BY PartitionsCover DEF TypeOK
        <4>4. BatchTypeOK'
          BY <4>2, <4>3 DEF BatchTypeOK, BatchStates, TypeOK
        <4>5. QED
          BY <4>1, <4>4
      <3>3. QED
        BY <3>1, <3>2
    <2>4. QED
      BY <2>1, <2>2, <2>3, TypeParts DEF TypeOK, SubscriptionTypeOK,
         RoundTypeOK, BatchTypeOK, SharedTypeOK
  <1>5. ASSUME NEW w \in Workers, ProcessError(w) PROVE TypeOK'
    <2>1. PICK n \in 0..Cardinality(pulled[w]) : sfm' = PutNowait(n)
      BY <1>5 DEF ProcessError
    <2>2. n \in Nat
      <3>1. IsFiniteSet(pulled[w])
        BY FS_Subset DEF TypeOK
      <3>2. QED
        BY <3>1, FS_CardinalityType
    <2>3. sfm' \in 0..MaxSfm
      BY <2>1, <2>2, PutNowaitBounded
    <2>4. QED
      BY <1>5, <2>3 DEF ProcessError, TypeOK, subscriptionVars
  <1>6. ASSUME NEW w \in Workers, WakeUp(w) PROVE TypeOK'
    <2>1. RoundTypeOK' /\ BatchTypeOK'
      BY <1>6, StartRoundType DEF WakeUp, RoundTypeOK, TypeOK
    <2>2. QED
      BY <1>6, <2>1 DEF WakeUp, TypeOK, RoundTypeOK, BatchTypeOK,
         subscriptionVars, sharedVars
  <1>7. ASSUME NEW w \in Workers, NEW b \in DOMAIN batch[w], AcquireSlot(w, b)
        PROVE  TypeOK'
    <2>1. BatchTypeOK'
      BY <1>7 DEF AcquireSlot, TypeOK, BatchTypeOK, BatchStates
    <2>2. QED
      BY <1>7, <2>1 DEF AcquireSlot, TypeOK, BatchTypeOK, subscriptionVars
  <1>8. ASSUME NEW w \in Workers, NEW b \in DOMAIN batch[w],
               PutUnblocked(w, b) \/ SendOk(w, b) \/ SendError(w, b)
        PROVE  TypeOK'
    <2>1. PutAndRelease(w, b)
      BY <1>8 DEF PutUnblocked, SendOk, SendError
    <2>2. permits' \in Nat /\ sfm' \in 0..MaxSfm /\ BatchTypeOK'
      BY <2>1, PutAndReleaseType
    <2>3. SubscriptionTypeOK'
      BY <1>8 DEF PutUnblocked, SendOk, SendError, Ingest, TypeOK,
         SubscriptionTypeOK, subscriptionVars
    <2>4. RoundTypeOK'
      <3>1. b \subseteq Messages
        BY DEF TypeOK
      <3>2. QED
        BY <1>8, <3>1 DEF PutUnblocked, SendOk, SendError, TypeOK, RoundTypeOK
    <2>5. SharedTypeOK'
      BY <1>8, <2>2 DEF PutUnblocked, SendOk, SendError, Fault, TypeOK,
         SharedTypeOK
    <2>6. QED
      BY <2>2, <2>3, <2>4, <2>5 DEF TypeOK, SubscriptionTypeOK, RoundTypeOK,
         BatchTypeOK, SharedTypeOK
  <1>9. ASSUME NEW w \in Workers, FinishPush(w) PROVE TypeOK'
    <2>1. toAck[w] \in SUBSET Messages
      BY DEF TypeOK
    <2>2. RoundTypeOK' /\ BatchTypeOK'
      BY <1>9, <2>1, StartAckType DEF FinishPush
    <2>3. sfm' \in 0..MaxSfm
      BY <1>9, PutNowaitBounded DEF FinishPush
    <2>4. QED
      BY <1>9, <2>2, <2>3 DEF FinishPush, TypeOK, RoundTypeOK, BatchTypeOK,
         subscriptionVars
  <1>10. ASSUME NEW w \in Workers, NEW c \in chunks[w],
                AckOk(w, c) \/ AckError(w, c)
         PROVE  TypeOK'
    <2>1. ChunkAnswered(w, c)
      BY <1>10 DEF AckOk, AckError
    <2>2. RoundTypeOK' /\ BatchTypeOK'
      <3>1. CASE chunks[w] = {c}
        BY <2>1, <3>1, StartRoundType DEF ChunkAnswered, RoundTypeOK, TypeOK
      <3>2. CASE chunks[w] # {c}
        BY <2>1, <3>2 DEF ChunkAnswered, RoundTypeOK, BatchTypeOK, TypeOK
      <3>3. QED
        BY <3>1, <3>2
    <2>3. SubscriptionTypeOK'
      BY <1>10, <2>1 DEF AckOk, AckError, ChunkAnswered, Acknowledge, TypeOK,
         SubscriptionTypeOK
    <2>4. SharedTypeOK'
      BY <1>10, <2>1 DEF AckOk, AckError, Fault, ChunkAnswered, TypeOK,
         SharedTypeOK, sharedVars
    <2>5. QED
      BY <2>2, <2>3, <2>4 DEF TypeOK, SubscriptionTypeOK, RoundTypeOK,
         BatchTypeOK, SharedTypeOK
  <1>11. ASSUME SfmStep PROVE TypeOK'
    BY <1>11 DEF SfmStep, DrainSfm, ReportSfm, TypeOK, subscriptionVars,
       workerVars
  <1>12. ASSUME NEW m \in Messages, LeaseExpires(m) \/ LeaseExpiresEarly(m)
         PROVE  TypeOK'
    BY <1>12 DEF LeaseExpires, LeaseExpiresEarly, Fault, TypeOK, workerVars,
       sharedVars
  <1>13. ASSUME Restart PROVE TypeOK'
    BY <1>13 DEF Restart, Fault, TypeOK, subscriptionVars, NoBatches
  <1>14. CASE UNCHANGED vars
    BY <1>14 DEF TypeOK, vars, subscriptionVars, workerVars, sharedVars
  <1>15. QED
    BY <1>1, <1>2, <1>3, <1>4, <1>5, <1>6, <1>7, <1>8, <1>9, <1>10, <1>11,
       <1>12, <1>13, <1>14
       DEF Next, WorkerStep, PullStep, PushStep, AckStep

\* Type correctness: in particular the sfm queue never exceeds its size,
\* although put_nowait and blocked puts of all workers race for its room.
THEOREM TypeCorrect == Spec => []TypeOK
  BY InitTypeOK, StepTypeOK, PTL DEF Spec
-----------------------------------------------------------------------------
(* No message is lost.                                                     *)

\* What is handled stays handled: Dynatrace forgets nothing and rejecting is
\* final, so an ack id collected earlier is still justified later.
LEMMA HandledGrows ==
    ASSUME TypeOK, [Next]_vars
    PROVE  Handled \subseteq Handled'
  <1> DEFINE Grows == /\ rejected \subseteq rejected'
                      /\ \A m \in Messages : deliveries'[m] >= deliveries[m]
  <1>0. TypeOK'
    BY StepTypeOK
  <1>1. Grows
    <2>1. CASE UNCHANGED <<deliveries, rejected>>
      BY <2>1 DEF TypeOK
    <2>2. ASSUME NEW w \in Workers, Process(w) PROVE Grows
      BY <2>2 DEF Process, TypeOK
    <2>3. ASSUME NEW w \in Workers, NEW b \in DOMAIN batch[w],
                 SendOk(w, b) \/ SendError(w, b)
          PROVE  Grows
      BY <2>3 DEF SendOk, SendError, Ingest, TypeOK
    <2>4. QED
      BY <2>1, <2>2, <2>3
         DEF Next, WorkerStep, PullStep, PushStep, AckStep, SfmStep, vars,
             subscriptionVars, PullResponse, PullError, PullMalformed,
             ProcessError, WakeUp, AcquireSlot, PutUnblocked, FinishPush,
             AckOk, AckError, ChunkAnswered, DrainSfm, ReportSfm,
             LeaseExpires, LeaseExpiresEarly, Restart
  <1>2. \A m \in Messages : deliveries'[m] \in Nat
    BY <1>0 DEF TypeOK
  <1>3. QED
    BY <1>1, <1>2 DEF Handled, TypeOK

\* The inductive invariant: AckedOnlyIfHandled needs that the ack ids under
\* way are justified too.
AckInv == TypeOK /\ AckIdsHandled /\ AckedOnlyIfHandled

LEMMA InitAckInv == Init => AckInv
  BY InitTypeOK DEF Init, AckInv, AckIdsHandled, AckedOnlyIfHandled

\* Cutting justified ack ids into chunks yields justified chunks.
LEMMA StartAckHandled ==
    ASSUME AckInv, NEW w \in Workers, NEW ids, StartAck(w, ids),
           ids \subseteq Handled', Handled \subseteq Handled'
    PROVE  AckIdsHandled'
  <1> SUFFICES ASSUME NEW v \in Workers
               PROVE  toAck'[v] \union UNION chunks'[v] \subseteq Handled'
    BY DEF AckIdsHandled
  <1>1. toAck'[v] \subseteq Handled'
    BY DEF StartAck, AckInv, AckIdsHandled, TypeOK
  <1>2. UNION chunks'[v] \subseteq Handled'
    <2>1. CASE ids = {}
      BY <2>1 DEF StartAck, AckInv, AckIdsHandled
    <2>2. CASE ids # {}
      <3>1. PICK C \in Chunkings(ids) : chunks' = [chunks EXCEPT ![w] = C]
        BY <2>2 DEF StartAck
      <3>2. UNION C = ids
        BY <3>1, ChunkingsCover
      <3>3. QED
        BY <3>1, <3>2 DEF AckInv, AckIdsHandled, TypeOK
    <2>3. QED
      BY <2>1, <2>2
  <1>3. QED
    BY <1>1, <1>2

LEMMA StepAckIdsHandled == AckInv /\ [Next]_vars => AckIdsHandled'
  <1> SUFFICES ASSUME AckInv, [Next]_vars PROVE AckIdsHandled'
    OBVIOUS
  <1>0. TypeOK /\ TypeOK' /\ Handled \subseteq Handled'
    BY StepTypeOK, HandledGrows DEF AckInv
  <1>1. ASSUME NEW w \in Workers, Process(w) PROVE AckIdsHandled'
    <2> PICK bad \in SUBSET pulled[w] :
          /\ rejected' = rejected \union bad
          /\ IF bad = pulled[w]
               THEN StartAck(w, bad)
               ELSE /\ toAck' = [toAck EXCEPT ![w] = bad]
                    /\ UNCHANGED chunks
      BY <1>1 DEF Process
    <2>1. bad \subseteq Handled'
      BY DEF Handled
    <2>2. CASE bad = pulled[w]
      BY <1>0, <2>1, <2>2, StartAckHandled
    <2>3. CASE bad # pulled[w]
      BY <1>0, <2>1, <2>3 DEF AckInv, AckIdsHandled, TypeOK
    <2>4. QED
      BY <2>2, <2>3
  <1>2. ASSUME NEW w \in Workers, NEW b \in DOMAIN batch[w], SendOk(w, b)
        PROVE  AckIdsHandled'
    <2>1. b \subseteq Messages
      BY <1>0 DEF TypeOK
    <2>2. b \subseteq Handled'
      BY <1>0, <1>2, <2>1 DEF SendOk, Ingest, Handled, TypeOK
    <2>3. QED
      BY <1>0, <1>2, <2>2 DEF SendOk, AckInv, AckIdsHandled, TypeOK
  <1>3. ASSUME NEW w \in Workers, FinishPush(w) PROVE AckIdsHandled'
    <2>1. toAck[w] \subseteq Handled'
      BY <1>0 DEF AckInv, AckIdsHandled
    <2>2. QED
      BY <1>0, <1>3, <2>1, StartAckHandled DEF FinishPush
  <1>4. ASSUME NEW w \in Workers, NEW c \in chunks[w],
               AckOk(w, c) \/ AckError(w, c)
        PROVE  AckIdsHandled'
    BY <1>0, <1>4 DEF AckOk, AckError, ChunkAnswered, AckInv, AckIdsHandled,
                      TypeOK
  <1>5. CASE UNCHANGED <<toAck, chunks>>
    BY <1>0, <1>5 DEF AckInv, AckIdsHandled
  <1>6. ASSUME Restart PROVE AckIdsHandled'
    BY <1>6 DEF Restart, AckIdsHandled
  <1>7. QED
    BY <1>1, <1>2, <1>3, <1>4, <1>5, <1>6
       DEF Next, WorkerStep, PullStep, PushStep, AckStep, SfmStep, vars,
           workerVars, PullResponse, PullError, PullMalformed, ProcessError,
           WakeUp, AcquireSlot, PutUnblocked, SendError, DrainSfm, ReportSfm,
           LeaseExpires, LeaseExpiresEarly

\* Only an acknowledge request removes messages from the subscription, and
\* only those of its chunk.
LEMMA OnlyChunksAreAcked ==
    ASSUME AckInv, [Next]_vars, NEW m \in Messages, sub'[m] = "acked"
    PROVE  sub[m] = "acked" \/ m \in Handled
  <1>1. ASSUME NEW w \in Workers, NEW c \in chunks[w],
               AckOk(w, c) \/ AckError(w, c), sub[m] # "acked"
        PROVE  m \in Handled
    <2>1. m \in c
      BY <1>1 DEF AckOk, AckError, Acknowledge, AckInv, TypeOK
    <2>2. QED
      BY <2>1 DEF AckInv, AckIdsHandled
  <1>2. QED
    BY <1>1 DEF AckInv, TypeOK, Next, WorkerStep, PullStep, PushStep, AckStep,
        SfmStep, vars, subscriptionVars, PullResponse, PullError,
        PullMalformed, Lease, Process, ProcessError, WakeUp, AcquireSlot,
        PutUnblocked, SendOk, SendError, FinishPush, DrainSfm, ReportSfm,
        LeaseExpires, LeaseExpiresEarly, Restart

LEMMA StepAckInv == AckInv /\ [Next]_vars => AckInv'
  <1> SUFFICES ASSUME AckInv, [Next]_vars PROVE AckInv'
    OBVIOUS
  <1>1. TypeOK' /\ AckIdsHandled'
    BY StepTypeOK, StepAckIdsHandled DEF AckInv
  <1>2. AckedOnlyIfHandled'
    BY OnlyChunksAreAcked, HandledGrows DEF AckInv, AckedOnlyIfHandled
  <1>3. QED
    BY <1>1, <1>2 DEF AckInv

LEMMA AckInvariant == Spec => []AckInv
  BY InitAckInv, StepAckInv, PTL DEF Spec

\* No log message is lost: it leaves the subscription only after Dynatrace
\* ingested it or after it was judged erroneous.
THEOREM NoMessageLost == Spec => []AckedOnlyIfHandled
  <1>1. AckInv => AckedOnlyIfHandled
    BY DEF AckInv
  <1>2. QED
    BY <1>1, AckInvariant, PTL

-----------------------------------------------------------------------------
(* The pipeline implements at-least-once delivery.                         *)

Delivered == {m \in Messages : deliveries[m] > 0}
Acked == {m \in Messages : sub[m] = "acked"}

LEMMA PromiseInit == Init => Promise!Init
  BY DEF Init, Promise!Init

\* Every step of the pipeline is a delivery, a rejection, an acknowledgement
\* of handled messages, or invisible to the publisher.
LEMMA PromiseStep ==
    ASSUME AckInv, [Next]_vars
    PROVE  [Promise!Next]_<<Delivered, rejected, Acked>>
  <1> DEFINE abstract == <<Delivered, rejected, Acked>>
  <1>0. TypeOK
    BY DEF AckInv
  <1>1. ASSUME NEW w \in Workers, Process(w) PROVE Promise!Next
    <2>1. PICK bad \in SUBSET pulled[w] : rejected' = rejected \union bad
      BY <1>1 DEF Process
    <2>2. bad \in SUBSET Messages
      BY <1>0 DEF TypeOK
    <2>3. UNCHANGED <<Delivered, Acked>>
      BY <1>1 DEF Process, Delivered, Acked
    <2>4. QED
      BY <2>1, <2>2, <2>3 DEF Promise!Next, Promise!Reject, Delivered, Acked
  <1>2. ASSUME NEW w \in Workers, NEW b \in DOMAIN batch[w], Ingest(b),
               UNCHANGED <<sub, rejected>>
        PROVE  Promise!Next
    <2>1. b \in SUBSET Messages
      BY <1>0 DEF TypeOK
    <2>2. Delivered' = Delivered \union b
      BY <1>0, <1>2, <2>1 DEF Ingest, Delivered, TypeOK
    <2>3. UNCHANGED Acked
      BY <1>2 DEF Acked
    <2>4. QED
      BY <1>2, <2>1, <2>2, <2>3
         DEF Promise!Next, Promise!Deliver, Delivered, Acked
  <1>3. ASSUME NEW w \in Workers, NEW c \in chunks[w], Acknowledge(c),
               UNCHANGED <<deliveries, rejected>>
        PROVE  Promise!Next
    <2>1. PICK done \in SUBSET c :
            sub' = [m \in Messages |-> IF m \in done THEN "acked" ELSE sub[m]]
      BY <1>3 DEF Acknowledge
    <2>2. done \in SUBSET (Delivered \union rejected) /\ done \in SUBSET Messages
      BY <1>0 DEF AckInv, AckIdsHandled, Handled, Delivered, TypeOK
    <2>3. Acked' = Acked \union done
      BY <2>1, <2>2 DEF Acked
    <2>4. UNCHANGED <<Delivered, rejected>>
      BY <1>3 DEF Delivered
    <2>5. QED
      BY <2>2, <2>3, <2>4
         DEF Promise!Next, Promise!Acknowledge, Delivered, Acked
  <1>4. CASE UNCHANGED <<deliveries, rejected>> /\ Acked' = Acked
    BY <1>4 DEF Delivered
  <1>5. ASSUME NEW w \in Workers, NEW b \in DOMAIN batch[w],
               SendOk(w, b) \/ SendError(w, b)
        PROVE  Promise!Next \/ UNCHANGED abstract
    <2>1. UNCHANGED <<sub, rejected>> /\ (Ingest(b) \/ UNCHANGED deliveries)
      BY <1>5 DEF SendOk, SendError
    <2>2. QED
      BY <1>2, <2>1 DEF Delivered, Acked
  <1>6. ASSUME NEW w \in Workers, NEW c \in chunks[w],
               AckOk(w, c) \/ AckError(w, c)
        PROVE  Promise!Next \/ UNCHANGED abstract
    <2>1. UNCHANGED <<deliveries, rejected>> /\ (Acknowledge(c) \/ UNCHANGED sub)
      BY <1>6 DEF AckOk, AckError, ChunkAnswered
    <2>2. QED
      BY <1>3, <2>1 DEF Delivered, Acked
  <1>7. \/ \E w \in Workers : Process(w)
        \/ \E w \in Workers : \E b \in DOMAIN batch[w] : SendOk(w, b) \/ SendError(w, b)
        \/ \E w \in Workers : \E c \in chunks[w] : AckOk(w, c) \/ AckError(w, c)
        \/ UNCHANGED <<deliveries, rejected>> /\ Acked' = Acked
    BY <1>0 DEF TypeOK, Next, WorkerStep, PullStep, PushStep, AckStep, Acked,
        SfmStep, vars, subscriptionVars, PullResponse, PullError,
        PullMalformed, Lease, ProcessError, WakeUp, AcquireSlot,
        PutUnblocked, FinishPush, DrainSfm, ReportSfm, LeaseExpires,
        LeaseExpiresEarly, Restart
  <1>8. QED
    BY <1>1, <1>4, <1>5, <1>6, <1>7

\* Refinement: for every publisher the pipeline behaves like AtLeastOnce.
THEOREM Refinement == Spec => ImplementsAtLeastOnce
  <1>1. AckInv /\ [Next]_vars => [Promise!Next]_<<Delivered, rejected, Acked>>
    BY PromiseStep
  <1>2. QED
    BY <1>1, PromiseInit, AckInvariant, PTL
       DEF Spec, ImplementsAtLeastOnce, Promise!Spec, Promise!abstractVars,
           Delivered, Acked
-----------------------------------------------------------------------------
(* The push semaphore is neither leaked nor multiplied.                    *)

LEMMA HoldersFinite == IsFiniteSet(Holders)
  <1>1. IsFiniteSet(Workers \X SUBSET Messages)
    BY LogForwarderAssumption, FS_SUBSET, FS_Product
  <1>2. Holders \subseteq Workers \X SUBSET Messages
    BY DEF Holders
  <1>3. QED
    BY <1>1, <1>2, FS_Subset

\* Ending or starting a round concerns only coroutines that hold no slot.
LEMMA StartAckHolders ==
    ASSUME TypeOK, NEW w \in Workers, NEW ids, StartAck(w, ids),
           \A b \in SUBSET Messages : <<w, b>> \notin Holders
    PROVE  Holders' = Holders
  <1> SUFFICES ASSUME NEW v \in Workers, NEW b \in SUBSET Messages
               PROVE  <<v, b>> \in Holders' <=> <<v, b>> \in Holders
    BY DEF Holders
  <1>1. stage'[w] # "push"
    BY DEF StartAck, StartRound, TypeOK
  <1>2. v # w => stage'[v] = stage[v] /\ batch'[v] = batch[v]
    BY DEF StartAck, StartRound, TypeOK
  <1>3. CASE v = w
    BY <1>1, <1>3 DEF Holders, InState
  <1>4. CASE v # w
    BY <1>2, <1>4 DEF Holders, InState
  <1>5. QED
    BY <1>3, <1>4

LEMMA StartRoundHolders ==
    ASSUME TypeOK, NEW w \in Workers, StartRound(w), stage[w] # "push"
    PROVE  Holders' = Holders
  BY DEF StartRound, Holders, InState, TypeOK

\* The end of a request frees its slot exactly when its put is done.
LEMMA PutAndReleaseAccounted ==
    ASSUME TypeOK, PermitsAccounted, NEW w \in Workers,
           NEW b \in DOMAIN batch[w], <<w, b>> \in Holders,
           PutAndRelease(w, b), UNCHANGED stage
    PROVE  PermitsAccounted'
  <1>1. CASE sfm < MaxSfm
    <2>1. Holders' = Holders \ {<<w, b>>}
      BY <1>1 DEF PutAndRelease, Holders, InState, TypeOK
    <2>2. Cardinality(Holders') = Cardinality(Holders) - 1
      BY <2>1, HoldersFinite, FS_RemoveElement
    <2>3. Cardinality(Holders) \in Nat
      BY HoldersFinite, FS_CardinalityType
    <2>4. permits' = permits + 1
      BY <1>1 DEF PutAndRelease
    <2>5. QED
      BY <2>2, <2>3, <2>4, LogForwarderAssumption DEF PermitsAccounted, TypeOK
  <1>2. CASE ~(sfm < MaxSfm)
    <2>1. Holders' = Holders
      BY <1>2 DEF PutAndRelease, Holders, InState, TypeOK
    <2>2. QED
      BY <1>2, <2>1 DEF PutAndRelease, PermitsAccounted
  <1>3. QED
    BY <1>1, <1>2

LEMMA InitPermits == Init => PermitsAccounted
  <1> SUFFICES ASSUME Init PROVE PermitsAccounted
    OBVIOUS
  <1>1. Holders = {}
    BY DEF Init, Holders, InState
  <1>2. QED
    BY <1>1, FS_EmptySet, LogForwarderAssumption DEF Init, PermitsAccounted

LEMMA StepPermits == TypeOK /\ PermitsAccounted /\ [Next]_vars => PermitsAccounted'
  <1> SUFFICES ASSUME TypeOK, PermitsAccounted, [Next]_vars
               PROVE  PermitsAccounted'
    OBVIOUS
  <1>1. ASSUME Holders' = Holders, UNCHANGED permits PROVE PermitsAccounted'
    BY <1>1 DEF PermitsAccounted
  <1>2. ASSUME NEW w \in Workers, Process(w) PROVE PermitsAccounted'
    <2> PICK bad \in SUBSET pulled[w] :
          IF bad = pulled[w]
            THEN StartAck(w, bad)
            ELSE /\ stage' = [stage EXCEPT ![w] = "push"]
                 /\ \E P \in Partitions(pulled[w] \ bad) :
                       batch' = [batch EXCEPT ![w] = [b \in P |-> "queued"]]
      BY <1>2 DEF Process
    <2>1. stage[w] # "push" /\ UNCHANGED permits
      BY <1>2 DEF Process
    <2>2. CASE bad = pulled[w]
      <3>1. \A b \in SUBSET Messages : <<w, b>> \notin Holders
        BY <2>1 DEF Holders, InState
      <3>2. QED
        BY <1>1, <2>1, <2>2, <3>1, StartAckHolders
    <2>3. CASE bad # pulled[w]
      <3>1. stage' = [stage EXCEPT ![w] = "push"]
        BY <2>3
      <3>2. PICK P \in Partitions(pulled[w] \ bad) :
              batch' = [batch EXCEPT ![w] = [b \in P |-> "queued"]]
        BY <2>3
      <3>3. Holders' = Holders
        BY <2>1, <3>1, <3>2 DEF Holders, InState, TypeOK
      <3>4. QED
        BY <1>1, <2>1, <3>3
    <2>4. QED
      BY <2>2, <2>3
  <1>3. ASSUME NEW w \in Workers, ProcessError(w) PROVE PermitsAccounted'
    <2>1. Holders' = Holders
      BY <1>3 DEF ProcessError, Holders, InState, TypeOK
    <2>2. QED
      BY <1>1, <1>3, <2>1 DEF ProcessError
  <1>4. ASSUME NEW w \in Workers, WakeUp(w) PROVE PermitsAccounted'
    BY <1>1, <1>4, StartRoundHolders DEF WakeUp, sharedVars
  <1>5. ASSUME NEW w \in Workers, NEW b \in DOMAIN batch[w], AcquireSlot(w, b)
        PROVE  PermitsAccounted'
    <2>1. b \in SUBSET Messages
      BY DEF TypeOK
    <2>2. <<w, b>> \notin Holders
      BY <1>5 DEF AcquireSlot, Holders, InState
    <2>3. Holders' = Holders \union {<<w, b>>}
      BY <1>5, <2>1 DEF AcquireSlot, Holders, InState, TypeOK
    <2>4. Cardinality(Holders') = Cardinality(Holders) + 1
      BY <2>2, <2>3, HoldersFinite, FS_AddElement
    <2>5. Cardinality(Holders) \in Nat
      BY HoldersFinite, FS_CardinalityType
    <2>6. permits' = permits - 1
      BY <1>5 DEF AcquireSlot
    <2>7. QED
      BY <2>4, <2>5, <2>6, LogForwarderAssumption DEF PermitsAccounted, TypeOK
  <1>6. ASSUME NEW w \in Workers, NEW b \in DOMAIN batch[w],
               PutUnblocked(w, b) \/ SendOk(w, b) \/ SendError(w, b)
        PROVE  PermitsAccounted'
    <2>1. b \in SUBSET Messages
      BY DEF TypeOK
    <2>2. <<w, b>> \in Holders /\ PutAndRelease(w, b) /\ UNCHANGED stage
      BY <1>6, <2>1 DEF PutUnblocked, SendOk, SendError, Holders, InState
    <2>3. QED
      BY <2>2, PutAndReleaseAccounted
  <1>7. ASSUME NEW w \in Workers, FinishPush(w) PROVE PermitsAccounted'
    <2>1. \A b \in SUBSET Messages : <<w, b>> \notin Holders
      BY <1>7 DEF FinishPush, Holders, InState
    <2>2. QED
      BY <1>1, <1>7, <2>1, StartAckHolders DEF FinishPush
  <1>8. ASSUME NEW w \in Workers, NEW c \in chunks[w],
               AckOk(w, c) \/ AckError(w, c)
        PROVE  PermitsAccounted'
    <2>1. ChunkAnswered(w, c) /\ UNCHANGED permits
      BY <1>8 DEF AckOk, AckError, ChunkAnswered, sharedVars
    <2>2. Holders' = Holders
      BY <2>1, StartRoundHolders DEF ChunkAnswered, Holders, InState
    <2>3. QED
      BY <1>1, <2>1, <2>2
  <1>9. ASSUME Restart PROVE PermitsAccounted'
    <2>1. Holders' = {}
      BY <1>9 DEF Restart, Holders, InState
    <2>2. QED
      BY <1>9, <2>1, FS_EmptySet, LogForwarderAssumption
         DEF Restart, PermitsAccounted
  <1>10. CASE UNCHANGED <<stage, batch, permits>>
    <2>1. Holders' = Holders
      BY <1>10 DEF Holders, InState
    <2>2. QED
      BY <1>1, <1>10, <2>1
  <1>11. QED
    BY <1>2, <1>3, <1>4, <1>5, <1>6, <1>7, <1>8, <1>9, <1>10
       DEF Next, WorkerStep, PullStep, PushStep, AckStep, SfmStep, vars,
           workerVars, sharedVars, PullResponse, PullError, PullMalformed,
           DrainSfm, ReportSfm, LeaseExpires, LeaseExpiresEarly

\* log_push_semaphore: at every moment its value and the batches that hold a
\* slot add up to its size, so at most PushSlots requests run at once and no
\* slot is ever lost, whatever fails.
THEOREM SlotsAccounted == Spec => []PermitsAccounted
  <1>1. TypeOK /\ PermitsAccounted /\ [Next]_vars => TypeOK' /\ PermitsAccounted'
    BY StepTypeOK, StepPermits
  <1>2. QED
    BY <1>1, InitTypeOK, InitPermits, PTL DEF Spec
-----------------------------------------------------------------------------
(* A message is delivered again only when a failure paid for it.           *)

\* The worker has the message in its round and did not send it yet.
Unsent(w, m) ==
    \/ stage[w] = "pull" /\ m \in pulled[w]
    \/ \E b \in DOMAIN batch[w] :
          m \in b /\ (InState(w, b, "queued") \/ InState(w, b, "sending"))

\* The worker is about to acknowledge the message.
Settling(w, m) == m \in toAck[w] \union UNION chunks[w]

Senders(m) == {w \in Workers : Unsent(w, m)}

\* The subscription hands the message out again although nothing else fails.
Loose(m) ==
    \/ sub[m] = "waiting"
    \/ sub[m] = "leased" /\ \A w \in Workers : ~Unsent(w, m) /\ ~Settling(w, m)

\* The deliveries a message can still have without a further failure.
Copies(m) == Cardinality(Senders(m)) + IF Loose(m) THEN 1 ELSE 0

CopiesPaid == \A m \in Messages : deliveries[m] + Copies(m) <= 1 + faults

\* What a round keeps: ack ids and batches belong to the round's messages,
\* each message is in one batch, and ack ids exist only while they are needed.
RoundOK(w) ==
    /\ stage[w] # "push" => toAck[w] = {}
    /\ stage[w] # "ack" => chunks[w] = {}
    /\ toAck[w] \union UNION chunks[w] \subseteq pulled[w]
    /\ stage[w] = "push" =>
        /\ UNION DOMAIN batch[w] \subseteq pulled[w]
        /\ \A a, b \in DOMAIN batch[w] : a = b \/ a \intersect b = {}

RoundsOK == \A w \in Workers : RoundOK(w)

\* The inductive invariant behind DuplicatesNeedFaults.
DuplicatesInv == TypeOK /\ RoundsOK /\ CopiesPaid

LEMMA InitDuplicatesInv == Init => DuplicatesInv
  <1> SUFFICES ASSUME Init PROVE DuplicatesInv
    OBVIOUS
  <1>1. RoundsOK
    BY DEF Init, RoundsOK, RoundOK
  <1>2. ASSUME NEW m \in Messages PROVE deliveries[m] + Copies(m) <= 1 + faults
    <2>1. Senders(m) = {}
      BY DEF Init, Senders, Unsent, NoBatches
    <2>2. Cardinality(Senders(m)) = 0
      BY <2>1, FS_EmptySet
    <2>3. QED
      BY <2>2 DEF Init, Copies
  <1>3. QED
    BY <1>1, <1>2, InitTypeOK DEF DuplicatesInv, CopiesPaid

\* A worker whose round a step leaves alone.
LEMMA RoundKept ==
    ASSUME RoundsOK, NEW w \in Workers, stage'[w] = stage[w],
           pulled'[w] = pulled[w], toAck'[w] = toAck[w],
           chunks'[w] = chunks[w], DOMAIN batch'[w] = DOMAIN batch[w]
    PROVE  RoundOK(w)'
  BY DEF RoundsOK, RoundOK

LEMMA StartRoundRound ==
    ASSUME TypeOK, NEW w \in Workers, StartRound(w),
           toAck'[w] = {}, chunks'[w] = {}
    PROVE  RoundOK(w)'
  BY DEF StartRound, TypeOK, RoundOK

LEMMA StartAckRound ==
    ASSUME TypeOK, RoundsOK, NEW w \in Workers,
           NEW ids \in SUBSET pulled[w], stage[w] # "ack", StartAck(w, ids)
    PROVE  RoundsOK'
  <1>1. ASSUME NEW v \in Workers, v # w PROVE RoundOK(v)'
    <2>1. /\ stage'[v] = stage[v] /\ pulled'[v] = pulled[v]
          /\ toAck'[v] = toAck[v] /\ chunks'[v] = chunks[v]
          /\ batch'[v] = batch[v]
      BY <1>1 DEF StartAck, StartRound, TypeOK
    <2>2. QED
      BY <2>1, RoundKept
  <1>2. toAck'[w] = {}
    BY DEF StartAck, TypeOK
  <1>3. RoundOK(w)'
    <2>1. CASE ids = {}
      BY <1>2, <2>1, StartRoundRound DEF StartAck, RoundsOK, RoundOK
    <2>2. CASE ids # {}
      <3>1. PICK C \in Chunkings(ids) : chunks' = [chunks EXCEPT ![w] = C]
        BY <2>2 DEF StartAck
      <3>2. UNION chunks'[w] = ids
        BY <3>1, ChunkingsCover DEF TypeOK
      <3>3. stage'[w] = "ack" /\ pulled'[w] = pulled[w]
        BY <2>2 DEF StartAck, TypeOK
      <3>4. QED
        BY <1>2, <3>2, <3>3 DEF RoundOK
    <2>3. QED
      BY <2>1, <2>2
  <1>4. QED
    BY <1>1, <1>3 DEF RoundsOK

LEMMA StepRoundsOK == TypeOK /\ RoundsOK /\ [Next]_vars => RoundsOK'
  <1> SUFFICES ASSUME TypeOK, RoundsOK, [Next]_vars PROVE RoundsOK'
    OBVIOUS
  \* A step of worker w leaves the rounds of the others alone.
  <1>0. ASSUME NEW w \in Workers, RoundOK(w)',
               \A v \in Workers \ {w} :
                  /\ stage'[v] = stage[v] /\ pulled'[v] = pulled[v]
                  /\ toAck'[v] = toAck[v] /\ chunks'[v] = chunks[v]
                  /\ batch'[v] = batch[v]
        PROVE  RoundsOK'
    <2>1. \A v \in Workers \ {w} : RoundOK(v)'
      BY <1>0, RoundKept
    <2>2. QED
      BY <1>0, <2>1 DEF RoundsOK
  <1>1. ASSUME NEW w \in Workers, PullResponse(w) PROVE RoundsOK'
    <2>1. RoundOK(w)'
      BY <1>1 DEF PullResponse, Answered, TypeOK, RoundsOK, RoundOK
    <2>2. QED
      BY <1>0, <1>1, <2>1 DEF PullResponse, TypeOK
  <1>2. ASSUME NEW w \in Workers, Process(w) PROVE RoundsOK'
    <2> PICK bad \in SUBSET pulled[w] :
          IF bad = pulled[w]
            THEN StartAck(w, bad)
            ELSE /\ stage' = [stage EXCEPT ![w] = "push"]
                 /\ toAck' = [toAck EXCEPT ![w] = bad]
                 /\ \E P \in Partitions(pulled[w] \ bad) :
                       batch' = [batch EXCEPT ![w] = [b \in P |-> "queued"]]
                 /\ UNCHANGED <<pending, pulled, malformed, chunks>>
      BY <1>2 DEF Process
    <2>1. stage[w] = "pull"
      BY <1>2 DEF Process
    <2>2. CASE bad = pulled[w]
      BY <2>1, <2>2, StartAckRound
    <2>3. CASE bad # pulled[w]
      <3>1. /\ stage' = [stage EXCEPT ![w] = "push"]
            /\ toAck' = [toAck EXCEPT ![w] = bad]
            /\ UNCHANGED <<pulled, chunks>>
        BY <2>3
      <3>2. PICK P \in Partitions(pulled[w] \ bad) :
              batch' = [batch EXCEPT ![w] = [b \in P |-> "queued"]]
        BY <2>3
      <3>3. /\ UNION P = pulled[w] \ bad
            /\ \A a, b \in P : a = b \/ a \intersect b = {}
        BY DEF Partitions
      <3>4. DOMAIN batch'[w] = P
        BY <3>2 DEF TypeOK
      <3>5. RoundOK(w)'
        <4>1. chunks'[w] = {} /\ toAck'[w] = bad /\ stage'[w] = "push"
          BY <2>1, <3>1 DEF TypeOK, RoundsOK, RoundOK
        <4>2. QED
          BY <3>1, <3>3, <3>4, <4>1 DEF RoundOK
      <3>6. QED
        BY <1>0, <3>1, <3>2, <3>5 DEF TypeOK
    <2>4. QED
      BY <2>2, <2>3
  <1>3. ASSUME NEW w \in Workers, ProcessError(w) PROVE RoundsOK'
    <2>1. RoundOK(w)'
      BY <1>3 DEF ProcessError, TypeOK, RoundsOK, RoundOK
    <2>2. QED
      BY <1>0, <1>3, <2>1 DEF ProcessError, TypeOK
  <1>4. ASSUME NEW w \in Workers, WakeUp(w) PROVE RoundsOK'
    <2>1. RoundOK(w)'
      BY <1>4, StartRoundRound DEF WakeUp, RoundsOK, RoundOK
    <2>2. QED
      BY <1>0, <1>4, <2>1 DEF WakeUp, StartRound, TypeOK
  <1>5. ASSUME NEW w \in Workers, NEW b \in DOMAIN batch[w],
               \/ AcquireSlot(w, b) \/ PutUnblocked(w, b)
               \/ SendOk(w, b) \/ SendError(w, b)
        PROVE  RoundsOK'
    <2>1. /\ \/ batch' = batch
             \/ \E s \in BatchStates : batch' = [batch EXCEPT ![w][b] = s]
          /\ UNCHANGED <<stage, pulled, chunks>>
          /\ UNCHANGED toAck \/ toAck' = [toAck EXCEPT ![w] = @ \union b]
          /\ stage[w] = "push"
      BY <1>5 DEF AcquireSlot, PutUnblocked, SendOk, SendError, PutAndRelease,
                  InState, BatchStates
    <2>2. \A v \in Workers : DOMAIN batch'[v] = DOMAIN batch[v]
      BY <2>1 DEF TypeOK
    <2>3. \A v \in Workers \ {w} : RoundOK(v)'
      BY <2>1, <2>2, RoundKept DEF TypeOK
    <2>4. RoundOK(w)'
      BY <2>1, <2>2 DEF TypeOK, RoundsOK, RoundOK
    <2>5. QED
      BY <2>3, <2>4 DEF RoundsOK
  <1>6. ASSUME NEW w \in Workers, FinishPush(w) PROVE RoundsOK'
    BY <1>6, StartAckRound DEF FinishPush, RoundsOK, RoundOK
  <1>7. ASSUME NEW w \in Workers, NEW c \in chunks[w],
               AckOk(w, c) \/ AckError(w, c)
        PROVE  RoundsOK'
    <2>1. ChunkAnswered(w, c)
      BY <1>7 DEF AckOk, AckError
    <2>2. RoundOK(w)'
      <3>1. CASE chunks[w] = {c}
        BY <2>1, <3>1, StartRoundRound DEF ChunkAnswered, TypeOK, RoundsOK,
           RoundOK
      <3>2. CASE chunks[w] # {c}
        BY <2>1, <3>2 DEF ChunkAnswered, TypeOK, RoundsOK, RoundOK
      <3>3. QED
        BY <3>1, <3>2
    <2>3. QED
      BY <1>0, <2>1, <2>2 DEF ChunkAnswered, StartRound, TypeOK
  <1>8. ASSUME Restart PROVE RoundsOK'
    BY <1>8 DEF Restart, RoundsOK, RoundOK
  <1>9. CASE UNCHANGED <<stage, pulled, batch, toAck, chunks>>
    BY <1>9 DEF RoundsOK, RoundOK
  <1>10. QED
    BY <1>1, <1>2, <1>3, <1>4, <1>5, <1>6, <1>7, <1>8, <1>9
       DEF Next, WorkerStep, PullStep, PushStep, AckStep, SfmStep, vars,
           workerVars, PullError, PullMalformed, DrainSfm, ReportSfm,
           LeaseExpires, LeaseExpiresEarly

LEMMA SendersFinite ==
    ASSUME NEW m
    PROVE  IsFiniteSet(Senders(m)) /\ Cardinality(Senders(m)) \in Nat
  <1>1. Senders(m) \subseteq Workers
    BY DEF Senders
  <1>2. IsFiniteSet(Senders(m))
    BY <1>1, LogForwarderAssumption, FS_Subset
  <1>3. QED
    BY <1>2, FS_CardinalityType

\* Whether a worker still has to send a message depends on its round alone.
LEMMA UnsentKept ==
    ASSUME NEW w \in Workers, NEW m, stage'[w] = stage[w],
           pulled'[w] = pulled[w], batch'[w] = batch[w]
    PROVE  Unsent(w, m)' <=> Unsent(w, m)
  BY DEF Unsent, InState

PaidFor(m) == deliveries[m] + Copies(m) <= 1 + faults

\* A step that delivers nothing: a copy becomes loose only in place of one
\* that a worker had, or a failure pays for it.
LEMMA NoNewCopy ==
    ASSUME TypeOK, TypeOK', NEW m \in Messages, PaidFor(m),
           Senders(m)' \subseteq Senders(m), deliveries'[m] = deliveries[m],
           faults' \in {faults, faults + 1},
           Loose(m)' => \/ Loose(m) \/ faults' = faults + 1
                        \/ Senders(m)' # Senders(m)
    PROVE  PaidFor(m)'
  <1> DEFINE before == Cardinality(Senders(m))
             after == Cardinality(Senders(m)')
  <1>1. before \in Nat /\ after \in Nat
    <2>1. IsFiniteSet(Senders(m)')
      BY SendersFinite, FS_Subset
    <2>2. QED
      BY <2>1, SendersFinite, FS_CardinalityType
  <1>2. after <= before /\ (Senders(m)' # Senders(m) => after # before)
    BY SendersFinite, FS_Subset
  <1>3. /\ Copies(m) = before + IF Loose(m) THEN 1 ELSE 0
        /\ Copies(m)' = after + IF Loose(m)' THEN 1 ELSE 0
    BY DEF Copies
  <1>4. deliveries[m] \in Nat /\ faults \in Nat
    BY DEF TypeOK
  <1>5. deliveries[m] + Copies(m) <= 1 + faults
    BY DEF PaidFor
  <1> HIDE DEF before, after
  <1>6. Copies(m)' <= Copies(m) \/ (Copies(m)' <= Copies(m) + 1 /\ faults' = faults + 1)
    BY <1>1, <1>2, <1>3
  <1>7. Copies(m) \in Nat /\ Copies(m)' \in Nat
    BY <1>1, <1>3
  <1>8. deliveries'[m] + Copies(m)' <= 1 + faults'
    BY <1>4, <1>5, <1>6, <1>7
  <1>9. QED
    BY <1>8 DEF PaidFor

\* A delivery uses up the copy of the worker that sends it.
LEMMA CopySent ==
    ASSUME TypeOK, NEW m \in Messages, PaidFor(m),
           NEW w \in Senders(m), Senders(m)' = Senders(m) \ {w},
           deliveries'[m] = deliveries[m] + 1,
           \/ faults' = faults + 1
           \/ faults' = faults /\ (Loose(m)' => Loose(m))
    PROVE  PaidFor(m)'
  <1> DEFINE before == Cardinality(Senders(m))
             after == Cardinality(Senders(m)')
  <1>1. before \in Nat /\ after = before - 1
    BY SendersFinite, FS_RemoveElement
  <1>2. /\ Copies(m) = before + IF Loose(m) THEN 1 ELSE 0
        /\ Copies(m)' = after + IF Loose(m)' THEN 1 ELSE 0
    BY DEF Copies
  <1>3. deliveries[m] \in Nat /\ faults \in Nat
    BY DEF TypeOK
  <1>4. deliveries[m] + Copies(m) <= 1 + faults
    BY DEF PaidFor
  <1> HIDE DEF before, after
  <1>5. deliveries'[m] + Copies(m)' <= 1 + faults'
    BY <1>1, <1>2, <1>3, <1>4
  <1>6. QED
    BY <1>5 DEF PaidFor

\* A pull turns the loose copy into one of the worker.
LEMMA CopyPulled ==
    ASSUME TypeOK, NEW m \in Messages, PaidFor(m), NEW w \in Workers,
           Senders(m)' = Senders(m) \union {w}, Loose(m), ~Loose(m)',
           UNCHANGED <<deliveries, faults>>
    PROVE  PaidFor(m)'
  <1> DEFINE before == Cardinality(Senders(m))
             after == Cardinality(Senders(m)')
  <1>1. before \in Nat /\ after \in {before, before + 1}
    BY SendersFinite, FS_AddElement
  <1>2. Copies(m) = before + 1 /\ Copies(m)' = after
    <2>1. after + 0 = after
      BY <1>1
    <2>2. QED
      BY <2>1 DEF Copies
  <1>3. deliveries[m] \in Nat /\ faults \in Nat
    BY DEF TypeOK
  <1>4. deliveries[m] + Copies(m) <= 1 + faults
    BY DEF PaidFor
  <1> HIDE DEF before, after
  <1>5. deliveries'[m] + Copies(m)' <= 1 + faults'
    BY <1>1, <1>2, <1>3, <1>4
  <1>6. QED
    BY <1>5 DEF PaidFor

\* A step that leaves the subscription alone and lets no ack id disappear,
\* unless a failure pays for it.
LEMMA QuietStep ==
    ASSUME TypeOK, TypeOK', NEW m \in Messages, PaidFor(m),
           sub'[m] = sub[m], deliveries'[m] = deliveries[m],
           faults' \in {faults, faults + 1},
           \A w \in Workers : Unsent(w, m)' => Unsent(w, m),
           \/ faults' = faults + 1
           \/ \A w \in Workers : Settling(w, m) => Settling(w, m)'
    PROVE  PaidFor(m)'
  <1>1. Senders(m)' \subseteq Senders(m)
    BY DEF Senders
  <1>2. Loose(m)' => \/ Loose(m) \/ faults' = faults + 1
                     \/ Senders(m)' # Senders(m)
    <2> SUFFICES ASSUME Loose(m)', faults' # faults + 1,
                        Senders(m)' = Senders(m)
                 PROVE  Loose(m)
      OBVIOUS
    <2>1. CASE sub[m] = "waiting"
      BY <2>1 DEF Loose
    <2>2. CASE sub[m] # "waiting"
      <3>1. /\ sub[m] = "leased"
            /\ \A w \in Workers : ~Unsent(w, m)' /\ ~Settling(w, m)'
        BY <2>2 DEF Loose
      <3>2. \A w \in Workers : ~Unsent(w, m)
        BY <3>1 DEF Senders
      <3>3. QED
        BY <3>1, <3>2 DEF Loose
    <2>3. QED
      BY <2>1, <2>2
  <1>3. QED
    BY <1>1, <1>2, NoNewCopy

\* A round begins with nothing to send.
LEMMA StartRoundUnsent ==
    ASSUME TypeOK, NEW w \in Workers, StartRound(w), NEW v \in Workers,
           NEW m, Unsent(v, m)'
    PROVE  Unsent(v, m)
  <1>1. CASE v = w
    BY <1>1 DEF StartRound, NoBatches, Unsent, TypeOK
  <1>2. CASE v # w
    BY <1>2, UnsentKept DEF StartRound, TypeOK
  <1>3. QED
    BY <1>1, <1>2

\* push_ack_ids keeps hold of every ack id that was collected.
LEMMA StartAckQuiet ==
    ASSUME TypeOK, RoundsOK, NEW w \in Workers, NEW ids \in SUBSET Messages,
           stage[w] # "ack", toAck[w] \subseteq ids, StartAck(w, ids),
           NEW v \in Workers, NEW m
    PROVE  /\ Unsent(v, m)' => Unsent(v, m)
           /\ Settling(v, m) => Settling(v, m)'
           /\ (v = w /\ m \in ids) => (~Unsent(v, m)' /\ Settling(v, m)')
  <1>1. chunks[w] = {}
    BY DEF RoundsOK, RoundOK
  <1>2. CASE ids = {}
    <2>1. StartRound(w) /\ UNCHANGED chunks /\ toAck' = [toAck EXCEPT ![w] = {}]
      BY <1>2 DEF StartAck
    <2>2. Settling(v, m) => Settling(v, m)'
      BY <1>2, <2>1 DEF Settling, TypeOK
    <2>3. QED
      BY <1>2, <2>1, <2>2, StartRoundUnsent
  <1>3. CASE ids # {}
    <2>1. PICK C \in Chunkings(ids) : chunks' = [chunks EXCEPT ![w] = C]
      BY <1>3 DEF StartAck
    <2>2. UNION C = ids
      BY ChunkingsCover
    <2>3. /\ stage' = [stage EXCEPT ![w] = "ack"]
          /\ toAck' = [toAck EXCEPT ![w] = {}]
          /\ UNCHANGED <<pulled, batch>>
      BY <1>3 DEF StartAck
    <2>4. CASE v = w
      <3>1. UNION chunks'[w] = ids
        BY <2>1, <2>2 DEF TypeOK
      <3>2. Settling(v, m) => m \in ids
        BY <1>1, <2>4 DEF Settling
      <3>3. ~Unsent(v, m)'
        BY <2>3, <2>4 DEF Unsent, InState, TypeOK
      <3>4. QED
        BY <2>4, <3>1, <3>2, <3>3 DEF Settling
    <2>5. CASE v # w
      <3>1. /\ stage'[v] = stage[v] /\ toAck'[v] = toAck[v]
            /\ pulled'[v] = pulled[v] /\ batch'[v] = batch[v]
            /\ chunks'[v] = chunks[v]
        BY <2>1, <2>3, <2>5 DEF TypeOK
      <3>2. QED
        BY <2>5, <3>1, UnsentKept DEF Settling
    <2>6. QED
      BY <2>4, <2>5
  <1>4. QED
    BY <1>2, <1>3

\* Changing the state of one batch concerns the messages of that batch alone.
LEMMA BatchStep ==
    ASSUME TypeOK, NEW w \in Workers, NEW b \in DOMAIN batch[w],
           NEW s \in BatchStates, batch' = [batch EXCEPT ![w][b] = s],
           UNCHANGED <<stage, pulled>>, NEW v \in Workers, NEW m
    PROVE  /\ v # w \/ m \notin b => (Unsent(v, m)' <=> Unsent(v, m))
           /\ s \in {"blocked", "done"} \/ InState(w, b, "queued")
                => (Unsent(v, m)' => Unsent(v, m))
  <1>1. CASE v # w
    BY <1>1, UnsentKept DEF TypeOK
  <1>2. CASE v = w
    <2>1. DOMAIN batch'[w] = DOMAIN batch[w]
      BY DEF TypeOK
    <2>2. \A a \in DOMAIN batch[w] :
            batch'[w][a] = IF a = b THEN s ELSE batch[w][a]
      BY DEF TypeOK
    <2>3. QED
      BY <1>2, <2>1, <2>2 DEF Unsent, InState
  <1>3. QED
    BY <1>1, <1>2

\* The answer to a request, good or bad, uses up the batch's copies.
LEMMA BatchSent ==
    ASSUME TypeOK, RoundsOK, NEW w \in Workers, NEW b \in DOMAIN batch[w],
           InState(w, b, "sending"), PutAndRelease(w, b),
           UNCHANGED <<stage, pulled>>, NEW m \in Messages
    PROVE  /\ m \in b => w \in Senders(m) /\ Senders(m)' = Senders(m) \ {w}
           /\ m \notin b => Senders(m)' = Senders(m)
  <1>1. PICK s \in {"blocked", "done"} : batch' = [batch EXCEPT ![w][b] = s]
    BY DEF PutAndRelease
  <1>2. s \in BatchStates
    BY DEF BatchStates
  <1>3. CASE m \in b
    <2>1. w \in Senders(m)
      BY <1>3 DEF Senders, Unsent
    <2>2. ~Unsent(w, m)'
      <3>1. /\ DOMAIN batch'[w] = DOMAIN batch[w]
            /\ batch'[w][b] = s
        BY <1>1 DEF TypeOK
      <3>2. \A a \in DOMAIN batch[w] : m \in a => a = b
        BY <1>3 DEF RoundsOK, RoundOK, InState
      <3>3. stage'[w] = "push"
        BY DEF InState
      <3>4. QED
        BY <3>1, <3>2, <3>3 DEF Unsent, InState
    <2>3. \A v \in Workers : v # w => (Unsent(v, m)' <=> Unsent(v, m))
      BY <1>1, <1>2, BatchStep
    <2>4. Senders(m)' = Senders(m) \ {w}
      BY <2>2, <2>3 DEF Senders
    <2>5. QED
      BY <1>3, <2>1, <2>4
  <1>4. CASE m \notin b
    <2>1. \A v \in Workers : Unsent(v, m)' <=> Unsent(v, m)
      BY <1>1, <1>2, <1>4, BatchStep
    <2>2. QED
      BY <1>4, <2>1 DEF Senders
  <1>5. QED
    BY <1>3, <1>4

\* The steps of perform_pull.
LEMMA PullPaid ==
    ASSUME TypeOK, TypeOK', RoundsOK, NEW w \in Workers, PullStep(w),
           NEW m \in Messages, PaidFor(m)
    PROVE  PaidFor(m)'
  <1> USE DEF TypeOK
  <1>1. ASSUME PullResponse(w) PROVE PaidFor(m)'
    <2> PICK S \in SUBSET {x \in Messages : sub[x] = "waiting"} :
          Lease(S) /\ pulled' = [pulled EXCEPT ![w] = @ \union S]
      BY <1>1 DEF PullResponse
    <2>1. stage[w] = "pull"
      BY <1>1 DEF PullResponse, Answered
    <2>2. UNCHANGED <<stage, batch, toAck, chunks, deliveries, faults>>
      BY <1>1 DEF PullResponse
    <2>3. \A v \in Workers \ {w} : Unsent(v, m)' <=> Unsent(v, m)
      BY <2>2, UnsentKept
    <2>4. CASE m \in S
      <3>1. Unsent(w, m)'
        BY <2>1, <2>2, <2>4 DEF Unsent
      <3>2. Senders(m)' = Senders(m) \union {w}
        BY <2>3, <3>1 DEF Senders
      <3>3. Loose(m)
        BY <2>4 DEF Loose
      <3>4. sub'[m] = "leased"
        BY <2>4 DEF Lease
      <3>5. ~Loose(m)'
        BY <3>1, <3>4 DEF Loose
      <3>6. QED
        BY <2>2, <3>2, <3>3, <3>5, CopyPulled
    <2>5. CASE m \notin S
      <3>1. Unsent(w, m)' <=> Unsent(w, m)
        BY <2>2, <2>5 DEF Unsent, InState
      <3>2. \A v \in Workers : Settling(v, m)' <=> Settling(v, m)
        BY <2>2 DEF Settling
      <3>3. sub'[m] = sub[m]
        BY <2>5 DEF Lease
      <3>4. QED
        BY <2>2, <2>3, <3>1, <3>2, <3>3, QuietStep
    <2>6. QED
      BY <2>4, <2>5
  <1>2. ASSUME PullError(w) PROVE PaidFor(m)'
    <2>1. /\ UNCHANGED <<stage, pulled, batch, toAck, chunks, deliveries>>
          /\ faults' = faults + 1
      BY <1>2 DEF PullError, Fault
    <2>2. Senders(m)' = Senders(m)
      BY <2>1, UnsentKept DEF Senders
    <2>3. QED
      BY <2>1, <2>2, NoNewCopy
  <1>3. ASSUME PullMalformed(w) PROVE PaidFor(m)'
    <2>1. /\ UNCHANGED <<sub, stage, pulled, batch, deliveries>>
          /\ faults' = faults + 1
      BY <1>3 DEF PullMalformed, Fault, subscriptionVars
    <2>2. \A v \in Workers : Unsent(v, m)' <=> Unsent(v, m)
      BY <2>1, UnsentKept
    <2>3. QED
      BY <2>1, <2>2, QuietStep
  <1>4. ASSUME Process(w) PROVE PaidFor(m)'
    <2> PICK bad \in SUBSET pulled[w] :
          IF bad = pulled[w]
            THEN StartAck(w, bad)
            ELSE /\ stage' = [stage EXCEPT ![w] = "push"]
                 /\ toAck' = [toAck EXCEPT ![w] = bad]
                 /\ \E P \in Partitions(pulled[w] \ bad) :
                       batch' = [batch EXCEPT ![w] = [b \in P |-> "queued"]]
                 /\ UNCHANGED <<pending, pulled, malformed, chunks>>
      BY <1>4 DEF Process
    <2>1. stage[w] = "pull" /\ UNCHANGED <<sub, deliveries, faults>>
      BY <1>4 DEF Process
    <2>2. toAck[w] = {}
      BY <2>1 DEF RoundsOK, RoundOK
    <2>3. \A v \in Workers : /\ Unsent(v, m)' => Unsent(v, m)
                             /\ Settling(v, m) => Settling(v, m)'
      <3>1. CASE bad = pulled[w]
        BY <2>1, <2>2, <3>1, StartAckQuiet
      <3>2. CASE bad # pulled[w]
        <4>1. /\ stage' = [stage EXCEPT ![w] = "push"]
              /\ toAck' = [toAck EXCEPT ![w] = bad]
              /\ UNCHANGED <<pulled, chunks>>
          BY <3>2
        <4>2. PICK P \in Partitions(pulled[w] \ bad) :
                batch' = [batch EXCEPT ![w] = [b \in P |-> "queued"]]
          BY <3>2
        <4>3. \A b \in P : b \subseteq pulled[w]
          BY PartitionsCover
        <4>4. Unsent(w, m)' => Unsent(w, m)
          <5>1. DOMAIN batch'[w] = P
            BY <4>2
          <5>2. stage'[w] = "push"
            BY <4>1
          <5>3. QED
            BY <2>1, <4>3, <5>1, <5>2 DEF Unsent
        <4>5. \A v \in Workers \ {w} : Unsent(v, m)' <=> Unsent(v, m)
          BY <4>1, <4>2, UnsentKept
        <4>6. \A v \in Workers : Settling(v, m) => Settling(v, m)'
          BY <2>2, <4>1 DEF Settling
        <4>7. QED
          BY <4>4, <4>5, <4>6
      <3>3. QED
        BY <3>1, <3>2
    <2>4. QED
      BY <2>1, <2>3, QuietStep
  <1>5. ASSUME ProcessError(w) PROVE PaidFor(m)'
    <2>1. /\ UNCHANGED <<sub, deliveries, faults, batch, toAck, chunks>>
          /\ stage' = [stage EXCEPT ![w] = "backoff"]
          /\ pulled' = [pulled EXCEPT ![w] = {}]
      BY <1>5 DEF ProcessError, subscriptionVars
    <2>2. ~Unsent(w, m)'
      BY <2>1 DEF Unsent, InState
    <2>3. \A v \in Workers \ {w} : Unsent(v, m)' <=> Unsent(v, m)
      BY <2>1, UnsentKept
    <2>4. \A v \in Workers : Settling(v, m)' <=> Settling(v, m)
      BY <2>1 DEF Settling
    <2>5. QED
      BY <2>1, <2>2, <2>3, <2>4, QuietStep
  <1>6. ASSUME WakeUp(w) PROVE PaidFor(m)'
    <2>1. UNCHANGED <<sub, deliveries, faults, toAck, chunks>> /\ StartRound(w)
      BY <1>6 DEF WakeUp, subscriptionVars
    <2>2. \A v \in Workers : Settling(v, m)' <=> Settling(v, m)
      BY <2>1 DEF Settling
    <2>3. QED
      BY <2>1, <2>2, StartRoundUnsent, QuietStep
  <1>7. QED
    BY <1>1, <1>2, <1>3, <1>4, <1>5, <1>6 DEF PullStep

\* The steps of push_logs.
LEMMA PushPaid ==
    ASSUME TypeOK, TypeOK', RoundsOK, NEW w \in Workers, PushStep(w),
           NEW m \in Messages, PaidFor(m)
    PROVE  PaidFor(m)'
  <1> USE DEF TypeOK
  <1>1. ASSUME NEW b \in DOMAIN batch[w], AcquireSlot(w, b) PROVE PaidFor(m)'
    <2>1. /\ UNCHANGED <<sub, deliveries, faults, stage, pulled, toAck, chunks>>
          /\ batch' = [batch EXCEPT ![w][b] = "sending"]
          /\ InState(w, b, "queued")
      BY <1>1 DEF AcquireSlot, subscriptionVars
    <2>2. \A v \in Workers : Unsent(v, m)' => Unsent(v, m)
      BY <2>1, BatchStep DEF BatchStates
    <2>3. \A v \in Workers : Settling(v, m)' <=> Settling(v, m)
      BY <2>1 DEF Settling
    <2>4. QED
      BY <2>1, <2>2, <2>3, QuietStep
  <1>2. ASSUME NEW b \in DOMAIN batch[w], PutUnblocked(w, b) PROVE PaidFor(m)'
    <2>1. /\ UNCHANGED <<sub, deliveries, faults, stage, pulled, toAck, chunks>>
          /\ \E s \in {"blocked", "done"} : batch' = [batch EXCEPT ![w][b] = s]
      BY <1>2 DEF PutUnblocked, PutAndRelease, subscriptionVars
    <2>2. \A v \in Workers : Unsent(v, m)' => Unsent(v, m)
      BY <2>1, BatchStep DEF BatchStates
    <2>3. \A v \in Workers : Settling(v, m)' <=> Settling(v, m)
      BY <2>1 DEF Settling
    <2>4. QED
      BY <2>1, <2>2, <2>3, QuietStep
  <1>3. ASSUME NEW b \in DOMAIN batch[w], SendOk(w, b) PROVE PaidFor(m)'
    <2>1. /\ UNCHANGED <<sub, faults, stage, pulled, chunks>>
          /\ InState(w, b, "sending") /\ Ingest(b) /\ PutAndRelease(w, b)
          /\ toAck' = [toAck EXCEPT ![w] = @ \union b]
      BY <1>3 DEF SendOk
    <2>2. \A v \in Workers : Settling(v, m) => Settling(v, m)'
      BY <2>1 DEF Settling
    <2>3. CASE m \in b
      <3>1. w \in Senders(m) /\ Senders(m)' = Senders(m) \ {w}
        BY <2>1, <2>3, BatchSent
      <3>2. deliveries'[m] = deliveries[m] + 1
        BY <2>1, <2>3 DEF Ingest
      <3>3. Settling(w, m)'
        BY <2>1, <2>3 DEF Settling
      <3>4. Loose(m)' => Loose(m)
        BY <2>1, <3>3 DEF Loose
      <3>5. QED
        BY <2>1, <3>1, <3>2, <3>4, CopySent
    <2>4. CASE m \notin b
      <3>1. Senders(m)' = Senders(m)
        BY <2>1, <2>4, BatchSent
      <3>2. deliveries'[m] = deliveries[m]
        BY <2>1, <2>4 DEF Ingest
      <3>3. \A v \in Workers : Unsent(v, m)' => Unsent(v, m)
        BY <3>1 DEF Senders
      <3>4. QED
        BY <2>1, <2>2, <3>2, <3>3, QuietStep
    <2>5. QED
      BY <2>3, <2>4
  <1>4. ASSUME NEW b \in DOMAIN batch[w], SendError(w, b) PROVE PaidFor(m)'
    <2>1. /\ UNCHANGED <<sub, stage, pulled, toAck, chunks>>
          /\ faults' = faults + 1
          /\ InState(w, b, "sending") /\ PutAndRelease(w, b)
          /\ Ingest(b) \/ UNCHANGED deliveries
      BY <1>4 DEF SendError, Fault
    <2>2. CASE m \in b /\ Ingest(b)
      <3>1. w \in Senders(m) /\ Senders(m)' = Senders(m) \ {w}
        BY <2>1, <2>2, BatchSent
      <3>2. deliveries'[m] = deliveries[m] + 1
        BY <2>2 DEF Ingest
      <3>3. QED
        BY <2>1, <3>1, <3>2, CopySent
    <2>3. CASE ~(m \in b /\ Ingest(b))
      <3>1. deliveries'[m] = deliveries[m]
        BY <2>1, <2>3 DEF Ingest
      <3>2. \A v \in Workers : Unsent(v, m)' => Unsent(v, m)
        BY <2>1, BatchSent DEF Senders
      <3>3. QED
        BY <2>1, <3>1, <3>2, QuietStep
    <2>4. QED
      BY <2>2, <2>3
  <1>5. ASSUME FinishPush(w) PROVE PaidFor(m)'
    <2>1. /\ UNCHANGED <<sub, deliveries, faults>>
          /\ stage[w] = "push" /\ StartAck(w, toAck[w])
      BY <1>5 DEF FinishPush, subscriptionVars
    <2>2. \A v \in Workers : /\ Unsent(v, m)' => Unsent(v, m)
                             /\ Settling(v, m) => Settling(v, m)'
      BY <2>1, StartAckQuiet
    <2>3. QED
      BY <2>1, <2>2, QuietStep
  <1>6. QED
    BY <1>1, <1>2, <1>3, <1>4, <1>5 DEF PushStep

\* The steps of push_ack_ids.
LEMMA AckPaid ==
    ASSUME TypeOK, TypeOK', RoundsOK, NEW w \in Workers, NEW c \in chunks[w],
           AckOk(w, c) \/ AckError(w, c),
           NEW m \in Messages, PaidFor(m)
    PROVE  PaidFor(m)'
  <1> USE DEF TypeOK
  <1>1. ChunkAnswered(w, c)
    BY DEF AckOk, AckError
  <1>2. /\ chunks' = [chunks EXCEPT ![w] = @ \ {c}]
        /\ UNCHANGED <<deliveries, toAck>>
        /\ faults' \in {faults, faults + 1}
    BY <1>1 DEF ChunkAnswered, AckOk, AckError, Fault
  <1>3. \A v \in Workers : Unsent(v, m)' => Unsent(v, m)
    <2>1. CASE chunks[w] = {c}
      BY <1>1, <2>1, StartRoundUnsent DEF ChunkAnswered
    <2>2. CASE chunks[w] # {c}
      BY <1>1, <2>2, UnsentKept DEF ChunkAnswered
    <2>3. QED
      BY <2>1, <2>2
  <1>4. Senders(m)' \subseteq Senders(m)
    BY <1>3 DEF Senders
  <1>5. CASE faults' = faults + 1
    BY <1>2, <1>4, <1>5, NoNewCopy
  <1>6. CASE faults' # faults + 1
    <2>1. Acknowledge(c)
      BY <1>6 DEF AckOk, AckError, Fault
    <2>2. CASE m \in c
      <3>1. sub'[m] # "leased" /\ (sub'[m] = "waiting" => sub[m] = "waiting")
        BY <2>1, <2>2 DEF Acknowledge
      <3>2. Loose(m)' => Loose(m)
        BY <3>1 DEF Loose
      <3>3. QED
        BY <1>2, <1>4, <3>2, NoNewCopy
    <2>3. CASE m \notin c
      <3>1. sub'[m] = sub[m]
        BY <2>1, <2>3 DEF Acknowledge
      <3>2. \A v \in Workers : Settling(v, m) => Settling(v, m)'
        BY <1>2, <2>3 DEF Settling
      <3>3. QED
        BY <1>2, <1>3, <3>1, <3>2, QuietStep
    <2>4. QED
      BY <2>2, <2>3
  <1>7. QED
    BY <1>5, <1>6

\* The subscription, the restart and the sfm loop.
LEMMA EnvironmentPaid ==
    ASSUME TypeOK, TypeOK', RoundsOK, NEW m \in Messages, PaidFor(m),
           \/ SfmStep
           \/ \E x \in Messages : LeaseExpires(x) \/ LeaseExpiresEarly(x)
           \/ Restart \/ UNCHANGED vars
    PROVE  PaidFor(m)'
  <1> USE DEF TypeOK
  <1>1. CASE SfmStep \/ UNCHANGED vars
    <2>1. UNCHANGED <<sub, deliveries, faults, stage, pulled, batch, toAck, chunks>>
      BY <1>1 DEF SfmStep, DrainSfm, ReportSfm, vars, subscriptionVars, workerVars
    <2>2. \A v \in Workers : /\ Unsent(v, m)' <=> Unsent(v, m)
                             /\ Settling(v, m)' <=> Settling(v, m)
      BY <2>1, UnsentKept DEF Settling
    <2>3. QED
      BY <2>1, <2>2, QuietStep
  <1>2. ASSUME NEW x \in Messages, LeaseExpires(x) \/ LeaseExpiresEarly(x)
        PROVE  PaidFor(m)'
    <2>1. /\ UNCHANGED <<deliveries, stage, pulled, batch, toAck, chunks>>
          /\ sub' = [sub EXCEPT ![x] = "waiting"]
          /\ sub[x] = "leased"
      BY <1>2 DEF LeaseExpires, LeaseExpiresEarly, workerVars
    <2>2. Senders(m)' = Senders(m)
      BY <2>1, UnsentKept DEF Senders
    <2>3. \A v \in Workers : /\ Unsent(v, m)' <=> Unsent(v, m)
                             /\ Settling(v, m)' <=> Settling(v, m)
      BY <2>1, UnsentKept DEF Settling
    <2>4. CASE LeaseExpires(x)
      <3>1. faults' = faults
        BY <2>4 DEF LeaseExpires
      <3>2. CASE m = x
        <4>1. \A w \in Workers : m \notin pulled[w]
          BY <2>4, <3>2 DEF LeaseExpires, Held
        <4>2. \A w \in Workers : ~Unsent(w, m) /\ ~Settling(w, m)
          BY <4>1 DEF Unsent, Settling, InState, RoundsOK, RoundOK
        <4>3. Loose(m)
          BY <2>1, <3>2, <4>2 DEF Loose
        <4>4. QED
          BY <2>1, <2>2, <3>1, <4>3, NoNewCopy
      <3>3. CASE m # x
        BY <2>1, <2>3, <3>1, <3>3, QuietStep
      <3>4. QED
        BY <3>2, <3>3
    <2>5. CASE LeaseExpiresEarly(x)
      BY <2>1, <2>2, <2>5, NoNewCopy DEF LeaseExpiresEarly, Fault
    <2>6. QED
      BY <1>2, <2>4, <2>5
  <1>3. CASE Restart
    <2>1. /\ UNCHANGED <<sub, deliveries>> /\ faults' = faults + 1
      BY <1>3 DEF Restart, Fault, subscriptionVars
    <2>2. \A v \in Workers : ~Unsent(v, m)'
      BY <1>3 DEF Restart, NoBatches, Unsent
    <2>3. QED
      BY <2>1, <2>2, QuietStep
  <1>4. QED
    BY <1>1, <1>2, <1>3

LEMMA StepDuplicatesInv == DuplicatesInv /\ [Next]_vars => DuplicatesInv'
  <1> SUFFICES ASSUME DuplicatesInv, [Next]_vars PROVE DuplicatesInv'
    OBVIOUS
  <1>1. TypeOK /\ TypeOK' /\ RoundsOK /\ RoundsOK'
    BY StepTypeOK, StepRoundsOK DEF DuplicatesInv
  <1>2. ASSUME NEW m \in Messages PROVE PaidFor(m)'
    <2>1. PaidFor(m)
      BY DEF DuplicatesInv, CopiesPaid, PaidFor
    <2>2. ASSUME NEW w \in Workers, PullStep(w) PROVE PaidFor(m)'
      BY <1>1, <2>1, <2>2, PullPaid
    <2>3. ASSUME NEW w \in Workers, PushStep(w) PROVE PaidFor(m)'
      BY <1>1, <2>1, <2>3, PushPaid
    <2>4. ASSUME NEW w \in Workers, AckStep(w) PROVE PaidFor(m)'
      BY <1>1, <2>1, <2>4, AckPaid DEF AckStep
    <2>5. QED
      BY <1>1, <2>1, <2>2, <2>3, <2>4, EnvironmentPaid DEF Next, WorkerStep
  <1>3. CopiesPaid'
    BY <1>2 DEF CopiesPaid, PaidFor
  <1>4. QED
    BY <1>1, <1>3 DEF DuplicatesInv

\* Without failures Dynatrace ingests no message twice, and each failure of a
\* request, a lease or the process costs a message at most one more delivery,
\* however many pulls, workers and chunks run side by side.
THEOREM DuplicatesPaidFor == Spec => []DuplicatesNeedFaults
  <1>1. DuplicatesInv => DuplicatesNeedFaults
    <2> SUFFICES ASSUME DuplicatesInv, NEW m \in Messages
                 PROVE  deliveries[m] <= 1 + faults
      BY DEF DuplicatesNeedFaults
    <2>1. deliveries[m] \in Nat /\ faults \in Nat /\ Cardinality(Senders(m)) \in Nat
      BY SendersFinite DEF DuplicatesInv, TypeOK
    <2>2. Copies(m) \in Nat
      BY <2>1 DEF Copies
    <2>3. QED
      BY <2>1, <2>2 DEF DuplicatesInv, CopiesPaid
  <1>2. QED
    BY <1>1, InitDuplicatesInv, StepDuplicatesInv, PTL DEF Spec
=============================================================================
