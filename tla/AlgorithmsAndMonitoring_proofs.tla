------------------- MODULE AlgorithmsAndMonitoring_proofs -------------------
(***************************************************************************)
(* Theorems about the parts of the log forwarder that pack its log entries *)
(* (PrepareBatches) and write its self-monitoring (SelfMonitoring), about  *)
(* the series both forwarders write (SelfMonitoringSeries), and about the  *)
(* algorithms of MetricLines, MetricDimensions, LogEntries and Helpers:    *)
(* first for any arguments, then for every input of MCAlgorithms.          *)
(*                                                                         *)
(* What a FoldLeft computes is shown by induction on the length of its     *)
(* list: FoldExists makes the recursion behind it well defined, and one    *)
(* lemma per fold, as ThrottledFold, gives what is folded after each       *)
(* element.                                                                *)
(***************************************************************************)
EXTENDS MCAlgorithms, SelfMonitoring, FiniteSetTheorems, WellFoundedInduction, TLAPS

(* Batches: types and limits.                                              *)

Sizes == {s \in 1..RequestBodyMaxSize : Fits(s)}

LEMMA BatchesInitTypeOK == BatchesInit => BatchesTypeOK
  <1> SUFFICES ASSUME BatchesInit PROVE BatchesTypeOK
    OBVIOUS
  <1>1. PICK n \in 0..MaxLogs : logs \in [1..n -> Sizes]
    BY DEF BatchesInit, Sizes
  <1>2. logs \in Seq(Sizes)
    BY <1>1, PrepareBatchesAssumption
  <1>3. finished \in BOOLEAN
    BY DEF BatchesInit
  <1>4. next = 1 /\ current = <<>> /\ totalLen = 0 /\ batches = <<>>
    BY DEF BatchesInit
  <1>5. next \in 1..(Len(logs) + 1) /\ current \in Seq(Nat) /\ batches \in Seq(Batch)
    BY <1>2, <1>4
  <1>6. QED
    BY <1>2, <1>3, <1>4, <1>5 DEF BatchesTypeOK, Sizes

\* Closing the open batch yields a batch with a size.
LEMMA CloseBatchType ==
    ASSUME BatchesTypeOK, CloseBatch, NewBatchLen \in Nat
    PROVE  batches' \in Seq(Batch)
  BY DEF BatchesTypeOK, CloseBatch, Batch

\* The open batch respects the limits too: what makes BatchesWithinLimits
\* inductive, and what makes the size of a closed batch a natural number.
OpenBatchWithinLimits ==
    /\ current = <<>> => totalLen = 0
    /\ current # <<>> => WithinLimits([entries |-> current, size |-> NewBatchLen])

LimitsInv == BatchesTypeOK /\ BatchesWithinLimits /\ OpenBatchWithinLimits

LEMMA InitLimits == BatchesInit => LimitsInv
  BY BatchesInitTypeOK
     DEF BatchesInit, LimitsInv, BatchesWithinLimits, OpenBatchWithinLimits

\* The closed batch joins others that are within the limits.
LEMMA CloseBatchWithinLimits ==
    ASSUME BatchesTypeOK, BatchesWithinLimits, CloseBatch,
           WithinLimits([entries |-> current, size |-> NewBatchLen])
    PROVE  BatchesWithinLimits'
  <1> DEFINE b == [entries |-> current, size |-> NewBatchLen]
  <1>1. batches \in Seq(Batch) /\ batches' = Append(batches, b)
    BY DEF BatchesTypeOK, CloseBatch
  <1> HIDE DEF b
  <1>2. /\ Len(batches) \in Nat /\ Len(batches') = Len(batches) + 1
        /\ batches'[Len(batches) + 1] = b
        /\ \A k \in 1..Len(batches) : batches'[k] = batches[k]
    BY <1>1
  <1>3. ASSUME NEW k \in 1..Len(batches') PROVE WithinLimits(batches'[k])
    <2>1. CASE k \in 1..Len(batches)
      BY <1>2, <2>1 DEF BatchesWithinLimits
    <2>2. CASE k = Len(batches) + 1
      BY <1>2, <2>2 DEF b
    <2>3. QED
      BY <1>2, <2>1, <2>2
  <1>4. QED
    BY <1>3 DEF BatchesWithinLimits, WithinLimits

\* The first entry of a batch always fits: perform_pull has sorted out the
\* oversized ones, and a request may carry at least one event.
LEMMA FirstEntryFits ==
    ASSUME LimitsInv, current = <<>>, NEW size \in Sizes
    PROVE  ~WouldOverflow(size)
  BY PrepareBatchesAssumption
     DEF LimitsInv, OpenBatchWithinLimits, WouldOverflow, NewBatchLen, Fits,
         Sizes, BatchesTypeOK

LEMMA StepLimits == LimitsInv /\ [BatchesNext]_batchVars => LimitsInv'
  <1> SUFFICES ASSUME LimitsInv, [BatchesNext]_batchVars PROVE LimitsInv'
    OBVIOUS
  <1> USE PrepareBatchesAssumption
  <1>0. BatchesTypeOK
    BY DEF LimitsInv
  <1>1. ASSUME AddEntry PROVE LimitsInv'
    <2>1. /\ next \in 1..Len(logs) /\ logs[next] \in Sizes
          /\ logs[next] \in Nat /\ logs[next] + 2 <= RequestBodyMaxSize
      BY <1>0, <1>1 DEF AddEntry, BatchesTypeOK, Sizes, Fits
    <2>2. /\ UNCHANGED <<logs, finished>>
          /\ next' = next + 1
      BY <1>1 DEF AddEntry
    <2>3. finished' \in BOOLEAN
      BY <1>0, <2>2 DEF BatchesTypeOK
    <2>4. CASE WouldOverflow(logs[next])
      <3>1. current # <<>> /\ WithinLimits([entries |-> current, size |-> NewBatchLen])
        BY <2>1, <2>4, FirstEntryFits DEF LimitsInv, OpenBatchWithinLimits
      <3>2. NewBatchLen \in Nat
        BY <1>0, <3>1 DEF NewBatchLen, BatchesTypeOK
      <3>3. /\ CloseBatch /\ current' = <<next>> /\ totalLen' = logs[next]
        BY <1>1, <2>4 DEF AddEntry
      <3>4. batches' \in Seq(Batch)
        BY <1>0, <3>2, <3>3, CloseBatchType
      <3>5. BatchesTypeOK'
        BY <1>0, <2>1, <2>2, <2>3, <3>3, <3>4 DEF BatchesTypeOK
      <3>6. BatchesWithinLimits'
        BY <1>0, <3>1, <3>3, CloseBatchWithinLimits DEF LimitsInv
      <3>7. OpenBatchWithinLimits'
        BY <2>1, <3>3 DEF OpenBatchWithinLimits, WithinLimits, NewBatchLen
      <3>8. QED
        BY <3>5, <3>6, <3>7 DEF LimitsInv
    <2>5. CASE ~WouldOverflow(logs[next])
      <3>1. /\ current' = Append(current, next)
            /\ totalLen' = totalLen + logs[next]
            /\ UNCHANGED batches
        BY <1>1, <2>5 DEF AddEntry
      <3>2. BatchesTypeOK'
        <4>1. current' \in Seq(Nat) /\ totalLen' \in Nat /\ batches' \in Seq(Batch)
          <5>1. current \in Seq(Nat) /\ totalLen \in Nat /\ batches \in Seq(Batch)
                /\ next \in Nat
            BY <1>0 DEF BatchesTypeOK
          <5>2. totalLen' \in Nat
            BY <2>1, <3>1, <5>1
          <5>3. current' \in Seq(Nat)
            BY <3>1, <5>1
          <5>4. QED
            BY <3>1, <5>1, <5>2, <5>3
        <4>2. QED
          BY <1>0, <2>1, <2>2, <2>3, <4>1 DEF BatchesTypeOK
      <3>3. BatchesWithinLimits'
        BY <3>1 DEF LimitsInv, BatchesWithinLimits
      <3>4. OpenBatchWithinLimits'
        <4>1. Len(current) \in Nat /\ totalLen \in Nat
          BY <1>0 DEF BatchesTypeOK
        <4>2. Len(current') = Len(current) + 1
          <5>1. current \in Seq(Nat) /\ next \in Nat
            BY <1>0 DEF BatchesTypeOK
          <5>2. QED
            BY <3>1, <5>1
        <4>3. NewBatchLen' = NewBatchLen + 1 + logs[next]
          <5>1. totalLen' = totalLen + logs[next] /\ logs[next] \in Nat
            BY <2>1, <3>1
          <5>2. QED
            BY <4>1, <4>2, <5>1 DEF NewBatchLen
        <4>4. NewBatchLen' <= RequestBodyMaxSize
          BY <2>1, <2>5, <4>1, <4>3 DEF WouldOverflow, NewBatchLen
        <4>5. Len(current') \in 1..RequestMaxEvents
          BY <2>5, <4>1, <4>2 DEF WouldOverflow
        <4>6. current' # <<>>
          BY <4>1, <4>2
        <4>7. QED
          BY <4>4, <4>5, <4>6 DEF OpenBatchWithinLimits, WithinLimits
      <3>5. QED
        BY <3>2, <3>3, <3>4 DEF LimitsInv
    <2>6. QED
      BY <2>4, <2>5
  <1>2. ASSUME Finish PROVE LimitsInv'
    <2>1. finished' \in BOOLEAN
      BY <1>2 DEF Finish
    <2>2. UNCHANGED <<logs, next>> /\ current' = <<>> /\ totalLen' = 0
      BY <1>2 DEF Finish
    <2>3. OpenBatchWithinLimits'
      BY <2>2 DEF OpenBatchWithinLimits
    <2>4. batches' \in Seq(Batch) /\ BatchesWithinLimits'
      <3>1. CASE current # <<>>
        <4>1. WithinLimits([entries |-> current, size |-> NewBatchLen])
          BY <3>1 DEF LimitsInv, OpenBatchWithinLimits
        <4>2. NewBatchLen \in Nat
          BY <1>0, <3>1 DEF NewBatchLen, BatchesTypeOK
        <4>3. CloseBatch
          BY <1>2, <3>1 DEF Finish
        <4>4. batches' \in Seq(Batch)
          BY <1>0, <4>2, <4>3, CloseBatchType
        <4>5. BatchesWithinLimits'
          BY <1>0, <4>1, <4>3, CloseBatchWithinLimits DEF LimitsInv
        <4>6. QED
          BY <4>4, <4>5
      <3>2. CASE current = <<>>
        BY <1>0, <1>2, <3>2 DEF Finish, LimitsInv, BatchesWithinLimits, BatchesTypeOK
      <3>3. QED
        BY <3>1, <3>2
    <2>5. BatchesTypeOK'
      BY <1>0, <2>1, <2>2, <2>4 DEF BatchesTypeOK
    <2>6. QED
      BY <2>3, <2>4, <2>5 DEF LimitsInv
  <1>3. CASE UNCHANGED batchVars
    BY <1>3 DEF batchVars, LimitsInv, BatchesTypeOK, BatchesWithinLimits,
       OpenBatchWithinLimits, NewBatchLen, WithinLimits
  <1>4. QED
    BY <1>1, <1>2, <1>3 DEF BatchesNext

LEMMA LimitsInvariant == BatchesSpec => []LimitsInv
  BY InitLimits, StepLimits, PTL DEF BatchesSpec

\* prepare_batches builds well-formed batches from any entries that
\* perform_pull lets through.
THEOREM BatchesTypeCorrect == BatchesSpec => []BatchesTypeOK
  <1>1. LimitsInv => BatchesTypeOK
    BY DEF LimitsInv
  <1>2. QED
    BY <1>1, LimitsInvariant, PTL

\* No request exceeds the limits of the log ingest and none is empty, for any
\* configured limits and any sizes of the entries.
THEOREM LimitsRespected == BatchesSpec => []BatchesWithinLimits
  <1>1. LimitsInv => BatchesWithinLimits
    BY DEF LimitsInv
  <1>2. QED
    BY <1>1, LimitsInvariant, PTL

-----------------------------------------------------------------------------
(* Packing is exact: order, no needless split, the bytes that are sent.    *)

\* What closing the open batch does to the sequence of batches.
LEMMA CloseBatchAppends ==
    ASSUME BatchesTypeOK, CloseBatch
    PROVE  /\ Len(batches) \in Nat /\ Len(batches') = Len(batches) + 1
           /\ batches'[Len(batches) + 1] = [entries |-> current, size |-> NewBatchLen]
           /\ \A k \in 1..Len(batches) : batches'[k] = batches[k]
  <1> DEFINE b == [entries |-> current, size |-> NewBatchLen]
  <1>1. batches \in Seq(Batch) /\ batches' = Append(batches, b)
    BY DEF BatchesTypeOK, CloseBatch
  <1> HIDE DEF b
  <1>2. /\ Len(batches) \in Nat /\ Len(batches') = Len(batches) + 1
        /\ batches'[Len(batches) + 1] = b
        /\ \A k \in 1..Len(batches) : batches'[k] = batches[k]
    BY <1>1
  <1>3. QED
    BY <1>2 DEF b

\* The open batch closed because of the entry that comes next was full.
SplitNeeded(b, size) ==
    \/ Len(b.entries) = RequestMaxEvents
    \/ b.size + 1 + size > RequestBodyMaxSize

\* Why the last closed batch was closed: for the first entry of the open one,
\* or because there were no more entries.
LastSplitNeeded ==
    batches # <<>> =>
        IF current = <<>>
          THEN next = Len(logs) + 1
          ELSE SplitNeeded(batches[Len(batches)], logs[current[1]])

\* The length that is kept for the open batch is that of its payloads.
OpenSizeExact ==
    /\ IsFiniteSet(PayloadBytes(current))
    /\ totalLen = Cardinality(PayloadBytes(current))

\* The inductive invariant behind PackingExact.
PackingInv == LimitsInv /\ PackingExact /\ LastSplitNeeded /\ OpenSizeExact

LEMMA InitPackingInv == BatchesInit => PackingInv
  <1> SUFFICES ASSUME BatchesInit PROVE PackingInv
    OBVIOUS
  <1>1. current = <<>> /\ batches = <<>> /\ next = 1 /\ totalLen = 0
    BY DEF BatchesInit
  <1>2. EntriesInOrder
    BY <1>1 DEF EntriesInOrder, Consecutive, NextStart
  <1>3. NoNeedlessSplit /\ SizeIsSerializedLength /\ LastSplitNeeded
    BY <1>1 DEF NoNeedlessSplit, SizeIsSerializedLength, LastSplitNeeded
  <1>4. PayloadBytes(current) = {}
    BY <1>1 DEF PayloadBytes
  <1>5. OpenSizeExact
    BY <1>1, <1>4, FS_EmptySet DEF OpenSizeExact
  <1>6. QED
    BY <1>2, <1>3, <1>5, InitLimits DEF PackingInv, PackingExact

\* The bytes of one entry.
LEMMA EntryBytes ==
    ASSUME NEW i, NEW n \in Nat
    PROVE  IsFiniteSet({i} \X (1..n)) /\ Cardinality({i} \X (1..n)) = n
  <1>1. IsFiniteSet({i}) /\ Cardinality({i}) = 1
    BY FS_Singleton
  <1>2. IsFiniteSet(1..n) /\ Cardinality(1..n) = n
    BY FS_Interval
  <1>3. /\ IsFiniteSet({i} \X (1..n))
        /\ Cardinality({i} \X (1..n)) = Cardinality({i}) * Cardinality(1..n)
    BY <1>1, <1>2, FS_Product
  <1>4. 1 * n = n
    OBVIOUS
  <1>5. QED
    BY <1>1, <1>2, <1>3, <1>4

\* One more entry adds its bytes to those of the entries before it.
LEMMA PayloadGrows ==
    ASSUME BatchesTypeOK, NEW e \in 1..Len(logs),
           IsFiniteSet(PayloadBytes(current))
    PROVE  /\ IsFiniteSet(PayloadBytes(Append(current, e)))
           /\ Cardinality(PayloadBytes(Append(current, e)))
                = Cardinality(PayloadBytes(current)) + logs[e]
  <1> DEFINE n == Len(current)
             all == Append(current, e)
             own == {n + 1} \X (1..logs[e])
  <1>1. logs[e] \in Nat /\ n \in Nat
    BY DEF BatchesTypeOK
  <1>2. /\ Len(all) = n + 1 /\ all[n + 1] = e
        /\ \A i \in 1..n : all[i] = current[i]
    BY DEF BatchesTypeOK
  <1>3. PayloadBytes(all) = PayloadBytes(current) \union own
    <2> HIDE DEF all
    <2>1. PayloadBytes(all) = UNION {{i} \X (1..logs[all[i]]) : i \in 1..(n + 1)}
      BY <1>2 DEF PayloadBytes
    <2>2. 1..(n + 1) = (1..n) \union {n + 1}
      BY <1>1
    <2>3. UNION {{i} \X (1..logs[all[i]]) : i \in 1..n} = PayloadBytes(current)
      BY <1>2 DEF PayloadBytes
    <2>4. {n + 1} \X (1..logs[all[n + 1]]) = own
      BY <1>2
    <2>5. QED
      BY <2>1, <2>2, <2>3, <2>4
  <1>4. PayloadBytes(current) \intersect own = {}
    BY <1>1 DEF PayloadBytes
  <1>5. IsFiniteSet(own) /\ Cardinality(own) = logs[e]
    BY <1>1, EntryBytes
  <1> HIDE DEF own, all, n
  <1>6. Cardinality(PayloadBytes(current) \intersect own) = 0
    BY <1>4, FS_EmptySet
  <1>7. Cardinality(PayloadBytes(current)) \in Nat
    BY FS_CardinalityType
  <1>8. /\ IsFiniteSet(PayloadBytes(current) \union own)
        /\ Cardinality(PayloadBytes(current) \union own)
             = Cardinality(PayloadBytes(current)) + logs[e] - 0
    BY <1>5, <1>6, FS_Union
  <1>9. QED
    BY <1>1, <1>3, <1>7, <1>8 DEF all

\* The parts of PackingExact that only look at closed batches survive the
\* closing of the open one.
LEMMA CloseBatchExact ==
    ASSUME PackingInv, CloseBatch, UNCHANGED logs, current # <<>>
    PROVE  /\ NoNeedlessSplit'
           /\ SizeIsSerializedLength'
           /\ \A k \in 1..Len(batches') :
                 /\ Consecutive(batches'[k].entries)
                 /\ FirstOf(k)' = IF k = 1 THEN 1 ELSE LastOf(k - 1)' + 1
           /\ NextStart' = current[Len(current)] + 1
  <1> DEFINE n == Len(batches)
             b == [entries |-> current, size |-> NewBatchLen]
  <1>0. BatchesTypeOK /\ EntriesInOrder
    BY DEF PackingInv, LimitsInv, PackingExact
  <1>1. /\ n \in Nat /\ Len(batches') = n + 1 /\ batches'[n + 1] = b
        /\ \A k \in 1..n : batches'[k] = batches[k]
    BY <1>0, CloseBatchAppends
  <1>2. b.entries = current /\ b.size = NewBatchLen
    OBVIOUS
  <1>3. 1..(n + 1) = (1..n) \union {n + 1} /\ (batches = <<>> <=> n = 0)
    BY <1>0, <1>1 DEF BatchesTypeOK
  <1> HIDE DEF n, b
  <1>4. NoNeedlessSplit'
    <2> SUFFICES ASSUME NEW k \in 1..(Len(batches') - 1)
                 PROVE  SplitNeeded(batches'[k], logs[FirstOf(k + 1)'])
      BY DEF NoNeedlessSplit, SplitNeeded
    <2>1. k \in 1..n /\ batches'[k] = batches[k]
      BY <1>1, <1>3
    <2>2. CASE k \in 1..(n - 1)
      <3>1. FirstOf(k + 1)' = FirstOf(k + 1)
        BY <1>1, <2>2 DEF FirstOf
      <3>2. SplitNeeded(batches[k], logs[FirstOf(k + 1)])
        BY <2>2 DEF PackingInv, PackingExact, NoNeedlessSplit, SplitNeeded, n
      <3>3. QED
        BY <2>1, <3>1, <3>2
    <2>3. CASE k = n
      <3>1. FirstOf(k + 1)' = current[1]
        BY <1>1, <1>2, <2>3 DEF FirstOf
      <3>2. SplitNeeded(batches[n], logs[current[1]])
        BY <1>3, <2>1 DEF PackingInv, LastSplitNeeded, n
      <3>3. QED
        BY <2>1, <2>3, <3>1, <3>2
    <2>4. QED
      BY <1>1, <2>1, <2>2, <2>3
  <1>5. SizeIsSerializedLength'
    <2> SUFFICES ASSUME NEW k \in 1..Len(batches')
                 PROVE  batches'[k].size = SerializedLength(batches'[k].entries)
      <3>1. \A e : SerializedLength(e)' = SerializedLength(e)
        BY DEF SerializedLength, PayloadBytes
      <3>2. QED
        BY <3>1 DEF SizeIsSerializedLength
    <2>2. CASE k \in 1..n
      BY <1>1, <2>2 DEF PackingInv, PackingExact, SizeIsSerializedLength, n
    <2>3. CASE k = n + 1
      BY <1>1, <1>2, <2>3
         DEF PackingInv, OpenSizeExact, SerializedLength, NewBatchLen
    <2>4. QED
      BY <1>1, <1>3, <2>2, <2>3
  <1>6. ASSUME NEW k \in 1..Len(batches')
        PROVE  /\ Consecutive(batches'[k].entries)
               /\ FirstOf(k)' = IF k = 1 THEN 1 ELSE LastOf(k - 1)' + 1
    <2>1. CASE k \in 1..n
      <3>1. FirstOf(k)' = FirstOf(k) /\ (k # 1 => LastOf(k - 1)' = LastOf(k - 1))
        BY <1>1, <2>1 DEF FirstOf, LastOf
      <3>2. /\ Consecutive(batches[k].entries)
            /\ FirstOf(k) = IF k = 1 THEN 1 ELSE LastOf(k - 1) + 1
        BY <1>0, <2>1 DEF EntriesInOrder, n
      <3>3. QED
        BY <1>1, <2>1, <3>1, <3>2
    <2>2. CASE k = n + 1
      <3>1. FirstOf(k)' = current[1] /\ batches'[k].entries = current
        BY <1>1, <1>2, <2>2 DEF FirstOf
      <3>2. Consecutive(current) /\ current[1] = NextStart
        BY <1>0 DEF EntriesInOrder
      <3>3. NextStart = IF n = 0 THEN 1 ELSE LastOf(n) + 1
        BY <1>3 DEF NextStart, n
      <3>4. k # 1 => LastOf(k - 1)' = LastOf(n)
        BY <1>1, <2>2 DEF LastOf
      <3>5. QED
        BY <1>1, <2>2, <3>1, <3>2, <3>3, <3>4
    <2>3. QED
      BY <1>1, <1>3, <2>1, <2>2
  <1>7. NextStart' = current[Len(current)] + 1
    <2>1. batches' # <<>>
      BY <1>1
    <2>2. LastOf(Len(batches))' = current[Len(current)]
      BY <1>1, <1>2 DEF LastOf
    <2>3. QED
      BY <2>1, <2>2 DEF NextStart
  <1>8. QED
    BY <1>4, <1>5, <1>6, <1>7

\* One entry alone, or one more entry behind the others, keeps the order.
LEMMA ConsecutiveGrows ==
    ASSUME BatchesTypeOK, Consecutive(current), current # <<>>,
           current[Len(current)] = next - 1
    PROVE  /\ Consecutive(Append(current, next))
           /\ Append(current, next)[1] = current[1]
           /\ Append(current, next)[Len(Append(current, next))] = next
  <1> DEFINE n == Len(current)
             all == Append(current, next)
  <1>1. /\ n \in Nat \ {0} /\ Len(all) = n + 1 /\ all[n + 1] = next
        /\ \A i \in 1..n : all[i] = current[i]
    BY DEF BatchesTypeOK
  <1>2. next \in Nat
    BY DEF BatchesTypeOK
  <1> HIDE DEF all
  <1>3. ASSUME NEW i \in 1..(Len(all) - 1) PROVE all[i + 1] = all[i] + 1
    <2>1. CASE i = n
      BY <1>1, <1>2, <2>1
    <2>2. CASE i # n
      BY <1>1, <1>3, <2>2 DEF Consecutive
    <2>3. QED
      BY <2>1, <2>2
  <1>4. Consecutive(all)
    BY <1>3 DEF Consecutive
  <1>5. QED
    BY <1>1, <1>4 DEF all

LEMMA StepPackingInv == PackingInv /\ [BatchesNext]_batchVars => PackingInv'
  <1> SUFFICES ASSUME PackingInv, [BatchesNext]_batchVars PROVE PackingInv'
    OBVIOUS
  <1> USE PrepareBatchesAssumption
  <1>0. LimitsInv /\ LimitsInv' /\ BatchesTypeOK /\ BatchesTypeOK' /\ EntriesInOrder
    BY StepLimits DEF PackingInv, LimitsInv, PackingExact
  <1>1. ASSUME AddEntry, WouldOverflow(logs[next]) PROVE PackingInv'
    <2>1. /\ CloseBatch /\ current' = <<next>> /\ totalLen' = logs[next]
          /\ next' = next + 1 /\ UNCHANGED logs /\ next \in 1..Len(logs)
      BY <1>0, <1>1 DEF AddEntry, BatchesTypeOK
    <2>2. logs[next] \in Nat /\ logs[next] \in Sizes
      BY <1>0, <2>1 DEF BatchesTypeOK, Sizes
    <2>3. current # <<>>
      BY <1>0, <1>1, <2>2, FirstEntryFits
    <2>4. current[Len(current)] = next - 1
      BY <1>0, <2>3 DEF EntriesInOrder
    <2>5. EntriesInOrder'
      <3>1. Consecutive(current') /\ current' # <<>> /\ current'[1] = next
            /\ current'[Len(current')] = next
        BY <2>1 DEF Consecutive
      <3>2. NextStart' = next
        BY <2>1, <2>3, <2>4, CloseBatchExact
      <3>3. \A k \in 1..Len(batches') :
              /\ Consecutive(batches'[k].entries)
              /\ FirstOf(k)' = IF k = 1 THEN 1 ELSE LastOf(k - 1)' + 1
        BY <2>1, <2>3, CloseBatchExact
      <3>4. Consecutive(current)' /\ \A k \in 1..Len(batches') : Consecutive(batches[k].entries)'
        BY <3>1, <3>3 DEF Consecutive
      <3>5. next' - 1 = next
        BY <2>1
      <3>6. QED
        BY <3>1, <3>2, <3>3, <3>4, <3>5 DEF EntriesInOrder
    <2>6. NoNeedlessSplit' /\ SizeIsSerializedLength'
      BY <2>1, <2>3, CloseBatchExact
    <2>7. LastSplitNeeded'
      <3>1. /\ Len(batches') = Len(batches) + 1
            /\ batches'[Len(batches')] = [entries |-> current, size |-> NewBatchLen]
        BY <1>0, <2>1, CloseBatchAppends
      <3>2. Len(current) <= RequestMaxEvents /\ Len(current) \in Nat
        BY <1>0, <2>3 DEF LimitsInv, OpenBatchWithinLimits, WithinLimits, BatchesTypeOK
      <3>3. SplitNeeded([entries |-> current, size |-> NewBatchLen], logs[next])
        BY <1>1, <3>2 DEF WouldOverflow, SplitNeeded
      <3>4. current' # <<>> /\ current'[1] = next /\ logs' = logs
        BY <2>1
      <3>5. SplitNeeded(batches'[Len(batches')], logs'[current'[1]])
        BY <3>1, <3>3, <3>4
      <3>6. QED
        BY <3>4, <3>5 DEF LastSplitNeeded, SplitNeeded
    <2>8. OpenSizeExact'
      <3>1. PayloadBytes(current)' = {1} \X (1..logs[next])
        <4>1. Len(current') = 1 /\ current'[1] = next /\ logs' = logs
          BY <2>1
        <4>2. 1..Len(current') = {1}
          BY <4>1
        <4>3. QED
          BY <4>1, <4>2 DEF PayloadBytes
      <3>2. /\ IsFiniteSet({1} \X (1..logs[next]))
            /\ Cardinality({1} \X (1..logs[next])) = logs[next]
        BY <2>2, EntryBytes
      <3>3. QED
        BY <2>1, <3>1, <3>2 DEF OpenSizeExact
    <2>9. QED
      BY <1>0, <2>5, <2>6, <2>7, <2>8 DEF PackingInv, PackingExact
  <1>2. ASSUME AddEntry, ~WouldOverflow(logs[next]) PROVE PackingInv'
    <2>1. /\ current' = Append(current, next) /\ totalLen' = totalLen + logs[next]
          /\ next' = next + 1 /\ UNCHANGED <<logs, batches>>
          /\ next \in 1..Len(logs)
      BY <1>0, <1>2 DEF AddEntry, BatchesTypeOK
    <2>2. NextStart' = NextStart
      BY <2>1 DEF NextStart, LastOf
    <2>3. current' # <<>>
      <3>1. current \in Seq(Nat) /\ next \in Nat
        BY <1>0 DEF BatchesTypeOK
      <3>2. Len(current') = Len(current) + 1 /\ Len(current) \in Nat
        BY <2>1, <3>1
      <3>3. QED
        BY <3>2
    <2>4. EntriesInOrder'
      <3>1. \A k \in 1..Len(batches') :
              /\ Consecutive(batches[k].entries)'
              /\ FirstOf(k)' = IF k = 1 THEN 1 ELSE LastOf(k - 1)' + 1
        BY <1>0, <2>1 DEF EntriesInOrder, Consecutive, FirstOf, LastOf
      <3>2. next' - 1 = next
        BY <2>1
      <3>3. CASE current = <<>>
        <4>1. current' = <<next>>
          BY <2>1, <3>3
        <4>2. Consecutive(current)' /\ current'[1] = next /\ current'[Len(current')] = next
          BY <4>1 DEF Consecutive
        <4>3. next = NextStart
          BY <1>0, <3>3 DEF EntriesInOrder
        <4>4. QED
          BY <2>2, <2>3, <3>1, <3>2, <4>2, <4>3 DEF EntriesInOrder
      <3>4. CASE current # <<>>
        <4>1. /\ Consecutive(current) /\ current[1] = NextStart
              /\ current[Len(current)] = next - 1
          BY <1>0, <3>4 DEF EntriesInOrder
        <4>2. /\ Consecutive(Append(current, next)) /\ current'[1] = current[1]
              /\ current'[Len(current')] = next
          BY <1>0, <2>1, <3>4, <4>1, ConsecutiveGrows
        <4>3. Consecutive(current)'
          BY <2>1, <4>2 DEF Consecutive
        <4>4. QED
          BY <2>2, <2>3, <3>1, <3>2, <4>1, <4>2, <4>3 DEF EntriesInOrder
      <3>5. QED
        BY <3>3, <3>4
    <2>5. NoNeedlessSplit' /\ SizeIsSerializedLength'
      BY <2>1 DEF PackingInv, PackingExact, NoNeedlessSplit, FirstOf,
                  SizeIsSerializedLength, SerializedLength, PayloadBytes
    <2>6. LastSplitNeeded'
      <3> SUFFICES ASSUME batches # <<>>
                   PROVE  SplitNeeded(batches[Len(batches)], logs[current'[1]])
        BY <2>1, <2>3 DEF LastSplitNeeded, SplitNeeded
      <3>1. current # <<>>
        BY <1>0, <2>1 DEF PackingInv, LastSplitNeeded, BatchesTypeOK
      <3>2. current'[1] = current[1]
        BY <1>0, <2>1, <3>1 DEF BatchesTypeOK
      <3>3. QED
        BY <3>1, <3>2 DEF PackingInv, LastSplitNeeded
    <2>7. OpenSizeExact'
      <3>1. PayloadBytes(current)' = PayloadBytes(Append(current, next))
        BY <2>1 DEF PayloadBytes
      <3>2. QED
        BY <1>0, <2>1, <3>1, PayloadGrows DEF PackingInv, OpenSizeExact
    <2>8. QED
      BY <1>0, <2>4, <2>5, <2>6, <2>7 DEF PackingInv, PackingExact
  <1>3. ASSUME Finish PROVE PackingInv'
    <2>1. /\ next = Len(logs) + 1 /\ current' = <<>> /\ totalLen' = 0
          /\ UNCHANGED <<logs, next>>
      BY <1>3 DEF Finish
    <2>2. LastSplitNeeded'
      BY <2>1 DEF LastSplitNeeded
    <2>3. OpenSizeExact'
      <3>1. PayloadBytes(current)' = {}
        BY <2>1 DEF PayloadBytes
      <3>2. QED
        BY <2>1, <3>1, FS_EmptySet DEF OpenSizeExact
    <2>4. Consecutive(current)' /\ current' = <<>>
      BY <2>1 DEF Consecutive
    <2>5. CASE current # <<>>
      <3>1. CloseBatch /\ UNCHANGED logs
        BY <1>3, <2>5 DEF Finish
      <3>2. NoNeedlessSplit' /\ SizeIsSerializedLength'
        BY <2>5, <3>1, CloseBatchExact
      <3>3. \A k \in 1..Len(batches') :
              /\ Consecutive(batches[k].entries)'
              /\ FirstOf(k)' = IF k = 1 THEN 1 ELSE LastOf(k - 1)' + 1
        BY <2>5, <3>1, CloseBatchExact DEF Consecutive
      <3>4. next' = NextStart'
        <4>1. current[Len(current)] = next - 1 /\ next \in Nat
          BY <1>0, <2>5 DEF EntriesInOrder, BatchesTypeOK
        <4>2. QED
          BY <2>1, <2>5, <3>1, <4>1, CloseBatchExact
      <3>5. EntriesInOrder'
        BY <2>4, <3>3, <3>4 DEF EntriesInOrder
      <3>6. QED
        BY <1>0, <2>2, <2>3, <3>2, <3>5 DEF PackingInv, PackingExact
    <2>6. CASE current = <<>>
      <3>1. UNCHANGED <<batches, logs, next, current>>
        BY <1>3, <2>1, <2>6 DEF Finish
      <3>2. EntriesInOrder' /\ NoNeedlessSplit' /\ SizeIsSerializedLength'
        BY <3>1 DEF PackingInv, PackingExact, EntriesInOrder, Consecutive,
           NextStart, FirstOf, LastOf, NoNeedlessSplit, SizeIsSerializedLength,
           SerializedLength, PayloadBytes
      <3>3. QED
        BY <1>0, <2>2, <2>3, <3>2 DEF PackingInv, PackingExact
    <2>7. QED
      BY <2>5, <2>6
  <1>4. ASSUME UNCHANGED batchVars PROVE PackingInv'
    BY <1>0, <1>4
       DEF batchVars, PackingInv, PackingExact, EntriesInOrder, Consecutive,
           NextStart, FirstOf, LastOf, NoNeedlessSplit, SizeIsSerializedLength,
           SerializedLength, PayloadBytes, LastSplitNeeded, SplitNeeded,
           OpenSizeExact
  <1>5. QED
    BY <1>1, <1>2, <1>3, <1>4 DEF BatchesNext

\* Packing neither loses, repeats nor reorders an entry, closes no request
\* early, and counts exactly the bytes it sends, for any limits and any sizes.
THEOREM PackingIsExact == BatchesSpec => []PackingExact
  <1>1. PackingInv => PackingExact
    BY DEF PackingInv
  <1>2. QED
    BY <1>1, InitPackingInv, StepPackingInv, PTL DEF BatchesSpec

-----------------------------------------------------------------------------
(* Series that Cloud Monitoring accepts.                                   *)

\* Labels joined with others.
LEMMA AndProperties ==
    ASSUME NEW labels, NEW others
    PROVE  /\ DOMAIN And(labels, others) = DOMAIN labels \union DOMAIN others
           /\ \A l \in DOMAIN labels : And(labels, others)[l] = labels[l]
           /\ \A l \in DOMAIN others \ DOMAIN labels : And(labels, others)[l] = others[l]
  BY DEF And

\* The labels of the forwarder are on all series of a process.
LEMMA ForwarderLabelled ==
    ASSUME NEW process
    PROVE  DOMAIN Forwarder(process) = ForwarderLabels
  BY DEF Forwarder, ForwarderLabels

\* Each series of a process has the labels of its descriptor, whatever it reports.
LEMMA LogSeriesLabelled ==
    ASSUME NEW process, NEW sfm, NEW s \in LogSeries(process, sfm)
    PROVE  /\ s.type \in DOMAIN LogLabels
           /\ DOMAIN s.labels = LogLabels[s.type]
  <1>1. CASE \E t \in Counts \union Times : s = [type |-> t, labels |-> Forwarder(process)]
    <2>1. PICK t \in Counts \union Times : s = [type |-> t, labels |-> Forwarder(process)]
      BY <1>1
    <2>2. t # "connectivity_failures"
      BY DEF Counts, Times
    <2>3. t \in DOMAIN LogLabels /\ LogLabels[t] = ForwarderLabels
      BY <2>2 DEF LogLabels
    <2>4. s.type = t /\ s.labels = Forwarder(process)
      BY <2>1
    <2>5. QED
      BY <2>3, <2>4, ForwarderLabelled
  <1>2. CASE \E status \in sfm.connectivity \ {"Ok"} :
                s = [type |-> "connectivity_failures",
                     labels |-> And([connectivity_status |-> status], Forwarder(process))]
    <2>1. PICK status :
             s = [type |-> "connectivity_failures",
                  labels |-> And([connectivity_status |-> status], Forwarder(process))]
      BY <1>2
    <2>2. /\ "connectivity_failures" \in DOMAIN LogLabels
          /\ LogLabels["connectivity_failures"] = ForwarderLabels \union {"connectivity_status"}
      BY DEF LogLabels
    <2>3. DOMAIN [connectivity_status |-> status] = {"connectivity_status"}
      OBVIOUS
    <2>4. DOMAIN And([connectivity_status |-> status], Forwarder(process))
            = {"connectivity_status"} \union ForwarderLabels
      <3>1. DOMAIN And([connectivity_status |-> status], Forwarder(process))
              = DOMAIN [connectivity_status |-> status] \union DOMAIN Forwarder(process)
        BY AndProperties
      <3>2. QED
        BY <2>3, <3>1, ForwarderLabelled
    <2>5. /\ s.type = "connectivity_failures"
          /\ s.labels = And([connectivity_status |-> status], Forwarder(process))
      BY <2>1
    <2>6. QED
      BY <2>2, <2>4, <2>5
  <1>3. QED
    BY <1>1, <1>2 DEF LogSeries

\* Two processes have no series in common.
LEMMA ForwardersDiffer ==
    ASSUME NEW p, NEW q, p[1] # q[1] \/ p[2] # q[2], NEW sfm
    PROVE  LogSeries(p, sfm) \intersect LogSeries(q, sfm) = {}
  <1>1. ASSUME NEW process, NEW other, NEW s \in LogSeries(process, other)
        PROVE  /\ s.labels["container_name"] = process[1]
               /\ s.labels["worker_pid"] = process[2]
    <2>0. /\ Forwarder(process)["container_name"] = process[1]
          /\ Forwarder(process)["worker_pid"] = process[2]
      BY DEF Forwarder
    <2>1. CASE \E t \in Counts \union Times : s = [type |-> t, labels |-> Forwarder(process)]
      BY <2>0, <2>1
    <2>2. CASE \E status \in other.connectivity \ {"Ok"} :
                  s = [type |-> "connectivity_failures",
                       labels |-> And([connectivity_status |-> status], Forwarder(process))]
      <3>1. PICK status :
               s = [type |-> "connectivity_failures",
                    labels |-> And([connectivity_status |-> status], Forwarder(process))]
        BY <2>2
      <3>2. /\ "container_name" \in DOMAIN Forwarder(process)
            /\ "worker_pid" \in DOMAIN Forwarder(process)
        BY DEF Forwarder
      <3>3. DOMAIN [connectivity_status |-> status] = {"connectivity_status"}
        OBVIOUS
      <3>4. s.labels = And([connectivity_status |-> status], Forwarder(process))
        BY <3>1
      <3>5. \A l \in DOMAIN Forwarder(process) \ DOMAIN [connectivity_status |-> status] :
               And([connectivity_status |-> status], Forwarder(process))[l]
                 = Forwarder(process)[l]
        BY AndProperties, ZenonT(60)
      <3>6. QED
        BY <2>0, <3>2, <3>3, <3>4, <3>5
    <2>3. QED
      BY <2>1, <2>2 DEF LogSeries
  <1>2. QED
    BY <1>1


\* A series of a metrics cycle, with its labels.
LEMMA SeriesOfTypeProperties ==
    ASSUME NEW key, NEW type, NEW labels
    PROVE  LET s == SeriesOfType(key, type, labels)
           IN  /\ s = [key |-> key, type |-> type, labels |-> s.labels]
               /\ s.key = key /\ s.type = type
               /\ DOMAIN s.labels = DOMAIN labels \union MonitorLabels
               /\ \A l \in DOMAIN labels : s.labels[l] = labels[l]
  <1>1. DOMAIN Monitor = MonitorLabels
    BY DEF Monitor
  <1>2. /\ DOMAIN And(labels, Monitor) = DOMAIN labels \union DOMAIN Monitor
        /\ \A l \in DOMAIN labels : And(labels, Monitor)[l] = labels[l]
    BY AndProperties
  <1>3. QED
    BY <1>1, <1>2 DEF SeriesOfType

\* The key of a series follows from what Cloud Monitoring sees of it.
KeyOfSeries(type, labels) ==
    CASE type = "ingest_lines" /\ labels["status"] = "Ok" -> "ok"
      [] type = "ingest_lines" /\ labels["status"] = "Invalid" -> "invalid"
      [] type = "ingest_lines" /\ labels["status"] = "Dropped" -> "dropped"
      [] type = "phase_execution_time" /\ labels["phase"] = "setup" -> "setup"
      [] type = "phase_execution_time" /\ labels["phase"] = "fetch_gcp_data" -> "fetch"
      [] type = "phase_execution_time" /\ labels["phase"] = "push_to_dynatrace" -> "push"
      [] type = "request_count" -> "requests"
      [] type = "connectivity" -> "connectivity"
      [] type = "loop_timeouts" -> "loop_timeouts"

Determined(s) ==
    /\ s = [key |-> s.key, type |-> s.type, labels |-> s.labels]
    /\ s.key = KeyOfSeries(s.type, s.labels)
    /\ s.type \in DOMAIN MetricLabels => DOMAIN s.labels = MetricLabels[s.type]

LEMMA IngestLinesDetermined ==
    ASSUME NEW k \in {<<"ok", "Ok">>, <<"invalid", "Invalid">>, <<"dropped", "Dropped">>},
           NEW projects, NEW s \in IngestLines(k[1], k[2], projects)
    PROVE  Determined(s)
  <1>1. PICK p \in projects :
           s = SeriesOfType(k[1], "ingest_lines", [project_id |-> p, status |-> k[2]])
    BY DEF IngestLines
  <1> DEFINE labels == [project_id |-> p, status |-> k[2]]
  <1>2. DOMAIN labels = {"project_id", "status"} /\ labels["status"] = k[2]
    OBVIOUS
  <1> HIDE DEF labels
  <1>3. /\ s = [key |-> k[1], type |-> "ingest_lines", labels |-> s.labels]
        /\ s.key = k[1] /\ s.type = "ingest_lines"
        /\ DOMAIN s.labels = DOMAIN labels \union MonitorLabels
        /\ s.labels["status"] = labels["status"]
    BY <1>1, <1>2, SeriesOfTypeProperties DEF labels
  <1>4. MetricLabels["ingest_lines"] = MonitorLabels \union {"project_id", "status"}
    BY DEF MetricLabels
  <1>5. s.key = KeyOfSeries(s.type, s.labels)
    BY <1>2, <1>3 DEF KeyOfSeries
  <1>6. QED
    BY <1>2, <1>3, <1>4, <1>5 DEF Determined

LEMMA PhaseTimesDetermined ==
    ASSUME NEW k \in {<<"setup", "setup">>, <<"fetch", "fetch_gcp_data">>,
                      <<"push", "push_to_dynatrace">>},
           NEW projects, NEW s \in PhaseTimes(k[1], k[2], projects)
    PROVE  Determined(s)
  <1>1. PICK p \in projects :
           s = SeriesOfType(k[1], "phase_execution_time", [project_id |-> p, phase |-> k[2]])
    BY DEF PhaseTimes
  <1> DEFINE labels == [project_id |-> p, phase |-> k[2]]
  <1>2. DOMAIN labels = {"project_id", "phase"} /\ labels["phase"] = k[2]
    OBVIOUS
  <1> HIDE DEF labels
  <1>3. /\ s = [key |-> k[1], type |-> "phase_execution_time", labels |-> s.labels]
        /\ s.key = k[1] /\ s.type = "phase_execution_time"
        /\ DOMAIN s.labels = DOMAIN labels \union MonitorLabels
        /\ s.labels["phase"] = labels["phase"]
    BY <1>1, <1>2, SeriesOfTypeProperties DEF labels
  <1>4. MetricLabels["phase_execution_time"] = MonitorLabels \union {"project_id", "phase"}
    BY DEF MetricLabels
  <1>5. s.key = KeyOfSeries(s.type, s.labels)
    BY <1>2, <1>3 DEF KeyOfSeries
  <1>6. QED
    BY <1>2, <1>3, <1>4, <1>5 DEF Determined

LEMMA RequestsDetermined ==
    ASSUME NEW status
    PROVE  Determined(SeriesOfType("requests", "request_count", [response_code |-> status]))
  <1> DEFINE labels == [response_code |-> status]
             s == SeriesOfType("requests", "request_count", labels)
  <1>1. DOMAIN labels = {"response_code"}
    OBVIOUS
  <1> HIDE DEF labels
  <1>2. /\ s = [key |-> "requests", type |-> "request_count", labels |-> s.labels]
        /\ s.key = "requests" /\ s.type = "request_count"
        /\ DOMAIN s.labels = DOMAIN labels \union MonitorLabels
    BY SeriesOfTypeProperties
  <1>3. MetricLabels["request_count"] = MonitorLabels \union {"response_code"}
    BY DEF MetricLabels
  <1> HIDE DEF s
  <1>4. Determined(s)
    BY <1>1, <1>2, <1>3 DEF Determined, KeyOfSeries
  <1>5. QED
    BY <1>4 DEF s, labels

LEMMA ConnectivityDetermined ==
    ASSUME NEW status
    PROVE  Determined(SeriesOfType("connectivity", "connectivity", [reason |-> status]))
  <1> DEFINE labels == [reason |-> status]
             s == SeriesOfType("connectivity", "connectivity", labels)
  <1>1. DOMAIN labels = {"reason"}
    OBVIOUS
  <1> HIDE DEF labels
  <1>2. /\ s = [key |-> "connectivity", type |-> "connectivity", labels |-> s.labels]
        /\ s.key = "connectivity" /\ s.type = "connectivity"
        /\ DOMAIN s.labels = DOMAIN labels \union MonitorLabels
    BY SeriesOfTypeProperties
  <1>3. MetricLabels["connectivity"] = MonitorLabels \union {"reason"}
    BY DEF MetricLabels
  <1> HIDE DEF s
  <1>4. Determined(s)
    BY <1>1, <1>2, <1>3 DEF Determined, KeyOfSeries
  <1>5. QED
    BY <1>4 DEF s, labels

LEMMA LoopTimeoutsDetermined ==
    ASSUME NEW s \in LoopTimeoutSeries
    PROVE  Determined(s)
  <1>1. s = SeriesOfType("loop_timeouts", "loop_timeouts", Monitor)
    BY DEF LoopTimeoutSeries
  <1>2. /\ s = [key |-> "loop_timeouts", type |-> "loop_timeouts", labels |-> s.labels]
        /\ s.key = "loop_timeouts" /\ s.type = "loop_timeouts"
    BY <1>1, SeriesOfTypeProperties
  <1>3. s.type \notin DOMAIN MetricLabels
    BY <1>2 DEF MetricLabels
  <1>4. QED
    BY <1>2, <1>3 DEF Determined, KeyOfSeries

\* Whatever a metrics cycle has counted, for any projects and statuses: no two
\* of its series are the same for Cloud Monitoring, and each has the labels of
\* its descriptor.
LEMMA CycleSeriesDetermined ==
    ASSUME NEW sfm, NEW s \in MetricSeries(sfm) \union LoopTimeoutSeries
    PROVE  Determined(s)
  <1>1. CASE s \in IngestLines("ok", "Ok", sfm.ok) \union
                   IngestLines("invalid", "Invalid", sfm.invalid) \union
                   IngestLines("dropped", "Dropped", sfm.dropped)
    <2>1. \A k \in {<<"ok", "Ok">>, <<"invalid", "Invalid">>, <<"dropped", "Dropped">>} :
             \A projects : \A line \in IngestLines(k[1], k[2], projects) : Determined(line)
      BY IngestLinesDetermined
    <2>2. \A projects :
             /\ \A line \in IngestLines("ok", "Ok", projects) : Determined(line)
             /\ \A line \in IngestLines("invalid", "Invalid", projects) : Determined(line)
             /\ \A line \in IngestLines("dropped", "Dropped", projects) : Determined(line)
      BY <2>1
    <2>3. QED
      BY <1>1, <2>2
  <1>2. CASE s \in PhaseTimes("setup", "setup", sfm.setup) \union
                   PhaseTimes("fetch", "fetch_gcp_data", sfm.fetch) \union
                   PhaseTimes("push", "push_to_dynatrace", sfm.push)
    <2>1. \A k \in {<<"setup", "setup">>, <<"fetch", "fetch_gcp_data">>,
                    <<"push", "push_to_dynatrace">>} :
             \A projects : \A time \in PhaseTimes(k[1], k[2], projects) : Determined(time)
      BY PhaseTimesDetermined
    <2>2. \A projects :
             /\ \A time \in PhaseTimes("setup", "setup", projects) : Determined(time)
             /\ \A time \in PhaseTimes("fetch", "fetch_gcp_data", projects) : Determined(time)
             /\ \A time \in PhaseTimes("push", "push_to_dynatrace", projects) : Determined(time)
      BY <2>1
    <2>3. QED
      BY <1>2, <2>2
  <1>3. CASE \E status \in sfm.requests :
                s = SeriesOfType("requests", "request_count", [response_code |-> status])
    BY <1>3, RequestsDetermined
  <1>4. CASE s = SeriesOfType("connectivity", "connectivity", [reason |-> sfm.connectivity])
    BY <1>4, ConnectivityDetermined
  <1>5. CASE s \in LoopTimeoutSeries
    BY <1>5, LoopTimeoutsDetermined
  <1>6. QED
    BY <1>1, <1>2, <1>3, <1>4, <1>5 DEF MetricSeries

\* What the two components write to Cloud Monitoring is accepted, whatever there
\* is to report: no two series of one request are the same, none of two
\* processes are, and each has the labels of its descriptor.
THEOREM SeriesAccepted == AlgorithmsSpec => []SelfMonitoringAccepted
  <1>1. CycleSeriesAccepted
    <2> SUFFICES ASSUME NEW a \in MetricSeries(input) \union LoopTimeoutSeries,
                        NEW b \in MetricSeries(input) \union LoopTimeoutSeries
                 PROVE  /\ (a.type = b.type /\ a.labels = b.labels) => a = b
                        /\ a.type \in DOMAIN MetricLabels => DOMAIN a.labels = MetricLabels[a.type]
      BY DEF CycleSeriesAccepted
    <2>1. Determined(a) /\ Determined(b)
      BY CycleSeriesDetermined
    <2>2. QED
      BY <2>1 DEF Determined
  <1>2. ForwardersApart
    <2>1. ASSUME NEW p \in Deployed, NEW q \in Deployed \ {p}
          PROVE  LogSeries(p, input) \intersect LogSeries(q, input) = {}
      <3>1. \A r \in Deployed : r = <<r[1], r[2]>>
        <4> SUFFICES ASSUME NEW r \in Deployed PROVE r = <<r[1], r[2]>>
          OBVIOUS
        <4>1. \/ r = <<"container 1", 1>> \/ r = <<"container 1", 2>>
              \/ r = <<"container 2", 1>>
          BY DEF Deployed
        <4>2. PICK container, pid : r = <<container, pid>>
          BY <4>1
        <4>3. QED
          BY <4>2
      <3>2. p[1] # q[1] \/ p[2] # q[2]
        BY <3>1
      <3>3. QED
        BY <3>2, ForwardersDiffer
    <2>2. QED
      BY <2>1, LogSeriesLabelled DEF ForwardersApart
  <1>3. SelfMonitoringAccepted
    BY <1>1, <1>2 DEF SelfMonitoringAccepted
  <1>4. QED
    BY <1>3, PTL

-----------------------------------------------------------------------------
(* Requests with series.                                                   *)

\* A finite set becomes a sequence of its elements.
LEMMA SetToSeqType ==
    ASSUME NEW S, IsFiniteSet(S)
    PROVE  /\ SetToSeq(S) \in Seq(S)
           /\ Len(SetToSeq(S)) = Cardinality(S)
  <1>1. Cardinality(S) \in Nat /\ ExistsBijection(1..Cardinality(S), S)
    BY FS_CardinalityType
  <1>2. \E f \in [1..Cardinality(S) -> S] : IsInjective(f)
    BY <1>1 DEF ExistsBijection, Bijection, Injection
  <1>3. SetToSeq(S) \in [1..Cardinality(S) -> S]
    BY <1>2 DEF SetToSeq
  <1>4. QED
    BY <1>1, <1>3

\* The chunks of a list are sequences of its elements, at least one unless the
\* list is empty.
LEMMA ChunksType ==
    ASSUME NEW S, NEW list \in Seq(S), NEW size \in Nat \ {0}
    PROVE  /\ Chunks(list, size) \in Seq(Seq(S))
           /\ list # <<>> => Chunks(list, size) # <<>>
  <1> DEFINE len == Len(list)
             step == IF size < 1 THEN 1 ELSE size
             number == (len + step - 1) \div step
             end(k) == IF k * step < len THEN k * step ELSE len
             part(k) == SubSeq(list, (k - 1) * step + 1, end(k))
  <1>1. Chunks(list, size) = [k \in 1..number |-> part(k)]
    BY DEF Chunks
  <1>2. step \in Nat /\ step >= 1
    OBVIOUS
  <1> HIDE DEF step
  <1>3. len \in Nat /\ number \in Nat
    BY <1>2
  <1>4. ASSUME NEW k \in 1..number PROVE part(k) \in Seq(S)
    <2>1. (k - 1) * step \in Nat /\ k * step \in Nat
      BY <1>2, <1>3
    <2>2. end(k) \in 0..len
      BY <1>3, <2>1
    <2>3. QED
      BY <2>1, <2>2
  <1>5. ASSUME list # <<>> PROVE number >= 1
    <2>1. len >= 1
      BY <1>5
    <2>2. QED
      BY <1>2, <2>1
  <1> HIDE DEF number, part
  <1>6. /\ [k \in 1..number |-> part(k)] \in Seq(Seq(S))
        /\ Len([k \in 1..number |-> part(k)]) = number
    BY <1>3, <1>4
  <1>7. QED
    BY <1>1, <1>3, <1>5, <1>6

\* Multiples of a size are in the order of what is multiplied.
LEMMA MultiplesOrdered ==
    ASSUME NEW a \in Int, NEW b \in Int, NEW step \in Nat, a <= b
    PROVE  a * step <= b * step
  <1>1. (b - a) * step >= 0
    OBVIOUS
  <1>2. QED
    BY <1>1

\* What the number of chunks comes to, rounded up.
LEMMA NumberOfChunks ==
    ASSUME NEW len \in Nat, NEW step \in Nat \ {0}
    PROVE  LET number == (len + step - 1) \div step
           IN  /\ number \in Nat
               /\ len <= number * step
               /\ number * step < len + step
  OBVIOUS

\* A list is cut into chunks at multiples of the size, which is one at least:
\* each chunk holds the elements from its place on, all but the last are full,
\* and none is empty.
THEOREM ChunksExact ==
    ASSUME NEW S, NEW list \in Seq(S), NEW size \in Nat
    PROVE  LET step == IF size < 1 THEN 1 ELSE size
               parts == Chunks(list, size)
           IN  /\ \A k \in DOMAIN parts :
                     /\ Len(parts[k]) \in 1..step
                     /\ k < Len(parts) => Len(parts[k]) = step
                     /\ \A j \in 1..Len(parts[k]) :
                           /\ (k - 1) * step + j \in 1..Len(list)
                           /\ parts[k][j] = list[(k - 1) * step + j]
               /\ \A i \in 1..Len(list) :
                     \E k \in DOMAIN parts : \E j \in 1..Len(parts[k]) : i = (k - 1) * step + j
  <1> DEFINE len == Len(list)
             step == IF size < 1 THEN 1 ELSE size
             number == (len + step - 1) \div step
             end(k) == IF k * step < len THEN k * step ELSE len
             part(k) == SubSeq(list, (k - 1) * step + 1, end(k))
             parts == Chunks(list, size)
  <1>1. parts = [k \in 1..number |-> part(k)]
    BY DEF Chunks
  <1>2. step \in Nat \ {0} /\ len \in Nat
    OBVIOUS
  <1> HIDE DEF step
  <1>3. number \in Nat /\ len <= number * step /\ number * step < len + step
    BY <1>2, NumberOfChunks
  <1> HIDE DEF number
  <1>4. DOMAIN parts = 1..number /\ Len(parts) = number
    BY <1>1, <1>3
  <1>5. ASSUME NEW k \in 1..number
        PROVE  /\ (k - 1) * step \in Nat /\ k * step \in Nat
               /\ (k - 1) * step + step = k * step
               /\ (k - 1) * step < len
               /\ k < number => k * step < len
    <2>1. k \in Nat /\ k >= 1 /\ k <= number /\ k - 1 \in Nat
      BY <1>3
    <2>2. (k - 1) * step \in Nat /\ k * step \in Nat /\ (k - 1) * step + step = k * step
      BY <1>2, <2>1
    <2>3. k * step <= number * step
      BY <1>2, <1>3, <2>1, MultiplesOrdered
    <2>4. (k - 1) * step < len
      BY <1>2, <1>3, <2>2, <2>3
    <2>5. ASSUME k < number PROVE k * step < len
      <3>1. k + 1 <= number /\ k + 1 \in Int /\ number \in Int
        BY <1>3, <2>1, <2>5
      <3>2. (k + 1) * step <= number * step
        BY <1>2, <3>1, MultiplesOrdered
      <3>3. (k + 1) * step = k * step + step
        BY <1>2, <2>1
      <3>4. QED
        BY <1>2, <1>3, <2>2, <3>2, <3>3
    <2>6. QED
      BY <2>2, <2>4, <2>5
  <1>6. ASSUME NEW k \in 1..number
        PROVE  /\ end(k) \in (k - 1) * step + 1 .. len
               /\ Len(part(k)) = end(k) - (k - 1) * step
               /\ \A j \in 1..(end(k) - (k - 1) * step) : part(k)[j] = list[(k - 1) * step + j]
    <2>1. end(k) \in (k - 1) * step + 1 .. len
      BY <1>2, <1>5
    <2>2. QED
      BY <1>2, <1>5, <2>1
  <1>7. ASSUME NEW k \in DOMAIN parts
        PROVE  /\ Len(parts[k]) \in 1..step
               /\ k < Len(parts) => Len(parts[k]) = step
               /\ \A j \in 1..Len(parts[k]) :
                     /\ (k - 1) * step + j \in 1..Len(list)
                     /\ parts[k][j] = list[(k - 1) * step + j]
    <2>1. k \in 1..number /\ parts[k] = part(k)
      BY <1>1, <1>4
    <2> HIDE DEF part, parts
    <2>2. Len(parts[k]) = end(k) - (k - 1) * step
      BY <1>6, <2>1
    <2>3. Len(parts[k]) \in 1..step /\ (k < Len(parts) => Len(parts[k]) = step)
      <3> DEFINE base == (k - 1) * step
                 top == k * step
      <3>1. /\ base \in Nat /\ top \in Nat /\ base + step = top /\ base < len
            /\ k < number => top < len
        BY <1>5, <2>1
      <3>2. end(k) = IF top < len THEN top ELSE len
        OBVIOUS
      <3>3. Len(parts[k]) = end(k) - base
        BY <2>2
      <3>4. step \in Nat /\ step >= 1 /\ len \in Nat
        BY <1>2
      <3> HIDE DEF base, top, end, len
      <3>5. QED
        BY <1>4, <3>1, <3>2, <3>3, <3>4
    <2>4. ASSUME NEW j \in 1..Len(parts[k])
          PROVE  /\ (k - 1) * step + j \in 1..len
                 /\ parts[k][j] = list[(k - 1) * step + j]
      <3> DEFINE base == (k - 1) * step
      <3>1. base \in Nat /\ end(k) \in base + 1 .. len
        BY <1>5, <1>6, <2>1
      <3>2. \A m \in 1..(end(k) - base) : part(k)[m] = list[base + m]
        BY <1>6, <2>1
      <3>3. Len(parts[k]) = end(k) - base
        BY <2>2
      <3> HIDE DEF base, end
      <3>4. j \in 1..(end(k) - base) /\ base + j \in 1..len
        BY <1>2, <3>1, <3>3
      <3>5. parts[k][j] = list[base + j]
        BY <2>1, <3>2, <3>4
      <3>6. QED
        BY <3>4, <3>5 DEF base
    <2>5. QED
      BY <2>3, <2>4
  <1>8. ASSUME NEW i \in 1..len
        PROVE  \E k \in DOMAIN parts : \E j \in 1..Len(parts[k]) : i = (k - 1) * step + j
    <2> DEFINE k == (i - 1) \div step + 1
               j == ((i - 1) % step) + 1
    <2>1. k \in Nat /\ k >= 1 /\ j \in 1..step /\ i = (k - 1) * step + j
      BY <1>2
    <2> HIDE DEF k, j
    <2>2. (k - 1) * step < number * step
      BY <1>2, <1>3, <2>1
    <2>3. k <= number
      <3> SUFFICES ASSUME number <= k - 1 PROVE FALSE
        BY <1>3, <2>1
      <3>1. number * step <= (k - 1) * step
        BY <1>2, <1>3, <2>1, MultiplesOrdered
      <3>2. QED
        BY <1>2, <1>3, <2>1, <2>2, <3>1
    <2>4. k \in DOMAIN parts
      BY <1>3, <1>4, <2>1, <2>3
    <2>5. j \in 1..Len(parts[k])
      <3>1. Len(parts[k]) = end(k) - (k - 1) * step
        BY <1>1, <1>4, <1>6, <2>4
      <3>2. QED
        BY <1>2, <1>4, <1>5, <2>1, <2>4, <3>1
    <2>6. QED
      BY <2>1, <2>4, <2>5
  <1>9. QED
    BY <1>7, <1>8 DEF step

\* The values of a function on a finite set are finitely many.
LEMMA ImageFinite ==
    ASSUME NEW S, IsFiniteSet(S), NEW f
    PROVE  IsFiniteSet({f[x] : x \in S})
  <1> DEFINE T == {f[x] : x \in S}
             g == [x \in S |-> f[x]]
  <1>1. g \in Surjection(S, T)
    BY DEF Surjection
  <1>2. QED
    BY <1>1, FS_Surjection

LEMMA ElementsFinite ==
    ASSUME NEW n \in Nat, NEW f
    PROVE  IsFiniteSet({f[i] : i \in 1..n})
  <1>1. IsFiniteSet(1..n)
    BY FS_Interval
  <1>2. QED
    BY <1>1, ImageFinite

LEMMA ConnectivityFinite == IsFiniteSet(Connectivity)
  <1> DEFINE f == <<"Ok", "ExpiredToken", "WrongToken", "WrongURL", "InvalidInput",
                    "TooManyRequests", "Other">>
  <1>1. Connectivity = {f[i] : i \in 1..7}
    BY DEF Connectivity
  <1>2. QED
    BY <1>1, ElementsFinite

LEMMA CountsAndTimesFinite == IsFiniteSet(Counts \union Times)
  <1> DEFINE f == <<"all_requests", "too_old_records", "parsing_errors",
                    "too_long_content_size", "publish_time_fallback",
                    "log_ingest_payload_size", "raw_log_ingest_payload_size",
                    "sent_logs_entries">>
             g == <<"processing_time", "sending_time", "pulling_time">>
  <1>1. Counts = {f[i] : i \in 1..8}
    BY DEF Counts
  <1>2. Times = {g[i] : i \in 1..3}
    BY DEF Times
  <1>3. IsFiniteSet(Counts) /\ IsFiniteSet(Times)
    BY <1>1, <1>2, ElementsFinite
  <1>4. QED
    BY <1>3, FS_Union

\* Whatever the report, it leads to finitely many series, all of them such as
\* AnyReport leads to.
LEMMA LogSeriesFinite ==
    ASSUME NEW p
    PROVE  IsFiniteSet(LogSeries(p, AnyReport))
  <1> DEFINE f == [t \in Counts \union Times |-> [type |-> t, labels |-> Forwarder(p)]]
             g == [status \in Connectivity |->
                     [type |-> "connectivity_failures",
                      labels |-> And([connectivity_status |-> status], Forwarder(p))]]
             F == {f[t] : t \in Counts \union Times}
             G == {g[status] : status \in Connectivity}
  <1>1. IsFiniteSet(F)
    BY CountsAndTimesFinite, ImageFinite
  <1>2. IsFiniteSet(G)
    BY ConnectivityFinite, ImageFinite
  <1>3. LogSeries(p, AnyReport) \subseteq F \union G
    BY DEF LogSeries, AnyReport
  <1>4. IsFiniteSet(F \union G)
    BY <1>1, <1>2, FS_Union
  <1>5. QED
    BY <1>3, <1>4, FS_Subset

LEMMA PeriodSeries ==
    ASSUME NEW p \in Processes, NEW list \in Seq(Reports)
    PROVE  LET series == {s \in LogSeries(p, Aggregated(list)) : s.type \in Types}
           IN  series \subseteq AllSeries /\ series # {} /\ IsFiniteSet(series)
  <1> DEFINE series == {s \in LogSeries(p, Aggregated(list)) : s.type \in Types}
  <1>1. Aggregated(list).connectivity \subseteq Connectivity
    <2>1. \A n \in DOMAIN list : list[n].connectivity \subseteq Connectivity
      BY SelfMonitoringAssumption
    <2>2. QED
      BY <2>1 DEF Aggregated
  <1>2. LogSeries(p, Aggregated(list)) \subseteq LogSeries(p, AnyReport)
    <2>1. /\ \A t \in Counts : AnyReport.counts[t] > 0
          /\ AnyReport.connectivity = Connectivity
      BY DEF AnyReport
    <2> DEFINE sfm == Aggregated(list)
    <2>2. {t \in Counts : sfm.counts[t] > 0} \subseteq {t \in Counts : AnyReport.counts[t] > 0}
      BY <2>1
    <2>3. sfm.connectivity \ {"Ok"} \subseteq AnyReport.connectivity \ {"Ok"}
      BY <1>1, <2>1
    <2> HIDE DEF sfm
    <2>4. LogSeries(p, sfm) \subseteq LogSeries(p, AnyReport)
      BY <2>2, <2>3 DEF LogSeries
    <2>5. QED
      BY <2>4 DEF sfm
  <1>3. series \subseteq AllSeries
    BY <1>2 DEF AllSeries
  <1>4. series # {}
    <2>1. PICK t \in Times : t \in Types
      BY SelfMonitoringAssumption DEF Types
    <2>2. [type |-> t, labels |-> Forwarder(p)] \in LogSeries(p, Aggregated(list))
      BY DEF LogSeries
    <2>3. QED
      BY <2>1, <2>2
  <1>5. IsFiniteSet(series)
    BY <1>2, LogSeriesFinite, FS_Subset
  <1>6. QED
    BY <1>3, <1>4, <1>5

-----------------------------------------------------------------------------
(* Types.                                                                  *)

\* The descriptors of the types, and what is left to do in a process.
DescriptorsOK ==
    /\ descriptor \in [Types -> UNION {Descriptors(t) : t \in Types}]
    /\ \A t \in Types : descriptor[t] \in Descriptors(t)
QueuesOK ==
    /\ queue \in [Processes -> Seq(Reports)]
    /\ \A p \in Processes : Len(queue[p]) <= MaxQueue
LoopsOK ==
    /\ pc \in [Processes -> {"asleep", "context", "listing", "describing", "pushing"}]
    /\ ops \in [Processes -> SUBSET Requests]
    /\ chunks \in [Processes -> Seq(Seq(AllSeries))]
    /\ retrying \in [Processes -> BOOLEAN] /\ whole \in [Processes -> BOOLEAN]
    /\ \A p \in Processes :
          /\ (chunks[p] = <<>>) <=> (pc[p] = "asleep")
          /\ (ops[p] # {}) <=> (pc[p] = "describing")
          /\ retrying[p] => pc[p] = "pushing"
NumbersOK == lost \in Nat /\ faults \in 0..MaxFaults

PartsOK == DescriptorsOK /\ QueuesOK /\ LoopsOK /\ NumbersOK

LEMMA TypeParts == (TypeOK <=> PartsOK) /\ (TypeOK' <=> PartsOK')
  BY DEF PartsOK, TypeOK, DescriptorsOK, QueuesOK, LoopsOK, NumbersOK

LEMMA FaultType ==
    ASSUME NumbersOK, Fault
    PROVE  faults' \in 0..MaxFaults /\ faults' = faults + 1
  BY SelfMonitoringAssumption DEF NumbersOK, Fault

\* Every descriptor an action can leave is one of its type.
LEMMA DescriptorKinds ==
    ASSUME NEW t \in Types
    PROVE  /\ NoDescriptor \in Descriptors(t)
           /\ Wanted(t) \in Descriptors(t)
           /\ Earlier(t) \in Descriptors(t)
           /\ Later(t) \in Descriptors(t)
           /\ [labels |-> LogLabels[t], name |-> "none"] \in Descriptors(t)
           /\ \A kind : \A existing \in Descriptors(t) : After(kind, t, existing) \in Descriptors(t)
  BY DEF NoDescriptor, Wanted, Earlier, Later, Descriptors, After

LEMMA DescriptorsType ==
    ASSUME NEW d, d = [t \in Types |-> d[t]],
           \A t \in Types : d[t] \in Descriptors(t)
    PROVE  d \in [Types -> UNION {Descriptors(t) : t \in Types}]
  <1>1. \A t \in Types : d[t] \in UNION {Descriptors(u) : u \in Types}
    OBVIOUS
  <1>2. QED
    BY <1>1

LEMMA SfmInitTypeOK == Init => TypeOK
  <1> SUFFICES ASSUME Init PROVE TypeOK
    OBVIOUS
  <1>1. DescriptorsOK
    <2>1. /\ descriptor \in [Types -> UNION {{NoDescriptor, Wanted(t), Earlier(t), Later(t)} : t \in Types}]
          /\ \A t \in Types : descriptor[t] \in {NoDescriptor, Wanted(t), Earlier(t), Later(t)}
      BY DEF Init
    <2>2. \A t \in Types : descriptor[t] \in Descriptors(t)
      BY <2>1, DescriptorKinds
    <2>3. descriptor = [t \in Types |-> descriptor[t]]
      BY <2>1
    <2>4. QED
      BY <2>2, <2>3, DescriptorsType DEF DescriptorsOK
  <1>2. QueuesOK
    BY SelfMonitoringAssumption DEF Init, QueuesOK
  <1>3. LoopsOK
    BY DEF Init, LoopsOK
  <1>4. NumbersOK
    BY SelfMonitoringAssumption DEF Init, NumbersOK
  <1>5. QED
    BY <1>1, <1>2, <1>3, <1>4, TypeParts DEF PartsOK

\* One process does something: its part of the loops is what matters.
LEMMA LoopStepType ==
    ASSUME LoopsOK, NEW p \in Processes,
           NEW at \in {"asleep", "context", "listing", "describing", "pushing"},
           NEW left \in SUBSET Requests, NEW list \in Seq(Seq(AllSeries)),
           NEW again \in BOOLEAN, NEW complete \in BOOLEAN,
           pc' = [pc EXCEPT ![p] = at], ops' = [ops EXCEPT ![p] = left],
           chunks' = [chunks EXCEPT ![p] = list],
           retrying' = [retrying EXCEPT ![p] = again],
           whole' = [whole EXCEPT ![p] = complete],
           (list = <<>>) <=> (at = "asleep"), (left # {}) <=> (at = "describing"),
           again => at = "pushing"
    PROVE  LoopsOK'
  <1>1. /\ pc' \in [Processes -> {"asleep", "context", "listing", "describing", "pushing"}]
        /\ ops' \in [Processes -> SUBSET Requests]
        /\ chunks' \in [Processes -> Seq(Seq(AllSeries))]
        /\ retrying' \in [Processes -> BOOLEAN] /\ whole' \in [Processes -> BOOLEAN]
    BY DEF LoopsOK
  <1>2. ASSUME NEW q \in Processes
        PROVE  /\ (chunks'[q] = <<>>) <=> (pc'[q] = "asleep")
               /\ (ops'[q] # {}) <=> (pc'[q] = "describing")
               /\ retrying'[q] => pc'[q] = "pushing"
    BY DEF LoopsOK
  <1>3. QED
    BY <1>1, <1>2 DEF LoopsOK

LEMMA SameAt ==
    ASSUME NEW S, NEW T, NEW f \in [S -> T], NEW x \in S
    PROVE  f = [f EXCEPT ![x] = f[x]]
  OBVIOUS

LEMMA EndPeriodType ==
    ASSUME TypeOK, NEW p \in Processes, NEW complete, EndPeriod(p, complete),
           ops[p] = {}, UNCHANGED ops
    PROVE  LoopsOK' /\ lost' \in Nat
  <1>0. LoopsOK /\ NumbersOK
    BY TypeParts DEF PartsOK
  <1>1. lost' \in Nat
    BY <1>0 DEF EndPeriod, NumbersOK
  <1>2. ops' = [ops EXCEPT ![p] = {}]
    <2>1. ops = [ops EXCEPT ![p] = ops[p]]
      BY <1>0, SameAt DEF LoopsOK
    <2>2. QED
      BY <2>1
  <1>3. LoopsOK'
    <2>1. <<>> \in Seq(Seq(AllSeries)) /\ {} \in SUBSET Requests
      OBVIOUS
    <2>2. QED
      BY <1>0, <1>2, <2>1, LoopStepType DEF EndPeriod
  <1>4. QED
    BY <1>1, <1>3

\* The process goes on with the descriptors, or with the series.
LEMMA DescribingType ==
    ASSUME TypeOK, NEW p \in Processes, NEW left \in SUBSET Requests,
           Describing(p, left), pc[p] \in {"listing", "describing"},
           UNCHANGED <<chunks, retrying, whole>>
    PROVE  LoopsOK'
  <1>0. LoopsOK
    BY TypeParts DEF PartsOK
  <1> DEFINE at == IF left = {} THEN "pushing" ELSE "describing"
  <1>1. /\ pc' = [pc EXCEPT ![p] = at] /\ ops' = [ops EXCEPT ![p] = left]
        /\ at \in {"describing", "pushing"} /\ ((left # {}) <=> (at = "describing"))
    BY DEF Describing
  <1> HIDE DEF at
  <1>2. /\ chunks' = [chunks EXCEPT ![p] = chunks[p]]
        /\ retrying' = [retrying EXCEPT ![p] = retrying[p]]
        /\ whole' = [whole EXCEPT ![p] = whole[p]]
    BY <1>0, SameAt DEF LoopsOK
  <1>3. /\ chunks[p] \in Seq(Seq(AllSeries)) /\ chunks[p] # <<>>
        /\ retrying[p] \in BOOLEAN /\ whole[p] \in BOOLEAN /\ ~retrying[p]
    BY <1>0 DEF LoopsOK
  <1>4. QED
    BY <1>0, <1>1, <1>2, <1>3, LoopStepType

LEMMA TailType ==
    ASSUME NEW S, NEW s \in Seq(S), s # <<>>, Len(s) # 1
    PROVE  Tail(s) \in Seq(S) /\ Tail(s) # <<>>
  <1>1. Len(s) \in Nat
    OBVIOUS
  <1>2. Len(s) # 0
    OBVIOUS
  <1>3. Tail(s) \in Seq(S) /\ Len(Tail(s)) = Len(s) - 1
    OBVIOUS
  <1>4. Len(Tail(s)) # 0
    BY <1>1, <1>3
  <1>5. QED
    BY <1>3, <1>4

LEMMA ChunkDoneType ==
    ASSUME TypeOK, NEW p \in Processes, NEW complete \in BOOLEAN,
           ChunkDone(p, complete), pc[p] = "pushing", UNCHANGED ops
    PROVE  LoopsOK' /\ lost' \in Nat
  <1>0. LoopsOK /\ NumbersOK
    BY TypeParts DEF PartsOK
  <1>1. ops[p] = {} /\ chunks[p] \in Seq(Seq(AllSeries)) /\ chunks[p] # <<>>
    BY <1>0 DEF LoopsOK
  <1>2. CASE Len(chunks[p]) = 1
    BY <1>1, <1>2, EndPeriodType DEF ChunkDone
  <1>3. CASE Len(chunks[p]) # 1
    <2> DEFINE rest == Tail(chunks[p])
               both == whole[p] /\ complete
    <2>1. /\ chunks' = [chunks EXCEPT ![p] = rest]
          /\ whole' = [whole EXCEPT ![p] = both]
          /\ retrying' = [retrying EXCEPT ![p] = FALSE]
          /\ UNCHANGED <<pc, lost>>
      BY <1>3 DEF ChunkDone
    <2>2. rest \in Seq(Seq(AllSeries)) /\ rest # <<>>
      BY <1>1, <1>3, TailType
    <2>3. both \in BOOLEAN
      OBVIOUS
    <2>4. pc' = [pc EXCEPT ![p] = "pushing"] /\ ops' = [ops EXCEPT ![p] = ops[p]]
      <3>1. pc = [pc EXCEPT ![p] = pc[p]] /\ ops = [ops EXCEPT ![p] = ops[p]]
        BY <1>0, SameAt DEF LoopsOK
      <3>2. QED
        BY <2>1, <3>1
    <2> HIDE DEF rest, both
    <2>5. LoopsOK'
      BY <1>0, <1>1, <2>1, <2>2, <2>3, <2>4, LoopStepType
    <2>6. QED
      BY <1>0, <2>1, <2>5 DEF NumbersOK
  <1>4. QED
    BY <1>2, <1>3

\* What a request to Cloud Monitoring may leave of the descriptors.
LEMMA EffectType ==
    ASSUME DescriptorsOK, NEW type \in Types, NEW kind,
           descriptor' = [descriptor EXCEPT ![type] = After(kind, type, @)]
    PROVE  DescriptorsOK'
  <1>1. \A t \in Types : descriptor'[t] \in Descriptors(t)
    BY DescriptorKinds DEF DescriptorsOK
  <1>2. descriptor' = [t \in Types |-> descriptor'[t]]
    BY DEF DescriptorsOK
  <1>3. QED
    BY <1>1, <1>2, DescriptorsType DEF DescriptorsOK

LEMMA WrittenType ==
    ASSUME DescriptorsOK, NEW series, descriptor' = Written(series)
    PROVE  DescriptorsOK'
  <1>1. \A t \in Types : descriptor'[t] \in Descriptors(t)
    BY DescriptorKinds DEF DescriptorsOK, Written
  <1>2. descriptor' = [t \in Types |-> descriptor'[t]]
    BY DEF Written
  <1>3. QED
    BY <1>1, <1>2, DescriptorsType DEF DescriptorsOK

LEMMA SameDescriptorsType ==
    ASSUME DescriptorsOK, UNCHANGED descriptor
    PROVE  DescriptorsOK'
  BY DEF DescriptorsOK

LEMMA SameQueueType ==
    ASSUME QueuesOK, UNCHANGED queue
    PROVE  QueuesOK'
  BY DEF QueuesOK

LEMMA SfmTypeStep == TypeOK /\ [Next]_vars => TypeOK'
  <1> SUFFICES ASSUME TypeOK, [Next]_vars PROVE PartsOK'
    BY TypeParts
  <1>0. DescriptorsOK /\ QueuesOK /\ LoopsOK /\ NumbersOK
    BY TypeParts DEF PartsOK
  <1>1. ASSUME NEW p \in Processes, Put(p) PROVE PartsOK'
    <2>1. PICK report \in Reports : queue' = [queue EXCEPT ![p] = Append(@, report)]
      BY <1>1 DEF Put
    <2>2. Len(queue[p]) < MaxQueue /\ queue[p] \in Seq(Reports) /\ MaxQueue \in Nat
      BY <1>0, <1>1, SelfMonitoringAssumption DEF Put, QueuesOK
    <2>3. /\ Append(queue[p], report) \in Seq(Reports)
          /\ Len(Append(queue[p], report)) <= MaxQueue
      BY <2>2
    <2>4. QueuesOK'
      BY <1>0, <2>1, <2>3 DEF QueuesOK
    <2>5. DescriptorsOK' /\ LoopsOK' /\ NumbersOK'
      BY <1>0, <1>1 DEF Put, loop, DescriptorsOK, LoopsOK, NumbersOK
    <2>6. QED
      BY <2>4, <2>5 DEF PartsOK
  <1>2. ASSUME NEW p \in Processes, Wake(p) PROVE PartsOK'
    <2> DEFINE series == {s \in LogSeries(p, Aggregated(queue[p])) : s.type \in Types}
               requests == Chunks(SetToSeq(series), ChunkSize)
    <2>1. queue[p] \in Seq(Reports)
      BY <1>0 DEF QueuesOK
    <2>2. series \subseteq AllSeries /\ series # {} /\ IsFiniteSet(series)
      BY <2>1, PeriodSeries
    <2>3. requests \in Seq(Seq(AllSeries)) /\ requests # <<>>
      <3> HIDE DEF series
      <3>1. SetToSeq(series) \in Seq(series) /\ Len(SetToSeq(series)) = Cardinality(series)
        BY <2>2, SetToSeqType
      <3>2. Cardinality(series) # 0
        BY <2>2, FS_EmptySet
      <3>3. SetToSeq(series) \in Seq(AllSeries) /\ SetToSeq(series) # <<>>
        BY <2>2, <3>1, <3>2
      <3>4. QED
        BY <3>3, ChunksType, SelfMonitoringAssumption
    <2>4. /\ pc[p] = "asleep" /\ pc' = [pc EXCEPT ![p] = "context"]
          /\ queue' = [queue EXCEPT ![p] = <<>>]
          /\ chunks' = [chunks EXCEPT ![p] = requests]
          /\ whole' = [whole EXCEPT ![p] = TRUE]
          /\ UNCHANGED <<descriptor, ops, retrying, lost, faults>>
      BY <1>2 DEF Wake
    <2> HIDE DEF requests
    <2>5. ops[p] = {} /\ ~retrying[p]
      BY <1>0, <2>4 DEF LoopsOK
    <2>6. ops' = [ops EXCEPT ![p] = ops[p]] /\ retrying' = [retrying EXCEPT ![p] = retrying[p]]
      BY <1>0, <2>4, SameAt DEF LoopsOK
    <2>7. LoopsOK'
      BY <1>0, <2>3, <2>4, <2>5, <2>6, LoopStepType DEF LoopsOK
    <2>8. QueuesOK'
      BY <1>0, <2>4, SelfMonitoringAssumption DEF QueuesOK
    <2>9. DescriptorsOK' /\ NumbersOK'
      BY <1>0, <2>4 DEF DescriptorsOK, NumbersOK
    <2>10. QED
      BY <2>7, <2>8, <2>9 DEF PartsOK
  <1>3. ASSUME NEW p \in Processes, Context(p) PROVE PartsOK'
    <2>1. pc[p] = "context" /\ UNCHANGED <<descriptor, queue, ops>>
      BY <1>3 DEF Context
    <2>2. DescriptorsOK' /\ QueuesOK' /\ ops[p] = {}
      BY <1>0, <2>1, SameDescriptorsType, SameQueueType DEF LoopsOK
    <2>3. CASE ContextMade(p)
      <3>1. LoopsOK' /\ NumbersOK'
        BY <1>0, <2>1, <2>3 DEF ContextMade, LoopsOK, NumbersOK
      <3>2. QED
        BY <2>2, <3>1 DEF PartsOK
    <2>4. CASE Fault /\ EndPeriod(p, FALSE)
      <3>1. LoopsOK' /\ lost' \in Nat
        BY <2>1, <2>2, <2>4, EndPeriodType
      <3>2. faults' \in 0..MaxFaults
        BY <1>0, <2>4, FaultType
      <3>3. QED
        BY <2>2, <3>1, <3>2 DEF PartsOK, NumbersOK
    <2>5. QED
      BY <1>3, <2>3, <2>4 DEF Context
  <1>4. ASSUME NEW p \in Processes, List(p) PROVE PartsOK'
    <2>1. PICK left \in SUBSET Requests : Describing(p, left)
      BY <1>4 DEF List, Repairs
    <2>2. /\ pc[p] = "listing"
          /\ UNCHANGED <<descriptor, queue, chunks, retrying, whole, lost>>
      BY <1>4 DEF List
    <2>3. LoopsOK'
      BY <2>1, <2>2, DescribingType
    <2>4. NumbersOK'
      <3>1. UNCHANGED faults \/ Fault
        BY <1>4 DEF List
      <3>2. QED
        BY <1>0, <2>2, <3>1, FaultType DEF NumbersOK
    <2>5. QED
      BY <1>0, <2>2, <2>3, <2>4, SameDescriptorsType, SameQueueType DEF PartsOK
  <1>5. ASSUME NEW p \in Processes, Describe(p) PROVE PartsOK'
    <2>1. PICK op \in ops[p] :
             LET type == MetricMap[op[1]]
                 effect == [descriptor EXCEPT ![type] = After(op[2], type, @)]
                 left == ops[p] \ {op}
             IN  \/ descriptor' = effect /\ Describing(p, left) /\ UNCHANGED faults
                 \/ Fault /\ UNCHANGED descriptor /\ Describing(p, left)
                 \/ Fault /\ descriptor' \in {descriptor, effect} /\ Describing(p, {})
      BY <1>5 DEF Describe
    <2>2. /\ pc[p] = "describing"
          /\ UNCHANGED <<queue, chunks, retrying, whole, lost>>
      BY <1>5 DEF Describe
    <2>3. op \in Requests /\ ops[p] \ {op} \in SUBSET Requests
      BY <1>0, <2>1 DEF LoopsOK
    <2>4. MetricMap[op[1]] \in Types
      BY <2>3 DEF Requests, Types, ToSet
    <2>5. DescriptorsOK'
      BY <1>0, <2>1, <2>4, EffectType, SameDescriptorsType
    <2>6. PICK left \in SUBSET Requests : Describing(p, left)
      BY <2>1, <2>3
    <2>7. LoopsOK'
      BY <2>2, <2>6, DescribingType
    <2>8. NumbersOK'
      <3>1. UNCHANGED faults \/ Fault
        BY <2>1
      <3>2. QED
        BY <1>0, <2>2, <3>1, FaultType DEF NumbersOK
    <2>9. QED
      BY <1>0, <2>2, <2>5, <2>7, <2>8, SameQueueType DEF PartsOK
  <1>6. ASSUME NEW p \in Processes, Push(p) PROVE PartsOK'
    <2>1. pc[p] = "pushing" /\ UNCHANGED <<queue, ops>>
      BY <1>6 DEF Push
    <2>2. QueuesOK' /\ ops[p] = {}
      BY <1>0, <2>1, SameQueueType DEF LoopsOK
    <2>3. CASE PushAnswered(p)
      <3>1. PICK accepted : \E complete \in BOOLEAN :
               descriptor' = Written(accepted) /\ ChunkDone(p, complete)
        <4> DEFINE series == ToSet(Head(chunks[p]))
                   accepted == {s \in series : Accepts(s)}
        <4>1. (accepted = series) \in BOOLEAN
          OBVIOUS
        <4>2. descriptor' = Written(accepted) /\ ChunkDone(p, accepted = series)
          BY <2>3 DEF PushAnswered
        <4>3. QED
          BY <4>1, <4>2
      <3>2. LoopsOK' /\ lost' \in Nat
        BY <2>1, <3>1, ChunkDoneType
      <3>3. DescriptorsOK'
        BY <1>0, <3>1, WrittenType
      <3>4. UNCHANGED faults
        BY <2>3 DEF PushAnswered
      <3>5. QED
        BY <1>0, <2>2, <3>2, <3>3, <3>4 DEF PartsOK, NumbersOK
    <2>4. CASE PushFails(p)
      <3>1. Fault /\ (ChunkDone(p, FALSE) \/ EndPeriod(p, FALSE)) /\ UNCHANGED descriptor
        BY <2>4 DEF PushFails
      <3>2. LoopsOK' /\ lost' \in Nat
        BY <2>1, <2>2, <3>1, ChunkDoneType, EndPeriodType
      <3>3. faults' \in 0..MaxFaults
        BY <1>0, <3>1, FaultType
      <3>4. QED
        BY <1>0, <2>2, <3>1, <3>2, <3>3, SameDescriptorsType DEF PartsOK, NumbersOK
    <2>5. CASE /\ ~retrying[p]
               /\ retrying' = [retrying EXCEPT ![p] = TRUE]
               /\ UNCHANGED <<descriptor, pc, chunks, whole, lost, faults>>
      <3>1. LoopsOK'
        BY <1>0, <2>1, <2>5 DEF LoopsOK
      <3>2. QED
        BY <1>0, <2>2, <2>5, <3>1, SameDescriptorsType DEF PartsOK, NumbersOK
    <2>6. QED
      BY <1>6, <2>3, <2>4, <2>5 DEF Push
  <1>7. ASSUME UNCHANGED vars PROVE PartsOK'
    BY <1>0, <1>7
       DEF vars, PartsOK, DescriptorsOK, QueuesOK, LoopsOK, NumbersOK
  <1>8. QED
    BY <1>1, <1>2, <1>3, <1>4, <1>5, <1>6, <1>7 DEF Next, LoopStep

-----------------------------------------------------------------------------
(* Losses are paid for with faults.                                        *)

\* Cloud Monitoring takes the series of the type.
Ready(t) == descriptor[t] = NoDescriptor \/ LogLabels[t] \subseteq descriptor[t].labels

\* The period of a process will not be written completely: it lacks something
\* already, or a descriptor is not ready and the process will not repair it.
Doomed(p) ==
    \/ ~whole[p]
    \/ /\ pc[p] \in {"describing", "pushing"}
       /\ \E t \in Types : ~Ready(t) /\ \A op \in ops[p] : MetricMap[op[1]] # t
DoomedProcesses == {p \in Processes : Doomed(p)}

\* Each fault costs at most one period, of which it is known from then on.
LossesPaid == lost + Cardinality(DoomedProcesses) <= faults

\* The inductive invariant behind LossesNeedFaults.
SfmInv == TypeOK /\ LossesPaid

\* What counting the doomed processes comes to: fewer of them cost nothing, and
\* a fault may doom one of them, or end the period of one.
LEMMA DoomedFinite ==
    IsFiniteSet(DoomedProcesses) /\ Cardinality(DoomedProcesses) \in Nat
  <1>1. DoomedProcesses \subseteq Processes
    BY DEF DoomedProcesses
  <1>2. IsFiniteSet(DoomedProcesses)
    BY <1>1, FS_Subset, SelfMonitoringAssumption
  <1>3. QED
    BY <1>2, FS_CardinalityType

LEMMA FewerDoomed ==
    ASSUME SfmInv, lost' = lost, faults' \in Nat, faults' >= faults,
           DoomedProcesses' \subseteq DoomedProcesses
    PROVE  LossesPaid'
  <1>1. /\ Cardinality(DoomedProcesses') \in Nat
        /\ Cardinality(DoomedProcesses') <= Cardinality(DoomedProcesses)
    BY DoomedFinite, FS_Subset, FS_CardinalityType
  <1>2. lost \in Nat /\ faults \in Nat /\ Cardinality(DoomedProcesses) \in Nat
    BY DoomedFinite DEF SfmInv, TypeOK
  <1>3. Cardinality(DoomedProcesses)' = Cardinality(DoomedProcesses')
    OBVIOUS
  <1>4. QED
    BY <1>1, <1>2, <1>3 DEF SfmInv, LossesPaid

LEMMA OneMoreDoomed ==
    ASSUME SfmInv, lost' = lost, faults' = faults + 1, NEW p,
           DoomedProcesses' \subseteq DoomedProcesses \union {p}
    PROVE  LossesPaid'
  <1>1. /\ IsFiniteSet(DoomedProcesses \union {p})
        /\ Cardinality(DoomedProcesses \union {p}) <= Cardinality(DoomedProcesses) + 1
    BY DoomedFinite, FS_AddElement
  <1>2. /\ Cardinality(DoomedProcesses') \in Nat
        /\ Cardinality(DoomedProcesses') <= Cardinality(DoomedProcesses \union {p})
        /\ Cardinality(DoomedProcesses \union {p}) \in Nat
    BY <1>1, FS_Subset, FS_CardinalityType
  <1>3. lost \in Nat /\ faults \in Nat /\ Cardinality(DoomedProcesses) \in Nat
    BY DoomedFinite DEF SfmInv, TypeOK
  <1>4. QED
    BY <1>1, <1>2, <1>3 DEF SfmInv, LossesPaid

LEMMA DoomedLost ==
    ASSUME SfmInv, lost' = lost + 1, faults' = faults, NEW p \in DoomedProcesses,
           DoomedProcesses' \subseteq DoomedProcesses \ {p}
    PROVE  LossesPaid'
  <1>1. /\ IsFiniteSet(DoomedProcesses \ {p})
        /\ Cardinality(DoomedProcesses \ {p}) = Cardinality(DoomedProcesses) - 1
    BY DoomedFinite, FS_RemoveElement
  <1>2. /\ Cardinality(DoomedProcesses') \in Nat
        /\ Cardinality(DoomedProcesses') <= Cardinality(DoomedProcesses \ {p})
    BY <1>1, FS_Subset, FS_CardinalityType
  <1>3. lost \in Nat /\ faults \in Nat /\ Cardinality(DoomedProcesses) \in Nat
    BY DoomedFinite DEF SfmInv, TypeOK
  <1>4. QED
    BY <1>1, <1>2, <1>3 DEF SfmInv, LossesPaid

LEMMA FaultLost ==
    ASSUME SfmInv, lost' = lost + 1, faults' = faults + 1,
           DoomedProcesses' \subseteq DoomedProcesses
    PROVE  LossesPaid'
  <1>1. /\ Cardinality(DoomedProcesses') \in Nat
        /\ Cardinality(DoomedProcesses') <= Cardinality(DoomedProcesses)
    BY DoomedFinite, FS_Subset, FS_CardinalityType
  <1>2. lost \in Nat /\ faults \in Nat /\ Cardinality(DoomedProcesses) \in Nat
    BY DoomedFinite DEF SfmInv, TypeOK
  <1>3. QED
    BY <1>1, <1>2 DEF SfmInv, LossesPaid

\* One process does something while no descriptor gets worse.
ReadyStays == \A t \in Types : Ready(t) => Ready(t)'
OnlyMoves(p) ==
    \A q \in Processes \ {p} :
        whole'[q] = whole[q] /\ pc'[q] = pc[q] /\ ops'[q] = ops[q]

LEMMA OthersNoWorse ==
    ASSUME NEW p \in Processes, ReadyStays, OnlyMoves(p)
    PROVE  /\ DoomedProcesses' \subseteq DoomedProcesses \union {p}
           /\ (Doomed(p)' => Doomed(p)) => DoomedProcesses' \subseteq DoomedProcesses
           /\ ~Doomed(p)' => DoomedProcesses' \subseteq DoomedProcesses \ {p}
  <1>1. ASSUME NEW q \in Processes \ {p}, Doomed(q)' PROVE Doomed(q)
    <2>1. whole'[q] = whole[q] /\ pc'[q] = pc[q] /\ ops'[q] = ops[q]
      BY DEF OnlyMoves
    <2>2. CASE ~whole'[q]
      BY <2>1, <2>2 DEF Doomed
    <2>3. CASE whole'[q]
      <3>1. PICK t \in Types : ~Ready(t)' /\ \A op \in ops'[q] : MetricMap[op[1]] # t
        BY <1>1, <2>3 DEF Doomed
      <3>2. ~Ready(t) /\ \A op \in ops[q] : MetricMap[op[1]] # t
        BY <2>1, <3>1 DEF ReadyStays
      <3>3. pc[q] \in {"describing", "pushing"}
        BY <1>1, <2>1, <2>3 DEF Doomed
      <3>4. QED
        BY <3>2, <3>3 DEF Doomed
    <2>4. QED
      BY <2>2, <2>3
  <1>2. DoomedProcesses' = {q \in Processes : Doomed(q)'}
    BY DEF DoomedProcesses
  <1>3. QED
    BY <1>1, <1>2 DEF DoomedProcesses

\* A request that succeeds makes the descriptor ready.
LEMMA EffectReady ==
    ASSUME DescriptorsOK, NEW type \in Types, NEW kind,
           descriptor' = [descriptor EXCEPT ![type] = After(kind, type, @)]
    PROVE  Ready(type)' /\ ReadyStays
  <1>1. /\ descriptor'[type] = After(kind, type, descriptor[type])
        /\ \A t \in Types \ {type} : descriptor'[t] = descriptor[t]
    BY DEF DescriptorsOK
  <1>2. Ready(type)'
    <2>1. CASE kind = "delete"
      BY <1>1, <2>1 DEF After, Ready
    <2>2. CASE kind # "delete"
      <3>1. After(kind, type, descriptor[type]).labels
              = LogLabels[type] \union descriptor[type].labels
        BY <2>2 DEF After, Wanted
      <3>2. QED
        BY <1>1, <3>1 DEF Ready
    <2>3. QED
      BY <2>1, <2>2
  <1>3. ReadyStays
    BY <1>1, <1>2 DEF ReadyStays, Ready
  <1>4. QED
    BY <1>2, <1>3

\* So do series that are written for a metric without a descriptor.
LEMMA WrittenReady ==
    ASSUME DescriptorsOK, NEW series, descriptor' = Written(series)
    PROVE  ReadyStays
  <1> SUFFICES ASSUME NEW t \in Types, Ready(t) PROVE Ready(t)'
    BY DEF ReadyStays
  <1>1. \/ descriptor'[t] = descriptor[t]
        \/ descriptor'[t] = [labels |-> LogLabels[t], name |-> "none"]
    BY DEF Written
  <1>2. QED
    BY <1>1 DEF Ready

LEMMA SameReady ==
    ASSUME UNCHANGED descriptor
    PROVE  ReadyStays
  BY DEF ReadyStays, Ready

\* What is refused shows that the process is doomed.
LEMMA RefusedDoomed ==
    ASSUME TypeOK, NEW p \in Processes, pc[p] = "pushing",
           NEW s \in ToSet(Head(chunks[p])), ~Accepts(s)
    PROVE  Doomed(p)
  <1>1. LoopsOK
    BY TypeParts DEF PartsOK
  <1>2. chunks[p] \in Seq(Seq(AllSeries)) /\ chunks[p] # <<>> /\ ops[p] = {}
    BY <1>1 DEF LoopsOK
  <1>3. Head(chunks[p]) \in Seq(AllSeries)
    BY <1>2
  <1>4. s \in AllSeries
    BY <1>3 DEF ToSet
  <1>5. s.type \in Types /\ DOMAIN s.labels = LogLabels[s.type]
    BY <1>4, LogSeriesLabelled DEF AllSeries
  <1>6. ~Ready(s.type)
    BY <1>5 DEF Accepts, Ready
  <1>7. QED
    BY <1>2, <1>5, <1>6 DEF Doomed

\* The period ends: whatever it lacked is counted as lost.
LEMMA EndPeriodMoves ==
    ASSUME LoopsOK, NEW p \in Processes, NEW complete, EndPeriod(p, complete), UNCHANGED ops
    PROVE  /\ OnlyMoves(p) /\ ~Doomed(p)'
           /\ complete => lost' = lost + 0
           /\ ~complete => lost' = lost + 1
  <1>1. OnlyMoves(p)
    BY DEF EndPeriod, LoopsOK, OnlyMoves
  <1>2. ~Doomed(p)'
    <2>1. whole'[p] = TRUE /\ pc'[p] = "asleep"
      BY DEF EndPeriod, LoopsOK
    <2>2. QED
      BY <2>1 DEF Doomed
  <1>3. QED
    BY <1>1, <1>2 DEF EndPeriod

\* The descriptors that are listed lead to requests for all that is not ready.
LEMMA RepairsWhatIsNotReady ==
    ASSUME NEW t \in Types, ~Ready(t)
    PROVE  \E op \in Repairs(descriptor) : MetricMap[op[1]] = t
  <1>1. PICK n \in DOMAIN MetricMap : MetricMap[n] = t
    BY DEF Types, ToSet
  <1>2. "delete" \in Repair(descriptor[t], t)
    BY DEF Ready, Repair, Mismatch
  <1>3. <<n, "delete">> \in Repairs(descriptor)
    BY <1>1, <1>2 DEF Repairs, Requests
  <1>4. QED
    BY <1>1, <1>3

LEMMA DescribingMoves ==
    ASSUME LoopsOK, NEW p \in Processes, NEW left, Describing(p, left), UNCHANGED whole
    PROVE  /\ OnlyMoves(p)
           /\ ops'[p] = left /\ whole'[p] = whole[p]
           /\ pc'[p] \in {"describing", "pushing"}
  BY DEF LoopsOK, Describing, OnlyMoves

LEMMA ChunkDoneMoves ==
    ASSUME TypeOK, NEW p \in Processes, NEW complete \in BOOLEAN,
           ChunkDone(p, complete), pc[p] = "pushing", UNCHANGED ops, ReadyStays
    PROVE  /\ OnlyMoves(p)
           /\ \/ ~Doomed(p)' /\ lost' = lost /\ (whole[p] /\ complete)
              \/ ~Doomed(p)' /\ lost' = lost + 1 /\ ~(whole[p] /\ complete)
              \/ (Doomed(p)' => Doomed(p) \/ ~complete) /\ lost' = lost
  <1>0. LoopsOK /\ lost \in Nat
    BY TypeParts DEF PartsOK, NumbersOK
  <1>1. CASE Len(chunks[p]) = 1
    <2>1. EndPeriod(p, whole[p] /\ complete)
      BY <1>1 DEF ChunkDone
    <2>2. /\ OnlyMoves(p) /\ ~Doomed(p)'
          /\ (whole[p] /\ complete) => lost' = lost + 0
          /\ ~(whole[p] /\ complete) => lost' = lost + 1
      BY <1>0, <2>1, EndPeriodMoves
    <2>3. QED
      BY <1>0, <2>2
  <1>2. CASE Len(chunks[p]) # 1
    <2>1. /\ whole' = [whole EXCEPT ![p] = whole[p] /\ complete]
          /\ UNCHANGED <<pc, lost, ops>>
      BY <1>2 DEF ChunkDone
    <2>2. OnlyMoves(p)
      BY <1>0, <2>1 DEF OnlyMoves, LoopsOK
    <2>3. whole'[p] = (whole[p] /\ complete)
      BY <1>0, <2>1 DEF LoopsOK
    <2>4. ASSUME Doomed(p)', complete PROVE Doomed(p)
      BY <2>1, <2>3, <2>4 DEF Doomed, ReadyStays
    <2>5. QED
      BY <2>1, <2>2, <2>4
  <1>3. QED
    BY <1>1, <1>2

LEMMA SfmInit == Init => SfmInv
  <1> SUFFICES ASSUME Init PROVE SfmInv
    OBVIOUS
  <1>1. DoomedProcesses = {}
    BY DEF Init, DoomedProcesses, Doomed
  <1>2. LossesPaid
    BY <1>1, FS_EmptySet DEF Init, LossesPaid
  <1>3. QED
    BY <1>2, SfmInitTypeOK DEF SfmInv

\* No step of any process makes the descriptor of a metric unready, although the
\* processes delete and create each other's.
LEMMA SfmStepReady == TypeOK /\ [Next]_vars => ReadyStays
  <1> SUFFICES ASSUME TypeOK, [Next]_vars PROVE ReadyStays
    OBVIOUS
  <1>0. DescriptorsOK /\ LoopsOK
    BY TypeParts DEF PartsOK
  <1>1. ASSUME NEW p \in Processes, Put(p) \/ Wake(p) \/ Context(p) \/ List(p) PROVE ReadyStays
    BY <1>1, SameReady DEF Put, Wake, Context, List
  <1>2. ASSUME NEW p \in Processes, Describe(p) PROVE ReadyStays
    <2>1. PICK op \in ops[p] :
             \/ UNCHANGED descriptor
             \/ descriptor' = [descriptor EXCEPT ![MetricMap[op[1]]] =
                                  After(op[2], MetricMap[op[1]], @)]
      BY <1>2 DEF Describe
    <2>2. MetricMap[op[1]] \in Types
      BY <1>0 DEF LoopsOK, Requests, Types, ToSet
    <2>3. QED
      BY <1>0, <2>1, <2>2, EffectReady, SameReady
  <1>3. ASSUME NEW p \in Processes, Push(p) PROVE ReadyStays
    <2>1. UNCHANGED descriptor \/ \E series : descriptor' = Written(series)
      BY <1>3 DEF Push, PushAnswered, PushFails
    <2>2. QED
      BY <1>0, <2>1, WrittenReady, SameReady
  <1>4. ASSUME UNCHANGED vars PROVE ReadyStays
    BY <1>4, SameReady DEF vars
  <1>5. QED
    BY <1>1, <1>2, <1>3, <1>4 DEF Next, LoopStep

LEMMA SfmStep == SfmInv /\ [Next]_vars => SfmInv'
  <1> SUFFICES ASSUME SfmInv, [Next]_vars PROVE LossesPaid'
    BY SfmTypeStep DEF SfmInv
  <1>0. /\ TypeOK /\ DescriptorsOK /\ LoopsOK /\ NumbersOK
        /\ lost \in Nat /\ faults \in Nat /\ faults + 1 \in Nat
    BY TypeParts DEF SfmInv, PartsOK, NumbersOK
  <1>1. ASSUME NEW p \in Processes, Put(p) PROVE LossesPaid'
    <2>1. UNCHANGED <<descriptor, faults, pc, ops, whole, lost>>
      BY <1>1 DEF Put, loop
    <2>2. DoomedProcesses' = DoomedProcesses
      BY <2>1 DEF DoomedProcesses, Doomed, Ready
    <2>3. QED
      BY <1>0, <2>1, <2>2, FewerDoomed
  <1>2. ASSUME NEW p \in Processes, Wake(p) PROVE LossesPaid'
    <2>1. /\ pc' = [pc EXCEPT ![p] = "context"] /\ whole' = [whole EXCEPT ![p] = TRUE]
          /\ UNCHANGED <<descriptor, ops, lost, faults>>
      BY <1>2 DEF Wake
    <2>2. OnlyMoves(p) /\ ~Doomed(p)'
      BY <1>0, <2>1 DEF OnlyMoves, LoopsOK, Doomed
    <2>3. QED
      BY <1>0, <2>1, <2>2, SameReady, OthersNoWorse, FewerDoomed
  <1>3. ASSUME NEW p \in Processes, Context(p) PROVE LossesPaid'
    <2>1. UNCHANGED <<descriptor, ops>>
      BY <1>3 DEF Context
    <2>2. CASE ContextMade(p)
      <3>1. /\ pc' = [pc EXCEPT ![p] = "listing"]
            /\ UNCHANGED <<whole, lost, faults>>
        BY <2>2 DEF ContextMade
      <3>2. OnlyMoves(p) /\ (Doomed(p)' => Doomed(p))
        BY <1>0, <2>1, <3>1 DEF OnlyMoves, LoopsOK, Doomed
      <3>3. QED
        BY <1>0, <2>1, <3>1, <3>2, SameReady, OthersNoWorse, FewerDoomed
    <2>3. CASE Fault /\ EndPeriod(p, FALSE)
      <3>1. OnlyMoves(p) /\ ~Doomed(p)' /\ lost' = lost + 1
        BY <1>0, <2>1, <2>3, EndPeriodMoves
      <3>2. faults' = faults + 1
        BY <1>0, <2>3, FaultType
      <3>3. QED
        BY <2>1, <3>1, <3>2, SameReady, OthersNoWorse, FaultLost
    <2>4. QED
      BY <1>3, <2>2, <2>3 DEF Context
  <1>4. ASSUME NEW p \in Processes, List(p) PROVE LossesPaid'
    <2>1. UNCHANGED <<descriptor, whole, lost>>
      BY <1>4 DEF List
    <2>2. CASE Describing(p, Repairs(descriptor)) /\ UNCHANGED faults
      <3>1. /\ OnlyMoves(p)
            /\ ops'[p] = Repairs(descriptor) /\ whole'[p] = whole[p]
        BY <1>0, <2>1, <2>2, DescribingMoves
      <3>2. ASSUME Doomed(p)' PROVE Doomed(p)
        <4>1. ASSUME NEW t \in Types, ~Ready(t)'
              PROVE  \E op \in ops'[p] : MetricMap[op[1]] = t
          BY <2>1, <3>1, <4>1, RepairsWhatIsNotReady DEF Ready
        <4>2. ~whole'[p]
          BY <3>2, <4>1 DEF Doomed
        <4>3. QED
          BY <3>1, <4>2 DEF Doomed
      <3>3. QED
        BY <1>0, <2>1, <2>2, <3>1, <3>2, SameReady, OthersNoWorse, FewerDoomed
    <2>3. CASE Fault /\ \E left : Describing(p, left)
      <3>1. OnlyMoves(p)
        BY <1>0, <2>1, <2>3, DescribingMoves
      <3>2. faults' = faults + 1
        BY <1>0, <2>3, FaultType
      <3>3. QED
        BY <2>1, <3>1, <3>2, SameReady, OthersNoWorse, OneMoreDoomed
    <2>4. QED
      BY <1>4, <2>2, <2>3 DEF List
  <1>5. ASSUME NEW p \in Processes, Describe(p) PROVE LossesPaid'
    <2>1. UNCHANGED <<whole, lost>> /\ pc[p] = "describing"
      BY <1>5 DEF Describe
    <2>2. PICK op \in ops[p] :
             LET type == MetricMap[op[1]]
                 effect == [descriptor EXCEPT ![type] = After(op[2], type, @)]
                 left == ops[p] \ {op}
             IN  \/ descriptor' = effect /\ Describing(p, left) /\ UNCHANGED faults
                 \/ Fault /\ UNCHANGED descriptor /\ Describing(p, left)
                 \/ Fault /\ descriptor' \in {descriptor, effect} /\ Describing(p, {})
      BY <1>5 DEF Describe
    <2> DEFINE type == MetricMap[op[1]]
               effect == [descriptor EXCEPT ![type] = After(op[2], type, @)]
               left == ops[p] \ {op}
    <2>3. type \in Types
      BY <1>0, <2>2 DEF LoopsOK, Requests, Types, ToSet
    <2>4. descriptor' = effect \/ UNCHANGED descriptor
      BY <2>2
    <2>5. ReadyStays
      BY <1>0, <2>3, <2>4, EffectReady, SameReady
    <2>6. CASE descriptor' = effect /\ Describing(p, left) /\ UNCHANGED faults
      <3>1. OnlyMoves(p) /\ ops'[p] = left /\ whole'[p] = whole[p]
        BY <1>0, <2>1, <2>6, DescribingMoves
      <3>2. Ready(type)'
        BY <1>0, <2>3, <2>6, EffectReady
      <3>3. ASSUME Doomed(p)', whole[p] PROVE Doomed(p)
        <4>1. PICK t \in Types : ~Ready(t)' /\ \A other \in left : MetricMap[other[1]] # t
          BY <3>1, <3>3 DEF Doomed
        <4>2. t # type /\ ~Ready(t)
          BY <2>5, <3>2, <4>1 DEF ReadyStays
        <4>3. \A other \in ops[p] : MetricMap[other[1]] # t
          BY <4>1, <4>2
        <4>4. QED
          BY <2>1, <4>2, <4>3 DEF Doomed
      <3>4. Doomed(p)' => Doomed(p)
        BY <3>3 DEF Doomed
      <3>5. QED
        BY <1>0, <2>1, <2>5, <2>6, <3>1, <3>4, OthersNoWorse, FewerDoomed
    <2>7. CASE Fault /\ \E some : Describing(p, some)
      <3>1. OnlyMoves(p)
        BY <1>0, <2>1, <2>7, DescribingMoves
      <3>2. faults' = faults + 1
        BY <1>0, <2>7, FaultType
      <3>3. QED
        BY <2>1, <2>5, <3>1, <3>2, OthersNoWorse, OneMoreDoomed
    <2>8. QED
      BY <2>2, <2>6, <2>7
  <1>6. ASSUME NEW p \in Processes, Push(p) PROVE LossesPaid'
    <2>1. pc[p] = "pushing" /\ UNCHANGED ops
      BY <1>6 DEF Push
    <2>2. CASE PushAnswered(p)
      <3> DEFINE series == ToSet(Head(chunks[p]))
                 accepted == {s \in series : Accepts(s)}
                 complete == accepted = series
      <3>1. descriptor' = Written(accepted) /\ ChunkDone(p, complete) /\ UNCHANGED faults
        BY <2>2 DEF PushAnswered
      <3>2. ReadyStays
        BY <1>0, <3>1, WrittenReady
      <3>3. ~complete => Doomed(p)
        <4> SUFFICES ASSUME ~complete PROVE Doomed(p)
          OBVIOUS
        <4>1. PICK s \in series : ~Accepts(s)
          OBVIOUS
        <4>2. QED
          BY <1>0, <2>1, <4>1, RefusedDoomed
      <3>4. complete \in BOOLEAN
        OBVIOUS
      <3> HIDE DEF complete
      <3>5. /\ OnlyMoves(p)
            /\ \/ ~Doomed(p)' /\ lost' = lost /\ (whole[p] /\ complete)
               \/ ~Doomed(p)' /\ lost' = lost + 1 /\ ~(whole[p] /\ complete)
               \/ (Doomed(p)' => Doomed(p) \/ ~complete) /\ lost' = lost
        BY <1>0, <2>1, <3>1, <3>2, <3>4, ChunkDoneMoves
      <3>6. CASE lost' = lost /\ (Doomed(p)' => Doomed(p))
        BY <1>0, <3>1, <3>2, <3>5, <3>6, OthersNoWorse, FewerDoomed
      <3>7. CASE ~Doomed(p)' /\ lost' = lost + 1 /\ ~(whole[p] /\ complete)
        <4>1. p \in DoomedProcesses
          BY <3>3, <3>7 DEF DoomedProcesses, Doomed
        <4>2. QED
          BY <3>1, <3>2, <3>5, <3>7, <4>1, OthersNoWorse, DoomedLost
      <3>8. QED
        BY <3>3, <3>5, <3>6, <3>7
    <2>3. CASE PushFails(p)
      <3>1. Fault /\ (ChunkDone(p, FALSE) \/ EndPeriod(p, FALSE)) /\ UNCHANGED descriptor
        BY <2>3 DEF PushFails
      <3>2. ReadyStays /\ faults' = faults + 1
        BY <1>0, <3>1, SameReady, FaultType
      <3>3. OnlyMoves(p) /\ (lost' = lost \/ (~Doomed(p)' /\ lost' = lost + 1))
        BY <1>0, <2>1, <3>1, <3>2, ChunkDoneMoves, EndPeriodMoves
      <3>4. QED
        BY <3>2, <3>3, OthersNoWorse, OneMoreDoomed, FaultLost
    <2>4. CASE /\ ~retrying[p]
               /\ retrying' = [retrying EXCEPT ![p] = TRUE]
               /\ UNCHANGED <<descriptor, pc, chunks, whole, lost, faults>>
      <3>1. DoomedProcesses' = DoomedProcesses
        BY <2>1, <2>4 DEF DoomedProcesses, Doomed, Ready
      <3>2. QED
        BY <1>0, <2>4, <3>1, FewerDoomed
    <2>5. QED
      BY <1>6, <2>2, <2>3, <2>4 DEF Push
  <1>7. ASSUME UNCHANGED vars PROVE LossesPaid'
    <2>1. UNCHANGED <<descriptor, faults, pc, ops, whole, lost>>
      BY <1>7 DEF vars
    <2>2. DoomedProcesses' = DoomedProcesses
      BY <2>1 DEF DoomedProcesses, Doomed, Ready
    <2>3. QED
      BY <1>0, <2>1, <2>2, FewerDoomed
  <1>8. QED
    BY <1>1, <1>2, <1>3, <1>4, <1>5, <1>6, <1>7 DEF Next, LoopStep

LEMMA SfmInvariant == Spec => []SfmInv
  BY SfmInit, SfmStep, PTL DEF Spec

\* However many processes there are, whatever descriptors they find and
\* whichever requests fail, the loops stay in order and each lost period is
\* explained by a fault of its own.
THEOREM EveryLossHasAFault == Spec => []SelfMonitoringInv
  <1>1. SfmInv => SelfMonitoringInv
    <2> SUFFICES ASSUME SfmInv PROVE SelfMonitoringInv
      OBVIOUS
    <2>1. Cardinality(DoomedProcesses) \in Nat /\ lost \in Nat /\ faults \in Nat
      BY DoomedFinite DEF SfmInv, TypeOK
    <2>2. LossesNeedFaults
      BY <2>1 DEF SfmInv, LossesPaid, LossesNeedFaults
    <2>3. QED
      BY <2>2 DEF SfmInv, SelfMonitoringInv
  <1>2. QED
    BY <1>1, SfmInvariant, PTL

\* Whatever the processes delete, create and write, and whatever fails: Cloud
\* Monitoring does not cease to take the series of a metric once it takes them.
THEOREM DescriptorsStayReady == Spec => [][ReadyStays]_vars
  <1>1. TypeOK /\ [Next]_vars => [ReadyStays]_vars
    BY SfmStepReady
  <1>2. Spec => []TypeOK
    <2>1. SfmInv => TypeOK
      BY DEF SfmInv
    <2>2. QED
      BY <2>1, SfmInvariant, PTL
  <1>3. QED
    BY <1>1, <1>2, PTL DEF Spec

-----------------------------------------------------------------------------
(* Induction over the natural numbers, and what a fold computes.           *)

\* A set of natural numbers has a least element: sets 0..n are ordered by
\* inclusion, which is well-founded on the subsets of a finite set.
LEMMA LeastOfSet ==
    ASSUME NEW T \in SUBSET Nat, T # {}
    PROVE  \E m \in T : \A k \in T : m <= k
  <1>1. PICK n \in T : TRUE
    OBVIOUS
  <1> DEFINE D == 0..n
             W == {0..k : k \in T \intersect D}
  <1>2. IsFiniteSet(D)
    BY FS_Interval
  <1>3. FiniteSubsetsOf(D) = SUBSET D
    BY <1>2, FS_FiniteSubsetsOfFinite
  <1>4. IsWellFoundedOn(StrictSubsetOrdering(D), SUBSET D)
    BY <1>3, FS_StrictSubsetOrderingWellFounded
  <1>5. W \subseteq SUBSET D /\ W # {}
    OBVIOUS
  <1>6. \E x \in W : \A y \in W : ~ (<<y, x>> \in StrictSubsetOrdering(D))
    <2> HIDE DEF D, W
    <2>1. QED BY <1>4, <1>5, WFMin
  <1>7. PICK m \in T \intersect D : \A k \in T \intersect D : <<0..k, 0..m>> \notin StrictSubsetOrdering(D)
    BY <1>6
  <1>8. ASSUME NEW k \in T, k < m PROVE FALSE
    <2>1. k \in D /\ k \in Nat /\ m \in Nat
      BY <1>8
    <2>2. 0..k \subseteq 0..m /\ m \in 0..m /\ m \notin 0..k
      BY <2>1, <1>8
    <2>3. <<0..k, 0..m>> \in StrictSubsetOrdering(D)
      BY <2>1, <2>2, <1>5 DEF StrictSubsetOrdering
    <2>4. QED BY <2>3, <2>1, <1>7
  <1>9. QED BY <1>8

\* Induction, over the elements of a set instead of a predicate.
LEMMA InductionOnNat ==
    ASSUME NEW T, 0 \in T, \A n \in Nat : n \in T => n + 1 \in T
    PROVE  \A n \in Nat : n \in T
  <1> SUFFICES ASSUME Nat \ T # {} PROVE FALSE
    OBVIOUS
  <1>1. PICK m \in Nat \ T : \A k \in Nat \ T : m <= k
    BY LeastOfSet
  <1>2. QED
    BY <1>1

\* Induction up to a limit.
LEMMA InductionUpTo ==
    ASSUME NEW T, NEW len \in Nat, 0 \in T, \A k \in 1..len : k - 1 \in T => k \in T
    PROVE  \A k \in 0..len : k \in T
  <1> DEFINE U == {k \in Nat : k <= len => k \in T}
  <1>1. 0 \in U
    OBVIOUS
  <1>2. ASSUME NEW n \in Nat, n \in U PROVE n + 1 \in U
    <2> SUFFICES ASSUME n + 1 <= len PROVE n + 1 \in T
      OBVIOUS
    <2>1. n + 1 \in 1..len /\ (n + 1) - 1 = n /\ n \in T
      BY <1>2
    <2>2. QED
      BY <2>1
  <1>3. \A n \in Nat : n \in U
    <2> HIDE DEF U
    <2>1. QED
      BY <1>1, <1>2, InductionOnNat
  <1>4. QED
    BY <1>3

\* The greatest of the first n numbers, and what is left without it.
LEMMA GreatestFacts ==
    /\ \A n \in Nat : n # 0 => Max(1..n) = n /\ (1..n) \ {n} = 1..(n - 1) /\ 1..n # {}
    /\ 1..0 = {}
  <1>1. ASSUME NEW n \in Nat, n # 0 PROVE Max(1..n) = n
    <2>1. n \in 1..n /\ \A y \in 1..n : n >= y
      BY <1>1
    <2>2. \A x \in 1..n : (\A y \in 1..n : x >= y) => x = n
      BY <1>1
    <2>3. QED
      BY <2>1, <2>2 DEF Max
  <1>2. ASSUME NEW n \in Nat, n # 0 PROVE (1..n) \ {n} = 1..(n - 1) /\ 1..n # {}
    <2>1. n \in 1..n
      BY <1>2
    <2>2. \A x : x \in (1..n) \ {n} <=> x \in 1..(n - 1)
      OBVIOUS
    <2>3. QED
      BY <2>1, <2>2
  <1>3. 1..0 = {}
    OBVIOUS
  <1>4. QED
    BY <1>1, <1>2, <1>3

\* The greatest of some of the first numbers.
LEMMA SubsetMax ==
    ASSUME NEW n \in Nat, NEW s \in SUBSET (1..(n + 1)), s # {}
    PROVE  /\ n + 1 \in s => Max(s) = n + 1
           /\ Max(s) \in s
  <1>1. \E x \in s : \A y \in s : x >= y
    <2> DEFINE T == {k \in Nat : \A r \in SUBSET (1..k) : r # {} => \E x \in r : \A y \in r : x >= y}
    <2>1. 0 \in T
      <3>1. 1..0 = {}
        OBVIOUS
      <3>2. QED BY <3>1
    <2>2. ASSUME NEW k \in Nat, k \in T PROVE k + 1 \in T
      <3>1. ASSUME NEW r \in SUBSET (1..(k + 1)), r # {} PROVE \E x \in r : \A y \in r : x >= y
        <4>1. CASE k + 1 \in r
          BY <4>1
        <4>2. CASE k + 1 \notin r
          <5>1. r \in SUBSET (1..k)
            BY <4>2
          <5>2. QED BY <5>1, <2>2, <3>1
        <4>3. QED BY <4>1, <4>2
      <3>2. QED BY <3>1
    <2>3. \A k \in Nat : k \in T
      <3> HIDE DEF T
      <3>1. QED BY <2>1, <2>2, InductionOnNat
    <2>4. n + 1 \in T
      <3> HIDE DEF T
      <3>1. QED BY <2>3
    <2>5. QED BY <2>4
  <1>2. Max(s) \in s /\ \A y \in s : Max(s) >= y
    BY <1>1 DEF Max
  <1>3. ASSUME n + 1 \in s PROVE Max(s) = n + 1
    <2>1. Max(s) \in 1..(n + 1)
      BY <1>2
    <2>2. Max(s) >= n + 1
      BY <1>2, <1>3
    <2>3. QED BY <2>1, <2>2
  <1>4. QED
    BY <1>2, <1>3

\* The greatest of some numbers is one of them.
LEMMA MaxOfSubset ==
    ASSUME NEW n \in Nat, NEW s \in SUBSET (1..n), s # {}
    PROVE  Max(s) \in s
  BY SubsetMax

\* What is folded by the greatest element is well defined, for any step.
Steps(S, len) == [1..len -> [S -> S]]
FoldsTo(h, S, base, step, len) ==
    /\ h \in [SUBSET (1..len) -> S]
    /\ \A s \in SUBSET (1..len) :
          h[s] = IF s = {} THEN base ELSE step[Max(s)][h[s \ {Max(s)}]]

LEMMA FoldExists ==
    ASSUME NEW S, NEW base \in S, NEW len \in Nat, NEW step \in Steps(S, len)
    PROVE  \E h : FoldsTo(h, S, base, step, len)
  <1> USE DEF Steps
  <1> DEFINE Folds(n, h) == \A s \in SUBSET (1..n) :
                h[s] = IF s = {} THEN base ELSE step[Max(s)][h[s \ {Max(s)}]]
             Folded(n) == \E h \in [SUBSET (1..n) -> S] : Folds(n, h)
             T == {n \in Nat : n <= len => Folded(n)}
  <1>1. 0 \in T
    <2> DEFINE h == [s \in SUBSET (1..0) |-> base]
    <2>1. 1..0 = {}
      OBVIOUS
    <2>2. h \in [SUBSET (1..0) -> S] /\ Folds(0, h)
      BY <2>1
    <2>3. Folded(0)
      BY <2>2
    <2> HIDE DEF Folded
    <2>4. QED BY <2>3
  <1>2. ASSUME NEW n \in Nat, n \in T PROVE n + 1 \in T
    <2> SUFFICES ASSUME n + 1 <= len PROVE Folded(n + 1)
      <3> HIDE DEF Folded
      <3>1. QED OBVIOUS
    <2>0. Folded(n)
      <3> HIDE DEF Folded
      <3>1. QED BY <1>2
    <2>1. PICK g \in [SUBSET (1..n) -> S] : Folds(n, g)
      <3> HIDE DEF Folds
      <3>1. QED BY <2>0
    <2> DEFINE h == [s \in SUBSET (1..(n + 1)) |->
                        IF n + 1 \in s THEN step[n + 1][g[s \ {n + 1}]] ELSE g[s]]
    <2>2. \A s \in SUBSET (1..(n + 1)) : s \ {n + 1} \in SUBSET (1..n) /\ (n + 1 \notin s => s \in SUBSET (1..n))
      OBVIOUS
    <2>3. h \in [SUBSET (1..(n + 1)) -> S]
      BY <2>2
    <2>4. ASSUME NEW s \in SUBSET (1..(n + 1))
          PROVE  h[s] = IF s = {} THEN base ELSE step[Max(s)][h[s \ {Max(s)}]]
      <3>1. CASE s = {}
        <4>1. h[s] = g[s] /\ s \in SUBSET (1..n)
          BY <3>1
        <4>2. QED BY <4>1, <2>1, <3>1
      <3>2. CASE n + 1 \in s
        <4>1. Max(s) = n + 1
          BY <3>2, SubsetMax
        <4>2. h[s \ {n + 1}] = g[s \ {n + 1}]
          BY <2>2
        <4>3. h[s] = step[n + 1][g[s \ {n + 1}]]
          BY <3>2
        <4>4. QED BY <4>1, <4>2, <4>3, <3>2
      <3>3. CASE s # {} /\ n + 1 \notin s
        <4>1. s \in SUBSET (1..n) /\ h[s] = g[s]
          BY <3>3, <2>2
        <4>2. Max(s) \in s
          BY <3>3, SubsetMax
        <4>3. h[s \ {Max(s)}] = g[s \ {Max(s)}]
          <5>1. s \ {Max(s)} \in SUBSET (1..(n+1)) /\ n + 1 \notin s \ {Max(s)}
            BY <3>3
          <5> HIDE DEF Folds
          <5>2. QED BY <5>1
        <4>4. g[s] = step[Max(s)][g[s \ {Max(s)}]]
          BY <2>1, <3>3, <4>1
        <4>5. QED BY <4>1, <4>3, <4>4, <3>3
      <3>4. QED BY <3>1, <3>2, <3>3
    <2>5. Folds(n + 1, h)
      <3> HIDE DEF h
      <3>1. QED BY <2>4
    <2>6. QED BY <2>3, <2>5
  <1>3. len \in T
    <2> HIDE DEF T
    <2>1. QED BY <1>1, <1>2, InductionOnNat
  <1>4. Folded(len)
    <2> HIDE DEF Folded
    <2>1. QED BY <1>3
  <1>5. PICK h \in [SUBSET (1..len) -> S] : Folds(len, h)
    <2> HIDE DEF Folds
    <2>1. QED BY <1>4
  <1>6. QED
    BY <1>5 DEF FoldsTo

-----------------------------------------------------------------------------
(* The inputs of the algorithms.                                           *)

\* An input stays what it was chosen to be.
InputOK ==
    \/ subject = "batches"
    \/ subject \in DOMAIN Inputs /\ input \in Inputs[subject]

LEMMA InputInvariant == AlgorithmsSpec => []InputOK
  <1>1. AlgorithmsInit => InputOK
    BY DEF AlgorithmsInit, InputOK
  <1>2. InputOK /\ [AlgorithmsNext]_<<batchVars, subject, input>> => InputOK'
    BY DEF AlgorithmsNext, InputOK
  <1>3. QED
    BY <1>1, <1>2, PTL DEF AlgorithmsSpec

\* The inputs of each subject.
LEMMA InputOf ==
    /\ DOMAIN Inputs = {"distribution", "series", "pages", "period", "text", "filter",
                        "dimensions", "entity", "entry", "chunks", "throttle", "versions",
                        "cycle", "forwarders"}
    /\ Inputs["distribution"] = DistributionInputs /\ Inputs["series"] = SeriesInputs
    /\ Inputs["pages"] = PageInputs /\ Inputs["period"] = PeriodInputs
    /\ Inputs["text"] = TextInputs /\ Inputs["filter"] = FilterInputs
    /\ Inputs["dimensions"] = DimensionInputs /\ Inputs["entity"] = EntityInputs
    /\ Inputs["entry"] = EntryInputs /\ Inputs["chunks"] = ChunkInputs
    /\ Inputs["throttle"] = ThrottleInputs /\ Inputs["versions"] = VersionInputs
  BY DEF Inputs

\* A short sequence is a sequence.
LEMMA UpToSeq ==
    ASSUME NEW S, NEW n \in Nat, NEW s \in UpTo(S, n)
    PROVE  s \in Seq(S) /\ Len(s) <= n
  <1>1. PICK k \in 0..n : s \in [1..k -> S]
    BY DEF UpTo
  <1>2. QED
    BY <1>1

-----------------------------------------------------------------------------
(* Helpers: throttling, chunks and versions.                               *)

\* The state after each call.
LEMMA ThrottledFold ==
    ASSUME NEW calls \in Nat, NEW limit \in Nat
    PROVE  \E f \in [0..calls -> [count : Nat, printed : Seq({"message", "notice"})]] :
              /\ f[0] = [count |-> 0, printed |-> <<>>]
              /\ \A k \in 1..calls : f[k] = Throttled(f[k - 1], limit)
              /\ FoldLeft(LAMBDA state, call : Throttled(state, limit),
                          [count |-> 0, printed |-> <<>>], [i \in 1..calls |-> i]) = f[calls]
  <1> DEFINE len == calls
             V == [count : Nat, printed : Seq({"message", "notice"})]
             start == [count |-> 0, printed |-> <<>>]
             D == SUBSET DOMAIN [i \in 1..calls |-> i]
             step == [i \in 1..len |-> [a \in V |-> Throttled(a, limit)]]
             Rec(g) == g = [s \in D |->
                               IF s = {} THEN [count |-> 0, printed |-> <<>>]
                               ELSE Throttled(g[s \ {Max(s)}], limit)]
             g == CHOOSE g : Rec(g)
             total == FoldLeft(LAMBDA state, call : Throttled(state, limit),
                          [count |-> 0, printed |-> <<>>], [i \in 1..calls |-> i])
  <1>0. len \in Nat /\ DOMAIN [i \in 1..calls |-> i] = 1..len
    OBVIOUS
  <1>1. total = g[DOMAIN [i \in 1..calls |-> i]]
    BY DEF FoldLeft, MapThenFoldSet
  <1>2. start \in V /\ \A i \in 1..len : \A a \in V : Throttled(a, limit) \in V
    BY <1>0 DEF Throttled
  <1>3. PICK h : FoldsTo(h, V, start, step, len)
    <2>1. step \in Steps(V, len)
      BY <1>2 DEF Steps
    <2> HIDE DEF step, len, start, V
    <2>2. QED
      BY <1>0, <1>2, <2>1, FoldExists
  <1>4. Rec(h)
    <2>1. /\ h \in [D -> V]
          /\ \A s \in D : h[s] = IF s = {} THEN start ELSE step[Max(s)][h[s \ {Max(s)}]]
      BY <1>0, <1>3 DEF FoldsTo
    <2>2. ASSUME NEW s \in D, s # {}
          PROVE  step[Max(s)][h[s \ {Max(s)}]] = Throttled(h[s \ {Max(s)}], limit)
      <3>1. Max(s) \in 1..len
        BY <1>0, <2>2, MaxOfSubset
      <3>2. h[s \ {Max(s)}] \in V
        BY <2>1
      <3> HIDE DEF V
      <3>3. QED
        BY <3>1, <3>2
    <2> HIDE DEF step, D, V
    <2>3. QED
      BY <2>1, <2>2
  <1>5. Rec(g)
    <2> HIDE DEF Rec
    <2>1. QED
      BY <1>4
  <1>6. \A k \in 1..len : g[1..k] = Throttled(g[1..(k - 1)], limit)
    <2> SUFFICES ASSUME NEW k \in 1..len
                 PROVE  g[1..k] = Throttled(g[1..(k - 1)], limit)
      OBVIOUS
    <2>1. k \in Nat /\ k # 0
      BY <1>0
    <2>2. Max(1..k) = k /\ (1..k) \ {k} = 1..(k - 1) /\ 1..k # {}
      BY <2>1, GreatestFacts
    <2>3. 1..k \in D
      BY <1>0
    <2> HIDE DEF D, g
    <2>4. QED
      BY <1>5, <2>2, <2>3
  <1>7. g[1..0] = start
    <2>1. 1..0 \in D /\ 1..0 = {}
      BY <1>0
    <2> HIDE DEF D, g
    <2>2. QED
      BY <1>5, <2>1
  <1> DEFINE f == [k \in 0..len |-> g[1..k]]
             T == {k \in 0..len : f[k] \in V}
  <1> HIDE DEF g, len
  <1>8. f[0] = start /\ (\A k \in 1..len : f[k] = Throttled(f[k - 1], limit))
    BY <1>0, <1>6, <1>7
  <1>9. \A k \in 0..len : f[k] \in V
    <2> HIDE DEF f, V, start
    <2>1. 0 \in T
      BY <1>0, <1>2, <1>8
    <2>2. ASSUME NEW k \in 1..len, k - 1 \in T PROVE k \in T
      <3>1. f[k - 1] \in V /\ k \in 0..len
        BY <1>0, <2>2
      <3>2. Throttled(f[k - 1], limit) \in V
        BY <1>2, <3>1
      <3>3. QED
        BY <1>8, <3>1, <3>2
    <2> HIDE DEF T
    <2>3. \A k \in 0..len : k \in T
      BY <1>0, <2>1, <2>2, InductionUpTo
    <2>4. QED
      BY <2>3 DEF T
  <1>10. f \in [0..len -> V] /\ total = f[len]
    <2> HIDE DEF total
    <2>1. QED
      BY <1>0, <1>1, <1>9
  <1>11. QED
    BY <1>8, <1>10 DEF len


\* What a message that comes any number of times leaves behind: the message, up
\* to the limit, then one notice, then nothing.
THEOREM ThrottlingExact ==
    ASSUME NEW calls \in Nat, NEW limit \in Nat
    PROVE  PrintedAfter(calls, limit)
              = [n \in 1..(IF calls <= limit THEN calls ELSE limit + 1) |->
                    IF n <= limit THEN "message" ELSE "notice"]
  <1> DEFINE State == [count : Nat, printed : Seq({"message", "notice"})]
             shown(k) == IF k <= limit THEN k ELSE limit + 1
             lines(k) == [n \in 1..shown(k) |-> IF n <= limit THEN "message" ELSE "notice"]
  <1>1. PICK f \in [0..calls -> State] :
              /\ f[0] = [count |-> 0, printed |-> <<>>]
              /\ \A k \in 1..calls : f[k] = Throttled(f[k - 1], limit)
              /\ PrintedAfter(calls, limit) = f[calls].printed
    BY ThrottledFold DEF PrintedAfter
  <1> DEFINE T == {k \in 0..calls : f[k].count = shown(k) /\ f[k].printed = lines(k)}
  <1>2. 0 \in T
    BY <1>1
  <1>3. ASSUME NEW k \in 1..calls, k - 1 \in T PROVE k \in T
    <2>1. /\ f[k] = Throttled(f[k - 1], limit) /\ f[k - 1] \in State
          /\ f[k - 1].count = shown(k - 1) /\ f[k - 1].printed = lines(k - 1)
          /\ k \in Nat /\ k - 1 \in Nat /\ k \in 0..calls
      BY <1>1, <1>3
    <2>2. CASE k <= limit
      <3>1. f[k].count = k /\ f[k].printed = Append(lines(k - 1), "message")
        BY <2>1, <2>2 DEF Throttled
      <3>2. Append(lines(k - 1), "message") = lines(k)
        BY <2>1, <2>2
      <3>3. shown(k) = k
        BY <2>1, <2>2
      <3> HIDE DEF lines, shown
      <3>4. QED
        BY <2>1, <3>1, <3>2, <3>3
    <2>3. CASE k = limit + 1
      <3>1. f[k].count = k /\ f[k].printed = Append(lines(k - 1), "notice")
        BY <2>1, <2>3 DEF Throttled
      <3>2. Append(lines(k - 1), "notice") = lines(k)
        BY <2>1, <2>3
      <3>3. shown(k) = k
        BY <2>1, <2>3
      <3> HIDE DEF lines, shown
      <3>4. QED
        BY <2>1, <3>1, <3>2, <3>3
    <2>4. CASE k > limit + 1
      <3>1. f[k] = f[k - 1]
        BY <2>1, <2>4 DEF Throttled
      <3>2. lines(k - 1) = lines(k) /\ shown(k - 1) = shown(k)
        BY <2>1, <2>4
      <3>3. QED
        BY <2>1, <3>1, <3>2
    <2>5. QED
      BY <2>1, <2>2, <2>3, <2>4
  <1>4. calls \in T
    <2> HIDE DEF T
    <2>1. \A k \in 0..calls : k \in T
      BY <1>2, <1>3, InductionUpTo
    <2>2. QED
      BY <2>1
  <1>5. QED
    BY <1>1, <1>4

\* A sequence of sequences is flattened from the left.
LEMMA FlattenFold ==
    ASSUME NEW S, NEW seqs \in Seq(Seq(S))
    PROVE  \E f \in [0..Len(seqs) -> Seq(S)] :
              /\ f[0] = <<>>
              /\ \A k \in 1..Len(seqs) : f[k] = f[k - 1] \o seqs[k]
              /\ FlattenSeq(seqs) = f[Len(seqs)]
  <1> DEFINE len == Len(seqs)
             Q == Seq(S)
             start == <<>>
             step == [i \in 1..len |-> [a \in Q |-> a \o seqs[i]]]
             Rec(g) == g = [i \in 1..len |-> IF i = 1 THEN seqs[i] ELSE g[i - 1] \o seqs[i]]
             g == CHOOSE g : Rec(g)
  <1>0. len \in Nat /\ DOMAIN seqs = 1..len /\ \A i \in 1..len : seqs[i] \in Q
    OBVIOUS
  <1>1. start \in Q /\ \A i \in 1..len : \A a \in Q : a \o seqs[i] \in Q
    BY <1>0
  <1>2. PICK h : FoldsTo(h, Q, start, step, len)
    <2>1. step \in Steps(Q, len)
      BY <1>1 DEF Steps
    <2> HIDE DEF step, len, start, Q
    <2>2. QED
      BY <1>0, <1>1, <2>1, FoldExists
  <1> DEFINE f == [k \in 0..len |-> h[1..k]]
             r == [k \in 1..len |-> h[1..k]]
  <1>3. f \in [0..len -> Q] /\ f[0] = start /\ \A k \in 1..len : f[k] = f[k - 1] \o seqs[k]
    <2>1. /\ h \in [SUBSET (1..len) -> Q]
          /\ \A s \in SUBSET (1..len) : h[s] = IF s = {} THEN start ELSE step[Max(s)][h[s \ {Max(s)}]]
      BY <1>2 DEF FoldsTo
    <2>2. \A k \in 0..len : 1..k \in SUBSET (1..len)
      BY <1>0
    <2>3. 1..0 = {}
      OBVIOUS
    <2>4. ASSUME NEW k \in 1..len PROVE f[k] = f[k - 1] \o seqs[k]
      <3>1. k \in Nat /\ k # 0 /\ k - 1 \in 0..len /\ k \in 0..len
        BY <1>0
      <3>2. Max(1..k) = k /\ (1..k) \ {k} = 1..(k - 1) /\ 1..k # {}
        BY <3>1, GreatestFacts
      <3>3. h[1..k] = step[k][h[1..(k - 1)]]
        <4> HIDE DEF step
        <4>1. QED
          BY <2>1, <2>2, <3>1, <3>2
      <3>4. h[1..(k - 1)] \in Q
        <4> HIDE DEF Q
        <4>1. QED
          BY <2>1, <2>2, <3>1
      <3> HIDE DEF Q
      <3>5. step[k][h[1..(k - 1)]] = h[1..(k - 1)] \o seqs[k]
        BY <3>4
      <3> HIDE DEF step
      <3>6. QED
        BY <3>1, <3>3, <3>5
    <2>5. f \in [0..len -> Q] /\ f[0] = start
      <3>1. \A k \in 0..len : h[1..k] \in Q
        <4> HIDE DEF Q, step
        <4>1. QED
          BY <2>1, <2>2
      <3>2. h[1..0] = start
        <4> HIDE DEF Q, step, start
        <4>1. QED
          BY <1>0, <2>1, <2>2, <2>3
      <3> HIDE DEF Q, step, start
      <3>3. QED
        BY <1>0, <3>1, <3>2
    <2>6. QED
      BY <2>4, <2>5
  <1>4. \A k \in 1..len : f[k] = IF k = 1 THEN seqs[k] ELSE f[k - 1] \o seqs[k]
    <2> SUFFICES ASSUME NEW k \in 1..len, k = 1 PROVE f[k] = seqs[k]
      <3> HIDE DEF f
      <3>1. QED
        BY <1>3
    <2>1. f[1] = <<>> \o seqs[1] /\ seqs[1] \in Seq(S)
      <3>1. f[0] = <<>> /\ 1 \in 1..len
        BY <1>3
      <3> HIDE DEF f
      <3>2. f[1] = f[1 - 1] \o seqs[1]
        BY <1>3, <3>1
      <3>3. QED
        BY <1>0, <3>1, <3>2
    <2> HIDE DEF f
    <2>2. QED
      BY <2>1
  <1>5. Rec(r)
    <2>1. \A k \in 1..len : r[k] = IF k = 1 THEN seqs[k] ELSE r[k - 1] \o seqs[k]
      <3> SUFFICES ASSUME NEW k \in 1..len PROVE r[k] = IF k = 1 THEN seqs[k] ELSE r[k - 1] \o seqs[k]
        OBVIOUS
      <3>1. r[k] = f[k] /\ (k # 1 => r[k - 1] = f[k - 1])
        BY <1>0
      <3> HIDE DEF f, r
      <3>2. QED
        BY <1>4, <3>1
    <2> HIDE DEF len
    <2>2. QED
      BY <2>1
  <1>6. Rec(g)
    <2> HIDE DEF Rec
    <2>1. QED
      BY <1>5
  <1>7. FlattenSeq(seqs) = IF len = 0 THEN seqs ELSE g[len]
    BY DEF FlattenSeq
  <1> DEFINE T == {k \in 0..len : k > 0 => g[k] = f[k]}
  <1> HIDE DEF g, f, len
  <1>8. \A k \in 0..len : k \in T
    <2>1. 0 \in T
      BY <1>0
    <2>2. ASSUME NEW k \in 1..len, k - 1 \in T PROVE k \in T
      <3>1. g[k] = IF k = 1 THEN seqs[k] ELSE g[k - 1] \o seqs[k]
        BY <1>6
      <3>2. f[k] = IF k = 1 THEN seqs[k] ELSE f[k - 1] \o seqs[k]
        BY <1>4
      <3>3. k # 1 => g[k - 1] = f[k - 1]
        BY <1>0, <2>2
      <3>4. g[k] = f[k]
        BY <3>1, <3>2, <3>3
      <3>5. QED
        BY <1>0, <3>4
    <2> HIDE DEF T
    <2>3. QED
      BY <1>0, <2>1, <2>2, InductionUpTo
  <1>9. FlattenSeq(seqs) = f[len]
    <2>1. CASE len = 0
      BY <1>3, <1>7, <2>1 DEF len
    <2>2. CASE len # 0
      <3>1. len \in T /\ len > 0
        BY <1>0, <1>8, <2>2
      <3>2. QED
        BY <1>7, <2>2, <3>1
    <2>3. QED
      BY <2>1, <2>2
  <1>10. QED
    BY <1>3, <1>9 DEF len

\* The chunks of a list, one after the other, are the list.
THEOREM ChunksRejoin ==
    ASSUME NEW S, NEW list \in Seq(S), NEW size \in Nat
    PROVE  FlattenSeq(Chunks(list, size)) = list
  <1> DEFINE len == Len(list)
             step == IF size < 1 THEN 1 ELSE size
             parts == Chunks(list, size)
             number == Len(parts)
             upTo(k) == IF k * step < len THEN k * step ELSE len
  <1>1. step \in Nat /\ step >= 1 /\ len \in Nat
    OBVIOUS
  <1>2. parts \in Seq(Seq(S)) /\ number = (len + step - 1) \div step
        /\ \A k \in 1..number : parts[k] = SubSeq(list, (k - 1) * step + 1, upTo(k))
    <2>0. parts = [k \in 1..((len + step - 1) \div step) |-> SubSeq(list, (k - 1) * step + 1, upTo(k))]
      BY DEF Chunks
    <2> HIDE DEF step
    <2>1. (len + step - 1) \div step \in Nat
      <3>1. step \in Nat \ {0}
        BY <1>1
      <3>2. QED
        BY <1>1, <3>1, NumberOfChunks
    <2>2. ASSUME NEW k \in 1..((len + step - 1) \div step)
          PROVE  SubSeq(list, (k - 1) * step + 1, upTo(k)) \in Seq(S)
      <3>1. (k - 1) * step \in Nat /\ k * step \in Nat
        BY <1>1, <2>1
      <3>2. upTo(k) \in 0..len
        BY <1>1, <3>1
      <3>3. QED
        BY <3>1, <3>2
    <2> DEFINE m == (len + step - 1) \div step
               part(k) == SubSeq(list, (k - 1) * step + 1, upTo(k))
    <2>3. parts = [k \in 1..m |-> part(k)] /\ m \in Nat /\ \A k \in 1..m : part(k) \in Seq(S)
      BY <2>0, <2>1, <2>2
    <2> HIDE DEF m, part, parts
    <2>4. /\ parts \in Seq(Seq(S)) /\ Len(parts) = m
          /\ \A k \in 1..m : parts[k] = part(k)
      BY <2>3
    <2>5. QED
      BY <2>4 DEF m, part
  <1>3. len <= number * step /\ number \in Nat
    <2> HIDE DEF step, parts
    <2>1. step \in Nat \ {0}
      BY <1>1
    <2>2. QED
      BY <1>1, <1>2, <2>1, NumberOfChunks
  <1>4. PICK f \in [0..number -> Seq(S)] :
              /\ f[0] = <<>>
              /\ \A k \in 1..number : f[k] = f[k - 1] \o parts[k]
              /\ FlattenSeq(parts) = f[number]
    <2> HIDE DEF parts
    <2>1. QED
      BY <1>2, FlattenFold
  <1> DEFINE T == {k \in 0..number : f[k] = SubSeq(list, 1, upTo(k))}
  <1> HIDE DEF parts, number, step
  <1>5. 0 \in T
    BY <1>1, <1>3, <1>4
  <1>6. ASSUME NEW k \in 1..number, k - 1 \in T PROVE k \in T
    <2> DEFINE a == (k - 1) * step
    <2>1. k \in Nat /\ k - 1 \in Nat /\ k \in 0..number /\ k - 1 \in 0..number
      BY <1>3
    <2>2. a \in Nat /\ k * step = a + step
      BY <1>1, <2>1
    <2>3. f[k - 1] = SubSeq(list, 1, upTo(k - 1))
      BY <1>6
    <2>4. f[k] = f[k - 1] \o SubSeq(list, a + 1, upTo(k))
      BY <1>2, <1>4
    <2> HIDE DEF a
    <2>5. upTo(k - 1) = IF a < len THEN a ELSE len
      BY DEF a
    <2>6. upTo(k) = IF a + step < len THEN a + step ELSE len
      BY <2>2
    <2> HIDE DEF upTo, len
    <2>7. f[k] = SubSeq(list, 1, upTo(k))
      <3>1. CASE a < len
        <4>1. upTo(k - 1) = a /\ upTo(k) \in Nat /\ a <= upTo(k) /\ upTo(k) <= len
          BY <1>1, <2>2, <2>5, <2>6, <3>1
        <4>2. SubSeq(list, 1, a) \o SubSeq(list, a + 1, upTo(k)) = SubSeq(list, 1, upTo(k))
          BY <2>2, <4>1, SMTT(60) DEF len
        <4>3. QED
          BY <2>3, <2>4, <4>1, <4>2
      <3>2. CASE a >= len
        <4>1. upTo(k - 1) = len /\ upTo(k) = len
          BY <1>1, <2>2, <2>5, <2>6, <3>2
        <4>2. SubSeq(list, a + 1, len) = <<>> /\ SubSeq(list, 1, len) \in Seq(S)
          BY <2>2, <3>2 DEF len
        <4>3. SubSeq(list, 1, len) \o SubSeq(list, a + 1, len) = SubSeq(list, 1, len)
          <5> DEFINE all == SubSeq(list, 1, len)
          <5>1. \A q \in Seq(S) : q \o <<>> = q
            OBVIOUS
          <5> HIDE DEF all
          <5>2. QED
            BY <4>2, <5>1 DEF all
        <4>4. QED
          BY <2>3, <2>4, <4>1, <4>3
      <3>3. QED
        BY <1>1, <2>2, <3>1, <3>2
    <2>8. QED
      BY <2>1, <2>7
  <1>7. number \in T
    <2> HIDE DEF T
    <2>1. \A k \in 0..number : k \in T
      BY <1>3, <1>5, <1>6, InductionUpTo
    <2>2. QED
      BY <1>3, <2>1
  <1>8. upTo(number) = len
    <2>1. number * step \in Nat
      BY <1>1, <1>3
    <2>2. QED
      BY <1>1, <1>3, <2>1
  <1>9. SubSeq(list, 1, len) = list
    OBVIOUS
  <1>10. f[number] = list
    BY <1>7, <1>8, <1>9
  <1>11. QED
    BY <1>4, <1>10 DEF parts

\* A version without its dots, part by part.
LEMMA AsNumberFold ==
    ASSUME NEW version \in Seq(Nat)
    PROVE  \E f \in [0..Len(version) -> Nat] :
              /\ f[0] = 0
              /\ \A k \in 1..Len(version) : f[k] = f[k - 1] * Digits(version[k]) + version[k]
              /\ AsNumber(version) = f[Len(version)]
  <1> DEFINE len == Len(version)
             V == Nat
             start == 0
             D == SUBSET DOMAIN version
             step == [i \in 1..len |-> [a \in V |-> a * Digits(version[i]) + version[i]]]
             Rec(g) == g = [s \in D |->
                               IF s = {} THEN 0
                               ELSE g[s \ {Max(s)}] * Digits(version[Max(s)]) + version[Max(s)]]
             g == CHOOSE g : Rec(g)
             total == AsNumber(version)
  <1>0. len \in Nat /\ DOMAIN version = 1..len
    OBVIOUS
  <1>1. total = g[DOMAIN version]
    BY DEF AsNumber, FoldLeft, MapThenFoldSet
  <1>2. start \in V /\ \A i \in 1..len : \A a \in V : a * Digits(version[i]) + version[i] \in V
    BY <1>0 DEF Digits
  <1>3. PICK h : FoldsTo(h, V, start, step, len)
    <2>1. step \in Steps(V, len)
      BY <1>2 DEF Steps
    <2> HIDE DEF step, len, start, V
    <2>2. QED
      BY <1>0, <1>2, <2>1, FoldExists
  <1>4. Rec(h)
    <2>1. /\ h \in [D -> V]
          /\ \A s \in D : h[s] = IF s = {} THEN start ELSE step[Max(s)][h[s \ {Max(s)}]]
      BY <1>0, <1>3 DEF FoldsTo
    <2>2. ASSUME NEW s \in D, s # {}
          PROVE  step[Max(s)][h[s \ {Max(s)}]] = h[s \ {Max(s)}] * Digits(version[Max(s)]) + version[Max(s)]
      <3>1. Max(s) \in 1..len
        BY <1>0, <2>2, MaxOfSubset
      <3>2. h[s \ {Max(s)}] \in V
        BY <2>1
      <3> HIDE DEF V
      <3>3. QED
        BY <3>1, <3>2
    <2> HIDE DEF step, D, V
    <2>3. QED
      BY <2>1, <2>2
  <1>5. Rec(g)
    <2> HIDE DEF Rec
    <2>1. QED
      BY <1>4
  <1>6. \A k \in 1..len : g[1..k] = g[1..(k - 1)] * Digits(version[k]) + version[k]
    <2> SUFFICES ASSUME NEW k \in 1..len
                 PROVE  g[1..k] = g[1..(k - 1)] * Digits(version[k]) + version[k]
      OBVIOUS
    <2>1. k \in Nat /\ k # 0
      BY <1>0
    <2>2. Max(1..k) = k /\ (1..k) \ {k} = 1..(k - 1) /\ 1..k # {}
      BY <2>1, GreatestFacts
    <2>3. 1..k \in D
      BY <1>0
    <2> HIDE DEF D, g
    <2>4. QED
      BY <1>5, <2>2, <2>3
  <1>7. g[1..0] = start
    <2>1. 1..0 \in D /\ 1..0 = {}
      BY <1>0
    <2> HIDE DEF D, g
    <2>2. QED
      BY <1>5, <2>1
  <1> DEFINE f == [k \in 0..len |-> g[1..k]]
             T == {k \in 0..len : f[k] \in V}
  <1> HIDE DEF g, len
  <1>8. f[0] = start /\ (\A k \in 1..len : f[k] = f[k - 1] * Digits(version[k]) + version[k])
    BY <1>0, <1>6, <1>7
  <1>9. \A k \in 0..len : f[k] \in V
    <2> HIDE DEF f, V, start
    <2>1. 0 \in T
      BY <1>0, <1>2, <1>8
    <2>2. ASSUME NEW k \in 1..len, k - 1 \in T PROVE k \in T
      <3>1. f[k - 1] \in V /\ k \in 0..len
        BY <1>0, <2>2
      <3>2. f[k - 1] * Digits(version[k]) + version[k] \in V
        BY <1>2, <3>1
      <3>3. QED
        BY <1>8, <3>1, <3>2
    <2> HIDE DEF T
    <2>3. \A k \in 0..len : k \in T
      BY <1>0, <2>1, <2>2, InductionUpTo
    <2>4. QED
      BY <2>3 DEF T
  <1>10. f \in [0..len -> V] /\ total = f[len]
    <2> HIDE DEF total
    <2>1. QED
      BY <1>0, <1>1, <1>9
  <1>11. QED
    BY <1>8, <1>10 DEF len

\* The version that is kept after each one listed.
LEMMA KeptVersionFold ==
    ASSUME NEW S, NEW versions \in Seq(S), versions # <<>>
    PROVE  \E f \in [0..Len(versions) -> S] :
              /\ f[0] = versions[1]
              /\ \A k \in 1..Len(versions) : f[k] =
                      (IF AsNumber(versions[k]) > AsNumber(f[k - 1])
                       THEN versions[k]
                       ELSE f[k - 1])
              /\ KeptVersion(versions) = f[Len(versions)]
  <1> DEFINE len == Len(versions)
             V == S
             start == versions[1]
             D == SUBSET DOMAIN versions
             step == [i \in 1..len |-> [a \in V |-> (IF AsNumber(versions[i]) > AsNumber(a)
                                                     THEN versions[i]
                                                     ELSE a)]]
             Rec(g) == g = [s \in D |->
                               IF s = {} THEN versions[1]
                               ELSE (IF AsNumber(versions[Max(s)]) > AsNumber(g[s \ {Max(s)}])
                                     THEN versions[Max(s)]
                                     ELSE g[s \ {Max(s)}])]
             g == CHOOSE g : Rec(g)
             total == KeptVersion(versions)
  <1>0. len \in Nat /\ DOMAIN versions = 1..len
    OBVIOUS
  <1>1. total = g[DOMAIN versions]
    BY DEF KeptVersion, FoldLeft, MapThenFoldSet
  <1>2. start \in V /\ \A i \in 1..len : \A a \in V : (IF AsNumber(versions[i]) > AsNumber(a)
                                                       THEN versions[i]
                                                       ELSE a) \in V
    BY <1>0
  <1>3. PICK h : FoldsTo(h, V, start, step, len)
    <2>1. step \in Steps(V, len)
      BY <1>2 DEF Steps
    <2> HIDE DEF step, len, start, V
    <2>2. QED
      BY <1>0, <1>2, <2>1, FoldExists
  <1>4. Rec(h)
    <2>1. /\ h \in [D -> V]
          /\ \A s \in D : h[s] = IF s = {} THEN start ELSE step[Max(s)][h[s \ {Max(s)}]]
      BY <1>0, <1>3 DEF FoldsTo
    <2>2. ASSUME NEW s \in D, s # {}
          PROVE  step[Max(s)][h[s \ {Max(s)}]] =
                  (IF AsNumber(versions[Max(s)]) > AsNumber(h[s \ {Max(s)}])
                   THEN versions[Max(s)]
                   ELSE h[s \ {Max(s)}])
      <3>1. Max(s) \in 1..len
        BY <1>0, <2>2, MaxOfSubset
      <3>2. h[s \ {Max(s)}] \in V
        BY <2>1
      <3> HIDE DEF V
      <3>3. QED
        BY <3>1, <3>2
    <2> HIDE DEF step, D, V
    <2>3. QED
      BY <2>1, <2>2
  <1>5. Rec(g)
    <2> HIDE DEF Rec
    <2>1. QED
      BY <1>4
  <1>6. \A k \in 1..len : g[1..k] = (IF AsNumber(versions[k]) > AsNumber(g[1..(k - 1)])
                                     THEN versions[k]
                                     ELSE g[1..(k - 1)])
    <2> SUFFICES ASSUME NEW k \in 1..len
                 PROVE  g[1..k] = (IF AsNumber(versions[k]) > AsNumber(g[1..(k - 1)])
                                   THEN versions[k]
                                   ELSE g[1..(k - 1)])
      OBVIOUS
    <2>1. k \in Nat /\ k # 0
      BY <1>0
    <2>2. Max(1..k) = k /\ (1..k) \ {k} = 1..(k - 1) /\ 1..k # {}
      BY <2>1, GreatestFacts
    <2>3. 1..k \in D
      BY <1>0
    <2> HIDE DEF D, g
    <2>4. QED
      BY <1>5, <2>2, <2>3
  <1>7. g[1..0] = start
    <2>1. 1..0 \in D /\ 1..0 = {}
      BY <1>0
    <2> HIDE DEF D, g
    <2>2. QED
      BY <1>5, <2>1
  <1> DEFINE f == [k \in 0..len |-> g[1..k]]
             T == {k \in 0..len : f[k] \in V}
  <1> HIDE DEF g, len
  <1>8. f[0] = start /\ (\A k \in 1..len : f[k] = (IF AsNumber(versions[k]) > AsNumber(f[k - 1])
                                                   THEN versions[k]
                                                   ELSE f[k - 1]))
    BY <1>0, <1>6, <1>7
  <1>9. \A k \in 0..len : f[k] \in V
    <2> HIDE DEF f, V, start
    <2>1. 0 \in T
      BY <1>0, <1>2, <1>8
    <2>2. ASSUME NEW k \in 1..len, k - 1 \in T PROVE k \in T
      <3>1. f[k - 1] \in V /\ k \in 0..len
        BY <1>0, <2>2
      <3>2. (IF AsNumber(versions[k]) > AsNumber(f[k - 1]) THEN versions[k] ELSE f[k - 1]) \in V
        BY <1>2, <3>1
      <3>3. QED
        BY <1>8, <3>1, <3>2
    <2> HIDE DEF T
    <2>3. \A k \in 0..len : k \in T
      BY <1>0, <2>1, <2>2, InductionUpTo
    <2>4. QED
      BY <2>3 DEF T
  <1>10. f \in [0..len -> V] /\ total = f[len]
    <2> HIDE DEF total
    <2>1. QED
      BY <1>0, <1>1, <1>9
  <1>11. QED
    BY <1>8, <1>10 DEF len


\* The number of a version of two parts.
LEMMA AsNumberOfTwo ==
    ASSUME NEW a \in Nat, NEW b \in Nat
    PROVE  AsNumber(<<a, b>>) = a * Digits(b) + b
  <1> DEFINE version == <<a, b>>
  <1>1. version \in Seq(Nat) /\ Len(version) = 2 /\ version[1] = a /\ version[2] = b
    OBVIOUS
  <1>2. PICK f \in [0..2 -> Nat] :
              /\ f[0] = 0
              /\ \A k \in 1..2 : f[k] = f[k - 1] * Digits(version[k]) + version[k]
              /\ AsNumber(version) = f[2]
    <2> HIDE DEF version
    <2>1. QED
      BY <1>1, AsNumberFold
  <1> HIDE DEF version
  <1>3. Digits(a) \in Nat /\ Digits(b) \in Nat
    BY DEF Digits
  <1>4. f[1] = 0 * Digits(a) + a
    BY <1>1, <1>2
  <1>5. f[1] = a
    BY <1>3, <1>4
  <1>6. f[2] = f[1] * Digits(b) + b
    BY <1>1, <1>2
  <1>7. QED
    BY <1>2, <1>5, <1>6 DEF version

\* The version that is kept is one of those listed, and none of them is greater
\* as a number, wherever they are in the list.
THEOREM KeptVersionGreatest ==
    ASSUME NEW S, NEW versions \in Seq(S), versions # <<>>,
           \A v \in S : AsNumber(v) \in Nat
    PROVE  /\ \E n \in DOMAIN versions : KeptVersion(versions) = versions[n]
           /\ \A n \in DOMAIN versions : AsNumber(versions[n]) <= AsNumber(KeptVersion(versions))
  <1> DEFINE len == Len(versions)
  <1>1. len \in Nat /\ len >= 1 /\ DOMAIN versions = 1..len /\ \A n \in 1..len : versions[n] \in S
    OBVIOUS
  <1>2. PICK f \in [0..len -> S] :
              /\ f[0] = versions[1]
              /\ \A k \in 1..len :
                    f[k] = IF AsNumber(versions[k]) > AsNumber(f[k - 1])
                           THEN versions[k] ELSE f[k - 1]
              /\ KeptVersion(versions) = f[len]
    BY KeptVersionFold
  <1> DEFINE T == {k \in 0..len : /\ \E n \in 1..len : f[k] = versions[n]
                                  /\ \A n \in 1..k : AsNumber(versions[n]) <= AsNumber(f[k])}
  <1> HIDE DEF len
  <1>3. 0 \in T
    BY <1>1, <1>2
  <1>4. ASSUME NEW k \in 1..len, k - 1 \in T PROVE k \in T
    <2>1. k - 1 \in 0..len /\ k \in 0..len /\ k \in Nat
      BY <1>1
    <2>2. /\ f[k - 1] \in S /\ f[k] \in S /\ versions[k] \in S
          /\ AsNumber(f[k - 1]) \in Nat /\ AsNumber(f[k]) \in Nat /\ AsNumber(versions[k]) \in Nat
      BY <1>1, <1>2, <2>1
    <2>3. f[k] = IF AsNumber(versions[k]) > AsNumber(f[k - 1]) THEN versions[k] ELSE f[k - 1]
      BY <1>2
    <2>4. AsNumber(f[k - 1]) <= AsNumber(f[k]) /\ AsNumber(versions[k]) <= AsNumber(f[k])
      BY <2>2, <2>3
    <2>5. \E n \in 1..len : f[k] = versions[n]
      BY <1>4, <2>3
    <2>6. \A n \in 1..k : AsNumber(versions[n]) <= AsNumber(f[k])
      <3> SUFFICES ASSUME NEW n \in 1..k PROVE AsNumber(versions[n]) <= AsNumber(f[k])
        OBVIOUS
      <3>1. CASE n = k
        BY <2>4, <3>1
      <3>2. CASE n # k
        <4>1. n \in 1..(k - 1) /\ n \in 1..len
          BY <1>1, <2>1, <3>2
        <4>2. AsNumber(versions[n]) <= AsNumber(f[k - 1]) /\ AsNumber(versions[n]) \in Nat
          BY <1>1, <1>4, <4>1
        <4>3. QED
          BY <2>2, <2>4, <4>2
      <3>3. QED
        BY <3>1, <3>2
    <2>7. QED
      BY <2>1, <2>5, <2>6
  <1>5. len \in T
    <2> HIDE DEF T
    <2>1. \A k \in 0..len : k \in T
      BY <1>1, <1>3, <1>4, InductionUpTo
    <2>2. QED
      BY <1>1, <2>1
  <1>6. QED
    BY <1>1, <1>2, <1>5

TwoParts == (0..99) \X (0..99)

\* The number of a version of two small parts, with its digits.
LEMMA TwoPartsNumber ==
    ASSUME NEW v \in TwoParts
    PROVE  /\ v[1] \in Nat /\ v[2] \in Nat /\ v[2] <= 99 /\ 2 \in DOMAIN v
           /\ AsNumber(v) = v[1] * Digits(v[2]) + v[2]
           /\ AsNumber(v) \in Nat
  <1> DEFINE a == v[1]
             b == v[2]
  <1>1. a \in Nat /\ b \in Nat /\ b <= 99 /\ v = <<a, b>>
    BY DEF TwoParts
  <1>2. Digits(b) \in Nat
    BY DEF Digits
  <1> HIDE DEF a, b
  <1>3. AsNumber(<<a, b>>) = a * Digits(b) + b
    BY <1>1, AsNumberOfTwo
  <1>4. 2 \in DOMAIN <<a, b>>
    OBVIOUS
  <1>5. a * Digits(b) \in Nat
    BY <1>1, <1>2
  <1>6. AsNumber(v) \in Nat
    BY <1>1, <1>3, <1>5
  <1>7. QED
    BY <1>1, <1>3, <1>4, <1>6 DEF a, b

\* Among versions of one shape the newer one is the greater number.
LEMMA NewerIsGreater ==
    ASSUME NEW v \in TwoParts, NEW w \in TwoParts, SameShape(v, w), NewerThan(v, w)
    PROVE  AsNumber(v) > AsNumber(w)
  <1> DEFINE v1 == v[1]
             v2 == v[2]
             w1 == w[1]
             w2 == w[2]
             d == Digits(v[2])
  <1>1. Digits(v[2]) = Digits(w[2])
    <2>1. 2 \in DOMAIN v /\ 2 \in DOMAIN w
      BY TwoPartsNumber
    <2>2. [i \in DOMAIN v |-> Digits(v[i])][2] = [i \in DOMAIN w |-> Digits(w[i])][2]
      BY DEF SameShape
    <2>3. QED
      BY <2>1, <2>2
  <1>2. /\ v1 \in Nat /\ v2 \in Nat /\ w1 \in Nat /\ w2 \in Nat /\ v2 <= 99 /\ w2 <= 99
        /\ AsNumber(v) = v1 * d + v2 /\ AsNumber(w) = w1 * d + w2
    BY <1>1, TwoPartsNumber
  <1>3. (d = 10 \/ d = 100) /\ v2 < d /\ w2 < d
    <2>1. \A part \in Nat : part <= 99 =>
             part < Digits(part) /\ (Digits(part) = 10 \/ Digits(part) = 100)
      BY DEF Digits
    <2>2. QED
      BY <1>1, <1>2, <2>1
  <1>4. v1 > w1 \/ (v1 = w1 /\ v2 > w2)
    BY DEF NewerThan
  <1> HIDE DEF v1, v2, w1, w2, d
  <1>5. v1 * d + v2 > w1 * d + w2
    BY <1>2, <1>3, <1>4
  <1>6. QED
    BY <1>2, <1>5

\* Among versions of two parts whose parts have as many digits as each other,
\* none that is listed is newer than the one that is kept.
THEOREM NewestKept ==
    ASSUME NEW versions \in Seq(TwoParts), versions # <<>>,
           \A m, n \in DOMAIN versions : SameShape(versions[m], versions[n])
    PROVE  \A n \in DOMAIN versions : ~NewerThan(versions[n], KeptVersion(versions))
  <1>1. \A v \in TwoParts : AsNumber(v) \in Nat
    BY TwoPartsNumber
  <1>2. PICK m \in DOMAIN versions : KeptVersion(versions) = versions[m]
    BY <1>1, KeptVersionGreatest
  <1>3. ASSUME NEW n \in DOMAIN versions, NewerThan(versions[n], versions[m]) PROVE FALSE
    <2> DEFINE v == versions[n]
               w == versions[m]
    <2>1. v \in TwoParts /\ w \in TwoParts /\ SameShape(v, w)
      OBVIOUS
    <2>2. AsNumber(v) <= AsNumber(w)
      <3>1. \A k \in DOMAIN versions : AsNumber(versions[k]) <= AsNumber(KeptVersion(versions))
        BY <1>1, KeptVersionGreatest
      <3>2. QED
        BY <1>2, <3>1
    <2>3. NewerThan(v, w)
      BY <1>3
    <2> HIDE DEF v, w
    <2>4. AsNumber(v) > AsNumber(w) /\ AsNumber(v) \in Nat /\ AsNumber(w) \in Nat
      BY <1>1, <2>1, <2>3, NewerIsGreater
    <2>5. QED
      BY <2>2, <2>4
  <1>4. QED
    BY <1>2, <1>3

-----------------------------------------------------------------------------
(* The text of a dimension value.                                          *)

\* The characters that are escaped are four different ones.
LEMMA CharactersDiffer ==
    /\ Quote # Backslash /\ Quote # Newline /\ Backslash # Newline
    /\ Blank # Quote /\ Blank # Newline /\ Blank # Backslash
  BY DEF Quote, Backslash, Newline, Blank

\* n is the number of backslashes at the end of a text.
EndsWith(text, n) ==
    /\ n \in 0..Len(text)
    /\ \A i \in (Len(text) - n + 1)..Len(text) : text[i] = Backslash
    /\ n < Len(text) => text[Len(text) - n] # Backslash

\* A text ends with one number of backslashes.
LEMMA EndsWithUnique ==
    ASSUME NEW S, NEW text \in Seq(S), NEW m, NEW n, EndsWith(text, m), EndsWith(text, n)
    PROVE  m = n
  <1> DEFINE len == Len(text)
  <1>1. len \in Nat
    OBVIOUS
  <1>2. ASSUME NEW a, NEW b, EndsWith(text, a), EndsWith(text, b), a < b PROVE FALSE
    <2>1. a \in 0..len /\ b \in 0..len
      BY <1>2 DEF EndsWith
    <2>2. len - a \in (len - b + 1)..len /\ a < len
      BY <1>1, <1>2, <2>1
    <2>3. text[len - a] # Backslash
      BY <1>2, <2>2 DEF EndsWith
    <2>4. text[len - a] = Backslash
      BY <1>2, <2>2 DEF EndsWith
    <2>5. QED
      BY <2>3, <2>4
  <1>3. m \in Nat /\ n \in Nat
    BY <1>1 DEF EndsWith
  <1>4. ~(m < n) /\ ~(n < m)
    BY <1>2
  <1>5. QED
    BY <1>3, <1>4

\* Every text ends with some number of backslashes.
LEMMA EndsWithSomething ==
    ASSUME NEW S, NEW text \in Seq(S)
    PROVE  EndsWith(text, TrailingBackslashes(text))
  <1> DEFINE len == Len(text)
             T == {n \in Nat : n = len \/ (n < len /\ text[len - n] # Backslash)}
  <1>1. len \in Nat /\ T \in SUBSET Nat /\ T # {}
    OBVIOUS
  <1>2. PICK n \in T : \A k \in T : n <= k
    <2> HIDE DEF T
    <2>1. QED
      BY <1>1, LeastOfSet
  <1>3. n \in 0..len
    BY <1>1
  <1>4. ASSUME NEW i \in (len - n + 1)..len PROVE text[i] = Backslash
    <2>1. len - i \in Nat /\ len - i < n /\ len - i < len /\ len - (len - i) = i
      BY <1>1, <1>3
    <2>2. len - i \notin T
      <3> HIDE DEF T
      <3>1. n \in Nat
        BY <1>1
      <3>2. QED
        BY <1>2, <2>1, <3>1
    <2>3. QED
      BY <2>1, <2>2
  <1>5. n < len => text[len - n] # Backslash
    OBVIOUS
  <1>6. EndsWith(text, n)
    BY <1>3, <1>4, <1>5 DEF EndsWith
  <1>7. QED
    BY <1>6 DEF EndsWith, TrailingBackslashes

\* One more character: a backslash at the end counts, anything else ends the count.
LEMMA TrailingAfter ==
    ASSUME NEW S, NEW text \in Seq(S), NEW char \in S
    PROVE  /\ TrailingBackslashes(text) \in Nat
           /\ TrailingBackslashes(Append(text, char))
                 = IF char = Backslash THEN TrailingBackslashes(text) + 1 ELSE 0
  <1> DEFINE n == TrailingBackslashes(text)
             more == Append(text, char)
             len == Len(text)
  <1>1. EndsWith(text, n)
    BY EndsWithSomething
  <1>2. more \in Seq(S) /\ Len(more) = len + 1 /\ len \in Nat /\ more[len + 1] = char
        /\ \A i \in 1..len : more[i] = text[i]
    OBVIOUS
  <1>3. EndsWith(more, TrailingBackslashes(more))
    BY <1>2, EndsWithSomething
  <1>4. n \in 0..len /\ n \in Nat
    BY <1>1, <1>2 DEF EndsWith
  <1> HIDE DEF n, more, len
  <1>5. CASE char = Backslash
    <2>1. n + 1 \in 0..(len + 1)
      BY <1>2, <1>4
    <2>2. ASSUME NEW i \in ((len + 1) - (n + 1) + 1)..(len + 1) PROVE more[i] = Backslash
      <3>1. CASE i = len + 1
        BY <1>2, <1>5, <3>1
      <3>2. CASE i # len + 1
        <4>1. i \in (len - n + 1)..len /\ i \in 1..len
          BY <1>2, <1>4, <3>2
        <4>2. QED
          BY <1>1, <1>2, <4>1 DEF EndsWith, len
      <3>3. QED
        BY <3>1, <3>2
    <2>3. ASSUME n + 1 < len + 1 PROVE more[(len + 1) - (n + 1)] # Backslash
      <3>1. n < len /\ (len + 1) - (n + 1) = len - n /\ len - n \in 1..len
        BY <1>2, <1>4, <2>3
      <3>2. QED
        BY <1>1, <1>2, <3>1 DEF EndsWith, len
    <2>4. EndsWith(more, n + 1)
      BY <1>2, <2>1, <2>2, <2>3 DEF EndsWith
    <2>5. TrailingBackslashes(more) = n + 1
      BY <1>2, <1>3, <2>4, EndsWithUnique
    <2>6. QED
      BY <1>4, <1>5, <2>5 DEF n, more
  <1>6. CASE char # Backslash
    <2>1. EndsWith(more, 0)
      BY <1>2, <1>6 DEF EndsWith
    <2>2. TrailingBackslashes(more) = 0
      BY <1>2, <1>3, <2>1, EndsWithUnique
    <2>3. QED
      BY <1>4, <1>6, <2>2 DEF n, more
  <1>7. QED
    BY <1>5, <1>6

\* No text, no backslash.
LEMMA TrailingOfNothing == TrailingBackslashes(<<>>) = 0
  <1>1. <<>> \in Seq({}) /\ Len(<<>>) = 0
    OBVIOUS
  <1>2. EndsWith(<<>>, TrailingBackslashes(<<>>))
    BY <1>1, EndsWithSomething
  <1>3. QED
    BY <1>1, <1>2 DEF EndsWith

\* What is well quoted apart from its end.
Quotes(text) ==
    /\ \A i \in DOMAIN text : text[i] = Quote => EscapedAt(text, i)
    /\ \A i \in DOMAIN text : text[i] # Newline

\* Whether a quote is escaped depends on what stands before it.
LEMMA QuotesOfPrefix ==
    ASSUME NEW S, NEW text \in Seq(S), NEW n \in 0..Len(text), Quotes(text)
    PROVE  Quotes(SubSeq(text, 1, n))
  <1> DEFINE cut == SubSeq(text, 1, n)
  <1>1. /\ cut \in Seq(S) /\ Len(cut) = n /\ DOMAIN cut = 1..n /\ DOMAIN text = 1..Len(text)
        /\ n \in Nat /\ Len(text) \in Nat /\ 1..n \subseteq 1..Len(text)
        /\ \A i \in 1..n : cut[i] = text[i]
    OBVIOUS
  <1>2. ASSUME NEW i \in 1..n PROVE SubSeq(cut, 1, i - 1) = SubSeq(text, 1, i - 1)
    OBVIOUS
  <1> HIDE DEF cut
  <1>3. \A i \in 1..n : EscapedAt(cut, i) <=> EscapedAt(text, i)
    BY <1>2 DEF EscapedAt
  <1>4. QED
    BY <1>1, <1>3 DEF Quotes, cut

\* One more character keeps a text well quoted, unless it is a quote that is
\* not escaped or a newline.
LEMMA QuotesAfter ==
    ASSUME NEW S, NEW text \in Seq(S), NEW char \in S, Quotes(text), char # Newline,
           char = Quote => TrailingBackslashes(text) % 2 = 1
    PROVE  Quotes(Append(text, char))
  <1> DEFINE more == Append(text, char)
             len == Len(text)
  <1>1. more \in Seq(S) /\ DOMAIN more = 1..(len + 1) /\ DOMAIN text = 1..len /\ len \in Nat
        /\ more[len + 1] = char /\ \A i \in 1..len : more[i] = text[i]
    OBVIOUS
  <1>2. ASSUME NEW i \in 1..len PROVE SubSeq(more, 1, i - 1) = SubSeq(text, 1, i - 1)
    OBVIOUS
  <1>3. SubSeq(more, 1, (len + 1) - 1) = text
    OBVIOUS
  <1> HIDE DEF more, len
  <1>4. \A i \in 1..len : EscapedAt(more, i) <=> EscapedAt(text, i)
    BY <1>2 DEF EscapedAt
  <1>5. char = Quote => EscapedAt(more, len + 1)
    BY <1>3 DEF EscapedAt
  <1>6. ASSUME NEW i \in 1..(len + 1) PROVE i \in 1..len \/ i = len + 1
    BY <1>1
  <1>7. QED
    BY <1>1, <1>4, <1>5, <1>6 DEF Quotes, more

\* The text after each character.
LEMMA SanitizedFold ==
    ASSUME NEW C, Backslash \in C, Blank \in C, NEW value \in Seq(C)
    PROVE  \E f \in [0..Len(value) -> Seq(C)] :
              /\ f[0] = <<>>
              /\ \A k \in 1..Len(value) : f[k] = f[k - 1] \o SanitizedChar(value[k])
              /\ Sanitized(value) = f[Len(value)]
  <1> DEFINE len == Len(value)
             V == Seq(C)
             start == <<>>
             D == SUBSET DOMAIN value
             step == [i \in 1..len |-> [a \in V |-> a \o SanitizedChar(value[i])]]
             Rec(g) == g = [s \in D |->
                               IF s = {} THEN <<>>
                               ELSE g[s \ {Max(s)}] \o SanitizedChar(value[Max(s)])]
             g == CHOOSE g : Rec(g)
             total == Sanitized(value)
  <1>0. len \in Nat /\ DOMAIN value = 1..len
    OBVIOUS
  <1>1. total = g[DOMAIN value]
    BY DEF Sanitized, FoldLeft, MapThenFoldSet
  <1>2. start \in V /\ \A i \in 1..len : \A a \in V : a \o SanitizedChar(value[i]) \in V
    <2>1. \A i \in 1..len : SanitizedChar(value[i]) \in Seq(C)
      BY <1>0 DEF SanitizedChar
    <2>2. QED
      BY <2>1
  <1>3. PICK h : FoldsTo(h, V, start, step, len)
    <2>1. step \in Steps(V, len)
      BY <1>2 DEF Steps
    <2> HIDE DEF step, len, start, V
    <2>2. QED
      BY <1>0, <1>2, <2>1, FoldExists
  <1>4. Rec(h)
    <2>1. /\ h \in [D -> V]
          /\ \A s \in D : h[s] = IF s = {} THEN start ELSE step[Max(s)][h[s \ {Max(s)}]]
      BY <1>0, <1>3 DEF FoldsTo
    <2>2. ASSUME NEW s \in D, s # {}
          PROVE  step[Max(s)][h[s \ {Max(s)}]] = h[s \ {Max(s)}] \o SanitizedChar(value[Max(s)])
      <3>1. Max(s) \in 1..len
        BY <1>0, <2>2, MaxOfSubset
      <3>2. h[s \ {Max(s)}] \in V
        BY <2>1
      <3> HIDE DEF V
      <3>3. QED
        BY <3>1, <3>2
    <2> HIDE DEF step, D, V
    <2>3. QED
      BY <2>1, <2>2
  <1>5. Rec(g)
    <2> HIDE DEF Rec
    <2>1. QED
      BY <1>4
  <1>6. \A k \in 1..len : g[1..k] = g[1..(k - 1)] \o SanitizedChar(value[k])
    <2> SUFFICES ASSUME NEW k \in 1..len
                 PROVE  g[1..k] = g[1..(k - 1)] \o SanitizedChar(value[k])
      OBVIOUS
    <2>1. k \in Nat /\ k # 0
      BY <1>0
    <2>2. Max(1..k) = k /\ (1..k) \ {k} = 1..(k - 1) /\ 1..k # {}
      BY <2>1, GreatestFacts
    <2>3. 1..k \in D
      BY <1>0
    <2> HIDE DEF D, g
    <2>4. QED
      BY <1>5, <2>2, <2>3
  <1>7. g[1..0] = start
    <2>1. 1..0 \in D /\ 1..0 = {}
      BY <1>0
    <2> HIDE DEF D, g
    <2>2. QED
      BY <1>5, <2>1
  <1> DEFINE f == [k \in 0..len |-> g[1..k]]
             T == {k \in 0..len : f[k] \in V}
  <1> HIDE DEF g, len
  <1>8. f[0] = start /\ (\A k \in 1..len : f[k] = f[k - 1] \o SanitizedChar(value[k]))
    BY <1>0, <1>6, <1>7, SMTT(60)
  <1>9. \A k \in 0..len : f[k] \in V
    <2> HIDE DEF f, V, start
    <2>1. 0 \in T
      BY <1>0, <1>2, <1>8
    <2>2. ASSUME NEW k \in 1..len, k - 1 \in T PROVE k \in T
      <3>1. f[k - 1] \in V /\ k \in 0..len
        BY <1>0, <2>2
      <3>2. f[k - 1] \o SanitizedChar(value[k]) \in V
        BY <1>2, <3>1
      <3>3. QED
        BY <1>8, <3>1, <3>2
    <2> HIDE DEF T
    <2>3. \A k \in 0..len : k \in T
      BY <1>0, <2>1, <2>2, InductionUpTo
    <2>4. QED
      BY <2>3 DEF T
  <1>10. f \in [0..len -> V] /\ total = f[len]
    <2> HIDE DEF total
    <2>1. QED
      BY <1>0, <1>1, <1>9
  <1>11. QED
    BY <1>8, <1>10 DEF len


\* Sanitizing a value escapes what has to be, and only that: the number of
\* backslashes at the end is even.
LEMMA SanitizedQuotes ==
    ASSUME NEW C, Backslash \in C, Blank \in C, NEW value \in Seq(C)
    PROVE  /\ Sanitized(value) \in Seq(C)
           /\ Quotes(Sanitized(value))
           /\ TrailingBackslashes(Sanitized(value)) % 2 = 0
  <1> DEFINE len == Len(value)
             Fine(text) == Quotes(text) /\ TrailingBackslashes(text) % 2 = 0
  <1>1. len \in Nat /\ \A k \in 1..len : value[k] \in C
    OBVIOUS
  <1>2. PICK f \in [0..len -> Seq(C)] :
              /\ f[0] = <<>>
              /\ \A k \in 1..len : f[k] = f[k - 1] \o SanitizedChar(value[k])
              /\ Sanitized(value) = f[len]
    BY SanitizedFold
  <1> DEFINE T == {k \in 0..len : Fine(f[k])}
  <1> HIDE DEF len
  <1>3. 0 \in T
    <2>1. Quotes(<<>>) /\ TrailingBackslashes(<<>>) % 2 = 0
      BY TrailingOfNothing DEF Quotes
    <2>2. QED
      BY <1>1, <1>2, <2>1
  <1>4. ASSUME NEW k \in 1..len, k - 1 \in T PROVE k \in T
    <2> DEFINE text == f[k - 1]
               char == value[k]
    <2>0. k \in 0..len /\ k - 1 \in 0..len
      BY <1>1
    <2>1. text \in Seq(C) /\ char \in C /\ f[k] = text \o SanitizedChar(char)
      <3>1. text \in Seq(C)
        BY <1>2, <2>0
      <3>2. f[k] = text \o SanitizedChar(char)
        BY <1>2, Zenon
      <3>3. QED
        BY <1>1, <3>1, <3>2
    <2>2. Quotes(text) /\ TrailingBackslashes(text) % 2 = 0
      BY <1>4
    <2>3. TrailingBackslashes(text) \in Nat
      BY <2>1, TrailingAfter
    <2> HIDE DEF text, char
    <2>4. CASE char \notin {Quote, Backslash}
      <3> DEFINE c == IF char = Newline THEN Blank ELSE char
      <3>1. c \in C /\ c # Newline /\ c # Quote /\ c # Backslash /\ SanitizedChar(char) = <<c>>
        BY <2>1, <2>4, CharactersDiffer DEF SanitizedChar
      <3> HIDE DEF c
      <3>2. f[k] = Append(text, c)
        BY <2>1, <3>1
      <3>3. Quotes(Append(text, c)) /\ TrailingBackslashes(Append(text, c)) = 0
        BY <2>1, <2>2, <3>1, QuotesAfter, TrailingAfter
      <3>4. Fine(f[k])
        <4>1. Quotes(f[k]) /\ TrailingBackslashes(f[k]) = 0
          BY <3>2, <3>3
        <4>2. QED
          BY <4>1
      <3>5. QED
        BY <2>0, <3>4
    <2>5. CASE char \in {Quote, Backslash}
      <3> DEFINE more == Append(text, Backslash)
      <3>1. more \in Seq(C) /\ f[k] = Append(more, char)
        BY <2>1, <2>5 DEF SanitizedChar
      <3>2. Quotes(more) /\ TrailingBackslashes(more) = TrailingBackslashes(text) + 1
        BY <2>1, <2>2, CharactersDiffer, QuotesAfter, TrailingAfter
      <3>3. TrailingBackslashes(more) % 2 = 1 /\ TrailingBackslashes(more) \in Nat
        <4> DEFINE n == TrailingBackslashes(text)
        <4>1. n \in Nat /\ n % 2 = 0 /\ TrailingBackslashes(more) = n + 1
          BY <2>2, <2>3, <3>2
        <4> HIDE DEF n
        <4>2. QED
          BY <4>1
      <3>4. char # Newline
        BY <2>5, CharactersDiffer
      <3> HIDE DEF more
      <3>5. Quotes(Append(more, char))
        BY <2>1, <3>1, <3>2, <3>3, <3>4, QuotesAfter
      <3>6. TrailingBackslashes(Append(more, char))
               = IF char = Backslash THEN TrailingBackslashes(more) + 1 ELSE 0
        BY <2>1, <3>1, TrailingAfter
      <3>7. TrailingBackslashes(Append(more, char)) % 2 = 0
        BY <3>3, <3>6
      <3>8. QED
        BY <2>0, <3>1, <3>5, <3>7
    <2>6. QED
      BY <2>4, <2>5
  <1>5. len \in T
    <2> HIDE DEF T
    <2>1. \A k \in 0..len : k \in T
      BY <1>1, <1>3, <1>4, InductionUpTo
    <2>2. QED
      BY <1>1, <2>1
  <1>6. QED
    BY <1>1, <1>2, <1>5

\* The value of a dimension can be read back, whatever it is and wherever it is
\* cut, and is within both limits.
THEOREM ValueWellQuoted ==
    ASSUME NEW C, Backslash \in C, Blank \in C, NEW value \in Seq(C),
           NEW max \in Nat \ {0}, NEW maxLine \in Nat \ {0}
    PROVE  LET text == ValueText(value, max, maxLine)
           IN  WellQuoted(text) /\ Len(text) <= max /\ Len(text) <= maxLine
  <1> DEFINE limit == IF max < maxLine THEN max ELSE maxLine
             sanitized == Sanitized(value)
             cut == SubSeq(sanitized, 1, limit)
             text == Truncated(sanitized, limit)
             Fine(t) == Quotes(t) /\ TrailingBackslashes(t) % 2 = 0
  <1>1. limit \in Nat /\ limit >= 1 /\ limit <= max /\ limit <= maxLine
    OBVIOUS
  <1>2. sanitized \in Seq(C) /\ Quotes(sanitized) /\ TrailingBackslashes(sanitized) % 2 = 0
    BY SanitizedQuotes
  <1> HIDE DEF limit, sanitized
  <1>3. text \in Seq(C) /\ Fine(text) /\ Len(text) <= limit
    <2>1. CASE Len(sanitized) <= limit
      BY <1>2, <2>1 DEF Truncated
    <2>2. CASE ~(Len(sanitized) <= limit)
      <3>1. cut \in Seq(C) /\ Len(cut) = limit /\ limit \in 0..Len(sanitized)
        BY <1>1, <1>2, <2>2
      <3>2. Quotes(cut)
        BY <1>2, <3>1, QuotesOfPrefix
      <3>3. text = IF TrailingBackslashes(cut) % 2 = 1 THEN SubSeq(cut, 1, limit - 1) ELSE cut
        BY <2>2 DEF Truncated
      <3> HIDE DEF cut, text
      <3> DEFINE shorter == SubSeq(cut, 1, limit - 1)
                 last == cut[limit]
      <3>4. /\ shorter \in Seq(C) /\ last \in C /\ cut = Append(shorter, last)
            /\ Len(shorter) = limit - 1 /\ limit - 1 \in 0..Len(cut)
        BY <1>1, <3>1
      <3>5. Quotes(shorter)
        BY <3>1, <3>2, <3>4, QuotesOfPrefix
      <3> HIDE DEF shorter, last
      <3>6. /\ TrailingBackslashes(shorter) \in Nat
            /\ TrailingBackslashes(cut) = IF last = Backslash THEN TrailingBackslashes(shorter) + 1 ELSE 0
        BY <3>4, TrailingAfter
      <3>7. CASE TrailingBackslashes(cut) % 2 = 1
        <4>1. TrailingBackslashes(shorter) % 2 = 0
          BY <3>6, <3>7
        <4>2. text = shorter
          BY <3>3, <3>7 DEF shorter
        <4>3. QED
          BY <1>1, <3>4, <3>5, <4>1, <4>2
      <3>8. CASE TrailingBackslashes(cut) % 2 # 1
        <4>1. TrailingBackslashes(cut) % 2 = 0
          BY <3>6, <3>8
        <4>2. QED
          BY <3>1, <3>2, <3>3, <3>8, <4>1
      <3>9. QED
        BY <3>7, <3>8
    <2>3. QED
      BY <2>1, <2>2
  <1>4. ValueText(value, max, maxLine)
           = SubSeq(text, 1, IF Len(text) < maxLine THEN Len(text) ELSE maxLine)
    BY DEF ValueText, limit, sanitized
  <1> HIDE DEF text
  <1>5. Len(text) <= maxLine /\ Len(text) <= max /\ Len(text) \in Nat
    BY <1>1, <1>3
  <1>6. SubSeq(text, 1, IF Len(text) < maxLine THEN Len(text) ELSE maxLine) = SubSeq(text, 1, Len(text))
    BY <1>5
  <1>7. SubSeq(text, 1, Len(text)) = text
    BY <1>3
  <1>8. SubSeq(text, 1, (Len(text) + 1) - 1) = text
    BY <1>5, <1>7
  <1>9. WellQuoted(text)
    <2>1. EscapedAt(text, Len(text) + 1) <=> TrailingBackslashes(text) % 2 = 1
      BY <1>8 DEF EscapedAt
    <2>2. ~EscapedAt(text, Len(text) + 1)
      BY <1>3, <2>1
    <2>3. QED
      BY <1>3, <2>2 DEF Quotes, WellQuoted
  <1>10. QED
    BY <1>4, <1>5, <1>6, <1>7, <1>9

\* Lists that are chunked rejoin in order, a message that keeps coming is printed
\* as often as it may, and the newest version is kept: of every input.
THEOREM HelpersCorrect == AlgorithmsSpec => []HelpersTrue
  <1>1. InputOK => ChunksPartition
    <2> SUFFICES ASSUME InputOK, subject = "chunks" PROVE ChunksPartition
      BY DEF ChunksPartition
    <2>1. input \in ChunkInputs
      BY InputOf DEF InputOK
    <2>2. PICK n \in 0..6 : input.list = [i \in 1..n |-> i]
      BY <2>1 DEF ChunkInputs
    <2>3. input.list \in Seq(Nat) /\ input.size \in Nat
      BY <2>1, <2>2 DEF ChunkInputs
    <2> DEFINE parts == Chunks(input.list, input.size)
               step == IF input.size < 1 THEN 1 ELSE input.size
    <2>4. FlattenSeq(parts) = input.list
      BY <2>3, ChunksRejoin
    <2>5. \A k \in DOMAIN parts : Len(parts[k]) \in 1..step
      BY <2>3, ChunksExact
    <2>6. step = IF input.size = 0 THEN 1 ELSE input.size
      BY <2>3
    <2> HIDE DEF parts, step
    <2>7. FlattenSeq(parts) = input.list /\ \A k \in DOMAIN parts :
              Len(parts[k]) \in 1..(IF input.size = 0 THEN 1 ELSE input.size)
      BY <2>4, <2>5, <2>6
    <2>8. QED
      BY <2>7 DEF ChunksPartition, parts
  <1>2. InputOK => ThrottlingSilences
    <2> SUFFICES ASSUME InputOK, subject = "throttle" PROVE ThrottlingSilences
      BY DEF ThrottlingSilences
    <2>1. input.calls \in Nat /\ input.limit \in Nat
      BY InputOf DEF InputOK, ThrottleInputs
    <2>2. QED
      BY <2>1, ThrottlingExact DEF ThrottlingSilences
  <1>3. InputOK => NewestVersionKept
    <2> SUFFICES ASSUME InputOK, subject = "versions",
                        \A m, n \in DOMAIN input : SameShape(input[m], input[n])
                 PROVE  \A n \in DOMAIN input : ~NewerThan(input[n], KeptVersion(input))
      BY DEF NewestVersionKept
    <2> DEFINE V == {<<1, 2>>, <<1, 9>>, <<1, 10>>, <<1, 12>>, <<2, 0>>, <<2, 1>>}
    <2>1. input \in UpTo(V, 3) \ {<<>>}
      BY InputOf DEF InputOK, VersionInputs
    <2>2. V \subseteq TwoParts
      BY DEF TwoParts
    <2> HIDE DEF V
    <2>3. input \in Seq(V)
      BY <2>1, UpToSeq
    <2>4. input \in Seq(TwoParts) /\ input # <<>>
      BY <2>1, <2>2, <2>3
    <2>5. QED
      BY <2>4, NewestKept
  <1>4. InputOK => HelpersTrue
    BY <1>1, <1>2, <1>3 DEF HelpersTrue
  <1>5. QED
    BY <1>4, InputInvariant, PTL

-----------------------------------------------------------------------------
(* The filter-out list.                                                    *)

\* The places of the entries with the longest prefix.
Longest(entries, places) ==
    {i \in places : \A j \in places : Len(entries[j].prefix) <= Len(entries[i].prefix)}

\* When no two entries have the same prefix, the entry that decides is the one
\* of all that match whose prefix is longest, wherever it stands.
LEMMA LongestDecides ==
    ASSUME NEW A, NEW metric \in Seq(A), NEW E, \A e \in E : e.prefix \in Seq(A),
           NEW entries \in Seq(E),
           \A i, j \in DOMAIN entries : entries[i].prefix = entries[j].prefix => entries[i] = entries[j]
    PROVE  ExcludedEntry(metric, entries)
              = {entries[i] : i \in Longest(entries, Matching(metric, entries))}
  <1> DEFINE matching == Matching(metric, entries)
             longest == Longest(entries, matching)
             first == {i \in longest : \A j \in longest : i <= j}
  <1>1. matching \subseteq DOMAIN entries /\ DOMAIN entries \subseteq Nat
    BY DEF Matching
  <1>2. ASSUME NEW i \in matching
        PROVE  entries[i].prefix \in Seq(A) /\ IsPrefix(entries[i].prefix, metric)
    <2>1. entries[i] \in E
      BY <1>1
    <2>2. IsPrefix(entries[i].prefix, metric)
      BY Zenon DEF Matching
    <2>3. QED
      BY <2>1, <2>2
  <1>3. ASSUME NEW i \in longest, NEW j \in longest PROVE entries[i] = entries[j]
    <2>1. Len(entries[i].prefix) = Len(entries[j].prefix) /\ i \in matching /\ j \in matching
      BY <1>2, <1>3 DEF Longest
    <2>2. entries[i].prefix = entries[j].prefix
      <3> DEFINE a == entries[i].prefix
                 b == entries[j].prefix
      <3>1. a \in Seq(A) /\ b \in Seq(A) /\ IsPrefix(a, metric) /\ IsPrefix(b, metric)
        BY <1>2, <2>1
      <3>2. Len(a) = Len(b)
        BY <2>1
      <3> HIDE DEF a, b
      <3>3. SubSeq(a, 1, Len(a)) = SubSeq(metric, 1, Len(a))
            /\ SubSeq(b, 1, Len(b)) = SubSeq(metric, 1, Len(b))
        BY <3>1 DEF IsPrefix
      <3>4. SubSeq(a, 1, Len(a)) = a /\ SubSeq(b, 1, Len(b)) = b
        BY <3>1
      <3>5. a = b
        BY <3>2, <3>3, <3>4
      <3>6. QED
        BY <3>5 DEF a, b
    <2>3. QED
      BY <1>1, <2>1, <2>2
  <1>4. longest # {} => first # {}
    <2> SUFFICES ASSUME longest # {} PROVE first # {}
      OBVIOUS
    <2>1. longest \in SUBSET Nat
      BY <1>1 DEF Longest
    <2> HIDE DEF longest
    <2>2. QED
      BY <2>1, LeastOfSet
  <1>5. {entries[i] : i \in first} = {entries[i] : i \in longest}
    <2> HIDE DEF longest
    <2>1. QED
      BY <1>3, <1>4
  <1>6. ExcludedEntry(metric, entries) = {entries[i] : i \in first}
    BY DEF ExcludedEntry, Longest
  <1>7. QED
    BY <1>5, <1>6

\* A list in another order excludes the same.
THEOREM OrderOfFilterIrrelevant ==
    ASSUME NEW A, NEW metric \in Seq(A), NEW E, \A e \in E : e.prefix \in Seq(A),
           NEW entries \in Seq(E),
           \A i, j \in DOMAIN entries : entries[i].prefix = entries[j].prefix => i = j,
           NEW p \in Bijection(DOMAIN entries, DOMAIN entries)
    PROVE  ExcludedEntry(metric, [n \in DOMAIN entries |-> entries[p[n]]])
              = ExcludedEntry(metric, entries)
  <1> DEFINE N == DOMAIN entries
             others == [n \in N |-> entries[p[n]]]
             mine == Matching(metric, entries)
             theirs == Matching(metric, others)
  <1>1. p \in [N -> N] /\ \A w \in N : \E v \in N : p[v] = w
    BY DEF Bijection, Injection, Surjection
  <1>2. others \in Seq(E) /\ DOMAIN others = N
    <2>1. N = 1..Len(entries) /\ Len(entries) \in Nat /\ entries \in [N -> E]
      OBVIOUS
    <2> HIDE DEF N
    <2>2. others \in [N -> E]
      BY <1>1, <2>1
    <2> HIDE DEF others
    <2>3. QED
      BY <2>1, <2>2
  <1>3. \A i, j \in N : others[i].prefix = others[j].prefix => others[i] = others[j]
    BY <1>1
  <1>4. \A i \in N : i \in theirs <=> p[i] \in mine
    BY <1>1, <1>2 DEF Matching
  <1>5. theirs \subseteq N /\ mine \subseteq N
    BY <1>2 DEF Matching
  <1>6. \A i \in N : others[i] = entries[p[i]]
    OBVIOUS
  <1>7. ExcludedEntry(metric, entries) = {entries[i] : i \in Longest(entries, mine)}
    <2>1. \A i, j \in DOMAIN entries : entries[i].prefix = entries[j].prefix => entries[i] = entries[j]
      OBVIOUS
    <2>2. QED
      BY <2>1, LongestDecides, SMTT(60)
  <1>8. ExcludedEntry(metric, others) = {others[i] : i \in Longest(others, theirs)}
    <2> HIDE DEF others
    <2>1. QED
      BY <1>2, <1>3, LongestDecides, SMTT(60)
  <1>9. {others[i] : i \in Longest(others, theirs)} = {entries[i] : i \in Longest(entries, mine)}
    <2> HIDE DEF others, mine, theirs, N
    <2>1. \A i \in N : i \in Longest(others, theirs) => p[i] \in Longest(entries, mine)
      <3> SUFFICES ASSUME NEW i \in N, i \in Longest(others, theirs),
                          NEW j \in mine
                   PROVE  Len(entries[j].prefix) <= Len(entries[p[i]].prefix)
        BY <1>4 DEF Longest
      <3>1. PICK v \in N : p[v] = j
        BY <1>1, <1>5
      <3>2. v \in theirs
        BY <1>4, <3>1
      <3>3. QED
        BY <1>6, <3>1, <3>2 DEF Longest
    <2>2. \A i \in N : p[i] \in Longest(entries, mine) => i \in Longest(others, theirs)
      BY <1>1, <1>4, <1>5, <1>6 DEF Longest
    <2>3. Longest(others, theirs) \subseteq N /\ Longest(entries, mine) \subseteq N
      BY <1>5 DEF Longest
    <2> DEFINE here == Longest(entries, mine)
               there == Longest(others, theirs)
    <2> HIDE DEF here, there
    <2>4. ASSUME NEW i \in there PROVE others[i] \in {entries[j] : j \in here}
      <3>1. i \in N /\ p[i] \in here /\ others[i] = entries[p[i]]
        BY <1>6, <2>1, <2>3 DEF here, there
      <3>2. QED
        BY <3>1
    <2>5. ASSUME NEW j \in here PROVE entries[j] \in {others[i] : i \in there}
      <3>1. PICK i \in N : p[i] = j
        BY <1>1, <2>3 DEF here
      <3>2. i \in there /\ others[i] = entries[j]
        BY <1>6, <2>2, <3>1 DEF here, there
      <3>3. QED
        BY <3>2
    <2>6. {others[i] : i \in there} = {entries[j] : j \in here}
      BY <2>4, <2>5
    <2>7. QED
      BY <2>6 DEF here, there
  <1>10. QED
    BY <1>7, <1>8, <1>9

-----------------------------------------------------------------------------
(* Series and entities.                                                    *)

\* A label that is not cut is sent, under each of its keys, and nothing else is.
LEMMA SentDimensions ==
    ASSUME NEW declared, NEW cut, NEW labels
    PROVE  /\ \A source \in DOMAIN labels \ CutSources(declared, cut) :
                 \A key \in SentAs(declared, cut, source) :
                     <<source, key, labels[source]>> \in Dimensions(declared, cut, labels)
           /\ \A d \in Dimensions(declared, cut, labels) :
                 \E source \in DOMAIN labels \ CutSources(declared, cut) :
                     \E key \in SentAs(declared, cut, source) : d = <<source, key, labels[source]>>
  BY DEF Dimensions

\* Every label has a key.
LEMMA SentUnderSome ==
    ASSUME NEW declared, NEW cut, NEW source
    PROVE  SentAs(declared, cut, source) # {}
  BY DEF SentAs

\* A label that one of two series has and the other has not, or has with another
\* value, tells their dimensions apart, unless a label is sent under the key of
\* another.
LEMMA LabelTellsApart ==
    ASSUME NEW declared, NEW cut, NEW labels, NEW others,
           \A s, t \in (DOMAIN labels \union DOMAIN others) \ CutSources(declared, cut) :
               SentAs(declared, cut, s) \intersect SentAs(declared, cut, t) # {} => s = t,
           NEW source \in DOMAIN labels \ CutSources(declared, cut),
           source \notin DOMAIN others \/ others[source] # labels[source]
    PROVE  PairsOf(Dimensions(declared, cut, labels)) # PairsOf(Dimensions(declared, cut, others))
  <1> DEFINE Cut == CutSources(declared, cut)
             As(s) == SentAs(declared, cut, s)
  <1>1. PICK key \in As(source) : TRUE
    BY SentUnderSome
  <1>2. <<source, key, labels[source]>> \in Dimensions(declared, cut, labels)
    BY <1>1, SentDimensions
  <1>3. <<key, labels[source]>> \in PairsOf(Dimensions(declared, cut, labels))
    BY <1>2 DEF PairsOf
  <1>4. ASSUME <<key, labels[source]>> \in PairsOf(Dimensions(declared, cut, others))
        PROVE  FALSE
    <2>1. PICK d \in Dimensions(declared, cut, others) : d[2] = key /\ d[3] = labels[source]
      BY <1>4 DEF PairsOf
    <2>2. PICK t \in DOMAIN others \ Cut : \E k \in As(t) : d = <<t, k, others[t]>>
      BY SentDimensions
    <2>3. key \in As(t) /\ others[t] = labels[source]
      BY <2>1, <2>2
    <2>4. key \in As(source) \intersect As(t)
      BY <1>1, <2>2, <2>3
    <2>5. source = t
      BY <2>2, <2>4
    <2>6. QED
      BY <2>2, <2>3, <2>5
  <1>5. QED
    BY <1>3, <1>4

\* Two series that differ in a label that is not cut have different dimensions,
\* whatever was declared, as long as no label is sent under the key of another.
THEOREM SeriesToldApart ==
    ASSUME NEW declared, NEW cut, NEW labels, NEW others,
           \A s, t \in (DOMAIN labels \union DOMAIN others) \ CutSources(declared, cut) :
               SentAs(declared, cut, s) \intersect SentAs(declared, cut, t) # {} => s = t,
           Kept(labels, CutSources(declared, cut)) # Kept(others, CutSources(declared, cut))
    PROVE  PairsOf(Dimensions(declared, cut, labels)) # PairsOf(Dimensions(declared, cut, others))
  <1> DEFINE Cut == CutSources(declared, cut)
  <1>1. ASSUME \A source \in DOMAIN labels \ Cut : source \in DOMAIN others /\ others[source] = labels[source],
               \A source \in DOMAIN others \ Cut : source \in DOMAIN labels /\ others[source] = labels[source]
        PROVE  FALSE
    <2>1. DOMAIN labels \ Cut = DOMAIN others \ Cut
      BY <1>1
    <2>2. Kept(labels, Cut) = Kept(others, Cut)
      BY <1>1, <2>1 DEF Kept
    <2>3. QED
      BY <2>2
  <1>2. CASE \E source \in DOMAIN labels \ Cut :
                 source \notin DOMAIN others \/ others[source] # labels[source]
    BY <1>2, LabelTellsApart
  <1>3. CASE \E source \in DOMAIN others \ Cut :
                 source \notin DOMAIN labels \/ others[source] # labels[source]
    BY <1>3, LabelTellsApart
  <1>4. QED
    BY <1>1, <1>2, <1>3

\* Nothing is sent of a label that is cut, and something of every other one.
THEOREM CutAndNothingElse ==
    ASSUME NEW declared, NEW cut, NEW labels
    PROVE  /\ \A d \in Dimensions(declared, cut, labels) : d[1] \notin CutSources(declared, cut)
           /\ \A source \in DOMAIN labels \ CutSources(declared, cut) :
                 \E d \in Dimensions(declared, cut, labels) : d[1] = source
  <1>1. ASSUME NEW d \in Dimensions(declared, cut, labels)
        PROVE  d[1] \notin CutSources(declared, cut)
    BY SentDimensions
  <1>2. ASSUME NEW source \in DOMAIN labels \ CutSources(declared, cut)
        PROVE  \E d \in Dimensions(declared, cut, labels) : d[1] = source
    <2>1. PICK key \in SentAs(declared, cut, source) : TRUE
      BY SentUnderSome
    <2>2. <<source, key, labels[source]>> \in Dimensions(declared, cut, labels)
      BY <2>1, SentDimensions
    <2>3. <<source, key, labels[source]>>[1] = source
      OBVIOUS
    <2>4. QED
      BY <2>2, <2>3
  <1>3. QED
    BY <1>1, <1>2

\* The keys the labels of the model can be sent under.
OwnKeys(source) ==
    IF source[2] = "zone" THEN {"zone", "az", "place"}
    ELSE IF source[2] = "project_id" THEN {"project_id", "project", "gcp.project.id"}
    ELSE IF source[2] = "kind" THEN {"kind"} ELSE {"team"}

\* The keys that are declared belong to their sources.
LEMMA DeclarationKeys ==
    ASSUME NEW d \in Declarations
    PROVE  \/ d.source[2] = "zone" /\ d.key \in {"az", "place"}
           \/ d.source[2] = "kind" /\ d.key = ""
           \/ d.source[2] = "project_id" /\ d.key = "project"
  <1>1. \/ d = [source |-> <<"resource", "zone">>, key |-> "az"]
        \/ d = [source |-> <<"resource", "zone">>, key |-> "place"]
        \/ d = [source |-> <<"metric", "kind">>, key |-> ""]
        \/ d = [source |-> <<"resource", "project_id">>, key |-> "project"]
    BY Zenon DEF Declarations
  <1>2. CASE d = [source |-> <<"resource", "zone">>, key |-> "az"]
    BY <1>2
  <1>3. CASE d = [source |-> <<"resource", "zone">>, key |-> "place"]
    BY <1>3
  <1>4. CASE d = [source |-> <<"metric", "kind">>, key |-> ""]
    BY <1>4
  <1>5. CASE d = [source |-> <<"resource", "project_id">>, key |-> "project"]
    BY <1>5
  <1>6. QED
    BY <1>1, <1>2, <1>3, <1>4, <1>5

\* A label is sent under keys of its own.
LEMMA SentUnderOwnKeys ==
    ASSUME NEW declared \in SUBSET Declarations, NEW cut, NEW source \in Sources
    PROVE  SentAs(declared, cut, source) \subseteq OwnKeys(source)
  <1>1. ASSUME NEW key \in MappedTo(declared, cut, source)
        PROVE  key \in OwnKeys(source)
    <2>1. PICK d \in declared : d.source = source /\ d.key # "" /\ d.key = key
      BY DEF MappedTo
    <2>2. \/ d.source[2] = "zone" /\ d.key \in {"az", "place"}
          \/ d.source[2] = "kind" /\ d.key = ""
          \/ d.source[2] = "project_id" /\ d.key = "project"
      BY <2>1, DeclarationKeys
    <2>3. QED
      BY <2>1, <2>2 DEF OwnKeys
  <1>2. Alias(source) \subseteq OwnKeys(source)
    BY DEF Alias, OwnKeys
  <1>3. source[2] \in OwnKeys(source)
    BY DEF Sources, OwnKeys
  <1>4. QED
    BY <1>1, <1>2, <1>3 DEF SentAs

\* No two labels share a key.
LEMMA KeysDisjoint ==
    ASSUME NEW s \in Sources, NEW t \in Sources, OwnKeys(s) \intersect OwnKeys(t) # {}
    PROVE  s = t
  BY DEF Sources, OwnKeys

\* The labels of a series stand for the extractor's.
LEMMA LineIdIsEntityId ==
    ASSUME NEW service, NEW dimensions, NEW labels
    PROVE  LineId(service, dimensions, labels)
              = EntityId(service, dimensions, DOMAIN labels, labels)
  BY DEF LineId, EntityId, FoldLeft, MapThenFoldSet

\* The parts of the id after each dimension.
IdParts(f, P, service, dimensions, extracted, response) ==
    /\ f \in [0..Len(dimensions) -> Seq(P)]
    /\ f[0] = <<service>>
    /\ \A k \in 1..Len(dimensions) : f[k] =
            (IF dimensions[k] \in extracted
             THEN Append(f[k - 1], response[dimensions[k]])
             ELSE f[k - 1])
    /\ EntityId(service, dimensions, extracted, response) = f[Len(dimensions)]

LEMMA EntityIdParts ==
    ASSUME NEW P, NEW N, NEW service \in P, NEW dimensions \in Seq(N),
           NEW extracted, NEW response, \A name \in extracted : response[name] \in P
    PROVE  \E f : IdParts(f, P, service, dimensions, extracted, response)
  <1> DEFINE len == Len(dimensions)
             V == Seq(P)
             start == <<service>>
             D == SUBSET DOMAIN dimensions
             step == [i \in 1..len |-> [a \in V |-> (IF dimensions[i] \in extracted
                                                     THEN Append(a, response[dimensions[i]])
                                                     ELSE a)]]
             Rec(g) == g = [s \in D |->
                               IF s = {} THEN <<service>>
                               ELSE (IF dimensions[Max(s)] \in extracted
                                     THEN Append(g[s \ {Max(s)}], response[dimensions[Max(s)]])
                                     ELSE g[s \ {Max(s)}])]
             g == CHOOSE g : Rec(g)
             total == EntityId(service, dimensions, extracted, response)
  <1>0. len \in Nat /\ DOMAIN dimensions = 1..len
    OBVIOUS
  <1>1. total = g[DOMAIN dimensions]
    BY DEF EntityId, FoldLeft, MapThenFoldSet
  <1>2. start \in V /\ \A i \in 1..len : \A a \in V : (IF dimensions[i] \in extracted
                                                       THEN Append(a, response[dimensions[i]])
                                                       ELSE a) \in V
    BY <1>0
  <1>3. PICK h : FoldsTo(h, V, start, step, len)
    <2>1. step \in Steps(V, len)
      BY <1>2 DEF Steps
    <2> HIDE DEF step, len, start, V
    <2>2. QED
      BY <1>0, <1>2, <2>1, FoldExists
  <1>4. Rec(h)
    <2>1. /\ h \in [D -> V]
          /\ \A s \in D : h[s] = IF s = {} THEN start ELSE step[Max(s)][h[s \ {Max(s)}]]
      BY <1>0, <1>3 DEF FoldsTo
    <2>2. ASSUME NEW s \in D, s # {}
          PROVE  step[Max(s)][h[s \ {Max(s)}]] =
                  (IF dimensions[Max(s)] \in extracted
                   THEN Append(h[s \ {Max(s)}], response[dimensions[Max(s)]])
                   ELSE h[s \ {Max(s)}])
      <3>1. Max(s) \in 1..len
        BY <1>0, <2>2, MaxOfSubset
      <3>2. h[s \ {Max(s)}] \in V
        BY <2>1
      <3> HIDE DEF V
      <3>3. QED
        BY <3>1, <3>2
    <2> HIDE DEF step, D, V
    <2>3. QED
      BY <2>1, <2>2
  <1>5. Rec(g)
    <2> HIDE DEF Rec
    <2>1. QED
      BY <1>4
  <1>6. \A k \in 1..len : g[1..k] = (IF dimensions[k] \in extracted
                                     THEN Append(g[1..(k - 1)], response[dimensions[k]])
                                     ELSE g[1..(k - 1)])
    <2> SUFFICES ASSUME NEW k \in 1..len
                 PROVE  g[1..k] = (IF dimensions[k] \in extracted
                                   THEN Append(g[1..(k - 1)], response[dimensions[k]])
                                   ELSE g[1..(k - 1)])
      OBVIOUS
    <2>1. k \in Nat /\ k # 0
      BY <1>0
    <2>2. Max(1..k) = k /\ (1..k) \ {k} = 1..(k - 1) /\ 1..k # {}
      BY <2>1, GreatestFacts
    <2>3. 1..k \in D
      BY <1>0
    <2> HIDE DEF D, g
    <2>4. QED
      BY <1>5, <2>2, <2>3
  <1>7. g[1..0] = start
    <2>1. 1..0 \in D /\ 1..0 = {}
      BY <1>0
    <2> HIDE DEF D, g
    <2>2. QED
      BY <1>5, <2>1
  <1> DEFINE f == [k \in 0..len |-> g[1..k]]
             T == {k \in 0..len : f[k] \in V}
  <1> HIDE DEF g, len
  <1>8. f[0] = start /\ (\A k \in 1..len : f[k] =
      (IF dimensions[k] \in extracted
       THEN Append(f[k - 1], response[dimensions[k]])
       ELSE f[k - 1]))
    BY <1>0, <1>6, <1>7
  <1>9. \A k \in 0..len : f[k] \in V
    <2> HIDE DEF f, V, start
    <2>1. 0 \in T
      BY <1>0, <1>2, <1>8
    <2>2. ASSUME NEW k \in 1..len, k - 1 \in T PROVE k \in T
      <3>1. f[k - 1] \in V /\ k \in 0..len
        BY <1>0, <2>2
      <3>2. (IF dimensions[k] \in extracted
             THEN Append(f[k - 1], response[dimensions[k]])
             ELSE f[k - 1]) \in V
        BY <1>2, <3>1
      <3>3. QED
        BY <1>8, <3>1, <3>2
    <2> HIDE DEF T
    <2>3. \A k \in 0..len : k \in T
      BY <1>0, <2>1, <2>2, InductionUpTo
    <2>4. QED
      BY <2>3 DEF T
  <1>10. f \in [0..len -> V] /\ total = f[len]
    <2> HIDE DEF total
    <2>1. QED
      BY <1>0, <1>1, <1>9
  <1>11. IdParts(f, P, service, dimensions, extracted, response)
    BY <1>8, <1>10 DEF IdParts, len
  <1>12. QED
    BY <1>11

LEMMA EntityIdFold ==
    ASSUME NEW P, NEW N, NEW service \in P, NEW dimensions \in Seq(N),
           NEW extracted, NEW response, \A name \in extracted : response[name] \in P
    PROVE  \E f \in [0..Len(dimensions) -> Seq(P)] :
              /\ f[0] = <<service>>
              /\ \A k \in 1..Len(dimensions) : f[k] =
                      (IF dimensions[k] \in extracted
                       THEN Append(f[k - 1], response[dimensions[k]])
                       ELSE f[k - 1])
              /\ EntityId(service, dimensions, extracted, response) = f[Len(dimensions)]
  <1>1. \E f : IdParts(f, P, service, dimensions, extracted, response)
    BY EntityIdParts
  <1>2. QED
    BY <1>1 DEF IdParts

\* What is known of the parts a line and an entity have collected so far.
Meeting(line, id, k, dimensions, extracted, labels, response) ==
    /\ Len(line) <= Len(id)
    /\ line = id => \A j \in 1..k : dimensions[j] \in extracted =>
                        dimensions[j] \in DOMAIN labels /\ labels[dimensions[j]] = response[dimensions[j]]

\* Two sequences with something appended are equal if they were and it is.
LEMMA AppendedEqual ==
    ASSUME NEW P, NEW s \in Seq(P), NEW t \in Seq(P), NEW a \in P, NEW b \in P,
           Append(s, a) = Append(t, b)
    PROVE  s = t /\ a = b
  <1>1. Len(s) = Len(t)
    OBVIOUS
  <1>2. Append(s, a)[Len(s) + 1] = a /\ Append(t, b)[Len(t) + 1] = b
    OBVIOUS
  <1>3. \A i \in 1..Len(s) : Append(s, a)[i] = s[i] /\ Append(t, b)[i] = t[i]
    BY <1>1
  <1>4. QED
    BY <1>1, <1>2, <1>3

\* A line meets only an entity that has all the parts the line has, and a value
\* of the line for each part it has itself.
THEOREM LineMeetsItsEntity ==
    ASSUME NEW P, NEW N, NEW service \in P, NEW dimensions \in Seq(N),
           NEW extracted, NEW response, \A name \in extracted : response[name] \in P,
           NEW labels, DOMAIN labels \subseteq extracted,
           \A name \in DOMAIN labels : labels[name] \in P,
           LineId(service, dimensions, labels) = EntityId(service, dimensions, extracted, response)
    PROVE  \A name \in ToSet(dimensions) \intersect extracted :
               name \in DOMAIN labels /\ labels[name] = response[name]
  <1> DEFINE len == Len(dimensions)
             L == DOMAIN labels
  <1>0. len \in Nat /\ DOMAIN dimensions = 1..len
    OBVIOUS
  <1>1. PICK line \in [0..len -> Seq(P)] :
              /\ line[0] = <<service>>
              /\ \A k \in 1..len :
                    line[k] = IF dimensions[k] \in L THEN Append(line[k - 1], labels[dimensions[k]])
                              ELSE line[k - 1]
              /\ LineId(service, dimensions, labels) = line[len]
    BY LineIdIsEntityId, EntityIdFold
  <1>2. PICK id \in [0..len -> Seq(P)] :
              /\ id[0] = <<service>>
              /\ \A k \in 1..len :
                    id[k] = IF dimensions[k] \in extracted THEN Append(id[k - 1], response[dimensions[k]])
                            ELSE id[k - 1]
              /\ EntityId(service, dimensions, extracted, response) = id[len]
    BY EntityIdFold
  <1> DEFINE Fine(k) == Meeting(line[k], id[k], k, dimensions, extracted, labels, response)
             T == {k \in 0..len : Fine(k)}
  <1> HIDE DEF len
  <1>3. 0 \in T
    <2>1. line[0] = id[0] /\ line[0] \in Seq(P)
      BY <1>0, <1>1, <1>2
    <2>2. QED
      BY <1>0, <2>1 DEF Meeting
  <1>4. ASSUME NEW k \in 1..len, k - 1 \in T PROVE k \in T
    <2> DEFINE name == dimensions[k]
               line0 == line[k - 1]
               id0 == id[k - 1]
    <2>0. k \in 0..len /\ k - 1 \in 0..len /\ k \in Nat
      BY <1>0
    <2>1. line0 \in Seq(P) /\ id0 \in Seq(P)
      BY <1>1, <1>2, <2>0
    <2>2. Meeting(line0, id0, k - 1, dimensions, extracted, labels, response)
      BY <1>4
    <2>3. line[k] = IF name \in L THEN Append(line0, labels[name]) ELSE line0
      BY <1>1
    <2>4. id[k] = IF name \in extracted THEN Append(id0, response[name]) ELSE id0
      BY <1>2
    <2>5. \A j \in 1..k : j = k \/ j \in 1..(k - 1)
      BY <2>0
    <2> HIDE DEF line0, id0
    <2>6. CASE name \in L
      <3>1. /\ line[k] = Append(line0, labels[name]) /\ labels[name] \in P
            /\ id[k] = Append(id0, response[name]) /\ response[name] \in P
        BY <2>3, <2>4, <2>6
      <3>2. Len(line[k]) <= Len(id[k])
        BY <2>1, <2>2, <3>1 DEF Meeting
      <3>3. ASSUME line[k] = id[k] PROVE line0 = id0 /\ labels[name] = response[name]
        <4> DEFINE a == labels[name]
                   b == response[name]
        <4>1. a \in P /\ b \in P /\ Append(line0, a) = Append(id0, b)
          BY <3>1, <3>3
        <4> HIDE DEF a, b
        <4>2. line0 = id0 /\ a = b
          BY <2>1, <4>1, AppendedEqual
        <4>3. QED
          BY <4>2 DEF a, b
      <3>4. Fine(k)
        BY <2>2, <2>5, <2>6, <3>2, <3>3 DEF Meeting
      <3>5. QED
        BY <2>0, <3>4
    <2>7. CASE name \in extracted /\ name \notin L
      <3>1. line[k] = line0 /\ id[k] = Append(id0, response[name]) /\ response[name] \in P
        BY <2>3, <2>4, <2>7
      <3>2. Len(line[k]) < Len(id[k])
        BY <2>1, <2>2, <3>1 DEF Meeting
      <3>3. Len(line[k]) <= Len(id[k]) /\ line[k] # id[k]
        BY <2>1, <3>1, <3>2
      <3>4. Fine(k)
        BY <3>3 DEF Meeting
      <3>5. QED
        BY <2>0, <3>4
    <2>8. CASE name \notin extracted
      <3>1. line[k] = line0 /\ id[k] = id0
        BY <2>3, <2>4, <2>8
      <3>2. Fine(k)
        BY <2>2, <2>5, <2>8, <3>1 DEF Meeting
      <3>3. QED
        BY <2>0, <3>2
    <2>9. QED
      BY <2>6, <2>7, <2>8
  <1>5. len \in T
    <2> HIDE DEF T
    <2>1. \A k \in 0..len : k \in T
      BY <1>0, <1>3, <1>4, InductionUpTo
    <2>2. QED
      BY <1>0, <2>1
  <1>6. line[len] = id[len]
    BY <1>1, <1>2
  <1>7. \A j \in 1..len : dimensions[j] \in extracted =>
            dimensions[j] \in L /\ labels[dimensions[j]] = response[dimensions[j]]
    BY <1>5, <1>6 DEF Meeting
  <1>8. QED
    BY <1>0, <1>7 DEF ToSet

\* A line that has a label for each part the entity has meets the entity.
THEOREM LineMeetsEntity ==
    ASSUME NEW P, NEW N, NEW service \in P, NEW dimensions \in Seq(N),
           NEW extracted, NEW response, \A name \in extracted : response[name] \in P,
           NEW labels, DOMAIN labels \subseteq extracted,
           ToSet(dimensions) \intersect extracted \subseteq DOMAIN labels,
           \A name \in DOMAIN labels : labels[name] = response[name]
    PROVE  LineId(service, dimensions, labels) = EntityId(service, dimensions, extracted, response)
  <1> DEFINE len == Len(dimensions)
             L == DOMAIN labels
  <1>0. len \in Nat /\ DOMAIN dimensions = 1..len
    OBVIOUS
  <1> SUFFICES ASSUME \A name \in L : labels[name] \in P
               PROVE  LineId(service, dimensions, labels)
                         = EntityId(service, dimensions, extracted, response)
    OBVIOUS
  <1>1. PICK line \in [0..len -> Seq(P)] :
              /\ line[0] = <<service>>
              /\ \A k \in 1..len :
                    line[k] = IF dimensions[k] \in L THEN Append(line[k - 1], labels[dimensions[k]])
                              ELSE line[k - 1]
              /\ LineId(service, dimensions, labels) = line[len]
    BY LineIdIsEntityId, EntityIdFold, SMTT(60)
  <1>2. PICK id \in [0..len -> Seq(P)] :
              /\ id[0] = <<service>>
              /\ \A k \in 1..len :
                    id[k] = IF dimensions[k] \in extracted THEN Append(id[k - 1], response[dimensions[k]])
                            ELSE id[k - 1]
              /\ EntityId(service, dimensions, extracted, response) = id[len]
    BY EntityIdFold
  <1> DEFINE T == {k \in 0..len : line[k] = id[k]}
  <1>3. \A k \in 1..len : dimensions[k] \in extracted <=> dimensions[k] \in L
    BY <1>0 DEF ToSet
  <1> HIDE DEF len
  <1>4. 0 \in T
    <2>1. line[0] = id[0] /\ 0 \in 0..len
      BY <1>0, <1>1, <1>2
    <2>2. QED
      BY <2>1
  <1>5. ASSUME NEW k \in 1..len, k - 1 \in T PROVE k \in T
    <2>1. k \in 0..len /\ line[k - 1] = id[k - 1]
      BY <1>0, <1>5
    <2>2. line[k] = id[k]
      BY <1>1, <1>2, <1>3, <2>1
    <2>3. QED
      BY <2>1, <2>2
  <1>6. line[len] = id[len]
    <2> HIDE DEF T
    <2>1. \A k \in 0..len : k \in T
      BY <1>0, <1>4, <1>5, InductionUpTo
    <2>2. QED
      BY <1>0, <2>1 DEF T
  <1>7. QED
    BY <1>1, <1>2, <1>6

-----------------------------------------------------------------------------
(* The dimensions of every input.                                          *)

LEMMA ValuesRead == InputOK => ValuesWellQuoted
  <1> SUFFICES ASSUME InputOK, subject = "text" PROVE ValuesWellQuoted
    BY DEF ValuesWellQuoted
  <1> DEFINE C == {"x", Backslash, Quote, Newline}
             B == C \union {Blank}
  <1>1. input \in [value : UpTo(C, 4), max : 1..5, maxLine : 3..4]
    BY InputOf DEF InputOK, TextInputs
  <1>2. Backslash \in B /\ Blank \in B /\ C \subseteq B
    OBVIOUS
  <1> HIDE DEF C, B
  <1>3. input.value \in Seq(C) /\ input.max \in Nat \ {0} /\ input.maxLine \in Nat \ {0}
    BY <1>1, UpToSeq
  <1>4. input.value \in Seq(B)
    BY <1>2, <1>3
  <1>5. QED
    BY <1>2, <1>3, <1>4, ValueWellQuoted DEF ValuesWellQuoted

LEMMA FiltersInAnyOrder == InputOK => FilterOrderIrrelevant
  <1> SUFFICES ASSUME InputOK, subject = "filter",
                      NEW p \in Bijection(DOMAIN input.entries, DOMAIN input.entries)
               PROVE  ExcludedEntry(input.metric, [n \in DOMAIN input.entries |-> input.entries[p[n]]])
                         = ExcludedEntry(input.metric, input.entries)
    BY DEF FilterOrderIrrelevant
  <1> DEFINE E == [prefix : Names, dimensions : {{}, {"zone"}}]
             A == {"a", "b", "c"}
  <1>1. /\ input.metric \in Names /\ input.entries \in UpTo(E, 3)
        /\ \A m, n \in DOMAIN input.entries : input.entries[m].prefix = input.entries[n].prefix => m = n
    BY InputOf DEF InputOK, FilterInputs
  <1>2. Names \subseteq Seq(A)
    BY DEF Names
  <1>3. \A e \in E : e.prefix \in Seq(A)
    BY <1>2
  <1> HIDE DEF E, A
  <1>4. input.metric \in Seq(A) /\ input.entries \in Seq(E)
    BY <1>1, <1>2, UpToSeq
  <1> DEFINE entries == input.entries
             metric == input.metric
  <1>5. /\ metric \in Seq(A) /\ entries \in Seq(E) /\ p \in Bijection(DOMAIN entries, DOMAIN entries)
        /\ \A m, n \in DOMAIN entries : entries[m].prefix = entries[n].prefix => m = n
    BY <1>1, <1>4
  <1> HIDE DEF entries, metric
  <1>6. ExcludedEntry(metric, [n \in DOMAIN entries |-> entries[p[n]]]) = ExcludedEntry(metric, entries)
    BY <1>3, <1>5, OrderOfFilterIrrelevant
  <1>7. QED
    BY <1>6 DEF entries, metric

LEMMA SeriesKeptDistinct == InputOK => SeriesStayDistinct
  <1> SUFFICES ASSUME InputOK, subject = "dimensions" PROVE SeriesStayDistinct
    BY DEF SeriesStayDistinct
  <1> DEFINE cut == CutSources(input.declared, input.cut)
             sent == Dimensions(input.declared, input.cut, input.labels)
             other == Dimensions(input.declared, input.cut, input.others)
  <1>1. /\ input.declared \in SUBSET Declarations
        /\ DOMAIN input.labels \subseteq Sources /\ DOMAIN input.others \subseteq Sources
    <2>1. /\ input.declared \in SUBSET Declarations
          /\ input.labels \in Labellings /\ input.others \in Labellings
      BY InputOf DEF InputOK, DimensionInputs
    <2>2. \A l \in Labellings : DOMAIN l \subseteq Sources
      BY DEF Labellings
    <2>3. QED
      BY <2>1, <2>2
  <1>2. ASSUME NEW s \in (DOMAIN input.labels \union DOMAIN input.others) \ cut,
               NEW t \in (DOMAIN input.labels \union DOMAIN input.others) \ cut,
               SentAs(input.declared, input.cut, s) \intersect SentAs(input.declared, input.cut, t) # {}
        PROVE  s = t
    <2>1. s \in Sources /\ t \in Sources
      BY <1>1
    <2>2. OwnKeys(s) \intersect OwnKeys(t) # {}
      BY <1>1, <1>2, <2>1, SentUnderOwnKeys
    <2>3. QED
      BY <2>1, <2>2, KeysDisjoint
  <1>3. Kept(input.labels, cut) # Kept(input.others, cut) => PairsOf(sent) # PairsOf(other)
    BY <1>2, SeriesToldApart
  <1>4. /\ \A d \in sent : d[1] \notin cut
        /\ \A source \in DOMAIN input.labels \ cut : \E d \in sent : d[1] = source
    BY CutAndNothingElse
  <1>5. QED
    BY <1>3, <1>4 DEF SeriesStayDistinct

LEMMA LinesJoined == InputOK => JoinsItsEntity
  <1> SUFFICES ASSUME InputOK, subject = "entity" PROVE JoinsItsEntity
    BY DEF JoinsItsEntity
  <1> DEFINE P == {"gce", "p", "q"}
             N == {"project_id", "zone", "instance_id", "region"}
             labels == IF input.reducer = "none" THEN input.instance
                       ELSE Kept(input.instance, input.cut)
             named == ToSet(input.dimensions) \intersect InstanceLabels
             line == LineId("gce", input.dimensions, labels)
             id(i) == EntityId("gce", input.dimensions, InstanceLabels, i)
  <1>1. /\ input.dimensions \in Orders
        /\ input.instance \in [InstanceLabels -> {"p", "q"}]
        /\ input.other \in [InstanceLabels -> {"p", "q"}]
    BY InputOf DEF InputOK, EntityInputs
  <1>2. Orders \subseteq Seq(N)
    BY DEF Orders
  <1>3. input.dimensions \in Seq(N) /\ "gce" \in P
    BY <1>1, <1>2
  <1>4. /\ DOMAIN labels \subseteq InstanceLabels
        /\ \A name \in DOMAIN labels : labels[name] = input.instance[name] /\ labels[name] \in P
    BY <1>1 DEF Kept
  <1>5. \A name \in InstanceLabels : input.instance[name] \in P /\ input.other[name] \in P
    BY <1>1
  <1> HIDE DEF P, N, labels
  <1>6. ASSUME named \subseteq DOMAIN labels PROVE line = id(input.instance)
    BY <1>3, <1>4, <1>5, <1>6, LineMeetsEntity
  <1>7. ASSUME line = id(input.other) PROVE \A l \in named : input.instance[l] = input.other[l]
    <2>1. \A l \in named : l \in DOMAIN labels /\ labels[l] = input.other[l]
      BY <1>3, <1>4, <1>5, <1>7, LineMeetsItsEntity
    <2>2. QED
      BY <1>4, <2>1
  <1>8. QED
    BY <1>6, <1>7 DEF JoinsItsEntity, labels

\* A list holds the same in the reverse order.
LEMMA ReversedSame ==
    ASSUME NEW S, NEW s \in Seq(S)
    PROVE  ToSet(Reverse(s)) = ToSet(s)
  <1>1. \A i \in 1..Len(s) : (Len(s) - i) + 1 \in 1..Len(s) /\ (Len(s) - ((Len(s) - i) + 1)) + 1 = i
    OBVIOUS
  <1>2. DOMAIN Reverse(s) = 1..Len(s) /\ \A i \in 1..Len(s) : Reverse(s)[i] = s[(Len(s) - i) + 1]
    BY DEF Reverse
  <1>3. \A i \in 1..Len(s) : s[i] = Reverse(s)[(Len(s) - i) + 1]
    BY <1>1, <1>2
  <1> DEFINE r == Reverse(s)
             len == Len(s)
  <1>4. DOMAIN s = 1..len /\ DOMAIN r = 1..len
    BY <1>2
  <1>5. \A i \in 1..len : (\E j \in 1..len : r[i] = s[j]) /\ (\E j \in 1..len : s[i] = r[j])
    BY <1>1, <1>2, <1>3
  <1> HIDE DEF r, len
  <1>6. \A i \in 1..len : r[i] \in ToSet(s) /\ s[i] \in ToSet(r)
    BY <1>4, <1>5 DEF ToSet
  <1>7. (\A x \in ToSet(r) : \E i \in 1..len : x = r[i]) /\ (\A x \in ToSet(s) : \E i \in 1..len : x = s[i])
    BY <1>4 DEF ToSet
  <1> DEFINE after == ToSet(r)
             before == ToSet(s)
  <1> HIDE DEF after, before
  <1>8. after = before
    <2>1. after \subseteq before
      BY <1>6, <1>7 DEF after, before
    <2>2. before \subseteq after
      BY <1>6, <1>7 DEF after, before
    <2>3. QED
      BY <2>1, <2>2
  <1>9. QED
    BY <1>8 DEF r, after, before

LEMMA EntitiesStable == InputOK => EnrichmentStable
  <1> SUFFICES ASSUME InputOK, subject = "entity" PROVE EnrichmentStable
    BY DEF EnrichmentStable
  <1>1. input.ips \in UpTo({1, 2}, 2)
    BY InputOf DEF InputOK, EntityInputs
  <1>2. ToSet(Reverse(input.ips)) = ToSet(input.ips)
    BY <1>1, UpToSeq, ReversedSame
  <1>3. QED
    BY <1>2 DEF EnrichmentStable, Enrichment

\* Whatever the labels, the declarations, the filter-out list and its order: the
\* dimensions of a line can be read, tell its series apart and lead to the
\* entity the line is about.
THEOREM DimensionsCorrect == AlgorithmsSpec => []DimensionsTrue
  <1>1. InputOK => DimensionsTrue
    BY ValuesRead, FiltersInAnyOrder, SeriesKeptDistinct, LinesJoined, EntitiesStable
       DEF DimensionsTrue
  <1>2. QED
    BY <1>1, InputInvariant, PTL

-----------------------------------------------------------------------------
(* The rules of log entries.                                               *)

IsSeq(s) == s \in Seq(ToSet(s))
IsFunction(f) == f \in [DOMAIN f -> ToSet(f)]

\* What the attributes of an entry can become under some rules.
Findable(message, rules, entry) ==
    ToSet(entry) \union
    UNION {{Found(rule.attributes[key], message) : key \in DOMAIN rule.attributes} : rule \in ToSet(rules)}
Makeable(message, rules, entry) ==
    [entry : [DOMAIN entry -> Findable(message, rules, entry)], any : BOOLEAN]
CreatedOf(rules) == {Created(rule) : rule \in ToSet(rules)}

\* The rules that are loaded after each rule.
LEMMA LoadedFold ==
    ASSUME NEW name, NEW rules, IsSeq(rules)
    PROVE  \E f \in [0..Len(rules) -> Seq(CreatedOf(rules))] :
              /\ f[0] = <<>>
              /\ \A k \in 1..Len(rules) : f[k] = (IF Keeps(name, rules[k])
                                                  THEN Append(f[k - 1], Created(rules[k]))
                                                  ELSE f[k - 1])
              /\ Loaded(name, rules) = f[Len(rules)]
  <1> DEFINE len == Len(rules)
             V == Seq(CreatedOf(rules))
             start == <<>>
             D == SUBSET DOMAIN rules
             step == [i \in 1..len |-> [a \in V |-> (IF Keeps(name, rules[i])
                                                     THEN Append(a, Created(rules[i]))
                                                     ELSE a)]]
             Rec(g) == g = [s \in D |->
                               IF s = {} THEN <<>>
                               ELSE (IF Keeps(name, rules[Max(s)])
                                     THEN Append(g[s \ {Max(s)}], Created(rules[Max(s)]))
                                     ELSE g[s \ {Max(s)}])]
             g == CHOOSE g : Rec(g)
             total == Loaded(name, rules)
  <1>0. len \in Nat /\ DOMAIN rules = 1..len
    BY DEF IsSeq
  <1>1. total = g[DOMAIN rules]
    BY DEF Loaded, FoldLeft, MapThenFoldSet
  <1>2. start \in V /\ \A i \in 1..len : \A a \in V : (IF Keeps(name, rules[i])
                                                       THEN Append(a, Created(rules[i]))
                                                       ELSE a) \in V
    <2>1. \A i \in 1..len : Created(rules[i]) \in CreatedOf(rules)
      BY <1>0 DEF CreatedOf, ToSet
    <2>2. QED
      BY <2>1
  <1>3. PICK h : FoldsTo(h, V, start, step, len)
    <2>1. step \in Steps(V, len)
      BY <1>2 DEF Steps
    <2> HIDE DEF step, len, start, V
    <2>2. QED
      BY <1>0, <1>2, <2>1, FoldExists
  <1>4. Rec(h)
    <2>1. /\ h \in [D -> V]
          /\ \A s \in D : h[s] = IF s = {} THEN start ELSE step[Max(s)][h[s \ {Max(s)}]]
      BY <1>0, <1>3 DEF FoldsTo
    <2>2. ASSUME NEW s \in D, s # {}
          PROVE  step[Max(s)][h[s \ {Max(s)}]] =
                  (IF Keeps(name, rules[Max(s)])
                   THEN Append(h[s \ {Max(s)}], Created(rules[Max(s)]))
                   ELSE h[s \ {Max(s)}])
      <3>1. Max(s) \in 1..len
        BY <1>0, <2>2, MaxOfSubset
      <3>2. h[s \ {Max(s)}] \in V
        BY <2>1
      <3> HIDE DEF V
      <3>3. QED
        BY <3>1, <3>2
    <2> HIDE DEF step, D, V
    <2>3. QED
      BY <2>1, <2>2
  <1>5. Rec(g)
    <2> HIDE DEF Rec
    <2>1. QED
      BY <1>4
  <1>6. \A k \in 1..len : g[1..k] = (IF Keeps(name, rules[k])
                                     THEN Append(g[1..(k - 1)], Created(rules[k]))
                                     ELSE g[1..(k - 1)])
    <2> SUFFICES ASSUME NEW k \in 1..len
                 PROVE  g[1..k] = (IF Keeps(name, rules[k])
                                   THEN Append(g[1..(k - 1)], Created(rules[k]))
                                   ELSE g[1..(k - 1)])
      OBVIOUS
    <2>1. k \in Nat /\ k # 0
      BY <1>0
    <2>2. Max(1..k) = k /\ (1..k) \ {k} = 1..(k - 1) /\ 1..k # {}
      BY <2>1, GreatestFacts
    <2>3. 1..k \in D
      BY <1>0
    <2> HIDE DEF D, g
    <2>4. QED
      BY <1>5, <2>2, <2>3
  <1>7. g[1..0] = start
    <2>1. 1..0 \in D /\ 1..0 = {}
      BY <1>0
    <2> HIDE DEF D, g
    <2>2. QED
      BY <1>5, <2>1
  <1> DEFINE f == [k \in 0..len |-> g[1..k]]
             T == {k \in 0..len : f[k] \in V}
  <1> HIDE DEF g, len
  <1>8. f[0] = start /\ (\A k \in 1..len : f[k] = (IF Keeps(name, rules[k])
                                                   THEN Append(f[k - 1], Created(rules[k]))
                                                   ELSE f[k - 1]))
    BY <1>0, <1>6, <1>7
  <1>9. \A k \in 0..len : f[k] \in V
    <2> HIDE DEF f, V, start
    <2>1. 0 \in T
      BY <1>0, <1>2, <1>8
    <2>2. ASSUME NEW k \in 1..len, k - 1 \in T PROVE k \in T
      <3>1. f[k - 1] \in V /\ k \in 0..len
        BY <1>0, <2>2
      <3>2. (IF Keeps(name, rules[k])
             THEN Append(f[k - 1], Created(rules[k]))
             ELSE f[k - 1]) \in V
        BY <1>2, <3>1
      <3>3. QED
        BY <1>8, <3>1, <3>2
    <2> HIDE DEF T
    <2>3. \A k \in 0..len : k \in T
      BY <1>0, <2>1, <2>2, InductionUpTo
    <2>4. QED
      BY <2>3 DEF T
  <1>10. f \in [0..len -> V] /\ total = f[len]
    <2> HIDE DEF total
    <2>1. QED
      BY <1>0, <1>1, <1>9
  <1>11. QED
    BY <1>8, <1>10 DEF len

\* The entry after each rule.
LEMMA ApplyRulesFold ==
    ASSUME NEW message, NEW rules, NEW entry, IsSeq(rules), IsFunction(entry)
    PROVE  \E f \in [0..Len(rules) -> Makeable(message, rules, entry)] :
              /\ f[0] = [entry |-> entry, any |-> FALSE]
              /\ \A k \in 1..Len(rules) : f[k] = (IF Applies(rules[k], message, f[k - 1].entry)
                     THEN [entry |-> ApplyRule(rules[k], message, f[k - 1].entry), any |-> TRUE] ELSE f[k - 1])
              /\ ApplyRules(rules, message, entry) = f[Len(rules)]
  <1> DEFINE len == Len(rules)
             V == Makeable(message, rules, entry)
             start == [entry |-> entry, any |-> FALSE]
             D == SUBSET DOMAIN rules
             step == [i \in 1..len |-> [a \in V |-> (IF Applies(rules[i], message, a.entry)
                     THEN [entry |-> ApplyRule(rules[i], message, a.entry), any |-> TRUE] ELSE a)]]
             Rec(g) == g = [s \in D |->
                               IF s = {} THEN [entry |-> entry, any |-> FALSE]
                               ELSE (IF Applies(rules[Max(s)], message, g[s \ {Max(s)}].entry)
                     THEN [entry |-> ApplyRule(rules[Max(s)], message, g[s \ {Max(s)}].entry), any |-> TRUE] ELSE g[s \ {Max(s)}])]
             g == CHOOSE g : Rec(g)
             total == ApplyRules(rules, message, entry)
  <1>0. len \in Nat /\ DOMAIN rules = 1..len
    BY DEF IsSeq
  <1>1. total = g[DOMAIN rules]
    BY DEF ApplyRules, FoldLeft, MapThenFoldSet
  <1>2. start \in V /\ \A i \in 1..len : \A a \in V : (IF Applies(rules[i], message, a.entry)
                     THEN [entry |-> ApplyRule(rules[i], message, a.entry), any |-> TRUE] ELSE a) \in V
    <2>1. ASSUME NEW i \in 1..len, NEW a \in V
          PROVE  [entry |-> ApplyRule(rules[i], message, a.entry), any |-> TRUE] \in V
      <3> DEFINE W == Findable(message, rules, entry)
                 K == DOMAIN entry
                 rule == rules[i]
      <3>1. rule \in ToSet(rules) /\ a.entry \in [K -> W]
        BY <1>0 DEF Makeable, ToSet
      <3>2. \A key \in DOMAIN rule.attributes : Found(rule.attributes[key], message) \in W
        BY <3>1 DEF Findable
      <3> HIDE DEF W, K, rule
      <3>3. ApplyRule(rule, message, a.entry) \in [K -> W]
        BY <3>1, <3>2 DEF ApplyRule
      <3>4. QED
        BY <3>3 DEF Makeable, W, K, rule
    <2>2. start \in V
      <3>1. entry \in [DOMAIN entry -> Findable(message, rules, entry)]
        BY DEF IsFunction, Findable
      <3>2. QED
        BY <3>1 DEF Makeable
    <2> HIDE DEF V, start
    <2>3. QED
      BY <2>1, <2>2
  <1>3. PICK h : FoldsTo(h, V, start, step, len)
    <2>1. step \in Steps(V, len)
      BY <1>2 DEF Steps
    <2> HIDE DEF step, len, start, V
    <2>2. QED
      BY <1>0, <1>2, <2>1, FoldExists
  <1>4. Rec(h)
    <2>1. /\ h \in [D -> V]
          /\ \A s \in D : h[s] = IF s = {} THEN start ELSE step[Max(s)][h[s \ {Max(s)}]]
      BY <1>0, <1>3 DEF FoldsTo
    <2>2. ASSUME NEW s \in D, s # {}
          PROVE  step[Max(s)][h[s \ {Max(s)}]] = (IF Applies(rules[Max(s)], message, h[s \ {Max(s)}].entry)
                     THEN [entry |-> ApplyRule(rules[Max(s)], message, h[s \ {Max(s)}].entry), any |-> TRUE] ELSE h[s \ {Max(s)}])
      <3>1. Max(s) \in 1..len
        BY <1>0, <2>2, MaxOfSubset
      <3>2. h[s \ {Max(s)}] \in V
        BY <2>1
      <3> HIDE DEF V
      <3>3. QED
        BY <3>1, <3>2
    <2> HIDE DEF step, D, V
    <2>3. QED
      BY <2>1, <2>2
  <1>5. Rec(g)
    <2> HIDE DEF Rec
    <2>1. QED
      BY <1>4
  <1>6. \A k \in 1..len : g[1..k] = (IF Applies(rules[k], message, g[1..(k - 1)].entry)
                     THEN [entry |-> ApplyRule(rules[k], message, g[1..(k - 1)].entry), any |-> TRUE] ELSE g[1..(k - 1)])
    <2> SUFFICES ASSUME NEW k \in 1..len
                 PROVE  g[1..k] = (IF Applies(rules[k], message, g[1..(k - 1)].entry)
                     THEN [entry |-> ApplyRule(rules[k], message, g[1..(k - 1)].entry), any |-> TRUE] ELSE g[1..(k - 1)])
      OBVIOUS
    <2>1. k \in Nat /\ k # 0
      BY <1>0
    <2>2. Max(1..k) = k /\ (1..k) \ {k} = 1..(k - 1) /\ 1..k # {}
      BY <2>1, GreatestFacts
    <2>3. 1..k \in D
      BY <1>0
    <2> HIDE DEF D, g
    <2>4. QED
      BY <1>5, <2>2, <2>3
  <1>7. g[1..0] = start
    <2>1. 1..0 \in D /\ 1..0 = {}
      BY <1>0
    <2> HIDE DEF D, g
    <2>2. QED
      BY <1>5, <2>1
  <1> DEFINE f == [k \in 0..len |-> g[1..k]]
             T == {k \in 0..len : f[k] \in V}
  <1> HIDE DEF g, len
  <1>8. f[0] = start /\ (\A k \in 1..len : f[k] = (IF Applies(rules[k], message, f[k - 1].entry)
                     THEN [entry |-> ApplyRule(rules[k], message, f[k - 1].entry), any |-> TRUE] ELSE f[k - 1]))
    BY <1>0, <1>6, <1>7
  <1>9. \A k \in 0..len : f[k] \in V
    <2> HIDE DEF f, V, start
    <2>1. 0 \in T
      BY <1>0, <1>2, <1>8
    <2>2. ASSUME NEW k \in 1..len, k - 1 \in T PROVE k \in T
      <3>1. f[k - 1] \in V /\ k \in 0..len
        BY <1>0, <2>2
      <3>2. (IF Applies(rules[k], message, f[k - 1].entry)
                     THEN [entry |-> ApplyRule(rules[k], message, f[k - 1].entry), any |-> TRUE] ELSE f[k - 1]) \in V
        BY <1>2, <3>1
      <3>3. QED
        BY <1>8, <3>1, <3>2
    <2> HIDE DEF T
    <2>3. \A k \in 0..len : k \in T
      BY <1>0, <2>1, <2>2, InductionUpTo
    <2>4. QED
      BY <2>3 DEF T
  <1>10. f \in [0..len -> V] /\ total = f[len]
    <2> HIDE DEF total
    <2>1. QED
      BY <1>0, <1>1, <1>9
  <1>11. QED
    BY <1>8, <1>10 DEF len

\* What a list with one more element holds.
LEMMA AppendedSet ==
    ASSUME NEW S, NEW list \in Seq(S), NEW new \in S
    PROVE  \A r : r \in ToSet(Append(list, new)) <=> r \in ToSet(list) \/ r = new
  <1> DEFINE n == Len(list)
             more == Append(list, new)
  <1>1. /\ n \in Nat /\ DOMAIN list = 1..n /\ DOMAIN more = 1..(n + 1)
        /\ more[n + 1] = new /\ \A i \in 1..n : more[i] = list[i]
    OBVIOUS
  <1> HIDE DEF n, more
  <1>2. \A i \in 1..(n + 1) : i = n + 1 \/ i \in 1..n
    BY <1>1
  <1>3. 1..n \subseteq 1..(n + 1) /\ n + 1 \in 1..(n + 1)
    BY <1>1
  <1>4. \A r : r \in ToSet(more) <=> r \in ToSet(list) \/ r = new
    BY <1>1, <1>2, <1>3 DEF ToSet
  <1>5. QED
    BY <1>4 DEF more

\* A sequence over any set is one over its elements.
LEMMA SeqIsSeq ==
    ASSUME NEW S, NEW s \in Seq(S)
    PROVE  IsSeq(s)
  <1>1. s \in [1..Len(s) -> S] /\ Len(s) \in Nat /\ DOMAIN s = 1..Len(s)
    OBVIOUS
  <1>2. \A i \in 1..Len(s) : s[i] \in ToSet(s)
    BY <1>1 DEF ToSet
  <1>3. s \in [1..Len(s) -> ToSet(s)]
    BY <1>1, <1>2
  <1>4. s \in Seq(ToSet(s))
    BY <1>1, <1>3
  <1>5. QED
    BY <1>4 DEF IsSeq

\* What is loaded is what was created of the rules that are kept, in some order.
LEMMA LoadedRules ==
    ASSUME NEW name, NEW rules, IsSeq(rules)
    PROVE  /\ IsSeq(Loaded(name, rules))
           /\ \A r : r \in ToSet(Loaded(name, rules)) <=>
                  \E k \in DOMAIN rules : Keeps(name, rules[k]) /\ r = Created(rules[k])
  <1> DEFINE len == Len(rules)
             Q == CreatedOf(rules)
             From(list, k) ==
                 \A r : r \in ToSet(list) <=> \E j \in 1..k : Keeps(name, rules[j]) /\ r = Created(rules[j])
  <1>1. len \in Nat /\ DOMAIN rules = 1..len /\ \A k \in 1..len : Created(rules[k]) \in Q
    BY DEF IsSeq, CreatedOf, ToSet
  <1>2. PICK f \in [0..len -> Seq(Q)] :
              /\ f[0] = <<>>
              /\ \A k \in 1..len : f[k] = IF Keeps(name, rules[k]) THEN Append(f[k - 1], Created(rules[k]))
                                          ELSE f[k - 1]
              /\ Loaded(name, rules) = f[len]
    BY LoadedFold
  <1> HIDE DEF len, Q
  <1> DEFINE T == {k \in 0..len : From(f[k], k)}
  <1>3. 0 \in T
    <2>1. ToSet(<<>>) = {}
      BY DEF ToSet
    <2>2. From(f[0], 0)
      BY <1>2, <2>1
    <2> HIDE DEF From
    <2>3. QED
      BY <1>1, <2>2
  <1>4. ASSUME NEW k \in 1..len, k - 1 \in T PROVE k \in T
    <2> DEFINE list == f[k - 1]
               new == Created(rules[k])
    <2>1. k \in 0..len /\ k - 1 \in 0..len /\ list \in Seq(Q) /\ new \in Q
      BY <1>1, <1>2
    <2>2. From(list, k - 1)
      BY <1>4
    <2>3. f[k] = IF Keeps(name, rules[k]) THEN Append(list, new) ELSE list
      BY <1>2
    <2>4. \A j \in 1..k : j = k \/ j \in 1..(k - 1)
      BY <2>1
    <2>5. 1..(k - 1) \subseteq 1..k /\ k \in 1..k
      BY <2>1
    <2> HIDE DEF list
    <2>6. \A r : r \in ToSet(Append(list, new)) <=> r \in ToSet(list) \/ r = new
      <3> HIDE DEF new
      <3>1. QED
        BY <2>1, AppendedSet
    <2>7. From(f[k], k)
      BY <2>2, <2>3, <2>4, <2>5, <2>6
    <2> HIDE DEF From
    <2>8. QED
      BY <2>1, <2>7
  <1>5. From(f[len], len) /\ f[len] \in Seq(Q)
    <2> HIDE DEF T
    <2>1. \A k \in 0..len : k \in T
      BY <1>1, <1>3, <1>4, InductionUpTo
    <2>2. len \in T /\ len \in 0..len
      BY <1>1, <2>1
    <2> HIDE DEF From
    <2>3. QED
      BY <1>2, <2>2 DEF T
  <1>6. IsSeq(f[len])
    BY <1>5, SeqIsSeq
  <1>7. QED
    BY <1>1, <1>2, <1>5, <1>6

\* A rule that has applied changes nothing when it applies again: what it sets
\* comes from the message.
LEMMA AppliedTwice ==
    ASSUME NEW rule, NEW message, NEW entry
    PROVE  ApplyRule(rule, message, ApplyRule(rule, message, entry)) = ApplyRule(rule, message, entry)
  BY DEF ApplyRule

Applied(entry) == [entry |-> entry, any |-> TRUE]
Unchanged(entry) == [entry |-> entry, any |-> FALSE]

\* Of some rules, r applies and no other does, also not after r has applied; or
\* none does.
OnlyApplies(r, rules, message, entry) ==
    /\ r \in rules /\ Applies(r, message, entry)
    /\ \A q \in rules :
          Applies(q, message, entry) \/ Applies(q, message, ApplyRule(r, message, entry)) => q = r
AtMostOneApplies(rules, message, entry) ==
    \A r \in rules : Applies(r, message, entry) => OnlyApplies(r, rules, message, entry)
NoneApplies(rules, message, entry) == \A q \in rules : ~Applies(q, message, entry)

\* When at most one of the rules applies, at first and after it has applied, the
\* entry is that of this rule, wherever it stands in the list.
LEMMA OneRuleApplies ==
    ASSUME NEW message, NEW rules, NEW entry, IsSeq(rules), IsFunction(entry),
           NEW r, OnlyApplies(r, ToSet(rules), message, entry)
    PROVE  ApplyRules(rules, message, entry) = Applied(ApplyRule(r, message, entry))
  <1> DEFINE len == Len(rules)
             none == [entry |-> entry, any |-> FALSE]
             done == [entry |-> ApplyRule(r, message, entry), any |-> TRUE]
  <1> USE DEF OnlyApplies
  <1>1. len \in Nat /\ DOMAIN rules = 1..len /\ \A k \in 1..len : rules[k] \in ToSet(rules)
    BY DEF ToSet, IsSeq
  <1>2. PICK f \in [0..len -> Makeable(message, rules, entry)] :
              /\ f[0] = none
              /\ \A k \in 1..len :
                    f[k] = IF Applies(rules[k], message, f[k - 1].entry)
                           THEN [entry |-> ApplyRule(rules[k], message, f[k - 1].entry), any |-> TRUE]
                           ELSE f[k - 1]
              /\ ApplyRules(rules, message, entry) = f[len]
    BY ApplyRulesFold
  <1>3. none.entry = entry /\ done.entry = ApplyRule(r, message, entry)
    OBVIOUS
  <1>4. done = [entry |-> ApplyRule(r, message, done.entry), any |-> TRUE]
    BY <1>3, AppliedTwice
  <1>5. done = [entry |-> ApplyRule(r, message, none.entry), any |-> TRUE]
    BY <1>3
  <1> HIDE DEF len, none, done
  <1> DEFINE Fine(k) == /\ f[k] \in {none, done}
                        /\ (\E j \in 1..k : rules[j] = r) => f[k] = done
             T == {k \in 0..len : Fine(k)}
  <1>6. 0 \in T
    BY <1>1, <1>2
  <1>7. ASSUME NEW k \in 1..len, k - 1 \in T PROVE k \in T
    <2> DEFINE before == f[k - 1]
               rule == rules[k]
    <2>1. k \in 0..len /\ k \in Nat /\ \A j \in 1..k : j = k \/ j \in 1..(k - 1)
      BY <1>1
    <2>2. /\ before \in {none, done}
          /\ (\E j \in 1..(k - 1) : rules[j] = r) => before = done
      BY <1>7
    <2>3. f[k] = IF Applies(rule, message, before.entry)
                 THEN [entry |-> ApplyRule(rule, message, before.entry), any |-> TRUE] ELSE before
      BY <1>2
    <2>4. rule \in ToSet(rules)
      BY <1>1
    <2>5. Applies(rule, message, before.entry) => rule = r
      BY <1>3, <2>2, <2>4
    <2>6. rule = r /\ before = none => Applies(rule, message, before.entry)
      BY <1>3
    <2> HIDE DEF before
    <2>7. Applies(rule, message, before.entry) => f[k] = done
      BY <1>4, <1>5, <2>2, <2>3, <2>5
    <2>8. ~Applies(rule, message, before.entry) => f[k] = before /\ (rule = r => before = done)
      BY <2>2, <2>3, <2>6
    <2>9. Fine(k)
      BY <2>1, <2>2, <2>7, <2>8
    <2>10. QED
      BY <2>1, <2>9
  <1>8. len \in T
    <2> HIDE DEF T
    <2>1. \A k \in 0..len : k \in T
      BY <1>1, <1>6, <1>7, InductionUpTo
    <2>2. QED
      BY <1>1, <2>1
  <1>9. \E j \in 1..len : rules[j] = r
    BY <1>1 DEF ToSet
  <1>10. QED
    BY <1>2, <1>8, <1>9 DEF done, Applied

\* When none applies, the entry stays what it is.
LEMMA NoRuleApplies ==
    ASSUME NEW message, NEW rules, NEW entry, IsSeq(rules), IsFunction(entry),
           NoneApplies(ToSet(rules), message, entry)
    PROVE  ApplyRules(rules, message, entry) = Unchanged(entry)
  <1> DEFINE len == Len(rules)
             none == [entry |-> entry, any |-> FALSE]
  <1>1. len \in Nat /\ DOMAIN rules = 1..len /\ \A k \in 1..len : rules[k] \in ToSet(rules)
    BY DEF ToSet, IsSeq
  <1>2. PICK f \in [0..len -> Makeable(message, rules, entry)] :
              /\ f[0] = none
              /\ \A k \in 1..len :
                    f[k] = IF Applies(rules[k], message, f[k - 1].entry)
                           THEN [entry |-> ApplyRule(rules[k], message, f[k - 1].entry), any |-> TRUE]
                           ELSE f[k - 1]
              /\ ApplyRules(rules, message, entry) = f[len]
    BY ApplyRulesFold
  <1>3. none.entry = entry
    OBVIOUS
  <1> HIDE DEF len, none
  <1> DEFINE T == {k \in 0..len : f[k] = none}
  <1>4. 0 \in T
    BY <1>1, <1>2
  <1>5. ASSUME NEW k \in 1..len, k - 1 \in T PROVE k \in T
    <2>1. k \in 0..len /\ f[k - 1] = none /\ ~Applies(rules[k], message, none.entry)
      BY <1>1, <1>3, <1>5 DEF NoneApplies
    <2>2. f[k] = none
      BY <1>2, <2>1
    <2>3. QED
      BY <2>1, <2>2
  <1>6. len \in T
    <2> HIDE DEF T
    <2>1. \A k \in 0..len : k \in T
      BY <1>1, <1>4, <1>5, InductionUpTo
    <2>2. QED
      BY <1>1, <2>1
  <1>7. QED
    BY <1>2, <1>6 DEF none, Unchanged

\* The order of the rules does not matter when at most one of them applies, at
\* first and after it has applied.
THEOREM OrderOfRulesIrrelevant ==
    ASSUME NEW message, NEW rules, NEW others, NEW entry,
           IsSeq(rules), IsSeq(others), IsFunction(entry),
           ToSet(rules) = ToSet(others),
           AtMostOneApplies(ToSet(rules), message, entry)
    PROVE  ApplyRules(rules, message, entry) = ApplyRules(others, message, entry)
  <1>1. CASE \E r \in ToSet(rules) : Applies(r, message, entry)
    <2>1. PICK r \in ToSet(rules) : Applies(r, message, entry)
      BY <1>1
    <2>2. OnlyApplies(r, ToSet(rules), message, entry) /\ OnlyApplies(r, ToSet(others), message, entry)
      BY <2>1 DEF AtMostOneApplies, OnlyApplies
    <2>3. ApplyRules(rules, message, entry) = Applied(ApplyRule(r, message, entry))
      BY <2>2, OneRuleApplies
    <2>4. ApplyRules(others, message, entry) = Applied(ApplyRule(r, message, entry))
      BY <2>2, OneRuleApplies
    <2>5. QED
      BY <2>3, <2>4
  <1>2. CASE \A q \in ToSet(rules) : ~Applies(q, message, entry)
    <2>0. NoneApplies(ToSet(rules), message, entry) /\ NoneApplies(ToSet(others), message, entry)
      BY <1>2 DEF NoneApplies
    <2>1. ApplyRules(rules, message, entry) = Unchanged(entry)
      BY <2>0, NoRuleApplies
    <2>2. ApplyRules(others, message, entry) = Unchanged(entry)
      BY <2>0, NoRuleApplies
    <2>3. QED
      BY <2>1, <2>2
  <1>3. QED
    BY <1>1, <1>2

\* The common attributes of any record.
LEMMA CommonIsFunction ==
    ASSUME NEW message
    PROVE  /\ IsFunction(CommonAttributes(message))
           /\ DOMAIN CommonAttributes(message)
                 = {"gcp.resource.type", "log.source", "timestamp", "content", "audit.result"}
  <1> DEFINE c == CommonAttributes(message)
  <1>1. c = [a \in DOMAIN c |-> c[a]]
    BY DEF CommonAttributes
  <1>2. \A a \in DOMAIN c : c[a] \in ToSet(c)
    BY DEF ToSet
  <1>3. DOMAIN c = {"gcp.resource.type", "log.source", "timestamp", "content", "audit.result"}
    BY DEF CommonAttributes
  <1> HIDE DEF c
  <1>4. c \in [DOMAIN c -> ToSet(c)]
    BY <1>1, <1>2
  <1>5. QED
    BY <1>3, <1>4 DEF IsFunction, c

\* The same files in another order load the same rules.
LEMMA LoadedInAnyOrder ==
    ASSUME NEW name, NEW rules, IsSeq(rules), NEW p \in Bijection(DOMAIN rules, DOMAIN rules)
    PROVE  LET others == [n \in DOMAIN rules |-> rules[p[n]]]
           IN  /\ IsSeq(Loaded(name, others))
               /\ ToSet(Loaded(name, others)) = ToSet(Loaded(name, rules))
  <1> DEFINE N == DOMAIN rules
             others == [n \in N |-> rules[p[n]]]
  <1>1. p \in [N -> N] /\ \A w \in N : \E v \in N : p[v] = w
    BY DEF Bijection, Injection, Surjection
  <1>2. N = 1..Len(rules) /\ Len(rules) \in Nat /\ \A n \in N : rules[n] \in ToSet(rules)
    BY DEF IsSeq, ToSet
  <1>3. DOMAIN others = N /\ \A n \in N : others[n] = rules[p[n]]
    OBVIOUS
  <1>4. IsSeq(others)
    <2>1. others \in [1..Len(rules) -> ToSet(rules)]
      BY <1>1, <1>2
    <2> HIDE DEF others
    <2>2. others \in Seq(ToSet(rules))
      BY <1>2, <2>1
    <2>3. QED
      BY <2>2, SeqIsSeq
  <1> HIDE DEF others, N
  <1>5. \A r : (\E k \in N : Keeps(name, others[k]) /\ r = Created(others[k]))
                  <=> (\E k \in N : Keeps(name, rules[k]) /\ r = Created(rules[k]))
    <2> SUFFICES ASSUME NEW r
                 PROVE  (\E k \in N : Keeps(name, others[k]) /\ r = Created(others[k]))
                            <=> (\E k \in N : Keeps(name, rules[k]) /\ r = Created(rules[k]))
      OBVIOUS
    <2>1. ASSUME NEW k \in N, Keeps(name, others[k]), r = Created(others[k])
          PROVE  \E j \in N : Keeps(name, rules[j]) /\ r = Created(rules[j])
      BY <1>1, <1>3, <2>1
    <2>2. ASSUME NEW k \in N, Keeps(name, rules[k]), r = Created(rules[k])
          PROVE  \E j \in N : Keeps(name, others[j]) /\ r = Created(others[j])
      BY <1>1, <1>3, <2>2
    <2>3. QED
      BY <2>1, <2>2
  <1>6. \A r : r \in ToSet(Loaded(name, others)) <=> r \in ToSet(Loaded(name, rules))
    BY <1>3, <1>4, <1>5, LoadedRules DEF N
  <1>7. IsSeq(Loaded(name, others))
    BY <1>4, LoadedRules
  <1>8. ToSet(Loaded(name, others)) = ToSet(Loaded(name, rules))
    BY <1>6
  <1>9. QED
    BY <1>7, <1>8 DEF others, N

\* An entry has the same attributes whatever the order in which the files of the
\* rules are read, when no two of the rules apply to it, at first or after one
\* has rewritten it.
THEOREM OrderOfFilesIrrelevant ==
    ASSUME NEW message, NEW config, NEW others, IsSeq(config.rules), IsSeq(others.rules),
           ToSet(config.rules) = ToSet(others.rules),
           config.audit = others.audit, config.default = others.default,
           AtMostOneApplies(ToSet(config.rules), message, CommonAttributes(message))
    PROVE  Attributes(message, config) = Attributes(message, others)
  <1>1. IsFunction(CommonAttributes(message))
    BY CommonIsFunction
  <1> DEFINE rules == config.rules
             list == others.rules
  <1>2. /\ IsSeq(rules) /\ IsSeq(list) /\ ToSet(rules) = ToSet(list)
        /\ AtMostOneApplies(ToSet(rules), message, CommonAttributes(message))
    OBVIOUS
  <1> HIDE DEF rules, list
  <1>3. ApplyRules(rules, message, CommonAttributes(message))
           = ApplyRules(list, message, CommonAttributes(message))
    BY <1>1, <1>2, OrderOfRulesIrrelevant
  <1>4. QED
    BY <1>3 DEF Attributes, rules, list

-----------------------------------------------------------------------------
(* The rules of the model.                                                 *)

Bucket == TypeRules[1]
LoadBalancer == TypeRules[2]
Audit == AuditRules[1]
Default == DefaultRules[1]

\* The rules of the model, one by one.
LEMMA RulesAre ==
    /\ DOMAIN TypeRules = 1..3 /\ DOMAIN AuditRules = 1..1 /\ DOMAIN DefaultRules = 1..1
    /\ Bucket.sources = {TypeIs("bucket")} /\ LoadBalancer.sources = {TypeIs("lb")}
    /\ TypeRules[3].sources = {TypeIs("lb"), Unparsed}
    /\ Audit.sources = {[of |-> "logName", accepts |-> {"audit"}, valid |-> TRUE]}
    /\ Default.sources = {}
    /\ DOMAIN Bucket.attributes = {"content"} /\ Bucket.attributes["content"] = "@"
    /\ DOMAIN LoadBalancer.attributes = {"content", "gcp.resource.type"}
    /\ LoadBalancer.attributes["content"] = "@"
    /\ LoadBalancer.attributes["gcp.resource.type"] = "https_lb_rule"
    /\ DOMAIN Audit.attributes = {"content", "audit.result"}
    /\ Audit.attributes["content"] = "@" /\ Audit.attributes["audit.result"] = "Succeeded"
    /\ DOMAIN Default.attributes = {"content"} /\ Default.attributes["content"] = ContentOrAll
  BY DEF TypeRules, AuditRules, DefaultRules, RuleOf, Bucket, LoadBalancer, Audit, Default

LEMMA RulesAreSeq == IsSeq(TypeRules) /\ IsSeq(AuditRules) /\ IsSeq(DefaultRules)
  <1>1. /\ TypeRules = <<TypeRules[1], TypeRules[2], TypeRules[3]>>
        /\ AuditRules = <<AuditRules[1]>> /\ DefaultRules = <<DefaultRules[1]>>
    BY DEF TypeRules, AuditRules, DefaultRules
  <1>2. \A a, b, c : <<a, b, c>> \in Seq({a, b, c}) /\ <<a>> \in Seq({a})
    OBVIOUS
  <1>3. QED
    BY <1>1, <1>2, SeqIsSeq

\* What is created of them.
LEMMA CreatedAre ==
    /\ Created(Bucket) = Bucket /\ Keeps("types", Bucket)
    /\ Created(LoadBalancer) = LoadBalancer /\ Keeps("types", LoadBalancer)
    /\ ~Keeps("types", TypeRules[3])
    /\ Created(Audit) = Audit /\ Keeps("audit_logs", Audit)
    /\ Created(Default) = Default /\ Keeps("default", Default)
  <1>1. /\ Created(Bucket) = Bucket /\ Created(LoadBalancer) = LoadBalancer
        /\ Created(Audit) = Audit /\ Created(Default) = Default
    BY RulesAre DEF Created, TypeIs
  <1>2. Created(TypeRules[3]).sources = {}
    <2>1. Unparsed \in TypeRules[3].sources /\ ~Unparsed.valid
      BY RulesAre DEF Unparsed
    <2>2. Created(TypeRules[3]) = [TypeRules[3] EXCEPT !.sources = {}]
      BY <2>1 DEF Created
    <2>3. "sources" \in DOMAIN TypeRules[3]
      BY DEF TypeRules, RuleOf
    <2>4. QED
      BY <2>2, <2>3
  <1>3. "types" \notin Special /\ "default" \in Special
    BY DEF Special
  <1>4. QED
    BY <1>1, <1>2, <1>3, RulesAre DEF Keeps

\* The configuration they are loaded to.
LEMMA ConfigIs ==
    /\ IsSeq(Config.rules) /\ IsSeq(Config.audit) /\ IsSeq(Config.default)
    /\ ToSet(Config.rules) = {Bucket, LoadBalancer}
    /\ ToSet(Config.audit) = {Audit} /\ ToSet(Config.default) = {Default}
  <1>1. /\ Config.rules = Loaded("types", TypeRules)
        /\ Config.audit = Loaded("audit_logs", AuditRules)
        /\ Config.default = Loaded("default", DefaultRules)
    BY DEF Config, ConfigOf
  <1>2. \A r : r \in ToSet(Config.rules) <=> r = Bucket \/ r = LoadBalancer
    <2>1. \A k \in 1..3 : k = 1 \/ k = 2 \/ k = 3
      OBVIOUS
    <2>2. \A r : r \in ToSet(Config.rules) <=>
              \E k \in 1..3 : Keeps("types", TypeRules[k]) /\ r = Created(TypeRules[k])
      BY <1>1, RulesAre, RulesAreSeq, LoadedRules
    <2>3. QED
      BY <2>1, <2>2, CreatedAre DEF Bucket, LoadBalancer
  <1>3. \A r : r \in ToSet(Config.audit) <=> r = Audit
    <2>1. \A r : r \in ToSet(Config.audit) <=>
              \E k \in 1..1 : Keeps("audit_logs", AuditRules[k]) /\ r = Created(AuditRules[k])
      BY <1>1, RulesAre, RulesAreSeq, LoadedRules
    <2>2. QED
      BY <2>1, CreatedAre DEF Audit
  <1>4. \A r : r \in ToSet(Config.default) <=> r = Default
    <2>1. \A r : r \in ToSet(Config.default) <=>
              \E k \in 1..1 : Keeps("default", DefaultRules[k]) /\ r = Created(DefaultRules[k])
      BY <1>1, RulesAre, RulesAreSeq, LoadedRules
    <2>2. QED
      BY <2>1, CreatedAre DEF Default
  <1>5. IsSeq(Config.rules) /\ IsSeq(Config.audit) /\ IsSeq(Config.default)
    BY <1>1, RulesAreSeq, LoadedRules
  <1>6. QED
    BY <1>2, <1>3, <1>4, <1>5

\* The patterns of the rules are different ones.
LEMMA PatternsDiffer ==
    /\ ContentOrAll # "@" /\ ContentOrAll # "Succeeded" /\ ContentOrAll # "https_lb_rule"
    /\ "@" # "Succeeded" /\ "@" # "https_lb_rule"
  BY DEF ContentOrAll

\* When the rules of the model apply.
LEMMA AppliesWhen ==
    ASSUME NEW message, NEW entry
    PROVE  /\ Applies(Bucket, message, entry) <=> entry["gcp.resource.type"] = "bucket"
           /\ Applies(LoadBalancer, message, entry) <=> entry["gcp.resource.type"] = "lb"
           /\ Applies(Audit, message, entry) <=> message.logName = "audit"
           /\ Applies(Default, message, entry)
  <1>1. Applies(Bucket, message, entry) <=> entry["gcp.resource.type"] = "bucket"
    BY RulesAre DEF Applies, SourceValue, TypeIs
  <1>2. Applies(LoadBalancer, message, entry) <=> entry["gcp.resource.type"] = "lb"
    BY RulesAre DEF Applies, SourceValue, TypeIs
  <1>3. Applies(Audit, message, entry) <=> message.logName = "audit"
    BY RulesAre DEF Applies, SourceValue
  <1>4. Applies(Default, message, entry)
    BY RulesAre DEF Applies
  <1>5. QED
    BY <1>1, <1>2, <1>3, <1>4

\* What the rules of the model make of an entry.
AttributeNames == {"gcp.resource.type", "log.source", "timestamp", "content", "audit.result"}
LEMMA AppliedAre ==
    ASSUME NEW message, NEW entry, IsFunction(entry), DOMAIN entry = AttributeNames
    PROVE  /\ \A rule : /\ IsFunction(ApplyRule(rule, message, entry))
                        /\ DOMAIN ApplyRule(rule, message, entry) = AttributeNames
           /\ \A rule \in {Bucket, LoadBalancer, Audit} :
                 ApplyRule(rule, message, entry)["content"] = message.form
           /\ ApplyRule(Default, message, entry)["content"] \in {message.form, message.content}
           /\ message.content = Absent => ApplyRule(Default, message, entry)["content"] = message.form
           /\ \A rule \in {Bucket, Audit} :
                 ApplyRule(rule, message, entry)["gcp.resource.type"] = entry["gcp.resource.type"]
           /\ ApplyRule(LoadBalancer, message, entry)["gcp.resource.type"] = "https_lb_rule"
           /\ ApplyRule(Audit, message, entry)["audit.result"] = "Succeeded"
  <1>1. ASSUME NEW rule
        PROVE  /\ IsFunction(ApplyRule(rule, message, entry))
               /\ DOMAIN ApplyRule(rule, message, entry) = AttributeNames
    <2> DEFINE e == ApplyRule(rule, message, entry)
    <2>1. e = [key \in DOMAIN e |-> e[key]] /\ DOMAIN e = AttributeNames
      BY DEF ApplyRule
    <2>2. \A key \in DOMAIN e : e[key] \in ToSet(e)
      BY DEF ToSet
    <2> HIDE DEF e
    <2>3. e \in [DOMAIN e -> ToSet(e)]
      BY <2>1, <2>2
    <2>4. QED
      BY <2>1, <2>3 DEF IsFunction, e
  <1>2. /\ Found("@", message) = message.form
        /\ Found("Succeeded", message) = "Succeeded" /\ Found("https_lb_rule", message) = "https_lb_rule"
        /\ Found(ContentOrAll, message) = IF message.content = Absent THEN message.form ELSE message.content
    BY PatternsDiffer DEF Found
  <1>3. ASSUME NEW rule, NEW key \in AttributeNames
        PROVE  ApplyRule(rule, message, entry)[key]
                  = IF key \in DOMAIN rule.attributes THEN Found(rule.attributes[key], message) ELSE entry[key]
    BY DEF ApplyRule
  <1>4. {"gcp.resource.type", "content", "audit.result"} \subseteq AttributeNames
    BY DEF AttributeNames
  <1>5. ASSUME NEW rule \in {Bucket, LoadBalancer, Audit}
        PROVE  ApplyRule(rule, message, entry)["content"] = message.form
    BY <1>2, <1>3, <1>4, RulesAre
  <1>6. ApplyRule(Default, message, entry)["content"]
           = IF message.content = Absent THEN message.form ELSE message.content
    BY <1>2, <1>3, <1>4, RulesAre
  <1>7. ASSUME NEW rule \in {Bucket, Audit}
        PROVE  ApplyRule(rule, message, entry)["gcp.resource.type"] = entry["gcp.resource.type"]
    BY <1>2, <1>3, <1>4, RulesAre
  <1>8. ApplyRule(LoadBalancer, message, entry)["gcp.resource.type"] = "https_lb_rule"
    BY <1>2, <1>3, <1>4, RulesAre
  <1>9. ApplyRule(Audit, message, entry)["audit.result"] = "Succeeded"
    BY <1>2, <1>3, <1>4, RulesAre
  <1>10. QED
    BY <1>1, <1>5, <1>6, <1>7, <1>8, <1>9

\* At most one of the rules for resource types applies to a record.
LEMMA AtMostOneOfTheRules ==
    ASSUME NEW message, NEW entry, IsFunction(entry), DOMAIN entry = AttributeNames
    PROVE  AtMostOneApplies({Bucket, LoadBalancer}, message, entry)
  <1> DEFINE type(e) == e["gcp.resource.type"]
  <1>1. ASSUME Applies(Bucket, message, entry)
        PROVE  OnlyApplies(Bucket, {Bucket, LoadBalancer}, message, entry)
    <2>1. type(entry) = "bucket" /\ type(ApplyRule(Bucket, message, entry)) = "bucket"
      BY <1>1, AppliesWhen, AppliedAre
    <2>2. ~Applies(LoadBalancer, message, entry)
          /\ ~Applies(LoadBalancer, message, ApplyRule(Bucket, message, entry))
      BY <2>1, AppliesWhen
    <2>3. QED
      BY <1>1, <2>2 DEF OnlyApplies
  <1>2. ASSUME Applies(LoadBalancer, message, entry)
        PROVE  OnlyApplies(LoadBalancer, {Bucket, LoadBalancer}, message, entry)
    <2>1. type(entry) = "lb" /\ type(ApplyRule(LoadBalancer, message, entry)) = "https_lb_rule"
      BY <1>2, AppliesWhen, AppliedAre
    <2>2. ~Applies(Bucket, message, entry)
          /\ ~Applies(Bucket, message, ApplyRule(LoadBalancer, message, entry))
      BY <2>1, AppliesWhen
    <2>3. QED
      BY <1>2, <2>2 DEF OnlyApplies
  <1>3. QED
    BY <1>1, <1>2 DEF AtMostOneApplies

\* What each of the three lists of the configuration does.
LEMMA ListsApply ==
    ASSUME NEW message, NEW entry, IsFunction(entry), DOMAIN entry = AttributeNames
    PROVE  /\ \/ /\ \E rule \in {Bucket, LoadBalancer} :
                       /\ Applies(rule, message, entry)
                       /\ ApplyRules(Config.rules, message, entry) = Applied(ApplyRule(rule, message, entry))
              \/ /\ NoneApplies({Bucket, LoadBalancer}, message, entry)
                 /\ ApplyRules(Config.rules, message, entry) = Unchanged(entry)
           /\ ApplyRules(Config.audit, message, entry)
                 = IF message.logName = "audit" THEN Applied(ApplyRule(Audit, message, entry)) ELSE Unchanged(entry)
           /\ ApplyRules(Config.default, message, entry) = Applied(ApplyRule(Default, message, entry))
  <1>1. ASSUME NEW rule \in {Bucket, LoadBalancer}, Applies(rule, message, entry)
        PROVE  ApplyRules(Config.rules, message, entry) = Applied(ApplyRule(rule, message, entry))
    <2>1. OnlyApplies(rule, ToSet(Config.rules), message, entry)
      BY <1>1, ConfigIs, AtMostOneOfTheRules DEF AtMostOneApplies
    <2>2. QED
      BY <2>1, ConfigIs, OneRuleApplies
  <1>2. ASSUME NoneApplies({Bucket, LoadBalancer}, message, entry)
        PROVE  ApplyRules(Config.rules, message, entry) = Unchanged(entry)
    <2>1. NoneApplies(ToSet(Config.rules), message, entry)
      BY <1>2, ConfigIs
    <2>2. QED
      BY <2>1, ConfigIs, NoRuleApplies
  <1>3. ASSUME message.logName = "audit"
        PROVE  ApplyRules(Config.audit, message, entry) = Applied(ApplyRule(Audit, message, entry))
    <2>1. OnlyApplies(Audit, ToSet(Config.audit), message, entry)
      BY <1>3, ConfigIs, AppliesWhen DEF OnlyApplies
    <2>2. QED
      BY <2>1, ConfigIs, OneRuleApplies
  <1>4. ASSUME message.logName # "audit"
        PROVE  ApplyRules(Config.audit, message, entry) = Unchanged(entry)
    <2>1. NoneApplies(ToSet(Config.audit), message, entry)
      BY <1>4, ConfigIs, AppliesWhen DEF NoneApplies
    <2>2. QED
      BY <2>1, ConfigIs, NoRuleApplies
  <1>5. ApplyRules(Config.default, message, entry) = Applied(ApplyRule(Default, message, entry))
    <2>1. OnlyApplies(Default, ToSet(Config.default), message, entry)
      BY ConfigIs, AppliesWhen DEF OnlyApplies
    <2>2. QED
      BY <2>1, ConfigIs, OneRuleApplies
  <1>6. (\E rule \in {Bucket, LoadBalancer} : Applies(rule, message, entry))
           \/ NoneApplies({Bucket, LoadBalancer}, message, entry)
    BY DEF NoneApplies
  <1>7. QED
    BY <1>1, <1>2, <1>3, <1>4, <1>5, <1>6

\* What the configuration makes of any record: it has content, the audit
\* attributes if it is an audit log, and the type of the rule for load balancers.
THEOREM AttributesSet ==
    ASSUME NEW message, message.form # "other_json", message.form # Absent
    PROVE  LET entry == Attributes(message, Config)
           IN  /\ entry["content"] # Absent
               /\ message.logName = "audit" => entry["audit.result"] = "Succeeded"
               /\ CommonAttributes(message)["gcp.resource.type"] = "lb"
                     => entry["gcp.resource.type"] = "https_lb_rule"
  <1> DEFINE common == CommonAttributes(message)
             typed == ApplyRules(Config.rules, message, common)
             audit == ApplyRules(Config.audit, message, typed.entry)
             default == ApplyRules(Config.default, message, audit.entry)
             entry == Attributes(message, Config)
             type(e) == e["gcp.resource.type"]
  <1>1. IsFunction(common) /\ DOMAIN common = AttributeNames
    BY CommonIsFunction DEF AttributeNames
  <1>2. entry = IF typed.any \/ audit.any THEN audit.entry ELSE default.entry
    BY DEF Attributes
  <1> HIDE DEF common
  <1>3. \/ \E rule \in {Bucket, LoadBalancer} :
              Applies(rule, message, common) /\ typed = Applied(ApplyRule(rule, message, common))
        \/ NoneApplies({Bucket, LoadBalancer}, message, common) /\ typed = Unchanged(common)
    BY <1>1, ListsApply
  <1> HIDE DEF typed
  <1>4. \A e : /\ Applied(e).entry = e /\ Applied(e).any = TRUE
               /\ Unchanged(e).entry = e /\ Unchanged(e).any = FALSE
    BY DEF Applied, Unchanged
  <1>5. IsFunction(typed.entry) /\ DOMAIN typed.entry = AttributeNames
    BY <1>1, <1>3, <1>4, AppliedAre
  <1>6. audit = IF message.logName = "audit" THEN Applied(ApplyRule(Audit, message, typed.entry))
                ELSE Unchanged(typed.entry)
    BY <1>5, ListsApply
  <1> HIDE DEF audit
  <1>7. IsFunction(audit.entry) /\ DOMAIN audit.entry = AttributeNames
    BY <1>4, <1>5, <1>6, AppliedAre
  <1>8. default = Applied(ApplyRule(Default, message, audit.entry))
    BY <1>7, ListsApply
  <1> HIDE DEF default, entry
  <1>9. typed.any = TRUE => typed.entry["content"] = message.form
    BY <1>1, <1>3, <1>4, AppliedAre
  <1>10. type(common) = "lb" => typed.any = TRUE /\ type(typed.entry) = "https_lb_rule"
    <2> SUFFICES ASSUME type(common) = "lb"
                 PROVE  typed.any = TRUE /\ type(typed.entry) = "https_lb_rule"
      OBVIOUS
    <2>1. Applies(LoadBalancer, message, common) /\ ~Applies(Bucket, message, common)
      BY AppliesWhen
    <2>2. typed = Applied(ApplyRule(LoadBalancer, message, common))
      BY <1>3, <2>1 DEF NoneApplies
    <2>3. QED
      BY <1>1, <1>4, <2>2, AppliedAre
  <1>11. message.logName = "audit" =>
             /\ audit.any = TRUE /\ audit.entry["content"] = message.form
             /\ audit.entry["audit.result"] = "Succeeded"
             /\ type(audit.entry) = type(typed.entry)
    BY <1>4, <1>5, <1>6, AppliedAre
  <1>12. message.logName # "audit" => audit.any = FALSE /\ audit.entry = typed.entry
    BY <1>4, <1>6
  <1>13. default.entry["content"] # Absent
    BY <1>4, <1>7, <1>8, AppliedAre
  <1>14. entry["content"] # Absent
    BY <1>2, <1>9, <1>11, <1>12, <1>13
  <1>15. message.logName = "audit" => entry["audit.result"] = "Succeeded"
    BY <1>2, <1>11
  <1>16. type(common) = "lb" => type(entry) = "https_lb_rule"
    BY <1>2, <1>10, <1>11, <1>12
  <1>17. QED
    BY <1>14, <1>15, <1>16 DEF entry, common

LEMMA RulesStayIndependent == InputOK => RulesIndependent
  <1> SUFFICES ASSUME InputOK, subject = "entry" PROVE RulesIndependent
    BY DEF RulesIndependent
  <1>1. /\ input.form \in {"object", "text", "other_json", "binary"}
    BY InputOf DEF InputOK, EntryInputs
  <1>2. ASSUME NEW p \in Bijection(DOMAIN TypeRules, DOMAIN TypeRules)
        PROVE  Attributes(input, ConfigOf([n \in DOMAIN TypeRules |-> TypeRules[p[n]]]))
                  = Attributes(input, Config)
    <2> DEFINE others == [n \in DOMAIN TypeRules |-> TypeRules[p[n]]]
               other == ConfigOf(others)
    <2>1. IsSeq(Loaded("types", others)) /\ ToSet(Loaded("types", others)) = ToSet(Loaded("types", TypeRules))
      BY RulesAreSeq, LoadedInAnyOrder
    <2> HIDE DEF others
    <2>2. /\ other.rules = Loaded("types", others) /\ Config.rules = Loaded("types", TypeRules)
          /\ other.audit = Config.audit /\ other.default = Config.default
      BY DEF ConfigOf, Config
    <2> HIDE DEF other
    <2>3. IsSeq(Config.rules) /\ IsSeq(other.rules) /\ ToSet(Config.rules) = ToSet(other.rules)
      BY <2>1, <2>2, ConfigIs
    <2>4. AtMostOneApplies(ToSet(Config.rules), input, CommonAttributes(input))
      BY ConfigIs, CommonIsFunction, AtMostOneOfTheRules DEF AttributeNames
    <2>5. Attributes(input, Config) = Attributes(input, other)
      BY <2>2, <2>3, <2>4, OrderOfFilesIrrelevant
    <2>6. QED
      BY <2>5 DEF other, others
  <1> DEFINE entry == Attributes(input, Config)
  <1>3. ASSUME input.form = "object"
        PROVE  /\ input.logName = "audit" => entry["audit.result"] = "Succeeded"
               /\ input.type = "lb" => entry["gcp.resource.type"] = "https_lb_rule"
    <2>1. CommonAttributes(input)["gcp.resource.type"] = input.type
      BY <1>3 DEF CommonAttributes
    <2>2. input.form # "other_json" /\ input.form # Absent
      BY <1>3 DEF Absent
    <2>3. QED
      BY <2>1, <2>2, AttributesSet
  <1>4. QED
    BY <1>2, <1>3 DEF RulesIndependent

\* Whatever the configuration, as long as it gives a record its content: what
\* does not become an entry is counted once, and what does has its content, cut
\* to the limit and counted if it was longer.
THEOREM NothingDisappears ==
    ASSUME NEW message, NEW config, message.length \in Nat,
           message.form # "other_json" => Attributes(message, config)["content"] # Absent
    PROVE  LET outcome == Outcome(message, config)
               dropped == outcome.counts["too_old_records"] + outcome.counts["parsing_errors"]
               cut == message.length > ContentLimit
           IN  IF outcome.entry
               THEN /\ dropped = 0
                    /\ message.form # "other_json" =>
                         /\ outcome.length = (IF cut THEN ContentLimit ELSE message.length)
                         /\ cut <=> (outcome.counts["records_with_too_long_content"] = 1)
               ELSE dropped = IF message.form = "text" /\ message.length = 0 THEN 0 ELSE 1
  <1> DEFINE attributes == Attributes(message, config)
             fallback == IF FallsBack(attributes) THEN {"publish_time_fallback_records"} ELSE {}
             content == attributes["content"] # Absent
             long == content /\ message.length > ContentLimit
             outcome == Outcome(message, config)
             dropped == outcome.counts["too_old_records"] + outcome.counts["parsing_errors"]
             cut == message.length > ContentLimit
             empty == message.form = "text" /\ message.length = 0
             time == Timestamp(message, attributes)
  <1>1. \A which : /\ Counting(which)["too_old_records"] = IF "too_old_records" \in which THEN 1 ELSE 0
                   /\ Counting(which)["parsing_errors"] = IF "parsing_errors" \in which THEN 1 ELSE 0
                   /\ Counting(which)["records_with_too_long_content"]
                         = IF "records_with_too_long_content" \in which THEN 1 ELSE 0
    BY DEF Counting, Counters
  <1>2. fallback \subseteq {"publish_time_fallback_records"}
    OBVIOUS
  <1>3. CASE message.form = "binary"
    <2>1. outcome = [entry |-> FALSE, length |-> 0, counts |-> Counting({"parsing_errors"})]
      BY <1>3 DEF Outcome
    <2> HIDE DEF outcome
    <2>2. outcome.entry = FALSE /\ outcome.counts = Counting({"parsing_errors"})
      BY <2>1
    <2>3. dropped = 1 /\ ~empty
      BY <1>1, <1>3, <2>2
    <2>4. QED
      BY <2>2, <2>3 DEF outcome
  <1>4. CASE empty
    <2>1. outcome = [entry |-> FALSE, length |-> 0, counts |-> Counting({})]
      BY <1>4 DEF Outcome
    <2> HIDE DEF outcome
    <2>2. outcome.entry = FALSE /\ outcome.counts = Counting({})
      BY <2>1
    <2>3. dropped = 0
      BY <1>1, <2>2
    <2>4. QED
      BY <1>4, <2>2, <2>3 DEF outcome
  <1>5. CASE message.form # "binary" /\ ~empty /\ time \in {"no_string", "no_zone"}
    <2>1. outcome = [entry |-> FALSE, length |-> 0,
                     counts |-> Counting(fallback \union {"parsing_errors"})]
      BY <1>5 DEF Outcome
    <2> HIDE DEF outcome, fallback
    <2>2. outcome.entry = FALSE /\ outcome.counts = Counting(fallback \union {"parsing_errors"})
      BY <2>1
    <2>3. dropped = 1
      BY <1>1, <1>2, <2>2
    <2>4. QED
      BY <1>5, <2>2, <2>3 DEF outcome
  <1>6. CASE message.form # "binary" /\ ~empty /\ time = "old"
    <2>1. outcome = [entry |-> FALSE, length |-> 0,
                     counts |-> Counting(fallback \union {"too_old_records"})]
      BY <1>6 DEF Outcome
    <2> HIDE DEF outcome, fallback
    <2>2. outcome.entry = FALSE /\ outcome.counts = Counting(fallback \union {"too_old_records"})
      BY <2>1
    <2>3. dropped = 1
      BY <1>1, <1>2, <2>2
    <2>4. QED
      BY <1>6, <2>2, <2>3 DEF outcome
  <1>7. CASE message.form # "binary" /\ ~empty /\ time \notin {"no_string", "no_zone", "old"}
    <2> DEFINE which == fallback \union (IF long THEN {"records_with_too_long_content"} ELSE {})
    <2>1. outcome = [entry |-> TRUE, length |-> IF content THEN TrimmedLength(message.length) ELSE 0,
                     counts |-> Counting(which)]
      BY <1>7 DEF Outcome
    <2>2. /\ "too_old_records" \notin which /\ "parsing_errors" \notin which
          /\ "records_with_too_long_content" \in which <=> long
      BY <1>2
    <2> HIDE DEF outcome, fallback, which
    <2>3. /\ outcome.entry = TRUE /\ outcome.counts = Counting(which)
          /\ outcome.length = IF content THEN TrimmedLength(message.length) ELSE 0
      BY <2>1
    <2>4. dropped = 0
      BY <1>1, <2>2, <2>3
    <2>5. ASSUME message.form # "other_json"
          PROVE  /\ outcome.length = (IF cut THEN ContentLimit ELSE message.length)
                 /\ cut <=> (outcome.counts["records_with_too_long_content"] = 1)
      <3>1. content
        BY <2>5
      <3>2. outcome.length = (IF cut THEN ContentLimit ELSE message.length)
        BY <2>3, <3>1, LogEntriesAssumption DEF TrimmedLength
      <3>3. cut <=> (outcome.counts["records_with_too_long_content"] = 1)
        BY <1>1, <2>2, <2>3, <3>1
      <3>4. QED
        BY <3>2, <3>3
    <2>6. QED
      BY <2>3, <2>4, <2>5 DEF outcome
  <1>8. QED
    BY <1>3, <1>4, <1>5, <1>6, <1>7

\* The attributes of an entry do not depend on the order of the rules' files, and
\* no message disappears unnoticed: of every message.
THEOREM EntriesCorrect == AlgorithmsSpec => []EntriesTrue
  <1>1. InputOK => DropsCounted
    <2> SUFFICES ASSUME InputOK, subject = "entry" PROVE DropsCounted
      BY DEF DropsCounted
    <2>1. input.form \in {"object", "text", "other_json", "binary"} /\ input.length \in Nat
      BY InputOf DEF InputOK, EntryInputs
    <2>2. input.form # Absent
      BY <2>1 DEF Absent
    <2>3. input.form # "other_json" => Attributes(input, Config)["content"] # Absent
      BY <2>2, AttributesSet
    <2>4. QED
      BY <2>1, <2>3, NothingDisappears DEF DropsCounted
  <1>2. InputOK => EntriesTrue
    BY <1>1, RulesStayIndependent DEF EntriesTrue
  <1>3. QED
    BY <1>2, InputInvariant, PTL

-----------------------------------------------------------------------------
(* The period and the pages of a query.                                    *)

\* Whichever way the override comes, no metric is asked for in shorter steps,
\* and the dimension tells of it exactly when it changed the period.
THEOREM OverrideKept ==
    ASSUME NEW samplePeriod \in Nat, NEW raw, \/ raw = {} \/ \E n \in Int : raw = {n},
           NEW linked \in BOOLEAN
    PROVE  LET period == SamplePeriod(samplePeriod, IF linked THEN {} ELSE raw)
               asked == Alignment([period |-> period, linked |-> linked,
                                   override |-> ParsedOverride(raw)])
               base == IF samplePeriod = 0 THEN 60 ELSE samplePeriod
           IN  /\ asked.seconds >= base /\ \A override \in raw : asked.seconds >= override
               /\ asked.marked <=> (asked.seconds # base)
  <1> DEFINE override == ParsedOverride(raw)
             base == IF samplePeriod = 0 THEN 60 ELSE samplePeriod
             given == IF linked THEN {} ELSE raw
             period == SamplePeriod(samplePeriod, given)
             metric == [period |-> period, linked |-> linked, override |-> override]
             asked == Alignment(metric)
  <1>1. ParsedOverride({}) = 0
    BY DEF ParsedOverride
  <1>2. override \in Nat /\ \A n \in raw : n \in Int /\ n <= override
    <2>1. CASE raw = {}
      BY <1>1, <2>1
    <2>2. ASSUME NEW n \in Int, raw = {n} PROVE override \in Nat /\ \A m \in raw : m \in Int /\ m <= override
      <3>1. (CHOOSE m \in raw : TRUE) = n
        BY <2>2
      <3>2. override = IF n > 0 THEN n ELSE 0
        BY <2>2, <3>1 DEF ParsedOverride
      <3>3. QED
        BY <2>2, <3>2
    <2>3. QED
      BY <2>1, <2>2
  <1>3. base \in Nat /\ base > 0
    OBVIOUS
  <1> HIDE DEF override, base
  <1>4. period = IF ~linked /\ override > 0 /\ base < override
                 THEN [seconds |-> override, overridden |-> TRUE]
                 ELSE [seconds |-> base, overridden |-> FALSE]
    <2>1. CASE linked
      BY <1>1, <2>1 DEF SamplePeriod, base
    <2>2. CASE ~linked
      BY <2>2 DEF SamplePeriod, base, override
    <2>3. QED
      BY <2>1, <2>2
  <1> HIDE DEF period
  <1>5. asked = IF linked /\ override > 0 /\ period.seconds < override
                THEN [seconds |-> override, marked |-> TRUE]
                ELSE [seconds |-> period.seconds, marked |-> period.overridden]
    BY DEF Alignment
  <1> HIDE DEF asked
  <1>6. asked = IF override > 0 /\ base < override
                THEN [seconds |-> override, marked |-> TRUE]
                ELSE [seconds |-> base, marked |-> FALSE]
    BY <1>2, <1>3, <1>4, <1>5
  <1>7. CASE override > 0 /\ base < override
    <2>1. asked.seconds = override /\ asked.marked = TRUE
      BY <1>6, <1>7
    <2>2. QED
      BY <1>2, <1>3, <1>7, <2>1 DEF asked, period, base, override
  <1>8. CASE ~(override > 0 /\ base < override)
    <2>1. asked.seconds = base /\ asked.marked = FALSE
      BY <1>6, <1>8
    <2>2. QED
      BY <1>2, <1>3, <1>8, <2>1 DEF asked, period, base, override
  <1>9. QED
    BY <1>7, <1>8

LEMMA OverridesHonoured == InputOK => OverrideHonoured
  <1> SUFFICES ASSUME InputOK, subject = "period" PROVE OverrideHonoured
    BY DEF OverrideHonoured
  <1>1. /\ input.samplePeriod \in Nat /\ input.linked \in BOOLEAN
        /\ input.raw = {} \/ \E n \in Int : input.raw = {n}
    BY InputOf DEF InputOK, PeriodInputs
  <1>2. QED
    BY <1>1, OverrideKept DEF OverrideHonoured

-----------------------------------------------------------------------------
(* Excluded dimensions.                                                    *)

\* A list of series of a tally.
IsTally(series) == series \in [DOMAIN series -> Int]
Lists(list, series, group) ==
    /\ IsTally(series) /\ list \in Seq(DOMAIN series)
    /\ list = SetToSeq(group)

\* What the series of a list add up to after each of them.
LEMMA SumOfFold ==
    ASSUME NEW series, NEW group, NEW list, Lists(list, series, group)
    PROVE  \E f \in [0..Len(list) -> Int] :
              /\ f[0] = 0
              /\ \A k \in 1..Len(list) : f[k] = f[k - 1] + series[list[k]]
              /\ SumOf(series, group) = f[Len(list)]
  <1> DEFINE len == Len(list)
             V == Int
             start == 0
             D == SUBSET DOMAIN list
             step == [i \in 1..len |-> [a \in V |-> a + series[list[i]]]]
             Rec(g) == g = [s \in D |->
                               IF s = {} THEN 0
                               ELSE g[s \ {Max(s)}] + series[list[Max(s)]]]
             g == CHOOSE g : Rec(g)
             total == SumOf(series, group)
  <1>0. len \in Nat /\ DOMAIN list = 1..len
    BY DEF Lists
  <1>1. total = g[DOMAIN list]
    BY DEF SumOf, Lists, FoldLeft, MapThenFoldSet
  <1>2. start \in V /\ \A i \in 1..len : \A a \in V : a + series[list[i]] \in V
    BY <1>0 DEF Lists, IsTally
  <1>3. PICK h : FoldsTo(h, V, start, step, len)
    <2>1. step \in Steps(V, len)
      BY <1>2 DEF Steps
    <2> HIDE DEF step, len, start, V
    <2>2. QED
      BY <1>0, <1>2, <2>1, FoldExists
  <1>4. Rec(h)
    <2>1. /\ h \in [D -> V]
          /\ \A s \in D : h[s] = IF s = {} THEN start ELSE step[Max(s)][h[s \ {Max(s)}]]
      BY <1>0, <1>3 DEF FoldsTo
    <2>2. ASSUME NEW s \in D, s # {}
          PROVE  step[Max(s)][h[s \ {Max(s)}]] = h[s \ {Max(s)}] + series[list[Max(s)]]
      <3>1. Max(s) \in 1..len
        BY <1>0, <2>2, MaxOfSubset
      <3>2. h[s \ {Max(s)}] \in V
        BY <2>1
      <3> HIDE DEF V
      <3>3. QED
        BY <3>1, <3>2
    <2> HIDE DEF step, D, V
    <2>3. QED
      BY <2>1, <2>2
  <1>5. Rec(g)
    <2> HIDE DEF Rec
    <2>1. QED
      BY <1>4
  <1>6. \A k \in 1..len : g[1..k] = g[1..(k - 1)] + series[list[k]]
    <2> SUFFICES ASSUME NEW k \in 1..len
                 PROVE  g[1..k] = g[1..(k - 1)] + series[list[k]]
      OBVIOUS
    <2>1. k \in Nat /\ k # 0
      BY <1>0
    <2>2. Max(1..k) = k /\ (1..k) \ {k} = 1..(k - 1) /\ 1..k # {}
      BY <2>1, GreatestFacts
    <2>3. 1..k \in D
      BY <1>0
    <2> HIDE DEF D, g
    <2>4. QED
      BY <1>5, <2>2, <2>3
  <1>7. g[1..0] = start
    <2>1. 1..0 \in D /\ 1..0 = {}
      BY <1>0
    <2> HIDE DEF D, g
    <2>2. QED
      BY <1>5, <2>1
  <1> DEFINE f == [k \in 0..len |-> g[1..k]]
             T == {k \in 0..len : f[k] \in V}
  <1> HIDE DEF g, len
  <1>8. f[0] = start /\ (\A k \in 1..len : f[k] = f[k - 1] + series[list[k]])
    BY <1>0, <1>6, <1>7
  <1>9. \A k \in 0..len : f[k] \in V
    <2> HIDE DEF f, V, start
    <2>1. 0 \in T
      BY <1>0, <1>2, <1>8
    <2>2. ASSUME NEW k \in 1..len, k - 1 \in T PROVE k \in T
      <3>1. f[k - 1] \in V /\ k \in 0..len
        BY <1>0, <2>2
      <3>2. f[k - 1] + series[list[k]] \in V
        BY <1>2, <3>1
      <3>3. QED
        BY <1>8, <3>1, <3>2
    <2> HIDE DEF T
    <2>3. \A k \in 0..len : k \in T
      BY <1>0, <2>1, <2>2, InductionUpTo
    <2>4. QED
      BY <2>3 DEF T
  <1>10. f \in [0..len -> V] /\ total = f[len]
    <2> HIDE DEF total
    <2>1. QED
      BY <1>0, <1>1, <1>9
  <1>11. QED
    BY <1>8, <1>10 DEF len

\* One series adds up to what it counts.
LEMMA SumOfOne ==
    ASSUME NEW series, IsTally(series), NEW labels \in DOMAIN series
    PROVE  SumOf(series, {labels}) = series[labels]
  <1> DEFINE list == SetToSeq({labels})
  <1>1. list \in Seq({labels}) /\ Len(list) = 1
    BY FS_Singleton, SetToSeqType
  <1>2. list \in Seq(DOMAIN series) /\ list[1] = labels
    BY <1>1
  <1>3. Lists(list, series, {labels})
    BY <1>2 DEF Lists
  <1> HIDE DEF list
  <1>4. PICK f \in [0..Len(list) -> Int] :
              /\ f[0] = 0
              /\ \A k \in 1..Len(list) : f[k] = f[k - 1] + series[list[k]]
              /\ SumOf(series, {labels}) = f[Len(list)]
    BY <1>3, SumOfFold
  <1>5. f[1] = f[0] + series[list[1]]
    BY <1>1, <1>4
  <1>6. QED
    BY <1>1, <1>2, <1>4, <1>5 DEF IsTally

\* Labels are functions; cutting them again, or cutting none, changes nothing.
IsLabels(labels) == labels = [l \in DOMAIN labels |-> labels[l]]

LEMMA KeptFacts ==
    ASSUME NEW labels, IsLabels(labels), NEW excluded
    PROVE  /\ Kept(labels, {}) = labels
           /\ Kept(Kept(labels, excluded), excluded) = Kept(labels, excluded)
           /\ IsLabels(Kept(labels, excluded))
  <1>1. Kept(labels, {}) = labels
    BY DEF Kept, IsLabels
  <1>2. Kept(Kept(labels, excluded), excluded) = Kept(labels, excluded)
    BY DEF Kept
  <1>3. IsLabels(Kept(labels, excluded))
    BY DEF Kept, IsLabels
  <1>4. QED
    BY <1>1, <1>2, <1>3

\* Cutting labels that the entities' ids are not made of leaves the ids alone.
LEMMA EntityOfKept ==
    ASSUME NEW labels, NEW N, NEW named \in Seq(N),
           NEW excluded, \A k \in 1..Len(named) : named[k] \notin excluded
    PROVE  Entity(Kept(labels, excluded), named) = Entity(labels, named)
  <1> DEFINE cut == Kept(labels, excluded)
             P == {"service"} \union {labels[l] : l \in DOMAIN labels}
  <1>1. /\ DOMAIN cut = DOMAIN labels \ excluded
        /\ \A l \in DOMAIN cut : cut[l] = labels[l]
    BY DEF Kept
  <1>2. /\ "service" \in P
        /\ \A l \in DOMAIN labels : labels[l] \in P
        /\ \A l \in DOMAIN cut : cut[l] \in P
    BY <1>1
  <1> HIDE DEF cut, P
  <1>3. PICK f : IdParts(f, P, "service", named, DOMAIN labels, labels)
    BY <1>2, EntityIdParts
  <1>4. PICK g : IdParts(g, P, "service", named, DOMAIN cut, cut)
    BY <1>2, EntityIdParts
  <1> DEFINE T == {k \in 0..Len(named) : f[k] = g[k]}
  <1>5. Len(named) \in Nat /\ 0 \in 0..Len(named)
    OBVIOUS
  <1>6. 0 \in T
    <2>1. f[0] = g[0]
      BY <1>3, <1>4 DEF IdParts
    <2>2. QED
      BY <1>5, <2>1
  <1>7. ASSUME NEW k \in 1..Len(named), k - 1 \in T PROVE k \in T
    <2>1. f[k - 1] = g[k - 1] /\ k \in 0..Len(named)
      BY <1>5, <1>7
    <2>2. named[k] \in DOMAIN cut <=> named[k] \in DOMAIN labels
      BY <1>1
    <2>3. f[k] = g[k]
      BY <1>1, <1>3, <1>4, <2>1, <2>2 DEF IdParts
    <2>4. QED
      BY <2>1, <2>3
  <1> HIDE DEF T
  <1>8. \A k \in 0..Len(named) : k \in T
    BY <1>5, <1>6, <1>7, InductionUpTo
  <1>9. f[Len(named)] = g[Len(named)]
    BY <1>5, <1>8 DEF T
  <1>10. QED
    BY <1>3, <1>4, <1>9, LineIdIsEntityId DEF Entity, IdParts, cut

\* What the lines of a query should be: ExcludedDimensionsAddUp, of any series.
EachSeriesOnce(sent, series, kind, excluded, named) ==
    \A labels \in DOMAIN series : \E line \in sent : \A other \in sent :
        labels \in StandsFor(other, series, kind, excluded, named) <=> other = line
Figure(series, kind, type, group) ==
    IF kind = "gauge" /\ type # "distribution" THEN AverageOf(series, group)
    ELSE SumOf(series, group)
SaysItsSeries(sent, series, kind, type, excluded, named) ==
    \A line \in sent :
        /\ line.value = Figure(series, kind, type, StandsFor(line, series, kind, excluded, named))
        /\ StandsFor(line, series, kind, excluded, named) # {}
TwinsOfEntities(sent, kind, excluded, named) ==
    \A a, b \in sent : a # b /\ a.dimensions = b.dimensions =>
        /\ a.entity # b.entity
        /\ kind = "cumulative"
        /\ ToSet(named) \intersect excluded # {}
LinesAddUp(sent, series, kind, type, excluded, named) ==
    /\ EachSeriesOnce(sent, series, kind, excluded, named)
    /\ SaysItsSeries(sent, series, kind, type, excluded, named)
    /\ TwinsOfEntities(sent, kind, excluded, named)

\* The line of a set of labels says what they are under the exclusion.
LEMMA LineOfKey ==
    ASSUME NEW labels, NEW excluded, NEW named, NEW value, NEW group
    PROVE  LET line == Line(KeyOf(labels, excluded, named), value, group)
           IN  /\ line.entity = Entity(labels, named)
               /\ line.dimensions = Kept(labels, excluded)
               /\ line.value = value
  BY DEF Line, KeyOf

\* Cloud Monitoring has added the series up: a line for each set of labels.
LEMMA ReducedLines ==
    ASSUME NEW S, NEW series \in [S -> Int], \A labels \in S : IsLabels(labels),
           NEW excluded, NEW named, NEW kind \in {"gauge", "delta"},
           NEW type \in {"int64", "double", "distribution"}
    PROVE  LinesAddUp(Lines(series, kind, type, excluded, named),
                      series, kind, type, excluded, named)
  <1> DEFINE sent == Lines(series, kind, type, excluded, named)
             sets == {Kept(labels, excluded) : labels \in S}
             group(d) == GroupedBy(series, excluded, d)
             value(d) == Figure(series, kind, type, group(d))
             returned == Returned(series, excluded, Reducer(kind, type))
             line(d) == Line(KeyOf(d, excluded, named), returned[d], {d})
             of(l) == StandsFor(l, series, kind, excluded, named)
  <1>1. DOMAIN series = S
    OBVIOUS
  <1>2. /\ ~Aggregates(kind, type, excluded) /\ kind # "cumulative"
        /\ Reducer(kind, type) = IF kind = "gauge" /\ type # "distribution" THEN "mean" ELSE "sum"
    BY DEF Aggregates, Reducer
  <1>3. returned = [d \in sets |-> value(d)]
    BY <1>1, <1>2 DEF Returned, Figure
  <1>4. sent = {line(d) : d \in sets}
    <2>1. DOMAIN returned = sets
      BY <1>3
    <2>2. sent = {line(d) : d \in DOMAIN returned}
      BY <1>2 DEF Lines
    <2> HIDE DEF sent, returned, sets
    <2>3. QED
      BY <2>1, <2>2
  <1>5. \A d \in sets : returned[d] = value(d)
    BY <1>3
  <1>6. \A d \in sets : line(d).dimensions = Kept(d, excluded) /\ line(d).value = value(d)
    <2> HIDE DEF returned, value, sets
    <2>1. QED
      BY <1>5, LineOfKey
  <1>7. \A d \in sets : Kept(d, excluded) = d
    BY KeptFacts
  <1>8. \A l : of(l) = group(l.dimensions)
    BY <1>2 DEF StandsFor, GroupedBy
  <1>9. \A labels, d : labels \in group(d) <=> labels \in S /\ Kept(labels, excluded) = d
    BY <1>1 DEF GroupedBy
  <1>10. \A d \in sets : line(d) \in sent /\ of(line(d)) = group(d)
                         /\ line(d).dimensions = d /\ line(d).value = value(d)
    <2> HIDE DEF sets, line, of, group, value, sent
    <2>1. QED
      BY <1>4, <1>6, <1>7, <1>8
  <1>11. \A labels \in S : Kept(labels, excluded) \in sets
    OBVIOUS
  <1>12. \A d \in sets : \E labels \in S : Kept(labels, excluded) = d
    OBVIOUS
  <1> HIDE DEF sent, sets, group, value, returned, line, of
  <1>13. \A labels \in S : \E l \in sent : \A other \in sent : labels \in of(other) <=> other = l
    <2> TAKE labels \in S
    <2> DEFINE cut == Kept(labels, excluded)
    <2>1. cut \in sets
      BY <1>11
    <2>2. line(cut) \in sent
      BY <1>10, <2>1
    <2>3. ASSUME NEW other \in sent
          PROVE  labels \in of(other) <=> other = line(cut)
      <3>1. PICK d \in sets : other = line(d)
        BY <1>4
      <3>2. labels \in of(other) <=> d = cut
        BY <1>9, <1>10, <3>1
      <3>3. other = line(cut) => d = cut
        BY <1>10, <2>1, <3>1
      <3> HIDE DEF cut
      <3>4. QED
        BY <3>1, <3>2, <3>3
    <2> HIDE DEF cut
    <2>4. QED
      BY <2>2, <2>3
  <1>14. \A l \in sent : l.value = Figure(series, kind, type, of(l)) /\ of(l) # {}
    <2> TAKE l \in sent
    <2>1. PICK d \in sets : l = line(d)
      BY <1>4
    <2>2. l.value = value(d) /\ of(l) = group(d)
      BY <1>10, <2>1
    <2>3. group(d) # {}
      BY <1>9, <1>12
    <2>4. QED
      BY <2>2, <2>3 DEF value
  <1>15. \A a, b \in sent : a.dimensions = b.dimensions => a = b
    BY <1>4, <1>10
  <1>16. QED
    BY <1>1, <1>13, <1>14, <1>15
    DEF LinesAddUp, EachSeriesOnce, SaysItsSeries, TwinsOfEntities, of, sent

\* The program adds up what has one key, in lines of one entity each.
LEMMA AggregatedLinesAddUp ==
    ASSUME NEW S, NEW series \in [S -> Int], NEW excluded, NEW N, NEW named \in Seq(N),
           NEW type
    PROVE  LinesAddUp(AggregatedLines(series, excluded, named),
                      series, "cumulative", type, excluded, named)
  <1> DEFINE sent == AggregatedLines(series, excluded, named)
             key(m) == KeyOf(m, excluded, named)
             group(m) == SameKey(series, excluded, named, m)
             line(m) == Line(key(m), SumOf(series, group(m)), group(m))
             of(l) == StandsFor(l, series, "cumulative", excluded, named)
  <1>1. DOMAIN series = S
    OBVIOUS
  <1>2. sent = {line(m) : m \in S}
    BY <1>1 DEF AggregatedLines
  <1>3. \A m : /\ line(m).entity = Entity(m, named) /\ line(m).dimensions = Kept(m, excluded)
               /\ line(m).value = SumOf(series, group(m))
    <2> HIDE DEF group
    <2>1. QED
      BY LineOfKey
  <1>4. \A m, n : key(m) = key(n) <=> /\ Entity(m, named) = Entity(n, named)
                                      /\ Kept(m, excluded) = Kept(n, excluded)
    BY DEF KeyOf
  <1>5. \A m, n : n \in group(m) <=> n \in S /\ key(n) = key(m)
    BY <1>1 DEF SameKey
  <1>6. \A l, n : n \in of(l) <=> /\ n \in S /\ Kept(n, excluded) = l.dimensions
                                  /\ Entity(n, named) = l.entity
    BY <1>1 DEF StandsFor
  <1>7. \A m, n \in S : key(m) = key(n) => line(m) = line(n)
    BY DEF SameKey
  <1>8. \A m : group(m) = SameKey(series, excluded, named, m)
    OBVIOUS
  <1> HIDE DEF sent, key, group, line, of
  <1>9. \A m, n : n \in of(line(m)) <=> n \in group(m)
    BY <1>3, <1>4, <1>5, <1>6
  <1>10. \A m : of(line(m)) = group(m)
    <2> TAKE m
    <2> DEFINE A == of(line(m))
               B == group(m)
    <2>1. A \subseteq B /\ B \subseteq A
      BY <1>9
    <2> HIDE DEF A, B
    <2>2. A = B
      BY <2>1
    <2>3. QED
      BY <2>2 DEF A, B
  <1>11. \A labels \in S : \E l \in sent : \A other \in sent : labels \in of(other) <=> other = l
    <2> TAKE labels \in S
    <2>1. line(labels) \in sent
      BY <1>2
    <2> WITNESS line(labels) \in sent
    <2> TAKE other \in sent
    <2>2. PICK m \in S : other = line(m)
      BY <1>2
    <2>3. labels \in of(other) <=> key(labels) = key(m)
      BY <1>5, <1>9, <2>2
    <2>4. other = line(labels) => key(labels) = key(m)
      BY <1>3, <1>4, <2>2
    <2>5. QED
      BY <1>7, <2>2, <2>3, <2>4
  <1>12. \A l \in sent : l.value = SumOf(series, of(l)) /\ of(l) # {}
    <2> TAKE l \in sent
    <2>1. PICK m \in S : l = line(m)
      BY <1>2
    <2>2. of(l) = group(m) /\ m \in group(m)
      BY <1>5, <1>10, <2>1
    <2>3. QED
      BY <1>3, <2>1, <2>2
  <1>13. ASSUME NEW a \in sent, NEW b \in sent, a # b, a.dimensions = b.dimensions
         PROVE  a.entity # b.entity /\ ToSet(named) \intersect excluded # {}
    <2>1. PICK m \in S : a = line(m)
      BY <1>2
    <2>2. PICK n \in S : b = line(n)
      BY <1>2
    <2>3. Kept(m, excluded) = Kept(n, excluded)
      BY <1>3, <1>13, <2>1, <2>2
    <2>4. Entity(m, named) # Entity(n, named)
      BY <1>4, <1>7, <1>13, <2>1, <2>2, <2>3
    <2>5. ~ \A k \in 1..Len(named) : named[k] \notin excluded
      BY <2>3, <2>4, EntityOfKept
    <2>6. ToSet(named) \intersect excluded # {}
      BY <2>5 DEF ToSet
    <2>7. QED
      BY <1>3, <2>1, <2>2, <2>4, <2>6
  <1>14. EachSeriesOnce(sent, series, "cumulative", excluded, named)
    BY <1>1, <1>11 DEF EachSeriesOnce, of
  <1>15. SaysItsSeries(sent, series, "cumulative", type, excluded, named)
    BY <1>12 DEF SaysItsSeries, Figure, of
  <1>16. TwinsOfEntities(sent, "cumulative", excluded, named)
    BY <1>13 DEF TwinsOfEntities
  <1>17. QED
    BY <1>14, <1>15, <1>16 DEF LinesAddUp, sent

\* With nothing cut each series has its line.
LEMMA PlainLinesAddUp ==
    ASSUME NEW S, NEW series \in [S -> Int], \A labels \in S : IsLabels(labels),
           NEW named, NEW type \in {"int64", "double", "distribution"}
    PROVE  LinesAddUp(Lines(series, "cumulative", type, {}, named),
                      series, "cumulative", type, {}, named)
  <1> DEFINE sent == Lines(series, "cumulative", type, {}, named)
             line(m) == Line(KeyOf(m, {}, named), series[m], {m})
             of(l) == StandsFor(l, series, "cumulative", {}, named)
  <1>1. DOMAIN series = S /\ IsTally(series)
    BY DEF IsTally
  <1>2. ~Aggregates("cumulative", type, {}) /\ Reducer("cumulative", type) = "none"
    BY DEF Aggregates, Reducer
  <1>3. sent = {line(m) : m \in S}
    BY <1>1, <1>2 DEF Lines, Returned
  <1>4. \A m \in S : Kept(m, {}) = m
    BY KeptFacts
  <1>5. \A m \in S : /\ line(m).entity = Entity(m, named) /\ line(m).dimensions = m
                     /\ line(m).value = series[m]
    BY <1>4, LineOfKey
  <1>6. \A l, n : n \in of(l) <=> /\ n \in S /\ Kept(n, {}) = l.dimensions
                                  /\ Entity(n, named) = l.entity
    BY <1>1 DEF StandsFor
  <1> HIDE DEF sent, line, of
  <1>7. \A m \in S : of(line(m)) = {m}
    BY <1>4, <1>5, <1>6
  <1>8. \A m \in S : SumOf(series, {m}) = series[m]
    BY <1>1, SumOfOne
  <1>9. EachSeriesOnce(sent, series, "cumulative", {}, named)
    <2>1. \A m \in S : line(m) \in sent /\ \A other \in sent : m \in of(other) <=> other = line(m)
      BY <1>3, <1>5, <1>7
    <2>2. QED
      BY <1>1, <2>1 DEF EachSeriesOnce, of
  <1>10. SaysItsSeries(sent, series, "cumulative", type, {}, named)
    <2>1. \A l \in sent : l.value = SumOf(series, of(l)) /\ of(l) # {}
      BY <1>3, <1>5, <1>7, <1>8
    <2>2. QED
      BY <2>1 DEF SaysItsSeries, Figure, of
  <1>11. TwinsOfEntities(sent, "cumulative", {}, named)
    BY <1>3, <1>5 DEF TwinsOfEntities
  <1>12. QED
    BY <1>9, <1>10, <1>11 DEF LinesAddUp, sent

\* Cutting dimensions loses no series, counts none twice and changes nothing of
\* what the lines add up to, for any labels, values and exclusion; two lines end
\* up with the same dimensions only when they are of different entities of a
\* cumulative metric, and what names the entities is cut.
THEOREM CutLinesAddUp ==
    ASSUME NEW S, NEW series \in [S -> Int], \A labels \in S : IsLabels(labels),
           NEW excluded, NEW N, NEW named \in Seq(N),
           NEW kind \in {"cumulative", "gauge", "delta"},
           NEW type \in {"int64", "double", "distribution"}
    PROVE  LinesAddUp(Lines(series, kind, type, excluded, named),
                      series, kind, type, excluded, named)
  <1>1. CASE kind # "cumulative"
    BY <1>1, ReducedLines
  <1>2. CASE kind = "cumulative" /\ excluded # {}
    <2>1. Aggregates(kind, type, excluded) /\ Reducer(kind, type) = "none"
      BY <1>2 DEF Aggregates, Reducer
    <2>2. Lines(series, kind, type, excluded, named) = AggregatedLines(series, excluded, named)
      BY <2>1 DEF Lines, Returned
    <2>3. QED
      BY <1>2, <2>2, AggregatedLinesAddUp
  <1>3. CASE kind = "cumulative" /\ excluded = {}
    BY <1>3, PlainLinesAddUp
  <1>4. QED
    BY <1>1, <1>2, <1>3

LEMMA CutsAddUp == InputOK => ExcludedDimensionsAddUp
  <1> SUFFICES ASSUME InputOK, subject = "series" PROVE ExcludedDimensionsAddUp
    BY DEF ExcludedDimensionsAddUp
  <1>1. input \in SeriesInputs
    BY InputOf DEF InputOK
  <1>2. /\ input.kind \in {"cumulative", "gauge", "delta"}
        /\ input.type \in {"int64", "double", "distribution"}
        /\ input.series \in UNION {[S -> {1, 2}] : S \in SUBSET LabelSets}
        /\ input.named \in {<<>>, <<"zone">>, <<"zone", "kind">>}
    BY <1>1 DEF SeriesInputs
  <1>3. PICK S \in SUBSET LabelSets : input.series \in [S -> {1, 2}]
    BY <1>2
  <1>4. input.series \in [S -> Int] /\ \A labels \in S : IsLabels(labels)
    BY <1>3 DEF LabelSets, IsLabels
  <1>5. input.named \in Seq({"zone", "kind"})
    <2>1. CASE input.named = <<>>
      BY <2>1
    <2>2. CASE input.named = <<"zone">>
      BY <2>2
    <2>3. CASE input.named = <<"zone", "kind">>
      BY <2>3
    <2>4. QED
      BY <1>2, <2>1, <2>2, <2>3
  <1>6. LinesAddUp(Lines(input.series, input.kind, input.type, input.excluded, input.named),
                   input.series, input.kind, input.type, input.excluded, input.named)
    <2> DEFINE series == input.series
               named == input.named
               kind == input.kind
               type == input.type
    <2>1. /\ series \in [S -> Int] /\ \A labels \in S : IsLabels(labels)
          /\ named \in Seq({"zone", "kind"})
          /\ kind \in {"cumulative", "gauge", "delta"}
          /\ type \in {"int64", "double", "distribution"}
      BY <1>2, <1>4, <1>5
    <2> HIDE DEF series, named, kind, type
    <2>2. LinesAddUp(Lines(series, kind, type, input.excluded, named),
                     series, kind, type, input.excluded, named)
      BY <2>1, CutLinesAddUp
    <2>3. QED
      BY <2>2 DEF series, named, kind, type
  <1>7. QED
    BY <1>6 DEF ExcludedDimensionsAddUp, LinesAddUp, EachSeriesOnce, SaysItsSeries,
                Figure, TwinsOfEntities

-----------------------------------------------------------------------------
(* The pages of a query.                                                   *)

\* The pages of a query: an error document has no series.
ArePages(pages, S) ==
    /\ pages \in Seq([error : BOOLEAN, series : Seq(S)])
    /\ \A n \in DOMAIN pages : pages[n].error => pages[n].series = <<>>

\* The parameters that ask for a page, and what a query can become.
ParamsOf(page) == IF page = 1 THEN <<>> ELSE <<<<"pageToken", page>>>>
Queries(pages, S) ==
    [end : {"reading", "raised", "read"}, series : Seq(S),
     params : {ParamsOf(page) : page \in DOMAIN pages}]
Turns(pages) == [n \in 1..(Len(pages) + 1) |-> n]

\* A page leads to the next one.
LEMMA ParamsFacts ==
    ASSUME NEW page \in Nat \ {0}
    PROVE  /\ PageAsked(ParamsOf(page)) = page
           /\ NextParams(ParamsOf(page), page + 1) = ParamsOf(page + 1)
  <1> DEFINE params == ParamsOf(page)
             token == <<"pageToken", page>>
             next_token == <<"pageToken", page + 1>>
  <1>0. ParamsOf(page + 1) = <<next_token>>
    BY DEF ParamsOf
  <1>1. CASE page = 1
    <2>1. params = <<>>
      BY <1>1 DEF ParamsOf
    <2>2. ~HasToken(params)
      BY <2>1 DEF HasToken
    <2>3. PageAsked(params) = 1
      BY <2>2 DEF PageAsked
    <2>4. NextParams(params, page + 1) = Append(params, next_token)
      BY <2>2 DEF NextParams
    <2> HIDE DEF next_token
    <2>5. QED
      BY <1>0, <1>1, <2>1, <2>3, <2>4
  <1>2. CASE page # 1
    <2>1. params = <<token>>
      BY <1>2 DEF ParamsOf
    <2>2. DOMAIN params = {1} /\ params[1] = token /\ token[1] = "pageToken" /\ token[2] = page
      BY <2>1
    <2> HIDE DEF params, token, next_token
    <2>3. HasToken(params)
      BY <2>2 DEF HasToken
    <2>4. FirstToken(params) = 1
      BY <2>2 DEF FirstToken
    <2>5. PageAsked(params) = page
      BY <2>2, <2>3, <2>4 DEF PageAsked
    <2>6. NextParams(params, page + 1) = [params EXCEPT ![1] = next_token]
      BY <2>3, <2>4 DEF NextParams, next_token
    <2>7. [params EXCEPT ![1] = next_token] = <<next_token>>
      BY <2>1
    <2>8. QED
      BY <1>0, <2>5, <2>6, <2>7 DEF params
  <1>3. QED
    BY <1>1, <1>2

\* A query that has ended stays as it is.
LEMMA RequestEnded ==
    ASSUME NEW pages, NEW query, query.end # "reading"
    PROVE  Request(query, pages) = query
  BY DEF Request

\* What a query that is reading becomes with the page it asks for.
NowRaised(before, after) == after.end = "raised" /\ after.series = <<>>
NowRead(before, after) == after.end = "read" /\ after.series = before.series
NowAfter(before, after, n, pages) ==
    /\ after.series = before.series \o pages[n].series
    /\ IF n = Len(pages) THEN after.end = "read"
       ELSE after.end = "reading" /\ after.params = ParamsOf(n + 1)

\* A query that is reading reads the page it asks for.
LEMMA RequestOf ==
    ASSUME NEW S, NEW pages, ArePages(pages, S), NEW query, query \in Queries(pages, S),
           NEW n, n \in DOMAIN pages, query.end = "reading", query.params = ParamsOf(n)
    PROVE  /\ Request(query, pages) \in Queries(pages, S)
           /\ IF pages[n].error THEN NowRaised(query, Request(query, pages))
              ELSE IF pages[n].series = <<>> THEN NowRead(query, Request(query, pages))
              ELSE NowAfter(query, Request(query, pages), n, pages)
  <1> DEFINE asked == PageAsked(query.params)
             now == pages[asked]
             answer == Request(query, pages)
  <1>1. DOMAIN pages = 1..Len(pages) /\ Len(pages) \in Nat
    BY DEF ArePages
  <1>2. /\ query.series \in Seq(S)
        /\ query = [end |-> query.end, series |-> query.series, params |-> query.params]
    BY DEF Queries
  <1>3. asked = n /\ n \in 1..Len(pages)
    <2>1. n \in Nat \ {0}
      BY <1>1
    <2>2. QED
      BY <1>1, <2>1, ParamsFacts
  <1>4. now.series \in Seq(S) /\ now.error \in BOOLEAN /\ (now.error => now.series = <<>>)
    <2> DEFINE A == [error : BOOLEAN, series : Seq(S)]
    <2>1. pages \in Seq(A)
      BY DEF ArePages
    <2>2. pages[n] \in A
      <3> HIDE DEF A
      <3>1. QED
        BY <1>3, <2>1
    <2>3. pages[n].error => pages[n].series = <<>>
      BY DEF ArePages
    <2>4. QED
      BY <1>3, <2>2, <2>3
  <1>5. query.params \in {ParamsOf(m) : m \in DOMAIN pages} /\ <<>> \in Seq(S)
    OBVIOUS
  <1>6. CASE now.error
    <2>1. answer = [query EXCEPT !.end = "raised", !.series = <<>>]
      BY <1>6 DEF Request
    <2>2. answer = [end |-> "raised", series |-> <<>>, params |-> query.params]
      BY <1>2, <2>1
    <2> HIDE DEF answer, now
    <2>3. answer \in Queries(pages, S) /\ NowRaised(query, answer)
      BY <1>5, <2>2 DEF Queries, NowRaised
    <2>4. QED
      BY <1>3, <1>6, <2>3 DEF answer, now
  <1>7. CASE ~now.error /\ now.series = <<>>
    <2>1. answer = [query EXCEPT !.end = "read"]
      BY <1>7 DEF Request
    <2>2. answer = [end |-> "read", series |-> query.series, params |-> query.params]
      BY <1>2, <2>1
    <2> HIDE DEF answer, now
    <2>3. answer \in Queries(pages, S) /\ NowRead(query, answer)
      BY <1>2, <1>5, <2>2 DEF Queries, NowRead
    <2>4. QED
      BY <1>3, <1>7, <2>3 DEF answer, now
  <1>8. CASE ~now.error /\ now.series # <<>>
    <2>1. answer = [end |-> IF asked = Len(pages) THEN "read" ELSE "reading",
                    series |-> query.series \o now.series,
                    params |-> IF asked = Len(pages) THEN query.params
                               ELSE NextParams(query.params, asked + 1)]
      BY <1>8 DEF Request
    <2>2. NextParams(query.params, asked + 1) = ParamsOf(n + 1)
      BY <1>3, ParamsFacts
    <2>3. query.series \o now.series \in Seq(S)
      BY <1>2, <1>4
    <2>4. n # Len(pages) => n + 1 \in DOMAIN pages
      BY <1>1, <1>3
    <2> HIDE DEF answer, now, asked
    <2>5. (IF asked = Len(pages) THEN query.params ELSE NextParams(query.params, asked + 1))
               \in {ParamsOf(m) : m \in DOMAIN pages}
      BY <1>3, <1>5, <2>2, <2>4
    <2>6. answer \in Queries(pages, S)
      BY <2>1, <2>3, <2>5 DEF Queries
    <2>7. NowAfter(query, answer, n, pages)
      BY <1>3, <2>1, <2>2 DEF NowAfter, now
    <2>8. QED
      BY <1>3, <1>8, <2>6, <2>7 DEF answer, now
  <1>9. QED
    BY <1>4, <1>6, <1>7, <1>8

\* A request leads from a query to a query.
LEMMA RequestType ==
    ASSUME NEW S, NEW pages, ArePages(pages, S), NEW query, query \in Queries(pages, S)
    PROVE  Request(query, pages) \in Queries(pages, S)
  <1>1. PICK n \in DOMAIN pages : query.params = ParamsOf(n)
    BY DEF Queries
  <1>2. QED
    BY <1>1, RequestOf, RequestEnded

\* The query after each of its requests.
LEMMA ReadFold ==
    ASSUME NEW S, NEW pages, ArePages(pages, S), pages # <<>>
    PROVE  \E f \in [0..Len(pages) + 1 -> Queries(pages, S)] :
              /\ f[0] = [end |-> "reading", series |-> <<>>, params |-> <<>>]
              /\ \A k \in 1..Len(pages) + 1 : f[k] = Request(f[k - 1], pages)
              /\ Read(pages) = f[Len(pages) + 1]
  <1> DEFINE len == Len(pages) + 1
             V == Queries(pages, S)
             start == [end |-> "reading", series |-> <<>>, params |-> <<>>]
             D == SUBSET DOMAIN Turns(pages)
             step == [i \in 1..len |-> [a \in V |-> Request(a, pages)]]
             Rec(g) == g = [s \in D |->
                               IF s = {} THEN [end |-> "reading", series |-> <<>>, params |-> <<>>]
                               ELSE Request(g[s \ {Max(s)}], pages)]
             g == CHOOSE g : Rec(g)
             total == Read(pages)
  <1>0. len \in Nat /\ DOMAIN Turns(pages) = 1..len
    BY DEF ArePages, Turns
  <1>1. total = g[DOMAIN Turns(pages)]
    BY DEF Read, Turns, FoldLeft, MapThenFoldSet
  <1>2. start \in V /\ \A i \in 1..len : \A a \in V : Request(a, pages) \in V
    <2>1. 1 \in DOMAIN pages /\ ParamsOf(1) = <<>>
      BY DEF ArePages, ParamsOf
    <2>2. start \in V
      <3>1. <<>> \in {ParamsOf(page) : page \in DOMAIN pages} /\ <<>> \in Seq(S)
        BY <2>1
      <3>2. QED
        BY <3>1 DEF Queries
    <2> HIDE DEF start
    <2>3. QED
      BY <2>2, RequestType
  <1>3. PICK h : FoldsTo(h, V, start, step, len)
    <2>1. step \in Steps(V, len)
      BY <1>2 DEF Steps
    <2> HIDE DEF step, len, start, V
    <2>2. QED
      BY <1>0, <1>2, <2>1, FoldExists
  <1>4. Rec(h)
    <2>1. /\ h \in [D -> V]
          /\ \A s \in D : h[s] = IF s = {} THEN start ELSE step[Max(s)][h[s \ {Max(s)}]]
      BY <1>0, <1>3 DEF FoldsTo
    <2>2. ASSUME NEW s \in D, s # {}
          PROVE  step[Max(s)][h[s \ {Max(s)}]] = Request(h[s \ {Max(s)}], pages)
      <3>1. Max(s) \in 1..len
        BY <1>0, <2>2, MaxOfSubset
      <3>2. h[s \ {Max(s)}] \in V
        BY <2>1
      <3> HIDE DEF V
      <3>3. QED
        BY <3>1, <3>2
    <2> HIDE DEF step, D, V
    <2>3. QED
      BY <2>1, <2>2
  <1>5. Rec(g)
    <2> HIDE DEF Rec
    <2>1. QED
      BY <1>4
  <1>6. \A k \in 1..len : g[1..k] = Request(g[1..(k - 1)], pages)
    <2> SUFFICES ASSUME NEW k \in 1..len
                 PROVE  g[1..k] = Request(g[1..(k - 1)], pages)
      OBVIOUS
    <2>1. k \in Nat /\ k # 0
      BY <1>0
    <2>2. Max(1..k) = k /\ (1..k) \ {k} = 1..(k - 1) /\ 1..k # {}
      BY <2>1, GreatestFacts
    <2>3. 1..k \in D
      BY <1>0
    <2> HIDE DEF D, g
    <2>4. QED
      BY <1>5, <2>2, <2>3
  <1>7. g[1..0] = start
    <2>1. 1..0 \in D /\ 1..0 = {}
      BY <1>0
    <2> HIDE DEF D, g
    <2>2. QED
      BY <1>5, <2>1
  <1> DEFINE f == [k \in 0..len |-> g[1..k]]
             T == {k \in 0..len : f[k] \in V}
  <1> HIDE DEF g, len
  <1>8. f[0] = start /\ (\A k \in 1..len : f[k] = Request(f[k - 1], pages))
    BY <1>0, <1>6, <1>7
  <1>9. \A k \in 0..len : f[k] \in V
    <2> HIDE DEF f, V, start
    <2>1. 0 \in T
      BY <1>0, <1>2, <1>8
    <2>2. ASSUME NEW k \in 1..len, k - 1 \in T PROVE k \in T
      <3>1. f[k - 1] \in V /\ k \in 0..len
        BY <1>0, <2>2
      <3>2. Request(f[k - 1], pages) \in V
        BY <1>2, <3>1
      <3>3. QED
        BY <1>8, <3>1, <3>2
    <2> HIDE DEF T
    <2>3. \A k \in 0..len : k \in T
      BY <1>0, <2>1, <2>2, InductionUpTo
    <2>4. QED
      BY <2>3 DEF T
  <1>10. f \in [0..len -> V] /\ total = f[len]
    <2> HIDE DEF total
    <2>1. QED
      BY <1>0, <1>1, <1>9
  <1>11. QED
    BY <1>8, <1>10 DEF len

\* A query reads each page once, in order, and all of them, unless a page fails,
\* which costs the query, or a page comes without series, which ends it; for
\* any number of pages and any series.
THEOREM ReadsEachPage ==
    ASSUME NEW S, NEW pages, ArePages(pages, S), pages # <<>>
    PROVE  LET query == Read(pages)
               stops == {n \in DOMAIN pages : pages[n].series = <<>>}
               first == CHOOSE n \in stops : \A m \in stops : n <= m
               seen == IF stops = {} THEN Len(pages) ELSE first - 1
           IN  IF stops # {} /\ pages[first].error
               THEN query.end = "raised" /\ query.series = <<>>
               ELSE /\ query.end = "read"
                    /\ query.series = FlattenSeq([n \in 1..seen |-> pages[n].series])
  <1> DEFINE len == Len(pages)
             query == Read(pages)
             stops == {n \in DOMAIN pages : pages[n].series = <<>>}
             first == CHOOSE n \in stops : \A m \in stops : n <= m
             seen == IF stops = {} THEN len ELSE first - 1
             read == [n \in 1..seen |-> pages[n].series]
  <1>1. DOMAIN pages = 1..len /\ len \in Nat \ {0}
    BY DEF ArePages
  <1>2. \A n \in 1..len : /\ pages[n].series \in Seq(S) /\ pages[n].error \in BOOLEAN
                          /\ pages[n].error => pages[n].series = <<>>
    <2> DEFINE A == [error : BOOLEAN, series : Seq(S)]
    <2>1. pages \in Seq(A)
      BY DEF ArePages
    <2>2. \A n \in 1..len : pages[n] \in A
      <3> HIDE DEF A
      <3>1. QED
        BY <2>1
    <2>3. \A n \in 1..len : pages[n].error => pages[n].series = <<>>
      BY <1>1 DEF ArePages
    <2>4. QED
      BY <2>2, <2>3
  <1>3. stops # {} => first \in stops /\ \A m \in stops : first <= m
    <2> SUFFICES ASSUME stops # {} PROVE \E n \in stops : \A m \in stops : n <= m
      OBVIOUS
    <2>1. stops \in SUBSET Nat
      BY <1>1
    <2> HIDE DEF stops
    <2>2. QED
      BY <2>1, LeastOfSet
  <1>4. /\ seen \in 0..len
        /\ \A n \in 1..seen : pages[n].series # <<>>
        /\ stops # {} => first = seen + 1 /\ seen + 1 \in 1..len /\ pages[seen + 1].series = <<>>
        /\ stops = {} => seen = len
    <2>1. CASE stops = {}
      <3>1. seen = len
        BY <2>1
      <3>2. \A n \in 1..len : pages[n].series # <<>>
        BY <1>1, <2>1
      <3> HIDE DEF seen, len, stops
      <3>3. QED
        BY <1>1, <2>1, <3>1, <3>2
    <2>2. CASE stops # {}
      <3>1. first \in 1..len /\ pages[first].series = <<>> /\ seen = first - 1
        BY <1>1, <1>3, <2>2
      <3>2. \A n \in 1..len : pages[n].series = <<>> => first <= n
        BY <1>1, <1>3, <2>2
      <3> HIDE DEF seen, len, stops, first
      <3>3. QED
        BY <1>1, <2>2, <3>1, <3>2
    <2>3. QED
      BY <2>1, <2>2
  <1>5. PICK f \in [0..(len + 1) -> Queries(pages, S)] :
              /\ f[0] = [end |-> "reading", series |-> <<>>, params |-> <<>>]
              /\ \A k \in 1..(len + 1) : f[k] = Request(f[k - 1], pages)
              /\ query = f[len + 1]
    <2> HIDE DEF query
    <2>1. QED
      BY ReadFold DEF query
  <1>6. /\ read \in Seq(Seq(S)) /\ Len(read) = seen
        /\ \A n \in 1..seen : read[n] = pages[n].series
    <2>1. \A n \in 1..seen : pages[n].series \in Seq(S)
      BY <1>1, <1>2, <1>4
    <2>2. seen \in Nat
      BY <1>1, <1>4
    <2> HIDE DEF seen
    <2>3. QED
      BY <2>1, <2>2
  <1> HIDE DEF read
  <1>7. PICK g \in [0..seen -> Seq(S)] :
              /\ g[0] = <<>>
              /\ \A k \in 1..seen : g[k] = g[k - 1] \o read[k]
              /\ FlattenSeq(read) = g[seen]
    <2> HIDE DEF seen
    <2>1. QED
      BY <1>6, FlattenFold
  <1> HIDE DEF seen, query, len, stops, first
  <1> DEFINE T == {k \in 0..seen : /\ f[k].series = g[k]
                                   /\ IF k = len THEN f[k].end = "read"
                                      ELSE f[k].end = "reading" /\ f[k].params = ParamsOf(k + 1)}
  <1>8. \A k \in 0..seen : k \in T
    <2>1. 0 \in T
      <3>1. ParamsOf(0 + 1) = <<>>
        BY DEF ParamsOf
      <3>2. f[0].series = <<>> /\ f[0].end = "reading" /\ f[0].params = <<>>
        BY <1>5
      <3>3. QED
        BY <1>1, <1>4, <1>7, <3>1, <3>2
    <2>2. ASSUME NEW k \in 1..seen, k - 1 \in T PROVE k \in T
      <3>1. /\ k \in 1..len /\ k \in 1..(len + 1) /\ k - 1 \in 0..(len + 1) /\ k \in 0..seen
            /\ k - 1 # len /\ (k - 1) + 1 = k /\ k \in DOMAIN pages
        BY <1>1, <1>4
      <3>2. f[k - 1].end = "reading" /\ f[k - 1].params = ParamsOf(k) /\ f[k - 1].series = g[k - 1]
        BY <2>2, <3>1
      <3>3. f[k - 1] \in Queries(pages, S)
        BY <1>5, <3>1
      <3>4. f[k] = Request(f[k - 1], pages) /\ pages[k].series # <<>>
        BY <1>4, <1>5, <3>1
      <3>5. /\ f[k].series = f[k - 1].series \o pages[k].series
            /\ IF k = len THEN f[k].end = "read"
               ELSE f[k].end = "reading" /\ f[k].params = ParamsOf(k + 1)
        <4> DEFINE q == f[k - 1]
        <4>1. q \in Queries(pages, S) /\ k \in DOMAIN pages /\ q.end = "reading" /\ q.params = ParamsOf(k)
          BY <3>1, <3>2, <3>3
        <4> HIDE DEF q
        <4>2. NowAfter(q, Request(q, pages), k, pages)
          <5>1. ~pages[k].error
            BY <1>2, <3>1, <3>4
          <5>2. QED
            BY <3>4, <4>1, <5>1, RequestOf
        <4>3. QED
          BY <3>4, <4>2 DEF q, len, NowAfter
      <3>6. g[k] = g[k - 1] \o pages[k].series
        BY <1>6, <1>7
      <3>7. QED
        BY <3>1, <3>2, <3>5, <3>6
    <2> HIDE DEF T
    <2>3. seen \in Nat
      BY <1>1, <1>4
    <2>4. QED
      BY <2>1, <2>2, <2>3, InductionUpTo
  <1>9. f[seen].series = g[seen] /\ seen \in 0..(len + 1)
        /\ IF seen = len THEN f[seen].end = "read"
           ELSE f[seen].end = "reading" /\ f[seen].params = ParamsOf(seen + 1)
    BY <1>1, <1>4, <1>8
  <1>10. CASE stops = {}
    <2>1. seen = len /\ f[len].end = "read"
      BY <1>4, <1>9, <1>10
    <2>2. f[len + 1] = Request(f[len], pages) /\ f[len] \in Queries(pages, S)
      <3>1. len + 1 \in 1..(len + 1) /\ (len + 1) - 1 = len /\ len \in 0..(len + 1)
        BY <1>1
      <3>2. QED
        BY <1>5, <3>1
    <2>3. query = f[len]
      BY <1>5, <2>1, <2>2, RequestEnded
    <2>4. query.end = "read" /\ query.series = FlattenSeq(read)
      BY <1>7, <1>9, <2>1, <2>3
    <2>5. QED
      BY <1>10, <2>4 DEF query, stops, first, seen, read, len
  <1>11. CASE stops # {}
    <2> DEFINE n == seen + 1
    <2>1. /\ n \in 1..len /\ n \in DOMAIN pages /\ pages[n].series = <<>> /\ first = n
          /\ seen # len /\ n \in 1..(len + 1) /\ n - 1 = seen /\ n \in Nat /\ n \in 0..(len + 1)
      BY <1>1, <1>4, <1>11
    <2>2. f[n] = Request(f[seen], pages) /\ f[seen] \in Queries(pages, S)
      BY <1>5, <1>9, <2>1
    <2>3. f[seen].end = "reading" /\ f[seen].params = ParamsOf(n) /\ f[seen].series = g[seen]
      BY <1>9, <2>1
    <2> HIDE DEF n
    <2>4. IF pages[n].error THEN f[n].end = "raised" /\ f[n].series = <<>>
          ELSE f[n].end = "read" /\ f[n].series = g[seen]
      <3> DEFINE q == f[seen]
      <3>1. q \in Queries(pages, S) /\ n \in DOMAIN pages /\ q.end = "reading" /\ q.params = ParamsOf(n)
        BY <2>1, <2>2, <2>3
      <3> HIDE DEF q
      <3>2. IF pages[n].error THEN NowRaised(q, Request(q, pages)) ELSE NowRead(q, Request(q, pages))
        BY <2>1, <3>1, RequestOf
      <3>3. QED
        BY <2>1, <2>2, <2>3, <3>2 DEF q, NowRaised, NowRead
    <2> DEFINE U == {k \in 0..(len + 1) : k >= n => f[k] = f[n]}
    <2>5. \A k \in 0..(len + 1) : k \in U
      <3>1. 0 \in U
        BY <1>1, <2>1
      <3>2. ASSUME NEW k \in 1..(len + 1), k - 1 \in U PROVE k \in U
        <4>1. k \in 0..(len + 1) /\ k - 1 \in 0..(len + 1) /\ k \in Nat
          BY <1>1
        <4>2. CASE k - 1 >= n
          <5>1. f[k - 1] = f[n] /\ f[n].end # "reading"
            BY <2>4, <3>2, <4>2
          <5>2. f[k] = f[n]
            BY <1>5, <4>1, <5>1, RequestEnded
          <5>3. QED
            BY <4>1, <5>2
        <4>3. CASE ~(k - 1 >= n)
          <5>1. k >= n => k = n
            BY <2>1, <4>1, <4>3
          <5>2. QED
            BY <4>1, <5>1
        <4>4. QED
          BY <4>2, <4>3
      <3>3. len + 1 \in Nat
        BY <1>1
      <3> HIDE DEF U
      <3>4. QED
        BY <3>1, <3>2, <3>3, InductionUpTo
    <2>6. query = f[n]
      <3>1. len + 1 \in U /\ len + 1 >= n
        BY <1>1, <2>1, <2>5
      <3>2. QED
        BY <1>5, <3>1
    <2>7. IF pages[first].error THEN query.end = "raised" /\ query.series = <<>>
          ELSE query.end = "read" /\ query.series = FlattenSeq(read)
      BY <1>7, <2>1, <2>4, <2>6
    <2>8. QED
      BY <1>11, <2>7 DEF query, stops, first, seen, read, len
  <1>12. QED
    BY <1>10, <1>11

LEMMA EachPageRead == InputOK => PagesRead
  <1> SUFFICES ASSUME InputOK, subject = "pages" PROVE PagesRead
    BY DEF PagesRead
  <1>1. input \in UpTo(Pages, 4) /\ input # <<>>
    BY InputOf DEF InputOK, PageInputs
  <1>2. input \in Seq(Pages)
    BY <1>1, UpToSeq
  <1>3. \A page \in Pages : page.error => page.series = <<>>
    BY DEF Pages
  <1> DEFINE Letters == {"a", "b", "c"}
             A == [error : BOOLEAN, series : Seq(Letters)]
  <1>4. Pages \subseteq A
    <2>1. \A x, y \in Letters : <<x, y>> \in Seq(Letters) /\ <<x>> \in Seq(Letters) /\ <<>> \in Seq(Letters)
      OBVIOUS
    <2>2. QED
      BY <2>1 DEF Pages
  <1>5. ArePages(input, Letters)
    <2> DEFINE P == Pages
    <2>0. input \in Seq(P)
      BY <1>2
    <2> HIDE DEF A, P
    <2>1. input \in Seq(A) /\ \A n \in DOMAIN input : input[n] \in P
      BY <1>4, <2>0 DEF P
    <2>2. QED
      BY <1>3, <2>1 DEF ArePages, A, P
  <1>6. QED
    BY <1>1, <1>5, ReadsEachPage DEF PagesRead

-----------------------------------------------------------------------------
(* What samples add up to.                                                 *)

AreSamples(samples) == samples \in Seq(Int)

\* What the samples add up to after each of them.
LEMMA TotalFold ==
    ASSUME NEW samples, AreSamples(samples)
    PROVE  \E f \in [0..Len(samples) -> Int] :
              /\ f[0] = 0
              /\ \A k \in 1..Len(samples) : f[k] = f[k - 1] + samples[k]
              /\ Total(samples) = f[Len(samples)]
  <1> DEFINE len == Len(samples)
             V == Int
             start == 0
             D == SUBSET DOMAIN samples
             step == [i \in 1..len |-> [a \in V |-> a + samples[i]]]
             Rec(g) == g = [s \in D |->
                               IF s = {} THEN 0
                               ELSE g[s \ {Max(s)}] + samples[Max(s)]]
             g == CHOOSE g : Rec(g)
             total == Total(samples)
  <1>0. len \in Nat /\ DOMAIN samples = 1..len
    BY DEF AreSamples
  <1>1. total = g[DOMAIN samples]
    BY DEF Total, FoldLeft, MapThenFoldSet
  <1>2. start \in V /\ \A i \in 1..len : \A a \in V : a + samples[i] \in V
    BY <1>0 DEF AreSamples
  <1>3. PICK h : FoldsTo(h, V, start, step, len)
    <2>1. step \in Steps(V, len)
      BY <1>2 DEF Steps
    <2> HIDE DEF step, len, start, V
    <2>2. QED
      BY <1>0, <1>2, <2>1, FoldExists
  <1>4. Rec(h)
    <2>1. /\ h \in [D -> V]
          /\ \A s \in D : h[s] = IF s = {} THEN start ELSE step[Max(s)][h[s \ {Max(s)}]]
      BY <1>0, <1>3 DEF FoldsTo
    <2>2. ASSUME NEW s \in D, s # {}
          PROVE  step[Max(s)][h[s \ {Max(s)}]] = h[s \ {Max(s)}] + samples[Max(s)]
      <3>1. Max(s) \in 1..len
        BY <1>0, <2>2, MaxOfSubset
      <3>2. h[s \ {Max(s)}] \in V
        BY <2>1
      <3> HIDE DEF V
      <3>3. QED
        BY <3>1, <3>2
    <2> HIDE DEF step, D, V
    <2>3. QED
      BY <2>1, <2>2
  <1>5. Rec(g)
    <2> HIDE DEF Rec
    <2>1. QED
      BY <1>4
  <1>6. \A k \in 1..len : g[1..k] = g[1..(k - 1)] + samples[k]
    <2> SUFFICES ASSUME NEW k \in 1..len
                 PROVE  g[1..k] = g[1..(k - 1)] + samples[k]
      OBVIOUS
    <2>1. k \in Nat /\ k # 0
      BY <1>0
    <2>2. Max(1..k) = k /\ (1..k) \ {k} = 1..(k - 1) /\ 1..k # {}
      BY <2>1, GreatestFacts
    <2>3. 1..k \in D
      BY <1>0
    <2> HIDE DEF D, g
    <2>4. QED
      BY <1>5, <2>2, <2>3
  <1>7. g[1..0] = start
    <2>1. 1..0 \in D /\ 1..0 = {}
      BY <1>0
    <2> HIDE DEF D, g
    <2>2. QED
      BY <1>5, <2>1
  <1> DEFINE f == [k \in 0..len |-> g[1..k]]
             T == {k \in 0..len : f[k] \in V}
  <1> HIDE DEF g, len
  <1>8. f[0] = start /\ (\A k \in 1..len : f[k] = f[k - 1] + samples[k])
    BY <1>0, <1>6, <1>7
  <1>9. \A k \in 0..len : f[k] \in V
    <2> HIDE DEF f, V, start
    <2>1. 0 \in T
      BY <1>0, <1>2, <1>8
    <2>2. ASSUME NEW k \in 1..len, k - 1 \in T PROVE k \in T
      <3>1. f[k - 1] \in V /\ k \in 0..len
        BY <1>0, <2>2
      <3>2. f[k - 1] + samples[k] \in V
        BY <1>2, <3>1
      <3>3. QED
        BY <1>8, <3>1, <3>2
    <2> HIDE DEF T
    <2>3. \A k \in 0..len : k \in T
      BY <1>0, <2>1, <2>2, InductionUpTo
    <2>4. QED
      BY <2>3 DEF T
  <1>10. f \in [0..len -> V] /\ total = f[len]
    <2> HIDE DEF total
    <2>1. QED
      BY <1>0, <1>1, <1>9
  <1>11. QED
    BY <1>8, <1>10 DEF len

\* Products of what is not less.
LEMMA TimesGrows ==
    ASSUME NEW a \in Int, NEW b \in Int, a <= b, NEW n \in Nat
    PROVE  /\ a * n \in Int /\ b * n \in Int /\ a * n <= b * n
           /\ a * (n + 1) = a * n + a
  OBVIOUS

\* What is not greater than any sample is not greater than their mean, and what
\* is not less is not less.
LEMMA TotalWithin ==
    ASSUME NEW samples, AreSamples(samples), NEW low \in Int, NEW high \in Int,
           \A n \in DOMAIN samples : low <= samples[n] /\ samples[n] <= high
    PROVE  low * Len(samples) <= Total(samples) /\ Total(samples) <= high * Len(samples)
  <1> DEFINE len == Len(samples)
             total == Total(samples)
  <1>1. PICK f \in [0..len -> Int] :
              /\ f[0] = 0
              /\ \A k \in 1..len : f[k] = f[k - 1] + samples[k]
              /\ total = f[len]
    <2> HIDE DEF total
    <2>1. QED
      BY TotalFold DEF total
  <1>2. len \in Nat /\ \A k \in 1..len : samples[k] \in Int /\ low <= samples[k] /\ samples[k] <= high
    BY DEF AreSamples
  <1> HIDE DEF len, total
  <1> DEFINE T == {k \in 0..len : low * k <= f[k] /\ f[k] <= high * k}
  <1>3. 0 \in T
    BY <1>1, <1>2
  <1>4. ASSUME NEW k \in 1..len, k - 1 \in T PROVE k \in T
    <2>1. k \in 0..len /\ k - 1 \in 0..len /\ k - 1 \in Nat /\ f[k - 1] \in Int
      BY <1>1, <1>2
    <2>2. low * k = low * (k - 1) + low /\ high * k = high * (k - 1) + high
      BY <2>1, TimesGrows
    <2>3. f[k] = f[k - 1] + samples[k] /\ low * (k - 1) <= f[k - 1] /\ f[k - 1] <= high * (k - 1)
      BY <1>1, <1>4
    <2>4. low * (k - 1) \in Int /\ high * (k - 1) \in Int
      BY <2>1
    <2>5. low * k <= f[k] /\ f[k] <= high * k
      BY <1>2, <2>1, <2>2, <2>3, <2>4
    <2>6. QED
      BY <2>1, <2>5
  <1>5. \A k \in 0..len : k \in T
    <2> HIDE DEF T
    <2>1. QED
      BY <1>2, <1>3, <1>4, InductionUpTo
  <1>6. QED
    BY <1>1, <1>2, <1>5 DEF len, total

\* Samples of two series add up to the sum of both.
LEMMA TotalOfBoth ==
    ASSUME NEW samples, AreSamples(samples), NEW others, AreSamples(others)
    PROVE  /\ AreSamples(samples \o others)
           /\ Total(samples) \in Int /\ Total(others) \in Int
           /\ Total(samples \o others) = Total(samples) + Total(others)
  <1> DEFINE both == samples \o others
             m == Len(samples)
             n == Len(others)
             total == Total(both)
             first == Total(samples)
             second == Total(others)
  <1>1. /\ AreSamples(both) /\ Len(both) = m + n /\ m \in Nat /\ n \in Nat
        /\ \A k \in 1..m : both[k] = samples[k]
        /\ \A k \in 1..n : both[m + k] = others[k] /\ others[k] \in Int
    BY DEF AreSamples
  <1> HIDE DEF both
  <1>2. PICK f \in [0..(m + n) -> Int] :
              /\ f[0] = 0
              /\ \A k \in 1..(m + n) : f[k] = f[k - 1] + both[k]
              /\ total = f[m + n]
    <2> HIDE DEF total, m, n
    <2>1. QED
      BY <1>1, TotalFold DEF total
  <1>3. PICK g \in [0..m -> Int] :
              /\ g[0] = 0
              /\ \A k \in 1..m : g[k] = g[k - 1] + samples[k]
              /\ first = g[m]
    <2> HIDE DEF first
    <2>1. QED
      BY TotalFold DEF first
  <1>4. PICK h \in [0..n -> Int] :
              /\ h[0] = 0
              /\ \A k \in 1..n : h[k] = h[k - 1] + others[k]
              /\ second = h[n]
    <2> HIDE DEF second
    <2>1. QED
      BY TotalFold DEF second
  <1> HIDE DEF total, first, second, m, n
  <1> DEFINE T == {k \in 0..m : f[k] = g[k]}
             U == {k \in 0..n : f[m + k] = g[m] + h[k]}
  <1>5. \A k \in 0..m : k \in T
    <2>1. 0 \in T
      BY <1>1, <1>2, <1>3
    <2>2. ASSUME NEW k \in 1..m, k - 1 \in T PROVE k \in T
      <3>1. k \in 1..(m + n) /\ k \in 0..m
        BY <1>1
      <3>2. f[k] = f[k - 1] + both[k] /\ g[k] = g[k - 1] + samples[k] /\ f[k - 1] = g[k - 1]
        BY <1>2, <1>3, <2>2, <3>1
      <3>3. QED
        BY <1>1, <3>1, <3>2
    <2> HIDE DEF T
    <2>3. QED
      BY <1>1, <2>1, <2>2, InductionUpTo
  <1>6. \A k \in 0..n : k \in U
    <2>1. 0 \in U
      <3>1. f[m] = g[m] /\ g[m] \in Int /\ m + 0 = m /\ 0 \in 0..n
        BY <1>1, <1>3, <1>5
      <3>2. QED
        BY <1>4, <3>1
    <2>2. ASSUME NEW k \in 1..n, k - 1 \in U PROVE k \in U
      <3>1. /\ m + k \in 1..(m + n) /\ k \in 0..n /\ (m + k) - 1 = m + (k - 1)
            /\ k - 1 \in 0..n /\ g[m] \in Int /\ h[k - 1] \in Int /\ others[k] \in Int
        BY <1>1, <1>3, <1>4, SMTT(60)
      <3>2. /\ f[m + k] = f[m + (k - 1)] + both[m + k] /\ h[k] = h[k - 1] + others[k]
            /\ f[m + (k - 1)] = g[m] + h[k - 1]
        BY <1>2, <1>4, <2>2, <3>1
      <3>3. both[m + k] = others[k]
        BY <1>1
      <3>4. \A a, b, c \in Int : (a + b) + c = a + (b + c)
        OBVIOUS
      <3>5. f[m + k] = g[m] + h[k]
        BY <3>1, <3>2, <3>3, <3>4
      <3>6. QED
        BY <3>1, <3>5
    <2> HIDE DEF U
    <2>3. QED
      BY <1>1, <2>1, <2>2, InductionUpTo
  <1>7. total = first + second /\ first \in Int /\ second \in Int
    <2>1. n \in U /\ m \in 0..m /\ n \in 0..n
      BY <1>1, <1>6
    <2>2. QED
      BY <1>2, <1>3, <1>4, <2>1
  <1>8. QED
    BY <1>1, <1>7 DEF both, total, first, second

-----------------------------------------------------------------------------
(* The buckets of a distribution.                                          *)

AreBounds(bounds) ==
    /\ bounds \in Seq(Int)
    /\ \A a, b \in DOMAIN bounds : a <= b => bounds[a] <= bounds[b]

\* A sample is not below the bounds up to its bucket, and below the others.
LEMMA BucketFacts ==
    ASSUME NEW bounds, AreBounds(bounds), NEW sample \in Int
    PROVE  /\ BucketOf(sample, bounds) \in 0..Len(bounds)
           /\ \A b \in 1..Len(bounds) : bounds[b] <= sample <=> b <= BucketOf(sample, bounds)
  <1> DEFINE len == Len(bounds)
             below == {i \in 1..len : bounds[i] <= sample}
             bucket == BucketOf(sample, bounds)
  <1>1. /\ len \in Nat /\ DOMAIN bounds = 1..len /\ \A b \in 1..len : bounds[b] \in Int
        /\ \A a, b \in 1..len : a <= b => bounds[a] <= bounds[b]
    BY DEF AreBounds
  <1>2. bucket = Cardinality(below)
    BY <1>1 DEF BucketOf
  <1> HIDE DEF bucket
  <1>3. \A n \in 0..len : IsFiniteSet(1..n) /\ Cardinality(1..n) = n
    <2> TAKE n \in 0..len
    <2>1. n \in Nat /\ 1 \in Int /\ n \in Int
      BY <1>1
    <2>2. IsFiniteSet(1..n) /\ Cardinality(1..n) = IF 1 > n THEN 0 ELSE n - 1 + 1
      BY <2>1, FS_Interval
    <2>3. QED
      BY <2>1, <2>2
  <1>4. below \subseteq 1..len /\ len \in 0..len
    BY <1>1
  <1>5. IsFiniteSet(below) /\ bucket \in Nat /\ bucket <= len
    <2> HIDE DEF below
    <2>1. IsFiniteSet(below) /\ Cardinality(below) <= Cardinality(1..len)
      BY <1>3, <1>4, FS_Subset
    <2>2. Cardinality(below) \in Nat
      BY <2>1, FS_CardinalityType
    <2>3. QED
      BY <1>2, <1>3, <1>4, <2>1, <2>2
  <1>6. ASSUME NEW b \in 1..len, bounds[b] <= sample PROVE b <= bucket
    <2>1. 1..b \subseteq below /\ b \in 0..len
      BY <1>1, <1>6
    <2> HIDE DEF below
    <2>2. Cardinality(1..b) <= Cardinality(below)
      BY <1>5, <2>1, FS_Subset
    <2>3. QED
      BY <1>2, <1>3, <2>1, <2>2
  <1>7. ASSUME NEW b \in 1..len, ~(bounds[b] <= sample) PROVE ~(b <= bucket)
    <2>1. \A i \in below : i < b
      <3> SUFFICES ASSUME NEW i \in 1..len, bounds[i] <= sample, b <= i PROVE FALSE
        BY <1>1
      <3>1. bounds[b] <= bounds[i] /\ bounds[b] \in Int /\ bounds[i] \in Int
        BY <1>1
      <3>2. QED
        BY <1>7, <3>1
    <2>2. below \subseteq 1..(b - 1) /\ b - 1 \in 0..len
      BY <1>1, <2>1
    <2> HIDE DEF below
    <2>3. Cardinality(below) <= Cardinality(1..(b - 1))
      BY <1>3, <2>2, FS_Subset
    <2>4. QED
      BY <1>1, <1>2, <1>3, <1>5, <2>2, <2>3
  <1>8. QED
    BY <1>1, <1>5, <1>6, <1>7 DEF bucket

\* The samples lie in the buckets from the first that is filled to the last that
\* is reported, however many zeros follow it.
LEMMA ReportedBuckets ==
    ASSUME NEW samples, AreSamples(samples), samples # <<>>, NEW bounds, AreBounds(bounds),
           NEW zeros \in Nat
    PROVE  LET d == Distribution(samples, bounds, zeros)
           IN  /\ d.count = Len(samples) /\ d.sum = Total(samples)
               /\ Len(d.buckets) \in 1..(Len(bounds) + 1)
               /\ FirstFilled(d.buckets) \in 1..Len(d.buckets)
               /\ \A k \in DOMAIN samples :
                     /\ FirstFilled(d.buckets) - 1 <= BucketOf(samples[k], bounds)
                     /\ BucketOf(samples[k], bounds) <= Len(d.buckets) - 1
  <1> DEFINE d == Distribution(samples, bounds, zeros)
             len == Len(bounds)
             in(b) == Cardinality({i \in DOMAIN samples : BucketOf(samples[i], bounds) = b})
             last == CHOOSE b \in 0..len : in(b) > 0 /\ \A c \in (b + 1)..len : in(c) = 0
             size == LeastOf(last + 1 + zeros, len + 1)
             buckets == [i \in 1..size |-> in(i - 1)]
             bucket(i) == BucketOf(samples[i], bounds)
  <1>1. d.count = Len(samples) /\ d.sum = Total(samples) /\ d.buckets = buckets
    BY DEF Distribution
  <1>2. /\ len \in Nat
        /\ DOMAIN samples = 1..Len(samples) /\ 1 \in DOMAIN samples /\ Len(samples) \in Nat
        /\ \A i \in DOMAIN samples : bucket(i) \in 0..len
    <2>1. \A i \in DOMAIN samples : samples[i] \in Int
      BY DEF AreSamples
    <2>2. len \in Nat /\ DOMAIN samples = 1..Len(samples) /\ 1 \in DOMAIN samples /\ Len(samples) \in Nat
      BY DEF AreSamples, AreBounds
    <2>3. QED
      BY <2>1, <2>2, BucketFacts
  <1> HIDE DEF d, bucket
  <1>3. \A b \in 0..len : in(b) \in Nat /\ (in(b) = 0 <=> \A i \in DOMAIN samples : bucket(i) # b)
    <2> TAKE b \in 0..len
    <2> DEFINE S == {i \in DOMAIN samples : BucketOf(samples[i], bounds) = b}
    <2>1. S \subseteq 1..Len(samples) /\ IsFiniteSet(1..Len(samples))
      BY <1>2, FS_Interval
    <2>2. in(b) = Cardinality(S) /\ (S = {} <=> \A i \in DOMAIN samples : bucket(i) # b)
      BY DEF bucket
    <2> HIDE DEF S, in
    <2>3. IsFiniteSet(S)
      BY <2>1, FS_Subset
    <2>4. Cardinality(S) \in Nat /\ (Cardinality(S) = 0 <=> S = {})
      BY <2>3, FS_CardinalityType, FS_EmptySet
    <2>5. QED
      BY <2>2, <2>4
  <1> HIDE DEF in
  <1>4. last \in 0..len /\ in(last) > 0 /\ \A c \in (last + 1)..len : in(c) = 0
    <2> SUFFICES \E b \in 0..len : in(b) > 0 /\ \A c \in (b + 1)..len : in(c) = 0
      OBVIOUS
    <2> DEFINE T == {t \in 0..len : in(len - t) > 0}
    <2>1. T \in SUBSET Nat
      BY <1>2
    <2>2. T # {}
      <3> DEFINE t == len - bucket(1)
      <3>1. bucket(1) \in 0..len
        BY <1>2
      <3>2. in(bucket(1)) > 0
        BY <1>2, <1>3, <3>1
      <3>3. t \in 0..len /\ len - t = bucket(1)
        BY <1>2, <3>1
      <3>4. QED
        BY <3>2, <3>3
    <2>3. PICK t \in T : \A s \in T : t <= s
      <3> HIDE DEF T
      <3>1. QED
        BY <2>1, <2>2, LeastOfSet
    <2>4. len - t \in 0..len /\ in(len - t) > 0 /\ t \in 0..len
      BY <1>2, <2>3
    <2>5. ASSUME NEW c \in ((len - t) + 1)..len PROVE in(c) = 0
      <3>1. c \in 0..len /\ len - c \in 0..len /\ len - (len - c) = c /\ len - c < t
        BY <1>2, <2>4
      <3>2. len - c \notin T
        BY <2>3, <2>4, <3>1
      <3>3. ~(in(c) > 0)
        BY <3>1, <3>2
      <3>4. QED
        BY <1>3, <3>1, <3>3
    <2>6. QED
      BY <2>4, <2>5
  <1> HIDE DEF last
  <1>5. size \in 1..(len + 1) /\ last + 1 <= size
    BY <1>2, <1>4 DEF LeastOf
  <1> HIDE DEF size
  <1>6. /\ Len(buckets) = size /\ DOMAIN buckets = 1..size
        /\ \A b \in 0..len : b + 1 \in 1..size => buckets[b + 1] = in(b)
    <2>1. size \in Nat /\ Len(buckets) = size /\ DOMAIN buckets = 1..size
      BY <1>2, <1>5
    <2>2. \A b \in 0..len : (b + 1) - 1 = b
      BY <1>2
    <2>3. QED
      BY <2>1, <2>2
  <1>7. \A j \in 1..size : buckets[j] \in Nat /\ j - 1 \in 0..len /\ buckets[j] = in(j - 1)
    BY <1>2, <1>3, <1>5
  <1> HIDE DEF buckets
  <1> DEFINE filled == FirstFilled(buckets)
  <1>8. filled \in 1..size /\ \A j \in 1..(filled - 1) : buckets[j] = 0
    <2> DEFINE T == {j \in 1..size : buckets[j] > 0}
    <2>1. last + 1 \in T
      BY <1>2, <1>4, <1>5, <1>6
    <2>2. PICK j \in T : \A s \in T : j <= s
      <3>1. T \in SUBSET Nat
        BY <1>5
      <3> HIDE DEF T
      <3>2. QED
        BY <2>1, <3>1, LeastOfSet
    <2>3. \A s \in 1..(j - 1) : buckets[s] = 0
      <3> TAKE s \in 1..(j - 1)
      <3>1. s \in 1..size /\ s \notin T
        BY <1>5, <2>2
      <3>2. QED
        BY <1>7, <3>1
    <2>4. \E i \in DOMAIN buckets :
              (buckets[i] > 0 /\ \A s \in 1..(i - 1) : buckets[s] = 0)
              \/ (i = Len(buckets) /\ \A s \in DOMAIN buckets : buckets[s] = 0)
      BY <1>6, <2>2, <2>3
    <2>5. /\ filled \in DOMAIN buckets
          /\ (buckets[filled] > 0 /\ \A s \in 1..(filled - 1) : buckets[s] = 0)
             \/ (filled = Len(buckets) /\ \A s \in DOMAIN buckets : buckets[s] = 0)
      BY <2>4 DEF FirstFilled
    <2>6. ~ \A s \in DOMAIN buckets : buckets[s] = 0
      BY <1>6, <2>1
    <2>7. QED
      BY <1>6, <2>5, <2>6
  <1> HIDE DEF filled
  <1>9. ASSUME NEW k \in DOMAIN samples
        PROVE  filled - 1 <= bucket(k) /\ bucket(k) <= size - 1
    <2>1. bucket(k) \in 0..len /\ in(bucket(k)) # 0
      BY <1>2, <1>3
    <2>2. bucket(k) <= last
      <3> SUFFICES ASSUME ~(bucket(k) <= last) PROVE FALSE
        OBVIOUS
      <3>1. bucket(k) \in (last + 1)..len
        BY <1>2, <1>4, <2>1
      <3>2. QED
        BY <1>4, <2>1, <3>1
    <2>3. bucket(k) + 1 \in 1..size /\ bucket(k) <= size - 1
      BY <1>4, <1>5, <2>1, <2>2
    <2>4. buckets[bucket(k) + 1] # 0
      BY <1>6, <2>1, <2>3
    <2>5. ~(bucket(k) + 1 \in 1..(filled - 1))
      BY <1>8, <2>4
    <2>6. QED
      BY <1>5, <1>8, <2>1, <2>3, <2>5
  <1>10. QED
    BY <1>1, <1>5, <1>6, <1>8, <1>9 DEF d, filled, bucket

-----------------------------------------------------------------------------
(* The figures of a distribution.                                          *)

\* A distribution with an integer mean, under some bounds.
AreSettings(i) == AreBounds(i.bounds) /\ i.zeros \in Nat /\ i.percent \in BOOLEAN
HaveMean(samples) ==
    AreSamples(samples) /\ (samples = <<>> \/ Total(samples) % Len(samples) = 0)
AreFigures(line) == line \in [min : Int, max : Int, count : Nat, sum : Int]

\* The bounds around the filled buckets enclose the samples, unless one lies in
\* the bucket above all bounds.
LEMMA BoundsEnclose ==
    ASSUME NEW samples, AreSamples(samples), samples # <<>>, NEW bounds, AreBounds(bounds),
           bounds # <<>>, NEW zeros \in Nat,
           FirstFilled(Distribution(samples, bounds, zeros).buckets) # 1
    PROVE  LET buckets == Distribution(samples, bounds, zeros).buckets
               low == BoundAt(bounds, FirstFilled(buckets) - 2)
               high == BoundAt(bounds, Len(buckets) - 1)
           IN  /\ low \in Int /\ high \in Int /\ low <= high
               /\ ~InOverflow(samples, bounds) =>
                     \A k \in DOMAIN samples : low <= samples[k] /\ samples[k] <= high
  <1> DEFINE len == Len(bounds)
             buckets == Distribution(samples, bounds, zeros).buckets
             first == FirstFilled(buckets)
             size == Len(buckets)
             low == BoundAt(bounds, first - 2)
             high == BoundAt(bounds, size - 1)
             bucket(k) == BucketOf(samples[k], bounds)
  <1>1. /\ len \in Nat \ {0} /\ DOMAIN bounds = 1..len
        /\ \A b \in 1..len : bounds[b] \in Int
        /\ \A a, b \in 1..len : a <= b => bounds[a] <= bounds[b]
    BY DEF AreBounds
  <1>2. \A k \in DOMAIN samples : samples[k] \in Int
    BY DEF AreSamples
  <1>3. /\ size \in 1..(len + 1) /\ first \in 1..size
        /\ \A k \in DOMAIN samples : first - 1 <= bucket(k) /\ bucket(k) <= size - 1
    BY ReportedBuckets
  <1>4. \A k \in DOMAIN samples :
            /\ bucket(k) \in 0..len
            /\ \A b \in 1..len : bounds[b] <= samples[k] <=> b <= bucket(k)
    BY <1>2, BucketFacts
  <1> HIDE DEF len, buckets, first, size, low, high, bucket
  <1>5. first \in 2..size
    BY <1>1, <1>3 DEF first, buckets
  <1>6. first - 1 \in 1..len /\ low = bounds[first - 1]
    <2>1. first - 1 \in 1..len /\ (first - 2) + 1 = first - 1
      BY <1>1, <1>3, <1>5
    <2>2. LeastOf(first - 1, len) = first - 1
      BY <1>1, <2>1 DEF LeastOf
    <2>3. QED
      BY <2>1, <2>2 DEF low, BoundAt, len
  <1>7. /\ high = bounds[IF size <= len THEN size ELSE len]
        /\ (IF size <= len THEN size ELSE len) \in 1..len
    <2>1. (size - 1) + 1 = size /\ (IF size <= len THEN size ELSE len) \in 1..len
      BY <1>1, <1>3
    <2>2. QED
      BY <2>1 DEF high, BoundAt, LeastOf, len
  <1>8. low \in Int /\ high \in Int /\ low <= high
    <2>1. first - 1 <= IF size <= len THEN size ELSE len
      BY <1>1, <1>3, <1>6
    <2>2. QED
      BY <1>1, <1>6, <1>7, <2>1
  <1>9. ASSUME ~InOverflow(samples, bounds), NEW k \in DOMAIN samples
        PROVE  low <= samples[k] /\ samples[k] <= high
    <2>1. low <= samples[k]
      BY <1>3, <1>4, <1>6
    <2>2. CASE size <= len
      <3>1. size \in 1..len /\ ~(size <= bucket(k))
        BY <1>1, <1>3, <1>4, <2>2
      <3>2. ~(bounds[size] <= samples[k]) /\ high = bounds[size]
        BY <1>4, <1>7, <2>2, <3>1
      <3>3. QED
        BY <1>2, <1>8, <2>1, <3>2
    <2>3. CASE ~(size <= len)
      <3>1. ~(samples[k] >= bounds[len])
        BY <1>9 DEF InOverflow, len
      <3>2. high = bounds[len]
        BY <1>7, <2>3
      <3>3. QED
        BY <1>2, <1>8, <2>1, <3>1, <3>2
    <2>4. QED
      BY <2>2, <2>3
  <1>10. QED
    BY <1>8, <1>9 DEF low, high, first, size, buckets

\* The mean of samples that have one.
LEMMA MeanTimesCount ==
    ASSUME NEW total \in Int, NEW n \in Nat, n > 0, total % n = 0
    PROVE  total \div n \in Int /\ (total \div n) * n = total
  OBVIOUS

\* The line of one series tells the truth of its samples.
THEOREM FiguresOfSamples ==
    ASSUME NEW i, AreSettings(i), NEW samples, HaveMean(samples)
    PROVE  /\ AreFigures(LineOf(samples, i))
           /\ FiguresTrue(LineOf(samples, i), samples, i)
  <1> DEFINE d == Distribution(samples, i.bounds, i.zeros)
             total == Total(samples)
             len == Len(samples)
             mean == d.sum \div d.count
             extremes == Extremes(d, i.layout, i.bounds, mean)
             factor == IF i.percent THEN 100 ELSE 1
             line == LineOf(samples, i)
  <1>1. AreSamples(samples) /\ total \in Int /\ len \in Nat /\ factor \in {1, 100}
    <2>1. AreSamples(samples)
      BY DEF HaveMean
    <2>2. total \in Int
      BY <2>1, TotalOfBoth
    <2>3. QED
      BY <2>1, <2>2 DEF AreSamples
  <1>2. d.count = len /\ d.sum = total
    BY DEF Distribution
  <1>3. line = DistributionLine(d, i.layout, i.bounds, i.percent)
    BY DEF LineOf
  <1> HIDE DEF line, d
  <1>4. CASE samples = <<>>
    <2>1. len = 0 /\ line = NoLine
      BY <1>2, <1>3, <1>4 DEF DistributionLine
    <2>2. total = 0
      <3>1. PICK f \in [0..Len(samples) -> Int] : f[0] = 0 /\ Total(samples) = f[Len(samples)]
        BY <1>1, TotalFold
      <3>2. QED
        BY <2>1, <3>1
    <2>3. line.min = 0 /\ line.max = 0 /\ line.count = 0 /\ line.sum = 0 /\ AreFigures(line)
      BY <2>1 DEF NoLine, AreFigures
    <2>4. factor * total = 0
      BY <1>1, <2>2
    <2> HIDE DEF total, len, factor
    <2>5. QED
      BY <2>1, <2>3, <2>4 DEF FiguresTrue, total, len, factor, line
  <1>5. CASE samples # <<>>
    <2>1. len > 0 /\ mean \in Int /\ mean * len = total
      <3>1. len > 0
        BY <1>1, <1>5 DEF AreSamples
      <3>2. total % len = 0
        BY <1>5 DEF HaveMean
      <3> HIDE DEF total, len
      <3>3. QED
        BY <1>1, <1>2, <3>1, <3>2, MeanTimesCount
    <2>2. line = GaugeLine(extremes[1], extremes[2], len, total, i.percent)
      BY <1>2, <1>3, <2>1 DEF DistributionLine
    <2>3. /\ extremes[1] \in Int /\ extremes[2] \in Int /\ extremes[1] <= extremes[2]
          /\ ~InOverflow(samples, i.bounds) =>
                extremes[1] * len <= total /\ total <= extremes[2] * len
      <3> DEFINE buckets == d.buckets
                 low == BoundAt(i.bounds, FirstFilled(buckets) - 2)
                 high == BoundAt(i.bounds, Len(buckets) - 1)
      <3>1. extremes = <<mean, mean>>
            \/ (extremes = <<low, high>> /\ FirstFilled(buckets) # 1 /\ i.bounds # <<>>)
        <4>1. FirstFilled(buckets) \in Nat
          BY <1>1, <1>5, ReportedBuckets DEF AreSettings, d
        <4>2. (FirstFilled(buckets) - 1) - 1 = FirstFilled(buckets) - 2
          BY <4>1
        <4> HIDE DEF mean
        <4>3. QED
          BY <4>1, <4>2 DEF Extremes
      <3> HIDE DEF extremes, mean
      <3>2. CASE extremes = <<mean, mean>>
        <4>1. extremes[1] = mean /\ extremes[2] = mean
          BY <3>2
        <4>2. mean * len <= total /\ total <= mean * len /\ mean <= mean
          BY <1>1, <2>1
        <4>3. QED
          BY <2>1, <4>1, <4>2
      <3>3. CASE extremes = <<low, high>> /\ FirstFilled(buckets) # 1 /\ i.bounds # <<>>
        <4>1. extremes[1] = low /\ extremes[2] = high
          BY <3>3
        <4>2. /\ low \in Int /\ high \in Int /\ low <= high
              /\ ~InOverflow(samples, i.bounds) =>
                    \A k \in DOMAIN samples : low <= samples[k] /\ samples[k] <= high
          BY <1>1, <1>5, <3>3, BoundsEnclose DEF AreSettings, d
        <4> HIDE DEF low, high
        <4>3. ~InOverflow(samples, i.bounds) => low * len <= total /\ total <= high * len
          BY <1>1, <4>2, TotalWithin
        <4>4. QED
          BY <4>1, <4>2, <4>3
      <3>4. QED
        BY <3>1, <3>2, <3>3
    <2> HIDE DEF extremes, len, total
    <2>4. /\ line.min = factor * extremes[1] /\ line.max = factor * extremes[2]
          /\ line.count = len /\ line.sum = factor * total
          /\ line = [min |-> factor * extremes[1], max |-> factor * extremes[2],
                     count |-> len, sum |-> factor * total]
      BY <2>2 DEF GaugeLine
    <2> HIDE DEF factor
    <2>5. AreFigures(line)
      BY <1>1, <2>3, <2>4 DEF AreFigures
    <2>6. \A a, b \in Int : a <= b => factor * a <= factor * b
      BY <1>1
    <2>7. \A a \in Int : (factor * a) * len = factor * (a * len) /\ a * len \in Int
      BY <1>1
    <2>8. line.min <= line.max
      BY <2>3, <2>4, <2>6
    <2>9. ~InOverflow(samples, i.bounds) =>
              line.min * line.count <= line.sum /\ line.sum <= line.max * line.count
      BY <1>1, <2>3, <2>4, <2>6, <2>7
    <2>10. QED
      BY <2>4, <2>5, <2>8, <2>9 DEF FiguresTrue, factor, len, total, line
  <1>6. QED
    BY <1>4, <1>5

\* Lines that tell the truth are merged to one that does, of whatever they were
\* merged themselves.
THEOREM FiguresOfMerged ==
    ASSUME NEW i, i.percent \in BOOLEAN,
           NEW a, AreFigures(a), NEW samples, AreSamples(samples), FiguresTrue(a, samples, i),
           NEW b, AreFigures(b), NEW others, AreSamples(others), FiguresTrue(b, others, i)
    PROVE  /\ AreFigures(Merged(a, b)) /\ AreSamples(samples \o others)
           /\ FiguresTrue(Merged(a, b), samples \o others, i)
  <1> DEFINE line == Merged(a, b)
             both == samples \o others
             factor == IF i.percent THEN 100 ELSE 1
             low == LeastOf(a.min, b.min)
             high == GreatestOf(a.max, b.max)
  <1>1. /\ a.min \in Int /\ a.max \in Int /\ a.count \in Nat /\ a.sum \in Int
        /\ b.min \in Int /\ b.max \in Int /\ b.count \in Nat /\ b.sum \in Int
    BY DEF AreFigures
  <1>2. /\ low \in Int /\ low <= a.min /\ low <= b.min
        /\ high \in Int /\ a.max <= high /\ b.max <= high
    BY <1>1 DEF LeastOf, GreatestOf
  <1> HIDE DEF low, high
  <1>3. line = [min |-> low, max |-> high, count |-> a.count + b.count, sum |-> a.sum + b.sum]
    BY <1>1, <1>2 DEF Merged, GaugeLine, low, high
  <1> HIDE DEF line
  <1>4. /\ line.min = low /\ line.max = high /\ line.count = a.count + b.count
        /\ line.sum = a.sum + b.sum /\ AreFigures(line)
    BY <1>1, <1>2, <1>3 DEF AreFigures
  <1>5. /\ AreSamples(both) /\ Total(samples) \in Int /\ Total(others) \in Int
        /\ Total(both) = Total(samples) + Total(others)
    BY TotalOfBoth
  <1>6. Len(both) = Len(samples) + Len(others)
    BY DEF AreSamples
  <1>7. /\ a.count = Len(samples) /\ a.sum = factor * Total(samples) /\ a.min <= a.max
        /\ ~InOverflow(samples, i.bounds) =>
              a.min * a.count <= a.sum /\ a.sum <= a.max * a.count
    BY DEF FiguresTrue
  <1>8. /\ b.count = Len(others) /\ b.sum = factor * Total(others) /\ b.min <= b.max
        /\ ~InOverflow(others, i.bounds) =>
              b.min * b.count <= b.sum /\ b.sum <= b.max * b.count
    BY DEF FiguresTrue
  <1>9. line.count = Len(both)
    BY <1>4, <1>6, <1>7, <1>8
  <1>10. line.sum = factor * Total(both)
    <2>1. \A x, y \in Int : factor * (x + y) = factor * x + factor * y
      OBVIOUS
    <2> HIDE DEF factor
    <2>2. QED
      BY <1>4, <1>5, <1>7, <1>8, <2>1
  <1>11. line.min <= line.max
    BY <1>1, <1>2, <1>4, <1>7
  <1>12. ASSUME ~InOverflow(both, i.bounds)
         PROVE  line.min * line.count <= line.sum /\ line.sum <= line.max * line.count
    <2>1. ~InOverflow(samples, i.bounds) /\ ~InOverflow(others, i.bounds)
      <3>1. /\ \A n \in DOMAIN samples : n \in DOMAIN both /\ both[n] = samples[n]
            /\ \A n \in DOMAIN others : Len(samples) + n \in DOMAIN both
                                        /\ both[Len(samples) + n] = others[n]
        BY DEF AreSamples
      <3> HIDE DEF both
      <3>2. QED
        BY <1>12, <3>1 DEF InOverflow
    <2>2. /\ low * a.count \in Int /\ low * a.count <= a.min * a.count
          /\ low * b.count \in Int /\ low * b.count <= b.min * b.count
          /\ a.min * a.count \in Int /\ b.min * b.count \in Int
      BY <1>1, <1>2, TimesGrows
    <2>3. /\ high * a.count \in Int /\ a.max * a.count <= high * a.count
          /\ high * b.count \in Int /\ b.max * b.count <= high * b.count
          /\ a.max * a.count \in Int /\ b.max * b.count \in Int
      BY <1>1, <1>2, TimesGrows
    <2>4. /\ low * (a.count + b.count) = low * a.count + low * b.count
          /\ high * (a.count + b.count) = high * a.count + high * b.count
      BY <1>1, <1>2
    <2>5. /\ a.min * a.count <= a.sum /\ a.sum <= a.max * a.count
          /\ b.min * b.count <= b.sum /\ b.sum <= b.max * b.count
      BY <1>7, <1>8, <2>1
    <2>6. low * a.count + low * b.count <= a.sum + b.sum
      BY <1>1, <2>2, <2>5
    <2>7. a.sum + b.sum <= high * a.count + high * b.count
      BY <1>1, <2>3, <2>5
    <2>8. QED
      BY <1>4, <2>4, <2>6, <2>7
  <1>13. QED
    BY <1>4, <1>5, <1>9, <1>10, <1>11, <1>12 DEF FiguresTrue, line, both, factor

LEMMA FiguresAreTrue == InputOK => DistributionsTrue
  <1> SUFFICES ASSUME InputOK, subject = "distribution" PROVE DistributionsTrue
    BY DEF DistributionsTrue
  <1>1. input \in DistributionInputs
    BY InputOf DEF InputOK
  <1>2. /\ input.samples \in Samples /\ input.others \in {<<3>>, <<1, 3, 5>>}
        /\ input.bounds \in Bounds /\ input.zeros \in {0, 2} /\ input.percent \in BOOLEAN
    BY <1>1 DEF DistributionInputs
  <1>3. HaveMean(input.samples)
    <2>1. /\ input.samples \in UpTo({0, 1, 3, 5, 9}, 3)
          /\ input.samples = <<>> \/ Total(input.samples) % Len(input.samples) = 0
      BY <1>2 DEF Samples
    <2>2. input.samples \in Seq({0, 1, 3, 5, 9})
      BY <2>1, UpToSeq
    <2>3. QED
      BY <2>1, <2>2 DEF HaveMean, AreSamples
  <1>4. HaveMean(input.others)
    <2> DEFINE One(s) == s = <<3>>
               Three(s) == s = <<1, 3, 5>>
    <2>1. ASSUME NEW s, One(s) PROVE HaveMean(s)
      <3>1. AreSamples(s) /\ Len(s) = 1 /\ s[1] = 3
        BY <2>1 DEF AreSamples
      <3>2. PICK f \in [0..Len(s) -> Int] :
                  f[0] = 0 /\ (\A k \in 1..Len(s) : f[k] = f[k - 1] + s[k]) /\ Total(s) = f[Len(s)]
        BY <3>1, TotalFold
      <3>3. f[1] = f[0] + s[1]
        BY <3>1, <3>2
      <3>4. Total(s) = 3
        BY <3>1, <3>2, <3>3
      <3>5. QED
        BY <3>1, <3>4 DEF HaveMean
    <2>2. ASSUME NEW s, Three(s) PROVE HaveMean(s)
      <3>1. AreSamples(s) /\ Len(s) = 3 /\ s[1] = 1 /\ s[2] = 3 /\ s[3] = 5
        BY <2>2 DEF AreSamples
      <3>2. PICK f \in [0..Len(s) -> Int] :
                  f[0] = 0 /\ (\A k \in 1..Len(s) : f[k] = f[k - 1] + s[k]) /\ Total(s) = f[Len(s)]
        BY <3>1, TotalFold
      <3>3. f[1] = f[0] + s[1] /\ f[2] = f[1] + s[2] /\ f[3] = f[2] + s[3]
        BY <3>1, <3>2
      <3>4. Total(s) = 9
        BY <3>1, <3>2, <3>3
      <3>5. QED
        BY <3>1, <3>4 DEF HaveMean
    <2>3. QED
      BY <1>2, <2>1, <2>2
  <1>5. AreSettings(input)
    <2>1. AreBounds(<<>>) /\ AreBounds(<<2>>) /\ AreBounds(<<2, 4>>) /\ AreBounds(<<1, 2, 4, 8>>)
      BY DEF AreBounds
    <2>2. QED
      BY <1>2, <2>1 DEF AreSettings, Bounds
  <1>6. AreSamples(input.samples) /\ AreSamples(input.others) /\ input.percent \in BOOLEAN
    BY <1>2, <1>3, <1>4 DEF HaveMean
  <1> DEFINE line == LineOf(input.samples, input)
             other == LineOf(input.others, input)
  <1>7. /\ AreFigures(line) /\ FiguresTrue(line, input.samples, input)
        /\ AreFigures(other) /\ FiguresTrue(other, input.others, input)
    BY <1>3, <1>4, <1>5, FiguresOfSamples
  <1> HIDE DEF line, other
  <1>8. FiguresTrue(Merged(line, other), input.samples \o input.others, input)
    BY <1>6, <1>7, FiguresOfMerged
  <1>9. QED
    BY <1>7, <1>8 DEF DistributionsTrue, line, other

\* Every line says what the samples of its series say.
THEOREM LinesCorrect == AlgorithmsSpec => []LinesTrue
  <1>1. InputOK => LinesTrue
    BY FiguresAreTrue, CutsAddUp, EachPageRead, OverridesHonoured DEF LinesTrue
  <1>2. QED
    BY <1>1, InputInvariant, PTL
=============================================================================
