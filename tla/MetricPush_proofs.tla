------------------------- MODULE MetricPush_proofs -------------------------
(***************************************************************************)
(* Theorems about MetricPush, for any number of projects, lines, batches,  *)
(* slots and retries.                                                      *)
(***************************************************************************)
EXTENDS MetricPush, FiniteSetTheorems, TLAPS

LEMMA AssumptionFacts ==
    /\ MaxLines \in Nat /\ MaxRetries \in Nat
    /\ BatchSize \in Nat \ {0}
    /\ Slots \in Nat \ {0}
  BY MetricPushAssumption DEF MetricPushAssumption, Slots

LEMMA BatchCountType ==
    ASSUME NEW n \in Nat
    PROVE  BatchCount(n) \in Nat
  BY AssumptionFacts DEF BatchCount

\* Also the last batch has a line.
LEMMA SizeType ==
    ASSUME TypeOK, NEW p \in Projects, NEW b \in DOMAIN batch[p]
    PROVE  Size(p, b) \in Nat
  <1>1. PICK n \in 0..MaxLines : n = lines[p]
    BY DEF TypeOK
  <1>2. b \in 1..BatchCount(n)
    BY <1>1 DEF TypeOK
  <1>3. n \in Nat /\ BatchCount(n) \in Nat /\ b \in Nat
    BY <1>1, <1>2, BatchCountType, AssumptionFacts
  <1>4. BatchCount(n) * BatchSize <= n + BatchSize - 1
    BY <1>3, AssumptionFacts DEF BatchCount
  <1>5. b * BatchSize <= BatchCount(n) * BatchSize
    BY <1>2, <1>3, AssumptionFacts
  <1>6. b * BatchSize - BatchSize <= n - 1 /\ (b - 1) * BatchSize = b * BatchSize - BatchSize
    BY <1>3, <1>4, <1>5, AssumptionFacts
  <1>7. QED
    BY <1>1, <1>3, <1>6, AssumptionFacts DEF Size

-----------------------------------------------------------------------------
\* What TypeOK says of one batch that changes its state or its attempt.
LEMMA BatchUpdate ==
    ASSUME TypeOK, NEW p \in Projects, NEW b \in DOMAIN batch[p],
           NEW s \in BatchStates,
           batch' = [batch EXCEPT ![p][b] = s], lines' = lines
    PROVE  /\ DOMAIN batch' = Projects
           /\ \A q \in Projects : batch'[q] \in [1..BatchCount(lines'[q]) -> BatchStates]
  BY DEF TypeOK

LEMMA RetryType ==
    ASSUME TypeOK, NEW p \in Projects, NEW b \in DOMAIN batch[p], Retry(p, b)
    PROVE  TypeOK'
  <1>1. b \in DOMAIN attempt[p] /\ attempt[p][b] + 1 \in 0..MaxRetries
    <2>1. /\ b \in 1..BatchCount(lines[p])
          /\ attempt[p] \in [1..BatchCount(lines[p]) -> 0..MaxRetries]
      BY DEF TypeOK
    <2>2. b \in DOMAIN attempt[p] /\ attempt[p][b] \in 0..MaxRetries
      BY <2>1
    <2>3. attempt[p][b] < MaxRetries
      BY DEF Retry
    <2>4. QED
      BY <2>2, <2>3, AssumptionFacts
  <1>2. /\ DOMAIN attempt' = Projects
        /\ \A q \in Projects :
              attempt'[q] \in [1..BatchCount(lines[q]) -> 0..MaxRetries]
    BY <1>1 DEF TypeOK, Retry
  <1>3. QED
    BY <1>2 DEF TypeOK, Retry, counters

LEMMA DropType ==
    ASSUME TypeOK, NEW p \in Projects, NEW b \in DOMAIN batch[p],
           Drop(p, b), badUrl' \in BOOLEAN
    PROVE  TypeOK'
  <1>1. Size(p, b) \in Nat
    BY SizeType
  <1>2. "dropped" \in BatchStates
    BY DEF BatchStates
  <1>3. dropped' \in [Projects -> Nat]
    BY <1>1 DEF TypeOK, Drop
  <1>4. /\ DOMAIN batch' = Projects
        /\ \A q \in Projects : batch'[q] \in [1..BatchCount(lines'[q]) -> BatchStates]
    BY <1>2, BatchUpdate DEF Drop
  <1>5. QED
    BY <1>3, <1>4 DEF TypeOK, Drop

LEMMA RaiseType ==
    ASSUME TypeOK, NEW p \in Projects, NEW b \in DOMAIN batch[p],
           NEW why \in Raised, Raise(p, b, why),
           connectivity' \in {"Ok"} \union FatalConnectivity,
           {ok', invalid', dropped'} \subseteq [Projects -> Nat]
    PROVE  TypeOK'
  <1>1. {why, "skipped"} \subseteq BatchStates
    BY DEF Raised, BatchStates
  <1>2. /\ DOMAIN batch' = Projects
        /\ \A q \in Projects : batch'[q] \in [1..BatchCount(lines[q]) -> BatchStates]
    BY <1>1 DEF TypeOK, Raise
  <1>3. abort' \in [Projects -> BOOLEAN]
    BY DEF TypeOK, Raise
  <1>4. QED
    BY <1>2, <1>3 DEF TypeOK, Raise

LEMMA CountType ==
    ASSUME TypeOK, NEW p \in Projects, NEW b \in DOMAIN batch[p], Count(p, b)
    PROVE  {ok', invalid', dropped'} \subseteq [Projects -> Nat]
  <1>1. PICK valid \in 0..Size(p, b) :
          /\ ok' = [ok EXCEPT ![p] = @ + valid]
          /\ invalid' = [invalid EXCEPT ![p] = @ + (Size(p, b) - valid)]
    BY DEF Count
  <1>2. Size(p, b) \in Nat /\ valid \in Nat /\ Size(p, b) - valid \in Nat
    BY SizeType
  <1>3. {ok, invalid, dropped} \subseteq [Projects -> Nat] /\ dropped' = dropped
    BY DEF TypeOK, Count
  <1>4. ok[p] + valid \in Nat /\ invalid[p] + (Size(p, b) - valid) \in Nat
    BY <1>2, <1>3
  <1>5. QED
    BY <1>1, <1>3, <1>4

LEMMA BeginType ==
    ASSUME TypeOK, NEW p \in Projects, BeginPush(p)
    PROVE  TypeOK'
  <1>1. PICK n \in 0..MaxLines :
          /\ lines' = [lines EXCEPT ![p] = n]
          /\ attempt' = [attempt EXCEPT ![p] = [b \in 1..BatchCount(n) |-> 0]]
          /\ \E s \in {"pushing", "finished"} : stage' = [stage EXCEPT ![p] = s]
          /\ \E s \in {"queued", "skipped"} :
                batch' = [batch EXCEPT ![p] = [b \in 1..BatchCount(n) |-> s]]
    BY DEF BeginPush
  <1>2. 0 \in 0..MaxRetries
    BY AssumptionFacts
  <1>3. {"queued", "skipped"} \subseteq BatchStates
    BY DEF BatchStates
  <1>4. lines' \in [Projects -> 0..MaxLines] /\ lines'[p] = n
    BY <1>1 DEF TypeOK
  <1>5. \A q \in Projects : q # p => lines'[q] = lines[q]
    BY <1>1 DEF TypeOK
  <1>6. /\ DOMAIN batch' = Projects
        /\ \A q \in Projects : batch'[q] \in [1..BatchCount(lines'[q]) -> BatchStates]
    BY <1>1, <1>3, <1>4, <1>5 DEF TypeOK
  <1>7. /\ DOMAIN attempt' = Projects
        /\ \A q \in Projects :
              attempt'[q] \in [1..BatchCount(lines'[q]) -> 0..MaxRetries]
    BY <1>1, <1>2, <1>4, <1>5 DEF TypeOK
  <1>8. stage' \in [Projects -> {"fetching", "pushing", "finished", "cancelled"}]
    BY <1>1 DEF TypeOK
  <1>9. QED
    BY <1>4, <1>6, <1>7, <1>8 DEF TypeOK, BeginPush, counters

LEMMA PostType ==
    ASSUME TypeOK, NEW p \in Projects, NEW b \in DOMAIN batch[p], Post(p, b)
    PROVE  TypeOK'
  <1>1. CASE PostRetried(p, b)
    BY <1>1, RetryType DEF PostRetried
  <1>2. CASE PostDropped(p, b)
    <2>1. badUrl' \in BOOLEAN
      BY <1>2 DEF PostDropped, TypeOK
    <2>2. QED
      BY <1>2, <2>1, DropType DEF PostDropped
  <1>3. CASE PostBadUrl(p, b)
    BY <1>3, RetryType, DropType DEF PostBadUrl
  <1>4. CASE PostRefused(p, b)
    <2>1. {ok', invalid', dropped'} \subseteq [Projects -> Nat]
      BY <1>4 DEF PostRefused, TypeOK, counters
    <2>2. QED
      BY <1>4, <2>1, RaiseType DEF PostRefused, Raised
  <1>5. CASE PostBroken(p, b)
    <2>1. connectivity' \in {"Ok"} \union FatalConnectivity
      BY <1>5 DEF PostBroken, TypeOK
    <2>2. {ok', invalid', dropped'} \subseteq [Projects -> Nat]
      BY <1>5 DEF PostBroken, TypeOK, counters
    <2>3. QED
      BY <1>5, <2>1, <2>2, RaiseType DEF PostBroken, Raised
  <1>6. CASE PostAnswered(p, b)
    <2>1. {ok', invalid', dropped'} \subseteq [Projects -> Nat]
      BY <1>6, CountType DEF PostAnswered
    <2>2. "answered" \in BatchStates
      BY DEF BatchStates
    <2>3. /\ DOMAIN batch' = Projects
          /\ \A q \in Projects : batch'[q] \in [1..BatchCount(lines'[q]) -> BatchStates]
      BY <1>6, <2>2, BatchUpdate DEF PostAnswered
    <2>4. QED
      BY <1>6, <2>1, <2>3 DEF TypeOK, PostAnswered
  <1>7. CASE PostUnexplained(p, b)
    <2>1. "unexplained" \in BatchStates
      BY DEF BatchStates
    <2>2. /\ DOMAIN batch' = Projects
          /\ \A q \in Projects : batch'[q] \in [1..BatchCount(lines'[q]) -> BatchStates]
      BY <1>7, <2>1, BatchUpdate DEF PostUnexplained
    <2>3. QED
      BY <1>7, <2>2 DEF TypeOK, PostUnexplained, counters
  <1>8. CASE PostMisread(p, b)
    <2>1. connectivity' \in {"Ok"} \union FatalConnectivity
      BY <1>8 DEF PostMisread, TypeOK
    <2>2. {ok', invalid', dropped'} \subseteq [Projects -> Nat]
      BY <1>8, CountType DEF PostMisread
    <2>3. QED
      BY <1>8, <2>1, <2>2, RaiseType DEF PostMisread, Raised
  <1>9. QED
    BY <1>1, <1>2, <1>3, <1>4, <1>5, <1>6, <1>7, <1>8 DEF Post

LEMMA StartType ==
    ASSUME TypeOK, NEW p \in Projects, NEW b \in DOMAIN batch[p], StartBatch(p, b)
    PROVE  TypeOK'
  <1>1. "posting" \in BatchStates
    BY DEF BatchStates
  <1>2. /\ DOMAIN batch' = Projects
        /\ \A q \in Projects : batch'[q] \in [1..BatchCount(lines'[q]) -> BatchStates]
    BY <1>1, BatchUpdate DEF StartBatch
  <1>3. QED
    BY <1>2 DEF TypeOK, StartBatch, counters

\* The state is well typed for any number of projects and batches; no batch is
\* posted more often than the retries allow.
THEOREM TypeCorrect == Spec => []TypeOK
  <1>1. Init => TypeOK
    <2> SUFFICES ASSUME Init PROVE TypeOK
      OBVIOUS
    <2>1. BatchCount(0) = 0
      BY AssumptionFacts DEF BatchCount
    <2>2. 1..0 = {} /\ 0 \in 0..MaxLines
      BY AssumptionFacts
    <2>3. \A p \in Projects :
             /\ batch[p] \in [1..BatchCount(lines[p]) -> BatchStates]
             /\ attempt[p] \in [1..BatchCount(lines[p]) -> 0..MaxRetries]
      BY <2>1, <2>2 DEF Init
    <2>4. lines \in [Projects -> 0..MaxLines] /\ DOMAIN batch = Projects
          /\ DOMAIN attempt = Projects
      BY <2>2 DEF Init
    <2>5. {ok, invalid, dropped} \subseteq [Projects -> Nat]
      BY DEF Init
    <2>6. abort \in [Projects -> BOOLEAN] /\ badUrl \in BOOLEAN
      BY DEF Init
    <2>7. QED
      BY <2>3, <2>4, <2>5, <2>6 DEF Init, TypeOK
  <1>2. TypeOK /\ [Next]_vars => TypeOK'
    <2> SUFFICES ASSUME TypeOK, [Next]_vars PROVE TypeOK'
      OBVIOUS
    <2>1. ASSUME NEW p \in Projects, ProjectStep(p) PROVE TypeOK'
      <3>1. CASE BeginPush(p)
        BY <3>1, BeginType
      <3>2. CASE FinishPush(p)
        BY <3>2 DEF TypeOK, FinishPush, counters
      <3>3. ASSUME NEW b \in DOMAIN batch[p], StartBatch(p, b) PROVE TypeOK'
        BY <3>3, StartType
      <3>4. ASSUME NEW b \in DOMAIN batch[p], Post(p, b) PROVE TypeOK'
        BY <3>4, PostType
      <3>5. QED
        BY <2>1, <3>1, <3>2, <3>3, <3>4 DEF ProjectStep
    <2>2. CASE CycleTimesOut
      BY <2>2 DEF TypeOK, CycleTimesOut, counters
    <2>3. CASE UNCHANGED vars
      BY <2>3 DEF TypeOK, vars, counters
    <2>4. QED
      BY <2>1, <2>2, <2>3 DEF Next
  <1>3. QED
    BY <1>1, <1>2, PTL DEF Spec

-----------------------------------------------------------------------------
\* What a post does to the batches: nothing (it is tried again), one batch ends
\* for good, or one raises and takes the waiting ones with it.
PostEffect(p, b) ==
    \/ UNCHANGED <<batch, abort, connectivity>>
    \/ /\ \E s \in {"answered", "unexplained", "dropped"} :
            batch' = [batch EXCEPT ![p][b] = s]
       /\ UNCHANGED <<abort, connectivity>>
    \/ Raise(p, b, "refused") /\ connectivity' \in FatalConnectivity
    \/ Raise(p, b, "broken") /\ UNCHANGED connectivity
    \/ Raise(p, b, "misread") /\ UNCHANGED connectivity

LEMMA PostHasEffect ==
    ASSUME NEW p \in Projects, NEW b \in DOMAIN batch[p], Post(p, b)
    PROVE  PostEffect(p, b) /\ batch[p][b] = "posting" /\ stage' = stage
  <1>1. CASE PostRetried(p, b)
    BY <1>1 DEF PostRetried, Retry, PostEffect, Posting, In
  <1>2. CASE PostDropped(p, b)
    BY <1>2 DEF PostDropped, Drop, PostEffect, Posting, In
  <1>3. CASE PostBadUrl(p, b)
    BY <1>3 DEF PostBadUrl, Retry, Drop, PostEffect, Posting, In
  <1>4. CASE PostRefused(p, b)
    BY <1>4 DEF PostRefused, PostEffect, Posting, In, Raise
  <1>5. CASE PostBroken(p, b)
    BY <1>5 DEF PostBroken, PostEffect, Posting, In, Raise
  <1>6. CASE PostAnswered(p, b)
    BY <1>6 DEF PostAnswered, PostEffect, Posting, In
  <1>7. CASE PostUnexplained(p, b)
    BY <1>7 DEF PostUnexplained, PostEffect, Posting, In
  <1>8. CASE PostMisread(p, b)
    BY <1>8 DEF PostMisread, PostEffect, Posting, In, Raise
  <1>9. QED
    BY <1>1, <1>2, <1>3, <1>4, <1>5, <1>6, <1>7, <1>8 DEF Post

LEMMA InFinite ==
    ASSUME TypeOK, NEW p \in Projects, NEW states
    PROVE  IsFiniteSet(In(p, states)) /\ Cardinality(In(p, states)) \in Nat
  <1>1. PICK n \in 0..MaxLines : n = lines[p]
    BY DEF TypeOK
  <1>2. BatchCount(n) \in Nat
    BY BatchCountType, AssumptionFacts
  <1>3. IsFiniteSet(1..BatchCount(n))
    BY <1>2, FS_Interval
  <1>4. In(p, states) \subseteq 1..BatchCount(n)
    BY <1>1 DEF In, TypeOK
  <1>5. QED
    BY <1>3, <1>4, FS_Subset, FS_CardinalityType

\* A batch that raised and one that is under way both took a slot before any
\* batch of the project had raised: RefusalsBounded made inductive.
Busy == Raised \union {"posting"}

SlotsInv ==
    \A p \in Projects :
        /\ Cardinality(In(p, Busy)) <= Slots
        /\ In(p, Raised) # {} => abort[p]

\* Nothing is new among the batches that hold or held a slot.
LEMMA FewerBusy ==
    ASSUME TypeOK, SlotsInv, NEW q \in Projects,
           In(q, Busy)' \subseteq In(q, Busy)
    PROVE  Cardinality(In(q, Busy)') <= Slots
  <1>1. IsFiniteSet(In(q, Busy)) /\ Cardinality(In(q, Busy)) \in Nat
    BY InFinite
  <1>2. /\ Cardinality(In(q, Busy)') <= Cardinality(In(q, Busy))
        /\ IsFiniteSet(In(q, Busy)')
    BY <1>1, FS_Subset
  <1>3. Cardinality(In(q, Busy)') \in Nat
    BY <1>2, FS_CardinalityType
  <1>4. QED
    BY <1>1, <1>2, <1>3, AssumptionFacts DEF SlotsInv

LEMMA StartSlots ==
    ASSUME TypeOK, SlotsInv, NEW p \in Projects, NEW b \in DOMAIN batch[p],
           StartBatch(p, b)
    PROVE  SlotsInv'
  <1>1. \A q \in Projects : q # p => batch'[q] = batch[q]
    BY DEF StartBatch, TypeOK
  <1>2. batch'[p] = [batch[p] EXCEPT ![b] = "posting"] /\ abort' = abort
    BY DEF StartBatch, TypeOK
  <1>3. In(p, Raised) = {}
    BY DEF StartBatch, SlotsInv
  <1>4. In(p, Busy) = In(p, {"posting"})
    BY <1>3 DEF In, Busy
  <1>5. b \notin In(p, {"posting"}) /\ In(p, Busy)' = In(p, {"posting"}) \union {b}
    BY <1>2, <1>3 DEF In, Busy, StartBatch, Raised
  <1>6. Cardinality(In(p, Busy)') = Cardinality(In(p, {"posting"})) + 1
    BY <1>5, InFinite, FS_AddElement
  <1>7. Cardinality(In(p, Busy)') <= Slots
    BY <1>6, InFinite, AssumptionFacts DEF StartBatch
  <1>8. In(p, Raised)' = {}
    BY <1>2, <1>3 DEF In, Raised
  <1>9. \A q \in Projects : q # p =>
            In(q, Busy)' = In(q, Busy) /\ In(q, Raised)' = In(q, Raised)
    BY <1>1 DEF In
  <1>10. QED
    BY <1>2, <1>7, <1>8, <1>9 DEF SlotsInv

LEMMA PostSlots ==
    ASSUME TypeOK, SlotsInv, NEW p \in Projects, NEW b \in DOMAIN batch[p],
           Post(p, b)
    PROVE  SlotsInv'
  <1>1. PostEffect(p, b) /\ batch[p][b] = "posting"
    BY PostHasEffect
  <1>2. CASE UNCHANGED <<batch, abort, connectivity>>
    BY <1>2 DEF SlotsInv, In
  <1>3. CASE /\ \E s \in {"answered", "unexplained", "dropped"} :
                    batch' = [batch EXCEPT ![p][b] = s]
             /\ UNCHANGED <<abort, connectivity>>
    <2>1. \A q \in Projects :
             In(q, Busy)' \subseteq In(q, Busy) /\ In(q, Raised)' \subseteq In(q, Raised)
      BY <1>3 DEF In, Busy, Raised, TypeOK
    <2>2. \A q \in Projects : Cardinality(In(q, Busy)') <= Slots
      BY <2>1, FewerBusy
    <2>3. QED
      BY <1>3, <2>1, <2>2 DEF SlotsInv
  <1>4. CASE \E why \in Raised : Raise(p, b, why)
    <2>1. \A q \in Projects : In(q, Busy)' \subseteq In(q, Busy)
      BY <1>1, <1>4 DEF In, Busy, Raised, Raise, TypeOK
    <2>2. \A q \in Projects : q # p => In(q, Raised)' = In(q, Raised)
      BY <1>4 DEF In, Raise, TypeOK
    <2>3. \A q \in Projects : q # p => abort'[q] = abort[q]
      BY <1>4 DEF Raise, TypeOK
    <2>4. abort'[p] = TRUE
      BY <1>4 DEF Raise, TypeOK
    <2>5. \A q \in Projects : Cardinality(In(q, Busy)') <= Slots
      BY <2>1, FewerBusy
    <2>6. QED
      BY <2>2, <2>3, <2>4, <2>5 DEF SlotsInv
  <1>5. QED
    BY <1>1, <1>2, <1>3, <1>4 DEF PostEffect, Raised

LEMMA BeginSlots ==
    ASSUME TypeOK, SlotsInv, NEW p \in Projects, BeginPush(p)
    PROVE  SlotsInv'
  <1>1. /\ abort' = abort
        /\ \E n \in 0..MaxLines, s \in {"queued", "skipped"} :
              batch' = [batch EXCEPT ![p] = [b \in 1..BatchCount(n) |-> s]]
    BY DEF BeginPush
  <1>2. In(p, Busy)' = {} /\ In(p, Raised)' = {}
    BY <1>1 DEF In, Busy, Raised, TypeOK
  <1>3. \A q \in Projects : q # p =>
           In(q, Busy)' = In(q, Busy) /\ In(q, Raised)' = In(q, Raised)
    BY <1>1 DEF In, TypeOK
  <1>4. Cardinality(In(p, Busy)') <= Slots
    BY <1>2, FewerBusy
  <1>5. QED
    BY <1>1, <1>2, <1>3, <1>4 DEF SlotsInv

\* However many batches a project has, a fatal answer costs it no more refused
\* requests than it had slots.
THEOREM FewRefusals == Spec => []RefusalsBounded
  <1>1. Init => SlotsInv
    BY FS_EmptySet, AssumptionFacts DEF Init, SlotsInv, In
  <1>2. TypeOK /\ SlotsInv /\ [Next]_vars => SlotsInv'
    <2> SUFFICES ASSUME TypeOK, SlotsInv, [Next]_vars PROVE SlotsInv'
      OBVIOUS
    <2>1. ASSUME NEW p \in Projects, ProjectStep(p) PROVE SlotsInv'
      <3>1. CASE BeginPush(p)
        BY <3>1, BeginSlots
      <3>2. CASE FinishPush(p)
        BY <3>2 DEF FinishPush, SlotsInv, In
      <3>3. ASSUME NEW b \in DOMAIN batch[p], StartBatch(p, b) PROVE SlotsInv'
        BY <3>3, StartSlots
      <3>4. ASSUME NEW b \in DOMAIN batch[p], Post(p, b) PROVE SlotsInv'
        BY <3>4, PostSlots
      <3>5. QED
        BY <2>1, <3>1, <3>2, <3>3, <3>4 DEF ProjectStep
    <2>2. CASE CycleTimesOut
      BY <2>2 DEF CycleTimesOut, SlotsInv, In
    <2>3. CASE UNCHANGED vars
      BY <2>3 DEF vars, SlotsInv, In
    <2>4. QED
      BY <2>1, <2>2, <2>3 DEF Next
  <1>3. TypeOK /\ SlotsInv => RefusalsBounded
    <2> SUFFICES ASSUME TypeOK, SlotsInv, NEW p \in Projects
                 PROVE  Cardinality(In(p, Raised)) <= Slots
      BY DEF RefusalsBounded
    <2>1. In(p, Raised) \subseteq In(p, Busy)
      BY DEF In, Busy
    <2>2. Cardinality(In(p, Raised)) <= Cardinality(In(p, Busy))
      BY <2>1, InFinite, FS_Subset
    <2>3. QED
      BY <2>2, InFinite, AssumptionFacts DEF SlotsInv
  <1>4. QED
    BY <1>1, <1>2, <1>3, TypeCorrect, PTL DEF Spec

-----------------------------------------------------------------------------
RefusedSomewhere == \E q \in Projects : In(q, {"refused"}) # {}

\* The shared connectivity tells exactly whether any project was refused.
RefusalInv ==
    /\ RefusedSomewhere <=> connectivity # "Ok"
    /\ \A p \in Projects : stage[p] = "fetching" => DOMAIN batch[p] = {}
    /\ SkippedForAReason

\* A step that changes no batch but one, which was under way or waiting, to a
\* state that neither raised nor was skipped.
LEMMA PlainUpdate ==
    ASSUME TypeOK, RefusalInv, NEW p \in Projects, NEW b \in DOMAIN batch[p],
           batch[p][b] \in {"queued", "posting"},
           NEW s \in {"posting", "answered", "unexplained", "dropped"},
           batch' = [batch EXCEPT ![p][b] = s],
           UNCHANGED <<connectivity, stage>>
    PROVE  RefusalInv'
  <1>1. \A q \in Projects :
           /\ DOMAIN batch'[q] = DOMAIN batch[q]
           /\ In(q, {"refused"})' = In(q, {"refused"})
           /\ In(q, Raised)' = In(q, Raised)
           /\ In(q, {"skipped"})' = In(q, {"skipped"})
    BY DEF In, Raised, TypeOK
  <1>2. QED
    BY <1>1 DEF RefusalInv, SkippedForAReason, RefusedSomewhere

LEMMA RaiseRefusal ==
    ASSUME TypeOK, RefusalInv, NEW p \in Projects, NEW b \in DOMAIN batch[p],
           batch[p][b] = "posting", NEW why \in Raised, Raise(p, b, why),
           IF why = "refused" THEN connectivity' \in FatalConnectivity
                              ELSE connectivity' = connectivity
    PROVE  RefusalInv'
  <1>1. \A q \in Projects : q # p => batch'[q] = batch[q]
    BY DEF Raise, TypeOK
  <1>2. /\ DOMAIN batch'[p] = DOMAIN batch[p]
        /\ batch'[p][b] = why
        /\ \A c \in DOMAIN batch[p] :
              c # b /\ batch[p][c] # "queued" => batch'[p][c] = batch[p][c]
        /\ \A c \in DOMAIN batch[p] :
              c # b /\ batch[p][c] = "queued" => batch'[p][c] = "skipped"
        /\ stage' = stage
    BY DEF Raise, TypeOK
  <1>3. \A q \in Projects : q # p =>
           /\ In(q, {"refused"})' = In(q, {"refused"})
           /\ In(q, Raised)' = In(q, Raised)
           /\ In(q, {"skipped"})' = In(q, {"skipped"})
           /\ DOMAIN batch'[q] = DOMAIN batch[q]
    BY <1>1 DEF In
  <1>4. In(p, Raised)' # {}
    BY <1>2 DEF In
  <1>5. In(p, {"refused"})' = IF why = "refused" THEN In(p, {"refused"}) \union {b}
                                                 ELSE In(p, {"refused"})
    BY <1>2 DEF In, Raised
  <1>6. \A q \in Projects : In(q, {"refused"}) # {} => In(q, {"refused"})' # {}
    BY <1>3, <1>5
  <1>7. RefusedSomewhere' <=> connectivity' # "Ok"
    <2>1. CASE why = "refused"
      <3>1. RefusedSomewhere'
        BY <1>5, <2>1 DEF RefusedSomewhere
      <3>2. connectivity' # "Ok"
        BY <2>1 DEF FatalConnectivity
      <3>3. QED
        BY <3>1, <3>2
    <2>2. CASE why # "refused"
      <3>1. RefusedSomewhere' <=> RefusedSomewhere
        BY <1>3, <1>5, <2>2 DEF RefusedSomewhere
      <3>2. QED
        BY <2>2, <3>1 DEF RefusalInv
    <2>3. QED
      BY <2>1, <2>2
  <1>8. SkippedForAReason'
    BY <1>3, <1>4, <1>6 DEF RefusalInv, SkippedForAReason
  <1>9. \A q \in Projects : stage'[q] = "fetching" => DOMAIN batch'[q] = {}
    BY <1>2, <1>3 DEF RefusalInv
  <1>10. QED
    BY <1>7, <1>8, <1>9 DEF RefusalInv

LEMMA PostRefusal ==
    ASSUME TypeOK, RefusalInv, NEW p \in Projects, NEW b \in DOMAIN batch[p],
           Post(p, b)
    PROVE  RefusalInv'
  <1>1. PostEffect(p, b) /\ batch[p][b] = "posting" /\ stage' = stage
    BY PostHasEffect
  <1>2. CASE UNCHANGED <<batch, abort, connectivity>>
    BY <1>1, <1>2 DEF RefusalInv, SkippedForAReason, RefusedSomewhere, In
  <1>3. CASE /\ \E s \in {"answered", "unexplained", "dropped"} :
                    batch' = [batch EXCEPT ![p][b] = s]
             /\ UNCHANGED <<abort, connectivity>>
    BY <1>1, <1>3, PlainUpdate
  <1>4. CASE Raise(p, b, "refused") /\ connectivity' \in FatalConnectivity
    BY <1>1, <1>4, RaiseRefusal DEF Raised
  <1>5. CASE Raise(p, b, "broken") /\ UNCHANGED connectivity
    BY <1>1, <1>5, RaiseRefusal DEF Raised
  <1>6. CASE Raise(p, b, "misread") /\ UNCHANGED connectivity
    BY <1>1, <1>6, RaiseRefusal DEF Raised
  <1>7. QED
    BY <1>1, <1>2, <1>3, <1>4, <1>5, <1>6 DEF PostEffect

LEMMA BeginRefusal ==
    ASSUME TypeOK, RefusalInv, NEW p \in Projects, BeginPush(p)
    PROVE  RefusalInv'
  <1>1. PICK n \in 0..MaxLines :
          IF connectivity = "Ok" /\ n > 0
            THEN /\ stage' = [stage EXCEPT ![p] = "pushing"]
                 /\ batch' = [batch EXCEPT ![p] = [b \in 1..BatchCount(n) |-> "queued"]]
            ELSE /\ stage' = [stage EXCEPT ![p] = "finished"]
                 /\ batch' = [batch EXCEPT ![p] = [b \in 1..BatchCount(n) |-> "skipped"]]
    BY DEF BeginPush
  <1>2. connectivity' = connectivity /\ stage[p] = "fetching"
    BY DEF BeginPush
  <1>3. \A q \in Projects : q # p => batch'[q] = batch[q] /\ stage'[q] = stage[q]
    BY <1>1 DEF TypeOK
  <1>4. stage'[p] # "fetching"
    BY <1>1 DEF TypeOK
  <1>5. In(p, {"refused"}) = {} /\ In(p, {"refused"})' = {}
    <2>1. DOMAIN batch[p] = {}
      BY <1>2 DEF RefusalInv
    <2>2. \A b \in DOMAIN batch'[p] : batch'[p][b] \in {"queued", "skipped"}
      <3>1. \E s \in {"queued", "skipped"} :
               batch'[p] = [b \in 1..BatchCount(n) |-> s]
        BY <1>1 DEF TypeOK
      <3>2. QED
        BY <3>1
    <2>3. QED
      BY <2>1, <2>2 DEF In
  <1>6. \A q \in Projects : In(q, {"refused"})' = In(q, {"refused"})
    BY <1>3, <1>5 DEF In
  <1>7. RefusedSomewhere' <=> RefusedSomewhere
    BY <1>6 DEF RefusedSomewhere
  <1>8. \A q \in Projects : q # p =>
           /\ In(q, Raised)' = In(q, Raised)
           /\ In(q, {"skipped"})' = In(q, {"skipped"})
           /\ DOMAIN batch'[q] = DOMAIN batch[q]
    BY <1>3 DEF In
  <1>9. In(p, {"skipped"})' # {} =>
           In(p, {"skipped"})' = DOMAIN batch'[p] /\ RefusedSomewhere
    <2>1. CASE connectivity = "Ok" /\ n > 0
      BY <1>1, <2>1 DEF In, TypeOK
    <2>2. CASE connectivity # "Ok"
      BY <1>1, <2>2 DEF In, TypeOK, RefusalInv
    <2>3. CASE ~(n > 0)
      <3>1. n = 0 /\ BatchCount(0) = 0
        BY <2>3, AssumptionFacts DEF BatchCount
      <3>2. DOMAIN batch'[p] = {}
        BY <1>1, <3>1 DEF TypeOK
      <3>3. QED
        BY <3>2 DEF In
    <2>4. QED
      BY <2>1, <2>2, <2>3
  <1>10. SkippedForAReason'
    BY <1>6, <1>8, <1>9 DEF RefusalInv, SkippedForAReason, RefusedSomewhere
  <1>11. \A q \in Projects : stage'[q] = "fetching" => DOMAIN batch'[q] = {}
    BY <1>3, <1>4 DEF RefusalInv
  <1>12. RefusedSomewhere' <=> connectivity' # "Ok"
    BY <1>2, <1>7 DEF RefusalInv
  <1>13. QED
    BY <1>10, <1>11, <1>12 DEF RefusalInv

LEMMA RefusalInvariant == Spec => []RefusalInv
  <1>1. Init => RefusalInv
    BY DEF Init, RefusalInv, SkippedForAReason, RefusedSomewhere, In
  <1>2. TypeOK /\ RefusalInv /\ [Next]_vars => RefusalInv'
    <2> SUFFICES ASSUME TypeOK, RefusalInv, [Next]_vars PROVE RefusalInv'
      OBVIOUS
    <2>1. ASSUME NEW p \in Projects, ProjectStep(p) PROVE RefusalInv'
      <3>1. CASE BeginPush(p)
        BY <3>1, BeginRefusal
      <3>2. CASE FinishPush(p)
        BY <3>2 DEF FinishPush, TypeOK, RefusalInv, SkippedForAReason,
           RefusedSomewhere, In
      <3>3. ASSUME NEW b \in DOMAIN batch[p], StartBatch(p, b) PROVE RefusalInv'
        BY <3>3, PlainUpdate DEF StartBatch, In
      <3>4. ASSUME NEW b \in DOMAIN batch[p], Post(p, b) PROVE RefusalInv'
        BY <3>4, PostRefusal
      <3>5. QED
        BY <2>1, <3>1, <3>2, <3>3, <3>4 DEF ProjectStep
    <2>2. CASE CycleTimesOut
      BY <2>2 DEF CycleTimesOut, TypeOK, RefusalInv, SkippedForAReason,
         RefusedSomewhere, In
    <2>3. CASE UNCHANGED vars
      BY <2>3 DEF vars, RefusalInv, SkippedForAReason, RefusedSomewhere, In
    <2>4. QED
      BY <2>1, <2>2, <2>3 DEF Next
  <1>3. QED
    BY <1>1, <1>2, TypeCorrect, PTL DEF Spec

\* A failing project takes no other project's batches with it.
THEOREM FailuresIsolated == Spec => []SkippedForAReason
  BY RefusalInvariant, PTL DEF RefusalInv

\* After a refusal of any project, a project whose lines become ready sends
\* nothing for the rest of the cycle.
THEOREM RefusalHeeded == Spec => NoPushAfterRefusal
  <1>1. TypeOK /\ RefusalInv /\ [Next]_vars =>
          [\A p, q \in Projects : stage[p] = "fetching" /\ In(q, {"refused"}) # {}
              => stage'[p] # "pushing"]_vars
    <2> SUFFICES ASSUME TypeOK, RefusalInv, Next,
                        NEW p \in Projects, NEW q \in Projects,
                        stage[p] = "fetching", In(q, {"refused"}) # {},
                        stage'[p] = "pushing"
                 PROVE  FALSE
      OBVIOUS
    <2>1. connectivity # "Ok"
      BY DEF RefusalInv, RefusedSomewhere
    <2>2. ASSUME NEW r \in Projects, BeginPush(r) PROVE FALSE
      <3>1. stage' = [stage EXCEPT ![r] = "finished"]
        BY <2>1, <2>2 DEF BeginPush
      <3>2. stage'[p] \in {stage[p], "finished"}
        BY <3>1 DEF TypeOK
      <3>3. QED
        BY <3>2
    <2>3. ASSUME NEW r \in Projects, FinishPush(r) PROVE FALSE
      BY <2>3 DEF FinishPush, TypeOK
    <2>4. ASSUME NEW r \in Projects, NEW b \in DOMAIN batch[r],
                 StartBatch(r, b) \/ Post(r, b)
          PROVE  FALSE
      <3>1. stage' = stage
        BY <2>4, PostHasEffect DEF StartBatch
      <3>2. QED
        BY <3>1
    <2>5. CASE CycleTimesOut
      BY <2>5 DEF CycleTimesOut, TypeOK
    <2>6. QED
      BY <2>2, <2>3, <2>4, <2>5 DEF Next, ProjectStep
  <1>2. QED
    BY <1>1, TypeCorrect, RefusalInvariant, PTL DEF Spec, NoPushAfterRefusal

-----------------------------------------------------------------------------
(* The lines of the batches.                                               *)

LEMMA TimesBatchSize ==
    ASSUME NEW a \in Int, NEW b \in Int, a < b
    PROVE  a * BatchSize <= (b - 1) * BatchSize
  <1>1. a <= b - 1 /\ BatchSize \in Nat
    BY AssumptionFacts
  <1>2. QED
    BY <1>1

\* No line is in two batches.
LEMMA BatchesApart ==
    ASSUME NEW p, NEW a \in Int, NEW b \in Int, a # b
    PROVE  LinesOf(p, a) \intersect LinesOf(p, b) = {}
  <1> SUFFICES ASSUME NEW i \in Int, NEW c \in Int, NEW d \in Int, c < d,
                      i <= c * BatchSize, (d - 1) * BatchSize < i
               PROVE  FALSE
    BY DEF LinesOf
  <1>1. c * BatchSize <= (d - 1) * BatchSize
    BY TimesBatchSize
  <1>2. c * BatchSize \in Int /\ (d - 1) * BatchSize \in Int
    BY AssumptionFacts
  <1>3. QED
    BY <1>1, <1>2

\* Rounding up: the batches of n lines hold them all, and the last one has a line.
LEMMA BatchCountRounds ==
    ASSUME NEW n \in Nat
    PROVE  /\ BatchCount(n) \in Nat
           /\ n <= BatchCount(n) * BatchSize
           /\ (BatchCount(n) - 1) * BatchSize < n
  <1>1. BatchCount(n) \in Nat
    BY BatchCountType
  <1>2. /\ BatchCount(n) * BatchSize <= n + BatchSize - 1
        /\ n + BatchSize - 1 < BatchCount(n) * BatchSize + BatchSize
    BY <1>1, AssumptionFacts DEF BatchCount
  <1>3. (BatchCount(n) - 1) * BatchSize = BatchCount(n) * BatchSize - BatchSize
    BY <1>1, AssumptionFacts
  <1>4. BatchCount(n) * BatchSize \in Int
    BY <1>1, AssumptionFacts
  <1>5. QED
    BY <1>1, <1>2, <1>3, <1>4, AssumptionFacts

\* Every line is in a batch.
LEMMA EveryLineInABatch ==
    ASSUME NEW n \in Nat, NEW i \in 1..n
    PROVE  \E b \in 1..BatchCount(n) : (b - 1) * BatchSize < i /\ i <= b * BatchSize
  <1> DEFINE b == BatchCount(i)
             k == BatchCount(n)
  <1>1. i \in Nat /\ 1 <= i /\ i <= n
    OBVIOUS
  <1>2. b \in Nat /\ i <= b * BatchSize /\ (b - 1) * BatchSize < i
    BY <1>1, BatchCountRounds
  <1>3. k \in Nat /\ n <= k * BatchSize
    BY BatchCountRounds
  <1> HIDE DEF b, k
  <1>4. b # 0
    BY <1>1, <1>2, AssumptionFacts
  <1>5. ~(k < b)
    <2>1. k < b => k * BatchSize <= (b - 1) * BatchSize
      BY <1>2, <1>3, TimesBatchSize
    <2>2. k * BatchSize \in Int /\ (b - 1) * BatchSize \in Int
      BY <1>2, <1>3, AssumptionFacts
    <2>3. QED
      BY <1>1, <1>2, <1>3, <2>1, <2>2
  <1>6. b \in 1..k
    BY <1>2, <1>3, <1>4, <1>5
  <1>7. QED
    BY <1>2, <1>6 DEF k

\* Size counts the lines of a batch.
LEMMA SizeCountsLines ==
    ASSUME TypeOK, NEW p \in Projects, NEW b \in DOMAIN batch[p]
    PROVE  /\ IsFiniteSet(LinesOf(p, b))
           /\ Cardinality(LinesOf(p, b)) = Size(p, b)
  <1>1. lines[p] \in Nat /\ b \in 1..BatchCount(lines[p])
    <2>1. lines[p] \in Nat
      BY AssumptionFacts DEF TypeOK
    <2>2. b \in 1..BatchCount(lines[p])
      BY DEF TypeOK
    <2>3. QED
      BY <2>1, <2>2
  <1>2. BatchCount(lines[p]) \in Nat
    BY <1>1, BatchCountRounds
  <1>3. /\ (b - 1) * BatchSize \in Nat /\ b * BatchSize \in Nat
        /\ b * BatchSize = (b - 1) * BatchSize + BatchSize
    BY <1>1, <1>2, AssumptionFacts
  <1>4. Size(p, b) \in Nat
    BY SizeType
  <1>5. Size(p, b) = IF b * BatchSize <= lines[p] THEN BatchSize
                                                  ELSE lines[p] - (b - 1) * BatchSize
    BY DEF Size
  <1> DEFINE low == (b - 1) * BatchSize + 1
             high == (b - 1) * BatchSize + Size(p, b)
  <1>6. LinesOf(p, b) = low..high
    BY <1>1, <1>3, <1>4, <1>5, AssumptionFacts DEF LinesOf
  <1>7. low \in Int /\ high \in Int
    BY <1>3, <1>4
  <1>8. IsFiniteSet(low..high)
        /\ Cardinality(low..high) = IF low > high THEN 0 ELSE high - low + 1
    BY <1>7, FS_Interval
  <1>9. (IF low > high THEN 0 ELSE high - low + 1) = Size(p, b)
    BY <1>3, <1>4
  <1>10. QED
    BY <1>6, <1>8, <1>9

-----------------------------------------------------------------------------
Counted(p) == ok[p] + invalid[p] + dropped[p]

\* A project that still fetches has no lines: LinesAccounted made inductive.
LinesInv ==
    /\ LinesAccounted
    /\ \A p \in Projects : stage[p] = "fetching" => lines[p] = 0

LEMMA LinesFinite ==
    ASSUME TypeOK, NEW p \in Projects, NEW states
    PROVE  /\ lines[p] \in Nat /\ IsFiniteSet(LinesIn(p, states))
           /\ Cardinality(LinesIn(p, states)) \in Nat
  <1>1. lines[p] \in Nat
    BY AssumptionFacts DEF TypeOK
  <1>2. LinesIn(p, states) \subseteq 1..lines[p]
    BY DEF LinesIn, LinesOf
  <1>3. IsFiniteSet(1..lines[p])
    BY <1>1, FS_Interval
  <1>4. QED
    BY <1>1, <1>2, <1>3, FS_Subset, FS_CardinalityType

LEMMA CountedType ==
    ASSUME TypeOK, NEW p \in Projects
    PROVE  ok[p] \in Nat /\ invalid[p] \in Nat /\ dropped[p] \in Nat
  BY DEF TypeOK

\* A batch whose lines are counted takes them, and no others, from the lines
\* that are not counted.
LEMMA BatchCounted ==
    ASSUME TypeOK, LinesInv, NEW p \in Projects, NEW b \in DOMAIN batch[p],
           batch[p][b] = "posting", In(p, Uncounted)' = In(p, Uncounted) \ {b},
           \A q \in Projects \ {p} : In(q, Uncounted)' = In(q, Uncounted),
           UNCHANGED <<lines, stage>>,
           NEW more \in Nat, Counted(p)' = Counted(p) + more, more = Size(p, b),
           \A q \in Projects \ {p} : Counted(q)' = Counted(q)
    PROVE  LinesInv'
  <1>1. In(p, Uncounted)' = In(p, Uncounted) \ {b} /\ b \in In(p, Uncounted)
    BY DEF In, Uncounted, TypeOK
  <1>2. \A c \in In(p, Uncounted) : c \in Int
    <2>1. lines[p] \in Nat /\ DOMAIN batch[p] = 1..BatchCount(lines[p])
      BY LinesFinite DEF TypeOK
    <2>2. QED
      BY <2>1, BatchCountRounds DEF In
  <1>3. LinesIn(p, Uncounted)' = LinesIn(p, Uncounted) \ LinesOf(p, b)
        /\ LinesOf(p, b) \subseteq LinesIn(p, Uncounted)
    <2>1. \A c \in In(p, Uncounted) \ {b} : LinesOf(p, c) \intersect LinesOf(p, b) = {}
      BY <1>1, <1>2, BatchesApart
    <2>2. \A c : LinesOf(p, c)' = LinesOf(p, c)
      BY DEF LinesOf
    <2>3. LinesIn(p, Uncounted)' = UNION {LinesOf(p, c) : c \in In(p, Uncounted) \ {b}}
      BY <1>1, <2>2 DEF LinesIn, Uncounted, Raised
    <2>4. QED
      BY <1>1, <2>1, <2>3 DEF LinesIn
  <1>4. Cardinality(LinesIn(p, Uncounted)')
          = Cardinality(LinesIn(p, Uncounted)) - Size(p, b)
    <2>1. LinesIn(p, Uncounted) \intersect LinesOf(p, b) = LinesOf(p, b)
      BY <1>3
    <2>2. Cardinality(LinesIn(p, Uncounted) \ LinesOf(p, b))
            = Cardinality(LinesIn(p, Uncounted)) - Cardinality(LinesOf(p, b))
      <3> DEFINE S == LinesIn(p, Uncounted)
                 T == LinesOf(p, b)
      <3>1. IsFiniteSet(S) /\ S \intersect T = T
        BY <2>1, LinesFinite
      <3> HIDE DEF S, T
      <3>2. Cardinality(S \ T) = Cardinality(S) - Cardinality(S \intersect T)
        BY <3>1, FS_Difference
      <3>3. Cardinality(S \ T) = Cardinality(S) - Cardinality(T)
        BY <3>1, <3>2
      <3>4. QED
        BY <3>3 DEF S, T
    <2>3. QED
      BY <1>3, <2>2, SizeCountsLines
  <1>5. lines[p] = Counted(p)' + Cardinality(LinesIn(p, Uncounted)')
    <2>1. /\ Cardinality(LinesIn(p, Uncounted)) \in Nat /\ Counted(p) \in Nat
          /\ lines[p] = Counted(p) + Cardinality(LinesIn(p, Uncounted))
      BY LinesFinite, CountedType DEF LinesInv, LinesAccounted, Counted
    <2>2. QED
      BY <1>4, <2>1
  <1>6. ASSUME NEW q \in Projects \ {p}
        PROVE  lines[q] = Counted(q)' + Cardinality(LinesIn(q, Uncounted)')
    <2>1. LinesIn(q, Uncounted)' = LinesIn(q, Uncounted)
      BY DEF LinesIn, LinesOf, Uncounted
    <2>2. QED
      BY <2>1 DEF LinesInv, LinesAccounted, Counted
  <1>7. QED
    BY <1>5, <1>6 DEF LinesInv, LinesAccounted, Counted

\* A step that only moves batches between states whose lines are not counted.
LEMMA NothingCounted ==
    ASSUME TypeOK, LinesInv, UNCHANGED <<lines, counters>>,
           \A q \in Projects : In(q, Uncounted)' = In(q, Uncounted),
           \A q \in Projects : stage'[q] = "fetching" => stage[q] = "fetching"
    PROVE  LinesInv'
  <1>1. \A q \in Projects : LinesIn(q, Uncounted)' = LinesIn(q, Uncounted)
    BY DEF LinesIn, LinesOf
  <1>2. QED
    BY <1>1 DEF LinesInv, LinesAccounted, counters

\* The lines that are fetched are all in batches that wait or are skipped.
LEMMA BeginLines ==
    ASSUME TypeOK, LinesInv, NEW p \in Projects, BeginPush(p)
    PROVE  LinesInv'
  <1>1. PICK n \in 0..MaxLines :
          /\ lines' = [lines EXCEPT ![p] = n]
          /\ \E s \in {"pushing", "finished"} : stage' = [stage EXCEPT ![p] = s]
          /\ \E s \in {"queued", "skipped"} :
                batch' = [batch EXCEPT ![p] = [b \in 1..BatchCount(n) |-> s]]
    BY DEF BeginPush
  <1>2. n \in Nat /\ lines'[p] = n /\ stage'[p] # "fetching"
        /\ UNCHANGED counters /\ lines[p] = 0
    BY <1>1, AssumptionFacts DEF BeginPush, LinesInv, TypeOK
  <1>3. ok[p] + invalid[p] + dropped[p] = 0
    <2>1. 0 = ok[p] + invalid[p] + dropped[p] + Cardinality(LinesIn(p, Uncounted))
      BY <1>2 DEF LinesInv, LinesAccounted
    <2>2. QED
      BY <2>1, LinesFinite, CountedType
  <1>4. In(p, Uncounted)' = 1..BatchCount(n)
    BY <1>1 DEF In, Uncounted, TypeOK
  <1>5. \A b : LinesOf(p, b)' = {i \in 1..n : (b - 1) * BatchSize < i /\ i <= b * BatchSize}
    BY <1>2 DEF LinesOf
  <1>6. LinesIn(p, Uncounted)' = UNION {LinesOf(p, b)' : b \in 1..BatchCount(n)}
    BY <1>4 DEF LinesIn, Uncounted, Raised
  <1>7. LinesIn(p, Uncounted)' = 1..n
    <2>1. ASSUME NEW i \in 1..n PROVE i \in LinesIn(p, Uncounted)'
      <3>1. PICK b \in 1..BatchCount(n) : (b - 1) * BatchSize < i /\ i <= b * BatchSize
        BY <1>2, EveryLineInABatch
      <3>2. i \in LinesOf(p, b)'
        BY <1>5, <3>1
      <3>3. QED
        BY <1>6, <3>2
    <2>2. ASSUME NEW i \in LinesIn(p, Uncounted)' PROVE i \in 1..n
      <3>1. PICK b \in 1..BatchCount(n) : i \in LinesOf(p, b)'
        BY <1>6
      <3>2. QED
        BY <1>5, <3>1
    <2>3. QED
      BY <2>1, <2>2
  <1>8. Cardinality(1..n) = n
    <2>1. Cardinality(1..n) = IF 1 > n THEN 0 ELSE n - 1 + 1
      BY <1>2, FS_Interval
    <2>2. QED
      BY <1>2, <2>1
  <1>9. lines'[p] = (ok[p] + invalid[p] + dropped[p] + Cardinality(LinesIn(p, Uncounted)))'
    BY <1>2, <1>3, <1>7, <1>8 DEF counters
  <1>10. ASSUME NEW q \in Projects \ {p}
         PROVE  /\ LinesIn(q, Uncounted)' = LinesIn(q, Uncounted)
                /\ lines'[q] = lines[q] /\ stage'[q] = stage[q]
    <2>1. batch'[q] = batch[q] /\ lines'[q] = lines[q] /\ stage'[q] = stage[q]
      BY <1>1 DEF TypeOK
    <2>2. QED
      BY <2>1 DEF LinesIn, LinesOf, In, Uncounted, Raised
  <1>11. QED
    BY <1>2, <1>9, <1>10 DEF LinesInv, LinesAccounted, counters

LEMMA PostLines ==
    ASSUME TypeOK, LinesInv, NEW p \in Projects, NEW b \in DOMAIN batch[p], Post(p, b)
    PROVE  LinesInv'
  <1>0. Size(p, b) \in Nat /\ batch[p][b] = "posting" /\ stage' = stage
    BY SizeType, PostHasEffect
  <1>1. CASE Retry(p, b)
    BY <1>1, NothingCounted DEF Retry, In
  <1>2. CASE Drop(p, b)
    <2>1. /\ batch' = [batch EXCEPT ![p][b] = "dropped"]
          /\ dropped' = [dropped EXCEPT ![p] = @ + Size(p, b)]
          /\ UNCHANGED <<lines, stage, ok, invalid>>
      BY <1>2 DEF Drop
    <2>2. /\ Counted(p)' = Counted(p) + Size(p, b)
          /\ \A q \in Projects \ {p} : Counted(q)' = Counted(q)
      <3>1. dropped'[p] = dropped[p] + Size(p, b)
            /\ \A q \in Projects \ {p} : dropped'[q] = dropped[q]
        BY <2>1 DEF TypeOK
      <3>2. QED
        BY <1>0, <2>1, <3>1, CountedType DEF Counted
    <2>3. /\ In(p, Uncounted)' = In(p, Uncounted) \ {b}
          /\ \A q \in Projects \ {p} : In(q, Uncounted)' = In(q, Uncounted)
      BY <2>1 DEF In, Uncounted, TypeOK
    <2>4. QED
      BY <1>0, <2>1, <2>2, <2>3, BatchCounted
  <1>3. CASE Count(p, b) /\ (PostAnswered(p, b) \/ PostMisread(p, b))
    <2>1. PICK valid \in 0..Size(p, b) :
            /\ ok' = [ok EXCEPT ![p] = @ + valid]
            /\ invalid' = [invalid EXCEPT ![p] = @ + (Size(p, b) - valid)]
      BY <1>3 DEF Count
    <2>2. UNCHANGED <<lines, stage, dropped>>
      BY <1>0, <1>3 DEF Count, PostAnswered, PostMisread, Raise
    <2>3. /\ In(p, Uncounted)' = In(p, Uncounted) \ {b}
          /\ \A q \in Projects \ {p} : In(q, Uncounted)' = In(q, Uncounted)
      <3>1. CASE PostAnswered(p, b)
        BY <3>1 DEF PostAnswered, In, Uncounted, TypeOK
      <3>2. CASE PostMisread(p, b)
        BY <3>2 DEF PostMisread, Raise, In, Uncounted, TypeOK
      <3>3. QED
        BY <1>3, <3>1, <3>2
    <2>4. /\ Counted(p)' = Counted(p) + Size(p, b)
          /\ \A q \in Projects \ {p} : Counted(q)' = Counted(q)
      <3>1. /\ ok'[p] = ok[p] + valid /\ invalid'[p] = invalid[p] + (Size(p, b) - valid)
            /\ \A q \in Projects \ {p} : ok'[q] = ok[q] /\ invalid'[q] = invalid[q]
        BY <2>1 DEF TypeOK
      <3>2. QED
        BY <1>0, <2>2, <3>1, CountedType DEF Counted
    <2>5. QED
      BY <1>0, <2>2, <2>3, <2>4, BatchCounted
  <1>4. CASE UNCHANGED counters /\ \E why \in {"refused", "broken"} : Raise(p, b, why)
    <2>1. \A q \in Projects : In(q, Uncounted)' = In(q, Uncounted)
      BY <1>0, <1>4 DEF In, Uncounted, Raise, TypeOK
    <2>2. QED
      BY <1>0, <1>4, <2>1, NothingCounted DEF Raise
  <1>5. CASE PostUnexplained(p, b)
    <2>1. \A q \in Projects : In(q, Uncounted)' = In(q, Uncounted)
      BY <1>0, <1>5 DEF In, Uncounted, Raised, PostUnexplained, TypeOK
    <2>2. QED
      BY <1>0, <1>5, <2>1, NothingCounted DEF PostUnexplained
  <1>6. QED
    BY <1>1, <1>2, <1>3, <1>4, <1>5
       DEF Post, PostRetried, PostDropped, PostBadUrl, PostRefused, PostBroken,
           PostAnswered, PostMisread

\* Whatever the posts of push_ingest_lines end with and however they are
\* interleaved, the counters of a project and its batches add up to its lines.
THEOREM NoLineUnaccounted == Spec => []LinesAccounted
  <1>1. Init => LinesInv
    <2> SUFFICES ASSUME Init, NEW p \in Projects
                 PROVE  /\ lines[p] = 0
                        /\ lines[p] = ok[p] + invalid[p] + dropped[p]
                                        + Cardinality(LinesIn(p, Uncounted))
      BY DEF LinesInv, LinesAccounted
    <2>1. /\ lines[p] = 0 /\ ok[p] = 0 /\ invalid[p] = 0 /\ dropped[p] = 0
          /\ In(p, Uncounted) = {}
      BY DEF Init, In
    <2>2. LinesIn(p, Uncounted) = {}
      BY <2>1 DEF LinesIn
    <2>3. QED
      BY <2>1, <2>2, FS_EmptySet
  <1>2. TypeOK /\ LinesInv /\ [Next]_vars => LinesInv'
    <2> SUFFICES ASSUME TypeOK, LinesInv, [Next]_vars PROVE LinesInv'
      OBVIOUS
    <2>1. ASSUME NEW p \in Projects, ProjectStep(p) PROVE LinesInv'
      <3>1. CASE BeginPush(p)
        BY <3>1, BeginLines
      <3>2. CASE FinishPush(p)
        BY <3>2, NothingCounted DEF FinishPush, In, TypeOK
      <3>3. ASSUME NEW b \in DOMAIN batch[p], StartBatch(p, b) PROVE LinesInv'
        <4>1. \A q \in Projects : In(q, Uncounted)' = In(q, Uncounted)
          BY <3>3 DEF StartBatch, In, Uncounted, Raised, TypeOK
        <4>2. QED
          BY <3>3, <4>1, NothingCounted DEF StartBatch
      <3>4. ASSUME NEW b \in DOMAIN batch[p], Post(p, b) PROVE LinesInv'
        BY <3>4, PostLines
      <3>5. QED
        BY <2>1, <3>1, <3>2, <3>3, <3>4 DEF ProjectStep
    <2>2. CASE CycleTimesOut
      BY <2>2, NothingCounted DEF CycleTimesOut, In
    <2>3. CASE UNCHANGED vars
      BY <2>3, NothingCounted DEF vars, In
    <2>4. QED
      BY <2>1, <2>2, <2>3 DEF Next
  <1>3. QED
    BY <1>1, <1>2, TypeCorrect, PTL DEF Spec, LinesInv
=============================================================================
