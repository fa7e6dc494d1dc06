-------------------------- MODULE GcpToken_proofs --------------------------
(***************************************************************************)
(* Theorems about GcpToken, for any number of workers and any bounds.      *)
(***************************************************************************)
EXTENDS GcpToken, TLAPS

\* The flags apart from the rest: the provers treat Booleans and numbers with
\* different backends.
FlagTypeOK == expired \in BOOLEAN /\ flag \in BOOLEAN

DataTypeOK ==
    /\ generation \in Nat
    /\ accepted \subseteq Nat
    /\ holder \in SUBSET Workers
    /\ pc \in [Workers -> Locations]
    /\ captured \in [Workers -> Nat]
    /\ lapses \in 0..MaxLapses
    /\ faults \in 0..MaxFaults
    /\ causes \in Int

LEMMA TypeParts == TypeOK <=> FlagTypeOK /\ DataTypeOK
  BY DEF TypeOK, FlagTypeOK, DataTypeOK

LEMMA InitTypeOK == Init => TypeOK
  <1>1. Init => FlagTypeOK
    BY DEF Init, FlagTypeOK
  <1>2. Init => DataTypeOK
    <2> SUFFICES ASSUME Init PROVE DataTypeOK
      OBVIOUS
    <2>1. /\ generation = 0 /\ accepted = {0} /\ holder = {}
          /\ pc = [w \in Workers |-> "idle"]
          /\ captured = [w \in Workers |-> 0]
          /\ lapses = 0 /\ faults = 0 /\ causes = 0
      BY DEF Init
    <2>2. QED
      BY <2>1, GcpTokenAssumption DEF DataTypeOK, Locations
  <1>3. QED
    BY <1>1, <1>2, TypeParts

LEMMA StepTypeOK == TypeOK /\ [Next]_vars => TypeOK'
  <1> SUFFICES ASSUME TypeOK, [Next]_vars PROVE TypeOK'
    OBVIOUS
  <1> USE DEF TypeOK, environmentVars
  <1>1. ASSUME NEW w \in Workers, NEW token \in Nat, Return(w, token)
        PROVE  pc' \in [Workers -> Locations] /\ captured' \in [Workers -> Nat]
    BY <1>1 DEF Return, Locations
  <1>2. ASSUME NEW w \in Workers, BeginRound(w) PROVE TypeOK'
    BY <1>2 DEF BeginRound, Locations
  <1>3. ASSUME NEW w \in Workers, EnterRefresh(w) PROVE TypeOK'
    <2>1. CASE ~expired /\ ~flag
      BY <1>1, <1>3, <2>1 DEF EnterRefresh
    <2>2. CASE expired \/ flag
      BY <1>3, <2>2 DEF EnterRefresh, Locations
    <2>3. QED
      BY <2>1, <2>2
  <1>4. ASSUME NEW w \in Workers, RefreshOk(w) PROVE TypeOK'
    <2>1. generation + 1 \in Nat
      OBVIOUS
    <2>2. pc' \in [Workers -> Locations] /\ captured' \in [Workers -> Nat]
      BY <1>1, <1>4, <2>1 DEF RefreshOk
    <2>3. accepted' \subseteq Nat /\ faults' \in 0..MaxFaults
      <3>1. \/ accepted' = accepted \union {generation + 1} /\ UNCHANGED faults
            \/ faults < MaxFaults /\ faults' = faults + 1 /\ UNCHANGED accepted
        BY <1>4 DEF RefreshOk, Fault
      <3>2. accepted' \subseteq Nat
        BY <2>1, <3>1
      <3>3. faults' \in 0..MaxFaults
        BY <3>1, GcpTokenAssumption
      <3>4. QED
        BY <3>2, <3>3
    <2>4. FlagTypeOK'
      BY <1>4 DEF RefreshOk, FlagTypeOK
    <2>5. /\ generation' = generation + 1 /\ causes' = causes - 1
          /\ holder' = {} /\ lapses' = lapses
      BY <1>4 DEF RefreshOk
    <2>6. DataTypeOK'
      BY <2>1, <2>2, <2>3, <2>5 DEF DataTypeOK
    <2>7. QED
      BY <2>4, <2>6, TypeParts DEF FlagTypeOK, DataTypeOK
  <1>5. ASSUME NEW w \in Workers, RefreshError(w) PROVE TypeOK'
    <2>1. FlagTypeOK'
      BY <1>5 DEF RefreshError, FlagTypeOK
    <2>2. /\ faults < MaxFaults /\ faults' = faults + 1 /\ holder' = {}
          /\ \/ pc' = [pc EXCEPT ![w] = "pull"]
             \/ pc' = [pc EXCEPT ![w] = "idle"]
          /\ UNCHANGED <<generation, accepted, captured, lapses, causes>>
      BY <1>5 DEF RefreshError, Fault
    <2>3. DataTypeOK'
      BY <2>2, GcpTokenAssumption DEF DataTypeOK, Locations
    <2>4. QED
      BY <2>1, <2>3 DEF FlagTypeOK, DataTypeOK
  <1>6. ASSUME NEW w \in Workers, SendPull(w) PROVE TypeOK'
    BY <1>6 DEF SendPull, Locations
  <1>7. ASSUME NEW w \in Workers, PullAnswer(w) \/ AckAnswer(w) PROVE TypeOK'
    <2>1. FlagTypeOK'
      BY <1>7 DEF PullAnswer, AckAnswer, Answer, FlagTypeOK
    <2>2. /\ \/ pc' = [pc EXCEPT ![w] = "ack"]
             \/ pc' = [pc EXCEPT ![w] = "idle"]
          /\ causes' = causes \/ causes' = causes + 1
          /\ captured' = [captured EXCEPT ![w] = 0]
          /\ UNCHANGED <<generation, accepted, holder, lapses, faults>>
      BY <1>7 DEF PullAnswer, AckAnswer, Answer
    <2>3. DataTypeOK'
      BY <2>2 DEF DataTypeOK, Locations
    <2>4. QED
      BY <2>1, <2>3 DEF FlagTypeOK, DataTypeOK
  <1>8. ASSUME NEW w \in Workers, SendAck(w) PROVE TypeOK'
    BY <1>8 DEF SendAck, Locations
  <1>9. ASSUME Revoke PROVE TypeOK'
    BY <1>9, GcpTokenAssumption DEF Revoke, Lapse
  <1>10. ASSUME Expire PROVE TypeOK'
    <2>1. FlagTypeOK'
      BY <1>10 DEF Expire, FlagTypeOK
    <2>2. /\ lapses < MaxLapses /\ lapses' = lapses + 1
          /\ causes' = causes + 1
          /\ UNCHANGED <<generation, accepted, holder, pc, captured, faults>>
      BY <1>10 DEF Expire, Lapse
    <2>3. DataTypeOK'
      BY <2>2, GcpTokenAssumption DEF DataTypeOK
    <2>4. QED
      BY <2>1, <2>3 DEF FlagTypeOK, DataTypeOK
  <1>11. CASE UNCHANGED vars
    BY <1>11 DEF vars
  <1>12. QED
    BY <1>2, <1>3, <1>4, <1>5, <1>6, <1>7, <1>8, <1>9, <1>10, <1>11
       DEF Next, WorkerStep

\* Type correctness of the shared token state.
THEOREM TypeCorrect == Spec => []TypeOK
  BY InitTypeOK, StepTypeOK, PTL DEF Spec

-----------------------------------------------------------------------------
(* One refresh at a time, and each one paid for by an expiry or a 401.     *)

Inv == TypeOK /\ HerdInv /\ NoThunderingHerd

LEMMA InitInv == Init => Inv
  BY InitTypeOK
     DEF Init, Inv, HerdInv, RefreshExclusive, AtMostOneHolder, CausePending,
         Refreshing, NoThunderingHerd

LEMMA StepInv == Inv /\ [Next]_vars => Inv'
  <1> SUFFICES ASSUME Inv, [Next]_vars PROVE Inv'
    OBVIOUS
  <1>0. TypeOK /\ TypeOK'
    BY StepTypeOK DEF Inv
  <1> DEFINE Excl == RefreshExclusive' /\ AtMostOneHolder'
             Paid == CausePending' /\ NoThunderingHerd'
  <1> USE <1>0 DEF TypeOK, Inv, HerdInv, environmentVars
  \* A worker that does not refresh moves to a place where it does not either.
  <1>1. ASSUME NEW w \in Workers, UNCHANGED holder, ~Refreshing(w),
               \A v \in Workers \ {w} : pc'[v] = pc[v], ~Refreshing(w)'
        PROVE  Excl
    BY <1>1 DEF RefreshExclusive, AtMostOneHolder, Refreshing
  <1>2. ASSUME NEW w \in Workers, BeginRound(w) PROVE Inv'
    <2>1. Excl
      BY <1>1, <1>2 DEF BeginRound, Refreshing
    <2>2. Paid
      BY <1>2 DEF BeginRound, CausePending, NoThunderingHerd
    <2>3. QED
      BY <2>1, <2>2
  <1>3. ASSUME NEW w \in Workers, EnterRefresh(w) PROVE Inv'
    <2>1. CASE ~expired /\ ~flag
      <3>1. Excl
        BY <1>1, <1>3, <2>1 DEF EnterRefresh, Return, Refreshing
      <3>2. Paid
        BY <1>3, <2>1 DEF EnterRefresh, CausePending, NoThunderingHerd
      <3>3. QED
        BY <3>1, <3>2
    <2>2. CASE expired \/ flag
      <3>1. holder' = {w} /\ Refreshing(w)'
        BY <1>3, <2>2 DEF EnterRefresh, Refreshing
      <3>2. \A v \in Workers \ {w} : ~Refreshing(v)'
        BY <1>3, <2>2 DEF EnterRefresh, RefreshExclusive, Refreshing
      <3>3. Excl
        BY <3>1, <3>2 DEF RefreshExclusive, AtMostOneHolder
      <3>4. Paid
        BY <1>3, <2>2 DEF EnterRefresh, CausePending, NoThunderingHerd
      <3>5. QED
        BY <3>3, <3>4
    <2>3. QED
      BY <2>1, <2>2
  \* The end of a refresh, good or bad, leaves nobody refreshing.
  <1>4. ASSUME NEW w \in Workers, Refreshing(w), holder' = {},
               \A v \in Workers \ {w} : pc'[v] = pc[v], ~Refreshing(w)'
        PROVE  Excl
    <2>1. \A v \in Workers \ {w} : ~Refreshing(v)
      BY <1>4 DEF RefreshExclusive, AtMostOneHolder
    <2>2. QED
      BY <1>4, <2>1 DEF RefreshExclusive, AtMostOneHolder, Refreshing
  <1>5. ASSUME NEW w \in Workers, RefreshOk(w) PROVE Inv'
    <2>1. Excl
      BY <1>4, <1>5 DEF RefreshOk, Return, Refreshing
    <2>2. causes >= 1
      BY <1>5 DEF RefreshOk, RefreshExclusive, CausePending
    <2>3. Paid
      BY <1>5, <2>2 DEF RefreshOk, CausePending, NoThunderingHerd
    <2>4. QED
      BY <2>1, <2>3
  <1>6. ASSUME NEW w \in Workers, RefreshError(w) PROVE Inv'
    <2>1. Excl
      BY <1>4, <1>6 DEF RefreshError, Refreshing
    <2>2. Paid
      BY <1>6 DEF RefreshError, CausePending, NoThunderingHerd
    <2>3. QED
      BY <2>1, <2>2
  <1>7. ASSUME NEW w \in Workers, SendPull(w) \/ SendAck(w) PROVE Inv'
    <2>1. Excl
      BY <1>1, <1>7 DEF SendPull, SendAck, Refreshing
    <2>2. Paid
      BY <1>7 DEF SendPull, SendAck, CausePending, NoThunderingHerd
    <2>3. QED
      BY <2>1, <2>2
  <1>8. ASSUME NEW w \in Workers, PullAnswer(w) \/ AckAnswer(w) PROVE Inv'
    <2>1. Excl
      BY <1>1, <1>8 DEF PullAnswer, AckAnswer, Answer, Refreshing
    <2>2. Paid
      BY <1>8 DEF PullAnswer, AckAnswer, Answer, CausePending, NoThunderingHerd
    <2>3. QED
      BY <2>1, <2>2
  <1>9. ASSUME Expire \/ Revoke PROVE Inv'
    <2>1. Excl
      BY <1>9 DEF Expire, Revoke, RefreshExclusive, AtMostOneHolder, Refreshing
    <2>2. Paid
      BY <1>9 DEF Expire, Revoke, CausePending, NoThunderingHerd
    <2>3. QED
      BY <2>1, <2>2
  <1>10. CASE UNCHANGED vars
    BY <1>10 DEF vars, RefreshExclusive, AtMostOneHolder, Refreshing,
       CausePending, NoThunderingHerd
  <1>11. QED
    BY <1>2, <1>3, <1>5, <1>6, <1>7, <1>8, <1>9, <1>10 DEF Next, WorkerStep

\* However many workers share the client, the token is refreshed at most once
\* for each expiry and each 401 answer.
THEOREM HerdBounded == Spec => []NoThunderingHerd
  <1>1. Inv => NoThunderingHerd
    BY DEF Inv
  <1>2. QED
    BY <1>1, InitInv, StepInv, PTL DEF Spec

\* update_gcp_client runs under the lock: never two refreshes at once.
THEOREM RefreshesExclude == Spec => []HerdInv
  <1>1. Inv => HerdInv
    BY DEF Inv
  <1>2. QED
    BY <1>1, InitInv, StepInv, PTL DEF Spec

-----------------------------------------------------------------------------
(* Acknowledge requests leave with a fresh token.                          *)

\* The worker's acknowledge request leaves in this step.
LeavesToAck(w) == pc[w] # "acking" /\ pc'[w] = "acking"
Fresh(w) == ~expired' /\ captured'[w] = generation'

LEMMA AckLeavesFresh ==
    ASSUME TypeOK, Next, NEW w \in Workers, LeavesToAck(w)
    PROVE  Fresh(w)
  <1> USE DEF TypeOK, LeavesToAck, environmentVars
  \* A step of another worker does not move this one.
  <1>1. ASSUME NEW v \in Workers, WorkerStep(v) PROVE v = w
    BY <1>1 DEF WorkerStep, BeginRound, EnterRefresh, RefreshOk, RefreshError,
                SendPull, PullAnswer, SendAck, AckAnswer, Return
  <1>2. ~Expire /\ ~Revoke
    BY DEF Expire, Revoke
  <1>3. WorkerStep(w)
    BY <1>1, <1>2 DEF Next
  <1>4. EnterRefresh(w) \/ RefreshOk(w) \/ SendAck(w)
    BY <1>3 DEF WorkerStep, BeginRound, RefreshError, SendPull, PullAnswer,
                AckAnswer
  <1>5. CASE EnterRefresh(w)
    <2>1. ~expired /\ ~flag /\ Return(w, generation) /\ UNCHANGED <<generation, expired>>
      BY <1>5 DEF EnterRefresh
    <2>2. captured'[w] = generation
      BY <2>1 DEF Return
    <2>3. QED
      BY <2>1, <2>2 DEF Fresh
  <1>6. CASE RefreshOk(w)
    <2>1. /\ expired' = FALSE /\ generation' = generation + 1
          /\ Return(w, generation + 1)
      BY <1>6 DEF RefreshOk
    <2>2. captured'[w] = generation + 1
      BY <2>1 DEF Return
    <2>3. QED
      BY <2>1, <2>2 DEF Fresh
  <1>7. CASE SendAck(w)
    <2>1. /\ ~expired /\ captured' = [captured EXCEPT ![w] = generation]
          /\ UNCHANGED <<generation, expired>>
      BY <1>7 DEF SendAck
    <2>2. QED
      BY <2>1 DEF Fresh
  <1>8. QED
    BY <1>4, <1>5, <1>6, <1>7

\* push_ack_ids never sends a token that expired or was replaced while it
\* awaited the refresh: it captures the headers anew before it sends.
THEOREM AcksFresh == Spec => AcksUseFreshToken
  <1>1. TypeOK /\ [Next]_vars =>
          [\A w \in Workers :
              pc[w] # "acking" /\ pc'[w] = "acking" =>
                  ~expired' /\ captured'[w] = generation']_vars
    BY AckLeavesFresh DEF LeavesToAck, Fresh
  <1>2. QED
    BY <1>1, TypeCorrect, PTL DEF Spec, AcksUseFreshToken
=============================================================================
