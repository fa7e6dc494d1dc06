------------------------------ MODULE GcpToken ------------------------------
(***************************************************************************)
(* The access token that the workers of one log forwarding process share   *)
(* (gcp_client.py) and how they refresh it (update_gcp_client, perform_pull *)
(* and push_ack_ids).  A worker alternates pull and acknowledge requests;  *)
(* one request of a worker stands for the concurrent ones of its round,    *)
(* which capture the same token.                                           *)
(*                                                                         *)
(* A token is known by its generation.  It is "expired" when the local     *)
(* clock has passed token_expires_at (several minutes before the server    *)
(* would refuse it), and independently the server may reject it: after its *)
(* real lifetime, or at any moment when it is revoked.                     *)
(***************************************************************************)
EXTENDS Integers, FiniteSets

CONSTANTS
    Workers,      \* coroutines that share the client
    MaxLapses,    \* bound of the model: expiries and revocations
    MaxFaults     \* bound of the model: refreshes that fail or are useless

ASSUME GcpTokenAssumption == MaxLapses \in Nat /\ MaxFaults \in Nat

VARIABLES
    generation,   \* generation of api_token and of the headers made of it
    expired,      \* is_token_expired()
    accepted,     \* generations that the server still accepts
    flag,         \* update_gcp_client_in_the_next_loop
    holder,       \* who holds _refresh_lock: no worker or one
    pc,           \* where each worker is
    captured,     \* generation of the headers of the worker's open request
    lapses,       \* expiries and revocations so far
    faults,       \* failed and useless refreshes so far
    causes        \* history: expiries and 401 answers, less the refreshes

environmentVars == <<lapses, faults>>
vars == <<generation, expired, accepted, flag, holder, pc, captured,
          environmentVars, causes>>

Locations ==
    {"idle",                        \* between two rounds
     "lockPull", "refreshPull",     \* perform_pull awaits update_gcp_client
     "pull", "pulling",             \* pull_messages: before and after sending
     "ack", "acking",               \* push_ack_ids: before and after sending
     "lockAck", "refreshAck"}       \* push_ack_ids awaits update_gcp_client

Refreshing(w) == pc[w] \in {"refreshPull", "refreshAck"}

Fault == faults < MaxFaults /\ faults' = faults + 1

Init ==
    /\ generation = 0
    /\ expired = FALSE
    /\ accepted = {0}
    /\ flag = FALSE
    /\ holder = {}
    /\ pc = [w \in Workers |-> "idle"]
    /\ captured = [w \in Workers |-> 0]
    /\ lapses = 0
    /\ faults = 0
    /\ causes = 0

-----------------------------------------------------------------------------
(* perform_pull: refresh first if a request of the last round asked for it. *)

BeginRound(w) ==
    /\ pc[w] = "idle"
    /\ pc' = [pc EXCEPT ![w] = IF flag THEN "lockPull" ELSE "pull"]
    /\ UNCHANGED <<generation, expired, accepted, flag, holder, captured,
                   environmentVars, causes>>

\* Mutant: push_ack_ids goes on with the headers it captured first.
ReturnStale(w, token) ==
    IF pc[w] \in {"lockPull", "refreshPull"}
      THEN pc' = [pc EXCEPT ![w] = "pull"] /\ UNCHANGED captured
      ELSE pc' = [pc EXCEPT ![w] = "acking"] /\ UNCHANGED captured

\* Where update_gcp_client returns to: perform_pull goes on to pull_messages,
\* push_ack_ids captures the headers again and sends at once.
Return(w, token) ==
    IF pc[w] \in {"lockPull", "refreshPull"}
      THEN pc' = [pc EXCEPT ![w] = "pull"] /\ UNCHANGED captured
      ELSE /\ pc' = [pc EXCEPT ![w] = "acking"]
           /\ captured' = [captured EXCEPT ![w] = token]

\* Mutant: no second look under the lock.
EnterRefreshUnchecked(w) ==
    /\ pc[w] \in {"lockPull", "lockAck"}
    /\ holder = {}
    /\ holder' = {w}
    /\ pc' = [pc EXCEPT ![w] = IF pc[w] = "lockPull" THEN "refreshPull" ELSE "refreshAck"]
    /\ UNCHANGED <<captured, generation, expired, accepted, flag,
                   environmentVars, causes>>

\* update_gcp_client under the lock: whoever waited looks again before it
\* refreshes.
EnterRefresh(w) ==
    /\ pc[w] \in {"lockPull", "lockAck"}
    /\ holder = {}
    /\ IF ~expired /\ ~flag
         THEN Return(w, generation) /\ UNCHANGED holder
         ELSE /\ holder' = {w}
              /\ pc' = [pc EXCEPT ![w] = IF pc[w] = "lockPull"
                                           THEN "refreshPull" ELSE "refreshAck"]
              /\ UNCHANGED captured
    /\ UNCHANGED <<generation, expired, accepted, flag, environmentVars, causes>>

\* create_token_with_expiry returned and update_token installs the token.
\* A token that the server refuses (a cached one after a revocation, or None
\* from the credentials file) is installed all the same.
\* update_token is one step: it has no await, and its rollback (gcp_client.py:99)
\* is never reached from here, since both branches of create_token_with_expiry
\* return a dict that holds access_token or raise before.
RefreshOk(w) ==
    /\ Refreshing(w)
    /\ generation' = generation + 1
    /\ \/ accepted' = accepted \union {generation + 1} /\ UNCHANGED faults
       \/ Fault /\ UNCHANGED accepted
    /\ expired' = FALSE
    /\ flag' = FALSE
    /\ causes' = causes - 1
    /\ holder' = {}
    /\ Return(w, generation + 1)
    /\ UNCHANGED lapses

\* Mutant: the lock is not released when the refresh raises.
RefreshErrorKeepsLock(w) ==
    /\ Refreshing(w)
    /\ Fault
    /\ flag' = FALSE
    /\ pc' = [pc EXCEPT ![w] = IF pc[w] = "refreshPull" THEN "pull" ELSE "idle"]
    /\ UNCHANGED <<generation, expired, accepted, holder, captured, lapses, causes>>

\* The refresh raises.  perform_pull resets the flag and pulls with the old
\* token; in push_ack_ids the chunk is given up.
RefreshError(w) ==
    /\ Refreshing(w)
    /\ Fault
    /\ holder' = {}
    /\ IF pc[w] = "refreshPull"
         THEN flag' = FALSE /\ pc' = [pc EXCEPT ![w] = "pull"]
         ELSE UNCHANGED flag /\ pc' = [pc EXCEPT ![w] = "idle"]
    /\ UNCHANGED <<generation, expired, accepted, captured, lapses, causes>>

-----------------------------------------------------------------------------
(* pull_messages and push_ack_ids of GCPClient.                            *)

SendPull(w) ==
    /\ pc[w] = "pull"
    /\ captured' = [captured EXCEPT ![w] = generation]
    /\ flag' = (flag \/ expired)
    /\ pc' = [pc EXCEPT ![w] = "pulling"]
    /\ UNCHANGED <<generation, expired, accepted, holder, environmentVars, causes>>

\* Mutant: a 401 answer does not ask for a refresh.
AnswerUnflagged(w) ==
    /\ captured' = [captured EXCEPT ![w] = 0]
    /\ UNCHANGED <<flag, causes, generation, expired, accepted, holder,
                   environmentVars>>

\* The answer to a request: 401 if the server rejects the captured token.
\* auth_state is local to the request and gone with it.
Answer(w) ==
    /\ IF captured[w] \in accepted
         THEN UNCHANGED <<flag, causes>>
         ELSE flag' = TRUE /\ causes' = causes + 1
    /\ captured' = [captured EXCEPT ![w] = 0]
    /\ UNCHANGED <<generation, expired, accepted, holder, environmentVars>>

\* The round goes on to acknowledging, unless it brought nothing to ack.
PullAnswer(w) ==
    /\ pc[w] = "pulling"
    /\ \E next \in {"ack", "idle"} : pc' = [pc EXCEPT ![w] = next]
    /\ Answer(w)

SendAck(w) ==
    /\ pc[w] = "ack"
    /\ IF expired
         THEN pc' = [pc EXCEPT ![w] = "lockAck"] /\ UNCHANGED captured
         ELSE /\ pc' = [pc EXCEPT ![w] = "acking"]
              /\ captured' = [captured EXCEPT ![w] = generation]
    /\ UNCHANGED <<generation, expired, accepted, flag, holder,
                   environmentVars, causes>>

AckAnswer(w) ==
    /\ pc[w] = "acking"
    /\ pc' = [pc EXCEPT ![w] = "idle"]
    /\ Answer(w)

-----------------------------------------------------------------------------
(* External: the clock and the server.                                     *)

Lapse == lapses < MaxLapses /\ lapses' = lapses + 1

\* time.time() reaches token_expires_at.
Expire ==
    /\ Lapse
    /\ ~expired
    /\ expired' = TRUE
    /\ causes' = causes + 1
    /\ UNCHANGED <<generation, accepted, flag, holder, pc, captured, faults>>

\* The server stops accepting a token, an old one or the current one.
Revoke ==
    /\ Lapse
    /\ \E token \in accepted : accepted' = accepted \ {token}
    /\ UNCHANGED <<generation, expired, flag, holder, pc, captured, faults, causes>>

-----------------------------------------------------------------------------
WorkerStep(w) ==
    \/ BeginRound(w) \/ EnterRefresh(w) \/ RefreshOk(w) \/ RefreshError(w)
    \/ SendPull(w) \/ PullAnswer(w) \/ SendAck(w) \/ AckAnswer(w)

Next == (\E w \in Workers : WorkerStep(w)) \/ Expire \/ Revoke

Spec == Init /\ [][Next]_vars

\* Every coroutine that can run does; asyncio.Lock serves its waiters in order.
Fairness ==
    \A w \in Workers : WF_vars(WorkerStep(w)) /\ SF_vars(EnterRefresh(w))

FairSpec == Spec /\ Fairness

-----------------------------------------------------------------------------
TypeOK ==
    /\ generation \in Nat
    /\ expired \in BOOLEAN
    /\ accepted \subseteq Nat
    /\ flag \in BOOLEAN
    /\ holder \in SUBSET Workers
    /\ pc \in [Workers -> Locations]
    /\ captured \in [Workers -> Nat]
    /\ lapses \in 0..MaxLapses
    /\ faults \in 0..MaxFaults
    /\ causes \in Int

\* No thundering herd: however many workers see one expiry or wait for the
\* lock at once, the token is refreshed at most once for each expiry and each
\* 401 answer ("Another worker may have already refreshed while we waited").
NoThunderingHerd == causes >= 0

\* What makes it inductive: the lock excludes a second refresh, and whenever
\* a refresh runs or is asked for, a cause is left that pays for it.
RefreshExclusive == \A w \in Workers : Refreshing(w) <=> w \in holder
AtMostOneHolder == \A v, w \in holder : v = w
CausePending == (expired \/ flag \/ holder # {}) => causes >= 1
HerdInv == RefreshExclusive /\ AtMostOneHolder /\ CausePending

\* An acknowledge request never leaves with a token that is already expired
\* or has been replaced, although the refresh is awaited between the check
\* and the request.
AcksUseFreshToken ==
    [][\A w \in Workers :
          pc[w] # "acking" /\ pc'[w] = "acking" =>
              ~expired' /\ captured'[w] = generation']_vars

\* A token that expired or that the server rejects is replaced, even when
\* refreshes fail, a failing one drops the flag, or nobody but a 401 answer
\* tells that the token is bad.
BadTokenReplaced ==
    (expired \/ generation \notin accepted) ~> (~expired /\ generation \in accepted)

\* No worker waits for the refresh lock for ever.
WorkersKeepGoing == \A w \in Workers : []<>(pc[w] = "idle")
=============================================================================
