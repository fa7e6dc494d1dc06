---------------------------- MODULE AtLeastOnce ----------------------------
(***************************************************************************)
(* What log forwarding promises to whoever publishes log messages to the   *)
(* Pub/Sub subscription: a message leaves the subscription (it is acked)   *)
(* only after Dynatrace accepted it, or after it was judged erroneous.     *)
(* A message may be delivered more than once and in any order.             *)
(***************************************************************************)
CONSTANT Messages

VARIABLES delivered,    \* messages that Dynatrace ingested at least once
          rejected,     \* messages judged erroneous at least once
          acked         \* messages removed from the subscription

abstractVars == <<delivered, rejected, acked>>

Init ==
    /\ delivered = {}
    /\ rejected = {}
    /\ acked = {}

Deliver ==
    /\ \E batch \in SUBSET Messages : delivered' = delivered \union batch
    /\ UNCHANGED <<rejected, acked>>

Reject ==
    /\ \E bad \in SUBSET Messages : rejected' = rejected \union bad
    /\ UNCHANGED <<delivered, acked>>

Acknowledge ==
    /\ \E done \in SUBSET (delivered \union rejected) : acked' = acked \union done
    /\ UNCHANGED <<delivered, rejected>>

Next == Deliver \/ Reject \/ Acknowledge

Spec == Init /\ [][Next]_abstractVars
=============================================================================
