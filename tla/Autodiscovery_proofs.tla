------------------------ MODULE Autodiscovery_proofs ------------------------
(***************************************************************************)
(* Theorems about Autodiscovery, for any services, versions, metrics,      *)
(* resources and projects, and any number of changes and failures.         *)
(***************************************************************************)
EXTENDS Autodiscovery, TLAPS

LEMMA AssumptionFacts ==
    /\ \E v \in Versions : TRUE
    /\ MaxChanges \in Nat /\ MaxFaults \in Nat
  BY AutodiscoveryAssumption DEF AutodiscoveryAssumption

(***************************************************************************)
(* Lemmas about the operators.                                             *)
(***************************************************************************)
LEMMA FileFacts ==
    ASSUME NEW f \in Files
    PROVE  f.searched \subseteq Resources
  BY DEF Files

Loads == [ok : BOOLEAN, enabled : BOOLEAN, file : Files]

LEMMA LoadYamlsType ==
    ASSUME file \in Files, NEW before \in Loads
    PROVE  LoadYamls(before) \in Loads
  <1>1. CASE file.state # "shapeless"
    BY <1>1 DEF LoadYamls, Loads
  <1>2. CASE file.state = "shapeless" /\ before.ok
    BY <1>2 DEF LoadYamls, Loads
  <1>3. CASE file.state = "shapeless" /\ ~before.ok
    BY <1>3 DEF LoadYamls, Loads
  <1>4. before.ok \in BOOLEAN
    BY DEF Loads
  <1>5. QED
    BY <1>1, <1>2, <1>3, <1>4

LEMMA ResourcesToDiscoverType ==
    ASSUME NEW services, NEW searched \in SUBSET Resources
    PROVE  ResourcesToDiscover(services, searched) \subseteq Resources
  BY DEF ResourcesToDiscover

\* A new metric is one that a project lists, and none that a flagged service
\* of its resource has in the versions the discovery runs for.
LEMMA NewMetricsFacts ==
    ASSUME NEW listing \in [Projects -> SUBSET Metrics]
    PROVE  /\ DOMAIN NewMetrics(listing) \subseteq Metrics
           /\ \A m \in DOMAIN NewMetrics(listing) :
                /\ NewMetrics(listing)[m] \subseteq Projects
                /\ m \notin ExistingMetrics(run.services, Resource(m))
  BY DEF NewMetrics, Discovered

(***************************************************************************)
(* The inductive invariant, in parts.                                      *)
(***************************************************************************)

\* What the task knows of the versions the polling loop has seen.
Knows ==
    /\ task # "ended" => versionsHash = base.versions /\ cached.versions = base.versions
    /\ task \in {"discovering", "waiting"} /\ ~event
          => run.services.versions = base.versions

\* The names remembered are those offered.
Offers ==
    /\ DOMAIN service \subseteq known
    /\ \A m \in Metrics : offered[m] = IF m \in known THEN 1 ELSE 0

\* What the latest discovery has stored is in no service of the versions it ran
\* for; without this, nothing relates what is polled to the versions.
Apart ==
    task = "waiting" /\ latest = "stored" =>
        \A s \in Flagged, m \in DOMAIN service :
            Resource(m) \in ServiceResources[s]
                => m \notin ServiceMetrics[run.services.versions][s]

\* Whoever waits has run a discovery, and nothing is found before the first.
Waits ==
    /\ task = "waiting" => latest # "none"
    /\ task = "created" => DOMAIN service = {}

IndInv == TypeOK /\ Knows /\ Offers /\ Apart /\ Waits

LEMMA InitInv == Init => IndInv
  <1> SUFFICES ASSUME Init PROVE IndInv
    OBVIOUS
  <1>1. deployed \in Bases
    BY AssumptionFacts DEF Init, Bases
  <1>2. [state |-> "list", searched |-> {}] \in Files
    BY DEF Files
  <1>3. NotLoaded \in Loads
    BY <1>2 DEF NotLoaded, Loads
  <1>4. loaded \in Loads
    BY <1>3, LoadYamlsType DEF Init
  <1>5. /\ base \in Bases /\ cached \in Bases
        /\ versionsHash \in Versions
        /\ run \in [services : Bases, resources : SUBSET Resources]
    BY <1>1 DEF Init, Bases
  <1>6. DOMAIN service = {}
    BY DEF Init, NoService
  <1>7. TypeOK
    <2>1. /\ file \in Files
          /\ loop \in {"starting", "polling"}
          /\ polled \subseteq Metrics
          /\ task \in {"created", "discovering", "waiting", "ended"}
          /\ event \in BOOLEAN
          /\ known \subseteq Metrics
          /\ latest \in {"none", "stored", "empty", "failed"}
      BY DEF Init
    <2>4. offered \in [Metrics -> Nat]
      BY DEF Init
    <2>5. changes \in 0..MaxChanges /\ faults \in 0..MaxFaults
      BY AssumptionFacts DEF Init
    <2>2. /\ DOMAIN service \subseteq Metrics
          /\ \A m \in DOMAIN service : service[m] \subseteq Projects
      BY <1>6
    <2>3. QED
      BY <1>1, <1>4, <1>5, <2>1, <2>2, <2>4, <2>5 DEF TypeOK, Loads
  <1>8. Knows
    BY DEF Init, Knows
  <1>9. Offers
    BY <1>6 DEF Init, Offers
  <1>10. Apart /\ Waits
    BY <1>6 DEF Init, Apart, Waits
  <1>11. QED
    BY <1>7, <1>8, <1>9, <1>10 DEF IndInv

LEMMA ChangeInv ==
    ASSUME IndInv, Deploy \/ EditFile
    PROVE  IndInv'
  <1>1. TypeOK'
    BY AssumptionFacts
    DEF IndInv, TypeOK, Deploy, EditFile, Change, loopVars, taskVars, contextVars
  <1>2. (Knows /\ Offers /\ Apart /\ Waits)'
    BY DEF IndInv, Knows, Offers, Apart, Waits, Deploy, EditFile, loopVars, taskVars,
           contextVars
  <1>3. QED
    BY <1>1, <1>2 DEF IndInv

\* A poll of new versions wakes the task up and renews what it knows.
LEMMA PollInv ==
    ASSUME IndInv, Poll
    PROVE  IndInv'
  <1>1. base' \in Bases
    BY DEF IndInv, TypeOK, Poll
  <1>2. base'.versions \in Versions
    BY <1>1 DEF Bases
  <1>3. TypeOK'
    BY <1>1, <1>2
    DEF IndInv, TypeOK, Poll, UpdateExtensions, outside, contextVars
  <1>4. Knows'
    BY DEF IndInv, TypeOK, Knows, Poll, UpdateExtensions, contextVars
  <1>5. (Offers /\ Apart /\ Waits)'
    BY DEF IndInv, Offers, Apart, Waits, Poll, contextVars
  <1>6. QED
    BY <1>3, <1>4, <1>5 DEF IndInv

\* A discovery begins with the services of the versions polled last.
LEMMA BeginInv ==
    ASSUME IndInv, Begin, event' \in BOOLEAN, task \in {"created", "waiting"}
    PROVE  IndInv'
  <1> DEFINE yamls == LoadYamls(loaded)
             resources == IF yamls.enabled
                            THEN ResourcesToDiscover(cached, yamls.file.searched)
                            ELSE {}
  <1>1. yamls \in Loads
    BY LoadYamlsType DEF IndInv, TypeOK, Loads
  <1>2. yamls.file \in Files
    BY <1>1 DEF Loads
  <1>3. resources \subseteq Resources
    BY <1>2, FileFacts, ResourcesToDiscoverType
  <1>4. /\ loaded' = yamls
        /\ run' = [services |-> cached, resources |-> resources]
        /\ UNCHANGED <<outside, versionsHash, cached, service, known, offered, faults>>
        /\ \/ task' \in {"ended", "discovering"} /\ UNCHANGED latest
           \/ task' = "waiting" /\ latest' = "empty"
        /\ base' = base
        /\ loop' \in {loop, "polling"}
        /\ polled' = polled
    BY DEF Begin, End, Rest, NotifyObservers, loopVars
  <1>5. TypeOK'
    BY <1>1, <1>3, <1>4 DEF IndInv, TypeOK, outside, Loads
  <1>6. Knows'
    BY <1>4 DEF IndInv, Knows
  <1>7. (Offers /\ Apart /\ Waits)'
    BY <1>4 DEF IndInv, Offers, Apart, Waits
  <1>8. QED
    BY <1>5, <1>6, <1>7 DEF IndInv

LEMMA DiscoveryFailsInv ==
    ASSUME IndInv, DiscoveryFails
    PROVE  IndInv'
  <1>1. TypeOK'
    BY AssumptionFacts
    DEF IndInv, TypeOK, DiscoveryFails, Fault, Rest, NotifyObservers, outside,
        contextVars
  <1>2. (Knows /\ Offers /\ Apart /\ Waits)'
    BY DEF IndInv, Knows, Offers, Apart, Waits, DiscoveryFails, Rest, NotifyObservers,
           contextVars
  <1>3. QED
    BY <1>1, <1>2 DEF IndInv

\* What a discovery found is offered once, and is in no existing service.
LEMMA DiscoveryEndsInv ==
    ASSUME IndInv, DiscoveryEnds
    PROVE  IndInv'
  <1>1. PICK listing \in [Projects -> SUBSET Metrics] :
          /\ IF listing = Listed THEN UNCHANGED faults ELSE Fault
          /\ StoreResult(NewMetrics(listing))
    BY DEF DiscoveryEnds, Listings
  <1> DEFINE new == NewMetrics(listing)
  <1>2. /\ DOMAIN new \subseteq Metrics
        /\ \A m \in DOMAIN new :
              /\ new[m] \subseteq Projects
              /\ m \notin ExistingMetrics(run.services, Resource(m))
    BY NewMetricsFacts
  <1>3. /\ SendMetricMetadata(DOMAIN new)
        /\ \/ service' = new /\ latest' = "stored"
           \/ UNCHANGED service /\ latest' = "empty"
    BY <1>1 DEF StoreResult
  <1> HIDE DEF new
  <1>4. /\ known' = known \union DOMAIN new
        /\ offered' = [m \in Metrics |->
                          offered[m] + IF m \in DOMAIN new \ known THEN 1 ELSE 0]
    BY <1>3 DEF SendMetricMetadata
  <1>5. faults' \in 0..MaxFaults
    BY <1>1, AssumptionFacts DEF IndInv, TypeOK, Fault
  <1>6. run.services \in Bases
    BY DEF IndInv, TypeOK
  <1>7. /\ DOMAIN service' \subseteq Metrics
        /\ \A m \in DOMAIN service' : service'[m] \subseteq Projects
        /\ latest' \in {"stored", "empty"}
        /\ known' \subseteq Metrics
        /\ offered' \in [Metrics -> Nat]
    BY <1>2, <1>3, <1>4, <1>6 DEF IndInv, TypeOK
  <1>8. TypeOK'
    BY <1>5, <1>7
    DEF IndInv, TypeOK, DiscoveryEnds, Rest, NotifyObservers, outside
  <1>9. Knows'
    BY DEF IndInv, Knows, DiscoveryEnds, Rest, NotifyObservers
  <1>10. Offers'
    <2>1. DOMAIN service' \subseteq known'
      BY <1>3, <1>4 DEF IndInv, Offers
    <2>2. ASSUME NEW m \in Metrics
          PROVE  offered'[m] = IF m \in known' THEN 1 ELSE 0
      BY <1>4 DEF IndInv, Offers
    <2>3. QED
      BY <2>1, <2>2 DEF Offers
  <1>11. Apart'
    <2>1. CASE latest' = "empty"
      BY <2>1 DEF Apart
    <2>2. CASE service' = new
      <3> SUFFICES ASSUME NEW s \in Flagged, NEW m \in DOMAIN new,
                          Resource(m) \in ServiceResources[s]
                   PROVE  m \notin ServiceMetrics[run.services.versions][s]
        BY <2>2 DEF Apart, DiscoveryEnds
      <3>1. s \in Linked(Resource(m))
        BY DEF Linked
      <3>2. QED
        BY <1>2, <3>1 DEF ExistingMetrics
    <2>3. QED
      BY <1>3, <2>1, <2>2
  <1>12. Waits'
    BY <1>7 DEF Waits, DiscoveryEnds, Rest
  <1>13. QED
    BY <1>8, <1>9, <1>10, <1>11, <1>12 DEF IndInv

LEMMA NextInv == IndInv /\ [Next]_vars => IndInv'
  <1> SUFFICES ASSUME IndInv, [Next]_vars PROVE IndInv'
    OBVIOUS
  <1>1. CASE Deploy \/ EditFile
    BY <1>1, ChangeInv
  <1>2. CASE Poll
    BY <1>2, PollInv
  <1>3. CASE FirstDiscovery
    BY <1>3, BeginInv DEF FirstDiscovery, IndInv, TypeOK
  <1>4. CASE Notified
    BY <1>4, BeginInv DEF Notified
  <1>5. CASE QueryTimeElapsed
    BY <1>5, BeginInv DEF QueryTimeElapsed, IndInv, TypeOK
  <1>6. CASE DiscoveryFails
    BY <1>6, DiscoveryFailsInv
  <1>7. CASE DiscoveryEnds
    BY <1>7, DiscoveryEndsInv
  <1>8. CASE UNCHANGED vars
    BY <1>8
    DEF IndInv, TypeOK, Knows, Offers, Apart, Waits, vars, outside, loopVars, taskVars,
        contextVars
  <1>9. QED
    BY <1>1, <1>2, <1>3, <1>4, <1>5, <1>6, <1>7, <1>8 DEF Next

LEMMA Inductive == Spec => []IndInv
  BY InitInv, NextInv, PTL DEF Spec

-----------------------------------------------------------------------------
\* Versions that arrive while a discovery runs, while the task waits or as its
\* wait times out are discovered for before the task waits undisturbed again.
THEOREM VersionsNotLost == Spec => []NoChangeLost
  <1>1. IndInv => NoChangeLost
    BY DEF IndInv, Knows, NoChangeLost
  <1>2. QED
    BY <1>1, Inductive, PTL

\* The metadata of a metric is offered once, whatever fails, disappears and
\* comes back; a metric that an extension has is polled beside it only until the
\* discovery for its versions has run, or when that one has stored nothing.
THEOREM NothingTwice == Spec => []AutodiscoveryInv
  <1>1. IndInv => OfferedOnce
    <2> SUFFICES ASSUME IndInv, NEW m \in Metrics
                 PROVE  offered[m] <= 1 /\ (m \in DOMAIN service => offered[m] = 1)
      BY DEF OfferedOnce
    <2>1. offered[m] = IF m \in known THEN 1 ELSE 0
      BY DEF IndInv, Offers
    <2>2. m \in DOMAIN service => m \in known
      BY DEF IndInv, Offers
    <2>3. QED
      BY <2>1, <2>2
  <1>2. IndInv => TwiceOnlyIfStale
    <2> SUFFICES ASSUME IndInv,
                        task # "ended", ~event, task # "discovering",
                        latest \notin {"empty", "failed"},
                        NEW s \in Flagged, NEW m \in DOMAIN service,
                        Resource(m) \in ServiceResources[s]
                 PROVE  m \notin ServiceMetrics[base.versions][s]
      BY DEF TwiceOnlyIfStale
    <2>1. task = "waiting"
      BY DEF IndInv, TypeOK, Waits
    <2>2. latest = "stored"
      BY <2>1 DEF IndInv, TypeOK, Waits
    <2>3. run.services.versions = base.versions
      BY <2>1 DEF IndInv, Knows
    <2>4. QED
      BY <2>1, <2>2, <2>3 DEF IndInv, Apart
  <1>3. IndInv => AutodiscoveryInv
    BY <1>1, <1>2 DEF AutodiscoveryInv, IndInv
  <1>4. QED
    BY <1>3, Inductive, PTL
=============================================================================
