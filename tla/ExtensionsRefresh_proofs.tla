----------------------- MODULE ExtensionsRefresh_proofs -----------------------
(***************************************************************************)
(* Theorems about ExtensionsRefresh, for any extensions and versions and   *)
(* any number of changes and faults.                                       *)
(***************************************************************************)
EXTENDS ExtensionsRefresh, TLAPS

LEMMA NothingTyped ==
    /\ NoVersions \in [Extensions -> Versions \union {0}]
    /\ NoConfig \in Config
    /\ Listed(NoVersions) = {}
  BY DEF NoVersions, NoConfig, Config, Listed

\* A process that has just started is well typed.
LEMMA NewProcessType ==
    ASSUME NewProcess
    PROVE  /\ cache' \in [Extensions -> [version : Versions \union {0}, good : BOOLEAN]]
           /\ loop' = "check" /\ base' \in Config /\ polled' \subseteq Service
           /\ refresh' = "listing"
           /\ listed' \in [Extensions -> Versions \union {0}]
           /\ enabled' = {} /\ todo' = {} /\ found' = {} /\ result' \in Config
  BY NothingTyped DEF NewProcess, NotCached

LEMMA InitTypeOK == Init => TypeOK
  <1> SUFFICES ASSUME Init PROVE TypeOK
    OBVIOUS
  <1>1. cache \in [Extensions -> [version : Versions \union {0}, good : BOOLEAN]]
    BY DEF Init, NotCached
  <1>2. base \in Config /\ result \in Config /\ listed \in [Extensions -> Versions \union {0}]
    BY NothingTyped DEF Init
  <1>3. broken \in BOOLEAN
    BY DEF Init
  <1>4. QED
    BY <1>1, <1>2, <1>3, ExtensionsRefreshAssumption DEF Init, TypeOK

LEMMA FaultType ==
    ASSUME TypeOK, Fault
    PROVE  faults' \in 0..MaxFaults /\ steady' \in 0..2
  BY ExtensionsRefreshAssumption DEF TypeOK, Fault

LEMMA StartLoadingType ==
    ASSUME TypeOK, NEW versions \in [Extensions -> Versions \union {0}],
           StartLoading(versions), enabled' = ReadActivation,
           faults' \in 0..MaxFaults, steady' \in 0..2
    PROVE  TypeOK'
  <1>1. ReadActivation \subseteq Extensions
    BY DEF ReadActivation, TypeOK
  <1>2. broken' \in BOOLEAN
    BY DEF StartLoading, outside, TypeOK
  <1>3. QED
    BY <1>1, <1>2 DEF StartLoading, outside, TypeOK, Listed

LEMMA LoadType ==
    ASSUME TypeOK, NEW e \in Extensions, Load(e), NEW good \in BOOLEAN,
           NEW version, version = listed[e], AddServices(e, good, version),
           cache' \in [Extensions -> [version : Versions \union {0}, good : BOOLEAN]],
           faults' \in 0..MaxFaults, steady' \in 0..2
    PROVE  TypeOK'
  <1>1. version \in Versions
    BY DEF Load, TypeOK, Listed
  <1>2. ServiceOf(e, version, enabled) \in Service
    BY <1>1 DEF ServiceOf, Service
  <1>3. found' \subseteq Service
    BY <1>2 DEF AddServices, TypeOK
  <1>4. broken' \in BOOLEAN
    BY DEF Load, outside, TypeOK
  <1>5. QED
    BY <1>3, <1>4 DEF Load, outside, TypeOK, Listed

LEMMA ReturnType ==
    ASSUME TypeOK, NEW config \in Config, Return(config),
           faults' \in 0..MaxFaults, steady' \in 0..2
    PROVE  TypeOK'
  <1>1. broken' \in BOOLEAN
    BY DEF Return, outside, TypeOK
  <1>2. QED
    BY <1>1 DEF Return, outside, task, TypeOK, Listed

LEMMA RestartType ==
    ASSUME TypeOK, NewProcess, UNCHANGED <<outside, changes>>,
           faults' \in 0..MaxFaults, steady' \in 0..2
    PROVE  TypeOK'
  <1>1. broken' \in BOOLEAN
    BY DEF outside, TypeOK
  <1>2. QED
    BY <1>1, NewProcessType DEF outside, TypeOK

\* What the task would return is a configuration.
LEMMA FoundType ==
    ASSUME TypeOK
    PROVE  [services |-> found, versions |-> listed] \in Config
  BY DEF TypeOK, Config

LEMMA RefreshStepType ==
    ASSUME TypeOK, RefreshStep
    PROVE  TypeOK'
  <1>0. steady \in 0..2 /\ faults \in 0..MaxFaults
    BY DEF TypeOK
  <1>1. CASE ListAnswered
    BY <1>0, <1>1, StartLoadingType DEF ListAnswered, TypeOK
  <1>2. CASE ListPageMissing
    <2>1. PICK S \in SUBSET Listed(cluster) :
            StartLoading([e \in Extensions |-> IF e \in S THEN cluster[e] ELSE 0])
      BY <1>2 DEF ListPageMissing
    <2>2. [e \in Extensions |-> IF e \in S THEN cluster[e] ELSE 0]
            \in [Extensions -> Versions \union {0}]
      BY DEF TypeOK
    <2>3. enabled' = ReadActivation /\ faults' \in 0..MaxFaults /\ steady' \in 0..2
      BY <1>2, FaultType DEF ListPageMissing
    <2>4. QED
      BY <2>1, <2>2, <2>3, StartLoadingType
  <1>3. CASE Loaded
    <2>1. CASE Return([services |-> found, versions |-> listed])
      BY <1>0, <1>3, <2>1, FoundType, ReturnType DEF Loaded
    <2>2. CASE EndCheck
      BY <1>0, <1>3, <2>2, RestartType DEF Loaded, EndCheck
    <2>3. CASE Return(base)
      BY <1>0, <1>3, <2>3, ReturnType DEF Loaded, TypeOK
    <2>4. QED
      BY <1>3, <2>1, <2>2, <2>3 DEF Loaded
  <1>4. CASE RefreshError
    BY <1>4, FaultType, ReturnType DEF RefreshError, TypeOK
  <1>5. ASSUME NEW e \in Extensions, FromCache(e) PROVE TypeOK'
    <2>1. cache[e].good \in BOOLEAN /\ cache' = cache
      BY <1>5 DEF FromCache, TypeOK
    <2>2. cache' \in [Extensions -> [version : Versions \union {0}, good : BOOLEAN]]
      BY <2>1 DEF TypeOK
    <2>3. QED
      BY <1>0, <1>5, <2>1, <2>2, LoadType DEF FromCache
  <1>6. ASSUME NEW e \in Extensions, NEW good \in BOOLEAN, Download(e, good),
               faults' \in 0..MaxFaults, steady' \in 0..2
        PROVE  TypeOK'
    <2>1. cache' \in [Extensions -> [version : Versions \union {0}, good : BOOLEAN]]
      BY <1>6 DEF Download, TypeOK
    <2>2. QED
      BY <1>6, <2>1, LoadType DEF Download
  <1>7. ASSUME NEW e \in Extensions, LoadStep(e) PROVE TypeOK'
    BY <1>0, <1>5, <1>6, <1>7, FaultType DEF LoadStep, DownloadOk, DownloadFails
  <1>8. QED
    BY <1>1, <1>2, <1>3, <1>4, <1>7 DEF RefreshStep

LEMMA LoopStepType ==
    ASSUME TypeOK, LoopStep
    PROVE  TypeOK'
  <1>1. broken' \in BOOLEAN
    BY DEF LoopStep, CheckPassed, EndCycle, TakeResult, StartCycle, PollEnds,
       outside, TypeOK
  <1>2. CASE TakeResult
    BY <1>1, <1>2 DEF TakeResult, outside, task, TypeOK, Listed
  <1>3. CASE StartCycle
    <2>1. base.services \subseteq Service
      BY DEF TypeOK, Config
    <2>2. QED
      BY <1>1, <1>3, <2>1 DEF StartCycle, outside, task, TypeOK, Listed
  <1>4. CASE PollEnds
    BY <1>1, <1>4 DEF PollEnds, outside, task, TypeOK, Listed
  <1>5. QED
    BY <1>2, <1>3, <1>4 DEF LoopStep, CheckPassed, EndCycle

LEMMA OutsideStepType ==
    ASSUME TypeOK, ClusterChanges \/ FileChanges \/ Restart
    PROVE  TypeOK'
  <1>1. CASE ClusterChanges \/ FileChanges
    <2>1. changes' \in 0..MaxChanges /\ steady' \in 0..2
      BY <1>1, ExtensionsRefreshAssumption
         DEF ClusterChanges, FileChanges, Change, TypeOK
    <2>2. cluster' \in [Extensions -> Versions \union {0}] /\ activated' \subseteq Extensions
      BY <1>1 DEF ClusterChanges, FileChanges, TypeOK
    <2>3. broken' \in BOOLEAN
      BY <1>1 DEF ClusterChanges, FileChanges, TypeOK
    <2>4. QED
      BY <1>1, <2>1, <2>2, <2>3
         DEF ClusterChanges, FileChanges, Change, task, TypeOK, Listed
  <1>2. CASE Restart
    BY <1>2, FaultType, RestartType DEF Restart
  <1>3. QED
    BY <1>1, <1>2

LEMMA StepTypeOK == TypeOK /\ [Next]_vars => TypeOK'
  <1> SUFFICES ASSUME TypeOK, [Next]_vars PROVE TypeOK'
    OBVIOUS
  <1>1. CASE UNCHANGED vars
    <2>1. broken' \in BOOLEAN
      BY <1>1 DEF vars, outside, TypeOK
    <2>2. QED
      BY <1>1, <2>1 DEF vars, outside, task, TypeOK, Listed
  <1>2. QED
    BY <1>1, RefreshStepType, LoopStepType, OutsideStepType DEF Next

\* The bookkeeping of the loop, the task and the cache is well formed for any
\* extensions: every service it holds has an extension and a version.
THEOREM TypeCorrect == Spec => []TypeOK
  BY InitTypeOK, StepTypeOK, PTL DEF Spec

-----------------------------------------------------------------------------
(* Services and versions of one refresh.                                   *)

\* What the task has found, what it returned and what the loop holds are each
\* consistent.
MatchInv ==
    /\ Matches(found, listed)
    /\ Matches(result.services, result.versions)
    /\ ServicesMatchVersions

LEMMA InitMatch == Init => MatchInv
  BY DEF Init, MatchInv, Matches, ServicesMatchVersions, NoConfig

LEMMA NewProcessMatch == NewProcess => MatchInv'
  BY DEF NewProcess, MatchInv, Matches, ServicesMatchVersions, NoConfig

LEMMA LoadMatch ==
    ASSUME MatchInv, NEW e \in Extensions, NEW good,
           Load(e), AddServices(e, good, listed[e])
    PROVE  MatchInv'
  <1>1. Matches(found', listed)
    BY DEF AddServices, Matches, ServiceOf, MatchInv
  <1>2. QED
    BY <1>1 DEF Load, MatchInv, Matches, ServicesMatchVersions

LEMMA StepMatch == TypeOK /\ MatchInv /\ [Next]_vars => MatchInv'
  <1> SUFFICES ASSUME TypeOK, MatchInv, [Next]_vars PROVE MatchInv'
    OBVIOUS
  <1> USE DEF MatchInv, ServicesMatchVersions
  <1>1. CASE ListAnswered \/ ListPageMissing
    BY <1>1 DEF ListAnswered, ListPageMissing, StartLoading, Matches
  <1>2. CASE Loaded
    <2>1. CASE EndCheck
      BY <2>1, NewProcessMatch DEF EndCheck
    <2>2. CASE Return([services |-> found, versions |-> listed]) \/ Return(base)
      BY <2>2 DEF Return, task, Matches
    <2>3. QED
      BY <1>2, <2>1, <2>2 DEF Loaded
  <1>3. CASE RefreshError
    BY <1>3 DEF RefreshError, Return, task, Matches
  <1>4. ASSUME NEW e \in Extensions, LoadStep(e) PROVE MatchInv'
    <2>1. \E good : Load(e) /\ AddServices(e, good, listed[e])
      BY <1>4 DEF LoadStep, FromCache, DownloadOk, DownloadFails, Download
    <2>2. QED
      BY <2>1, LoadMatch
  <1>5. CASE LoopStep
    BY <1>5 DEF LoopStep, CheckPassed, EndCycle, TakeResult, StartCycle, PollEnds,
       task, Matches
  <1>6. CASE ClusterChanges \/ FileChanges
    BY <1>6 DEF ClusterChanges, FileChanges, Change, task, Matches
  <1>7. CASE Restart
    BY <1>7, NewProcessMatch DEF Restart
  <1>8. CASE UNCHANGED vars
    BY <1>8 DEF vars, task, Matches
  <1>9. QED
    BY <1>1, <1>2, <1>3, <1>4, <1>5, <1>6, <1>7, <1>8 DEF Next, RefreshStep

\* Whatever is cached, upgraded and downgraded while refreshes run: the loop
\* polls no service of another version than the one it is listed with.
THEOREM OneRefresh == Spec => []ServicesMatchVersions
  <1>1. MatchInv => ServicesMatchVersions
    BY DEF MatchInv
  <1>2. QED
    BY <1>1, InitMatch, StepMatch, TypeCorrect, PTL DEF Spec

-----------------------------------------------------------------------------
(* The loop always has services.                                           *)

\* A task returns no empty configuration either.
ServedInv ==
    /\ NeverWithoutServices
    /\ refresh = "done" => result.services # {}

LEMMA StepServed == ServedInv /\ [Next]_vars => ServedInv'
  <1> SUFFICES ASSUME ServedInv, [Next]_vars PROVE ServedInv'
    OBVIOUS
  <1> USE DEF ServedInv, NeverWithoutServices
  <1>1. CASE ListAnswered \/ ListPageMissing
    BY <1>1 DEF ListAnswered, ListPageMissing, StartLoading
  <1>2. CASE Loaded
    BY <1>2 DEF Loaded, Return, EndCheck, NewProcess
  <1>3. CASE RefreshError
    BY <1>3 DEF RefreshError, Return
  <1>4. ASSUME NEW e \in Extensions, LoadStep(e) PROVE ServedInv'
    BY <1>4 DEF LoadStep, FromCache, DownloadOk, DownloadFails, Download, Load
  <1>5. CASE LoopStep
    BY <1>5 DEF LoopStep, CheckPassed, EndCycle, TakeResult, StartCycle, PollEnds
  <1>6. CASE ClusterChanges \/ FileChanges
    BY <1>6 DEF ClusterChanges, FileChanges, Change
  <1>7. CASE Restart
    BY <1>7 DEF Restart, NewProcess
  <1>8. CASE UNCHANGED vars
    BY <1>8 DEF vars
  <1>9. QED
    BY <1>1, <1>2, <1>3, <1>4, <1>5, <1>6, <1>7, <1>8 DEF Next, RefreshStep

\* Failed and empty refreshes never leave the running loop without services.
THEOREM AlwaysServed == Spec => []NeverWithoutServices
  <1>1. Init => ServedInv
    BY DEF Init, ServedInv, NeverWithoutServices
  <1>2. ServedInv => NeverWithoutServices
    BY DEF ServedInv
  <1>3. QED
    BY <1>1, <1>2, StepServed, PTL DEF Spec

-----------------------------------------------------------------------------
(* Changes reach the second poll.                                          *)

Usable(S) == {ServiceOf(e, cluster[e], ReadActivation) : e \in {x \in S : ~Poisoned(x)}}

\* Since the poll that began after the last change or fault (steady >= 1), the
\* task works on the current extensions and the current activation: what it has
\* found, has returned or has handed to the loop is what a refresh finds now.
LoadingInv ==
    refresh = "loading" =>
        /\ listed = cluster
        /\ enabled = ReadActivation
        /\ found = Usable(Listed(cluster) \ todo)
HandedOverInv ==
    Current # {} =>
        /\ refresh = "done" => result.services = Current
        /\ refresh = "none" => base.services = Current
PolledInv == Current # {} => base.services = Current /\ polled = Current

SteadyInv ==
    /\ loop = "check" => steady = 0
    /\ loop = "ready" <=> refresh = "none"
    /\ steady >= 1 => LoadingInv /\ HandedOverInv
    /\ steady = 2 => PolledInv

LEMMA CurrentIsUsable == Current = Usable(Listed(cluster))
  BY DEF Current, Usable

\* After a change or a fault the polls are counted anew.
LEMMA Unsteady ==
    ASSUME steady' = 0, loop' = "ready" <=> refresh' = "none"
    PROVE  SteadyInv'
  BY DEF SteadyInv

LEMMA SameCurrent ==
    ASSUME UNCHANGED <<outside, cache>>
    PROVE  Current' = Current /\ \A S : Usable(S)' = Usable(S)
  BY DEF outside, Current, Usable, Poisoned, ServiceOf, ReadActivation, Listed

\* A good download of a version that was not cached leaves each extension as
\* usable as it was.
LEMMA SamePoisoned ==
    ASSUME TypeOK, NEW e \in Extensions, FromCache(e) \/ DownloadOk(e),
           listed = cluster
    PROVE  /\ UNCHANGED outside
           /\ \A x \in Extensions : Poisoned(x)' <=> Poisoned(x)
  <1>1. UNCHANGED outside
    BY DEF FromCache, DownloadOk, Download, Load
  <1>2. ASSUME NEW x \in Extensions PROVE Poisoned(x)' <=> Poisoned(x)
    <2>1. CASE FromCache(e)
      BY <1>1, <2>1 DEF FromCache, Poisoned, outside
    <2>2. CASE DownloadOk(e)
      BY <1>1, <2>2 DEF DownloadOk, Download, Poisoned, outside, TypeOK
    <2>3. QED
      BY <2>1, <2>2
  <1>3. QED
    BY <1>1, <1>2

\* Loading an extension adds its service, unless its definition is empty.
LEMMA LoadedIsUsable ==
    ASSUME TypeOK, LoadingInv, refresh = "loading",
           NEW e \in Extensions, FromCache(e) \/ DownloadOk(e)
    PROVE  LoadingInv' /\ Current' = Current
  <1> DEFINE svc(x) == ServiceOf(x, cluster[x], ReadActivation)
             Good(S) == {x \in S : ~Poisoned(x)}
             rest == Listed(cluster) \ todo
  <1>1. /\ listed = cluster /\ enabled = ReadActivation
        /\ found = {svc(x) : x \in Good(rest)}
    BY DEF LoadingInv, Usable
  <1>2. UNCHANGED <<outside, listed, enabled>> /\ e \in todo /\ todo' = todo \ {e}
    BY DEF FromCache, DownloadOk, Download, Load
  <1>3. todo \subseteq Listed(cluster) /\ Listed(cluster) \subseteq Extensions
    BY <1>1 DEF TypeOK, Listed
  <1>4. found' = IF Poisoned(e) THEN found ELSE found \union {svc(e)}
    <2>1. CASE FromCache(e)
      BY <1>1, <2>1 DEF FromCache, AddServices, Poisoned
    <2>2. CASE DownloadOk(e)
      BY <1>1, <2>2 DEF DownloadOk, Download, AddServices, Poisoned
    <2>3. QED
      BY <2>1, <2>2
  <1>5. Listed(cluster) \ todo' = rest \union {e}
    BY <1>2, <1>3
  <1>6. Good(rest \union {e}) = IF Poisoned(e) THEN Good(rest) ELSE Good(rest) \union {e}
    <2>1. CASE Poisoned(e)
      BY <2>1
    <2>2. CASE ~Poisoned(e)
      BY <2>2
    <2>3. QED
      BY <2>1, <2>2
  <1>7. found' = {svc(x) : x \in Good(rest \union {e})}
    <2> HIDE DEF Good, svc
    <2>1. QED
      BY <1>1, <1>4, <1>6
  <1>8. /\ Listed(cluster)' = Listed(cluster) /\ ReadActivation' = ReadActivation
        /\ cluster' = cluster
    BY <1>2 DEF outside, Listed, ReadActivation
  <1>9. \A x \in Extensions : Poisoned(x)' <=> Poisoned(x)
    BY <1>1, SamePoisoned
  <1>10. \A S \in SUBSET Extensions : {x \in S : ~Poisoned(x)'} = Good(S)
    BY <1>9
  <1>11. found' = Usable(Listed(cluster) \ todo)'
    <2>1. {x \in Listed(cluster) \ todo' : ~Poisoned(x)'} = Good(rest \union {e})
      BY <1>3, <1>5, <1>10
    <2>2. QED
      BY <1>7, <1>8, <2>1 DEF Usable, ServiceOf
  <1>12. Current' = Current
    <2>1. {x \in Listed(cluster) : ~Poisoned(x)'} = Good(Listed(cluster))
      BY <1>3, <1>10
    <2>2. QED
      BY <1>8, <2>1 DEF Current, ServiceOf
  <1>13. QED
    BY <1>1, <1>2, <1>8, <1>11, <1>12 DEF LoadingInv

LEMMA RefreshSteady ==
    ASSUME TypeOK, SteadyInv, RefreshStep
    PROVE  SteadyInv'
  <1> USE DEF SteadyInv
  <1>1. CASE ListAnswered
    <2>1. /\ refresh = "listing" /\ refresh' = "loading" /\ listed' = cluster
          /\ todo' = Listed(cluster) /\ found' = {} /\ enabled' = ReadActivation
          /\ UNCHANGED <<outside, cache, loop, base, polled, steady>>
      BY <1>1 DEF ListAnswered, StartLoading
    <2>2. /\ cluster' = cluster /\ ReadActivation' = ReadActivation
          /\ Listed(cluster)' = Listed(cluster)
      BY <2>1 DEF outside, ReadActivation, Listed
    <2>3. Usable(Listed(cluster) \ todo)' = {}
      BY <2>1, <2>2 DEF Usable
    <2>4. LoadingInv'
      BY <2>1, <2>2, <2>3 DEF LoadingInv
    <2>5. HandedOverInv' /\ (steady = 2 => PolledInv')
      BY <2>1, SameCurrent DEF HandedOverInv, PolledInv
    <2>6. QED
      BY <2>1, <2>4, <2>5
  <1>2. CASE ListPageMissing
    BY <1>2, Unsteady DEF ListPageMissing, StartLoading, Fault
  <1>3. CASE Loaded
    <2>1. refresh = "loading" /\ todo = {} /\ UNCHANGED <<outside, steady>>
      BY <1>3 DEF Loaded, Return, EndCheck
    <2>2. CASE loop = "check"
      <3>1. steady' = 0
        BY <2>1, <2>2
      <3>2. loop' = "check" /\ refresh' \in {"listing", "done"}
        BY <1>3, <2>2 DEF Loaded, Return, EndCheck, NewProcess
      <3>3. QED
        BY <3>1, <3>2, Unsteady
    <2>3. CASE loop # "check"
      <3>1. /\ refresh' = "done"
            /\ found # {} => result'.services = found
            /\ UNCHANGED <<outside, cache, loop, base, polled>>
        BY <1>3, <2>3 DEF Loaded, Return
      <3>2. steady >= 1 => found = Current
        <4>1. Listed(cluster) \ todo = Listed(cluster)
          BY <2>1
        <4>2. QED
          BY <2>1, <4>1, CurrentIsUsable DEF LoadingInv
      <3>3. steady >= 1 => LoadingInv' /\ HandedOverInv'
        BY <3>1, <3>2, SameCurrent DEF LoadingInv, HandedOverInv
      <3>4. steady = 2 => PolledInv'
        BY <3>1, SameCurrent DEF PolledInv
      <3>5. QED
        BY <2>1, <2>3, <3>1, <3>3, <3>4
    <2>4. QED
      BY <2>2, <2>3
  <1>4. CASE RefreshError
    BY <1>4, Unsteady DEF RefreshError, Return, Fault
  <1>5. ASSUME NEW e \in Extensions, FromCache(e) \/ DownloadOk(e)
        PROVE  SteadyInv'
    <2>1. /\ refresh = "loading"
          /\ UNCHANGED <<refresh, loop, base, polled, result, steady>>
      BY <1>5 DEF FromCache, DownloadOk, Download, Load
    <2>2. steady >= 1 => LoadingInv' /\ Current' = Current
      BY <1>5, <2>1, LoadedIsUsable
    <2>3. steady >= 1 => HandedOverInv'
      BY <2>1 DEF HandedOverInv
    <2>4. steady = 2 => PolledInv'
      BY <2>1, <2>2 DEF PolledInv
    <2>5. QED
      BY <2>1, <2>2, <2>3, <2>4
  <1>6. ASSUME NEW e \in Extensions, DownloadFails(e) PROVE SteadyInv'
    BY <1>6, Unsteady DEF DownloadFails, Download, Load, Fault
  <1>7. QED
    BY <1>1, <1>2, <1>3, <1>4, <1>5, <1>6 DEF RefreshStep, LoadStep

LEMMA LoopSteady ==
    ASSUME TypeOK, SteadyInv, LoopStep
    PROVE  SteadyInv'
  <1> USE DEF SteadyInv
  <1>0. steady \in 0..2
    BY DEF TypeOK
  <1>1. UNCHANGED <<outside, cache>>
    BY DEF LoopStep, CheckPassed, EndCycle, TakeResult, StartCycle, PollEnds
  <1>2. CASE TakeResult
    <2>1. /\ refresh = "done" /\ refresh' = "none" /\ loop' = "ready"
          /\ base' = result /\ UNCHANGED <<polled, steady>>
      BY <1>2 DEF TakeResult
    <2>2. steady >= 1 => LoadingInv' /\ HandedOverInv'
      BY <1>1, <2>1, SameCurrent DEF LoadingInv, HandedOverInv
    <2>3. steady = 2 => PolledInv'
      BY <1>0, <1>1, <2>1, SameCurrent DEF PolledInv, HandedOverInv
    <2>4. QED
      BY <2>1, <2>2, <2>3
  <1>3. CASE StartCycle
    <2>1. /\ loop = "ready" /\ loop' = "polling" /\ refresh' = "listing"
          /\ polled' = base.services /\ UNCHANGED base
          /\ steady' = 2 => steady >= 1
      BY <1>0, <1>3 DEF StartCycle
    <2>2. LoadingInv' /\ HandedOverInv'
      BY <2>1 DEF LoadingInv, HandedOverInv
    <2>3. steady' = 2 => PolledInv'
      BY <1>1, <2>1, SameCurrent DEF PolledInv, HandedOverInv
    <2>4. QED
      BY <2>1, <2>2, <2>3
  <1>4. CASE PollEnds
    <2>1. /\ loop = "polling" /\ loop' = "awaiting"
          /\ UNCHANGED <<base, polled, refresh, listed, enabled, todo, found,
                         result, steady>>
      BY <1>4 DEF PollEnds, task
    <2>2. steady >= 1 => LoadingInv'
      BY <1>1, <2>1, SameCurrent DEF LoadingInv, outside, Usable, Poisoned,
         ReadActivation, Listed, ServiceOf
    <2>3. steady >= 1 => HandedOverInv'
      BY <1>1, <2>1, SameCurrent DEF HandedOverInv
    <2>4. steady = 2 => PolledInv'
      BY <1>1, <2>1, SameCurrent DEF PolledInv
    <2>5. QED
      BY <2>1, <2>2, <2>3, <2>4
  <1>5. QED
    BY <1>2, <1>3, <1>4 DEF LoopStep, CheckPassed, EndCycle

LEMMA StepSteady == TypeOK /\ SteadyInv /\ [Next]_vars => SteadyInv'
  <1> SUFFICES ASSUME TypeOK, SteadyInv, [Next]_vars PROVE SteadyInv'
    OBVIOUS
  <1>1. CASE RefreshStep
    BY <1>1, RefreshSteady
  <1>2. CASE LoopStep
    BY <1>2, LoopSteady
  <1>3. CASE ClusterChanges \/ FileChanges
    BY <1>3, Unsteady DEF ClusterChanges, FileChanges, Change, SteadyInv
  <1>4. CASE Restart
    BY <1>4, Unsteady DEF Restart, NewProcess, Fault
  <1>5. CASE UNCHANGED vars
    BY <1>5 DEF vars, outside, task, SteadyInv, LoadingInv, HandedOverInv,
       PolledInv, Current, Usable, Poisoned, ServiceOf, ReadActivation, Listed
  <1>6. QED
    BY <1>1, <1>2, <1>3, <1>4, <1>5 DEF Next

\* Whatever was changed and whatever failed, at any moment of a refresh or a
\* poll: the second poll after it has the services that a refresh finds now.
THEOREM ChangesReachPolls == Spec => []ActiveWithinTwoCycles
  <1>1. Init => SteadyInv
    BY DEF Init, SteadyInv
  <1>2. SteadyInv => ActiveWithinTwoCycles
    BY DEF SteadyInv, PolledInv, ActiveWithinTwoCycles
  <1>3. QED
    BY <1>1, <1>2, StepSteady, TypeCorrect, PTL DEF Spec
=============================================================================
