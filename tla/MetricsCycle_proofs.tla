------------------------ MODULE MetricsCycle_proofs ------------------------
(***************************************************************************)
(* Theorems about MetricsCycle, for any projects, services, queries,       *)
(* filters and faults.                                                     *)
(***************************************************************************)
EXTENDS MetricsCycle, FiniteSetTheorems, TLAPS

\* A fault is recorded, in its place, and within the bound.
LEMMA FailsRecords ==
    ASSUME TypeOK, NEW kind, NEW p, NEW at, Fails(kind, p, at)
    PROVE  /\ IsFiniteSet(faults') /\ Cardinality(faults') <= MaxFaults
           /\ faults \subseteq faults' /\ Fault(kind, p, at) \in faults'
  <1>1. /\ IsFiniteSet(faults \union {Fault(kind, p, at)})
        /\ Cardinality(faults \union {Fault(kind, p, at)})
             \in {Cardinality(faults), Cardinality(faults) + 1}
    BY FS_AddElement DEF TypeOK
  <1>2. Cardinality(faults) \in Nat /\ Cardinality(faults) < MaxFaults
    BY FS_CardinalityType DEF TypeOK, Fails
  <1>3. QED
    BY <1>1, <1>2, MetricsCycleAssumption DEF Fails

\* No fault is forgotten, and what the projects are like does not change.
LEMMA FaultsGrow ==
    ASSUME TypeOK, [Next]_vars
    PROVE  /\ IsFiniteSet(faults') /\ Cardinality(faults') <= MaxFaults
           /\ faults \subseteq faults' /\ world' = world
  <1>1. world' = world
    BY DEF Next, CycleStep, ProjectStep, GetToken, GetContext, ListPage,
           CheckProject, ProjectsChecked, StartProjects, ExtractorEnds,
           TopologyComplete, QueryAnswers, Push, FinishCycle, TimeOut, vars
  <1>2. faults' = faults \/ \E kind, p, at : Fails(kind, p, at)
    BY DEF Next, CycleStep, ProjectStep, GetToken, GetContext, ListPage,
           CheckProject, ProjectsChecked, StartProjects, ExtractorEnds,
           TopologyComplete, QueryAnswers, Push, FinishCycle, TimeOut, vars
  <1>3. QED
    BY <1>1, <1>2, FailsRecords DEF TypeOK

-----------------------------------------------------------------------------
(* The inductive invariant, part by part.                                  *)

\* The listing: the pages before the next one are found, and it ended early
\* only by a fault at that page.
ListingInv ==
    /\ phase \in {"token", "context", "listing"} => page <= Len(Pages)
    /\ \A i \in 1..(page - 1) : Pages[i] \subseteq found
    /\ phase \in {"checking", "choosing", "processing"} =>
          page = Len(Pages) + 1 \/ Fault("list", Anywhere, page) \in faults

\* The check of the disabled APIs: known is exact unless the check failed.
CheckInv ==
    /\ phase \in {"choosing", "processing"} => Scoping \/ checked = found
    /\ \A p \in checked :
          known[p] = world[p].off \/ Fault("apis", p, Anywhere) \in faults

\* The projects: only chosen ones are processed, only while the cycle runs.
StageInv ==
    /\ phase = "ended" <=> outcome # "running"
    /\ \A p \in Projects :
        /\ stage[p] # "out" =>
              Scoping \/ (p \in checked /\ ~Disabled(known[p]))
        /\ stage[p] \in {"topology", "fetching"} => phase = "processing"
        /\ stage[p] = "ended" => phase \in {"processing", "ended"}

\* The extraction tasks: what the result of each one says of the project.
TaskInv(p, s) ==
    /\ topology[p][s] = "entities" => s \in world[p].instances
    /\ topology[p][s] = "none" =>
          \/ s \notin world[p].instances
          \/ Fault("page", p, s) \in faults \/ Fault("extractor", p, s) \in faults
    /\ topology[p][s] = "cancelled" => outcome = "timed out"
    /\ stage[p] # "out" /\ s \in ExtractorsOf(p) => topology[p][s] # "no task"
TopologyInv == \A p \in Projects, s \in Services : TaskInv(p, s)

\* A project fetches nothing before its topology is complete.
FetchingInv ==
    \A p \in Projects : stage[p] \in {"out", "topology"} => fetching[p] = {}

Explained(p, q) == \E f \in faults : Explains(f, p, q)

\* The data: at each stage what is missing is still under way or explained.
DataOK(p, q) ==
    /\ stage[p] = "out" /\ (phase = "processing" \/ outcome = "done") => Explained(p, q)
    /\ stage[p] = "fetching" => q \in fetching[p] \union lines[p] \/ Explained(p, q)
    /\ stage[p] = "ended" /\ outcome # "timed out" => q \in delivered[p] \/ Explained(p, q)

ConnectivityInv == connectivity \/ \E f \in faults : f.kind = "refusal"

DataInv ==
    ConnectivityInv /\ \A p \in Projects : \A q \in Expected(p) : DataOK(p, q)

IInv == CycleInv /\ ListingInv /\ CheckInv /\ StageInv /\ TopologyInv
        /\ FetchingInv /\ DataInv

-----------------------------------------------------------------------------
\* The parts of TypeOK: the cycle as a whole, the projects, the tasks.
SetupTypeOK ==
    /\ phase \in Phases
    /\ outcome \in {"running", "done", "no token", "raised", "timed out"}
    /\ found \subseteq Projects /\ checked \subseteq found
    /\ page \in 1..(Len(Pages) + 1)
    /\ known \in [Projects -> SUBSET Apis]
    /\ \A p \in Projects : known[p] \subseteq world[p].off

WorkTypeOK ==
    /\ stage \in [Projects -> Stages]
    /\ fetching \in [Projects -> SUBSET Queries]
    /\ lines \in [Projects -> SUBSET Queries]
    /\ delivered \in [Projects -> SUBSET Queries]
    /\ \A p \in Projects : delivered[p] \subseteq lines[p]
    /\ connectivity \in BOOLEAN

TopologyTypeOK ==
    topology \in [Projects -> [Services ->
                    {"no task", "running", "entities", "none", "cancelled"}]]

LEMMA TypeParts ==
    TypeOK <=> /\ SetupTypeOK /\ WorkTypeOK /\ TopologyTypeOK
               /\ world \in [Projects -> Worlds]
               /\ IsFiniteSet(faults) /\ Cardinality(faults) <= MaxFaults
  BY DEF TypeOK, SetupTypeOK, WorkTypeOK, TopologyTypeOK

LEMMA PagesAreProjects ==
    /\ Len(Pages) \in Nat \ {0}
    /\ \A i \in 1..Len(Pages) : Pages[i] \subseteq Projects
    /\ \A p \in Projects : \E i \in 1..Len(Pages) : p \in Pages[i]
  <1>1. Len(Pages) \in Nat \ {0} /\ DOMAIN Pages = 1..Len(Pages)
    BY MetricsCycleAssumption
  <1>2. QED
    BY <1>1 DEF Projects, ToSet

\* After a page that exists comes a page or the end.
LEMMA NextPage ==
    ASSUME page \in 1..(Len(Pages) + 1), page <= Len(Pages)
    PROVE  page \in 1..Len(Pages) /\ page + 1 \in 1..(Len(Pages) + 1)
  <1>1. Len(Pages) \in Nat
    BY PagesAreProjects
  <1>2. QED
    BY <1>1

LEMMA InitTypeOK == Init => TypeOK
  <1> SUFFICES ASSUME Init PROVE TypeOK
    OBVIOUS
  <1>0. /\ phase = "token" /\ outcome = "running" /\ found = {} /\ checked = {}
        /\ page = 1 /\ known = [p \in Projects |-> {}] /\ faults = {}
    BY DEF Init
  <1>1. SetupTypeOK
    BY <1>0, PagesAreProjects DEF SetupTypeOK, Phases
  <1>2. WorkTypeOK
    BY DEF Init, WorkTypeOK, Stages
  <1>3. TopologyTypeOK
    BY DEF Init, TopologyTypeOK
  <1>4. IsFiniteSet(faults) /\ Cardinality(faults) <= MaxFaults
    <2>1. IsFiniteSet({}) /\ Cardinality({}) = 0
      BY FS_EmptySet
    <2>2. QED
      BY <1>0, <2>1, MetricsCycleAssumption
  <1>5. world \in [Projects -> Worlds]
    BY DEF Init
  <1>6. QED
    BY <1>1, <1>2, <1>3, <1>4, <1>5, TypeParts

LEMMA StepSetupType == TypeOK /\ ListingInv /\ [Next]_vars => SetupTypeOK'
  <1> SUFFICES ASSUME TypeOK, ListingInv, [Next]_vars PROVE SetupTypeOK'
    OBVIOUS
  <1>0. SetupTypeOK /\ world' = world
    BY TypeParts, FaultsGrow
  <1> USE <1>0 DEF SetupTypeOK, Phases
  <1>1. CASE GetToken \/ GetContext \/ ProjectsChecked \/ StartProjects
             \/ FinishCycle \/ TimeOut
    BY <1>1 DEF GetToken, GetContext, ProjectsChecked, StartProjects,
                FinishCycle, TimeOut, End
  <1>2. CASE ListPage
    <2>1. CASE /\ found' = found \union Pages[page] /\ page' = page + 1
               /\ phase' = IF page = Len(Pages) THEN AfterListing ELSE phase
               /\ UNCHANGED <<outcome, known, checked>>
      <3>1. page <= Len(Pages)
        BY <1>2 DEF ListPage, ListingInv
      <3>2. page' \in 1..(Len(Pages) + 1) /\ Pages[page] \subseteq Projects
        <4>1. page \in 1..Len(Pages) /\ page + 1 \in 1..(Len(Pages) + 1)
          BY <3>1, NextPage
        <4>2. QED
          BY <2>1, <4>1, PagesAreProjects
      <3>3. phase' \in Phases
        BY <2>1 DEF AfterListing
      <3>4. QED
        BY <2>1, <3>2, <3>3
    <2>2. CASE UNCHANGED <<found, page>>
      BY <1>2, <2>2 DEF ListPage, AfterListing, End
    <2>3. QED
      BY <1>2, <2>1, <2>2 DEF ListPage
  <1>3. ASSUME NEW p \in Projects, CheckProject(p) PROVE SetupTypeOK'
    <2>1. PICK some \in SUBSET world[p].off : known' = [known EXCEPT ![p] = some]
      BY <1>3 DEF CheckProject
    <2>2. world[p].off \subseteq Apis
      BY DEF TypeOK, Worlds
    <2>3. QED
      BY <1>3, <2>1, <2>2 DEF CheckProject
  <1>4. CASE UNCHANGED setup
    BY <1>4 DEF setup
  <1>5. QED
    BY <1>1, <1>2, <1>3, <1>4
       DEF Next, CycleStep, ProjectStep, ExtractorEnds, TopologyComplete,
           QueryAnswers, Push, setup, vars

LEMMA StepWorkType == TypeOK /\ [Next]_vars => WorkTypeOK' /\ TopologyTypeOK'
  <1> SUFFICES ASSUME TypeOK, [Next]_vars PROVE WorkTypeOK' /\ TopologyTypeOK'
    OBVIOUS
  <1>0. WorkTypeOK /\ TopologyTypeOK
    BY TypeParts
  <1>1. CASE StartProjects
    BY <1>0, <1>1 DEF StartProjects, WorkTypeOK, TopologyTypeOK, Stages
  <1>2. CASE TimeOut
    BY <1>0, <1>2 DEF TimeOut, WorkTypeOK, TopologyTypeOK, Stages
  <1>3. ASSUME NEW p \in Projects, NEW s \in Services, ExtractorEnds(p, s)
        PROVE  WorkTypeOK' /\ TopologyTypeOK'
    <2>1. \E got \in {"entities", "none"} : topology' = [topology EXCEPT ![p][s] = got]
      BY <1>3 DEF ExtractorEnds, SetTopology
    <2>2. UNCHANGED <<stage, fetching, lines, delivered, connectivity>>
      BY <1>3 DEF ExtractorEnds
    <2>3. WorkTypeOK'
      BY <1>0, <2>2, Zenon DEF WorkTypeOK
    <2>4. TopologyTypeOK'
      <3>1. PICK got \in {"entities", "none"} :
              topology' = [topology EXCEPT ![p] = [topology[p] EXCEPT ![s] = got]]
        BY <2>1
      <3>2. [topology[p] EXCEPT ![s] = got]
              \in [Services -> {"no task", "running", "entities", "none", "cancelled"}]
        BY <1>0 DEF TopologyTypeOK
      <3>3. QED
        BY <1>0, <3>1, <3>2 DEF TopologyTypeOK
    <2>5. QED
      BY <2>3, <2>4
  <1>4. ASSUME NEW p \in Projects, TopologyComplete(p)
        PROVE  WorkTypeOK' /\ TopologyTypeOK'
    <2>1. ToFetch(p) \subseteq Queries
      BY DEF ToFetch
    <2>2. QED
      BY <1>0, <1>4, <2>1 DEF TopologyComplete, WorkTypeOK, TopologyTypeOK, Stages
  <1>5. ASSUME NEW p \in Projects, NEW q \in Queries, QueryAnswers(p, q)
        PROVE  WorkTypeOK' /\ TopologyTypeOK'
    <2>1. /\ fetching' = [fetching EXCEPT ![p] = @ \ {q}]
          /\ \E more \in SUBSET {q} : lines' = [lines EXCEPT ![p] = @ \union more]
          /\ UNCHANGED <<stage, topology, delivered, connectivity>>
      <3>1. lines = [lines EXCEPT ![p] = @ \union {}]
        BY <1>0 DEF WorkTypeOK
      <3>2. QED
        BY <1>5, <3>1 DEF QueryAnswers
    <2>2. lines' \in [Projects -> SUBSET Queries]
      BY <1>0, <2>1 DEF WorkTypeOK
    <2>3. \A x \in Projects : lines[x] \subseteq lines'[x]
      BY <1>0, <2>1 DEF WorkTypeOK
    <2>4. fetching' \in [Projects -> SUBSET Queries]
      BY <1>0, <2>1 DEF WorkTypeOK
    <2>5. /\ stage' \in [Projects -> Stages]
          /\ delivered' \in [Projects -> SUBSET Queries]
      BY <1>0, <2>1 DEF WorkTypeOK
    <2>6. \A x \in Projects : delivered'[x] \subseteq lines'[x]
      BY <1>0, <2>1, <2>3 DEF WorkTypeOK
    <2>7. connectivity' \in BOOLEAN
      BY <1>0, <2>1, Zenon DEF WorkTypeOK
    <2>8. TopologyTypeOK'
      BY <1>0, <2>1 DEF TopologyTypeOK
    <2>9. QED
      BY <2>2, <2>4, <2>5, <2>6, <2>7, <2>8, Zenon DEF WorkTypeOK
  <1>6. ASSUME NEW p \in Projects, Push(p)
        PROVE  WorkTypeOK' /\ TopologyTypeOK'
    <2>1. /\ delivered' = delivered \/ delivered' = [delivered EXCEPT ![p] = lines[p]]
          /\ stage' = [stage EXCEPT ![p] = "ended"]
          /\ UNCHANGED <<topology, fetching, lines>>
      BY <1>6 DEF Push
    <2>2. connectivity' \in BOOLEAN
      BY <1>0, <1>6 DEF Push, WorkTypeOK
    <2>3. QED
      BY <1>0, <2>1, <2>2 DEF WorkTypeOK, TopologyTypeOK, Stages
  <1>7. CASE UNCHANGED work
    BY <1>0, <1>7 DEF work, WorkTypeOK, TopologyTypeOK
  <1>8. QED
    BY <1>1, <1>2, <1>3, <1>4, <1>5, <1>6, <1>7
       DEF Next, CycleStep, ProjectStep, GetToken, GetContext, ListPage,
           CheckProject, ProjectsChecked, FinishCycle, vars, work

LEMMA StepTypeOK == TypeOK /\ ListingInv /\ [Next]_vars => TypeOK'
  <1> SUFFICES ASSUME TypeOK, ListingInv, [Next]_vars PROVE TypeOK'
    OBVIOUS
  <1>1. SetupTypeOK' /\ WorkTypeOK' /\ TopologyTypeOK'
    BY StepSetupType, StepWorkType
  <1>2. /\ world' \in [Projects -> Worlds]
        /\ IsFiniteSet(faults') /\ Cardinality(faults') <= MaxFaults
    BY FaultsGrow DEF TypeOK
  <1>3. QED
    BY <1>1, <1>2, TypeParts DEF TypeOK, SetupTypeOK, WorkTypeOK, TopologyTypeOK

-----------------------------------------------------------------------------
(* The listing.                                                            *)

\* What a page that is read adds: its projects, and the next page.
LEMMA StepListingInv ==
    TypeOK /\ StageInv /\ ListingInv /\ [Next]_vars => ListingInv'
  <1> SUFFICES ASSUME TypeOK, ListingInv, StageInv, [Next]_vars PROVE ListingInv'
    OBVIOUS
  <1>0. faults \subseteq faults' /\ page \in 1..(Len(Pages) + 1) /\ Len(Pages) \in Nat
    BY FaultsGrow, PagesAreProjects DEF TypeOK
  <1>1. CASE ListPage
    <2>1. CASE /\ found' = found \union Pages[page] /\ page' = page + 1
               /\ phase' = IF page = Len(Pages) THEN AfterListing ELSE phase
      <3>1. page <= Len(Pages) /\ phase = "listing"
        BY <1>1 DEF ListPage, ListingInv
      <3>2. \A i \in 1..(page' - 1) : Pages[i] \subseteq found'
        <4> SUFFICES ASSUME NEW i \in 1..(page' - 1) PROVE Pages[i] \subseteq found'
          OBVIOUS
        <4>1. i = page \/ i \in 1..(page - 1)
          BY <1>0, <2>1
        <4>2. QED
          BY <2>1, <4>1 DEF ListingInv
      <3>3. CASE page = Len(Pages)
        BY <1>0, <2>1, <3>2, <3>3 DEF ListingInv, AfterListing
      <3>4. CASE page # Len(Pages)
        BY <1>0, <2>1, <3>1, <3>2, <3>4 DEF ListingInv
      <3>5. QED
        BY <3>3, <3>4
    <2>2. CASE Fails("list", Anywhere, page) /\ phase' = AfterListing
               /\ UNCHANGED <<found, page>>
      <3>1. Fault("list", Anywhere, page) \in faults'
        BY <2>2, FailsRecords
      <3>2. phase' \in {"checking", "choosing"}
        BY <2>2 DEF AfterListing
      <3>3. QED
        BY <2>2, <3>1, <3>2 DEF ListingInv
    <2>3. CASE End("raised") /\ UNCHANGED <<found, page>>
      BY <2>3 DEF ListingInv, End
    <2>4. QED
      BY <1>1, <2>1, <2>2, <2>3 DEF ListPage
  <1>2. CASE GetToken \/ GetContext \/ FinishCycle \/ TimeOut
    BY <1>2 DEF GetToken, GetContext, FinishCycle, TimeOut, End, ListingInv
  <1>3. CASE ProjectsChecked \/ StartProjects
    BY <1>0, <1>3 DEF ProjectsChecked, StartProjects, ListingInv
  <1>4. CASE UNCHANGED <<phase, found, page>>
    BY <1>0, <1>4 DEF ListingInv
  <1>5. QED
    BY <1>1, <1>2, <1>3, <1>4
       DEF Next, CycleStep, ProjectStep, CheckProject, ExtractorEnds,
           TopologyComplete, QueryAnswers, Push, setup, vars

LEMMA StepCheckInv == TypeOK /\ CheckInv /\ [Next]_vars => CheckInv'
  <1> SUFFICES ASSUME TypeOK, CheckInv, [Next]_vars PROVE CheckInv'
    OBVIOUS
  <1>0. faults \subseteq faults' /\ world' = world /\ checked \subseteq Projects
    BY FaultsGrow DEF TypeOK
  <1>1. ASSUME NEW p \in Projects, CheckProject(p) PROVE CheckInv'
    <2>1. known'[p] = world[p].off \/ Fault("apis", p, Anywhere) \in faults'
      BY <1>1, FailsRecords DEF CheckProject, TypeOK
    <2>2. \A x \in checked : x # p => known'[x] = known[x]
      BY <1>0, <1>1 DEF CheckProject, TypeOK
    <2>3. checked' = checked \union {p} /\ phase' = "checking"
      BY <1>1 DEF CheckProject
    <2>4. QED
      BY <1>0, <2>1, <2>2, <2>3 DEF CheckInv
  <1>2. CASE ListPage
    BY <1>0, <1>2 DEF ListPage, AfterListing, End, CheckInv
  <1>3. CASE GetToken \/ GetContext \/ ProjectsChecked \/ StartProjects
             \/ FinishCycle \/ TimeOut
    BY <1>0, <1>3 DEF GetToken, GetContext, ProjectsChecked, StartProjects,
                      FinishCycle, TimeOut, End, CheckInv
  <1>4. CASE UNCHANGED setup
    BY <1>0, <1>4 DEF setup, CheckInv
  <1>5. QED
    BY <1>1, <1>2, <1>3, <1>4
       DEF Next, CycleStep, ProjectStep, ExtractorEnds, TopologyComplete,
           QueryAnswers, Push, setup, vars

-----------------------------------------------------------------------------
(* The projects and their extraction tasks.                                *)

\* Only the check of a project changes what is known of it, and that is over
\* when the projects are processed.
LEMMA KnownKept ==
    ASSUME TypeOK, [Next]_vars, phase # "checking"
    PROVE  UNCHANGED <<known, checked>>
  BY DEF Next, CycleStep, ProjectStep, GetToken, GetContext, ListPage,
         CheckProject, ProjectsChecked, StartProjects, ExtractorEnds,
         TopologyComplete, QueryAnswers, Push, FinishCycle, TimeOut, setup, vars

\* The check of a project that is processed does not change any more: if the
\* projects are being checked, none is.
LEMMA CheckedKept ==
    ASSUME TypeOK, StageInv, [Next]_vars, NEW p \in Projects, stage[p] # "out"
    PROVE  known'[p] = known[p] /\ checked' = checked
  <1>1. phase # "checking"
    BY DEF StageInv, TypeOK, Stages
  <1>2. QED
    BY <1>1, KnownKept

LEMMA StepStageInv ==
    TypeOK /\ CheckInv /\ StageInv /\ [Next]_vars => StageInv'
  <1> SUFFICES ASSUME TypeOK, CheckInv, StageInv, [Next]_vars PROVE StageInv'
    OBVIOUS
  <1>0. /\ phase = "ended" <=> outcome # "running"
        /\ stage \in [Projects -> Stages]
    BY DEF StageInv, TypeOK
  <1>1. CASE StartProjects
    <2>1. /\ phase = "choosing" /\ phase' = "processing"
          /\ UNCHANGED <<outcome, known, checked, found>>
          /\ stage' = [p \in Projects |-> IF p \in Chosen THEN "topology" ELSE "out"]
      BY <1>1 DEF StartProjects
    <2>2. \A p \in Chosen : p \in found /\ (Scoping \/ ~Disabled(known[p]))
      BY DEF Chosen, Filtered, WithParts, KeepIncluded, WithoutParts
    <2>3. Scoping \/ checked = found
      BY <2>1 DEF CheckInv
    <2>4. QED
      BY <1>0, <2>1, <2>2, <2>3 DEF StageInv
  <1>2. CASE UNCHANGED stage /\ phase \notin {"processing", "ended"}
    <2>1. \A p \in Projects : stage'[p] = "out"
      BY <1>0, <1>2 DEF StageInv, Stages
    <2>2. phase' = "ended" <=> outcome' # "running"
      BY <1>0, <1>2
         DEF Next, CycleStep, ProjectStep, GetToken, GetContext, ListPage, End,
             CheckProject, ProjectsChecked, StartProjects, ExtractorEnds, AfterListing,
             TopologyComplete, QueryAnswers, Push, FinishCycle, TimeOut, setup, vars
    <2>3. QED
      BY <2>1, <2>2 DEF StageInv
  <1>3. ASSUME NEW p \in Projects, phase = "processing", UNCHANGED setup,
               stage[p] # "out", stage' \in {stage, [stage EXCEPT ![p] = "fetching"],
                                             [stage EXCEPT ![p] = "ended"]}
        PROVE  StageInv'
    <2>1. \A x \in Projects : stage'[x] # "out" => stage[x] # "out"
      BY <1>0, <1>3
    <2>2. QED
      BY <1>0, <1>3, <2>1 DEF StageInv, setup
  <1>4. CASE FinishCycle
    BY <1>0, <1>4 DEF FinishCycle, End, StageInv, Processed, work
  <1>5. CASE TimeOut
    BY <1>0, <1>5 DEF TimeOut, End, StageInv
  <1>6. CASE UNCHANGED <<phase, outcome, known, checked, stage>>
    BY <1>6 DEF StageInv
  <1>7. QED
    <2>1. CASE GetToken \/ GetContext \/ ListPage \/ ProjectsChecked
               \/ \E p \in Projects : CheckProject(p)
      BY <1>2, <2>1 DEF GetToken, GetContext, ListPage, ProjectsChecked,
                        CheckProject, work
    <2>2. ASSUME NEW p \in Projects,
                 \/ TopologyComplete(p) \/ Push(p)
                 \/ \E q \in Queries : QueryAnswers(p, q)
          PROVE  StageInv'
      BY <1>3, <2>2 DEF TopologyComplete, Push, QueryAnswers
    <2>3. QED
      BY <1>1, <1>4, <1>5, <1>6, <2>1, <2>2
         DEF Next, CycleStep, ProjectStep, ExtractorEnds, setup, vars

\* What a project's topology says holds for good: the fault that cost a result
\* is not forgotten.
LEMMA ExtractorResult ==
    ASSUME TypeOK, NEW p \in Projects, NEW s \in Services, ExtractorEnds(p, s)
    PROVE  /\ \A x \in Projects, r \in Services :
                  (x # p \/ r # s) => topology'[x][r] = topology[x][r]
           /\ topology'[p][s] \in {"entities", "none"}
           /\ topology'[p][s] = "entities" => s \in world[p].instances
           /\ topology'[p][s] = "none" =>
                  \/ s \notin world[p].instances
                  \/ Fault("page", p, s) \in faults' \/ Fault("extractor", p, s) \in faults'
  <1>1. PICK got \in {"entities", "none"} :
          /\ SetTopology(p, s, got)
          /\ \/ got = IF s \in world[p].instances THEN "entities" ELSE "none"
             \/ Fails("page", p, s) /\ s \in world[p].instances
             \/ Fails("extractor", p, s) /\ got = "none"
    BY DEF ExtractorEnds
  <1>2. /\ topology'[p][s] = got
        /\ \A x \in Projects, r \in Services :
               (x # p \/ r # s) => topology'[x][r] = topology[x][r]
    BY <1>1 DEF SetTopology, TypeOK
  <1>3. Fails("page", p, s) => Fault("page", p, s) \in faults'
    BY FailsRecords
  <1>4. Fails("extractor", p, s) => Fault("extractor", p, s) \in faults'
    BY FailsRecords
  <1>5. QED
    BY <1>1, <1>2, <1>3, <1>4

\* A cycle that has ended stays ended, the way it did.
LEMMA EndIsFinal ==
    ASSUME StageInv, [Next]_vars, outcome # "running"
    PROVE  UNCHANGED <<phase, outcome, stage, fetching, lines, delivered, connectivity>>
  <1>1. phase = "ended"
    BY DEF StageInv
  <1>2. QED
    BY <1>1 DEF Next, CycleStep, ProjectStep, GetToken, GetContext, ListPage,
                CheckProject, ProjectsChecked, StartProjects, ExtractorEnds,
                TopologyComplete, QueryAnswers, Push, FinishCycle, TimeOut,
                setup, work, vars

\* The tasks of a project change when they start, end or are cancelled.
LEMMA TopologyKept ==
    ASSUME TypeOK, [Next]_vars, ~StartProjects, ~TimeOut,
           ~ \E p \in Projects, s \in Services : ExtractorEnds(p, s)
    PROVE  /\ topology' = topology
           /\ \A p \in Projects : stage'[p] # "out" => stage[p] # "out"
  BY DEF Next, CycleStep, ProjectStep, GetToken, GetContext, ListPage,
         CheckProject, ProjectsChecked, TopologyComplete, QueryAnswers, Push,
         FinishCycle, setup, work, vars, TypeOK

LEMMA StepTopologyInv ==
    TypeOK /\ StageInv /\ TopologyInv /\ [Next]_vars => TopologyInv'
  <1> SUFFICES ASSUME TypeOK, StageInv, TopologyInv, [Next]_vars,
                      NEW p \in Projects, NEW s \in Services
               PROVE  TaskInv(p, s)'
    BY DEF TopologyInv
  <1>0. TaskInv(p, s)
    BY DEF TopologyInv
  <1>1. faults \subseteq faults' /\ world' = world
    BY FaultsGrow
  <1>2. outcome = "timed out" => outcome' = "timed out"
    BY EndIsFinal
  <1>3. stage[p] # "out" => known'[p] = known[p]
    BY CheckedKept
  <1>4. CASE StartProjects
    BY <1>4 DEF StartProjects, ExtractorsOf, TaskInv
  <1>5. CASE TimeOut
    <2>1. /\ topology'[p][s] = "cancelled" \/ topology'[p][s] = topology[p][s]
          /\ stage'[p] # "out" => stage[p] # "out"
          /\ outcome' = "timed out"
      BY <1>5 DEF TimeOut, End
    <2>2. QED
      BY <1>0, <1>1, <1>3, <2>1 DEF TaskInv, ExtractorsOf
  <1>6. ASSUME NEW x \in Projects, NEW r \in Services, ExtractorEnds(x, r)
        PROVE  TaskInv(p, s)'
    <2>1. stage' = stage
      BY <1>6 DEF ExtractorEnds
    <2>2. CASE p = x /\ s = r
      BY <1>6, <1>1, <2>2, ExtractorResult DEF TaskInv
    <2>3. CASE ~(p = x /\ s = r)
      <3>1. topology'[p][s] = topology[p][s]
        BY <1>6, <2>3, ExtractorResult
      <3>2. QED
        BY <1>0, <1>1, <1>2, <1>3, <2>1, <3>1 DEF TaskInv, ExtractorsOf
    <2>4. QED
      BY <2>2, <2>3
  <1>7. CASE /\ ~StartProjects /\ ~TimeOut
             /\ ~ \E x \in Projects, r \in Services : ExtractorEnds(x, r)
    <2>1. topology' = topology /\ (stage'[p] # "out" => stage[p] # "out")
      BY <1>7, TopologyKept
    <2>2. QED
      BY <1>0, <1>1, <1>2, <1>3, <2>1 DEF TaskInv, ExtractorsOf
  <1>8. QED
    BY <1>4, <1>5, <1>6, <1>7

\* A task that runs is awaited, or the timeout has left it behind.
LEMMA StepOrphansNeedTimeout ==
    TypeOK /\ StageInv /\ OrphansNeedTimeout /\ [Next]_vars => OrphansNeedTimeout'
  <1> SUFFICES ASSUME TypeOK, StageInv, OrphansNeedTimeout, [Next]_vars,
                      NEW p \in Projects, NEW s \in Services,
                      topology'[p][s] = "running", stage'[p] # "topology"
               PROVE  outcome' = "timed out"
    BY DEF OrphansNeedTimeout
  <1>1. CASE outcome = "timed out"
    BY <1>1, EndIsFinal
  <1>2. CASE StartProjects
    BY <1>2 DEF StartProjects
  <1>3. CASE TimeOut
    BY <1>3 DEF TimeOut, End
  <1>4. ASSUME NEW x \in Projects, NEW r \in Services, ExtractorEnds(x, r)
        PROVE  outcome = "timed out"
    <2>1. stage' = stage /\ topology[p][s] = "running"
      BY <1>4, ExtractorResult DEF ExtractorEnds
    <2>2. QED
      BY <2>1 DEF OrphansNeedTimeout
  <1>5. ASSUME NEW x \in Projects, TopologyComplete(x)
        PROVE  outcome = "timed out"
    <2>1. topology' = topology /\ topology[x][s] # "running"
      BY <1>5 DEF TopologyComplete
    <2>2. p # x /\ stage'[p] = stage[p]
      BY <1>5, <2>1 DEF TopologyComplete, TypeOK
    <2>3. QED
      BY <2>1, <2>2 DEF OrphansNeedTimeout
  <1>6. CASE topology' = topology /\ stage[p] # "topology"
    BY <1>1, <1>6 DEF OrphansNeedTimeout
  <1>7. QED
    <2>1. ASSUME NEW x \in Projects,
                 Push(x) \/ \E q \in Queries : QueryAnswers(x, q)
          PROVE  topology' = topology /\ stage[p] # "topology"
      BY <2>1 DEF Push, QueryAnswers, TypeOK
    <2>2. CASE UNCHANGED work
      BY <1>6, <2>2 DEF work
    <2>3. \/ UNCHANGED work \/ StartProjects \/ TimeOut
          \/ \E x \in Projects :
                \/ TopologyComplete(x) \/ Push(x)
                \/ \E q \in Queries : QueryAnswers(x, q)
                \/ \E r \in Services : ExtractorEnds(x, r)
      BY DEF Next, CycleStep, ProjectStep, GetToken, GetContext, ListPage,
             CheckProject, ProjectsChecked, FinishCycle, work, vars
    <2>4. QED
      BY <1>1, <1>2, <1>3, <1>4, <1>5, <1>6, <2>1, <2>2, <2>3

\* What is fetched is what the cycle could know to be there.  The projects
\* that are fetched have been checked, unless the check is off.
LEMMA FetchedIsNeeded ==
    ASSUME TypeOK, CheckInv, StageInv, TopologyInv, NEW p \in Projects,
           TopologyComplete(p), NEW q \in ToFetch(p)
    PROVE  \/ HasData(p, q)
           \/ Scoping
           \/ Fault("apis", p, Anywhere) \in faults
           \/ ServiceOf[q] \notin ExtractorsOf(p) /\ ApiOf[q] \notin world[p].off
  <1> SUFFICES ASSUME ~Scoping, Fault("apis", p, Anywhere) \notin faults
               PROVE  \/ HasData(p, q)
                      \/ /\ ServiceOf[q] \notin ExtractorsOf(p)
                         /\ ApiOf[q] \notin world[p].off
    OBVIOUS
  <1>1. /\ q \in Queries /\ ServiceOf[q] \in Services
        /\ topology[p][ServiceOf[q]] # "none" /\ ApiOf[q] \notin known[p]
    BY MetricsCycleAssumption DEF ToFetch
  <1>2. p \in checked /\ ~Disabled(known[p])
    BY DEF TopologyComplete, StageInv
  <1>3. known[p] = world[p].off
    BY <1>2 DEF CheckInv
  <1>4. ({ApiOf[q]} \union RequiredApis) \intersect world[p].off = {}
    BY <1>1, <1>2, <1>3 DEF Disabled
  <1>5. CASE ServiceOf[q] \in ExtractorsOf(p)
    <2>1. /\ topology[p][ServiceOf[q]] \notin {"none", "no task", "running"}
          /\ topology[p][ServiceOf[q]] # "cancelled"
          /\ TaskInv(p, ServiceOf[q])
      BY <1>1, <1>5 DEF TopologyComplete, TopologyInv, TaskInv, StageInv
    <2>2. \A r \in Services :
            topology[p][r] \in {"no task", "running", "entities", "none", "cancelled"}
      BY TypeParts DEF TopologyTypeOK
    <2>3. topology[p][ServiceOf[q]] = "entities"
      BY <1>1, <2>1, <2>2
    <2>4. QED
      BY <1>4, <2>1, <2>3 DEF TaskInv, HasData
  <1>6. QED
    BY <1>1, <1>3, <1>5

\* The steps of a project past its topology: a query is answered or the lines
\* are pushed.
LEMMA ProjectFetches ==
    ASSUME TypeOK, NEW p \in Projects,
           Push(p) \/ \E q \in Queries : QueryAnswers(p, q)
    PROVE  /\ stage[p] = "fetching" /\ stage'[p] \in {"fetching", "ended"}
           /\ \A x \in Projects : fetching'[x] \subseteq fetching[x]
           /\ \A x \in Projects \ {p} : stage'[x] = stage[x]
           /\ UNCHANGED <<known, phase, outcome, found, topology>>
  <1>1. CASE Push(p)
    BY <1>1 DEF Push, TypeOK, setup
  <1>2. ASSUME NEW q \in Queries, QueryAnswers(p, q)
        PROVE  /\ stage[p] = "fetching" /\ stage' = stage
               /\ \A x \in Projects : fetching'[x] \subseteq fetching[x]
               /\ UNCHANGED <<known, phase, outcome, found, topology>>
    BY <1>2 DEF QueryAnswers, TypeOK, setup
  <1>3. QED
    BY <1>1, <1>2

\* A project starts to fetch when its topology is complete.
LEMMA ProjectStarts ==
    ASSUME TypeOK, NEW p \in Projects, TopologyComplete(p)
    PROVE  /\ stage'[p] = "fetching" /\ fetching'[p] = ToFetch(p)
           /\ \A x \in Projects \ {p} :
                  stage'[x] = stage[x] /\ fetching'[x] = fetching[x]
  BY DEF TopologyComplete, TypeOK

\* The steps by kind: only three of them touch what is fetched or its lines.
LEMMA StepKinds ==
    ASSUME [Next]_vars
    PROVE  \/ UNCHANGED <<fetching, lines, delivered, connectivity>>
           \/ \E p \in Projects :
                 \/ TopologyComplete(p) \/ Push(p)
                 \/ \E q \in Queries : QueryAnswers(p, q)
  BY DEF Next, CycleStep, ProjectStep, GetToken, GetContext, ListPage,
         CheckProject, ProjectsChecked, StartProjects, ExtractorEnds,
         FinishCycle, TimeOut, work, vars

LEMMA StageForward ==
    ASSUME TypeOK, StageInv, [Next]_vars, UNCHANGED fetching, NEW p \in Projects,
           stage'[p] \in {"out", "topology"}
    PROVE  stage[p] \in {"out", "topology"}
  <1>1. CASE StartProjects
    <2>1. phase = "choosing"
      BY <1>1 DEF StartProjects
    <2>2. stage[p] = "out"
      BY <2>1 DEF StageInv, TypeOK, Stages
    <2>3. QED
      BY <2>2
  <1>2. CASE TimeOut
    BY <1>2 DEF TimeOut
  <1>3. CASE UNCHANGED stage
    BY <1>3
  <1>4. CASE \E x \in Projects :
               \/ TopologyComplete(x) \/ Push(x)
               \/ \E q \in Queries : QueryAnswers(x, q)
    BY <1>4 DEF TopologyComplete, Push, QueryAnswers, TypeOK
  <1>5. QED
    BY <1>1, <1>2, <1>3, <1>4
       DEF Next, CycleStep, ProjectStep, GetToken, GetContext, ListPage,
           CheckProject, ProjectsChecked, ExtractorEnds, FinishCycle, work, vars

LEMMA StepFetchingInv ==
    TypeOK /\ StageInv /\ FetchingInv /\ [Next]_vars => FetchingInv'
  <1> SUFFICES ASSUME TypeOK, StageInv, FetchingInv, [Next]_vars,
                      NEW p \in Projects, stage'[p] \in {"out", "topology"}
               PROVE  fetching'[p] = {}
    BY DEF FetchingInv
  <1>1. CASE UNCHANGED fetching
    BY <1>1, StageForward DEF FetchingInv
  <1>2. ASSUME NEW x \in Projects, TopologyComplete(x) PROVE fetching'[p] = {}
    <2>1. p # x
      BY <1>2, ProjectStarts
    <2>2. QED
      BY <1>2, <2>1, ProjectStarts DEF FetchingInv
  <1>3. ASSUME NEW x \in Projects,
               Push(x) \/ \E q \in Queries : QueryAnswers(x, q)
        PROVE  fetching'[p] = {}
    <2>1. p # x
      BY <1>3, ProjectFetches
    <2>2. QED
      BY <1>3, <2>1, ProjectFetches DEF FetchingInv
  <1>4. QED
    BY <1>1, <1>2, <1>3, StepKinds

LEMMA StepNoNeedlessQuery ==
    /\ TypeOK /\ CheckInv /\ StageInv /\ TopologyInv /\ FetchingInv
    /\ NoNeedlessQuery /\ [Next]_vars
    => NoNeedlessQuery'
  <1> SUFFICES ASSUME TypeOK, CheckInv, StageInv, TopologyInv, FetchingInv,
                      NoNeedlessQuery, [Next]_vars,
                      NEW p \in Projects, NEW q \in fetching'[p]
               PROVE  (\/ HasData(p, q)
                       \/ Scoping
                       \/ Fault("apis", p, Anywhere) \in faults
                       \/ /\ ServiceOf[q] \notin ExtractorsOf(p)
                          /\ ApiOf[q] \notin world[p].off)'
    BY DEF NoNeedlessQuery
  <1>1. faults \subseteq faults' /\ world' = world
    BY FaultsGrow
  <1>2. CASE q \in fetching[p]
    <2>1. stage[p] # "out"
      BY <1>2 DEF FetchingInv
    <2>2. known'[p] = known[p]
      BY <2>1, CheckedKept
    <2>3. QED
      BY <1>1, <1>2, <2>2 DEF NoNeedlessQuery, HasData, ExtractorsOf
  <1>3. CASE q \notin fetching[p]
    <2>1. TopologyComplete(p) /\ q \in ToFetch(p)
      BY <1>3, StepKinds, ProjectStarts, ProjectFetches
    <2>2. known' = known
      BY <2>1 DEF TopologyComplete, setup
    <2>3. QED
      BY <1>1, <2>1, <2>2, FetchedIsNeeded DEF HasData, ExtractorsOf
  <1>4. QED
    BY <1>2, <1>3

-----------------------------------------------------------------------------
(* The data.                                                               *)

\* The faults that explain a loss, by kind.
LEMMA FaultsExplain ==
    ASSUME NEW p \in Projects, NEW q \in Queries
    PROVE  /\ Fault("query", p, q) \in faults => Explained(p, q)
           /\ Fault("push", p, Anywhere) \in faults => Explained(p, q)
           /\ Fault("refusal", p, Anywhere) \in faults => Explained(p, q)
           /\ Fault("page", p, ServiceOf[q]) \in faults => Explained(p, q)
           /\ Fault("extractor", p, ServiceOf[q]) \in faults => Explained(p, q)
           /\ \A i : Fault("list", Anywhere, i) \in faults /\ PageOf(p) >= i
                        => Explained(p, q)
           /\ (\E f \in faults : f.kind = "refusal") => Explained(p, q)
  BY DEF Fault, Explains, Explained

LEMMA ExplainedKept ==
    ASSUME TypeOK, [Next]_vars, NEW p, NEW q, Explained(p, q)
    PROVE  Explained(p, q)'
  <1>1. faults \subseteq faults'
    BY FaultsGrow
  <1>2. QED
    BY <1>1 DEF Explained, Explains

LEMMA ExpectedKept ==
    ASSUME TypeOK, [Next]_vars, NEW p \in Projects
    PROVE  Expected(p)' = Expected(p)
  <1>1. world' = world
    BY FaultsGrow
  <1>2. QED
    BY <1>1 DEF Expected, HasData

\* The project whose data is expected is in no page that was read: it is left
\* out because the listing has failed, before its page or at it.
LEMMA LeftOutIsExplained ==
    ASSUME TypeOK, ListingInv, phase = "choosing",
           NEW p \in Projects, NEW q \in Expected(p), p \notin Chosen
    PROVE  Explained(p, q)
  <1>1. q \in Queries /\ p \in Filtered(Projects) /\ HasData(p, q)
    BY DEF Expected
  <1>2. ~Disabled(known[p])
    BY <1>1 DEF HasData, Disabled, TypeOK
  <1>3. p \notin found
    BY <1>1, <1>2 DEF Chosen, Filtered, WithParts, KeepIncluded, WithoutParts
  <1>4. \E i \in 1..Len(Pages) : p \in Pages[i]
    BY PagesAreProjects
  <1>5. PageOf(p) \in 1..Len(Pages) /\ p \in Pages[PageOf(p)]
    <2>1. DOMAIN Pages = 1..Len(Pages)
      BY MetricsCycleAssumption
    <2>2. QED
      BY <1>4, <2>1 DEF PageOf
  <1>6. page \in 1..(Len(Pages) + 1) /\ Len(Pages) \in Nat
    BY PagesAreProjects, TypeParts DEF SetupTypeOK
  <1>7. PageOf(p) \notin 1..(page - 1)
    BY <1>3, <1>5 DEF ListingInv
  <1>8. PageOf(p) >= page /\ page # Len(Pages) + 1
    BY <1>5, <1>6, <1>7
  <1>9. Fault("list", Anywhere, page) \in faults
    BY <1>8 DEF ListingInv
  <1>10. QED
    BY <1>1, <1>8, <1>9, FaultsExplain

\* An expected query that is not sent has a service that passes for one
\* without instances: its extraction has failed.
LEMMA UnsentIsExplained ==
    ASSUME TypeOK, TopologyInv, NEW p \in Projects, NEW q \in Expected(p),
           q \notin ToFetch(p)
    PROVE  Explained(p, q)
  <1>1. /\ q \in Queries \ FilteredOut /\ p \in OnlyIn[q]
        /\ ServiceOf[q] \in Enabled /\ HasData(p, q)
    BY DEF Expected
  <1>2. ServiceOf[q] \in Services
    BY <1>1, MetricsCycleAssumption
  <1>3. ApiOf[q] \notin known[p] /\ ServiceOf[q] \in world[p].instances
    BY <1>1 DEF HasData, TypeOK
  <1>4. topology[p][ServiceOf[q]] = "none"
    BY <1>1, <1>3 DEF ToFetch
  <1>5. \/ Fault("page", p, ServiceOf[q]) \in faults
        \/ Fault("extractor", p, ServiceOf[q]) \in faults
    BY <1>2, <1>3, <1>4 DEF TopologyInv, TaskInv
  <1>6. QED
    BY <1>1, <1>5, FaultsExplain

\* A query that is answered has its lines, or a fault of its own.
LEMMA QueryAnswered ==
    ASSUME TypeOK, NEW p \in Projects, NEW q \in Queries, QueryAnswers(p, q)
    PROVE  /\ fetching'[p] = fetching[p] \ {q} /\ lines[p] \subseteq lines'[p]
           /\ HasData(p, q) => q \in lines'[p] \/ Fault("query", p, q) \in faults'
           /\ \A x \in Projects \ {p} :
                  fetching'[x] = fetching[x] /\ lines'[x] = lines[x]
           /\ UNCHANGED <<stage, delivered>>
  <1>1. CASE lines' = [lines EXCEPT ![p] = IF HasData(p, q) THEN @ \union {q} ELSE @]
    BY <1>1 DEF QueryAnswers, TypeOK
  <1>2. CASE Fails("query", p, q) /\ UNCHANGED lines
    <2>1. Fault("query", p, q) \in faults'
      BY <1>2, FailsRecords
    <2>2. QED
      BY <1>2, <2>1 DEF QueryAnswers, TypeOK
  <1>3. QED
    BY <1>1, <1>2 DEF QueryAnswers

\* The lines of a project are delivered, or the push or Dynatrace has failed.
LEMMA LinesPushed ==
    ASSUME TypeOK, ConnectivityInv, NEW p \in Projects, Push(p)
    PROVE  /\ stage'[p] = "ended"
           /\ \/ delivered'[p] = lines[p]
              \/ Fault("push", p, Anywhere) \in faults'
              \/ Fault("refusal", p, Anywhere) \in faults'
              \/ \E f \in faults' : f.kind = "refusal"
           /\ \A x \in Projects \ {p} :
                  stage'[x] = stage[x] /\ delivered'[x] = delivered[x]
           /\ UNCHANGED <<fetching, lines>>
  <1>1. \/ delivered' = [delivered EXCEPT ![p] = lines[p]]
        \/ delivered' = delivered /\ Fails("push", p, Anywhere)
        \/ delivered' = delivered /\ Fails("refusal", p, Anywhere)
        \/ delivered' = delivered /\ ~connectivity /\ faults' = faults
    BY DEF Push
  <1>2. /\ stage' = [stage EXCEPT ![p] = "ended"]
        /\ UNCHANGED <<fetching, lines>>
    BY DEF Push
  <1>3. /\ stage'[p] = "ended" /\ \A x \in Projects \ {p} : stage'[x] = stage[x]
    BY <1>2 DEF TypeOK
  <1>4. \A x \in Projects \ {p} : delivered'[x] = delivered[x]
    BY <1>1 DEF TypeOK
  <1>5. \/ delivered'[p] = lines[p]
        \/ Fails("push", p, Anywhere) \/ Fails("refusal", p, Anywhere)
        \/ \E f \in faults' : f.kind = "refusal"
    BY <1>1 DEF TypeOK, ConnectivityInv
  <1>6. QED
    BY <1>2, <1>3, <1>4, <1>5, FailsRecords

LEMMA StepConnectivityInv == TypeOK /\ ConnectivityInv /\ [Next]_vars => ConnectivityInv'
  <1> SUFFICES ASSUME TypeOK, ConnectivityInv, [Next]_vars PROVE ConnectivityInv'
    OBVIOUS
  <1>1. faults \subseteq faults'
    BY FaultsGrow
  <1>2. CASE UNCHANGED connectivity
    BY <1>1, <1>2 DEF ConnectivityInv
  <1>3. ASSUME NEW p \in Projects, Fails("refusal", p, Anywhere)
        PROVE  ConnectivityInv'
    <2>1. Fault("refusal", p, Anywhere) \in faults'
      BY <1>3, FailsRecords
    <2>2. QED
      BY <2>1 DEF ConnectivityInv, Fault
  <1>4. QED
    BY <1>2, <1>3, StepKinds DEF TopologyComplete, QueryAnswers, Push

\* The steps that change neither a project nor the end of the cycle, but for
\* the timeout.
LEMMA QuietKinds ==
    ASSUME TypeOK, StageInv, [Next]_vars, ~StartProjects, ~FinishCycle, ~TimeOut,
           ~ \E p \in Projects :
                \/ TopologyComplete(p) \/ Push(p)
                \/ \E q \in Queries : QueryAnswers(p, q)
    PROVE  /\ UNCHANGED <<stage, fetching, lines, delivered>>
           /\ phase' = "processing" => phase = "processing"
           /\ outcome' = "done" => outcome = "done"
  BY DEF Next, CycleStep, ProjectStep, GetToken, GetContext, ListPage, End,
         AfterListing, CheckProject, ProjectsChecked, ExtractorEnds, setup, work, vars

LEMMA StepDataOK ==
    ASSUME TypeOK, ListingInv, StageInv, TopologyInv, ConnectivityInv, [Next]_vars,
           NEW p \in Projects, NEW q \in Expected(p), DataOK(p, q)
    PROVE  DataOK(p, q)'
  <1> SUFFICES ASSUME ~Explained(p, q)' PROVE DataOK(p, q)'
    BY DEF DataOK
  <1>0. ~Explained(p, q) /\ q \in Queries /\ HasData(p, q)
    BY ExplainedKept DEF Expected
  <1>1. outcome = "timed out" => outcome' = "timed out"
    BY EndIsFinal
  <1>2. ASSUME UNCHANGED <<stage[p], fetching[p], lines[p], delivered[p]>>,
               phase' = "processing" => phase = "processing",
               outcome' = "done" => outcome = "done"
        PROVE  DataOK(p, q)'
    BY <1>0, <1>1, <1>2 DEF DataOK
  <1>3. CASE StartProjects
    <2>1. phase = "choosing" /\ stage' = [x \in Projects |->
                                           IF x \in Chosen THEN "topology" ELSE "out"]
      BY <1>3 DEF StartProjects
    <2>2. p \in Chosen
      BY <1>0, <2>1, LeftOutIsExplained
    <2>3. QED
      BY <2>1, <2>2 DEF DataOK
  <1>4. CASE TimeOut
    <2>1. stage'[p] # "fetching" /\ phase' = "ended" /\ outcome' = "timed out"
      BY <1>4 DEF TimeOut, End
    <2>2. QED
      BY <2>1 DEF DataOK
  <1>5. CASE FinishCycle
    <2>1. /\ phase = "processing" /\ stage[p] \in {"out", "ended"}
          /\ UNCHANGED <<stage, delivered>>
      BY <1>5 DEF FinishCycle, Processed, work
    <2>2. outcome # "timed out"
      BY <2>1 DEF StageInv
    <2>3. QED
      BY <1>0, <2>1, <2>2 DEF DataOK
  <1>6. ASSUME NEW x \in Projects, TopologyComplete(x) PROVE DataOK(p, q)'
    <2>1. UNCHANGED <<phase, outcome, lines, delivered>>
      BY <1>6 DEF TopologyComplete, setup
    <2>2. CASE x = p
      <3>1. stage'[p] = "fetching" /\ fetching'[p] = ToFetch(p)
        BY <1>6, <2>2, ProjectStarts
      <3>2. q \in ToFetch(p)
        BY <1>0, UnsentIsExplained
      <3>3. QED
        BY <3>1, <3>2 DEF DataOK
    <2>3. CASE x # p
      BY <1>2, <1>6, <2>1, <2>3, ProjectStarts
    <2>4. QED
      BY <2>2, <2>3
  <1>7. ASSUME NEW x \in Projects, NEW r \in Queries, QueryAnswers(x, r)
        PROVE  DataOK(p, q)'
    <2>1. UNCHANGED <<phase, outcome, stage, delivered>>
      BY <1>7 DEF QueryAnswers, setup
    <2>2. CASE x = p
      <3>1. stage[p] = "fetching" /\ stage'[p] = "fetching"
        BY <1>7, <2>1, <2>2 DEF QueryAnswers
      <3>2. q \in fetching[p] \union lines[p]
        BY <1>0, <3>1 DEF DataOK
      <3>3. Fault("query", p, q) \notin faults'
        BY <1>0 DEF Explained, Explains, Fault
      <3>4. q \in fetching'[p] \union lines'[p]
        BY <1>0, <1>7, <2>2, <3>2, <3>3, QueryAnswered
      <3>5. QED
        BY <3>1, <3>4 DEF DataOK
    <2>3. CASE x # p
      BY <1>2, <1>7, <2>1, <2>3, QueryAnswered
    <2>4. QED
      BY <2>2, <2>3
  <1>8. ASSUME NEW x \in Projects, Push(x) PROVE DataOK(p, q)'
    <2>1. UNCHANGED <<phase, outcome>>
      BY <1>8 DEF Push, setup
    <2>2. CASE x = p
      <3>1. stage[p] = "fetching" /\ fetching[p] = {}
        BY <1>8, <2>2 DEF Push
      <3>2. q \in lines[p]
        BY <1>0, <3>1 DEF DataOK
      <3>3. /\ Fault("push", p, Anywhere) \notin faults'
            /\ Fault("refusal", p, Anywhere) \notin faults'
            /\ ~ \E f \in faults' : f.kind = "refusal"
        BY <1>0 DEF Explained, Explains, Fault
      <3>4. stage'[p] = "ended" /\ delivered'[p] = lines[p]
        BY <1>8, <2>2, <3>3, LinesPushed
      <3>5. QED
        BY <3>2, <3>4 DEF DataOK
    <2>3. CASE x # p
      BY <1>2, <1>8, <2>1, <2>3, LinesPushed
    <2>4. QED
      BY <2>2, <2>3
  <1>9. QED
    BY <1>2, <1>3, <1>4, <1>5, <1>6, <1>7, <1>8, QuietKinds

LEMMA StepDataInv ==
    /\ TypeOK /\ ListingInv /\ StageInv /\ TopologyInv /\ DataInv /\ [Next]_vars
    => DataInv'
  <1> SUFFICES ASSUME TypeOK, ListingInv, StageInv, TopologyInv, DataInv, [Next]_vars
               PROVE  DataInv'
    OBVIOUS
  <1>1. ConnectivityInv'
    BY StepConnectivityInv DEF DataInv
  <1>2. ASSUME NEW p \in Projects, NEW q \in Expected(p)' PROVE DataOK(p, q)'
    BY <1>2, ExpectedKept, StepDataOK DEF DataInv
  <1>3. Projects' = Projects
    BY DEF Projects
  <1>4. QED
    BY <1>1, <1>2 DEF DataInv

-----------------------------------------------------------------------------
LEMMA InitIInv == Init => IInv
  <1> SUFFICES ASSUME Init PROVE IInv
    OBVIOUS
  <1>1. TypeOK
    BY InitTypeOK
  <1>2. /\ phase = "token" /\ outcome = "running" /\ page = 1 /\ checked = {}
        /\ connectivity
        /\ \A p \in Projects : stage[p] = "out" /\ fetching[p] = {}
        /\ \A p \in Projects, s \in Services : topology[p][s] = "no task"
    BY DEF Init
  <1>3. CycleInv
    BY <1>1, <1>2 DEF CycleInv, NoNeedlessQuery, OrphansNeedTimeout
  <1>4. ListingInv
    <2>1. Len(Pages) \in Nat \ {0}
      BY PagesAreProjects
    <2>2. phase = "token" /\ page = 1
      BY DEF Init
    <2>3. QED
      BY <2>1, <2>2 DEF ListingInv
  <1>5. CheckInv /\ StageInv /\ TopologyInv /\ FetchingInv
    BY <1>2 DEF CheckInv, StageInv, TopologyInv, TaskInv, FetchingInv
  <1>6. DataInv
    BY <1>2 DEF DataInv, ConnectivityInv, DataOK
  <1>7. QED
    BY <1>3, <1>4, <1>5, <1>6 DEF IInv

LEMMA StepIInv == IInv /\ [Next]_vars => IInv'
  <1> SUFFICES ASSUME IInv, [Next]_vars PROVE IInv'
    OBVIOUS
  <1>0. /\ TypeOK /\ NoNeedlessQuery /\ OrphansNeedTimeout
        /\ ListingInv /\ CheckInv /\ StageInv /\ TopologyInv /\ FetchingInv /\ DataInv
    BY DEF IInv, CycleInv
  <1>1. CycleInv'
    BY <1>0, StepTypeOK, StepNoNeedlessQuery, StepOrphansNeedTimeout DEF CycleInv
  <1>2. ListingInv' /\ CheckInv' /\ StageInv'
    BY <1>0, StepListingInv, StepCheckInv, StepStageInv
  <1>3. TopologyInv' /\ FetchingInv' /\ DataInv'
    BY <1>0, StepTopologyInv, StepFetchingInv, StepDataInv
  <1>4. QED
    BY <1>1, <1>2, <1>3 DEF IInv

LEMMA AlwaysIInv == Spec => []IInv
  BY InitIInv, StepIInv, PTL DEF Spec

\* A cycle asks for what may be there and leaves nothing running behind
\* (NoNeedlessQuery, OrphansNeedTimeout), and its state has its types, for any
\* listing, services, filters and faults: the awaits of query_metrics and
\* process_project_metrics.
THEOREM CycleInvariant == Spec => []CycleInv
  <1>1. IInv => CycleInv
    BY DEF IInv
  <1>2. QED
    BY <1>1, AlwaysIInv, PTL

\* A cycle of query_metrics that runs to its end has delivered what is expected
\* of it, but for what a fault in its place explains.
THEOREM LossesAreExplained == Spec => []LossesExplained
  <1>1. IInv => LossesExplained
    <2> SUFFICES ASSUME IInv, outcome = "done",
                        NEW p \in Projects, NEW q \in Expected(p), q \notin delivered[p]
                 PROVE  Explained(p, q)
      BY DEF LossesExplained, Explained
    <2>1. DataOK(p, q)
      BY DEF IInv, DataInv
    <2>2. stage[p] \in {"out", "ended"}
      BY DEF IInv, StageInv, CycleInv, TypeOK, Stages
    <2>3. QED
      BY <2>1, <2>2 DEF DataOK
  <1>2. QED
    BY <1>1, AlwaysIInv, PTL
=============================================================================
