--------------------------- MODULE MCMetricsCycle ---------------------------
(***************************************************************************)
(* Bounds of MetricsCycle for TLC: two services whose instances are        *)
(* extracted, one that has no extractor, and projects of several kinds.    *)
(***************************************************************************)
EXTENDS MetricsCycle, TLC

MCPages == <<{"web"}, {"db", "db-test"}>>
MCApis == {"monitoring", "compute"}
MCRequired == {"monitoring"}
MCServices == 1..3
MCExtractors == [s \in {1, 2} |-> "compute"]
MCQueries == {"instance", "disk", "quota"}
MCServiceOf == ("instance" :> 1) @@ ("disk" :> 2) @@ ("quota" :> 3)
MCApiOf == [q \in MCQueries |-> "compute"]
MCOnlyIn == [q \in MCQueries |-> IF q = "quota" THEN {"web", "db-test"}
                                                ELSE {"web", "db", "db-test"}]
MCMatches == ("test" :> {"db-test"}) @@ ("web" :> {"web"}) @@ ("db" :> {"db", "db-test"})
Full == [off |-> {}, instances |-> MCServices]
MCWorldsOf ==
    ("web" :> {Full, [off |-> {"monitoring"}, instances |-> {1}],
               [off |-> {"compute"}, instances |-> {}]})
    @@ ("db" :> {Full, [off |-> {}, instances |-> {2}],
                 [off |-> {"compute"}, instances |-> {3}]})
    @@ ("db-test" :> {Full})
MCTest == {"test"}
MCWebDb == {"web", "db"}
=============================================================================
