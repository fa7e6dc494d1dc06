-------------------------- MODULE MCAutodiscovery --------------------------
(***************************************************************************)
(* Bounds of Autodiscovery for TLC: b is autodiscovered until version 2 of *)
(* the extensions lists it, c is searched for by configuration, d is on    *)
(* the block list.                                                         *)
(***************************************************************************)
EXTENDS Autodiscovery

MCServiceMetrics ==
    << [s1 |-> {"a"}, s2 |-> {}], [s1 |-> {"a"}, s2 |-> {"b"}] >>
MCServiceResources == [s1 |-> {"vm"}, s2 |-> {"vm"}]
MCDescriptor ==
    LET Of(type, stage, r) ==
            [valueType |-> type, launchStage |-> stage, resources |-> {r}]
    IN  [a |-> Of("INT64", "GA", "vm"), b |-> Of("DOUBLE", "BETA", "vm"),
         c |-> Of("INT64", "ALPHA", "queue"), d |-> Of("INT64", "GA", "queue")]
MCListed == [p1 |-> {"a", "b", "c", "d"}, p2 |-> {"b"}]
=============================================================================
