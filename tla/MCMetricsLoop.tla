--------------------------- MODULE MCMetricsLoop ---------------------------
(***************************************************************************)
(* Bounds of MetricsLoop for TLC: the ratios of the thresholds matter, not *)
(* their size, so a minute is four ticks of half a second.                 *)
(***************************************************************************)
EXTENDS MetricsLoop

MCPreparations == {0, 1}
MCDurations == {0, 4, 6}
MCSlowDurations == {7, 10, 14}
MCJitter == {0, 1}
MCJumps == {-30, -5, -3, 3, 5, 40}
=============================================================================
