--------------------------- MODULE MCAnalyzerCache ---------------------------
(***************************************************************************)
(* A small instance of AnalyzerCache: one caller beside the reload loop,   *)
(* capacity two (the smallest the configuration allows) and three bundles, *)
(* so that one of them always has to wait or to evict another.             *)
(***************************************************************************)
EXTENDS AnalyzerCache, TLC

CONSTANTS c1, b1, b2, b3

=============================================================================
