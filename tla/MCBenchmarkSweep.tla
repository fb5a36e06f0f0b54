--------------------------- MODULE MCBenchmarkSweep ---------------------------
(***************************************************************************)
(* The sweep model-checked: numbers typed into the warm-up slider, below,  *)
(* inside and above its range.                                             *)
(***************************************************************************)
EXTENDS BenchmarkSweep

TypedWarmups == {-1, 0, 2, 7}
=============================================================================
