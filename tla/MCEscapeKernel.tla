---------------------------- MODULE MCEscapeKernel ----------------------------
(***************************************************************************)
(* The kernels by their lanes: the scalar one, the four of NEON and the    *)
(* eight of AVX2 scaled down to one, two and four.                         *)
(***************************************************************************)
EXTENDS EscapeKernel

LanesOf == [k \in {"scalar", "neon", "avx2"} |->
              CASE k = "scalar" -> 1 [] k = "neon" -> 2 [] k = "avx2" -> 4]
=============================================================================
