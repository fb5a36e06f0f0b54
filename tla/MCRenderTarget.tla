---------------------------- MODULE MCRenderTarget ----------------------------
(***************************************************************************)
(* Two pixels, limits below, inside and above the range of a count.        *)
(***************************************************************************)
EXTENDS RenderTarget, TLC

ViewsOf  == {[p \in 1..2 |-> IF p = 1 THEN 1 ELSE 4]}
LimitsOf == {-1, 1, 4}

(***************************************************************************)
(* Kernel 2 does anything; kernel 3, which runs after it into the same     *)
(* buffer, is right or writes nothing.                                     *)
(***************************************************************************)
FaultsOf ==
  {f \in [0..3 -> [1..2 -> Deeds]] :
     \A p \in 1..2 : f[0][p] = "counts" /\ f[1][p] = "counts" /\ f[3][p] = f[3][1]
                      /\ f[3][p] # "miscounts"}

Hues == Permutations(Palettes)
=============================================================================
