----------------------------- MODULE SampleWindow -----------------------------
(***************************************************************************)
(* What a LatencyProfiler promises its user: a window of the newest        *)
(* Capacity samples pushed since the last reset, oldest first              *)
(* (src/src/profiler.hpp, "Fixed-capacity rolling sample window").         *)
(***************************************************************************)
EXTENDS Naturals, Sequences

CONSTANTS Capacity, Samples

VARIABLE window

Pushed(w, s) == IF Len(w) < Capacity THEN Append(w, s) ELSE Append(Tail(w), s)

Init    == window = <<>>
Push(s) == window' = Pushed(window, s)
Reset   == window' = <<>>
Next    == Reset \/ \E s \in Samples : Push(s)
Spec    == Init /\ [][Next]_window
=============================================================================
