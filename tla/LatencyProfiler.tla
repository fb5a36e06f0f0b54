---------------------------- MODULE LatencyProfiler ----------------------------
(***************************************************************************)
(* The rolling window of latency samples (src/src/profiler.hpp,            *)
(* LatencyProfiler): a ring of Capacity cells.  Compute copies the cells   *)
(* from 0 to size - 1 in the order of the cells, not of the samples, and   *)
(* sorts the copy, so what matters is which cells it reads; the windows    *)
(* the ring can hold are the inputs of the statistics.                     *)
(***************************************************************************)
EXTENDS LatencyStats

CONSTANTS
  Capacity,
  Samples,   \* the latencies
  Trims,     \* the trim fractions, in percent
  MaxPushes  \* bound: Push calls

ASSUME ProfilerAssumption ==
  /\ Capacity \in Nat /\ Capacity >= 2
  /\ Samples \subseteq Nat /\ Trims \subseteq Nat
  /\ MaxPushes \in Nat

VARIABLES
  samples,      \* the cells; a cell never written holds NoSample
  head,         \* the next cell to write
  size,         \* the number of samples in the window
  total_pushed, \* the pushes since the last reset
  pushes        \* history: all pushes

vars == <<samples, head, size, total_pushed, pushes>>

Cells == 0..(Capacity - 1)

(***************************************************************************)
(* The zero that `samples_{}` puts into every cell.                        *)
(***************************************************************************)
NoSample == 0

Init ==
  /\ samples = [c \in Cells |-> NoSample]
  /\ head = 0
  /\ size = 0
  /\ total_pushed = 0
  /\ pushes = 0

ResetKeepsHead ==
  /\ size' = 0
  /\ total_pushed' = 0
  /\ UNCHANGED <<samples, head, pushes>>

Reset ==
  /\ head' = 0
  /\ size' = 0
  /\ total_pushed' = 0
  /\ UNCHANGED <<samples, pushes>>

PushSaturated(s) ==
  /\ pushes < MaxPushes
  /\ samples' = [samples EXCEPT ![head] = s]
  /\ head' = IF head + 1 < Capacity THEN head + 1 ELSE head
  /\ size' = IF size < Capacity THEN size + 1 ELSE size
  /\ total_pushed' = total_pushed + 1
  /\ pushes' = pushes + 1

Push(s) ==
  /\ pushes < MaxPushes
  /\ samples' = [samples EXCEPT ![head] = s]
  /\ head' = (head + 1) % Capacity
  /\ size' = IF size < Capacity THEN size + 1 ELSE size
  /\ total_pushed' = total_pushed + 1
  /\ pushes' = pushes + 1

Next == Reset \/ \E s \in Samples : Push(s)

Spec == Init /\ [][Next]_vars

(***************************************************************************)
(* The cells Compute copies, and the cell of the i-th oldest sample.       *)
(***************************************************************************)
LiveCells == 0..(size - 1)
Live      == [i \in 1..size |-> samples[i - 1]]

CellOf(i) == LET c == head - size + i - 1 IN IF c < 0 THEN c + Capacity ELSE c
Newest    == [i \in 1..size |-> samples[CellOf(i)]]
-----------------------------------------------------------------------------
TypeOK ==
  /\ samples \in [Cells -> Samples \cup {NoSample}]
  /\ head \in Cells
  /\ size \in 0..Capacity
  /\ total_pushed \in size..pushes
  /\ pushes \in 0..MaxPushes

(***************************************************************************)
(* Compute reads the cells of the window, each once: no cell left over     *)
(* from before a reset and no cell skipped, although it never looks at     *)
(* head (src/src/profiler.hpp:123, "Copy the live window").                *)
(***************************************************************************)
ReadsTheWindow == LiveCells = {CellOf(i) : i \in 1..size}

(***************************************************************************)
(* The ring implements the window of the newest samples ("Overwrites the   *)
(* oldest sample once full", src/src/profiler.hpp:96).                     *)
(***************************************************************************)
Window == INSTANCE SampleWindow WITH window <- Newest
WindowSpec == Window!Spec

(***************************************************************************)
(* Every statistic of the window is its definition, counted on the         *)
(* unsorted window: the percentiles by the samples on either side of them  *)
(* (PercentilesFit), and the two-pass variance as the mean squared         *)
(* difference of two samples, for the window and for what the trim leaves  *)
(* of it ("Two-pass variance", src/src/profiler.hpp:194).                  *)
(***************************************************************************)
StatisticsByDefinition ==
  size > 0 => \A trim \in Trims :
    LET c == Compute(Live, trim)
    IN  PercentilesFit(Live, c) /\ DeviationFits(Live, c)

(***************************************************************************)
(* The trim is an upper-tail trim that leaves a variance defined: two      *)
(* samples survive whatever the fraction, the mean never rises, and when   *)
(* anything is dropped a slowest sample may be any slower without moving   *)
(* the trimmed mean ("Upper-tail trim ... always keeping at least two      *)
(* samples", src/src/profiler.hpp:145).                                    *)
(***************************************************************************)
TrimDropsTheSlowest ==
  size > 0 => \A trim \in Trims : TrimFits(Live, trim, Compute(Live, trim))

(***************************************************************************)
(* The inductive invariant: until the ring is full the head is where the   *)
(* window ends.                                                            *)
(***************************************************************************)
RingInv == TypeOK /\ (size < Capacity => head = size)
=============================================================================
