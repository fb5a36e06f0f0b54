---------------------------- MODULE BenchmarkSweep ----------------------------
(***************************************************************************)
(* The statistical sweep (src/src/main.cpp, class BenchmarkSweep): every   *)
(* available kernel in turn renders warm-up frames that are thrown away,   *)
(* then frames whose latency is sampled, a few per displayed frame.        *)
(* A sample is not its latency but what was measured: the kernel, the job  *)
(* and which of the kernel's frames in this sweep it was.                  *)
(***************************************************************************)
EXTENDS Integers, Sequences, FiniteSets

CONSTANTS
  KernelCount,     \* the registered kernels are 0 .. KernelCount - 1
  Available,       \* those that can run on this machine
  Jobs,            \* the parameters and thread count a sweep may be started with
  MaxWarmup,       \* 512
  MinSamples,      \* kCltMinSamples
  SampleCapacity,  \* kSampleCapacity
  WarmupInputs,    \* what the sliders return; a typed number ignores their range
  SampleInputs,
  DefaultWarmup,   \* the targets App::Init configures
  DefaultSamples,
  NoJob,           \* the job before the first Start
  MaxSweeps        \* bound: Start calls

Kernels == 0..(KernelCount - 1)

ASSUME SweepAssumption ==
  /\ KernelCount \in Nat /\ Available \subseteq Kernels
  /\ MaxWarmup \in Nat /\ MaxSweeps \in Nat
  /\ MinSamples \in Nat \ {0}
  /\ SampleCapacity \in Nat /\ SampleCapacity >= MinSamples
  /\ WarmupInputs \subseteq Int /\ SampleInputs \subseteq Int
  /\ DefaultWarmup \in Int /\ DefaultSamples \in Int

VARIABLES
  phase,         \* "Idle", "Warmup" or "Sampling"
  kernel,        \* the kernel being measured
  completed,     \* its frames in this phase
  warmup_target,
  sample_target,
  any_results,
  job,           \* params_ and thread_count_
  profilers,     \* the window of samples of each kernel
  stats,         \* the window each statistics block was computed from
  has_stats,
  stepping,      \* inside Step
  sweeps,        \* history: the Start calls
  plan,          \* history: the targets the sweep was started with
  frames         \* history: the frames of the current kernel in this sweep

sweepVars == <<phase, kernel, completed, warmup_target, sample_target, any_results,
               job, profilers, stats, has_stats, stepping, sweeps, plan, frames>>

Window == INSTANCE SampleWindow
            WITH Capacity <- SampleCapacity, Samples <- {}, window <- profilers

SweepRunning == phase \in {"Warmup", "Sampling"}

Clamp(n, lo, hi) == IF n < lo THEN lo ELSE IF n > hi THEN hi ELSE n

-----------------------------------------------------------------------------
Init ==
  /\ phase = "Idle" /\ kernel = 0 /\ completed = 0
  /\ warmup_target = Clamp(DefaultWarmup, 0, MaxWarmup)
  /\ sample_target = Clamp(DefaultSamples, MinSamples, SampleCapacity)
  /\ any_results = FALSE
  /\ job = NoJob
  /\ profilers = [k \in Kernels |-> <<>>]
  /\ stats = [k \in Kernels |-> <<>>]
  /\ has_stats = [k \in Kernels |-> FALSE]
  /\ stepping = FALSE
  /\ sweeps = 0 /\ plan = <<0, 0>> /\ frames = 0

(***************************************************************************)
(* The sliders are disabled while a sweep runs.                            *)
(***************************************************************************)
Configure(w, s) ==
  /\ ~stepping
  /\ ~SweepRunning
  /\ warmup_target' = Clamp(w, 0, MaxWarmup)
  /\ sample_target' = Clamp(s, MinSamples, SampleCapacity)
  /\ UNCHANGED <<phase, kernel, completed, any_results, job, profilers, stats,
                 has_stats, stepping, sweeps, plan, frames>>

(***************************************************************************)
(* AdvanceToNextRunnableKernel from kernel k: the first available kernel   *)
(* not before k, or the end of the registry and of the sweep.              *)
(***************************************************************************)
AdvanceAnyKernel(k) ==
  /\ kernel' = k
  /\ phase' = IF k < KernelCount THEN "Warmup" ELSE "Idle"

AdvanceStopsEarly(k) ==
  /\ kernel' = k
  /\ phase' = IF k \in Available THEN "Warmup" ELSE "Idle"

Advance(k) ==
  LET rest == {i \in Available : i >= k}
      next == IF rest = {} THEN KernelCount ELSE CHOOSE i \in rest : \A j \in rest : i <= j
  IN  /\ kernel' = next
      /\ phase' = IF rest = {} THEN "Idle" ELSE "Warmup"

StartKeepsSamples(j) ==
  /\ ~stepping /\ ~SweepRunning /\ sweeps < MaxSweeps
  /\ job' = j
  /\ completed' = 0
  /\ any_results' = FALSE
  /\ has_stats' = [k \in Kernels |-> FALSE]
  /\ Advance(0)
  /\ sweeps' = sweeps + 1 /\ plan' = <<warmup_target, sample_target>> /\ frames' = 0
  /\ UNCHANGED <<warmup_target, sample_target, profilers, stats, stepping>>

Start(j) ==
  /\ ~stepping /\ ~SweepRunning /\ sweeps < MaxSweeps
  /\ job' = j
  /\ completed' = 0
  /\ any_results' = FALSE
  /\ profilers' = [k \in Kernels |-> <<>>]
  /\ has_stats' = [k \in Kernels |-> FALSE]
  /\ Advance(0)
  /\ sweeps' = sweeps + 1 /\ plan' = <<warmup_target, sample_target>> /\ frames' = 0
  /\ UNCHANGED <<warmup_target, sample_target, stats, stepping>>

Cancel ==
  /\ ~stepping /\ SweepRunning
  /\ phase' = "Idle"
  /\ UNCHANGED <<kernel, completed, warmup_target, sample_target, any_results, job,
                 profilers, stats, has_stats, stepping, sweeps, plan, frames>>

(***************************************************************************)
(* Step runs frames until its budget is spent, which may be at any reading *)
(* of the clock, the first included, or the sweep ends.  The test for a    *)
(* kernel past the registry is left out: RunnableKernel shows it never     *)
(* holds.                                                                  *)
(***************************************************************************)
StepBegin ==
  /\ ~stepping /\ SweepRunning
  /\ stepping' = TRUE
  /\ UNCHANGED <<phase, kernel, completed, warmup_target, sample_target, any_results,
                 job, profilers, stats, has_stats, sweeps, plan, frames>>

StepReturn ==
  /\ stepping
  /\ stepping' = FALSE
  /\ UNCHANGED <<phase, kernel, completed, warmup_target, sample_target, any_results,
                 job, profilers, stats, has_stats, sweeps, plan, frames>>

StepWarmup ==
  /\ stepping /\ phase = "Warmup"
  /\ frames' = frames + 1
  /\ IF completed + 1 >= warmup_target
       THEN phase' = "Sampling" /\ completed' = 0
       ELSE completed' = completed + 1 /\ UNCHANGED phase
  /\ UNCHANGED <<kernel, warmup_target, sample_target, any_results, job, profilers,
                 stats, has_stats, stepping, sweeps, plan>>

(***************************************************************************)
(* The sample of the frame Step renders next.                              *)
(***************************************************************************)
Measured == [kernel |-> kernel, job |-> job, sweep |-> sweeps, frame |-> frames + 1]

TakeSample ==
  /\ stepping /\ phase = "Sampling"
  /\ profilers' = [profilers EXCEPT ![kernel] = Window!Pushed(@, Measured)]

SampleMore ==
  /\ TakeSample
  /\ completed + 1 < sample_target
  /\ completed' = completed + 1
  /\ frames' = frames + 1
  /\ UNCHANGED <<phase, kernel, warmup_target, sample_target, any_results, job, stats,
                 has_stats, stepping, sweeps, plan>>

SampleLastStays ==
  /\ TakeSample
  /\ completed + 1 >= sample_target
  /\ stats' = [stats EXCEPT ![kernel] = profilers'[kernel]]
  /\ has_stats' = [has_stats EXCEPT ![kernel] = TRUE]
  /\ any_results' = TRUE
  /\ completed' = 0
  /\ frames' = 0
  /\ Advance(kernel)
  /\ UNCHANGED <<warmup_target, sample_target, job, stepping, sweeps, plan>>

SampleLast ==
  /\ TakeSample
  /\ completed + 1 >= sample_target
  /\ stats' = [stats EXCEPT ![kernel] = profilers'[kernel]]
  /\ has_stats' = [has_stats EXCEPT ![kernel] = TRUE]
  /\ any_results' = TRUE
  /\ completed' = 0
  /\ frames' = 0
  /\ Advance(kernel + 1)
  /\ UNCHANGED <<warmup_target, sample_target, job, stepping, sweeps, plan>>

StepFrame == StepWarmup \/ SampleMore \/ SampleLast

SweepControl ==
  \/ \E w \in WarmupInputs, s \in SampleInputs : Configure(w, s)
  \/ \E j \in Jobs : Start(j)
  \/ Cancel

Next == SweepControl \/ StepBegin \/ StepFrame \/ StepReturn

(***************************************************************************)
(* Step is called in every displayed frame and returns.  The clock may     *)
(* find the budget spent at any reading, but a Step that is entered again  *)
(* and again does not find it spent at the first one for ever.             *)
(***************************************************************************)
Fairness == WF_sweepVars(StepBegin) /\ SF_sweepVars(StepFrame) /\ WF_sweepVars(StepReturn)

Spec     == Init /\ [][Next]_sweepVars
FairSpec == Spec /\ Fairness
-----------------------------------------------------------------------------
Warmups == IF plan[1] < 1 THEN 1 ELSE plan[1]

Measurement(k) ==
  [n \in 1..plan[2] |-> [kernel |-> k, job |-> job, sweep |-> sweeps, frame |-> Warmups + n]]

TypeOK ==
  /\ phase \in {"Idle", "Warmup", "Sampling"}
  /\ kernel \in 0..KernelCount
  /\ warmup_target \in 0..MaxWarmup
  /\ sample_target \in MinSamples..SampleCapacity
  /\ completed \in 0..(MaxWarmup + SampleCapacity)
  /\ any_results \in BOOLEAN /\ stepping \in BOOLEAN
  /\ job \in Jobs \cup {NoJob}
  /\ has_stats \in [Kernels -> BOOLEAN]

(***************************************************************************)
(* Every statistics block there is comes from the sweep last started: from *)
(* its job and kernel, from all the samples it was to take and in order,   *)
(* and from no warm-up frame, cancelled sweep or other kernel.  That makes *)
(* the speedups comparable (src/README.md:435, "back to back on identical  *)
(* parameters").                                                           *)
(***************************************************************************)
StatsAreTheSweeps ==
  /\ \A k \in Kernels : has_stats[k] => k \in Available /\ stats[k] = Measurement(k)
  /\ any_results = \E k \in Kernels : has_stats[k]

(***************************************************************************)
(* While the sweep runs it is at an available kernel, every available one  *)
(* before it is done and none after it is.                                 *)
(***************************************************************************)
RunnableKernel ==
  SweepRunning =>
    /\ kernel \in Available
    /\ \A k \in Available : has_stats[k] <=> k < kernel

(***************************************************************************)
(* No order of configuring, starting, cancelling and stepping, whatever is *)
(* typed into the sliders, takes the sweep past the registry, to a kernel  *)
(* that cannot run, or to a target its profilers cannot hold               *)
(* (AdvanceToNextRunnableKernel, Configure).                               *)
(***************************************************************************)
SweepInRange == TypeOK /\ RunnableKernel

(***************************************************************************)
(* A sweep stops of itself only when every available kernel has its        *)
(* statistics.                                                             *)
(***************************************************************************)
StopsWhenDone ==
  [][stepping /\ SweepRunning /\ ~SweepRunning' => \A k \in Available : has_stats'[k]]_sweepVars

(***************************************************************************)
(* The progress bar (src/src/main.cpp:194): the fraction Done / Total.     *)
(***************************************************************************)
PerKernel == warmup_target + sample_target
Total     == Cardinality(Available) * PerKernel
DoneWithCurrent ==
  Cardinality({k \in Available : k <= kernel}) * PerKernel
    + completed + (IF phase = "Sampling" THEN warmup_target ELSE 0)

Done      == Cardinality({k \in Available : k < kernel}) * PerKernel
             + completed + (IF phase = "Sampling" THEN warmup_target ELSE 0)

(***************************************************************************)
(* While a sweep runs its progress stays within the bar.                   *)
(***************************************************************************)
ProgressInBar == SweepRunning => 0 <= Done /\ Done < Total

(***************************************************************************)
(* A sweep ends.                                                           *)
(***************************************************************************)
SweepEnds == SweepRunning ~> ~SweepRunning
=============================================================================
