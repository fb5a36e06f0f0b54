------------------------- MODULE BenchmarkSweepProofs -------------------------
(***************************************************************************)
(* The results of the sweep are those of the sweep last started, complete  *)
(* and in order, for every registry, target and number of sweeps.          *)
(***************************************************************************)
EXTENDS BenchmarkSweep, FiniteSetTheorems, SequenceTheorems, WellFoundedInduction, TLAPS

(***************************************************************************)
(* The first n of the measurements of kernel k.                            *)
(***************************************************************************)
Partial(k, n) ==
  [i \in 1..n |-> [kernel |-> k, job |-> job, sweep |-> sweeps, frame |-> Warmups + i]]

Types ==
  /\ phase \in {"Idle", "Warmup", "Sampling"}
  /\ kernel \in 0..KernelCount
  /\ warmup_target \in 0..MaxWarmup
  /\ sample_target \in MinSamples..SampleCapacity
  /\ completed \in 0..(MaxWarmup + SampleCapacity)
  /\ any_results \in BOOLEAN /\ stepping \in BOOLEAN
  /\ job \in Jobs \cup {NoJob}
  /\ has_stats \in [Kernels -> BOOLEAN]
  /\ DOMAIN stats = Kernels /\ DOMAIN profilers = Kernels
  /\ stats = [k \in Kernels |-> stats[k]]
  /\ profilers = [k \in Kernels |-> profilers[k]]
  /\ frames \in Nat

(***************************************************************************)
(* While the sweep runs its plan is the configured one, and the count of   *)
(* the phase, the frames and the samples agree.                            *)
(***************************************************************************)
Counted ==
  SweepRunning =>
    /\ plan = <<warmup_target, sample_target>>
    /\ phase = "Warmup" =>
         completed = frames /\ (completed < warmup_target \/ completed = 0)
    /\ phase = "Sampling" =>
         completed < sample_target /\ frames = Warmups + completed

(***************************************************************************)
(* The kernel being measured has the samples taken so far, those after it  *)
(* none.                                                                   *)
(***************************************************************************)
Sampled ==
  SweepRunning =>
    /\ profilers[kernel] = IF phase = "Sampling" THEN Partial(kernel, completed) ELSE <<>>
    /\ \A k \in Kernels : k > kernel => profilers[k] = <<>>

SweepInv == Types /\ Counted /\ Sampled /\ StatsAreTheSweeps /\ RunnableKernel

LEMMA LeastAvailable ==
  ASSUME NEW rest \in SUBSET Nat, rest # {}
  PROVE  \E i \in rest : \A j \in rest : i <= j
<1>1. PICK i \in rest : \A j \in rest : ~(<<j, i>> \in OpToRel(<, Nat))
  BY NatLessThanWellFounded, WFMin
<1>2. \A j \in rest : ~(j < i)
  BY <1>1 DEF OpToRel
<1> QED
  BY <1>2

(***************************************************************************)
(* AdvanceToNextRunnableKernel finds the next available kernel, or none is *)
(* left.                                                                   *)
(***************************************************************************)
LEMMA AdvanceFinds ==
  ASSUME NEW k \in 0..KernelCount, Advance(k)
  PROVE  \/ /\ phase' = "Warmup"
            /\ kernel' \in Available /\ kernel' >= k
            /\ \A i \in Available : i >= k => kernel' <= i
         \/ /\ phase' = "Idle"
            /\ kernel' = KernelCount
            /\ \A i \in Available : i < k
<1> DEFINE rest == {i \in Available : i >= k}
<1>1. rest \in SUBSET Nat /\ Available \subseteq Nat /\ k \in Nat
  <2>1. Kernels \subseteq Nat /\ Available \subseteq Kernels /\ KernelCount \in Nat
    BY SweepAssumption DEF Kernels
  <2>2. k \in Nat
    BY <2>1
  <2>3. Available \subseteq Nat /\ rest \subseteq Available
    BY <2>1
  <2> QED
    BY <2>2, <2>3
<1>2. CASE rest = {}
  BY <1>1, <1>2 DEF Advance
<1>3. CASE rest # {}
  <2>1. \E i \in rest : \A j \in rest : i <= j
    BY <1>1, <1>3, LeastAvailable
  <2>2. kernel' \in rest /\ (\A j \in rest : kernel' <= j) /\ phase' = "Warmup"
    BY <1>3, <2>1 DEF Advance
  <2> QED
    BY <2>2
<1> QED
  BY <1>2, <1>3

LEMMA InitSweep == Init => SweepInv
<1> SUFFICES ASSUME Init PROVE SweepInv
  OBVIOUS
<1>0. /\ KernelCount \in Nat /\ MaxWarmup \in Nat
      /\ MinSamples \in Nat /\ SampleCapacity \in Nat /\ SampleCapacity >= MinSamples
      /\ DefaultWarmup \in Int /\ DefaultSamples \in Int
  BY SweepAssumption
<1>1. Types
  <2>1. /\ Clamp(DefaultWarmup, 0, MaxWarmup) \in 0..MaxWarmup
        /\ Clamp(DefaultSamples, MinSamples, SampleCapacity) \in MinSamples..SampleCapacity
    BY <1>0 DEF Clamp
  <2>2. 0 \in 0..KernelCount /\ 0 \in 0..(MaxWarmup + SampleCapacity) /\ 0 \in Nat
    BY <1>0
  <2> QED
    BY <2>1, <2>2 DEF Init, Types
<1>2. Counted /\ Sampled /\ RunnableKernel
  BY DEF Init, Counted, Sampled, RunnableKernel, SweepRunning
<1>3. StatsAreTheSweeps
  BY DEF Init, StatsAreTheSweeps
<1> QED
  BY <1>1, <1>2, <1>3 DEF SweepInv

(***************************************************************************)
(* Pushing the next measurement extends the first n of them: the target is *)
(* within the capacity, so none is dropped.                                *)
(***************************************************************************)
LEMMA PushedExtends ==
  ASSUME NEW k, NEW n \in Nat, n < SampleCapacity
  PROVE  Window!Pushed(Partial(k, n),
           [kernel |-> k, job |-> job, sweep |-> sweeps, frame |-> Warmups + (n + 1)])
           = Partial(k, n + 1)
<1> DEFINE m(i) == [kernel |-> k, job |-> job, sweep |-> sweeps, frame |-> Warmups + i]
<1> HIDE DEF m
<1>1. Partial(k, n) = [i \in 1..n |-> m(i)] /\ Partial(k, n + 1) = [i \in 1..(n + 1) |-> m(i)]
  BY DEF Partial, m
<1> DEFINE range == {m(i) : i \in 1..(n + 1)}
<1>2. [i \in 1..n |-> m(i)] \in Seq(range) /\ Len([i \in 1..n |-> m(i)]) = n
  <2>1. [i \in 1..n |-> m(i)] \in [1..n -> range]
    OBVIOUS
  <2> QED
    BY <2>1, IsASeq, SeqDef
<1>3. m(n + 1) \in range
  OBVIOUS
<1>4. Append([i \in 1..n |-> m(i)], m(n + 1)) = [i \in 1..(n + 1) |-> m(i)]
  BY <1>2, <1>3
<1>5. Window!Pushed([i \in 1..n |-> m(i)], m(n + 1)) = [i \in 1..(n + 1) |-> m(i)]
  BY <1>2, <1>4 DEF Window!Pushed
<1> QED
  BY <1>1, <1>5 DEF m

LEMMA WarmupsType == ASSUME Types, Counted, SweepRunning PROVE Warmups \in Nat \ {0}
BY SweepAssumption DEF Types, Counted, Warmups

(***************************************************************************)
(* The steps of a sweep, each from the invariant.  Outside of Step and     *)
(* Start nothing that the results depend on changes.                       *)
(***************************************************************************)
LEMMA ConfigureInv ==
  ASSUME SweepInv, NEW w \in WarmupInputs, NEW s \in SampleInputs, Configure(w, s)
  PROVE  SweepInv'
<1>0. /\ MaxWarmup \in Nat /\ w \in Int /\ s \in Int
      /\ MinSamples \in Nat /\ SampleCapacity \in Nat /\ SampleCapacity >= MinSamples
  BY SweepAssumption
<1>1. ~SweepRunning /\ ~SweepRunning'
  BY DEF Configure, SweepRunning
<1>2. /\ warmup_target' \in 0..MaxWarmup
      /\ sample_target' \in MinSamples..SampleCapacity
  <2>1. /\ Clamp(w, 0, MaxWarmup) \in 0..MaxWarmup
        /\ Clamp(s, MinSamples, SampleCapacity) \in MinSamples..SampleCapacity
    BY <1>0 DEF Clamp
  <2> QED
    BY <2>1 DEF Configure
<1>3. Types'
  BY <1>2 DEF SweepInv, Types, Configure
<1>4. StatsAreTheSweeps'
  <2>1. Available' = Available /\ \A k : Measurement(k)' = Measurement(k)
    BY DEF Configure, Measurement, Warmups
  <2> QED
    BY <2>1 DEF SweepInv, StatsAreTheSweeps, Configure
<1> QED
  BY <1>1, <1>3, <1>4 DEF SweepInv, Counted, Sampled, RunnableKernel

LEMMA StartInv ==
  ASSUME SweepInv, NEW j \in Jobs, Start(j)
  PROVE  SweepInv'
<1>0. KernelCount \in Nat /\ Available \subseteq Kernels /\ MaxWarmup \in Nat
      /\ SampleCapacity \in Nat
  BY SweepAssumption
<1>1. \/ phase' = "Warmup" /\ kernel' \in Available /\ \A i \in Available : kernel' <= i
      \/ phase' = "Idle" /\ kernel' = KernelCount
  <2>1. 0 \in 0..KernelCount /\ Advance(0)
    BY <1>0 DEF Start
  <2>2. \A i \in Available : i >= 0
    BY <1>0 DEF Kernels
  <2> QED
    BY <2>1, <2>2, AdvanceFinds
<1>2. kernel' \in 0..KernelCount
  <2>1. \A i \in Kernels : i \in 0..KernelCount
    BY <1>0 DEF Kernels
  <2>2. KernelCount \in 0..KernelCount
    BY <1>0
  <2> QED
    BY <1>0, <1>1, <2>1, <2>2
<1>3. Types'
  <2>1. 0 \in 0..(MaxWarmup + SampleCapacity) /\ 0 \in Nat
    BY <1>0
  <2> QED
    BY <1>1, <1>2, <2>1 DEF SweepInv, Types, Start
<1>4. Counted'
  BY <1>1 DEF Start, Counted, SweepRunning
<1>5. Sampled'
  BY <1>0, <1>1 DEF Start, Sampled, SweepRunning
<1>6. StatsAreTheSweeps'
  BY DEF Start, StatsAreTheSweeps
<1>7. RunnableKernel'
  <2>1. SweepRunning' => kernel' \in Available /\ \A k \in Available : ~(k < kernel')
    BY <1>0, <1>1, <1>2 DEF SweepRunning, Kernels
  <2>2. \A k \in Available : ~has_stats'[k]
    BY <1>0 DEF Start
  <2> QED
    BY <2>1, <2>2 DEF RunnableKernel
<1> QED
  BY <1>3, <1>4, <1>5, <1>6, <1>7 DEF SweepInv

LEMMA CancelInv ==
  ASSUME SweepInv, Cancel
  PROVE  SweepInv'
<1>1. ~SweepRunning'
  BY DEF Cancel, SweepRunning
<1>2. Types'
  BY DEF SweepInv, Types, Cancel
<1>3. StatsAreTheSweeps'
  <2>1. \A k : Measurement(k)' = Measurement(k)
    BY DEF Cancel, Measurement, Warmups
  <2> QED
    BY <2>1 DEF SweepInv, StatsAreTheSweeps, Cancel
<1> QED
  BY <1>1, <1>2, <1>3 DEF SweepInv, Counted, Sampled, RunnableKernel

(***************************************************************************)
(* Entering and leaving Step changes stepping alone.                       *)
(***************************************************************************)
LEMMA SteppingInv ==
  ASSUME SweepInv, StepBegin \/ StepReturn \/ UNCHANGED sweepVars
  PROVE  SweepInv'
<1>1. /\ UNCHANGED <<phase, kernel, completed, warmup_target, sample_target, any_results>>
      /\ UNCHANGED <<job, profilers, stats, has_stats, sweeps, plan, frames>>
      /\ stepping' \in BOOLEAN
  BY DEF StepBegin, StepReturn, sweepVars, SweepInv, Types
<1>2. Types'
  BY <1>1 DEF SweepInv, Types
<1>3. /\ SweepRunning' = SweepRunning /\ Warmups' = Warmups
      /\ \A k : Measurement(k)' = Measurement(k)
      /\ \A k, n : Partial(k, n)' = Partial(k, n)
  BY <1>1 DEF SweepRunning, Warmups, Measurement, Partial
<1>4. Counted' /\ Sampled' /\ RunnableKernel'
  BY <1>1, <1>3 DEF SweepInv, Counted, Sampled, RunnableKernel
<1>5. StatsAreTheSweeps'
  BY <1>1, <1>3 DEF SweepInv, StatsAreTheSweeps
<1> QED
  BY <1>2, <1>4, <1>5 DEF SweepInv

(***************************************************************************)
(* A warm-up frame: the phase changes when its count reaches the target,   *)
(* after one frame at least.                                               *)
(***************************************************************************)
LEMMA WarmupInv ==
  ASSUME SweepInv, StepWarmup
  PROVE  SweepInv'
<1>0. /\ MaxWarmup \in Nat /\ MinSamples \in Nat \ {0} /\ SampleCapacity \in Nat
      /\ warmup_target \in Nat /\ completed \in Nat /\ frames \in Nat
      /\ warmup_target <= MaxWarmup /\ sample_target \in Nat /\ sample_target > 0
      /\ phase = "Warmup" /\ SweepRunning /\ SweepRunning'
      /\ completed = frames /\ (completed < warmup_target \/ completed = 0)
      /\ plan = <<warmup_target, sample_target>>
  <2>1. /\ MaxWarmup \in Nat /\ MinSamples \in Nat \ {0} /\ SampleCapacity \in Nat
    BY SweepAssumption
  <2>2. /\ warmup_target \in 0..MaxWarmup /\ sample_target \in MinSamples..SampleCapacity
        /\ completed \in 0..(MaxWarmup + SampleCapacity) /\ frames \in Nat
    BY DEF SweepInv, Types
  <2>3. phase = "Warmup" /\ SweepRunning /\ SweepRunning'
    BY DEF StepWarmup, SweepRunning
  <2> QED
    BY <2>1, <2>2, <2>3 DEF SweepInv, Counted
<1>1. /\ UNCHANGED <<kernel, warmup_target, sample_target, any_results, job>>
      /\ UNCHANGED <<profilers, stats, has_stats, stepping, sweeps, plan>>
      /\ frames' = frames + 1
  BY DEF StepWarmup
<1>2. /\ Warmups' = Warmups /\ Warmups = IF warmup_target < 1 THEN 1 ELSE warmup_target
      /\ \A k : Measurement(k)' = Measurement(k)
  BY <1>0, <1>1 DEF Warmups, Measurement
<1>3. \/ phase' = "Sampling" /\ completed' = 0 /\ frames' = Warmups
      \/ phase' = "Warmup" /\ completed' = frames' /\ completed' < warmup_target
  <2>1. CASE completed + 1 >= warmup_target
    <3>1. frames + 1 = Warmups
      BY <1>0, <1>2, <2>1
    <3> QED
      BY <1>1, <2>1, <3>1 DEF StepWarmup
  <2>2. CASE ~(completed + 1 >= warmup_target)
    <3>1. completed + 1 < warmup_target
      BY <1>0, <2>2
    <3> QED
      BY <1>0, <1>1, <2>2, <3>1 DEF StepWarmup
  <2> QED
    BY <2>1, <2>2
<1>4. Types'
  <2>1. completed' \in 0..(MaxWarmup + SampleCapacity) /\ frames' \in Nat
    <3>1. frames' \in Nat
      BY <1>0, <1>1
    <3> QED
      BY <1>0, <1>3, <3>1
  <2>2. phase' \in {"Warmup", "Sampling"}
    BY <1>3
  <2> QED
    BY <1>1, <2>1, <2>2 DEF SweepInv, Types
<1>5. Counted'
  BY <1>0, <1>1, <1>2, <1>3 DEF Counted
<1>6. Sampled'
  <2>1. profilers[kernel] = <<>> /\ \A k \in Kernels : k > kernel => profilers[k] = <<>>
    BY <1>0 DEF SweepInv, Sampled
  <2>2. Partial(kernel, 0) = <<>>
    <3>1. 1..0 = {}
      OBVIOUS
    <3> QED
      BY <3>1 DEF Partial
  <2>3. Partial(kernel, 0)' = Partial(kernel, 0)
    BY <1>1, <1>2 DEF Partial
  <2>4. phase' = "Sampling" => Partial(kernel, completed)' = <<>>
    <3>1. phase' = "Sampling" => Partial(kernel, completed)' = Partial(kernel, 0)'
      BY <1>1, <1>3 DEF Partial
    <3> QED
      BY <2>2, <2>3, <3>1
  <2> QED
    BY <1>1, <2>1, <2>4 DEF Sampled
<1>7. StatsAreTheSweeps'
  BY <1>1, <1>2 DEF SweepInv, StatsAreTheSweeps
<1>8. RunnableKernel'
  BY <1>0, <1>1 DEF SweepInv, RunnableKernel
<1> QED
  BY <1>4, <1>5, <1>6, <1>7, <1>8 DEF SweepInv

(***************************************************************************)
(* A sample leaves the kernel with one measurement more, the kernels after *)
(* it with none.                                                           *)
(***************************************************************************)
LEMMA SampleTaken ==
  ASSUME SweepInv, TakeSample, UNCHANGED <<job, sweeps, plan>>
  PROVE  /\ phase = "Sampling" /\ SweepRunning /\ stepping
         /\ kernel \in Available /\ kernel \in Kernels /\ kernel \in Nat
         /\ completed \in Nat /\ completed < sample_target /\ frames = Warmups + completed
         /\ plan = <<warmup_target, sample_target>> /\ Warmups \in Nat
         /\ sample_target \in MinSamples..SampleCapacity
         /\ DOMAIN profilers' = Kernels /\ profilers' = [k \in Kernels |-> profilers'[k]]
         /\ profilers'[kernel] = Partial(kernel, completed + 1)
         /\ \A k \in Kernels : k > kernel => profilers'[k] = <<>>
<1>1. phase = "Sampling" /\ SweepRunning /\ stepping
  BY DEF TakeSample, SweepRunning
<1>2. kernel \in Available /\ kernel \in Kernels /\ kernel \in Nat
  <2>1. Available \subseteq Kernels /\ KernelCount \in Nat
    BY SweepAssumption
  <2>2. kernel \in Available /\ kernel \in 0..KernelCount
    BY <1>1 DEF SweepInv, RunnableKernel, Types
  <2> QED
    BY <2>1, <2>2
<1>3. /\ completed \in Nat /\ completed < sample_target /\ frames = Warmups + completed
      /\ plan = <<warmup_target, sample_target>>
      /\ sample_target \in MinSamples..SampleCapacity
  <2>1. MaxWarmup \in Nat /\ SampleCapacity \in Nat
    BY SweepAssumption
  <2>2. completed \in 0..(MaxWarmup + SampleCapacity)
    BY DEF SweepInv, Types
  <2>3. completed \in Nat
    BY <2>1, <2>2
  <2> QED
    BY <1>1, <2>3 DEF SweepInv, Types, Counted
<1>4. Warmups \in Nat
  BY <1>1, WarmupsType DEF SweepInv
<1>5. completed < SampleCapacity
  BY <1>3, SweepAssumption
<1>6. profilers[kernel] = Partial(kernel, completed)
      /\ \A k \in Kernels : k > kernel => profilers[k] = <<>>
  BY <1>1 DEF SweepInv, Sampled
<1>7. Measured = [kernel |-> kernel, job |-> job, sweep |-> sweeps,
                  frame |-> Warmups + (completed + 1)]
  <2>1. frames + 1 = Warmups + (completed + 1)
    BY <1>3, <1>4
  <2> QED
    BY <2>1 DEF Measured
<1>8. Window!Pushed(profilers[kernel], Measured) = Partial(kernel, completed + 1)
  BY <1>3, <1>5, <1>6, <1>7, PushedExtends
<1>9. profilers' = [profilers EXCEPT ![kernel] = Window!Pushed(profilers[kernel], Measured)]
  BY DEF TakeSample
<1>10. DOMAIN profilers = Kernels
  BY DEF SweepInv, Types
<1>11. DOMAIN profilers' = Kernels /\ profilers' = [k \in Kernels |-> profilers'[k]]
  BY <1>9, <1>10
<1>12. profilers'[kernel] = Partial(kernel, completed + 1)
  BY <1>2, <1>8, <1>9, <1>10
<1>13. \A k \in Kernels : k > kernel => profilers'[k] = <<>>
  <2> SUFFICES ASSUME NEW k \in Kernels, k > kernel PROVE profilers'[k] = <<>>
    OBVIOUS
  <2>1. k # kernel
    BY <1>2
  <2> QED
    BY <1>6, <1>9, <1>10, <2>1
<1> QED
  BY <1>1, <1>2, <1>3, <1>4, <1>11, <1>12, <1>13

LEMMA SampleMoreInv ==
  ASSUME SweepInv, SampleMore
  PROVE  SweepInv'
<1>1. /\ UNCHANGED <<phase, kernel, warmup_target, sample_target, any_results, job, stats>>
      /\ UNCHANGED <<has_stats, stepping, sweeps, plan>>
      /\ completed' = completed + 1 /\ frames' = frames + 1
      /\ completed + 1 < sample_target
      /\ TakeSample
  BY DEF SampleMore
<1>2. /\ phase = "Sampling" /\ SweepRunning /\ SweepRunning'
      /\ kernel \in Kernels
      /\ completed \in Nat /\ frames = Warmups + completed
      /\ plan = <<warmup_target, sample_target>> /\ Warmups \in Nat
      /\ sample_target \in MinSamples..SampleCapacity
      /\ DOMAIN profilers' = Kernels /\ profilers' = [k \in Kernels |-> profilers'[k]]
      /\ profilers'[kernel] = Partial(kernel, completed + 1)
      /\ \A k \in Kernels : k > kernel => profilers'[k] = <<>>
  BY <1>1, SampleTaken DEF SweepRunning
<1>3. /\ Warmups' = Warmups
      /\ \A k : Measurement(k)' = Measurement(k)
      /\ Partial(kernel, completed)' = Partial(kernel, completed + 1)
  BY <1>1 DEF Warmups, Measurement, Partial
<1>4. Types'
  <2>1. completed' \in 0..(MaxWarmup + SampleCapacity) /\ frames' \in Nat
    <3>1. MaxWarmup \in Nat /\ SampleCapacity \in Nat /\ MinSamples \in Nat
      BY SweepAssumption
    <3> QED
      BY <1>1, <1>2, <3>1
  <2> QED
    BY <1>1, <1>2, <2>1 DEF SweepInv, Types
<1>5. Counted'
  <2>1. frames' = Warmups + completed' /\ completed' < sample_target
    BY <1>1, <1>2
  <2> QED
    BY <1>1, <1>2, <1>3, <2>1 DEF Counted
<1>6. Sampled'
  BY <1>1, <1>2, <1>3 DEF Sampled
<1>7. StatsAreTheSweeps'
  BY <1>1, <1>3 DEF SweepInv, StatsAreTheSweeps
<1>8. RunnableKernel'
  BY <1>1, <1>2 DEF SweepInv, RunnableKernel
<1> QED
  BY <1>4, <1>5, <1>6, <1>7, <1>8 DEF SweepInv

(***************************************************************************)
(* The last sample of a kernel completes its measurement and moves on.     *)
(***************************************************************************)
LEMMA SampleLastMoves ==
  ASSUME SweepInv, SampleLast
  PROVE  \/ /\ phase' = "Warmup"
            /\ kernel' \in Available /\ kernel' > kernel
            /\ \A i \in Available : i > kernel => kernel' <= i
         \/ /\ phase' = "Idle"
            /\ kernel' = KernelCount
            /\ \A i \in Available : i <= kernel
<1>1. kernel \in Kernels /\ KernelCount \in Nat /\ Available \subseteq Kernels
  BY SampleTaken, SweepAssumption DEF SampleLast
<1>2. kernel + 1 \in 0..KernelCount /\ kernel \in Nat
  BY <1>1 DEF Kernels
<1>3. Advance(kernel + 1)
  BY DEF SampleLast
<1>4. \A i \in Kernels : (i >= kernel + 1 <=> i > kernel) /\ (i < kernel + 1 <=> i <= kernel)
  BY <1>1, <1>2 DEF Kernels
<1>5. \/ /\ phase' = "Warmup"
          /\ kernel' \in Available /\ kernel' >= kernel + 1
          /\ \A i \in Available : i >= kernel + 1 => kernel' <= i
      \/ /\ phase' = "Idle"
          /\ kernel' = KernelCount
          /\ \A i \in Available : i < kernel + 1
  BY <1>2, <1>3, AdvanceFinds
<1> QED
  BY <1>1, <1>4, <1>5

LEMMA SampleLastInv ==
  ASSUME SweepInv, SampleLast
  PROVE  SweepInv'
<1>1. /\ UNCHANGED <<warmup_target, sample_target, job, stepping, sweeps, plan>>
      /\ completed' = 0 /\ frames' = 0
      /\ completed + 1 >= sample_target
      /\ any_results' = TRUE
      /\ stats' = [stats EXCEPT ![kernel] = profilers'[kernel]]
      /\ has_stats' = [has_stats EXCEPT ![kernel] = TRUE]
      /\ TakeSample
  BY DEF SampleLast
<1>2. /\ phase = "Sampling" /\ SweepRunning /\ kernel \in Nat
      /\ kernel \in Available /\ kernel \in Kernels
      /\ completed \in Nat /\ completed < sample_target
      /\ plan = <<warmup_target, sample_target>>
      /\ sample_target \in MinSamples..SampleCapacity
      /\ DOMAIN profilers' = Kernels /\ profilers' = [k \in Kernels |-> profilers'[k]]
      /\ profilers'[kernel] = Partial(kernel, completed + 1)
      /\ \A k \in Kernels : k > kernel => profilers'[k] = <<>>
  BY <1>1, SampleTaken
<1>3. KernelCount \in Nat /\ Available \subseteq Kernels /\ MaxWarmup \in Nat
      /\ SampleCapacity \in Nat /\ MinSamples \in Nat
  BY SweepAssumption
<1>4. \A i \in Kernels : i \in Nat /\ i \in 0..KernelCount /\ i < KernelCount
  BY <1>3 DEF Kernels
<1>5. /\ kernel' \in 0..KernelCount
      /\ phase' \in {"Warmup", "Idle"}
      /\ phase' = "Warmup" => kernel' > kernel /\ kernel' \in Kernels /\ kernel' \in Available
  BY <1>3, <1>4, SampleLastMoves
<1>6. Types'
  <2>1. 0 \in 0..(MaxWarmup + SampleCapacity) /\ 0 \in Nat
    BY <1>3
  <2>2. /\ stats' = [k \in Kernels |-> stats'[k]] /\ DOMAIN stats' = Kernels
        /\ has_stats' \in [Kernels -> BOOLEAN]
    BY <1>1 DEF SweepInv, Types
  <2> QED
    BY <1>1, <1>2, <1>5, <2>1, <2>2 DEF SweepInv, Types
<1>7. Counted'
  BY <1>1, <1>2, <1>5 DEF Counted, SweepRunning
<1>8. Sampled'
  <2> SUFFICES ASSUME SweepRunning'
      PROVE  /\ profilers'[kernel'] = <<>>
             /\ \A k \in Kernels : k > kernel' => profilers'[k] = <<>>
    BY <1>5 DEF Sampled, SweepRunning
  <2>1. kernel' > kernel /\ kernel' \in Kernels
    BY <1>5 DEF SweepRunning
  <2>2. \A k \in Kernels : k > kernel' => k > kernel
    BY <1>2, <1>4, <2>1
  <2> QED
    BY <1>2, <2>1, <2>2
<1>9. StatsAreTheSweeps'
  <2>1. \A k : Measurement(k)' = Measurement(k)
    BY <1>1 DEF Measurement, Warmups
  <2>2. completed + 1 = plan[2]
    BY <1>1, <1>2, <1>3
  <2>3. Partial(kernel, completed + 1) = Measurement(kernel)
    BY <2>2 DEF Partial, Measurement
  <2>4. \A k \in Kernels : has_stats'[k] => k \in Available /\ stats'[k] = Measurement(k)
    BY <1>1, <1>2, <2>3 DEF SweepInv, StatsAreTheSweeps, Types
  <2>5. has_stats'[kernel]
    BY <1>1, <1>2 DEF SweepInv, Types
  <2>6. any_results' = \E k \in Kernels : has_stats'[k]
    BY <1>1, <1>2, <2>5
  <2> QED
    BY <2>1, <2>4, <2>6 DEF StatsAreTheSweeps
<1>10. RunnableKernel'
  <2> SUFFICES ASSUME phase' = "Warmup", NEW k \in Available
      PROVE  kernel' \in Available /\ (has_stats'[k] <=> k < kernel')
    BY <1>5 DEF RunnableKernel, SweepRunning
  <2>1. /\ kernel' \in Available /\ kernel' > kernel
        /\ \A i \in Available : i > kernel => kernel' <= i
    BY SampleLastMoves
  <2>2. k \in Kernels /\ k \in Nat /\ kernel' \in Nat
    BY <1>3, <1>4, <2>1
  <2>3. has_stats'[k] <=> (has_stats[k] \/ k = kernel)
    BY <1>1, <1>2, <2>2 DEF SweepInv, Types
  <2>4. has_stats[k] <=> k < kernel
    BY <1>2 DEF SweepInv, RunnableKernel
  <2> QED
    BY <1>2, <2>1, <2>2, <2>3, <2>4
<1> QED
  BY <1>6, <1>7, <1>8, <1>9, <1>10 DEF SweepInv

LEMMA NextSweep ==
  ASSUME SweepInv, [Next]_sweepVars
  PROVE  SweepInv'
BY ConfigureInv, StartInv, CancelInv, SteppingInv, WarmupInv, SampleMoreInv, SampleLastInv
   DEF Next, SweepControl, StepFrame

LEMMA InvariantHolds == Spec => []SweepInv
<1> QED
  BY InitSweep, NextSweep, PTL DEF Spec

(***************************************************************************)
(* All statistics shown are of the sweep last started, from its job and    *)
(* its kernel, complete and in order.                                      *)
(***************************************************************************)
THEOREM ResultsAreTheSweeps == Spec => []StatsAreTheSweeps
<1>1. SweepInv => StatsAreTheSweeps
  BY DEF SweepInv
<1> QED
  BY <1>1, InvariantHolds, PTL

(***************************************************************************)
(* The targets are within what a profiler holds, and a running sweep is at *)
(* an available kernel, with those before it done (SweepInRange).          *)
(***************************************************************************)
THEOREM MeasuresRunnableKernels == Spec => []SweepInRange
<1>1. SweepInv => SweepInRange
  BY DEF SweepInv, Types, TypeOK, SweepInRange
<1> QED
  BY <1>1, InvariantHolds, PTL

(***************************************************************************)
(* A sweep that is not cancelled stops only when every available kernel    *)
(* has its statistics.                                                     *)
(***************************************************************************)
THEOREM SweepsAreComplete == Spec => StopsWhenDone
<1>1. ASSUME SweepInv, [Next]_sweepVars, stepping, SweepRunning, ~SweepRunning'
      PROVE  \A k \in Available : has_stats'[k]
  <2>1. SampleLast
    <3>1. ~UNCHANGED phase
      BY <1>1 DEF SweepRunning
    <3>2. ~SweepControl /\ ~StepBegin /\ ~StepReturn
      BY <1>1, <3>1 DEF SweepControl, Configure, Start, Cancel, StepBegin, StepReturn
    <3>3. ~StepWarmup /\ ~SampleMore
      BY <1>1, <3>1 DEF StepWarmup, SampleMore, SweepRunning
    <3> QED
      BY <1>1, <3>1, <3>2, <3>3 DEF Next, StepFrame, sweepVars
  <2>2. \A i \in Available : i <= kernel
    BY <1>1, <2>1, SampleLastMoves DEF SweepRunning
  <2>3. kernel \in Kernels /\ kernel \in Nat
    BY <1>1, <2>1, SampleTaken DEF SampleLast
  <2> SUFFICES ASSUME NEW k \in Available PROVE has_stats'[k]
    OBVIOUS
  <2>4. k \in Kernels /\ k \in Nat /\ k <= kernel
    <3>1. Available \subseteq Kernels /\ \A i \in Kernels : i \in Nat
      BY SweepAssumption DEF Kernels
    <3> QED
      BY <2>2, <3>1
  <2>5. has_stats[k] <=> k < kernel
    BY <1>1 DEF SweepInv, RunnableKernel
  <2>6. k = kernel \/ k < kernel
    BY <2>3, <2>4
  <2> QED
    BY <1>1, <2>1, <2>3, <2>4, <2>5, <2>6 DEF SampleLast, SweepInv, Types
<1> QED
  BY <1>1, InvariantHolds, PTL DEF Spec, StopsWhenDone

(***************************************************************************)
(* A sweep that runs or has results was started with a job and a number of *)
(* samples that its profilers hold, so the windows compared are as long as *)
(* each other and meaningful.                                              *)
(***************************************************************************)
Planned ==
  SweepRunning \/ (\E k \in Kernels : has_stats[k]) =>
    job \in Jobs /\ plan[2] \in MinSamples..SampleCapacity

THEOREM ComparesOnePlan == Spec => []Planned
<1>1. Init => Planned
  BY DEF Init, Planned, SweepRunning
<1>2. ASSUME SweepInv, Planned, [Next]_sweepVars PROVE Planned'
  <2>1. CASE \E j \in Jobs : Start(j)
    <3>1. PICK j \in Jobs : Start(j)
      BY <2>1
    <3>2. job' \in Jobs /\ plan' = <<warmup_target, sample_target>>
      BY <3>1 DEF Start
    <3> QED  BY <1>2, <3>2 DEF SweepInv, Types, Planned
  <2>2. CASE \/ Cancel \/ StepBegin \/ StepReturn \/ UNCHANGED sweepVars
             \/ \E w \in WarmupInputs, s \in SampleInputs : Configure(w, s)
    <3>1. UNCHANGED <<job, plan>> /\ has_stats' = has_stats
      BY <2>2, Zenon DEF Cancel, StepBegin, StepReturn, sweepVars, Configure
    <3>2. SweepRunning' => SweepRunning
      BY <2>2 DEF Cancel, StepBegin, StepReturn, sweepVars, Configure, SweepRunning
    <3> QED  BY <1>2, <3>1, <3>2, Zenon DEF Planned
  <2>3. CASE StepFrame
    <3>1. SweepRunning
      BY <2>3 DEF StepFrame, StepWarmup, SampleMore, SampleLast, TakeSample, SweepRunning
    <3>2. UNCHANGED <<job, plan>>
      BY <2>3 DEF StepFrame, StepWarmup, SampleMore, SampleLast
    <3> QED  BY <1>2, <3>1, <3>2, Zenon DEF Planned
  <2> QED  BY <1>2, <2>1, <2>2, <2>3, Zenon DEF Next, SweepControl
<1> QED  BY <1>1, <1>2, InvariantHolds, PTL DEF Spec

LEMMA ProductMonotone ==
  ASSUME NEW a \in Nat, NEW b \in Nat, NEW p \in Nat, a + 1 <= b
  PROVE  a * p + p <= b * p
<1>1. PICK d \in Nat : b = (a + 1) + d
  <2>1. b - (a + 1) \in Nat /\ b = (a + 1) + (b - (a + 1))
    OBVIOUS
  <2> QED  BY <2>1
<1>2. b * p = a * p + p + d * p
  BY <1>1
<1>3. d * p \in Nat /\ a * p \in Nat
  OBVIOUS
<1> QED  BY <1>2, <1>3

(***************************************************************************)
(* The progress bar of a running sweep neither starts below empty nor      *)
(* reaches full, for any number of kernels and any targets                 *)
(* (BenchmarkSweep::Progress).                                             *)
(***************************************************************************)
THEOREM ProgressStaysInBar == Spec => []ProgressInBar
<1>1. ASSUME SweepInv, SweepRunning PROVE 0 <= Done /\ Done < Total
  <2> DEFINE before == {k \in Available : k < kernel}
             within == completed + (IF phase = "Sampling" THEN warmup_target ELSE 0)
  <2>1. /\ kernel \in Available /\ completed \in Nat /\ warmup_target \in Nat
        /\ sample_target \in Nat /\ sample_target >= 1
    BY <1>1, SweepAssumption DEF SweepInv, Types, RunnableKernel
  <2>2. IsFiniteSet(Available)
    <3>1. IsFiniteSet(0..(KernelCount - 1))
      BY SweepAssumption, FS_Interval
    <3> QED  BY <3>1, SweepAssumption, FS_Subset DEF Kernels
  <2>3. /\ Cardinality(Available) \in Nat /\ Cardinality(before) \in Nat
        /\ Cardinality(before) + 1 <= Cardinality(Available)
    <3>1. before \subseteq Available /\ kernel \notin before
      BY SweepAssumption, <2>1 DEF Kernels
    <3>2. IsFiniteSet(before) /\ before \cup {kernel} \subseteq Available
      BY <2>1, <2>2, <3>1, FS_Subset
    <3>3. Cardinality(before \cup {kernel}) = Cardinality(before) + 1
      BY <3>1, <3>2, FS_AddElement
    <3>4. Cardinality(before \cup {kernel}) <= Cardinality(Available)
      BY <2>2, <3>2, FS_Subset
    <3> QED  BY <2>2, <3>2, <3>3, <3>4, FS_CardinalityType
  <2>4. within \in Nat /\ within < PerKernel /\ PerKernel \in Nat
    <3>1. CASE phase = "Sampling"
      BY <1>1, <2>1, <3>1 DEF SweepInv, Counted, PerKernel
    <3>2. CASE phase = "Warmup"
      BY <1>1, <2>1, <3>2 DEF SweepInv, Counted, PerKernel
    <3> QED  BY <1>1, <3>1, <3>2 DEF SweepRunning
  <2>5. Done = Cardinality(before) * PerKernel + within
    <3> DEFINE extra == IF phase = "Sampling" THEN warmup_target ELSE 0
    <3>1. extra \in Nat /\ completed \in Nat
      BY <2>1
    <3>2. Cardinality(before) * PerKernel \in Nat
      BY <2>3, <2>4
    <3>3. Done = Cardinality(before) * PerKernel + completed + extra
      BY DEF Done
    <3>4. within = completed + extra
      OBVIOUS
    <3> HIDE DEF extra, before, within
    <3> QED  BY <3>1, <3>2, <3>3, <3>4
  <2>6. Cardinality(before) * PerKernel + PerKernel <= Cardinality(Available) * PerKernel
    BY <2>3, <2>4, ProductMonotone
  <2> DEFINE c == Cardinality(before) * PerKernel
             t == Cardinality(Available) * PerKernel
  <2>7. c \in Nat /\ t \in Nat
    BY <2>3, <2>4
  <2> HIDE DEF before, within, c, t
  <2>8. c + within < t /\ 0 <= c + within
    <3>1. c + PerKernel <= t
      BY <2>6 DEF c, t
    <3> QED  BY <2>4, <2>7, <3>1
  <2>9. Done = c + within /\ Total = t
    BY <2>5 DEF c, t, Total
  <2> QED  BY <2>8, <2>9
<1>2. SweepInv => ProgressInBar
  BY <1>1 DEF ProgressInBar
<1> QED  BY <1>2, InvariantHolds, PTL
=============================================================================
